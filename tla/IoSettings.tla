----------------------------- MODULE IoSettings ------------------------------
(***************************************************************************)
(* The settings of an I/O context: setNamespace, setLocatorKey and         *)
(* setReadSnapshot change the native context at once, on the JS thread and *)
(* under its shared lock (io_context.cpp:98-107), while the operations     *)
(* called before them wait in the libuv pool or run on its workers, under  *)
(* the same shared lock.  librados reads the settings when an operation    *)
(* starts; acknowledgements of a watch are such operations.                *)
(*                                                                         *)
(* A setting is known by the number of the set call that made it.  One     *)
(* that is read while it is being written may be anything: it is Torn.     *)
(***************************************************************************)
EXTENDS Integers

CONSTANTS Op,       \* operations of the context
          MaxSets,  \* bound on the set calls
          None, Torn

ASSUME SettingsAssumption ==
  MaxSets \in Nat /\ None \notin Nat /\ Torn \notin Nat /\ None # Torn

VARIABLES
  made,     \* how many set calls have been made
  setting,  \* the set call whose value the context has; 0: as it was opened
  writing,  \* is one being carried out?
  watch,    \* the setting the watch was registered under, if it was
  op        \* of each operation: its step, and the settings it was meant for, has
            \* run under, and has left behind when it returned

vars == <<made, setting, writing, watch, op>>

Version == 0..MaxSets

Operation == [at : {"none", "queued", "running", "done"},
              meant : Version, ran : Version \cup {None, Torn}, left : Version]

TypeOK ==
  /\ made \in Version /\ setting \in Version
  /\ writing \in BOOLEAN
  /\ watch \in Version \cup {None}
  /\ op \in [Op -> Operation]

Init ==
  /\ made = 0 /\ setting = 0 /\ writing = FALSE /\ watch = None
  /\ op = [o \in Op |-> [at |-> "none", meant |-> 0, ran |-> None, left |-> 0]]

-----------------------------------------------------------------------------
(* The JS thread, which does nothing else while it carries out a set.      *)

Set ==
  /\ made < MaxSets /\ ~writing
  /\ made' = made + 1
  /\ writing' = TRUE
  /\ UNCHANGED <<setting, watch, op>>

SetDone ==
  /\ writing
  /\ setting' = made
  /\ writing' = FALSE
  /\ UNCHANGED <<made, watch, op>>

\* Mutant: the set is a job of a worker, and the JS thread does not wait for it.
CallDuringSet(o) ==
  /\ op[o].at = "none"
  /\ op' = [op EXCEPT ![o] = [at |-> "queued", meant |-> made, ran |-> None, left |-> 0]]
  /\ UNCHANGED <<made, setting, writing, watch>>

\* IoContext.read and the like: queued; librados reads the settings when it runs.
Call(o) ==
  /\ op[o].at = "none" /\ ~writing
  /\ op' = [op EXCEPT ![o] = [at |-> "queued", meant |-> made, ran |-> None, left |-> 0]]
  /\ UNCHANGED <<made, setting, writing, watch>>

\* ObjectWatchWrap::Create calls rados_watch3 on the JS thread.
Watch ==
  /\ watch = None /\ ~writing
  /\ watch' = setting
  /\ UNCHANGED <<made, setting, writing, op>>

\* An acknowledgement, of a worker or of object_watch_cb: it is meant for the object
\* that was watched.
Acknowledge(o) ==
  /\ op[o].at = "none" /\ watch # None
  /\ op' = [op EXCEPT ![o] = [at |-> "queued", meant |-> watch, ran |-> None, left |-> 0]]
  /\ UNCHANGED <<made, setting, writing, watch>>

-----------------------------------------------------------------------------
(* Workers and Ceph threads.                                               *)

\* use(): the shared lock keeps no set away.
Run(o) ==
  /\ op[o].at = "queued"
  /\ op' = [op EXCEPT ![o] = [at |-> "running", meant |-> op[o].meant,
                              ran |-> IF writing THEN Torn ELSE setting, left |-> 0]]
  /\ UNCHANGED <<made, setting, writing, watch>>

Return(o) ==
  /\ op[o].at = "running"
  /\ op' = [op EXCEPT ![o] = [at |-> "done", meant |-> op[o].meant,
                              ran |-> op[o].ran, left |-> made]]
  /\ UNCHANGED <<made, setting, writing, watch>>

Next ==
  \/ Set \/ SetDone \/ Watch
  \/ \E o \in Op : Call(o) \/ Acknowledge(o) \/ Run(o) \/ Return(o)

Spec == Init /\ [][Next]_vars
-----------------------------------------------------------------------------
(* Properties.                                                             *)

\* io_context.cpp:98-107.  An operation runs under a setting that was current at some
\* time between its call and its return, never under an older one; it runs under its
\* own, untorn, if nothing is set in between, and an acknowledgement if nothing is
\* set as long as the watch is open.
WithinCall ==
  \A o \in Op : op[o].at = "done" =>
    IF op[o].ran = Torn THEN op[o].meant < op[o].left
                        ELSE op[o].meant <= op[o].ran /\ op[o].ran <= op[o].left
=============================================================================
