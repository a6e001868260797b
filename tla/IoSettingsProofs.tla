-------------------------- MODULE IoSettingsProofs ---------------------------
(***************************************************************************)
(* IoSettings for any operations and number of sets: its types and         *)
(* WithinCall.  The context has the setting of the last set call unless    *)
(* one is being carried out (Current), and what an operation has run under *)
(* lies between what it was meant for and what has been set since.         *)
(***************************************************************************)
EXTENDS IoSettings, TLAPS

Current == setting <= made /\ (~writing => setting = made) /\ (writing => setting < made)

Watched == watch # None => watch <= setting

\* The JS thread calls only between sets, so that a set that tears an operation
\* was made after its call.
Within(o) ==
  /\ op[o].at # "none" => op[o].meant <= setting
  /\ op[o].at = "running" =>
       IF op[o].ran = Torn THEN op[o].meant < made
                           ELSE op[o].ran \in Version /\ op[o].meant <= op[o].ran /\ op[o].ran <= made
  /\ op[o].at = "done" =>
       IF op[o].ran = Torn THEN op[o].meant < op[o].left
                           ELSE /\ op[o].ran \in Version
                                /\ op[o].meant <= op[o].ran /\ op[o].ran <= op[o].left

IInv == TypeOK /\ Current /\ Watched /\ \A o \in Op : Within(o)

LEMMA InitIInv == Init => IInv
<1> SUFFICES ASSUME Init PROVE IInv
  OBVIOUS
<1>1. 0 \in Version
  BY SettingsAssumption DEF Version
<1>2. TypeOK
  BY <1>1 DEF Init, TypeOK, Operation
<1> QED
  BY <1>1, <1>2 DEF Init, IInv, Current, Watched, Within

LEMMA NextIInv == IInv /\ [Next]_vars => IInv'
<1> SUFFICES ASSUME IInv, [Next]_vars PROVE IInv'
  OBVIOUS
<1> USE SettingsAssumption DEF IInv, TypeOK, Version
<1>1. CASE Set
  BY <1>1 DEF Set, Operation, Current, Watched, Within
<1>2. CASE SetDone
  <2>1. Current'
    BY <1>2 DEF SetDone, Current
  <2>4. TypeOK'
    BY <1>2 DEF SetDone
  <2>2. Watched'
    BY <1>2 DEF SetDone, Current, Watched
  <2>3. ASSUME NEW o \in Op PROVE Within(o)'
    <3>1. Within(o) /\ op[o] \in Operation
      OBVIOUS
    <3> QED
      BY <1>2, <3>1 DEF SetDone, Operation, Current, Within
  <2> QED
    BY <2>1, <2>2, <2>3, <2>4
<1>3. CASE Watch
  BY <1>3 DEF Watch, Current, Watched, Within
<1>4. ASSUME NEW o \in Op, Call(o) PROVE IInv'
  BY <1>4 DEF Call, Operation, Current, Watched, Within
<1>5. ASSUME NEW o \in Op, Acknowledge(o) PROVE IInv'
  BY <1>5 DEF Acknowledge, Operation, Current, Watched, Within
<1>6. ASSUME NEW o \in Op, Run(o) PROVE IInv'
  BY <1>6 DEF Run, Operation, Current, Watched, Within
<1>7. ASSUME NEW o \in Op, Return(o) PROVE IInv'
  BY <1>7 DEF Return, Operation, Current, Watched, Within
<1>8. CASE UNCHANGED vars
  BY <1>8 DEF vars, Current, Watched, Within
<1> QED
  BY <1>1, <1>2, <1>3, <1>4, <1>5, <1>6, <1>7, <1>8 DEF Next

THEOREM Invariant == Spec => []IInv
BY InitIInv, NextIInv, PTL DEF Spec

\* The variables keep their types.
THEOREM TypeCorrect == Spec => []TypeOK
<1>1. IInv => TypeOK
  BY DEF IInv
<1> QED
  BY <1>1, Invariant, PTL

\* io_context.cpp:98-107.  However many operations and sets there are, an operation
\* runs under a setting that was current between its call and its return.
THEOREM SettingsLinearizable == Spec => []WithinCall
<1>1. IInv => WithinCall
  BY SettingsAssumption DEF IInv, Within, WithinCall
<1> QED
  BY <1>1, Invariant, PTL
=============================================================================
