----------------------------- MODULE HandleState -----------------------------
(***************************************************************************)
(* HandleState<Handle> (common.h): one native Ceph handle (rados_t,        *)
(* rados_ioctx_t or rbd_image_t) behind a std::shared_mutex, together with *)
(* the number of children (contexts, images, subscriptions) opened on it.  *)
(* Every definition below is one atomic step of a thread on one handle;    *)
(* ResourceTree composes them into the operations of the addon.            *)
(***************************************************************************)
EXTENDS Integers

CONSTANTS Handle,   \* the HandleState objects a run may create
          Thread,   \* the threads of the process that touch them
          Nobody    \* "no thread", "no handle": a nullptr

ASSUME NobodyAssumption == Nobody \notin Handle /\ Nobody \notin Thread

VARIABLES native,    \* the Ceph object behind the handle: none yet, live, gone
          closed,    \* closed_; handle_ is set to nullptr in the same section
          readers,   \* the threads that hold mutex_ shared: inside use()
          writer,    \* the thread that holds mutex_ exclusively, or Nobody
          children   \* children_

handleVars == <<native, closed, readers, writer, children>>

HandleTypeOK ==
  /\ native   \in [Handle -> {"none", "live", "gone"}]
  /\ closed   \in [Handle -> BOOLEAN]
  /\ readers  \in [Handle -> SUBSET Thread]
  /\ writer   \in [Handle -> Thread \cup {Nobody}]
  /\ children \in [Handle -> Int]

HandleInit ==
  /\ native   = [h \in Handle |-> "none"]
  /\ closed   = [h \in Handle |-> FALSE]
  /\ readers  = [h \in Handle |-> {}]
  /\ writer   = [h \in Handle |-> Nobody]
  /\ children = [h \in Handle |-> 0]

-----------------------------------------------------------------------------
(* use(): a shared lock around the native call, a throw when closed.        *)

\* Mutant: the closed_ test of use() is missing.
BeginUseUnchecked(t, h) ==
  /\ writer[h] = Nobody
  /\ readers' = [readers EXCEPT ![h] = @ \cup {t}]
  /\ UNCHANGED <<native, closed, writer, children>>

\* Mutant: use() takes the mutex exclusively.
BeginUseAlone(t, h) ==
  /\ writer[h] = Nobody /\ readers[h] = {}
  /\ ~closed[h]
  /\ readers' = [readers EXCEPT ![h] = {t}]
  /\ UNCHANGED <<native, closed, writer, children>>

BeginUse(t, h) ==
  /\ writer[h] = Nobody
  /\ ~closed[h]
  /\ readers' = [readers EXCEPT ![h] = @ \cup {t}]
  /\ UNCHANGED <<native, closed, writer, children>>

\* `throw std::runtime_error("resource is closed")`: nothing changes here.
RefuseUse(h) ==
  /\ writer[h] = Nobody
  /\ closed[h]
  /\ UNCHANGED handleVars

EndUse(t, h) ==
  /\ readers' = [readers EXCEPT ![h] = @ \ {t}]
  /\ UNCHANGED <<native, closed, writer, children>>

-----------------------------------------------------------------------------
(* close_now(): the exclusive lock is taken when no thread holds the mutex, *)
(* whoever else is waiting for it; closed_ is set, then close_(handle) runs *)
(* under the lock.  A second call returns 0 at once.                        *)

\* Mutant: close_now takes the mutex shared.
BeginCloseShared(t, h) ==
  /\ writer[h] = Nobody
  /\ ~closed[h]
  /\ closed' = [closed EXCEPT ![h] = TRUE]
  /\ writer' = [writer EXCEPT ![h] = t]
  /\ UNCHANGED <<native, readers, children>>

BeginClose(t, h) ==
  /\ writer[h] = Nobody
  /\ readers[h] = {}
  /\ ~closed[h]
  /\ closed' = [closed EXCEPT ![h] = TRUE]
  /\ writer' = [writer EXCEPT ![h] = t]
  /\ UNCHANGED <<native, readers, children>>

CloseAgain(h) ==
  /\ writer[h] = Nobody
  /\ readers[h] = {}
  /\ closed[h]
  /\ UNCHANGED handleVars

\* The native half of close_: rados_shutdown, rados_ioctx_destroy, rbd_close.
DestroyNative(h) ==
  /\ native' = [native EXCEPT ![h] = "gone"]
  /\ UNCHANGED <<closed, readers, writer, children>>

\* Mutant: close_now returns without releasing the mutex.
EndCloseLocked(h) == UNCHANGED handleVars

EndClose(h) ==
  /\ writer' = [writer EXCEPT ![h] = Nobody]
  /\ UNCHANGED <<native, closed, readers, children>>

-----------------------------------------------------------------------------
(* The rest of the class: construction on a new native handle, and children_*)

CreateNative(h) ==
  /\ native' = [native EXCEPT ![h] = "live"]
  /\ UNCHANGED <<closed, readers, writer, children>>

AddChild(h) ==
  /\ children' = [children EXCEPT ![h] = @ + 1]
  /\ UNCHANGED <<native, closed, readers, writer>>

RemoveChild(h) ==
  /\ children' = [children EXCEPT ![h] = @ - 1]
  /\ UNCHANGED <<native, closed, readers, writer>>

\* Mutant: off by one.
HasOtherChildren(h) == children[h] > 1

\* close_checked(): the load of children_, outside the mutex.
HasChildren(h) == children[h] # 0
=============================================================================
