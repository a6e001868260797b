------------------------------ MODULE Lifecycle ------------------------------
(***************************************************************************)
(* What librados and librbd ask of their callers, and what the addon       *)
(* therefore promises: a handle is opened under a live parent, called only *)
(* while it lives, and destroyed once, when no call is inside it.  That no *)
(* registration and no child is left on it either takes a careful client.  *)
(***************************************************************************)
EXTENDS FiniteSets

CONSTANTS Handle, Thread, Sub,
          Parent,   \* of a handle; its domain leaves out the roots
          Source,   \* the handle of a registration
          Careful   \* is nothing freed that something was opened on?

VARIABLES native,      \* none, live or gone
          calls,       \* the threads inside a native call on the handle
          registered   \* the subscriptions Ceph holds callbacks of

vars == <<native, calls, registered>>

Init ==
  /\ native = [h \in Handle |-> "none"]
  /\ calls = [h \in Handle |-> {}]
  /\ registered = {}

\* A child is opened by a call on its parent.
Open(h) ==
  /\ native[h] = "none"
  /\ h \in DOMAIN Parent => native[Parent[h]] = "live" /\ calls[Parent[h]] # {}
  /\ native' = [native EXCEPT ![h] = "live"]
  /\ UNCHANGED <<calls, registered>>

Begin(t, h) ==
  /\ native[h] = "live"
  /\ calls' = [calls EXCEPT ![h] = @ \cup {t}]
  /\ UNCHANGED <<native, registered>>

End(t, h) ==
  /\ t \in calls[h]
  /\ calls' = [calls EXCEPT ![h] = @ \ {t}]
  /\ UNCHANGED <<native, registered>>

Register(s) ==
  /\ s \notin registered /\ calls[Source[s]] # {}
  /\ registered' = registered \cup {s}
  /\ UNCHANGED <<native, calls>>

Unregister(s) ==
  /\ s \in registered /\ calls[Source[s]] # {}
  /\ registered' = registered \ {s}
  /\ UNCHANGED <<native, calls>>

\* Nothing is left on the handle.
Empty(h) ==
  /\ \A s \in registered : Source[s] # h
  /\ \A k \in DOMAIN Parent : Parent[k] = h => native[k] # "live"

Free(h) ==
  /\ native[h] = "live" /\ calls[h] = {}
  /\ Careful => Empty(h)
  /\ native' = [native EXCEPT ![h] = "gone"]
  /\ UNCHANGED <<calls, registered>>

\* A registration whose handle was freed under it cannot be taken back any more.
GiveUp(s) ==
  /\ ~Careful
  /\ s \in registered /\ native[Source[s]] = "gone"
  /\ registered' = registered \ {s}
  /\ UNCHANGED <<native, calls>>

Next ==
  \/ \E h \in Handle : Open(h) \/ Free(h) \/ \E t \in Thread : Begin(t, h) \/ End(t, h)
  \/ \E s \in Sub : Register(s) \/ Unregister(s) \/ GiveUp(s)

Spec == Init /\ [][Next]_vars
=============================================================================
