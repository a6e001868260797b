---------------------------- MODULE LossyChannel ----------------------------
(***************************************************************************)
(* What a subscription promises of the things it counts (log entries,      *)
(* update signals, lost notifications) whatever its bounded queue, its     *)
(* counter and its threads do: each one taken stays pending until it is    *)
(* told to the listeners, once, or thrown away by a subscription that the  *)
(* client has closed.  Several may be told at once, in any order.          *)
(***************************************************************************)
CONSTANTS Feed,   \* the subscriptions
          Item    \* the things they count

VARIABLES pending,    \* of each feed: taken, not told yet
          told,       \* told to the listeners
          discarded,  \* thrown away after the close
          closed      \* has the client closed the feed?

vars == <<pending, told, discarded, closed>>

Init ==
  /\ pending = [f \in Feed |-> {}]
  /\ told = [f \in Feed |-> {}]
  /\ discarded = [f \in Feed |-> {}]
  /\ closed = [f \in Feed |-> FALSE]

Put(f, n) ==
  /\ n \notin pending[f] \cup told[f] \cup discarded[f]
  /\ pending' = [pending EXCEPT ![f] = @ \cup {n}]
  /\ UNCHANGED <<told, discarded, closed>>

Tell(f, S) ==
  /\ ~closed[f] /\ S \subseteq pending[f]
  /\ pending' = [pending EXCEPT ![f] = @ \ S]
  /\ told' = [told EXCEPT ![f] = @ \cup S]
  /\ UNCHANGED <<discarded, closed>>

Close(f) ==
  /\ closed' = [closed EXCEPT ![f] = TRUE]
  /\ UNCHANGED <<pending, told, discarded>>

Discard(f, S) ==
  /\ closed[f] /\ S \subseteq pending[f]
  /\ pending' = [pending EXCEPT ![f] = @ \ S]
  /\ discarded' = [discarded EXCEPT ![f] = @ \cup S]
  /\ UNCHANGED <<told, closed>>

Next ==
  \E f \in Feed :
    \/ Close(f)
    \/ \E n \in Item : Put(f, n)
    \/ \E S \in SUBSET Item : Tell(f, S) \/ Discard(f, S)

Spec == Init /\ [][Next]_vars
=============================================================================
