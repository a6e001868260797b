------------------------------ MODULE EventFeed ------------------------------
(***************************************************************************)
(* The two subscriptions of events.cpp that only count what they lose: the *)
(* monitor log of a cluster and the update watch of an image.  A Ceph      *)
(* thread runs monitor_log_cb or image_update_cb: it takes the counter of  *)
(* Data, puts an event that stands for what it took and for its own item   *)
(* into the bounded queue of the thread-safe function, and adds both back  *)
(* when the queue is full.  The JS thread dispatches; a worker closes.     *)
(*                                                                         *)
(* An item is one log entry or one update signal.  The integer Data        *)
(* counts with (dropped, coalesced) is modelled by the set of the items it *)
(* stands for: CountedOnce says that none is ever added twice, so that the *)
(* integer is the size of the set (EventFeedProofs, ItemsCountAsIntegers). *)
(*                                                                         *)
(* The two differ in how Ceph registers them.  Each update watch has a     *)
(* registration of its own; a cluster has one slot for a log callback,     *)
(* which a registration replaces and any close empties.                    *)
(***************************************************************************)
EXTENDS Integers, Sequences

CONSTANTS Feed,       \* the subscriptions made on one cluster and on its images
          Log,        \* those to its monitor log; the others are update watches
          Callback,   \* the Ceph threads that run callbacks
          Item,       \* what Ceph reports
          QueueSize,  \* of each thread-safe function
          OneAtATime, \* does the client await a close before it subscribes again?
          None        \* no item, no feed

ASSUME FeedAssumption ==
  /\ QueueSize \in Nat \ {0}   \* Create throws a RangeError on 0
  /\ Log \subseteq Feed /\ OneAtATime \in BOOLEAN
  /\ None \notin Item /\ None \notin Feed

VARIABLES
  sent,        \* the items Ceph has reported to some feed
  registered,  \* the feeds Ceph calls back
  cb,          \* what each Ceph thread does: its step, the feed, the item, what it took
  queue,       \* of each feed: the events, as sets of items
  owed,        \* Data::dropped, Data::coalesced
  phase,       \* how far the feed has come: Create, #closed, Data::close
  told,        \* items emitted to the listeners: "log", "overflow", "update"
  unheard,     \* items of events discarded because of #closed
  unseen       \* history: items reported since a listener last ran

vars == <<sent, registered, cb, queue, owed, phase, told, unheard, unseen>>

Doing == [at : {"idle", "check", "take", "push", "countback"},
          feed : Feed \cup {None}, item : Item \cup {None}, took : SUBSET Item]

Idle == [at |-> "idle", feed |-> None, item |-> None, took |-> {}]

\* #closed is set when the close begins, Data::closed one step later.
JsClosed(f) == phase[f] \in {"closing", "closed", "off", "done"}
DataClosed(f) == phase[f] \in {"closed", "off", "done"}

TypeOK ==
  /\ sent \subseteq Item /\ registered \subseteq Feed
  /\ cb \in [Callback -> Doing]
  /\ queue \in [Feed -> Seq(SUBSET Item)]
  /\ \A f \in Feed : Len(queue[f]) <= QueueSize
  /\ owed \in [Feed -> SUBSET Item]
  /\ phase \in [Feed -> {"absent", "open", "closing", "closed", "off", "done"}]
  /\ told \in [Feed -> SUBSET Item]
  /\ unheard \in [Feed -> SUBSET Item]
  /\ unseen \in [Feed -> SUBSET Item]

Init ==
  /\ sent = {} /\ registered = {}
  /\ cb = [c \in Callback |-> Idle]
  /\ queue = [f \in Feed |-> <<>>]
  /\ owed = [f \in Feed |-> {}]
  /\ phase = [f \in Feed |-> "absent"]
  /\ told = [f \in Feed |-> {}]
  /\ unheard = [f \in Feed |-> {}]
  /\ unseen = [f \in Feed |-> {}]

-----------------------------------------------------------------------------
(* Ceph.  A callback is started on a registered feed; a change of the       *)
(* registration waits for the callbacks in flight that it concerns:         *)
(* librados runs them under the lock a registration takes, and librbd       *)
(* completes an unregistration after the last of them.                      *)

Signal(c, f, n) ==
  /\ f \in registered /\ n \notin sent /\ cb[c].at = "idle"
  /\ sent' = sent \cup {n}
  /\ cb' = [cb EXCEPT ![c] = [at |-> "check", feed |-> f, item |-> n, took |-> {}]]
  /\ unseen' = [unseen EXCEPT ![f] = @ \cup {n}]
  /\ UNCHANGED <<registered, queue, owed, phase, told, unheard>>

\* The feeds that share the registration of f.
SharedWith(f) == IF f \in Log THEN Log ELSE {f}

Quiet(f) == \A c \in Callback : cb[c].feed \notin SharedWith(f)

\* rados_monitor_log2 replaces the callback; rbd_update_watch adds one.
Registering(f) == (registered \ SharedWith(f)) \cup {f}

\* rados_monitor_log2(nullptr) empties the slot, whoever is in it.
Unregistering(f) == registered \ SharedWith(f)

-----------------------------------------------------------------------------
(* monitor_log_cb and image_update_cb, step by atomic step.                 *)

Goto(c, step, took) ==
  cb' = [cb EXCEPT ![c] = [at |-> step, feed |-> cb[c].feed, item |-> cb[c].item, took |-> took]]
Return(c) == cb' = [cb EXCEPT ![c] = Idle]

\* `if (data->closed.load()) return`: the item is not counted.
Check(c) ==
  /\ cb[c].at = "check"
  /\ IF DataClosed(cb[c].feed) THEN Return(c) ELSE Goto(c, "take", {})
  /\ UNCHANGED <<sent, registered, queue, owed, phase, told, unheard, unseen>>

\* Mutant: the counter is loaded, and not reset.
TakeCopy(c) ==
  /\ cb[c].at = "take"
  /\ Goto(c, "push", owed[cb[c].feed])
  /\ UNCHANGED <<sent, registered, queue, owed, phase, told, unheard, unseen>>

\* Mutant: while items are owed, another one just joins them.
TakeOrJoin(c) ==
  /\ cb[c].at = "take"
  /\ LET f == cb[c].feed IN
       Goto(c, IF owed[f] = {} THEN "push" ELSE "countback", {})
  /\ UNCHANGED <<sent, registered, queue, owed, phase, told, unheard, unseen>>

\* exchange(0)
Take(c) ==
  /\ cb[c].at = "take"
  /\ Goto(c, "push", owed[cb[c].feed])
  /\ owed' = [owed EXCEPT ![cb[c].feed] = {}]
  /\ UNCHANGED <<sent, registered, queue, phase, told, unheard, unseen>>

\* What the event, or the value added back, stands for: `dropped + 1`.
StandsFor(c) == cb[c].took \cup {cb[c].item}

\* Mutant: the queue takes one event too many.
PushBeyond(c) ==
  /\ cb[c].at = "push" /\ Len(queue[cb[c].feed]) <= QueueSize
  /\ queue' = [queue EXCEPT ![cb[c].feed] = Append(@, StandsFor(c))]
  /\ Return(c)
  /\ UNCHANGED <<sent, registered, owed, phase, told, unheard, unseen>>

\* NonBlockingCall: napi_ok while the queue has room.
Push(c) ==
  /\ cb[c].at = "push" /\ Len(queue[cb[c].feed]) < QueueSize
  /\ queue' = [queue EXCEPT ![cb[c].feed] = Append(@, StandsFor(c))]
  /\ Return(c)
  /\ UNCHANGED <<sent, registered, owed, phase, told, unheard, unseen>>

\* napi_queue_full
PushFails(c) ==
  /\ cb[c].at = "push" /\ Len(queue[cb[c].feed]) >= QueueSize
  /\ Goto(c, "countback", cb[c].took)
  /\ UNCHANGED <<sent, registered, queue, owed, phase, told, unheard, unseen>>

\* Mutant: only what was taken is added back.
CountBackTaken(c) ==
  /\ cb[c].at = "countback"
  /\ owed' = [owed EXCEPT ![cb[c].feed] = @ \cup cb[c].took]
  /\ Return(c)
  /\ UNCHANGED <<sent, registered, queue, phase, told, unheard, unseen>>

\* fetch_add
CountBack(c) ==
  /\ cb[c].at = "countback"
  /\ owed' = [owed EXCEPT ![cb[c].feed] = @ \cup StandsFor(c)]
  /\ Return(c)
  /\ UNCHANGED <<sent, registered, queue, phase, told, unheard, unseen>>

-----------------------------------------------------------------------------
(* The JS thread: dispatch, Create, close().                                *)

\* "overflow" and "log" for an entry, one "update" for signals.
Dispatch(f) ==
  /\ queue[f] # <<>> /\ ~JsClosed(f)
  /\ queue' = [queue EXCEPT ![f] = Tail(@)]
  /\ told' = [told EXCEPT ![f] = @ \cup Head(queue[f])]
  /\ unseen' = [unseen EXCEPT ![f] = {}]
  /\ UNCHANGED <<sent, registered, cb, owed, phase, unheard>>

\* After close() events are dropped; Release lets the queue run empty.
Discard(f) ==
  /\ queue[f] # <<>> /\ JsClosed(f)
  /\ queue' = [queue EXCEPT ![f] = Tail(@)]
  /\ unheard' = [unheard EXCEPT ![f] = @ \cup Head(queue[f])]
  /\ UNCHANGED <<sent, registered, cb, owed, phase, told, unseen>>

MayCreate(f) ==
  /\ phase[f] = "absent"
  /\ OneAtATime => \A g \in Feed : phase[g] \in {"absent", "done"}

\* Mutant: the result of the registration is not looked at.
CreateUnchecked(f) ==
  /\ MayCreate(f) /\ Quiet(f)
  /\ registered' \in {registered, Registering(f)}
  /\ phase' = [phase EXCEPT ![f] = "open"]
  /\ UNCHANGED <<sent, cb, queue, owed, told, unheard, unseen>>

Create(f) ==
  /\ MayCreate(f) /\ Quiet(f)
  /\ registered' = Registering(f)
  /\ phase' = [phase EXCEPT ![f] = "open"]
  /\ UNCHANGED <<sent, cb, queue, owed, told, unheard, unseen>>

\* `if (result < 0)`: closed, released, and an exception.
CreateFails(f) ==
  /\ MayCreate(f)
  /\ phase' = [phase EXCEPT ![f] = "done"]
  /\ UNCHANGED <<sent, registered, cb, queue, owed, told, unheard, unseen>>

JsClose(f) ==
  /\ phase[f] = "open"
  /\ phase' = [phase EXCEPT ![f] = "closing"]
  /\ UNCHANGED <<sent, registered, cb, queue, owed, told, unheard, unseen>>

-----------------------------------------------------------------------------
(* Data::close on a worker.                                                 *)

\* Mutant: the callback is never unregistered.
ExchangeOnly(f) ==
  /\ phase[f] = "closing"
  /\ phase' = [phase EXCEPT ![f] = "off"]
  /\ UNCHANGED <<sent, registered, cb, queue, owed, told, unheard, unseen>>

Exchange(f) ==
  /\ phase[f] = "closing"
  /\ phase' = [phase EXCEPT ![f] = "closed"]
  /\ UNCHANGED <<sent, registered, cb, queue, owed, told, unheard, unseen>>

\* Mutant: a failed unregistration returns before the release.
UnregisterOrReturn(f) ==
  /\ phase[f] = "closed" /\ Quiet(f)
  /\ \/ registered' = Unregistering(f) /\ phase' = [phase EXCEPT ![f] = "off"]
     \/ UNCHANGED registered /\ phase' = [phase EXCEPT ![f] = "absent"]
  /\ UNCHANGED <<sent, cb, queue, owed, told, unheard, unseen>>

Unregister(f) ==
  /\ phase[f] = "closed" /\ Quiet(f)
  /\ registered' = Unregistering(f)
  /\ phase' = [phase EXCEPT ![f] = "off"]
  /\ UNCHANGED <<sent, cb, queue, owed, told, unheard, unseen>>

Release(f) ==
  /\ phase[f] = "off"
  /\ phase' = [phase EXCEPT ![f] = "done"]
  /\ UNCHANGED <<sent, registered, cb, queue, owed, told, unheard, unseen>>

-----------------------------------------------------------------------------
CallbackStep(c) == Check(c) \/ Take(c) \/ Push(c) \/ PushFails(c) \/ CountBack(c)

EventLoop(f) == Dispatch(f) \/ Discard(f)

CloseStep(f) == Exchange(f) \/ Unregister(f) \/ Release(f)

Next ==
  \/ \E c \in Callback :
       CallbackStep(c) \/ \E f \in Feed, n \in Item : Signal(c, f, n)
  \/ \E f \in Feed : EventLoop(f) \/ Create(f) \/ CreateFails(f) \/ JsClose(f) \/ CloseStep(f)

\* Ceph's threads and the workers keep running and the event loop serves every
\* thread-safe function.  Ceph and the client owe nothing.
Fairness ==
  /\ \A c \in Callback : WF_vars(CallbackStep(c))
  /\ \A f \in Feed : WF_vars(EventLoop(f)) /\ WF_vars(CloseStep(f))

Spec == Init /\ [][Next]_vars /\ Fairness
-----------------------------------------------------------------------------
(* Properties.                                                              *)

\* The items a Ceph thread is about to queue or to add back.
Carries(c) == CASE cb[c].at = "take" -> {cb[c].item}
                [] cb[c].at \in {"push", "countback"} -> StandsFor(c)
                [] OTHER -> {}

Apart(S, T) == S \cap T = {}

\* events.cpp:193, 208, 284, 291.  A feed counts an item in at most one place,
\* whatever exchanges and additions interleave: the counter, a callback, a queued
\* event, what the listeners were told, or what a close threw away.
CountedOnce ==
  /\ \A f \in Feed : Apart(owed[f], told[f] \cup unheard[f]) /\ Apart(told[f], unheard[f])
  /\ \A f \in Feed : \A i \in DOMAIN queue[f] :
       /\ Apart(queue[f][i], owed[f] \cup told[f] \cup unheard[f])
       /\ \A j \in DOMAIN queue[f] : i # j => Apart(queue[f][i], queue[f][j])
  /\ \A c \in Callback : cb[c].at # "idle" =>
       LET f == cb[c].feed IN
         /\ Apart(Carries(c), owed[f] \cup told[f] \cup unheard[f])
         /\ \A i \in DOMAIN queue[f] : Apart(Carries(c), queue[f][i])
         /\ \A d \in Callback : d # c /\ cb[d].feed = f => Apart(Carries(c), Carries(d))

\* events.cpp:177, 275: unlike a watch, these are released without a flush.  No
\* callback is then in flight, and none can start.
ReleasedWhenQuiet ==
  \A f \in Feed : phase[f] = "done" =>
    f \notin registered /\ \A c \in Callback : cb[c].feed # f

\* events.cpp:289-292, README.md:85 "coalesced when JavaScript falls behind".  A
\* listener that looks at the image again on every update is never left behind: a
\* signal none has run since is in a callback, or has an event queued after it.
UnseenQueued ==
  \A f \in Feed : phase[f] = "open" /\ unseen[f] # {} =>
    queue[f] # <<>> \/ \E c \in Callback : cb[c].feed = f /\ cb[c].item \in unseen[f]
                                           /\ cb[c].at \in {"check", "take", "push"}

\* The same as time goes by: a listener runs after every signal.
SignalSeen == \A f \in Feed \ Log, n \in Item : n \in unseen[f] ~> n \notin unseen[f] \/ JsClosed(f)

\* events.cpp:172-180, 269-278.  A close waits for callbacks only, and ends.
CloseEnds == \A f \in Feed : phase[f] = "closing" ~> phase[f] = "done"

\* README.md:87, "only one monitor-log callback can be active".  For a client that
\* subscribes again after its last close has resolved, an open subscription is it.
OpenIsHeard == \A f \in Feed : phase[f] = "open" => f \in registered

\* Nothing counted is forgotten or told twice: the feeds are lossy channels.
Queued(f) == UNION {queue[f][i] : i \in DOMAIN queue[f]}

Pending == [f \in Feed |-> owed[f] \cup Queued(f)
                           \cup UNION {Carries(c) : c \in {d \in Callback : cb[d].feed = f}}]

Channel == INSTANCE LossyChannel
  WITH pending <- Pending, discarded <- unheard, closed <- [f \in Feed |-> JsClosed(f)]

KeepsEveryItem == Channel!Spec
=============================================================================
