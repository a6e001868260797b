----------------------------- MODULE ObjectWatch -----------------------------
(***************************************************************************)
(* One watch on a RADOS object (events.cpp) and its EventEmitter           *)
(* (index.ts): Ceph threads run object_watch_cb and object_watch_error_cb, *)
(* which feed the bounded queue of a thread-safe function; the JS thread   *)
(* dispatches the queue; acknowledgements and the close run on workers.    *)
(* The atomic counter Data::dropped is modelled by the set of the          *)
(* notifications it counts: LossAccounting says that no notification is    *)
(* ever added twice, so that its value is the size of the set              *)
(* (ObjectWatchProofs, LossesCountAsIntegers).                             *)
(***************************************************************************)
EXTENDS Integers, Sequences

CONSTANTS Note,       \* the notifications the object receives
          Callback,   \* the Ceph threads that run callbacks
          QueueSize,  \* of the thread-safe function
          MaxErrors,  \* bound: how often the watch reports an error
          AutoAck,    \* the autoAck option
          None        \* no notification: an error event

ASSUME WatchAssumption ==
  /\ QueueSize \in Nat \ {0}   \* Create throws a RangeError on 0
  /\ MaxErrors \in Nat
  /\ AutoAck \in BOOLEAN
  /\ None \notin Note

VARIABLES
  sent,          \* notifications on their way to the client
  errors,        \* how many errors the watch has reported
  cb,            \* what each Ceph thread does: its step, the event, the losses it took
  queue,         \* the events in the thread-safe function
  dropped,       \* Data::dropped, as a set
  closed,        \* Data::closed
  registered,    \* does Ceph call back?
  released,      \* has callback.Release() been called?
  closing,       \* the next step of Data::close on its worker
  jsClosed,      \* #closed
  acknowledged,  \* `acknowledged` in the closure of each delivered notification
  ackJob,        \* the notifications whose ack runs on a worker
  acked,         \* how many acknowledgements Ceph has got for each notification
  failed,        \* the notifications an acknowledgement of which has failed
  lost,          \* notifications that found the queue full
  delivered,     \* notifications emitted to the listeners
  thrown,        \* those of them whose listener threw
  reported,      \* losses emitted as "overflow"
  unheard,       \* losses whose event was discarded because of #closed
  refused        \* notifications whose ack() was answered "already acknowledged"

data == <<dropped, closed, registered, released, closing>>
js == <<jsClosed, acknowledged, delivered, thrown, reported, unheard, refused>>
acks == <<acked, failed>>
vars == <<sent, errors, cb, queue, data, js, ackJob, acks, lost>>

Event == [note : Note \cup {None}, dropped : SUBSET Note]

Doing == [at : {"idle", "check", "take", "push", "countback", "emptyack"},
          note : Note \cup {None}, took : SUBSET Note]

Idle == [at |-> "idle", note |-> None, took |-> {}]

TypeOK ==
  /\ sent \subseteq Note /\ errors \in 0..MaxErrors
  /\ cb \in [Callback -> Doing]
  /\ queue \in Seq(Event) /\ Len(queue) <= QueueSize
  /\ dropped \subseteq Note
  /\ closed \in BOOLEAN /\ registered \in BOOLEAN /\ released \in BOOLEAN
  /\ closing \in {"open", "exchange", "unwatch", "flush", "release", "done"}
  /\ jsClosed \in BOOLEAN
  /\ acknowledged \subseteq Note /\ ackJob \subseteq Note /\ refused \subseteq Note
  /\ acked \in [Note -> 0..2] /\ failed \subseteq Note
  /\ lost \subseteq Note /\ delivered \subseteq Note /\ thrown \subseteq Note
  /\ reported \subseteq Note /\ unheard \subseteq Note

Init ==
  /\ sent = {} /\ errors = 0
  /\ cb = [c \in Callback |-> Idle]
  /\ queue = <<>>
  /\ dropped = {} /\ closed = FALSE /\ registered = TRUE /\ released = FALSE
  /\ closing = "open"
  /\ jsClosed = FALSE /\ acknowledged = {} /\ delivered = {} /\ thrown = {}
  /\ reported = {} /\ unheard = {} /\ refused = {}
  /\ ackJob = {} /\ acked = [n \in Note |-> 0] /\ failed = {}
  /\ lost = {}

-----------------------------------------------------------------------------
(* Ceph.                                                                   *)

Goto(c, step, took) ==
  cb' = [cb EXCEPT ![c] = [at |-> step, note |-> cb[c].note, took |-> took]]
Return(c) == cb' = [cb EXCEPT ![c] = Idle]

\* Ceph starts a callback for a notification, at most once each.
Notify(c, n) ==
  /\ registered /\ n \notin sent /\ cb[c].at = "idle"
  /\ sent' = sent \cup {n}
  /\ cb' = [cb EXCEPT ![c] = [at |-> "check", note |-> n, took |-> {}]]
  /\ UNCHANGED <<errors, queue, data, js, ackJob, acks, lost>>

WatchError(c) ==
  /\ registered /\ errors < MaxErrors /\ cb[c].at = "idle"
  /\ errors' = errors + 1
  /\ cb' = [cb EXCEPT ![c] = [at |-> "check", note |-> None, took |-> {}]]
  /\ UNCHANGED <<sent, queue, data, js, ackJob, acks, lost>>

-----------------------------------------------------------------------------
(* object_watch_cb and object_watch_error_cb, step by atomic step.         *)

\* `if (data->closed.load()) return`: the notification is not acknowledged.
Check(c) ==
  /\ cb[c].at = "check"
  /\ IF closed THEN Return(c)
     ELSE Goto(c, IF cb[c].note = None THEN "push" ELSE "take", {})
  /\ UNCHANGED <<sent, errors, queue, data, js, ackJob, acks, lost>>

\* Mutant: dropped is loaded, and not reset.
TakeCopy(c) ==
  /\ cb[c].at = "take"
  /\ Goto(c, "push", dropped)
  /\ UNCHANGED <<sent, errors, queue, data, js, ackJob, acks, lost>>

\* data->dropped.exchange(0)
Take(c) ==
  /\ cb[c].at = "take"
  /\ Goto(c, "push", dropped)
  /\ dropped' = {}
  /\ UNCHANGED <<sent, errors, queue, closed, registered, released, closing,
                 js, ackJob, acks, lost>>

\* Mutant: the queue takes one event too many.
PushBeyond(c) ==
  /\ cb[c].at = "push" /\ Len(queue) <= QueueSize
  /\ queue' = Append(queue, [note |-> cb[c].note, dropped |-> cb[c].took])
  /\ Return(c)
  /\ UNCHANGED <<sent, errors, data, js, ackJob, acks, lost>>

\* NonBlockingCall: napi_ok while the queue has room.
Push(c) ==
  /\ cb[c].at = "push" /\ Len(queue) < QueueSize
  /\ queue' = Append(queue, [note |-> cb[c].note, dropped |-> cb[c].took])
  /\ Return(c)
  /\ UNCHANGED <<sent, errors, data, js, ackJob, acks, lost>>

\* napi_queue_full: a notification is counted, an error event just deleted.
PushFails(c) ==
  /\ cb[c].at = "push" /\ Len(queue) >= QueueSize
  /\ IF cb[c].note = None
     THEN Return(c) /\ UNCHANGED lost
     ELSE Goto(c, "countback", cb[c].took) /\ lost' = lost \cup {cb[c].note}
  /\ UNCHANGED <<sent, errors, queue, data, js, ackJob, acks>>

\* Mutant: an overflow is counted and not acknowledged.
CountBackOnly(c) ==
  /\ cb[c].at = "countback"
  /\ dropped' = dropped \cup cb[c].took \cup {cb[c].note}
  /\ Return(c)
  /\ UNCHANGED <<sent, errors, queue, closed, registered, released, closing,
                 js, ackJob, acks, lost>>

\* Mutant: fetch_add(1) forgets the losses of the event.
CountBackOne(c) ==
  /\ cb[c].at = "countback"
  /\ dropped' = dropped \cup {cb[c].note}
  /\ Goto(c, "emptyack", {})
  /\ UNCHANGED <<sent, errors, queue, closed, registered, released, closing,
                 js, ackJob, acks, lost>>

\* data->dropped.fetch_add(event->dropped + 1)
CountBack(c) ==
  /\ cb[c].at = "countback"
  /\ dropped' = dropped \cup cb[c].took \cup {cb[c].note}
  /\ Goto(c, "emptyack", {})
  /\ UNCHANGED <<sent, errors, queue, closed, registered, released, closing,
                 js, ackJob, acks, lost>>

\* rados_notify_ack, which may fail.
Acknowledge(n) ==
  \/ acked' = [acked EXCEPT ![n] = @ + 1] /\ UNCHANGED failed
  \/ failed' = failed \cup {n} /\ UNCHANGED acked

\* With no payload; the result is ignored.
EmptyAck(c) ==
  /\ cb[c].at = "emptyack"
  /\ Acknowledge(cb[c].note)
  /\ Return(c)
  /\ UNCHANGED <<sent, errors, queue, data, js, ackJob, lost>>

-----------------------------------------------------------------------------
(* The JS thread.                                                          *)

\* dispatch of an event after close(): silently discarded, not acknowledged.
Discard ==
  /\ queue # <<>> /\ jsClosed
  /\ queue' = Tail(queue)
  /\ unheard' = unheard \cup Head(queue).dropped
  /\ UNCHANGED <<sent, errors, cb, data, jsClosed, acknowledged, delivered, thrown,
                 reported, refused, ackJob, acks, lost>>

DispatchError ==
  /\ queue # <<>> /\ ~jsClosed /\ Head(queue).note = None
  /\ queue' = Tail(queue)
  /\ UNCHANGED <<sent, errors, cb, data, js, ackJob, acks, lost>>

\* Mutant: `acknowledged` is never set.
AckUnmarked(n) ==
  /\ ackJob' = ackJob \cup {n}
  /\ UNCHANGED acknowledged

\* ack() of a notification object: acknowledged is set before the native call.
AckCall(n) ==
  /\ acknowledged' = acknowledged \cup {n}
  /\ ackJob' = ackJob \cup {n}

\* Mutant: no automatic ack.
DispatchUnanswered(listener) ==
  /\ queue # <<>> /\ ~jsClosed /\ Head(queue).note # None
  /\ LET n == Head(queue).note IN
       /\ delivered' = delivered \cup {n}
       /\ thrown' = IF listener = "throws" THEN thrown \cup {n} ELSE thrown
       /\ IF listener = "acks" THEN AckCall(n) ELSE UNCHANGED <<acknowledged, ackJob>>
  /\ reported' = reported \cup Head(queue).dropped
  /\ queue' = Tail(queue)
  /\ UNCHANGED <<sent, errors, cb, data, jsClosed, unheard, refused, acks, lost>>

\* "overflow", then "notification", then the automatic ack, in one turn.  A
\* listener acknowledges at once, keeps the object for later or throws, which
\* leaves dispatch before the automatic ack.
Dispatch(listener) ==
  /\ queue # <<>> /\ ~jsClosed /\ Head(queue).note # None
  /\ LET n == Head(queue).note IN
       /\ delivered' = delivered \cup {n}
       /\ thrown' = IF listener = "throws" THEN thrown \cup {n} ELSE thrown
       /\ IF listener = "acks" \/ (listener = "keeps" /\ AutoAck)
          THEN AckCall(n) ELSE UNCHANGED <<acknowledged, ackJob>>
  /\ reported' = reported \cup Head(queue).dropped
  /\ queue' = Tail(queue)
  /\ UNCHANGED <<sent, errors, cb, data, jsClosed, unheard, refused, acks, lost>>

\* ack() called later on a notification that was kept.
AckLater(n) ==
  /\ n \in delivered
  /\ IF n \in acknowledged
     THEN refused' = refused \cup {n} /\ UNCHANGED <<acknowledged, ackJob>>
     ELSE AckCall(n) /\ UNCHANGED refused
  /\ UNCHANGED <<sent, errors, cb, queue, data, jsClosed, delivered, thrown, reported,
                 unheard, acks, lost>>

\* The worker of ObjectWatchWrap::Ack.
AckDone(n) ==
  /\ n \in ackJob
  /\ ackJob' = ackJob \ {n}
  /\ Acknowledge(n)
  /\ UNCHANGED <<sent, errors, cb, queue, data, js, lost>>

-----------------------------------------------------------------------------
(* close(): the TypeScript guard, then Data::close on a worker.            *)

JsClose ==
  /\ ~jsClosed
  /\ jsClosed' = TRUE
  /\ closing' = "exchange"
  /\ UNCHANGED <<sent, errors, cb, queue, dropped, closed, registered, released,
                 acknowledged, delivered, thrown, reported, unheard, refused,
                 ackJob, acks, lost>>

CloseExchange ==
  /\ closing = "exchange"
  /\ closed' = TRUE
  /\ closing' = "unwatch"
  /\ UNCHANGED <<sent, errors, cb, queue, dropped, registered, released, js,
                 ackJob, acks, lost>>

\* Mutant: a failed rados_unwatch2 returns before the release.
UnwatchOrReturn ==
  /\ closing = "unwatch"
  /\ registered' = FALSE
  /\ closing' \in {"flush", "done"}
  /\ UNCHANGED <<sent, errors, cb, queue, dropped, closed, released, js,
                 ackJob, acks, lost>>

\* rados_unwatch2 starts no further callback, and waits for none.
Unwatch ==
  /\ closing = "unwatch"
  /\ registered' = FALSE
  /\ closing' = "flush"
  /\ UNCHANGED <<sent, errors, cb, queue, dropped, closed, released, js,
                 ackJob, acks, lost>>

\* Mutant: no flush.
FlushNothing ==
  /\ closing = "flush"
  /\ closing' = "release"
  /\ UNCHANGED <<sent, errors, cb, queue, dropped, closed, registered, released,
                 js, ackJob, acks, lost>>

\* rados_watch_flush returns when the callbacks in flight have.
Flush ==
  /\ closing = "flush" /\ \A c \in Callback : cb[c].at = "idle"
  /\ closing' = "release"
  /\ UNCHANGED <<sent, errors, cb, queue, dropped, closed, registered, released,
                 js, ackJob, acks, lost>>

Release ==
  /\ closing = "release"
  /\ released' = TRUE
  /\ closing' = "done"
  /\ UNCHANGED <<sent, errors, cb, queue, dropped, closed, registered, js,
                 ackJob, acks, lost>>

-----------------------------------------------------------------------------
CallbackStep(c) ==
  Check(c) \/ Take(c) \/ Push(c) \/ PushFails(c) \/ CountBack(c) \/ EmptyAck(c)

EventLoop == Discard \/ DispatchError \/ \E how \in {"acks", "keeps", "throws"} : Dispatch(how)

CloseStep == CloseExchange \/ Unwatch \/ Flush \/ Release

Next ==
  \/ \E c \in Callback : (\E n \in Note : Notify(c, n)) \/ WatchError(c) \/ CallbackStep(c)
  \/ EventLoop
  \/ \E n \in Note : AckLater(n) \/ AckDone(n)
  \/ JsClose \/ CloseStep

\* Threads keep running and the event loop keeps turning.  Ceph, the listeners
\* and the client owe nothing.
Fairness ==
  /\ \A c \in Callback : WF_vars(CallbackStep(c))
  /\ WF_vars(EventLoop) /\ WF_vars(CloseStep)
  /\ \A n \in Note : WF_vars(AckDone(n))

Spec == Init /\ [][Next]_vars /\ Fairness
-----------------------------------------------------------------------------
(* Properties.                                                             *)

One(P) == IF P THEN 1 ELSE 0

\* The losses a Ceph thread is about to queue or to count.
Carries(c) == cb[c].took \cup IF cb[c].at = "countback" THEN {cb[c].note} ELSE {}

Apart(S, T) == S \cap T = {}

Queued == UNION {queue[i].dropped : i \in DOMAIN queue}

\* events.cpp:44, 57; index.ts:207.  Each notification that found the queue full
\* is counted in exactly one place, whatever exchanges and additions interleave:
\* the counter, a callback, a queued event, what "overflow" has reported, or what
\* close() threw away.  Nothing else is counted.
LossAccounting ==
  /\ lost = dropped \cup reported \cup unheard \cup Queued \cup UNION {Carries(c) : c \in Callback}
  /\ Apart(dropped, reported \cup unheard) /\ Apart(reported, unheard)
  /\ \A i \in DOMAIN queue :
       /\ Apart(queue[i].dropped, dropped \cup reported \cup unheard)
       /\ \A j \in DOMAIN queue : i # j => Apart(queue[i].dropped, queue[j].dropped)
  /\ \A c \in Callback :
       /\ Apart(Carries(c), dropped \cup reported \cup unheard \cup Queued)
       /\ \A d \in Callback : c # d => Apart(Carries(c), Carries(d))

\* events.cpp:59-61, 150; index.ts:202-209.  A notification is never acknowledged
\* twice: the empty acknowledgement of an overflow, the automatic one and those
\* of the listeners exclude each other.
Acking(n) == {c \in Callback : cb[c].at \in {"countback", "emptyack"} /\ cb[c].note = n}

OneAck ==
  \A n \in Note :
    /\ acked[n] + One(n \in ackJob) + One(Acking(n) # {}) <= 1
    /\ \A c, d \in Acking(n) : c = d

\* events.cpp:28-32, 40, 45.  No callback uses the thread-safe function, or Data,
\* once close() has released them: each one in flight is done by then.
ReleasedWhenQuiet == released => \A c \in Callback : cb[c].at = "idle"

\* Ceph was given an acknowledgement, or has refused one.
Tried(n) == acked[n] > 0 \/ n \in failed

\* A Ceph thread has the notification, it is queued, or its ack runs.
InHand(n) ==
  \/ \E c \in Callback : cb[c].note = n
  \/ \E i \in DOMAIN queue : queue[i].note = n
  \/ n \in ackJob

\* events.cpp:42-61, index.ts:192-210.  At every moment somebody is about to answer
\* whoever notified, until Ceph was given an answer, the watch is closed, or the
\* answer is up to a listener that threw or that acknowledges by itself.  Of an
\* overflow it is up to its callback, always.
AnswerInHand ==
  /\ \A n \in lost : Tried(n) \/ Acking(n) # {}
  /\ \A n \in sent :
       \/ Tried(n) \/ InHand(n) \/ jsClosed
       \/ n \in delivered \ acknowledged /\ (n \in thrown \/ ~AutoAck)

\* README.md:85, "acknowledged empty so the notifying client cannot hang": an
\* overflowed notification gets its acknowledgement, if Ceph takes it, even during a
\* close.
OverflowAcknowledged == \A n \in Note : n \in lost ~> Tried(n)

\* index.ts:192-210.  With autoAck, whoever notifies gets an answer, if Ceph takes
\* it, unless a listener throws or the watch is closed meanwhile.
NotifierAnswered ==
  AutoAck => \A n \in Note : n \in sent ~> (Tried(n) \/ n \in thrown \/ jsClosed)

\* index.ts:211, events.cpp:27-34.  A close waits for callbacks, and ends.
CloseEnds == jsClosed ~> released

\* README.md:85, "the next delivered event reports the loss": an event delivered
\* while losses are counted reports them.
NextDeliveredReportsLoss == [][delivered' # delivered => dropped \subseteq reported']_vars

\* index.ts:202, "Notification was already acknowledged": so it was, or is being.
RefusedMeansAcknowledged == \A n \in refused : acked[n] > 0 \/ n \in ackJob

\* Losses are kept until a listener is told of them or the client closes: the
\* watch is a lossy channel for the notifications it has lost.
Channel == INSTANCE LossyChannel
  WITH Feed <- {"watch"}, Item <- Note,
       pending <- [f \in {"watch"} |->
                     dropped \cup Queued \cup UNION {Carries(c) : c \in Callback}],
       told <- [f \in {"watch"} |-> reported],
       discarded <- [f \in {"watch"} |-> unheard],
       closed <- [f \in {"watch"} |-> jsClosed]

KeepsEveryLoss == Channel!Spec
=============================================================================
