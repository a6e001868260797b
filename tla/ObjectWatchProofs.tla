-------------------------- MODULE ObjectWatchProofs --------------------------
(***************************************************************************)
(* ObjectWatch, for every number of notifications, threads and errors and  *)
(* every queue size: its types, LossAccounting, OneAck, ReleasedWhenQuiet, *)
(* AnswerInHand, that it implements LossyChannel, that its sets count as   *)
(* the integer of the code does, that a close waits for finitely many      *)
(* steps, and that notifications only go on.                               *)
(*                                                                         *)
(* A notification is in one place at a time: with a callback, in the       *)
(* queue, lost, or delivered (CallbackNotes, QueueNotes, AckNotes).  So    *)
(* one that finds the queue full has never been counted before, nor        *)
(* acknowledged; and the two who acknowledge, a listener and the callback  *)
(* of an overflow, never have the same one.  CloseOrder says why the flush *)
(* is enough: nothing registers a callback again.                          *)
(***************************************************************************)
EXTENDS ObjectWatch, QueueFacts, FiniteSetTheorems, TLAPS

Places ==
  /\ \A c \in Callback :
       /\ cb[c].at = "idle" => cb[c] = Idle
       /\ cb[c].at \in {"check", "take", "emptyack"} => cb[c].took = {}
       /\ cb[c].at \in {"take", "countback", "emptyack"} => cb[c].note # None
       /\ cb[c].note = None => cb[c].took = {}
  /\ \A i \in DOMAIN queue : queue[i].note = None => queue[i].dropped = {}

CallbackNotes ==
  \A c \in Callback : cb[c].note # None =>
    /\ cb[c].note \in sent \ delivered
    /\ cb[c].note \in lost <=> cb[c].at \in {"countback", "emptyack"}
    /\ acked[cb[c].note] = 0
    /\ \A d \in Callback : d # c => cb[d].note # cb[c].note
    /\ \A i \in DOMAIN queue : queue[i].note # cb[c].note

QueueNotes ==
  \A i \in DOMAIN queue : queue[i].note # None =>
    /\ queue[i].note \in sent \ (delivered \cup lost)
    /\ \A j \in DOMAIN queue : i # j => queue[j].note # queue[i].note

AckNotes ==
  /\ lost \subseteq sent /\ delivered \subseteq sent /\ Apart(lost, delivered)
  /\ ackJob \subseteq acknowledged /\ acknowledged \subseteq delivered
  /\ \A n \in Note :
       acked[n] + One(n \in ackJob) <= One(n \in acknowledged \cup lost)

CloseOrder ==
  /\ ~jsClosed => closing = "open"
  /\ closing \in {"flush", "release", "done"} => ~registered
  /\ closing \in {"release", "done"} => \A c \in Callback : cb[c].at = "idle"
  /\ released => closing = "done"

\* LossAccounting, part by part.
LossKept ==
  \A n \in Note :
    n \in lost <=> \/ n \in dropped \cup reported \cup unheard
                   \/ \E i \in DOMAIN queue : n \in queue[i].dropped
                   \/ \E c \in Callback : n \in Carries(c)
BoxesApart == Apart(dropped, reported \cup unheard) /\ Apart(reported, unheard)
QueueApart ==
  \A i \in DOMAIN queue :
    /\ Apart(queue[i].dropped, dropped \cup reported \cup unheard)
    /\ \A j \in DOMAIN queue : i # j => Apart(queue[i].dropped, queue[j].dropped)
CarrierApart(c) ==
  /\ Apart(Carries(c), dropped \cup reported \cup unheard)
  /\ \A i \in DOMAIN queue : Apart(Carries(c), queue[i].dropped)
  /\ \A d \in Callback : c # d => Apart(Carries(c), Carries(d))

Losses == LossKept /\ BoxesApart /\ QueueApart /\ \A c \in Callback : CarrierApart(c)

IInv == TypeOK /\ Places /\ CallbackNotes /\ QueueNotes /\ AckNotes /\ CloseOrder /\ Losses

-----------------------------------------------------------------------------
Listening == {"acks", "keeps", "throws"}

\* Every step is one of these.
LEMMA Steps ==
  ASSUME [Next]_vars
  PROVE  \/ \E c \in Callback, n \in Note : Notify(c, n)
         \/ \E c \in Callback : WatchError(c)
         \/ \E c \in Callback : CallbackStep(c)
         \/ \E how \in Listening : Dispatch(how)
         \/ Discard \/ DispatchError
         \/ \E n \in Note : AckLater(n)
         \/ \E n \in Note : AckDone(n)
         \/ JsClose \/ CloseStep
         \/ UNCHANGED vars
BY DEF Next, EventLoop, Listening

\* What a close does is seen by no callback and no notification.
LEMMA CloseLeaves ==
  ASSUME JsClose \/ CloseStep
  PROVE  /\ UNCHANGED <<sent, errors, cb, queue, dropped, acknowledged, delivered, thrown,
                        reported, unheard, refused, ackJob, acks, lost>>
BY DEF JsClose, CloseStep, CloseExchange, Unwatch, Flush, Release, js

\* Where a callback is after a step, and that the others stay where they are.
LEMMA GotoFacts ==
  ASSUME TypeOK, NEW c \in Callback, NEW step \in {"take", "push", "countback", "emptyack"},
         NEW took \in SUBSET Note, Goto(c, step, took)
  PROVE  /\ cb' \in [Callback -> Doing]
         /\ cb'[c].at = step /\ cb'[c].took = took /\ cb'[c].note = cb[c].note
         /\ \A d \in Callback : d # c => cb'[d] = cb[d]
BY DEF TypeOK, Goto, Doing

LEMMA ReturnFacts ==
  ASSUME TypeOK, NEW c \in Callback, Return(c)
  PROVE  /\ cb' \in [Callback -> Doing]
         /\ cb'[c] = Idle
         /\ \A d \in Callback : d # c => cb'[d] = cb[d]
BY DEF TypeOK, Return, Doing, Idle

LEMMA IdleFacts == Idle.at = "idle" /\ Idle.note = None /\ Idle.took = {}
BY DEF Idle

LEMMA DoingFacts ==
  ASSUME TypeOK, NEW c \in Callback
  PROVE  cb[c].took \in SUBSET Note /\ cb[c].note \in Note \cup {None}
         /\ cb[c].at \in {"idle", "check", "take", "push", "countback", "emptyack"}
BY DEF TypeOK, Doing

LEMMA NotifyFacts ==
  ASSUME TypeOK, NEW c \in Callback, NEW n \in Note, Notify(c, n)
  PROVE  /\ cb' \in [Callback -> Doing] /\ cb[c].at = "idle"
         /\ cb'[c].at = "check" /\ cb'[c].note = n /\ cb'[c].took = {}
         /\ \A d \in Callback : d # c => cb'[d] = cb[d]
         /\ n \notin sent /\ sent' = sent \cup {n}
         /\ UNCHANGED <<errors, queue, data, js, ackJob, acks, lost>>
<1>1. [at |-> "check", note |-> n, took |-> {}] \in Doing
  BY DEF Doing
<1>2. QED
  BY <1>1 DEF TypeOK, Notify

LEMMA ErrorFacts ==
  ASSUME TypeOK, NEW c \in Callback, WatchError(c)
  PROVE  /\ cb' \in [Callback -> Doing] /\ cb[c].at = "idle"
         /\ cb'[c].at = "check" /\ cb'[c].note = None /\ cb'[c].took = {}
         /\ \A d \in Callback : d # c => cb'[d] = cb[d]
         /\ errors' \in 0..MaxErrors
         /\ UNCHANGED <<sent, queue, data, js, ackJob, acks, lost>>
<1>1. [at |-> "check", note |-> None, took |-> {}] \in Doing
  BY DEF Doing
<1>2. QED
  BY <1>1, WatchAssumption DEF TypeOK, WatchError

\* One callback takes a step, or is done, and all others stay.
LEMMA CallbackMoves ==
  ASSUME TypeOK, Places, NEW c \in Callback, CallbackStep(c)
  PROVE  /\ cb' \in [Callback -> Doing] /\ cb[c].at # "idle"
         /\ \A d \in Callback : d # c => cb'[d] = cb[d]
         /\ \/ cb'[c] = Idle
            \/ /\ cb'[c].at \in {"take", "push", "countback", "emptyack"}
               /\ cb'[c].note = cb[c].note
               /\ cb'[c].at \in {"take", "emptyack"} => cb'[c].took = {}
               /\ cb'[c].at \in {"take", "countback", "emptyack"} => cb[c].note # None
               /\ cb[c].note = None => cb'[c].took = {}
         /\ UNCHANGED <<sent, errors, js, ackJob>>
         /\ UNCHANGED <<closed, registered, released, closing>>
<1>1. CASE Check(c)
  <2>1. CASE Return(c)
    BY <1>1, <2>1, ReturnFacts DEF Check, data
  <2>2. CASE Goto(c, "push", {}) /\ cb[c].note = None
    BY <1>1, <2>2, GotoFacts DEF Check, data
  <2>3. CASE Goto(c, "take", {}) /\ cb[c].note # None
    BY <1>1, <2>3, GotoFacts DEF Check, data
  <2>4. QED
    BY <1>1, <2>1, <2>2, <2>3 DEF Check
<1>2. CASE Take(c)
  <2>1. dropped \in SUBSET Note /\ cb[c].at = "take" /\ Goto(c, "push", dropped)
    BY <1>2 DEF Take, TypeOK
  <2>2. cb[c].note # None
    BY <2>1 DEF Places
  <2>3. QED
    BY <1>2, <2>1, <2>2, GotoFacts DEF Take
<1>3. CASE Push(c)
  BY <1>3, ReturnFacts DEF Push, data
<1>4. CASE PushFails(c)
  <2>1. cb[c].took \in SUBSET Note
    BY DoingFacts
  <2>2. CASE Return(c)
    BY <1>4, <2>2, ReturnFacts DEF PushFails, data
  <2>3. CASE Goto(c, "countback", cb[c].took) /\ cb[c].note # None
    BY <1>4, <2>1, <2>3, GotoFacts DEF PushFails, data
  <2>4. QED
    BY <1>4, <2>2, <2>3 DEF PushFails
<1>5. CASE CountBack(c)
  <2>1. Goto(c, "emptyack", {}) /\ cb[c].note # None
    BY <1>5 DEF CountBack, Places
  <2>2. QED
    BY <1>5, <2>1, GotoFacts DEF CountBack
<1>6. CASE EmptyAck(c)
  BY <1>6, ReturnFacts DEF EmptyAck, data
<1>7. QED
  BY <1>1, <1>2, <1>3, <1>4, <1>5, <1>6 DEF CallbackStep

\* The event a callback pushes.
EventOf(c) == [note |-> cb[c].note, dropped |-> cb[c].took]

LEMMA PushFacts ==
  ASSUME TypeOK, NEW c \in Callback, Push(c)
  PROVE  /\ EventOf(c) \in Event /\ EventOf(c).note = cb[c].note /\ EventOf(c).dropped = cb[c].took
         /\ queue \in Seq(Event) /\ queue' = Append(queue, EventOf(c)) /\ queue' \in Seq(Event)
         /\ Len(queue') <= QueueSize
         /\ \A i \in DOMAIN queue' : \/ i \in DOMAIN queue /\ queue'[i] = queue[i]
                                     \/ i \notin DOMAIN queue /\ i = Len(queue) + 1
                                        /\ queue'[i] = EventOf(c)
         /\ \A i \in DOMAIN queue : i \in DOMAIN queue' /\ queue'[i] = queue[i]
         /\ Len(queue) + 1 \in DOMAIN queue' /\ queue'[Len(queue) + 1] = EventOf(c)
<1>1. EventOf(c) \in Event /\ EventOf(c).note = cb[c].note /\ EventOf(c).dropped = cb[c].took
  BY DoingFacts DEF EventOf, Event
<1>2. queue \in Seq(Event) /\ queue' = Append(queue, EventOf(c)) /\ Len(queue) < QueueSize
  BY DEF TypeOK, Push, EventOf
<1>3. QED
  BY <1>1, <1>2, AppendFacts, WatchAssumption

Dispatches == Discard \/ DispatchError \/ \E how \in Listening : Dispatch(how)

LEMMA DispatchFacts ==
  ASSUME TypeOK, Dispatches
  PROVE  /\ queue # <<>> /\ queue \in Seq(Event) /\ queue' = Tail(queue) /\ queue' \in Seq(Event)
         /\ Head(queue) = queue[1] /\ 1 \in DOMAIN queue
         /\ queue[1].note \in Note \cup {None} /\ queue[1].dropped \in SUBSET Note
         /\ Len(queue') <= QueueSize
         /\ \A i \in DOMAIN queue' : i + 1 \in DOMAIN queue /\ i + 1 # 1 /\ queue'[i] = queue[i + 1]
         /\ \A i, j \in DOMAIN queue' : i # j => i + 1 # j + 1
         /\ \A i \in DOMAIN queue : i # 1 => i - 1 \in DOMAIN queue' /\ queue'[i - 1] = queue[i]
         /\ UNCHANGED <<sent, errors, cb, data, jsClosed, refused, acks, lost>>
<1>1. queue # <<>> /\ queue \in Seq(Event) /\ queue' = Tail(queue)
      /\ UNCHANGED <<sent, errors, cb, data, jsClosed, refused, acks, lost>>
  BY DEF TypeOK, Dispatches, Discard, DispatchError, Dispatch, js
<1>2. queue[1] \in Event
  BY <1>1, TailFacts
<1>3. Len(queue) <= QueueSize
  BY DEF TypeOK
<1>4. \A i \in DOMAIN Tail(queue) : i \in Nat
  BY <1>1, TailFacts
<1>5. QED
  BY <1>1, <1>2, <1>3, <1>4, TailFacts, WatchAssumption DEF Event

\* An acknowledgement changes the one count, or only notes a failure.
LEMMA AcknowledgeFacts ==
  ASSUME TypeOK, NEW n \in Note, acked[n] <= 1, Acknowledge(n)
  PROVE  /\ acked' \in [Note -> 0..2] /\ failed' \subseteq Note
         /\ acked'[n] \in {acked[n], acked[n] + 1}
         /\ \A m \in Note : m # n => acked'[m] = acked[m]
BY DEF TypeOK, Acknowledge

\* Nothing has been acknowledged more than once.
LEMMA AckedAtMostOnce ==
  ASSUME TypeOK, AckNotes, NEW n \in Note
  PROVE  /\ acked[n] <= 1
         /\ n \in ackJob => acked[n] = 0
         /\ n \notin acknowledged \cup lost => acked[n] = 0 /\ n \notin ackJob
BY DEF TypeOK, AckNotes, One

-----------------------------------------------------------------------------
LEMMA TypeStep ==
  ASSUME TypeOK, Places, AckNotes, [Next]_vars  PROVE  TypeOK'
<1>1. ASSUME NEW c \in Callback, NEW n \in Note, Notify(c, n) PROVE TypeOK'
  BY <1>1, NotifyFacts DEF TypeOK, data, js, acks
<1>2. ASSUME NEW c \in Callback, WatchError(c) PROVE TypeOK'
  BY <1>2, ErrorFacts DEF TypeOK, data, js, acks
<1>3. ASSUME NEW c \in Callback, CallbackStep(c) PROVE TypeOK'
  <2>0. cb' \in [Callback -> Doing] /\ UNCHANGED <<sent, errors, js, ackJob>>
        /\ UNCHANGED <<closed, registered, released, closing>>
    BY <1>3, CallbackMoves
  <2>1. cb[c].took \in SUBSET Note /\ cb[c].note \in Note \cup {None}
    BY DoingFacts
  <2>2. CASE Check(c)
    BY <2>0, <2>2 DEF Check, TypeOK, data, js, acks
  <2>3. CASE Take(c)
    BY <2>0, <2>3 DEF Take, TypeOK, js, acks
  <2>4. CASE Push(c)
    BY <2>0, <2>4, PushFacts DEF Push, TypeOK, data, js, acks
  <2>5. CASE PushFails(c)
    BY <2>0, <2>1, <2>5 DEF PushFails, TypeOK, data, js, acks
  <2>6. CASE CountBack(c)
    BY <2>0, <2>1, <2>6 DEF CountBack, TypeOK, js, acks, Places
  <2>7. CASE EmptyAck(c)
    <3>1. cb[c].note \in Note /\ acked[cb[c].note] <= 1
      BY <2>1, <2>7, AckedAtMostOnce DEF EmptyAck, Places
    <3>2. acked' \in [Note -> 0..2] /\ failed' \subseteq Note
      BY <2>7, <3>1, AcknowledgeFacts DEF EmptyAck
    <3>3. QED
      BY <2>0, <2>7, <3>2 DEF EmptyAck, TypeOK, data, js
  <2>8. QED
    BY <1>3, <2>2, <2>3, <2>4, <2>5, <2>6, <2>7 DEF CallbackStep
<1>4. CASE Dispatches
  <2>1. queue' \in Seq(Event) /\ Len(queue') <= QueueSize
        /\ Head(queue).note \in Note \cup {None} /\ Head(queue).dropped \in SUBSET Note
        /\ UNCHANGED <<sent, errors, cb, data, jsClosed, refused, acks, lost>>
    BY <1>4, DispatchFacts
  <2>2. CASE Discard
    BY <2>1, <2>2 DEF Discard, TypeOK, data, acks
  <2>3. CASE DispatchError
    BY <2>1, <2>3 DEF DispatchError, TypeOK, data, js, acks
  <2>4. ASSUME NEW how \in Listening, Dispatch(how) PROVE TypeOK'
    BY <2>1, <2>4 DEF Dispatch, AckCall, TypeOK, data, acks
  <2>5. QED
    BY <1>4, <2>2, <2>3, <2>4 DEF Dispatches
<1>5. ASSUME NEW n \in Note, AckLater(n) PROVE TypeOK'
  BY <1>5 DEF AckLater, AckCall, TypeOK, data, acks
<1>6. ASSUME NEW n \in Note, AckDone(n) PROVE TypeOK'
  <2>1. acked' \in [Note -> 0..2] /\ failed' \subseteq Note
    BY <1>6, AckedAtMostOnce, AcknowledgeFacts DEF AckDone
  <2>2. QED
    BY <1>6, <2>1 DEF AckDone, TypeOK, data, js
<1>7. CASE JsClose \/ CloseStep
  <2>1. jsClosed' \in BOOLEAN /\ closed' \in BOOLEAN /\ registered' \in BOOLEAN /\ released' \in BOOLEAN
        /\ closing' \in {"open", "exchange", "unwatch", "flush", "release", "done"}
    BY <1>7 DEF JsClose, CloseStep, CloseExchange, Unwatch, Flush, Release, TypeOK, js
  <2>2. QED
    BY <1>7, <2>1, CloseLeaves DEF TypeOK, acks
<1>8. CASE UNCHANGED vars
  BY <1>8 DEF vars, TypeOK, data, js, acks
<1>9. QED
  BY <1>1, <1>2, <1>3, <1>4, <1>5, <1>6, <1>7, <1>8, Steps DEF Dispatches

LEMMA PlacesStep ==
  ASSUME TypeOK, Places, [Next]_vars  PROVE  Places'
<1>0. None \notin Note
  BY WatchAssumption
<1>1. ASSUME NEW c \in Callback, NEW n \in Note, Notify(c, n) PROVE Places'
  BY <1>0, <1>1, NotifyFacts DEF Places
<1>2. ASSUME NEW c \in Callback, WatchError(c) PROVE Places'
  BY <1>2, ErrorFacts DEF Places
<1>3. ASSUME NEW c \in Callback, CallbackStep(c) PROVE Places'
  <2>1. \A d \in Callback :
          /\ cb'[d].at = "idle" => cb'[d] = Idle
          /\ cb'[d].at \in {"check", "take", "emptyack"} => cb'[d].took = {}
          /\ cb'[d].at \in {"take", "countback", "emptyack"} => cb'[d].note # None
          /\ cb'[d].note = None => cb'[d].took = {}
    BY <1>3, CallbackMoves, IdleFacts DEF Places
  <2>2. CASE Push(c)
    <3>1. \A i \in DOMAIN queue' : queue'[i].note = None => queue'[i].dropped = {}
      BY <2>2, PushFacts DEF Places
    <3>2. QED
      BY <2>1, <3>1 DEF Places
  <2>3. CASE queue' = queue
    BY <2>1, <2>3 DEF Places
  <2>4. QED
    BY <1>3, <2>2, <2>3 DEF CallbackStep, Check, Take, PushFails, CountBack, EmptyAck
<1>4. CASE Dispatches
  BY <1>4, DispatchFacts DEF Places
<1>5. CASE UNCHANGED <<cb, queue>>
  BY <1>5 DEF Places
<1>6. QED
  BY <1>1, <1>2, <1>3, <1>4, <1>5, Steps, CloseLeaves DEF Dispatches, AckLater, AckDone, vars

LEMMA CloseOrderStep ==
  ASSUME TypeOK, Places, CloseOrder, [Next]_vars  PROVE  CloseOrder'
<1>1. ASSUME NEW c \in Callback, NEW n \in Note, Notify(c, n) PROVE CloseOrder'
  BY <1>1 DEF Notify, CloseOrder, data, js
<1>2. ASSUME NEW c \in Callback, WatchError(c) PROVE CloseOrder'
  BY <1>2 DEF WatchError, CloseOrder, data, js
<1>3. ASSUME NEW c \in Callback, CallbackStep(c) PROVE CloseOrder'
  BY <1>3, CallbackMoves, IdleFacts DEF CloseOrder, js
<1>4. CASE JsClose \/ CloseStep
  BY <1>4, CloseLeaves DEF CloseOrder, JsClose, CloseStep, CloseExchange, Unwatch, Flush, Release, js
<1>5. CASE UNCHANGED <<cb, jsClosed, closing, registered, released>>
  BY <1>5 DEF CloseOrder
<1>6. QED
  BY <1>1, <1>2, <1>3, <1>4, <1>5, Steps, DispatchFacts DEF Dispatches, AckLater, AckDone, vars, data, js

-----------------------------------------------------------------------------
\* The notifications, wherever they are.
Notes == CallbackNotes /\ QueueNotes /\ AckNotes

LEMMA NotifyNotes ==
  ASSUME TypeOK, Places, Notes, NEW c \in Callback, NEW n \in Note, Notify(c, n)
  PROVE  Notes'
<1>0. UNCHANGED <<queue, delivered, lost, acked, acknowledged, ackJob>> /\ sent' = sent \cup {n}
      /\ cb'[c].note = n /\ cb'[c].at = "check" /\ \A d \in Callback : d # c => cb'[d] = cb[d]
  BY NotifyFacts DEF js, acks
<1>1. n \notin sent /\ n # None /\ n \notin lost \cup delivered \cup acknowledged
  BY NotifyFacts, WatchAssumption DEF Notes, AckNotes
<1>2. acked[n] = 0
  BY <1>1, AckedAtMostOnce DEF Notes
<1>3. \A i \in DOMAIN queue : queue[i].note # n
  BY <1>1 DEF Notes, QueueNotes
<1>4. \A d \in Callback : cb[d].note # n
  BY <1>1 DEF Notes, CallbackNotes
<1>5. CallbackNotes'
  BY <1>0, <1>1, <1>2, <1>3, <1>4 DEF Notes, CallbackNotes
<1>6. QueueNotes'
  BY <1>0 DEF Notes, QueueNotes
<1>7. AckNotes'
  BY <1>0 DEF Notes, AckNotes, Apart
<1>8. QED
  BY <1>5, <1>6, <1>7 DEF Notes

LEMMA ErrorNotes ==
  ASSUME TypeOK, Places, Notes, NEW c \in Callback, WatchError(c)
  PROVE  Notes'
<1>1. UNCHANGED <<sent, queue, delivered, lost, acked, acknowledged, ackJob>>
      /\ cb'[c].note = None /\ \A d \in Callback : d # c => cb'[d] = cb[d]
  BY ErrorFacts DEF js, acks
<1>2. QED
  BY <1>1 DEF Notes, CallbackNotes, QueueNotes, AckNotes

\* A notification stays with its callback: checks, losses taken and counted.
LEMMA StayNotes ==
  ASSUME TypeOK, Places, Notes, NEW c \in Callback, Check(c) \/ Take(c) \/ CountBack(c)
  PROVE  Notes'
<1>1. UNCHANGED <<sent, queue, delivered, lost, acked, acknowledged, ackJob>>
  BY DEF Check, Take, CountBack, js, acks
<1>2. \A d \in Callback : d # c => cb'[d] = cb[d]
  BY CallbackMoves DEF CallbackStep
<1>3. \/ cb'[c].note = None
      \/ cb'[c].note = cb[c].note
         /\ (cb'[c].at \in {"countback", "emptyack"} <=> cb[c].at \in {"countback", "emptyack"})
  <2>1. CASE Check(c)
    BY <2>1, ReturnFacts, GotoFacts, IdleFacts DEF Check
  <2>2. CASE Take(c)
    BY <2>2, GotoFacts DEF Take, TypeOK
  <2>3. CASE CountBack(c)
    BY <2>3, GotoFacts DEF CountBack
  <2>4. QED
    BY <2>1, <2>2, <2>3
<1>4. CallbackNotes'
  BY <1>1, <1>2, <1>3 DEF Notes, CallbackNotes
<1>5. QED
  BY <1>1, <1>4 DEF Notes, QueueNotes, AckNotes

\* It moves from its callback to the queue,
LEMMA PushNotes ==
  ASSUME TypeOK, Places, Notes, NEW c \in Callback, Push(c)
  PROVE  Notes'
<1>1. UNCHANGED <<sent, delivered, lost, acked, acknowledged, ackJob>> /\ cb[c].at = "push"
  BY DEF Push, js, acks
<1>2. cb'[c].note = None /\ \A d \in Callback : d # c => cb'[d] = cb[d]
  BY ReturnFacts, IdleFacts DEF Push
<1>3. \A i \in DOMAIN queue' :
        \/ i \in DOMAIN queue /\ queue'[i].note = queue[i].note
        \/ i \notin DOMAIN queue /\ i = Len(queue) + 1 /\ queue'[i].note = cb[c].note
  BY PushFacts
<1>4. CallbackNotes'
  BY <1>1, <1>2, <1>3 DEF Notes, CallbackNotes
<1>5. QueueNotes'
  <2>1. cb[c].note # None => /\ cb[c].note \in sent \ (delivered \cup lost)
                             /\ \A i \in DOMAIN queue : queue[i].note # cb[c].note
    BY <1>1 DEF Notes, CallbackNotes
  <2>2. \A i \in DOMAIN queue' : queue'[i].note # None =>
            queue'[i].note \in sent \ (delivered \cup lost)
    BY <1>3, <2>1 DEF Notes, QueueNotes
  <2>3. \A i, j \in DOMAIN queue' : queue'[i].note # None /\ i # j => queue'[j].note # queue'[i].note
    BY <1>3, <2>1 DEF Notes, QueueNotes
  <2>4. QED
    BY <1>1, <2>2, <2>3 DEF QueueNotes
<1>6. QED
  BY <1>1, <1>4, <1>5 DEF Notes, AckNotes

\* or is lost,
LEMMA LossNotes ==
  ASSUME TypeOK, Places, Notes, NEW c \in Callback, PushFails(c)
  PROVE  Notes'
<1>1. UNCHANGED <<sent, queue, delivered, acked, acknowledged, ackJob>> /\ cb[c].at = "push"
      /\ cb[c].took \in SUBSET Note
  BY DoingFacts DEF PushFails, js, acks
<1>2. CASE Return(c) /\ lost' = lost
  BY <1>1, <1>2, ReturnFacts, IdleFacts DEF Notes, CallbackNotes, QueueNotes, AckNotes
<1>3. ASSUME cb[c].note # None, Goto(c, "countback", cb[c].took), lost' = lost \cup {cb[c].note}
      PROVE  Notes'
  <2>1. PICK n \in Note : n = cb[c].note
    BY <1>3, DoingFacts
  <2>2. cb'[c].at = "countback" /\ cb'[c].note = n /\ \A d \in Callback : d # c => cb'[d] = cb[d]
    BY <1>1, <1>3, <2>1, GotoFacts
  <2>3. /\ n \in sent \ (delivered \cup lost) /\ acked[n] = 0
        /\ \A d \in Callback : d # c => cb[d].note # n
        /\ \A i \in DOMAIN queue : queue[i].note # n
    BY <1>1, <1>3, <2>1 DEF Notes, CallbackNotes
  <2>4. CallbackNotes'
    BY <1>1, <1>3, <2>1, <2>2, <2>3 DEF Notes, CallbackNotes
  <2>5. QueueNotes'
    BY <1>1, <1>3, <2>1, <2>3 DEF Notes, QueueNotes
  <2>6. AckNotes'
    <3>1. n \notin ackJob
      BY <2>3 DEF Notes, AckNotes
    <3>2. \A m \in Note : acked[m] + One(m \in ackJob) <= One(m \in acknowledged \cup lost')
      BY <1>3, <2>1, <2>3, <3>1 DEF Notes, AckNotes, One
    <3>3. QED
      BY <1>1, <1>3, <2>1, <2>3, <3>2 DEF Notes, AckNotes, Apart
  <2>7. QED
    BY <2>4, <2>5, <2>6 DEF Notes
<1>4. QED
  BY <1>2, <1>3 DEF PushFails

\* and then acknowledged, by its callback alone.
LEMMA EmptyAckNotes ==
  ASSUME TypeOK, Places, Notes, NEW c \in Callback, EmptyAck(c)
  PROVE  Notes'
<1>1. UNCHANGED <<sent, queue, delivered, lost, acknowledged, ackJob>> /\ cb[c].at = "emptyack"
      /\ cb'[c].note = None /\ \A d \in Callback : d # c => cb'[d] = cb[d]
  BY ReturnFacts, IdleFacts DEF EmptyAck, js
<1>2. PICK n \in Note : n = cb[c].note
  BY <1>1, DoingFacts DEF Places
<1>3. /\ n \in lost \ delivered /\ acked[n] = 0 /\ n \notin ackJob
      /\ \A d \in Callback : d # c => cb[d].note # n
  BY <1>1, <1>2, WatchAssumption DEF Notes, CallbackNotes, AckNotes
<1>4. acked'[n] <= 1 /\ acked' \in [Note -> 0..2] /\ \A m \in Note : m # n => acked'[m] = acked[m]
  BY <1>2, <1>3, AcknowledgeFacts DEF EmptyAck
<1>5. CallbackNotes'
  <2>1. ASSUME NEW d \in Callback, cb'[d].note # None
        PROVE  cb'[d] = cb[d] /\ cb[d].note \in Note /\ acked'[cb[d].note] = acked[cb[d].note]
    BY <1>1, <1>3, <1>4, <2>1, DoingFacts
  <2>2. QED
    BY <1>1, <2>1 DEF Notes, CallbackNotes
<1>6. QueueNotes'
  BY <1>1 DEF Notes, QueueNotes
<1>7. AckNotes'
  <2>1. \A m \in Note : acked'[m] + One(m \in ackJob) <= One(m \in acknowledged \cup lost)
    BY <1>3, <1>4 DEF Notes, AckNotes, One
  <2>2. QED
    BY <1>1, <2>1 DEF Notes, AckNotes
<1>8. QED
  BY <1>5, <1>6, <1>7 DEF Notes

\* One that leaves the queue is delivered, and no callback has it.
LEMMA DispatchNotes ==
  ASSUME TypeOK, Places, Notes, Dispatches
  PROVE  Notes'
<1>1. UNCHANGED <<sent, cb, lost, acked>>
      /\ 1 \in DOMAIN queue /\ Head(queue) = queue[1] /\ queue[1].note \in Note \cup {None}
      /\ \A i \in DOMAIN queue' : i + 1 \in DOMAIN queue /\ i + 1 # 1 /\ queue'[i] = queue[i + 1]
      /\ \A j \in DOMAIN queue' : i # j => i + 1 # j + 1
  BY DispatchFacts DEF acks
<1>2. CASE UNCHANGED <<delivered, acknowledged, ackJob>>
  <2>1. CallbackNotes'
    BY <1>1, <1>2 DEF Notes, CallbackNotes
  <2>2. QueueNotes'
    BY <1>1, <1>2 DEF Notes, QueueNotes
  <2>3. AckNotes'
    BY <1>1, <1>2 DEF Notes, AckNotes
  <2>4. QED
    BY <2>1, <2>2, <2>3 DEF Notes
<1>3. ASSUME NEW how \in Listening, Dispatch(how) PROVE Notes'
  <2>1. PICK n \in Note : n = queue[1].note
    BY <1>1, <1>3 DEF Dispatch
  <2>2. delivered' = delivered \cup {n}
        /\ \/ UNCHANGED <<acknowledged, ackJob>>
           \/ acknowledged' = acknowledged \cup {n} /\ ackJob' = ackJob \cup {n}
    BY <1>1, <1>3, <2>1 DEF Dispatch, AckCall
  <2>3. n \in sent \ (delivered \cup lost) /\ n # None
        /\ (\A i \in DOMAIN queue' : queue'[i].note # n) /\ \A c \in Callback : cb[c].note # n
    <3>1. n # None
      BY <2>1, WatchAssumption
    <3>2. QED
      BY <1>1, <2>1, <3>1 DEF Notes, QueueNotes, CallbackNotes
  <2>4. CallbackNotes'
    BY <1>1, <2>2, <2>3 DEF Notes, CallbackNotes
  <2>5. QueueNotes'
    BY <1>1, <2>2, <2>3 DEF Notes, QueueNotes
  <2>6. AckNotes'
    <3>1. acked[n] = 0 /\ n \notin acknowledged
      BY <2>3, AckedAtMostOnce DEF Notes, AckNotes
    <3>2. \A m \in Note : acked[m] + One(m \in ackJob') <= One(m \in acknowledged' \cup lost)
      BY <2>2, <3>1 DEF Notes, AckNotes, One
    <3>3. QED
      BY <1>1, <2>2, <2>3, <3>2 DEF Notes, AckNotes, Apart
  <2>7. QED
    BY <2>4, <2>5, <2>6 DEF Notes
<1>4. QED
  BY <1>2, <1>3 DEF Dispatches, Discard, DispatchError, js

LEMMA AckNotesStep ==
  ASSUME TypeOK, Places, Notes, NEW n \in Note, AckLater(n) \/ AckDone(n)
  PROVE  Notes'
<1>1. UNCHANGED <<sent, cb, queue, lost, delivered>>
  BY DEF AckLater, AckDone, js, data
<1>2. n \in delivered /\ n \notin lost /\ \A c \in Callback : cb[c].note # n
  BY WatchAssumption DEF AckLater, AckDone, Notes, AckNotes, CallbackNotes, Apart
<1>3. QueueNotes'
  BY <1>1 DEF Notes, QueueNotes
<1>4. \A m \in Note : m # n => acked'[m] = acked[m]
  BY AckedAtMostOnce, AcknowledgeFacts DEF AckLater, AckDone, acks, Notes
<1>5. CallbackNotes'
  <2>1. \A c \in Callback : cb[c].note # None => acked'[cb[c].note] = acked[cb[c].note]
    BY <1>2, <1>4, DoingFacts
  <2>2. QED
    BY <1>1, <2>1 DEF Notes, CallbackNotes
<1>6. AckNotes'
  <2>1. CASE AckLater(n)
    <3>1. acked' = acked
      BY <2>1 DEF AckLater, acks
    <3>2. n \notin acknowledged => acked[n] = 0
      BY <1>2, AckedAtMostOnce DEF Notes
    <3>3. \A m \in Note : acked[m] + One(m \in ackJob') <= One(m \in acknowledged' \cup lost)
      BY <2>1, <3>2 DEF AckLater, AckCall, Notes, AckNotes, One
    <3>4. QED
      BY <1>1, <1>2, <2>1, <3>1, <3>3 DEF AckLater, AckCall, Notes, AckNotes
  <2>2. CASE AckDone(n)
    <3>1. acked[n] = 0 /\ n \in ackJob /\ ackJob' = ackJob \ {n} /\ acknowledged' = acknowledged
      BY <2>2, AckedAtMostOnce DEF AckDone, Notes, js
    <3>2. acked'[n] <= 1 /\ acked' \in [Note -> 0..2]
      BY <2>2, <3>1, AcknowledgeFacts DEF AckDone
    <3>3. \A m \in Note : acked'[m] + One(m \in ackJob') <= One(m \in acknowledged' \cup lost)
      BY <1>4, <3>1, <3>2 DEF Notes, AckNotes, One
    <3>4. QED
      BY <1>1, <3>1, <3>3 DEF Notes, AckNotes
  <2>3. QED
    BY <2>1, <2>2
<1>7. QED
  BY <1>3, <1>5, <1>6 DEF Notes

LEMMA NotesStep ==
  ASSUME TypeOK, Places, Notes, [Next]_vars  PROVE  Notes'
<1>1. CASE JsClose \/ CloseStep
  BY <1>1, CloseLeaves DEF Notes, CallbackNotes, QueueNotes, AckNotes, acks
<1>2. CASE UNCHANGED vars
  BY <1>2 DEF vars, js, acks, Notes, CallbackNotes, QueueNotes, AckNotes
<1>3. QED
  BY <1>1, <1>2, Steps, NotifyNotes, ErrorNotes, StayNotes, PushNotes, LossNotes, EmptyAckNotes,
     DispatchNotes, AckNotesStep DEF CallbackStep, Dispatches

-----------------------------------------------------------------------------
\* What a callback carries before and after its step.
LEMMA CarriesMoves ==
  ASSUME TypeOK, Places, NEW c \in Callback, CallbackStep(c)
  PROVE  /\ \A d \in Callback : d # c => Carries(d)' = Carries(d)
         /\ Check(c) \/ EmptyAck(c) => Carries(c) = {} /\ Carries(c)' = {}
         /\ Take(c) => Carries(c) = {} /\ Carries(c)' = dropped
         /\ Push(c) => Carries(c) = cb[c].took /\ Carries(c)' = {}
         /\ PushFails(c) =>
              /\ Carries(c) = cb[c].took
              /\ Carries(c)' = cb[c].took \cup IF cb[c].note = None THEN {} ELSE {cb[c].note}
         /\ CountBack(c) => Carries(c) = cb[c].took \cup {cb[c].note} /\ Carries(c)' = {}
<1>0. \A d \in Callback : d # c => cb'[d] = cb[d]
  BY CallbackMoves
<1>1. \A d \in Callback : d # c => Carries(d)' = Carries(d)
  BY <1>0 DEF Carries
<1>2. cb[c].took \in SUBSET Note /\ dropped \in SUBSET Note
  BY DoingFacts DEF TypeOK
<1>3. Return(c) => Carries(c)' = {}
  BY ReturnFacts, IdleFacts DEF Carries
<1>4. \A step \in {"take", "push", "emptyack"} : Goto(c, step, {}) => Carries(c)' = {}
  BY GotoFacts DEF Carries
<1>5. ASSUME Check(c) \/ EmptyAck(c) PROVE Carries(c) = {} /\ Carries(c)' = {}
  BY <1>3, <1>4, <1>5 DEF Check, EmptyAck, Carries, Places
<1>6. ASSUME Take(c) PROVE Carries(c) = {} /\ Carries(c)' = dropped
  <2>1. Goto(c, "push", dropped) /\ cb[c].took = {} /\ cb[c].at = "take"
    BY <1>6 DEF Take, Places
  <2>2. cb'[c].at = "push" /\ cb'[c].took = dropped
    BY <1>2, <2>1, GotoFacts
  <2>3. QED
    BY <2>1, <2>2 DEF Carries
<1>7. ASSUME Push(c) PROVE Carries(c) = cb[c].took /\ Carries(c)' = {}
  BY <1>3, <1>7 DEF Push, Carries
<1>8. ASSUME PushFails(c)
      PROVE  /\ Carries(c) = cb[c].took
             /\ Carries(c)' = cb[c].took \cup IF cb[c].note = None THEN {} ELSE {cb[c].note}
  <2>1. Carries(c) = cb[c].took
    BY <1>8 DEF PushFails, Carries
  <2>2. CASE cb[c].note = None
    BY <1>3, <1>8, <2>1, <2>2 DEF PushFails, Places
  <2>3. CASE cb[c].note # None
    <3>1. cb'[c].at = "countback" /\ cb'[c].took = cb[c].took /\ cb'[c].note = cb[c].note
      BY <1>2, <1>8, <2>3, GotoFacts DEF PushFails
    <3>2. QED
      BY <2>1, <2>3, <3>1 DEF Carries
  <2>4. QED
    BY <2>2, <2>3
<1>9. ASSUME CountBack(c) PROVE Carries(c) = cb[c].took \cup {cb[c].note} /\ Carries(c)' = {}
  BY <1>4, <1>9 DEF CountBack, Carries
<1>10. QED
  BY <1>1, <1>5, <1>6, <1>7, <1>8, <1>9

\* A callback that starts carries nothing.
LEMMA StartCarries ==
  ASSUME TypeOK, Places, NEW c \in Callback,
         WatchError(c) \/ \E n \in Note : Notify(c, n)
  PROVE  UNCHANGED <<dropped, reported, unheard, lost, queue>>
         /\ \A d \in Callback : Carries(d)' = Carries(d)
<1>1. /\ UNCHANGED <<dropped, reported, unheard, lost, queue>>
      /\ cb[c].at = "idle" /\ cb'[c].at = "check" /\ cb'[c].took = {}
      /\ \A d \in Callback : d # c => cb'[d] = cb[d]
  BY NotifyFacts, ErrorFacts DEF data, js
<1>2. Carries(c) = {} /\ Carries(c)' = {}
  BY <1>1, IdleFacts DEF Carries, Places
<1>3. QED
  BY <1>1, <1>2 DEF Carries

\* Steps that leave counts and carriers alone.
LEMMA LossesStay ==
  ASSUME Losses, UNCHANGED <<dropped, reported, unheard, lost, queue>>,
         \A d \in Callback : Carries(d)' = Carries(d)
  PROVE  Losses'
BY DEF Losses, LossKept, BoxesApart, QueueApart, CarrierApart

LEMMA TakeLosses ==
  ASSUME TypeOK, Places, Losses, NEW c \in Callback, Take(c)
  PROVE  Losses'
<1>1. UNCHANGED <<reported, unheard, lost, queue>> /\ dropped' = {}
      /\ Carries(c) = {} /\ Carries(c)' = dropped
      /\ \A d \in Callback : d # c => Carries(d)' = Carries(d)
  BY CarriesMoves DEF Take, js, CallbackStep
<1>2. LossKept'
  BY <1>1 DEF Losses, LossKept
<1>3. BoxesApart'
  BY <1>1 DEF Losses, BoxesApart, Apart
<1>4. QueueApart'
  BY <1>1 DEF Losses, QueueApart, Apart
<1>5. CarrierApart(c)'
  BY <1>1 DEF Losses, BoxesApart, QueueApart, CarrierApart, Apart
<1>6. \A d \in Callback : d # c => CarrierApart(d)'
  BY <1>1 DEF Losses, CarrierApart, Apart
<1>7. QED
  BY <1>2, <1>3, <1>4, <1>5, <1>6 DEF Losses

LEMMA PushLosses ==
  ASSUME TypeOK, Places, Losses, NEW c \in Callback, Push(c)
  PROVE  Losses'
<1>1. UNCHANGED <<dropped, reported, unheard, lost>>
      /\ Carries(c)' = {} /\ \A d \in Callback : d # c => Carries(d)' = Carries(d)
  BY CarriesMoves DEF Push, js, data, CallbackStep
<1>2. /\ \A i \in DOMAIN queue' :
           \/ i \in DOMAIN queue /\ queue'[i].dropped = queue[i].dropped
           \/ i \notin DOMAIN queue /\ i = Len(queue) + 1 /\ queue'[i].dropped = Carries(c)
      /\ \A i \in DOMAIN queue : i \in DOMAIN queue' /\ queue'[i].dropped = queue[i].dropped
      /\ \E i \in DOMAIN queue' : queue'[i].dropped = Carries(c)
  <2>1. EventOf(c).dropped = Carries(c)
    BY PushFacts, CarriesMoves DEF CallbackStep
  <2>2. QED
    BY <2>1, PushFacts
<1>3. LossKept'
  <2>1. \A n \in Note : (\E i \in DOMAIN queue' : n \in queue'[i].dropped)
                        <=> n \in Carries(c) \/ \E i \in DOMAIN queue : n \in queue[i].dropped
    BY <1>2
  <2>2. QED
    BY <1>1, <2>1 DEF Losses, LossKept
<1>4. BoxesApart'
  BY <1>1 DEF Losses, BoxesApart
<1>5. QueueApart'
  <2>1. CarrierApart(c)
    BY DEF Losses
  <2>2. \A i \in DOMAIN queue' : Apart(queue'[i].dropped, dropped \cup reported \cup unheard)
    BY <1>2, <2>1 DEF Losses, QueueApart, CarrierApart
  <2>3. \A i, j \in DOMAIN queue' : i # j => Apart(queue'[i].dropped, queue'[j].dropped)
    BY <1>2, <2>1 DEF Losses, QueueApart, CarrierApart, Apart
  <2>4. QED
    BY <1>1, <2>2, <2>3 DEF QueueApart
<1>6. CarrierApart(c)'
  BY <1>1 DEF CarrierApart, Apart
<1>7. ASSUME NEW d \in Callback, d # c PROVE CarrierApart(d)'
  <2>1. CarrierApart(d)
    BY DEF Losses
  <2>2. \A i \in DOMAIN queue' : Apart(Carries(d), queue'[i].dropped)
    BY <1>2, <1>7, <2>1 DEF CarrierApart
  <2>3. \A e \in Callback : d # e => Apart(Carries(d), Carries(e)')
    BY <1>1, <2>1 DEF CarrierApart, Apart
  <2>4. QED
    BY <1>1, <1>7, <2>1, <2>2, <2>3 DEF CarrierApart
<1>8. QED
  BY <1>3, <1>4, <1>5, <1>6, <1>7 DEF Losses

\* A notification that finds the queue full was counted nowhere before.
LEMMA FailLosses ==
  ASSUME TypeOK, Places, Notes, Losses, NEW c \in Callback, PushFails(c)
  PROVE  Losses'
<1>1. UNCHANGED <<dropped, reported, unheard, queue>> /\ cb[c].at = "push"
      /\ \A d \in Callback : d # c => Carries(d)' = Carries(d)
  BY CarriesMoves DEF PushFails, js, data, CallbackStep
<1>2. CASE cb[c].note = None
  <2>1. Carries(c)' = Carries(c) /\ lost' = lost
    BY <1>2, CarriesMoves DEF PushFails, CallbackStep
  <2>2. QED
    BY <1>1, <2>1, LossesStay
<1>3. CASE cb[c].note # None
  <2>1. PICK n \in Note : n = cb[c].note
    BY <1>3, DoingFacts
  <2>2. lost' = lost \cup {n} /\ Carries(c)' = Carries(c) \cup {n}
    BY <1>3, <2>1, CarriesMoves DEF PushFails, CallbackStep
  <2>3. n \notin lost
    BY <1>1, <1>3, <2>1 DEF Notes, CallbackNotes
  <2>4. /\ n \notin dropped \cup reported \cup unheard
        /\ \A i \in DOMAIN queue : n \notin queue[i].dropped
        /\ \A d \in Callback : n \notin Carries(d)
    BY <2>1, <2>3 DEF Losses, LossKept
  <2>5. LossKept'
    BY <1>1, <2>1, <2>2 DEF Losses, LossKept
  <2>6. BoxesApart' /\ QueueApart'
    BY <1>1 DEF Losses, BoxesApart, QueueApart
  <2>7. ASSUME NEW d \in Callback PROVE CarrierApart(d)'
    <3>1. CarrierApart(d)
      BY DEF Losses
    <3>2. QED
      BY <1>1, <2>2, <2>4, <3>1 DEF CarrierApart, Apart
  <2>8. QED
    BY <2>5, <2>6, <2>7 DEF Losses
<1>4. QED
  BY <1>2, <1>3

LEMMA CountLosses ==
  ASSUME TypeOK, Places, Losses, NEW c \in Callback, CountBack(c)
  PROVE  Losses'
<1>1. UNCHANGED <<reported, unheard, lost, queue>> /\ dropped' = dropped \cup Carries(c)
      /\ Carries(c)' = {} /\ \A d \in Callback : d # c => Carries(d)' = Carries(d)
  BY CarriesMoves DEF CountBack, js, CallbackStep
<1>2. CarrierApart(c)
  BY DEF Losses
<1>3. LossKept'
  BY <1>1 DEF Losses, LossKept
<1>4. BoxesApart'
  BY <1>1, <1>2 DEF Losses, BoxesApart, CarrierApart, Apart
<1>5. QueueApart'
  BY <1>1, <1>2 DEF Losses, QueueApart, CarrierApart, Apart
<1>6. ASSUME NEW d \in Callback PROVE CarrierApart(d)'
  <2>1. CarrierApart(d)
    BY DEF Losses
  <2>2. QED
    BY <1>1, <1>2, <2>1 DEF CarrierApart, Apart
<1>7. QED
  BY <1>3, <1>4, <1>5, <1>6 DEF Losses

\* An event takes its losses out of the queue: reported, or unheard.
LEMMA DispatchLosses ==
  ASSUME TypeOK, Places, Losses, Dispatches
  PROVE  Losses'
<1>1. /\ UNCHANGED <<dropped, lost>> /\ 1 \in DOMAIN queue
      /\ \A i \in DOMAIN queue' : i + 1 \in DOMAIN queue /\ i + 1 # 1 /\ queue'[i] = queue[i + 1]
      /\ \A i, j \in DOMAIN queue' : i # j => i + 1 # j + 1
      /\ \A i \in DOMAIN queue : i # 1 => i - 1 \in DOMAIN queue' /\ queue'[i - 1] = queue[i]
  BY DispatchFacts DEF data
<1>2. \A c \in Callback : Carries(c)' = Carries(c)
  BY DispatchFacts DEF Carries
<1>3. \/ reported' = reported \cup queue[1].dropped /\ unheard' = unheard
      \/ unheard' = unheard \cup queue[1].dropped /\ reported' = reported
  <2>1. CASE DispatchError
    <3>1. queue[1].dropped = {}
      BY <1>1, <2>1, DispatchFacts DEF DispatchError, Places
    <3>2. QED
      BY <2>1, <3>1 DEF DispatchError, js
  <2>2. QED
    BY <2>1, DispatchFacts DEF Dispatches, Dispatch, Discard
<1>4. LossKept'
  <2>1. \A n \in Note : (\E i \in DOMAIN queue : n \in queue[i].dropped)
                        <=> n \in queue[1].dropped \/ \E i \in DOMAIN queue' : n \in queue'[i].dropped
    <3>1. ASSUME NEW n \in Note, NEW i \in DOMAIN queue, n \in queue[i].dropped, n \notin queue[1].dropped
          PROVE  \E k \in DOMAIN queue' : n \in queue'[k].dropped
      <4>1. i - 1 \in DOMAIN queue' /\ queue'[i - 1] = queue[i]
        BY <1>1, <3>1
      <4>2. QED
        BY <3>1, <4>1
    <3>2. ASSUME NEW n \in Note, NEW i \in DOMAIN queue', n \in queue'[i].dropped
          PROVE  \E k \in DOMAIN queue : n \in queue[k].dropped
      <4>1. i + 1 \in DOMAIN queue /\ queue'[i] = queue[i + 1]
        BY <1>1
      <4>2. QED
        BY <3>2, <4>1
    <3>3. QED
      BY <1>1, <3>1, <3>2
  <2>2. QED
    BY <1>1, <1>2, <1>3, <2>1 DEF Losses, LossKept
<1>5. BoxesApart'
  BY <1>1, <1>3 DEF Losses, BoxesApart, QueueApart, Apart
<1>6. QueueApart'
  <2>1. \A i \in DOMAIN queue' : Apart(queue'[i].dropped, queue[1].dropped)
    BY <1>1 DEF Losses, QueueApart
  <2>2. \A i \in DOMAIN queue' : Apart(queue'[i].dropped, dropped \cup reported' \cup unheard')
    BY <1>1, <1>3, <2>1 DEF Losses, QueueApart, Apart
  <2>3. \A i, j \in DOMAIN queue' : i # j => Apart(queue'[i].dropped, queue'[j].dropped)
    BY <1>1 DEF Losses, QueueApart
  <2>4. QED
    BY <1>1, <2>2, <2>3 DEF QueueApart
<1>7. ASSUME NEW c \in Callback PROVE CarrierApart(c)'
  <2>1. CarrierApart(c)
    BY DEF Losses
  <2>2. Apart(Carries(c), dropped \cup reported' \cup unheard')
    BY <1>1, <1>3, <2>1 DEF CarrierApart, Apart
  <2>3. \A i \in DOMAIN queue' : Apart(Carries(c), queue'[i].dropped)
    BY <1>1, <2>1 DEF CarrierApart
  <2>4. QED
    BY <1>1, <1>2, <2>1, <2>2, <2>3 DEF CarrierApart
<1>8. QED
  BY <1>4, <1>5, <1>6, <1>7 DEF Losses

LEMMA LossesStep ==
  ASSUME TypeOK, Places, Notes, Losses, [Next]_vars  PROVE  Losses'
<1>1. ASSUME NEW c \in Callback, Check(c) \/ EmptyAck(c) PROVE Losses'
  BY <1>1, CarriesMoves, LossesStay DEF CallbackStep, Check, EmptyAck, data, js
<1>2. CASE UNCHANGED <<dropped, reported, unheard, lost, queue, cb>>
  BY <1>2, LossesStay DEF Carries
<1>3. QED
  BY <1>1, <1>2, Steps, StartCarries, LossesStay, TakeLosses, PushLosses, FailLosses, CountLosses,
     DispatchLosses, CloseLeaves
     DEF CallbackStep, Dispatches, AckLater, AckDone, vars, data, js

-----------------------------------------------------------------------------
LEMMA InvInit == Init => IInv
<1> SUFFICES ASSUME Init PROVE IInv
  OBVIOUS
<1>1. \A c \in Callback : cb[c] = Idle /\ cb[c].at = "idle" /\ cb[c].note = None /\ cb[c].took = {}
  BY IdleFacts DEF Init
<1>2. TypeOK
  <2>1. Idle \in Doing
    BY DEF Idle, Doing
  <2>2. queue \in Seq(Event) /\ Len(queue) <= QueueSize
    BY WatchAssumption DEF Init
  <2>3. cb \in [Callback -> Doing] /\ acked \in [Note -> 0..2] /\ errors \in 0..MaxErrors
    BY <2>1, WatchAssumption DEF Init
  <2>4. QED
    BY <2>2, <2>3 DEF Init, TypeOK
<1>3. DOMAIN queue = {} /\ \A c \in Callback : Carries(c) = {}
  BY <1>1 DEF Init, Carries
<1>4. Places /\ CallbackNotes /\ QueueNotes
  BY <1>1, <1>3 DEF Places, CallbackNotes, QueueNotes
<1>5. AckNotes /\ CloseOrder
  BY <1>1 DEF Init, AckNotes, CloseOrder, Apart, One
<1>6. Losses
  BY <1>3 DEF Init, Losses, LossKept, BoxesApart, QueueApart, CarrierApart, Apart
<1>7. QED
  BY <1>2, <1>4, <1>5, <1>6 DEF IInv

LEMMA InvStep == IInv /\ [Next]_vars => IInv'
BY TypeStep, PlacesStep, NotesStep, CloseOrderStep, LossesStep DEF IInv, Notes

\* Places, notifications, closing order and losses are as IInv says.
THEOREM Invariant == Spec => []IInv
  BY InvInit, InvStep, PTL DEF Spec

\* Every variable has its type.
THEOREM TypeCorrect == Spec => []TypeOK
<1>1. IInv => TypeOK
  BY DEF IInv
<1> QED
  BY <1>1, Invariant, PTL

\* Each notification that found the queue full is counted in exactly one place.
THEOREM LossesCountedOnce == Spec => []LossAccounting
<1>1. ASSUME IInv PROVE LossAccounting
  <2>1. ASSUME NEW n PROVE n \in lost <=> \/ n \in dropped \cup reported \cup unheard
                                          \/ n \in Queued
                                          \/ n \in UNION {Carries(c) : c \in Callback}
    <3>1. CASE n \in Note
      BY <1>1, <3>1 DEF IInv, Losses, LossKept, Queued
    <3>2. CASE n \notin Note
      <4>1. \A c \in Callback : n \notin Carries(c)
        BY <1>1, <3>2, DoingFacts DEF IInv, Places, Carries
      <4>2. \A i \in DOMAIN queue : queue[i].dropped \in SUBSET Note
        <5>1. queue \in Seq(Event)
          BY <1>1 DEF IInv, TypeOK
        <5>2. \A i \in DOMAIN queue : queue[i] \in Event
          BY <5>1
        <5>3. QED
          BY <5>2 DEF Event
      <4>3. QED
        BY <1>1, <3>2, <4>1, <4>2 DEF IInv, TypeOK, Queued
    <3>3. QED
      BY <3>1, <3>2
  <2>2. \A c \in Callback : Apart(Carries(c), dropped \cup reported \cup unheard \cup Queued)
    BY <1>1 DEF IInv, Losses, CarrierApart, Apart, Queued
  <2>3. lost = dropped \cup reported \cup unheard \cup Queued \cup UNION {Carries(c) : c \in Callback}
    BY <2>1
  <2>4. QED
    BY <1>1, <2>2, <2>3 DEF LossAccounting, IInv, Losses, BoxesApart, QueueApart, CarrierApart
<1> QED
  BY <1>1, Invariant, PTL

\* No notification is acknowledged twice, whoever does.
THEOREM NeverAcknowledgedTwice == Spec => []OneAck
<1>1. ASSUME IInv PROVE OneAck
  <2>1. ASSUME NEW n \in Note, NEW c \in Acking(n)
        PROVE  acked[n] = 0 /\ n \notin ackJob /\ \A d \in Acking(n) : d = c
    <3>1. c \in Callback /\ cb[c].note = n /\ n # None /\ cb[c].at \in {"countback", "emptyack"}
      BY WatchAssumption DEF Acking
    <3>2. acked[n] = 0 /\ n \notin delivered
      BY <1>1, <3>1 DEF IInv, CallbackNotes
    <3>3. \A d \in Acking(n) : d = c
      BY <1>1, <3>1 DEF IInv, CallbackNotes, Acking
    <3>4. QED
      BY <1>1, <3>2, <3>3 DEF IInv, AckNotes
  <2>2. ASSUME NEW n \in Note, Acking(n) = {} PROVE acked[n] + One(n \in ackJob) <= 1
    BY <1>1 DEF IInv, AckNotes, TypeOK, One
  <2>3. ASSUME NEW n \in Note PROVE acked[n] + One(n \in ackJob) + One(Acking(n) # {}) <= 1
    <3>1. CASE Acking(n) = {}
      <4>1. acked[n] + One(n \in ackJob) <= 1 /\ One(Acking(n) # {}) = 0
        BY <2>2, <3>1 DEF One
      <4>2. acked[n] \in Int /\ One(n \in ackJob) \in Int
        BY <1>1 DEF IInv, TypeOK, One
      <4>3. QED
        BY <4>1, <4>2
    <3>2. CASE Acking(n) # {}
      <4>1. acked[n] = 0 /\ One(n \in ackJob) = 0 /\ One(Acking(n) # {}) = 1
        BY <2>1, <3>2 DEF One
      <4>2. QED
        BY <4>1
    <3>3. QED
      BY <3>1, <3>2
  <2>4. QED
    BY <2>1, <2>3 DEF OneAck
<1> QED
  BY <1>1, Invariant, PTL

\* No callback is in flight once close() has released what it uses.
THEOREM NoLateCallback == Spec => []ReleasedWhenQuiet
<1>1. IInv => ReleasedWhenQuiet
  BY DEF IInv, CloseOrder, ReleasedWhenQuiet
<1> QED
  BY <1>1, Invariant, PTL

-----------------------------------------------------------------------------
\* What the channel keeps is what was lost and neither reported nor unheard.
Kept == dropped \cup Queued \cup UNION {Carries(c) : c \in Callback}

LEMMA KeptIs ==
  ASSUME LossAccounting
  PROVE  Kept = lost \ (reported \cup unheard)
<1>1. Apart(UNION {Carries(c) : c \in Callback}, reported \cup unheard)
  BY DEF LossAccounting, Apart
<1>2. Apart(Queued, reported \cup unheard)
  BY DEF LossAccounting, Apart, Queued
<1>3. QED
  BY <1>1, <1>2 DEF LossAccounting, Apart, Kept

LEMMA ChannelInit == Init => Channel!Init
<1> SUFFICES ASSUME Init PROVE Channel!Init
  OBVIOUS
<1>1. \A c \in Callback : Carries(c) = {}
  BY IdleFacts DEF Init, Carries
<1>2. Queued = {} /\ Kept = {}
  BY <1>1 DEF Init, Queued, Kept
<1>3. QED
  BY <1>2, Zenon DEF Init, Channel!Init, Kept

\* Given what the channel keeps before and after, a step is one of the channel.
LEMMA ChannelMoves ==
  ASSUME Kept = lost \ (reported \cup unheard), Kept' = (lost \ (reported \cup unheard))',
         IInv, [Next]_vars
  PROVE  [Channel!Next]_Channel!vars
<1>1. UNCHANGED <<reported, unheard, lost, jsClosed>> => [Channel!Next]_Channel!vars
  <2>1. UNCHANGED <<reported, unheard, lost, jsClosed>> => Kept' = Kept
    OBVIOUS
  <2>2. QED
    BY <2>1, Zenon DEF Channel!vars, Kept
<1>2. ASSUME NEW c \in Callback, CallbackStep(c) PROVE [Channel!Next]_Channel!vars
  <2>1. UNCHANGED <<reported, unheard, jsClosed>>
    BY <1>2, CallbackMoves DEF js, IInv
  <2>2. CASE lost' = lost
    BY <1>1, <2>1, <2>2
  <2>3. ASSUME PushFails(c), cb[c].note # None PROVE Channel!Put("watch", cb[c].note) /\ cb[c].note \in Note
    <3>1. cb[c].note \in Note \ lost /\ lost' = lost \cup {cb[c].note}
      BY <2>3, DoingFacts DEF PushFails, IInv, CallbackNotes
    <3>2. cb[c].note \notin Kept \cup reported \cup unheard /\ Kept' = Kept \cup {cb[c].note}
      BY <2>1, <3>1 DEF IInv, Losses, LossKept
    <3>3. QED
      BY <2>1, <3>1, <3>2 DEF Channel!Put, Kept
  <2>4. CASE PushFails(c)
    BY <1>1, <2>1, <2>3, <2>4 DEF PushFails, Channel!Next
  <2>5. QED
    BY <1>2, <2>2, <2>4 DEF CallbackStep, Check, Take, Push, CountBack, EmptyAck
<1>3. CASE Dispatches
  <2>1. PICK H \in SUBSET Note : H = Head(queue).dropped
    BY <1>3, DispatchFacts DEF IInv
  <2>2. H \subseteq lost \ (reported \cup unheard) /\ lost' = lost /\ jsClosed' = jsClosed
    BY <1>3, <2>1, DispatchFacts DEF IInv, Losses, LossKept, QueueApart, Apart
  <2>3. CASE Discard
    <3>1. Kept' = Kept \ H /\ unheard' = unheard \cup H /\ reported' = reported /\ jsClosed
      BY <2>1, <2>2, <2>3 DEF Discard
    <3>2. Channel!Discard("watch", H)
      BY <2>2, <3>1 DEF Channel!Discard, Kept
    <3>3. QED
      BY <3>2 DEF Channel!Next
  <2>4. ASSUME NEW how \in Listening, Dispatch(how) PROVE [Channel!Next]_Channel!vars
    <3>1. Kept' = Kept \ H /\ reported' = reported \cup H /\ unheard' = unheard /\ ~jsClosed
      BY <2>1, <2>2, <2>4 DEF Dispatch
    <3>2. Channel!Tell("watch", H)
      BY <2>2, <3>1 DEF Channel!Tell, Kept
    <3>3. QED
      BY <3>2 DEF Channel!Next
  <2>5. CASE DispatchError
    BY <1>1, <2>2, <2>5 DEF DispatchError, js
  <2>6. QED
    BY <1>3, <2>3, <2>4, <2>5 DEF Dispatches
<1>4. CASE JsClose
  <2>1. Kept' = Kept /\ UNCHANGED <<reported, unheard>> /\ jsClosed' = TRUE
    BY <1>4 DEF JsClose
  <2>2. Channel!Close("watch")
    BY <2>1 DEF Channel!Close, Kept
  <2>3. QED
    BY <2>2 DEF Channel!Next
<1>5. QED
  BY <1>1, <1>2, <1>3, <1>4, Steps
     DEF Notify, WatchError, AckLater, AckDone, CloseStep, CloseExchange, Unwatch, Flush, Release,
         Dispatches, vars, js

\* The detailed watch, its queue, counter and threads, is a lossy channel for the
\* notifications it has lost: each is reported once, or thrown away after close().
THEOREM WatchIsChannel == Spec => KeepsEveryLoss
<1> DEFINE Right == Kept = lost \ (reported \cup unheard)
<1>1. LossAccounting => Right
  BY KeptIs
<1>2. Right /\ Right' /\ IInv /\ [Next]_vars => [Channel!Next]_Channel!vars
  BY ChannelMoves
<1> HIDE DEF Right
<1>3. QED
  BY <1>1, <1>2, LossesCountedOnce, Invariant, ChannelInit, PTL
     DEF Spec, KeepsEveryLoss, Channel!Spec

-----------------------------------------------------------------------------
(* Who answers.  A notification passes from its callback to the queue, to   *)
(* the listeners and to the worker of its acknowledgement, each of them in  *)
(* one step, so that it is never out of everybody's hands.                  *)

\* A callback that has the notification n.
With(n) == \E c \in Callback : cb[c].note = n

\* Until it is tried, a lost notification is its callback's to answer,
Overflown(n) == n \in lost => Tried(n) \/ With(n)

\* and any other one somebody's, or a listener's.
Owed(n) ==
  \/ n \notin sent \/ Tried(n) \/ jsClosed
  \/ With(n) \/ (\E i \in DOMAIN queue : queue[i].note = n) \/ n \in ackJob
  \/ n \in delivered \ acknowledged /\ (n \in thrown \/ ~AutoAck)

\* Data::close only runs when close() was called.
ClosedByJs == closed => jsClosed

Answers == ClosedByJs /\ \A n \in Note : Overflown(n) /\ Owed(n)

\* An acknowledgement that was tried remains so.
LEMMA TriedStays ==
  ASSUME TypeOK, AckNotes, [Next]_vars, NEW n \in Note, Tried(n)
  PROVE  Tried(n)'
<1>1. ASSUME NEW m \in Note, acked[m] <= 1, Acknowledge(m) PROVE Tried(n)'
  BY <1>1 DEF Acknowledge, Tried, TypeOK
<1>2. ASSUME NEW c \in Callback, EmptyAck(c), cb[c].note \in Note PROVE Tried(n)'
  BY <1>1, <1>2, AckedAtMostOnce DEF EmptyAck
<1>3. ASSUME NEW c \in Callback, EmptyAck(c), cb[c].note \notin Note PROVE Tried(n)'
  BY <1>3 DEF EmptyAck, Acknowledge, Tried, TypeOK
<1>4. ASSUME NEW m \in Note, AckDone(m) PROVE Tried(n)'
  BY <1>1, <1>4, AckedAtMostOnce DEF AckDone
<1>5. CASE UNCHANGED acks
  BY <1>5 DEF acks, Tried
<1>6. QED
  BY <1>2, <1>3, <1>4, <1>5, CloseLeaves, DispatchFacts, Steps
     DEF Notify, WatchError, CallbackStep, Check, Take, Push, PushFails, CountBack,
         Dispatches, AckLater, vars

\* Whoever acknowledges has tried to.
LEMMA AcknowledgeTries ==
  ASSUME TypeOK, NEW n \in Note, acked[n] <= 1, Acknowledge(n)
  PROVE  Tried(n)'
BY DEF TypeOK, Acknowledge, Tried

\* What a step of its callback makes of a notification: it stays there, goes into the
\* queue, is tried, or is dropped by a callback that finds the watch closed.
LEMMA CallbackPasses ==
  ASSUME TypeOK, Places, AckNotes, ClosedByJs, NEW c \in Callback, CallbackStep(c),
         NEW n \in Note, cb[c].note = n
  PROVE  \/ cb'[c].note = n \/ Tried(n)'
         \/ cb[c].at = "push" /\ \E i \in DOMAIN queue' : queue'[i].note = n
         \/ cb[c].at = "check" /\ jsClosed'
<1>1. n # None
  BY WatchAssumption
<1>2. CASE Check(c)
  <2>1. CASE closed
    BY <1>2, <2>1 DEF Check, ClosedByJs, js
  <2>2. CASE ~closed
    BY <1>1, <1>2, <2>2, GotoFacts DEF Check
  <2>3. QED
    BY <2>1, <2>2
<1>3. CASE Take(c)
  BY <1>3, GotoFacts DEF Take, TypeOK
<1>4. CASE Push(c)
  BY <1>4, PushFacts DEF Push
<1>5. CASE PushFails(c)
  BY <1>1, <1>5, GotoFacts, DoingFacts DEF PushFails
<1>6. CASE CountBack(c)
  BY <1>6, GotoFacts DEF CountBack
<1>7. CASE EmptyAck(c)
  BY <1>7, AckedAtMostOnce, AcknowledgeTries DEF EmptyAck
<1>8. QED
  BY <1>2, <1>3, <1>4, <1>5, <1>6, <1>7 DEF CallbackStep

\* An overflow stays with its callback until it was tried.
LEMMA OverflownStep ==
  ASSUME TypeOK, Places, Notes, Answers, [Next]_vars, NEW n \in Note
  PROVE  Overflown(n)'
<1>1. CASE n \in lost /\ Tried(n)
  BY <1>1, TriedStays DEF Overflown, Notes
<1>2. ASSUME NEW c \in Callback, CallbackStep(c), n \in lost', ~(n \in lost /\ Tried(n))
      PROVE  Tried(n)' \/ With(n)'
  <2>1. \A d \in Callback : d # c => cb'[d] = cb[d]
    BY <1>2, CallbackMoves
  <2>2. CASE n \in lost
    <3>1. PICK d \in Callback : cb[d].note = n
      BY <1>2, <2>2 DEF Answers, Overflown, With
    <3>2. cb[d].at \in {"countback", "emptyack"}
      BY <2>2, <3>1, WatchAssumption DEF Notes, CallbackNotes
    <3>3. CASE d # c
      BY <2>1, <3>1, <3>3 DEF With
    <3>4. CASE d = c
      BY <1>2, <3>1, <3>2, <3>4, CallbackPasses DEF With, Answers, Notes
    <3>5. QED
      BY <3>3, <3>4
  <2>3. CASE n \notin lost
    <3>1. PushFails(c) /\ Goto(c, "countback", cb[c].took) /\ cb[c].note = n
      BY <1>2, <2>3 DEF CallbackStep, Check, Take, Push, PushFails, CountBack, EmptyAck
    <3>2. cb'[c].note = n
      BY <3>1, GotoFacts, DoingFacts
    <3>3. QED
      BY <3>2 DEF With
  <2>4. QED
    BY <2>2, <2>3
<1>3. ASSUME NEW c \in Callback, NEW m \in Note, Notify(c, m) PROVE Overflown(n)'
  <2>1. lost' = lost /\ acked' = acked /\ failed' = failed
        /\ \A d \in Callback : cb[d].note = n => cb'[d].note = n
    BY <1>3, NotifyFacts, WatchAssumption, IdleFacts DEF Places, acks
  <2>2. QED
    BY <2>1 DEF Answers, Overflown, Tried, With
<1>4. ASSUME NEW c \in Callback, WatchError(c) PROVE Overflown(n)'
  <2>1. lost' = lost /\ acked' = acked /\ failed' = failed
        /\ \A d \in Callback : cb[d].note = n => cb'[d].note = n
    BY <1>4, ErrorFacts, WatchAssumption, IdleFacts DEF Places, acks
  <2>2. QED
    BY <2>1 DEF Answers, Overflown, Tried, With
<1>5. CASE UNCHANGED <<cb, lost>>
  BY <1>5, TriedStays DEF Answers, Overflown, With, Notes
<1>6. QED
  BY <1>1, <1>2, <1>3, <1>4, <1>5, CloseLeaves, DispatchFacts, Steps
     DEF Overflown, Dispatches, AckLater, AckDone, vars, data, js

\* Any other one stays in somebody's hands.
LEMMA OwedStep ==
  ASSUME TypeOK, Places, Notes, Answers, [Next]_vars, NEW n \in Note
  PROVE  Owed(n)'
<1>0. n # None /\ Owed(n)
  BY WatchAssumption DEF Answers
<1>1. CASE Tried(n)
  BY <1>1, TriedStays DEF Owed, Notes
<1>2. ASSUME NEW c \in Callback, NEW m \in Note, Notify(c, m) PROVE Owed(n)'
  <2>1. CASE m = n
    BY <1>2, <2>1, NotifyFacts DEF Owed, With
  <2>2. CASE m # n
    <3>1. \A d \in Callback : cb[d].note = n => cb'[d].note = n
      BY <1>0, <1>2, NotifyFacts, IdleFacts DEF Places
    <3>2. With(n) => With(n)'
      BY <3>1 DEF With
    <3>3. QED
      BY <1>0, <1>2, <2>2, <3>2, NotifyFacts DEF Owed, Tried, js, acks
  <2>3. QED
    BY <2>1, <2>2
<1>3. ASSUME NEW c \in Callback, WatchError(c) PROVE Owed(n)'
  <2>1. \A d \in Callback : cb[d].note = n => cb'[d].note = n
    BY <1>0, <1>3, ErrorFacts, IdleFacts DEF Places
  <2>2. With(n) => With(n)'
    BY <2>1 DEF With
  <2>3. QED
    BY <1>0, <1>3, <2>2, ErrorFacts DEF Owed, Tried, js, acks
<1>4. ASSUME NEW c \in Callback, CallbackStep(c), ~Tried(n) PROVE Owed(n)'
  <2>1. /\ \A d \in Callback : d # c => cb'[d] = cb[d]
        /\ UNCHANGED <<sent, jsClosed, ackJob, delivered, acknowledged, thrown>>
    BY <1>4, CallbackMoves DEF js
  <2>2. CASE With(n)
    <3>1. PICK d \in Callback : cb[d].note = n
      BY <2>2 DEF With
    <3>2. CASE d # c
      BY <2>1, <3>1, <3>2 DEF Owed, With
    <3>3. CASE d = c
      BY <1>4, <3>1, <3>3, CallbackPasses DEF Owed, With, Answers, Notes
    <3>4. QED
      BY <3>2, <3>3
  <2>3. \A i \in DOMAIN queue : queue[i].note = n => i \in DOMAIN queue' /\ queue'[i].note = n
    <3>1. Push(c) \/ queue' = queue
      BY <1>4 DEF CallbackStep, Check, Take, PushFails, CountBack, EmptyAck
    <3>2. QED
      BY <3>1, PushFacts
  <2>4. CASE ~With(n)
    BY <1>0, <1>4, <2>1, <2>3, <2>4 DEF Owed
  <2>5. QED
    BY <2>2, <2>4
<1>5. ASSUME Dispatches, ~Tried(n) PROVE Owed(n)'
  <2>1. /\ UNCHANGED <<sent, cb, jsClosed>>
        /\ 1 \in DOMAIN queue /\ Head(queue) = queue[1]
        /\ \A i \in DOMAIN queue : i # 1 => i - 1 \in DOMAIN queue' /\ queue'[i - 1] = queue[i]
    BY <1>5, DispatchFacts
  <2>2. CASE Discard
    BY <2>1, <2>2 DEF Discard, Owed
  <2>3. CASE DispatchError
    <3>1. \A i \in DOMAIN queue : queue[i].note = n => i # 1
      BY <1>0, <2>1, <2>3 DEF DispatchError
    <3>2. (\E i \in DOMAIN queue : queue[i].note = n) => \E i \in DOMAIN queue' : queue'[i].note = n
      BY <2>1, <3>1
    <3>3. QED
      BY <1>0, <1>5, <2>1, <2>3, <3>2 DEF DispatchError, Owed, With, js
  <2>4. ASSUME NEW how \in Listening, Dispatch(how) PROVE Owed(n)'
    <3>1. PICK m \in Note : m = queue[1].note
      BY <2>1, <2>4, DispatchFacts, <1>5 DEF Dispatch
    <3>2. /\ delivered' = delivered \cup {m}
          /\ thrown' = IF how = "throws" THEN thrown \cup {m} ELSE thrown
          /\ \/ UNCHANGED <<acknowledged, ackJob>> /\ (how = "throws" \/ ~AutoAck)
             \/ acknowledged' = acknowledged \cup {m} /\ ackJob' = ackJob \cup {m}
      BY <2>1, <2>4, <3>1 DEF Dispatch, AckCall, Listening
    <3>3. CASE m = n
      <4>1. n \notin acknowledged
        BY <1>0, <2>1, <3>1, <3>3 DEF Notes, QueueNotes, AckNotes
      <4>2. QED
        BY <3>2, <3>3, <4>1 DEF Owed
    <3>4. CASE m # n
      <4>1. \A i \in DOMAIN queue : queue[i].note = n => i # 1
        BY <3>1, <3>4
      <4>2. (\E i \in DOMAIN queue : queue[i].note = n)
              => \E i \in DOMAIN queue' : queue'[i].note = n
        BY <2>1, <4>1
      <4>3. QED
        BY <1>0, <1>5, <2>1, <3>2, <3>4, <4>2 DEF Owed, With
    <3>5. QED
      BY <3>3, <3>4
  <2>5. QED
    BY <1>5, <2>2, <2>3, <2>4 DEF Dispatches
<1>6. ASSUME NEW m \in Note, AckLater(m), ~Tried(n) PROVE Owed(n)'
  BY <1>0, <1>6 DEF AckLater, AckCall, Owed, With
<1>7. ASSUME NEW m \in Note, AckDone(m), ~Tried(n) PROVE Owed(n)'
  <2>1. CASE m = n
    BY <1>7, <2>1, AckedAtMostOnce, AcknowledgeTries DEF AckDone, Owed, Notes
  <2>2. CASE m # n
    BY <1>0, <1>7, <2>2 DEF AckDone, Owed, With, js
  <2>3. QED
    BY <2>1, <2>2
<1>8. CASE JsClose \/ CloseStep
  <2>1. jsClosed => jsClosed'
    BY <1>8 DEF JsClose, CloseStep, CloseExchange, Unwatch, Flush, Release, js
  <2>2. UNCHANGED <<sent, cb, queue, acknowledged, delivered, thrown, ackJob, acked, failed>>
    BY <1>8, CloseLeaves DEF acks
  <2>3. QED
    BY <1>0, <2>1, <2>2 DEF Owed, With, Tried
<1>9. CASE UNCHANGED vars
  BY <1>0, <1>9 DEF vars, js, acks, Owed, With, Tried
<1>10. QED
  BY <1>1, <1>2, <1>3, <1>4, <1>5, <1>6, <1>7, <1>8, <1>9, Steps DEF Dispatches

LEMMA ClosedByJsStep ==
  ASSUME CloseOrder, ClosedByJs, [Next]_vars  PROVE  ClosedByJs'
<1>1. CASE JsClose \/ CloseStep
  BY <1>1 DEF JsClose, CloseStep, CloseExchange, Unwatch, Flush, Release, CloseOrder,
              ClosedByJs, js
<1>2. CASE UNCHANGED <<closed, jsClosed>>
  BY <1>2 DEF ClosedByJs
<1>3. QED
  BY <1>1, <1>2, Steps
     DEF Notify, WatchError, CallbackStep, Check, Take, Push, PushFails, CountBack, EmptyAck,
         Dispatch, Discard, DispatchError, AckLater, AckDone, vars, data, js

\* From the first notification to its answer, somebody has it in hand: for any number
\* of notifications, threads and errors, any queue and any listeners.
THEOREM SomeoneAnswers == Spec => []AnswerInHand
<1>1. Init => Answers
  BY DEF Init, Answers, ClosedByJs, Overflown, Owed
<1>2. IInv /\ Answers /\ [Next]_vars => Answers'
  <2> SUFFICES ASSUME IInv, Answers, [Next]_vars PROVE Answers'
    OBVIOUS
  <2>1. TypeOK /\ Places /\ Notes /\ CloseOrder
    BY DEF IInv, Notes
  <2>2. ClosedByJs'
    BY <2>1, ClosedByJsStep DEF Answers
  <2>3. QED
    BY <2>1, <2>2, OverflownStep, OwedStep DEF Answers
<1>3. ASSUME IInv, Answers PROVE AnswerInHand
  <2>1. lost \subseteq Note /\ sent \subseteq Note
    BY <1>3 DEF IInv, TypeOK
  <2>2. ASSUME NEW n \in lost PROVE Tried(n) \/ Acking(n) # {}
    <3>1. CASE With(n)
      <4>1. PICK c \in Callback : cb[c].note = n
        BY <3>1 DEF With
      <4>2. c \in Acking(n)
        BY <1>3, <2>1, <4>1, WatchAssumption DEF IInv, CallbackNotes, Acking
      <4>3. QED
        BY <4>2
    <3>2. QED
      BY <1>3, <2>1, <3>1 DEF Answers, Overflown
  <2>3. ASSUME NEW n \in sent
        PROVE  \/ Tried(n) \/ InHand(n) \/ jsClosed
               \/ n \in delivered \ acknowledged /\ (n \in thrown \/ ~AutoAck)
    BY <1>3, <2>1 DEF Answers, Owed, InHand, With
  <2>4. QED
    BY <2>2, <2>3 DEF AnswerInHand
<1>4. QED
  BY <1>1, <1>2, <1>3, Invariant, PTL DEF Spec

-----------------------------------------------------------------------------
(* The counter.  The model keeps Data::dropped as the set of what it counts; *)
(* the code keeps an integer, which is the size of that set as long as each  *)
(* addition adds what was not there.                                         *)

\* What exchange(0), fetch_add(dropped + 1) and an "overflow" do to the integers.
CountsAsInteger(c) ==
  /\ Take(c) => /\ Cardinality(cb[c].took') = Cardinality(dropped)
                /\ Cardinality(dropped') = 0
  /\ CountBack(c) =>
       Cardinality(dropped') = Cardinality(dropped) + Cardinality(cb[c].took) + 1
TellsAsInteger ==
  \A how \in Listening : Dispatch(how) =>
    Cardinality(reported') = Cardinality(reported) + Cardinality(Head(queue).dropped)

\* No callback has counted its own notification among the losses it took.
NotItself == \A c \in Callback : cb[c].note \notin cb[c].took

Countable == IsFiniteSet(sent) /\ NotItself

LEMMA CountableStep ==
  ASSUME IInv, Countable, [Next]_vars  PROVE  Countable'
<1>1. TypeOK /\ Places /\ None \notin Note
  BY WatchAssumption DEF IInv
<1>2. ASSUME NEW c \in Callback, NEW n \in Note, Notify(c, n) PROVE Countable'
  <2>1. sent' = sent \cup {n} /\ cb'[c].took = {} /\ \A d \in Callback : d # c => cb'[d] = cb[d]
    BY <1>1, <1>2, NotifyFacts
  <2>2. QED
    BY <2>1, FS_AddElement DEF Countable, NotItself
<1>3. ASSUME NEW c \in Callback, WatchError(c) PROVE Countable'
  BY <1>1, <1>3, ErrorFacts DEF Countable, NotItself
<1>4. ASSUME NEW c \in Callback, CallbackStep(c) PROVE Countable'
  <2>1. sent' = sent /\ \A d \in Callback : d # c => cb'[d] = cb[d]
    BY <1>1, <1>4, CallbackMoves
  <2>2. CASE Take(c)
    <3>1. cb'[c].took = dropped /\ cb'[c].note = cb[c].note
      BY <1>1, <2>2, GotoFacts DEF Take, TypeOK
    <3>2. dropped \subseteq lost /\ cb[c].note \notin lost
      BY <1>1, <2>2 DEF IInv, Losses, LossKept, Places, CallbackNotes, Take, TypeOK
    <3>3. QED
      BY <2>1, <3>1, <3>2 DEF Countable, NotItself
  <2>3. CASE ~Take(c)
    <3>1. cb'[c].took = {} \/ (cb'[c].took = cb[c].took /\ cb'[c].note = cb[c].note)
      <4>1. CASE Return(c)
        BY <1>1, <4>1, ReturnFacts, IdleFacts
      <4>2. CASE \E step \in {"take", "push", "emptyack"} : Goto(c, step, {})
        BY <1>1, <4>2, GotoFacts
      <4>3. CASE Goto(c, "countback", cb[c].took)
        BY <1>1, <4>3, GotoFacts, DoingFacts
      <4>4. QED
        BY <1>4, <2>3, <4>1, <4>2, <4>3
           DEF CallbackStep, Check, Push, PushFails, CountBack, EmptyAck
    <3>2. QED
      BY <2>1, <3>1 DEF Countable, NotItself
  <2>4. QED
    BY <2>2, <2>3
<1>5. CASE UNCHANGED <<sent, cb>>
  BY <1>5 DEF Countable, NotItself
<1>6. QED
  BY <1>1, <1>2, <1>3, <1>4, <1>5, CloseLeaves, DispatchFacts, Steps
     DEF Dispatches, AckLater, AckDone, vars

\* What is counted is finite, wherever it is.
LEMMA CountedIsFinite ==
  ASSUME IInv, Countable
  PROVE  /\ IsFiniteSet(dropped) /\ IsFiniteSet(reported)
         /\ \A c \in Callback : IsFiniteSet(cb[c].took)
         /\ \A i \in DOMAIN queue : IsFiniteSet(queue[i].dropped)
<1>1. lost \subseteq sent /\ IsFiniteSet(sent) /\ lost \subseteq Note
  BY DEF IInv, AckNotes, Countable, TypeOK
<1>2. \A S \in SUBSET lost : IsFiniteSet(S)
  BY <1>1, FS_Subset
<1>3. dropped \in SUBSET lost /\ reported \in SUBSET lost
  BY DEF IInv, Losses, LossKept, TypeOK
<1>4. \A c \in Callback : cb[c].took \in SUBSET lost
  BY DoingFacts DEF IInv, Losses, LossKept, Carries
<1>5. \A i \in DOMAIN queue : queue[i].dropped \in SUBSET lost
  <2>1. \A i \in DOMAIN queue : queue[i] \in Event
    BY DEF IInv, TypeOK
  <2>2. QED
    BY <2>1 DEF IInv, Losses, LossKept, Event
<1>6. QED
  BY <1>2, <1>3, <1>4, <1>5

LEMMA CallbackCounts ==
  ASSUME IInv, Countable, NEW c \in Callback  PROVE  CountsAsInteger(c)
<1>0. TypeOK /\ IsFiniteSet(dropped) /\ IsFiniteSet(cb[c].took)
  BY CountedIsFinite DEF IInv
<1>1. ASSUME Take(c)
      PROVE  cb[c].took' = dropped /\ dropped' = {}
  <2>1. cb'[c].took = dropped
    BY <1>0, <1>1, GotoFacts DEF Take, TypeOK
  <2>2. QED
    BY <1>1, <2>1 DEF Take
<1>2. ASSUME CountBack(c)
      PROVE  Cardinality(dropped') = Cardinality(dropped) + Cardinality(cb[c].took) + 1
  <2> DEFINE both == dropped \cup cb[c].took
  <2>1. dropped' = both \cup {cb[c].note} /\ Carries(c) = cb[c].took \cup {cb[c].note}
    BY <1>2 DEF CountBack, Carries
  <2>2. dropped \cap cb[c].took = {} /\ cb[c].note \notin both
    BY <2>1 DEF IInv, Losses, CarrierApart, Apart, Countable, NotItself
  <2>3. IsFiniteSet(both) /\ Cardinality(both) = Cardinality(dropped) + Cardinality(cb[c].took) - 0
    BY <1>0, <2>2, FS_Union, FS_EmptySet
  <2>4. Cardinality(both \cup {cb[c].note}) = Cardinality(both) + 1
    BY <2>2, <2>3, FS_AddElement
  <2>5. Cardinality(dropped) \in Nat /\ Cardinality(cb[c].took) \in Nat
    BY <1>0, FS_CardinalityType
  <2> HIDE DEF both
  <2>6. QED
    BY <2>1, <2>3, <2>4, <2>5
<1>3. QED
  BY <1>1, <1>2, FS_EmptySet DEF CountsAsInteger

LEMMA ListenerCounts ==
  ASSUME IInv, Countable  PROVE  TellsAsInteger
<1> SUFFICES ASSUME NEW how \in Listening, Dispatch(how)
             PROVE  Cardinality(reported')
                      = Cardinality(reported) + Cardinality(Head(queue).dropped)
  BY DEF TellsAsInteger
<1>1. Dispatches /\ TypeOK
  BY DEF Dispatches, IInv
<1>2. 1 \in DOMAIN queue /\ Head(queue) = queue[1]
  BY <1>1, DispatchFacts
<1>3. reported' = reported \cup queue[1].dropped /\ reported \cap queue[1].dropped = {}
  BY <1>2 DEF Dispatch, IInv, Losses, QueueApart, Apart
<1>4. IsFiniteSet(reported) /\ IsFiniteSet(queue[1].dropped)
  BY <1>2, CountedIsFinite
<1>5. Cardinality(reported') = Cardinality(reported) + Cardinality(queue[1].dropped) - 0
  BY <1>3, <1>4, FS_Union, FS_EmptySet
<1>6. Cardinality(reported) \in Nat /\ Cardinality(queue[1].dropped) \in Nat
  BY <1>4, FS_CardinalityType
<1>7. QED
  BY <1>2, <1>5, <1>6

\* An integer in place of each set would take the same values: a callback takes all
\* of the counter and leaves none, adds back what it took and one more, and listeners
\* are told as many as the event says.
THEOREM LossesCountAsIntegers ==
  Spec => [][(\A c \in Callback : CountsAsInteger(c)) /\ TellsAsInteger]_vars
<1>1. Init => Countable
  BY FS_EmptySet, IdleFacts DEF Init, Countable, NotItself
<1>2. IInv /\ Countable /\ [Next]_vars => Countable'
  BY CountableStep
<1>3. IInv /\ Countable => (\A c \in Callback : CountsAsInteger(c)) /\ TellsAsInteger
  BY CallbackCounts, ListenerCounts
<1>4. QED
  BY <1>1, <1>2, <1>3, Invariant, PTL DEF Spec

-----------------------------------------------------------------------------
(* What a close waits for.                                                  *)

\* How many steps a callback has before it, at most.
Left == [check |-> 5, take |-> 4, push |-> 3, countback |-> 2, emptyack |-> 1, idle |-> 0]

LEMMA LeftFacts ==
  /\ Left["check"] = 5 /\ Left["take"] = 4 /\ Left["push"] = 3
  /\ Left["countback"] = 2 /\ Left["emptyack"] = 1 /\ Left["idle"] = 0
BY DEF Left

\* A step of a callback is one fewer of them.
LEMMA CallbackNearsEnd ==
  ASSUME TypeOK, TypeOK', Places, NEW c \in Callback, CallbackStep(c)
  PROVE  Left[cb'[c].at] < Left[cb[c].at]
<1>1. CASE Check(c)
  <2>1. cb[c].at = "check" /\ cb'[c].at \in {"idle", "push", "take"}
    BY <1>1, ReturnFacts, GotoFacts, IdleFacts DEF Check
  <2>2. QED
    BY <2>1, LeftFacts
<1>2. CASE Take(c)
  <2>1. cb[c].at = "take" /\ cb'[c].at = "push"
    BY <1>2, GotoFacts DEF Take, TypeOK
  <2>2. QED
    BY <2>1, LeftFacts
<1>3. CASE Push(c)
  <2>1. cb[c].at = "push" /\ cb'[c].at = "idle"
    BY <1>3, ReturnFacts, IdleFacts DEF Push
  <2>2. QED
    BY <2>1, LeftFacts
<1>4. CASE PushFails(c)
  <2>1. cb[c].at = "push" /\ cb'[c].at \in {"idle", "countback"}
    BY <1>4, DoingFacts, ReturnFacts, GotoFacts, IdleFacts DEF PushFails
  <2>2. QED
    BY <2>1, LeftFacts
<1>5. CASE CountBack(c)
  <2>1. cb[c].at = "countback" /\ cb'[c].at = "emptyack"
    BY <1>5, GotoFacts DEF CountBack
  <2>2. QED
    BY <2>1, LeftFacts
<1>6. CASE EmptyAck(c)
  <2>1. cb[c].at = "emptyack" /\ cb'[c].at = "idle"
    BY <1>6, ReturnFacts, IdleFacts DEF EmptyAck
  <2>2. QED
    BY <2>1, LeftFacts
<1>7. QED
  BY <1>1, <1>2, <1>3, <1>4, <1>5, <1>6 DEF CallbackStep

\* Once Ceph has unregistered the watch it calls back no more, and a callback in flight
\* only comes nearer to its end.
CallbacksAdvance ==
  [][~registered =>
       /\ ~registered'
       /\ \A c \in Callback : cb'[c] = cb[c] \/ Left[cb'[c].at] < Left[cb[c].at]]_vars

\* events.cpp:27-34.  The flush waits for finitely many steps, of the callbacks in flight
\* only, with any number of threads.
THEOREM FlushIsFinite == Spec => CallbacksAdvance
<1> DEFINE Advances == ~registered =>
                         /\ ~registered'
                         /\ \A c \in Callback : cb'[c] = cb[c] \/ Left[cb'[c].at] < Left[cb[c].at]
<1>1. ASSUME IInv, IInv', [Next]_vars PROVE Advances
  <2>1. TypeOK /\ TypeOK' /\ Places
    BY <1>1 DEF IInv
  <2>2. ASSUME NEW c \in Callback, CallbackStep(c) PROVE Advances
    BY <2>1, <2>2, CallbackNearsEnd, CallbackMoves
  <2>3. CASE registered
    BY <2>3
  <2>4. CASE UNCHANGED cb /\ (registered' = registered \/ ~registered')
    BY <2>4
  <2>5. QED
    BY <1>1, <2>1, <2>2, <2>3, <2>4, Steps, CloseLeaves, DispatchFacts
       DEF Notify, WatchError, Dispatches, AckLater, AckDone, JsClose, CloseStep, CloseExchange,
           Unwatch, Flush, Release, data, vars
<1>2. IInv /\ IInv' /\ [Next]_vars => [Advances]_vars
  BY <1>1
<1>3. QED
  BY <1>2, Invariant, PTL DEF Spec, CallbacksAdvance

-----------------------------------------------------------------------------
(* Notifications only go on: with FlushIsFinite and SomeoneAnswers, what the  *)
(* liveness of the answers needs beyond fairness.                             *)

\* Ceph was given an answer, or is not owed one by the client any more.
Settled(n) == Tried(n) \/ n \in thrown \/ jsClosed

\* A callback that has n keeps it and comes nearer its end, or hands it on.
WithCallback(n) ==
  \A c \in Callback : cb[c].note = n =>
    \/ cb'[c] = cb[c]
    \/ cb'[c].note = n /\ Left[cb'[c].at] < Left[cb[c].at]
    \/ cb'[c] = Idle /\ (closed \/ Tried(n)' \/ \E i \in DOMAIN queue' : queue'[i].note = n)

\* A queued n keeps its place, moves up by one, or is dispatched, from the first place.
InQueue(n) ==
  \A i \in DOMAIN queue : queue[i].note = n =>
    \/ i \in DOMAIN queue' /\ queue'[i] = queue[i]
    \/ i - 1 \in DOMAIN queue' /\ queue'[i - 1] = queue[i]
    \/ i = 1 /\ (n \in delivered' \/ jsClosed)

\* Nothing that happened to n is undone, and wherever it is it stays or goes on.
GoesOn(n) ==
  /\ Settled(n) => Settled(n)'
  /\ Tried(n) => Tried(n)'
  /\ n \in delivered => n \in delivered'
  /\ WithCallback(n) /\ InQueue(n)
  /\ n \in ackJob => n \in ackJob' \/ Tried(n)'

NotesGoOn == [][\A n \in Note : GoesOn(n)]_vars

\* The JS side takes nothing back, and an ack ends when Ceph has it.
LEMMA NothingUndone ==
  ASSUME TypeOK, Places, AckNotes, [Next]_vars, NEW n \in Note
  PROVE  /\ n \in thrown => n \in thrown'
         /\ n \in delivered => n \in delivered'
         /\ jsClosed => jsClosed'
         /\ n \in ackJob => n \in ackJob' \/ Tried(n)'
<1>1. ASSUME NEW m \in Note, AckDone(m)
      PROVE  n \in ackJob => n \in ackJob' \/ Tried(n)'
  BY <1>1, AckedAtMostOnce, AcknowledgeTries DEF AckDone
<1>2. ASSUME NEW how \in Listening, Dispatch(how)
      PROVE  /\ thrown \subseteq thrown' /\ delivered \subseteq delivered'
             /\ ackJob \subseteq ackJob' /\ jsClosed' = jsClosed
  BY <1>2 DEF Dispatch, AckCall
<1>3. CASE JsClose \/ CloseStep
  BY <1>3, CloseLeaves DEF JsClose, CloseStep, CloseExchange, Unwatch, Flush, Release, js
<1>4. CASE UNCHANGED <<js, ackJob>>
  BY <1>4 DEF js
<1>5. ASSUME NEW m \in Note, AckLater(m)
      PROVE  UNCHANGED <<thrown, delivered, jsClosed>> /\ ackJob \subseteq ackJob'
  BY <1>5 DEF AckLater, AckCall
<1>6. ASSUME NEW m \in Note, AckDone(m)
      PROVE  UNCHANGED <<thrown, delivered, jsClosed>>
  BY <1>6 DEF AckDone, js
<1>7. ASSUME NEW c \in Callback,
             CallbackStep(c) \/ WatchError(c) \/ \E m \in Note : Notify(c, m)
      PROVE  UNCHANGED <<js, ackJob>>
  BY <1>7, CallbackMoves, NotifyFacts, ErrorFacts
<1>8. CASE Discard \/ DispatchError
  BY <1>8 DEF Discard, DispatchError, js
<1>9. CASE UNCHANGED vars
  BY <1>4, <1>9 DEF vars
<1>10. QED
  BY <1>1, <1>2, <1>3, <1>4, <1>5, <1>6, <1>7, <1>8, <1>9, Steps

LEMMA WithCallbackGoesOn ==
  ASSUME TypeOK, TypeOK', Places, AckNotes, [Next]_vars, NEW n \in Note
  PROVE  WithCallback(n)
<1> SUFFICES ASSUME NEW c \in Callback, cb[c].note = n
             PROVE  \/ cb'[c] = cb[c]
                    \/ cb'[c].note = n /\ Left[cb'[c].at] < Left[cb[c].at]
                    \/ cb'[c] = Idle /\ ( \/ closed \/ Tried(n)'
                                          \/ \E i \in DOMAIN queue' : queue'[i].note = n)
  BY DEF WithCallback
<1>0. n # None /\ cb[c].at # "idle"
  BY WatchAssumption, IdleFacts DEF Places
<1>1. ASSUME NEW d \in Callback, NEW m \in Note, Notify(d, m) PROVE cb'[c] = cb[c]
  BY <1>0, <1>1, NotifyFacts
<1>2. ASSUME NEW d \in Callback, WatchError(d) PROVE cb'[c] = cb[c]
  BY <1>0, <1>2, ErrorFacts
<1>3. ASSUME NEW d \in Callback, CallbackStep(d), d # c PROVE cb'[c] = cb[c]
  BY <1>3, CallbackMoves
<1>4. ASSUME CallbackStep(c), cb'[c].note # n
      PROVE  closed \/ Tried(n)' \/ \E i \in DOMAIN queue' : queue'[i].note = n
  <2>1. CASE Check(c)
    BY <1>0, <1>4, <2>1, GotoFacts DEF Check
  <2>2. CASE Take(c)
    BY <1>4, <2>2, GotoFacts DEF Take, TypeOK
  <2>3. CASE Push(c)
    BY <2>3, PushFacts
  <2>4. CASE PushFails(c)
    BY <1>0, <1>4, <2>4, GotoFacts, DoingFacts DEF PushFails
  <2>5. CASE CountBack(c)
    BY <1>4, <2>5, GotoFacts DEF CountBack
  <2>6. CASE EmptyAck(c)
    BY <2>6, AckedAtMostOnce, AcknowledgeTries DEF EmptyAck
  <2>7. QED
    BY <1>4, <2>1, <2>2, <2>3, <2>4, <2>5, <2>6 DEF CallbackStep
<1>5. CASE CallbackStep(c)
  <2>1. cb'[c] = Idle \/ cb'[c].note = n
    BY <1>5, CallbackMoves
  <2>2. Left[cb'[c].at] < Left[cb[c].at]
    BY <1>5, CallbackNearsEnd
  <2>3. cb'[c] = Idle => cb'[c].note # n
    BY <1>0, IdleFacts
  <2>4. QED
    BY <1>4, <1>5, <2>1, <2>2, <2>3
<1>6. CASE UNCHANGED cb
  BY <1>6
<1>7. QED
  BY <1>1, <1>2, <1>3, <1>5, <1>6, CloseLeaves, DispatchFacts, Steps
     DEF Dispatches, AckLater, AckDone, vars

LEMMA InQueueGoesOn ==
  ASSUME TypeOK, [Next]_vars, NEW n \in Note
  PROVE  InQueue(n)
<1>1. ASSUME NEW c \in Callback, Push(c) PROVE InQueue(n)
  BY <1>1, PushFacts DEF InQueue
<1>2. ASSUME Dispatches PROVE InQueue(n)
  <2>1. /\ \A i \in DOMAIN queue : i # 1 => i - 1 \in DOMAIN queue' /\ queue'[i - 1] = queue[i]
        /\ Head(queue) = queue[1]
    BY <1>2, DispatchFacts
  <2>2. queue[1].note = n => n \in delivered' \/ jsClosed
    BY <1>2, <2>1, WatchAssumption DEF Dispatches, Discard, DispatchError, Dispatch
  <2>3. QED
    BY <2>1, <2>2 DEF InQueue
<1>3. CASE UNCHANGED queue
  BY <1>3 DEF InQueue
<1>4. QED
  BY <1>1, <1>2, <1>3, CloseLeaves, Steps
     DEF Notify, WatchError, CallbackStep, Check, Take, PushFails, CountBack, EmptyAck,
         Dispatches, AckLater, AckDone, vars

\* events.cpp:36-65, index.ts:192-210.  Every notification only goes on, from its callback
\* to the queue, up the queue to its dispatch and from its ack() to Ceph; no step of
\* another one, of an error or of a close sends it back or makes its callback longer.
THEOREM NotificationsOnlyGoOn == Spec => NotesGoOn
<1> DEFINE Each == \A n \in Note : GoesOn(n)
<1>1. ASSUME IInv, IInv', [Next]_vars, NEW n \in Note PROVE GoesOn(n)
  <2>1. TypeOK /\ TypeOK' /\ Places /\ AckNotes
    BY <1>1 DEF IInv
  <2>2. Tried(n) => Tried(n)'
    BY <1>1, <2>1, TriedStays
  <2>3. WithCallback(n) /\ InQueue(n)
    BY <1>1, <2>1, WithCallbackGoesOn, InQueueGoesOn
  <2>4. Settled(n) => Settled(n)'
    BY <1>1, <2>1, <2>2, NothingUndone DEF Settled
  <2>5. QED
    BY <1>1, <2>1, <2>2, <2>3, <2>4, NothingUndone DEF GoesOn
<1>2. IInv /\ IInv' /\ [Next]_vars => [Each]_vars
  BY <1>1
<1>3. QED
  BY <1>2, Invariant, PTL DEF Spec, NotesGoOn
=============================================================================
