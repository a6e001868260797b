--------------------------- MODULE EventFeedProofs ---------------------------
(***************************************************************************)
(* EventFeed, for every number of feeds, threads and items, every queue    *)
(* size and both ways to register: its types, CountedOnce,                 *)
(* ReleasedWhenQuiet, UnseenQueued, OpenIsHeard if OneAtATime and what is  *)
(* left of it if not, that it implements LossyChannel, that its sets count *)
(* as the integers of the code do, that a close waits for finitely many    *)
(* steps, and that items only go on to the listeners.                      *)
(*                                                                         *)
(* CountedOnce is not inductive: an item must also be nowhere while its    *)
(* callback has not yet passed the check, and it is nowhere then because   *)
(* it was never sent before.  Holds extends what a callback carries to     *)
(* that step, and AllSent says that whatever is counted was sent.  No      *)
(* callback outlives a release because, with one slot or with many, a feed *)
(* that is registered or called back is between Create and Unregister.     *)
(***************************************************************************)
EXTENDS EventFeed, QueueFacts, FiniteSetTheorems, TLAPS

Holds(c) == IF cb[c].at = "idle" THEN {} ELSE StandsFor(c)

Places ==
  \A c \in Callback :
    /\ cb[c].at = "idle" => cb[c] = Idle
    /\ cb[c].at # "idle" => cb[c].feed \in Feed /\ cb[c].item \in Item
    /\ cb[c].at \in {"check", "take"} => cb[c].took = {}

AllSent ==
  /\ \A f \in Feed : owed[f] \cup told[f] \cup unheard[f] \subseteq sent
  /\ \A f \in Feed : \A i \in DOMAIN queue[f] : queue[f][i] \subseteq sent
  /\ \A c \in Callback : Holds(c) \subseteq sent

\* CountedOnce, for what callbacks hold, part by part.
FeedApart(f) == Apart(owed[f], told[f] \cup unheard[f]) /\ Apart(told[f], unheard[f])
QueueApart(f) ==
  \A i \in DOMAIN queue[f] :
    /\ Apart(queue[f][i], owed[f] \cup told[f] \cup unheard[f])
    /\ \A j \in DOMAIN queue[f] : i # j => Apart(queue[f][i], queue[f][j])
HolderApart(c) ==
  cb[c].at # "idle" =>
    LET f == cb[c].feed IN
      /\ Apart(Holds(c), owed[f] \cup told[f] \cup unheard[f])
      /\ \A i \in DOMAIN queue[f] : Apart(Holds(c), queue[f][i])
      /\ \A d \in Callback : d # c /\ cb[d].feed = f => Apart(Holds(c), Holds(d))

HeldOnce ==
  /\ \A f \in Feed : FeedApart(f) /\ QueueApart(f)
  /\ \A c \in Callback : HolderApart(c)

Active == {"open", "closing", "closed"}

InActive ==
  /\ \A f \in registered : phase[f] \in Active
  /\ \A c \in Callback : cb[c].at # "idle" => phase[cb[c].feed] \in Active
  /\ \A f \in Feed : unseen[f] # {} => phase[f] # "absent"

IInv == TypeOK /\ Places /\ AllSent /\ HeldOnce /\ InActive /\ UnseenQueued

-----------------------------------------------------------------------------
\* What creates and closes a feed touches nothing but its phase and registration.
LEMMA PhaseStep ==
  ASSUME NEW f \in Feed,
         Create(f) \/ CreateFails(f) \/ JsClose(f) \/ CloseStep(f)
  PROVE  UNCHANGED <<sent, cb, queue, owed, told, unheard, unseen>>
BY DEF Create, CreateFails, JsClose, CloseStep, Exchange, Unregister, Release

\* Every step is one of these.
LEMMA Steps ==
  ASSUME [Next]_vars
  PROVE  \/ \E c \in Callback, f \in Feed, n \in Item : Signal(c, f, n)
         \/ \E c \in Callback : Check(c)
         \/ \E c \in Callback : Take(c)
         \/ \E c \in Callback : Push(c)
         \/ \E c \in Callback : PushFails(c) \/ CountBack(c)
         \/ \E f \in Feed : Dispatch(f) \/ Discard(f)
         \/ \E f \in Feed : Create(f) \/ CreateFails(f) \/ JsClose(f) \/ CloseStep(f)
         \/ UNCHANGED vars
BY DEF Next, CallbackStep, EventLoop


\* Where a callback is after a step, and that the others stay where they are.
LEMMA GotoFacts ==
  ASSUME TypeOK, NEW c \in Callback, NEW step \in {"take", "push", "countback"},
         NEW took \in SUBSET Item, Goto(c, step, took)
  PROVE  /\ cb' \in [Callback -> Doing]
         /\ cb'[c].at = step /\ cb'[c].took = took
         /\ cb'[c].feed = cb[c].feed /\ cb'[c].item = cb[c].item
         /\ \A d \in Callback : d # c => cb'[d] = cb[d]
BY DEF TypeOK, Goto, Doing

LEMMA ReturnFacts ==
  ASSUME TypeOK, NEW c \in Callback, Return(c)
  PROVE  /\ cb' \in [Callback -> Doing]
         /\ cb'[c] = Idle
         /\ \A d \in Callback : d # c => cb'[d] = cb[d]
BY DEF TypeOK, Return, Doing, Idle

LEMMA SignalFacts ==
  ASSUME TypeOK, NEW c \in Callback, NEW f \in Feed, NEW n \in Item, Signal(c, f, n)
  PROVE  /\ cb' \in [Callback -> Doing]
         /\ cb'[c].at = "check" /\ cb'[c].took = {}
         /\ cb'[c].feed = f /\ cb'[c].item = n
         /\ \A d \in Callback : d # c => cb'[d] = cb[d]
BY DEF TypeOK, Signal, Doing

LEMMA IdleFacts ==
  Idle.at = "idle" /\ Idle.feed = None /\ Idle.item = None /\ Idle.took = {}
BY DEF Idle

\* The parts of a callback's state have their types.
LEMMA DoingFacts ==
  ASSUME TypeOK, Places, NEW c \in Callback
  PROVE  /\ cb[c].took \in SUBSET Item
         /\ cb[c].at # "idle" => /\ cb[c].feed \in Feed /\ cb[c].item \in Item
                                 /\ StandsFor(c) \in SUBSET Item
                                 /\ owed[cb[c].feed] \in SUBSET Item
                                 /\ queue[cb[c].feed] \in Seq(SUBSET Item)
BY DEF TypeOK, Places, Doing, StandsFor

\* One callback moves on, or is done, and all others stay.
LEMMA CallbackMoves ==
  ASSUME TypeOK, Places, NEW c \in Callback,
         Check(c) \/ Take(c) \/ Push(c) \/ PushFails(c) \/ CountBack(c)
  PROVE  /\ cb' \in [Callback -> Doing] /\ cb[c].at # "idle"
         /\ \A d \in Callback : d # c => cb'[d] = cb[d]
         /\ \/ cb'[c] = Idle
            \/ /\ cb'[c].at \in {"take", "push", "countback"}
               /\ cb'[c].feed = cb[c].feed /\ cb'[c].item = cb[c].item
               /\ cb'[c].at = "take" => cb'[c].took = {}
         /\ UNCHANGED <<sent, registered, phase, told, unheard, unseen>>
<1>1. CASE Check(c)
  <2>1. CASE Return(c)
    BY <1>1, <2>1, ReturnFacts DEF Check
  <2>2. CASE Goto(c, "take", {})
    BY <1>1, <2>2, GotoFacts DEF Check
  <2>3. QED
    BY <1>1, <2>1, <2>2 DEF Check
<1>2. CASE Take(c)
  <2>1. cb[c].at = "take" /\ Goto(c, "push", owed[cb[c].feed])
    BY <1>2 DEF Take
  <2>2. owed[cb[c].feed] \in SUBSET Item
    BY <2>1, DoingFacts
  <2>3. QED
    BY <1>2, <2>1, <2>2, GotoFacts DEF Take
<1>3. CASE Push(c)
  BY <1>3, ReturnFacts DEF Push
<1>4. CASE PushFails(c)
  BY <1>4, GotoFacts, DoingFacts DEF PushFails
<1>5. CASE CountBack(c)
  BY <1>5, ReturnFacts DEF CountBack
<1>6. QED
  BY <1>1, <1>2, <1>3, <1>4, <1>5

LEMMA TypeStep ==
  ASSUME TypeOK, Places, [Next]_vars  PROVE  TypeOK'
<1>1. ASSUME NEW c \in Callback, NEW f \in Feed, NEW n \in Item, Signal(c, f, n)
      PROVE  TypeOK'
  <2>1. sent' \subseteq Item /\ unseen' \in [Feed -> SUBSET Item]
    BY <1>1 DEF Signal, TypeOK
  <2>2. UNCHANGED <<registered, queue, owed, phase, told, unheard>>
    BY <1>1 DEF Signal
  <2>3. QED
    BY <1>1, <2>1, <2>2, SignalFacts DEF TypeOK
<1>2. ASSUME NEW c \in Callback, Check(c) PROVE TypeOK'
  BY <1>2, CallbackMoves DEF Check, TypeOK
<1>3. ASSUME NEW c \in Callback, Take(c) PROVE TypeOK'
  BY <1>3, CallbackMoves, DoingFacts DEF Take, TypeOK
<1>4. ASSUME NEW c \in Callback, Push(c) PROVE TypeOK'
  <2>1. cb[c].feed \in Feed /\ StandsFor(c) \in SUBSET Item
        /\ queue[cb[c].feed] \in Seq(SUBSET Item)
    BY <1>4, DoingFacts DEF Push
  <2>2. Append(queue[cb[c].feed], StandsFor(c)) \in Seq(SUBSET Item)
        /\ Len(Append(queue[cb[c].feed], StandsFor(c))) <= QueueSize
    BY <1>4, <2>1, AppendFacts, FeedAssumption DEF Push
  <2>3. QED
    BY <1>4, <2>1, <2>2, CallbackMoves DEF Push, TypeOK
<1>5. ASSUME NEW c \in Callback, PushFails(c) \/ CountBack(c) PROVE TypeOK'
  <2>1. cb' \in [Callback -> Doing] /\ queue' = queue
        /\ UNCHANGED <<sent, registered, phase, told, unheard, unseen>>
    BY <1>5, CallbackMoves DEF PushFails, CountBack
  <2>2. cb[c].feed \in Feed /\ StandsFor(c) \in SUBSET Item
    BY <1>5, CallbackMoves, DoingFacts
  <2>3. owed' \in [Feed -> SUBSET Item]
    BY <1>5, <2>2 DEF PushFails, CountBack, TypeOK
  <2>4. QED
    BY <2>1, <2>3 DEF TypeOK
<1>6. ASSUME NEW f \in Feed, Dispatch(f) \/ Discard(f) PROVE TypeOK'
  <2>1. queue[f] \in Seq(SUBSET Item) /\ queue[f] # <<>> /\ Len(queue[f]) <= QueueSize
    BY <1>6 DEF Dispatch, Discard, TypeOK
  <2>2. Tail(queue[f]) \in Seq(SUBSET Item) /\ Head(queue[f]) \in SUBSET Item
        /\ Len(Tail(queue[f])) <= QueueSize
    BY <2>1, TailFacts, FeedAssumption
  <2>3. QED
    BY <1>6, <2>2 DEF Dispatch, Discard, TypeOK
<1>7. ASSUME NEW f \in Feed, Create(f) \/ CreateFails(f) \/ JsClose(f) \/ CloseStep(f)
      PROVE  TypeOK'
  BY <1>7 DEF Create, CreateFails, JsClose, CloseStep, Exchange, Unregister, Release,
              Registering, Unregistering, SharedWith, TypeOK
<1>8. CASE UNCHANGED vars
  BY <1>8 DEF vars, TypeOK
<1>9. QED
  BY <1>1, <1>2, <1>3, <1>4, <1>5, <1>6, <1>7, <1>8, Steps

LEMMA PlacesStep ==
  ASSUME TypeOK, Places, [Next]_vars  PROVE  Places'
<1>1. ASSUME NEW c \in Callback, NEW f \in Feed, NEW n \in Item, Signal(c, f, n)
      PROVE  Places'
  BY <1>1, SignalFacts DEF Places
<1>2. ASSUME NEW c \in Callback, Check(c) \/ Take(c) \/ Push(c) \/ PushFails(c) \/ CountBack(c)
      PROVE  Places'
  BY <1>2, CallbackMoves, DoingFacts, IdleFacts DEF Places
<1>3. CASE UNCHANGED cb
  BY <1>3 DEF Places
<1>4. QED
  BY <1>1, <1>2, <1>3, Steps, PhaseStep DEF Dispatch, Discard, vars

LEMMA ActiveStep ==
  ASSUME TypeOK, Places, InActive, [Next]_vars  PROVE  InActive'
<1>1. ASSUME NEW c \in Callback, NEW f \in Feed, NEW n \in Item, Signal(c, f, n)
      PROVE  InActive'
  BY <1>1, SignalFacts DEF Signal, TypeOK, InActive, Active
<1>2. ASSUME NEW c \in Callback, Check(c) \/ Take(c) \/ Push(c) \/ PushFails(c) \/ CountBack(c)
      PROVE  InActive'
  BY <1>2, CallbackMoves, DoingFacts, IdleFacts DEF InActive
<1>3. ASSUME NEW f \in Feed, Dispatch(f) \/ Discard(f) PROVE InActive'
  BY <1>3 DEF Dispatch, Discard, InActive, TypeOK
<1>4. ASSUME NEW f \in Feed, Create(f) \/ CreateFails(f) \/ JsClose(f) \/ CloseStep(f)
      PROVE  InActive'
  <2>1. \A g \in Feed : phase[g] \in Active => phase'[g] \in Active \/ (g = f /\ Unregister(f))
    BY <1>4 DEF Create, CreateFails, JsClose, CloseStep, Exchange, Unregister, Release, MayCreate,
                TypeOK, Active
  <2>2. \A g \in registered' : phase'[g] \in Active
    <3>1. CASE Create(f)
      BY <2>1, <3>1 DEF Create, Registering, SharedWith, InActive, Active, TypeOK
    <3>2. CASE Unregister(f)
      BY <2>1, <3>2 DEF Unregister, Unregistering, SharedWith, InActive, Active, TypeOK
    <3>3. CASE CreateFails(f) \/ JsClose(f) \/ Exchange(f) \/ Release(f)
      BY <2>1, <3>3 DEF CreateFails, JsClose, Exchange, Release, Unregister, InActive, Active, TypeOK
    <3>4. QED
      BY <1>4, <3>1, <3>2, <3>3 DEF CloseStep
  <2>3. \A c \in Callback : cb'[c].at # "idle" => phase'[cb'[c].feed] \in Active
    <3>1. cb' = cb
      BY <1>4, PhaseStep
    <3>2. Unregister(f) => \A c \in Callback : cb[c].at # "idle" => cb[c].feed # f
      BY DEF Unregister, Quiet, SharedWith
    <3>3. QED
      BY <2>1, <3>1, <3>2, DoingFacts DEF InActive
  <2>4. \A g \in Feed : unseen'[g] # {} => phase'[g] # "absent"
    BY <1>4, PhaseStep DEF Create, CreateFails, JsClose, CloseStep, Exchange, Unregister, Release,
                           InActive, TypeOK
  <2>5. QED
    BY <2>2, <2>3, <2>4 DEF InActive
<1>5. CASE UNCHANGED vars
  BY <1>5 DEF vars, InActive
<1>6. QED
  BY <1>1, <1>2, <1>3, <1>4, <1>5, Steps

LEMMA UnseenStep ==
  ASSUME TypeOK, Places, InActive, UnseenQueued, [Next]_vars  PROVE  UnseenQueued'
<1>1. ASSUME NEW c \in Callback, NEW f \in Feed, NEW n \in Item, Signal(c, f, n)
      PROVE  UnseenQueued'
  <2>1. cb[c].at = "idle" /\ queue' = queue /\ phase' = phase /\ n \in unseen'[f]
        /\ \A g \in Feed : unseen[g] \subseteq unseen'[g]
                           /\ (g # f => unseen'[g] = unseen[g])
    BY <1>1 DEF Signal, TypeOK
  <2>2. QED
    BY <2>1, <1>1, SignalFacts DEF UnseenQueued
<1>2. ASSUME NEW c \in Callback, Check(c) PROVE UnseenQueued'
  <2>1. queue' = queue /\ cb[c].at = "check"
        /\ (phase[cb[c].feed] = "open" => Goto(c, "take", {}))
    BY <1>2 DEF Check, DataClosed
  <2>2. phase[cb[c].feed] = "open" => cb'[c].at = "take"
    BY <2>1, GotoFacts
  <2>3. QED
    BY <1>2, <2>1, <2>2, CallbackMoves, IdleFacts DEF UnseenQueued
<1>3. ASSUME NEW c \in Callback, Take(c) PROVE UnseenQueued'
  <2>1. cb'[c].at = "push" /\ queue' = queue
    BY <1>3, GotoFacts, DoingFacts DEF Take
  <2>2. QED
    BY <1>3, <2>1, CallbackMoves, IdleFacts DEF UnseenQueued
<1>4. ASSUME NEW c \in Callback, Push(c) PROVE UnseenQueued'
  <2>1. cb[c].feed \in Feed /\ Append(queue[cb[c].feed], StandsFor(c)) # <<>>
    BY <1>4, AppendFacts, DoingFacts DEF Push
  <2>2. queue'[cb[c].feed] # <<>> /\ \A g \in Feed : g # cb[c].feed => queue'[g] = queue[g]
    BY <1>4, <2>1 DEF Push, TypeOK
  <2>3. QED
    BY <1>4, <2>1, <2>2, CallbackMoves DEF UnseenQueued
<1>5. ASSUME NEW c \in Callback, PushFails(c) PROVE UnseenQueued'
  <2>1. cb[c].feed \in Feed /\ queue[cb[c].feed] \in Seq(SUBSET Item)
        /\ Len(queue[cb[c].feed]) >= QueueSize /\ queue' = queue
    BY <1>5, DoingFacts DEF PushFails
  <2>2. queue[cb[c].feed] # <<>>
    BY <2>1, FeedAssumption
  <2>3. QED
    BY <1>5, <2>1, <2>2, CallbackMoves DEF UnseenQueued
<1>6. ASSUME NEW c \in Callback, CountBack(c) PROVE UnseenQueued'
  <2>1. cb[c].at = "countback" /\ queue' = queue /\ phase' = phase /\ unseen' = unseen
        /\ \A d \in Callback : d # c => cb'[d] = cb[d]
    BY <1>6, CallbackMoves DEF CountBack
  <2>2. QED
    BY <2>1 DEF UnseenQueued
<1>7. ASSUME NEW f \in Feed, Dispatch(f) PROVE UnseenQueued'
  <2>1. unseen'[f] = {} /\ cb' = cb /\ phase' = phase
        /\ \A g \in Feed : g # f => unseen'[g] = unseen[g] /\ queue'[g] = queue[g]
    BY <1>7 DEF Dispatch, TypeOK
  <2>2. QED
    BY <2>1 DEF UnseenQueued
<1>8. ASSUME NEW f \in Feed, Discard(f) PROVE UnseenQueued'
  <2>1. phase[f] # "open" /\ cb' = cb /\ phase' = phase /\ unseen' = unseen
        /\ \A g \in Feed : g # f => queue'[g] = queue[g]
    BY <1>8 DEF Discard, JsClosed, TypeOK
  <2>2. QED
    BY <2>1 DEF UnseenQueued
<1>9. ASSUME NEW f \in Feed, Create(f) \/ CreateFails(f) \/ JsClose(f) \/ CloseStep(f)
      PROVE  UnseenQueued'
  <2>1. \A g \in Feed : phase'[g] = "open" /\ unseen[g] # {} => phase[g] = "open"
    BY <1>9 DEF Create, CreateFails, JsClose, CloseStep, Exchange, Unregister, Release, MayCreate,
                TypeOK, InActive
  <2>2. cb' = cb /\ queue' = queue /\ unseen' = unseen
    BY <1>9, PhaseStep
  <2>3. QED
    BY <2>1, <2>2 DEF UnseenQueued
<1>10. CASE UNCHANGED vars
  BY <1>10 DEF vars, UnseenQueued
<1>11. QED
  BY <1>1, <1>2, <1>3, <1>4, <1>5, <1>6, <1>7, <1>8, <1>9, <1>10, Steps

-----------------------------------------------------------------------------
\* Who counts an item, after a callback has moved: nothing new but what it held.
LEMMA HoldsMoves ==
  ASSUME TypeOK, Places, NEW c \in Callback,
         Check(c) \/ Take(c) \/ Push(c) \/ PushFails(c) \/ CountBack(c)
  PROVE  /\ \A d \in Callback : d # c => Holds(d)' = Holds(d)
         /\ Holds(c) = StandsFor(c)
         /\ Check(c) => Holds(c)' \subseteq Holds(c)
         /\ Take(c) => Holds(c)' = Holds(c) \cup owed[cb[c].feed]
         /\ PushFails(c) => Holds(c)' = Holds(c)
         /\ Push(c) \/ CountBack(c) => Holds(c)' = {}
<1>1. cb[c].at # "idle" /\ \A d \in Callback : d # c => cb'[d] = cb[d]
  BY CallbackMoves
<1>2. \A d \in Callback : d # c => Holds(d)' = Holds(d)
  BY <1>1 DEF Holds, StandsFor
<1>3. Holds(c) = StandsFor(c)
  BY <1>1 DEF Holds
<1>4. ASSUME Check(c) PROVE Holds(c)' \subseteq Holds(c)
  <2>1. CASE Return(c)
    BY <2>1, ReturnFacts, IdleFacts DEF Holds
  <2>2. CASE Goto(c, "take", {})
    BY <1>1, <2>2, GotoFacts DEF Holds, StandsFor
  <2>3. QED
    BY <1>4, <2>1, <2>2 DEF Check
<1>5. ASSUME Take(c) PROVE Holds(c)' = Holds(c) \cup owed[cb[c].feed]
  <2>1. owed[cb[c].feed] \in SUBSET Item
    BY <1>1, DoingFacts
  <2>2. cb[c].took = {} /\ Goto(c, "push", owed[cb[c].feed])
    BY <1>5 DEF Take, Places
  <2>3. cb'[c].at = "push" /\ cb'[c].took = owed[cb[c].feed] /\ cb'[c].item = cb[c].item
    BY <2>1, <2>2, GotoFacts
  <2>4. QED
    BY <1>1, <2>2, <2>3 DEF Holds, StandsFor
<1>6. ASSUME PushFails(c) PROVE Holds(c)' = Holds(c)
  <2>1. Goto(c, "countback", cb[c].took) /\ cb[c].took \in SUBSET Item
    BY <1>6, DoingFacts DEF PushFails
  <2>2. cb'[c].at = "countback" /\ cb'[c].took = cb[c].took /\ cb'[c].item = cb[c].item
    BY <2>1, GotoFacts
  <2>3. QED
    BY <1>1, <2>2 DEF Holds, StandsFor
<1>7. ASSUME Push(c) \/ CountBack(c) PROVE Holds(c)' = {}
  BY <1>7, ReturnFacts, IdleFacts DEF Push, CountBack, Holds
<1>8. QED
  BY <1>2, <1>3, <1>4, <1>5, <1>6, <1>7

LEMMA HoldsStay ==
  ASSUME UNCHANGED cb, NEW c \in Callback
  PROVE  Holds(c)' = Holds(c)
BY DEF Holds, StandsFor

LEMMA SignalHolds ==
  ASSUME TypeOK, NEW c \in Callback, NEW f \in Feed, NEW n \in Item, Signal(c, f, n)
  PROVE  /\ Holds(c)' = {n} /\ cb'[c].feed = f
         /\ \A d \in Callback : d # c => Holds(d)' = Holds(d) /\ cb'[d] = cb[d]
         /\ n \notin sent /\ sent' = sent \cup {n}
         /\ UNCHANGED <<queue, owed, told, unheard>>
<1>1. cb'[c].at = "check" /\ cb'[c].took = {} /\ cb'[c].feed = f /\ cb'[c].item = n
      /\ \A d \in Callback : d # c => cb'[d] = cb[d]
  BY SignalFacts
<1>2. QED
  BY <1>1 DEF Signal, Holds, StandsFor

LEMMA SentStep ==
  ASSUME TypeOK, Places, AllSent, [Next]_vars  PROVE  AllSent'
<1>1. ASSUME NEW c \in Callback, NEW f \in Feed, NEW n \in Item, Signal(c, f, n)
      PROVE  AllSent'
  BY <1>1, SignalHolds DEF AllSent
<1>2. ASSUME NEW c \in Callback, Check(c) PROVE AllSent'
  BY <1>2, HoldsMoves DEF Check, AllSent
<1>3. ASSUME NEW c \in Callback, Take(c) PROVE AllSent'
  <2>1. cb[c].feed \in Feed /\ UNCHANGED <<sent, queue, told, unheard>>
        /\ \A f \in Feed : owed'[f] \subseteq owed[f]
    BY <1>3, DoingFacts DEF Take, TypeOK
  <2>2. \A d \in Callback : Holds(d)' \subseteq sent
    BY <1>3, <2>1, HoldsMoves DEF AllSent
  <2>3. QED
    BY <2>1, <2>2 DEF AllSent
<1>4. ASSUME NEW c \in Callback, Push(c) PROVE AllSent'
  <2>1. cb[c].feed \in Feed /\ StandsFor(c) \in SUBSET Item /\ StandsFor(c) \subseteq sent
        /\ queue[cb[c].feed] \in Seq(SUBSET Item)
    BY <1>4, DoingFacts, HoldsMoves DEF Push, AllSent
  <2>2. queue'[cb[c].feed] = Append(queue[cb[c].feed], StandsFor(c))
        /\ (\A f \in Feed : f # cb[c].feed => queue'[f] = queue[f])
        /\ UNCHANGED <<sent, owed, told, unheard>>
    BY <1>4, <2>1 DEF Push, TypeOK
  <2>3. \A i \in DOMAIN queue'[cb[c].feed] : queue'[cb[c].feed][i] \subseteq sent
    BY <2>1, <2>2, AppendFacts DEF AllSent
  <2>4. \A d \in Callback : Holds(d)' \subseteq sent
    BY <1>4, HoldsMoves DEF AllSent
  <2>5. QED
    BY <2>2, <2>3, <2>4 DEF AllSent
<1>5. ASSUME NEW c \in Callback, PushFails(c) PROVE AllSent'
  BY <1>5, HoldsMoves DEF PushFails, AllSent
<1>6. ASSUME NEW c \in Callback, CountBack(c) PROVE AllSent'
  <2>1. cb[c].feed \in Feed /\ StandsFor(c) \subseteq sent
        /\ UNCHANGED <<sent, queue, told, unheard>>
    BY <1>6, DoingFacts, HoldsMoves DEF CountBack, AllSent
  <2>2. \A f \in Feed : owed'[f] \subseteq owed[f] \cup StandsFor(c)
    BY <1>6, <2>1 DEF CountBack, TypeOK
  <2>3. \A d \in Callback : Holds(d)' \subseteq sent
    BY <1>6, HoldsMoves DEF AllSent
  <2>4. QED
    BY <2>1, <2>2, <2>3 DEF AllSent
<1>7. ASSUME NEW f \in Feed, Dispatch(f) \/ Discard(f) PROVE AllSent'
  <2>1. queue[f] \in Seq(SUBSET Item) /\ queue[f] # <<>> /\ UNCHANGED <<sent, cb, owed>>
        /\ queue'[f] = Tail(queue[f]) /\ (\A g \in Feed : g # f => queue'[g] = queue[g])
    BY <1>7 DEF Dispatch, Discard, TypeOK
  <2>2. Head(queue[f]) \subseteq sent
        /\ \A i \in DOMAIN queue'[f] : queue'[f][i] \subseteq sent
    BY <2>1, TailFacts DEF AllSent
  <2>3. \A g \in Feed : told'[g] \cup unheard'[g] \subseteq told[g] \cup unheard[g] \cup Head(queue[f])
    BY <1>7 DEF Dispatch, Discard, TypeOK
  <2>4. \A d \in Callback : Holds(d)' \subseteq sent
    BY <2>1, HoldsStay DEF AllSent
  <2>5. QED
    BY <2>1, <2>2, <2>3, <2>4 DEF AllSent
<1>8. CASE UNCHANGED <<sent, cb, queue, owed, told, unheard>>
  BY <1>8, HoldsStay DEF AllSent
<1>9. QED
  BY <1>1, <1>2, <1>3, <1>4, <1>5, <1>6, <1>7, <1>8, Steps, PhaseStep DEF vars

\* A callback that moved holds what it held before, or less, on the same feed.
LEMMA HolderStays ==
  ASSUME TypeOK, Places, NEW c \in Callback, HolderApart(c),
         UNCHANGED <<queue, owed, told, unheard>>,
         \A d \in Callback : /\ Holds(d)' \subseteq Holds(d)
                             /\ cb'[d].at # "idle" => cb[d].at # "idle" /\ cb'[d].feed = cb[d].feed
  PROVE  HolderApart(c)'
<1>1. SUFFICES ASSUME cb'[c].at # "idle"
               PROVE  /\ Apart(Holds(c)', owed[cb[c].feed] \cup told[cb[c].feed] \cup unheard[cb[c].feed])
                      /\ \A i \in DOMAIN queue[cb[c].feed] : Apart(Holds(c)', queue[cb[c].feed][i])
                      /\ \A d \in Callback : d # c /\ cb'[d].feed = cb[c].feed
                                             => Apart(Holds(c)', Holds(d)')
  BY DEF HolderApart
<1>2. \A d \in Callback : cb'[d].at = "idle" => Holds(d)' = {}
  BY DEF Holds
<1>3. QED
  BY <1>1, <1>2 DEF HolderApart, Apart

LEMMA HeldOnceStep ==
  ASSUME TypeOK, Places, AllSent, HeldOnce, [Next]_vars  PROVE  HeldOnce'
<1>0. \A c \in Callback : cb[c].at = "idle" => Holds(c) = {}
  BY DEF Holds
<1>1. ASSUME NEW c \in Callback, NEW f \in Feed, NEW n \in Item, Signal(c, f, n)
      PROVE  HeldOnce'
  <2>1. \A d \in Callback : d # c => HolderApart(d)'
    BY <1>1, SignalHolds DEF HeldOnce, HolderApart, AllSent, Apart
  <2>2. HolderApart(c)'
    BY <1>1, SignalHolds DEF HolderApart, AllSent, Apart
  <2>3. \A g \in Feed : FeedApart(g)' /\ QueueApart(g)'
    BY <1>1, SignalHolds DEF HeldOnce, FeedApart, QueueApart
  <2>4. QED
    BY <2>1, <2>2, <2>3 DEF HeldOnce
<1>2. ASSUME NEW c \in Callback, Check(c) \/ PushFails(c) PROVE HeldOnce'
  <2>1. UNCHANGED <<queue, owed, told, unheard>>
    BY <1>2 DEF Check, PushFails
  <2>2. \A d \in Callback : Holds(d)' \subseteq Holds(d)
        /\ (cb'[d].at # "idle" => cb[d].at # "idle" /\ cb'[d].feed = cb[d].feed)
    BY <1>2, HoldsMoves, CallbackMoves, IdleFacts
  <2>3. \A d \in Callback : HolderApart(d)'
    BY <2>1, <2>2, HolderStays DEF HeldOnce
  <2>4. \A g \in Feed : FeedApart(g)' /\ QueueApart(g)'
    BY <2>1 DEF HeldOnce, FeedApart, QueueApart
  <2>5. QED
    BY <2>3, <2>4 DEF HeldOnce
<1>3. ASSUME NEW c \in Callback, Take(c) PROVE HeldOnce'
  <2>0. PICK f \in Feed : f = cb[c].feed
    BY <1>3, CallbackMoves, DoingFacts
  <2>1. f \in Feed /\ UNCHANGED <<queue, told, unheard>>
        /\ owed'[f] = {} /\ (\A g \in Feed : g # f => owed'[g] = owed[g])
    BY <2>0, <1>3, DoingFacts DEF Take, TypeOK
  <2>2. Holds(c)' = Holds(c) \cup owed[f] /\ \A d \in Callback : d # c => Holds(d)' = Holds(d)
    BY <2>0, <1>3, HoldsMoves
  <2>3. cb[c].at # "idle" /\ cb'[c].feed = f /\ cb'[c].at # "idle"
        /\ \A d \in Callback : d # c => cb'[d] = cb[d]
    BY <2>0, <1>3, GotoFacts, CallbackMoves, DoingFacts DEF Take
  <2>4. HolderApart(c)'
    BY <2>0, <1>0, <2>1, <2>2, <2>3 DEF HeldOnce, HolderApart, FeedApart, QueueApart, Apart
  <2>5. \A d \in Callback : d # c => HolderApart(d)'
    <3>1. SUFFICES ASSUME NEW d \in Callback, d # c, cb[d].at # "idle" PROVE HolderApart(d)'
      BY <2>0, <2>3 DEF HolderApart
    <3>2. cb[d].feed \in Feed /\ HolderApart(d) /\ HolderApart(c)
      BY <2>0, <3>1, DoingFacts DEF HeldOnce
    <3>3. Apart(Holds(d), owed'[cb[d].feed] \cup told[cb[d].feed] \cup unheard[cb[d].feed])
      BY <2>0, <2>1, <3>1, <3>2 DEF HolderApart, Apart
    <3>4. cb[d].feed = f => Apart(Holds(d), Holds(c)')
      BY <2>0, <2>2, <2>3, <3>1, <3>2 DEF HolderApart, Apart
    <3>5. QED
      BY <2>0, <2>1, <2>2, <2>3, <3>1, <3>2, <3>3, <3>4 DEF HolderApart
  <2>6. \A g \in Feed : FeedApart(g)' /\ QueueApart(g)'
    BY <2>0, <2>1 DEF HeldOnce, FeedApart, QueueApart, Apart
  <2>7. QED
    BY <2>0, <2>4, <2>5, <2>6 DEF HeldOnce
<1>4. ASSUME NEW c \in Callback, Push(c) PROVE HeldOnce'
  <2>0. PICK f \in Feed : f = cb[c].feed
    BY <1>4, CallbackMoves, DoingFacts
  <2>1. f \in Feed /\ StandsFor(c) \in SUBSET Item /\ queue[f] \in Seq(SUBSET Item)
        /\ cb[c].at # "idle"
    BY <2>0, <1>4, DoingFacts DEF Push
  <2>2. queue'[f] = Append(queue[f], StandsFor(c))
        /\ (\A g \in Feed : g # f => queue'[g] = queue[g])
        /\ UNCHANGED <<owed, told, unheard>>
    BY <2>0, <1>4, <2>1 DEF Push, TypeOK
  <2>3. \A i \in DOMAIN queue'[f] : \/ i \in DOMAIN queue[f] /\ queue'[f][i] = queue[f][i]
                                    \/ i = Len(queue[f]) + 1 /\ queue'[f][i] = Holds(c)
    <3>1. StandsFor(c) = Holds(c)
      BY <2>0, <1>4, HoldsMoves
    <3>2. \A i \in DOMAIN Append(queue[f], StandsFor(c)) :
             \/ i \in DOMAIN queue[f] /\ Append(queue[f], StandsFor(c))[i] = queue[f][i]
             \/ i = Len(queue[f]) + 1 /\ Append(queue[f], StandsFor(c))[i] = StandsFor(c)
      BY <2>0, <2>1, AppendFacts
    <3>3. QED
      BY <2>2, <3>1, <3>2
  <2>4. Holds(c)' = {} /\ cb'[c] = Idle
        /\ \A d \in Callback : d # c => Holds(d)' = Holds(d) /\ cb'[d] = cb[d]
    BY <2>0, <1>4, HoldsMoves, CallbackMoves, ReturnFacts DEF Push
  <2>5. HolderApart(c) /\ FeedApart(f) /\ QueueApart(f)
    BY <2>0, <2>1 DEF HeldOnce
  <2>6. QueueApart(f)'
    <3>1. ASSUME NEW i \in DOMAIN queue'[f]
          PROVE  Apart(queue'[f][i], owed[f] \cup told[f] \cup unheard[f])
      BY <2>0, <2>1, <2>3, <2>5, <3>1 DEF QueueApart, HolderApart, Apart
    <3>2. ASSUME NEW i \in DOMAIN queue'[f], NEW j \in DOMAIN queue'[f], i # j
          PROVE  Apart(queue'[f][i], queue'[f][j])
      BY <2>0, <2>1, <2>3, <2>5, <3>2 DEF QueueApart, HolderApart, Apart
    <3>3. QED
      BY <2>0, <2>2, <3>1, <3>2 DEF QueueApart
  <2>7. \A g \in Feed : FeedApart(g)' /\ QueueApart(g)'
    <3>1. ASSUME NEW g \in Feed, g # f PROVE QueueApart(g)'
      BY <2>0, <2>2, <3>1 DEF HeldOnce, QueueApart
    <3>2. QED
      BY <2>0, <2>2, <2>6, <3>1 DEF HeldOnce, FeedApart
  <2>8. HolderApart(c)'
    BY <2>0, <2>4, IdleFacts DEF HolderApart
  <2>9. \A d \in Callback : d # c => HolderApart(d)'
    <3>1. SUFFICES ASSUME NEW d \in Callback, d # c, cb[d].at # "idle" PROVE HolderApart(d)'
      BY <2>0, <2>4 DEF HolderApart
    <3>2. cb[d].feed \in Feed /\ HolderApart(d)
      BY <2>0, <3>1, DoingFacts DEF HeldOnce
    <3>3. \A i \in DOMAIN queue'[cb[d].feed] : Apart(Holds(d), queue'[cb[d].feed][i])
      <4>1. CASE cb[c].feed = f
        BY <2>0, <2>1, <2>2, <2>3, <3>1, <3>2, <4>1 DEF HolderApart, Apart
      <4>2. CASE cb[c].feed # f
        BY <2>0, <2>1, <3>1, <3>2, <4>2 DEF HolderApart
      <4>3. QED
        BY <2>0, <4>1, <4>2
    <3>4. \A e \in Callback : e # d /\ cb'[e].feed = cb[d].feed => Apart(Holds(d), Holds(e)')
      BY <2>0, <2>4, <3>1, <3>2 DEF HolderApart, Apart
    <3>5. QED
      BY <2>0, <2>2, <2>4, <3>1, <3>2, <3>3, <3>4 DEF HolderApart
  <2>10. QED
    BY <2>0, <2>7, <2>8, <2>9 DEF HeldOnce
<1>5. ASSUME NEW c \in Callback, CountBack(c) PROVE HeldOnce'
  <2>0. PICK f \in Feed : f = cb[c].feed
    BY <1>5, CallbackMoves, DoingFacts
  <2>1. f \in Feed /\ cb[c].at # "idle" /\ UNCHANGED <<queue, told, unheard>>
    BY <2>0, <1>5, DoingFacts DEF CountBack
  <2>2. owed'[f] = owed[f] \cup Holds(c) /\ \A g \in Feed : g # f => owed'[g] = owed[g]
    BY <2>0, <1>5, <2>1, HoldsMoves DEF CountBack, TypeOK
  <2>3. Holds(c)' = {} /\ cb'[c] = Idle
        /\ \A d \in Callback : d # c => Holds(d)' = Holds(d) /\ cb'[d] = cb[d]
    BY <2>0, <1>5, HoldsMoves, CallbackMoves, ReturnFacts DEF CountBack
  <2>4. HolderApart(c) /\ FeedApart(f) /\ QueueApart(f)
    BY <2>0, <2>1 DEF HeldOnce
  <2>5. \A g \in Feed : FeedApart(g)' /\ QueueApart(g)'
    BY <2>0, <2>1, <2>2, <2>4 DEF HeldOnce, FeedApart, QueueApart, HolderApart, Apart
  <2>6. HolderApart(c)'
    BY <2>0, <2>3, IdleFacts DEF HolderApart
  <2>7. \A d \in Callback : d # c => HolderApart(d)'
    <3>1. SUFFICES ASSUME NEW d \in Callback, d # c, cb[d].at # "idle" PROVE HolderApart(d)'
      BY <2>0, <2>3 DEF HolderApart
    <3>2. cb[d].feed \in Feed /\ HolderApart(d)
      BY <2>0, <3>1, DoingFacts DEF HeldOnce
    <3>3. Apart(Holds(d), owed'[cb[d].feed] \cup told[cb[d].feed] \cup unheard[cb[d].feed])
      BY <2>0, <2>1, <2>2, <3>1, <3>2 DEF HolderApart, Apart
    <3>4. \A e \in Callback : e # d /\ cb'[e].feed = cb[d].feed => Apart(Holds(d), Holds(e)')
      BY <2>0, <2>3, <3>1, <3>2 DEF HolderApart, Apart
    <3>5. QED
      BY <2>0, <2>1, <2>3, <3>1, <3>2, <3>3, <3>4 DEF HolderApart
  <2>8. QED
    BY <2>0, <2>5, <2>6, <2>7 DEF HeldOnce
<1>6. ASSUME NEW f \in Feed, Dispatch(f) \/ Discard(f) PROVE HeldOnce'
  <2>1. queue[f] \in Seq(SUBSET Item) /\ queue[f] # <<>> /\ UNCHANGED <<cb, owed>>
        /\ queue'[f] = Tail(queue[f]) /\ (\A g \in Feed : g # f => queue'[g] = queue[g])
        /\ \A g \in Feed : g # f => told'[g] = told[g] /\ unheard'[g] = unheard[g]
    BY <1>6 DEF Dispatch, Discard, TypeOK
  <2>2. \/ told'[f] = told[f] \cup queue[f][1] /\ unheard'[f] = unheard[f]
        \/ unheard'[f] = unheard[f] \cup queue[f][1] /\ told'[f] = told[f]
    BY <1>6, <2>1, TailFacts DEF Dispatch, Discard, TypeOK
  <2>3. 1 \in DOMAIN queue[f] /\ \A i \in DOMAIN queue'[f] :
          i + 1 \in DOMAIN queue[f] /\ i + 1 # 1 /\ queue'[f][i] = queue[f][i + 1]
          /\ \A j \in DOMAIN queue'[f] : i # j => i + 1 # j + 1
    BY <2>1, TailFacts
  <2>4. FeedApart(f) /\ QueueApart(f)
    BY DEF HeldOnce
  <2>5. FeedApart(f)' /\ QueueApart(f)'
    BY <2>1, <2>2, <2>3, <2>4 DEF FeedApart, QueueApart, Apart
  <2>6. \A c \in Callback : HolderApart(c)'
    <3>1. SUFFICES ASSUME NEW c \in Callback, cb[c].at # "idle" PROVE HolderApart(c)'
      BY <2>1 DEF HolderApart
    <3>2. cb[c].feed \in Feed /\ HolderApart(c) /\ \A d \in Callback : Holds(d)' = Holds(d)
      BY <2>1, <3>1, DoingFacts, HoldsStay DEF HeldOnce
    <3>3. QED
      <4>1. CASE cb[c].feed = f
        <5>1. /\ Apart(Holds(c), owed[f] \cup told[f] \cup unheard[f])
              /\ \A i \in DOMAIN queue[f] : Apart(Holds(c), queue[f][i])
              /\ \A d \in Callback : d # c /\ cb[d].feed = f => Apart(Holds(c), Holds(d))
          BY <3>1, <3>2, <4>1 DEF HolderApart
        <5>2. Apart(Holds(c), owed[f] \cup told'[f] \cup unheard'[f])
          BY <2>2, <2>3, <5>1 DEF Apart
        <5>3. \A i \in DOMAIN queue'[f] : Apart(Holds(c), queue'[f][i])
          BY <2>3, <5>1
        <5>4. QED
          BY <2>1, <3>2, <4>1, <5>1, <5>2, <5>3 DEF HolderApart
      <4>2. CASE cb[c].feed # f
        BY <2>1, <3>1, <3>2, <4>2 DEF HolderApart
      <4>3. QED
        BY <4>1, <4>2
  <2>7. QED
    BY <2>1, <2>5, <2>6 DEF HeldOnce, FeedApart, QueueApart
<1>7. CASE UNCHANGED <<cb, queue, owed, told, unheard>>
  BY <1>7, HoldsStay DEF HeldOnce, FeedApart, QueueApart, HolderApart
<1>8. QED
  BY <1>1, <1>2, <1>3, <1>4, <1>5, <1>6, <1>7, Steps, PhaseStep DEF vars

-----------------------------------------------------------------------------
LEMMA InitIInv == Init => IInv
<1> SUFFICES ASSUME Init PROVE IInv
  OBVIOUS
<1>1. \A c \in Callback : cb[c] = Idle /\ cb[c].at = "idle" /\ Holds(c) = {}
  BY IdleFacts DEF Init, Holds
<1>2. TypeOK
  BY FeedAssumption DEF Init, TypeOK, Doing, Idle
<1>3. Places /\ AllSent /\ InActive /\ UnseenQueued
  BY <1>1 DEF Init, Places, AllSent, InActive, UnseenQueued
<1>4. HeldOnce
  BY <1>1 DEF Init, HeldOnce, FeedApart, QueueApart, HolderApart, Apart
<1>5. QED
  BY <1>2, <1>3, <1>4 DEF IInv

LEMMA NextIInv == IInv /\ [Next]_vars => IInv'
BY TypeStep, PlacesStep, SentStep, HeldOnceStep, ActiveStep, UnseenStep DEF IInv

THEOREM Invariant == Spec => []IInv
  BY InitIInv, NextIInv, PTL DEF Spec

\* The variables of the feeds keep their types; a queue never exceeds its size.
THEOREM TypeCorrect == Spec => []TypeOK
<1>1. IInv => TypeOK
  BY DEF IInv
<1>2. QED
  BY <1>1, Invariant, PTL

LEMMA CarriesHeld ==
  ASSUME NEW c \in Callback
  PROVE  Carries(c) \subseteq Holds(c) /\ (cb[c].at = "idle" => Carries(c) = {})
BY DEF Carries, Holds, StandsFor

\* events.cpp:193, 208, 284, 291: exchange and fetch_add on any number of Ceph
\* threads, with any queue size, never count an item of a feed twice.
THEOREM NeverCountedTwice == Spec => []CountedOnce
<1>1. IInv => CountedOnce
  BY CarriesHeld DEF IInv, HeldOnce, FeedApart, QueueApart, HolderApart, CountedOnce, Apart
<1>2. QED
  BY <1>1, Invariant, PTL

\* events.cpp:177, 275: for any number of subscriptions, with one slot or many,
\* no callback outlives the release of what it uses.
THEOREM NoLateCallback == Spec => []ReleasedWhenQuiet
<1>1. IInv => ReleasedWhenQuiet
  BY IdleFacts, FeedAssumption DEF IInv, Places, InActive, Active, ReleasedWhenQuiet
<1>2. QED
  BY <1>1, Invariant, PTL

\* events.cpp:289-292: a full queue never swallows the last signal.
THEOREM NoSignalForgotten == Spec => []UnseenQueued
<1>1. IInv => UnseenQueued
  BY DEF IInv
<1>2. QED
  BY <1>1, Invariant, PTL

-----------------------------------------------------------------------------
(* One feed after the other.                                                *)

\* A feed that was made and has not been released.
Underway(f) == phase[f] \notin {"absent", "done"}

Alone == \A f, g \in Feed : Underway(f) /\ Underway(g) => f = g

\* Whoever empties or takes the slot is the only feed underway.
LEMMA AloneStep ==
  ASSUME OneAtATime, TypeOK, Alone, OpenIsHeard, [Next]_vars
  PROVE  Alone' /\ OpenIsHeard'
<1> USE DEF TypeOK, Alone, Underway, OpenIsHeard
<1>1. ASSUME NEW f \in Feed, Create(f) PROVE Alone' /\ OpenIsHeard'
  BY <1>1 DEF Create, MayCreate, Registering
<1>2. ASSUME NEW f \in Feed, CreateFails(f) PROVE Alone' /\ OpenIsHeard'
  BY <1>2 DEF CreateFails, MayCreate
<1>3. ASSUME NEW f \in Feed, JsClose(f) PROVE Alone' /\ OpenIsHeard'
  BY <1>3 DEF JsClose
<1>4. ASSUME NEW f \in Feed, Exchange(f) PROVE Alone' /\ OpenIsHeard'
  BY <1>4 DEF Exchange
<1>5. ASSUME NEW f \in Feed, Unregister(f) PROVE Alone' /\ OpenIsHeard'
  BY <1>5 DEF Unregister, Unregistering
<1>6. ASSUME NEW f \in Feed, Release(f) PROVE Alone' /\ OpenIsHeard'
  BY <1>6 DEF Release
<1>7. ASSUME UNCHANGED <<phase, registered>> PROVE Alone' /\ OpenIsHeard'
  BY <1>7
<1>8. QED
  BY <1>1, <1>2, <1>3, <1>4, <1>5, <1>6, <1>7, Steps
     DEF CloseStep, Signal, Check, Take, Push, PushFails, CountBack, Dispatch, Discard, vars

\* README.md:87: a client that awaits the close of its last subscription before it
\* makes the next is heard by the one it has open, however many it makes.
THEOREM OpenFeedIsHeard == ASSUME OneAtATime PROVE Spec => []OpenIsHeard
<1>1. Init => Alone /\ OpenIsHeard
  BY DEF Init, Alone, Underway, OpenIsHeard
<1>2. TypeOK /\ Alone /\ OpenIsHeard /\ [Next]_vars => (Alone /\ OpenIsHeard)'
  BY AloneStep
<1>3. QED
  BY <1>1, <1>2, TypeCorrect, PTL DEF Spec

\* Whoever else the client subscribes, and whenever: a cluster calls back one log at a
\* time, and an open feed that Ceph does not call back is a log, which another one has
\* replaced or, closing, taken off the slot.
OnlyLogsSilenceLogs ==
  /\ \A f, g \in Log \cap registered : f = g
  /\ \A f \in Feed : phase[f] = "open" /\ f \notin registered =>
       f \in Log /\ \E g \in Log \ {f} : phase[g] # "absent"

\* A step of one feed that leaves the slot alone and opens no feed without registering it.
LEMMA SlotUntouched ==
  ASSUME Log \subseteq Feed, OnlyLogsSilenceLogs, NEW f \in Feed,
         \A g \in Feed : g # f => phase'[g] = phase[g] /\ (g \in registered => g \in registered'),
         phase'[f] # "absent", phase'[f] = "open" => f \in registered',
         Log \cap registered' \subseteq registered
  PROVE  OnlyLogsSilenceLogs'
<1>1. ASSUME NEW g \in Feed, phase'[g] = "open", g \notin registered'
      PROVE  g \in Log /\ \E h \in Log \ {g} : phase'[h] # "absent"
  <2>1. phase[g] = "open" /\ g \notin registered
    BY <1>1
  <2>2. g \in Log /\ \E h \in Log \ {g} : phase[h] # "absent"
    BY <2>1 DEF OnlyLogsSilenceLogs
  <2>3. PICK h \in Log \ {g} : phase[h] # "absent"
    BY <2>2
  <2>4. phase'[h] # "absent"
    BY <2>3
  <2>5. QED
    BY <2>2, <2>4
<1>2. \A g, h \in Log \cap registered' : g = h
  BY DEF OnlyLogsSilenceLogs
<1>3. QED
  BY <1>1, <1>2 DEF OnlyLogsSilenceLogs

\* A step of a log that empties or takes the slot.
LEMMA SlotTaken ==
  ASSUME Log \subseteq Feed, OnlyLogsSilenceLogs, NEW f \in Log,
         \A g \in Feed : g # f => phase'[g] = phase[g],
         phase'[f] # "absent", phase'[f] = "open" => f \in registered',
         registered' \in {registered \ Log, (registered \ Log) \cup {f}}
  PROVE  OnlyLogsSilenceLogs'
<1>1. ASSUME NEW g \in Feed, phase'[g] = "open", g \notin registered'
      PROVE  g \in Log /\ f \in Log \ {g} /\ phase'[f] # "absent"
  <2>1. g # f /\ phase[g] = "open" /\ g \notin registered \ Log
    BY <1>1
  <2>2. g \in Log
    BY <2>1 DEF OnlyLogsSilenceLogs
  <2>3. QED
    BY <2>1, <2>2
<1>2. \A g, h \in Log \cap registered' : g = h
  OBVIOUS
<1>3. QED
  BY <1>1, <1>2 DEF OnlyLogsSilenceLogs

LEMMA SlotStep ==
  ASSUME TypeOK, OnlyLogsSilenceLogs, [Next]_vars
  PROVE  OnlyLogsSilenceLogs'
<1>0. DOMAIN phase = Feed /\ Log \subseteq Feed
  BY FeedAssumption DEF TypeOK
<1>1. ASSUME NEW f \in Feed, Create(f) PROVE OnlyLogsSilenceLogs'
  <2>1. phase'[f] = "open" /\ f \in registered' /\ \A g \in Feed : g # f => phase'[g] = phase[g]
    BY <1>0, <1>1 DEF Create, Registering
  <2>2. registered' = IF f \in Log THEN (registered \ Log) \cup {f} ELSE registered \cup {f}
    BY <1>1 DEF Create, Registering, SharedWith
  <2>3. QED
    BY <1>0, <2>1, <2>2, SlotTaken, SlotUntouched
<1>2. ASSUME NEW f \in Feed, CreateFails(f) \/ JsClose(f) \/ Exchange(f) \/ Release(f)
      PROVE  OnlyLogsSilenceLogs'
  <2>1. /\ phase'[f] \in {"done", "closing", "closed"} /\ registered' = registered
        /\ \A g \in Feed : g # f => phase'[g] = phase[g]
    BY <1>0, <1>2 DEF CreateFails, JsClose, Exchange, Release
  <2>2. QED
    BY <1>0, <2>1, SlotUntouched
<1>3. ASSUME NEW f \in Feed, Unregister(f) PROVE OnlyLogsSilenceLogs'
  <2>1. phase'[f] = "off" /\ \A g \in Feed : g # f => phase'[g] = phase[g]
    BY <1>0, <1>3 DEF Unregister
  <2>2. registered' = IF f \in Log THEN registered \ Log ELSE registered \ {f}
    BY <1>3 DEF Unregister, Unregistering, SharedWith
  <2>3. QED
    BY <1>0, <2>1, <2>2, SlotTaken, SlotUntouched
<1>4. CASE UNCHANGED <<phase, registered>>
  BY <1>4 DEF OnlyLogsSilenceLogs
<1>5. QED
  BY <1>1, <1>2, <1>3, <1>4, Steps
     DEF CloseStep, Signal, Check, Take, Push, PushFails, CountBack, Dispatch, Discard, vars

\* README.md:87, events.cpp:172-180, 230-239, 270-278: for any client, one that overlaps
\* its subscriptions included, no update watch is ever silenced, and a log only by a log.
THEOREM UpdatesAreAlwaysHeard == Spec => []OnlyLogsSilenceLogs
<1>1. Init => OnlyLogsSilenceLogs
  BY DEF Init, OnlyLogsSilenceLogs
<1>2. TypeOK /\ OnlyLogsSilenceLogs /\ [Next]_vars => OnlyLogsSilenceLogs'
  BY SlotStep
<1>3. QED
  BY <1>1, <1>2, TypeCorrect, PTL DEF Spec

-----------------------------------------------------------------------------
(* The feeds implement LossyChannel.                                        *)

\* What pending means, item by item.
LEMMA PendingFacts ==
  ASSUME NEW f \in Feed, NEW n
  PROVE  n \in Pending[f] <=> \/ n \in owed[f]
                              \/ \E i \in DOMAIN queue[f] : n \in queue[f][i]
                              \/ \E c \in Callback : cb[c].feed = f /\ n \in Carries(c)
BY DEF Pending, Queued

\* A callback carries from the moment it has passed its check.
LEMMA CarriesMoves ==
  ASSUME TypeOK, Places, NEW c \in Callback,
         Check(c) \/ Take(c) \/ Push(c) \/ PushFails(c) \/ CountBack(c)
  PROVE  /\ \A d \in Callback : d # c => Carries(d)' = Carries(d)
         /\ Check(c) => /\ Carries(c) = {} /\ Holds(c) = {cb[c].item}
                        /\ \/ cb'[c] = Idle /\ Carries(c)' = {}
                           \/ cb'[c].feed = cb[c].feed /\ Carries(c)' = {cb[c].item}
         /\ ~Check(c) => Carries(c) = Holds(c)
         /\ Take(c) => cb'[c].feed = cb[c].feed /\ Carries(c)' = Carries(c) \cup owed[cb[c].feed]
         /\ PushFails(c) => cb'[c].feed = cb[c].feed /\ Carries(c)' = Carries(c)
         /\ Push(c) \/ CountBack(c) => cb'[c] = Idle /\ Carries(c)' = {}
<1>1. cb[c].at # "idle" /\ \A d \in Callback : d # c => cb'[d] = cb[d]
  BY CallbackMoves
<1>2. \A d \in Callback : d # c => Carries(d)' = Carries(d)
  BY <1>1 DEF Carries, StandsFor
<1>3. ASSUME Check(c)
      PROVE  /\ Carries(c) = {} /\ Holds(c) = {cb[c].item}
             /\ \/ cb'[c] = Idle /\ Carries(c)' = {}
                \/ cb'[c].feed = cb[c].feed /\ Carries(c)' = {cb[c].item}
  <2>1. Carries(c) = {} /\ Holds(c) = {cb[c].item}
    BY <1>3 DEF Check, Carries, Holds, StandsFor, Places
  <2>2. CASE Return(c)
    BY <2>1, <2>2, ReturnFacts, IdleFacts DEF Carries
  <2>3. CASE Goto(c, "take", {})
    BY <2>1, <2>3, GotoFacts DEF Carries
  <2>4. QED
    BY <1>3, <2>2, <2>3 DEF Check
<1>4. ~Check(c) => Carries(c) = Holds(c)
  BY <1>1 DEF Take, Push, PushFails, CountBack, Carries, Holds, StandsFor, Places
<1>5. ASSUME Take(c)
      PROVE  cb'[c].feed = cb[c].feed /\ Carries(c)' = Carries(c) \cup owed[cb[c].feed]
  <2>1. owed[cb[c].feed] \in SUBSET Item
    BY <1>1, DoingFacts
  <2>2. cb[c].at = "take" /\ Goto(c, "push", owed[cb[c].feed])
    BY <1>5 DEF Take
  <2>3. cb'[c].at = "push" /\ cb'[c].took = owed[cb[c].feed] /\ cb'[c].item = cb[c].item
        /\ cb'[c].feed = cb[c].feed
    BY <2>1, <2>2, GotoFacts
  <2>4. QED
    BY <2>2, <2>3 DEF Carries, StandsFor
<1>6. ASSUME PushFails(c)
      PROVE  cb'[c].feed = cb[c].feed /\ Carries(c)' = Carries(c)
  <2>1. Goto(c, "countback", cb[c].took) /\ cb[c].took \in SUBSET Item /\ cb[c].at = "push"
    BY <1>6, DoingFacts DEF PushFails
  <2>2. cb'[c].at = "countback" /\ cb'[c].took = cb[c].took /\ cb'[c].item = cb[c].item
        /\ cb'[c].feed = cb[c].feed
    BY <2>1, GotoFacts
  <2>3. QED
    BY <2>1, <2>2 DEF Carries, StandsFor
<1>7. ASSUME Push(c) \/ CountBack(c) PROVE cb'[c] = Idle /\ Carries(c)' = {}
  BY <1>7, ReturnFacts, IdleFacts DEF Push, CountBack, Carries
<1>8. QED
  BY <1>2, <1>3, <1>4, <1>5, <1>6, <1>7

\* Two pendings are the same if no feed's differ.
LEMMA PendingSame ==
  ASSUME \A f \in Feed : Pending[f]' = Pending[f]
  PROVE  Pending' = Pending
BY DEF Pending

\* What is told and thrown away, and the feeds closed, stay the same.
Stays == UNCHANGED <<told, unheard, phase>>

\* Steps that move items among counter, callback and queue, or none, are not seen.
LEMMA MovesUnseen ==
  ASSUME IInv, NEW c \in Callback, Take(c) \/ Push(c) \/ PushFails(c) \/ CountBack(c)
  PROVE  Stays /\ Pending' = Pending
<1>0. TypeOK /\ Places /\ cb[c].feed \in Feed /\ StandsFor(c) \in SUBSET Item
  BY CallbackMoves, DoingFacts DEF IInv
<1>1. PICK f \in Feed : f = cb[c].feed
  BY <1>0
<1>2. Stays /\ ~Check(c) /\ \A d \in Callback : d # c => cb'[d] = cb[d]
  BY <1>0, CallbackMoves DEF Stays, Take, Push, PushFails, CountBack, Check
<1>3. \A d \in Callback : d # c => Carries(d)' = Carries(d)
  BY <1>0, CarriesMoves
<1>4. Carries(c) = Holds(c) /\ Holds(c) = StandsFor(c)
  BY <1>0, <1>2, CarriesMoves, HoldsMoves
<1>5. ASSUME NEW g \in Feed, NEW n PROVE n \in Pending[g]' <=> n \in Pending[g]
  <2>1. n \in Pending[g] <=> \/ n \in owed[g]
                             \/ \E i \in DOMAIN queue[g] : n \in queue[g][i]
                             \/ \E d \in Callback : cb[d].feed = g /\ n \in Carries(d)
    BY PendingFacts
  <2>2. n \in Pending[g]' <=> \/ n \in owed'[g]
                              \/ \E i \in DOMAIN queue'[g] : n \in queue'[g][i]
                              \/ \E d \in Callback : cb'[d].feed = g /\ n \in Carries(d)'
    BY DEF Pending, Queued
  <2>3. CASE g # f
    <3>1. owed'[g] = owed[g] /\ queue'[g] = queue[g]
      BY <1>0, <1>1, <2>3 DEF Take, Push, PushFails, CountBack, TypeOK
    <3>2. \A d \in Callback : cb'[d].feed = g /\ n \in Carries(d)' <=> cb[d].feed = g /\ n \in Carries(d)
      BY <1>0, <1>1, <1>2, <1>3, <2>3, CarriesMoves, IdleFacts
    <3>3. QED
      BY <2>1, <2>2, <3>1, <3>2
  <2>4. CASE g = f /\ Take(c)
    <3>1. owed'[g] = {} /\ queue'[g] = queue[g] /\ cb'[c].feed = f /\ Carries(c)' = Carries(c) \cup owed[g]
      BY <1>0, <1>1, <2>4, CarriesMoves DEF Take, TypeOK
    <3>2. QED
      BY <1>1, <1>2, <1>3, <2>1, <2>2, <2>4, <3>1
  <2>5. CASE g = f /\ PushFails(c)
    <3>1. owed'[g] = owed[g] /\ queue'[g] = queue[g] /\ cb'[c].feed = f /\ Carries(c)' = Carries(c)
      BY <1>0, <1>1, <2>5, CarriesMoves DEF PushFails
    <3>2. QED
      BY <1>1, <1>2, <1>3, <2>1, <2>2, <2>5, <3>1
  <2>6. CASE g = f /\ Push(c)
    <3>1. owed'[g] = owed[g] /\ queue'[g] = Append(queue[g], StandsFor(c))
      BY <1>0, <1>1, <2>6 DEF Push, TypeOK
    <3>2. queue[g] \in Seq(SUBSET Item)
      BY <1>0 DEF TypeOK
    <3>3. (\E i \in DOMAIN Append(queue[g], StandsFor(c)) : n \in Append(queue[g], StandsFor(c))[i])
             <=> n \in StandsFor(c) \/ \E i \in DOMAIN queue[g] : n \in queue[g][i]
      BY <1>0, <3>2, AppendFacts
    <3>4. Carries(c)' = {}
      BY <1>0, <2>6, CarriesMoves
    <3>5. QED
      BY <1>1, <1>2, <1>3, <1>4, <2>1, <2>2, <2>6, <3>1, <3>3, <3>4
  <2>7. CASE g = f /\ CountBack(c)
    <3>1. owed'[g] = owed[g] \cup StandsFor(c) /\ queue'[g] = queue[g] /\ Carries(c)' = {}
      BY <1>0, <1>1, <2>7, CarriesMoves DEF CountBack, TypeOK
    <3>2. QED
      BY <1>1, <1>2, <1>3, <1>4, <2>1, <2>2, <2>7, <3>1
  <2>8. QED
    BY <2>3, <2>4, <2>5, <2>6, <2>7
<1>6. \A g \in Feed : Pending[g]' = Pending[g]
  BY <1>5
<1>7. QED
  BY <1>2, <1>6, PendingSame

\* A callback that passes the check puts its item into the channel.
LEMMA CheckPuts ==
  ASSUME IInv, NEW c \in Callback, Check(c)
  PROVE  /\ Stays
         /\ \/ Pending' = Pending
            \/ Channel!Put(cb[c].feed, cb[c].item)
<1>0. TypeOK /\ Places /\ Stays /\ UNCHANGED <<owed, queue>> /\ cb[c].at # "idle"
  BY CallbackMoves DEF IInv, Check, Stays
<1>1. PICK f \in Feed, m \in Item : f = cb[c].feed /\ m = cb[c].item
  BY <1>0, DoingFacts
<1>2. \A d \in Callback : d # c => cb'[d] = cb[d] /\ Carries(d)' = Carries(d)
  BY <1>0, CarriesMoves, CallbackMoves
<1>3. Carries(c) = {} /\ Holds(c) = {m}
  BY <1>0, <1>1, CarriesMoves
<1>4. \A g \in Feed : \A n : n \in Pending[g] <=>
         \/ n \in owed[g]
         \/ \E i \in DOMAIN queue[g] : n \in queue[g][i]
         \/ \E d \in Callback : cb[d].feed = g /\ n \in Carries(d)
  BY PendingFacts
<1>5. \A g \in Feed : \A n : n \in Pending[g]' <=>
         \/ n \in owed[g]
         \/ \E i \in DOMAIN queue[g] : n \in queue[g][i]
         \/ \E d \in Callback : cb'[d].feed = g /\ n \in Carries(d)'
  BY <1>0 DEF Pending, Queued
<1>6. CASE Carries(c)' = {}
  <2>1. \A g \in Feed : \A n : n \in Pending[g]' <=> n \in Pending[g]
    BY <1>2, <1>3, <1>4, <1>5, <1>6
  <2>2. \A g \in Feed : Pending[g]' = Pending[g]
    BY <2>1
  <2>3. QED
    BY <1>0, <2>2, PendingSame
<1>7. CASE cb'[c].feed = f /\ Carries(c)' = {m}
  <2>1. \A g \in Feed : \A n : n \in Pending[g]' <=> n \in Pending[g] \/ (g = f /\ n = m)
    BY <1>1, <1>2, <1>3, <1>4, <1>5, <1>7
  <2>2. \A g \in Feed : Pending[g]' = IF g = f THEN Pending[g] \cup {m} ELSE Pending[g]
    BY <2>1
  <2>3. Pending' = [Pending EXCEPT ![f] = @ \cup {m}]
    BY <2>2 DEF Pending
  <2>4. m \notin Pending[f] \cup told[f] \cup unheard[f]
    <3>1. HolderApart(c)
      BY DEF IInv, HeldOnce
    <3>2. \A d \in Callback : d # c /\ cb[d].feed = f => m \notin Carries(d)
      BY <1>0, <1>1, <1>3, <3>1, CarriesHeld DEF HolderApart, Apart
    <3>3. QED
      BY <1>0, <1>1, <1>3, <1>4, <3>1, <3>2 DEF HolderApart, Apart
  <2>5. QED
    BY <1>0, <1>1, <2>3, <2>4 DEF Channel!Put, Stays, JsClosed
<1>8. QED
  BY <1>0, <1>1, <1>6, <1>7, CarriesMoves

\* Dispatching an event takes its items, and no others, out of the channel.
LEMMA DispatchTells ==
  ASSUME IInv, NEW f \in Feed, Dispatch(f) \/ Discard(f)
  PROVE  Channel!Tell(f, Head(queue[f])) \/ Channel!Discard(f, Head(queue[f]))
<1>0. queue[f] \in Seq(SUBSET Item) /\ queue[f] # <<>> /\ UNCHANGED <<cb, owed, phase>>
      /\ queue'[f] = Tail(queue[f]) /\ \A g \in Feed : g # f => queue'[g] = queue[g]
  BY DEF IInv, TypeOK, Dispatch, Discard
<1>1. PICK H \in SUBSET Item : H = Head(queue[f]) /\ H = queue[f][1]
  BY <1>0, TailFacts
<1>2. \A d \in Callback : Carries(d)' = Carries(d)
  BY <1>0 DEF Carries, StandsFor
<1>3. \A g \in Feed : \A n : n \in Pending[g] <=>
         \/ n \in owed[g]
         \/ \E i \in DOMAIN queue[g] : n \in queue[g][i]
         \/ \E d \in Callback : cb[d].feed = g /\ n \in Carries(d)
  BY PendingFacts
<1>4. \A g \in Feed : \A n : n \in Pending[g]' <=>
         \/ n \in owed[g]
         \/ \E i \in DOMAIN queue'[g] : n \in queue'[g][i]
         \/ \E d \in Callback : cb[d].feed = g /\ n \in Carries(d)
  BY <1>0, <1>2 DEF Pending, Queued
<1>5. 1 \in DOMAIN queue[f]
      /\ (\A i \in DOMAIN Tail(queue[f]) : i + 1 \in DOMAIN queue[f] /\ i + 1 # 1
                                           /\ Tail(queue[f])[i] = queue[f][i + 1])
      /\ \A i \in DOMAIN queue[f] : i # 1 => i - 1 \in DOMAIN Tail(queue[f])
                                             /\ Tail(queue[f])[i - 1] = queue[f][i]
  BY <1>0, TailFacts
<1>6. QueueApart(f) /\ \A d \in Callback : HolderApart(d)
  BY DEF IInv, HeldOnce
<1>7. H \subseteq Pending[f]
  BY <1>1, <1>3, <1>5
<1>8. \A n : n \in Pending[f]' <=> n \in Pending[f] \ H
  <2>1. \A n : (\E i \in DOMAIN queue'[f] : n \in queue'[f][i])
               <=> (\E i \in DOMAIN queue[f] : n \in queue[f][i]) /\ n \notin H
    <3>1. \A i \in DOMAIN queue[f] : i # 1 => Apart(queue[f][1], queue[f][i])
      BY <1>5, <1>6 DEF QueueApart
    <3>2. ASSUME NEW n, NEW i \in DOMAIN queue'[f], n \in queue'[f][i]
          PROVE  n \notin H /\ \E k \in DOMAIN queue[f] : n \in queue[f][k]
      BY <1>0, <1>1, <1>5, <3>1, <3>2 DEF Apart
    <3>3. ASSUME NEW n, NEW i \in DOMAIN queue[f], n \in queue[f][i], n \notin H
          PROVE  \E k \in DOMAIN queue'[f] : n \in queue'[f][k]
      <4>1. i # 1 /\ i - 1 \in DOMAIN queue'[f] /\ queue'[f][i - 1] = queue[f][i]
        BY <1>0, <1>1, <1>5, <3>3
      <4>2. QED
        BY <3>3, <4>1
    <3>4. QED
      BY <3>2, <3>3
  <2>2. Apart(H, owed[f])
    BY <1>1, <1>5, <1>6 DEF QueueApart, Apart
  <2>3. \A d \in Callback : cb[d].feed = f => Apart(H, Carries(d))
    BY <1>1, <1>5, <1>6, CarriesHeld DEF HolderApart, Apart
  <2>4. QED
    BY <1>3, <1>4, <2>1, <2>2, <2>3 DEF Apart
<1>9. Pending' = [Pending EXCEPT ![f] = @ \ H]
  <2>1. \A g \in Feed : Pending[g]' = IF g = f THEN Pending[g] \ H ELSE Pending[g]
    <3>1. ASSUME NEW g \in Feed, g # f PROVE Pending[g]' = Pending[g]
      <4>1. \A n : n \in Pending[g]' <=> n \in Pending[g]
        BY <1>0, <1>3, <1>4, <3>1
      <4>2. QED
        BY <4>1
    <3>2. Pending[f]' = Pending[f] \ H
      BY <1>8
    <3>3. QED
      BY <3>1, <3>2
  <2>2. QED
    BY <2>1 DEF Pending
<1>10. QED
  BY <1>0, <1>1, <1>7, <1>9 DEF Dispatch, Discard, Channel!Tell, Channel!Discard, JsClosed

\* The client sees a feed close when close() begins, or when Create fails.
LEMMA PhaseCloses ==
  ASSUME IInv, NEW f \in Feed, Create(f) \/ CreateFails(f) \/ JsClose(f) \/ CloseStep(f)
  PROVE  [Channel!Next]_Channel!vars
<1>1. UNCHANGED <<sent, cb, queue, owed, told, unheard>>
  BY PhaseStep
<1>2. Pending' = Pending
  BY <1>1 DEF Pending, Queued, Carries, StandsFor
<1>3. CASE JsClose(f) \/ CreateFails(f)
  <2>1. [g \in Feed |-> JsClosed(g)]' = [[g \in Feed |-> JsClosed(g)] EXCEPT ![f] = TRUE]
    BY <1>3 DEF JsClose, CreateFails, JsClosed, IInv, TypeOK
  <2>2. Channel!Close(f)
    BY <1>1, <1>2, <2>1 DEF Channel!Close
  <2>3. QED
    BY <2>2 DEF Channel!Next
<1>4. CASE Create(f) \/ CloseStep(f)
  <2>1. [g \in Feed |-> JsClosed(g)]' = [g \in Feed |-> JsClosed(g)]
    BY <1>4 DEF Create, MayCreate, CloseStep, Exchange, Unregister, Release, JsClosed, IInv, TypeOK
  <2>2. QED
    BY <1>1, <1>2, <2>1 DEF Channel!vars
<1>5. QED
  BY <1>3, <1>4

LEMMA ChannelInit == Init => Channel!Init
<1> SUFFICES ASSUME Init PROVE Channel!Init
  OBVIOUS
<1>1. \A c \in Callback : Carries(c) = {}
  BY IdleFacts, CarriesHeld DEF Init
<1>2. Pending = [f \in Feed |-> {}]
  BY <1>1 DEF Init, Pending, Queued
<1>3. [f \in Feed |-> JsClosed(f)] = [f \in Feed |-> FALSE]
  <2>1. ASSUME NEW f \in Feed PROVE JsClosed(f) = FALSE
    <3>1. phase[f] = "absent"
      BY DEF Init
    <3>2. ~JsClosed(f)
      BY <3>1 DEF JsClosed
    <3>3. QED
      BY <3>2 DEF JsClosed
  <2>2. QED
    BY <2>1, Zenon
<1>4. QED
  BY <1>2, <1>3 DEF Init, Channel!Init

LEMMA ChannelStep == IInv /\ [Next]_vars => [Channel!Next]_Channel!vars
<1> SUFFICES ASSUME IInv, [Next]_vars PROVE [Channel!Next]_Channel!vars
  OBVIOUS
<1>1. Stays /\ Pending' = Pending => [Channel!Next]_Channel!vars
  BY DEF Stays, JsClosed, Channel!vars
<1>2. ASSUME NEW c \in Callback, NEW f \in Feed, NEW n \in Item, Signal(c, f, n)
      PROVE  [Channel!Next]_Channel!vars
  <2>1. Stays /\ UNCHANGED <<owed, queue>> /\ \A d \in Callback : d # c => cb'[d] = cb[d]
    BY <1>2, SignalFacts DEF Signal, Stays, IInv
  <2>2. Carries(c) = {} /\ Carries(c)' = {} /\ \A d \in Callback : d # c => Carries(d)' = Carries(d)
    BY <1>2, <2>1, SignalFacts DEF Signal, Carries, StandsFor, IInv
  <2>3. \A g \in Feed : \A m : m \in Pending[g]' <=> m \in Pending[g]
    BY <2>1, <2>2, PendingFacts DEF Pending, Queued
  <2>4. Pending' = Pending
    BY <2>3, PendingSame
  <2>5. QED
    BY <1>1, <2>1, <2>4
<1>3. ASSUME NEW c \in Callback, Check(c) PROVE [Channel!Next]_Channel!vars
  BY <1>1, <1>3, CheckPuts, CallbackMoves, DoingFacts DEF Channel!Next, IInv
<1>4. ASSUME NEW c \in Callback, Take(c) \/ Push(c) \/ PushFails(c) \/ CountBack(c)
      PROVE  [Channel!Next]_Channel!vars
  BY <1>1, <1>4, MovesUnseen
<1>5. ASSUME NEW f \in Feed, Dispatch(f) \/ Discard(f) PROVE [Channel!Next]_Channel!vars
  <2>1. Head(queue[f]) \in SUBSET Item
    BY <1>5, TailFacts DEF Dispatch, Discard, IInv, TypeOK
  <2>2. QED
    BY <1>5, <2>1, DispatchTells DEF Channel!Next
<1>6. ASSUME NEW f \in Feed, Create(f) \/ CreateFails(f) \/ JsClose(f) \/ CloseStep(f)
      PROVE  [Channel!Next]_Channel!vars
  BY <1>6, PhaseCloses
<1>7. CASE UNCHANGED vars
  BY <1>1, <1>7 DEF vars, Stays, Pending, Queued, Carries, StandsFor
<1>8. QED
  BY <1>2, <1>3, <1>4, <1>5, <1>6, <1>7, Steps

\* The detailed feeds, their queues, counters and threads, are lossy channels:
\* each item counted is told once, or thrown away after the client's close.
THEOREM FeedsAreChannels == Spec => KeepsEveryItem
  BY Invariant, ChannelInit, ChannelStep, PTL DEF Spec, KeepsEveryItem, Channel!Spec

-----------------------------------------------------------------------------
(* The counters.  The model keeps Data::dropped and Data::coalesced as the   *)
(* sets of what they count; the code keeps integers, which are the sizes of  *)
(* these sets as long as each addition adds what was not there.              *)

\* What exchange(0), the event made of its value and fetch_add(... + 1) do to the
\* integers.
CountsAsInteger(c) ==
  LET f == cb[c].feed IN
    /\ Take(c) => /\ Cardinality(cb'[c].took) = Cardinality(owed[f])
                  /\ Cardinality(owed'[f]) = 0
    /\ Push(c) => Cardinality(queue'[f][Len(queue[f]) + 1]) = Cardinality(cb[c].took) + 1
    /\ CountBack(c) =>
         Cardinality(owed'[f]) = Cardinality(owed[f]) + Cardinality(cb[c].took) + 1
TellsAsInteger(f) ==
  Dispatch(f) => Cardinality(told'[f]) = Cardinality(told[f]) + Cardinality(Head(queue[f]))

\* No callback has taken its own item from the counter.
Countable ==
  IsFiniteSet(sent) /\ \A c \in Callback : cb[c].at # "idle" => cb[c].item \notin cb[c].took

LEMMA CountableStep ==
  ASSUME IInv, Countable, [Next]_vars  PROVE  Countable'
<1>1. TypeOK /\ Places
  BY DEF IInv
<1>2. ASSUME NEW c \in Callback, NEW f \in Feed, NEW n \in Item, Signal(c, f, n)
      PROVE  Countable'
  <2>1. sent' = sent \cup {n} /\ cb'[c].took = {} /\ \A d \in Callback : d # c => cb'[d] = cb[d]
    BY <1>1, <1>2, SignalFacts, SignalHolds
  <2>2. QED
    BY <2>1, FS_AddElement DEF Countable
<1>3. ASSUME NEW c \in Callback, Check(c) \/ Take(c) \/ Push(c) \/ PushFails(c) \/ CountBack(c)
      PROVE  Countable'
  <2>1. sent' = sent /\ cb[c].at # "idle" /\ \A d \in Callback : d # c => cb'[d] = cb[d]
    BY <1>1, <1>3, CallbackMoves DEF Check, Take, Push, PushFails, CountBack
  <2>2. CASE Take(c)
    <3>1. owed[cb[c].feed] \in SUBSET Item /\ cb[c].item \in Holds(c)
      BY <1>1, <2>1, DoingFacts DEF Holds, StandsFor
    <3>2. cb'[c].took = owed[cb[c].feed] /\ cb'[c].item = cb[c].item
      BY <1>1, <2>2, <3>1, GotoFacts DEF Take
    <3>3. cb[c].item \notin owed[cb[c].feed]
      BY <2>1, <3>1 DEF IInv, HeldOnce, HolderApart, Apart
    <3>4. QED
      BY <2>1, <3>2, <3>3 DEF Countable
  <2>3. CASE Return(c)
    BY <1>1, <2>1, <2>3, ReturnFacts, IdleFacts DEF Countable
  <2>4. CASE Goto(c, "take", {})
    BY <1>1, <2>1, <2>4, GotoFacts DEF Countable
  <2>5. CASE Goto(c, "countback", cb[c].took)
    BY <1>1, <2>1, <2>5, GotoFacts, DoingFacts DEF Countable
  <2>6. QED
    BY <1>3, <2>2, <2>3, <2>4, <2>5 DEF Check, Push, PushFails, CountBack
<1>4. CASE UNCHANGED <<sent, cb>>
  BY <1>4 DEF Countable
<1>5. QED
  BY <1>2, <1>3, <1>4, Steps, PhaseStep DEF Dispatch, Discard, vars

\* What is counted is finite, wherever it is.
LEMMA CountedIsFinite ==
  ASSUME IInv, Countable
  PROVE  /\ \A f \in Feed : /\ IsFiniteSet(owed[f]) /\ IsFiniteSet(told[f])
                            /\ \A i \in DOMAIN queue[f] : IsFiniteSet(queue[f][i])
         /\ \A c \in Callback : IsFiniteSet(cb[c].took)
<1>1. \A S \in SUBSET sent : IsFiniteSet(S)
  BY FS_Subset DEF Countable
<1>2. \A f \in Feed : /\ owed[f] \in SUBSET sent /\ told[f] \in SUBSET sent
                      /\ \A i \in DOMAIN queue[f] : queue[f][i] \in SUBSET sent
  BY DEF IInv, AllSent
<1>3. \A c \in Callback : cb[c].took \in SUBSET sent
  BY IdleFacts DEF IInv, Places, AllSent, Holds, StandsFor
<1>4. QED
  BY <1>1, <1>2, <1>3

LEMMA CallbackCounts ==
  ASSUME IInv, Countable, NEW c \in Callback  PROVE  CountsAsInteger(c)
<1> DEFINE f == cb[c].feed
<1>1. TypeOK /\ Places /\ IsFiniteSet(cb[c].took)
  BY CountedIsFinite DEF IInv
<1>2. ASSUME cb[c].at # "idle"
      PROVE  /\ f \in Feed /\ owed[f] \in SUBSET Item /\ IsFiniteSet(owed[f])
             /\ queue[f] \in Seq(SUBSET Item) /\ StandsFor(c) \in SUBSET Item
             /\ cb[c].item \notin cb[c].took /\ Apart(StandsFor(c), owed[f])
  BY <1>1, <1>2, CountedIsFinite, DoingFacts
     DEF Countable, IInv, HeldOnce, HolderApart, Holds, Apart
<1>3. ASSUME Take(c)
      PROVE  cb'[c].took = owed[f] /\ owed'[f] = {}
  BY <1>1, <1>2, <1>3, GotoFacts DEF Take, TypeOK
<1>4. cb[c].at # "idle" =>
        IsFiniteSet(StandsFor(c)) /\ Cardinality(StandsFor(c)) = Cardinality(cb[c].took) + 1
  BY <1>1, <1>2, FS_AddElement DEF StandsFor
<1>5. ASSUME Push(c)
      PROVE  queue'[f][Len(queue[f]) + 1] = StandsFor(c)
  <2>1. queue'[f] = Append(queue[f], StandsFor(c)) /\ cb[c].at # "idle"
    BY <1>1, <1>2, <1>5 DEF Push, TypeOK
  <2>2. QED
    BY <1>2, <2>1, AppendFacts
<1>6. ASSUME CountBack(c)
      PROVE  Cardinality(owed'[f]) = Cardinality(owed[f]) + Cardinality(cb[c].took) + 1
  <2>1. cb[c].at # "idle" /\ owed'[f] = owed[f] \cup StandsFor(c)
    BY <1>1, <1>2, <1>6 DEF CountBack, TypeOK
  <2>2. owed[f] \cap StandsFor(c) = {}
    BY <1>2, <2>1 DEF Apart
  <2>3. Cardinality(owed'[f]) = Cardinality(owed[f]) + Cardinality(StandsFor(c)) - 0
    BY <1>2, <1>4, <2>1, <2>2, FS_Union, FS_EmptySet
  <2>4. Cardinality(owed[f]) \in Nat /\ Cardinality(cb[c].took) \in Nat
    BY <1>1, <1>2, <2>1, FS_CardinalityType
  <2> HIDE DEF f
  <2>5. QED
    BY <1>4, <2>1, <2>3, <2>4
<1>7. Push(c) => cb[c].at # "idle"
  BY DEF Push
<1>8. QED
  BY <1>3, <1>4, <1>5, <1>6, <1>7, FS_EmptySet DEF CountsAsInteger

LEMMA ListenerCounts ==
  ASSUME IInv, Countable, NEW f \in Feed  PROVE  TellsAsInteger(f)
<1> SUFFICES ASSUME Dispatch(f)
             PROVE  Cardinality(told'[f]) = Cardinality(told[f]) + Cardinality(Head(queue[f]))
  BY DEF TellsAsInteger
<1>1. queue[f] \in Seq(SUBSET Item) /\ queue[f] # <<>> /\ told'[f] = told[f] \cup Head(queue[f])
  BY DEF Dispatch, IInv, TypeOK
<1>2. 1 \in DOMAIN queue[f] /\ Head(queue[f]) = queue[f][1]
  BY <1>1, TailFacts
<1>3. told[f] \cap Head(queue[f]) = {} /\ IsFiniteSet(told[f]) /\ IsFiniteSet(Head(queue[f]))
  BY <1>2, CountedIsFinite DEF IInv, HeldOnce, QueueApart, Apart
<1>4. Cardinality(told'[f]) = Cardinality(told[f]) + Cardinality(Head(queue[f])) - 0
  BY <1>1, <1>3, FS_Union, FS_EmptySet
<1>5. Cardinality(told[f]) \in Nat /\ Cardinality(Head(queue[f])) \in Nat
  BY <1>3, FS_CardinalityType
<1>6. QED
  BY <1>4, <1>5

\* An integer in place of each set would take the same values: a callback takes all
\* of the counter and leaves none, its event stands for what it took and one more, so
\* much it adds back, and listeners are told as many as the event says.
THEOREM ItemsCountAsIntegers ==
  Spec => [][/\ \A c \in Callback : CountsAsInteger(c)
             /\ \A f \in Feed : TellsAsInteger(f)]_vars
<1>1. Init => Countable
  BY FS_EmptySet, IdleFacts DEF Init, Countable
<1>2. IInv /\ Countable /\ [Next]_vars => Countable'
  BY CountableStep
<1>3. IInv /\ Countable =>
        (\A c \in Callback : CountsAsInteger(c)) /\ \A f \in Feed : TellsAsInteger(f)
  BY CallbackCounts, ListenerCounts
<1>4. QED
  BY <1>1, <1>2, <1>3, Invariant, PTL DEF Spec

-----------------------------------------------------------------------------
(* That a close waits for finitely many steps.                              *)

\* How many steps a callback has before it, at most, and how many a feed.
Left == [check |-> 4, take |-> 3, push |-> 2, countback |-> 1, idle |-> 0]
PhasesLeft == [absent |-> 5, open |-> 4, closing |-> 3, closed |-> 2, off |-> 1, done |-> 0]

\* A callback is started by Ceph, on a feed it has registered and for an item that it
\* never reported before.
Started(c) ==
  /\ cb[c].at = "idle" /\ cb'[c].at = "check"
  /\ cb'[c].feed \in registered /\ cb'[c].item \in sent' \ sent

\* From there it only comes nearer to its end, and so does a feed: no failed push,
\* silenced log or second close brings either back.
FeedsAdvance ==
  [][/\ sent \subseteq sent'
     /\ \A c \in Callback :
          cb'[c] = cb[c] \/ Started(c) \/ Left[cb'[c].at] < Left[cb[c].at]
     /\ \A f \in Feed :
          phase'[f] = phase[f] \/ PhasesLeft[phase'[f]] < PhasesLeft[phase[f]]]_vars

LEMMA LeftFacts ==
  /\ Left["check"] = 4 /\ Left["take"] = 3 /\ Left["push"] = 2
  /\ Left["countback"] = 1 /\ Left["idle"] = 0
BY DEF Left

LEMMA PhasesLeftFacts ==
  /\ PhasesLeft["absent"] = 5 /\ PhasesLeft["open"] = 4 /\ PhasesLeft["closing"] = 3
  /\ PhasesLeft["closed"] = 2 /\ PhasesLeft["off"] = 1 /\ PhasesLeft["done"] = 0
BY DEF PhasesLeft

\* A step of a callback is one step less.
LEMMA CallbackAdvances ==
  ASSUME TypeOK, Places, NEW c \in Callback, CallbackStep(c)
  PROVE  Left[cb'[c].at] < Left[cb[c].at]
<1>1. CASE Check(c)
  <2>1. cb[c].at = "check" /\ cb'[c].at \in {"idle", "take"}
    BY <1>1, ReturnFacts, GotoFacts, IdleFacts DEF Check
  <2>2. QED
    BY <2>1, LeftFacts
<1>2. CASE Take(c)
  <2>1. cb[c].at = "take" /\ owed[cb[c].feed] \in SUBSET Item
    BY <1>2, DoingFacts DEF Take
  <2>2. cb'[c].at = "push"
    BY <1>2, <2>1, GotoFacts DEF Take
  <2>3. QED
    BY <2>1, <2>2, LeftFacts
<1>3. CASE Push(c)
  <2>1. cb[c].at = "push" /\ cb'[c].at = "idle"
    BY <1>3, ReturnFacts, IdleFacts DEF Push
  <2>2. QED
    BY <2>1, LeftFacts
<1>4. CASE PushFails(c)
  <2>1. cb[c].at = "push" /\ cb'[c].at = "countback"
    BY <1>4, GotoFacts, DoingFacts DEF PushFails
  <2>2. QED
    BY <2>1, LeftFacts
<1>5. CASE CountBack(c)
  <2>1. cb[c].at = "countback" /\ cb'[c].at = "idle"
    BY <1>5, ReturnFacts, IdleFacts DEF CountBack
  <2>2. QED
    BY <2>1, LeftFacts
<1>6. QED
  BY <1>1, <1>2, <1>3, <1>4, <1>5 DEF CallbackStep

\* A feed that changes its phase has fewer to come.
LEMMA PhaseAdvances ==
  ASSUME TypeOK, NEW f \in Feed,
         Create(f) \/ CreateFails(f) \/ JsClose(f) \/ CloseStep(f)
  PROVE  /\ PhasesLeft[phase'[f]] < PhasesLeft[phase[f]]
         /\ \A g \in Feed : g # f => phase'[g] = phase[g]
<1>1. \/ phase[f] = "absent" /\ phase'[f] \in {"open", "done"}
      \/ phase[f] = "open" /\ phase'[f] = "closing"
      \/ phase[f] = "closing" /\ phase'[f] = "closed"
      \/ phase[f] = "closed" /\ phase'[f] = "off"
      \/ phase[f] = "off" /\ phase'[f] = "done"
  BY DEF TypeOK, Create, CreateFails, MayCreate, JsClose, CloseStep, Exchange, Unregister, Release
<1>2. \A g \in Feed : g # f => phase'[g] = phase[g]
  BY DEF TypeOK, Create, CreateFails, JsClose, CloseStep, Exchange, Unregister, Release
<1>3. QED
  BY <1>1, <1>2, PhasesLeftFacts

\* events.cpp:172-180, 269-278.  What a close waits for in Ceph is finite for finitely
\* many items: a callback in flight comes to its end, another needs an item of its own.
\* For any feeds, threads and queue size, subscribed one at a time or not.
THEOREM CloseWaitIsFinite == Spec => FeedsAdvance
<1> DEFINE Advances ==
      /\ sent \subseteq sent'
      /\ \A c \in Callback :
           cb'[c] = cb[c] \/ Started(c) \/ Left[cb'[c].at] < Left[cb[c].at]
      /\ \A f \in Feed :
           phase'[f] = phase[f] \/ PhasesLeft[phase'[f]] < PhasesLeft[phase[f]]
<1>1. ASSUME IInv, [Next]_vars PROVE Advances
  <2>1. TypeOK /\ Places
    BY <1>1 DEF IInv
  <2>2. ASSUME NEW c \in Callback, CallbackStep(c) PROVE Advances
    <3>1. UNCHANGED <<sent, phase>> /\ \A d \in Callback : d # c => cb'[d] = cb[d]
      BY <2>1, <2>2, CallbackMoves DEF CallbackStep
    <3>2. Left[cb'[c].at] < Left[cb[c].at]
      BY <2>1, <2>2, CallbackAdvances
    <3>3. QED
      BY <3>1, <3>2
  <2>3. ASSUME NEW c \in Callback, NEW f \in Feed, NEW n \in Item, Signal(c, f, n)
        PROVE  Advances
    <3>1. UNCHANGED phase /\ sent' = sent \cup {n} /\ n \notin sent /\ f \in registered
          /\ cb[c].at = "idle"
      BY <2>3 DEF Signal
    <3>2. cb'[c].at = "check" /\ cb'[c].feed = f /\ cb'[c].item = n
          /\ \A d \in Callback : d # c => cb'[d] = cb[d]
      BY <2>1, <2>3, SignalFacts
    <3>3. Started(c)
      BY <3>1, <3>2 DEF Started
    <3>4. QED
      BY <3>1, <3>2, <3>3
  <2>4. ASSUME NEW f \in Feed, Create(f) \/ CreateFails(f) \/ JsClose(f) \/ CloseStep(f)
        PROVE  Advances
    <3>1. UNCHANGED <<sent, cb>>
      BY <2>4, PhaseStep
    <3>2. QED
      BY <2>1, <2>4, <3>1, PhaseAdvances
  <2>5. ASSUME NEW f \in Feed, EventLoop(f) PROVE Advances
    BY <2>5 DEF EventLoop, Dispatch, Discard
  <2>6. CASE UNCHANGED vars
    BY <2>6 DEF vars
  <2>7. QED
    BY <1>1, <2>2, <2>3, <2>4, <2>5, <2>6 DEF Next
<1>2. IInv /\ [Next]_vars => [Advances]_vars
  BY <1>1
<1>3. QED
  BY <1>2, Invariant, PTL DEF Spec, FeedsAdvance

-----------------------------------------------------------------------------
(* Where items go: with FeedsAdvance and UnseenQueued, what SignalSeen needs  *)
(* beyond fairness.                                                           *)

\* A queued event keeps its place, moves up by one, or is dispatched, from the first
\* place: to the listeners, or to nobody once close() was called.
EventsGoOn(f) ==
  \A i \in DOMAIN queue[f] :
    \/ i \in DOMAIN queue'[f] /\ queue'[f][i] = queue[f][i]
    \/ i - 1 \in DOMAIN queue'[f] /\ queue'[f][i - 1] = queue[f][i]
    \/ i = 1 /\ queue[f][1] \subseteq IF JsClosed(f) THEN unheard'[f] ELSE told'[f]

\* What a feed counts leaves its counter with a callback that is about to push it.
OwedGoesOn(f) ==
  \/ owed[f] \subseteq owed'[f]
  \/ \E c \in Callback : cb'[c].at = "push" /\ cb'[c].feed = f /\ owed[f] \subseteq cb'[c].took

\* What a callback stands for stays with it, is dropped by its check of a closed feed,
\* or is queued or counted as it returns.
ReturnsWith(c) ==
  cb[c].at # "idle" =>
    LET f == cb[c].feed IN
      \/ cb'[c].at # "idle" /\ cb'[c].feed = f /\ StandsFor(c) \subseteq StandsFor(c)'
      \/ DataClosed(f) /\ cb[c].at = "check"
      \/ \E i \in DOMAIN queue'[f] : queue'[f][i] = StandsFor(c)
      \/ StandsFor(c) \subseteq owed'[f]

FeedGoesOn(f) ==
  /\ EventsGoOn(f) /\ OwedGoesOn(f)
  /\ told[f] \subseteq told'[f] /\ unheard[f] \subseteq unheard'[f]

ItemsGoOn == [][(\A f \in Feed : FeedGoesOn(f)) /\ \A c \in Callback : ReturnsWith(c)]_vars

LEMMA CallbackPasses ==
  ASSUME TypeOK, Places, NEW c \in Callback, CallbackStep(c)
  PROVE  ReturnsWith(c)
<1>1. CASE Check(c)
  <2>1. CASE DataClosed(cb[c].feed)
    BY <1>1, <2>1 DEF Check, ReturnsWith
  <2>2. CASE ~DataClosed(cb[c].feed)
    <3>1. cb[c].at = "check" /\ cb[c].took = {}
      BY <1>1 DEF Check, Places
    <3>2. cb'[c].at = "take" /\ cb'[c].feed = cb[c].feed /\ cb'[c].item = cb[c].item
      BY <1>1, <2>2, GotoFacts DEF Check
    <3>3. QED
      BY <3>1, <3>2 DEF ReturnsWith, StandsFor
  <2>3. QED
    BY <2>1, <2>2
<1>2. CASE Take(c)
  <2>1. cb[c].at = "take" /\ cb[c].took = {} /\ owed[cb[c].feed] \in SUBSET Item
    BY <1>2, DoingFacts DEF Take, Places
  <2>2. cb'[c].at = "push" /\ cb'[c].feed = cb[c].feed /\ cb'[c].item = cb[c].item
    BY <1>2, <2>1, GotoFacts DEF Take
  <2>3. QED
    BY <2>1, <2>2 DEF ReturnsWith, StandsFor
<1>3. CASE Push(c)
  <2>1. /\ cb[c].feed \in Feed /\ StandsFor(c) \in SUBSET Item
        /\ queue[cb[c].feed] \in Seq(SUBSET Item)
    BY <1>3, DoingFacts DEF Push
  <2>2. queue'[cb[c].feed] = Append(queue[cb[c].feed], StandsFor(c))
    BY <1>3, <2>1 DEF Push, TypeOK
  <2>3. QED
    BY <2>1, <2>2, AppendFacts DEF ReturnsWith
<1>4. CASE PushFails(c)
  <2>1. cb[c].took \in SUBSET Item
    BY DoingFacts
  <2>2. /\ cb'[c].at = "countback" /\ cb'[c].took = cb[c].took
        /\ cb'[c].feed = cb[c].feed /\ cb'[c].item = cb[c].item
    BY <1>4, <2>1, GotoFacts DEF PushFails
  <2>3. QED
    BY <2>2 DEF ReturnsWith, StandsFor
<1>5. CASE CountBack(c)
  <2>1. cb[c].feed \in Feed
    BY <1>5, DoingFacts DEF CountBack
  <2>2. QED
    BY <1>5, <2>1 DEF CountBack, ReturnsWith, TypeOK
<1>6. QED
  BY <1>1, <1>2, <1>3, <1>4, <1>5 DEF CallbackStep

\* A step of a callback only adds to the queues, and takes a counter to push it.
LEMMA CallbackFeeds ==
  ASSUME TypeOK, Places, NEW c \in Callback, CallbackStep(c), NEW f \in Feed
  PROVE  FeedGoesOn(f)
<1>1. UNCHANGED <<told, unheard>> /\ cb[c].at # "idle" /\ cb[c].feed \in Feed
  BY CallbackMoves, DoingFacts DEF CallbackStep
<1>2. EventsGoOn(f)
  <2>1. CASE Push(c)
    <3>1. /\ StandsFor(c) \in SUBSET Item /\ queue[f] \in Seq(SUBSET Item)
          /\ queue'[f] = IF f = cb[c].feed THEN Append(queue[f], StandsFor(c)) ELSE queue[f]
      BY <1>1, <2>1, DoingFacts DEF Push, TypeOK
    <3>2. QED
      BY <3>1, AppendFacts DEF EventsGoOn
  <2>2. CASE UNCHANGED queue
    BY <2>2 DEF EventsGoOn
  <2>3. QED
    BY <2>1, <2>2 DEF CallbackStep, Check, Take, PushFails, CountBack
<1>3. OwedGoesOn(f)
  <2>1. CASE Take(c)
    <3>1. /\ cb'[c].at = "push" /\ cb'[c].feed = cb[c].feed /\ cb'[c].took = owed[cb[c].feed]
          /\ f # cb[c].feed => owed'[f] = owed[f]
      BY <1>1, <2>1, DoingFacts, GotoFacts DEF Take, TypeOK
    <3>2. QED
      BY <3>1 DEF OwedGoesOn
  <2>2. CASE CountBack(c)
    BY <1>1, <2>2 DEF CountBack, OwedGoesOn, TypeOK
  <2>3. CASE UNCHANGED owed
    BY <2>3 DEF OwedGoesOn
  <2>4. QED
    BY <2>1, <2>2, <2>3 DEF CallbackStep, Check, Push, PushFails
<1>4. QED
  BY <1>1, <1>2, <1>3 DEF FeedGoesOn

\* A dispatch takes the first event of its feed.
LEMMA DispatchFeeds ==
  ASSUME TypeOK, NEW g \in Feed, EventLoop(g), NEW f \in Feed
  PROVE  FeedGoesOn(f)
<1>1. UNCHANGED owed /\ queue[g] # <<>>
  BY DEF EventLoop, Dispatch, Discard
<1>2. CASE f # g
  BY <1>1, <1>2 DEF EventLoop, Dispatch, Discard, TypeOK, FeedGoesOn, EventsGoOn, OwedGoesOn
<1>3. CASE f = g
  <2>1. queue[f] \in Seq(SUBSET Item) /\ queue'[f] = Tail(queue[f])
    BY <1>3 DEF EventLoop, Dispatch, Discard, TypeOK
  <2>2. \A i \in DOMAIN queue[f] :
          i # 1 => i - 1 \in DOMAIN queue'[f] /\ queue'[f][i - 1] = queue[f][i]
    BY <1>1, <1>3, <2>1, TailFacts
  <2>3. /\ told'[f] = IF JsClosed(f) THEN told[f] ELSE told[f] \cup Head(queue[f])
        /\ unheard'[f] = IF JsClosed(f) THEN unheard[f] \cup Head(queue[f]) ELSE unheard[f]
    BY <1>3 DEF EventLoop, Dispatch, Discard, TypeOK
  <2>4. Head(queue[f]) = queue[f][1]
    BY <1>1, <1>3, <2>1, TailFacts
  <2>5. QED
    BY <1>1, <2>2, <2>3, <2>4 DEF FeedGoesOn, EventsGoOn, OwedGoesOn
<1>4. QED
  BY <1>2, <1>3

\* events.cpp:183-210, 281-294.  From Ceph to the listeners no item is
\* set back: its callback queues or counts it, a counter goes with the next callback that
\* gets to push, the queue keeps its order, and only a close drops anything.
THEOREM ItemsOnlyGoOn == Spec => ItemsGoOn
<1> DEFINE Each == (\A f \in Feed : FeedGoesOn(f)) /\ \A c \in Callback : ReturnsWith(c)
<1>1. ASSUME IInv, [Next]_vars PROVE Each
  <2>1. TypeOK /\ Places
    BY <1>1 DEF IInv
  <2>2. ASSUME NEW c \in Callback, cb'[c] = cb[c] PROVE ReturnsWith(c)
    BY <2>2 DEF ReturnsWith, StandsFor
  <2>3. ASSUME NEW c \in Callback, CallbackStep(c) PROVE Each
    <3>1. \A d \in Callback : d # c => cb'[d] = cb[d]
      BY <2>1, <2>3, CallbackMoves DEF CallbackStep
    <3>2. QED
      BY <2>1, <2>2, <2>3, <3>1, CallbackPasses, CallbackFeeds
  <2>4. ASSUME UNCHANGED <<queue, owed, told, unheard>>, NEW f \in Feed PROVE FeedGoesOn(f)
    BY <2>4 DEF FeedGoesOn, EventsGoOn, OwedGoesOn
  <2>5. ASSUME NEW c \in Callback, NEW f \in Feed, NEW n \in Item, Signal(c, f, n) PROVE Each
    <3>1. UNCHANGED <<queue, owed, told, unheard>> /\ cb[c].at = "idle"
      BY <2>5 DEF Signal
    <3>2. \A d \in Callback : d # c => cb'[d] = cb[d]
      BY <2>1, <2>5, SignalFacts
    <3>3. ReturnsWith(c)
      BY <3>1 DEF ReturnsWith
    <3>4. QED
      BY <2>2, <2>4, <3>1, <3>2, <3>3
  <2>6. ASSUME NEW f \in Feed, EventLoop(f) PROVE Each
    <3>1. UNCHANGED cb
      BY <2>6 DEF EventLoop, Dispatch, Discard
    <3>2. QED
      BY <2>1, <2>2, <2>6, <3>1, DispatchFeeds
  <2>7. ASSUME NEW f \in Feed, Create(f) \/ CreateFails(f) \/ JsClose(f) \/ CloseStep(f)
        PROVE  Each
    BY <2>2, <2>4, <2>7, PhaseStep
  <2>8. CASE UNCHANGED vars
    BY <2>2, <2>4, <2>8 DEF vars
  <2>9. QED
    BY <1>1, <2>3, <2>5, <2>6, <2>7, <2>8 DEF Next
<1>2. IInv /\ [Next]_vars => [Each]_vars
  BY <1>1
<1>3. QED
  BY <1>2, Invariant, PTL DEF Spec, ItemsGoOn
=============================================================================
