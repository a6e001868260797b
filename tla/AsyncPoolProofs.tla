--------------------------- MODULE AsyncPoolProofs ---------------------------
(***************************************************************************)
(* AsyncPool, for every number of workers and calls: its types, that a     *)
(* notify times out only when notifies hold every worker, that a close     *)
(* that ran and has resolved has closed, that the teardown of the README   *)
(* meets no EBUSY, that every pending promise has its job somewhere, once, *)
(* that jobs and notifications only go on, and that nobody waits in vain   *)
(* but notifies that hold every worker.                                    *)
(*                                                                         *)
(* What a notify waits for must be somewhere: Acks keeps each              *)
(* acknowledgement in the pool's queue until it is done, and Unwatching    *)
(* each close of the watch in the queue or on a worker.                    *)
(***************************************************************************)
EXTENDS AsyncPool, QueueFacts, TLAPS

Jobs == Entries(queue)

Acks == \A n \in Notify : note[n] = "acking" => [do |-> "ack", of |-> n] \in Jobs

Unwatching ==
  jsClosed /\ watched =>
    (\E j \in Jobs : j.do = "unwatch") \/ (\E w \in Worker : Is(w, "unwatch"))

Flags ==
  /\ closed => jsClosed
  /\ \A j \in Jobs : j.do = "unwatch" => jsClosed
  /\ \A w \in Worker : Is(w, "destroy") => ~watched
  /\ ioClosed => ~watched
  /\ \A n \in Notify : note[n] = "lost" /\ watched => jsClosed
  /\ \A w \in Worker : Is(w, "notify") => note[running[w].of] # "none"

IInv == TypeOK /\ Acks /\ Unwatching /\ Flags

\* A job and an outcome belong to a call that was made.
Begun ==
  /\ \A j \in Jobs : j.do # "ack" => promise[j.of] # "none"
  /\ \A w \in Worker : ~Free(w) => promise[running[w].of] # "none"
  /\ \A c \in Call : outcome[c] # "none" => promise[c] # "none"

\* What an outcome says of the watch and of the context.
Ended ==
  /\ \A c \in WatchClose : outcome[c] # "none" => ~watched
  /\ \A c \in IoClose : outcome[c] = "ok" => ioClosed
  /\ ioClosed => ~Held
  /\ \A c \in awaited : ~watched /\ outcome[c] \in {"none", "ok"}

Settled ==
  /\ \A c \in IoClose : promise[c] = "resolved" => ioClosed
  /\ TeardownSucceeds

CInv == IInv /\ Begun /\ Ended /\ Settled

-----------------------------------------------------------------------------
LEMMA JobFacts ==
  /\ None \notin Job /\ Holding \subseteq Job
  /\ \A j \in Job : /\ j.of \in Call
                    /\ j.do \in {"notify", "ack"} => j.of \in Notify
                    /\ j.do = "unwatch" => j.of \in WatchClose
                    /\ j.do = "destroy" => j.of \in IoClose
                    /\ j.do # "ack" => j \in Holding
                    /\ j = [do |-> j.do, of |-> j.of]
  /\ \A n \in Notify : [do |-> "notify", of |-> n] \in Job /\ [do |-> "ack", of |-> n] \in Job
  /\ \A c \in WatchClose : [do |-> "unwatch", of |-> c] \in Job
  /\ \A c \in IoClose : [do |-> "destroy", of |-> c] \in Job
BY CallAssumption DEF Job, Holding, Call

\* A job that is queued is added; a job that is started is the first one.
LEMMA Queues ==
  ASSUME TypeOK, NEW do, NEW c, [do |-> do, of |-> c] \in Job, Enqueue(do, c)
  PROVE  queue' \in Seq(Job) /\ Jobs' = Jobs \cup {[do |-> do, of |-> c]}
BY AppendEntries DEF TypeOK, Enqueue, Jobs

LEMMA Starts ==
  ASSUME TypeOK, queue # <<>>, queue' = Tail(queue)
  PROVE  /\ queue' \in Seq(Job) /\ Head(queue) \in Job
         /\ Jobs = Jobs' \cup {Head(queue)}
BY TailEntries DEF TypeOK, Jobs

\* What a worker holds.
LEMMA HeldFacts ==
  ASSUME TypeOK, NEW w \in Worker, ~Free(w)
  PROVE  /\ running[w] \in Holding /\ running[w] \in Job
         /\ running[w].of \in Call
         /\ \E do \in {"notify", "unwatch", "destroy"} : Is(w, do)
         /\ Is(w, "notify") => running[w].of \in Notify
         /\ Is(w, "unwatch") => running[w].of \in WatchClose
         /\ Is(w, "destroy") => running[w].of \in IoClose
BY JobFacts DEF TypeOK, Free, Is, Holding

\* Every step is one of these.
LEMMA Steps ==
  ASSUME [Next]_vars
  PROVE  \/ \E w \in Worker : Step(w)
         \/ \E n \in Notify : CallNotify(n) \/ Dispatch(n) \/ Deliver(n)
         \/ \E c \in WatchClose : CallWatchClose(c) \/ CloseWatchAgain(c)
         \/ \E c \in IoClose : CallIoClose(c)
         \/ \E c \in Call : Settle(c)
         \/ UNCHANGED vars
BY DEF Next

-----------------------------------------------------------------------------
LEMMA TypeStep == TypeOK /\ [Next]_vars => TypeOK'
<1> SUFFICES ASSUME TypeOK, [Next]_vars PROVE TypeOK'
  OBVIOUS
<1> USE JobFacts
<1>1. ASSUME NEW w \in Worker, StartNotify(w) PROVE TypeOK'
  BY <1>1, Starts DEF StartNotify, Take, Free, NextIs, TypeOK, watch
<1>2. ASSUME NEW w \in Worker, RefuseNotify(w) PROVE TypeOK'
  BY <1>2, Starts DEF RefuseNotify, Done, NextIs, TypeOK, watch
<1>3. ASSUME NEW w \in Worker, Answer(w) \/ TimeOut(w) PROVE TypeOK'
  BY <1>3, HeldFacts DEF Answer, TimeOut, Done, Is, Free, TypeOK, watch
<1>4. ASSUME NEW w \in Worker, RunAck(w) PROVE TypeOK'
  BY <1>4, Starts DEF RunAck, NextIs, TypeOK, watch
<1>5. ASSUME NEW w \in Worker, StartUnwatch(w) PROVE TypeOK'
  BY <1>5, Starts DEF StartUnwatch, Take, NextIs, TypeOK
<1>6. ASSUME NEW w \in Worker, EndUnwatch(w) \/ EndDestroy(w) PROVE TypeOK'
  <2>1. running[w].of \in Call
    BY <1>6, HeldFacts DEF EndUnwatch, EndDestroy, Is, Free
  <2>2. CASE EndUnwatch(w)
    <3>1. PICK result \in {"ok", "code"} : Done(running[w].of, result)
      BY <2>2 DEF EndUnwatch
    <3> QED
      BY <2>1, <2>2, <3>1 DEF EndUnwatch, Done, TypeOK
  <2>3. CASE EndDestroy(w)
    BY <2>1, <2>3 DEF EndDestroy, Done, TypeOK, watch
  <2> QED
    BY <1>6, <2>2, <2>3
<1>7. ASSUME NEW w \in Worker, StartDestroy(w) PROVE TypeOK'
  BY <1>7, Starts DEF StartDestroy, Take, Done, NextIs, TypeOK, watch
<1>8. ASSUME NEW n \in Notify, CallNotify(n) \/ Dispatch(n) \/ Deliver(n) PROVE TypeOK'
  BY <1>8, Queues DEF CallNotify, QueueAndGetPromise, Dispatch, Deliver, TypeOK, watch, Call
<1>9. ASSUME NEW c \in WatchClose, CallWatchClose(c) \/ CloseWatchAgain(c) PROVE TypeOK'
  BY <1>9, Queues DEF CallWatchClose, QueueAndGetPromise, CloseWatchAgain, TypeOK, watch, Call
<1>10. ASSUME NEW c \in IoClose, CallIoClose(c) PROVE TypeOK'
  BY <1>10, Queues DEF CallIoClose, QueueAndGetPromise, TypeOK, watch, Call
<1>11. ASSUME NEW c \in Call, Settle(c) PROVE TypeOK'
  BY <1>11 DEF Settle, TypeOK, watch
<1>12. CASE UNCHANGED vars
  BY <1>12 DEF vars, watch, TypeOK
<1> QED
  BY <1>1, <1>2, <1>3, <1>4, <1>5, <1>6, <1>7, <1>8, <1>9, <1>10, <1>11, <1>12, Steps DEF Step

-----------------------------------------------------------------------------
\* The acknowledgement of a delivered notification stays queued until it runs.
LEMMA AcksStep == TypeOK /\ Acks /\ [Next]_vars => Acks'
<1> SUFFICES ASSUME TypeOK, Acks, [Next]_vars PROVE Acks'
  OBVIOUS
<1>1. ASSUME NEW w \in Worker, StartNotify(w) PROVE Acks'
  BY <1>1, Starts DEF StartNotify, Take, NextIs, Acks, TypeOK
<1>2. ASSUME NEW w \in Worker, RunAck(w) PROVE Acks'
  BY <1>2, Starts DEF RunAck, NextIs, Acks, TypeOK
<1>3. ASSUME NEW w \in Worker,
             RefuseNotify(w) \/ StartUnwatch(w) \/ StartDestroy(w)
      PROVE  Acks'
  BY <1>3, Starts DEF RefuseNotify, StartUnwatch, StartDestroy, Take, NextIs, Acks
<1>4. ASSUME NEW w \in Worker,
             Answer(w) \/ TimeOut(w) \/ EndUnwatch(w) \/ EndDestroy(w)
      PROVE  Acks'
  BY <1>4, Zenon DEF Answer, TimeOut, EndUnwatch, EndDestroy, Acks, Jobs
<1>5. ASSUME NEW n \in Notify, CallNotify(n) PROVE Acks'
  BY <1>5, Queues, JobFacts DEF CallNotify, QueueAndGetPromise, Acks
<1>6. ASSUME NEW n \in Notify, Dispatch(n) PROVE Acks'
  <2>1. CASE jsClosed
    BY <1>6, <2>1 DEF Dispatch, Acks, TypeOK, Jobs
  <2>2. CASE ~jsClosed
    <3>1. Jobs' = Jobs \cup {[do |-> "ack", of |-> n]}
      BY <1>6, <2>2, Queues, JobFacts DEF Dispatch
    <3>2. \A m \in Notify : m # n => note'[m] = note[m]
      BY <1>6, <2>2 DEF Dispatch, TypeOK
    <3> QED
      BY <3>1, <3>2, Zenon DEF Acks
  <2> QED
    BY <2>1, <2>2
<1>7. ASSUME NEW n \in Notify, Deliver(n) PROVE Acks'
  BY <1>7 DEF Deliver, Acks, TypeOK, Jobs
<1>8. ASSUME NEW c \in WatchClose, CallWatchClose(c) PROVE Acks'
  BY <1>8, Queues, JobFacts DEF CallWatchClose, QueueAndGetPromise, Acks
<1>9. ASSUME NEW c \in IoClose, CallIoClose(c) PROVE Acks'
  BY <1>9, Queues, JobFacts DEF CallIoClose, QueueAndGetPromise, Acks
<1>10. ASSUME NEW c \in Call, Settle(c) \/ CloseWatchAgain(c) PROVE Acks'
  BY <1>10, Zenon DEF Settle, CloseWatchAgain, Acks, Jobs
<1>11. CASE UNCHANGED vars
  BY <1>11, Zenon DEF vars, Acks, Jobs
<1> QED
  BY <1>1, <1>2, <1>3, <1>4, <1>5, <1>6, <1>7, <1>8, <1>9, <1>10, <1>11, Steps DEF Step, Call

\* A close of the watch is queued, or on a worker, until Ceph has unregistered it.
LEMMA UnwatchingStep == TypeOK /\ Unwatching /\ [Next]_vars => Unwatching'
<1> SUFFICES ASSUME TypeOK, Unwatching, [Next]_vars PROVE Unwatching'
  OBVIOUS
<1>1. ASSUME NEW w \in Worker, StartUnwatch(w) PROVE Unwatching'
  BY <1>1, Starts, JobFacts DEF StartUnwatch, Take, Is, NextIs, Free, Unwatching, TypeOK
<1>2. ASSUME NEW w \in Worker, EndUnwatch(w) PROVE Unwatching'
  BY <1>2 DEF EndUnwatch, Unwatching
<1>3. ASSUME NEW w \in Worker, RefuseNotify(w) \/ RunAck(w) PROVE Unwatching'
  BY <1>3, Starts DEF RefuseNotify, RunAck, NextIs, Unwatching, watch, Is
<1>4. ASSUME NEW w \in Worker, StartNotify(w) \/ StartDestroy(w) PROVE Unwatching'
  BY <1>4, Starts DEF StartNotify, StartDestroy, Take, NextIs, Free, Unwatching, watch, Is, TypeOK
<1>5. ASSUME NEW w \in Worker, Answer(w) \/ TimeOut(w) \/ EndDestroy(w) PROVE Unwatching'
  BY <1>5 DEF Answer, TimeOut, EndDestroy, Unwatching, watch, Is, TypeOK, Jobs
<1>6. ASSUME NEW n \in Notify, CallNotify(n) PROVE Unwatching'
  BY <1>6, Queues, JobFacts DEF CallNotify, QueueAndGetPromise, Unwatching, watch, Is
<1>7. ASSUME NEW n \in Notify, Dispatch(n) PROVE Unwatching'
  <2>1. Jobs \subseteq Jobs'
    BY <1>7, Queues, JobFacts DEF Dispatch, Jobs
  <2> QED
    BY <1>7, <2>1 DEF Dispatch, Unwatching, watch, Is
<1>8. ASSUME NEW n \in Notify, Deliver(n) PROVE Unwatching'
  BY <1>8 DEF Deliver, Unwatching, watch, Is, Jobs
<1>9. ASSUME NEW c \in WatchClose, CallWatchClose(c) PROVE Unwatching'
  BY <1>9, Queues, JobFacts DEF CallWatchClose, QueueAndGetPromise, Unwatching
<1>10. ASSUME NEW c \in IoClose, CallIoClose(c) PROVE Unwatching'
  BY <1>10, Queues, JobFacts DEF CallIoClose, QueueAndGetPromise, Unwatching, watch, Is
<1>11. ASSUME NEW c \in Call, Settle(c) \/ CloseWatchAgain(c) PROVE Unwatching'
  BY <1>11 DEF Settle, CloseWatchAgain, Unwatching, watch, Is, Jobs
<1>12. CASE UNCHANGED vars
  BY <1>12 DEF vars, Unwatching, watch, Is, Jobs
<1> QED
  BY <1>1, <1>2, <1>3, <1>4, <1>5, <1>6, <1>7, <1>8, <1>9, <1>10, <1>11, <1>12, Steps
     DEF Step, Call

\* The flags of a close only ever follow one another, and a notify that holds a
\* worker has been sent.
LEMMA FlagsStep == TypeOK /\ Flags /\ [Next]_vars => Flags'
<1> SUFFICES ASSUME TypeOK, Flags, [Next]_vars PROVE Flags'
  OBVIOUS
<1>1. ASSUME NEW w \in Worker, StartNotify(w) PROVE Flags'
  BY <1>1, Starts, JobFacts DEF StartNotify, Take, NextIs, Free, Is, Flags, TypeOK, watch
<1>2. ASSUME NEW w \in Worker, RefuseNotify(w) PROVE Flags'
  BY <1>2, Starts DEF RefuseNotify, NextIs, Flags, watch, Is
<1>3. ASSUME NEW w \in Worker, Answer(w) \/ TimeOut(w) PROVE Flags'
  BY <1>3 DEF Answer, TimeOut, Flags, watch, Is, TypeOK, Jobs
<1>4. ASSUME NEW w \in Worker, RunAck(w) PROVE Flags'
  BY <1>4, Starts, JobFacts, HeldFacts DEF RunAck, NextIs, Free, Flags, watch, Is, TypeOK
<1>5. ASSUME NEW w \in Worker, StartUnwatch(w) PROVE Flags'
  BY <1>5, Starts DEF StartUnwatch, Take, NextIs, Free, Is, Flags, TypeOK, Jobs, Entries
<1>6. ASSUME NEW w \in Worker, EndUnwatch(w) PROVE Flags'
  BY <1>6 DEF EndUnwatch, Flags, watch, Is, TypeOK, Jobs
<1>7. ASSUME NEW w \in Worker, StartDestroy(w) PROVE Flags'
  BY <1>7, Starts DEF StartDestroy, Take, NextIs, Free, Is, Flags, TypeOK, watch
<1>8. ASSUME NEW w \in Worker, EndDestroy(w) PROVE Flags'
  BY <1>8 DEF EndDestroy, Flags, watch, Is, TypeOK, Jobs
<1>9. ASSUME NEW n \in Notify, CallNotify(n) PROVE Flags'
  <2>1. Jobs' = Jobs \cup {[do |-> "notify", of |-> n]}
    BY <1>9, Queues, JobFacts DEF CallNotify, QueueAndGetPromise
  <2> QED
    BY <1>9, <2>1 DEF CallNotify, Flags, watch, Is
<1>10. ASSUME NEW n \in Notify, Dispatch(n) \/ Deliver(n) PROVE Flags'
  <2>1. Jobs' = Jobs \/ Jobs' = Jobs \cup {[do |-> "ack", of |-> n]}
    BY <1>10, Queues, JobFacts, Zenon DEF Dispatch, Deliver, Jobs
  <2>2. \A j \in Jobs' : j.do = "unwatch" => j \in Jobs
    BY <2>1
  <2> QED
    BY <1>10, <2>2, HeldFacts DEF Dispatch, Deliver, Flags, watch, Is, Free, TypeOK
<1>11. ASSUME NEW c \in WatchClose, CallWatchClose(c) PROVE Flags'
  BY <1>11, Queues, JobFacts DEF CallWatchClose, QueueAndGetPromise, Flags, Is
<1>12. ASSUME NEW c \in IoClose, CallIoClose(c) PROVE Flags'
  <2>1. Jobs' = Jobs \cup {[do |-> "destroy", of |-> c]}
    BY <1>12, Queues, JobFacts DEF CallIoClose, QueueAndGetPromise
  <2> QED
    BY <1>12, <2>1 DEF CallIoClose, Flags, watch, Is
<1>13. ASSUME NEW c \in Call, Settle(c) \/ CloseWatchAgain(c) PROVE Flags'
  BY <1>13 DEF Settle, CloseWatchAgain, Flags, watch, Is, Jobs
<1>14. CASE UNCHANGED vars
  BY <1>14 DEF vars, Flags, watch, Is, Jobs
<1> QED
  BY <1>1, <1>2, <1>3, <1>4, <1>5, <1>6, <1>7, <1>8, <1>9, <1>10, <1>11, <1>12, <1>13, <1>14,
     Steps DEF Step, Call

LEMMA InitIInv == Init => IInv
<1> SUFFICES ASSUME Init PROVE IInv
  OBVIOUS
<1>1. TypeOK
  <2>1. queue \in Seq(Job)
    BY DEF Init
  <2>2. running \in [Worker -> Holding \cup {None}]
    BY DEF Init
  <2> QED
    BY <2>1, <2>2 DEF Init, TypeOK
<1>2. Acks /\ Unwatching /\ Flags
  BY NoEntries DEF Init, Acks, Unwatching, Flags, Jobs, Is
<1> QED
  BY <1>1, <1>2 DEF IInv

LEMMA NextIInv == IInv /\ [Next]_vars => IInv'
BY TypeStep, AcksStep, UnwatchingStep, FlagsStep DEF IInv

THEOREM Invariant == Spec => []IInv
BY InitIInv, NextIInv, PTL DEF Spec

\* The variables keep their types.
THEOREM TypeCorrect == Spec => []TypeOK
<1>1. IInv => TypeOK
  BY DEF IInv
<1> QED
  BY <1>1, Invariant, PTL

-----------------------------------------------------------------------------
\* io_context.cpp:180.  Whatever the number of workers and of calls, a notify that
\* times out finds notifies on all of them: what it waits for would run on another.
THEOREM OnlyFullPoolsTimeOut == Spec => TimesOutOnlyWhenFull
<1>1. ASSUME IInv, NEW w \in Worker, TimeOut(w), NEW v \in Worker, ~Is(v, "notify")
      PROVE  FALSE
  <2>1. PICK n \in Notify : n = running[w].of
    BY <1>1, HeldFacts DEF IInv, TimeOut, Is, Free
  <2>2. watched /\ note[n] \in {"acking", "lost"}
    BY <1>1, <2>1 DEF IInv, TypeOK, Flags, TimeOut, Stuck, Answered
  <2>3. Free(v)
    BY <1>1, <2>2, HeldFacts DEF IInv, Flags, TimeOut, Stuck
  <2>4. Jobs = {}
    BY <1>1, <2>3, NoEntries DEF TimeOut, Stuck, Jobs
  <2>5. note[n] = "lost" /\ jsClosed
    BY <1>1, <2>2, <2>4 DEF IInv, Acks, Flags
  <2> QED
    BY <1>1, <2>2, <2>4, <2>5 DEF IInv, Unwatching, TimeOut, Stuck
<1>2. ASSUME [Next]_vars, timedOut' # timedOut PROVE \E w \in Worker : TimeOut(w)
  BY <1>2, Steps, Zenon
     DEF Step, StartNotify, RefuseNotify, Answer, RunAck, StartUnwatch, EndUnwatch, StartDestroy,
         EndDestroy, CallNotify, Dispatch, Deliver, CallWatchClose, CloseWatchAgain, CallIoClose,
         Settle, vars
<1>3. IInv /\ [Next]_vars => [timedOut' # timedOut => \A w \in Worker : Is(w, "notify")]_vars
  BY <1>1, <1>2, Zenon
<1> QED
  BY <1>3, Invariant, PTL DEF Spec, TimesOutOnlyWhenFull

-----------------------------------------------------------------------------
LEMMA BegunStep == TypeOK /\ Begun /\ [Next]_vars => Begun'
<1> SUFFICES ASSUME TypeOK, Begun, [Next]_vars PROVE Begun'
  OBVIOUS
<1> USE JobFacts
<1>1. ASSUME NEW w \in Worker, StartNotify(w) PROVE Begun'
  BY <1>1, Starts DEF StartNotify, Take, NextIs, Free, Begun, TypeOK, watch
<1>2. ASSUME NEW w \in Worker, RefuseNotify(w) PROVE Begun'
  BY <1>2, Starts DEF RefuseNotify, Done, NextIs, Free, Begun, TypeOK, watch
<1>3. ASSUME NEW w \in Worker, Answer(w) \/ TimeOut(w) PROVE Begun'
  BY <1>3, HeldFacts DEF Answer, TimeOut, Done, Is, Free, Begun, TypeOK, watch, Jobs
<1>4. ASSUME NEW w \in Worker, RunAck(w) PROVE Begun'
  BY <1>4, Starts DEF RunAck, NextIs, Free, Begun, watch
<1>5. ASSUME NEW w \in Worker, StartUnwatch(w) PROVE Begun'
  BY <1>5, Starts DEF StartUnwatch, Take, NextIs, Free, Begun, TypeOK
<1>6. ASSUME NEW w \in Worker, EndUnwatch(w) PROVE Begun'
  <2>1. PICK result \in {"ok", "code"} : Done(running[w].of, result)
    BY <1>6 DEF EndUnwatch
  <2> QED
    BY <1>6, <2>1, HeldFacts DEF EndUnwatch, Done, Is, Free, Begun, TypeOK, Jobs
<1>7. ASSUME NEW w \in Worker, StartDestroy(w) PROVE Begun'
  <2>1. CASE watched
    BY <1>7, <2>1, Starts DEF StartDestroy, Done, NextIs, Free, Begun, TypeOK, watch
  <2>2. CASE ~watched
    <3>1. Jobs = Jobs' \cup {Head(queue)} /\ Head(queue).do = "destroy"
      BY <1>7, <2>2, Starts DEF StartDestroy, Take, NextIs
    <3>2. \A v \in Worker : running'[v] \in {running[v], Head(queue)}
      BY <1>7, <2>2 DEF StartDestroy, Take, TypeOK
    <3>3. UNCHANGED <<outcome, promise, jsClosed>>
      BY <1>7, <2>2 DEF StartDestroy, watch
    <3> QED
      BY <3>1, <3>2, <3>3 DEF Free, Begun
  <2> QED
    BY <2>1, <2>2
<1>8. ASSUME NEW w \in Worker, EndDestroy(w) PROVE Begun'
  BY <1>8, HeldFacts DEF EndDestroy, Done, Is, Free, Begun, TypeOK, watch, Jobs
<1>9. ASSUME NEW n \in Notify, CallNotify(n) PROVE Begun'
  <2>1. Jobs' = Jobs \cup {[do |-> "notify", of |-> n]} /\ n \in Call
    BY <1>9, Queues DEF CallNotify, QueueAndGetPromise, Call
  <2> QED
    BY <1>9, <2>1 DEF CallNotify, QueueAndGetPromise, Free, Begun, TypeOK, watch
<1>10. ASSUME NEW n \in Notify, Dispatch(n) \/ Deliver(n) PROVE Begun'
  <2>1. Jobs' = Jobs \/ Jobs' = Jobs \cup {[do |-> "ack", of |-> n]}
    BY <1>10, Queues, Zenon DEF Dispatch, Deliver, Jobs
  <2> QED
    BY <1>10, <2>1 DEF Dispatch, Deliver, Free, Begun, watch
<1>11. ASSUME NEW c \in WatchClose, CallWatchClose(c) PROVE Begun'
  <2>1. Jobs' = Jobs \cup {[do |-> "unwatch", of |-> c]} /\ c \in Call
    BY <1>11, Queues DEF CallWatchClose, QueueAndGetPromise, Call
  <2> QED
    BY <1>11, <2>1 DEF CallWatchClose, QueueAndGetPromise, Free, Begun, TypeOK
<1>12. ASSUME NEW c \in IoClose, CallIoClose(c) PROVE Begun'
  <2>1. Jobs' = Jobs \cup {[do |-> "destroy", of |-> c]} /\ c \in Call
    BY <1>12, Queues DEF CallIoClose, QueueAndGetPromise, Call
  <2> QED
    BY <1>12, <2>1 DEF CallIoClose, QueueAndGetPromise, Free, Begun, TypeOK, watch
<1>13. ASSUME NEW c \in Call, Settle(c) \/ CloseWatchAgain(c) PROVE Begun'
  <2>1. \A d \in Call : promise[d] # "none" => promise'[d] # "none"
    BY <1>13 DEF Settle, CloseWatchAgain, TypeOK
  <2>2. UNCHANGED <<queue, running, outcome, jsClosed>>
    BY <1>13 DEF Settle, CloseWatchAgain, watch
  <2>3. (\A j \in Jobs : j.of \in Call) /\ WatchClose \subseteq Call
    BY DEF Jobs, Entries, TypeOK, Call
  <2> QED
    BY <2>1, <2>2, <2>3, HeldFacts DEF Free, Begun, Jobs
<1>14. CASE UNCHANGED vars
  BY <1>14 DEF vars, Begun, watch, Free, Jobs
<1> QED
  BY <1>1, <1>2, <1>3, <1>4, <1>5, <1>6, <1>7, <1>8, <1>9, <1>10, <1>11, <1>12, <1>13, <1>14,
     Steps DEF Step, Call

LEMMA EndedStep == CInv /\ [Next]_vars => Ended' /\ Settled'
<1> DEFINE Goal == Ended' /\ Settled'
<1> SUFFICES ASSUME CInv, [Next]_vars PROVE Goal
  OBVIOUS
<1>a. TypeOK /\ Flags /\ Begun /\ Ended /\ Settled
  BY DEF CInv, IInv
<1> USE <1>a, CallAssumption DEF Ended, Settled, TeardownSucceeds, Held
<1>1. ASSUME NEW w \in Worker, StartNotify(w) PROVE Goal
  BY <1>1, Starts, JobFacts DEF StartNotify, Take, NextIs, Free, Is, TypeOK, watch
<1>2. ASSUME NEW w \in Worker, RefuseNotify(w) PROVE Goal
  <2>1. Head(queue).of \in Notify
    BY <1>2, Starts, JobFacts DEF RefuseNotify, NextIs
  <2> QED
    BY <1>2, <2>1 DEF RefuseNotify, Done, Is, TypeOK, watch
<1>3. ASSUME NEW w \in Worker, Answer(w) \/ TimeOut(w) PROVE Goal
  <2>1. running[w].of \in Notify
    BY <1>3, HeldFacts DEF Answer, TimeOut, Is, Free
  <2>2. \A c \in WatchClose \cup IoClose : outcome'[c] = outcome[c]
    BY <1>3, <2>1 DEF Answer, TimeOut, Done, TypeOK, Call
  <2>3. \A v \in Worker : Is(v, "notify")' => Is(v, "notify")
    BY <1>3, <2>1 DEF Answer, TimeOut, Is, TypeOK
  <2>4. UNCHANGED <<promise, watched, ioClosed, awaited>>
    BY <1>3 DEF Answer, TimeOut, watch
  <2> QED
    BY <2>2, <2>3, <2>4 DEF TypeOK
<1>4. ASSUME NEW w \in Worker, RunAck(w) PROVE Goal
  BY <1>4 DEF RunAck, watch, Is
<1>5. ASSUME NEW w \in Worker, StartUnwatch(w) PROVE Goal
  BY <1>5, Starts DEF StartUnwatch, Take, NextIs, Is, TypeOK
<1>6. ASSUME NEW w \in Worker, EndUnwatch(w) PROVE Goal
  <2>1. running[w].of \in WatchClose
    BY <1>6, HeldFacts DEF EndUnwatch, Is, Free
  <2>2. PICK result \in {"ok", "code"} : Done(running[w].of, result)
    BY <1>6 DEF EndUnwatch
  <2> QED
    BY <1>6, <2>1, <2>2 DEF EndUnwatch, Done, Is, TypeOK
<1>7. ASSUME NEW w \in Worker, StartDestroy(w) PROVE Goal
  <2>1. Head(queue).of \in IoClose /\ Head(queue).do = "destroy"
    BY <1>7, Starts, JobFacts DEF StartDestroy, Take, NextIs
  <2>2. CASE watched
    <3>1. awaited = {}
      BY <2>2 DEF TypeOK
    <3>2. \A c \in WatchClose \cup IoClose :
            outcome'[c] = outcome[c] \/ (c \in IoClose /\ outcome'[c] = "code")
      BY <1>7, <2>1, <2>2 DEF StartDestroy, Done, TypeOK, Call
    <3>3. UNCHANGED <<running, promise, watched, ioClosed, awaited>>
      BY <1>7, <2>2 DEF StartDestroy, watch
    <3> QED
      BY <3>1, <3>2, <3>3 DEF Is
  <2>3. CASE ~watched
    BY <1>7, <2>1, <2>3 DEF StartDestroy, Take, Is, TypeOK, watch
  <2> QED
    BY <2>2, <2>3
<1>8. ASSUME NEW w \in Worker, EndDestroy(w) PROVE Goal
  <2>1. running[w].of \in IoClose
    BY <1>8, HeldFacts DEF EndDestroy, Is, Free
  <2> QED
    BY <1>8, <2>1 DEF EndDestroy, Done, Is, TypeOK, watch
<1>9. ASSUME NEW n \in Notify, CallNotify(n) PROVE Goal
  BY <1>9 DEF CallNotify, QueueAndGetPromise, watch, Is, TypeOK
<1>15. ASSUME NEW n \in Notify, Dispatch(n) \/ Deliver(n) PROVE Goal
  BY <1>15 DEF Dispatch, Deliver, watch, Is
<1>10. ASSUME NEW c \in WatchClose, CallWatchClose(c) PROVE Goal
  BY <1>10 DEF CallWatchClose, QueueAndGetPromise, Is, TypeOK
<1>11. ASSUME NEW c \in WatchClose, CloseWatchAgain(c) PROVE Goal
  BY <1>11 DEF CloseWatchAgain, Call, watch, Is, TypeOK
<1>12. ASSUME NEW c \in IoClose, CallIoClose(c) PROVE Goal
  <2>1. outcome[c] = "none"
    BY <1>12 DEF CallIoClose, QueueAndGetPromise, Begun, Call, TypeOK
  <2> QED
    BY <1>12, <2>1 DEF CallIoClose, QueueAndGetPromise, WatchIsClosed, Is, TypeOK, watch
<1>13. ASSUME NEW c \in Call, Settle(c) PROVE Goal
  BY <1>13 DEF Settle, Is, TypeOK, watch
<1>14. CASE UNCHANGED vars
  BY <1>14 DEF vars, watch, Is
<1> QED
  BY <1>1, <1>2, <1>3, <1>4, <1>5, <1>6, <1>7, <1>8, <1>9, <1>10, <1>11, <1>12, <1>13, <1>14,
     <1>15, Steps DEF Step

LEMMA CloseInvariant == Spec => []CInv
<1>1. Init => CInv
  <2>1. Init => Begun /\ Ended /\ Settled
    BY NoEntries DEF Init, Begun, Ended, Settled, Held, Is, Free, Jobs, TeardownSucceeds, Call
  <2> QED
    BY <2>1, InitIInv DEF CInv
<1>2. CInv /\ [Next]_vars => CInv'
  BY NextIInv, BegunStep, EndedStep DEF CInv, IInv
<1> QED
  BY <1>1, <1>2, PTL DEF Spec

\* common.h:41-60, index.ts:211.  A close that ran and has resolved has closed,
\* whatever else runs.
THEOREM CloseIsClosed == Spec => []ResolvedIsClosed
<1>1. CInv => ResolvedIsClosed
  BY DEF CInv, IInv, Flags, Ended, Settled, ResolvedIsClosed, WatchIsClosed
<1> QED
  BY <1>1, CloseInvariant, PTL

\* README.md:80-82.  Nor does the documented teardown meet EBUSY.
THEOREM TeardownWorks == Spec => []TeardownSucceeds
<1>1. CInv => TeardownSucceeds
  BY DEF CInv, Settled
<1> QED
  BY <1>1, CloseInvariant, PTL

-----------------------------------------------------------------------------
(* Every pending promise has its job somewhere, once.                       *)

Owes(c) == promise[c] = "pending" /\ outcome[c] = "none"

\* PendingIsAtWork for one call: it has a place exactly if it is owed,
Placed(c) ==
  Owes(c) <=> (\E i \in DOMAIN queue : Waits(c, i)) \/ (\E w \in Worker : Holds(c, w))

\* and no second one.
Once(c) ==
  /\ \A i \in DOMAIN queue : Waits(c, i) =>
       /\ \A j \in DOMAIN queue : Waits(c, j) => i = j
       /\ \A w \in Worker : ~Holds(c, w)
  /\ \A v, w \in Worker : Holds(c, v) /\ Holds(c, w) => v = w

AtWork == \A c \in Call : Placed(c) /\ Once(c)

\* A job is put behind the others.
LEMMA EnqueueKeeps ==
  ASSUME TypeOK, AtWork, NEW do, NEW c \in Call, [do |-> do, of |-> c] \in Job,
         Enqueue(do, c), UNCHANGED running,
         do # "ack" => ~Owes(c) /\ Owes(c)',
         \A d \in Call : (do = "ack" \/ d # c) => Owes(d)' = Owes(d)
  PROVE  AtWork'
<1> DEFINE job == [do |-> do, of |-> c]
<1>1. job.do = do /\ job.of = c /\ queue \in Seq(Job) /\ queue' = Append(queue, job)
  BY DEF TypeOK, Enqueue
<1> HIDE DEF job
<1>2. /\ \A i \in DOMAIN queue' : \/ i \in DOMAIN queue /\ queue'[i] = queue[i]
                                  \/ i = Len(queue) + 1 /\ queue'[i] = job
      /\ \A i \in DOMAIN queue : i \in DOMAIN queue' /\ queue'[i] = queue[i]
      /\ Len(queue) + 1 \in DOMAIN queue' /\ queue'[Len(queue) + 1] = job
      /\ Len(queue) + 1 \notin DOMAIN queue
  BY <1>1, AppendFacts DEF job
<1>3. \A d \in Call, w \in Worker : Holds(d, w)' = Holds(d, w)
  BY DEF Holds, Free
<1>4. ASSUME NEW d \in Call, do = "ack" \/ d # c PROVE Placed(d)' /\ Once(d)'
  <2>1. \A i \in DOMAIN queue' : Waits(d, i)' => i \in DOMAIN queue /\ Waits(d, i)
    BY <1>1, <1>2, <1>4 DEF Waits
  <2>2. \A i \in DOMAIN queue : Waits(d, i) => i \in DOMAIN queue' /\ Waits(d, i)'
    BY <1>2 DEF Waits
  <2>3. QED
    BY <1>3, <1>4, <2>1, <2>2 DEF AtWork, Placed, Once
<1>5. ASSUME do # "ack" PROVE Placed(c)' /\ Once(c)'
  <2>1. (\A i \in DOMAIN queue : ~Waits(c, i)) /\ \A w \in Worker : ~Holds(c, w)
    BY <1>5 DEF AtWork, Placed
  <2>2. \A i \in DOMAIN queue' : Waits(c, i)' <=> i = Len(queue) + 1
    BY <1>1, <1>2, <1>5, <2>1 DEF Waits
  <2>3. QED
    BY <1>2, <1>3, <1>5, <2>1, <2>2 DEF Placed, Once
<1>6. QED
  BY <1>4, <1>5 DEF AtWork

\* The places in the queue when the first job has left it.
LEMMA TailWaits ==
  ASSUME TypeOK, queue # <<>>, queue' = Tail(queue)
  PROVE  /\ 1 \in DOMAIN queue /\ Head(queue) = queue[1] /\ queue[1] \in Job
         /\ \A i \in DOMAIN queue' : i \in Nat /\ i + 1 \in DOMAIN queue /\ i + 1 # 1
         /\ \A i \in DOMAIN queue : i # 1 => i - 1 \in DOMAIN queue' /\ i \in Int
         /\ \A c \in Call : \A i \in DOMAIN queue' : Waits(c, i)' = Waits(c, i + 1)
         /\ \A c \in Call : \A i \in DOMAIN queue : i # 1 => Waits(c, i - 1)' = Waits(c, i)
<1>1. queue \in Seq(Job)
  BY DEF TypeOK
<1>2. QED
  BY <1>1, TailFacts DEF Waits

\* The first job leaves the queue and is over: an acknowledgement, or one that has
\* got its outcome.
LEMMA DropKeeps ==
  ASSUME TypeOK, AtWork, queue # <<>>, queue' = Tail(queue), UNCHANGED running,
         NEW c \in Call, c = Head(queue).of, Head(queue).do # "ack" => ~Owes(c)',
         \A d \in Call : (Head(queue).do = "ack" \/ d # c) => Owes(d)' = Owes(d)
  PROVE  AtWork'
<1>1. \A d \in Call, w \in Worker : Holds(d, w)' = Holds(d, w)
  BY DEF Holds, Free
<1>2. ASSUME NEW d \in Call, Head(queue).do = "ack" \/ d # c
      PROVE  Placed(d)' /\ Once(d)'
  <2>1. ~Waits(d, 1)
    BY <1>2, TailWaits DEF Waits
  <2>2. Placed(d)'
    BY <1>1, <1>2, <2>1, TailWaits DEF AtWork, Placed
  <2>3. Once(d)'
    <3>1. \A i, j \in DOMAIN queue' : i + 1 = j + 1 => i = j
      BY TailWaits
    <3>2. QED
      BY <1>1, <3>1, TailWaits DEF AtWork, Once
  <2>4. QED
    BY <2>2, <2>3
<1>3. ASSUME NEW d \in Call, Head(queue).do # "ack", d = c
      PROVE  Placed(d)' /\ Once(d)'
  <2>1. 1 \in DOMAIN queue /\ Waits(d, 1)
    BY <1>3, TailWaits DEF Waits
  <2>2. /\ \A i \in DOMAIN queue' : ~Waits(d, i)'
        /\ \A w \in Worker : ~Holds(d, w)'
    BY <1>1, <2>1, TailWaits DEF AtWork, Once
  <2>3. QED
    BY <1>3, <2>2 DEF Placed, Once
<1>4. QED
  BY <1>2, <1>3 DEF AtWork

\* A free worker takes the first job.
LEMMA TakeKeeps ==
  ASSUME TypeOK, AtWork, NEW w \in Worker, Free(w), queue # <<>>, Head(queue).do # "ack",
         Take(w), UNCHANGED <<promise, outcome>>
  PROVE  AtWork'
<1>1. queue' = Tail(queue) /\ Head(queue) # None
  BY Starts, JobFacts DEF Take
<1>2. running'[w] = Head(queue) /\ \A v \in Worker : v # w => running'[v] = running[v]
  BY DEF Take, TypeOK
<1>3. ASSUME NEW d \in Call PROVE Placed(d)' /\ Once(d)'
  <2>1. Owes(d)' = Owes(d) /\ \A v \in Worker : v # w => Holds(d, v)' = Holds(d, v)
    BY <1>2 DEF Owes, Holds, Free
  <2>2. Holds(d, w)' <=> Waits(d, 1)
    BY <1>1, <1>2, TailWaits DEF Holds, Free, Waits
  <2>3. ~Holds(d, w)
    BY DEF Holds
  <2>4. Placed(d)'
    <3>1. (\E i \in DOMAIN queue : Waits(d, i))
            <=> (\E i \in DOMAIN queue' : Waits(d, i)') \/ Waits(d, 1)
      BY <1>1, TailWaits
    <3>2. QED
      BY <2>1, <2>2, <2>3, <3>1 DEF AtWork, Placed
  <2>5. Once(d)'
    <3>1. \A i, j \in DOMAIN queue' : i + 1 = j + 1 => i = j
      BY <1>1, TailWaits
    <3>2. QED
      BY <1>1, <2>1, <2>2, <2>3, <3>1, TailWaits DEF AtWork, Once
  <2>6. QED
    BY <2>4, <2>5
<1>4. QED
  BY <1>3 DEF AtWork

\* A worker is done with its job.
LEMMA DoneKeeps ==
  ASSUME TypeOK, AtWork, NEW w \in Worker, ~Free(w), UNCHANGED <<queue, promise>>,
         running' = [running EXCEPT ![w] = None],
         NEW result \in {"ok", "code"}, Done(running[w].of, result)
  PROVE  AtWork'
<1>1. running[w].of \in Call /\ Holds(running[w].of, w)
  BY HeldFacts DEF Holds
<1>2. \A d \in Call : \A i \in DOMAIN queue : Waits(d, i)' = Waits(d, i)
  BY DEF Waits
<1>3. \A d \in Call : ~Holds(d, w)' /\ \A v \in Worker : v # w => Holds(d, v)' = Holds(d, v)
  BY DEF Holds, Free, TypeOK
<1>4. ASSUME NEW d \in Call, d # running[w].of PROVE Placed(d)' /\ Once(d)'
  <2>1. Owes(d)' = Owes(d) /\ ~Holds(d, w)
    BY <1>1, <1>4 DEF Owes, Done, Holds, TypeOK
  <2>2. QED
    BY <1>2, <1>3, <2>1 DEF AtWork, Placed, Once
<1>5. ASSUME NEW d \in Call, d = running[w].of PROVE Placed(d)' /\ Once(d)'
  <2>1. ~Owes(d)'
    BY <1>1, <1>5 DEF Owes, Done, TypeOK
  <2>2. (\A i \in DOMAIN queue : ~Waits(d, i)') /\ \A v \in Worker : ~Holds(d, v)'
    BY <1>1, <1>2, <1>3, <1>5 DEF AtWork, Once
  <2>3. QED
    BY <2>1, <2>2 DEF Placed, Once
<1>6. QED
  BY <1>4, <1>5 DEF AtWork

\* Nothing that PendingIsAtWork tells apart has changed.
LEMMA SameKeeps ==
  ASSUME AtWork, UNCHANGED <<queue, running>>, \A d \in Call : Owes(d)' = Owes(d)
  PROVE  AtWork'
BY DEF AtWork, Placed, Once, Waits, Holds, Free

LEMMA AtWorkStep ==
  ASSUME TypeOK, Begun, AtWork, [Next]_vars  PROVE  AtWork'
<1>1. ASSUME NEW w \in Worker, StartNotify(w) \/ StartUnwatch(w) PROVE AtWork'
  BY <1>1, TakeKeeps DEF StartNotify, StartUnwatch, NextIs
<1>2. ASSUME NEW w \in Worker, StartDestroy(w) PROVE AtWork'
  <2>1. queue # <<>> /\ Head(queue).do = "destroy" /\ Free(w)
    BY <1>2 DEF StartDestroy, NextIs
  <2>2. CASE Take(w) /\ UNCHANGED <<promise, outcome>>
    BY <2>1, <2>2, TakeKeeps
  <2>3. CASE queue' = Tail(queue) /\ Done(Head(queue).of, "code") /\ UNCHANGED <<running, promise>>
    <3>1. PICK c \in Call : c = Head(queue).of
      BY <2>1, <2>3, Starts, JobFacts
    <3>2. ~Owes(c)' /\ \A d \in Call : d # c => Owes(d)' = Owes(d)
      BY <2>3, <3>1 DEF Owes, Done, TypeOK
    <3>3. QED
      BY <2>1, <2>3, <3>1, <3>2, DropKeeps
  <2>4. QED
    BY <1>2, <2>2, <2>3 DEF StartDestroy
<1>3. ASSUME NEW w \in Worker, RefuseNotify(w) PROVE AtWork'
  <2>1. queue # <<>> /\ queue' = Tail(queue) /\ Done(Head(queue).of, "error")
        /\ Head(queue).do = "notify" /\ UNCHANGED <<running, promise>>
    BY <1>3 DEF RefuseNotify, NextIs
  <2>2. PICK c \in Call : c = Head(queue).of
    BY <2>1, Starts, JobFacts
  <2>3. ~Owes(c)' /\ \A d \in Call : d # c => Owes(d)' = Owes(d)
    BY <2>1, <2>2 DEF Owes, Done, TypeOK
  <2>4. QED
    BY <2>1, <2>2, <2>3, DropKeeps
<1>4. ASSUME NEW w \in Worker, RunAck(w) PROVE AtWork'
  <2>1. queue # <<>> /\ queue' = Tail(queue) /\ Head(queue).do = "ack"
        /\ UNCHANGED <<running, promise, outcome>>
    BY <1>4 DEF RunAck, NextIs
  <2>2. PICK c \in Call : c = Head(queue).of
    BY <2>1, Starts, JobFacts
  <2>3. QED
    BY <2>1, <2>2, DropKeeps DEF Owes
<1>5. ASSUME NEW w \in Worker, Answer(w) \/ TimeOut(w) \/ EndUnwatch(w) \/ EndDestroy(w)
      PROVE  AtWork'
  <2>1. ~Free(w) /\ UNCHANGED <<queue, promise>> /\ running' = [running EXCEPT ![w] = None]
        /\ \E result \in {"ok", "code"} : Done(running[w].of, result)
    BY <1>5 DEF Answer, TimeOut, EndUnwatch, EndDestroy, Is, Free
  <2>2. QED
    BY <2>1, DoneKeeps
<1>6. ASSUME NEW do \in {"notify", "unwatch", "destroy"}, NEW c \in Call,
             [do |-> do, of |-> c] \in Job, QueueAndGetPromise(do, c),
             UNCHANGED <<running, outcome>>
      PROVE  AtWork'
  <2>1. ~Owes(c) /\ Owes(c)' /\ \A d \in Call : d # c => Owes(d)' = Owes(d)
    BY <1>6 DEF QueueAndGetPromise, Owes, Begun, TypeOK
  <2>2. Enqueue(do, c) /\ do # "ack"
    BY <1>6 DEF QueueAndGetPromise
  <2>3. QED
    BY <1>6, <2>1, <2>2, EnqueueKeeps
<1>7. ASSUME NEW n \in Notify, CallNotify(n) PROVE AtWork'
  BY <1>6, <1>7, JobFacts DEF CallNotify, Call
<1>8. ASSUME NEW c \in WatchClose, CallWatchClose(c) PROVE AtWork'
  BY <1>6, <1>8, JobFacts DEF CallWatchClose, Call
<1>9. ASSUME NEW c \in IoClose, CallIoClose(c) PROVE AtWork'
  BY <1>6, <1>9, JobFacts DEF CallIoClose, Call
<1>10. ASSUME NEW n \in Notify, Dispatch(n) PROVE AtWork'
  <2>1. UNCHANGED <<running, promise, outcome>> /\ n \in Call
    BY <1>10 DEF Dispatch, Call
  <2>2. \A d \in Call : Owes(d)' = Owes(d)
    BY <2>1 DEF Owes
  <2>3. CASE queue' = queue
    BY <2>1, <2>2, <2>3, SameKeeps
  <2>4. CASE Enqueue("ack", n)
    BY <2>1, <2>2, <2>4, EnqueueKeeps, JobFacts
  <2>5. QED
    BY <1>10, <2>3, <2>4 DEF Dispatch
<1>11. ASSUME NEW c \in Call, Settle(c) PROVE AtWork'
  BY <1>11, SameKeeps DEF Settle, Owes, TypeOK
<1>12. ASSUME NEW c \in WatchClose, CloseWatchAgain(c) PROVE AtWork'
  BY <1>12, SameKeeps DEF CloseWatchAgain, Owes, TypeOK, Call
<1>13. CASE UNCHANGED <<queue, running, promise, outcome>>
  BY <1>13, SameKeeps DEF Owes
<1>14. QED
  BY <1>1, <1>2, <1>3, <1>4, <1>5, <1>7, <1>8, <1>9, <1>10, <1>11, <1>12, <1>13, Steps
     DEF Step, Deliver, vars

LEMMA AtWorkInvariant == Spec => []AtWork
<1>1. Init => AtWork
  BY DEF Init, AtWork, Placed, Once, Owes, Waits, Holds, Free
<1>2. TypeOK /\ Begun /\ AtWork /\ [Next]_vars => AtWork'
  BY AtWorkStep
<1>3. CInv => TypeOK /\ Begun
  BY DEF CInv, IInv
<1>4. QED
  BY <1>1, <1>2, <1>3, CloseInvariant, PTL DEF Spec

\* common.h:90-123.  No promise is forgotten and no job runs twice, whatever the jobs
\* throw or return, for any number of workers and calls.
THEOREM EveryPromiseIsAtWork == Spec => []PendingIsAtWork
<1>1. AtWork => PendingIsAtWork
  BY DEF AtWork, Placed, Once, Owes, PendingIsAtWork
<1>2. QED
  BY <1>1, AtWorkInvariant, PTL

-----------------------------------------------------------------------------
(* Work only advances.                                                      *)

\* No job is queued twice, and a notification is where its jobs say.
Notes ==
  /\ \A n \in Notify : note[n] # "none" => promise[n] # "none"
  /\ \A i \in DOMAIN queue : queue[i].do = "notify" => note[queue[i].of] = "none"
  /\ \A i \in DOMAIN queue : queue[i].do = "ack" => note[queue[i].of] = "acking"
  /\ \A i, j \in DOMAIN queue : queue[i] = queue[j] => i = j

\* How far a notification has come.
Stage == [none |-> 0, sent |-> 1, queued |-> 2, acking |-> 3, acked |-> 4, lost |-> 4]

\* A promise is settled for good and an outcome never replaced; a worker keeps its job
\* until it has one; and a queued job only moves up, from the front to a worker or its end.
Advances(c) ==
  /\ promise[c] \in {"resolved", "rejected"} => promise'[c] = promise[c]
  /\ outcome[c] # "none" => outcome'[c] = outcome[c]
  /\ \A w \in Worker : Holds(c, w) => Holds(c, w)' \/ outcome'[c] # "none"
  /\ \A i \in DOMAIN queue : Waits(c, i) =>
       \/ i \in DOMAIN queue' /\ Waits(c, i)'
       \/ i - 1 \in DOMAIN queue' /\ Waits(c, i - 1)'
       \/ i = 1 /\ ((\E w \in Worker : Holds(c, w)') \/ outcome'[c] # "none")

\* And a notification only goes on, too.
WorkAdvances ==
  [][/\ \A c \in Call : Advances(c)
     /\ \A n \in Notify : note'[n] # note[n] => Stage[note'[n]] > Stage[note[n]]]_vars

\* What a step does to jobs: a worker takes the first, the first is over at once, a
\* worker is done, or none leaves its place.
LEMMA JobsMove ==
  ASSUME TypeOK, [Next]_vars
  PROVE  \/ \E w \in Worker : Free(w) /\ queue # <<>> /\ Take(w) /\ UNCHANGED <<promise, outcome>>
         \/ /\ queue # <<>> /\ queue' = Tail(queue) /\ UNCHANGED <<running, promise>>
            /\ \/ Head(queue).do = "ack" /\ UNCHANGED outcome
               \/ /\ Head(queue).do # "ack"
                  /\ \E result \in {"code", "error"} : Done(Head(queue).of, result)
         \/ \E w \in Worker : \E result \in {"ok", "code"} :
              /\ ~Free(w) /\ running' = [running EXCEPT ![w] = None]
              /\ Done(running[w].of, result) /\ UNCHANGED <<queue, promise>>
         \/ /\ queue' = queue \/ \E j \in Job : queue' = Append(queue, j)
            /\ UNCHANGED <<running, outcome>>
            /\ \A c \in Call : promise[c] \in {"resolved", "rejected"} => promise'[c] = promise[c]
<1> DEFINE Goal ==
      \/ \E w \in Worker : Free(w) /\ queue # <<>> /\ Take(w) /\ UNCHANGED <<promise, outcome>>
      \/ /\ queue # <<>> /\ queue' = Tail(queue) /\ UNCHANGED <<running, promise>>
         /\ \/ Head(queue).do = "ack" /\ UNCHANGED outcome
            \/ /\ Head(queue).do # "ack"
               /\ \E result \in {"code", "error"} : Done(Head(queue).of, result)
      \/ \E w \in Worker : \E result \in {"ok", "code"} :
           /\ ~Free(w) /\ running' = [running EXCEPT ![w] = None]
           /\ Done(running[w].of, result) /\ UNCHANGED <<queue, promise>>
      \/ /\ queue' = queue \/ \E j \in Job : queue' = Append(queue, j)
         /\ UNCHANGED <<running, outcome>>
         /\ \A c \in Call : promise[c] \in {"resolved", "rejected"} => promise'[c] = promise[c]
<1>1. ASSUME NEW w \in Worker, StartNotify(w) \/ StartUnwatch(w) PROVE Goal
  BY <1>1 DEF StartNotify, StartUnwatch, NextIs
<1>2. ASSUME NEW w \in Worker, StartDestroy(w) PROVE Goal
  BY <1>2 DEF StartDestroy, NextIs
<1>3. ASSUME NEW w \in Worker, RefuseNotify(w) \/ RunAck(w) PROVE Goal
  BY <1>3 DEF RefuseNotify, RunAck, NextIs
<1>4. ASSUME NEW w \in Worker, Answer(w) \/ TimeOut(w) \/ EndUnwatch(w) \/ EndDestroy(w)
      PROVE  Goal
  <2>1. ~Free(w) /\ UNCHANGED <<queue, promise>> /\ running' = [running EXCEPT ![w] = None]
        /\ \E result \in {"ok", "code"} : Done(running[w].of, result)
    BY <1>4 DEF Answer, TimeOut, EndUnwatch, EndDestroy, Is, Free
  <2>2. QED
    BY <2>1
<1>5. ASSUME NEW do, NEW c \in Call, [do |-> do, of |-> c] \in Job, QueueAndGetPromise(do, c),
             UNCHANGED <<running, outcome>>
      PROVE  Goal
  BY <1>5 DEF QueueAndGetPromise, Enqueue, TypeOK
<1>6. ASSUME NEW n \in Notify, CallNotify(n) PROVE Goal
  BY <1>5, <1>6, JobFacts DEF CallNotify, Call
<1>7. ASSUME NEW c \in WatchClose, CallWatchClose(c) PROVE Goal
  BY <1>5, <1>7, JobFacts DEF CallWatchClose, Call
<1>8. ASSUME NEW c \in IoClose, CallIoClose(c) PROVE Goal
  BY <1>5, <1>8, JobFacts DEF CallIoClose, Call
<1>9. ASSUME NEW n \in Notify, Dispatch(n) \/ Deliver(n) PROVE Goal
  <2>1. UNCHANGED <<running, promise, outcome>>
    BY <1>9 DEF Dispatch, Deliver
  <2>2. queue' = queue \/ \E j \in Job : queue' = Append(queue, j)
    BY <1>9, JobFacts DEF Dispatch, Deliver, Enqueue
  <2>3. QED
    BY <2>1, <2>2
<1>10. ASSUME NEW c \in Call, Settle(c) PROVE Goal
  BY <1>10 DEF Settle, TypeOK
<1>11. ASSUME NEW c \in WatchClose, CloseWatchAgain(c) PROVE Goal
  BY <1>11 DEF CloseWatchAgain, TypeOK, Call
<1>12. CASE UNCHANGED vars
  BY <1>12 DEF vars
<1>13. QED
  BY <1>1, <1>2, <1>3, <1>4, <1>6, <1>7, <1>8, <1>9, <1>10, <1>11, <1>12, Steps DEF Step

\* The places of the jobs when the first has left the queue.
LEMMA MovedUp ==
  ASSUME TypeOK, queue # <<>>, queue' = Tail(queue)
  PROVE  /\ 1 \in DOMAIN queue /\ queue[1] = Head(queue)
         /\ \A i \in DOMAIN queue' : /\ i \in Nat /\ i + 1 \in DOMAIN queue /\ i + 1 # 1
                                     /\ queue'[i] = queue[i + 1]
BY TailFacts DEF TypeOK

\* Whatever a step does to them, a call and its job only go on.
LEMMA CallAdvances ==
  ASSUME TypeOK, AtWork, [Next]_vars, NEW c \in Call  PROVE  Advances(c)
<1>1. ASSUME NEW w \in Worker, Free(w), queue # <<>>, Take(w), UNCHANGED <<promise, outcome>>
      PROVE  Advances(c)
  <2>1. queue' = Tail(queue) /\ Head(queue) \in Job /\ Head(queue) # None
    BY <1>1, Starts, JobFacts DEF Take
  <2>2. running'[w] = Head(queue) /\ \A v \in Worker : v # w => running'[v] = running[v]
    BY <1>1 DEF Take, TypeOK
  <2>3. \A v \in Worker : Holds(c, v) => Holds(c, v)'
    BY <1>1, <2>2 DEF Holds, Free
  <2>4. Waits(c, 1) => Holds(c, w)'
    BY <1>1, <2>1, <2>2, TailWaits DEF Waits, Holds, Free
  <2>5. QED
    BY <1>1, <2>1, <2>3, <2>4, TailWaits DEF Advances
<1>2. ASSUME queue # <<>>, queue' = Tail(queue), UNCHANGED <<running, promise>>,
             \/ Head(queue).do = "ack" /\ UNCHANGED outcome
             \/ /\ Head(queue).do # "ack"
                /\ \E result \in {"code", "error"} : Done(Head(queue).of, result)
      PROVE  Advances(c)
  <2>1. \A v \in Worker : Holds(c, v)' = Holds(c, v)
    BY <1>2 DEF Holds, Free
  <2>2. 1 \in DOMAIN queue /\ (Waits(c, 1) <=> Head(queue).do # "ack" /\ Head(queue).of = c)
    BY <1>2, TailWaits DEF Waits
  <2>3. CASE outcome'[c] = outcome[c] /\ ~Waits(c, 1)
    BY <1>2, <2>1, <2>3, TailWaits DEF Advances
  <2>4. CASE Waits(c, 1) /\ Owes(c) /\ outcome'[c] # "none"
    BY <1>2, <2>1, <2>4, TailWaits DEF Advances, Owes
  <2>5. Waits(c, 1) => Owes(c) /\ outcome'[c] # "none"
    BY <1>2, <2>2 DEF AtWork, Placed, Done, TypeOK
  <2>6. ~Waits(c, 1) => outcome'[c] = outcome[c]
    BY <1>2, <2>2 DEF Done, TypeOK
  <2>7. QED
    BY <2>3, <2>4, <2>5, <2>6
<1>3. ASSUME NEW w \in Worker, NEW result \in {"ok", "code"}, ~Free(w),
             running' = [running EXCEPT ![w] = None], Done(running[w].of, result),
             UNCHANGED <<queue, promise>>
      PROVE  Advances(c)
  <2>1. \A i \in DOMAIN queue : Waits(c, i)' = Waits(c, i)
    BY <1>3 DEF Waits
  <2>2. \A v \in Worker : v # w => Holds(c, v)' = Holds(c, v)
    BY <1>3 DEF Holds, Free, TypeOK
  <2>3. CASE running[w].of = c
    <3>1. Owes(c) /\ outcome'[c] # "none"
      BY <1>3, <2>3 DEF AtWork, Placed, Holds, Done, TypeOK
    <3>2. QED
      BY <1>3, <2>1, <3>1 DEF Advances, Owes
  <2>4. CASE running[w].of # c
    <3>1. ~Holds(c, w) /\ outcome'[c] = outcome[c]
      BY <1>3, <2>4 DEF Holds, Done, TypeOK
    <3>2. QED
      BY <1>3, <2>1, <2>2, <3>1 DEF Advances
  <2>5. QED
    BY <2>3, <2>4
<1>4. ASSUME queue' = queue \/ \E j \in Job : queue' = Append(queue, j),
             UNCHANGED <<running, outcome>>,
             promise[c] \in {"resolved", "rejected"} => promise'[c] = promise[c]
      PROVE  Advances(c)
  <2>1. \A v \in Worker : Holds(c, v)' = Holds(c, v)
    BY <1>4 DEF Holds, Free
  <2>2. \A i \in DOMAIN queue : i \in DOMAIN queue' /\ queue'[i] = queue[i]
    BY <1>4, AppendFacts DEF TypeOK
  <2>3. QED
    BY <1>4, <2>1, <2>2 DEF Advances, Waits
<1>5. QED
  BY <1>1, <1>2, <1>3, <1>4, JobsMove

\* A step leaves each notification where its job says, once.
LEMMA NotesStep ==
  ASSUME TypeOK, Begun, Notes, [Next]_vars  PROVE  Notes'
<1> USE DEF Notes, TypeOK
<1>1. ASSUME NEW w \in Worker, StartNotify(w) PROVE Notes'
  <2>0. Head(queue) \in Job /\ Head(queue).do = "notify"
    BY <1>1, Starts DEF StartNotify, NextIs, Take
  <2>1. PICK n \in Notify : n = Head(queue).of /\ Head(queue) = [do |-> "notify", of |-> n]
    <3>1. Head(queue).of \in Notify /\ Head(queue) = [do |-> "notify", of |-> Head(queue).of]
      BY <2>0, JobFacts, Zenon
    <3>2. QED
      BY <3>1
  <2>2. queue # <<>> /\ queue' = Tail(queue) /\ note' = [note EXCEPT ![n] = "sent"]
        /\ UNCHANGED promise
    BY <1>1, <2>1 DEF StartNotify, NextIs, Take
  <2>3. note[n] = "none" /\ promise[n] # "none"
    BY <2>1, <2>2, MovedUp, Starts DEF Begun
  <2>4. \A i \in DOMAIN queue' : queue'[i] \in Job /\ queue'[i] # Head(queue)
    BY <2>2, MovedUp
  <2>5. \A i \in DOMAIN queue' : queue'[i].do \in {"notify", "ack"} =>
          queue'[i].of \in Notify /\ queue'[i].of # n
    BY <2>1, <2>2, <2>3, <2>4, MovedUp, JobFacts
  <2>6. \A i, j \in DOMAIN queue' : queue'[i] = queue'[j] => i = j
    BY <2>2, MovedUp
  <2>7. QED
    BY <2>2, <2>3, <2>5, <2>6, MovedUp
<1>2. ASSUME NEW w \in Worker, RunAck(w) PROVE Notes'
  <2>0. Head(queue) \in Job /\ Head(queue).do = "ack"
    BY <1>2, Starts DEF RunAck, NextIs
  <2>1. PICK n \in Notify : n = Head(queue).of /\ Head(queue) = [do |-> "ack", of |-> n]
    <3>1. Head(queue).of \in Notify /\ Head(queue) = [do |-> "ack", of |-> Head(queue).of]
      BY <2>0, JobFacts, Zenon
    <3>2. QED
      BY <3>1
  <2>2. queue # <<>> /\ queue' = Tail(queue) /\ UNCHANGED promise
        /\ note' = [note EXCEPT ![n] = IF ioClosed THEN "lost" ELSE "acked"]
    BY <1>2, <2>1 DEF RunAck, NextIs
  <2>3. note[n] = "acking" /\ promise[n] # "none"
    BY <2>1, <2>2, MovedUp
  <2>4. \A i \in DOMAIN queue' : queue'[i] \in Job /\ queue'[i] # Head(queue)
    BY <2>2, MovedUp
  <2>5. \A i \in DOMAIN queue' : queue'[i].do \in {"notify", "ack"} =>
          queue'[i].of \in Notify /\ queue'[i].of # n
    BY <2>1, <2>2, <2>3, <2>4, MovedUp, JobFacts
  <2>6. \A i, j \in DOMAIN queue' : queue'[i] = queue'[j] => i = j
    BY <2>2, MovedUp
  <2>7. QED
    BY <2>2, <2>3, <2>5, <2>6, MovedUp
<1>3. ASSUME NEW w \in Worker, RefuseNotify(w) \/ StartUnwatch(w) \/ StartDestroy(w)
      PROVE  Notes'
  <2>1. queue # <<>> /\ queue' = Tail(queue) /\ UNCHANGED <<note, promise>>
    BY <1>3 DEF RefuseNotify, StartUnwatch, StartDestroy, NextIs, Take
  <2>2. QED
    BY <2>1, MovedUp
<1>4. ASSUME NEW do, NEW c \in Call, [do |-> do, of |-> c] \in Job, do # "ack",
             QueueAndGetPromise(do, c), UNCHANGED note
      PROVE  Notes'
  <2> DEFINE job == [do |-> do, of |-> c]
  <2>1. job.do = do /\ job.of = c /\ queue' = Append(queue, job) /\ queue \in Seq(Job)
    BY <1>4 DEF QueueAndGetPromise, Enqueue
  <2>2. \A i \in DOMAIN queue : queue[i] # job
    <3>1. SUFFICES ASSUME NEW i \in DOMAIN queue, queue[i] = job PROVE FALSE
      OBVIOUS
    <3>2. queue[i] \in Jobs /\ queue[i].do = do /\ queue[i].of = c
      BY <2>1, <3>1 DEF Jobs, Entries
    <3>3. QED
      BY <1>4, <3>2 DEF Begun, QueueAndGetPromise
  <2>3. do = "notify" => note[c] = "none"
    BY <1>4, <2>1, JobFacts DEF QueueAndGetPromise
  <2>4. \A n \in Notify : promise[n] # "none" => promise'[n] # "none"
    BY <1>4 DEF QueueAndGetPromise, Call
  <2> HIDE DEF job
  <2>5. /\ \A i \in DOMAIN queue' : \/ i \in DOMAIN queue /\ queue'[i] = queue[i]
                                    \/ i = Len(queue) + 1 /\ queue'[i] = job
        /\ Len(queue) + 1 \notin DOMAIN queue
    BY <1>4, <2>1, AppendFacts DEF job
  <2>6. QED
    BY <1>4, <2>1, <2>2, <2>3, <2>4, <2>5
<1>5. ASSUME NEW n \in Notify, CallNotify(n) PROVE Notes'
  BY <1>4, <1>5, JobFacts DEF CallNotify, Call
<1>6. ASSUME NEW c \in WatchClose, CallWatchClose(c) PROVE Notes'
  BY <1>4, <1>6, JobFacts DEF CallWatchClose, Call
<1>7. ASSUME NEW c \in IoClose, CallIoClose(c) PROVE Notes'
  BY <1>4, <1>7, JobFacts DEF CallIoClose, Call
<1>8. ASSUME NEW n \in Notify, Dispatch(n) PROVE Notes'
  <2>1. note[n] = "queued" /\ UNCHANGED promise
    BY <1>8 DEF Dispatch
  <2>2. \A i \in DOMAIN queue : queue[i] \in Job /\
          (queue[i].do \in {"notify", "ack"} => queue[i].of \in Notify /\ queue[i].of # n)
    BY <2>1, JobFacts
  <2>3. CASE queue' = queue /\ note' = [note EXCEPT ![n] = "lost"]
    BY <2>1, <2>2, <2>3
  <2>4. CASE Enqueue("ack", n) /\ note' = [note EXCEPT ![n] = "acking"]
    <3> DEFINE job == [do |-> "ack", of |-> n]
    <3>1. job.do = "ack" /\ job.of = n /\ queue' = Append(queue, job)
          /\ queue \in Seq(Job) /\ job \in Job
      BY <2>4, JobFacts DEF Enqueue
    <3>2. \A i \in DOMAIN queue : queue[i] # job
      BY <2>2, <3>1
    <3> HIDE DEF job
    <3>3. /\ \A i \in DOMAIN queue' : \/ i \in DOMAIN queue /\ queue'[i] = queue[i]
                                      \/ i = Len(queue) + 1 /\ queue'[i] = job
          /\ Len(queue) + 1 \notin DOMAIN queue
      BY <3>1, AppendFacts
    <3>4. \A m \in Notify : note'[m] = IF m = n THEN "acking" ELSE note[m]
      BY <2>4
    <3>5. QED
      BY <2>1, <2>2, <3>1, <3>2, <3>3, <3>4
  <2>5. QED
    BY <1>8, <2>3, <2>4 DEF Dispatch
<1>9. ASSUME NEW n \in Notify, Deliver(n) PROVE Notes'
  <2>1. note[n] = "sent" /\ UNCHANGED <<queue, promise>>
        /\ note' = [note EXCEPT ![n] = IF closed THEN "lost" ELSE "queued"]
    BY <1>9 DEF Deliver
  <2>2. \A i \in DOMAIN queue : queue[i] \in Job /\
          (queue[i].do \in {"notify", "ack"} => queue[i].of \in Notify /\ queue[i].of # n)
    BY <2>1, JobFacts
  <2>3. QED
    BY <2>1, <2>2
<1>10. ASSUME NEW c \in Call, Settle(c) \/ CloseWatchAgain(c) PROVE Notes'
  BY <1>10 DEF Settle, CloseWatchAgain, Call
<1>11. ASSUME NEW w \in Worker, Answer(w) \/ TimeOut(w) \/ EndUnwatch(w) \/ EndDestroy(w)
       PROVE  Notes'
  <2>1. UNCHANGED <<queue, promise, note>>
    BY <1>11 DEF Answer, TimeOut, EndUnwatch, EndDestroy
  <2>2. QED
    BY <2>1
<1>12. CASE UNCHANGED vars
  BY <1>12 DEF vars
<1>13. QED
  BY <1>1, <1>2, <1>3, <1>5, <1>6, <1>7, <1>8, <1>9, <1>10, <1>11, <1>12, Steps DEF Step, Call

\* And none goes back.
LEMMA NoteAdvances ==
  ASSUME TypeOK, Notes, [Next]_vars, NEW n \in Notify, note'[n] # note[n]
  PROVE  Stage[note'[n]] > Stage[note[n]]
<1>0. /\ Stage["none"] = 0 /\ Stage["sent"] = 1 /\ Stage["queued"] = 2 /\ Stage["acking"] = 3
      /\ Stage["acked"] = 4 /\ Stage["lost"] = 4
  BY DEF Stage
<1>1. ASSUME NEW w \in Worker, StartNotify(w) PROVE Stage[note'[n]] > Stage[note[n]]
  <2>1. Head(queue).of = n /\ queue # <<>> /\ Head(queue).do = "notify" /\ note'[n] = "sent"
    BY <1>1 DEF StartNotify, NextIs, TypeOK
  <2>2. note[n] = "none"
    BY <1>1, <2>1, MovedUp DEF Notes, StartNotify, Take
  <2>3. QED
    BY <1>0, <2>1, <2>2
<1>2. ASSUME NEW w \in Worker, RunAck(w) PROVE Stage[note'[n]] > Stage[note[n]]
  <2>1. Head(queue).of = n /\ queue # <<>> /\ Head(queue).do = "ack"
        /\ note'[n] \in {"acked", "lost"}
    BY <1>2 DEF RunAck, NextIs, TypeOK
  <2>2. note[n] = "acking"
    BY <1>2, <2>1, MovedUp DEF Notes, RunAck
  <2>3. QED
    BY <1>0, <2>1, <2>2
<1>3. ASSUME NEW m \in Notify, Dispatch(m) \/ Deliver(m)
      PROVE  Stage[note'[n]] > Stage[note[n]]
  BY <1>0, <1>3 DEF Dispatch, Deliver, TypeOK
<1>4. QED
  BY <1>1, <1>2, <1>3, Steps, Zenon
     DEF Step, RefuseNotify, Answer, TimeOut, StartUnwatch, EndUnwatch, StartDestroy, EndDestroy,
         CallNotify, CallWatchClose, CloseWatchAgain, CallIoClose, Settle, vars

\* common.h:90-123, index.ts:203-209.  Jobs, promises and notifications only go on, for any
\* number of workers and calls: the queue is served in order, a job ends where it was
\* started, what was settled stays so, and no notification is delivered or acknowledged
\* twice.  With NobodyElseWaits, the safety part of Settles.
THEOREM WorkOnlyAdvances == Spec => WorkAdvances
<1>1. Init => Notes
  BY DEF Init, Notes
<1>2. TypeOK /\ Begun /\ Notes /\ [Next]_vars => Notes'
  BY NotesStep
<1>3. TypeOK /\ AtWork /\ Notes /\ [Next]_vars
      => [/\ \A c \in Call : Advances(c)
          /\ \A n \in Notify : note'[n] # note[n] => Stage[note'[n]] > Stage[note[n]]]_vars
  BY CallAdvances, NoteAdvances
<1>4. CInv => TypeOK /\ Begun
  BY DEF CInv, IInv
<1>5. Spec => []AtWork
  BY AtWorkInvariant
<1>6. QED
  BY <1>1, <1>2, <1>3, <1>4, <1>5, CloseInvariant, PTL DEF Spec, WorkAdvances

-----------------------------------------------------------------------------
(* Who waits for whom.                                                      *)

\* Somebody other than the client and the timeouts can take a step: each of these is
\* the guard of one.
CanGoOn ==
  \/ \E c \in Call : promise[c] = "pending" /\ outcome[c] # "none"
  \/ \E n \in Notify : note[n] = "queued" \/ (note[n] = "sent" /\ watched)
  \/ queue # <<>> /\ \E w \in Worker : Free(w)
  \/ \E w \in Worker : \/ Is(w, "unwatch")
                       \/ Is(w, "destroy") /\ ~Held
                       \/ Is(w, "notify") /\ Answered(running[w].of)

\* While a promise is pending, somebody can go on, unless notifies hold every worker.
OnlyFullPoolsWait ==
  (\E c \in Call : promise[c] = "pending") => CanGoOn \/ \A w \in Worker : Is(w, "notify")

\* A notify that nobody else can help finds no worker but for notifies.
LEMMA StuckIsFull ==
  ASSUME IInv, ~CanGoOn, NEW w \in Worker, Is(w, "notify"), NEW v \in Worker, ~Is(v, "notify"),
         Is(v, "destroy") => Held
  PROVE  FALSE
<1>1. PICK n \in Notify : n = running[w].of
  BY HeldFacts DEF IInv, Is, Free
<1>2. watched /\ note[n] \in {"acking", "lost"}
  BY <1>1 DEF IInv, TypeOK, Flags, CanGoOn, Answered
<1>3. Free(v)
  BY <1>2, HeldFacts DEF IInv, Flags, CanGoOn
<1>4. Jobs = {}
  BY <1>3, NoEntries DEF CanGoOn, Jobs
<1>5. note[n] = "lost" /\ jsClosed
  BY <1>2, <1>4 DEF IInv, Acks, Flags
<1>6. QED
  BY <1>2, <1>4, <1>5 DEF IInv, Unwatching, CanGoOn

\* common.h:90-123, io_context.cpp:180.  Jobs, promises, the lock of the context and the
\* watch never wait for one another in a circle, for any number of workers and calls: only
\* notifies on every worker wait for their timeout.
THEOREM NobodyElseWaits == Spec => []OnlyFullPoolsWait
<1>1. ASSUME IInv, AtWork, ~CanGoOn, NEW c \in Call, promise[c] = "pending",
             NEW v \in Worker, ~Is(v, "notify")
      PROVE  FALSE
  <2>1. Owes(c)
    BY <1>1 DEF Owes, CanGoOn
  <2>2. \A w \in Worker : ~Is(w, "notify")
    <3>1. SUFFICES ASSUME NEW w \in Worker, Is(w, "notify") PROVE FALSE
      OBVIOUS
    <3>2. Held
      BY <3>1 DEF Held
    <3>3. QED
      BY <1>1, <3>1, <3>2, StuckIsFull
  <2>3. ~Held
    BY <2>2 DEF Held
  <2>4. \A w \in Worker : Free(w)
    BY <1>1, <2>2, <2>3, HeldFacts DEF CanGoOn, IInv
  <2>5. queue = <<>>
    BY <1>1, <2>4 DEF CanGoOn
  <2>6. QED
    BY <1>1, <2>1, <2>4, <2>5 DEF AtWork, Placed, Holds
<1>2. IInv /\ AtWork => OnlyFullPoolsWait
  BY <1>1 DEF OnlyFullPoolsWait
<1>3. Spec => []AtWork
  BY AtWorkInvariant
<1>4. QED
  BY <1>2, <1>3, Invariant, PTL
=============================================================================
