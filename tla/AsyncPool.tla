------------------------------ MODULE AsyncPool ------------------------------
(***************************************************************************)
(* Jobs, promises and the libuv pool (common.h:83-149), on the operations  *)
(* that wait for one another: rados_notify2 on an object that the same     *)
(* process watches, the automatic acknowledgement of the watch, the close  *)
(* of the watch and the close of the I/O context.                          *)
(*                                                                         *)
(* A call queues a job; a worker executes it; the event loop settles the   *)
(* promise.  rados_notify2 returns when the watch has acknowledged or is   *)
(* gone, and until then holds its worker and the shared lock of the        *)
(* context.  Acknowledgements succeed and the queue of the watch has room  *)
(* (ObjectWatch is about the rest); the timeout of rados_notify2 is longer *)
(* than anything else in the process takes.                                *)
(***************************************************************************)
EXTENDS Naturals, Sequences

CONSTANTS Worker,      \* UV_THREADPOOL_SIZE threads
          Notify,      \* calls of IoContext.notify
          WatchClose,  \* calls of ObjectWatch.close
          IoClose,     \* calls of IoContext.close
          None         \* no job

Call == Notify \cup WatchClose \cup IoClose

\* An acknowledgement is over at once; the other jobs may hold their worker.
Holding == [do : {"notify"}, of : Notify] \cup [do : {"unwatch"}, of : WatchClose]
           \cup [do : {"destroy"}, of : IoClose]
Job == Holding \cup [do : {"ack"}, of : Notify]

ASSUME CallAssumption ==
  /\ Notify \cap WatchClose = {} /\ Notify \cap IoClose = {} /\ WatchClose \cap IoClose = {}
  /\ None \notin Job

VARIABLES
  queue,     \* the pool's jobs, in order: what they do, and for which call
  running,   \* the job of each worker that is held by it
  outcome,   \* what Execute has left of a call: code_ >= 0, code_ < 0, or SetError
  promise,   \* of each call
  note,      \* how far the notification of a notify has come
  jsClosed,  \* #closed of the watch
  closed,    \* Data::closed of the watch
  watched,   \* registered in Ceph and counted in children_ of the context
  ioClosed,  \* closed_ of the context
  timedOut,  \* the notifies that have answered -ETIMEDOUT
  awaited    \* the closes of the context called after the one of the watch resolved

watch == <<jsClosed, closed, watched>>
vars == <<queue, running, outcome, promise, note, watch, ioClosed, timedOut, awaited>>

TypeOK ==
  /\ queue \in Seq(Job)
  /\ running \in [Worker -> Holding \cup {None}]
  /\ outcome \in [Call -> {"none", "ok", "code", "error"}]
  /\ promise \in [Call -> {"none", "pending", "resolved", "rejected"}]
  /\ note \in [Notify -> {"none", "sent", "queued", "acking", "acked", "lost"}]
  /\ jsClosed \in BOOLEAN /\ closed \in BOOLEAN /\ watched \in BOOLEAN /\ ioClosed \in BOOLEAN
  /\ timedOut \subseteq Notify /\ awaited \subseteq IoClose

Init ==
  /\ queue = <<>> /\ running = [w \in Worker |-> None]
  /\ outcome = [c \in Call |-> "none"]
  /\ promise = [c \in Call |-> "none"]
  /\ note = [n \in Notify |-> "none"]
  /\ jsClosed = FALSE /\ closed = FALSE /\ watched = TRUE /\ ioClosed = FALSE
  /\ timedOut = {} /\ awaited = {}

-----------------------------------------------------------------------------
(* The JS thread: calls, the event loop.                                   *)

Enqueue(do, c) == queue' = Append(queue, [do |-> do, of |-> c])

\* Deferred::New and Queue; nothing is looked at before the job runs.
QueueAndGetPromise(do, c) ==
  /\ promise[c] = "none"
  /\ Enqueue(do, c)
  /\ promise' = [promise EXCEPT ![c] = "pending"]

CallNotify(n) ==
  /\ QueueAndGetPromise("notify", n)
  /\ UNCHANGED <<running, outcome, note, watch, ioClosed, timedOut, awaited>>

CallWatchClose(c) ==
  /\ ~jsClosed
  /\ QueueAndGetPromise("unwatch", c)
  /\ jsClosed' = TRUE
  /\ UNCHANGED <<running, outcome, note, closed, watched, ioClosed, timedOut, awaited>>

\* `if (this.#closed) return` of an async function: resolved, and nothing done.
CloseWatchAgain(c) ==
  /\ jsClosed /\ promise[c] = "none"
  /\ promise' = [promise EXCEPT ![c] = "resolved"]
  /\ UNCHANGED <<queue, running, outcome, note, watch, ioClosed, timedOut, awaited>>

\* A close of the watch that ran has resolved, not one that found #closed set.
WatchIsClosed == \E d \in WatchClose : promise[d] = "resolved" /\ outcome[d] # "none"

CallIoClose(c) ==
  /\ QueueAndGetPromise("destroy", c)
  /\ awaited' = IF WatchIsClosed THEN awaited \cup {c} ELSE awaited
  /\ UNCHANGED <<running, outcome, note, watch, ioClosed, timedOut>>

\* Mutant: the listener is told and no acknowledgement follows.
DispatchOnly(n) ==
  /\ note[n] = "queued"
  /\ note' = [note EXCEPT ![n] = IF jsClosed THEN "lost" ELSE "acking"]
  /\ UNCHANGED <<queue, running, outcome, promise, watch, ioClosed, timedOut, awaited>>

\* ObjectWatch.dispatch with autoAck.
Dispatch(n) ==
  /\ note[n] = "queued"
  /\ IF jsClosed THEN note' = [note EXCEPT ![n] = "lost"] /\ UNCHANGED queue
                 ELSE note' = [note EXCEPT ![n] = "acking"] /\ Enqueue("ack", n)
  /\ UNCHANGED <<running, outcome, promise, watch, ioClosed, timedOut, awaited>>

\* OnOK and OnError.
Settle(c) ==
  /\ promise[c] = "pending" /\ outcome[c] # "none"
  /\ promise' = [promise EXCEPT ![c] = IF outcome[c] = "ok" THEN "resolved" ELSE "rejected"]
  /\ UNCHANGED <<queue, running, outcome, note, watch, ioClosed, timedOut, awaited>>

-----------------------------------------------------------------------------
(* Workers.  Execute runs the job; use() throws on a closed context.       *)

NextIs(do) == queue # <<>> /\ Head(queue).do = do
Free(w) == running[w] = None
Is(w, do) == running[w] # None /\ running[w].do = do
Take(w) == running' = [running EXCEPT ![w] = Head(queue)] /\ queue' = Tail(queue)
Done(c, result) == outcome' = [outcome EXCEPT ![c] = result]

\* rados_notify2 is called, and its lock held until it returns.
StartNotify(w) ==
  /\ Free(w) /\ NextIs("notify") /\ ~ioClosed
  /\ Take(w)
  /\ note' = [note EXCEPT ![Head(queue).of] = "sent"]
  /\ UNCHANGED <<outcome, promise, watch, ioClosed, timedOut, awaited>>

\* Mutant: the exception leaves Execute, and no callback follows.
RefuseUncaught(w) ==
  /\ Free(w) /\ NextIs("notify") /\ ioClosed
  /\ queue' = Tail(queue)
  /\ UNCHANGED <<running, outcome, promise, note, watch, ioClosed, timedOut, awaited>>

RefuseNotify(w) ==
  /\ Free(w) /\ NextIs("notify") /\ ioClosed
  /\ queue' = Tail(queue) /\ Done(Head(queue).of, "error")
  /\ UNCHANGED <<running, promise, note, watch, ioClosed, timedOut, awaited>>

\* The worker of ObjectWatchWrap::Ack: done at once.
RunAck(w) ==
  /\ Free(w) /\ NextIs("ack")
  /\ queue' = Tail(queue)
  /\ note' = [note EXCEPT ![Head(queue).of] = IF ioClosed THEN "lost" ELSE "acked"]
  /\ UNCHANGED <<running, outcome, promise, watch, ioClosed, timedOut, awaited>>

\* Data::close: the exchange.
StartUnwatch(w) ==
  /\ Free(w) /\ NextIs("unwatch")
  /\ Take(w) /\ closed' = TRUE
  /\ UNCHANGED <<outcome, promise, note, jsClosed, watched, ioClosed, timedOut, awaited>>

\* Mutant: the exchange is tested the wrong way round, and nothing done.
EndUnwatchSkipped(w) ==
  /\ Is(w, "unwatch")
  /\ running' = [running EXCEPT ![w] = None] /\ Done(running[w].of, "ok")
  /\ UNCHANGED <<queue, promise, note, watch, ioClosed, timedOut, awaited>>

\* rados_unwatch2 and the flush, which may fail, the release and remove_child.
EndUnwatch(w) ==
  /\ Is(w, "unwatch")
  /\ watched' = FALSE
  /\ running' = [running EXCEPT ![w] = None]
  /\ \E result \in {"ok", "code"} : Done(running[w].of, result)
  /\ UNCHANGED <<queue, promise, note, jsClosed, closed, ioClosed, timedOut, awaited>>

\* Mutant: children_ is not looked at.
StartDestroyUnchecked(w) ==
  /\ Free(w) /\ NextIs("destroy")
  /\ Take(w) /\ UNCHANGED outcome
  /\ UNCHANGED <<promise, note, watch, ioClosed, timedOut, awaited>>

\* close_checked: -EBUSY, or on to close_now.
StartDestroy(w) ==
  /\ Free(w) /\ NextIs("destroy")
  /\ IF watched THEN queue' = Tail(queue) /\ Done(Head(queue).of, "code") /\ UNCHANGED running
                ELSE Take(w) /\ UNCHANGED outcome
  /\ UNCHANGED <<promise, note, watch, ioClosed, timedOut, awaited>>

Held == \E w \in Worker : Is(w, "notify")

\* close_now takes the exclusive lock once no call holds a shared one; it does
\* not keep further ones out while it waits.
EndDestroy(w) ==
  /\ Is(w, "destroy") /\ ~Held
  /\ ioClosed' = TRUE
  /\ running' = [running EXCEPT ![w] = None] /\ Done(running[w].of, "ok")
  /\ UNCHANGED <<queue, promise, note, watch, timedOut, awaited>>

Answered(n) == note[n] = "acked" \/ ~watched

\* Every watcher has acknowledged, or is gone.
Answer(w) ==
  /\ Is(w, "notify") /\ Answered(running[w].of)
  /\ running' = [running EXCEPT ![w] = None] /\ Done(running[w].of, "ok")
  /\ UNCHANGED <<queue, promise, note, watch, ioClosed, timedOut, awaited>>

-----------------------------------------------------------------------------
(* Ceph.                                                                   *)

\* object_watch_cb: queued for JavaScript, unless Data::closed.
Deliver(n) ==
  /\ note[n] = "sent" /\ watched
  /\ note' = [note EXCEPT ![n] = IF closed THEN "lost" ELSE "queued"]
  /\ UNCHANGED <<queue, running, outcome, promise, watch, ioClosed, timedOut, awaited>>

\* Nothing else in the process can take a step that a notify may wait for.
Stuck ==
  /\ queue = <<>> \/ \A w \in Worker : ~Free(w)
  /\ \A w \in Worker : ~Is(w, "unwatch") /\ (Is(w, "notify") => ~Answered(running[w].of))
  /\ \A n \in Notify : note[n] \notin {"sent", "queued"}

TimeOut(w) ==
  /\ Stuck /\ Is(w, "notify")
  /\ timedOut' = timedOut \cup {running[w].of}
  /\ running' = [running EXCEPT ![w] = None] /\ Done(running[w].of, "code")
  /\ UNCHANGED <<queue, promise, note, watch, ioClosed, awaited>>

-----------------------------------------------------------------------------
Step(w) ==
  \/ StartNotify(w) \/ RefuseNotify(w) \/ Answer(w) \/ TimeOut(w) \/ RunAck(w)
  \/ StartUnwatch(w) \/ EndUnwatch(w) \/ StartDestroy(w) \/ EndDestroy(w)

Next ==
  \/ \E w \in Worker : Step(w)
  \/ \E n \in Notify : CallNotify(n) \/ Dispatch(n) \/ Deliver(n)
  \/ \E c \in WatchClose : CallWatchClose(c) \/ CloseWatchAgain(c)
  \/ \E c \in IoClose : CallIoClose(c)
  \/ \E c \in Call : Settle(c)

\* Workers run, the event loop turns, Ceph delivers.  The client owes nothing.
Fairness ==
  /\ \A w \in Worker : WF_vars(Step(w))
  /\ \A n \in Notify : WF_vars(Dispatch(n)) /\ WF_vars(Deliver(n))
  /\ \A c \in Call : WF_vars(Settle(c))

Spec == Init /\ [][Next]_vars /\ Fairness
-----------------------------------------------------------------------------
(* Properties.                                                             *)

\* common.h:95-120.  Every promise settles: whatever its job throws or returns, and
\* whichever workers wait for one another or for the lock.
Settles == \A c \in Call : promise[c] = "pending" ~> promise[c] \in {"resolved", "rejected"}

\* Where the job of a call is.
Waits(c, i) == queue[i].do # "ack" /\ queue[i].of = c
Holds(c, w) == ~Free(w) /\ running[w].of = c

\* common.h:90-123.  A promise that is pending has its job in the queue or on a worker,
\* once, or its outcome; no other call has a job.  So none is forgotten, whatever its
\* job throws, run twice or settled twice.
PendingIsAtWork ==
  \A c \in Call :
    /\ promise[c] = "pending" /\ outcome[c] = "none" <=>
         (\E i \in DOMAIN queue : Waits(c, i)) \/ (\E w \in Worker : Holds(c, w))
    /\ \A i \in DOMAIN queue : Waits(c, i) =>
         /\ \A j \in DOMAIN queue : Waits(c, j) => i = j
         /\ \A w \in Worker : ~Holds(c, w)
    /\ \A v, w \in Worker : Holds(c, v) /\ Holds(c, w) => v = w

\* io_context.cpp:180, index.ts:209.  A notify of a process that watches the object
\* itself times out only if notifies have taken every worker: one worker left is
\* enough for the acknowledgement, or for the close, that each of them waits for.
TimesOutOnlyWhenFull ==
  [][timedOut' # timedOut => \A w \in Worker : Is(w, "notify")]_vars

\* common.h:41-60, index.ts:211.  A close that ran and has resolved has closed: the
\* watch is unregistered and no longer counted, the context destroyed, after the last
\* notify.  (A second close() of the watch runs nothing, and says nothing.)
ResolvedIsClosed ==
  /\ WatchIsClosed => ~watched
  /\ \A c \in IoClose : promise[c] = "resolved" => ioClosed /\ ~watched /\ ~Held

\* README.md:80-82.  Teardown in the documented order, each close awaited, never
\* meets EBUSY.
TeardownSucceeds == \A c \in awaited : promise[c] # "rejected"
=============================================================================
