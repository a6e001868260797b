----------------------------- MODULE ResourceTree ----------------------------
(***************************************************************************)
(* The tree of native resources of the addon: clusters, the I/O contexts   *)
(* opened on them, the images opened on those, and the subscriptions that  *)
(* any of them carries.  JavaScript calls start operations; an operation   *)
(* runs on the JS thread or on a worker of the libuv pool and goes through *)
(* the steps of HandleState, which interleave with those of every other    *)
(* thread.  A worker that is handed a job is taken to have started it: a   *)
(* job still queued only keeps its references, as one at its first step.   *)
(* Every handle and subscription is opened at most once in a behaviour.    *)
(***************************************************************************)
EXTENDS HandleState, FiniteSets

CONSTANTS Cluster, Io, Image,  \* the handles, by kind
          Parent,              \* Io -> Cluster, Image -> Io
          Sub,                 \* object watches, monitor logs, update watches
          Source,              \* the handle a subscription is made on
          JS,                  \* the JavaScript thread
          Lapses               \* what the client does not take care of

Worker == Thread \ {JS}

ASSUME TreeAssumption ==
  /\ Handle = Cluster \cup Io \cup Image
  /\ Cluster \cap Io = {} /\ Cluster \cap Image = {} /\ Io \cap Image = {}
  /\ Parent \in [Io \cup Image -> Cluster \cup Io]
  /\ \A i \in Io : Parent[i] \in Cluster
  /\ \A i \in Image : Parent[i] \in Io
  /\ Source \in [Sub -> Handle]
  /\ Sub \cap Handle = {} /\ Nobody \notin Sub
  /\ JS \in Thread

\* A client makes finitely many handles and subscriptions.
ASSUME FiniteAssumption == IsFiniteSet(Handle) /\ IsFiniteSet(Sub)

\* "overlap": a close is issued while an open or a watch on the same handle is
\* outstanding, or the other way round.  "orphan": the IoContext object becomes
\* garbage while an RbdPool made from it is in use.
ASSUME LapsesAssumption == Lapses \subseteq {"overlap", "orphan"}

VARIABLES wrapper,  \* the JS object of a handle, as the collector sees it
          pool,     \* is an RbdPool object made from the context reachable?
          sub,      \* the Data of a subscription: how far it has come
          watcher,  \* does the JS object of the subscription exist?
          running,  \* does the JS environment still run scripts?
          pc,       \* the next step of each thread
          on,       \* the handle its operation is about
          kid       \* the handle or subscription it opens or closes there

treeVars == <<wrapper, pool, sub, watcher, running, pc, on, kid>>
vars == <<handleVars, treeVars>>

\* pc while the thread waits for a shared lock |-> pc inside the native call.
Inside == [use |-> "using", again |-> "reusing", open |-> "opening",
           register |-> "registering", unregister |-> "unregistering", flush |-> "flushing"]
Waiting == DOMAIN Inside
Holding == {"using", "reusing", "opening", "created", "registering", "refused",
            "unregistering", "unregistered", "flushing"}
Destroying == {"destroy", "unlink", "unlock"}
PC == Waiting \cup Holding \cup Destroying \cup
      {"idle", "link", "settle", "exchange", "release", "close", "claim", "aborted"}

TreeTypeOK ==
  /\ wrapper \in [Handle -> {"absent", "pending", "connecting", "registered",
                             "unregistered", "finalizing", "collected", "freed"}]
  /\ pool    \in [Io -> BOOLEAN]
  /\ sub     \in [Sub -> {"absent", "counted", "live", "closed", "off", "done", "stranded"}]
  /\ watcher \in [Sub -> BOOLEAN]
  /\ running \in BOOLEAN
  /\ pc      \in [Thread -> PC]
  /\ on      \in [Thread -> Handle \cup {Nobody}]
  /\ kid     \in [Thread -> Handle \cup Sub \cup {Nobody}]

TypeOK == HandleTypeOK /\ TreeTypeOK

Init ==
  /\ HandleInit
  /\ wrapper = [h \in Handle |-> "absent"]
  /\ pool    = [i \in Io |-> FALSE]
  /\ sub     = [s \in Sub |-> "absent"]
  /\ watcher = [s \in Sub |-> FALSE]
  /\ running = TRUE
  /\ pc      = [t \in Thread |-> "idle"]
  /\ on      = [t \in Thread |-> Nobody]
  /\ kid     = [t \in Thread |-> Nobody]

-----------------------------------------------------------------------------
(* References.  JS reaches the wrapper of a handle until it is dropped; a   *)
(* HandleState lives while a wrapper, a job, a child's close_ closure or    *)
(* the Data of a subscription holds a shared_ptr to it.                     *)

Reachable(h) == wrapper[h] \in {"registered", "unregistered"}

Watched(s) == watcher[s] \/ \E t \in Thread : kid[t] = s

\* The shared_ptrs of Data: the source, and the cluster for an object watch.
HeldBySub(s) == {Source[s]} \cup (IF Source[s] \in Io THEN {Parent[Source[s]]} ELSE {})

Referenced(h) ==
  \/ \E t \in Thread : on[t] = h \/ kid[t] = h
  \/ h \in Io /\ pool[h]
  \/ \E k \in DOMAIN Parent : Parent[k] = h /\ wrapper[k] \notin {"absent", "freed"}
  \/ \E s \in Sub : Watched(s) /\ h \in HeldBySub(s)

Busy(h, steps) == \E t \in Thread : on[t] = h /\ pc[t] \in steps

Closing(h) == Busy(h, {"close", "claim"} \cup Destroying)
Opening(h) == \E t \in Thread : on[t] = h /\ kid[t] # Nobody
                  /\ pc[t] \in {"open", "opening", "created", "using", "link", "register",
                                "registering", "refused"}

MayOpenOn(h)  == "overlap" \in Lapses \/ ~Closing(h)
MayClose(h)   == "overlap" \in Lapses \/ ~Opening(h)
MayAbandon(h) == h \in Io /\ pool[h] => "orphan" \in Lapses

-----------------------------------------------------------------------------
(* Moves of a thread.                                                      *)

Start(t, step, h, k) ==
  /\ pc[JS] = "idle"   \* calls and collections are made by the JS thread
  /\ pc[t] = "idle"
  /\ pc' = [pc EXCEPT ![t] = step]
  /\ on' = [on EXCEPT ![t] = h]
  /\ kid' = [kid EXCEPT ![t] = k]

At(t, step) == pc[t] = step

Goto(t, step) == pc' = [pc EXCEPT ![t] = step] /\ UNCHANGED <<on, kid>>

Finish(t) ==
  /\ pc' = [pc EXCEPT ![t] = "idle"]
  /\ on' = [on EXCEPT ![t] = Nobody]
  /\ kid' = [kid EXCEPT ![t] = Nobody]

-----------------------------------------------------------------------------
(* What JavaScript starts.                                                 *)

\* Cluster.connect: the NativeCluster constructor, then rados_connect awaited
\* before the Cluster object exists.  The configuration calls in between run
\* on the JS thread, which nothing else can reach the handle from.
Connect(w, c) ==
  /\ running /\ wrapper[c] = "absent"
  /\ Start(w, "use", c, Nobody)
  /\ CreateNative(c)
  /\ wrapper' = [wrapper EXCEPT ![c] = "connecting"]
  /\ UNCHANGED <<pool, sub, watcher, running>>

\* new Cluster(handle) registers the finalizer.
Connected(c) ==
  /\ pc[JS] = "idle"
  /\ wrapper[c] = "connecting" /\ ~\E t \in Thread : on[t] = c
  /\ wrapper' = [wrapper EXCEPT ![c] = "registered"]
  /\ UNCHANGED <<handleVars, pool, sub, watcher, running, pc, on, kid>>

\* The catch branch of connect: close the handle nobody else has seen.
ConnectFailed(w, c) ==
  /\ wrapper[c] = "connecting" /\ ~\E t \in Thread : on[t] = c
  /\ Start(w, "close", c, Nobody)
  /\ wrapper' = [wrapper EXCEPT ![c] = "collected"]
  /\ UNCHANGED <<handleVars, pool, sub, watcher, running>>

\* The operations that use() a handle and change nothing else here: synchronous
\* ones run on the JS thread, the others on a worker.
Use(t, h) ==
  /\ Start(t, "use", h, Nobody)
  /\ UNCHANGED <<handleVars, wrapper, pool, sub, watcher, running>>

UseCluster(t, c) == Reachable(c) /\ Use(t, c)
UseIoContext(t, i) == Reachable(i) /\ Use(t, i)
UseImage(w, k) == Reachable(k) /\ Use(w, k)

\* An RbdPool shares the IoState of the context it was made from, and calls it
\* whether or not anything else still reaches that context.
UsePool(w, i) == pool[i] /\ Use(w, i)

\* ObjectWatch.ack calls the context through Data.
Ack(w, s) == running /\ watcher[s] /\ Source[s] \in Io /\ Use(w, Source[s])

\* Cluster.ioContext, on the JS thread.
OpenIoContext(i) ==
  /\ Reachable(Parent[i]) /\ wrapper[i] = "absent"
  /\ MayOpenOn(Parent[i])
  /\ Start(JS, "open", Parent[i], i)
  /\ UNCHANGED <<handleVars, wrapper, pool, sub, watcher, running>>

\* RbdPool.open, on a worker.
OpenImage(w, k) ==
  /\ pool[Parent[k]] /\ wrapper[k] = "absent" /\ native[k] = "none"
  /\ ~\E t \in Thread : kid[t] = k
  /\ MayOpenOn(Parent[k])
  /\ Start(w, "open", Parent[k], k)
  /\ UNCHANGED <<handleVars, wrapper, pool, sub, watcher, running>>

\* IoContext.rbd takes no lock and asks nothing of the handle.
Rbd(i) ==
  /\ pc[JS] = "idle" /\ Reachable(i) /\ ~pool[i]
  /\ pool' = [pool EXCEPT ![i] = TRUE]
  /\ UNCHANGED <<handleVars, wrapper, sub, watcher, running, pc, on, kid>>

\* close() of the three classes: unregister the finalizer, then close_checked.
Close(w, h) ==
  /\ Reachable(h)
  /\ MayClose(h)
  /\ Start(w, "close", h, Nobody)
  /\ wrapper' = [wrapper EXCEPT ![h] = "unregistered"]
  /\ UNCHANGED <<handleVars, pool, sub, watcher, running>>

\* Create of the three subscriptions counts the child before it registers it.
Subscribe(s) ==
  /\ Reachable(Source[s]) /\ sub[s] = "absent"
  /\ MayOpenOn(Source[s])
  /\ Start(JS, "register", Source[s], s)
  /\ AddChild(Source[s])
  /\ sub' = [sub EXCEPT ![s] = "counted"]
  /\ UNCHANGED <<wrapper, pool, watcher, running>>

Unsubscribe(w, s) ==
  /\ running /\ watcher[s]
  /\ Start(w, "exchange", Source[s], s)
  /\ UNCHANGED <<handleVars, wrapper, pool, sub, watcher, running>>

-----------------------------------------------------------------------------
(* What the collector does.  A close in progress keeps `this` in the frame  *)
(* of its async function, as does RbdPool.open, so neither is collected.    *)

DropPool(i) ==
  /\ pc[JS] = "idle" /\ pool[i] /\ ~Busy(i, {"open", "opening", "created", "link", "settle"})
  /\ pool' = [pool EXCEPT ![i] = FALSE]
  /\ UNCHANGED <<handleVars, wrapper, sub, watcher, running, pc, on, kid>>

\* The TypeScript object is gone; the finalizer, while registered, keeps the
\* native one.
Drop(h) ==
  /\ pc[JS] = "idle" /\ Reachable(h) /\ ~Closing(h)
  /\ MayAbandon(h)
  /\ wrapper' = [wrapper EXCEPT ![h] = IF @ = "registered" THEN "finalizing" ELSE "collected"]
  /\ UNCHANGED <<handleVars, pool, sub, watcher, running, pc, on, kid>>

\* The FinalizationRegistry callback: an asynchronous close, errors ignored.
Finalize(w, h) ==
  /\ wrapper[h] = "finalizing"
  /\ Start(w, "close", h, Nobody)
  /\ wrapper' = [wrapper EXCEPT ![h] = "collected"]
  /\ UNCHANGED <<handleVars, pool, sub, watcher, running>>

\* Mutant: the destructor leaves the native handle open.
DestructOnly(h) ==
  /\ pc[JS] = "idle"
  /\ wrapper[h] = "collected" /\ ~Referenced(h)
  /\ wrapper' = [wrapper EXCEPT ![h] = "freed"]
  /\ UNCHANGED <<handleVars, pool, sub, watcher, running, pc, on, kid>>

\* ~HandleState, when the last shared_ptr goes: close_now without the check.
\* Jobs, wrappers and Data are all released on the JS thread.
Destruct(h) ==
  /\ wrapper[h] = "collected" /\ ~Referenced(h)
  /\ wrapper' = [wrapper EXCEPT ![h] = "freed"]
  /\ Start(JS, "claim", h, Nobody)
  /\ UNCHANGED <<handleVars, pool, sub, watcher, running>>

\* The environment ends: nothing is reachable from scripts any more, and the
\* native objects are destroyed one by one in an order nothing prescribes.
Exit ==
  /\ pc[JS] = "idle" /\ running
  /\ running' = FALSE
  /\ pool' = [i \in Io |-> FALSE]
  /\ wrapper' = [h \in Handle |->
       IF wrapper[h] \in {"connecting", "registered", "unregistered", "finalizing"}
       THEN "collected" ELSE wrapper[h]]
  /\ UNCHANGED <<handleVars, sub, watcher, pc, on, kid>>

\* The destructor of a subscription's native object closes it if nobody did.
\* While scripts run, the callback that Release has yet to free reaches it.
DropWatcher(s) ==
  /\ pc[JS] = "idle" /\ watcher[s] /\ ~\E t \in Thread : kid[t] = s
  /\ running => sub[s] = "done"
  /\ watcher' = [watcher EXCEPT ![s] = FALSE]
  /\ IF sub[s] = "live" THEN Start(JS, "exchange", Source[s], s)
                        ELSE UNCHANGED <<pc, on, kid>>
  /\ UNCHANGED <<handleVars, wrapper, pool, sub, running>>

-----------------------------------------------------------------------------
(* Steps of a thread inside an operation: use().                           *)

Enter(t) ==
  /\ pc[t] \in Waiting
  /\ BeginUse(t, on[t])
  /\ Goto(t, Inside[pc[t]])
  /\ UNCHANGED <<wrapper, pool, sub, watcher, running>>

\* The throw skips the rest of Create or Data::close: the child stays counted
\* and the callback is never released.  Out of a destructor it ends the process.
Refuse(t) ==
  /\ pc[t] \in Waiting
  /\ RefuseUse(on[t])
  /\ sub' = [s \in Sub |-> IF s = kid[t] THEN "stranded" ELSE sub[s]]
  /\ IF t = JS /\ pc[t] \in {"unregister", "flush"} THEN Goto(t, "aborted") ELSE Finish(t)
  /\ UNCHANGED <<wrapper, pool, watcher, running>>

\* A listing or a buffer that was too short: the operation calls use() again,
\* with nothing locked in between.  Its loops are bounded by a second call.
UseAgain(t) ==
  /\ At(t, "using") /\ kid[t] = Nobody
  /\ EndUse(t, on[t])
  /\ Goto(t, "again")
  /\ UNCHANGED <<wrapper, pool, sub, watcher, running>>

\* A use() that ends its operation, as a failed open does.
Leave(t) ==
  /\ pc[t] \in {"using", "reusing"}
  /\ EndUse(t, on[t])
  /\ Finish(t)
  /\ UNCHANGED <<wrapper, pool, sub, watcher, running>>

(* rados_ioctx_create and rbd_open, then add_child outside the lock.       *)

OpenNative(t) ==
  /\ At(t, "opening")
  /\ CreateNative(kid[t])
  /\ Goto(t, "created")
  /\ UNCHANGED <<wrapper, pool, sub, watcher, running>>

OpenFails(t) ==
  /\ At(t, "opening")
  /\ Goto(t, "using")
  /\ UNCHANGED <<handleVars, wrapper, pool, sub, watcher, running>>

\* Mutant: the lock is held until the promise is settled.
LeaveOpenHeld(t) ==
  /\ At(t, "created")
  /\ Goto(t, "link")
  /\ UNCHANGED <<handleVars, wrapper, pool, sub, watcher, running>>

LeaveOpen(t) ==
  /\ At(t, "created")
  /\ EndUse(t, on[t])
  /\ Goto(t, "link")
  /\ UNCHANGED <<wrapper, pool, sub, watcher, running>>

\* add_child and the new HandleState; an image still lacks its JS object.
Link(t) ==
  /\ At(t, "link")
  /\ AddChild(on[t])
  /\ wrapper' = [wrapper EXCEPT ![kid[t]] = IF t = JS THEN "registered" ELSE "pending"]
  /\ IF t = JS THEN Finish(t) ELSE Goto(t, "settle")
  /\ UNCHANGED <<pool, sub, watcher, running>>

\* OnOK of the worker, on the JS thread.
Settle(t) ==
  /\ At(t, "settle") /\ pc[JS] = "idle"
  /\ wrapper' = [wrapper EXCEPT ![kid[t]] = IF running THEN "registered" ELSE "collected"]
  /\ Finish(t)
  /\ UNCHANGED <<handleVars, pool, sub, watcher, running>>

(* Create and Data::close of a subscription.                               *)

Register(t) ==
  /\ At(t, "registering")
  /\ sub' = [sub EXCEPT ![kid[t]] = "live"]
  /\ watcher' = [watcher EXCEPT ![kid[t]] = TRUE]
  /\ Goto(t, "using")
  /\ UNCHANGED <<handleVars, wrapper, pool, running>>

RegisterFails(t) ==
  /\ At(t, "registering")
  /\ sub' = [sub EXCEPT ![kid[t]] = "off"]   \* data->closed = true
  /\ Goto(t, "refused")
  /\ UNCHANGED <<handleVars, wrapper, pool, watcher, running>>

LeaveRefused(t) ==
  /\ At(t, "refused")
  /\ EndUse(t, on[t])
  /\ Goto(t, "release")
  /\ UNCHANGED <<wrapper, pool, sub, watcher, running>>

\* Mutant: the result of closed.exchange is not looked at.
ExchangeIgnored(t) ==
  /\ At(t, "exchange")
  /\ sub' = [sub EXCEPT ![kid[t]] = "closed"] /\ Goto(t, "unregister")
  /\ UNCHANGED <<handleVars, wrapper, pool, watcher, running>>

\* closed.exchange(true)
Exchange(t) ==
  /\ At(t, "exchange")
  /\ IF sub[kid[t]] = "live"
     THEN sub' = [sub EXCEPT ![kid[t]] = "closed"] /\ Goto(t, "unregister")
     ELSE UNCHANGED sub /\ Finish(t)
  /\ UNCHANGED <<handleVars, wrapper, pool, watcher, running>>

\* rados_unwatch2, rbd_update_unwatch, rados_monitor_log2(nullptr)
Unregister(t) ==
  /\ At(t, "unregistering")
  /\ sub' = [sub EXCEPT ![kid[t]] = "off"]
  /\ Goto(t, "unregistered")
  /\ UNCHANGED <<handleVars, wrapper, pool, watcher, running>>

\* An object watch goes on to flush the callbacks through its cluster.
LeaveUnregister(t) ==
  /\ At(t, "unregistered")
  /\ EndUse(t, on[t])
  /\ IF on[t] \in Io
     THEN /\ pc' = [pc EXCEPT ![t] = "flush"]
          /\ on' = [on EXCEPT ![t] = Parent[@]]
          /\ UNCHANGED kid
     ELSE Goto(t, "release")
  /\ UNCHANGED <<wrapper, pool, sub, watcher, running>>

\* Mutant: the wrong object is released after the flush.
LeaveFlushAstray(t) ==
  /\ At(t, "flushing")
  /\ EndUse(t, on[t])
  /\ pc' = [pc EXCEPT ![t] = "release"]
  /\ on' = [on EXCEPT ![t] = kid[t]]
  /\ UNCHANGED <<wrapper, pool, sub, watcher, running, kid>>

LeaveFlush(t) ==
  /\ At(t, "flushing")
  /\ EndUse(t, on[t])
  /\ pc' = [pc EXCEPT ![t] = "release"]
  /\ on' = [on EXCEPT ![t] = Source[kid[t]]]
  /\ UNCHANGED <<wrapper, pool, sub, watcher, running, kid>>

\* callback.Release() and remove_child()
Release(t) ==
  /\ At(t, "release")
  /\ RemoveChild(on[t])
  /\ sub' = [sub EXCEPT ![kid[t]] = "done"]
  /\ Finish(t)
  /\ UNCHANGED <<wrapper, pool, watcher, running>>

(* close_checked and close_now.                                            *)

\* Mutant: close() calls close_now.
CheckNothing(t) ==
  /\ At(t, "close")
  /\ Goto(t, "claim")
  /\ UNCHANGED <<handleVars, wrapper, pool, sub, watcher, running>>

CheckChildren(t) ==
  /\ At(t, "close")
  /\ IF HasChildren(on[t]) THEN Finish(t)   \* -EBUSY
                           ELSE Goto(t, "claim")
  /\ UNCHANGED <<handleVars, wrapper, pool, sub, watcher, running>>

Claim(t) ==
  /\ At(t, "claim")
  /\ \/ BeginClose(t, on[t]) /\ Goto(t, "destroy")
     \/ CloseAgain(on[t]) /\ Finish(t)
  /\ UNCHANGED <<wrapper, pool, sub, watcher, running>>

Destroy(t) ==
  /\ At(t, "destroy")
  /\ DestroyNative(on[t])
  /\ Goto(t, IF on[t] \in Cluster THEN "unlock" ELSE "unlink")
  /\ UNCHANGED <<wrapper, pool, sub, watcher, running>>

\* parent->remove_child(), still under the child's lock
Unlink(t) ==
  /\ At(t, "unlink")
  /\ RemoveChild(Parent[on[t]])
  /\ Goto(t, "unlock")
  /\ UNCHANGED <<wrapper, pool, sub, watcher, running>>

Unlock(t) ==
  /\ At(t, "unlock")
  /\ EndClose(on[t])
  /\ Finish(t)
  /\ UNCHANGED <<wrapper, pool, sub, watcher, running>>

-----------------------------------------------------------------------------
Call ==
  \/ \E c \in Cluster : Connected(c) \/ \E w \in Worker : Connect(w, c) \/ ConnectFailed(w, c)
  \/ \E c \in Cluster, t \in Thread : UseCluster(t, c)
  \/ \E i \in Io : (\E t \in Thread : UseIoContext(t, i)) \/ \E w \in Worker : UsePool(w, i)
  \/ \E k \in Image, w \in Worker : UseImage(w, k) \/ OpenImage(w, k)
  \/ \E i \in Io : OpenIoContext(i) \/ Rbd(i)
  \/ \E h \in Handle, w \in Worker : Close(w, h)
  \/ \E s \in Sub : Subscribe(s) \/ \E w \in Worker : Unsubscribe(w, s) \/ Ack(w, s)

Collect ==
  \/ \E i \in Io : DropPool(i)
  \/ \E h \in Handle : Drop(h) \/ Destruct(h) \/ \E w \in Worker : Finalize(w, h)
  \/ \E s \in Sub : DropWatcher(s)
  \/ Exit

Step(t) ==
  \/ Enter(t) \/ Refuse(t) \/ UseAgain(t) \/ Leave(t)
  \/ OpenNative(t) \/ OpenFails(t) \/ LeaveOpen(t) \/ Link(t) \/ Settle(t)
  \/ Register(t) \/ RegisterFails(t) \/ LeaveRefused(t)
  \/ Exchange(t) \/ Unregister(t) \/ LeaveUnregister(t) \/ LeaveFlush(t) \/ Release(t)
  \/ CheckChildren(t) \/ Claim(t) \/ Destroy(t) \/ Unlink(t) \/ Unlock(t)

Next == Call \/ Collect \/ \E t \in Thread : Step(t)

\* A thread that can step does: native calls return and the scheduler is fair.
\* Nothing is assumed of the client or of the collector.
Fairness == \A t \in Thread : WF_vars(Step(t))

Spec == Init /\ [][Next]_vars /\ Fairness
-----------------------------------------------------------------------------
(* Properties.                                                             *)

\* common.h:35-48.  While a thread is inside a native call, the object it calls
\* is live and no thread is closing it, whatever opens, closes, collections and
\* retries went before; and a thread that goes on to destroy an object is alone
\* with it, and the first to do so.
NoUseAfterDestroy ==
  /\ \A h \in Handle : readers[h] # {} => native[h] = "live" /\ writer[h] = Nobody
  /\ \A t \in Thread : pc[t] = "destroy" => native[on[t]] = "live" /\ writer[on[t]] = t

\* common.h:55-56 against its nine callers.  children_ is the number of child
\* handles and subscriptions that will still give their count back, plus those
\* an exception kept from ever doing so: no path counts twice or forgets one.
Linked(k) ==
  /\ wrapper[k] # "absent"
  /\ native[k] = "live" \/ Busy(k, {"unlink"})
ChildCountExact ==
  \A h \in Handle :
    children[h] =
      Cardinality({k \in DOMAIN Parent : Parent[k] = h /\ Linked(k)})
      + Cardinality({s \in Sub : Source[s] = h /\ sub[s] \notin {"absent", "done"}})

\* common.h:57-60: -EBUSY is there so that a handle outlives what was opened on
\* it.  A live child, or a registration in Ceph, has a live parent.
ParentOutlivesChild ==
  /\ \A k \in DOMAIN Parent : native[k] = "live" => native[Parent[k]] = "live"
  /\ \A s \in Sub : sub[s] \in {"live", "closed"} => native[Source[s]] = "live"

\* events.cpp:26-34, 104: an exception strands a subscription only when it was
\* asked for on a handle that was closed already; closing one never throws, so
\* the destructors that close it (events.cpp:128-130) never end the process.
TeardownNeverThrows ==
  /\ pc[JS] # "aborted"
  /\ \A s \in Sub : sub[s] = "stranded" => closed[Source[s]] /\ ~watcher[s]

\* common.h:29 with index.ts:12: once the collector has freed every object and
\* no operation runs, nothing is left open in Ceph, in whatever order objects
\* were dropped and however many finalizer closes were refused.
NothingLeaks ==
  (/\ \A h \in Handle : wrapper[h] \in {"absent", "freed"}
   /\ \A t \in Thread : pc[t] = "idle")
  => /\ \A h \in Handle : native[h] # "live"
     /\ \A s \in Sub : sub[s] \in {"absent", "done", "stranded"}

\* The addon keeps the rules of librados and librbd: every step is one of
\* Lifecycle's or changes nothing there.  Whatever the client neglects, no call
\* meets an object that does not live and none is freed under a call or twice;
\* if it neglects nothing, none is freed under what was opened on it either.
Registered == {s \in Sub : sub[s] \in {"live", "closed"}}
Ceph == INSTANCE Lifecycle
  WITH calls <- readers, registered <- Registered, Careful <- (Lapses = {})
KeepsCephRules == Ceph!Spec

\* The threads that one waits for: those that hold the mutex it wants, or the JS
\* thread, which is to run its OnOK.
WaitsFor(t) ==
  {u \in Thread :
     \/ pc[t] \in Waiting \cup {"claim"} /\ writer[on[t]] = u
     \/ pc[t] = "claim" /\ u \in readers[on[t]]
     \/ pc[t] = "settle" /\ u = JS /\ pc[JS] # "idle"}

\* common.h:36, 42: no threads wait for one another in a circle, on whichever
\* handles, closes and destructors.  Who waits for a mutex waits for threads that
\* are at work and wait for nobody; who waits for the JS thread, whose destructors
\* take mutexes too, waits at most for what that one waits for.
NoDeadlock ==
  \A t, u \in Thread : u \in WaitsFor(t) =>
    /\ pc[u] # "idle"
    /\ \/ WaitsFor(u) = {}
       \/ pc[t] = "settle" /\ \A v \in WaitsFor(u) : WaitsFor(v) = {}

\* And that is all there is to wait for: an operation that waits for nobody can
\* take its next step, be its handle open, closed or never to be closed.
FreeToStep ==
  \A t \in Thread :
    pc[t] \notin {"idle", "aborted"} /\ WaitsFor(t) = {} => ENABLED Step(t)

\* common.h:36, 42: no set of operations waits for each other's locks for ever.
\* When no new operation is started, every thread gets done.
Started == \E t \in Thread : pc[t] = "idle" /\ pc'[t] # "idle"
OperationsEnd ==
  <>[][~Started]_vars => <>[](\A t \in Thread : pc[t] \in {"idle", "aborted"})
=============================================================================
