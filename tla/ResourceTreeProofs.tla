-------------------------- MODULE ResourceTreeProofs -------------------------
(***************************************************************************)
(* What holds of the tree for every set of handles, subscriptions and      *)
(* threads.  Whatever the client neglects: TypeOK, NoUseAfterDestroy,      *)
(* ChildCountExact, NothingLeaks, NoDeadlock, WaitsOrSteps,                *)
(* OperationsAdvance, StrandedUnderClosed, and that it implements          *)
(* Lifecycle (KeepsCephRules).  Of a client that neglects nothing          *)
(* (Lapses = {}): ParentOutlivesChild and TeardownNeverThrows.             *)
(*                                                                         *)
(* The mutex of a handle protects its native object only because of where  *)
(* the threads are: Locks says that the holders of a mutex are exactly the *)
(* threads at a step inside it, Places what on and kid are at each step,   *)
(* and Exists that an operation only ever reaches a handle that was made,  *)
(* so that "not closed" means live.  Their conjunction, IInv, is           *)
(* inductive; TreeInv and CareInv, below, build on it.                     *)
(***************************************************************************)
EXTENDS ResourceTree, FiniteSetTheorems, TLAPS

\* Who holds a mutex is inside its section, and the other way round.
Locks ==
  /\ \A t \in Thread : pc[t] \in Holding => t \in readers[on[t]]
  /\ \A h \in Handle : \A t \in readers[h] : on[t] = h /\ pc[t] \in Holding
  /\ \A t \in Thread : pc[t] \in Destroying => writer[on[t]] = t
  /\ \A h \in Handle : writer[h] # Nobody =>
       readers[h] = {} /\ on[writer[h]] = h /\ pc[writer[h]] \in Destroying

\* The steps of an open, and those of a subscription or its close on its source.
OpenSteps == {"open", "opening", "created", "link", "settle"}
SubSteps == {"register", "registering", "refused", "exchange", "unregister",
             "unregistering", "unregistered", "release"}

\* What a thread is at work on, by its step.
Places ==
  \A t \in Thread :
    /\ pc[t] # "idle" => on[t] \in Handle
    /\ pc[t] \in OpenSteps => kid[t] \in Io \cup Image /\ on[t] = Parent[kid[t]]
    /\ pc[t] \in SubSteps => kid[t] \in Sub /\ on[t] = Source[kid[t]]
    /\ pc[t] \in {"flush", "flushing"} => kid[t] \in Sub /\ Source[kid[t]] \in Io
                                          /\ on[t] = Parent[Source[kid[t]]]
    /\ pc[t] = "unlink" => on[t] \in Io \cup Image

\* Only handles that were made are reached.
Exists ==
  /\ \A c \in Cluster : wrapper[c] = "absent" => native[c] = "none"
  /\ \A h \in Handle : native[h] = "gone" \/ writer[h] # Nobody => closed[h]
  /\ \A k \in Io \cup Image : native[k] # "none" => native[Parent[k]] # "none"
  /\ \A h \in Handle : wrapper[h] # "absent" => native[h] # "none"
  /\ \A i \in Io : pool[i] => native[i] # "none"
  /\ \A s \in Sub : watcher[s] => native[Source[s]] # "none"
  /\ \A t \in Thread : pc[t] # "idle" => native[on[t]] # "none"
  /\ \A t \in Thread : pc[t] \in {"created", "link", "settle"} => native[kid[t]] # "none"
  /\ \A t \in Thread : pc[t] \in {"flush", "flushing"} => native[Source[kid[t]]] # "none"

\* What is called lives.
Live == \A h \in Handle : readers[h] # {} => native[h] = "live"

\* The inductive invariant for the locks.
IInv == TypeOK /\ Locks /\ Places /\ Exists /\ Live

\* The steps at which a thread waits for a shared lock, and where it goes then.
LEMMA WaitingSteps ==
  /\ Waiting = {"use", "again", "open", "register", "unregister", "flush"}
  /\ Inside["use"] = "using" /\ Inside["again"] = "reusing" /\ Inside["open"] = "opening"
  /\ Inside["register"] = "registering" /\ Inside["unregister"] = "unregistering"
  /\ Inside["flush"] = "flushing"
  BY DEF Waiting, Inside

\* Each operator of HandleState keeps the types of a handle.
LEMMA HandleOperators ==
  ASSUME HandleTypeOK, NEW t \in Thread, NEW h \in Handle,
         \/ BeginUse(t, h) \/ RefuseUse(h) \/ EndUse(t, h)
         \/ BeginClose(t, h) \/ CloseAgain(h) \/ DestroyNative(h) \/ EndClose(h)
         \/ CreateNative(h) \/ AddChild(h) \/ RemoveChild(h) \/ UNCHANGED handleVars
  PROVE  HandleTypeOK'
<1> USE DEF HandleTypeOK
<1>1. CASE BeginUse(t, h)
  BY <1>1 DEF BeginUse
<1>2. CASE RefuseUse(h)
  BY <1>2 DEF RefuseUse, handleVars
<1>3. CASE EndUse(t, h)
  BY <1>3 DEF EndUse
<1>4. CASE BeginClose(t, h)
  BY <1>4 DEF BeginClose
<1>5. CASE CloseAgain(h)
  BY <1>5 DEF CloseAgain, handleVars
<1>6. CASE DestroyNative(h)
  BY <1>6 DEF DestroyNative
<1>7. CASE EndClose(h)
  BY <1>7 DEF EndClose
<1>8. CASE CreateNative(h)
  BY <1>8 DEF CreateNative
<1>9. CASE AddChild(h)
  BY <1>9 DEF AddChild
<1>10. CASE RemoveChild(h)
  BY <1>10 DEF RemoveChild
<1>11. CASE UNCHANGED handleVars
  BY <1>11 DEF handleVars
<1>12. QED
  BY <1>1, <1>2, <1>3, <1>4, <1>5, <1>6, <1>7, <1>8, <1>9, <1>10, <1>11

\* The handles a step touches were made, so that its operators keep their types.
LEMMA HandleTypeStep ==
  ASSUME TypeOK, Places, [Next]_vars  PROVE  HandleTypeOK'
<1> USE TreeAssumption DEF TypeOK, TreeTypeOK, Places, Worker
<1>1. ASSUME NEW c \in Cluster, NEW w \in Worker, Connect(w, c) PROVE HandleTypeOK'
  BY <1>1, HandleOperators DEF Connect
<1>2. ASSUME NEW c \in Cluster, Connected(c) PROVE HandleTypeOK'
  BY <1>2 DEF Connected, HandleTypeOK, handleVars
<1>3. ASSUME NEW c \in Cluster, NEW w \in Worker, ConnectFailed(w, c) PROVE HandleTypeOK'
  BY <1>3 DEF ConnectFailed, HandleTypeOK, handleVars
<1>4. ASSUME NEW c \in Cluster, NEW t \in Thread, UseCluster(t, c) PROVE HandleTypeOK'
  BY <1>4 DEF UseCluster, Use, HandleTypeOK, handleVars
<1>5. ASSUME NEW i \in Io, NEW t \in Thread, UseIoContext(t, i) PROVE HandleTypeOK'
  BY <1>5 DEF UseIoContext, Use, HandleTypeOK, handleVars
<1>6. ASSUME NEW i \in Io, NEW w \in Worker, UsePool(w, i) PROVE HandleTypeOK'
  BY <1>6 DEF UsePool, Use, HandleTypeOK, handleVars
<1>7. ASSUME NEW k \in Image, NEW w \in Worker, UseImage(w, k) PROVE HandleTypeOK'
  BY <1>7 DEF UseImage, Use, HandleTypeOK, handleVars
<1>8. ASSUME NEW k \in Image, NEW w \in Worker, OpenImage(w, k) PROVE HandleTypeOK'
  BY <1>8 DEF OpenImage, HandleTypeOK, handleVars
<1>9. ASSUME NEW i \in Io, OpenIoContext(i) PROVE HandleTypeOK'
  BY <1>9 DEF OpenIoContext, HandleTypeOK, handleVars
<1>10. ASSUME NEW i \in Io, Rbd(i) PROVE HandleTypeOK'
  BY <1>10 DEF Rbd, HandleTypeOK, handleVars
<1>11. ASSUME NEW h \in Handle, NEW w \in Worker, Close(w, h) PROVE HandleTypeOK'
  BY <1>11 DEF Close, HandleTypeOK, handleVars
<1>12. ASSUME NEW s \in Sub, Subscribe(s) PROVE HandleTypeOK'
  BY <1>12, HandleOperators DEF Subscribe
<1>13. ASSUME NEW s \in Sub, NEW w \in Worker, Unsubscribe(w, s) PROVE HandleTypeOK'
  BY <1>13 DEF Unsubscribe, HandleTypeOK, handleVars
<1>14. ASSUME NEW s \in Sub, NEW w \in Worker, Ack(w, s) PROVE HandleTypeOK'
  BY <1>14 DEF Ack, Use, HandleTypeOK, handleVars
<1>15. ASSUME NEW i \in Io, DropPool(i) PROVE HandleTypeOK'
  BY <1>15 DEF DropPool, HandleTypeOK, handleVars
<1>16. ASSUME NEW h \in Handle, Drop(h) PROVE HandleTypeOK'
  BY <1>16 DEF Drop, HandleTypeOK, handleVars
<1>17. ASSUME NEW h \in Handle, Destruct(h) PROVE HandleTypeOK'
  BY <1>17 DEF Destruct, HandleTypeOK, handleVars
<1>18. ASSUME NEW h \in Handle, NEW w \in Worker, Finalize(w, h) PROVE HandleTypeOK'
  BY <1>18 DEF Finalize, HandleTypeOK, handleVars
<1>19. ASSUME NEW s \in Sub, DropWatcher(s) PROVE HandleTypeOK'
  BY <1>19 DEF DropWatcher, HandleTypeOK, handleVars, Start
<1>20. ASSUME Exit PROVE HandleTypeOK'
  BY <1>20 DEF Exit, HandleTypeOK, handleVars
<1>21. ASSUME NEW t \in Thread, Enter(t) PROVE HandleTypeOK'
  BY <1>21, WaitingSteps, HandleOperators DEF Enter
<1>22. ASSUME NEW t \in Thread, Refuse(t) PROVE HandleTypeOK'
  BY <1>22, WaitingSteps, HandleOperators DEF Refuse
<1>22a. ASSUME NEW t \in Thread, UseAgain(t) PROVE HandleTypeOK'
  BY <1>22a, HandleOperators DEF UseAgain, At
<1>23. ASSUME NEW t \in Thread, Leave(t) PROVE HandleTypeOK'
  BY <1>23, HandleOperators DEF Leave
<1>24. ASSUME NEW t \in Thread, OpenNative(t) PROVE HandleTypeOK'
  <2>1. kid[t] \in Handle
    BY <1>24 DEF OpenNative, At, OpenSteps
  <2>2. QED
    BY <1>24, <2>1, HandleOperators DEF OpenNative
<1>25. ASSUME NEW t \in Thread, OpenFails(t) PROVE HandleTypeOK'
  BY <1>25 DEF OpenFails, At, HandleTypeOK, handleVars
<1>26. ASSUME NEW t \in Thread, LeaveOpen(t) PROVE HandleTypeOK'
  BY <1>26, HandleOperators DEF LeaveOpen, At
<1>27. ASSUME NEW t \in Thread, Link(t) PROVE HandleTypeOK'
  BY <1>27, HandleOperators DEF Link, At
<1>28. ASSUME NEW t \in Thread, Settle(t) PROVE HandleTypeOK'
  BY <1>28 DEF Settle, At, HandleTypeOK, handleVars
<1>29. ASSUME NEW t \in Thread, Register(t) PROVE HandleTypeOK'
  BY <1>29 DEF Register, At, HandleTypeOK, handleVars
<1>30. ASSUME NEW t \in Thread, RegisterFails(t) PROVE HandleTypeOK'
  BY <1>30 DEF RegisterFails, At, HandleTypeOK, handleVars
<1>31. ASSUME NEW t \in Thread, LeaveRefused(t) PROVE HandleTypeOK'
  BY <1>31, HandleOperators DEF LeaveRefused, At
<1>32. ASSUME NEW t \in Thread, Exchange(t) PROVE HandleTypeOK'
  BY <1>32 DEF Exchange, At, HandleTypeOK, handleVars
<1>33. ASSUME NEW t \in Thread, Unregister(t) PROVE HandleTypeOK'
  BY <1>33 DEF Unregister, At, HandleTypeOK, handleVars
<1>34. ASSUME NEW t \in Thread, LeaveUnregister(t) PROVE HandleTypeOK'
  BY <1>34, HandleOperators DEF LeaveUnregister, At
<1>35. ASSUME NEW t \in Thread, LeaveFlush(t) PROVE HandleTypeOK'
  BY <1>35, HandleOperators DEF LeaveFlush, At
<1>36. ASSUME NEW t \in Thread, Release(t) PROVE HandleTypeOK'
  BY <1>36, HandleOperators DEF Release, At
<1>37. ASSUME NEW t \in Thread, CheckChildren(t) PROVE HandleTypeOK'
  BY <1>37 DEF CheckChildren, At, HandleTypeOK, handleVars
<1>38. ASSUME NEW t \in Thread, Claim(t) PROVE HandleTypeOK'
  BY <1>38, HandleOperators DEF Claim, At
<1>39. ASSUME NEW t \in Thread, Destroy(t) PROVE HandleTypeOK'
  BY <1>39, HandleOperators DEF Destroy, At
<1>40. ASSUME NEW t \in Thread, Unlink(t) PROVE HandleTypeOK'
  <2>1. Parent[on[t]] \in Handle
    BY <1>40 DEF Unlink, At
  <2>2. QED
    BY <1>40, <2>1, HandleOperators DEF Unlink
<1>41. ASSUME NEW t \in Thread, Unlock(t) PROVE HandleTypeOK'
  BY <1>41, HandleOperators DEF Unlock, At
<1>42. CASE UNCHANGED vars
  BY <1>42 DEF vars, handleVars, HandleTypeOK
<1>43. QED
  BY <1>1, <1>2, <1>3, <1>4, <1>5, <1>6, <1>7, <1>8, <1>9, <1>10, <1>11,
          <1>12, <1>13, <1>14, <1>15, <1>16, <1>17, <1>18, <1>19, <1>20,
          <1>21, <1>22, <1>22a, <1>23, <1>24, <1>25, <1>26, <1>27, <1>28, <1>29,
          <1>30, <1>31, <1>32, <1>33, <1>34, <1>35, <1>36, <1>37, <1>38,
          <1>39, <1>40, <1>41, <1>42 DEF Next, Call, Collect, Step

\* A step keeps every other variable in its type.
LEMMA TreeTypeStep ==
  ASSUME TypeOK, Places, [Next]_vars  PROVE  TreeTypeOK'
<1> USE TreeAssumption DEF TypeOK, TreeTypeOK, Places, Worker, PC, Holding, Destroying
<1>1. ASSUME NEW c \in Cluster, NEW w \in Worker, Connect(w, c) PROVE TreeTypeOK'
  BY <1>1, WaitingSteps DEF Connect, Start
<1>2. ASSUME NEW c \in Cluster, Connected(c) PROVE TreeTypeOK'
  BY <1>2 DEF Connected
<1>3. ASSUME NEW c \in Cluster, NEW w \in Worker, ConnectFailed(w, c) PROVE TreeTypeOK'
  BY <1>3 DEF ConnectFailed, Start
<1>4. ASSUME NEW c \in Cluster, NEW t \in Thread, UseCluster(t, c) PROVE TreeTypeOK'
  BY <1>4, WaitingSteps DEF UseCluster, Use, Start
<1>5. ASSUME NEW i \in Io, NEW t \in Thread, UseIoContext(t, i) PROVE TreeTypeOK'
  BY <1>5, WaitingSteps DEF UseIoContext, Use, Start
<1>6. ASSUME NEW i \in Io, NEW w \in Worker, UsePool(w, i) PROVE TreeTypeOK'
  BY <1>6, WaitingSteps DEF UsePool, Use, Start
<1>7. ASSUME NEW k \in Image, NEW w \in Worker, UseImage(w, k) PROVE TreeTypeOK'
  BY <1>7, WaitingSteps DEF UseImage, Use, Start
<1>8. ASSUME NEW k \in Image, NEW w \in Worker, OpenImage(w, k) PROVE TreeTypeOK'
  BY <1>8, WaitingSteps DEF OpenImage, Start
<1>9. ASSUME NEW i \in Io, OpenIoContext(i) PROVE TreeTypeOK'
  BY <1>9, WaitingSteps DEF OpenIoContext, Start
<1>10. ASSUME NEW i \in Io, Rbd(i) PROVE TreeTypeOK'
  BY <1>10 DEF Rbd
<1>11. ASSUME NEW h \in Handle, NEW w \in Worker, Close(w, h) PROVE TreeTypeOK'
  BY <1>11 DEF Close, Start
<1>12. ASSUME NEW s \in Sub, Subscribe(s) PROVE TreeTypeOK'
  BY <1>12, WaitingSteps DEF Subscribe, Start
<1>13. ASSUME NEW s \in Sub, NEW w \in Worker, Unsubscribe(w, s) PROVE TreeTypeOK'
  BY <1>13 DEF Unsubscribe, Start
<1>14. ASSUME NEW s \in Sub, NEW w \in Worker, Ack(w, s) PROVE TreeTypeOK'
  BY <1>14, WaitingSteps DEF Ack, Use, Start
<1>15. ASSUME NEW i \in Io, DropPool(i) PROVE TreeTypeOK'
  BY <1>15 DEF DropPool
<1>16. ASSUME NEW h \in Handle, Drop(h) PROVE TreeTypeOK'
  BY <1>16 DEF Drop
<1>17. ASSUME NEW h \in Handle, Destruct(h) PROVE TreeTypeOK'
  BY <1>17 DEF Destruct, Start
<1>18. ASSUME NEW h \in Handle, NEW w \in Worker, Finalize(w, h) PROVE TreeTypeOK'
  BY <1>18 DEF Finalize, Start
<1>19. ASSUME NEW s \in Sub, DropWatcher(s) PROVE TreeTypeOK'
  BY <1>19 DEF DropWatcher, Start
<1>20. ASSUME Exit PROVE TreeTypeOK'
  BY <1>20 DEF Exit
<1>21. ASSUME NEW t \in Thread, Enter(t) PROVE TreeTypeOK'
  BY <1>21, WaitingSteps DEF Enter, Goto
<1>22. ASSUME NEW t \in Thread, Refuse(t) PROVE TreeTypeOK'
  BY <1>22, WaitingSteps DEF Refuse, Goto, Finish
<1>22a. ASSUME NEW t \in Thread, UseAgain(t) PROVE TreeTypeOK'
  BY <1>22a, WaitingSteps DEF UseAgain, At, Goto
<1>23. ASSUME NEW t \in Thread, Leave(t) PROVE TreeTypeOK'
  BY <1>23 DEF Leave, Finish
<1>24. ASSUME NEW t \in Thread, OpenNative(t) PROVE TreeTypeOK'
  BY <1>24 DEF OpenNative, At, Goto
<1>25. ASSUME NEW t \in Thread, OpenFails(t) PROVE TreeTypeOK'
  BY <1>25 DEF OpenFails, At, Goto
<1>26. ASSUME NEW t \in Thread, LeaveOpen(t) PROVE TreeTypeOK'
  BY <1>26 DEF LeaveOpen, At, Goto
<1>27. ASSUME NEW t \in Thread, Link(t) PROVE TreeTypeOK'
  BY <1>27 DEF Link, At, Goto, Finish, OpenSteps
<1>28. ASSUME NEW t \in Thread, Settle(t) PROVE TreeTypeOK'
  BY <1>28 DEF Settle, At, Finish, OpenSteps
<1>29. ASSUME NEW t \in Thread, Register(t) PROVE TreeTypeOK'
  BY <1>29 DEF Register, At, Goto, SubSteps
<1>30. ASSUME NEW t \in Thread, RegisterFails(t) PROVE TreeTypeOK'
  BY <1>30 DEF RegisterFails, At, Goto, SubSteps
<1>31. ASSUME NEW t \in Thread, LeaveRefused(t) PROVE TreeTypeOK'
  BY <1>31 DEF LeaveRefused, At, Goto
<1>32. ASSUME NEW t \in Thread, Exchange(t) PROVE TreeTypeOK'
  BY <1>32, WaitingSteps DEF Exchange, At, Goto, Finish, SubSteps
<1>33. ASSUME NEW t \in Thread, Unregister(t) PROVE TreeTypeOK'
  BY <1>33 DEF Unregister, At, Goto, SubSteps
<1>34. ASSUME NEW t \in Thread, LeaveUnregister(t) PROVE TreeTypeOK'
  BY <1>34, WaitingSteps DEF LeaveUnregister, At, Goto, SubSteps
<1>35. ASSUME NEW t \in Thread, LeaveFlush(t) PROVE TreeTypeOK'
  BY <1>35 DEF LeaveFlush, At, SubSteps
<1>36. ASSUME NEW t \in Thread, Release(t) PROVE TreeTypeOK'
  BY <1>36 DEF Release, At, Finish, SubSteps
<1>37. ASSUME NEW t \in Thread, CheckChildren(t) PROVE TreeTypeOK'
  BY <1>37 DEF CheckChildren, At, Goto, Finish
<1>38. ASSUME NEW t \in Thread, Claim(t) PROVE TreeTypeOK'
  BY <1>38 DEF Claim, At, Goto, Finish
<1>39. ASSUME NEW t \in Thread, Destroy(t) PROVE TreeTypeOK'
  BY <1>39 DEF Destroy, At, Goto
<1>40. ASSUME NEW t \in Thread, Unlink(t) PROVE TreeTypeOK'
  BY <1>40 DEF Unlink, At, Goto
<1>41. ASSUME NEW t \in Thread, Unlock(t) PROVE TreeTypeOK'
  BY <1>41 DEF Unlock, At, Finish
<1>42. CASE UNCHANGED vars
  BY <1>42 DEF vars, treeVars
<1>43. QED
  BY <1>1, <1>2, <1>3, <1>4, <1>5, <1>6, <1>7, <1>8, <1>9, <1>10, <1>11,
          <1>12, <1>13, <1>14, <1>15, <1>16, <1>17, <1>18, <1>19, <1>20,
          <1>21, <1>22, <1>22a, <1>23, <1>24, <1>25, <1>26, <1>27, <1>28, <1>29,
          <1>30, <1>31, <1>32, <1>33, <1>34, <1>35, <1>36, <1>37, <1>38,
          <1>39, <1>40, <1>41, <1>42 DEF Next, Call, Collect, Step

\* What a call or a collection does to the locks and to the threads: nothing,
\* or one idle thread begins an operation, on a handle that was made.
Begins(t, step, h, k) ==
  /\ Start(t, step, h, k)
  /\ step \in {"use", "open", "register", "exchange", "close", "claim"}
  /\ h \in Handle /\ native'[h] # "none"
  /\ step = "open" => k \in Io \cup Image /\ h = Parent[k]
  /\ step \in {"register", "exchange"} => k \in Sub /\ h = Source[k]

\* A call or a collection moves no thread, or begins one operation.
LEMMA CallMoves ==
  ASSUME TypeOK, Exists, Call \/ Collect
  PROVE  /\ UNCHANGED <<closed, readers, writer>>
         /\ \A h \in Handle : native[h] # "none" => native'[h] = native[h]
         /\ \A k \in Io \cup Image : native'[k] = native[k]
         /\ \/ UNCHANGED <<pc, on, kid>>
            \/ \E t \in Thread, step \in PC, h \in Handle,
                  k \in Handle \cup Sub \cup {Nobody} : Begins(t, step, h, k)
<1> DEFINE Goal ==
      /\ UNCHANGED <<closed, readers, writer>>
      /\ \A h \in Handle : native[h] # "none" => native'[h] = native[h]
      /\ \A k \in Io \cup Image : native'[k] = native[k]
      /\ \/ UNCHANGED <<pc, on, kid>>
         \/ \E t \in Thread, step \in PC, h \in Handle,
               k \in Handle \cup Sub \cup {Nobody} : Begins(t, step, h, k)
<1> USE TreeAssumption DEF TypeOK, TreeTypeOK, Exists, Worker
<1>1. ASSUME NEW c \in Cluster, NEW w \in Worker, Connect(w, c) PROVE Goal
  <2>1. Begins(w, "use", c, Nobody)
    BY <1>1 DEF Begins, Connect, CreateNative, HandleTypeOK, handleVars
  <2>2. QED
    BY <1>1, <2>1, WaitingSteps DEF PC, Connect, CreateNative, HandleTypeOK, handleVars
<1>2. ASSUME NEW c \in Cluster, Connected(c) PROVE Goal
  BY <1>2 DEF Connected, handleVars
<1>3. ASSUME NEW c \in Cluster, NEW w \in Worker, ConnectFailed(w, c) PROVE Goal
  <2>1. Begins(w, "close", c, Nobody)
    BY <1>3 DEF Begins, ConnectFailed, handleVars
  <2>2. QED
    BY <1>3, <2>1, WaitingSteps DEF PC, ConnectFailed, handleVars
<1>4. ASSUME NEW c \in Cluster, NEW t \in Thread, UseCluster(t, c) PROVE Goal
  <2>1. Begins(t, "use", c, Nobody)
    BY <1>4 DEF Begins, UseCluster, Use, Reachable, handleVars
  <2>2. QED
    BY <1>4, <2>1, WaitingSteps DEF PC, UseCluster, Use, Reachable, handleVars
<1>5. ASSUME NEW i \in Io, NEW t \in Thread, UseIoContext(t, i) PROVE Goal
  <2>1. Begins(t, "use", i, Nobody)
    BY <1>5 DEF Begins, UseIoContext, Use, Reachable, handleVars
  <2>2. QED
    BY <1>5, <2>1, WaitingSteps DEF PC, UseIoContext, Use, Reachable, handleVars
<1>6. ASSUME NEW i \in Io, NEW w \in Worker, UsePool(w, i) PROVE Goal
  <2>1. Begins(w, "use", i, Nobody)
    BY <1>6 DEF Begins, UsePool, Use, handleVars
  <2>2. QED
    BY <1>6, <2>1, WaitingSteps DEF PC, UsePool, Use, handleVars
<1>7. ASSUME NEW k \in Image, NEW w \in Worker, UseImage(w, k) PROVE Goal
  <2>1. Begins(w, "use", k, Nobody)
    BY <1>7 DEF Begins, UseImage, Use, Reachable, handleVars
  <2>2. QED
    BY <1>7, <2>1, WaitingSteps DEF PC, UseImage, Use, Reachable, handleVars
<1>8. ASSUME NEW k \in Image, NEW w \in Worker, OpenImage(w, k) PROVE Goal
  <2>1. Begins(w, "open", Parent[k], k)
    BY <1>8 DEF Begins, OpenImage, handleVars
  <2>2. QED
    BY <1>8, <2>1, WaitingSteps DEF PC, OpenImage, handleVars
<1>9. ASSUME NEW i \in Io, OpenIoContext(i) PROVE Goal
  <2>1. Begins(JS, "open", Parent[i], i)
    BY <1>9 DEF Begins, OpenIoContext, Reachable, handleVars
  <2>2. QED
    BY <1>9, <2>1, WaitingSteps DEF PC, OpenIoContext, Reachable, handleVars
<1>10. ASSUME NEW i \in Io, Rbd(i) PROVE Goal
  BY <1>10 DEF Rbd, handleVars
<1>11. ASSUME NEW h \in Handle, NEW w \in Worker, Close(w, h) PROVE Goal
  <2>1. Begins(w, "close", h, Nobody)
    BY <1>11 DEF Begins, Close, Reachable, handleVars
  <2>2. QED
    BY <1>11, <2>1, WaitingSteps DEF PC, Close, Reachable, handleVars
<1>12. ASSUME NEW s \in Sub, Subscribe(s) PROVE Goal
  <2>1. Begins(JS, "register", Source[s], s)
    BY <1>12 DEF Begins, Subscribe, AddChild, Reachable, handleVars
  <2>2. QED
    BY <1>12, <2>1, WaitingSteps DEF PC, Subscribe, AddChild, Reachable, handleVars
<1>13. ASSUME NEW s \in Sub, NEW w \in Worker, Unsubscribe(w, s) PROVE Goal
  <2>1. Begins(w, "exchange", Source[s], s)
    BY <1>13 DEF Begins, Unsubscribe, handleVars
  <2>2. QED
    BY <1>13, <2>1, WaitingSteps DEF PC, Unsubscribe, handleVars
<1>14. ASSUME NEW s \in Sub, NEW w \in Worker, Ack(w, s) PROVE Goal
  <2>1. Begins(w, "use", Source[s], Nobody)
    BY <1>14 DEF Begins, Ack, Use, handleVars
  <2>2. QED
    BY <1>14, <2>1, WaitingSteps DEF PC, Ack, Use, handleVars
<1>15. ASSUME NEW i \in Io, DropPool(i) PROVE Goal
  BY <1>15 DEF DropPool, handleVars
<1>16. ASSUME NEW h \in Handle, Drop(h) PROVE Goal
  BY <1>16 DEF Drop, handleVars
<1>17. ASSUME NEW h \in Handle, Destruct(h) PROVE Goal
  <2>1. Begins(JS, "claim", h, Nobody)
    BY <1>17 DEF Begins, Destruct, handleVars
  <2>2. QED
    BY <1>17, <2>1, WaitingSteps DEF PC, Destruct, handleVars
<1>18. ASSUME NEW h \in Handle, NEW w \in Worker, Finalize(w, h) PROVE Goal
  <2>1. Begins(w, "close", h, Nobody)
    BY <1>18 DEF Begins, Finalize, handleVars
  <2>2. QED
    BY <1>18, <2>1, WaitingSteps DEF PC, Finalize, handleVars
<1>19. ASSUME NEW s \in Sub, DropWatcher(s) PROVE Goal
  <2>1. CASE sub[s] = "live"
    <3>1. Begins(JS, "exchange", Source[s], s)
      BY <1>19, <2>1 DEF Begins, DropWatcher, handleVars
    <3>2. QED
      BY <1>19, <2>1, <3>1, WaitingSteps DEF PC, DropWatcher, handleVars
  <2>2. CASE sub[s] # "live"
    BY <1>19, <2>2 DEF DropWatcher, handleVars
  <2>3. QED
    BY <2>1, <2>2
<1>20. ASSUME Exit PROVE Goal
  BY <1>20 DEF Exit, handleVars
<1>21. QED
  BY <1>1, <1>2, <1>3, <1>4, <1>5, <1>6, <1>7, <1>8, <1>9, <1>10, <1>11,
          <1>12, <1>13, <1>14, <1>15, <1>16, <1>17, <1>18, <1>19, <1>20
     DEF Call, Collect

\* The three moves of a thread that leave Locks true without a look at the
\* handle: outside every mutex, inside one, and out of a shared one.
Alone(t) == \A u \in Thread \ {t} : pc'[u] = pc[u] /\ on'[u] = on[u]
Outside(step) == step \notin Holding /\ step \notin Destroying

\* A thread that holds no mutex goes on to a step that holds none.
LEMMA StaysOutside ==
  ASSUME TypeOK, Locks, NEW t \in Thread, Alone(t), UNCHANGED <<readers, writer>>,
         Outside(pc[t]), Outside(pc'[t])
  PROVE  Locks'
  BY DEF Locks, Alone, Outside, TypeOK, HandleTypeOK

\* A thread inside a mutex goes on to another step inside it.
LEMMA StaysInside ==
  ASSUME TypeOK, Locks, NEW t \in Thread, Alone(t), UNCHANGED <<readers, writer>>,
         pc[t] \in Holding, pc'[t] \in Holding, on'[t] = on[t]
  PROVE  Locks'
  BY NobodyAssumption DEF Locks, Alone, TypeOK, HandleTypeOK, Holding, Destroying

\* A thread lets go of the mutex it holds shared.
LEMMA LetsGo ==
  ASSUME TypeOK, Locks, NEW t \in Thread, Alone(t), EndUse(t, on[t]),
         pc[t] \in Holding, Outside(pc'[t])
  PROVE  Locks'
  BY NobodyAssumption
     DEF Locks, Alone, Outside, EndUse, TypeOK, HandleTypeOK, Holding, Destroying

\* The holders of the mutexes remain the threads inside the sections they guard.
LEMMA LocksStep ==
  ASSUME IInv, [Next]_vars  PROVE  Locks'
<1> USE TreeAssumption, NobodyAssumption DEF IInv, TypeOK, TreeTypeOK
<1>1. CASE Call \/ Collect
  <2>1. CASE UNCHANGED <<pc, on, kid>>
    BY <1>1, <2>1, CallMoves DEF Locks
  <2>2. ASSUME NEW t \in Thread, NEW step \in PC, NEW h \in Handle,
               NEW k \in Handle \cup Sub \cup {Nobody}, Begins(t, step, h, k)
        PROVE  Locks'
    <3>1. Alone(t) /\ Outside(pc[t]) /\ Outside(pc'[t])
      BY <2>2 DEF Begins, Start, Alone, Outside, Holding, Destroying
    <3>2. QED
      BY <1>1, <3>1, CallMoves, StaysOutside
  <2>3. QED
    BY <1>1, <2>1, <2>2, CallMoves
<1>2. CASE UNCHANGED vars
  BY <1>2 DEF vars, handleVars, treeVars, Locks
<1>3. ASSUME NEW t \in Thread, Enter(t) PROVE Locks'
  BY <1>3, WaitingSteps DEF Enter, Goto, BeginUse,
     Locks, HandleTypeOK, Places, Holding, Destroying
<1>4. ASSUME NEW t \in Thread, Refuse(t) PROVE Locks'
  <2>1. Alone(t) /\ Outside(pc[t]) /\ Outside(pc'[t])
    BY <1>4, WaitingSteps DEF Refuse, Goto, Finish, Alone, Outside, Holding,
       Destroying
  <2>2. QED
    BY <1>4, <2>1, StaysOutside DEF Refuse, RefuseUse, handleVars
<1>5. ASSUME NEW t \in Thread, UseAgain(t) PROVE Locks'
  <2>1. Alone(t) /\ pc[t] \in Holding /\ Outside(pc'[t])
    BY <1>5, WaitingSteps DEF UseAgain, At, Goto, Alone, Outside, Holding,
       Destroying
  <2>2. QED
    BY <1>5, <2>1, LetsGo DEF UseAgain
<1>6. ASSUME NEW t \in Thread, Leave(t) PROVE Locks'
  <2>1. Alone(t) /\ pc[t] \in Holding /\ Outside(pc'[t])
    BY <1>6 DEF Leave, Finish, Alone, Outside, Holding, Destroying
  <2>2. QED
    BY <1>6, <2>1, LetsGo DEF Leave
<1>7. ASSUME NEW t \in Thread, OpenNative(t) PROVE Locks'
  <2>1. Alone(t) /\ pc[t] \in Holding /\ pc'[t] \in Holding /\ on'[t] = on[t]
    BY <1>7 DEF OpenNative, At, Goto, Alone, Holding, Destroying
  <2>2. QED
    BY <1>7, <2>1, StaysInside DEF OpenNative, CreateNative
<1>8. ASSUME NEW t \in Thread, OpenFails(t) PROVE Locks'
  <2>1. Alone(t) /\ pc[t] \in Holding /\ pc'[t] \in Holding /\ on'[t] = on[t]
    BY <1>8 DEF OpenFails, At, Goto, Alone, Holding, Destroying
  <2>2. QED
    BY <1>8, <2>1, StaysInside DEF OpenFails, handleVars
<1>9. ASSUME NEW t \in Thread, LeaveOpen(t) PROVE Locks'
  <2>1. Alone(t) /\ pc[t] \in Holding /\ Outside(pc'[t])
    BY <1>9 DEF LeaveOpen, At, Goto, Alone, Outside, Holding, Destroying
  <2>2. QED
    BY <1>9, <2>1, LetsGo DEF LeaveOpen
<1>10. ASSUME NEW t \in Thread, Link(t) PROVE Locks'
  <2>1. Alone(t) /\ Outside(pc[t]) /\ Outside(pc'[t])
    BY <1>10 DEF Link, At, Goto, Finish, Alone, Outside, Holding, Destroying
  <2>2. QED
    BY <1>10, <2>1, StaysOutside DEF Link, AddChild
<1>11. ASSUME NEW t \in Thread, Settle(t) PROVE Locks'
  <2>1. Alone(t) /\ Outside(pc[t]) /\ Outside(pc'[t])
    BY <1>11 DEF Settle, At, Finish, Alone, Outside, Holding, Destroying
  <2>2. QED
    BY <1>11, <2>1, StaysOutside DEF Settle, handleVars
<1>12. ASSUME NEW t \in Thread, Register(t) PROVE Locks'
  <2>1. Alone(t) /\ pc[t] \in Holding /\ pc'[t] \in Holding /\ on'[t] = on[t]
    BY <1>12 DEF Register, At, Goto, Alone, Holding, Destroying
  <2>2. QED
    BY <1>12, <2>1, StaysInside DEF Register, handleVars
<1>13. ASSUME NEW t \in Thread, RegisterFails(t) PROVE Locks'
  <2>1. Alone(t) /\ pc[t] \in Holding /\ pc'[t] \in Holding /\ on'[t] = on[t]
    BY <1>13 DEF RegisterFails, At, Goto, Alone, Holding, Destroying
  <2>2. QED
    BY <1>13, <2>1, StaysInside DEF RegisterFails, handleVars
<1>14. ASSUME NEW t \in Thread, LeaveRefused(t) PROVE Locks'
  <2>1. Alone(t) /\ pc[t] \in Holding /\ Outside(pc'[t])
    BY <1>14 DEF LeaveRefused, At, Goto, Alone, Outside, Holding, Destroying
  <2>2. QED
    BY <1>14, <2>1, LetsGo DEF LeaveRefused
<1>15. ASSUME NEW t \in Thread, Exchange(t) PROVE Locks'
  <2>1. Alone(t) /\ Outside(pc[t]) /\ Outside(pc'[t])
    BY <1>15, WaitingSteps DEF Exchange, At, Goto, Finish, Alone, Outside,
       Holding, Destroying
  <2>2. QED
    BY <1>15, <2>1, StaysOutside DEF Exchange, handleVars
<1>16. ASSUME NEW t \in Thread, Unregister(t) PROVE Locks'
  <2>1. Alone(t) /\ pc[t] \in Holding /\ pc'[t] \in Holding /\ on'[t] = on[t]
    BY <1>16 DEF Unregister, At, Goto, Alone, Holding, Destroying
  <2>2. QED
    BY <1>16, <2>1, StaysInside DEF Unregister, handleVars
<1>17. ASSUME NEW t \in Thread, LeaveUnregister(t) PROVE Locks'
  <2>1. Alone(t) /\ pc[t] \in Holding /\ Outside(pc'[t])
    BY <1>17, WaitingSteps DEF LeaveUnregister, At, Goto, Alone, Outside,
       Holding, Destroying
  <2>2. QED
    BY <1>17, <2>1, LetsGo DEF LeaveUnregister
<1>18. ASSUME NEW t \in Thread, LeaveFlush(t) PROVE Locks'
  <2>1. Alone(t) /\ pc[t] \in Holding /\ Outside(pc'[t])
    BY <1>18 DEF LeaveFlush, At, Alone, Outside, Holding, Destroying
  <2>2. QED
    BY <1>18, <2>1, LetsGo DEF LeaveFlush
<1>19. ASSUME NEW t \in Thread, Release(t) PROVE Locks'
  <2>1. Alone(t) /\ Outside(pc[t]) /\ Outside(pc'[t])
    BY <1>19 DEF Release, At, Finish, Alone, Outside, Holding, Destroying
  <2>2. QED
    BY <1>19, <2>1, StaysOutside DEF Release, RemoveChild
<1>20. ASSUME NEW t \in Thread, CheckChildren(t) PROVE Locks'
  <2>1. Alone(t) /\ Outside(pc[t]) /\ Outside(pc'[t])
    BY <1>20 DEF CheckChildren, At, Goto, Finish, Alone, Outside, Holding,
       Destroying
  <2>2. QED
    BY <1>20, <2>1, StaysOutside DEF CheckChildren, handleVars
<1>21. ASSUME NEW t \in Thread, Claim(t) PROVE Locks'
  <2>1. CASE BeginClose(t, on[t]) /\ Goto(t, "destroy")
    BY <1>21, <2>1 DEF Claim, At, Goto, BeginClose,
       Locks, HandleTypeOK, Places, Holding, Destroying
  <2>2. CASE CloseAgain(on[t]) /\ Finish(t)
    <3>1. Alone(t) /\ Outside(pc[t]) /\ Outside(pc'[t])
      BY <1>21, <2>2 DEF Claim, At, Finish, Alone, Outside, Holding, Destroying
    <3>2. QED
      BY <2>2, <3>1, StaysOutside DEF CloseAgain, handleVars
  <2>3. QED
    BY <1>21, <2>1, <2>2 DEF Claim
<1>22. ASSUME NEW t \in Thread, Destroy(t) PROVE Locks'
  BY <1>22 DEF Destroy, At, Goto, DestroyNative,
     Locks, HandleTypeOK, Places, Holding, Destroying
<1>23. ASSUME NEW t \in Thread, Unlink(t) PROVE Locks'
  BY <1>23 DEF Unlink, At, Goto, RemoveChild,
     Locks, HandleTypeOK, Places, Holding, Destroying
<1>24. ASSUME NEW t \in Thread, Unlock(t) PROVE Locks'
  BY <1>24 DEF Unlock, At, Finish, EndClose,
     Locks, HandleTypeOK, Places, Holding, Destroying
<1>25. QED
  BY <1>1, <1>2, <1>3, <1>4, <1>5, <1>6, <1>7, <1>8, <1>9, <1>10, <1>11,
          <1>12, <1>13, <1>14, <1>15, <1>16, <1>17, <1>18, <1>19, <1>20,
          <1>21, <1>22, <1>23, <1>24
     DEF Next, Step

\* A thread inside a native call keeps the object it calls from being destroyed.
LEMMA LiveStep ==
  ASSUME IInv, [Next]_vars  PROVE  Live'
<1> USE TreeAssumption, NobodyAssumption
    DEF IInv, TypeOK, TreeTypeOK, HandleTypeOK, Places, Locks, Live, Destroying
<1>1. CASE Call \/ Collect
  BY <1>1, CallMoves
<1>2. CASE UNCHANGED vars
  BY <1>2 DEF vars, handleVars
<1>3. ASSUME NEW t \in Thread, Enter(t) PROVE Live'
  BY <1>3, WaitingSteps DEF Enter, BeginUse, Exists
<1>4. ASSUME NEW t \in Thread, Refuse(t) PROVE Live'
  BY <1>4 DEF Refuse, RefuseUse, handleVars
<1>4a. ASSUME NEW t \in Thread, UseAgain(t) PROVE Live'
  BY <1>4a DEF UseAgain, At, EndUse
<1>5. ASSUME NEW t \in Thread, Leave(t) PROVE Live'
  BY <1>5 DEF Leave, EndUse
<1>6. ASSUME NEW t \in Thread, OpenNative(t) PROVE Live'
  BY <1>6 DEF OpenNative, At, CreateNative
<1>7. ASSUME NEW t \in Thread, OpenFails(t) PROVE Live'
  BY <1>7 DEF OpenFails, At, handleVars
<1>8. ASSUME NEW t \in Thread, LeaveOpen(t) PROVE Live'
  BY <1>8 DEF LeaveOpen, At, EndUse
<1>9. ASSUME NEW t \in Thread, Link(t) PROVE Live'
  BY <1>9 DEF Link, At, AddChild
<1>10. ASSUME NEW t \in Thread, Settle(t) PROVE Live'
  BY <1>10 DEF Settle, At, handleVars
<1>11. ASSUME NEW t \in Thread, Register(t) PROVE Live'
  BY <1>11 DEF Register, At, handleVars
<1>12. ASSUME NEW t \in Thread, RegisterFails(t) PROVE Live'
  BY <1>12 DEF RegisterFails, At, handleVars
<1>13. ASSUME NEW t \in Thread, LeaveRefused(t) PROVE Live'
  BY <1>13 DEF LeaveRefused, At, EndUse
<1>14. ASSUME NEW t \in Thread, Exchange(t) PROVE Live'
  BY <1>14 DEF Exchange, At, handleVars
<1>15. ASSUME NEW t \in Thread, Unregister(t) PROVE Live'
  BY <1>15 DEF Unregister, At, handleVars
<1>16. ASSUME NEW t \in Thread, LeaveUnregister(t) PROVE Live'
  BY <1>16 DEF LeaveUnregister, At, EndUse
<1>17. ASSUME NEW t \in Thread, LeaveFlush(t) PROVE Live'
  BY <1>17 DEF LeaveFlush, At, EndUse
<1>18. ASSUME NEW t \in Thread, Release(t) PROVE Live'
  BY <1>18 DEF Release, At, RemoveChild
<1>19. ASSUME NEW t \in Thread, CheckChildren(t) PROVE Live'
  BY <1>19 DEF CheckChildren, At, handleVars
<1>20. ASSUME NEW t \in Thread, Claim(t) PROVE Live'
  BY <1>20 DEF Claim, At, BeginClose, CloseAgain, handleVars
<1>21. ASSUME NEW t \in Thread, Destroy(t) PROVE Live'
  BY <1>21 DEF Destroy, At, DestroyNative
<1>22. ASSUME NEW t \in Thread, Unlink(t) PROVE Live'
  BY <1>22 DEF Unlink, At, RemoveChild
<1>23. ASSUME NEW t \in Thread, Unlock(t) PROVE Live'
  BY <1>23 DEF Unlock, At, EndClose
<1>24. QED
  BY <1>1, <1>2, <1>3, <1>4, <1>4a, <1>5, <1>6, <1>7, <1>8, <1>9, <1>10, <1>11,
          <1>12, <1>13, <1>14, <1>15, <1>16, <1>17, <1>18, <1>19, <1>20,
          <1>21, <1>22, <1>23
     DEF Next, Step

\* At each step, on and kid are what the operation of the thread is about.
LEMMA PlacesStep ==
  ASSUME IInv, [Next]_vars  PROVE  Places'
<1> USE TreeAssumption DEF IInv, TypeOK, TreeTypeOK, Places, OpenSteps, SubSteps
<1>1. CASE Call \/ Collect
  <2>1. CASE UNCHANGED <<pc, on, kid>>
    BY <2>1
  <2>2. ASSUME NEW t \in Thread, NEW step \in PC, NEW h \in Handle,
               NEW k \in Handle \cup Sub \cup {Nobody}, Begins(t, step, h, k)
        PROVE  Places'
    BY <2>2 DEF Begins, Start
  <2>3. QED
    BY <1>1, <2>1, <2>2, CallMoves
<1>2. CASE UNCHANGED vars
  BY <1>2 DEF vars, treeVars
<1>3. ASSUME NEW t \in Thread, Enter(t) PROVE Places'
  BY <1>3, WaitingSteps DEF Enter, Goto
<1>4. ASSUME NEW t \in Thread, Refuse(t) PROVE Places'
  BY <1>4, WaitingSteps DEF Refuse, Goto, Finish
<1>4a. ASSUME NEW t \in Thread, UseAgain(t) PROVE Places'
  BY <1>4a, WaitingSteps DEF UseAgain, At, Goto
<1>5. ASSUME NEW t \in Thread, Leave(t) PROVE Places'
  BY <1>5 DEF Leave, Finish
<1>6. ASSUME NEW t \in Thread, OpenNative(t) PROVE Places'
  BY <1>6 DEF OpenNative, At, Goto
<1>7. ASSUME NEW t \in Thread, OpenFails(t) PROVE Places'
  BY <1>7 DEF OpenFails, At, Goto
<1>8. ASSUME NEW t \in Thread, LeaveOpen(t) PROVE Places'
  BY <1>8 DEF LeaveOpen, At, Goto
<1>9. ASSUME NEW t \in Thread, Link(t) PROVE Places'
  BY <1>9 DEF Link, At, Goto, Finish
<1>10. ASSUME NEW t \in Thread, Settle(t) PROVE Places'
  BY <1>10 DEF Settle, At, Finish
<1>11. ASSUME NEW t \in Thread, Register(t) PROVE Places'
  BY <1>11 DEF Register, At, Goto
<1>12. ASSUME NEW t \in Thread, RegisterFails(t) PROVE Places'
  BY <1>12 DEF RegisterFails, At, Goto
<1>13. ASSUME NEW t \in Thread, LeaveRefused(t) PROVE Places'
  BY <1>13 DEF LeaveRefused, At, Goto
<1>14. ASSUME NEW t \in Thread, Exchange(t) PROVE Places'
  BY <1>14, WaitingSteps DEF Exchange, At, Goto, Finish
<1>15. ASSUME NEW t \in Thread, Unregister(t) PROVE Places'
  BY <1>15 DEF Unregister, At, Goto
<1>16. ASSUME NEW t \in Thread, LeaveUnregister(t) PROVE Places'
  BY <1>16, WaitingSteps DEF LeaveUnregister, At, Goto
<1>17. ASSUME NEW t \in Thread, LeaveFlush(t) PROVE Places'
  BY <1>17 DEF LeaveFlush, At
<1>18. ASSUME NEW t \in Thread, Release(t) PROVE Places'
  BY <1>18 DEF Release, At, Finish
<1>19. ASSUME NEW t \in Thread, CheckChildren(t) PROVE Places'
  BY <1>19 DEF CheckChildren, At, Goto, Finish
<1>20. ASSUME NEW t \in Thread, Claim(t) PROVE Places'
  BY <1>20 DEF Claim, At, Goto, Finish
<1>21. ASSUME NEW t \in Thread, Destroy(t) PROVE Places'
  BY <1>21 DEF Destroy, At, Goto
<1>22. ASSUME NEW t \in Thread, Unlink(t) PROVE Places'
  BY <1>22 DEF Unlink, At, Goto
<1>23. ASSUME NEW t \in Thread, Unlock(t) PROVE Places'
  BY <1>23 DEF Unlock, At, Finish
<1>24. QED
  BY <1>1, <1>2, <1>3, <1>4, <1>4a, <1>5, <1>6, <1>7, <1>8, <1>9, <1>10, <1>11,
          <1>12, <1>13, <1>14, <1>15, <1>16, <1>17, <1>18, <1>19, <1>20,
          <1>21, <1>22, <1>23
     DEF Next, Step
\* No call or collection reaches a handle that was never made.
LEMMA CallsExist ==
  ASSUME IInv, Call \/ Collect  PROVE  Exists'
<1> USE TreeAssumption DEF IInv, TypeOK, TreeTypeOK, HandleTypeOK, Exists
<1>1. ASSUME NEW c \in Cluster, NEW w \in Worker, Connect(w, c) PROVE Exists'
  BY <1>1 DEF Connect, Start, CreateNative, Worker
<1>2. ASSUME NEW c \in Cluster, Connected(c) PROVE Exists'
  BY <1>2 DEF Connected, handleVars
<1>3. ASSUME NEW c \in Cluster, NEW w \in Worker, ConnectFailed(w, c) PROVE Exists'
  BY <1>3 DEF ConnectFailed, Start, handleVars, Worker
<1>4. ASSUME NEW c \in Cluster, NEW t \in Thread, UseCluster(t, c) PROVE Exists'
  BY <1>4 DEF UseCluster, Use, Start, handleVars, Reachable
<1>5. ASSUME NEW i \in Io, NEW t \in Thread, UseIoContext(t, i) PROVE Exists'
  BY <1>5 DEF UseIoContext, Use, Start, handleVars, Reachable
<1>6. ASSUME NEW i \in Io, NEW w \in Worker, UsePool(w, i) PROVE Exists'
  BY <1>6 DEF UsePool, Use, Start, handleVars, Worker
<1>7. ASSUME NEW k \in Image, NEW w \in Worker, UseImage(w, k) PROVE Exists'
  BY <1>7 DEF UseImage, Use, Start, handleVars, Reachable, Worker
<1>8. ASSUME NEW k \in Image, NEW w \in Worker, OpenImage(w, k) PROVE Exists'
  BY <1>8 DEF OpenImage, Start, handleVars, Worker
<1>9. ASSUME NEW i \in Io, OpenIoContext(i) PROVE Exists'
  BY <1>9 DEF OpenIoContext, Start, handleVars, Reachable
<1>10. ASSUME NEW i \in Io, Rbd(i) PROVE Exists'
  BY <1>10 DEF Rbd, handleVars, Reachable
<1>11. ASSUME NEW h \in Handle, NEW w \in Worker, Close(w, h) PROVE Exists'
  BY <1>11 DEF Close, Start, handleVars, Reachable, Worker
<1>12. ASSUME NEW s \in Sub, Subscribe(s) PROVE Exists'
  BY <1>12 DEF Subscribe, Start, AddChild, Reachable
<1>13. ASSUME NEW s \in Sub, NEW w \in Worker, Unsubscribe(w, s) PROVE Exists'
  BY <1>13 DEF Unsubscribe, Start, handleVars, Worker
<1>14. ASSUME NEW s \in Sub, NEW w \in Worker, Ack(w, s) PROVE Exists'
  BY <1>14 DEF Ack, Use, Start, handleVars, Worker
<1>15. ASSUME NEW i \in Io, DropPool(i) PROVE Exists'
  BY <1>15 DEF DropPool, handleVars
<1>16. ASSUME NEW h \in Handle, Drop(h) PROVE Exists'
  BY <1>16 DEF Drop, handleVars, Reachable
<1>17. ASSUME NEW h \in Handle, Destruct(h) PROVE Exists'
  BY <1>17 DEF Destruct, Start, handleVars
<1>18. ASSUME NEW h \in Handle, NEW w \in Worker, Finalize(w, h) PROVE Exists'
  BY <1>18 DEF Finalize, Start, handleVars, Worker
<1>19. ASSUME NEW s \in Sub, DropWatcher(s) PROVE Exists'
  <2>1. CASE sub[s] = "live"
    BY <1>19, <2>1 DEF DropWatcher, Start, handleVars
  <2>2. CASE sub[s] # "live"
    BY <1>19, <2>2 DEF DropWatcher, handleVars
  <2>3. QED
    BY <2>1, <2>2
<1>20. ASSUME Exit PROVE Exists'
  BY <1>20 DEF Exit, handleVars
<1>21. QED
  BY <1>1, <1>2, <1>3, <1>4, <1>5, <1>6, <1>7, <1>8, <1>9, <1>10, <1>11,
          <1>12, <1>13, <1>14, <1>15, <1>16, <1>17, <1>18, <1>19, <1>20
     DEF Call, Collect

\* No step of a thread does either, and a handle is closed before it is gone.
LEMMA ExistsStep ==
  ASSUME IInv, [Next]_vars  PROVE  Exists'
<1> USE TreeAssumption, NobodyAssumption
    DEF IInv, TypeOK, TreeTypeOK, HandleTypeOK, Places, Exists, OpenSteps, SubSteps
<1>1. CASE Call \/ Collect
  BY <1>1, CallsExist
<1>2. CASE UNCHANGED vars
  BY <1>2 DEF vars, handleVars, treeVars
<1>3. ASSUME NEW t \in Thread, Enter(t) PROVE Exists'
  BY <1>3, WaitingSteps DEF Enter, Goto, BeginUse
<1>4. ASSUME NEW t \in Thread, Refuse(t) PROVE Exists'
  BY <1>4, WaitingSteps DEF Refuse, Goto, Finish, RefuseUse, handleVars
<1>4a. ASSUME NEW t \in Thread, UseAgain(t) PROVE Exists'
  BY <1>4a, WaitingSteps DEF UseAgain, At, Goto, EndUse
<1>5. ASSUME NEW t \in Thread, Leave(t) PROVE Exists'
  BY <1>5 DEF Leave, Finish, EndUse
<1>6. ASSUME NEW t \in Thread, OpenNative(t) PROVE Exists'
  BY <1>6 DEF OpenNative, At, Goto, CreateNative
<1>7. ASSUME NEW t \in Thread, OpenFails(t) PROVE Exists'
  BY <1>7 DEF OpenFails, At, Goto, handleVars
<1>8. ASSUME NEW t \in Thread, LeaveOpen(t) PROVE Exists'
  BY <1>8 DEF LeaveOpen, At, Goto, EndUse
<1>9. ASSUME NEW t \in Thread, Link(t) PROVE Exists'
  BY <1>9 DEF Link, At, Goto, Finish, AddChild
<1>10. ASSUME NEW t \in Thread, Settle(t) PROVE Exists'
  BY <1>10 DEF Settle, At, Finish, handleVars
<1>11. ASSUME NEW t \in Thread, Register(t) PROVE Exists'
  BY <1>11 DEF Register, At, Goto, handleVars
<1>12. ASSUME NEW t \in Thread, RegisterFails(t) PROVE Exists'
  BY <1>12 DEF RegisterFails, At, Goto, handleVars
<1>13. ASSUME NEW t \in Thread, LeaveRefused(t) PROVE Exists'
  BY <1>13 DEF LeaveRefused, At, Goto, EndUse
<1>14. ASSUME NEW t \in Thread, Exchange(t) PROVE Exists'
  BY <1>14, WaitingSteps DEF Exchange, At, Goto, Finish, handleVars
<1>15. ASSUME NEW t \in Thread, Unregister(t) PROVE Exists'
  BY <1>15 DEF Unregister, At, Goto, handleVars
<1>16. ASSUME NEW t \in Thread, LeaveUnregister(t) PROVE Exists'
  BY <1>16, WaitingSteps DEF LeaveUnregister, At, Goto, EndUse
<1>17. ASSUME NEW t \in Thread, LeaveFlush(t) PROVE Exists'
  BY <1>17 DEF LeaveFlush, At, EndUse
<1>18. ASSUME NEW t \in Thread, Release(t) PROVE Exists'
  BY <1>18 DEF Release, At, Finish, RemoveChild
<1>19. ASSUME NEW t \in Thread, CheckChildren(t) PROVE Exists'
  <2>1. CASE HasChildren(on[t])
    BY <1>19, <2>1 DEF CheckChildren, At, Finish, handleVars
  <2>2. CASE ~HasChildren(on[t])
    BY <1>19, <2>2 DEF CheckChildren, At, Goto, handleVars
  <2>3. QED
    BY <1>19, <2>1, <2>2 DEF CheckChildren
<1>20. ASSUME NEW t \in Thread, Claim(t) PROVE Exists'
  <2>1. CASE BeginClose(t, on[t]) /\ Goto(t, "destroy")
    BY <1>20, <2>1 DEF Claim, At, Goto, BeginClose
  <2>2. CASE CloseAgain(on[t]) /\ Finish(t)
    BY <1>20, <2>2 DEF Claim, At, Finish, CloseAgain, handleVars
  <2>3. QED
    BY <1>20, <2>1, <2>2 DEF Claim
<1>21. ASSUME NEW t \in Thread, Destroy(t) PROVE Exists'
  BY <1>21 DEF Destroy, At, Goto, DestroyNative, Locks, Destroying
<1>22. ASSUME NEW t \in Thread, Unlink(t) PROVE Exists'
  BY <1>22 DEF Unlink, At, Goto, RemoveChild
<1>23. ASSUME NEW t \in Thread, Unlock(t) PROVE Exists'
  BY <1>23 DEF Unlock, At, Finish, EndClose
<1>24. QED
  BY <1>1, <1>2, <1>3, <1>4, <1>4a, <1>5, <1>6, <1>7, <1>8, <1>9, <1>10, <1>11,
          <1>12, <1>13, <1>14, <1>15, <1>16, <1>17, <1>18, <1>19, <1>20,
          <1>21, <1>22, <1>23
     DEF Next, Step

\* The addon starts in the inductive invariant.
LEMMA InitIInv == Init => IInv
<1> SUFFICES ASSUME Init PROVE IInv
  OBVIOUS
<1> USE TreeAssumption DEF Init, HandleInit
<1>1. TypeOK
  BY DEF TypeOK, HandleTypeOK, TreeTypeOK, PC
<1>2. Locks /\ Live
  BY NobodyAssumption DEF Locks, Live, Holding, Destroying
<1>3. Places
  BY DEF Places, OpenSteps, SubSteps
<1>4. Exists
  BY DEF Exists
<1>5. QED
  BY <1>1, <1>2, <1>3, <1>4 DEF IInv

\* The inductive invariant: from any state in it, whatever a call, a thread or
\* the collector does next leads to a state in it.
LEMMA NextIInv == IInv /\ [Next]_vars => IInv'
<1> SUFFICES ASSUME IInv, [Next]_vars PROVE IInv'
  OBVIOUS
<1>1. TypeOK /\ Places
  BY DEF IInv
<1>2. TypeOK'
  BY <1>1, HandleTypeStep, TreeTypeStep DEF TypeOK
<1>3. QED
  BY <1>2, LocksStep, PlacesStep, ExistsStep, LiveStep DEF IInv

\* Every state of every behaviour is in the inductive invariant.
THEOREM Invariant == Spec => []IInv
  BY InitIInv, NextIInv, PTL DEF Spec

\* The variables of the tree keep their types: no step misplaces what a thread
\* is at work on, so no step reads a handle or a subscription that is not there.
THEOREM TypeCorrect == Spec => []TypeOK
<1>1. IInv => TypeOK
  BY DEF IInv
<1>2. QED
  BY <1>1, Invariant, PTL

-----------------------------------------------------------------------------
(* What holds of any client beyond the locks.  children_ is exact because   *)
(* each thread that will change it is known by its step: Opens says which   *)
(* thread has opened a handle that has no JS object yet, Subs which one     *)
(* each unfinished subscription waits for, Closes how far a close is, Made  *)
(* that nothing is used before it was made, Freed that nothing is used      *)
(* after the collector took it.                                             *)

\* The steps of a close of a subscription that are on the cluster, and those at
\* which a thread alone decides about its subscription.
Flushing == {"flush", "flushing"}
Owning == (SubSteps \ {"exchange"}) \cup Flushing

\* What a thread is at work on was made before, and its parent before it; and
\* only some steps have a kid.
Made ==
  /\ \A t \in Thread : pc[t] # "idle" => wrapper[on[t]] # "absent"
  /\ \A t \in Thread : pc[t] \in SubSteps \cup Flushing => sub[kid[t]] # "absent"
  /\ \A k \in Io \cup Image : wrapper[k] # "absent" => wrapper[Parent[k]] # "absent"
  /\ \A i \in Io : pool[i] => wrapper[i] # "absent"
  /\ \A s \in Sub : sub[s] # "absent" => wrapper[Source[s]] # "absent"
  /\ \A s \in Sub : watcher[s] => sub[s] \notin {"absent", "counted"}
  /\ \A t \in Thread : pc[t] \in {"use", "again", "close", "claim"} => kid[t] = Nobody

\* A handle is opened by one thread, which knows it before it has a JS object.
Opens ==
  /\ \A t \in Thread : pc[t] \in {"open", "opening"} =>
       wrapper[kid[t]] = "absent" /\ native[kid[t]] = "none"
  /\ \A t \in Thread : pc[t] \in {"created", "link"} =>
       wrapper[kid[t]] = "absent" /\ native[kid[t]] = "live"
  /\ \A t \in Thread : pc[t] = "settle" => wrapper[kid[t]] = "pending"
  /\ \A t, u \in Thread :
       pc[t] \in OpenSteps /\ pc[u] \in OpenSteps /\ kid[t] = kid[u] => t = u
  /\ \A t \in Thread : pc[t] \in OpenSteps /\ kid[t] \in Io => t = JS
  /\ \A k \in Io \cup Image : wrapper[k] = "absent" /\ native[k] # "none" =>
       \E t \in Thread : pc[t] \in {"created", "link"} /\ kid[t] = k

\* What a thread that destroys a handle has done, by its step.
Closes ==
  /\ \A t \in Thread : pc[t] = "destroy" => native[on[t]] = "live"
  /\ \A t \in Thread : pc[t] \in {"unlink", "unlock"} => native[on[t]] = "gone"
  /\ \A h \in Handle : closed[h] /\ native[h] # "gone" => writer[h] # Nobody

\* A subscription that is being made or closed is so by one thread.
Subs ==
  /\ \A t \in Thread : pc[t] \in {"register", "registering"} => sub[kid[t]] = "counted"
  /\ \A t \in Thread : pc[t] \in {"unregister", "unregistering"} => sub[kid[t]] = "closed"
  /\ \A t \in Thread : pc[t] \in {"refused", "unregistered", "release"} \cup Flushing
                         => sub[kid[t]] = "off"
  /\ \A t \in Thread : pc[t] = "exchange" => sub[kid[t]] \notin {"absent", "counted"}
  /\ \A t, u \in Thread : pc[t] \in Owning /\ pc[u] \in Owning /\ kid[t] = kid[u] => t = u
  /\ \A s \in Sub : sub[s] \in {"counted", "closed", "off"} =>
       \E t \in Thread : kid[t] = s /\ pc[t] \in Owning
  /\ \A s \in Sub : sub[s] = "live" =>
       watcher[s] \/ \E t \in Thread : kid[t] = s /\ pc[t] = "exchange"

\* A destructed object has closed its handle, or is about to, and nobody else is
\* at work on it.
Freed ==
  /\ \A h \in Handle : wrapper[h] = "freed" => closed[h] \/ (pc[JS] = "claim" /\ on[JS] = h)
  /\ \A t \in Thread : pc[t] # "idle" /\ wrapper[on[t]] = "freed"
                         => t = JS /\ pc[t] \in {"claim"} \cup Destroying
  /\ \A s \in Sub : Watched(s) => \A h \in HeldBySub(s) : wrapper[h] # "freed"
  /\ \A i \in Io : pool[i] => wrapper[i] # "freed"
  /\ \A k \in Io \cup Image :
       wrapper[k] \notin {"absent", "freed"} => wrapper[Parent[k]] # "freed"

\* A step only works on what was made.
LEMMA MadeStep ==
  ASSUME IInv, Made, Subs, [Next]_vars  PROVE  Made'
<1> USE TreeAssumption, NobodyAssumption
    DEF IInv, TypeOK, TreeTypeOK, HandleTypeOK, Places, Made, OpenSteps, SubSteps,
        Flushing, Worker
<1>1. ASSUME NEW c \in Cluster, NEW w \in Worker, Connect(w, c) PROVE Made'
  BY <1>1 DEF Connect, Start, CreateNative
<1>2. ASSUME NEW c \in Cluster, Connected(c) PROVE Made'
  BY <1>2 DEF Connected, handleVars
<1>3. ASSUME NEW c \in Cluster, NEW w \in Worker, ConnectFailed(w, c) PROVE Made'
  BY <1>3 DEF ConnectFailed, Start, handleVars
<1>4. ASSUME NEW c \in Cluster, NEW t \in Thread, UseCluster(t, c) PROVE Made'
  BY <1>4 DEF UseCluster, Use, Start, Reachable, handleVars
<1>5. ASSUME NEW i \in Io, NEW t \in Thread, UseIoContext(t, i) PROVE Made'
  BY <1>5 DEF UseIoContext, Use, Start, Reachable, handleVars
<1>6. ASSUME NEW i \in Io, NEW w \in Worker, UsePool(w, i) PROVE Made'
  BY <1>6 DEF UsePool, Use, Start, handleVars
<1>7. ASSUME NEW k \in Image, NEW w \in Worker, UseImage(w, k) PROVE Made'
  BY <1>7 DEF UseImage, Use, Start, Reachable, handleVars
<1>8. ASSUME NEW k \in Image, NEW w \in Worker, OpenImage(w, k) PROVE Made'
  BY <1>8 DEF OpenImage, Start, handleVars
<1>9. ASSUME NEW i \in Io, OpenIoContext(i) PROVE Made'
  BY <1>9 DEF OpenIoContext, Start, Reachable, handleVars
<1>10. ASSUME NEW i \in Io, Rbd(i) PROVE Made'
  BY <1>10 DEF Rbd, Reachable, handleVars
<1>11. ASSUME NEW h \in Handle, NEW w \in Worker, Close(w, h) PROVE Made'
  BY <1>11 DEF Close, Start, Reachable, handleVars
<1>12. ASSUME NEW s \in Sub, Subscribe(s) PROVE Made'
  BY <1>12 DEF Subscribe, Start, AddChild, Reachable
<1>13. ASSUME NEW s \in Sub, NEW w \in Worker, Unsubscribe(w, s) PROVE Made'
  BY <1>13 DEF Unsubscribe, Start, handleVars
<1>14. ASSUME NEW s \in Sub, NEW w \in Worker, Ack(w, s) PROVE Made'
  BY <1>14 DEF Ack, Use, Start, handleVars
<1>15. ASSUME NEW i \in Io, DropPool(i) PROVE Made'
  BY <1>15 DEF DropPool, handleVars
<1>16. ASSUME NEW h \in Handle, Drop(h) PROVE Made'
  BY <1>16 DEF Drop, Reachable, handleVars
<1>17. ASSUME NEW h \in Handle, Destruct(h) PROVE Made'
  BY <1>17 DEF Destruct, Start, handleVars
<1>18. ASSUME NEW h \in Handle, NEW w \in Worker, Finalize(w, h) PROVE Made'
  BY <1>18 DEF Finalize, Start, handleVars
<1>19. ASSUME NEW s \in Sub, DropWatcher(s) PROVE Made'
  <2>1. CASE sub[s] = "live"
    BY <1>19, <2>1, SMTT(40) DEF DropWatcher, Start, handleVars
  <2>2. CASE sub[s] # "live"
    BY <1>19, <2>2, SMTT(40) DEF DropWatcher, Start, handleVars
  <2>3. QED
    BY <2>1, <2>2
<1>20. ASSUME Exit PROVE Made'
  BY <1>20 DEF Exit, handleVars
<1>21. ASSUME NEW t \in Thread, Enter(t) PROVE Made'
  BY <1>21, WaitingSteps DEF Enter, Goto, BeginUse
<1>22. ASSUME NEW t \in Thread, Refuse(t) PROVE Made'
  BY <1>22, WaitingSteps DEF Refuse, Goto, Finish, RefuseUse, handleVars
<1>23. ASSUME NEW t \in Thread, UseAgain(t) PROVE Made'
  BY <1>23, WaitingSteps DEF UseAgain, At, Goto, EndUse
<1>24. ASSUME NEW t \in Thread, Leave(t) PROVE Made'
  BY <1>24 DEF Leave, Finish, EndUse
<1>25. ASSUME NEW t \in Thread, OpenNative(t) PROVE Made'
  BY <1>25 DEF OpenNative, At, Goto, CreateNative
<1>26. ASSUME NEW t \in Thread, OpenFails(t) PROVE Made'
  BY <1>26 DEF OpenFails, At, Goto, handleVars
<1>27. ASSUME NEW t \in Thread, LeaveOpen(t) PROVE Made'
  BY <1>27 DEF LeaveOpen, At, Goto, EndUse
<1>28. ASSUME NEW t \in Thread, Link(t) PROVE Made'
  BY <1>28 DEF Link, At, Goto, Finish, AddChild
<1>29. ASSUME NEW t \in Thread, Settle(t) PROVE Made'
  BY <1>29 DEF Settle, At, Finish, handleVars
<1>30. ASSUME NEW t \in Thread, Register(t) PROVE Made'
  BY <1>30 DEF Register, At, Goto, handleVars
<1>31. ASSUME NEW t \in Thread, RegisterFails(t) PROVE Made'
  BY <1>31 DEF RegisterFails, At, Goto, handleVars
<1>32. ASSUME NEW t \in Thread, LeaveRefused(t) PROVE Made'
  BY <1>32 DEF LeaveRefused, At, Goto, EndUse
<1>33. ASSUME NEW t \in Thread, Exchange(t) PROVE Made'
  BY <1>33, WaitingSteps DEF Exchange, At, Goto, Finish, handleVars
<1>34. ASSUME NEW t \in Thread, Unregister(t) PROVE Made'
  BY <1>34 DEF Unregister, At, Goto, handleVars
<1>35. ASSUME NEW t \in Thread, LeaveUnregister(t) PROVE Made'
  BY <1>35, WaitingSteps DEF LeaveUnregister, At, Goto, EndUse
<1>36. ASSUME NEW t \in Thread, LeaveFlush(t) PROVE Made'
  BY <1>36 DEF LeaveFlush, At, EndUse
<1>37. ASSUME NEW t \in Thread, Release(t) PROVE Made'
  BY <1>37 DEF Release, At, Finish, RemoveChild
<1>38. ASSUME NEW t \in Thread, CheckChildren(t) PROVE Made'
  BY <1>38 DEF CheckChildren, At, Goto, Finish, handleVars
<1>39. ASSUME NEW t \in Thread, Claim(t) PROVE Made'
  BY <1>39 DEF Claim, At, Goto, Finish, BeginClose, CloseAgain, handleVars
<1>40. ASSUME NEW t \in Thread, Destroy(t) PROVE Made'
  BY <1>40 DEF Destroy, At, Goto, DestroyNative
<1>41. ASSUME NEW t \in Thread, Unlink(t) PROVE Made'
  BY <1>41 DEF Unlink, At, Goto, RemoveChild
<1>42. ASSUME NEW t \in Thread, Unlock(t) PROVE Made'
  BY <1>42 DEF Unlock, At, Finish, EndClose
<1>43. CASE UNCHANGED vars
  BY <1>43 DEF vars, handleVars, treeVars
<1>44. QED
  BY <1>1, <1>2, <1>3, <1>4, <1>5, <1>6, <1>7, <1>8, <1>9, <1>10, <1>11,
     <1>12, <1>13, <1>14, <1>15, <1>16, <1>17, <1>18, <1>19, <1>20, <1>21,
     <1>22, <1>23, <1>24, <1>25, <1>26, <1>27, <1>28, <1>29, <1>30, <1>31,
     <1>32, <1>33, <1>34, <1>35, <1>36, <1>37, <1>38, <1>39, <1>40, <1>41,
     <1>42, <1>43 DEF Next, Call, Collect, Step

\* A step keeps every open in one hand.
LEMMA OpensStep ==
  ASSUME IInv, Made, Opens, Closes, [Next]_vars  PROVE  Opens'
<1> USE TreeAssumption, NobodyAssumption
    DEF IInv, TypeOK, TreeTypeOK, HandleTypeOK, Places, Made, Opens, OpenSteps,
        SubSteps, Flushing, Worker, Destroying
<1>1. ASSUME NEW c \in Cluster, NEW w \in Worker, Connect(w, c) PROVE Opens'
  BY <1>1 DEF Connect, Start, CreateNative
<1>2. ASSUME NEW c \in Cluster, Connected(c) PROVE Opens'
  BY <1>2 DEF Connected, handleVars
<1>3. ASSUME NEW c \in Cluster, NEW w \in Worker, ConnectFailed(w, c) PROVE Opens'
  BY <1>3 DEF ConnectFailed, Start, handleVars
<1>4. ASSUME NEW c \in Cluster, NEW t \in Thread, UseCluster(t, c) PROVE Opens'
  BY <1>4 DEF UseCluster, Use, Start, Reachable, handleVars
<1>5. ASSUME NEW i \in Io, NEW t \in Thread, UseIoContext(t, i) PROVE Opens'
  BY <1>5 DEF UseIoContext, Use, Start, Reachable, handleVars
<1>6. ASSUME NEW i \in Io, NEW w \in Worker, UsePool(w, i) PROVE Opens'
  BY <1>6 DEF UsePool, Use, Start, handleVars
<1>7. ASSUME NEW k \in Image, NEW w \in Worker, UseImage(w, k) PROVE Opens'
  BY <1>7 DEF UseImage, Use, Start, Reachable, handleVars
<1>8. ASSUME NEW k \in Image, NEW w \in Worker, OpenImage(w, k) PROVE Opens'
  BY <1>8 DEF OpenImage, Start, handleVars
<1>9. ASSUME NEW i \in Io, OpenIoContext(i) PROVE Opens'
  BY <1>9 DEF OpenIoContext, Start, Reachable, handleVars
<1>10. ASSUME NEW i \in Io, Rbd(i) PROVE Opens'
  BY <1>10 DEF Rbd, Reachable, handleVars
<1>11. ASSUME NEW h \in Handle, NEW w \in Worker, Close(w, h) PROVE Opens'
  BY <1>11 DEF Close, Start, Reachable, handleVars
<1>12. ASSUME NEW s \in Sub, Subscribe(s) PROVE Opens'
  BY <1>12 DEF Subscribe, Start, AddChild, Reachable
<1>13. ASSUME NEW s \in Sub, NEW w \in Worker, Unsubscribe(w, s) PROVE Opens'
  BY <1>13 DEF Unsubscribe, Start, handleVars
<1>14. ASSUME NEW s \in Sub, NEW w \in Worker, Ack(w, s) PROVE Opens'
  BY <1>14 DEF Ack, Use, Start, handleVars
<1>15. ASSUME NEW i \in Io, DropPool(i) PROVE Opens'
  BY <1>15 DEF DropPool, handleVars
<1>16. ASSUME NEW h \in Handle, Drop(h) PROVE Opens'
  BY <1>16 DEF Drop, Reachable, handleVars
<1>17. ASSUME NEW h \in Handle, Destruct(h) PROVE Opens'
  BY <1>17 DEF Destruct, Start, handleVars
<1>18. ASSUME NEW h \in Handle, NEW w \in Worker, Finalize(w, h) PROVE Opens'
  BY <1>18 DEF Finalize, Start, handleVars
<1>19. ASSUME NEW s \in Sub, DropWatcher(s) PROVE Opens'
  <2>1. CASE sub[s] = "live"
    BY <1>19, <2>1, SMTT(40) DEF DropWatcher, Start, handleVars
  <2>2. CASE sub[s] # "live"
    BY <1>19, <2>2 DEF DropWatcher, Start, handleVars
  <2>3. QED
    BY <2>1, <2>2
<1>20. ASSUME Exit PROVE Opens'
  BY <1>20 DEF Exit, handleVars
<1>21. ASSUME NEW t \in Thread, Enter(t) PROVE Opens'
  BY <1>21, WaitingSteps DEF Enter, Goto, BeginUse
<1>22. ASSUME NEW t \in Thread, Refuse(t) PROVE Opens'
  <2>1. CASE t = JS /\ pc[t] \in {"unregister", "flush"}
    BY <1>22, <2>1, WaitingSteps DEF Refuse, Goto, RefuseUse, handleVars
  <2>2. CASE ~(t = JS /\ pc[t] \in {"unregister", "flush"})
    BY <1>22, <2>2, WaitingSteps DEF Refuse, Finish, RefuseUse, handleVars
  <2>3. QED
    BY <2>1, <2>2
<1>23. ASSUME NEW t \in Thread, UseAgain(t) PROVE Opens'
  BY <1>23, WaitingSteps DEF UseAgain, At, Goto, EndUse
<1>24. ASSUME NEW t \in Thread, Leave(t) PROVE Opens'
  BY <1>24 DEF Leave, Finish, EndUse
<1>25. ASSUME NEW t \in Thread, OpenNative(t) PROVE Opens'
  BY <1>25 DEF OpenNative, At, Goto, CreateNative
<1>26. ASSUME NEW t \in Thread, OpenFails(t) PROVE Opens'
  BY <1>26 DEF OpenFails, At, Goto, handleVars
<1>27. ASSUME NEW t \in Thread, LeaveOpen(t) PROVE Opens'
  BY <1>27 DEF LeaveOpen, At, Goto, EndUse
<1>28. ASSUME NEW t \in Thread, Link(t) PROVE Opens'
  BY <1>28 DEF Link, At, Goto, Finish, AddChild
<1>29. ASSUME NEW t \in Thread, Settle(t) PROVE Opens'
  BY <1>29 DEF Settle, At, Finish, handleVars
<1>30. ASSUME NEW t \in Thread, Register(t) PROVE Opens'
  BY <1>30 DEF Register, At, Goto, handleVars
<1>31. ASSUME NEW t \in Thread, RegisterFails(t) PROVE Opens'
  BY <1>31 DEF RegisterFails, At, Goto, handleVars
<1>32. ASSUME NEW t \in Thread, LeaveRefused(t) PROVE Opens'
  BY <1>32 DEF LeaveRefused, At, Goto, EndUse
<1>33. ASSUME NEW t \in Thread, Exchange(t) PROVE Opens'
  BY <1>33, WaitingSteps DEF Exchange, At, Goto, Finish, handleVars
<1>34. ASSUME NEW t \in Thread, Unregister(t) PROVE Opens'
  BY <1>34 DEF Unregister, At, Goto, handleVars
<1>35. ASSUME NEW t \in Thread, LeaveUnregister(t) PROVE Opens'
  BY <1>35, WaitingSteps DEF LeaveUnregister, At, Goto, EndUse
<1>36. ASSUME NEW t \in Thread, LeaveFlush(t) PROVE Opens'
  BY <1>36 DEF LeaveFlush, At, EndUse
<1>37. ASSUME NEW t \in Thread, Release(t) PROVE Opens'
  BY <1>37 DEF Release, At, Finish, RemoveChild
<1>38. ASSUME NEW t \in Thread, CheckChildren(t) PROVE Opens'
  BY <1>38 DEF CheckChildren, At, Goto, Finish, handleVars
<1>39. ASSUME NEW t \in Thread, Claim(t) PROVE Opens'
  BY <1>39 DEF Claim, At, Goto, Finish, BeginClose, CloseAgain, handleVars
<1>40. ASSUME NEW t \in Thread, Destroy(t) PROVE Opens'
  BY <1>40 DEF Destroy, At, Goto, DestroyNative
<1>41. ASSUME NEW t \in Thread, Unlink(t) PROVE Opens'
  BY <1>41 DEF Unlink, At, Goto, RemoveChild
<1>42. ASSUME NEW t \in Thread, Unlock(t) PROVE Opens'
  BY <1>42 DEF Unlock, At, Finish, EndClose
<1>43. CASE UNCHANGED vars
  BY <1>43 DEF vars, handleVars, treeVars
<1>44. QED
  BY <1>1, <1>2, <1>3, <1>4, <1>5, <1>6, <1>7, <1>8, <1>9, <1>10, <1>11,
     <1>12, <1>13, <1>14, <1>15, <1>16, <1>17, <1>18, <1>19, <1>20, <1>21,
     <1>22, <1>23, <1>24, <1>25, <1>26, <1>27, <1>28, <1>29, <1>30, <1>31,
     <1>32, <1>33, <1>34, <1>35, <1>36, <1>37, <1>38, <1>39, <1>40, <1>41,
     <1>42, <1>43 DEF Next, Call, Collect, Step

\* A step keeps the closes in order.
LEMMA ClosesStep ==
  ASSUME IInv, Made, Opens, Closes, [Next]_vars  PROVE  Closes'
<1> USE TreeAssumption, NobodyAssumption
    DEF IInv, TypeOK, TreeTypeOK, HandleTypeOK, Places, Locks, Exists, Opens, Closes, OpenSteps,
        SubSteps, Destroying
<1>1. ASSUME NEW c \in Cluster, NEW w \in Worker, Connect(w, c) PROVE Closes'
  BY <1>1 DEF Connect, Start, CreateNative
<1>2. ASSUME NEW c \in Cluster, Connected(c) PROVE Closes'
  BY <1>2 DEF Connected, handleVars
<1>3. ASSUME NEW c \in Cluster, NEW w \in Worker, ConnectFailed(w, c) PROVE Closes'
  BY <1>3 DEF ConnectFailed, Start, handleVars
<1>4. ASSUME NEW c \in Cluster, NEW t \in Thread, UseCluster(t, c) PROVE Closes'
  BY <1>4 DEF UseCluster, Use, Start, Reachable, handleVars
<1>5. ASSUME NEW i \in Io, NEW t \in Thread, UseIoContext(t, i) PROVE Closes'
  BY <1>5 DEF UseIoContext, Use, Start, Reachable, handleVars
<1>6. ASSUME NEW i \in Io, NEW w \in Worker, UsePool(w, i) PROVE Closes'
  BY <1>6 DEF UsePool, Use, Start, handleVars
<1>7. ASSUME NEW k \in Image, NEW w \in Worker, UseImage(w, k) PROVE Closes'
  BY <1>7 DEF UseImage, Use, Start, Reachable, handleVars
<1>8. ASSUME NEW k \in Image, NEW w \in Worker, OpenImage(w, k) PROVE Closes'
  BY <1>8 DEF OpenImage, Start, handleVars
<1>9. ASSUME NEW i \in Io, OpenIoContext(i) PROVE Closes'
  BY <1>9 DEF OpenIoContext, Start, Reachable, handleVars
<1>10. ASSUME NEW i \in Io, Rbd(i) PROVE Closes'
  BY <1>10 DEF Rbd, Reachable, handleVars
<1>11. ASSUME NEW h \in Handle, NEW w \in Worker, Close(w, h) PROVE Closes'
  BY <1>11 DEF Close, Start, Reachable, handleVars
<1>12. ASSUME NEW s \in Sub, Subscribe(s) PROVE Closes'
  BY <1>12 DEF Subscribe, Start, AddChild, Reachable
<1>13. ASSUME NEW s \in Sub, NEW w \in Worker, Unsubscribe(w, s) PROVE Closes'
  BY <1>13 DEF Unsubscribe, Start, handleVars
<1>14. ASSUME NEW s \in Sub, NEW w \in Worker, Ack(w, s) PROVE Closes'
  BY <1>14 DEF Ack, Use, Start, handleVars
<1>15. ASSUME NEW i \in Io, DropPool(i) PROVE Closes'
  BY <1>15 DEF DropPool, handleVars
<1>16. ASSUME NEW h \in Handle, Drop(h) PROVE Closes'
  BY <1>16 DEF Drop, Reachable, handleVars
<1>17. ASSUME NEW h \in Handle, Destruct(h) PROVE Closes'
  BY <1>17 DEF Destruct, Start, handleVars
<1>18. ASSUME NEW h \in Handle, NEW w \in Worker, Finalize(w, h) PROVE Closes'
  BY <1>18 DEF Finalize, Start, handleVars
<1>19. ASSUME NEW s \in Sub, DropWatcher(s) PROVE Closes'
  BY <1>19, SMTT(40) DEF DropWatcher, Start, handleVars
<1>20. ASSUME Exit PROVE Closes'
  BY <1>20 DEF Exit, handleVars
<1>21. ASSUME NEW t \in Thread, Enter(t) PROVE Closes'
  BY <1>21, WaitingSteps DEF Enter, Goto, BeginUse
<1>22. ASSUME NEW t \in Thread, Refuse(t) PROVE Closes'
  BY <1>22, WaitingSteps DEF Refuse, Goto, Finish, RefuseUse, handleVars
<1>23. ASSUME NEW t \in Thread, UseAgain(t) PROVE Closes'
  BY <1>23, WaitingSteps DEF UseAgain, At, Goto, EndUse
<1>24. ASSUME NEW t \in Thread, Leave(t) PROVE Closes'
  BY <1>24 DEF Leave, Finish, EndUse
<1>25. ASSUME NEW t \in Thread, OpenNative(t) PROVE Closes'
  BY <1>25 DEF OpenNative, At, Goto, CreateNative
<1>26. ASSUME NEW t \in Thread, OpenFails(t) PROVE Closes'
  BY <1>26 DEF OpenFails, At, Goto, handleVars
<1>27. ASSUME NEW t \in Thread, LeaveOpen(t) PROVE Closes'
  BY <1>27 DEF LeaveOpen, At, Goto, EndUse
<1>28. ASSUME NEW t \in Thread, Link(t) PROVE Closes'
  <2>1. CASE t = JS
    <3>1. pc' = [pc EXCEPT ![t] = "idle"] /\ on' = [on EXCEPT ![t] = Nobody]
      BY <1>28, <2>1 DEF Link, Finish
    <3>2. UNCHANGED <<native, closed, writer>>
      BY <1>28 DEF Link, AddChild
    <3>3. QED
      BY <3>1, <3>2
  <2>2. CASE t # JS
    <3>1. pc' = [pc EXCEPT ![t] = "settle"] /\ UNCHANGED <<on, kid>>
      BY <1>28, <2>2 DEF Link, Goto
    <3>2. UNCHANGED <<native, closed, writer>>
      BY <1>28 DEF Link, AddChild
    <3>3. QED
      BY <3>1, <3>2
  <2>3. QED
    BY <2>1, <2>2
<1>29. ASSUME NEW t \in Thread, Settle(t) PROVE Closes'
  BY <1>29 DEF Settle, At, Finish, handleVars
<1>30. ASSUME NEW t \in Thread, Register(t) PROVE Closes'
  BY <1>30 DEF Register, At, Goto, handleVars
<1>31. ASSUME NEW t \in Thread, RegisterFails(t) PROVE Closes'
  BY <1>31 DEF RegisterFails, At, Goto, handleVars
<1>32. ASSUME NEW t \in Thread, LeaveRefused(t) PROVE Closes'
  BY <1>32 DEF LeaveRefused, At, Goto, EndUse
<1>33. ASSUME NEW t \in Thread, Exchange(t) PROVE Closes'
  BY <1>33, WaitingSteps DEF Exchange, At, Goto, Finish, handleVars
<1>34. ASSUME NEW t \in Thread, Unregister(t) PROVE Closes'
  BY <1>34 DEF Unregister, At, Goto, handleVars
<1>35. ASSUME NEW t \in Thread, LeaveUnregister(t) PROVE Closes'
  <2>1. CASE on[t] \in Io
    BY <1>35, <2>1, SMTT(40), WaitingSteps DEF LeaveUnregister, At, EndUse
  <2>2. CASE on[t] \notin Io
    BY <1>35, <2>2 DEF LeaveUnregister, At, Goto, EndUse
  <2>3. QED
    BY <2>1, <2>2
<1>36. ASSUME NEW t \in Thread, LeaveFlush(t) PROVE Closes'
  BY <1>36 DEF LeaveFlush, At, EndUse
<1>37. ASSUME NEW t \in Thread, Release(t) PROVE Closes'
  BY <1>37 DEF Release, At, Finish, RemoveChild
<1>38. ASSUME NEW t \in Thread, CheckChildren(t) PROVE Closes'
  BY <1>38 DEF CheckChildren, At, Goto, Finish, handleVars
<1>39. ASSUME NEW t \in Thread, Claim(t) PROVE Closes'
  <2>1. CASE BeginClose(t, on[t]) /\ Goto(t, "destroy")
    BY <1>39, <2>1 DEF Claim, At, Goto, BeginClose
  <2>2. CASE CloseAgain(on[t]) /\ Finish(t)
    BY <1>39, <2>2 DEF Claim, At, Finish, CloseAgain, handleVars
  <2>3. QED
    BY <1>39, <2>1, <2>2 DEF Claim
<1>40. ASSUME NEW t \in Thread, Destroy(t) PROVE Closes'
  BY <1>40 DEF Destroy, At, Goto, DestroyNative
<1>41. ASSUME NEW t \in Thread, Unlink(t) PROVE Closes'
  BY <1>41 DEF Unlink, At, Goto, RemoveChild
<1>42. ASSUME NEW t \in Thread, Unlock(t) PROVE Closes'
  BY <1>42 DEF Unlock, At, Finish, EndClose
<1>43. CASE UNCHANGED vars
  BY <1>43 DEF vars, handleVars, treeVars
<1>44. QED
  BY <1>1, <1>2, <1>3, <1>4, <1>5, <1>6, <1>7, <1>8, <1>9, <1>10, <1>11,
     <1>12, <1>13, <1>14, <1>15, <1>16, <1>17, <1>18, <1>19, <1>20, <1>21,
     <1>22, <1>23, <1>24, <1>25, <1>26, <1>27, <1>28, <1>29, <1>30, <1>31,
     <1>32, <1>33, <1>34, <1>35, <1>36, <1>37, <1>38, <1>39, <1>40, <1>41,
     <1>42, <1>43 DEF Next, Call, Collect, Step

\* A step keeps every unfinished subscription in one hand.
LEMMA SubsStep ==
  ASSUME IInv, Made, Subs, [Next]_vars  PROVE  Subs'
<1> USE TreeAssumption, NobodyAssumption
    DEF IInv, TypeOK, TreeTypeOK, HandleTypeOK, Places, Made, Subs, SubSteps, OpenSteps,
        Flushing, Owning, Worker
<1>1. ASSUME NEW c \in Cluster, NEW w \in Worker, Connect(w, c) PROVE Subs'
  BY <1>1 DEF Connect, Start, CreateNative
<1>2. ASSUME NEW c \in Cluster, Connected(c) PROVE Subs'
  BY <1>2 DEF Connected, handleVars
<1>3. ASSUME NEW c \in Cluster, NEW w \in Worker, ConnectFailed(w, c) PROVE Subs'
  BY <1>3 DEF ConnectFailed, Start, handleVars
<1>4. ASSUME NEW c \in Cluster, NEW t \in Thread, UseCluster(t, c) PROVE Subs'
  BY <1>4 DEF UseCluster, Use, Start, Reachable, handleVars
<1>5. ASSUME NEW i \in Io, NEW t \in Thread, UseIoContext(t, i) PROVE Subs'
  BY <1>5 DEF UseIoContext, Use, Start, Reachable, handleVars
<1>6. ASSUME NEW i \in Io, NEW w \in Worker, UsePool(w, i) PROVE Subs'
  BY <1>6 DEF UsePool, Use, Start, handleVars
<1>7. ASSUME NEW k \in Image, NEW w \in Worker, UseImage(w, k) PROVE Subs'
  BY <1>7 DEF UseImage, Use, Start, Reachable, handleVars
<1>8. ASSUME NEW k \in Image, NEW w \in Worker, OpenImage(w, k) PROVE Subs'
  BY <1>8 DEF OpenImage, Start, handleVars
<1>9. ASSUME NEW i \in Io, OpenIoContext(i) PROVE Subs'
  BY <1>9 DEF OpenIoContext, Start, Reachable, handleVars
<1>10. ASSUME NEW i \in Io, Rbd(i) PROVE Subs'
  BY <1>10 DEF Rbd, Reachable, handleVars
<1>11. ASSUME NEW h \in Handle, NEW w \in Worker, Close(w, h) PROVE Subs'
  BY <1>11 DEF Close, Start, Reachable, handleVars
<1>12. ASSUME NEW s \in Sub, Subscribe(s) PROVE Subs'
  BY <1>12 DEF Subscribe, Start, AddChild, Reachable
<1>13. ASSUME NEW s \in Sub, NEW w \in Worker, Unsubscribe(w, s) PROVE Subs'
  BY <1>13 DEF Unsubscribe, Start, handleVars
<1>14. ASSUME NEW s \in Sub, NEW w \in Worker, Ack(w, s) PROVE Subs'
  BY <1>14 DEF Ack, Use, Start, handleVars
<1>15. ASSUME NEW i \in Io, DropPool(i) PROVE Subs'
  BY <1>15 DEF DropPool, handleVars
<1>16. ASSUME NEW h \in Handle, Drop(h) PROVE Subs'
  BY <1>16 DEF Drop, Reachable, handleVars
<1>17. ASSUME NEW h \in Handle, Destruct(h) PROVE Subs'
  BY <1>17 DEF Destruct, Start, handleVars
<1>18. ASSUME NEW h \in Handle, NEW w \in Worker, Finalize(w, h) PROVE Subs'
  BY <1>18 DEF Finalize, Start, handleVars
<1>19. ASSUME NEW s \in Sub, DropWatcher(s) PROVE Subs'
  <2>1. CASE sub[s] = "live"
    BY <1>19, <2>1, SMTT(40) DEF DropWatcher, Start, handleVars
  <2>2. CASE sub[s] # "live"
    BY <1>19, <2>2 DEF DropWatcher, Start, handleVars
  <2>3. QED
    BY <2>1, <2>2
<1>20. ASSUME Exit PROVE Subs'
  BY <1>20 DEF Exit, handleVars
<1>21. ASSUME NEW t \in Thread, Enter(t) PROVE Subs'
  BY <1>21, WaitingSteps DEF Enter, Goto, BeginUse
<1>22. ASSUME NEW t \in Thread, Refuse(t) PROVE Subs'
  <2>1. CASE t = JS /\ pc[t] \in {"unregister", "flush"}
    BY <1>22, <2>1, WaitingSteps DEF Refuse, Goto, RefuseUse, handleVars
  <2>2. CASE ~(t = JS /\ pc[t] \in {"unregister", "flush"})
    BY <1>22, <2>2, SMTT(40), WaitingSteps DEF Refuse, Finish, RefuseUse, handleVars
  <2>3. QED
    BY <2>1, <2>2
<1>23. ASSUME NEW t \in Thread, UseAgain(t) PROVE Subs'
  BY <1>23, WaitingSteps DEF UseAgain, At, Goto, EndUse
<1>24. ASSUME NEW t \in Thread, Leave(t) PROVE Subs'
  BY <1>24 DEF Leave, Finish, EndUse
<1>25. ASSUME NEW t \in Thread, OpenNative(t) PROVE Subs'
  BY <1>25 DEF OpenNative, At, Goto, CreateNative
<1>26. ASSUME NEW t \in Thread, OpenFails(t) PROVE Subs'
  BY <1>26 DEF OpenFails, At, Goto, handleVars
<1>27. ASSUME NEW t \in Thread, LeaveOpen(t) PROVE Subs'
  BY <1>27 DEF LeaveOpen, At, Goto, EndUse
<1>28. ASSUME NEW t \in Thread, Link(t) PROVE Subs'
  <2>1. CASE t = JS
    BY <1>28, <2>1, SMTT(40) DEF Link, At, Finish, AddChild
  <2>2. CASE t # JS
    <3>1. pc' = [pc EXCEPT ![t] = "settle"] /\ UNCHANGED <<on, kid>>
      BY <1>28, <2>2 DEF Link, Goto
    <3>2. UNCHANGED <<sub, watcher>>
      BY <1>28 DEF Link
    <3>3. QED
      BY <1>28, <3>1, <3>2 DEF Link, At
  <2>3. QED
    BY <2>1, <2>2
<1>29. ASSUME NEW t \in Thread, Settle(t) PROVE Subs'
  BY <1>29 DEF Settle, At, Finish, handleVars
<1>30. ASSUME NEW t \in Thread, Register(t) PROVE Subs'
  BY <1>30 DEF Register, At, Goto, handleVars
<1>31. ASSUME NEW t \in Thread, RegisterFails(t) PROVE Subs'
  BY <1>31 DEF RegisterFails, At, Goto, handleVars
<1>32. ASSUME NEW t \in Thread, LeaveRefused(t) PROVE Subs'
  BY <1>32 DEF LeaveRefused, At, Goto, EndUse
<1>33. ASSUME NEW t \in Thread, Exchange(t) PROVE Subs'
  <2>1. CASE sub[kid[t]] = "live"
    BY <1>33, <2>1, SMTT(40), WaitingSteps DEF Exchange, At, Goto, handleVars
  <2>2. CASE sub[kid[t]] # "live"
    BY <1>33, <2>2, SMTT(40) DEF Exchange, At, Finish, handleVars
  <2>3. QED
    BY <2>1, <2>2
<1>34. ASSUME NEW t \in Thread, Unregister(t) PROVE Subs'
  BY <1>34 DEF Unregister, At, Goto, handleVars
<1>35. ASSUME NEW t \in Thread, LeaveUnregister(t) PROVE Subs'
  <2>1. CASE on[t] \in Io
    BY <1>35, <2>1, WaitingSteps DEF LeaveUnregister, At, EndUse
  <2>2. CASE on[t] \notin Io
    BY <1>35, <2>2 DEF LeaveUnregister, At, Goto, EndUse
  <2>3. QED
    BY <2>1, <2>2
<1>36. ASSUME NEW t \in Thread, LeaveFlush(t) PROVE Subs'
  BY <1>36 DEF LeaveFlush, At, EndUse
<1>37. ASSUME NEW t \in Thread, Release(t) PROVE Subs'
  BY <1>37 DEF Release, At, Finish, RemoveChild
<1>38. ASSUME NEW t \in Thread, CheckChildren(t) PROVE Subs'
  BY <1>38 DEF CheckChildren, At, Goto, Finish, handleVars
<1>39. ASSUME NEW t \in Thread, Claim(t) PROVE Subs'
  <2>1. CASE BeginClose(t, on[t]) /\ Goto(t, "destroy")
    BY <1>39, <2>1 DEF Claim, At, Goto, BeginClose
  <2>2. CASE CloseAgain(on[t]) /\ Finish(t)
    BY <1>39, <2>2 DEF Claim, At, Finish, CloseAgain, handleVars
  <2>3. QED
    BY <1>39, <2>1, <2>2 DEF Claim
<1>40. ASSUME NEW t \in Thread, Destroy(t) PROVE Subs'
  BY <1>40 DEF Destroy, At, Goto, DestroyNative
<1>41. ASSUME NEW t \in Thread, Unlink(t) PROVE Subs'
  BY <1>41 DEF Unlink, At, Goto, RemoveChild
<1>42. ASSUME NEW t \in Thread, Unlock(t) PROVE Subs'
  BY <1>42 DEF Unlock, At, Finish, EndClose
<1>43. CASE UNCHANGED vars
  BY <1>43 DEF vars, handleVars, treeVars
<1>44. QED
  BY <1>1, <1>2, <1>3, <1>4, <1>5, <1>6, <1>7, <1>8, <1>9, <1>10, <1>11,
     <1>12, <1>13, <1>14, <1>15, <1>16, <1>17, <1>18, <1>19, <1>20, <1>21,
     <1>22, <1>23, <1>24, <1>25, <1>26, <1>27, <1>28, <1>29, <1>30, <1>31,
     <1>32, <1>33, <1>34, <1>35, <1>36, <1>37, <1>38, <1>39, <1>40, <1>41,
     <1>42, <1>43 DEF Next, Call, Collect, Step

\* A step never gets at a handle that the collector has taken.
LEMMA FreedStep ==
  ASSUME IInv, Made, Opens, Freed, [Next]_vars  PROVE  Freed'
<1> USE TreeAssumption, NobodyAssumption
    DEF IInv, TypeOK, TreeTypeOK, HandleTypeOK, Places, Made, Freed, OpenSteps, SubSteps,
        Flushing, Destroying, Worker, Referenced, Watched, HeldBySub
<1>1. ASSUME NEW c \in Cluster, NEW w \in Worker, Connect(w, c) PROVE Freed'
  BY <1>1 DEF Connect, Start, CreateNative
<1>2. ASSUME NEW c \in Cluster, Connected(c) PROVE Freed'
  BY <1>2 DEF Connected, handleVars
<1>3. ASSUME NEW c \in Cluster, NEW w \in Worker, ConnectFailed(w, c) PROVE Freed'
  BY <1>3 DEF ConnectFailed, Start, handleVars
<1>4. ASSUME NEW c \in Cluster, NEW t \in Thread, UseCluster(t, c) PROVE Freed'
  BY <1>4 DEF UseCluster, Use, Start, Reachable, handleVars
<1>5. ASSUME NEW i \in Io, NEW t \in Thread, UseIoContext(t, i) PROVE Freed'
  BY <1>5 DEF UseIoContext, Use, Start, Reachable, handleVars
<1>6. ASSUME NEW i \in Io, NEW w \in Worker, UsePool(w, i) PROVE Freed'
  BY <1>6 DEF UsePool, Use, Start, handleVars
<1>7. ASSUME NEW k \in Image, NEW w \in Worker, UseImage(w, k) PROVE Freed'
  BY <1>7 DEF UseImage, Use, Start, Reachable, handleVars
<1>8. ASSUME NEW k \in Image, NEW w \in Worker, OpenImage(w, k) PROVE Freed'
  BY <1>8 DEF OpenImage, Start, handleVars
<1>9. ASSUME NEW i \in Io, OpenIoContext(i) PROVE Freed'
  BY <1>9 DEF OpenIoContext, Start, Reachable, handleVars
<1>10. ASSUME NEW i \in Io, Rbd(i) PROVE Freed'
  BY <1>10 DEF Rbd, Reachable, handleVars
<1>11. ASSUME NEW h \in Handle, NEW w \in Worker, Close(w, h) PROVE Freed'
  BY <1>11 DEF Close, Start, Reachable, handleVars
<1>12. ASSUME NEW s \in Sub, Subscribe(s) PROVE Freed'
  BY <1>12 DEF Subscribe, Start, AddChild, Reachable
<1>13. ASSUME NEW s \in Sub, NEW w \in Worker, Unsubscribe(w, s) PROVE Freed'
  BY <1>13 DEF Unsubscribe, Start, handleVars
<1>14. ASSUME NEW s \in Sub, NEW w \in Worker, Ack(w, s) PROVE Freed'
  BY <1>14 DEF Ack, Use, Start, handleVars
<1>15. ASSUME NEW i \in Io, DropPool(i) PROVE Freed'
  BY <1>15 DEF DropPool, handleVars
<1>16. ASSUME NEW h \in Handle, Drop(h) PROVE Freed'
  BY <1>16 DEF Drop, Reachable, handleVars
<1>17. ASSUME NEW h \in Handle, Destruct(h) PROVE Freed'
  BY <1>17 DEF Destruct, Start, handleVars
<1>18. ASSUME NEW h \in Handle, NEW w \in Worker, Finalize(w, h) PROVE Freed'
  BY <1>18 DEF Finalize, Start, handleVars
<1>19. ASSUME NEW s \in Sub, DropWatcher(s) PROVE Freed'
  BY <1>19 DEF DropWatcher, Start, handleVars
<1>20. ASSUME Exit PROVE Freed'
  BY <1>20 DEF Exit, handleVars
<1>21. ASSUME NEW t \in Thread, Enter(t) PROVE Freed'
  BY <1>21, WaitingSteps DEF Enter, Goto, BeginUse
<1>22. ASSUME NEW t \in Thread, Refuse(t) PROVE Freed'
  BY <1>22, WaitingSteps DEF Refuse, Goto, Finish, RefuseUse, handleVars
<1>23. ASSUME NEW t \in Thread, UseAgain(t) PROVE Freed'
  BY <1>23, WaitingSteps DEF UseAgain, At, Goto, EndUse
<1>24. ASSUME NEW t \in Thread, Leave(t) PROVE Freed'
  BY <1>24 DEF Leave, Finish, EndUse
<1>25. ASSUME NEW t \in Thread, OpenNative(t) PROVE Freed'
  BY <1>25 DEF OpenNative, At, Goto, CreateNative
<1>26. ASSUME NEW t \in Thread, OpenFails(t) PROVE Freed'
  BY <1>26 DEF OpenFails, At, Goto, handleVars
<1>27. ASSUME NEW t \in Thread, LeaveOpen(t) PROVE Freed'
  BY <1>27 DEF LeaveOpen, At, Goto, EndUse
<1>28. ASSUME NEW t \in Thread, Link(t) PROVE Freed'
  BY <1>28 DEF Link, At, Goto, Finish, AddChild
<1>29. ASSUME NEW t \in Thread, Settle(t) PROVE Freed'
  BY <1>29 DEF Settle, At, Finish, handleVars
<1>30. ASSUME NEW t \in Thread, Register(t) PROVE Freed'
  BY <1>30 DEF Register, At, Goto, handleVars
<1>31. ASSUME NEW t \in Thread, RegisterFails(t) PROVE Freed'
  BY <1>31 DEF RegisterFails, At, Goto, handleVars
<1>32. ASSUME NEW t \in Thread, LeaveRefused(t) PROVE Freed'
  BY <1>32 DEF LeaveRefused, At, Goto, EndUse
<1>33. ASSUME NEW t \in Thread, Exchange(t) PROVE Freed'
  BY <1>33, WaitingSteps DEF Exchange, At, Goto, Finish, handleVars
<1>34. ASSUME NEW t \in Thread, Unregister(t) PROVE Freed'
  BY <1>34 DEF Unregister, At, Goto, handleVars
<1>35. ASSUME NEW t \in Thread, LeaveUnregister(t) PROVE Freed'
  BY <1>35, WaitingSteps DEF LeaveUnregister, At, Goto, EndUse
<1>36. ASSUME NEW t \in Thread, LeaveFlush(t) PROVE Freed'
  BY <1>36 DEF LeaveFlush, At, EndUse
<1>37. ASSUME NEW t \in Thread, Release(t) PROVE Freed'
  BY <1>37 DEF Release, At, Finish, RemoveChild
<1>38. ASSUME NEW t \in Thread, CheckChildren(t) PROVE Freed'
  BY <1>38 DEF CheckChildren, At, Goto, Finish, handleVars
<1>39. ASSUME NEW t \in Thread, Claim(t) PROVE Freed'
  BY <1>39 DEF Claim, At, Goto, Finish, BeginClose, CloseAgain, handleVars
<1>40. ASSUME NEW t \in Thread, Destroy(t) PROVE Freed'
  BY <1>40 DEF Destroy, At, Goto, DestroyNative
<1>41. ASSUME NEW t \in Thread, Unlink(t) PROVE Freed'
  BY <1>41 DEF Unlink, At, Goto, RemoveChild
<1>42. ASSUME NEW t \in Thread, Unlock(t) PROVE Freed'
  BY <1>42 DEF Unlock, At, Finish, EndClose
<1>43. CASE UNCHANGED vars
  BY <1>43 DEF vars, handleVars, treeVars
<1>44. QED
  BY <1>1, <1>2, <1>3, <1>4, <1>5, <1>6, <1>7, <1>8, <1>9, <1>10, <1>11,
     <1>12, <1>13, <1>14, <1>15, <1>16, <1>17, <1>18, <1>19, <1>20, <1>21,
     <1>22, <1>23, <1>24, <1>25, <1>26, <1>27, <1>28, <1>29, <1>30, <1>31,
     <1>32, <1>33, <1>34, <1>35, <1>36, <1>37, <1>38, <1>39, <1>40, <1>41,
     <1>42, <1>43 DEF Next, Call, Collect, Step

-----------------------------------------------------------------------------
(* ChildCountExact.                                                         *)

\* The children that children_ counts.
Kids(h) == {k \in DOMAIN Parent : Parent[k] = h /\ Linked(k)}
Counts(s) == sub[s] \notin {"absent", "done"}
Counted(h) == {s \in Sub : Source[s] = h /\ Counts(s)}

\* A step may leave them as they are.
KidsSame == \A k \in Io \cup Image : Linked(k)' <=> Linked(k)
SubsSame == \A s \in Sub : Counts(s)' <=> Counts(s)

\* The sum is over finite sets, of which a step changes one by one element at most.
LEMMA CountSets ==
  ASSUME NEW h \in Handle
  PROVE  /\ IsFiniteSet(Kids(h)) /\ Cardinality(Kids(h)) \in Nat
         /\ IsFiniteSet(Counted(h)) /\ Cardinality(Counted(h)) \in Nat
<1>1. Kids(h) \subseteq Handle /\ Counted(h) \subseteq Sub
  BY TreeAssumption DEF Kids, Counted
<1>2. QED
  BY <1>1, FiniteAssumption, FS_Subset, FS_CardinalityType

\* ChildCountExact is about the sizes of these sets,
LEMMA CountDef ==
  ChildCountExact <=>
    \A h \in Handle : children[h] = Cardinality(Kids(h)) + Cardinality(Counted(h))
  BY DEF ChildCountExact, Kids, Counted, Counts

\* before a step and after it.
LEMMA CountDefNext ==
  ChildCountExact' <=>
    \A h \in Handle : children'[h] = Cardinality(Kids(h)') + Cardinality(Counted(h)')
  BY DEF ChildCountExact, Kids, Counted, Counts

\* If no child changes, no set of children does.
LEMMA KidsKept == ASSUME KidsSame, NEW h \in Handle PROVE Kids(h)' = Kids(h)
  BY TreeAssumption DEF KidsSame, Kids

\* The same for subscriptions.
LEMMA CountedKept == ASSUME SubsSame, NEW h \in Handle PROVE Counted(h)' = Counted(h)
  BY DEF SubsSame, Counted

\* A step that counts nothing and changes no child keeps the count exact,
LEMMA NothingCounted ==
  ASSUME ChildCountExact, UNCHANGED children, KidsSame, SubsSame
  PROVE  ChildCountExact'
  BY CountDef, CountDefNext, KidsKept, CountedKept

\* as does one that counts the child it adds,
LEMMA KidCounted ==
  ASSUME TypeOK, ChildCountExact, SubsSame, NEW k \in Io \cup Image, AddChild(Parent[k]),
         ~Linked(k), Linked(k)', \A c \in (Io \cup Image) \ {k} : Linked(c)' <=> Linked(c)
  PROVE  ChildCountExact'
<1> SUFFICES ASSUME NEW h \in Handle
             PROVE  children'[h] = Cardinality(Kids(h)') + Cardinality(Counted(h)')
  BY CountDefNext
<1>1. children[h] = Cardinality(Kids(h)) + Cardinality(Counted(h))
  BY CountDef
<1>2. CASE h = Parent[k]
  <2>1. Kids(h)' = Kids(h) \cup {k} /\ k \notin Kids(h)
    BY <1>2, TreeAssumption DEF Kids
  <2>2. Cardinality(Kids(h)') = Cardinality(Kids(h)) + 1
    BY <2>1, CountSets, FS_AddElement
  <2>3. children'[h] = children[h] + 1
    BY <1>2 DEF AddChild, TypeOK, HandleTypeOK
  <2>4. QED
    BY <1>1, <2>2, <2>3, CountSets, CountedKept
<1>3. CASE h # Parent[k]
  <2>1. Kids(h)' = Kids(h)
    BY <1>3, TreeAssumption DEF Kids
  <2>2. QED
    BY <1>1, <1>3, <2>1, CountedKept DEF AddChild, TypeOK, HandleTypeOK
<1>4. QED
  BY <1>2, <1>3

\* takes back the one it removes,
LEMMA KidUncounted ==
  ASSUME TypeOK, ChildCountExact, SubsSame, NEW k \in Io \cup Image, RemoveChild(Parent[k]),
         Linked(k), ~Linked(k)', \A c \in (Io \cup Image) \ {k} : Linked(c)' <=> Linked(c)
  PROVE  ChildCountExact'
<1> SUFFICES ASSUME NEW h \in Handle
             PROVE  children'[h] = Cardinality(Kids(h)') + Cardinality(Counted(h)')
  BY CountDefNext
<1>1. children[h] = Cardinality(Kids(h)) + Cardinality(Counted(h))
  BY CountDef
<1>2. CASE h = Parent[k]
  <2>1. Kids(h)' = Kids(h) \ {k} /\ k \in Kids(h)
    BY <1>2, TreeAssumption DEF Kids
  <2>2. Cardinality(Kids(h)') = Cardinality(Kids(h)) - 1
    BY <2>1, CountSets, FS_RemoveElement
  <2>3. children'[h] = children[h] - 1
    BY <1>2 DEF RemoveChild, TypeOK, HandleTypeOK
  <2>4. QED
    BY <1>1, <2>2, <2>3, CountSets, CountedKept
<1>3. CASE h # Parent[k]
  <2>1. Kids(h)' = Kids(h)
    BY <1>3, TreeAssumption DEF Kids
  <2>2. QED
    BY <1>1, <1>3, <2>1, CountedKept DEF RemoveChild, TypeOK, HandleTypeOK
<1>4. QED
  BY <1>2, <1>3

\* counts a new subscription,
LEMMA SubCounted ==
  ASSUME TypeOK, ChildCountExact, KidsSame, NEW s \in Sub, AddChild(Source[s]),
         ~Counts(s), Counts(s)', \A u \in Sub \ {s} : Counts(u)' <=> Counts(u)
  PROVE  ChildCountExact'
<1> SUFFICES ASSUME NEW h \in Handle
             PROVE  children'[h] = Cardinality(Kids(h)') + Cardinality(Counted(h)')
  BY CountDefNext
<1>1. children[h] = Cardinality(Kids(h)) + Cardinality(Counted(h))
  BY CountDef
<1>2. CASE h = Source[s]
  <2>1. Counted(h)' = Counted(h) \cup {s} /\ s \notin Counted(h)
    BY <1>2 DEF Counted
  <2>2. Cardinality(Counted(h)') = Cardinality(Counted(h)) + 1
    BY <2>1, CountSets, FS_AddElement
  <2>3. children'[h] = children[h] + 1
    BY <1>2 DEF AddChild, TypeOK, HandleTypeOK
  <2>4. QED
    BY <1>1, <2>2, <2>3, CountSets, KidsKept
<1>3. CASE h # Source[s]
  <2>1. Counted(h)' = Counted(h)
    BY <1>3 DEF Counted
  <2>2. QED
    BY <1>1, <1>3, <2>1, KidsKept DEF AddChild, TypeOK, HandleTypeOK
<1>4. QED
  BY <1>2, <1>3

\* or takes back an old one.
LEMMA SubUncounted ==
  ASSUME TypeOK, ChildCountExact, KidsSame, NEW s \in Sub, RemoveChild(Source[s]),
         Counts(s), ~Counts(s)', \A u \in Sub \ {s} : Counts(u)' <=> Counts(u)
  PROVE  ChildCountExact'
<1> SUFFICES ASSUME NEW h \in Handle
             PROVE  children'[h] = Cardinality(Kids(h)') + Cardinality(Counted(h)')
  BY CountDefNext
<1>1. children[h] = Cardinality(Kids(h)) + Cardinality(Counted(h))
  BY CountDef
<1>2. CASE h = Source[s]
  <2>1. Counted(h)' = Counted(h) \ {s} /\ s \in Counted(h)
    BY <1>2 DEF Counted
  <2>2. Cardinality(Counted(h)') = Cardinality(Counted(h)) - 1
    BY <2>1, CountSets, FS_RemoveElement
  <2>3. children'[h] = children[h] - 1
    BY <1>2 DEF RemoveChild, TypeOK, HandleTypeOK
  <2>4. QED
    BY <1>1, <2>2, <2>3, CountSets, KidsKept
<1>3. CASE h # Source[s]
  <2>1. Counted(h)' = Counted(h)
    BY <1>3 DEF Counted
  <2>2. QED
    BY <1>1, <1>3, <2>1, KidsKept DEF RemoveChild, TypeOK, HandleTypeOK
<1>4. QED
  BY <1>2, <1>3

\* Most steps change no child and no count.
Unmoved == UNCHANGED children /\ KidsSame /\ SubsSame

\* Every step is one of these.
LEMMA CountStep ==
  ASSUME IInv, Made, Opens, Closes, Subs, ChildCountExact, [Next]_vars
  PROVE  ChildCountExact'
<1> USE TreeAssumption, NobodyAssumption
    DEF IInv, TypeOK, TreeTypeOK, HandleTypeOK, Places, Made, Opens, OpenSteps,
        SubSteps, Flushing, Worker, Unmoved, KidsSame, SubsSame, Linked, Busy, Counts
<1>1. ASSUME NEW c \in Cluster, NEW w \in Worker, Connect(w, c) PROVE Unmoved
  BY <1>1 DEF Connect, Start, CreateNative
<1>2. ASSUME NEW c \in Cluster, Connected(c) PROVE Unmoved
  BY <1>2 DEF Connected, handleVars
<1>3. ASSUME NEW c \in Cluster, NEW w \in Worker, ConnectFailed(w, c) PROVE Unmoved
  BY <1>3 DEF ConnectFailed, Start, handleVars
<1>4. ASSUME NEW c \in Cluster, NEW t \in Thread, UseCluster(t, c) PROVE Unmoved
  BY <1>4 DEF UseCluster, Use, Start, Reachable, handleVars
<1>5. ASSUME NEW i \in Io, NEW t \in Thread, UseIoContext(t, i) PROVE Unmoved
  BY <1>5 DEF UseIoContext, Use, Start, Reachable, handleVars
<1>6. ASSUME NEW i \in Io, NEW w \in Worker, UsePool(w, i) PROVE Unmoved
  BY <1>6 DEF UsePool, Use, Start, handleVars
<1>7. ASSUME NEW k \in Image, NEW w \in Worker, UseImage(w, k) PROVE Unmoved
  BY <1>7 DEF UseImage, Use, Start, Reachable, handleVars
<1>8. ASSUME NEW k \in Image, NEW w \in Worker, OpenImage(w, k) PROVE Unmoved
  BY <1>8 DEF OpenImage, Start, handleVars
<1>9. ASSUME NEW i \in Io, OpenIoContext(i) PROVE Unmoved
  BY <1>9 DEF OpenIoContext, Start, Reachable, handleVars
<1>10. ASSUME NEW i \in Io, Rbd(i) PROVE Unmoved
  BY <1>10 DEF Rbd, Reachable, handleVars
<1>11. ASSUME NEW h \in Handle, NEW w \in Worker, Close(w, h) PROVE Unmoved
  BY <1>11 DEF Close, Start, Reachable, handleVars
<1>12. ASSUME NEW s \in Sub, Subscribe(s) PROVE ChildCountExact'
  <2>1. ~Counts(s) /\ Counts(s)' /\ \A u \in Sub \ {s} : Counts(u)' <=> Counts(u)
    BY <1>12 DEF Subscribe
  <2>2. KidsSame
    BY <1>12 DEF Subscribe, Start, AddChild
  <2>3. QED
    BY <1>12, <2>1, <2>2, SubCounted DEF Subscribe
<1>13. ASSUME NEW s \in Sub, NEW w \in Worker, Unsubscribe(w, s) PROVE Unmoved
  BY <1>13 DEF Unsubscribe, Start, handleVars
<1>14. ASSUME NEW s \in Sub, NEW w \in Worker, Ack(w, s) PROVE Unmoved
  BY <1>14 DEF Ack, Use, Start, handleVars
<1>15. ASSUME NEW i \in Io, DropPool(i) PROVE Unmoved
  BY <1>15 DEF DropPool, handleVars
<1>16. ASSUME NEW h \in Handle, Drop(h) PROVE Unmoved
  BY <1>16 DEF Drop, Reachable, handleVars
<1>17. ASSUME NEW h \in Handle, Destruct(h) PROVE Unmoved
  BY <1>17 DEF Destruct, Start, handleVars
<1>18. ASSUME NEW h \in Handle, NEW w \in Worker, Finalize(w, h) PROVE Unmoved
  BY <1>18 DEF Finalize, Start, handleVars
<1>19. ASSUME NEW s \in Sub, DropWatcher(s) PROVE Unmoved
  <2>1. CASE sub[s] = "live"
    BY <1>19, <2>1 DEF DropWatcher, Start, handleVars
  <2>2. CASE sub[s] # "live"
    BY <1>19, <2>2 DEF DropWatcher, Start, handleVars
  <2>3. QED
    BY <2>1, <2>2
<1>20. ASSUME Exit PROVE Unmoved
  BY <1>20 DEF Exit, handleVars
<1>21. ASSUME NEW t \in Thread, Enter(t) PROVE Unmoved
  BY <1>21, WaitingSteps DEF Enter, Goto, BeginUse
<1>22. ASSUME NEW t \in Thread, Refuse(t) PROVE Unmoved
  <2>1. \A s \in Sub : s = kid[t] => Counts(s)
    BY <1>22, WaitingSteps DEF Refuse, Subs
  <2>2. \A s \in Sub : sub'[s] = IF s = kid[t] THEN "stranded" ELSE sub[s]
    BY <1>22 DEF Refuse
  <2>3. SubsSame
    BY <2>1, <2>2
  <2>4. KidsSame /\ UNCHANGED children
    BY <1>22, WaitingSteps DEF Refuse, Goto, Finish, RefuseUse, handleVars
  <2>5. QED
    BY <2>3, <2>4
<1>23. ASSUME NEW t \in Thread, UseAgain(t) PROVE Unmoved
  BY <1>23, WaitingSteps DEF UseAgain, At, Goto, EndUse
<1>24. ASSUME NEW t \in Thread, Leave(t) PROVE Unmoved
  BY <1>24 DEF Leave, Finish, EndUse
<1>25. ASSUME NEW t \in Thread, OpenNative(t) PROVE Unmoved
  BY <1>25 DEF OpenNative, At, Goto, CreateNative
<1>26. ASSUME NEW t \in Thread, OpenFails(t) PROVE Unmoved
  BY <1>26 DEF OpenFails, At, Goto, handleVars
<1>27. ASSUME NEW t \in Thread, LeaveOpen(t) PROVE Unmoved
  BY <1>27 DEF LeaveOpen, At, Goto, EndUse
<1>28. ASSUME NEW t \in Thread, Link(t) PROVE ChildCountExact'
  <2>1. PICK k \in Io \cup Image : k = kid[t] /\ on[t] = Parent[k]
    BY <1>28 DEF Link, At
  <2>2. ~Linked(k)
    BY <1>28, <2>1 DEF Link, At
  <2>3. native'[k] = "live" /\ wrapper'[k] \in {"registered", "pending"}
    BY <1>28, <2>1 DEF Link, At, AddChild
  <2>4. \A c \in (Io \cup Image) \ {k} : Linked(c)' <=> Linked(c)
    BY <1>28, <2>1 DEF Link, At, Goto, Finish, AddChild
  <2>5. AddChild(Parent[k])
    BY <1>28, <2>1 DEF Link, AddChild
  <2>6. SubsSame
    BY <1>28 DEF Link
  <2>7. Linked(k)'
    BY <2>3
  <2>8. QED
    BY <2>2, <2>4, <2>5, <2>6, <2>7, KidCounted
<1>29. ASSUME NEW t \in Thread, Settle(t) PROVE Unmoved
  BY <1>29 DEF Settle, At, Finish, handleVars
<1>30. ASSUME NEW t \in Thread, Register(t) PROVE Unmoved
  BY <1>30 DEF Register, At, Goto, handleVars, Subs
<1>31. ASSUME NEW t \in Thread, RegisterFails(t) PROVE Unmoved
  BY <1>31 DEF RegisterFails, At, Goto, handleVars, Subs
<1>32. ASSUME NEW t \in Thread, LeaveRefused(t) PROVE Unmoved
  BY <1>32 DEF LeaveRefused, At, Goto, EndUse
<1>33. ASSUME NEW t \in Thread, Exchange(t) PROVE Unmoved
  <2>1. CASE sub[kid[t]] = "live"
    BY <1>33, <2>1, WaitingSteps DEF Exchange, At, Goto, handleVars
  <2>2. CASE sub[kid[t]] # "live"
    BY <1>33, <2>2 DEF Exchange, At, Finish, handleVars
  <2>3. QED
    BY <2>1, <2>2
<1>34. ASSUME NEW t \in Thread, Unregister(t) PROVE Unmoved
  BY <1>34 DEF Unregister, At, Goto, handleVars, Subs
<1>35. ASSUME NEW t \in Thread, LeaveUnregister(t) PROVE Unmoved
  <2>1. CASE on[t] \in Io
    BY <1>35, <2>1, WaitingSteps DEF LeaveUnregister, At, EndUse
  <2>2. CASE on[t] \notin Io
    BY <1>35, <2>2 DEF LeaveUnregister, At, Goto, EndUse
  <2>3. QED
    BY <2>1, <2>2
<1>36. ASSUME NEW t \in Thread, LeaveFlush(t) PROVE Unmoved
  BY <1>36 DEF LeaveFlush, At, EndUse
<1>37. ASSUME NEW t \in Thread, Release(t) PROVE ChildCountExact'
  <2>1. PICK s \in Sub : s = kid[t] /\ on[t] = Source[s]
    BY <1>37 DEF Release, At
  <2>2. Counts(s)
    BY <1>37, <2>1 DEF Release, At, Subs
  <2>3. ~Counts(s)' /\ \A u \in Sub \ {s} : Counts(u)' <=> Counts(u)
    BY <1>37, <2>1 DEF Release
  <2>4. RemoveChild(Source[s])
    BY <1>37, <2>1 DEF Release, RemoveChild
  <2>5. KidsSame
    BY <1>37 DEF Release, At, Finish, RemoveChild
  <2>6. QED
    BY <2>2, <2>3, <2>4, <2>5, SubUncounted
<1>38. ASSUME NEW t \in Thread, CheckChildren(t) PROVE Unmoved
  BY <1>38 DEF CheckChildren, At, Goto, Finish, handleVars
<1>39. ASSUME NEW t \in Thread, Claim(t) PROVE Unmoved
  BY <1>39 DEF Claim, At, Goto, Finish, BeginClose, CloseAgain, handleVars
<1>40. ASSUME NEW t \in Thread, Destroy(t) PROVE Unmoved
  <2>1. PICK h \in Handle : h = on[t]
    BY <1>40 DEF Destroy, At
  <2>2. native[h] = "live" /\ wrapper[h] # "absent"
    BY <1>40, <2>1 DEF Destroy, At, Closes
  <2>3. h \in Io \cup Image => on'[t] = h /\ pc'[t] = "unlink"
    BY <1>40, <2>1 DEF Destroy, At, Goto
  <2>4. h \in Io \cup Image => (Linked(h)' <=> Linked(h))
    BY <1>40, <2>2, <2>3 DEF Destroy
  <2>5. \A c \in (Io \cup Image) \ {h} : Linked(c)' <=> Linked(c)
    BY <1>40, <2>1 DEF Destroy, At, Goto, DestroyNative
  <2>6. SubsSame /\ UNCHANGED children
    BY <1>40 DEF Destroy, DestroyNative
  <2>7. QED
    BY <2>4, <2>5, <2>6
<1>41. ASSUME NEW t \in Thread, Unlink(t) PROVE ChildCountExact'
  <2>1. PICK k \in Io \cup Image : k = on[t] /\ native[k] = "gone"
    BY <1>41 DEF Unlink, At, Closes
  <2>2. \A u \in Thread : on[u] = k /\ pc[u] = "unlink" => u = t
    BY <1>41, <2>1 DEF Unlink, At, Locks, Destroying
  <2>3. Linked(k)
    BY <1>41, <2>1 DEF Unlink, At
  <2>4. ~Linked(k)'
    BY <1>41, <2>1, <2>2 DEF Unlink, At, Goto, RemoveChild
  <2>5. \A c \in (Io \cup Image) \ {k} : Linked(c)' <=> Linked(c)
    BY <1>41, <2>1 DEF Unlink, At, Goto, RemoveChild
  <2>6. SubsSame
    BY <1>41 DEF Unlink
  <2>7. RemoveChild(Parent[k])
    BY <1>41, <2>1 DEF Unlink, RemoveChild
  <2>8. QED
    BY <2>3, <2>4, <2>5, <2>6, <2>7, KidUncounted
<1>42. ASSUME NEW t \in Thread, Unlock(t) PROVE Unmoved
  BY <1>42 DEF Unlock, At, Finish, EndClose
<1>43. ASSUME UNCHANGED vars PROVE Unmoved
  BY <1>43 DEF vars, handleVars, treeVars
<1>44. QED
  BY <1>1, <1>2, <1>3, <1>4, <1>5, <1>6, <1>7, <1>8, <1>9, <1>10, <1>11,
     <1>12, <1>13, <1>14, <1>15, <1>16, <1>17, <1>18, <1>19, <1>20, <1>21,
     <1>22, <1>23, <1>24, <1>25, <1>26, <1>27, <1>28, <1>29, <1>30, <1>31,
     <1>32, <1>33, <1>34, <1>35, <1>36, <1>37, <1>38, <1>39, <1>40, <1>41,
     <1>42, <1>43, NothingCounted DEF Next, Call, Collect, Step

-----------------------------------------------------------------------------
(* For a client without lapses.  Held and Apart say what the lapses would   *)
(* break: a pool keeps its context from the collector, and opens and closes *)
(* of a handle exclude each other.  Kept is why a parent outlives its       *)
(* children: from the check on, a handle that is being closed stays empty.  *)

\* For a careful client: what is used is held on to.
Held ==
  /\ \A i \in Io : pool[i] => Reachable(i)
  /\ \A t \in Thread : pc[t] \in OpenSteps /\ kid[t] \in Image => pool[on[t]] \/ ~running
  /\ \A h \in Handle : running \/ wrapper[h] \in {"absent", "pending", "collected", "freed"}
  /\ \A t \in Thread : pc[t] \in {"register", "registering", "refused"} => t = JS
  /\ pc[JS] \in OpenSteps => running

\* Nothing is opened on a handle while it is closed.
NewSteps == {"opening", "created", "link", "registering", "refused"}
Apart ==
  /\ \A t \in Thread : pc[t] \in NewSteps \cup {"open", "register"} => ~Closing(on[t])
  /\ \A t \in Thread : pc[t] \in NewSteps => ~closed[on[t]]

\* Once a close has passed its check nothing is left on the handle.
Committed(h) == closed[h] \/ Busy(h, {"claim"} \cup Destroying)
Empty(h) ==
  /\ \A k \in Io \cup Image : Parent[k] = h => ~Linked(k)
  /\ \A s \in Sub : Source[s] = h => \/ sub[s] \in {"absent", "done", "stranded"}
                                     \/ sub[s] = "counted" /\ closed[h]
Kept == \A h \in Handle : Committed(h) => Empty(h)

\* An exception strands no subscription that anybody still has.
NoThrow ==
  /\ pc[JS] # "aborted"
  /\ \A t \in Thread : pc[t] \in {"register", "registering", "refused"} => ~watcher[kid[t]]
  /\ \A s \in Sub : sub[s] = "stranded" => closed[Source[s]] /\ ~watcher[s]

\* A careful client holds on to what it uses.
LEMMA HeldStep ==
  ASSUME Lapses = {}, IInv, Made, Opens, Held, [Next]_vars  PROVE  Held'
<1> USE TreeAssumption, NobodyAssumption
    DEF IInv, TypeOK, TreeTypeOK, HandleTypeOK, Places, Held, OpenSteps, SubSteps,
        Flushing, Worker, Reachable, MayAbandon
<1>1. ASSUME NEW c \in Cluster, NEW w \in Worker, Connect(w, c) PROVE Held'
  BY <1>1 DEF Connect, Start, CreateNative
<1>2. ASSUME NEW c \in Cluster, Connected(c) PROVE Held'
  BY <1>2 DEF Connected, handleVars
<1>3. ASSUME NEW c \in Cluster, NEW w \in Worker, ConnectFailed(w, c) PROVE Held'
  BY <1>3 DEF ConnectFailed, Start, handleVars
<1>4. ASSUME NEW c \in Cluster, NEW t \in Thread, UseCluster(t, c) PROVE Held'
  BY <1>4 DEF UseCluster, Use, Start, Reachable, handleVars
<1>5. ASSUME NEW i \in Io, NEW t \in Thread, UseIoContext(t, i) PROVE Held'
  BY <1>5 DEF UseIoContext, Use, Start, Reachable, handleVars
<1>6. ASSUME NEW i \in Io, NEW w \in Worker, UsePool(w, i) PROVE Held'
  BY <1>6 DEF UsePool, Use, Start, handleVars
<1>7. ASSUME NEW k \in Image, NEW w \in Worker, UseImage(w, k) PROVE Held'
  BY <1>7 DEF UseImage, Use, Start, Reachable, handleVars
<1>8. ASSUME NEW k \in Image, NEW w \in Worker, OpenImage(w, k) PROVE Held'
  BY <1>8 DEF OpenImage, Start, handleVars
<1>9. ASSUME NEW i \in Io, OpenIoContext(i) PROVE Held'
  BY <1>9 DEF OpenIoContext, Start, Reachable, handleVars
<1>10. ASSUME NEW i \in Io, Rbd(i) PROVE Held'
  BY <1>10 DEF Rbd, Reachable, handleVars
<1>11. ASSUME NEW h \in Handle, NEW w \in Worker, Close(w, h) PROVE Held'
  BY <1>11 DEF Close, Start, Reachable, handleVars
<1>12. ASSUME NEW s \in Sub, Subscribe(s) PROVE Held'
  BY <1>12 DEF Subscribe, Start, AddChild, Reachable
<1>13. ASSUME NEW s \in Sub, NEW w \in Worker, Unsubscribe(w, s) PROVE Held'
  BY <1>13 DEF Unsubscribe, Start, handleVars
<1>14. ASSUME NEW s \in Sub, NEW w \in Worker, Ack(w, s) PROVE Held'
  BY <1>14 DEF Ack, Use, Start, handleVars
<1>15. ASSUME NEW i \in Io, DropPool(i) PROVE Held'
  BY <1>15 DEF DropPool, Busy, handleVars
<1>16. ASSUME NEW h \in Handle, Drop(h) PROVE Held'
  BY <1>16 DEF Drop, Reachable, handleVars
<1>17. ASSUME NEW h \in Handle, Destruct(h) PROVE Held'
  BY <1>17 DEF Destruct, Start, handleVars
<1>18. ASSUME NEW h \in Handle, NEW w \in Worker, Finalize(w, h) PROVE Held'
  BY <1>18 DEF Finalize, Start, handleVars
<1>19. ASSUME NEW s \in Sub, DropWatcher(s) PROVE Held'
  <2>1. CASE sub[s] = "live"
    BY <1>19, <2>1 DEF DropWatcher, Start, handleVars
  <2>2. CASE sub[s] # "live"
    BY <1>19, <2>2 DEF DropWatcher, Start, handleVars
  <2>3. QED
    BY <2>1, <2>2
<1>20. ASSUME Exit PROVE Held'
  BY <1>20 DEF Exit, handleVars
<1>21. ASSUME NEW t \in Thread, Enter(t) PROVE Held'
  BY <1>21, WaitingSteps DEF Enter, Goto, BeginUse
<1>22. ASSUME NEW t \in Thread, Refuse(t) PROVE Held'
  BY <1>22, WaitingSteps DEF Refuse, Goto, Finish, RefuseUse, handleVars
<1>23. ASSUME NEW t \in Thread, UseAgain(t) PROVE Held'
  BY <1>23, WaitingSteps DEF UseAgain, At, Goto, EndUse
<1>24. ASSUME NEW t \in Thread, Leave(t) PROVE Held'
  BY <1>24 DEF Leave, Finish, EndUse
<1>25. ASSUME NEW t \in Thread, OpenNative(t) PROVE Held'
  BY <1>25 DEF OpenNative, At, Goto, CreateNative
<1>26. ASSUME NEW t \in Thread, OpenFails(t) PROVE Held'
  BY <1>26 DEF OpenFails, At, Goto, handleVars
<1>27. ASSUME NEW t \in Thread, LeaveOpen(t) PROVE Held'
  BY <1>27 DEF LeaveOpen, At, Goto, EndUse
<1>28. ASSUME NEW t \in Thread, Link(t) PROVE Held'
  <2>1. wrapper[kid[t]] = "absent" /\ kid[t] \in Io \cup Image
    BY <1>28 DEF Link, At, Opens
  <2>2. CASE t = JS
    <3>1. wrapper' = [wrapper EXCEPT ![kid[t]] = "registered"] /\ running
      BY <1>28, <2>2 DEF Link, At
    <3>2. QED
      BY <1>28, <2>1, <2>2, <3>1 DEF Link, At, Finish
  <2>3. CASE t # JS
    <3>1. wrapper' = [wrapper EXCEPT ![kid[t]] = "pending"]
      BY <1>28, <2>3 DEF Link, At
    <3>2. QED
      BY <1>28, <2>1, <2>3, <3>1 DEF Link, At, Goto
  <2>4. QED
    BY <2>2, <2>3
<1>29. ASSUME NEW t \in Thread, Settle(t) PROVE Held'
  BY <1>29 DEF Settle, At, Finish, handleVars
<1>30. ASSUME NEW t \in Thread, Register(t) PROVE Held'
  BY <1>30 DEF Register, At, Goto, handleVars
<1>31. ASSUME NEW t \in Thread, RegisterFails(t) PROVE Held'
  BY <1>31 DEF RegisterFails, At, Goto, handleVars
<1>32. ASSUME NEW t \in Thread, LeaveRefused(t) PROVE Held'
  BY <1>32 DEF LeaveRefused, At, Goto, EndUse
<1>33. ASSUME NEW t \in Thread, Exchange(t) PROVE Held'
  BY <1>33, WaitingSteps DEF Exchange, At, Goto, Finish, handleVars
<1>34. ASSUME NEW t \in Thread, Unregister(t) PROVE Held'
  BY <1>34 DEF Unregister, At, Goto, handleVars
<1>35. ASSUME NEW t \in Thread, LeaveUnregister(t) PROVE Held'
  BY <1>35, WaitingSteps DEF LeaveUnregister, At, Goto, EndUse
<1>36. ASSUME NEW t \in Thread, LeaveFlush(t) PROVE Held'
  BY <1>36 DEF LeaveFlush, At, EndUse
<1>37. ASSUME NEW t \in Thread, Release(t) PROVE Held'
  BY <1>37 DEF Release, At, Finish, RemoveChild
<1>38. ASSUME NEW t \in Thread, CheckChildren(t) PROVE Held'
  <2>1. CASE HasChildren(on[t])
    BY <1>38, <2>1 DEF CheckChildren, At, Finish, handleVars
  <2>2. CASE ~HasChildren(on[t])
    BY <1>38, <2>2 DEF CheckChildren, At, Goto, handleVars
  <2>3. QED
    BY <1>38, <2>1, <2>2 DEF CheckChildren
<1>39. ASSUME NEW t \in Thread, Claim(t) PROVE Held'
  BY <1>39 DEF Claim, At, Goto, Finish, BeginClose, CloseAgain, handleVars
<1>40. ASSUME NEW t \in Thread, Destroy(t) PROVE Held'
  BY <1>40 DEF Destroy, At, Goto, DestroyNative
<1>41. ASSUME NEW t \in Thread, Unlink(t) PROVE Held'
  BY <1>41 DEF Unlink, At, Goto, RemoveChild
<1>42. ASSUME NEW t \in Thread, Unlock(t) PROVE Held'
  BY <1>42 DEF Unlock, At, Finish, EndClose
<1>43. CASE UNCHANGED vars
  BY <1>43 DEF vars, handleVars, treeVars
<1>44. QED
  BY <1>1, <1>2, <1>3, <1>4, <1>5, <1>6, <1>7, <1>8, <1>9, <1>10, <1>11,
     <1>12, <1>13, <1>14, <1>15, <1>16, <1>17, <1>18, <1>19, <1>20, <1>21,
     <1>22, <1>23, <1>24, <1>25, <1>26, <1>27, <1>28, <1>29, <1>30, <1>31,
     <1>32, <1>33, <1>34, <1>35, <1>36, <1>37, <1>38, <1>39, <1>40, <1>41,
     <1>42, <1>43 DEF Next, Call, Collect, Step

\* A careful client never opens on a handle that it closes.
LEMMA ApartStep ==
  ASSUME Lapses = {}, IInv, Made, Opens, Held, Apart, [Next]_vars  PROVE  Apart'
<1> USE TreeAssumption, NobodyAssumption
    DEF IInv, TypeOK, TreeTypeOK, HandleTypeOK, Places, Apart, NewSteps, OpenSteps, SubSteps,
        Flushing, Worker, Reachable, Destroying, Closing, Busy
<1>1. ASSUME NEW c \in Cluster, NEW w \in Worker, Connect(w, c) PROVE Apart'
  BY <1>1 DEF Connect, Start, CreateNative
<1>2. ASSUME NEW c \in Cluster, Connected(c) PROVE Apart'
  BY <1>2 DEF Connected, handleVars
<1>3. ASSUME NEW c \in Cluster, NEW w \in Worker, ConnectFailed(w, c) PROVE Apart'
  BY <1>3 DEF ConnectFailed, Start, handleVars
<1>4. ASSUME NEW c \in Cluster, NEW t \in Thread, UseCluster(t, c) PROVE Apart'
  BY <1>4 DEF UseCluster, Use, Start, Reachable, handleVars
<1>5. ASSUME NEW i \in Io, NEW t \in Thread, UseIoContext(t, i) PROVE Apart'
  BY <1>5 DEF UseIoContext, Use, Start, Reachable, handleVars
<1>6. ASSUME NEW i \in Io, NEW w \in Worker, UsePool(w, i) PROVE Apart'
  BY <1>6 DEF UsePool, Use, Start, handleVars
<1>7. ASSUME NEW k \in Image, NEW w \in Worker, UseImage(w, k) PROVE Apart'
  BY <1>7 DEF UseImage, Use, Start, Reachable, handleVars
<1>8. ASSUME NEW k \in Image, NEW w \in Worker, OpenImage(w, k) PROVE Apart'
  <2>1. ~Closing(Parent[k])
    BY <1>8 DEF OpenImage, MayOpenOn
  <2>2. QED
    BY <1>8, <2>1 DEF OpenImage, Start, MayOpenOn, handleVars
<1>9. ASSUME NEW i \in Io, OpenIoContext(i) PROVE Apart'
  <2>1. ~Closing(Parent[i])
    BY <1>9 DEF OpenIoContext, MayOpenOn
  <2>2. QED
    BY <1>9, <2>1 DEF OpenIoContext, Start, MayOpenOn, handleVars
<1>10. ASSUME NEW i \in Io, Rbd(i) PROVE Apart'
  BY <1>10 DEF Rbd, Reachable, handleVars
<1>11. ASSUME NEW h \in Handle, NEW w \in Worker, Close(w, h) PROVE Apart'
  <2>1. \A t \in Thread : pc[t] \in NewSteps \cup {"open", "register"} => on[t] # h
    BY <1>11 DEF Close, MayClose, Opening
  <2>2. QED
    BY <1>11, <2>1 DEF Close, Start, handleVars
<1>12. ASSUME NEW s \in Sub, Subscribe(s) PROVE Apart'
  <2>1. ~Closing(Source[s])
    BY <1>12 DEF Subscribe, MayOpenOn
  <2>2. QED
    BY <1>12, <2>1 DEF Subscribe, Start, AddChild, MayOpenOn
<1>13. ASSUME NEW s \in Sub, NEW w \in Worker, Unsubscribe(w, s) PROVE Apart'
  BY <1>13 DEF Unsubscribe, Start, handleVars
<1>14. ASSUME NEW s \in Sub, NEW w \in Worker, Ack(w, s) PROVE Apart'
  BY <1>14 DEF Ack, Use, Start, handleVars
<1>15. ASSUME NEW i \in Io, DropPool(i) PROVE Apart'
  BY <1>15 DEF DropPool, handleVars
<1>16. ASSUME NEW h \in Handle, Drop(h) PROVE Apart'
  BY <1>16 DEF Drop, Reachable, handleVars
<1>17. ASSUME NEW h \in Handle, Destruct(h) PROVE Apart'
  <2>1. \A t \in Thread : on[t] # h
    BY <1>17 DEF Destruct, Referenced
  <2>2. QED
    BY <1>17, <2>1 DEF Destruct, Start, handleVars
<1>18. ASSUME NEW h \in Handle, NEW w \in Worker, Finalize(w, h) PROVE Apart'
  <2>1. \A t \in Thread : pc[t] \in NewSteps \cup {"open", "register"} => on[t] # h
    BY <1>18 DEF Finalize, Start, Held, Opens
  <2>2. QED
    BY <1>18, <2>1 DEF Finalize, Start, handleVars
<1>19. ASSUME NEW s \in Sub, DropWatcher(s) PROVE Apart'
  <2>1. CASE sub[s] = "live"
    BY <1>19, <2>1 DEF DropWatcher, Start, handleVars
  <2>2. CASE sub[s] # "live"
    BY <1>19, <2>2 DEF DropWatcher, Start, handleVars
  <2>3. QED
    BY <2>1, <2>2
<1>20. ASSUME Exit PROVE Apart'
  BY <1>20 DEF Exit, handleVars
<1>21. ASSUME NEW t \in Thread, Enter(t) PROVE Apart'
  BY <1>21, WaitingSteps DEF Enter, Goto, BeginUse
<1>22. ASSUME NEW t \in Thread, Refuse(t) PROVE Apart'
  <2>1. CASE t = JS /\ pc[t] \in {"unregister", "flush"}
    BY <1>22, <2>1, WaitingSteps DEF Refuse, Goto, RefuseUse, handleVars
  <2>2. CASE ~(t = JS /\ pc[t] \in {"unregister", "flush"})
    BY <1>22, <2>2, WaitingSteps DEF Refuse, Finish, RefuseUse, handleVars
  <2>3. QED
    BY <2>1, <2>2
<1>23. ASSUME NEW t \in Thread, UseAgain(t) PROVE Apart'
  BY <1>23, WaitingSteps DEF UseAgain, At, Goto, EndUse
<1>24. ASSUME NEW t \in Thread, Leave(t) PROVE Apart'
  BY <1>24 DEF Leave, Finish, EndUse
<1>25. ASSUME NEW t \in Thread, OpenNative(t) PROVE Apart'
  BY <1>25 DEF OpenNative, At, Goto, CreateNative
<1>26. ASSUME NEW t \in Thread, OpenFails(t) PROVE Apart'
  BY <1>26 DEF OpenFails, At, Goto, handleVars
<1>27. ASSUME NEW t \in Thread, LeaveOpen(t) PROVE Apart'
  BY <1>27 DEF LeaveOpen, At, Goto, EndUse
<1>28. ASSUME NEW t \in Thread, Link(t) PROVE Apart'
  <2>1. CASE t = JS
    BY <1>28, <2>1 DEF Link, At, Finish, AddChild
  <2>2. CASE t # JS
    BY <1>28, <2>2 DEF Link, At, Goto, AddChild
  <2>3. QED
    BY <2>1, <2>2
<1>29. ASSUME NEW t \in Thread, Settle(t) PROVE Apart'
  BY <1>29 DEF Settle, At, Finish, handleVars
<1>30. ASSUME NEW t \in Thread, Register(t) PROVE Apart'
  BY <1>30 DEF Register, At, Goto, handleVars
<1>31. ASSUME NEW t \in Thread, RegisterFails(t) PROVE Apart'
  BY <1>31 DEF RegisterFails, At, Goto, handleVars
<1>32. ASSUME NEW t \in Thread, LeaveRefused(t) PROVE Apart'
  BY <1>32 DEF LeaveRefused, At, Goto, EndUse
<1>33. ASSUME NEW t \in Thread, Exchange(t) PROVE Apart'
  <2>1. CASE sub[kid[t]] = "live"
    BY <1>33, <2>1, WaitingSteps DEF Exchange, At, Goto, handleVars
  <2>2. CASE sub[kid[t]] # "live"
    BY <1>33, <2>2 DEF Exchange, At, Finish, handleVars
  <2>3. QED
    BY <2>1, <2>2
<1>34. ASSUME NEW t \in Thread, Unregister(t) PROVE Apart'
  BY <1>34 DEF Unregister, At, Goto, handleVars
<1>35. ASSUME NEW t \in Thread, LeaveUnregister(t) PROVE Apart'
  <2>1. CASE on[t] \in Io
    BY <1>35, <2>1, WaitingSteps DEF LeaveUnregister, At, EndUse
  <2>2. CASE on[t] \notin Io
    BY <1>35, <2>2 DEF LeaveUnregister, At, Goto, EndUse
  <2>3. QED
    BY <2>1, <2>2
<1>36. ASSUME NEW t \in Thread, LeaveFlush(t) PROVE Apart'
  BY <1>36 DEF LeaveFlush, At, EndUse
<1>37. ASSUME NEW t \in Thread, Release(t) PROVE Apart'
  BY <1>37 DEF Release, At, Finish, RemoveChild
<1>38. ASSUME NEW t \in Thread, CheckChildren(t) PROVE Apart'
  <2>1. CASE HasChildren(on[t])
    BY <1>38, <2>1 DEF CheckChildren, At, Finish, handleVars
  <2>2. CASE ~HasChildren(on[t])
    BY <1>38, <2>2 DEF CheckChildren, At, Goto, handleVars
  <2>3. QED
    BY <1>38, <2>1, <2>2 DEF CheckChildren
<1>39. ASSUME NEW t \in Thread, Claim(t) PROVE Apart'
  <2>1. CASE BeginClose(t, on[t]) /\ Goto(t, "destroy")
    BY <1>39, <2>1 DEF Claim, At, Goto, BeginClose
  <2>2. CASE CloseAgain(on[t]) /\ Finish(t)
    BY <1>39, <2>2 DEF Claim, At, Finish, CloseAgain, handleVars
  <2>3. QED
    BY <1>39, <2>1, <2>2 DEF Claim
<1>40. ASSUME NEW t \in Thread, Destroy(t) PROVE Apart'
  BY <1>40 DEF Destroy, At, Goto, DestroyNative
<1>41. ASSUME NEW t \in Thread, Unlink(t) PROVE Apart'
  BY <1>41 DEF Unlink, At, Goto, RemoveChild
<1>42. ASSUME NEW t \in Thread, Unlock(t) PROVE Apart'
  BY <1>42 DEF Unlock, At, Finish, EndClose
<1>43. CASE UNCHANGED vars
  BY <1>43 DEF vars, handleVars, treeVars
<1>44. QED
  BY <1>1, <1>2, <1>3, <1>4, <1>5, <1>6, <1>7, <1>8, <1>9, <1>10, <1>11,
     <1>12, <1>13, <1>14, <1>15, <1>16, <1>17, <1>18, <1>19, <1>20, <1>21,
     <1>22, <1>23, <1>24, <1>25, <1>26, <1>27, <1>28, <1>29, <1>30, <1>31,
     <1>32, <1>33, <1>34, <1>35, <1>36, <1>37, <1>38, <1>39, <1>40, <1>41,
     <1>42, <1>43 DEF Next, Call, Collect, Step

\* The check of close_checked is exact: -EBUSY unless nothing is left.
LEMMA ZeroIsEmpty ==
  ASSUME TypeOK, ChildCountExact, NEW h \in Handle, ~HasChildren(h)
  PROVE  Empty(h)
<1>1. Cardinality(Kids(h)) + Cardinality(Counted(h)) = 0
  BY CountDef DEF HasChildren
<1>2. Kids(h) = {} /\ Counted(h) = {}
  BY <1>1, CountSets, FS_EmptySet
<1>3. QED
  BY <1>2, TreeAssumption DEF Kids, Counted, Counts, Empty

\* A destructor needs no check: what nothing refers to has nothing left on it.
LEMMA UnreferencedIsEmpty ==
  ASSUME IInv, Made, Opens, Closes, Subs, Freed, pc[JS] = "idle",
         NEW h \in Handle, ~Referenced(h)
  PROVE  Empty(h)
<1> USE TreeAssumption, NobodyAssumption DEF IInv, TypeOK, TreeTypeOK, HandleTypeOK, Places
<1>1. ASSUME NEW k \in Io \cup Image, Parent[k] = h, Linked(k) PROVE FALSE
  <2>1. wrapper[k] = "freed"
    BY <1>1 DEF Referenced, Linked
  <2>2. closed[k] /\ \A t \in Thread : pc[t] # "idle" => on[t] # k
    BY <1>1, <2>1 DEF Freed
  <2>3. native[k] = "gone"
    BY <1>1, <2>2 DEF Closes, Locks, Destroying
  <2>4. QED
    BY <1>1, <2>2, <2>3 DEF Linked, Busy
<1>2. ASSUME NEW s \in Sub, Source[s] = h, sub[s] \notin {"absent", "done", "stranded"} PROVE FALSE
  <2>1. Watched(s)
    BY <1>2 DEF Watched, Subs
  <2>2. QED
    BY <1>2, <2>1 DEF Referenced, HeldBySub
<1>3. QED
  BY <1>1, <1>2 DEF Empty

\* A handle that a close is committed to stays empty.
LEMMA KeptStep ==
  ASSUME Lapses = {}, IInv, Made, Opens, Closes, Subs, ChildCountExact, Freed,
         Held, Apart, Kept, NoThrow, [Next]_vars
  PROVE  Kept'
<1> USE TreeAssumption, NobodyAssumption
    DEF IInv, TypeOK, TreeTypeOK, HandleTypeOK, Places, Made, OpenSteps, SubSteps,
        Flushing, Worker, Destroying, Kept, Empty, Committed, Busy, Linked
<1>1. ASSUME NEW c \in Cluster, NEW w \in Worker, Connect(w, c) PROVE Kept'
  BY <1>1 DEF Connect, Start, CreateNative
<1>2. ASSUME NEW c \in Cluster, Connected(c) PROVE Kept'
  BY <1>2 DEF Connected, handleVars
<1>3. ASSUME NEW c \in Cluster, NEW w \in Worker, ConnectFailed(w, c) PROVE Kept'
  BY <1>3 DEF ConnectFailed, Start, handleVars
<1>4. ASSUME NEW c \in Cluster, NEW t \in Thread, UseCluster(t, c) PROVE Kept'
  BY <1>4 DEF UseCluster, Use, Start, Reachable, handleVars
<1>5. ASSUME NEW i \in Io, NEW t \in Thread, UseIoContext(t, i) PROVE Kept'
  BY <1>5 DEF UseIoContext, Use, Start, Reachable, handleVars
<1>6. ASSUME NEW i \in Io, NEW w \in Worker, UsePool(w, i) PROVE Kept'
  BY <1>6 DEF UsePool, Use, Start, handleVars
<1>7. ASSUME NEW k \in Image, NEW w \in Worker, UseImage(w, k) PROVE Kept'
  BY <1>7 DEF UseImage, Use, Start, Reachable, handleVars
<1>8. ASSUME NEW k \in Image, NEW w \in Worker, OpenImage(w, k) PROVE Kept'
  BY <1>8 DEF OpenImage, Start, handleVars
<1>9. ASSUME NEW i \in Io, OpenIoContext(i) PROVE Kept'
  BY <1>9 DEF OpenIoContext, Start, Reachable, handleVars
<1>10. ASSUME NEW i \in Io, Rbd(i) PROVE Kept'
  BY <1>10 DEF Rbd, Reachable, handleVars
<1>11. ASSUME NEW h \in Handle, NEW w \in Worker, Close(w, h) PROVE Kept'
  BY <1>11 DEF Close, Start, Reachable, handleVars
<1>12. ASSUME NEW s \in Sub, Subscribe(s) PROVE Kept'
  <2>1. \A t \in Thread : pc[t] \in {"claim"} \cup Destroying => on[t] # Source[s]
    BY <1>12 DEF Subscribe, MayOpenOn, Closing
  <2>2. \A u \in Sub : sub'[u] = IF u = s THEN "counted" ELSE sub[u]
    BY <1>12 DEF Subscribe
  <2>3. \A h \in Handle : Committed(h)' => Committed(h)
    BY <1>12 DEF Subscribe, Start, AddChild
  <2>4. \A k \in Io \cup Image : Linked(k)' => Linked(k)
    BY <1>12 DEF Subscribe, Start, AddChild
  <2>5. UNCHANGED closed
    BY <1>12 DEF Subscribe, AddChild
  <2>6. QED
    BY <2>1, <2>2, <2>3, <2>4, <2>5
<1>13. ASSUME NEW s \in Sub, NEW w \in Worker, Unsubscribe(w, s) PROVE Kept'
  BY <1>13 DEF Unsubscribe, Start, handleVars
<1>14. ASSUME NEW s \in Sub, NEW w \in Worker, Ack(w, s) PROVE Kept'
  BY <1>14 DEF Ack, Use, Start, handleVars
<1>15. ASSUME NEW i \in Io, DropPool(i) PROVE Kept'
  BY <1>15 DEF DropPool, handleVars
<1>16. ASSUME NEW h \in Handle, Drop(h) PROVE Kept'
  BY <1>16 DEF Drop, Reachable, handleVars
<1>17. ASSUME NEW h \in Handle, Destruct(h) PROVE Kept'
  <2>1. Empty(h)
    BY <1>17, UnreferencedIsEmpty DEF Destruct, Start
  <2>2. \A g \in Handle \ {h} : Committed(g)' => Committed(g)
    BY <1>17 DEF Destruct, Start, handleVars
  <2>3. \A k \in Io \cup Image : Linked(k)' => Linked(k)
    BY <1>17 DEF Destruct, Start, handleVars
  <2>4. UNCHANGED <<sub, closed>>
    BY <1>17 DEF Destruct, handleVars
  <2>5. QED
    BY <2>1, <2>2, <2>3, <2>4
<1>18. ASSUME NEW h \in Handle, NEW w \in Worker, Finalize(w, h) PROVE Kept'
  BY <1>18 DEF Finalize, Start, handleVars
<1>19. ASSUME NEW s \in Sub, DropWatcher(s) PROVE Kept'
  <2>1. CASE sub[s] = "live"
    BY <1>19, <2>1 DEF DropWatcher, Start, handleVars
  <2>2. CASE sub[s] # "live"
    BY <1>19, <2>2 DEF DropWatcher, Start, handleVars
  <2>3. QED
    BY <2>1, <2>2
<1>20. ASSUME Exit PROVE Kept'
  BY <1>20 DEF Exit, handleVars
<1>21. ASSUME NEW t \in Thread, Enter(t) PROVE Kept'
  BY <1>21, WaitingSteps DEF Enter, Goto, BeginUse
<1>22. ASSUME NEW t \in Thread, Refuse(t) PROVE Kept'
  <2>1. CASE t = JS /\ pc[t] \in {"unregister", "flush"}
    BY <1>22, <2>1, WaitingSteps DEF Refuse, Goto, RefuseUse, handleVars
  <2>2. CASE ~(t = JS /\ pc[t] \in {"unregister", "flush"})
    BY <1>22, <2>2, WaitingSteps DEF Refuse, Finish, RefuseUse, handleVars
  <2>3. QED
    BY <2>1, <2>2
<1>23. ASSUME NEW t \in Thread, UseAgain(t) PROVE Kept'
  BY <1>23, WaitingSteps DEF UseAgain, At, Goto, EndUse
<1>24. ASSUME NEW t \in Thread, Leave(t) PROVE Kept'
  BY <1>24 DEF Leave, Finish, EndUse
<1>25. ASSUME NEW t \in Thread, OpenNative(t) PROVE Kept'
  <2>1. \A k \in Io \cup Image : Linked(k)' => Linked(k)
    BY <1>25 DEF OpenNative, At, Goto, CreateNative, Opens
  <2>2. \A h \in Handle : Committed(h)' => Committed(h)
    BY <1>25 DEF OpenNative, At, Goto, CreateNative
  <2>3. UNCHANGED <<sub, closed>>
    BY <1>25 DEF OpenNative, CreateNative
  <2>4. QED
    BY <2>1, <2>2, <2>3
<1>26. ASSUME NEW t \in Thread, OpenFails(t) PROVE Kept'
  BY <1>26 DEF OpenFails, At, Goto, handleVars
<1>27. ASSUME NEW t \in Thread, LeaveOpen(t) PROVE Kept'
  BY <1>27 DEF LeaveOpen, At, Goto, EndUse
<1>28. ASSUME NEW t \in Thread, Link(t) PROVE Kept'
  <2>1. PICK k \in Io \cup Image : k = kid[t] /\ on[t] = Parent[k]
    BY <1>28 DEF Link, At
  <2>2. ~Committed(Parent[k])
    BY <1>28, <2>1 DEF Link, At, Apart, NewSteps, Closing
  <2>3. \A c \in (Io \cup Image) \ {k} : Linked(c)' => Linked(c)
    BY <1>28, <2>1 DEF Link, At, Goto, Finish, AddChild
  <2>4. \A h \in Handle : Committed(h)' => Committed(h)
    BY <1>28 DEF Link, At, Goto, Finish, AddChild
  <2>5. UNCHANGED <<sub, closed>>
    BY <1>28 DEF Link, AddChild
  <2>6. QED
    BY <2>1, <2>2, <2>3, <2>4, <2>5
<1>29. ASSUME NEW t \in Thread, Settle(t) PROVE Kept'
  <2>1. \A k \in Io \cup Image : Linked(k)' => Linked(k)
    BY <1>29 DEF Settle, At, Finish, Opens, handleVars
  <2>2. \A h \in Handle : Committed(h)' => Committed(h)
    BY <1>29 DEF Settle, At, Finish, handleVars
  <2>3. UNCHANGED <<sub, closed>>
    BY <1>29 DEF Settle, handleVars
  <2>4. QED
    BY <2>1, <2>2, <2>3
<1>30. ASSUME NEW t \in Thread, Register(t) PROVE Kept'
  <2>1. PICK s \in Sub : s = kid[t] /\ on[t] = Source[s]
    BY <1>30 DEF Register, At
  <2>2. ~Committed(Source[s])
    BY <1>30, <2>1 DEF Register, At, Apart, NewSteps, Closing
  <2>3. \A u \in Sub \ {s} : sub'[u] = sub[u]
    BY <1>30, <2>1 DEF Register
  <2>4. \A k \in Io \cup Image : Linked(k)' => Linked(k)
    BY <1>30 DEF Register, At, Goto, handleVars
  <2>5. \A h \in Handle : Committed(h)' => Committed(h)
    BY <1>30 DEF Register, At, Goto, handleVars
  <2>6. UNCHANGED closed
    BY <1>30 DEF Register, handleVars
  <2>7. QED
    BY <2>2, <2>3, <2>4, <2>5, <2>6
<1>31. ASSUME NEW t \in Thread, RegisterFails(t) PROVE Kept'
  <2>1. PICK s \in Sub : s = kid[t] /\ on[t] = Source[s]
    BY <1>31 DEF RegisterFails, At
  <2>2. ~Committed(Source[s])
    BY <1>31, <2>1 DEF RegisterFails, At, Apart, NewSteps, Closing
  <2>3. \A u \in Sub \ {s} : sub'[u] = sub[u]
    BY <1>31, <2>1 DEF RegisterFails
  <2>4. \A k \in Io \cup Image : Linked(k)' => Linked(k)
    BY <1>31 DEF RegisterFails, At, Goto, handleVars
  <2>5. \A h \in Handle : Committed(h)' => Committed(h)
    BY <1>31 DEF RegisterFails, At, Goto, handleVars
  <2>6. UNCHANGED closed
    BY <1>31 DEF RegisterFails, handleVars
  <2>7. QED
    BY <2>2, <2>3, <2>4, <2>5, <2>6
<1>32. ASSUME NEW t \in Thread, LeaveRefused(t) PROVE Kept'
  BY <1>32 DEF LeaveRefused, At, Goto, EndUse
<1>33. ASSUME NEW t \in Thread, Exchange(t) PROVE Kept'
  <2>1. CASE sub[kid[t]] = "live"
    BY <1>33, <2>1, WaitingSteps DEF Exchange, At, Goto, handleVars
  <2>2. CASE sub[kid[t]] # "live"
    BY <1>33, <2>2 DEF Exchange, At, Finish, handleVars
  <2>3. QED
    BY <2>1, <2>2
<1>34. ASSUME NEW t \in Thread, Unregister(t) PROVE Kept'
  <2>1. PICK s \in Sub : s = kid[t] /\ on[t] = Source[s]
    BY <1>34 DEF Unregister, At
  <2>2. ~Committed(Source[s])
    BY <1>34, <2>1 DEF Unregister, At, Subs
  <2>3. \A u \in Sub \ {s} : sub'[u] = sub[u]
    BY <1>34, <2>1 DEF Unregister
  <2>4. \A k \in Io \cup Image : Linked(k)' => Linked(k)
    BY <1>34 DEF Unregister, At, Goto, handleVars
  <2>5. \A h \in Handle : Committed(h)' => Committed(h)
    BY <1>34 DEF Unregister, At, Goto, handleVars
  <2>6. UNCHANGED closed
    BY <1>34 DEF Unregister, handleVars
  <2>7. QED
    BY <2>2, <2>3, <2>4, <2>5, <2>6
<1>35. ASSUME NEW t \in Thread, LeaveUnregister(t) PROVE Kept'
  <2>1. CASE on[t] \in Io
    BY <1>35, <2>1, WaitingSteps DEF LeaveUnregister, At, EndUse
  <2>2. CASE on[t] \notin Io
    BY <1>35, <2>2 DEF LeaveUnregister, At, Goto, EndUse
  <2>3. QED
    BY <2>1, <2>2
<1>36. ASSUME NEW t \in Thread, LeaveFlush(t) PROVE Kept'
  BY <1>36 DEF LeaveFlush, At, EndUse
<1>37. ASSUME NEW t \in Thread, Release(t) PROVE Kept'
  BY <1>37 DEF Release, At, Finish, RemoveChild
<1>38. ASSUME NEW t \in Thread, CheckChildren(t) PROVE Kept'
  <2>1. CASE HasChildren(on[t])
    BY <1>38, <2>1 DEF CheckChildren, At, Finish, handleVars
  <2>2. CASE ~HasChildren(on[t])
    <3>1. PICK h \in Handle : h = on[t]
      BY <1>38 DEF CheckChildren, At
    <3>2. Empty(h)
      BY <2>2, <3>1, ZeroIsEmpty
    <3>3. \A g \in Handle \ {h} : Committed(g)' => Committed(g)
      BY <1>38, <2>2, <3>1 DEF CheckChildren, At, Goto, handleVars
    <3>4. \A k \in Io \cup Image : Linked(k)' => Linked(k)
      BY <1>38, <2>2 DEF CheckChildren, At, Goto, handleVars
    <3>5. UNCHANGED <<sub, closed>>
      BY <1>38 DEF CheckChildren, handleVars
    <3>6. QED
      BY <3>2, <3>3, <3>4, <3>5
  <2>3. QED
    BY <2>1, <2>2
<1>39. ASSUME NEW t \in Thread, Claim(t) PROVE Kept'
  <2>1. CASE BeginClose(t, on[t]) /\ Goto(t, "destroy")
    BY <1>39, <2>1 DEF Claim, At, Goto, BeginClose
  <2>2. CASE CloseAgain(on[t]) /\ Finish(t)
    BY <1>39, <2>2 DEF Claim, At, Finish, CloseAgain, handleVars
  <2>3. QED
    BY <1>39, <2>1, <2>2 DEF Claim
<1>40. ASSUME NEW t \in Thread, Destroy(t) PROVE Kept'
  <2>1. native[on[t]] = "live"
    BY <1>40 DEF Destroy, At, Closes
  <2>2. \A k \in Io \cup Image : Linked(k)' => Linked(k)
    BY <1>40, <2>1 DEF Destroy, At, Goto, DestroyNative
  <2>3. \A h \in Handle : Committed(h)' => Committed(h)
    BY <1>40 DEF Destroy, At, Goto, DestroyNative
  <2>4. UNCHANGED <<sub, closed>>
    BY <1>40 DEF Destroy, DestroyNative
  <2>5. QED
    BY <2>2, <2>3, <2>4
<1>41. ASSUME NEW t \in Thread, Unlink(t) PROVE Kept'
  BY <1>41 DEF Unlink, At, Goto, RemoveChild
<1>42. ASSUME NEW t \in Thread, Unlock(t) PROVE Kept'
  BY <1>42 DEF Unlock, At, Finish, EndClose
<1>43. CASE UNCHANGED vars
  BY <1>43 DEF vars, handleVars, treeVars
<1>44. QED
  BY <1>1, <1>2, <1>3, <1>4, <1>5, <1>6, <1>7, <1>8, <1>9, <1>10, <1>11,
     <1>12, <1>13, <1>14, <1>15, <1>16, <1>17, <1>18, <1>19, <1>20, <1>21,
     <1>22, <1>23, <1>24, <1>25, <1>26, <1>27, <1>28, <1>29, <1>30, <1>31,
     <1>32, <1>33, <1>34, <1>35, <1>36, <1>37, <1>38, <1>39, <1>40, <1>41,
     <1>42, <1>43 DEF Next, Call, Collect, Step

\* events.cpp:29: the two use() of Data::close find an open handle.
LEMMA NeverRefused ==
  ASSUME IInv, Made, Subs, Kept, NEW t \in Thread, pc[t] \in {"unregister", "flush"}
  PROVE  ~closed[on[t]]
<1> USE TreeAssumption
    DEF IInv, TypeOK, TreeTypeOK, HandleTypeOK, Places, Made, Subs, SubSteps, Flushing
<1>1. PICK s \in Sub : s = kid[t] /\ sub[s] \in {"closed", "off"}
  OBVIOUS
<1>2. ~Committed(Source[s])
  BY <1>1 DEF Kept, Empty
<1>3. CASE pc[t] = "unregister"
  BY <1>1, <1>2, <1>3 DEF Committed
<1>4. CASE pc[t] = "flush"
  <2>1. Source[s] \in Io /\ on[t] = Parent[Source[s]]
    BY <1>1, <1>4
  <2>2. native[Source[s]] = "live" /\ wrapper[Source[s]] # "absent"
    BY <1>1, <1>2, <2>1 DEF Committed, Exists
  <2>3. Linked(Source[s])
    BY <2>2 DEF Linked
  <2>4. ~Committed(Parent[Source[s]])
    BY <2>1, <2>3 DEF Kept, Empty
  <2>5. QED
    BY <2>1, <2>4 DEF Committed
<1>5. QED
  BY <1>3, <1>4

\* So no exception leaves a close of a subscription.
LEMMA NoThrowStep ==
  ASSUME Lapses = {}, IInv, Made, Opens, Subs, Held, Apart, Kept, NoThrow, [Next]_vars
  PROVE  NoThrow'
<1> USE TreeAssumption, NobodyAssumption
    DEF IInv, TypeOK, TreeTypeOK, HandleTypeOK, Places, Made, NoThrow, OpenSteps, SubSteps,
        Flushing, Worker
<1>1. ASSUME NEW c \in Cluster, NEW w \in Worker, Connect(w, c) PROVE NoThrow'
  BY <1>1 DEF Connect, Start, CreateNative
<1>2. ASSUME NEW c \in Cluster, Connected(c) PROVE NoThrow'
  BY <1>2 DEF Connected, handleVars
<1>3. ASSUME NEW c \in Cluster, NEW w \in Worker, ConnectFailed(w, c) PROVE NoThrow'
  BY <1>3 DEF ConnectFailed, Start, handleVars
<1>4. ASSUME NEW c \in Cluster, NEW t \in Thread, UseCluster(t, c) PROVE NoThrow'
  BY <1>4 DEF UseCluster, Use, Start, Reachable, handleVars
<1>5. ASSUME NEW i \in Io, NEW t \in Thread, UseIoContext(t, i) PROVE NoThrow'
  BY <1>5 DEF UseIoContext, Use, Start, Reachable, handleVars
<1>6. ASSUME NEW i \in Io, NEW w \in Worker, UsePool(w, i) PROVE NoThrow'
  BY <1>6 DEF UsePool, Use, Start, handleVars
<1>7. ASSUME NEW k \in Image, NEW w \in Worker, UseImage(w, k) PROVE NoThrow'
  BY <1>7 DEF UseImage, Use, Start, Reachable, handleVars
<1>8. ASSUME NEW k \in Image, NEW w \in Worker, OpenImage(w, k) PROVE NoThrow'
  BY <1>8 DEF OpenImage, Start, handleVars
<1>9. ASSUME NEW i \in Io, OpenIoContext(i) PROVE NoThrow'
  BY <1>9 DEF OpenIoContext, Start, Reachable, handleVars
<1>10. ASSUME NEW i \in Io, Rbd(i) PROVE NoThrow'
  BY <1>10 DEF Rbd, Reachable, handleVars
<1>11. ASSUME NEW h \in Handle, NEW w \in Worker, Close(w, h) PROVE NoThrow'
  BY <1>11 DEF Close, Start, Reachable, handleVars
<1>12. ASSUME NEW s \in Sub, Subscribe(s) PROVE NoThrow'
  BY <1>12 DEF Subscribe, Start, AddChild, Reachable
<1>13. ASSUME NEW s \in Sub, NEW w \in Worker, Unsubscribe(w, s) PROVE NoThrow'
  BY <1>13 DEF Unsubscribe, Start, handleVars
<1>14. ASSUME NEW s \in Sub, NEW w \in Worker, Ack(w, s) PROVE NoThrow'
  BY <1>14 DEF Ack, Use, Start, handleVars
<1>15. ASSUME NEW i \in Io, DropPool(i) PROVE NoThrow'
  BY <1>15 DEF DropPool, handleVars
<1>16. ASSUME NEW h \in Handle, Drop(h) PROVE NoThrow'
  BY <1>16 DEF Drop, Reachable, handleVars
<1>17. ASSUME NEW h \in Handle, Destruct(h) PROVE NoThrow'
  BY <1>17 DEF Destruct, Start, handleVars
<1>18. ASSUME NEW h \in Handle, NEW w \in Worker, Finalize(w, h) PROVE NoThrow'
  BY <1>18 DEF Finalize, Start, handleVars
<1>19. ASSUME NEW s \in Sub, DropWatcher(s) PROVE NoThrow'
  <2>1. CASE sub[s] = "live"
    BY <1>19, <2>1 DEF DropWatcher, Start, handleVars
  <2>2. CASE sub[s] # "live"
    BY <1>19, <2>2 DEF DropWatcher, Start, handleVars
  <2>3. QED
    BY <2>1, <2>2
<1>20. ASSUME Exit PROVE NoThrow'
  BY <1>20 DEF Exit, handleVars
<1>21. ASSUME NEW t \in Thread, Enter(t) PROVE NoThrow'
  BY <1>21, WaitingSteps DEF Enter, Goto, BeginUse
<1>22. ASSUME NEW t \in Thread, Refuse(t) PROVE NoThrow'
  <2>1. pc[t] \notin {"unregister", "flush"}
    BY <1>22, NeverRefused DEF Refuse, RefuseUse
  <2>2. pc' = [pc EXCEPT ![t] = "idle"] /\ kid' = [kid EXCEPT ![t] = Nobody]
    BY <1>22, <2>1 DEF Refuse, Finish
  <2>3. kid[t] \in Sub => kid[t] = Nobody \/ pc[t] = "register"
    BY <1>22, <2>1, WaitingSteps DEF Refuse
  <2>4. kid[t] \in Sub => closed[Source[kid[t]]] /\ ~watcher[kid[t]]
    BY <1>22, <2>3 DEF Refuse, RefuseUse
  <2>5. \A s \in Sub : sub'[s] = "stranded" => sub[s] = "stranded" \/ s = kid[t]
    BY <1>22 DEF Refuse
  <2>6. UNCHANGED <<closed, watcher>>
    BY <1>22 DEF Refuse, RefuseUse, handleVars
  <2>7. QED
    BY <2>2, <2>4, <2>5, <2>6
<1>23. ASSUME NEW t \in Thread, UseAgain(t) PROVE NoThrow'
  BY <1>23, WaitingSteps DEF UseAgain, At, Goto, EndUse
<1>24. ASSUME NEW t \in Thread, Leave(t) PROVE NoThrow'
  BY <1>24 DEF Leave, Finish, EndUse
<1>25. ASSUME NEW t \in Thread, OpenNative(t) PROVE NoThrow'
  BY <1>25 DEF OpenNative, At, Goto, CreateNative
<1>26. ASSUME NEW t \in Thread, OpenFails(t) PROVE NoThrow'
  BY <1>26 DEF OpenFails, At, Goto, handleVars
<1>27. ASSUME NEW t \in Thread, LeaveOpen(t) PROVE NoThrow'
  BY <1>27 DEF LeaveOpen, At, Goto, EndUse
<1>28. ASSUME NEW t \in Thread, Link(t) PROVE NoThrow'
  <2>1. CASE t = JS
    BY <1>28, <2>1 DEF Link, At, Finish, AddChild
  <2>2. CASE t # JS
    BY <1>28, <2>2 DEF Link, At, Goto, AddChild
  <2>3. QED
    BY <2>1, <2>2
<1>29. ASSUME NEW t \in Thread, Settle(t) PROVE NoThrow'
  BY <1>29 DEF Settle, At, Finish, handleVars
<1>30. ASSUME NEW t \in Thread, Register(t) PROVE NoThrow'
  <2>1. /\ sub'[kid[t]] = "live"
        /\ \A s \in Sub : s # kid[t] => watcher'[s] = watcher[s] /\ sub'[s] = sub[s]
    BY <1>30 DEF Register, At
  <2>2. \A u \in Thread : pc[u] \in {"register", "registering", "refused"} => u = t
    BY <1>30 DEF Register, At, Held
  <2>3. QED
    BY <1>30, <2>1, <2>2 DEF Register, At, Goto, handleVars
<1>31. ASSUME NEW t \in Thread, RegisterFails(t) PROVE NoThrow'
  BY <1>31 DEF RegisterFails, At, Goto, handleVars
<1>32. ASSUME NEW t \in Thread, LeaveRefused(t) PROVE NoThrow'
  BY <1>32 DEF LeaveRefused, At, Goto, EndUse
<1>33. ASSUME NEW t \in Thread, Exchange(t) PROVE NoThrow'
  <2>1. CASE sub[kid[t]] = "live"
    BY <1>33, <2>1, WaitingSteps DEF Exchange, At, Goto, handleVars
  <2>2. CASE sub[kid[t]] # "live"
    BY <1>33, <2>2 DEF Exchange, At, Finish, handleVars
  <2>3. QED
    BY <2>1, <2>2
<1>34. ASSUME NEW t \in Thread, Unregister(t) PROVE NoThrow'
  BY <1>34 DEF Unregister, At, Goto, handleVars
<1>35. ASSUME NEW t \in Thread, LeaveUnregister(t) PROVE NoThrow'
  <2>1. CASE on[t] \in Io
    BY <1>35, <2>1, WaitingSteps DEF LeaveUnregister, At, EndUse
  <2>2. CASE on[t] \notin Io
    BY <1>35, <2>2 DEF LeaveUnregister, At, Goto, EndUse
  <2>3. QED
    BY <2>1, <2>2
<1>36. ASSUME NEW t \in Thread, LeaveFlush(t) PROVE NoThrow'
  BY <1>36 DEF LeaveFlush, At, EndUse
<1>37. ASSUME NEW t \in Thread, Release(t) PROVE NoThrow'
  BY <1>37 DEF Release, At, Finish, RemoveChild
<1>38. ASSUME NEW t \in Thread, CheckChildren(t) PROVE NoThrow'
  <2>1. CASE HasChildren(on[t])
    BY <1>38, <2>1 DEF CheckChildren, At, Finish, handleVars
  <2>2. CASE ~HasChildren(on[t])
    BY <1>38, <2>2 DEF CheckChildren, At, Goto, handleVars
  <2>3. QED
    BY <1>38, <2>1, <2>2 DEF CheckChildren
<1>39. ASSUME NEW t \in Thread, Claim(t) PROVE NoThrow'
  <2>1. CASE BeginClose(t, on[t]) /\ Goto(t, "destroy")
    BY <1>39, <2>1 DEF Claim, At, Goto, BeginClose
  <2>2. CASE CloseAgain(on[t]) /\ Finish(t)
    BY <1>39, <2>2 DEF Claim, At, Finish, CloseAgain, handleVars
  <2>3. QED
    BY <1>39, <2>1, <2>2 DEF Claim
<1>40. ASSUME NEW t \in Thread, Destroy(t) PROVE NoThrow'
  BY <1>40 DEF Destroy, At, Goto, DestroyNative
<1>41. ASSUME NEW t \in Thread, Unlink(t) PROVE NoThrow'
  BY <1>41 DEF Unlink, At, Goto, RemoveChild
<1>42. ASSUME NEW t \in Thread, Unlock(t) PROVE NoThrow'
  BY <1>42 DEF Unlock, At, Finish, EndClose
<1>43. CASE UNCHANGED vars
  BY <1>43 DEF vars, handleVars, treeVars
<1>44. QED
  BY <1>1, <1>2, <1>3, <1>4, <1>5, <1>6, <1>7, <1>8, <1>9, <1>10, <1>11,
     <1>12, <1>13, <1>14, <1>15, <1>16, <1>17, <1>18, <1>19, <1>20, <1>21,
     <1>22, <1>23, <1>24, <1>25, <1>26, <1>27, <1>28, <1>29, <1>30, <1>31,
     <1>32, <1>33, <1>34, <1>35, <1>36, <1>37, <1>38, <1>39, <1>40, <1>41,
     <1>42, <1>43 DEF Next, Call, Collect, Step

-----------------------------------------------------------------------------
(* The inductive invariants, and what follows from them.                    *)

\* For any client, and for a careful one.
TreeInv == IInv /\ Made /\ Opens /\ Closes /\ Subs /\ Freed /\ ChildCountExact
CareInv == TreeInv /\ Held /\ Apart /\ Kept /\ NoThrow

\* The addon starts in both.
LEMMA InitCareInv == Init => CareInv
<1> SUFFICES ASSUME Init PROVE CareInv
  OBVIOUS
<1> USE TreeAssumption, NobodyAssumption DEF Init, HandleInit
<1>1. IInv
  BY InitIInv
<1>2. Made /\ Closes
  BY DEF Made, Closes, SubSteps, Flushing, Destroying
<1>3. Opens
  BY DEF Opens, OpenSteps
<1>4. Subs
  BY DEF Subs, Owning, SubSteps, Flushing
<1>5. Freed
  BY DEF Freed, Watched
<1>6. ChildCountExact
  <2>1. ASSUME NEW h \in Handle
        PROVE  children[h] = Cardinality(Kids(h)) + Cardinality(Counted(h))
    <3>1. Kids(h) = {} /\ Counted(h) = {}
      BY DEF Kids, Counted, Counts, Linked
    <3>2. Cardinality({}) = 0
      BY FS_EmptySet
    <3>3. children[h] = 0
      OBVIOUS
    <3>4. QED
      BY <3>1, <3>2, <3>3
  <2>2. QED
    BY <2>1, CountDef
<1>7. Held /\ NoThrow /\ Apart
  BY DEF Held, NoThrow, Apart, NewSteps, OpenSteps
<1>8. Kept
  BY DEF Kept, Committed, Busy, Destroying
<1>9. QED
  BY <1>1, <1>2, <1>3, <1>4, <1>5, <1>6, <1>7, <1>8 DEF CareInv, TreeInv

\* Whatever the client does, a step stays in the first.
LEMMA NextTreeInv == TreeInv /\ [Next]_vars => TreeInv'
<1> SUFFICES ASSUME TreeInv, [Next]_vars PROVE TreeInv'
  OBVIOUS
<1>1. IInv /\ Made /\ Opens /\ Closes /\ Subs /\ Freed /\ ChildCountExact
  BY DEF TreeInv
<1>2. IInv'
  BY <1>1, NextIInv
<1>3. Made' /\ Opens' /\ Closes' /\ Subs' /\ Freed'
  BY <1>1, MadeStep, OpensStep, ClosesStep, SubsStep, FreedStep
<1>4. ChildCountExact'
  BY <1>1, CountStep
<1>5. QED
  BY <1>2, <1>3, <1>4 DEF TreeInv

\* A step of a careful client stays in the second.
LEMMA NextCareInv == ASSUME Lapses = {} PROVE CareInv /\ [Next]_vars => CareInv'
<1> SUFFICES ASSUME CareInv, [Next]_vars PROVE CareInv'
  OBVIOUS
<1>1. TreeInv /\ Held /\ Apart /\ Kept /\ NoThrow
  BY DEF CareInv
<1>2. IInv /\ Made /\ Opens /\ Closes /\ Subs /\ Freed /\ ChildCountExact
  BY <1>1 DEF TreeInv
<1>3. TreeInv'
  BY <1>1, NextTreeInv
<1>4. Held' /\ Apart'
  BY <1>1, <1>2, HeldStep, ApartStep
<1>5. Kept' /\ NoThrow'
  BY <1>1, <1>2, KeptStep, NoThrowStep
<1>6. QED
  BY <1>3, <1>4, <1>5 DEF CareInv

\* Once every object is freed and every thread idle, nothing is open in Ceph.
LEMMA FreedIsClosed ==
  ASSUME TreeInv  PROVE  NothingLeaks
<1> SUFFICES ASSUME \A h \in Handle : wrapper[h] \in {"absent", "freed"},
                    \A t \in Thread : pc[t] = "idle"
             PROVE  /\ \A h \in Handle : native[h] # "live"
                    /\ \A s \in Sub : sub[s] \in {"absent", "done", "stranded"}
  BY DEF NothingLeaks
<1> USE TreeAssumption DEF TreeInv, IInv, TypeOK, TreeTypeOK, HandleTypeOK
<1>1. ASSUME NEW h \in Handle PROVE native[h] # "live"
  <2>1. CASE wrapper[h] = "absent"
    BY <2>1 DEF Opens, Exists
  <2>2. CASE wrapper[h] = "freed"
    BY <2>2 DEF Freed, Closes, Locks, Destroying
  <2>3. QED
    BY <2>1, <2>2
<1>2. ASSUME NEW s \in Sub PROVE sub[s] \in {"absent", "done", "stranded"}
  <2>1. sub[s] \notin {"counted", "closed", "off"}
    BY DEF Subs, Owning, SubSteps, Flushing
  <2>2. sub[s] = "live" => wrapper[Source[s]] \notin {"absent", "freed"}
    BY DEF Subs, Made, Freed, Watched, HeldBySub
  <2>3. QED
    BY <2>1, <2>2
<1>3. QED
  BY <1>1, <1>2

\* A live child, and a registration, is on a handle to which no close is committed.
LEMMA ParentsLive ==
  ASSUME CareInv  PROVE  ParentOutlivesChild
<1> USE TreeAssumption DEF CareInv, TreeInv, IInv, TypeOK, TreeTypeOK, HandleTypeOK, Exists
<1>1. ASSUME NEW k \in Io \cup Image, native[k] = "live" PROVE native[Parent[k]] = "live"
  <2>1. ~closed[Parent[k]]
    <3>1. CASE wrapper[k] = "absent"
      <4>1. PICK t \in Thread : pc[t] \in {"created", "link"} /\ kid[t] = k
        BY <1>1, <3>1 DEF Opens
      <4>2. QED
        BY <4>1 DEF Apart, NewSteps, Places, OpenSteps
    <3>2. CASE wrapper[k] # "absent"
      BY <1>1, <3>2 DEF Kept, Empty, Committed, Linked
    <3>3. QED
      BY <3>1, <3>2
  <2>2. QED
    BY <1>1, <2>1
<1>2. ASSUME NEW s \in Sub, sub[s] \in {"live", "closed"} PROVE native[Source[s]] = "live"
  <2>1. ~closed[Source[s]]
    BY <1>2 DEF Kept, Empty, Committed
  <2>2. native[Source[s]] # "none"
    BY <1>2 DEF Made
  <2>3. QED
    BY <2>1, <2>2
<1>3. QED
  BY <1>1, <1>2 DEF ParentOutlivesChild

\* A closed handle whose mutex is free has been destroyed.
LEMMA ClosedIsGone ==
  ASSUME TreeInv, NEW h \in Handle, closed[h], writer[h] = Nobody
  PROVE  native[h] = "gone"
BY DEF TreeInv, Closes

\* Every step is one that librados and librbd allow, or none to them.
LEMMA CephStep ==
  ASSUME TreeInv, Lapses = {} => CareInv, [Next]_vars
  PROVE  [Ceph!Next]_(Ceph!vars)
<1> USE TreeAssumption, NobodyAssumption
    DEF TreeInv, IInv, TypeOK, TreeTypeOK, HandleTypeOK, Places, OpenSteps,
        SubSteps, Flushing, Worker
<1>1. ASSUME NEW c \in Cluster, NEW w \in Worker, Connect(w, c)
      PROVE  [Ceph!Next]_(Ceph!vars)
  <2>1. native[c] = "none" /\ c \notin DOMAIN Parent /\ UNCHANGED Registered
    BY <1>1 DEF Connect, Exists, Registered
  <2>2. Ceph!Open(c)
    BY <1>1, <2>1 DEF Connect, CreateNative, Ceph!Open
  <2>3. QED
    BY <2>2 DEF Ceph!Next
<1>2. ASSUME NEW c \in Cluster, Connected(c) PROVE [Ceph!Next]_(Ceph!vars)
  BY <1>2 DEF Connected, handleVars, Registered, Ceph!vars
<1>3. ASSUME NEW c \in Cluster, NEW w \in Worker, ConnectFailed(w, c)
      PROVE  [Ceph!Next]_(Ceph!vars)
  BY <1>3 DEF ConnectFailed, Start, handleVars, Registered, Ceph!vars
<1>4. ASSUME NEW c \in Cluster, NEW t \in Thread, UseCluster(t, c)
      PROVE  [Ceph!Next]_(Ceph!vars)
  BY <1>4 DEF UseCluster, Use, Start, Reachable, handleVars, Registered, Ceph!vars
<1>5. ASSUME NEW i \in Io, NEW t \in Thread, UseIoContext(t, i)
      PROVE  [Ceph!Next]_(Ceph!vars)
  BY <1>5 DEF UseIoContext, Use, Start, Reachable, handleVars, Registered,
     Ceph!vars
<1>6. ASSUME NEW i \in Io, NEW w \in Worker, UsePool(w, i) PROVE [Ceph!Next]_(Ceph!vars)
  BY <1>6 DEF UsePool, Use, Start, handleVars, Registered, Ceph!vars
<1>7. ASSUME NEW k \in Image, NEW w \in Worker, UseImage(w, k) PROVE [Ceph!Next]_(Ceph!vars)
  BY <1>7 DEF UseImage, Use, Start, Reachable, handleVars, Registered, Ceph!vars
<1>8. ASSUME NEW k \in Image, NEW w \in Worker, OpenImage(w, k)
      PROVE  [Ceph!Next]_(Ceph!vars)
  BY <1>8 DEF OpenImage, Start, handleVars, Registered, Ceph!vars
<1>9. ASSUME NEW i \in Io, OpenIoContext(i) PROVE [Ceph!Next]_(Ceph!vars)
  BY <1>9 DEF OpenIoContext, Start, Reachable, handleVars, Registered, Ceph!vars
<1>10. ASSUME NEW i \in Io, Rbd(i) PROVE [Ceph!Next]_(Ceph!vars)
  BY <1>10 DEF Rbd, Reachable, handleVars, Registered, Ceph!vars
<1>11. ASSUME NEW h \in Handle, NEW w \in Worker, Close(w, h) PROVE [Ceph!Next]_(Ceph!vars)
  BY <1>11 DEF Close, Start, Reachable, handleVars, Registered, Ceph!vars
<1>12. ASSUME NEW s \in Sub, Subscribe(s) PROVE [Ceph!Next]_(Ceph!vars)
  <2>1. UNCHANGED Registered
    BY <1>12 DEF Subscribe, At, Registered, Subs
  <2>2. QED
    BY <1>12, <2>1 DEF Subscribe, Start, AddChild, Reachable, Ceph!vars
<1>13. ASSUME NEW s \in Sub, NEW w \in Worker, Unsubscribe(w, s)
      PROVE  [Ceph!Next]_(Ceph!vars)
  BY <1>13 DEF Unsubscribe, Start, handleVars, Registered, Ceph!vars
<1>14. ASSUME NEW s \in Sub, NEW w \in Worker, Ack(w, s) PROVE [Ceph!Next]_(Ceph!vars)
  BY <1>14 DEF Ack, Use, Start, handleVars, Registered, Ceph!vars
<1>15. ASSUME NEW i \in Io, DropPool(i) PROVE [Ceph!Next]_(Ceph!vars)
  BY <1>15 DEF DropPool, handleVars, Registered, Ceph!vars
<1>16. ASSUME NEW h \in Handle, Drop(h) PROVE [Ceph!Next]_(Ceph!vars)
  BY <1>16 DEF Drop, Reachable, handleVars, Registered, Ceph!vars
<1>17. ASSUME NEW h \in Handle, Destruct(h) PROVE [Ceph!Next]_(Ceph!vars)
  BY <1>17 DEF Destruct, Start, handleVars, Registered, Ceph!vars
<1>18. ASSUME NEW h \in Handle, NEW w \in Worker, Finalize(w, h)
      PROVE  [Ceph!Next]_(Ceph!vars)
  BY <1>18 DEF Finalize, Start, handleVars, Registered, Ceph!vars
<1>19. ASSUME NEW s \in Sub, DropWatcher(s) PROVE [Ceph!Next]_(Ceph!vars)
  BY <1>19 DEF DropWatcher, Start, handleVars, Registered, Ceph!vars
<1>20. ASSUME Exit PROVE [Ceph!Next]_(Ceph!vars)
  BY <1>20 DEF Exit, handleVars, Registered, Ceph!vars
<1>21. ASSUME NEW t \in Thread, Enter(t) PROVE [Ceph!Next]_(Ceph!vars)
  <2>1. PICK h \in Handle : h = on[t] /\ native[h] = "live"
    BY <1>21, WaitingSteps DEF Enter, BeginUse, Exists
  <2>2. UNCHANGED Registered
    BY <1>21 DEF Enter, Registered
  <2>3. Ceph!Begin(t, h)
    BY <1>21, <2>1, <2>2 DEF Enter, BeginUse, Ceph!Begin
  <2>4. QED
    BY <2>3 DEF Ceph!Next
<1>22. ASSUME NEW t \in Thread, Refuse(t) PROVE [Ceph!Next]_(Ceph!vars)
  <2>1. pc[t] \in Waiting /\ closed[on[t]] /\ writer[on[t]] = Nobody /\ on[t] \in Handle
        /\ UNCHANGED handleVars
    BY <1>22, WaitingSteps DEF Refuse, RefuseUse
  <2>2. CASE pc[t] # "unregister"
    <3>1. \A s \in Sub : s = kid[t] => sub[s] \in {"counted", "off"}
      BY <2>1, <2>2, WaitingSteps DEF Subs, Made
    <3>2. UNCHANGED Registered
      BY <1>22, <3>1 DEF Refuse, Registered
    <3>3. QED
      BY <2>1, <3>2 DEF handleVars, Ceph!vars
  <2>3. CASE pc[t] = "unregister"
    <3>1. PICK s \in Sub : s = kid[t] /\ on[t] = Source[s]
      BY <2>3
    <3>2. Lapses # {}
      BY <2>1, <2>3, NeverRefused DEF CareInv
    <3>3. native[Source[s]] = "gone"
      BY <2>1, <3>1, ClosedIsGone
    <3>4. s \in Registered
      BY <2>3, <3>1 DEF Subs, Registered
    <3>5. Registered' = Registered \ {s}
      BY <1>22, <3>1 DEF Refuse, Registered
    <3>6. Ceph!GiveUp(s)
      BY <2>1, <3>2, <3>3, <3>4, <3>5 DEF handleVars, Ceph!GiveUp
    <3>7. QED
      BY <3>6 DEF Ceph!Next
  <2>4. QED
    BY <2>2, <2>3
<1>23. ASSUME NEW t \in Thread, UseAgain(t) PROVE [Ceph!Next]_(Ceph!vars)
  <2>1. PICK h \in Handle : h = on[t] /\ t \in readers[h]
    BY <1>23 DEF UseAgain, At, Holding, Locks
  <2>2. UNCHANGED Registered
    BY <1>23 DEF UseAgain, Registered
  <2>3. Ceph!End(t, h)
    BY <1>23, <2>1, <2>2 DEF UseAgain, EndUse, Ceph!End
  <2>4. QED
    BY <2>3 DEF Ceph!Next
<1>24. ASSUME NEW t \in Thread, Leave(t) PROVE [Ceph!Next]_(Ceph!vars)
  <2>1. PICK h \in Handle : h = on[t] /\ t \in readers[h]
    BY <1>24 DEF Leave, At, Holding, Locks
  <2>2. UNCHANGED Registered
    BY <1>24 DEF Leave, Registered
  <2>3. Ceph!End(t, h)
    BY <1>24, <2>1, <2>2 DEF Leave, EndUse, Ceph!End
  <2>4. QED
    BY <2>3 DEF Ceph!Next
<1>25. ASSUME NEW t \in Thread, OpenNative(t) PROVE [Ceph!Next]_(Ceph!vars)
  <2>1. PICK k \in Io \cup Image : k = kid[t] /\ on[t] = Parent[k]
    BY <1>25 DEF OpenNative, At
  <2>2. native[k] = "none"
    BY <1>25, <2>1 DEF OpenNative, At, Opens
  <2>3. t \in readers[Parent[k]] /\ native[Parent[k]] = "live"
    BY <1>25, <2>1 DEF OpenNative, At, Locks, Live, Holding
  <2>4. UNCHANGED Registered
    BY <1>25 DEF OpenNative, Registered
  <2>5. Ceph!Open(k)
    BY <1>25, <2>1, <2>2, <2>3, <2>4 DEF OpenNative, CreateNative, Ceph!Open
  <2>6. QED
    BY <2>5 DEF Ceph!Next
<1>26. ASSUME NEW t \in Thread, OpenFails(t) PROVE [Ceph!Next]_(Ceph!vars)
  BY <1>26 DEF OpenFails, At, Goto, handleVars, Registered, Ceph!vars
<1>27. ASSUME NEW t \in Thread, LeaveOpen(t) PROVE [Ceph!Next]_(Ceph!vars)
  <2>1. PICK h \in Handle : h = on[t] /\ t \in readers[h]
    BY <1>27 DEF LeaveOpen, At, Holding, Locks
  <2>2. UNCHANGED Registered
    BY <1>27 DEF LeaveOpen, Registered
  <2>3. Ceph!End(t, h)
    BY <1>27, <2>1, <2>2 DEF LeaveOpen, EndUse, Ceph!End
  <2>4. QED
    BY <2>3 DEF Ceph!Next
<1>28. ASSUME NEW t \in Thread, Link(t) PROVE [Ceph!Next]_(Ceph!vars)
  BY <1>28 DEF Link, At, Goto, Finish, AddChild, Registered, Ceph!vars
<1>29. ASSUME NEW t \in Thread, Settle(t) PROVE [Ceph!Next]_(Ceph!vars)
  BY <1>29 DEF Settle, At, Finish, handleVars, Registered, Ceph!vars
<1>30. ASSUME NEW t \in Thread, Register(t) PROVE [Ceph!Next]_(Ceph!vars)
  <2>1. PICK s \in Sub : s = kid[t] /\ on[t] = Source[s]
    BY <1>30 DEF Register, At
  <2>2. t \in readers[Source[s]]
    BY <1>30, <2>1 DEF Register, At, Locks, Holding
  <2>3. s \notin Registered
    BY <1>30, <2>1 DEF Register, At, Subs, Registered
  <2>4. Registered' = Registered \cup {s}
    BY <1>30, <2>1 DEF Register, Registered
  <2>5. Ceph!Register(s)
    BY <1>30, <2>2, <2>3, <2>4 DEF Register, handleVars, Ceph!Register
  <2>6. QED
    BY <2>5 DEF Ceph!Next
<1>31. ASSUME NEW t \in Thread, RegisterFails(t) PROVE [Ceph!Next]_(Ceph!vars)
  <2>1. UNCHANGED Registered
    BY <1>31 DEF RegisterFails, At, Registered, Subs
  <2>2. QED
    BY <1>31, <2>1 DEF RegisterFails, At, Goto, handleVars, Ceph!vars
<1>32. ASSUME NEW t \in Thread, LeaveRefused(t) PROVE [Ceph!Next]_(Ceph!vars)
  <2>1. PICK h \in Handle : h = on[t] /\ t \in readers[h]
    BY <1>32 DEF LeaveRefused, At, Holding, Locks
  <2>2. UNCHANGED Registered
    BY <1>32 DEF LeaveRefused, Registered
  <2>3. Ceph!End(t, h)
    BY <1>32, <2>1, <2>2 DEF LeaveRefused, EndUse, Ceph!End
  <2>4. QED
    BY <2>3 DEF Ceph!Next
<1>33. ASSUME NEW t \in Thread, Exchange(t) PROVE [Ceph!Next]_(Ceph!vars)
  <2>1. UNCHANGED Registered
    BY <1>33 DEF Exchange, At, Registered, Subs
  <2>2. QED
    BY <1>33, <2>1 DEF Exchange, At, Goto, Finish, handleVars, Ceph!vars
<1>34. ASSUME NEW t \in Thread, Unregister(t) PROVE [Ceph!Next]_(Ceph!vars)
  <2>1. PICK s \in Sub : s = kid[t] /\ on[t] = Source[s]
    BY <1>34 DEF Unregister, At
  <2>2. t \in readers[Source[s]]
    BY <1>34, <2>1 DEF Unregister, At, Locks, Holding
  <2>3. s \in Registered
    BY <1>34, <2>1 DEF Unregister, At, Subs, Registered
  <2>4. Registered' = Registered \ {s}
    BY <1>34, <2>1 DEF Unregister, Registered
  <2>5. Ceph!Unregister(s)
    BY <1>34, <2>2, <2>3, <2>4 DEF Unregister, handleVars, Ceph!Unregister
  <2>6. QED
    BY <2>5 DEF Ceph!Next
<1>35. ASSUME NEW t \in Thread, LeaveUnregister(t) PROVE [Ceph!Next]_(Ceph!vars)
  <2>1. PICK h \in Handle : h = on[t] /\ t \in readers[h]
    BY <1>35 DEF LeaveUnregister, At, Holding, Locks
  <2>2. UNCHANGED Registered
    BY <1>35 DEF LeaveUnregister, Registered
  <2>3. Ceph!End(t, h)
    BY <1>35, <2>1, <2>2 DEF LeaveUnregister, EndUse, Ceph!End
  <2>4. QED
    BY <2>3 DEF Ceph!Next
<1>36. ASSUME NEW t \in Thread, LeaveFlush(t) PROVE [Ceph!Next]_(Ceph!vars)
  <2>1. PICK h \in Handle : h = on[t] /\ t \in readers[h]
    BY <1>36 DEF LeaveFlush, At, Holding, Locks
  <2>2. UNCHANGED Registered
    BY <1>36 DEF LeaveFlush, Registered
  <2>3. Ceph!End(t, h)
    BY <1>36, <2>1, <2>2 DEF LeaveFlush, EndUse, Ceph!End
  <2>4. QED
    BY <2>3 DEF Ceph!Next
<1>37. ASSUME NEW t \in Thread, Release(t) PROVE [Ceph!Next]_(Ceph!vars)
  <2>1. UNCHANGED Registered
    BY <1>37 DEF Release, At, Registered, Subs
  <2>2. QED
    BY <1>37, <2>1 DEF Release, At, Finish, RemoveChild, Ceph!vars
<1>38. ASSUME NEW t \in Thread, CheckChildren(t) PROVE [Ceph!Next]_(Ceph!vars)
  BY <1>38 DEF CheckChildren, At, Goto, Finish, handleVars, Registered, Ceph!vars
<1>39. ASSUME NEW t \in Thread, Claim(t) PROVE [Ceph!Next]_(Ceph!vars)
  BY <1>39 DEF Claim, At, Goto, Finish, BeginClose, CloseAgain, handleVars,
     Registered, Ceph!vars
<1>40. ASSUME NEW t \in Thread, Destroy(t) PROVE [Ceph!Next]_(Ceph!vars)
  <2>1. PICK h \in Handle : h = on[t] /\ native[h] = "live" /\ readers[h] = {}
    BY <1>40 DEF Destroy, At, Closes, Locks, Destroying
  <2>2. ASSUME Lapses = {} PROVE Ceph!Empty(h)
    <3>1. CareInv
      BY <2>2
    <3>2. Empty(h) /\ Closing(h) /\ closed[h]
      BY <1>40, <2>1, <3>1
         DEF Destroy, At, CareInv, Kept, Committed, Closing, Busy, Destroying, Exists, Locks
    <3>3. \A s \in Registered : Source[s] # h
      BY <3>2 DEF Empty, Registered
    <3>4. ASSUME NEW k \in DOMAIN Parent, Parent[k] = h, native[k] = "live" PROVE FALSE
      <4>1. wrapper[k] = "absent"
        BY <3>2, <3>4 DEF Empty, Linked
      <4>2. PICK u \in Thread : pc[u] \in {"created", "link"} /\ kid[u] = k
        BY <3>4, <4>1 DEF Opens
      <4>3. QED
        BY <3>1, <3>2, <3>4, <4>2 DEF CareInv, Apart, NewSteps
    <3>5. QED
      BY <3>3, <3>4 DEF Ceph!Empty
  <2>3. UNCHANGED Registered
    BY <1>40 DEF Destroy, Registered
  <2>4. Ceph!Free(h)
    BY <1>40, <2>1, <2>2, <2>3 DEF Destroy, DestroyNative, Ceph!Free
  <2>5. QED
    BY <2>4 DEF Ceph!Next
<1>41. ASSUME NEW t \in Thread, Unlink(t) PROVE [Ceph!Next]_(Ceph!vars)
  BY <1>41 DEF Unlink, At, Goto, RemoveChild, Registered, Ceph!vars
<1>42. ASSUME NEW t \in Thread, Unlock(t) PROVE [Ceph!Next]_(Ceph!vars)
  BY <1>42 DEF Unlock, At, Finish, EndClose, Registered, Ceph!vars
<1>43. CASE UNCHANGED vars
  BY <1>43 DEF vars, handleVars, treeVars, Registered, Ceph!vars
<1>44. QED
  BY <1>1, <1>2, <1>3, <1>4, <1>5, <1>6, <1>7, <1>8, <1>9, <1>10, <1>11,
     <1>12, <1>13, <1>14, <1>15, <1>16, <1>17, <1>18, <1>19, <1>20, <1>21,
     <1>22, <1>23, <1>24, <1>25, <1>26, <1>27, <1>28, <1>29, <1>30, <1>31,
     <1>32, <1>33, <1>34, <1>35, <1>36, <1>37, <1>38, <1>39, <1>40, <1>41,
     <1>42, <1>43 DEF Next, Call, Collect, Step

-----------------------------------------------------------------------------
\* Every state of every behaviour is in the first invariant,
THEOREM TreeInvariant == Spec => []TreeInv
<1>1. Init => TreeInv
  BY InitCareInv DEF CareInv
<1>2. QED
  BY <1>1, NextTreeInv, PTL DEF Spec

\* and in the second if the client is careful.
THEOREM CareInvariant == ASSUME Lapses = {} PROVE Spec => []CareInv
  BY InitCareInv, NextCareInv, PTL DEF Spec

\* common.h:35-48 for any number of handles, subscriptions and threads, and with
\* the two lapses of the client: no native call outlives the object it is made on,
\* and no object is destroyed under a call, or twice.
THEOREM NeverUsedAfterDestroy == Spec => []NoUseAfterDestroy
<1>1. TreeInv => NoUseAfterDestroy
  <2> SUFFICES ASSUME TreeInv PROVE NoUseAfterDestroy
    OBVIOUS
  <2>1. TypeOK /\ Locks /\ Places /\ Live /\ Closes
    BY DEF TreeInv, IInv
  <2>2. \A h \in Handle : readers[h] # {} => native[h] = "live" /\ writer[h] = Nobody
    BY <2>1 DEF Live, Locks
  <2>3. \A t \in Thread : pc[t] = "destroy" => native[on[t]] = "live" /\ writer[on[t]] = t
    BY <2>1 DEF Closes, Locks, Destroying
  <2>4. QED
    BY <2>2, <2>3 DEF NoUseAfterDestroy
<1>2. QED
  BY <1>1, TreeInvariant, PTL

\* common.h:55-56: whatever the client neglects, children_ is the number of children
\* and subscriptions that will give their count back or never can.
THEOREM CountsAreExact == Spec => []ChildCountExact
<1>1. TreeInv => ChildCountExact
  BY DEF TreeInv
<1>2. QED
  BY <1>1, TreeInvariant, PTL

\* common.h:29, index.ts:12: whatever the client neglects and the collector's order,
\* nothing stays open in Ceph when every object has been freed.
THEOREM NothingIsLeaked == Spec => []NothingLeaks
  BY FreedIsClosed, TreeInvariant, PTL

\* common.h:57-60: a handle outlives its children and its registrations, if the client
\* closes nothing that it opens on and keeps the contexts of its pools.
THEOREM ParentsOutliveChildren == ASSUME Lapses = {} PROVE Spec => []ParentOutlivesChild
  BY ParentsLive, CareInvariant, PTL

\* events.cpp:26-34: for such a client, closing a subscription never throws.
THEOREM TeardownIsQuiet == ASSUME Lapses = {} PROVE Spec => []TeardownNeverThrows
<1>1. CareInv => TeardownNeverThrows
  BY DEF CareInv, NoThrow, TeardownNeverThrows
<1>2. QED
  BY <1>1, CareInvariant, PTL

\* The addon implements Lifecycle, whatever the client neglects: it never calls Ceph on
\* an object that does not live, nor frees one under a call or twice; and a client that
\* neglects nothing has none freed with something left on it.
THEOREM ImplementsLifecycle == Spec => KeepsCephRules
<1>1. Init => Ceph!Init
  BY DEF Init, HandleInit, Ceph!Init, Registered
<1>2. CASE Lapses = {}
  <2>1. CareInv /\ [Next]_vars => [Ceph!Next]_(Ceph!vars)
    BY CephStep DEF CareInv
  <2>2. Spec => []CareInv
    BY <1>2, CareInvariant
  <2>3. QED
    BY <1>1, <2>1, <2>2, PTL DEF Spec, KeepsCephRules, Ceph!Spec
<1>3. CASE Lapses # {}
  <2>1. TreeInv /\ [Next]_vars => [Ceph!Next]_(Ceph!vars)
    BY <1>3, CephStep
  <2>2. QED
    BY <1>1, <2>1, TreeInvariant, PTL DEF Spec, KeepsCephRules, Ceph!Spec
<1>4. QED
  BY <1>2, <1>3

-----------------------------------------------------------------------------
(* What an exception leaves behind.                                         *)

\* A subscription whose count is never given back was made, or closed, on a handle that
\* was closed before, or it watched an object and the cluster was: the flush goes there.
StrandedUnderClosed ==
  \A s \in Sub : sub[s] = "stranded" =>
    closed[Source[s]] \/ (Source[s] \in Io /\ closed[Parent[Source[s]]])

\* No step reopens a handle, and only a refused use() strands a subscription.
LEMMA StrandedStep ==
  ASSUME IInv, Made, Subs, StrandedUnderClosed, [Next]_vars  PROVE  StrandedUnderClosed'
<1> USE TreeAssumption, NobodyAssumption
    DEF IInv, TypeOK, TreeTypeOK, HandleTypeOK, StrandedUnderClosed, Worker
<1>1. ASSUME NEW c \in Cluster, NEW w \in Worker, Connect(w, c) PROVE StrandedUnderClosed'
  BY <1>1 DEF Connect, Start, CreateNative
<1>2. ASSUME NEW c \in Cluster, Connected(c) PROVE StrandedUnderClosed'
  BY <1>2 DEF Connected, handleVars
<1>3. ASSUME NEW c \in Cluster, NEW w \in Worker, ConnectFailed(w, c) PROVE StrandedUnderClosed'
  BY <1>3 DEF ConnectFailed, Start, handleVars
<1>4. ASSUME NEW c \in Cluster, NEW t \in Thread, UseCluster(t, c) PROVE StrandedUnderClosed'
  BY <1>4 DEF UseCluster, Use, Start, Reachable, handleVars
<1>5. ASSUME NEW i \in Io, NEW t \in Thread, UseIoContext(t, i) PROVE StrandedUnderClosed'
  BY <1>5 DEF UseIoContext, Use, Start, Reachable, handleVars
<1>6. ASSUME NEW i \in Io, NEW w \in Worker, UsePool(w, i) PROVE StrandedUnderClosed'
  BY <1>6 DEF UsePool, Use, Start, handleVars
<1>7. ASSUME NEW k \in Image, NEW w \in Worker, UseImage(w, k) PROVE StrandedUnderClosed'
  BY <1>7 DEF UseImage, Use, Start, Reachable, handleVars
<1>8. ASSUME NEW k \in Image, NEW w \in Worker, OpenImage(w, k) PROVE StrandedUnderClosed'
  BY <1>8 DEF OpenImage, Start, handleVars
<1>9. ASSUME NEW i \in Io, OpenIoContext(i) PROVE StrandedUnderClosed'
  BY <1>9 DEF OpenIoContext, Start, Reachable, handleVars
<1>10. ASSUME NEW i \in Io, Rbd(i) PROVE StrandedUnderClosed'
  BY <1>10 DEF Rbd, Reachable, handleVars
<1>11. ASSUME NEW h \in Handle, NEW w \in Worker, Close(w, h) PROVE StrandedUnderClosed'
  BY <1>11 DEF Close, Start, Reachable, handleVars
<1>12. ASSUME NEW s \in Sub, Subscribe(s) PROVE StrandedUnderClosed'
  BY <1>12 DEF Subscribe, Start, AddChild, Reachable
<1>13. ASSUME NEW s \in Sub, NEW w \in Worker, Unsubscribe(w, s) PROVE StrandedUnderClosed'
  BY <1>13 DEF Unsubscribe, Start, handleVars
<1>14. ASSUME NEW s \in Sub, NEW w \in Worker, Ack(w, s) PROVE StrandedUnderClosed'
  BY <1>14 DEF Ack, Use, Start, handleVars
<1>15. ASSUME NEW i \in Io, DropPool(i) PROVE StrandedUnderClosed'
  BY <1>15 DEF DropPool, handleVars
<1>16. ASSUME NEW h \in Handle, Drop(h) PROVE StrandedUnderClosed'
  BY <1>16 DEF Drop, Reachable, handleVars
<1>17. ASSUME NEW h \in Handle, Destruct(h) PROVE StrandedUnderClosed'
  BY <1>17 DEF Destruct, Start, handleVars
<1>18. ASSUME NEW h \in Handle, NEW w \in Worker, Finalize(w, h) PROVE StrandedUnderClosed'
  BY <1>18 DEF Finalize, Start, handleVars
<1>19. ASSUME NEW s \in Sub, DropWatcher(s) PROVE StrandedUnderClosed'
  BY <1>19 DEF DropWatcher, handleVars
<1>20. ASSUME Exit PROVE StrandedUnderClosed'
  BY <1>20 DEF Exit, handleVars
<1>21. ASSUME NEW t \in Thread, Enter(t) PROVE StrandedUnderClosed'
  BY <1>21, WaitingSteps DEF Enter, Goto, BeginUse
<1>22. ASSUME NEW t \in Thread, Refuse(t) PROVE StrandedUnderClosed'
  <2>1. ASSUME NEW s \in Sub, s = kid[t]
        PROVE  closed[Source[s]] \/ (Source[s] \in Io /\ closed[Parent[Source[s]]])
    <3>1. closed[on[t]] /\ pc[t] \in {"open", "register", "unregister", "flush"}
      BY <1>22, <2>1, WaitingSteps DEF Refuse, RefuseUse, Made
    <3>2. pc[t] # "open"
      BY <2>1 DEF Places, OpenSteps
    <3>3. QED
      BY <2>1, <3>1, <3>2 DEF Places, SubSteps
  <2>2. \A s \in Sub : sub'[s] = "stranded" => sub[s] = "stranded" \/ s = kid[t]
    BY <1>22 DEF Refuse
  <2>3. UNCHANGED closed
    BY <1>22 DEF Refuse, RefuseUse, handleVars
  <2>4. QED
    BY <2>1, <2>2, <2>3
<1>23. ASSUME NEW t \in Thread, UseAgain(t) PROVE StrandedUnderClosed'
  BY <1>23, WaitingSteps DEF UseAgain, At, Goto, EndUse
<1>24. ASSUME NEW t \in Thread, Leave(t) PROVE StrandedUnderClosed'
  BY <1>24 DEF Leave, Finish, EndUse
<1>25. ASSUME NEW t \in Thread, OpenNative(t) PROVE StrandedUnderClosed'
  BY <1>25 DEF OpenNative, At, Goto, CreateNative
<1>26. ASSUME NEW t \in Thread, OpenFails(t) PROVE StrandedUnderClosed'
  BY <1>26 DEF OpenFails, At, Goto, handleVars
<1>27. ASSUME NEW t \in Thread, LeaveOpen(t) PROVE StrandedUnderClosed'
  BY <1>27 DEF LeaveOpen, At, Goto, EndUse
<1>28. ASSUME NEW t \in Thread, Link(t) PROVE StrandedUnderClosed'
  BY <1>28 DEF Link, AddChild
<1>29. ASSUME NEW t \in Thread, Settle(t) PROVE StrandedUnderClosed'
  BY <1>29 DEF Settle, At, Finish, handleVars
<1>30. ASSUME NEW t \in Thread, Register(t) PROVE StrandedUnderClosed'
  BY <1>30 DEF Register, At, Goto, handleVars
<1>31. ASSUME NEW t \in Thread, RegisterFails(t) PROVE StrandedUnderClosed'
  BY <1>31 DEF RegisterFails, At, Goto, handleVars
<1>32. ASSUME NEW t \in Thread, LeaveRefused(t) PROVE StrandedUnderClosed'
  BY <1>32 DEF LeaveRefused, At, Goto, EndUse
<1>33. ASSUME NEW t \in Thread, Exchange(t) PROVE StrandedUnderClosed'
  <2>1. CASE sub[kid[t]] = "live"
    BY <1>33, <2>1, WaitingSteps DEF Exchange, At, Goto, handleVars
  <2>2. CASE sub[kid[t]] # "live"
    BY <1>33, <2>2 DEF Exchange, At, Finish, handleVars
  <2>3. QED
    BY <2>1, <2>2
<1>34. ASSUME NEW t \in Thread, Unregister(t) PROVE StrandedUnderClosed'
  BY <1>34 DEF Unregister, At, Goto, handleVars
<1>35. ASSUME NEW t \in Thread, LeaveUnregister(t) PROVE StrandedUnderClosed'
  <2>1. CASE on[t] \in Io
    BY <1>35, <2>1, WaitingSteps DEF LeaveUnregister, At, EndUse
  <2>2. CASE on[t] \notin Io
    BY <1>35, <2>2 DEF LeaveUnregister, At, Goto, EndUse
  <2>3. QED
    BY <2>1, <2>2
<1>36. ASSUME NEW t \in Thread, LeaveFlush(t) PROVE StrandedUnderClosed'
  BY <1>36 DEF LeaveFlush, At, EndUse
<1>37. ASSUME NEW t \in Thread, Release(t) PROVE StrandedUnderClosed'
  BY <1>37 DEF Release, At, Finish, RemoveChild
<1>38. ASSUME NEW t \in Thread, CheckChildren(t) PROVE StrandedUnderClosed'
  BY <1>38 DEF CheckChildren, At, Goto, Finish, handleVars
<1>39. ASSUME NEW t \in Thread, Claim(t) PROVE StrandedUnderClosed'
  <2>1. CASE BeginClose(t, on[t]) /\ Goto(t, "destroy")
    BY <1>39, <2>1 DEF Claim, At, Goto, BeginClose
  <2>2. CASE CloseAgain(on[t]) /\ Finish(t)
    BY <1>39, <2>2 DEF Claim, At, Finish, CloseAgain, handleVars
  <2>3. QED
    BY <1>39, <2>1, <2>2 DEF Claim
<1>40. ASSUME NEW t \in Thread, Destroy(t) PROVE StrandedUnderClosed'
  BY <1>40 DEF Destroy, At, Goto, DestroyNative
<1>41. ASSUME NEW t \in Thread, Unlink(t) PROVE StrandedUnderClosed'
  BY <1>41 DEF Unlink, At, Goto, RemoveChild
<1>42. ASSUME NEW t \in Thread, Unlock(t) PROVE StrandedUnderClosed'
  BY <1>42 DEF Unlock, At, Finish, EndClose
<1>43. CASE UNCHANGED vars
  BY <1>43 DEF vars, handleVars, treeVars
<1>44. QED
  BY <1>1, <1>2, <1>3, <1>4, <1>5, <1>6, <1>7, <1>8, <1>9, <1>10, <1>11,
     <1>12, <1>13, <1>14, <1>15, <1>16, <1>17, <1>18, <1>19, <1>20, <1>21,
     <1>22, <1>23, <1>24, <1>25, <1>26, <1>27, <1>28, <1>29, <1>30, <1>31,
     <1>32, <1>33, <1>34, <1>35, <1>36, <1>37, <1>38, <1>39, <1>40, <1>41,
     <1>42, <1>43 DEF Next, Call, Collect, Step

\* events.cpp:26-34, 104: whatever the client neglects, use() throws out of making or
\* closing a subscription, and leaves it counted for ever, only when its handle was closed
\* before or, for an object watch, the cluster was.
THEOREM StrandsOnlyUnderClosed == Spec => []StrandedUnderClosed
<1>1. Init => StrandedUnderClosed
  BY DEF Init, StrandedUnderClosed
<1>2. TreeInv /\ StrandedUnderClosed /\ [Next]_vars => StrandedUnderClosed'
  BY StrandedStep DEF TreeInv
<1>3. QED
  BY <1>1, <1>2, TreeInvariant, PTL DEF Spec

-----------------------------------------------------------------------------
(* Why operations end.  No thread is in a circle of waiting threads, no step *)
(* takes an operation back, and none is taken back by a step of another.     *)

\* OnOK runs on the JS thread, for a worker: the JS thread never waits for itself.
SettlesOnWorkers == pc[JS] # "settle"

\* The most steps that an operation still takes.
StepsLeft ==
  [idle |-> 0, aborted |-> 0,
   reusing |-> 1, again |-> 2, using |-> 3, use |-> 4,
   settle |-> 1, link |-> 2, created |-> 3, opening |-> 4, open |-> 5,
   release |-> 1, refused |-> 2, registering |-> 4, register |-> 5,
   flushing |-> 2, flush |-> 3, unregistered |-> 4, unregistering |-> 5,
   unregister |-> 6, exchange |-> 7,
   unlock |-> 1, unlink |-> 2, destroy |-> 3, claim |-> 4, close |-> 5]

\* A step brings its operation nearer to its end, and only its own steps move it.
OperationsAdvance ==
  [][\A t \in Thread :
       /\ Step(t) => StepsLeft[pc'[t]] < StepsLeft[pc[t]]
       /\ pc[t] # "idle" /\ pc'[t] # pc[t] => Step(t)]_vars

\* StepsLeft, step by step.
LEMMA StepsLeftValues ==
  /\ StepsLeft["idle"] = 0 /\ StepsLeft["aborted"] = 0
  /\ StepsLeft["reusing"] = 1 /\ StepsLeft["again"] = 2
  /\ StepsLeft["using"] = 3 /\ StepsLeft["use"] = 4
  /\ StepsLeft["settle"] = 1 /\ StepsLeft["link"] = 2 /\ StepsLeft["created"] = 3
  /\ StepsLeft["opening"] = 4 /\ StepsLeft["open"] = 5
  /\ StepsLeft["release"] = 1 /\ StepsLeft["refused"] = 2
  /\ StepsLeft["registering"] = 4 /\ StepsLeft["register"] = 5
  /\ StepsLeft["flushing"] = 2 /\ StepsLeft["flush"] = 3
  /\ StepsLeft["unregistered"] = 4 /\ StepsLeft["unregistering"] = 5
  /\ StepsLeft["unregister"] = 6 /\ StepsLeft["exchange"] = 7
  /\ StepsLeft["unlock"] = 1 /\ StepsLeft["unlink"] = 2 /\ StepsLeft["destroy"] = 3
  /\ StepsLeft["claim"] = 4 /\ StepsLeft["close"] = 5
  BY DEF StepsLeft

\* A step of a thread moves that thread alone, forward, and the JS thread never to
\* the wait for its own OnOK.
LEMMA StepAdvances ==
  ASSUME TypeOK, NEW t \in Thread, Step(t)
  PROVE  /\ \A u \in Thread \ {t} : pc'[u] = pc[u]
         /\ StepsLeft[pc'[t]] < StepsLeft[pc[t]]
         /\ t = JS => pc'[t] # "settle"
<1> DEFINE Goal == /\ \A u \in Thread \ {t} : pc'[u] = pc[u]
                   /\ StepsLeft[pc'[t]] < StepsLeft[pc[t]]
                   /\ t = JS => pc'[t] # "settle"
<1> USE StepsLeftValues DEF TypeOK, TreeTypeOK
<1>1. CASE Enter(t)
  BY <1>1, WaitingSteps DEF Enter, Goto
<1>2. CASE Refuse(t)
  BY <1>2, WaitingSteps DEF Refuse, Goto, Finish
<1>3. CASE UseAgain(t)
  BY <1>3 DEF UseAgain, At, Goto
<1>4. CASE Leave(t)
  BY <1>4 DEF Leave, Finish
<1>5. CASE OpenNative(t)
  BY <1>5 DEF OpenNative, At, Goto
<1>6. CASE OpenFails(t)
  BY <1>6 DEF OpenFails, At, Goto
<1>7. CASE LeaveOpen(t)
  BY <1>7 DEF LeaveOpen, At, Goto
<1>8. CASE Link(t)
  BY <1>8 DEF Link, At, Goto, Finish
<1>9. CASE Settle(t)
  BY <1>9 DEF Settle, At, Finish
<1>10. CASE Register(t)
  BY <1>10 DEF Register, At, Goto
<1>11. CASE RegisterFails(t)
  BY <1>11 DEF RegisterFails, At, Goto
<1>12. CASE LeaveRefused(t)
  BY <1>12 DEF LeaveRefused, At, Goto
<1>13. CASE Exchange(t)
  BY <1>13 DEF Exchange, At, Goto, Finish
<1>14. CASE Unregister(t)
  BY <1>14 DEF Unregister, At, Goto
<1>15. CASE LeaveUnregister(t)
  BY <1>15 DEF LeaveUnregister, At, Goto
<1>16. CASE LeaveFlush(t)
  BY <1>16 DEF LeaveFlush, At
<1>17. CASE Release(t)
  BY <1>17 DEF Release, At, Finish
<1>18. CASE CheckChildren(t)
  BY <1>18 DEF CheckChildren, At, Goto, Finish
<1>19. CASE Claim(t)
  BY <1>19 DEF Claim, At, Goto, Finish
<1>20. CASE Destroy(t)
  BY <1>20 DEF Destroy, At, Goto
<1>21. CASE Unlink(t)
  BY <1>21 DEF Unlink, At, Goto
<1>22. CASE Unlock(t)
  BY <1>22 DEF Unlock, At, Finish
<1>23. QED
  BY <1>1, <1>2, <1>3, <1>4, <1>5, <1>6, <1>7, <1>8, <1>9, <1>10, <1>11,
     <1>12, <1>13, <1>14, <1>15, <1>16, <1>17, <1>18, <1>19, <1>20, <1>21,
     <1>22 DEF Step

\* No step of any kind sends the JS thread to wait for itself.
LEMMA SettlesStep ==
  ASSUME IInv, SettlesOnWorkers, [Next]_vars  PROVE  SettlesOnWorkers'
<1> USE TreeAssumption DEF IInv, TypeOK, TreeTypeOK, SettlesOnWorkers
<1>1. CASE Call \/ Collect
  <2>1. CASE UNCHANGED <<pc, on, kid>>
    BY <2>1
  <2>2. CASE ~UNCHANGED <<pc, on, kid>>
    <3>1. PICK t \in Thread, step \in PC, h \in Handle, k \in Handle \cup Sub \cup {Nobody} :
            Begins(t, step, h, k)
      BY <1>1, <2>2, CallMoves
    <3>2. QED
      BY <3>1 DEF Begins, Start
  <2>3. QED
    BY <2>1, <2>2
<1>2. ASSUME NEW t \in Thread, Step(t) PROVE SettlesOnWorkers'
  BY <1>2, StepAdvances
<1>3. CASE UNCHANGED vars
  BY <1>3 DEF vars, treeVars
<1>4. QED
  BY <1>1, <1>2, <1>3 DEF Next

\* A thread that is waited for is at work; it waits for nobody, unless it is the JS
\* thread, which waits for nobody who waits.
LEMMA WaitsAreShort ==
  ASSUME IInv, SettlesOnWorkers  PROVE  NoDeadlock
<1> SUFFICES ASSUME NEW t \in Thread, NEW u \in Thread, u \in WaitsFor(t)
             PROVE  /\ pc[u] # "idle"
                    /\ \/ WaitsFor(u) = {}
                       \/ pc[t] = "settle" /\ \A v \in WaitsFor(u) : WaitsFor(v) = {}
  BY DEF NoDeadlock
<1> USE TreeAssumption, NobodyAssumption DEF IInv, TypeOK, TreeTypeOK, HandleTypeOK
<1>1. ASSUME NEW v \in Thread, pc[v] \in Holding \cup Destroying PROVE WaitsFor(v) = {}
  BY <1>1, WaitingSteps DEF WaitsFor, Holding, Destroying
<1>2. ASSUME NEW v \in Thread, pc[v] # "settle", NEW w \in WaitsFor(v)
      PROVE  pc[w] \in Holding \cup Destroying
  <2>1. on[v] \in Handle
    BY <1>2, WaitingSteps DEF WaitsFor, Places
  <2>2. writer[on[v]] = w \/ w \in readers[on[v]]
    BY <1>2 DEF WaitsFor
  <2>3. w \in Thread
    BY <1>2 DEF WaitsFor
  <2>4. QED
    BY <2>1, <2>2, <2>3 DEF Locks
<1>3. CASE pc[t] # "settle"
  <2>1. pc[u] \in Holding \cup Destroying
    BY <1>2, <1>3
  <2>2. QED
    BY <1>1, <2>1 DEF Holding, Destroying
<1>4. CASE pc[t] = "settle"
  <2>1. u = JS /\ pc[u] # "idle"
    BY <1>4, WaitingSteps DEF WaitsFor
  <2>2. pc[u] # "settle"
    BY <2>1 DEF SettlesOnWorkers
  <2>3. ASSUME NEW v \in WaitsFor(u) PROVE WaitsFor(v) = {}
    <3>1. v \in Thread /\ pc[v] \in Holding \cup Destroying
      BY <1>2, <2>2, <2>3 DEF WaitsFor
    <3>2. QED
      BY <1>1, <3>1
  <2>4. QED
    BY <1>4, <2>1, <2>3
<1>5. QED
  BY <1>3, <1>4

\* The guards of the steps of a thread, one disjunct for the steps of one guard.
CanStep(t) ==
  \/ pc[t] \in Waiting /\ writer[on[t]] = Nobody
  \/ pc[t] = "claim" /\ writer[on[t]] = Nobody /\ readers[on[t]] = {}
  \/ pc[t] = "settle" /\ pc[JS] = "idle"
  \/ pc[t] \in Holding \cup Destroying \cup {"link", "exchange", "release", "close"}

\* A thread at work waits for somebody or can take its next step.
WaitsOrSteps ==
  \A t \in Thread : pc[t] \notin {"idle", "aborted"} => (WaitsFor(t) = {} <=> CanStep(t))

LEMMA NobodyToWaitFor ==
  ASSUME IInv  PROVE  WaitsOrSteps
<1> SUFFICES ASSUME NEW t \in Thread, pc[t] \notin {"idle", "aborted"}
             PROVE  WaitsFor(t) = {} <=> CanStep(t)
  BY DEF WaitsOrSteps
<1> USE TreeAssumption, NobodyAssumption, WaitingSteps
    DEF IInv, TypeOK, TreeTypeOK, HandleTypeOK
<1>1. /\ on[t] \in Handle /\ readers[on[t]] \subseteq Thread
      /\ writer[on[t]] \in Thread \cup {Nobody}
  BY DEF Places
<1>2. CASE pc[t] \in Waiting
  BY <1>1, <1>2 DEF WaitsFor, CanStep, Holding, Destroying
<1>3. CASE pc[t] = "claim"
  BY <1>1, <1>3 DEF WaitsFor, CanStep, Holding, Destroying
<1>4. CASE pc[t] = "settle"
  BY <1>4 DEF WaitsFor, CanStep, Holding, Destroying
<1>5. CASE pc[t] \in Holding \cup Destroying \cup {"link", "exchange", "release", "close"}
  BY <1>5 DEF WaitsFor, CanStep, Holding, Destroying
<1>6. QED
  BY <1>2, <1>3, <1>4, <1>5 DEF PC

\* Unless the process has ended, one of the threads at work waits for nobody.
SomeoneIsFree ==
  pc[JS] # "aborted" /\ (\E t \in Thread : pc[t] \notin {"idle", "aborted"})
  => \E t \in Thread : pc[t] \notin {"idle", "aborted"} /\ WaitsFor(t) = {}

LEMMA TheOneWaitedForIsFree ==
  ASSUME IInv, NoDeadlock  PROVE  SomeoneIsFree
<1> SUFFICES ASSUME pc[JS] # "aborted", NEW t \in Thread, pc[t] \notin {"idle", "aborted"}
             PROVE  \E u \in Thread : pc[u] \notin {"idle", "aborted"} /\ WaitsFor(u) = {}
  BY DEF SomeoneIsFree
<1> USE DEF IInv, TypeOK, TreeTypeOK, HandleTypeOK
<1>1. ASSUME NEW v \in Thread, pc[v] \notin {"idle", "aborted"}, NEW w \in WaitsFor(v)
      PROVE  w \in Thread /\ pc[w] \notin {"idle", "aborted"}
  <2>1. w \in Thread /\ pc[w] # "idle" /\ on[v] \in Handle
    BY <1>1 DEF NoDeadlock, WaitsFor, Places
  <2>2. writer[on[v]] = w \/ w \in readers[on[v]] \/ w = JS
    BY <1>1 DEF WaitsFor
  <2>3. writer[on[v]] = w => pc[w] \in Destroying
    BY <2>1, NobodyAssumption DEF Locks
  <2>4. w \in readers[on[v]] => pc[w] \in Holding
    BY <2>1 DEF Locks
  <2>5. QED
    BY <2>1, <2>2, <2>3, <2>4 DEF Holding, Destroying
<1>2. CASE WaitsFor(t) = {}
  BY <1>2
<1>3. CASE WaitsFor(t) # {}
  <2>1. PICK u \in WaitsFor(t) : TRUE
    BY <1>3
  <2>2. u \in Thread /\ pc[u] \notin {"idle", "aborted"}
    BY <1>1, <2>1
  <2>3. CASE WaitsFor(u) = {}
    BY <2>2, <2>3
  <2>4. CASE WaitsFor(u) # {}
    <3>1. PICK v \in WaitsFor(u) : TRUE
      BY <2>4
    <3>2. v \in Thread /\ pc[v] \notin {"idle", "aborted"}
      BY <1>1, <2>2, <3>1
    <3>3. WaitsFor(v) = {}
      BY <2>1, <2>2, <2>4, <3>1 DEF NoDeadlock
    <3>4. QED
      BY <3>2, <3>3
  <2>5. QED
    BY <2>3, <2>4
<1>4. QED
  BY <1>2, <1>3

\* common.h:36, 42: no threads wait for one another in a circle, for any tree, any
\* number of threads and any lapses.
THEOREM NobodyWaitsInCircles == Spec => []NoDeadlock
<1>1. Init => IInv /\ SettlesOnWorkers
  BY InitIInv, TreeAssumption DEF Init, SettlesOnWorkers
<1>2. IInv /\ SettlesOnWorkers /\ [Next]_vars => (IInv /\ SettlesOnWorkers)'
  BY NextIInv, SettlesStep
<1>3. IInv /\ SettlesOnWorkers => NoDeadlock
  BY WaitsAreShort
<1>4. QED
  BY <1>1, <1>2, <1>3, PTL DEF Spec

\* common.h:36, 42: nothing but the waits that NoDeadlock is about keeps an operation from
\* its next step, be its handle open, closed or never to be closed.  That the step
\* of such a guard is ENABLED, TLC shows (FreeToStep).
THEOREM NothingElseIsWaitedFor == Spec => []WaitsOrSteps
  BY NobodyToWaitFor, Invariant, PTL

\* While any operation is underway and the process has not ended, one can take a step.
THEOREM SomeoneCanGoOn ==
  Spec => [](pc[JS] # "aborted" /\ (\E t \in Thread : pc[t] \notin {"idle", "aborted"})
             => \E t \in Thread : CanStep(t))
<1>1. IInv /\ NoDeadlock => SomeoneIsFree
  BY TheOneWaitedForIsFree
<1>2. SomeoneIsFree /\ WaitsOrSteps
      => (pc[JS] # "aborted" /\ (\E t \in Thread : pc[t] \notin {"idle", "aborted"})
          => \E t \in Thread : CanStep(t))
  BY DEF SomeoneIsFree, WaitsOrSteps
<1>3. QED
  BY <1>1, <1>2, Invariant, NobodyWaitsInCircles, NothingElseIsWaitedFor, PTL

\* Every step of an operation leaves it fewer steps to take, and nothing else does:
\* no retry, failed close or exception starts an operation again.
THEOREM OperationsOnlyAdvance == Spec => OperationsAdvance
<1>1. ASSUME IInv, [Next]_vars, NEW t \in Thread
      PROVE  /\ Step(t) => StepsLeft[pc'[t]] < StepsLeft[pc[t]]
             /\ pc[t] # "idle" /\ pc'[t] # pc[t] => Step(t)
  <2>1. TypeOK /\ Exists
    BY <1>1 DEF IInv
  <2>2. Step(t) => StepsLeft[pc'[t]] < StepsLeft[pc[t]]
    BY <2>1, StepAdvances
  <2>3. ASSUME pc[t] # "idle", Call \/ Collect PROVE pc'[t] = pc[t]
    <3>1. CASE UNCHANGED <<pc, on, kid>>
      BY <3>1
    <3>2. CASE ~UNCHANGED <<pc, on, kid>>
      <4>1. PICK u \in Thread, step \in PC, h \in Handle,
                 k \in Handle \cup Sub \cup {Nobody} : Begins(u, step, h, k)
        BY <2>1, <2>3, <3>2, CallMoves
      <4>2. QED
        BY <2>1, <2>3, <4>1 DEF Begins, Start, TypeOK, TreeTypeOK
    <3>3. QED
      BY <3>1, <3>2
  <2>4. ASSUME NEW u \in Thread, Step(u), u # t PROVE pc'[t] = pc[t]
    BY <2>1, <2>4, StepAdvances
  <2>5. CASE UNCHANGED vars
    BY <2>2, <2>5 DEF vars, treeVars
  <2>6. QED
    BY <1>1, <2>2, <2>3, <2>4, <2>5 DEF Next
<1>2. IInv /\ [Next]_vars =>
        [\A t \in Thread :
           /\ Step(t) => StepsLeft[pc'[t]] < StepsLeft[pc[t]]
           /\ pc[t] # "idle" /\ pc'[t] # pc[t] => Step(t)]_vars
  BY <1>1
<1>3. QED
  BY <1>2, Invariant, PTL DEF Spec, OperationsAdvance
=============================================================================
