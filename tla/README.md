# node-librados in TLA+

This directory specifies the addon of `src/` in TLA+, model-checks it with TLC and proves nearly all of its safety with
TLAPS. The addon binds librados and librbd to Node.js: C++ wrappers (`src/src`) on native handles, and TypeScript
classes (`src/src-ts`) on the wrappers. Almost everything it does is one native call on a worker of the libuv pool;
what is hard, and what this project is about, is when the handle under such a call may be closed and by whom, what
becomes of the events that Ceph's threads bring, and which jobs and calls wait for one another.

## Inventory

| Component | State | Operations | Modelled in |
| --- | --- | --- | --- |
| `HandleState` (`common.h`) | `mutex_`, `handle_`, `closed_`, `children_` | `use`, `close_now`, `close_checked`, `add_child`, `remove_child`, the destructor | `HandleState` |
| Cluster, I/O context, RBD pool and image wrappers (`cluster.cpp`, `io_context.cpp`, `rbd.cpp`) | a `shared_ptr` to the handle's state, and to its parent's inside the close closure | connect, open, some ninety operations that `use` a handle, close | `ResourceTree` |
| TypeScript objects and `FinalizationRegistry` (`index.ts:12-174`) | the native object, a finalizer token | construct, `close`, collection | `ResourceTree` |
| Subscriptions (`events.cpp`): object watch, monitor log, image updates | `Data`: source, `closed`, a counter, a thread-safe function | `Create`, `close`, the destructor | `ResourceTree` (what they do to their handle) |
| Object watch, native and `EventEmitter` (`events.cpp:9-155`, `index.ts:188-213`) | `dropped`, the queue, `#closed`, `acknowledged` | two Ceph callbacks, dispatch, `ack`, close | `ObjectWatch` |
| Monitor log, image updates (`events.cpp:161-345`, `index.ts:176-186, 215-221`) | a counter, the queue, `#closed`; the cluster's one log slot | a Ceph callback, dispatch, `Create`, close | `EventFeed` |
| Workers and promises (`common.h:83-149`) | a job, its promise | queue, execute, settle | `AsyncPool`; as threads in `ResourceTree` |
| Context settings (`io_context.cpp:98-107`) | inside the native context | three synchronous setters | `IoSettings` |
| Sized fetches (`cluster.cpp:108-116, 142-208`, `io_context.cpp:146-149`, `rbd.cpp`) | a buffer, a size | ask, allocate, read, retry | `SizedFetch` |
| Arguments (`addon.cpp:34-70` and the methods) | none | `uint64_arg`, `int64_arg`, the cuts to a narrower type | `Arguments` |
| Confirmations, errors, versions, capabilities, types, binding loader, scripts, CI | none | – | not modelled |

How they interact. JavaScript calls run on the JS thread. A synchronous call takes a shared lock there; an
asynchronous one becomes a job, which holds the `shared_ptr`s it needs and takes the lock on a worker. Ceph threads
call back into `Data` and feed the bounded queue of a thread-safe function, which the event loop empties. The garbage
collector drops TypeScript objects, whose finalizers start closes, and native objects, whose destructors close at once.
Each handle counts its children in `children_`, which `close_checked` reads before it closes.

What is hard: these actors meet on one handle in orders nobody can test; a close is a check, a lock and a call
apart; `use` throws in places that are half done; collection happens at any time and in any order; losses and
acknowledgements are shared between threads with two atomics; a job can wait for another job of the same pool. What
makes each component correct:

- handle: no native call outlives its object; no operation waits for ever for the mutex;
- tree: children are counted exactly; a parent outlives its children; nothing is leaked; librados and librbd are
  called by their rules; closing a subscription never throws;
- object watch: losses are counted once and kept, notifications are acknowledged once, every notifier gets its answer, a
  close ends and leaves no callback behind;
- monitor log and image updates: an item is told once or still pending; a listener runs after every signal; the open
  log subscription is the one Ceph calls back; no callback is left behind although nothing is flushed;
- workers: every promise settles; a close that has resolved has closed; a notify is not starved of its own acknowledgement;
- settings: an operation never runs under a setting older than its call;
- fetches: the result is one the cluster had, a failure was necessary, and the loop ends;
- arguments: a value is passed as it was given, or refused.

`PROJECT.json` lists the hazards of this code by line, with the properties that cover them.

## Modules

`HandleState` has one operator per atomic step of the class on one handle: lock and test (`BeginUse`, `RefuseUse`),
unlock (`EndUse`), lock exclusively and set `closed_` (`BeginClose`, `CloseAgain`), the native half of the closure
(`DestroyNative`), and the rest. A mutex is the set `readers[h]` and the thread `writer[h]`. Nothing gives a waiting writer
priority: a `std::shared_mutex` promises none.

`ResourceTree` extends it with the threads. `pc[t]` is the next step of thread `t`, `on[t]` the handle its operation
is about, `kid[t]` what it opens or closes there. A call or a collection *starts* an operation; every step between two
locks, atomics or native calls is an action of its own. `wrapper[h]` follows the JS objects of a handle:

| value | meaning |
| --- | --- |
| `absent`, `pending`, `connecting` | none yet; an image whose promise is not settled; a cluster inside `Cluster.connect` |
| `registered`, `unregistered` | reachable; its finalizer registered, or unregistered by a `close()` |
| `finalizing`, `collected`, `freed` | the TypeScript object gone, the finalizer due; the native object unreachable; its destructor run |

`sub[s]` follows `Data`: `counted` (after `add_child`), `live`, `closed` (after the exchange), `off` (unregistered in Ceph), `done`
(released), `stranded` (an exception stopped it half way). The actions of the tree stand for the three classes and
three subscriptions at once: they differ only in their native calls and in that an object watch is flushed through its
cluster (`LeaveUnregister`). `PROJECT.json` maps each action to one of its occurrences in the code.

Facts of Node.js and of the code the collector's actions rest on: an async `close()` keeps `this` in its frame, and
so does `RbdPool.open`; the thread-safe function keeps the JS callback and thus the subscription, so an open
subscription is collected only when the environment ends; jobs, wrappers and `Data` are released on the JS thread,
so `~HandleState` runs there; an `RbdPool` keeps the native context, not the TypeScript `IoContext`.

`Lifecycle` is the abstract specification: what librados and librbd ask of their caller (an object is opened by a call on its
parent, used only while it lives, and freed once, with no call inside it). Its constant `Careful` adds what only a careful client
gets: no child and no registration is left on what is freed. Otherwise a registration may be left in Ceph on a freed object, where
nothing can take it back (`GiveUp`). `ResourceTree` implements it for every client: `KeepsCephRules` is `Lifecycle`'s specification
under the mapping `calls <- readers, registered <- Registered, Careful <- (Lapses = {})`.

`ObjectWatch` is one watch: Ceph threads step through `object_watch_cb` and `object_watch_error_cb`, `queue` is the
thread-safe function, the JS thread dispatches, workers acknowledge, `closing` steps through `Data::close`. `dropped` is
the *set* of the notifications that the code's integer counts, so that a double count would show; `LossAccounting` makes the
two the same. An acknowledgement, a listener's or the callback's own, may fail (`failed`). Assumed of what is not in
`src/`: the queue refuses a call when it holds `queueSize` events; `rados_unwatch2` starts no further callback;
`rados_watch_flush` waits for those in flight.

`EventFeed` is any number of monitor-log and image-update subscriptions at once. The two share their callback, counter,
queue and close step by step, and differ in what Ceph registers: an update watch has its own registration, the logs of a
cluster share one slot, which a registration replaces and any close empties (`SharedWith`). `owed` is `dropped` of a log and
`coalesced` of an update watch, again as a set; `unseen` is a history variable, the signals no listener has run after.
`OneAtATime` says whether the client awaits a close before it subscribes again. Assumed: librados runs a log callback
under the lock that a registration takes, and librbd completes `rbd_update_unwatch` after the callbacks in flight.

`LossyChannel` is the abstract specification of every subscription, whatever its queue, counter and threads do: what it
took stays pending until it is told once, or discarded by a closed one. `EventFeed` implements it (`KeepsEveryItem`), and so
does `ObjectWatch` for the notifications it lost (`KeepsEveryLoss`).

`AsyncPool` has the libuv pool, `QueueAndGetPromise`, `Execute`, `OnOK` and `OnError`, on the jobs that wait for one another:
`notify` of an object the same process watches, the automatic acknowledgement, the close of the watch and that of the context. A
job that may block holds its worker in `running`; `outcome` is what `Execute` leaves to `OnOK` and `OnError`. The context's lock
is implicit: `rados_notify2` holds it, and `StartDestroy`, `EndDestroy` stand for check and destruction. The timeout of a notify
is taken to be longer than anything else the process does (`Stuck`): it strikes when nothing else can move.

`IoSettings` is one context: sets on the JS thread, operations and acknowledgements that are called, run and return.
A setting is the number of the call that made it, `Torn` one that was read while it was written.

`SizedFetch` is one fetch, of one of eight kinds, against replacements of the value and a close between any two native calls;
a size is a number of bytes or entries, and `longest` a history variable. The lists of RBD differ in two points: `images()`
does not read an empty list (`AskNone`), and `snapshots()` decodes as many entries as it made room for (`FitSnaps`), one more
than there are snapshots (`Needed`). `Arguments` is one call of a method with a number; the widths are constants, since
nothing depends on their being 64, 53, 32 and 8 bits.

Modules named `MC…` give TLC its constants, modules named `…Proofs` hold the proofs; `QueueFacts` has the lemmas on
sequences that three of them share. Operators whose comment begins with *Mutant* are variants of the operator below them,
each a plausible bug; no specification uses them. `PROJECT.json` pairs each with a property that must fail when it is put
in the operator's place.

## Runs

| Run | Instance | Shows |
| --- | --- | --- |
| `tree_careful` | cluster, context, image, object watch on the context; JS thread, two workers; no lapses (640,000 states) | types, `ParentOutlivesChild`, `TeardownNeverThrows`, `KeepsCephRules` |
| `tree_lapses` | the same with an update watch on the image; both lapses (1,380,000) | what holds whatever the client does: `NoUseAfterDestroy`, `ChildCountExact`, `NothingLeaks`, `NoDeadlock`, `FreeToStep` |
| `tree_live` | cluster, context, watch; no lapses (120,000) | `OperationsEnd` |
| `tree_orphan` | as `tree_careful`; lapse `"orphan"` | `ParentOutlivesChild` fails |
| `watch` | two notifications, two errors, two Ceph threads, a queue of one, `autoAck`, acknowledgements may fail (48,000) | types, `LossAccounting`, `OneAck`, `ReleasedWhenQuiet`, `AnswerInHand`, `KeepsEveryLoss`, `OverflowAcknowledged`, `NotifierAnswered`, `CloseEnds` |
| `watch_report` | two notifications, one Ceph thread | `NextDeliveredReportsLoss` fails |
| `watch_refused` | two notifications, no `autoAck`, acknowledgements may fail | `RefusedMeansAcknowledged` fails |
| `feeds` | two logs and an update watch, one after the other in any order; three items, two Ceph threads, queues of one (190,000) | types, `CountedOnce`, `ReleasedWhenQuiet`, `UnseenQueued`, `OpenIsHeard`, `KeepsEveryItem`, `SignalSeen`, `CloseEnds` |
| `pool` | two workers, two notifies, two closes of the watch, one of the context (43,000) | `PendingIsAtWork`, `TimesOutOnlyWhenFull`, `ResolvedIsClosed`, `TeardownSucceeds`, `Settles` |
| `settings` | three operations, two sets (16,000) | `WithinCall` |
| `arguments` | every form of literal at every edge; widths 4096, 1024, 16, 8 (1,800) | `ExactOrRefused`, `QueueIsBounded`, `LockLastsAsAsked` |
| `fetch` | all kinds, sizes around the first buffer (2) and the limit (8), three replacements (209,000) | `WholeOrError`, `RefusesOnlyTooLong`, `BufferInProportion`, `FetchEnds` |

`Lapses` says what the client does not take care of. `"overlap"`: it closes a handle while its own open or subscribe on that
handle is outstanding, or the reverse. `"orphan"`: it lets an `IoContext` become garbage while an `RbdPool` made from it is in
use. Without lapses the client is the one the README of the addon describes, and a parent always outlives its children; with
`"orphan"` alone, it does not.

What holds for every client is checked where the client neglects most (`tree_lapses`), whose behaviours include those of the
careful one; `tree_careful` has what only a careful client gets. `KeepsCephRules` is stronger there, and checked there; that it
holds with lapses is proved. `FreeToStep` is about `ENABLED`, which TLC evaluates and TLAPS does not: it says that whoever waits for
nobody can take its step.

### What disagrees with the documentation

Shown by a run:

1. `tree_orphan`. `const image = await cluster.ioContext(p).rbd().open(i)`: nothing keeps the `IoContext`, so its finalizer may
   start a close. The close finds `children_` zero while `rbd_open` is still running, then waits for the lock; `rbd_open` returns and
   lets go of it; the close destroys the context; only then is the image counted and returned. The count is read outside the
   lock (`common.h:58`) and added after it (`rbd.cpp:81`).
2. `watch_report`. README.md:85, "the next delivered event reports the loss": the next *queued* one does. Those already in
   the queue are delivered first, and a loss after which nothing comes is never reported.
3. `watch_refused`. `ack()` marks a notification before the native call (`index.ts:203`): one whose acknowledgement failed answers a
   retry with "Notification was already acknowledged".

Met while modelling, and built into the models as the code has it; the properties are stated of what remains true:

4. A second log subscription silences the first without a word, and the close of the first then silences the second
   (`events.cpp:174`): it empties the slot that the second has taken. README.md:87 only says that one callback can be active.
   `OpenIsHeard` therefore holds for `OneAtATime` clients; with `OneAtATime = FALSE` TLC refutes it in a few steps.
5. As many notifies of a watched object as the pool has threads leave none for the acknowledgements, and all time out
   (`io_context.cpp:180`). `TimesOutOnlyWhenFull` says that nothing less does.
6. A second `close()` of a subscription resolves at once, before the first has unregistered it (`index.ts:211`): a client that
   awaits the second and closes the parent may get EBUSY. `ResolvedIsClosed` and `TeardownSucceeds` are about the close that ran.
7. An acknowledgement made after `setNamespace` or `setLocatorKey` is an operation on the context as it is now, not as it was when
   the object was watched (`events.cpp:59`, `events.cpp:150`). `WithinCall` bounds what it may run under by the sets made
   since the watch.
8. `setReadSnapshot(RadosSnapshot.Head)` throws: the constant is `-2n` (`types.ts:131`), and the argument goes through
   `uint64_arg` (`io_context.cpp:106`), which refuses negative numbers. In `Arguments`, `PassSnapshot` returns nothing for it.
9. An object watch is unregistered on its context and flushed through its cluster (`events.cpp:27-34`). If a client that lets its
   calls overlap has closed the cluster meanwhile, the flush throws, and the watch never gives its count back: the context, still
   open, answers EBUSY to every `close()`. `StrandsOnlyUnderClosed` says that nothing but a closed handle does this, and
   `ChildCountExact`, `NothingLeaks` and `TeardownNeverThrows` accept a subscription that was stranded so.
10. `RbdImage.snapshots()` ends with an entry that is no snapshot, of id 0 and an empty name (`rbd.cpp:157`): `rbd_snap_list` asks
   for one entry more than it fills and returns how many it filled, and the code decodes all it asked for. If snapshots
   were removed between the two calls there are more such entries. The integration test looks at the first entry only
   (`rados-rbd.test.ts:58`). `WholeOrError` says that no snapshot is missing and how many empty entries follow.
11. The list of pools is read with the lock released since its size was asked for. If it grew, it is cut, or decoded past the end
   of its buffer (`cluster.cpp:176-181`). `WholeOrError` says that it is whole otherwise.
12. Modes, formats and flags are cast to 32 bits (`rbd.cpp:109, 149, 169, 184`): a lock mode of `2n ** 32n` is 0, that is exclusive.
   `Arguments` has the casts; nothing in the code says that such values should be refused.

### Bounds

Every handle and subscription is opened at most once, and a tree instance is a chain: one more sibling adds no new
kind of conflict, since handles meet only as parent and child. Two workers and the JS thread are enough for a close, an
open and a destructor, or a close and two calls, to be in flight on one handle together. A sized fetch makes two calls (`UseAgain`);
more repeat the same states.

In `ObjectWatch`, `Note` bounds the notifications and `MaxErrors` the errors: with a queue of one, an error or a notification in
it makes the next overflow while another thread is counting or taking. In `EventFeed`, three items with a queue of one fill it,
overflow it, and take what was counted; one subscription at a time (in TLC) is what `OpenIsHeard` needs, and distinct
subscriptions share nothing but the log slot. `MaxSets`, `MaxChanges` bound the sets and replacements: two sets let an operation
see a setting that is neither its own nor the last, three replacements change the value between all native calls of a retry.
`Sizes` has 0, and both sides of the first buffer, its double and the limit. `Written` has both neighbours of every edge of
every width. The proofs below remove these bounds for everything but liveness.

Workers and operations are interchangeable where a run says so; runs of liveness properties use no symmetry.
`CHECK_DEADLOCK FALSE` where a program may stop: its handles are all freed, its subscription closed, its calls made.

### Fairness

`ResourceTree`: each thread takes its next step if it stays possible, that is, native calls return and the scheduler is fair
(`WF_vars(Step(t))`). A thread that waits for a mutex is not promised it in competition with an endless stream of readers;
`OperationsEnd` therefore speaks of what happens when no new operation starts. The client and the collector owe nothing.
`ObjectWatch` and `EventFeed`: Ceph's threads, the event loop (each thread-safe function gets its turn) and the workers keep
running; Ceph need not notify, listeners need not acknowledge, the client need not close. `AsyncPool`: workers run, the event
loop turns, Ceph delivers a notification; nobody need call. `SizedFetch`: the thread that fetches keeps running (`FairSpec`);
values need not change. In `EventFeed`, `Unregister` waits for a moment without callbacks, and `CloseEnds` rests on there being
one, since each item is signalled once; what Ceph does about a signal that comes while it unregisters is not in `src/`.
`FetchEnds` rests on `MaxChanges`: against a value that is for ever replaced by a longer one the doubling never ends, and
nothing in the code says that it should.

## Proofs

Every safety property of a passing run but `FreeToStep` is a theorem, for all values of the constants that satisfy the assumptions
named with them. `PROJECT.json` lists the theorems; this is the argument of each module.

`ResourceTreeProofs`, in three layers. *For every client:* `TypeCorrect` and `NeverUsedAfterDestroy` follow from `IInv`. That a
thread inside a native call finds a live object follows only if the mutex really keeps out the thread that destroys
it, so `Locks` says that the holders of each mutex are exactly the threads whose `pc` is inside its sections. That takes
`Places`, which ties `on` and `kid` to `pc` (a flush is on the cluster and returns to the context), without which an unlock could
hit another handle's mutex. And "not closed" means live only for handles that were made: `Exists` says that no call,
thread or JS object reaches another.

*For every client*, `TreeInv` adds what makes `children_` exact (`CountsAreExact`) and what makes the collector thorough
(`NothingIsLeaked`). The count changes at a step of its own, before or after the thing it counts, so each child underway
must be in exactly one hand: `Opens` says which thread has opened a handle that has no JS object yet, `Subs` which one
each unfinished subscription waits for, `Closes` how far a close has come. `Freed` says that nobody is at work on a handle the
collector has taken, but the JS thread that destroys it. The sums of `ChildCountExact` are over finite sets
(`FiniteAssumption`); `CountSets` to `SubUncounted` say what one step does to them, and `CountStep` sorts every action into one
that moves neither, adds one child, or removes one.

*For every client*, too, every step is one that Ceph allows or a stutter (`ImplementsLifecycle`), and a subscription is left half
released only under a closed handle (`StrandsOnlyUnderClosed`). Of `Lifecycle` with `Careful = FALSE` the hard parts are that an
open is a call on a live parent (`Exists`), and that a registration disappears by a call or with its object (`Subs`).

*For a client without lapses*, `CareInv` adds `Held` (what is in use is reachable), `Apart` (opens and closes of one
handle exclude each other), `Kept` (from the check of `close_checked` on, the handle stays empty) and `NoThrow`. `Kept` is the
heart: it is what `tree_orphan` violates. From it follow `ParentsOutliveChildren`, `TeardownIsQuiet`, and `Lifecycle` with
`Careful = TRUE`.

*That operations end, but for fairness.* `WaitsFor(t)` is whom a thread waits for: the holders of the mutex it is about to take,
or the JS thread when its promise is to be settled. `NobodyWaitsInCircles` follows from `Locks` and `Places`: nobody who holds a
mutex is at a step that takes one (under the lock, a close touches only the atomic count of the parent), and `SettlesOnWorkers`
says that the JS thread itself never waits to settle. `CanStep(t)` lists the guards of the steps of a thread; it holds of a
thread at work exactly when it waits for nobody (`NothingElseIsWaitedFor`). So some thread's guard holds while anything is underway
(`SomeoneCanGoOn`), and each step leaves its operation fewer to take (`OperationsOnlyAdvance`, by the measure `StepsLeft`).
With fairness, that is `OperationsEnd` for any number of threads, where `tree_live` has three. Only that a step whose guard holds
is `ENABLED` is left to TLC (`FreeToStep`).

`ObjectWatchProofs` and `EventFeedProofs`: a notification or an item is in one place at a time (with a callback, in the
queue, counted, or told), from the moment Ceph reports it. So one that finds the queue full was never counted before,
and a listener and an overflowing callback never acknowledge the same one. That nothing calls back after a release is by
`CloseOrder` for a watch, which is flushed, and by `InActive` for the others: who is registered or called back is
between `Create` and `Unregister`. `WatchIsChannel` and `FeedsAreChannels` prove the refinements of `LossyChannel`: the initial
states, and every action as a step or a stutter. `OpenFeedIsHeard` needs that at most one feed is underway (`Alone`). What is left
of it for a client that overlaps its subscriptions is `UpdatesAreAlwaysHeard`: one log at most is called back, update watches
always are, and a silent log has another log to blame.

The code counts where the models keep sets. `LossesCountAsIntegers` and `ItemsCountAsIntegers` close that gap: in every step the
cardinalities change as the code's `exchange(0)`, `fetch_add` and the number in an event do, which holds because what a callback
adds back was never in the counter meanwhile. So what is proved of the sets is true of the integers.

Of the liveness of a watch, the safety part is proved. `SomeoneAnswers`: until Ceph was given an answer to a notification, a
callback, the queue or a worker has it in hand, or the watch is closed, or a listener threw or is to acknowledge by itself. It
rests on which of them acknowledges what (`Answers`). `NotificationsOnlyGoOn`: whoever has it in hand, each step of his brings it
nearer to its end, by the measure `Left` for callbacks and by one place in the queue, and no step of anybody else sets it back.
So fairness of these three is all that `NotifierAnswered` and `OverflowAcknowledged` need. `FlushIsFinite`: after
`rados_unwatch2`, no callback starts, so that the flush of `CloseEnds` waits for finitely many steps.

For feeds, `CloseWaitIsFinite` is its counterpart, as Ceph may still call them while they unregister: each callback then in flight
comes to its end, and each further one takes an item that was never reported before. `NoSignalForgotten` and `ItemsOnlyGoOn`
are what `SignalSeen` needs: a signal no listener has run after has a callback or an event behind it, a callback queues or counts
what it stands for, what was counted leaves with the next callback to push, and the queue keeps its order.

`AsyncPoolProofs`: what a notify waits for is somewhere. `Acks` keeps each acknowledgement in the pool's queue until it is done,
`Unwatching` each close of the watch in the queue or on a worker; so if a notify is stuck, no worker is free to take them.
`EveryPromiseIsAtWork` adds the converse for promises (`AtWork`): one that is pending has its job in one place, and only those
have one. From both follows `NobodyElseWaits`: while a promise is pending, the event loop, Ceph or a worker can take a step
(`CanGoOn` lists their guards), unless notifies hold every worker. It shows that the pool, the context's lock, the watch and the
promises have no other circle. `WorkOnlyAdvances` adds that what they do is never undone: the queue is served in order, a job ends
on the worker it started on, an outcome and a settled promise stay, and a notification goes from `Stage` to later `Stage`. Together
that is what `Settles` needs besides fairness and the timeout. `IoSettingsProofs`:
the JS thread is inside one set at a time, so a setting lies between an operation's call and return, or is torn by a set made in
between. `ArgumentsProofs`: the arithmetic of remainders and rounding. `SizedFetchProofs`: what the buffer was made for, at each
step of each kind (`Buffers`), and that a value of the same version is the same (`Versions`). So what no longer fits was replaced since
it was asked for, and a list that fits has lost entries if anything (`LongerIsLater`). A retry starts from a buffer that was too
short, so that twice of it is less than twice the value (`BuffersInProportion`), and the buffers tried for an xattr meet the limit
exactly (`Tries`).

The assumptions are the shape of the tree (`TreeAssumption`), finitely many handles and subscriptions (`FiniteAssumption`),
`LapsesAssumption`, `NobodyAssumption`, and one on the constants of each other module (`WatchAssumption`, `FeedAssumption`,
`CallAssumption`, `SettingsAssumption`, `WidthsAssumption`, `WrittenAssumption`, `FetchAssumption`, and `LimitAssumption`:
doubling the first xattr buffer meets the limit, as 4096 does 64 MiB). TLC evaluates each in a run.

Only model-checked, being out of the prover's reach: `FreeToStep`, which is about `ENABLED`, and liveness (`OperationsEnd`,
`OverflowAcknowledged`, `NotifierAnswered`, `SignalSeen`, the three that say a close or a fetch ends, `Settles`). The
paragraphs above say which safety part of each is proved.

## Not modelled

What a native call does, except that it succeeds or fails where the code tells these apart; payloads, names and results;
memory of single events, and so the event a throwing listener leaks (`events.cpp:53`); an `"error"` event without a listener,
which Node.js makes fatal (`index.ts:195`); promise rejections beyond the operation's end; the configuration calls of
`Cluster.connect` between the constructor and `rados_connect` (nothing else can reach the handle then); reopening a closed
handle, which makes a new one; a close starved by an endless stream of readers, which nothing in the code excludes. A C++
exception other than `Napi::Error` thrown out of a synchronous call (`state_->use` on a closed handle) leaves the binding as
an uncaught exception of the JS call or of the process, depending on the build; the models end the operation. The overflow
acknowledgement (`events.cpp:59`) makes such a call on a thread of Ceph: for a client that closes a context while it
subscribes to it (`"overlap"`), `use` may throw there, where nothing catches it. `ObjectWatch` assumes an open context, and no
model has this throw.

Left out because they have no state and no order to get wrong: `string_arg` and `encodeDictionary` (a type check, a join);
`requireConfirmation` (one comparison); the dispatch of `Advanced` by name (it selects a native call that then is `UsePool` or
`UseImage`; the casts of its values are in `Arguments`); `errors.ts` and the error conversion of `addon.cpp`; versions and
capabilities; the binding loader; `native.ts` and `types.ts`; build files, tests and scripts.

## Plan

Done: the tree and its abstract specification, the three subscriptions and theirs, the pool, the settings, the arguments, the
fetches, the proofs of all their safety, and of the safety part of their liveness. What would add most to it:

1. A composition of `ObjectWatch` and `AsyncPool`, so that failed acknowledgements and a full queue meet a full pool.
2. `EventFeed` with overlapping subscriptions in TLC, for the liveness that the proofs do not give.
3. A writer that starves: a model of one handle with endless calls, once the code bounds the wait.
4. Proofs of liveness, once the prover has `ENABLED`: the theorems above are the steps such a proof needs.
