# xbbg in TLA+

A verification development for the asynchronous engine of xbbg
(`crates/xbbg-async`), the Rust layer between the Bloomberg SDK's callback
threads and the consumers of requests and subscriptions.  Modules model the
components below; TLC checks them on small instances; TLAPS proves the central
safety properties for every value of the constants.  Paths are relative to
`crates/xbbg-async/src/engine/` unless they say otherwise.

## The system

The engine owns a pool of request workers, a pool of subscription sessions, a
hub of shared subscription feeds, caches and a Tokio runtime.  Every SDK session
has one dispatcher thread that runs the engine's callbacks; everything else
(submitters, consumers, timers, shutdown) runs on other threads.

| part | state | operations | what is hard |
|---|---|---|---|
| strict channel (`state/channel.rs`) | queue, semaphore, terminal error, close flags, handle count, hook | send, try_send, fail, close, clone, drop, recv, try_recv | the permit is taken outside the lock; error and data are read in order from two places; wakeups |
| drop-oldest channel (`state/channel.rs`) | queue, pending gap | try_send_with_eviction, recv_event | exact loss counts, notify after unlock |
| callback sink (`state/channel.rs`) | accepting flag, delivery mutex, handle count, hook | send, close, clone, drop, the weak terminator | no update after the terminal error, a close or the last drop |
| Block forwarder (`state/subscription.rs`) | bounded ingress | forward with a timer | timer against a free slot |
| request worker (`worker.rs`, `dispatch.rs`) | slab, generations, cells, lifecycle lock, health | dispatch, partial, final, cancel, timeout, drain, stop | many parties for one slot; recycled keys; lock order |
| service opens, identity (`worker.rs`, `session_lifecycle.rs`) | pending opens, identity latch, token | ensure_service, ensure_identity | coalescing, late replies, revocation |
| response streams (`state/*_stream.rs`, `request_pool.rs`) | bounded channel, overflow task, cancel guard | on_partial, finish, fail, recv, close | overflow and cancellation against a live decoder |
| request pool (`request_pool.rs`) | workers, round robin, timeout scanner | request, retry | which failures may be retried |
| subscription worker (`subscription_pool.rs`) | slab, pending cancels, statuses | subscribe, unsubscribe, events | untagged correlation IDs, reconnects |
| session pool (`subscription_pool.rs`) | permits, idle and claimed sessions, leases | claim, release, shutdown | shutdown against creation and release |
| shared feeds (`shared_subscriptions.rs`) | registry, feeds, consumers, recovery | subscribe, add, remove, data loss, retire | attach against retire, repeated loss |
| state delivery (`shared_subscriptions/state_delivery.rs`) | dirty FIFO, receipts, frozen images | mark, recv, commit, close | an image in hand while its topic changes |
| caches (`field_cache.rs`, `cache_io.rs`, ...) | snapshots, files | publish, load | publication order |

`PROJECT.json` lists every part, with those that are not modelled and why, and
the hazards with the line at which each bites.

## Modules

| module | models | depends on |
|---|---|---|
| `DeliveryStream` | what a consumer may expect of either channel: published items arrive in order, possibly with counted skips, then at most one fault, then the end | |
| `SubscriptionChannel` | the strict channel, with try_send and the timed send as its producers | `DeliveryStream` |
| `DropOldestChannel` | the drop-oldest channel | `DeliveryStream` |
| `CallbackSink` | the inline callback sink of shared feeds | |
| `ResponseStream` | a streamed response from decoder to consumer, guarded (historical, intraday bars) or not (intraday ticks) | |
| `EngineSinks` | the choice between the last three | those |
| `RequestWorker` | one request worker: submitting threads, dispatcher, timeout scanner, stopping threads | |
| `SessionEnd` | what the calls of one worker session have in common: the threads, the shutdown and the end of the session | |
| `ServiceOpens` | `ensure_service` of the request worker and (`state_lock`) of the subscription session, with the table of pending opens they share | `SessionEnd` |
| `SessionIdentity` | the identity latch of an engine with configured authentication | `SessionEnd` |
| `ClassicIdentity` | the token and authorization flow of an engine without it | `SessionEnd` |
| `SessionPool` | the pool of subscription sessions: capacity, claim, start, use, release, stop | |
| `WorkerSession` | what a call needs before it may send: a session, an open service, an identity | `SessionPool`, `ServiceOpens`, `SessionIdentity`, `ClassicIdentity` |
| `StateView` | what a consumer of conflated state may expect: images that only move forward and, while it has the topic, never two valid ones across an unreported loss | |
| `StateDelivery` | the dirty-topic FIFO of state delivery, its leases, its freeze and its drain | `StateView` |
| `SharedFeed` | the hub's registry of feeds over the subscription slab of the sessions, with recovery and cleanup | |
| `MCRequestWorker` | instance and symmetry for TLC | |
| `*Proofs` | theorems and proofs, see Proofs | |

An action is what one thread does while it holds one mutex, or one atomic or
semaphore operation outside a mutex.  Definitions whose comment starts
with "Mutant:" are deliberately wrong variants of the definition after them; they
belong to no specification and record which bug each property catches.

**SubscriptionChannel.**  `pc[s]` is where a handle is between the lock-free
test ("try"/"acquire"), the permit ("permit"), the push and its notification
("notify"), an overflow it must report ("full") and the tail of a stop
("closing", "last").  `rpc` is the receiver.  `accepted`, `delivered`, `errors`
and `eof` record history.  An update is its producer and its number.

**DropOldestChannel.**  The same shape with eviction instead of permits;
`position` and `gap` record what the consumer was told.

**CallbackSink.**  `pc[a]` is a handle or the terminator between the lock-free
test ("send"), the callback under the mutex ("call", or "last" for a terminal
error) and the hook ("notify", "gone").  `calls` is what the callback saw.

**ResponseStream.**  `guarded` says which decoder the stream has.  A response
message yields a chunk, a top-level error or nothing; `task` is the error a
spawned task is waiting to send; `guard` is the cancel guard of `RequestStream`.

**EngineSinks**, **WorkerSession.**  The parts share no state and one of them is
chosen when the sink or worker is built (`sink`, `setup`), so that a behaviour is
one of that part.  They are composed so that one run covers the family.

**RequestWorker.**  `requests` is the slab, `key` and `generation` the ticket of
a request, `cell` its decoder state, `taken[a]` what thread `a` removed and has
to settle, `op[a]` with which verdict and where it goes on.  `readers`/`writer`
are the lifecycle lock.  `sdk`, `wire` and `events` are the session as the
worker uses it: requests accepted and unanswered, and queued status events.  The
session is external to the repository: a successful cancel ends the messages of
a correlation ID, a lost connection loses what is in transit, and a blocking
stop waits for the callback that is running.

**ServiceOpens.**  `by_service` is the table; `pc[c]` a call between the first
test, the lifecycle guard ("gate", "opening"), the wait, its timeout and the drop
of its waiter ("leaving").  `taken[a]` are the senders thread `a` removed and has
yet to resolve; `answered` and `expired` record what became of each attempt.

**SessionIdentity.**  `identity` and `waiters` are the latch; `failing[a]` is how
far `a` is in `fail_pending_identity`, which takes the lock twice.  Attempt
numbers are the model's: the code has one correlation ID for all.

**ClassicIdentity.**  `caller[c]` is the future, `stage[c]`/`phase[c]` its
blocking thread, `slot` the two pending slots.  `timed_out` and `cancelled` record
that a flow was given up.

**SessionPool.**  `pc[c]` follows an add that needs a session: the permit
("permit"), the blocking thread of its claim ("enter", "pop", "spawn",
"starting", "register", "final", "made"/"failed"), the session in use ("claimed",
"feeding", "cleaning") and the drop of the claim ("dropping", "releasing",
"returning").  `line[w]` are the subscriptions Bloomberg still holds for worker
`w`.  `stopper` is a thread in `signal_shutdown` or `shutdown_blocking`, between
the locks it takes.

**StateDelivery.**  A key is one membership of the consumer; of an image the
model keeps the revision and whether it is valid.  `members` and `queue` are the
dirty state, `rows` the live lease, `frozen_images`, `frozen_queue` and `drained`
the drain.  `permit` and `woken` are the `Notify`.  A detach takes a key off its
feed first (`Detach`) and off the delivery later (`AfterDetach`), as the hub does.
`whole`, `losses`, `view` and `owed` record history.

**SharedFeed.**  Feeds are numbered in order of creation.  `gate` is the holder of
the hub's `mutations` lock and how far its operation is; the SDK thread fails,
paints and loses data of feeds without it.  `subs` and `pending_cancel` are the
slab of the session's worker, whose keys are recycled; `wire[f]` are the answers
in flight to a feed; `stage`, `restart_requested` and `tasks` its recovery.

The SDK session in these modules is external: it answers an accepted call once,
late, or never, and says nothing after it has ended.  In `SharedFeed` it answers
each accepted request once, in order.

## Runs

| run | what it shows |
|---|---|
| `channel_safety` | slots are conserved, handles counted, committed data survives (`IInv`); no producer's update is skipped silently, end of stream is final, and the channel implements `DeliveryStream` without skips, its one error after all data |
| `channel_liveness` | no lost wakeup, every stop reaches the hook, no producer hangs |
| `engine_sinks` | drop-oldest: exact gap counts and an owed wakeup (`IInv`), `DeliveryStream` with skips; callback: nothing follows a terminal error, a close or the last drop, and the sink ends only for a reason; response stream: chunks then one error, no silent loss, a dropped stream leaves no decoder, every stream ends |
| `request_worker` | one owner for a pending reply and partials before the reply (`IInv`), a ticket yields only its request, answers find their slots |
| `request_worker_liveness` | nothing is sent behind a stop, registered requests are resolved, stopping threads return |
| `worker_session` | pool: the bound, one holder per session, clean handover, a stop leaves nothing; opens: no waiter is lost, each learns the fate of its own attempt, shutdown leaves none, the subscription session opens a service once; identity: no waiter is lost, undisturbed flows use their own identity |
| `state_delivery` | the FIFO, the leases and the feeds agree and a consumer that is owed nothing is up to date, a waiting reader is woken, a drain shows every image that was owed, and the whole implements `StateView` for the attached topics |
| `shared_feed` | registry, feeds and slab agree, no feed is attachable without a subscription, ended entries are cleaned up, a frozen feed is never forgotten and is repainted |
| `worker_quarantine`, `identity_timeout`, `state_delivery_wakeup`, `shared_feed_siblings` | counterexamples, see Findings |

Bounds.  The channel runs use two handles, because every race in the code is
between two handles or a handle and the receiver, and one slot (strict) or two
(drop-oldest, so that an eviction leaves an update behind), with enough updates
to fill and overflow the queue.  The callback has two handles and the terminator,
one item each: a terminal error with sends on both sides of it.  A response stream
has four messages on two slots: an overflow with further messages behind it.
`request_worker` has two requests and two keys: a key is recycled while the first
request's messages are still out, and two requests are drained together; the
session's own events are in the liveness run, with one request, where each races
everything a request can do.  `TagModulus` is larger than the number of requests,
as 2^30 is in practice.  `worker_session` has two calls, an old and a new one, on
two services, and for the pool two claims on at most two sessions, started with
none to two: a claim meets an idle, a dirty, a dead and a starting session, and
waits for capacity.  `identity_timeout` has three calls: an old waiter, one that
retires the attempt and one that makes the new.  `state_delivery` has two topics, so
that one is in hand while the other is queued, and two changes: a revision, loss,
failure, removal or new attachment before and after a selection.  The exception of
`ImplementsView` (below) takes three changes or more; the properties were also checked
with three changes to two topics and with five to one.  `shared_feed` has
one topic, a consumer of each kind and two feeds, so that a topic is registered
again while its former feed is being cancelled, and two events: a loss during the
recovery of a loss, a failure after it, or a shutdown.  `shared_feed_siblings` has
two topics and two slab keys.  Runs without a deadlock check end in states where
every stream, call, reader or owner is done, or where the bound on events is used up.

Fairness.  Code that has been entered runs on (weak fairness of the steps
between two locks), a timer that is set fires, a task that was woken is polled,
the dispatcher runs queued events.  The SDK answers a request it accepted unless
the connection was lost.  Nobody has to send, cancel, read, close or drop; the
hard timeout is off by default and not assumed.  In `ResponseStream` the request
ends and the consumer keeps reading.  In `SharedFeed` spawned tasks run, and the
cleanup and recovery tasks, which wait for the `mutations` lock, get it (strong
fairness: a tokio mutex is FIFO).

## Findings

1. `worker_quarantine`: the dispatcher tests `shutting_down` and stores `health`
   afterwards (`worker.rs:865-866, 950-958, 975-982`); a stop in between is
   overwritten and the stopped worker is Healthy or Degraded again.
2. `identity_timeout`: the timeout of an old waiter fails whatever authorization
   is pending, also a newer one (`worker.rs:1266, 579-583`).  The test and the
   resolution are two steps, so it can even replace Ready by Failed.
3. `state_delivery_wakeup`: with a limit below the number of dirty topics, `recv`
   may select only topics that have just been detached.  They have no image,
   `try_recv` drops them and returns nothing (`state_delivery.rs:823-826`), and
   `recv` waits although another dirty topic is queued; marks of a queued topic do
   not notify (`state_delivery.rs:526`).  `state_delivery` therefore has a limit
   that covers both topics.
4. `shared_feed_siblings`: a failed topic's slab key is freed while its feed keeps
   it (`subscription_pool.rs:940, 993`).  If an add that waits for its service
   registers another topic under that key before the failed feed is cleaned up,
   `retire` unsubscribes the other topic (`shared_subscriptions.rs:2936-2941`).
   `shared_feed` has one topic, whose former feed is retired before its key is used
   again.

Some properties hold with an exception that the code has.  Their definitions name
it, except for the first two, where it is the bound `TagModulus` of the run and an
assumption of the theorems:

* `RightRequest`, `AnswerFindsSlot`: the generation has 32 bits, the correlation ID
  carries 30 and the comparison uses 32 (`worker.rs:465, 780`, `dispatch.rs:58`);
  from generation 2^30 answers are taken for stale.
* `NoSilentLoss`: a tick stream's failure or chunk is lost when its channel is full
  (`state/intradaytick_stream.rs:63`).
* `DropReleasesDecoder`: a guarded stream that gave up its sender early ends for the
  consumer while the request is registered; reading that end disarms the cancel
  guard (`request_pool.rs:223-228, 285`).
* `OpenedOnce`: the request worker's dispatcher removes a pending open and records
  the service under another lock (`worker.rs:1005, 1008`); a call in between opens
  the service again.
* `OwnIdentity`: if the session accepts a second authorization request with the
  fixed correlation ID, the late answer to a flow that was given up fulfils the next
  flow (`worker.rs:605, 1286`).
* `SlotsConsistent`: a dropped `with_identity` future frees the flow lock while its
  thread goes on (`worker.rs:1402-1404`).
* `ImplementsView`: a topic that was selected may lose data and recover before its
  snapshot.  The marker of that loss is read after the snapshot
  (`state_delivery.rs:811-835`); a failure or removal in between clears it, and after
  the end of the source it is not set at all.  The recovered image then goes out as
  valid and the loss is not shown, where the crate's README says "Continuity
  invalidation precedes recovery" (`crates/xbbg-async/README.md:133-134`).  `Attached`
  leaves these topics out.
* `AbandonedIsCleaned`: the entry of a reader that left by itself stays until the
  next update of its feed.

## Proofs

Each safety proof has the shape `Init => IInv`, `IInv /\ [Next]_vars => IInv'`,
`IInv => Inv`.  The invariants called `IInv` are in the runs.  TLC has checked the
others with the constants of the runs, where they can be added to the INVARIANTS
of the configuration.  They are defined at the end of the module they are about.

* `SubscriptionChannelProofs`: for every finite set of handles, capacity and number
  of updates.  `IInv` joins the slot and handle counts with data survival, the order
  of the error and the terminal states: that the error comes last needs the closed
  flags, and end of stream being final needs that a handle inside send is still
  counted.  `NoSilentGap` needs `Unbroken` beside it: a handle that is past the flags
  has published everything it began but what it has in hand, or the channel is
  stopped, and a stopped channel never starts again.  `StrictStream` is proved by
  mapping every action to a step of `DeliveryStream` or a stutter.
* `DropOldestProofs`: the gap equation (read + gaps + queued + pending =
  accepted), the owed wakeup, and the refinement `LossyStream`.
* `EngineSinksProofs`: for any handles, items, messages and capacities.
  `CallbackInv` says that the holder of the delivery mutex is the one inside the
  callback (`MutexHeld`), that no error has been told while the sink accepts or a
  delivery runs (`NotYetTold`), how each end leaves the sink (`EndsStop`), and that
  live handles are counted (`HandlesCounted`).  `StreamInv` says that what was read,
  what is queued and what a spawned task has to send are, while a guarded decoder has
  its sender, all the chunks, and end in an error after that (`Told`, `ChunksCounted`),
  that nothing is left behind the end (`Ended`), and why a guard is disarmed
  (`Disarmed`).
* `RequestWorkerProofs`: for any requests, keys and moduli, `IInv` adds to
  `Ownership` the `Positions` of the threads (only a consuming thread holds slots;
  the dispatcher's guard is the only active partial; a dispatch past the flag holds
  the shared guard).  `RightRequest` and `AnswerFindsSlot` also need `Tickets` and
  the assumption that fewer requests than tags and generations have been submitted
  (`FewRequests`).
* `ServiceOpensProofs`: for any finite set of calls and any services.  `OpensInv` says
  that attempts have the numbers handed out (`Numbered`), that one call at most is
  about to ask the SDK for an attempt (`Starting`), that the waiters of a pending,
  unanswered attempt wait for that attempt (`Joined`), that a sender in the hands of a
  thread gets the outcome of its attempt (`Owed`), that a stop lets nobody through the
  gate (`Stopped`), and that a subscription session records a service with its answer
  (`Recorded`).
* `IdentityProofs`: for any finite set of calls.  `LatchInv` says that a thread resolves
  the latch with empty hands (`LatchHands`) and what a stop leaves (`LatchStopped`).
  `ClassicInv` says that whose sender is in a slot has no answer yet (`SlotIsOpen`),
  that an unanswered SDK request has its sender in the slot or lost it to a teardown
  (`AskedBySlot`), that the running thread belongs to the holder of the flow lock until
  a future is dropped (`FlowHeld`, `FlowStarted`), what only a timeout or a teardown
  causes (`ClassicCauses`), and that a success answers the thread's own request
  (`OwnAnswer`).
* `SessionPoolProofs`: for any finite set of calls and any bound.  `PoolInv` is
  `Shape` and `Counts`.  `Shape` says where a session may be: in the idle list or in
  one call's hands (`Held`, `Apart`, `Tracked`), clean when it is idle or newly
  claimed, registered unless its thread is still starting it (`Registered`,
  `InStart`), and, for each stage of a stop, which sessions the stopping thread has
  collected and which threads will stop the others themselves (`Collected`,
  `Signalled`, `Waited`, `Stopped`).  `Counts` ties `admission` and `creations` to the
  number of calls in the stages that hold a permit or a creation guard, and keeps
  idle sessions plus owned ones within the bound.  The stop needs both: a blocking
  stop knows from `creations = 0` that no thread is between start and registration,
  so the registry it reads is complete.
* `SharedFeedProofs`: for any topics, consumers, slab keys and numbers of feeds and
  events.  `HubInv` says that a feed to come is untouched (`Numbered`), that the
  registry holds exactly the feeds that are not retired (`RegistryExact`), that only
  open feeds feed, and only their entries (`Fed`), that a subscription is at the slab
  key its feed has stored or is about to store (`Slab`), what the holder of the
  `mutations` lock has in hand (`GateHeld`), that only the feed it works on may lack an
  entry or a key (`Attached`), that an ended entry has a cleanup coming (`Cleaned`),
  that the recovery flag stands for one task (`OneTask`), and that what a sent request
  waits for is in flight (`Answering`).

Assumptions.  Sets of handles and calls are finite where they are counted;
`Dispatcher`, `Stopper`, `Terminator` and `Nobody` are distinct from the calls and
handles they stand beside; bounds are natural numbers; there is a topic, and no
consumer has both kinds.  TLC evaluates them in the runs.

Only model-checked: the liveness properties (`NoLostWakeup`, `ClosureReported`,
`SendResolves`, `EventuallyResolved`, `StopReturns`, `StreamEnds`, `RecoveryEnds`),
because liveness under fairness is beyond the prover; and `StateDelivery`, whose
inductive invariant would have to cover feeds, leases, freeze and drain together.

## Not modelled

Values, field decoding, Arrow layout, logging, metrics and text are data below
the models.  Most of the repository is of that kind: response decoders, builders,
recipes, table helpers, schema and exchange tables, language bindings and
applications run on one thread over one request's data.  The models cover the part
of the engine in which threads meet, and with it a small share of the lines.

* The Block forwarder's ingress queue: one FIFO between the worker and one task; its
  timed send is in `SubscriptionChannel`.
* Retry in the request pool: decided from the wording of vendor errors.
* Fan-out: what an update shows each consumer of a feed, delayed-data and
  field-error policies, reconnect and stream-activation notices of the
  subscription worker.
* `AtomicJsonPublisher`: one critical section compares the publication number and
  renames the file.
* Session start-up (a latch with a timer, a fork and join) appears as a session that
  starts or fails; host teardown runs once, in the host's exit order.
* `SharedFeed` takes the wait for a session from `SessionPool` as a step that
  succeeds, and `SessionPool` takes a session's feeds as one line; the two are not
  composed, because the hub lets go of its lock before it waits for a session.
