----------------------------- MODULE SharedFeed -----------------------------
(***************************************************************************)
(* The shared feeds of the subscription hub (shared_subscriptions.rs) over *)
(* the subscription slab of a session's worker (subscription_pool.rs).     *)
(* Consumers attach to one feed per topic.  Every structural change (add,  *)
(* remove, growth, cleanup, recovery) holds the hub's mutations gate; the  *)
(* SDK thread fails, paints and loses data of feeds without it.  A feed    *)
(* that loses data is repainted by a recovery task.  Feeds are numbered in *)
(* order of creation; a session carries the number of its first feed.      *)
(***************************************************************************)
EXTENDS Integers, Sequences, FiniteSets

CONSTANTS
  Topics,
  ImageConsumers,  \* state delivery, or no rows: a loss is repainted
  DeltaConsumers,  \* rows and deltas: a loss ends the stream
  Slots,           \* keys of a session's slab
  NoKey,           \* upstream_key before subscribe: usize::MAX
  MaxFeeds,
  MaxEvents        \* losses, failures, growths, readers leaving and shutdown, together

ASSUME SharedFeedConstants ==
  /\ Topics # {} /\ MaxFeeds \in Nat \ {0} /\ MaxEvents \in Nat
  /\ ImageConsumers \cap DeltaConsumers = {}
  /\ NoKey \notin (1..MaxFeeds) \X Slots

Consumers == ImageConsumers \cup DeltaConsumers
Feeds == 1..MaxFeeds
Keys == Feeds \X Slots  \* session and slab key

VARIABLES
  registry,        \* topic -> its feed, 0 when there is none
  topic, upstream_key, session, lifecycle, stage, restart_requested,
  recovery_task_scheduled, consumers, active,    \* of each feed
  tasks,           \* recovery tasks spawned and not yet run, per feed
  cleanup_pending, \* a cleanup task is spawned and not yet run
  gate,            \* who holds mutations, and where it is
  subs,            \* slab key -> the feed subscribed there, 0 when vacant
  pending_cancel, ended,
  own_session, closed, left, shutdown,
  wire,            \* answers of the SDK in flight to a feed, in order
  events

feedvars == <<topic, upstream_key, session>>
recovery == <<stage, restart_requested, recovery_task_scheduled, tasks>>
worker == <<subs, pending_cancel, ended>>
people == <<own_session, left, shutdown>>
vars == <<registry, feedvars, recovery, lifecycle, consumers, active, cleanup_pending,
          gate, worker, people, closed, wire, events>>

Free == [op |-> "free", c |-> 0, f |-> 0, rest |-> {}]
born == {f \in Feeds : lifecycle[f] # "none"}
open(f) == lifecycle[f] \in {"pending", "active"}
registered == {f \in born : registry[topic[f]] = f}
Held(op) == gate.op = op
Release == gate' = Free
RollBack == gate' = [gate EXCEPT !.op = "rollback"]

\* The feed's subscription exists upstream and is not being cancelled.
Subscribed(f) == \E k \in Keys \ pending_cancel : subs[k] = f
Answer == <<"SubscriptionStarted", "INITPAINT">>

Init ==
  /\ registry = [t \in Topics |-> 0]
  /\ topic \in [Feeds -> {CHOOSE t \in Topics : TRUE}]
  /\ upstream_key = [f \in Feeds |-> NoKey]
  /\ session = [f \in Feeds |-> 0]
  /\ lifecycle = [f \in Feeds |-> "none"]
  /\ stage = [f \in Feeds |-> "none"]
  /\ restart_requested = [f \in Feeds |-> FALSE]
  /\ recovery_task_scheduled = [f \in Feeds |-> FALSE]
  /\ consumers = [f \in Feeds |-> {}] /\ active = [f \in Feeds |-> {}]
  /\ tasks = [f \in Feeds |-> 0]
  /\ cleanup_pending = FALSE /\ gate = Free
  /\ subs = [k \in Keys |-> 0] /\ pending_cancel = {} /\ ended = {}
  /\ own_session = [c \in Consumers |-> 0]
  /\ closed = {} /\ left = {} /\ shutdown = FALSE
  /\ wire = [f \in Feeds |-> <<>>]
  /\ events = 0

-----------------------------------------------------------------------------
(* Shared effects. *)

schedule_cleanup == cleanup_pending' = TRUE

\* build_unsubscribe_list: the slab key alone names the subscription.
unsubscribe_now(ks) ==
  LET cut == {k \in ks \cap Keys : subs[k] # 0} IN
  /\ pending_cancel' = pending_cancel \cup cut
  /\ wire' = [f \in Feeds |-> IF f \in {subs[k] : k \in cut} THEN <<>> ELSE wire[f]]

\* Mutant: without the check that the registry holds this very feed.
retireByTopic(F) ==
  /\ registry' = [t \in Topics |-> IF t \in {topic[f] : f \in F} THEN 0 ELSE registry[t]]
  /\ lifecycle' = [f \in Feeds |-> IF f \in F THEN "closed" ELSE lifecycle[f]]
  /\ unsubscribe_now({upstream_key[f] : f \in F})

\* Only the feed the registry holds is retired, and once.
retire(F) ==
  LET gone == F \cap registered IN
  /\ registry' = [t \in Topics |-> IF registry[t] \in gone THEN 0 ELSE registry[t]]
  /\ lifecycle' = [f \in Feeds |-> IF f \in gone THEN "closed" ELSE lifecycle[f]]
  /\ unsubscribe_now({upstream_key[f] : f \in gone})

\* Consumers with no active topic left, nor one reserved by an add, end.
Ending(F) ==
  {c \in UNION {active[f] : f \in F} :
     /\ \A g \in Feeds \ F : c \notin active[g]
     /\ ~(Held("attach") /\ gate.c = c)}

\* Mutant: no cleanup is scheduled.
on_errorKeepsEntries(F) ==
  LET failing == {f \in F : open(f)} IN
  /\ lifecycle' = [f \in Feeds |-> IF f \in failing THEN "failed" ELSE lifecycle[f]]
  /\ active' = [f \in Feeds |-> IF f \in failing THEN {} ELSE active[f]]
  /\ closed' = closed \cup Ending(failing)
  /\ UNCHANGED cleanup_pending

\* on_error of the open feeds in F: their consumers' topics fail.
on_error(F) ==
  LET failing == {f \in F : open(f)} IN
  /\ lifecycle' = [f \in Feeds |-> IF f \in failing THEN "failed" ELSE lifecycle[f]]
  /\ active' = [f \in Feeds |-> IF f \in failing THEN {} ELSE active[f]]
  /\ closed' = closed \cup Ending(failing)
  /\ cleanup_pending' = (cleanup_pending \/ failing # {})

\* detach of c from the feeds in F; a feed left without entries is retired.
detach(c, F) ==
  LET hit == {f \in F \cap born : c \in consumers[f]} IN
  /\ consumers' = [f \in Feeds |-> IF f \in hit THEN consumers[f] \ {c} ELSE consumers[f]]
  /\ active' = [f \in Feeds |-> IF f \in hit THEN active[f] \ {c} ELSE active[f]]
  /\ retire({f \in F \cap born : consumers[f] \subseteq {c}})

CanResubscribe(f) ==
  /\ upstream_key[f] \in Keys \ pending_cancel
  /\ subs[upstream_key[f]] # 0

resubscribe(f) ==
  wire' = [wire EXCEPT ![subs[upstream_key[f]]] = @ \o Answer]

\* The task is spawned for the feed the registry holds under the same identity.
schedule_recovery(f, wanted) ==
  LET g == registry[topic[f]] IN
  tasks' = IF wanted /\ g # 0 THEN [tasks EXCEPT ![g] = @ + 1] ELSE tasks

ResubscribeFails(f) ==
  /\ ~CanResubscribe(f) \/ events < MaxEvents
  /\ events' = IF CanResubscribe(f) THEN events + 1 ELSE events
  /\ on_error({f}) /\ UNCHANGED wire

Recovered(f) ==
  /\ stage' = [stage EXCEPT ![f] = "none"]
  /\ restart_requested' = [restart_requested EXCEPT ![f] = FALSE]

-----------------------------------------------------------------------------
(* add_validated, holding the gate. *)

\* The session an add reuses: alive, and still held by a feed or by wait_clean.
Usable(s) ==
  /\ s # 0 /\ s \notin ended
  /\ (\E f \in registered : session[f] = s) \/ (\E k \in {s} \X Slots : subs[k] # 0)

\* Look the topic up; retire its failed feed; create one when there is none.
AddBegin(c, t) ==
  /\ Held("free") /\ ~shutdown /\ c \notin closed
  /\ \A f \in born : topic[f] = t => c \notin active[f]
  /\ LET old == registry[t]
         f == Cardinality(born) + 1 IN
     IF old # 0 /\ open(old)
     THEN /\ gate' = [Free EXCEPT !.op = "attach", !.c = c, !.f = old]
          /\ UNCHANGED <<registry, feedvars, lifecycle, own_session, pending_cancel, wire>>
     ELSE /\ f \in Feeds
          /\ registry' = [registry EXCEPT ![t] = f]
          /\ lifecycle' = [g \in Feeds |-> IF g = f THEN "pending"
                                           ELSE IF g = old THEN "closed" ELSE lifecycle[g]]
          /\ unsubscribe_now({upstream_key[g] : g \in {old} \cap Feeds})
          /\ topic' = [topic EXCEPT ![f] = t]
          /\ session' = [session EXCEPT ![f] =
                           IF Usable(own_session[c]) THEN own_session[c] ELSE f]
          /\ own_session' = [own_session EXCEPT ![c] = session'[f]]
          /\ gate' = [Free EXCEPT !.op = "attach", !.c = c, !.f = f]
          /\ UNCHANGED upstream_key
  /\ UNCHANGED <<recovery, consumers, active, cleanup_pending, subs, ended, left, shutdown,
                 closed, events>>

\* The feed may have ended since it was looked up: the add then rolls back.
Attach ==
  /\ Held("attach")
  /\ LET f == gate.f c == gate.c IN
     IF ~open(f)
     THEN RollBack /\ UNCHANGED <<consumers, active, events>>
     ELSE /\ consumers' = [consumers EXCEPT ![f] = @ \cup {c}]
          /\ active' = [active EXCEPT ![f] = @ \cup {c}]
          /\ \/ /\ upstream_key[f] = NoKey
                /\ gate' = [gate EXCEPT !.op = "subscribe"] /\ UNCHANGED events
             \/ upstream_key[f] # NoKey /\ Release /\ UNCHANGED events
             \/ /\ upstream_key[f] # NoKey /\ events < MaxEvents
                /\ events' = events + 1
                /\ gate' = [gate EXCEPT !.op = "grow"]
  /\ UNCHANGED <<registry, feedvars, recovery, lifecycle, cleanup_pending, worker, people,
                 closed, wire>>

\* An existing feed has grown: one resubscription; failing it fails the feed
\* and rolls the add back.
Grow ==
  /\ Held("grow")
  /\ \/ /\ CanResubscribe(gate.f) /\ resubscribe(gate.f) /\ Release
        /\ UNCHANGED <<lifecycle, active, closed, cleanup_pending, events>>
     \/ /\ ResubscribeFails(gate.f) /\ RollBack
  /\ UNCHANGED <<registry, feedvars, recovery, consumers, worker, people>>

\* The worker takes a vacant slab key once no cancellation of the topic is
\* pending, and asks the SDK.
Register ==
  /\ Held("subscribe")
  /\ LET s == session[gate.f] IN
     /\ s \notin ended
     /\ \A k \in pending_cancel : k[1] = s => topic[subs[k]] # topic[gate.f]
     /\ \E k \in {s} \X Slots :
          /\ subs[k] = 0
          /\ subs' = [subs EXCEPT ![k] = gate.f]
          /\ gate' = [gate EXCEPT !.op = "store", !.rest = {k}]
  /\ wire' = [wire EXCEPT ![gate.f] = Answer]
  /\ UNCHANGED <<registry, feedvars, recovery, lifecycle, consumers, active,
                 cleanup_pending, pending_cancel, ended, people, closed, events>>

\* The service does not open, a cancellation is not confirmed in time, or the
\* session is shut down: subscribe fails.
SubscribeFails ==
  /\ Held("subscribe") /\ RollBack /\ on_error({gate.f})
  /\ UNCHANGED <<registry, feedvars, recovery, consumers, worker, people, wire, events>>

\* Mutant: nothing rolls a cancelled add back.
AddCancelledNoGuard ==
  /\ Held("subscribe") /\ Release
  /\ UNCHANGED <<registry, feedvars, recovery, lifecycle, consumers, active,
                 cleanup_pending, worker, people, closed, wire, events>>

\* The add's future is dropped while it waits for the service.
AddCancelled ==
  /\ Held("subscribe") /\ RollBack
  /\ UNCHANGED <<registry, feedvars, recovery, lifecycle, consumers, active,
                 cleanup_pending, worker, people, closed, wire, events>>

\* The add commits, unless the session was shut down under it.
Store ==
  /\ Held("store")
  /\ IF session[gate.f] \in ended
     THEN RollBack /\ on_error({gate.f}) /\ UNCHANGED upstream_key
     ELSE /\ upstream_key' = [upstream_key EXCEPT ![gate.f] = CHOOSE k \in gate.rest : TRUE]
          /\ Release
          /\ UNCHANGED <<lifecycle, active, closed, cleanup_pending>>
  /\ UNCHANGED <<registry, topic, session, recovery, consumers, worker, people, wire,
                 events>>

AddRollback ==
  /\ Held("rollback") /\ Release
  /\ detach(gate.c, {gate.f})
  /\ UNCHANGED <<feedvars, recovery, cleanup_pending, subs, ended, people, closed, events>>

-----------------------------------------------------------------------------
(* The other holders of the gate. *)

add_fields(c) ==
  /\ Held("free") /\ c \notin closed /\ events < MaxEvents
  /\ \E F \in SUBSET {f \in born : c \in consumers[f]} \ {{}} :
       gate' = [Free EXCEPT !.op = "fields", !.c = c, !.rest = F]
  /\ events' = events + 1
  /\ UNCHANGED <<registry, feedvars, recovery, lifecycle, consumers, active,
                 cleanup_pending, worker, people, closed, wire>>

GrowFields ==
  /\ Held("fields") /\ gate.rest # {}
  /\ \E f \in gate.rest :
       /\ gate' = [gate EXCEPT !.rest = @ \ {f}]
       /\ \/ /\ CanResubscribe(f) /\ resubscribe(f)
             /\ UNCHANGED <<lifecycle, active, closed, cleanup_pending, events>>
          \/ ResubscribeFails(f)
  /\ UNCHANGED <<registry, feedvars, recovery, consumers, worker, people>>

FieldsAdded ==
  /\ Held("fields") /\ gate.rest = {} /\ Release /\ schedule_cleanup
  /\ UNCHANGED <<registry, feedvars, recovery, lifecycle, consumers, active, worker,
                 people, closed, wire, events>>

remove(c, t) ==
  /\ Held("free") /\ \E f \in born : topic[f] = t /\ c \in consumers[f]
  /\ detach(c, {f \in born : topic[f] = t /\ c \in consumers[f]})
  /\ UNCHANGED <<feedvars, recovery, cleanup_pending, gate, subs, ended, people, closed,
                 events>>

unsubscribe(c) ==
  /\ Held("free") /\ closed' = closed \cup {c}
  /\ detach(c, {f \in born : c \in consumers[f]})
  /\ UNCHANGED <<feedvars, recovery, cleanup_pending, gate, subs, ended, people, events>>

cleanup ==
  /\ Held("free") /\ cleanup_pending /\ cleanup_pending' = FALSE
  /\ LET kept(f) == IF lifecycle[f] = "failed" THEN {} ELSE active[f] \ closed
         after(f, old) == IF f \in registered THEN kept(f) ELSE old IN
     /\ consumers' = [f \in Feeds |-> after(f, consumers[f])]
     /\ active' = [f \in Feeds |-> after(f, active[f])]
     /\ retire({f \in registered : kept(f) = {}})
  /\ UNCHANGED <<feedvars, recovery, gate, subs, ended, people, closed, events>>

\* The recovery task: take the gate, then send what is queued until nothing is.
RecoverBegin(f) ==
  /\ Held("free") /\ tasks[f] > 0
  /\ tasks' = [tasks EXCEPT ![f] = @ - 1]
  /\ gate' = [Free EXCEPT !.op = "recover", !.f = f]
  /\ UNCHANGED <<registry, feedvars, stage, restart_requested, recovery_task_scheduled,
                 lifecycle, consumers, active, cleanup_pending, worker, people, closed,
                 wire, events>>

RecoverCheck ==
  /\ Held("recover")
  /\ LET f == gate.f
         over == shutdown \/ ~open(f) IN
     IF ~over /\ stage[f] \in {"QueuedInitial", "QueuedRestart"}
     THEN /\ stage' = [stage EXCEPT ![f] = IF @ = "QueuedInitial" THEN "WaitingInitialPaint"
                                           ELSE "WaitingRestartStart"]
          /\ gate' = [gate EXCEPT !.op = "send"]
          /\ UNCHANGED <<restart_requested, recovery_task_scheduled>>
     ELSE /\ IF over THEN Recovered(f) ELSE UNCHANGED <<stage, restart_requested>>
          /\ recovery_task_scheduled' = [recovery_task_scheduled EXCEPT ![f] = FALSE]
          /\ Release
  /\ UNCHANGED <<registry, feedvars, tasks, lifecycle, consumers, active, cleanup_pending,
                 worker, people, closed, wire, events>>

\* Mutant: the task ends after one request, without looking again.
RecoverSendOnce ==
  /\ Held("send") /\ Release
  /\ recovery_task_scheduled' = [recovery_task_scheduled EXCEPT ![gate.f] = FALSE]
  /\ \/ /\ CanResubscribe(gate.f) /\ resubscribe(gate.f)
        /\ UNCHANGED <<stage, restart_requested, lifecycle, active, closed,
                       cleanup_pending, events>>
     \/ ResubscribeFails(gate.f) /\ Recovered(gate.f)
  /\ UNCHANGED <<registry, feedvars, tasks, consumers, worker, people>>

RecoverSend ==
  /\ Held("send")
  /\ LET f == gate.f IN
     \/ /\ CanResubscribe(f) /\ resubscribe(f)
        /\ gate' = [gate EXCEPT !.op = "recover"]
        /\ UNCHANGED <<stage, restart_requested, recovery_task_scheduled, lifecycle, active,
                       closed, cleanup_pending, events>>
     \/ /\ ResubscribeFails(f) /\ Recovered(f) /\ Release
        /\ recovery_task_scheduled' = [recovery_task_scheduled EXCEPT ![f] = FALSE]
  /\ UNCHANGED <<registry, feedvars, tasks, consumers, worker, people>>

-----------------------------------------------------------------------------
(* The SDK thread, and the consumers' own ends. *)

\* Mutant: the paint after a restart is frozen out too.
PaintedOnce(f, initpaint) == initpaint /\ stage[f] = "WaitingInitialPaint"

\* on_update: a paint that answers a recovery restarts or ends it, anything
\* else is frozen out while one runs.
Painted(f, initpaint) ==
  /\ initpaint
  /\ stage[f] \in {"WaitingInitialPaint", "WaitingRestartPaint"}

RestartReady(f) == stage[f] = "WaitingInitialPaint" /\ restart_requested[f]

on_update(f, initpaint) ==
  LET again == Painted(f, initpaint) /\ RestartReady(f)
      recovered == Painted(f, initpaint) /\ ~RestartReady(f)
      schedule == again /\ ~recovery_task_scheduled[f]
      gone == {c \in consumers[f] : c \notin active[f] \/ c \in closed} IN
  /\ IF recovered THEN Recovered(f)
     ELSE /\ stage' = [stage EXCEPT ![f] = IF again THEN "QueuedRestart" ELSE @]
          /\ UNCHANGED restart_requested
  /\ recovery_task_scheduled' = [recovery_task_scheduled EXCEPT ![f] = @ \/ schedule]
  /\ schedule_recovery(f, schedule)
  /\ lifecycle' = [lifecycle EXCEPT ![f] =
                     IF recovered \/ stage[f] = "none" THEN "active" ELSE @]
  /\ \E full \in SUBSET (DeltaConsumers \cap (active[f] \ closed)) :
       /\ stage'[f] # "none" => full = {}
       /\ active' = [active EXCEPT ![f] = @ \ (gone \cup full)]
       /\ closed' = closed \cup full
       /\ cleanup_pending' = (cleanup_pending \/ gone \cup full # {})

\* collect_status of a SubscriptionStarted.
collect_started(f) ==
  stage' = [stage EXCEPT ![f] = IF @ = "WaitingRestartStart" THEN "WaitingRestartPaint" ELSE @]

\* The next answer of the SDK reaches the feed; a feed that has ended ignores a paint.
Deliver(f) ==
  /\ wire[f] # <<>> /\ Subscribed(f)
  /\ wire' = [wire EXCEPT ![f] = Tail(@)]
  /\ \/ /\ Head(wire[f]) = "INITPAINT" /\ open(f) /\ on_update(f, TRUE)
     \/ /\ Head(wire[f]) = "SubscriptionStarted" /\ collect_started(f)
        /\ UNCHANGED <<restart_requested, recovery_task_scheduled, tasks, lifecycle, active,
                       closed, cleanup_pending>>
     \/ /\ Head(wire[f]) = "INITPAINT" /\ ~open(f)
        /\ UNCHANGED <<recovery, lifecycle, active, closed, cleanup_pending>>
  /\ UNCHANGED <<registry, feedvars, consumers, gate, worker, people, events>>

Update(f) ==
  /\ Subscribed(f) /\ open(f)
  /\ on_update(f, FALSE)
  /\ UNCHANGED <<registry, feedvars, consumers, gate, worker, people, wire, events>>

on_data_loss(f) ==
  /\ Subscribed(f) /\ open(f) /\ events < MaxEvents
  /\ events' = events + 1
  /\ LET live == active[f] \ closed
         kept == live \cap ImageConsumers
         queued == IF kept # {} /\ stage[f] = "none" THEN "QueuedInitial" ELSE stage[f]
         schedule == /\ kept # {} /\ ~recovery_task_scheduled[f]
                     /\ queued \in {"QueuedInitial", "QueuedRestart"} IN
     /\ active' = [active EXCEPT ![f] = kept]
     /\ closed' = closed \cup (live \cap DeltaConsumers)
     /\ lifecycle' = [lifecycle EXCEPT ![f] = IF kept # {} THEN "pending" ELSE "failed"]
     /\ stage' = [stage EXCEPT ![f] = queued]
     /\ restart_requested' = [restart_requested EXCEPT ![f] =
          @ \/ (kept # {} /\ stage[f] \in {"QueuedInitial", "WaitingInitialPaint"})]
     /\ recovery_task_scheduled' = [recovery_task_scheduled EXCEPT ![f] = @ \/ schedule]
     /\ schedule_recovery(f, schedule)
  /\ schedule_cleanup
  /\ UNCHANGED <<registry, feedvars, consumers, gate, worker, people, wire>>

\* collect_status of a topic that failed or terminated.
collect_failed(f) ==
  /\ lifecycle' = [lifecycle EXCEPT ![f] = "failed"]
  /\ active' = [active EXCEPT ![f] = {}]

\* ConsumerStatusPatch::apply ends the consumers the failure leaves without topics.
apply(f) ==
  /\ closed' = closed \cup Ending({f})
  /\ cleanup_pending' = (cleanup_pending \/ active[f] \ closed # {})

\* SubscriptionFailure or SubscriptionTerminated of a topic nobody cancelled.
TopicFails(k) ==
  /\ subs[k] # 0 /\ k \notin pending_cancel /\ events < MaxEvents
  /\ events' = events + 1
  /\ LET f == subs[k] IN
     /\ subs' = [subs EXCEPT ![k] = 0]
     /\ wire' = [wire EXCEPT ![f] = <<>>]
     /\ collect_failed(f) /\ apply(f)
  /\ UNCHANGED <<registry, feedvars, recovery, consumers, gate, pending_cancel, ended,
                 people>>

CancelConfirmed(k) ==
  /\ k \in pending_cancel
  /\ subs' = [subs EXCEPT ![k] = 0]
  /\ pending_cancel' = pending_cancel \ {k}
  /\ UNCHANGED <<registry, feedvars, recovery, lifecycle, consumers, active,
                 cleanup_pending, gate, ended, people, closed, wire, events>>

\* The session terminates, or its worker is quarantined after a failed call.
SessionEnds(s) ==
  /\ events < MaxEvents /\ events' = events + 1
  /\ s \notin ended /\ \E k \in {s} \X Slots : subs[k] # 0
  /\ ended' = ended \cup {s}
  /\ LET lost == {f \in registered : session[f] = s} IN
     /\ on_error(lost)
     /\ wire' = [f \in Feeds |-> IF f \in lost THEN <<>> ELSE wire[f]]
  /\ subs' = [k \in Keys |-> IF k[1] = s THEN 0 ELSE subs[k]]
  /\ pending_cancel' = {k \in pending_cancel : k[1] # s}
  /\ UNCHANGED <<registry, feedvars, recovery, consumers, gate, people>>

\* A consumer's reader closes its stream without detaching.
Leave(c) ==
  /\ c \notin closed /\ events < MaxEvents /\ events' = events + 1
  /\ closed' = closed \cup {c} /\ left' = left \cup {c}
  /\ UNCHANGED <<registry, feedvars, recovery, lifecycle, consumers, active,
                 cleanup_pending, gate, worker, own_session, shutdown, wire>>

ShutDown ==
  /\ ~shutdown /\ shutdown' = TRUE /\ events < MaxEvents /\ events' = events + 1
  /\ closed' = Consumers /\ schedule_cleanup
  /\ UNCHANGED <<registry, feedvars, recovery, lifecycle, consumers, active, gate, worker,
                 own_session, left, wire>>

-----------------------------------------------------------------------------
Adding == Attach \/ Grow \/ Register \/ SubscribeFails \/ AddCancelled \/ Store \/ AddRollback
Fields == GrowFields \/ FieldsAdded
Recovering == RecoverCheck \/ RecoverSend

Next ==
  \/ \E c \in Consumers, t \in Topics : AddBegin(c, t) \/ remove(c, t)
  \/ \E c \in Consumers : add_fields(c) \/ unsubscribe(c) \/ Leave(c)
  \/ Adding \/ Fields \/ cleanup \/ Recovering \/ ShutDown
  \/ \E f \in Feeds : RecoverBegin(f) \/ Deliver(f) \/ Update(f) \/ on_data_loss(f)
  \/ \E k \in Keys : TopicFails(k) \/ CancelConfirmed(k)
  \/ \E s \in Feeds : SessionEnds(s)

\* Tasks run and the SDK answers; mutations is a fair (FIFO) tokio mutex.
Fairness ==
  /\ WF_vars(Adding \/ Fields \/ Recovering)
  /\ SF_vars(cleanup)
  /\ SF_vars(\E f \in Feeds : RecoverBegin(f))
  /\ WF_vars(\E f \in Feeds : Deliver(f))

Spec == Init /\ [][Next]_vars /\ Fairness

-----------------------------------------------------------------------------
Stages == {"none", "QueuedInitial", "WaitingInitialPaint", "QueuedRestart",
           "WaitingRestartStart", "WaitingRestartPaint"}

TypeOK ==
  /\ registry \in [Topics -> Feeds \cup {0}] /\ topic \in [Feeds -> Topics]
  /\ upstream_key \in [Feeds -> Keys \cup {NoKey}]
  /\ session \in [Feeds -> Feeds \cup {0}]
  /\ lifecycle \in [Feeds -> {"none", "pending", "active", "failed", "closed"}]
  /\ stage \in [Feeds -> Stages] /\ tasks \in [Feeds -> 0..1]
  /\ restart_requested \in [Feeds -> BOOLEAN]
  /\ recovery_task_scheduled \in [Feeds -> BOOLEAN]
  /\ active \in [Feeds -> SUBSET Consumers] /\ consumers \in [Feeds -> SUBSET Consumers]
  /\ subs \in [Keys -> Feeds \cup {0}] /\ pending_cancel \subseteq Keys
  /\ own_session \in [Consumers -> Feeds \cup {0}] /\ cleanup_pending \in BOOLEAN
  /\ wire \in [Feeds -> Seq({"SubscriptionStarted", "INITPAINT"})]

\* The registry, the feeds and the worker's slab agree (retire, detach,
\* attach): a consumer is fed by the registered, open feed of the topic alone,
\* a feed is subscribed at most once, and a retired feed is not left
\* subscribed: what remains of it upstream is being cancelled.
HubConsistent ==
  /\ TypeOK
  /\ \A t \in Topics : registry[t] # 0 => registry[t] \in registered
  /\ \A f \in Feeds :
       /\ active[f] # {} => f \in registered /\ open(f) /\ active[f] \subseteq consumers[f]
       /\ Cardinality({k \in Keys : subs[k] = f}) <= 1
       /\ lifecycle[f] = "closed" => ~Subscribed(f)
  /\ \A k \in pending_cancel : subs[k] # 0

\* "Cancelling add while a service opens must not leave attachable phantom
\* feeds" (AddRollback): whenever the gate is free, a feed others could attach
\* to has an entry and has been subscribed upstream.
NoPhantomFeed ==
  Held("free") => \A f \in registered : consumers[f] # {} /\ upstream_key[f] # NoKey

\* Every entry the hub ended (its topic failed, or its stream was ended by a
\* loss, an overflow or shutdown) in a registered feed has a cleanup coming;
\* only a reader that left by itself may wait for the next update.
AbandonedIsCleaned ==
  \A f \in registered : \A c \in consumers[f] :
    (c \notin active[f] \/ c \in closed) /\ c \notin left => cleanup_pending

\* A frozen feed is never forgotten: a queued recovery request has the one task
\* that will send it (recovery_task_scheduled), and a sent one has, while the
\* subscription lasts, the answer its stage waits for in flight.
RecoveryIsUnderWay ==
  \A f \in Feeds :
    LET running == gate.op \in {"recover", "send"} /\ gate.f = f
        sending == Held("send") /\ gate.f = f
        inFlight(m) == \E i \in DOMAIN wire[f] : wire[f][i] = m IN
    /\ tasks[f] > 0 => ~running /\ recovery_task_scheduled[f]
    /\ open(f) /\ stage[f] \in {"QueuedInitial", "QueuedRestart"} => tasks[f] > 0 \/ running
    /\ open(f) /\ Subscribed(f) /\ ~sending =>
         /\ stage[f] \in {"WaitingInitialPaint", "WaitingRestartPaint"} => inFlight("INITPAINT")
         /\ stage[f] = "WaitingRestartStart" => inFlight("SubscriptionStarted")

\* A feed that lost data is repainted, unless it ends or is unsubscribed.
RecoveryEnds ==
  \A t \in Topics :
    LET frozen == \E f \in {registry[t]} \cap Feeds :
                    open(f) /\ stage[f] # "none" /\ Subscribed(f)
    IN  frozen ~> ~frozen

\* "a single rejected topic does not terminate healthy siblings": an open feed
\* whose key is stored keeps its subscription until it is retired.
HealthyStaysSubscribed ==
  \A f \in registered : open(f) /\ upstream_key[f] # NoKey => Subscribed(f)

-----------------------------------------------------------------------------
(* The inductive invariant behind the properties. *)

Alive == {f \in Feeds : lifecycle[f] \in {"pending", "active", "failed"}}

\* The feeds created so far come first; a feed to come is as Init left it.
Numbered ==
  /\ \E n \in 0..MaxFeeds : born = 1..n
  /\ \A f \in born : session[f] # 0
  /\ \A f \in Feeds \ born :
       /\ consumers[f] = {} /\ active[f] = {} /\ upstream_key[f] = NoKey
       /\ stage[f] = "none" /\ ~recovery_task_scheduled[f]

\* The registry holds the feeds that are not retired, each under its topic.
RegistryExact ==
  /\ \A f \in Feeds : f \in Alive <=> registry[topic[f]] = f
  /\ \A t \in Topics : registry[t] # 0 => topic[registry[t]] = t

Fed == \A f \in Feeds : active[f] # {} => open(f) /\ active[f] \subseteq consumers[f]

\* A subscription is at the key its feed has stored, or is about to store, in the
\* slab of the feed's session; that of a retired feed is being cancelled.
Slab ==
  /\ \A k \in Keys : subs[k] # 0 =>
       LET f == subs[k] IN
       /\ f \in born /\ session[f] = k[1] /\ k[1] \notin ended
       /\ upstream_key[f] = k \/ (Held("store") /\ gate.f = f /\ gate.rest = {k})
       /\ lifecycle[f] = "closed" => k \in pending_cancel
  /\ \A k \in pending_cancel : subs[k] # 0

\* What the holder of the gate has in hand.
GateHeld ==
  LET f == gate.f c == gate.c IN
  /\ gate = [op |-> gate.op, c |-> c, f |-> f, rest |-> gate.rest]
  /\ gate.op \in {"free", "attach", "grow", "subscribe", "store", "rollback", "fields",
                  "recover", "send"}
  /\ gate.op \in {"attach", "grow", "subscribe", "store", "rollback"} =>
       f \in Alive /\ c \in Consumers /\ (upstream_key[f] = NoKey => consumers[f] \subseteq {c})
  /\ gate.op \in {"subscribe", "store"} => upstream_key[f] = NoKey
  /\ gate.op \in {"grow", "subscribe", "store"} => c \in consumers[f]
  /\ gate.op = "store" => \E k \in Keys : gate.rest = {k}
  /\ gate.op = "fields" => gate.rest \subseteq born
  /\ gate.op \in {"recover", "send"} => f \in born

\* Only the feed an add is working on may lack an entry or a key.
Attached ==
  \A f \in Alive :
    \/ gate.op \in {"attach", "subscribe", "store", "rollback"} /\ gate.f = f
    \/ consumers[f] # {} /\ upstream_key[f] # NoKey

\* As AbandonedIsCleaned, for the entry that is about to be added too.
Cleaned ==
  /\ \A f \in Alive : \A c \in consumers[f] :
       (c \notin active[f] \/ c \in closed) /\ c \notin left => cleanup_pending
  /\ Held("attach") /\ gate.c \in closed /\ gate.c \notin left => cleanup_pending

Running(f) == gate.op \in {"recover", "send"} /\ gate.f = f

\* The flag stands for one task, waiting or running; what is queued has it.
OneTask ==
  \A f \in Feeds :
    /\ recovery_task_scheduled[f] <=> tasks[f] = 1 \/ Running(f)
    /\ tasks[f] = 1 => ~Running(f)
    /\ open(f) /\ stage[f] \in {"QueuedInitial", "QueuedRestart"} => recovery_task_scheduled[f]

InFlight(f, m) == \E i \in DOMAIN wire[f] : wire[f][i] = m

\* A start is followed by its paint, and what a sent request waits for is coming.
Answering ==
  \A f \in Feeds :
    /\ \A i \in DOMAIN wire[f] : wire[f][i] = "SubscriptionStarted" =>
         i < Len(wire[f]) /\ wire[f][i + 1] = "INITPAINT"
    /\ open(f) /\ Subscribed(f) /\ ~(Held("send") /\ gate.f = f) =>
         /\ stage[f] \in {"WaitingInitialPaint", "WaitingRestartPaint"} => InFlight(f, "INITPAINT")
         /\ stage[f] = "WaitingRestartStart" => InFlight(f, "SubscriptionStarted")

HubInv ==
  /\ TypeOK /\ Numbered /\ RegistryExact /\ Fed /\ Slab /\ GateHeld /\ Attached /\ Cleaned
  /\ OneTask /\ Answering
=============================================================================
