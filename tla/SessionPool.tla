----------------------------- MODULE SessionPool -----------------------------
(***************************************************************************)
(* The pool of subscription sessions (subscription_pool.rs) under the hub's *)
(* feeds.  An add that needs a session waits for capacity, and a blocking  *)
(* thread then claims an idle worker or starts a new one.  The claim lives  *)
(* as long as the feeds on its session; when the last one is retired a task *)
(* waits for Bloomberg's acknowledgements, and dropping the claim returns a *)
(* clean worker to the pool and stops any other.  The engine stops the pool *)
(* without waiting (signal_shutdown), then possibly waiting for it.        *)
(*                                                                         *)
(* A stopped worker that nobody holds is forgotten, and its number stands  *)
(* for a later one.  A worker's own calls (signal_shutdown, reusable) hold *)
(* its locks and are single steps.  The command handles of a claim are     *)
(* borrowed from the FeedSession that owns it, so none is outstanding when *)
(* the claim is dropped.                                                   *)
(***************************************************************************)
EXTENDS Integers, Sequences, FiniteSets

CONSTANTS
  Claims,       \* adds that need a session of their own
  MaxSessions,  \* bound on max_subscription_sessions
  NoWorker      \* not a number

\* One number more than there may be workers.
Workers == 1..(MaxSessions + 1)

PoolConstants ==
  MaxSessions \in Nat /\ IsFiniteSet(Claims) /\ NoWorker \notin Workers

ASSUME PoolAssumption == PoolConstants

VARIABLES
  max_subscription_sessions,
  available,    \* idle workers, the last one is claimed first
  all_workers,  \* registered workers, which a shutdown reaches
  worker,       \* "starting", "up", "dead" or "stopped"
  line,         \* the states of the subscriptions Bloomberg holds for a worker
  admission,    \* permits left
  shutdown,     \* the flag, and the closed semaphore
  creations,
  claim_pc, handle,  \* of each call, and the worker in its hands
  stopper, to_stop  \* the thread that stops the pool

pool == <<available, all_workers, worker, line>>
capacity == <<admission, creations>>
calls == <<claim_pc, handle>>
stopping == <<shutdown, stopper, to_stop>>
poolvars == <<max_subscription_sessions, pool, capacity, calls, stopping>>

\* The pool starts with subscription_pool_size workers.
PoolInit ==
  /\ max_subscription_sessions \in 1..MaxSessions
  /\ \E size \in 0..max_subscription_sessions :
       /\ available = [i \in 1..size |-> i] /\ all_workers = 1..size
       /\ worker = [w \in Workers |-> IF w <= size THEN "up" ELSE "stopped"]
  /\ line = [w \in Workers |-> {}]
  /\ admission = max_subscription_sessions /\ creations = 0 /\ shutdown = FALSE
  /\ claim_pc = [c \in Claims |-> "idle"] /\ handle = [c \in Claims |-> NoWorker]
  /\ stopper = "off" /\ to_stop = {}

-----------------------------------------------------------------------------
Goto(c, stage) == claim_pc' = [claim_pc EXCEPT ![c] = stage]

\* Mutant: a healthy worker is reused whatever it still serves.
reusableIfHealthy(w) == worker[w] = "up"

reusable(w) == worker[w] = "up" /\ line[w] = {}

idle == {available[i] : i \in DOMAIN available}

\* next_id of claim_with_permit: the smallest number that is not in use.
Unused(w) == worker[w] = "stopped" /\ \A c \in Claims : handle[c] # w
Fresh(w) == Unused(w) /\ \A v \in 1..(w - 1) : ~Unused(v)

Unstopped == {w \in Workers : worker[w] \in {"starting", "up", "dead"}}

\* SubscriptionWorkerHandleInner::signal_shutdown of every worker of a set.
StopAll(ws) ==
  /\ worker' = [w \in Workers |-> IF w \in ws THEN "stopped" ELSE worker[w]]
  /\ line' = [w \in Workers |-> IF w \in ws THEN {} ELSE line[w]]

\* claim_with_permit returns an error: the worker it held, if any, has been
\* stopped, and its parameter, the permit, is dropped.
ClaimFails(c) ==
  /\ claim_pc' = [claim_pc EXCEPT ![c] = "failed"]
  /\ handle' = [handle EXCEPT ![c] = NoWorker]
  /\ admission' = admission + 1

-----------------------------------------------------------------------------
(* Admission: acquire_capacity, begin_creation.                            *)

\* A call that is refused, that gives up waiting or that is interrupted by a
\* change of the hub changes nothing.
acquire_capacity(c) ==
  /\ claim_pc[c] = "idle" /\ ~shutdown /\ admission > 0
  /\ admission' = admission - 1
  /\ Goto(c, "permit")
  /\ UNCHANGED <<pool, creations, handle, stopping>>

begin_creation(c) ==
  /\ claim_pc[c] = "permit"
  /\ IF shutdown
     THEN admission' = admission + 1 /\ Goto(c, "idle") /\ UNCHANGED creations
     ELSE creations' = creations + 1 /\ Goto(c, "enter") /\ UNCHANGED admission
  /\ UNCHANGED <<pool, handle, stopping>>

-----------------------------------------------------------------------------
(* The blocking thread of a claim: claim_with_permit.                      *)

EnterClaim(c) ==
  /\ claim_pc[c] = "enter"
  /\ IF shutdown THEN ClaimFails(c)
                 ELSE Goto(c, "pop") /\ UNCHANGED <<handle, admission>>
  /\ UNCHANGED <<pool, creations, stopping>>

\* Mutant: the claimed worker stays among the idle ones.
PopKeeps(c) ==
  /\ claim_pc[c] = "pop"
  /\ \/ \E last \in DOMAIN available :
          /\ reusable(available[last])
          /\ \A i \in DOMAIN available : i > last => ~reusable(available[i])
          /\ StopAll({available[i] : i \in (last + 1)..Len(available)})
          /\ handle' = [handle EXCEPT ![c] = available[last]]
          /\ available' = SubSeq(available, 1, last)
          /\ Goto(c, "final") /\ UNCHANGED all_workers
     \/ \E w \in Workers :
          /\ \A i \in DOMAIN available : ~reusable(available[i])
          /\ StopAll(idle) /\ available' = <<>>
          /\ Fresh(w)
          /\ handle' = [handle EXCEPT ![c] = w] /\ all_workers' = all_workers \ {w}
          /\ Goto(c, "spawn")
  /\ UNCHANGED <<capacity, stopping>>

\* Idle workers that are dead or dirty are dropped, which stops them.
Pop(c) ==
  /\ claim_pc[c] = "pop"
  /\ \/ \E last \in DOMAIN available :
          /\ reusable(available[last])
          /\ \A i \in DOMAIN available : i > last => ~reusable(available[i])
          /\ StopAll({available[i] : i \in (last + 1)..Len(available)})
          /\ handle' = [handle EXCEPT ![c] = available[last]]
          /\ available' = SubSeq(available, 1, last - 1)
          /\ Goto(c, "final") /\ UNCHANGED all_workers
     \/ \E w \in Workers :
          /\ \A i \in DOMAIN available : ~reusable(available[i])
          /\ StopAll(idle) /\ available' = <<>>
          /\ Fresh(w)
          /\ handle' = [handle EXCEPT ![c] = w] /\ all_workers' = all_workers \ {w}
          /\ Goto(c, "spawn")
  /\ UNCHANGED <<capacity, stopping>>

SpawnBegin(c) ==
  /\ claim_pc[c] = "spawn"
  /\ IF shutdown
     THEN ClaimFails(c) /\ UNCHANGED worker
     ELSE /\ worker' = [worker EXCEPT ![handle[c]] = "starting"]
          /\ Goto(c, "starting") /\ UNCHANGED <<handle, admission>>
  /\ UNCHANGED <<available, all_workers, line, creations, stopping>>

\* start, the startup latch and open_service; a failure drops the session.
SpawnEnds(c) ==
  /\ claim_pc[c] = "starting"
  /\ \/ /\ worker' = [worker EXCEPT ![handle[c]] = "up"]
        /\ Goto(c, "register") /\ UNCHANGED <<line, handle, admission>>
     \/ StopAll({handle[c]}) /\ ClaimFails(c)
  /\ UNCHANGED <<available, all_workers, creations, stopping>>

\* spawn_registered_worker, under the lock of all_workers.
RegisterWorker(c) ==
  /\ claim_pc[c] = "register"
  /\ IF shutdown
     THEN StopAll({handle[c]}) /\ ClaimFails(c) /\ UNCHANGED all_workers
     ELSE /\ all_workers' = all_workers \cup {handle[c]}
          /\ Goto(c, "final") /\ UNCHANGED <<worker, line, handle, admission>>
  /\ UNCHANGED <<available, creations, stopping>>

Final(c) ==
  /\ claim_pc[c] = "final"
  /\ IF shutdown \/ ~reusable(handle[c])
     THEN StopAll({handle[c]}) /\ ClaimFails(c)
     ELSE Goto(c, "made") /\ UNCHANGED <<worker, line, handle, admission>>
  /\ UNCHANGED <<available, all_workers, creations, stopping>>

\* The creation guard is dropped and the thread's result delivered.
EndCreation(c) ==
  /\ claim_pc[c] \in {"made", "failed"}
  /\ creations' = creations - 1
  /\ Goto(c, IF claim_pc[c] = "failed" THEN "idle" ELSE "claimed")
  /\ UNCHANGED <<pool, admission, handle, stopping>>

-----------------------------------------------------------------------------
(* The session in use.                                                     *)

\* Feeds are subscribed on the session, also by an owner that comes back while
\* its last feed's cancellation is outstanding.  A refused SDK call stops the
\* worker; the failed add then retires its feed.
Subscribe(c) ==
  /\ claim_pc[c] \in {"claimed", "cleaning"} /\ worker[handle[c]] = "up"
  /\ \/ line' = [line EXCEPT ![handle[c]] = @ \cup {"active"}] /\ UNCHANGED worker
     \/ StopAll({handle[c]})
  /\ Goto(c, "feeding")
  /\ UNCHANGED <<available, all_workers, capacity, handle, stopping>>

\* The last feed of the session is retired: unsubscribe_now, and wait_clean is
\* spawned.  A refused SDK call stops the worker.
RetireFeed(c) ==
  /\ claim_pc[c] = "feeding"
  /\ LET w == handle[c] IN
     \/ /\ line' = [line EXCEPT ![w] = IF "active" \in @ THEN {"cancelling"} ELSE @]
        /\ UNCHANGED worker
     \/ "active" \in line[w] /\ StopAll({w})
  /\ Goto(c, "cleaning")
  /\ UNCHANGED <<available, all_workers, capacity, handle, stopping>>

\* SubscriptionTerminated of a cancelled subscription, and the failure of one
\* that nobody cancelled.
Acknowledged(w) ==
  /\ \E state \in line[w] : line' = [line EXCEPT ![w] = @ \ {state}]
  /\ UNCHANGED <<available, all_workers, worker, capacity, calls, stopping>>

\* SessionTerminated or AuthorizationRevoked.
WorkerEnds(w) ==
  /\ worker[w] = "up"
  /\ worker' = [worker EXCEPT ![w] = "dead"] /\ line' = [line EXCEPT ![w] = {}]
  /\ UNCHANGED <<available, all_workers, capacity, calls, stopping>>

\* The session is clean or stopped, or the acknowledgement did not come in time.
wait_clean(c) ==
  /\ claim_pc[c] = "cleaning"
  /\ Goto(c, "dropping")
  /\ UNCHANGED <<pool, capacity, handle, stopping>>

\* The add's future was dropped while its thread made the claim, its topic was
\* registered by another add meanwhile, or the hub itself is dropped.
NeverUsed(c) ==
  /\ claim_pc[c] \in {"claimed", "feeding"}
  /\ Goto(c, "dropping")
  /\ UNCHANGED <<pool, capacity, handle, stopping>>

\* Drop of SessionClaim, up to the lock of the idle workers in release.
DropClaim(c) ==
  /\ claim_pc[c] = "dropping"
  /\ IF reusable(handle[c]) /\ ~shutdown
     THEN Goto(c, "releasing") /\ UNCHANGED <<worker, line, handle>>
     ELSE /\ StopAll({handle[c]}) /\ Goto(c, "returning")
          /\ handle' = [handle EXCEPT ![c] = NoWorker]
  /\ UNCHANGED <<available, all_workers, capacity, stopping>>

release(c) ==
  /\ claim_pc[c] = "releasing"
  /\ IF reusable(handle[c]) /\ ~shutdown
     THEN available' = Append(available, handle[c]) /\ UNCHANGED <<worker, line>>
     ELSE StopAll({handle[c]}) /\ UNCHANGED available
  /\ Goto(c, "returning") /\ handle' = [handle EXCEPT ![c] = NoWorker]
  /\ UNCHANGED <<all_workers, capacity, stopping>>

\* The lease is dropped after the claim's own drop has run.
ReturnPermit(c) ==
  /\ claim_pc[c] = "returning"
  /\ admission' = admission + 1
  /\ Goto(c, "idle")
  /\ UNCHANGED <<pool, creations, handle, stopping>>

-----------------------------------------------------------------------------
(* Shutdown.                                                               *)

StopperGoes(from, to) == stopper = from /\ stopper' = to

\* The flag is set and the semaphore closed: a caller admitted in between is
\* refused by begin_creation, as one admitted just before the flag is.
signal_shutdown ==
  /\ StopperGoes("off", "collecting") /\ shutdown' = TRUE
  /\ UNCHANGED <<pool, capacity, calls, to_stop>>

shutdown_blocking ==
  /\ StopperGoes("off", "waiting") \/ StopperGoes("signalled", "waiting")
  /\ shutdown' = TRUE
  /\ UNCHANGED <<pool, capacity, calls, to_stop>>

\* Mutant: the threads that are starting sessions are not waited for.
WaitNobody ==
  /\ StopperGoes("waiting", "collecting to wait")
  /\ UNCHANGED <<pool, capacity, calls, shutdown, to_stop>>

WaitCreations ==
  /\ StopperGoes("waiting", "collecting to wait") /\ creations = 0
  /\ UNCHANGED <<pool, capacity, calls, shutdown, to_stop>>

registered_workers ==
  /\ \/ StopperGoes("collecting", "draining")
     \/ StopperGoes("collecting to wait", "draining to wait")
  /\ to_stop' = all_workers \cap Unstopped
  /\ UNCHANGED <<pool, capacity, calls, shutdown>>

drain_available ==
  /\ StopperGoes("draining", "stopping") \/ StopperGoes("draining to wait", "stopping to wait")
  /\ StopAll(idle) /\ available' = <<>>
  /\ UNCHANGED <<all_workers, capacity, calls, shutdown, to_stop>>

StopWorkers ==
  /\ StopperGoes("stopping", "signalled") \/ StopperGoes("stopping to wait", "stopped")
  /\ StopAll(to_stop) /\ to_stop' = {}
  /\ UNCHANGED <<available, all_workers, capacity, calls, shutdown>>

-----------------------------------------------------------------------------
ClaimThread(c) ==
  \/ EnterClaim(c) \/ Pop(c) \/ SpawnBegin(c) \/ SpawnEnds(c) \/ RegisterWorker(c) \/ Final(c)
  \/ EndCreation(c)

Dropping(c) == wait_clean(c) \/ DropClaim(c) \/ release(c) \/ ReturnPermit(c)

Stopping == WaitCreations \/ registered_workers \/ drain_available \/ StopWorkers

PoolNext ==
  /\ \/ \E c \in Claims :
          \/ acquire_capacity(c) \/ begin_creation(c) \/ ClaimThread(c)
          \/ Subscribe(c) \/ RetireFeed(c) \/ NeverUsed(c) \/ Dropping(c)
     \/ \E w \in Workers : Acknowledged(w) \/ WorkerEnds(w)
     \/ signal_shutdown \/ shutdown_blocking \/ Stopping
  /\ UNCHANGED max_subscription_sessions

PoolSpec == PoolInit /\ [][PoolNext]_poolvars

-----------------------------------------------------------------------------
Holding == {"permit", "enter", "pop", "spawn", "starting", "register", "final", "made",
            "claimed", "feeding", "cleaning", "dropping", "releasing", "returning"}

\* A session counts against max_subscription_sessions from its start until it
\* is stopped, whoever holds it: idle in the pool, in a claim or in the hands
\* of a claiming thread, of which it has exactly one.  Capacity is neither lost
\* nor minted.
SessionBound ==
  /\ admission + Cardinality({c \in Claims : claim_pc[c] \in Holding}) =
       max_subscription_sessions
  /\ Cardinality(Unstopped) <= max_subscription_sessions
  /\ \A w \in Unstopped :
       Cardinality({i \in DOMAIN available : available[i] = w})
         + Cardinality({c \in Claims : handle[c] = w}) = 1

\* "Await terminal acknowledgements before returning an empty session to the
\* pool": no subscription of an earlier claim is alive or being cancelled on a
\* worker that is idle or newly claimed.
CleanHandover ==
  /\ \A i \in DOMAIN available : line[available[i]] = {}
  /\ \A c \in Claims : claim_pc[c] \in {"made", "claimed"} => line[handle[c]] = {}

\* A blocking stop leaves no session running.  A signalled one leaves at most
\* those that a thread is starting and will stop when it comes to register them.
StopLeavesNothing ==
  /\ stopper = "stopped" => Unstopped = {} /\ creations = 0
  /\ stopper = "signalled" =>
       \A w \in Unstopped :
         \E c \in Claims : handle[c] = w /\ claim_pc[c] \in {"starting", "register"}
=============================================================================
