---------------------------- MODULE ServiceOpens ----------------------------
(***************************************************************************)
(* Opening a Bloomberg service on demand: ensure_service, the table of     *)
(* pending opens (session_lifecycle.rs) and the status handler that        *)
(* resolves them.  Two workers share the table.  The request worker        *)
(* (worker.rs) keeps it under a mutex of its own, beside the RwLock of     *)
(* open_services; the subscription session (subscription_pool.rs) keeps    *)
(* both under its state mutex.  state_lock tells which worker it is.       *)
(*                                                                         *)
(* A member of Calls is one call of ensure_service with the oneshot        *)
(* channel it waits on.  A step is what a thread does under one mutex.     *)
(***************************************************************************)
EXTENDS SessionEnd

CONSTANT Services

VARIABLES
  state_lock,     \* a subscription session, not a request worker
  open_services,  \* services recorded as open
  next_id,        \* attempts numbered so far
  by_service,     \* by_service[s]: the pending attempt of s, or NoAttempt
  pc, service, attempt, rx, \* each call: place, argument, attempt it waits for, oneshot
  expired,        \* attempts some call waited for until its timer fired
  taken,          \* taken[a]: waiters a removed, with what it must tell them
  inserting,      \* services the dispatcher has yet to add to open_services
  draining,       \* the dispatcher saw the session end and must drain the table
  sdk,            \* attempts the SDK was asked for and has not answered
  answered        \* answered[k]: what became of the SDK's answer to attempt k

table == <<open_services, next_id, by_service>>
call == <<pc, service, attempt, rx, expired>>
dispatch == <<inserting, draining>>
session == <<sdk, answered, over>>
opensvars == <<state_lock, table, call, taken, dispatch, session, flags>>

NoAttempt == [cid |-> 0, waiters |-> {}]
Outcomes == {"ok", "failed", "timeout"}

OpensInit ==
  /\ state_lock \in BOOLEAN
  /\ open_services = {}
  /\ next_id = 0
  /\ by_service = [s \in Services |-> NoAttempt]
  /\ shutting_down = FALSE /\ stopped = FALSE
  /\ pc = [c \in Calls |-> "idle"]
  /\ service \in [Calls -> Services]
  /\ attempt = [c \in Calls |-> 0]
  /\ rx = [c \in Calls |-> "empty"]
  /\ expired = {}
  /\ taken = [a \in Actors |-> {}]
  /\ inserting = {} /\ draining = FALSE
  /\ sdk = {} /\ answered = [k \in 1 .. 0 |-> "none"] /\ over = FALSE

-----------------------------------------------------------------------------
(* The pending table. *)

\* A receiver is dropped when its call stops waiting.
is_closed(c) == pc[c] \in {"leaving", "ended"}

\* Mutant: the correlation ID of the attempt is not compared.
pendingAny(s, k) == by_service[s].cid # 0 /\ k # 0

pending(s, k) == by_service[s].cid = k /\ k # 0

AllWaiters == UNION {by_service[s].waiters : s \in Services}

\* complete for every live waiter in W; a send to a dropped receiver is lost.
Tell(W, outcome) ==
  rx' = [w \in Calls |-> IF w \in W /\ ~is_closed(w) THEN outcome ELSE rx[w]]

\* remove(service, cid): only the matching attempt.
remove(s) == by_service' = [by_service EXCEPT ![s] = NoAttempt]

Go(c, label) == pc' = [pc EXCEPT ![c] = label]

-----------------------------------------------------------------------------
(* A call. *)

\* The test of open_services before any other lock.
EnsureService(c) ==
  /\ pc[c] = "idle"
  /\ Go(c, IF service[c] \in open_services THEN "ended" ELSE "checked")
  /\ UNCHANGED <<table, service, attempt, rx, expired, taken, dispatch, session, flags>>

\* The shared lifecycle guard (held while pc[c] is "gate" or "opening") and the flag.
Enter(c) ==
  /\ pc[c] = "checked"
  /\ Go(c, IF shutting_down THEN "ended" ELSE "gate")
  /\ UNCHANGED <<table, service, attempt, rx, expired, taken, dispatch, session, flags>>

\* The second test, under the lock: the request worker returns, the
\* subscription session hands out a receiver that is already resolved.
AlreadyOpen(c) ==
  /\ pc[c] = "gate"
  /\ service[c] \in open_services
  /\ IF state_lock
       THEN Go(c, "waiting") /\ rx' = [rx EXCEPT ![c] = "ok"]
       ELSE Go(c, "ended") /\ UNCHANGED rx
  /\ UNCHANGED <<table, service, attempt, expired, taken, dispatch, session, flags>>

Join(c) ==
  /\ pc[c] = "gate"
  /\ service[c] \notin open_services
  /\ by_service[service[c]] # NoAttempt
  /\ by_service' = [by_service EXCEPT
       ![service[c]].waiters = {w \in @ : ~is_closed(w)} \cup {c}]
  /\ attempt' = [attempt EXCEPT ![c] = by_service[service[c]].cid]
  /\ Go(c, "waiting")
  /\ UNCHANGED <<open_services, next_id, service, rx, expired, taken, dispatch, session, flags>>

\* The attempt of the new number waits for its answer.
NewAttempt ==
  /\ next_id' = next_id + 1
  /\ answered' = [k \in 1 .. next_id' |-> IF k = next_id' THEN "none" ELSE answered[k]]

\* Mutant: open_services is not tested again under the lock.
RegisterUnchecked(c) ==
  /\ pc[c] = "gate"
  /\ by_service[service[c]] = NoAttempt
  /\ NewAttempt
  /\ IF state_lock
       THEN Go(c, "opening") /\ UNCHANGED sdk
       ELSE Go(c, "waiting") /\ sdk' = sdk \cup {next_id'}
  /\ by_service' = [by_service EXCEPT
       ![service[c]] = [cid |-> next_id', waiters |-> {c}]]
  /\ attempt' = [attempt EXCEPT ![c] = next_id']
  /\ UNCHANGED <<open_services, service, rx, expired, taken, dispatch, over, flags>>

\* register made a new attempt.  The request worker calls the SDK under the
\* same lock, and takes the attempt out again when the SDK refuses the call;
\* the subscription session has released its lock first ("opening").
Register(c) ==
  /\ pc[c] = "gate"
  /\ service[c] \notin open_services
  /\ by_service[service[c]] = NoAttempt
  /\ NewAttempt
  /\ \/ /\ state_lock
        /\ Go(c, "opening")
        /\ UNCHANGED sdk
     \/ /\ ~state_lock
        /\ Go(c, "waiting")
        /\ sdk' = sdk \cup {next_id'}
     \/ /\ ~state_lock
        /\ Go(c, "ended")
        /\ UNCHANGED sdk
  /\ IF pc'[c] = "ended"
       THEN UNCHANGED <<by_service, attempt>>
       ELSE /\ by_service' = [by_service EXCEPT
                 ![service[c]] = [cid |-> next_id', waiters |-> {c}]]
            /\ attempt' = [attempt EXCEPT ![c] = next_id']
  /\ UNCHANGED <<open_services, service, rx, expired, taken, dispatch, over, flags>>

\* open_service_async of the subscription session.  A refused call drops the
\* attempt: waiters that joined it lose their sender.
OpenAsync(c) ==
  /\ pc[c] = "opening"
  /\ \/ /\ Go(c, "waiting")
        /\ sdk' = sdk \cup {attempt[c]}
        /\ UNCHANGED <<table, rx>>
     \/ /\ Go(c, "ended")
        /\ IF pending(service[c], attempt[c])
             THEN /\ remove(service[c])
                  /\ Tell(by_service[service[c]].waiters \ {c}, "closed")
             ELSE UNCHANGED <<by_service, rx>>
        /\ UNCHANGED <<open_services, next_id, sdk>>
  /\ UNCHANGED <<service, attempt, expired, taken, dispatch, answered, over, flags>>

\* The receiver resolves.
Receive(c) ==
  /\ pc[c] = "waiting"
  /\ rx[c] # "empty"
  /\ Go(c, "leaving")
  /\ UNCHANGED <<table, service, attempt, rx, expired, taken, dispatch, session, flags>>

\* The caller drops the future.
Cancel(c) ==
  /\ pc[c] = "waiting"
  /\ Go(c, "leaving")
  /\ UNCHANGED <<table, service, attempt, rx, expired, taken, dispatch, session, flags>>

\* SERVICE_OPEN_TIMEOUT: the receiver is polled before the timer.
Expire(c) ==
  /\ pc[c] = "waiting"
  /\ rx[c] = "empty"
  /\ expired' = expired \cup {attempt[c]}
  /\ Go(c, "expired")
  /\ UNCHANGED <<table, service, attempt, rx, taken, dispatch, session, flags>>

\* remove_attempt, and complete for every waiter of the attempt.
Retire(c) ==
  /\ pc[c] = "expired"
  /\ IF pending(service[c], attempt[c])
       THEN /\ remove(service[c])
            /\ taken' = [taken EXCEPT ![c] = by_service[service[c]].waiters \X {"timeout"}]
       ELSE UNCHANGED <<by_service, taken>>
  /\ Go(c, "retiring")
  /\ UNCHANGED <<open_services, next_id, service, attempt, rx, expired, dispatch, session, flags>>

Retired(c) ==
  /\ pc[c] = "retiring"
  /\ taken[c] = {}
  /\ Go(c, "leaving")
  /\ UNCHANGED <<table, service, attempt, rx, expired, taken, dispatch, session, flags>>

\* Mutant: an attempt is kept when its last waiter goes.
PruneKeepsAttempt(c) ==
  /\ pc[c] = "leaving"
  /\ Go(c, "ended")
  /\ rx' = [rx EXCEPT ![c] = "empty"]
  /\ LET live == {w \in by_service[service[c]].waiters : ~is_closed(w)} IN
     by_service' = IF pending(service[c], attempt[c])
                     THEN [by_service EXCEPT ![service[c]].waiters = live]
                     ELSE by_service
  /\ UNCHANGED <<open_services, next_id, service, attempt, expired, taken, dispatch,
                 session, flags>>

\* Drop of PendingWaiter: the receiver is gone, prune the attempt.
Prune(c) ==
  /\ pc[c] = "leaving"
  /\ Go(c, "ended")
  /\ rx' = [rx EXCEPT ![c] = "empty"]
  /\ LET live == {w \in by_service[service[c]].waiters : ~is_closed(w)} IN
     IF pending(service[c], attempt[c])
       THEN by_service' = [by_service EXCEPT
              ![service[c]] = IF live = {} THEN NoAttempt ELSE [@ EXCEPT !.waiters = live]]
       ELSE UNCHANGED by_service
  /\ UNCHANGED <<open_services, next_id, service, attempt, expired, taken, dispatch,
                 session, flags>>

-----------------------------------------------------------------------------
(* complete: one oneshot after the other. *)

Complete(a) ==
  /\ a = Dispatcher => inserting = {}
  /\ \E t \in taken[a] :
       /\ rx' = IF is_closed(t[1]) THEN rx ELSE [rx EXCEPT ![t[1]] = t[2]]
       /\ taken' = [taken EXCEPT ![a] = @ \ {t}]
  /\ UNCHANGED <<table, pc, service, attempt, expired, dispatch, session, flags>>

-----------------------------------------------------------------------------
(* The dispatcher. *)

DispatcherIdle == taken[Dispatcher] = {} /\ inserting = {} /\ ~draining

Answers == {"opened", "failed"}
Verdict(m) == IF m = "opened" THEN "ok" ELSE "failed"

\* ServiceOpened or ServiceOpenFailure of an attempt that is no longer pending.
LateAnswer(k) ==
  /\ DispatcherIdle /\ ~over
  /\ \A s \in Services : ~pending(s, k)
  /\ sdk' = sdk \ {k}
  /\ answered' = [answered EXCEPT ![k] = "late"]
  /\ UNCHANGED <<table, call, taken, dispatch, over, flags>>

\* The request worker removes the attempt under the lock, and then ...
TakeAnswer(k, m, s) ==
  /\ ~state_lock
  /\ DispatcherIdle /\ ~over
  /\ pending(s, k)
  /\ sdk' = sdk \ {k}
  /\ answered' = [answered EXCEPT ![k] = m]
  /\ remove(s)
  /\ taken' = [taken EXCEPT ![Dispatcher] = by_service[s].waiters \X {Verdict(m)}]
  /\ inserting' = IF m = "opened" THEN {s} ELSE {}
  /\ UNCHANGED <<open_services, next_id, call, draining, over, flags>>

\* ... records the service before it resolves the waiters.
InsertOpen ==
  /\ inserting # {}
  /\ open_services' = open_services \cup inserting
  /\ inserting' = {}
  /\ UNCHANGED <<next_id, by_service, call, taken, draining, session, flags>>

\* The subscription session does all of it under its state lock.
HandleStatus(k, m, s) ==
  /\ state_lock
  /\ ~over
  /\ pending(s, k)
  /\ sdk' = sdk \ {k}
  /\ answered' = [answered EXCEPT ![k] = m]
  /\ remove(s)
  /\ open_services' = IF m = "opened" THEN open_services \cup {s} ELSE open_services
  /\ Tell(by_service[s].waiters, Verdict(m))
  /\ UNCHANGED <<next_id, pc, service, attempt, expired, taken, dispatch, over, flags>>

\* The table is drained by a: the subscription session resolves the waiters
\* under its lock, fail_pending_service_opens after it.
DrainTable(a) ==
  /\ by_service' = [s \in Services |-> NoAttempt]
  /\ IF state_lock
       THEN Tell(AllWaiters, "failed") /\ UNCHANGED taken
       ELSE /\ taken' = [taken EXCEPT ![a] = @ \cup (AllWaiters \X {"failed"})]
            /\ UNCHANGED rx

\* SessionTerminated, or AuthorizationRevoked, which leaves the SDK session
\* running; neither takes the lifecycle guard.  The request worker raises the
\* flag and drains afterwards.
SessionEnds ==
  /\ DispatcherIdle
  /\ ~over
  /\ over' \in BOOLEAN /\ shutting_down' = TRUE
  /\ IF state_lock
       THEN DrainTable(Dispatcher) /\ UNCHANGED draining
       ELSE draining' = TRUE /\ UNCHANGED <<by_service, rx, taken>>
  /\ UNCHANGED <<open_services, next_id, pc, service, attempt, expired, inserting, sdk,
                 answered, stopped>>

Drain ==
  /\ draining
  /\ draining' = FALSE
  /\ DrainTable(Dispatcher)
  /\ UNCHANGED <<open_services, next_id, pc, service, attempt, expired, inserting, session,
                 flags>>

-----------------------------------------------------------------------------
(* signal_shutdown, and shutdown_blocking, which waits for the session and its *)
(* callbacks.  The exclusive lifecycle guard waits for the calls at the gate.  *)

\* Mutant: the shutdown does not wait for calls at the gate.
GuardedNobody == {}

Guarded == {c \in Calls : pc[c] \in {"gate", "opening"}}

Shutdown ==
  /\ ~stopped
  /\ Guarded = {}
  /\ stopped' = TRUE /\ shutting_down' = TRUE
  /\ DrainTable(Stopper)
  /\ \/ UNCHANGED over
     \/ DispatcherIdle /\ over' = TRUE
  /\ UNCHANGED <<open_services, next_id, pc, service, attempt, expired, dispatch, sdk, answered>>

-----------------------------------------------------------------------------
CallStep(c) ==
  \/ EnsureService(c) \/ Enter(c) \/ AlreadyOpen(c) \/ Join(c) \/ Register(c) \/ OpenAsync(c)
  \/ Receive(c) \/ Cancel(c) \/ Expire(c) \/ Retire(c) \/ Retired(c) \/ Prune(c)

DispatcherStep ==
  \/ \E k \in sdk : LateAnswer(k)
  \/ \E k \in sdk, m \in Answers, s \in Services : TakeAnswer(k, m, s) \/ HandleStatus(k, m, s)
  \/ InsertOpen \/ SessionEnds \/ Drain

OpensNext ==
  /\ \/ \E c \in Calls : CallStep(c)
     \/ \E a \in Actors : Complete(a)
     \/ DispatcherStep
     \/ Shutdown
  /\ UNCHANGED state_lock

OpensSpec == OpensInit /\ [][OpensNext]_opensvars

-----------------------------------------------------------------------------
(* Properties. *)

TableType ==
  /\ open_services \subseteq Services /\ next_id \in Nat
  /\ by_service \in [Services -> [cid : Nat, waiters : SUBSET Calls]]

CallType ==
  /\ pc \in [Calls -> {"idle", "checked", "gate", "opening", "waiting", "expired",
                       "retiring", "leaving", "ended"}]
  /\ service \in [Calls -> Services]
  /\ attempt \in [Calls -> Nat] /\ expired \subseteq Nat
  /\ rx \in [Calls -> Outcomes \cup {"empty", "closed"}]

TakenType == taken \in [Actors -> SUBSET (Calls \X Outcomes)]

SessionType ==
  /\ inserting \subseteq Services /\ sdk \subseteq Nat
  /\ answered \in [1 .. next_id -> Answers \cup {"none", "late"}]
  /\ {state_lock, shutting_down, stopped, draining, over} \subseteq BOOLEAN

OpensTypeOK == TableType /\ CallType /\ TakenType /\ SessionType

\* The sender of call c is with a thread that has yet to resolve it.
InHand(c) == \E a \in Actors, o \in Outcomes : <<c, o>> \in taken[a]

\* Every sender of a waiting call is where somebody will resolve it: in the
\* table under the call's own attempt, or in the taken of the thread that took
\* the attempt out.  register, remove, remove_by_cid, prune and drain move
\* senders between the two and must lose none.
NoLostWaiter ==
  \A c \in Calls : pc[c] \in {"opening", "waiting"} /\ rx[c] = "empty" =>
    \/ c \in by_service[service[c]].waiters /\ by_service[service[c]].cid = attempt[c]
    \/ InHand(c)

\* A call is resolved with the fate of its own attempt.  Success needs the SDK's
\* ServiceOpened for that attempt, taken while it was pending, and the service
\* on record as open; a timeout needs a call of that very attempt whose timer
\* fired.  A late answer to an older attempt, or an older timer, resolves nobody.
OwnAttempt ==
  \A c \in Calls : attempt[c] # 0 =>
    /\ rx[c] = "ok" => answered[attempt[c]] = "opened" /\ service[c] \in open_services
    /\ rx[c] = "failed" => answered[attempt[c]] = "failed" \/ shutting_down
    /\ rx[c] = "timeout" => attempt[c] \in expired

\* A pending attempt has a call that will still take it out (by its answer,
\* timer or drop): the table holds no attempt that later calls would join in
\* vain, and the session becomes clean again once its calls are gone.
NoZombieAttempt ==
  \A s \in Services : by_service[s].cid # 0 =>
    \E c \in by_service[s].waiters :
      attempt[c] = by_service[s].cid /\ pc[c] \notin {"idle", "ended"}

\* The table and the calls agree, after every step of a call, a timer, the
\* dispatcher or a shutdown.
TableConsistent == OpensTypeOK /\ NoLostWaiter /\ NoZombieAttempt

\* After an explicit shutdown the table stays empty: the exclusive lifecycle
\* guard leaves no call between its test of the flag and its registration.
ShutdownSettlesOpens ==
  stopped => \A s \in Services : by_service[s] = NoAttempt

\* A subscription session opens a service once: register_service_waiter makes no
\* attempt for a service whose ServiceOpened was taken for a pending attempt.
\* The request worker gives no such promise: its dispatcher removes the attempt
\* and records the service under two locks, and a call may come in between.
OpenedOnce ==
  [][state_lock /\ next_id' # next_id =>
       \A c \in Calls : pc[c] = "gate" /\ pc'[c] # "gate" =>
         \A d \in Calls : service[d] = service[c] /\ attempt[d] # 0 =>
           answered[attempt[d]] # "opened"]_opensvars

-----------------------------------------------------------------------------
(* The inductive invariant behind the properties. *)

Before == {"idle", "checked", "gate"}

\* Attempts have the numbers handed out so far.
Numbered ==
  /\ \A c \in Calls : attempt[c] <= next_id
  /\ \A s \in Services : by_service[s].cid <= next_id
  /\ \A k \in sdk : k # 0 /\ k <= next_id
  /\ \A k \in sdk : answered[k] = "none"

\* A call that has not reached the table has no attempt and no answer; the one
\* that is about to ask the SDK for its attempt is the only one to do so.  The
\* attempt of an expired call is known to have expired.
Starting ==
  /\ \A c \in Calls : pc[c] \in Before => attempt[c] = 0 /\ rx[c] = "empty"
  /\ \A c \in Calls : pc[c] = "opening" =>
       /\ attempt[c] # 0 /\ attempt[c] \notin sdk /\ answered[attempt[c]] = "none"
       /\ \A d \in Calls : pc[d] = "opening" /\ attempt[d] = attempt[c] => c = d
  /\ \A c \in Calls : pc[c] = "expired" => attempt[c] \in expired

\* A pending attempt is unanswered and belongs to one service, and its waiters
\* are calls that wait for it.
Joined ==
  /\ \A s \in Services : by_service[s].cid # 0 => answered[by_service[s].cid] = "none"
  /\ \A s \in Services : by_service[s].cid = 0 <=> by_service[s].waiters = {}
  /\ \A s \in Services : \A c \in by_service[s].waiters :
       /\ service[c] = s /\ attempt[c] = by_service[s].cid
       /\ pc[c] \in {"opening", "waiting", "expired", "leaving"}
  /\ \A s \in Services, c \in Calls :
       by_service[s].cid # 0 /\ attempt[c] = by_service[s].cid => service[c] = s

\* What answer o says about call c.
Deserved(c, o, open) ==
  /\ o = "ok" => answered[attempt[c]] = "opened" /\ service[c] \in open
  /\ o = "failed" => answered[attempt[c]] = "failed" \/ shutting_down
  /\ o = "timeout" => attempt[c] \in expired

\* A sender in the hands of a thread gets what its call deserves.
Owed ==
  /\ \A a \in Actors : \A t \in taken[a] :
       /\ pc[t[1]] \notin Before /\ attempt[t[1]] # 0
       /\ Deserved(t[1], t[2], open_services \cup
                    IF a = Dispatcher THEN inserting ELSE {})
  /\ \A c \in Calls : taken[c] # {} => pc[c] = "retiring"

\* Who is about to drain the table has raised the flag, and a stop that waited
\* for the calls at the gate lets no other through.
Stopped ==
  /\ stopped \/ draining => shutting_down
  /\ stopped => Guarded = {}

\* A subscription session records the service with the answer.
Recorded ==
  state_lock => \A c \in Calls :
    attempt[c] # 0 /\ answered[attempt[c]] = "opened" => service[c] \in open_services

OpensInv ==
  /\ OpensTypeOK /\ NoLostWaiter /\ OwnAttempt /\ ShutdownSettlesOpens
  /\ Numbered /\ Starting /\ Joined /\ Owed /\ Stopped /\ Recorded
=============================================================================
