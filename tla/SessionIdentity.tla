--------------------------- MODULE SessionIdentity ---------------------------
(***************************************************************************)
(* The session identity of an engine with configured authentication        *)
(* (worker.rs): the latch IdentityAuthState, ensure_identity with its      *)
(* waiters and timer, the authorization messages the dispatcher handles,   *)
(* and the teardown paths that fail an authorization in flight.            *)
(*                                                                         *)
(* A member of Calls is one call of with_identity.  All authorizations use *)
(* the same correlation ID; attempt numbers exist only in this model.      *)
(***************************************************************************)
EXTENDS SessionEnd

CONSTANT MaxRevocations

ASSUME RevocationsBound == MaxRevocations \in Nat

VARIABLES
  identity, waiters,  \* IdentityAuthState, and the senders of Pending
  issued,             \* authorizations issued so far
  latch_sdk,          \* those the SDK has not answered
  last,               \* the last authorization message handled
  revocations,
  \* Each call: place, authorization it waits for, oneshot.
  latch_pc, latch_attempt, latch_rx,
  latch_expired,      \* authorizations some call waited for in vain
  failing,            \* failing[a]: how far a is in fail_pending_identity
  latch_taken         \* latch_taken[a]: waiters a removed, with what it must tell them

latch == <<identity, waiters>>
latch_session == <<issued, latch_sdk, last, revocations, over>>
latch_call == <<latch_pc, latch_attempt, latch_rx, latch_expired>>
hands == <<failing, latch_taken>>
latchvars == <<latch, latch_session, latch_call, hands, flags>>

LatchInit ==
  /\ identity = "NotRequested" /\ waiters = {}
  /\ issued = 0 /\ latch_sdk = {} /\ last = "none" /\ revocations = 0 /\ over = FALSE
  /\ shutting_down = FALSE /\ stopped = FALSE
  /\ latch_pc = [c \in Calls |-> "idle"]
  /\ latch_attempt = [c \in Calls |-> 0]
  /\ latch_rx = [c \in Calls |-> "empty"]
  /\ latch_expired = {}
  /\ failing = [a \in Actors |-> "no"]
  /\ latch_taken = [a \in Actors |-> {}]

GoLatch(c, label) == latch_pc' = [latch_pc EXCEPT ![c] = label]

\* The receiver is dropped when the call stops waiting.
is_dropped(c) == latch_pc[c] \in {"granted", "leaving", "use", "ended"}

-----------------------------------------------------------------------------
(* ensure_identity. *)

\* The shared lifecycle guard (held while latch_pc[c] = "gate") and the flag.
EnterIdentity(c) ==
  /\ latch_pc[c] = "idle"
  /\ GoLatch(c, IF shutting_down THEN "ended" ELSE "gate")
  /\ UNCHANGED <<latch, latch_session, latch_attempt, latch_rx, latch_expired, hands, flags>>

Ready(c) ==
  /\ latch_pc[c] = "gate"
  /\ identity = "Ready"
  /\ GoLatch(c, "use")
  /\ UNCHANGED <<latch, latch_session, latch_attempt, latch_rx, latch_expired, hands, flags>>

JoinIdentity(c) ==
  /\ latch_pc[c] = "gate"
  /\ identity = "Pending"
  /\ waiters' = {w \in waiters : ~is_dropped(w)} \cup {c}
  /\ latch_attempt' = [latch_attempt EXCEPT ![c] = issued]
  /\ GoLatch(c, "waiting")
  /\ UNCHANGED <<identity, latch_session, latch_rx, latch_expired, hands, flags>>

\* generate_authorized_identity_async is enqueued, or refused, under the lock.
Issue(c) ==
  /\ latch_pc[c] = "gate"
  /\ identity \in {"NotRequested", "Failed"}
  /\ \/ /\ issued' = issued + 1
        /\ latch_sdk' = latch_sdk \cup {issued'}
        /\ identity' = "Pending" /\ waiters' = {c}
        /\ latch_attempt' = [latch_attempt EXCEPT ![c] = issued']
        /\ GoLatch(c, "waiting")
     \/ /\ GoLatch(c, "ended")
        /\ UNCHANGED <<latch, issued, latch_sdk, latch_attempt>>
  /\ UNCHANGED <<last, revocations, over, latch_rx, latch_expired, hands, flags>>

ReceiveIdentity(c) ==
  /\ latch_pc[c] = "waiting"
  /\ latch_rx[c] # "empty"
  /\ GoLatch(c, IF latch_rx[c] = "ok" THEN "granted" ELSE "leaving")
  /\ UNCHANGED <<latch, latch_session, latch_attempt, latch_rx, latch_expired, hands, flags>>

CancelIdentity(c) ==
  /\ latch_pc[c] = "waiting"
  /\ GoLatch(c, "leaving")
  /\ UNCHANGED <<latch, latch_session, latch_attempt, latch_rx, latch_expired, hands, flags>>

\* IDENTITY_AUTH_TIMEOUT_MS: the call goes on to fail_pending_identity.
ExpireIdentity(c) ==
  /\ latch_pc[c] = "waiting"
  /\ latch_rx[c] = "empty"
  /\ latch_expired' = latch_expired \cup {latch_attempt[c]}
  /\ failing' = [failing EXCEPT ![c] = "check"]
  /\ GoLatch(c, "expired")
  /\ UNCHANGED <<latch, latch_session, latch_attempt, latch_rx, latch_taken, flags>>

Expired(c) ==
  /\ latch_pc[c] = "expired"
  /\ failing[c] = "no" /\ latch_taken[c] = {}
  /\ GoLatch(c, "leaving")
  /\ UNCHANGED <<latch, latch_session, latch_attempt, latch_rx, latch_expired, hands, flags>>

\* Drop of PendingWaiter: prune_pending_identity_waiters; then with_identity
\* goes on, or returns the error.
Leave(c) ==
  /\ latch_pc[c] \in {"granted", "leaving"}
  /\ waiters' = {w \in waiters : ~is_dropped(w)}
  /\ GoLatch(c, IF latch_pc[c] = "granted" THEN "use" ELSE "ended")
  /\ latch_attempt' = [latch_attempt EXCEPT ![c] = 0]
  /\ latch_rx' = [latch_rx EXCEPT ![c] = "empty"]
  /\ UNCHANGED <<identity, latch_session, latch_expired, hands, flags>>

\* authorized_identity and op, under the shared guard.
Use(c) ==
  /\ latch_pc[c] = "use"
  /\ GoLatch(c, "ended")
  /\ UNCHANGED <<latch, latch_session, latch_attempt, latch_rx, latch_expired, hands, flags>>

-----------------------------------------------------------------------------
(* resolve_identity replaces the state and takes the waiters of Pending;     *)
(* complete then resolves them one by one.                                   *)

resolve_identity(a, outcome) ==
  /\ identity' = IF outcome = "ok" THEN "Ready" ELSE "Failed"
  /\ waiters' = {}
  /\ latch_taken' = [latch_taken EXCEPT ![a] = waiters \X {outcome}]

CompleteIdentity(a) ==
  /\ \E t \in latch_taken[a] :
       /\ latch_rx' = IF is_dropped(t[1]) THEN latch_rx ELSE [latch_rx EXCEPT ![t[1]] = t[2]]
       /\ latch_taken' = [latch_taken EXCEPT ![a] = @ \ {t}]
  /\ UNCHANGED <<latch, latch_session, latch_pc, latch_attempt, latch_expired, failing, flags>>

\* fail_pending_identity tests the state under the lock and resolves under a
\* second acquisition.
FailCheck(a) ==
  /\ failing[a] = "check"
  /\ failing' = [failing EXCEPT ![a] = IF identity = "Pending" THEN "resolve" ELSE "no"]
  /\ UNCHANGED <<latch, latch_session, latch_call, latch_taken, flags>>

FailResolve(a) ==
  /\ failing[a] = "resolve"
  /\ failing' = [failing EXCEPT ![a] = "no"]
  /\ resolve_identity(a, IF a \in Calls THEN "timedout" ELSE "failed")
  /\ UNCHANGED <<latch_session, latch_call, flags>>

-----------------------------------------------------------------------------
(* The dispatcher. *)

Busy(a) == failing[a] # "no" \/ latch_taken[a] # {}

\* AuthorizationSuccess or AuthorizationFailure for IDENTITY_CID.
Authorization(k, m) ==
  /\ ~Busy(Dispatcher) /\ ~over
  /\ k \in latch_sdk
  /\ latch_sdk' = latch_sdk \ {k}
  /\ last' = m
  /\ resolve_identity(Dispatcher, m)
  /\ UNCHANGED <<issued, revocations, over, latch_call, failing, flags>>

\* AuthorizationRevoked for IDENTITY_CID: the assignment drops the senders of
\* an authorization in flight.
Revoked ==
  /\ ~Busy(Dispatcher) /\ ~over
  /\ issued # 0
  /\ revocations < MaxRevocations
  /\ revocations' = revocations + 1
  /\ last' = "revoked"
  /\ identity' = "Failed" /\ waiters' = {}
  /\ latch_rx' = [w \in Calls |->
                    IF w \in waiters /\ ~is_dropped(w) THEN "closed" ELSE latch_rx[w]]
  /\ UNCHANGED <<issued, latch_sdk, over, latch_pc, latch_attempt, latch_expired, hands,
                 flags>>

\* SessionTerminated, or AuthorizationRevoked for the session, which leaves the
\* SDK session running; neither takes the lifecycle guard.
LatchSessionEnds ==
  /\ ~Busy(Dispatcher)
  /\ ~over
  /\ over' \in BOOLEAN /\ shutting_down' = TRUE
  /\ failing' = [failing EXCEPT ![Dispatcher] = "check"]
  /\ UNCHANGED <<latch, issued, latch_sdk, last, revocations, latch_call, latch_taken,
                 stopped>>

\* Mutant: the flag is raised without the exclusive lifecycle guard.
LatchShutdownUnguarded ==
  /\ ~stopped
  /\ stopped' = TRUE /\ shutting_down' = TRUE
  /\ failing' = [failing EXCEPT ![Stopper] = "check"]
  /\ UNCHANGED <<latch, latch_session, latch_call, latch_taken>>

\* signal_shutdown, and shutdown_blocking, which waits for the callbacks first.
LatchShutdown ==
  /\ ~stopped
  /\ \A c \in Calls : latch_pc[c] # "gate"
  /\ stopped' = TRUE /\ shutting_down' = TRUE
  /\ failing' = [failing EXCEPT ![Stopper] = "check"]
  /\ \/ UNCHANGED over
     \/ ~Busy(Dispatcher) /\ over' = TRUE
  /\ UNCHANGED <<latch, issued, latch_sdk, last, revocations, latch_call, latch_taken>>

-----------------------------------------------------------------------------
IdentityStep(c) ==
  \/ EnterIdentity(c) \/ Ready(c) \/ JoinIdentity(c) \/ Issue(c)
  \/ ReceiveIdentity(c) \/ CancelIdentity(c) \/ ExpireIdentity(c) \/ Expired(c) \/ Leave(c) \/ Use(c)

LatchNext ==
  \/ \E c \in Calls : IdentityStep(c)
  \/ \E a \in Actors : CompleteIdentity(a) \/ FailCheck(a) \/ FailResolve(a)
  \/ \E k \in 1 .. Cardinality(Calls), m \in {"ok", "failed"} : Authorization(k, m)
  \/ Revoked \/ LatchSessionEnds \/ LatchShutdown

LatchSpec == LatchInit /\ [][LatchNext]_latchvars

-----------------------------------------------------------------------------
(* Properties. *)

LatchTypeOK ==
  /\ identity \in {"NotRequested", "Pending", "Ready", "Failed"}
  /\ waiters \subseteq Calls
  /\ issued \in Nat /\ latch_sdk \subseteq Nat /\ revocations \in Nat
  /\ last \in {"none", "ok", "failed", "revoked"}
  /\ {shutting_down, stopped, over} \subseteq BOOLEAN
  /\ latch_pc \in [Calls -> {"idle", "gate", "waiting", "expired", "granted", "leaving", "use",
                       "ended"}]
  /\ latch_attempt \in [Calls -> Nat] /\ latch_expired \subseteq Nat
  /\ latch_rx \in [Calls -> {"empty", "ok", "failed", "timedout", "closed"}]
  /\ failing \in [Actors -> {"no", "check", "resolve"}]
  /\ latch_taken \in [Actors -> SUBSET (Calls \X {"ok", "failed", "timedout"})]

\* A waiting call is still among the waiters of Pending or in the hands of the
\* thread that took them: no path through the latch forgets a waiter, although
\* every resolution replaces the state and prune rewrites the list.
NoForgottenWaiter ==
  \A c \in Calls : latch_pc[c] = "waiting" /\ latch_rx[c] = "empty" =>
    \/ c \in waiters /\ identity = "Pending"
    \/ \E a \in Actors, o \in {"ok", "failed", "timedout"} : <<c, o>> \in latch_taken[a]

\* The latch says Ready only while the last word of the SDK on the identity was
\* AuthorizationSuccess: after a revocation or a failure the next call
\* authorizes again, whatever timers and teardowns do to the latch meanwhile.
ReadyIsAuthorized == identity = "Ready" => last = "ok"

\* Once an explicit shutdown has run to its end no authorization is pending and
\* none can be issued.
ShutdownSettlesIdentity ==
  stopped /\ ~Busy(Stopper) => identity # "Pending"

\* The latch and the calls agree, whichever of the calls, timers, dispatcher and
\* teardown paths replaced the latch last.
LatchConsistent ==
  LatchTypeOK /\ NoForgottenWaiter /\ ReadyIsAuthorized /\ ShutdownSettlesIdentity

\* A waiter is failed by a timeout only when a waiter of the same authorization
\* ran into its timeout: the timeout fails "the attempt".
TimeoutFailsOwnAttempt ==
  \A c \in Calls : latch_rx[c] = "timedout" => latch_attempt[c] \in latch_expired

-----------------------------------------------------------------------------
(* The inductive invariant behind LatchConsistent. *)

\* A thread resolves the latch with empty hands: a call only once its timer has
\* run out, the stopper only once it has raised the flag.
LatchHands ==
  /\ \A a \in Actors : failing[a] # "no" => latch_taken[a] = {}
  /\ \A c \in Calls : Busy(c) => latch_pc[c] = "expired"
  /\ Busy(Stopper) => stopped

\* The stopper waited for the calls at the gate and lets no other through; it
\* leaves no authorization pending once it is through fail_pending_identity.
LatchStopped ==
  stopped => /\ shutting_down
             /\ \A c \in Calls : latch_pc[c] # "gate"
             /\ failing[Stopper] = "no" => identity # "Pending"

LatchInv == LatchConsistent /\ LatchHands /\ LatchStopped
=============================================================================
