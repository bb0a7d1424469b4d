--------------------------- MODULE ClassicIdentity ---------------------------
(***************************************************************************)
(* The classic authorization flow of an engine without configured          *)
(* authentication (worker.rs): generateToken, then an AuthorizationRequest *)
(* for a fresh identity, then the operation, on one blocking thread per    *)
(* call.  Each of the two stages waits on a slot of the worker             *)
(* (pending_token, pending_identity_auth) and uses one fixed correlation   *)
(* ID, so an answer goes to whoever is in the slot.                        *)
(*                                                                         *)
(* A member of Calls is one call of with_identity: the future that holds   *)
(* identity_flow_lock (caller[c]) and the blocking thread it spawns        *)
(* (stage[c], phase[c]).  Dropping the future does not stop the thread.    *)
(***************************************************************************)
EXTENDS SessionEnd

CONSTANT Nobody

ASSUME NobodyCalls == Nobody \notin Calls

VARIABLES
  flow_lock,      \* the call that holds identity_flow_lock
  caller,         \* the future of each call
  stage, phase,   \* its blocking thread
  step_rx,        \* the channel the thread waits on
  slot,           \* slot[st]: the call whose sender is in the slot of stage st
  asked,          \* asked[st]: calls whose SDK request of stage st is unanswered
  authorized,     \* identities the SDK has authorized
  timed_out,      \* some stage has run into its timeout
  cancelled,      \* some running flow has lost its future
  step_failing    \* step_failing[a]: slots a has yet to fail in fail_pending_identity

thread == <<stage, phase>>
future == <<flow_lock, caller, cancelled>>
classic_session == <<asked, authorized, over>>
classicvars == <<future, thread, step_rx, slot, classic_session, timed_out,
                 step_failing, flags>>

Stages == {"token", "auth"}
Tearing == {Dispatcher, Stopper}

ClassicInit ==
  /\ flow_lock = Nobody
  /\ caller = [c \in Calls |-> "idle"]
  /\ stage = [c \in Calls |-> "token"] /\ phase = [c \in Calls |-> "none"]
  /\ step_rx = [c \in Calls |-> "empty"]
  /\ slot = [st \in Stages |-> Nobody]
  /\ asked = [st \in Stages |-> {}]
  /\ authorized = {}
  /\ timed_out = FALSE /\ cancelled = FALSE
  /\ step_failing = [a \in Tearing |-> {}]
  /\ shutting_down = FALSE /\ stopped = FALSE /\ over = FALSE

-----------------------------------------------------------------------------
(* The future. *)

Begin(c) ==
  /\ caller[c] = "idle"
  /\ caller' = [caller EXCEPT ![c] = "queued"]
  /\ UNCHANGED <<flow_lock, cancelled, thread, step_rx, slot, classic_session, timed_out,
                 step_failing, flags>>

\* identity_flow_lock, then spawn_blocking.
LockFlow(c) ==
  /\ caller[c] = "queued"
  /\ flow_lock = Nobody
  /\ flow_lock' = c
  /\ caller' = [caller EXCEPT ![c] = "running"]
  /\ phase' = [phase EXCEPT ![c] = "start"]
  /\ UNCHANGED <<cancelled, stage, step_rx, slot, classic_session, timed_out,
                 step_failing, flags>>

Release(c) ==
  /\ flow_lock' = IF flow_lock = c THEN Nobody ELSE flow_lock
  /\ caller' = [caller EXCEPT ![c] = "ended"]
  /\ UNCHANGED <<thread, step_rx, slot, classic_session, timed_out,
                 step_failing, flags>>

Finish(c) ==
  /\ caller[c] = "running"
  /\ phase[c] = "done"
  /\ Release(c)
  /\ UNCHANGED cancelled

\* The caller drops the future; its lock guard goes, its thread does not.
CancelFlow(c) ==
  /\ caller[c] \in {"queued", "running"}
  /\ cancelled' = IF caller[c] = "running" THEN TRUE ELSE cancelled
  /\ Release(c)

-----------------------------------------------------------------------------
(* The blocking thread: a stage is the gate, the installation of a sender    *)
(* with the SDK call under the slot's lock, and recv_classic_step.           *)

Phase(c, p) == phase' = [phase EXCEPT ![c] = p]

\* The shared lifecycle guard (held while phase[c] = "gate") and the flag.
Gate(c) ==
  /\ phase[c] = "start"
  /\ Phase(c, IF shutting_down THEN "done" ELSE "gate")
  /\ UNCHANGED <<future, stage, step_rx, slot, classic_session, timed_out,
                 step_failing, flags>>

\* A sender is installed over whatever the slot held; a refused SDK call
\* takes it out again.
Install(c) ==
  LET old == slot[stage[c]] IN
  /\ phase[c] = "gate"
  /\ step_rx' = [d \in Calls |->
       IF d = c THEN "empty" ELSE IF d = old THEN "closed" ELSE step_rx[d]]
  /\ \/ /\ Phase(c, "wait")
        /\ slot' = [slot EXCEPT ![stage[c]] = c]
        /\ asked' = [asked EXCEPT ![stage[c]] = @ \cup {c}]
     \/ /\ Phase(c, "done")
        /\ slot' = [slot EXCEPT ![stage[c]] = Nobody]
        /\ UNCHANGED asked
  /\ UNCHANGED <<future, stage, authorized, over, timed_out,
                 step_failing, flags>>

\* Mutant: the outcome of the authorization is not looked at.
ReceivedUnchecked(c) ==
  /\ phase[c] = "wait"
  /\ step_rx[c] # "empty"
  /\ IF stage[c] = "token"
       THEN stage' = [stage EXCEPT ![c] = "auth"] /\ Phase(c, "start")
       ELSE Phase(c, "op") /\ UNCHANGED stage
  /\ UNCHANGED <<future, step_rx, slot, classic_session, timed_out,
                 step_failing, flags>>

\* recv_timeout returns the answer.  Building the AuthorizationRequest may fail.
Received(c) ==
  /\ phase[c] = "wait"
  /\ step_rx[c] # "empty"
  /\ \/ /\ step_rx[c] = "ok" /\ stage[c] = "token"
        /\ stage' = [stage EXCEPT ![c] = "auth"]
        /\ Phase(c, "start")
     \/ /\ step_rx[c] = "ok" /\ stage[c] = "auth"
        /\ Phase(c, "op")
        /\ UNCHANGED stage
     \/ /\ step_rx[c] # "ok" \/ stage[c] = "token"
        /\ Phase(c, "done")
        /\ UNCHANGED stage
  /\ UNCHANGED <<future, step_rx, slot, classic_session, timed_out,
                 step_failing, flags>>

\* recv_timeout runs out ...
TimesOut(c) ==
  /\ phase[c] = "wait"
  /\ step_rx[c] = "empty"
  /\ timed_out' = TRUE
  /\ Phase(c, "expired")
  /\ UNCHANGED <<future, stage, step_rx, slot, classic_session, step_failing, flags>>

\* Mutant: a timeout leaves its sender in the slot.
ClearNothing(c) ==
  /\ phase[c] = "expired"
  /\ Phase(c, "done")
  /\ UNCHANGED <<future, stage, step_rx, slot, classic_session, timed_out,
                 step_failing, flags>>

\* ... and whatever is in the slot is taken out.
ClearSlot(c) ==
  LET old == slot[stage[c]] IN
  /\ phase[c] = "expired"
  /\ slot' = [slot EXCEPT ![stage[c]] = Nobody]
  /\ step_rx' = [d \in Calls |-> IF d = old THEN "closed" ELSE step_rx[d]]
  /\ Phase(c, "done")
  /\ UNCHANGED <<future, stage, classic_session, timed_out,
                 step_failing, flags>>

\* op(identity) under the shared guard, unless the worker is shut down.
Op(c) ==
  /\ phase[c] = "op"
  /\ Phase(c, "done")
  /\ UNCHANGED <<future, stage, step_rx, slot, classic_session, timed_out,
                 step_failing, flags>>

-----------------------------------------------------------------------------
(* The dispatcher and the teardown. *)

\* slot.take() and send.
Fulfil(st, outcome) ==
  /\ slot' = [slot EXCEPT ![st] = Nobody]
  /\ step_rx' = [d \in Calls |-> IF d = slot[st] THEN outcome ELSE step_rx[d]]

\* handle_token_status and handle_identity_authorization_message: the answer to
\* the SDK request of call k.
Answer(st, k, outcome) ==
  /\ step_failing[Dispatcher] = {} /\ ~over
  /\ k \in asked[st]
  /\ asked' = [asked EXCEPT ![st] = @ \ {k}]
  /\ authorized' = IF st = "auth" /\ outcome = "ok" THEN authorized \cup {k} ELSE authorized
  /\ Fulfil(st, outcome)
  /\ UNCHANGED <<future, thread, over, timed_out,
                 step_failing, flags>>

\* SessionTerminated, or AuthorizationRevoked for the session, which leaves the
\* SDK session running; neither takes the lifecycle guard.
ClassicSessionEnds ==
  /\ step_failing[Dispatcher] = {}
  /\ ~over
  /\ over' \in BOOLEAN /\ shutting_down' = TRUE
  /\ step_failing' = [step_failing EXCEPT ![Dispatcher] = Stages]
  /\ UNCHANGED <<future, thread, step_rx, slot, asked, authorized, timed_out, stopped>>

\* signal_shutdown, and shutdown_blocking, which waits for the callbacks first.
ClassicShutdown ==
  /\ ~stopped
  /\ \A c \in Calls : phase[c] # "gate"
  /\ stopped' = TRUE /\ shutting_down' = TRUE
  /\ step_failing' = [step_failing EXCEPT ![Stopper] = Stages]
  /\ \/ UNCHANGED over
     \/ step_failing[Dispatcher] = {} /\ over' = TRUE
  /\ UNCHANGED <<future, thread, step_rx, slot, asked, authorized, timed_out>>

\* fail_pending_identity: the token slot, then the authorization slot.
FailSlot(a, st) ==
  /\ st \in step_failing[a]
  /\ st = "auth" => "token" \notin step_failing[a]
  /\ step_failing' = [step_failing EXCEPT ![a] = @ \ {st}]
  /\ Fulfil(st, "failed")
  /\ UNCHANGED <<future, thread, classic_session, timed_out, flags>>

-----------------------------------------------------------------------------
ThreadStep(c) ==
  \/ Gate(c) \/ Install(c) \/ Received(c) \/ TimesOut(c) \/ ClearSlot(c) \/ Op(c)

ClassicNext ==
  \/ \E c \in Calls : Begin(c) \/ LockFlow(c) \/ Finish(c) \/ CancelFlow(c) \/ ThreadStep(c)
  \/ \E st \in Stages, k \in Calls, o \in {"ok", "failed"} : Answer(st, k, o)
  \/ \E a \in Tearing, st \in Stages : FailSlot(a, st)
  \/ ClassicSessionEnds \/ ClassicShutdown

ClassicSpec == ClassicInit /\ [][ClassicNext]_classicvars

-----------------------------------------------------------------------------
(* Properties. *)

ClassicTypeOK ==
  /\ flow_lock \in Calls \cup {Nobody}
  /\ caller \in [Calls -> {"idle", "queued", "running", "ended"}]
  /\ stage \in [Calls -> Stages]
  /\ phase \in [Calls -> {"none", "start", "gate", "wait", "expired", "op", "done"}]
  /\ step_rx \in [Calls -> {"empty", "ok", "failed", "closed"}]
  /\ slot \in [Stages -> Calls \cup {Nobody}]
  /\ asked \in [Stages -> SUBSET Calls]
  /\ authorized \subseteq Calls
  /\ step_failing \in [Tearing -> SUBSET Stages]
  /\ {timed_out, cancelled, shutting_down, stopped, over} \subseteq BOOLEAN

Active == {c \in Calls : phase[c] \notin {"none", "done"}}

\* A sender in a slot belongs to a thread that waits in that stage: no path
\* (answer, refused call, timeout, teardown, an overwritten slot) leaves a
\* sender behind for a later answer to be lost in.
SlotHasReader ==
  \A st \in Stages : slot[st] # Nobody =>
    stage[slot[st]] = st /\ phase[slot[st]] \in {"wait", "expired"}

\* A waiting thread without an answer has its sender in the slot of its stage.
WaiterHasSlot ==
  \A c \in Calls : phase[c] = "wait" /\ step_rx[c] = "empty" => slot[stage[c]] = c

\* identity_flow_lock serializes the flows: one blocking thread at a time is
\* between its first stage and its end, as long as no caller of with_identity
\* dropped its future (which frees the lock and leaves the thread running).
OneFlow == ~cancelled => Cardinality(Active) <= 1

\* The slots and the blocking threads agree, even when a dropped future lets two
\* threads use the same slots.
SlotsConsistent == ClassicTypeOK /\ SlotHasReader /\ WaiterHasSlot /\ OneFlow

\* The operation runs with the identity that the SDK authorized for this very
\* call, as long as no flow was given up by its timer or its caller: the late
\* answer to such a flow carries the same correlation ID as the next one's.
OwnIdentity ==
  ~timed_out /\ ~cancelled => \A c \in Calls : phase[c] = "op" => c \in authorized

-----------------------------------------------------------------------------
(* The inductive invariant behind the properties. *)

\* Whose sender is in a slot has no answer yet.
SlotIsOpen == \A st \in Stages : slot[st] # Nobody => step_rx[slot[st]] = "empty"

\* The running thread belongs to the future that holds identity_flow_lock.
FlowHeld == ~cancelled => \A c \in Active : flow_lock = c /\ caller[c] = "running"

\* A future spawns its thread once it holds the lock.
FlowStarted == \A c \in Calls : caller[c] \in {"idle", "queued"} => phase[c] = "none"

\* Only a timeout expires a stage, and only a teardown fails the slots.
ClassicCauses ==
  /\ \A c \in Calls : phase[c] = "expired" => timed_out
  /\ \A a \in Tearing : step_failing[a] # {} => shutting_down

\* Whose SDK request is unanswered has its sender in the slot, or had it failed
\* by a teardown; no thread passes the gate after that.
AskedBySlot ==
  \A st \in Stages : \A k \in asked[st] :
    \/ slot[st] = k
    \/ shutting_down /\ \A c \in Calls \ {k} : phase[c] \in {"none", "start", "done"}

\* A success is the SDK's answer to the thread's own AuthorizationRequest.
OwnAnswer ==
  \A c \in Calls : stage[c] = "auth" /\ phase[c] = "wait" /\ step_rx[c] = "ok" =>
    c \in authorized

ClassicInv ==
  /\ ClassicTypeOK /\ SlotHasReader /\ WaiterHasSlot /\ OwnIdentity
  /\ SlotIsOpen /\ FlowHeld /\ FlowStarted /\ ClassicCauses
  /\ ~timed_out /\ ~cancelled => AskedBySlot /\ OwnAnswer
=============================================================================
