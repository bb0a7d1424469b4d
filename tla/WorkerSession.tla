---------------------------- MODULE WorkerSession ----------------------------
(***************************************************************************)
(* What a call needs before it may send: for subscriptions, a session of   *)
(* the pool (SessionPool); the service it names open on the session        *)
(* (ServiceOpens); and for requests an identity (with_identity of          *)
(* worker.rs).  Whether authentication is configured is fixed when the     *)
(* worker is built, and decides whether calls use the shared session       *)
(* identity (SessionIdentity) or run the classic flow (ClassicIdentity).   *)
(* The four keep state of their own, and the last three share the shutdown *)
(* and the end of the session (SessionEnd), which settle whichever is in   *)
(* use; setup says which one the calls of a behaviour go through.  The     *)
(* properties are those of the four parts.                                 *)
(***************************************************************************)
EXTENDS SessionPool, ServiceOpens, SessionIdentity, ClassicIdentity, TLC

VARIABLE setup

ending == <<shutting_down, stopped, over>>
latched == <<latch, issued, latch_sdk, last, revocations, latch_call, hands>>
classic == <<future, thread, step_rx, slot, asked, authorized, timed_out, step_failing>>
opens == <<state_lock, table, call, taken, dispatch, sdk, answered>>
vars == <<setup, ending, poolvars, latched, classic, opens>>

Symmetry == Permutations(Calls) \cup Permutations(Services)

Init ==
  /\ setup \in {"session", "service", "session identity", "classic identity"}
  /\ PoolInit /\ LatchInit /\ ClassicInit /\ OpensInit
  /\ setup # "service" =>
       ~state_lock /\ \A c, d \in Calls : service[c] = service[d]
  /\ setup # "session" => max_subscription_sessions = 1 /\ available = <<>>

claim ==
  setup = "session" /\ PoolNext /\ UNCHANGED <<setup, ending, latched, classic, opens>>

ensure_service ==
  setup = "service" /\ OpensNext /\ UNCHANGED <<setup, poolvars, latched, classic>>

with_identity ==
  \/ setup = "session identity" /\ LatchNext /\ UNCHANGED <<setup, poolvars, classic, opens>>
  \/ setup = "classic identity" /\ ClassicNext /\ UNCHANGED <<setup, poolvars, latched, opens>>

Spec == Init /\ [][claim \/ ensure_service \/ with_identity]_vars
=============================================================================
