--------------------------- MODULE IdentityProofs ---------------------------
(***************************************************************************)
(* The latch of the session identity and the slots of the classic flow     *)
(* stay in agreement with the calls that wait for them, for every number   *)
(* of calls.                                                               *)
(***************************************************************************)
EXTENDS SessionIdentity, ClassicIdentity, FiniteSetTheorems, TLAPS

\* Steps are for Zenon, unless they name the SMT solver.
USE ZenonT(60)

-----------------------------------------------------------------------------
(* The latch of the session identity. *)

\* The threads of a session are actors, and no call is one of the other two.
LEMMA SessionActors ==
  /\ Dispatcher \in Actors /\ Stopper \in Actors /\ Calls \subseteq Actors
  /\ Dispatcher \notin Calls /\ Stopper \notin Calls /\ Dispatcher # Stopper
BY SessionConstants DEF Actors

\* Nobody is forgotten while the waiters that still wait stay where they are.
LEMMA WaitersKept ==
  ASSUME NoForgottenWaiter, identity' = identity,
         \A c \in Calls : latch_pc'[c] = "waiting" =>
           latch_pc[c] = "waiting" /\ latch_rx'[c] = latch_rx[c],
         \A c \in waiters : latch_pc[c] = "waiting" => c \in waiters',
         \A a \in Actors : latch_taken'[a] = latch_taken[a]
  PROVE  NoForgottenWaiter'
<1> SUFFICES ASSUME NEW c \in Calls, latch_pc'[c] = "waiting", latch_rx'[c] = "empty"
             PROVE  \/ c \in waiters' /\ identity' = "Pending"
                    \/ \E a \in Actors, o \in {"ok", "failed", "timedout"} :
                         <<c, o>> \in latch_taken'[a]
  BY DEF NoForgottenWaiter
<1>1. latch_pc[c] = "waiting" /\ latch_rx[c] = "empty"
  OBVIOUS
<1>2. CASE c \in waiters /\ identity = "Pending"
  BY <1>1, <1>2
<1>3. CASE \E a \in Actors, o \in {"ok", "failed", "timedout"} : <<c, o>> \in latch_taken[a]
  BY <1>3
<1> QED
  BY <1>1, <1>2, <1>3 DEF NoForgottenWaiter

\* What the stopper has settled stays settled while no call comes to the gate.
LEMMA LatchStoppedKept ==
  ASSUME LatchStopped, UNCHANGED <<stopped, shutting_down>>,
         \A c \in Calls : latch_pc'[c] = "gate" => latch_pc[c] = "gate" \/ ~shutting_down,
         identity' = "Pending" =>
           identity = "Pending" \/ \E c \in Calls : latch_pc[c] = "gate",
         failing'[Stopper] = "no" => failing[Stopper] = "no" \/ identity' # "Pending"
  PROVE  LatchStopped'
BY SMTT(60) DEF LatchStopped

\* The stopper is done when it has nothing left to resolve.
LEMMA LatchSettled == LatchStopped => ShutdownSettlesIdentity
BY DEF LatchStopped, ShutdownSettlesIdentity, Busy

\* Hands that do not change, while no timer is taken back.
LEMMA HandsKept ==
  ASSUME LatchHands, UNCHANGED <<failing, latch_taken>>, stopped => stopped',
         \A c \in Calls : latch_pc[c] = "expired" =>
           latch_pc'[c] = "expired" \/ ~Busy(c)
  PROVE  LatchHands'
BY SMTT(60) DEF LatchHands, Busy

\* A call takes a step that touches neither the latch nor a receiver.
LEMMA LatchCallMoves ==
  ASSUME LatchInv, NEW c \in Calls, NEW l \in {"gate", "granted", "leaving", "use", "ended"},
         l = "gate" => ~shutting_down, latch_pc[c] = "expired" => ~Busy(c),
         GoLatch(c, l),
         UNCHANGED <<identity, waiters, issued, latch_sdk, last, revocations, over,
                     latch_attempt, latch_rx, latch_expired, failing, latch_taken,
                     shutting_down, stopped>>
  PROVE  LatchInv'
<1> USE DEF LatchInv, LatchConsistent
<1>p. latch_pc'[c] = l /\ \A d \in Calls : d # c => latch_pc'[d] = latch_pc[d]
  BY DEF GoLatch, LatchTypeOK
<1>1. LatchTypeOK'
  BY DEF LatchTypeOK, GoLatch
<1>2. NoForgottenWaiter'
  BY <1>p, WaitersKept
<1>3. ReadyIsAuthorized'
  BY DEF ReadyIsAuthorized
<1>4. LatchHands'
  BY <1>p, HandsKept
<1>5. LatchStopped'
  <2>1. \A d \in Calls : latch_pc'[d] = "gate" => latch_pc[d] = "gate" \/ ~shutting_down
    BY <1>p
  <2> QED
    BY <2>1, LatchStoppedKept
<1> QED
  BY <1>1, <1>2, <1>3, <1>4, <1>5, LatchSettled, PTL

\* A call joins an authorization in flight.
LEMMA JoinIdentityStep ==
  ASSUME LatchInv, NEW c \in Calls, JoinIdentity(c)
  PROVE  LatchInv'
<1> USE DEF LatchInv, LatchConsistent
<1>0. /\ latch_pc[c] = "gate" /\ identity = "Pending" /\ identity' = identity
      /\ waiters' = {w \in waiters : ~is_dropped(w)} \cup {c}
      /\ latch_attempt' = [latch_attempt EXCEPT ![c] = issued]
      /\ latch_pc' = [latch_pc EXCEPT ![c] = "waiting"]
      /\ UNCHANGED <<issued, latch_sdk, last, revocations, over, latch_rx, latch_expired,
                     failing, latch_taken, shutting_down, stopped>>
  BY DEF JoinIdentity, GoLatch, latch_session, hands, flags
<1>p. latch_pc'[c] = "waiting" /\ \A d \in Calls : d # c => latch_pc'[d] = latch_pc[d]
  BY <1>0 DEF LatchTypeOK
<1>1. LatchTypeOK'
  BY <1>0 DEF LatchTypeOK
<1>2. NoForgottenWaiter'
  <2> SUFFICES ASSUME NEW d \in Calls, latch_pc'[d] = "waiting", latch_rx'[d] = "empty"
               PROVE  \/ d \in waiters' /\ identity' = "Pending"
                      \/ \E a \in Actors, o \in {"ok", "failed", "timedout"} :
                           <<d, o>> \in latch_taken'[a]
    BY DEF NoForgottenWaiter
  <2>1. CASE d = c
    BY <1>0, <2>1
  <2>2. CASE d # c
    <3>1. latch_pc[d] = "waiting" /\ latch_rx[d] = "empty" /\ ~is_dropped(d)
      BY <1>0, <1>p, <2>2 DEF is_dropped
    <3>2. d \in waiters => d \in waiters'
      BY <1>0, <3>1
    <3>3. UNCHANGED <<identity, latch_taken>>
      BY <1>0
    <3> QED
      BY <3>1, <3>2, <3>3 DEF NoForgottenWaiter
  <2> QED
    BY <2>1, <2>2
<1>3. ReadyIsAuthorized'
  BY <1>0 DEF ReadyIsAuthorized
<1>4. LatchHands'
  BY <1>0, <1>p, HandsKept
<1>5. LatchStopped'
  BY <1>0, <1>p, LatchStoppedKept
<1> QED
  BY <1>1, <1>2, <1>3, <1>4, <1>5, LatchSettled, PTL

\* A call issues an authorization, or is refused by the SDK.
LEMMA IssueStep ==
  ASSUME LatchInv, NEW c \in Calls, Issue(c), latch_pc'[c] = "waiting"
  PROVE  LatchInv'
<1> USE DEF LatchInv, LatchConsistent
<1>0. /\ latch_pc[c] = "gate" /\ identity # "Pending"
      /\ issued' = issued + 1 /\ latch_sdk' = latch_sdk \cup {issued'}
      /\ identity' = "Pending" /\ waiters' = {c}
      /\ latch_attempt' = [latch_attempt EXCEPT ![c] = issued']
      /\ latch_pc' = [latch_pc EXCEPT ![c] = "waiting"]
      /\ UNCHANGED <<last, revocations, over, latch_rx, latch_expired, failing, latch_taken,
                     shutting_down, stopped>>
  BY DEF Issue, GoLatch, hands, flags, LatchTypeOK
<1>p. latch_pc'[c] = "waiting" /\ \A d \in Calls : d # c => latch_pc'[d] = latch_pc[d]
  BY <1>0 DEF LatchTypeOK
<1>1. LatchTypeOK'
  <2>1. issued' \in Nat
    BY <1>0, SMTT(60) DEF LatchTypeOK
  <2> QED
    BY <1>0, <2>1 DEF LatchTypeOK
<1>2. NoForgottenWaiter'
  <2> SUFFICES ASSUME NEW d \in Calls, d # c, latch_pc'[d] = "waiting", latch_rx'[d] = "empty"
               PROVE  \E a \in Actors, o \in {"ok", "failed", "timedout"} :
                        <<d, o>> \in latch_taken'[a]
    BY <1>0 DEF NoForgottenWaiter
  <2> QED
    BY <1>0, <1>p DEF NoForgottenWaiter
<1>3. ReadyIsAuthorized'
  BY <1>0 DEF ReadyIsAuthorized
<1>4. LatchHands'
  BY <1>0, <1>p, HandsKept
<1>5. LatchStopped'
  <2>1. \A d \in Calls : latch_pc'[d] = "gate" => latch_pc[d] = "gate"
    BY <1>p
  <2> QED
    BY <1>0, <2>1, LatchStoppedKept
<1> QED
  BY <1>1, <1>2, <1>3, <1>4, <1>5, LatchSettled, PTL

\* A call gives up after IDENTITY_AUTH_TIMEOUT_MS.
LEMMA ExpireIdentityStep ==
  ASSUME LatchInv, NEW c \in Calls, ExpireIdentity(c)
  PROVE  LatchInv'
<1> USE DEF LatchInv, LatchConsistent
<1>0. /\ latch_pc[c] = "waiting" /\ latch_expired' = latch_expired \cup {latch_attempt[c]}
      /\ failing' = [failing EXCEPT ![c] = "check"]
      /\ latch_pc' = [latch_pc EXCEPT ![c] = "expired"]
      /\ UNCHANGED <<identity, waiters, issued, latch_sdk, last, revocations, over,
                     latch_attempt, latch_rx, latch_taken, shutting_down, stopped>>
  BY DEF ExpireIdentity, GoLatch, latch, latch_session, flags
<1>p. /\ latch_pc'[c] = "expired" /\ failing'[c] = "check"
      /\ \A d \in Calls : d # c => latch_pc'[d] = latch_pc[d]
      /\ \A a \in Actors : a # c => failing'[a] = failing[a]
  BY <1>0, SessionActors DEF LatchTypeOK
<1>1. LatchTypeOK'
  BY <1>0 DEF LatchTypeOK
<1>2. NoForgottenWaiter'
  BY <1>0, <1>p, WaitersKept
<1>3. ReadyIsAuthorized'
  BY <1>0 DEF ReadyIsAuthorized
<1>4. LatchHands'
  <2>1. latch_taken[c] = {}
    BY <1>0 DEF LatchHands, Busy
  <2>2. \A a \in Actors : failing'[a] # "no" => latch_taken'[a] = {}
    BY <1>0, <1>p, <2>1 DEF LatchHands
  <2>3. \A d \in Calls : Busy(d)' => latch_pc'[d] = "expired"
    BY <1>0, <1>p, SessionActors DEF LatchHands, Busy
  <2>4. Busy(Stopper)' => Busy(Stopper)
    BY <1>0, <1>p, SessionActors DEF Busy
  <2>5. Busy(Stopper)' => stopped'
    BY <1>0, <2>4, SMTT(60) DEF LatchHands
  <2> QED
    BY <2>2, <2>3, <2>5 DEF LatchHands
<1>5. LatchStopped'
  <2>1. \A d \in Calls : latch_pc'[d] = "gate" => latch_pc[d] = "gate"
    BY <1>p
  <2>2. failing'[Stopper] = failing[Stopper]
    BY <1>p, SessionActors
  <2> QED
    BY <1>0, <2>1, <2>2, LatchStoppedKept
<1> QED
  BY <1>1, <1>2, <1>3, <1>4, <1>5, LatchSettled, PTL

\* A call drops its receiver and prunes the waiters.
LEMMA LeaveStep ==
  ASSUME LatchInv, NEW c \in Calls, Leave(c)
  PROVE  LatchInv'
<1> USE DEF LatchInv, LatchConsistent
<1>0. /\ latch_pc[c] \in {"granted", "leaving"} /\ identity' = identity
      /\ waiters' = {w \in waiters : ~is_dropped(w)}
      /\ latch_pc' = [latch_pc EXCEPT ![c] = IF latch_pc[c] = "granted" THEN "use" ELSE "ended"]
      /\ latch_attempt' = [latch_attempt EXCEPT ![c] = 0]
      /\ latch_rx' = [latch_rx EXCEPT ![c] = "empty"]
      /\ UNCHANGED <<issued, latch_sdk, last, revocations, over, latch_expired, failing,
                     latch_taken, shutting_down, stopped>>
  BY DEF Leave, GoLatch, latch_session, hands, flags
<1>p. /\ latch_pc'[c] \in {"use", "ended"}
      /\ \A d \in Calls : d # c => latch_pc'[d] = latch_pc[d] /\ latch_rx'[d] = latch_rx[d]
  BY <1>0 DEF LatchTypeOK
<1>1. LatchTypeOK'
  <2>1. 0 \in Nat
    BY SMTT(60)
  <2> QED
    BY <1>0, <2>1 DEF LatchTypeOK
<1>2. NoForgottenWaiter'
  <2>1. \A d \in waiters : latch_pc[d] = "waiting" => d \in waiters'
    BY <1>0 DEF is_dropped
  <2>2. \A d \in Calls : latch_pc'[d] = "waiting" =>
          latch_pc[d] = "waiting" /\ latch_rx'[d] = latch_rx[d]
    BY <1>p
  <2> QED
    BY <1>0, <2>1, <2>2, WaitersKept
<1>3. ReadyIsAuthorized'
  BY <1>0 DEF ReadyIsAuthorized
<1>4. LatchHands'
  BY <1>0, <1>p, HandsKept
<1>5. LatchStopped'
  <2>1. \A d \in Calls : latch_pc'[d] = "gate" => latch_pc[d] = "gate"
    BY <1>p
  <2> QED
    BY <1>0, <2>1, LatchStoppedKept
<1> QED
  BY <1>1, <1>2, <1>3, <1>4, <1>5, LatchSettled, PTL

\* A thread with empty hands resolves the latch and takes the waiters.
LEMMA ResolveStep ==
  ASSUME LatchInv, NEW a \in Actors, NEW o \in {"ok", "failed", "timedout"},
         resolve_identity(a, o), latch_taken[a] = {},
         o = "ok" => last' = "ok", last' \in {"none", "ok", "failed", "revoked"},
         latch_sdk' \subseteq latch_sdk,
         failing' \in [Actors -> {"no", "check", "resolve"}], failing'[a] = "no",
         \A b \in Actors : b # a => failing'[b] = failing[b],
         a \in Calls => latch_pc[a] = "expired", a = Stopper => stopped,
         UNCHANGED <<issued, revocations, over, latch_pc, latch_attempt, latch_rx,
                     latch_expired, shutting_down, stopped>>
  PROVE  LatchInv'
<1> USE DEF LatchInv, LatchConsistent
<1>0. /\ identity' = IF o = "ok" THEN "Ready" ELSE "Failed"
      /\ waiters' = {} /\ latch_taken' = [latch_taken EXCEPT ![a] = waiters \X {o}]
  BY DEF resolve_identity
<1>p. /\ latch_taken'[a] = waiters \X {o}
      /\ \A b \in Actors : b # a => latch_taken'[b] = latch_taken[b]
  BY <1>0 DEF LatchTypeOK
<1>1. LatchTypeOK'
  <2>1. latch_taken' \in [Actors -> SUBSET (Calls \X {"ok", "failed", "timedout"})]
    <3>1. waiters \X {o} \in SUBSET (Calls \X {"ok", "failed", "timedout"})
      BY SMTT(60) DEF LatchTypeOK
    <3> QED
      BY <1>0, <3>1 DEF LatchTypeOK
  <2>2. latch_sdk' \subseteq Nat
    BY DEF LatchTypeOK
  <2> QED
    BY <1>0, <2>1, <2>2 DEF LatchTypeOK
<1>2. NoForgottenWaiter'
  <2> SUFFICES ASSUME NEW c \in Calls, latch_pc[c] = "waiting", latch_rx[c] = "empty"
               PROVE  \E b \in Actors, q \in {"ok", "failed", "timedout"} :
                        <<c, q>> \in latch_taken'[b]
    BY DEF NoForgottenWaiter
  <2>1. CASE c \in waiters
    <3>1. <<c, o>> \in latch_taken'[a]
      BY <1>p, <2>1
    <3> QED
      BY <3>1
  <2>2. CASE c \notin waiters
    <3>1. PICK b \in Actors, q \in {"ok", "failed", "timedout"} : <<c, q>> \in latch_taken[b]
      BY <2>2 DEF NoForgottenWaiter
    <3>2. b # a
      BY <3>1
    <3> QED
      BY <1>p, <3>1, <3>2
  <2> QED
    BY <2>1, <2>2
<1>3. ReadyIsAuthorized'
  BY <1>0 DEF ReadyIsAuthorized
<1>4. LatchHands'
  <2>1. \A b \in Actors : failing'[b] # "no" => latch_taken'[b] = {}
    BY <1>p DEF LatchHands
  <2>2. \A c \in Calls : Busy(c)' => latch_pc'[c] = "expired"
    BY <1>p, SessionActors DEF LatchHands, Busy
  <2>3. Busy(Stopper)' => stopped
    BY <1>p, SessionActors DEF LatchHands, Busy
  <2> QED
    BY <2>1, <2>2, <2>3, SMTT(60) DEF LatchHands
<1>5. LatchStopped'
  BY <1>0, LatchStoppedKept
<1> QED
  BY <1>1, <1>2, <1>3, <1>4, <1>5, LatchSettled, PTL

\* A thread resolves one of the waiters in its hands.
LEMMA CompleteIdentityStep ==
  ASSUME LatchInv, NEW a \in Actors, CompleteIdentity(a)
  PROVE  LatchInv'
<1> USE DEF LatchInv, LatchConsistent
<1>0. PICK t \in latch_taken[a] :
        /\ latch_rx' = IF is_dropped(t[1]) THEN latch_rx ELSE [latch_rx EXCEPT ![t[1]] = t[2]]
        /\ latch_taken' = [latch_taken EXCEPT ![a] = @ \ {t}]
  BY DEF CompleteIdentity
<1>a. UNCHANGED <<identity, waiters, issued, latch_sdk, last, revocations, over, latch_pc,
                  latch_attempt, latch_expired, failing, shutting_down, stopped>>
  BY DEF CompleteIdentity, latch, latch_session, flags
<1>b. t[1] \in Calls /\ t[2] \in {"ok", "failed", "timedout"} /\ t = <<t[1], t[2]>>
  BY SMTT(60) DEF LatchTypeOK
<1>c. /\ \A d \in Calls : d # t[1] \/ is_dropped(d) => latch_rx'[d] = latch_rx[d]
      /\ ~is_dropped(t[1]) => latch_rx'[t[1]] = t[2]
      /\ latch_rx' \in [Calls -> {"empty", "ok", "failed", "timedout", "closed"}]
  BY <1>0, <1>b DEF LatchTypeOK
<1>d. /\ latch_taken' \in [Actors -> SUBSET (Calls \X {"ok", "failed", "timedout"})]
      /\ \A b \in Actors : latch_taken'[b] \subseteq latch_taken[b]
      /\ \A b \in Actors : \A u \in latch_taken[b] : u # t => u \in latch_taken'[b]
  BY <1>0 DEF LatchTypeOK
<1>1. LatchTypeOK'
  BY <1>a, <1>c, <1>d DEF LatchTypeOK
<1>2. NoForgottenWaiter'
  <2> SUFFICES ASSUME NEW d \in Calls, latch_pc[d] = "waiting", latch_rx'[d] = "empty"
               PROVE  \/ d \in waiters /\ identity = "Pending"
                      \/ \E b \in Actors, o \in {"ok", "failed", "timedout"} :
                           <<d, o>> \in latch_taken'[b]
    BY <1>a DEF NoForgottenWaiter
  <2>1. d # t[1]
    BY <1>b, <1>c DEF is_dropped
  <2>2. latch_rx[d] = "empty"
    BY <1>c, <2>1
  <2>3. \A o \in {"ok", "failed", "timedout"} : <<d, o>> # t
    BY <1>b, <2>1, SMTT(60)
  <2> QED
    BY <1>d, <2>2, <2>3 DEF NoForgottenWaiter
<1>3. ReadyIsAuthorized'
  BY <1>a DEF ReadyIsAuthorized
<1>4. LatchHands'
  <2>1. \A b \in Actors : Busy(b)' => Busy(b)
    BY <1>a, <1>d DEF Busy
  <2>2. \A b \in Actors : failing'[b] # "no" => latch_taken'[b] = {}
    BY <1>a, <1>d DEF LatchHands
  <2>3. Busy(Stopper)' => stopped
    BY <2>1, SessionActors DEF LatchHands
  <2>4. \A c \in Calls : Busy(c)' => latch_pc'[c] = "expired"
    BY <1>a, <2>1, SessionActors DEF LatchHands
  <2>5. stopped' = stopped
    BY <1>a
  <2> QED
    BY <2>2, <2>3, <2>4, <2>5, SMTT(60) DEF LatchHands
<1>5. LatchStopped'
  BY <1>a, LatchStoppedKept
<1> QED
  BY <1>1, <1>2, <1>3, <1>4, <1>5, LatchSettled, PTL

\* A thread of a teardown or a timer looks whether an authorization is pending.
LEMMA FailCheckStep ==
  ASSUME LatchInv, NEW a \in Actors, FailCheck(a)
  PROVE  LatchInv'
<1> USE DEF LatchInv, LatchConsistent
<1>0. /\ failing[a] = "check"
      /\ failing' = [failing EXCEPT ![a] = IF identity = "Pending" THEN "resolve" ELSE "no"]
      /\ UNCHANGED <<identity, waiters, issued, latch_sdk, last, revocations, over, latch_pc,
                     latch_attempt, latch_rx, latch_expired, latch_taken, shutting_down,
                     stopped>>
  BY DEF FailCheck, latch, latch_session, latch_call, flags
<1>p. /\ failing'[a] = IF identity = "Pending" THEN "resolve" ELSE "no"
      /\ \A b \in Actors : b # a => failing'[b] = failing[b]
  BY <1>0 DEF LatchTypeOK
<1>1. LatchTypeOK'
  BY <1>0 DEF LatchTypeOK
<1>2. NoForgottenWaiter'
  BY <1>0, WaitersKept
<1>3. ReadyIsAuthorized'
  BY <1>0 DEF ReadyIsAuthorized
<1>4. LatchHands'
  <2>1. \A b \in Actors : Busy(b)' => Busy(b)
    BY <1>0, <1>p DEF Busy
  <2>2. \A b \in Actors : failing'[b] # "no" => latch_taken'[b] = {}
    BY <1>0, <1>p DEF LatchHands
  <2>3. Busy(Stopper)' => stopped
    BY <2>1, SessionActors DEF LatchHands
  <2>4. \A c \in Calls : Busy(c)' => latch_pc'[c] = "expired"
    BY <1>0, <2>1, SessionActors DEF LatchHands
  <2>5. stopped' = stopped
    BY <1>0
  <2> QED
    BY <2>2, <2>3, <2>4, <2>5, SMTT(60) DEF LatchHands
<1>5. LatchStopped'
  <2>1. failing'[Stopper] = "no" => failing[Stopper] = "no" \/ identity # "Pending"
    BY <1>p, SessionActors
  <2> QED
    BY <1>0, <2>1, LatchStoppedKept
<1> QED
  BY <1>1, <1>2, <1>3, <1>4, <1>5, LatchSettled, PTL

\* fail_pending_identity resolves what it found pending.
LEMMA FailResolveStep ==
  ASSUME LatchInv, NEW a \in Actors, FailResolve(a)
  PROVE  LatchInv'
<1> USE DEF LatchInv, LatchConsistent
<1> DEFINE o == IF a \in Calls THEN "timedout" ELSE "failed"
<1>0. /\ failing[a] = "resolve" /\ failing' = [failing EXCEPT ![a] = "no"]
      /\ resolve_identity(a, o)
      /\ UNCHANGED <<issued, latch_sdk, last, revocations, over, latch_pc, latch_attempt,
                     latch_rx, latch_expired, shutting_down, stopped>>
  BY DEF FailResolve, latch_session, latch_call, flags
<1>1. o \in {"ok", "failed", "timedout"} /\ o # "ok"
  OBVIOUS
<1> HIDE DEF o
<1>2. Busy(a) /\ latch_taken[a] = {}
  BY <1>0 DEF LatchHands, Busy
<1>3. (a \in Calls => latch_pc[a] = "expired") /\ (a = Stopper => stopped)
  BY <1>2 DEF LatchHands
<1>4. /\ failing' \in [Actors -> {"no", "check", "resolve"}] /\ failing'[a] = "no"
      /\ \A b \in Actors : b # a => failing'[b] = failing[b]
      /\ last' \in {"none", "ok", "failed", "revoked"}
  BY <1>0 DEF LatchTypeOK
<1> QED
  BY <1>0, <1>1, <1>2, <1>3, <1>4, ResolveStep

\* The dispatcher handles the SDK's answer to an authorization.
LEMMA AuthorizationStep ==
  ASSUME LatchInv, NEW k, NEW m \in {"ok", "failed"}, Authorization(k, m)
  PROVE  LatchInv'
<1> USE DEF LatchInv, LatchConsistent
<1>0. /\ ~Busy(Dispatcher) /\ latch_sdk' = latch_sdk \ {k} /\ last' = m
      /\ resolve_identity(Dispatcher, m)
      /\ UNCHANGED <<issued, revocations, over, latch_pc, latch_attempt, latch_rx,
                     latch_expired, failing, shutting_down, stopped>>
  BY DEF Authorization, latch_call, flags
<1>1. /\ failing' \in [Actors -> {"no", "check", "resolve"}] /\ failing'[Dispatcher] = "no"
      /\ latch_taken[Dispatcher] = {} /\ \A b \in Actors : failing'[b] = failing[b]
  BY <1>0 DEF LatchTypeOK, Busy
<1> QED
  BY <1>0, <1>1, SessionActors, ResolveStep

\* A revocation drops the waiters of an authorization in flight.
LEMMA RevokedStep ==
  ASSUME LatchInv, Revoked
  PROVE  LatchInv'
<1> USE DEF LatchInv, LatchConsistent
<1>0. /\ revocations' = revocations + 1 /\ last' = "revoked"
      /\ identity' = "Failed" /\ waiters' = {}
      /\ latch_rx' = [w \in Calls |->
                        IF w \in waiters /\ ~is_dropped(w) THEN "closed" ELSE latch_rx[w]]
      /\ UNCHANGED <<issued, latch_sdk, over, latch_pc, latch_attempt, latch_expired,
                     failing, latch_taken, shutting_down, stopped>>
  BY DEF Revoked, hands, flags
<1>1. LatchTypeOK'
  <2>1. revocations' \in Nat
    BY <1>0, SMTT(60) DEF LatchTypeOK
  <2> QED
    BY <1>0, <2>1 DEF LatchTypeOK
<1>2. NoForgottenWaiter'
  <2> SUFFICES ASSUME NEW c \in Calls, latch_pc[c] = "waiting", latch_rx'[c] = "empty"
               PROVE  \E a \in Actors, o \in {"ok", "failed", "timedout"} :
                        <<c, o>> \in latch_taken[a]
    BY <1>0 DEF NoForgottenWaiter
  <2>1. c \notin waiters /\ latch_rx[c] = "empty"
    BY <1>0 DEF is_dropped
  <2> QED
    BY <2>1 DEF NoForgottenWaiter
<1>3. ReadyIsAuthorized'
  BY <1>0 DEF ReadyIsAuthorized
<1>4. LatchHands'
  BY <1>0, HandsKept
<1>5. LatchStopped'
  BY <1>0, LatchStoppedKept
<1> QED
  BY <1>1, <1>2, <1>3, <1>4, <1>5, LatchSettled, PTL

\* A teardown raises the flag and goes on to fail the pending authorization.
LEMMA TeardownStep ==
  ASSUME LatchInv, NEW a \in {Dispatcher, Stopper}, latch_taken[a] = {},
         failing' = [failing EXCEPT ![a] = "check"],
         over' \in BOOLEAN, shutting_down' = TRUE, stopped' \in BOOLEAN,
         stopped => stopped', a = Stopper => stopped',
         ~stopped /\ stopped' => a = Stopper /\ \A c \in Calls : latch_pc[c] # "gate",
         UNCHANGED <<identity, waiters, issued, latch_sdk, last, revocations, latch_pc,
                     latch_attempt, latch_rx, latch_expired, latch_taken>>
  PROVE  LatchInv'
<1> USE DEF LatchInv, LatchConsistent
<1>p. /\ a \in Actors /\ a \notin Calls /\ failing'[a] = "check"
      /\ \A b \in Actors : b # a => failing'[b] = failing[b]
  BY SessionActors DEF LatchTypeOK
<1>1. LatchTypeOK'
  BY DEF LatchTypeOK
<1>2. NoForgottenWaiter'
  BY WaitersKept
<1>3. ReadyIsAuthorized'
  BY DEF ReadyIsAuthorized
<1>4. LatchHands'
  <2>1. \A b \in Actors : failing'[b] # "no" => latch_taken'[b] = {}
    BY <1>p DEF LatchHands
  <2>2. \A c \in Calls : Busy(c)' => latch_pc'[c] = "expired"
    BY <1>p, SessionActors DEF LatchHands, Busy
  <2>3. Busy(Stopper)' => stopped'
    BY <1>p, SessionActors DEF LatchHands, Busy
  <2> QED
    BY <2>1, <2>2, <2>3 DEF LatchHands
<1>5. LatchStopped'
  <2> SUFFICES ASSUME stopped'
               PROVE  /\ \A c \in Calls : latch_pc[c] # "gate"
                      /\ failing'[Stopper] = "no" => identity # "Pending"
    BY DEF LatchStopped
  <2>1. \A c \in Calls : latch_pc[c] # "gate"
    BY DEF LatchStopped
  <2>2. failing'[Stopper] = "no" => stopped /\ failing[Stopper] = "no"
    BY <1>p, SessionActors
  <2> QED
    BY <2>1, <2>2 DEF LatchStopped
<1> QED
  BY <1>1, <1>2, <1>3, <1>4, <1>5, LatchSettled, PTL

\* Every step keeps the invariant.
LEMMA LatchInvStep == LatchInv /\ [LatchNext]_latchvars => LatchInv'
<1> SUFFICES ASSUME LatchInv, [LatchNext]_latchvars
             PROVE  LatchInv'
  OBVIOUS
<1> USE DEF latch, latch_session, latch_call, hands, flags
<1>1. ASSUME NEW c \in Calls, IdentityStep(c)
      PROVE  LatchInv'
  <2>1. CASE EnterIdentity(c)
    BY <2>1, LatchCallMoves DEF EnterIdentity
  <2>2. CASE Ready(c)
    BY <2>2, LatchCallMoves DEF Ready
  <2>3. CASE Issue(c)
    <3>1. CASE latch_pc'[c] = "waiting"
      BY <2>3, <3>1, IssueStep
    <3>2. CASE latch_pc'[c] # "waiting"
      <4>1. \A l : latch_pc' = [latch_pc EXCEPT ![c] = l] => latch_pc'[c] = l
        BY DEF LatchInv, LatchConsistent, LatchTypeOK
      <4> QED
        BY <2>3, <3>2, <4>1, LatchCallMoves DEF Issue, GoLatch
    <3> QED
      BY <3>1, <3>2
  <2>4. CASE ReceiveIdentity(c)
    BY <2>4, LatchCallMoves DEF ReceiveIdentity
  <2>5. CASE CancelIdentity(c)
    BY <2>5, LatchCallMoves DEF CancelIdentity
  <2>6. CASE Expired(c)
    BY <2>6, LatchCallMoves DEF Expired, Busy
  <2>7. CASE Use(c)
    BY <2>7, LatchCallMoves DEF Use
  <2> QED
    BY <1>1, <2>1, <2>2, <2>3, <2>4, <2>5, <2>6, <2>7, JoinIdentityStep, ExpireIdentityStep,
       LeaveStep DEF IdentityStep
<1>2. CASE LatchSessionEnds
  <2>1. over' \in BOOLEAN /\ stopped' \in BOOLEAN /\ latch_taken[Dispatcher] = {}
    BY <1>2 DEF LatchSessionEnds, LatchInv, LatchConsistent, LatchTypeOK, Busy
  <2> QED
    BY <1>2, <2>1, SessionActors, TeardownStep, SMTT(60) DEF LatchSessionEnds
<1>3. CASE LatchShutdown
  <2>1. over' \in BOOLEAN /\ latch_taken[Stopper] = {}
    BY <1>3 DEF LatchShutdown, LatchInv, LatchConsistent, LatchTypeOK, LatchHands, Busy
  <2> QED
    BY <1>3, <2>1, TeardownStep DEF LatchShutdown
<1>4. CASE UNCHANGED latchvars
  BY <1>4 DEF latchvars, LatchInv, LatchConsistent, LatchTypeOK, NoForgottenWaiter,
              ReadyIsAuthorized, ShutdownSettlesIdentity, LatchHands, LatchStopped, Busy
<1> QED
  BY <1>1, <1>2, <1>3, <1>4, CompleteIdentityStep, FailCheckStep, FailResolveStep,
     AuthorizationStep, RevokedStep DEF LatchNext

\* The latch and the calls agree: no path through ensure_identity,
\* resolve_identity, fail_pending_identity or prune_pending_identity_waiters
\* forgets a waiter, Ready means that the SDK's last word was a success, and
\* nothing is pending after a shutdown.
THEOREM LatchKeepsWaiters == LatchSpec => []LatchConsistent
<1>1. LatchInit => LatchInv
  <2> SUFFICES ASSUME LatchInit
               PROVE  LatchInv
    OBVIOUS
  <2> USE DEF LatchInit
  <2>1. LatchTypeOK
    <3>1. 0 \in Nat
      BY SMTT(60)
    <3> QED
      BY <3>1 DEF LatchTypeOK
  <2>2. NoForgottenWaiter /\ ReadyIsAuthorized /\ ShutdownSettlesIdentity
    BY DEF NoForgottenWaiter, ReadyIsAuthorized, ShutdownSettlesIdentity
  <2>3. LatchHands /\ LatchStopped
    BY SessionActors DEF LatchHands, LatchStopped, Busy
  <2> QED
    BY <2>1, <2>2, <2>3 DEF LatchInv, LatchConsistent
<1>2. LatchInv => LatchConsistent
  BY DEF LatchInv
<1> QED
  BY <1>1, <1>2, LatchInvStep, PTL DEF LatchSpec

-----------------------------------------------------------------------------
(* The slots of the classic flow. *)

\* A flow that runs holds the lock, so that there is one of them.
LEMMA OneActive ==
  ASSUME FlowHeld, ~cancelled
  PROVE  /\ \A c, d \in Active : c = d
         /\ OneFlow
<1>1. Active \subseteq {flow_lock}
  BY DEF FlowHeld
<1>2. Cardinality(Active) <= Cardinality({flow_lock}) /\ Cardinality({flow_lock}) = 1
  BY <1>1, FS_Singleton, FS_Subset
<1>3. IsFiniteSet(Active)
  BY <1>1, FS_Singleton, FS_Subset
<1>4. Cardinality(Active) \in Nat
  BY <1>3, FS_CardinalityType
<1>5. Cardinality(Active) <= 1
  BY <1>2, <1>4, SMTT(60)
<1> QED
  BY <1>1, <1>5 DEF OneFlow

\* Stages and the names in the slots.
LEMMA SlotNames ==
  ASSUME ClassicTypeOK, NEW st \in Stages, slot[st] # Nobody
  PROVE  slot[st] \in Calls
BY DEF ClassicTypeOK

\* Neither slot nor channel changes: the waiting threads that go on leave none.
LEMMA SlotsKept ==
  ASSUME ClassicTypeOK, SlotHasReader, WaiterHasSlot, SlotIsOpen,
         UNCHANGED <<slot, step_rx>>,
         \A c \in Calls : phase'[c] = "wait" => phase[c] = "wait" /\ stage'[c] = stage[c],
         \A c \in Calls : step_rx[c] = "empty" /\ phase[c] \in {"wait", "expired"} =>
           phase'[c] \in {"wait", "expired"} /\ stage'[c] = stage[c]
  PROVE  SlotHasReader' /\ WaiterHasSlot' /\ SlotIsOpen'
<1>1. SlotHasReader'
  <2> SUFFICES ASSUME NEW st \in Stages, slot[st] # Nobody
               PROVE  stage'[slot[st]] = st /\ phase'[slot[st]] \in {"wait", "expired"}
    BY DEF SlotHasReader
  <2>1. /\ slot[st] \in Calls /\ step_rx[slot[st]] = "empty"
        /\ stage[slot[st]] = st /\ phase[slot[st]] \in {"wait", "expired"}
    BY SlotNames DEF SlotHasReader, SlotIsOpen
  <2> QED
    BY <2>1
<1>2. WaiterHasSlot'
  BY SMTT(60) DEF WaiterHasSlot
<1>3. SlotIsOpen'
  BY DEF SlotIsOpen
<1> QED
  BY <1>1, <1>2, <1>3

\* The sender of one slot is taken out and told o.
LEMMA SlotTaken ==
  ASSUME ClassicTypeOK, SlotHasReader, WaiterHasSlot, SlotIsOpen, NobodyCalls,
         NEW st \in Stages, NEW o \in {"ok", "failed", "closed"}, NEW p,
         slot' = [slot EXCEPT ![st] = Nobody],
         step_rx' = [d \in Calls |-> IF d = slot[st] THEN o ELSE step_rx[d]],
         UNCHANGED stage,
         \A d \in Calls : phase'[d] = phase[d] \/ p = d,
         p \in Calls => phase[p] = "expired" /\ stage[p] = st /\ phase'[p] = "done"
  PROVE  SlotHasReader' /\ WaiterHasSlot' /\ SlotIsOpen'
<1>0. /\ slot'[st] = Nobody /\ \A ot \in Stages : ot # st => slot'[ot] = slot[ot]
      /\ \A d \in Calls : d # slot[st] => step_rx'[d] = step_rx[d]
      /\ \A d \in Calls : d = slot[st] => step_rx'[d] = o
  BY DEF ClassicTypeOK
<1>1. ASSUME NEW ot \in Stages, slot'[ot] # Nobody
      PROVE  /\ ot # st /\ slot'[ot] = slot[ot] /\ slot[ot] \in Calls
             /\ stage[slot[ot]] = ot /\ slot[ot] # slot[st] /\ slot[ot] # p
             /\ phase'[slot[ot]] = phase[slot[ot]]
  <2>1. ot # st /\ slot'[ot] = slot[ot] /\ slot[ot] \in Calls
    BY <1>0, <1>1, SlotNames
  <2>2. stage[slot[ot]] = ot
    BY <1>1, <2>1 DEF SlotHasReader
  <2>3. slot[ot] # slot[st]
    BY <1>1, <2>1, <2>2 DEF SlotHasReader
  <2>4. slot[ot] # p
    BY <2>1, <2>2
  <2> QED
    BY <2>1, <2>2, <2>3, <2>4
<1>2. SlotHasReader'
  <2> SUFFICES ASSUME NEW ot \in Stages, slot'[ot] # Nobody
               PROVE  stage[slot'[ot]] = ot /\ phase'[slot'[ot]] \in {"wait", "expired"}
    BY DEF SlotHasReader
  <2>1. slot[ot] # Nobody => phase[slot[ot]] \in {"wait", "expired"}
    BY DEF SlotHasReader
  <2> QED
    BY <1>1, <2>1
<1>3. WaiterHasSlot'
  <2> SUFFICES ASSUME NEW c \in Calls, phase'[c] = "wait", step_rx'[c] = "empty"
               PROVE  slot'[stage[c]] = c
    BY DEF WaiterHasSlot
  <2>1. c # slot[st] /\ c # p
    BY <1>0
  <2>2. slot[stage[c]] = c
    BY <1>0, <2>1 DEF WaiterHasSlot
  <2>3. stage[c] \in Stages
    BY DEF ClassicTypeOK
  <2> QED
    BY <1>0, <2>1, <2>2, <2>3
<1>4. SlotIsOpen'
  <2> SUFFICES ASSUME NEW ot \in Stages, slot'[ot] # Nobody
               PROVE  step_rx'[slot'[ot]] = "empty"
    BY DEF SlotIsOpen
  <2>1. slot[ot] # Nobody => step_rx[slot[ot]] = "empty"
    BY DEF SlotIsOpen
  <2> QED
    BY <1>0, <1>1, <2>1
<1> QED
  BY <1>2, <1>3, <1>4

\* A thread that keeps running, or ends, leaves the lock with its future.
LEMMA FlowKept ==
  ASSUME FlowHeld, FlowStarted, UNCHANGED <<flow_lock, caller, cancelled>>,
         \A c \in Calls : phase'[c] \notin {"none", "done"} => phase[c] \notin {"none", "done"},
         \A c \in Calls : phase[c] = "none" => phase'[c] = "none"
  PROVE  FlowHeld' /\ FlowStarted'
<1>1. Active' \subseteq Active
  BY DEF Active
<1>2. FlowHeld'
  BY <1>1, SMTT(60) DEF FlowHeld
<1>3. FlowStarted'
  BY DEF FlowStarted
<1> QED
  BY <1>2, <1>3

\* Requests are answered or stay unanswered, and no thread comes past the gate
\* after a teardown.
LEMMA AskedKept ==
  ASSUME AskedBySlot, UNCHANGED <<asked, slot>>, shutting_down => shutting_down',
         \A c \in Calls : \/ phase'[c] \in {phase[c], "none", "start", "done"}
                          \/ phase[c] \notin {"none", "start", "done"}
                          \/ ~shutting_down
  PROVE  AskedBySlot'
<1> SUFFICES ASSUME NEW st \in Stages, NEW k \in asked[st], slot[st] # k
             PROVE  /\ shutting_down'
                    /\ \A c \in Calls \ {k} : phase'[c] \in {"none", "start", "done"}
  BY DEF AskedBySlot
<1>1. shutting_down /\ \A c \in Calls \ {k} : phase[c] \in {"none", "start", "done"}
  BY DEF AskedBySlot
<1> QED
  BY <1>1

\* No new answer, and none is taken back.
LEMMA OwnAnswerKept ==
  ASSUME OwnAnswer, authorized \subseteq authorized',
         \A c \in Calls : phase'[c] = "wait" =>
           /\ phase[c] = "wait" /\ stage'[c] = stage[c]
           /\ step_rx'[c] \in {step_rx[c], "failed", "closed"}
  PROVE  OwnAnswer'
<1> SUFFICES ASSUME NEW c \in Calls, stage'[c] = "auth", phase'[c] = "wait", step_rx'[c] = "ok"
             PROVE  c \in authorized
  BY DEF OwnAnswer
<1>1. phase[c] = "wait" /\ stage[c] = "auth" /\ step_rx[c] = "ok"
  OBVIOUS
<1> QED
  BY <1>1 DEF OwnAnswer

\* No new operation.
LEMMA OwnIdentityKept ==
  ASSUME OwnIdentity, authorized \subseteq authorized',
         timed_out => timed_out', cancelled => cancelled',
         \A c \in Calls : phase'[c] = "op" => phase[c] = "op"
  PROVE  OwnIdentity'
BY DEF OwnIdentity

\* The steps of a future touch at most the phase of a thread not yet started.
LEMMA FutureStep ==
  ASSUME ClassicInv, NEW c \in Calls, Begin(c) \/ LockFlow(c) \/ Finish(c) \/ CancelFlow(c)
  PROVE  ClassicInv'
<1> USE DEF ClassicInv
<1>a. UNCHANGED <<stage, step_rx, slot, asked, authorized, over, timed_out, step_failing,
                  shutting_down, stopped>>
  BY DEF Begin, LockFlow, Finish, CancelFlow, Release, thread, classic_session, flags
<1>b. \/ phase' = phase
      \/ phase' = [phase EXCEPT ![c] = "start"] /\ phase[c] = "none"
  <2>1. CASE LockFlow(c)
    BY <2>1 DEF LockFlow, FlowStarted
  <2>2. Begin(c) \/ Finish(c) \/ CancelFlow(c) => phase' = phase
    BY DEF Begin, Finish, CancelFlow, Release, thread
  <2> QED
    BY <2>1, <2>2
<1>c. cancelled' \in BOOLEAN /\ (cancelled => cancelled')
  <2>1. CASE CancelFlow(c)
    BY <2>1 DEF CancelFlow, ClassicTypeOK
  <2>2. CASE Begin(c) \/ LockFlow(c) \/ Finish(c)
    <3>1. cancelled' = cancelled /\ cancelled \in BOOLEAN
      BY <2>2 DEF Begin, LockFlow, Finish, ClassicTypeOK
    <3> QED
      BY <3>1, SMTT(60)
  <2> QED
    BY <2>1, <2>2
<1>d. /\ flow_lock' \in Calls \cup {Nobody}
      /\ caller' \in [Calls -> {"idle", "queued", "running", "ended"}]
  BY DEF ClassicTypeOK, Begin, LockFlow, Finish, CancelFlow, Release
<1>0. /\ cancelled => cancelled'
      /\ UNCHANGED <<stage, step_rx, slot, asked, authorized, over, timed_out, step_failing,
                     shutting_down, stopped>>
  BY <1>a, <1>c
<1>1. ClassicTypeOK'
  BY <1>a, <1>b, <1>c, <1>d DEF ClassicTypeOK
<1>p. \A d \in Calls : \/ phase'[d] = phase[d]
                       \/ phase'[d] = "start" /\ phase[d] = "none"
  BY <1>b DEF ClassicTypeOK
<1>2. FlowHeld'
  <2> SUFFICES ASSUME ~cancelled', NEW d \in Calls, phase'[d] \notin {"none", "done"}
               PROVE  flow_lock' = d /\ caller'[d] = "running"
    BY DEF FlowHeld, Active
  <2>1. ~cancelled /\ \A e \in Active : flow_lock = e /\ caller[e] = "running"
    BY <1>0 DEF FlowHeld
  <2>2. CASE Begin(c)
    <3>1. d \in Active /\ d # c
      BY <2>1, <2>2 DEF Begin, Active, thread
    <3> QED
      BY <2>1, <2>2, <3>1 DEF Begin, ClassicTypeOK
  <2>3. CASE LockFlow(c)
    <3>1. flow_lock = Nobody /\ Active = {}
      BY <2>1, <2>3, NobodyCalls DEF LockFlow, Active
    <3>2. d = c
      BY <2>3, <3>1 DEF LockFlow, Active, ClassicTypeOK
    <3> QED
      BY <2>3, <3>2 DEF LockFlow, ClassicTypeOK
  <2>4. CASE Finish(c)
    <3>1. d \in Active /\ d # c
      BY <2>4 DEF Finish, Release, Active, thread
    <3> QED
      BY <2>1, <2>4, <3>1 DEF Finish, Release, ClassicTypeOK
  <2>5. CASE CancelFlow(c)
    <3>1. caller[c] # "running" /\ d \in Active
      BY <2>5 DEF CancelFlow, Release, Active, thread
    <3> QED
      BY <2>1, <2>5, <3>1 DEF CancelFlow, Release, ClassicTypeOK
  <2> QED
    BY <2>2, <2>3, <2>4, <2>5
<1>f. FlowStarted'
  BY <1>b DEF FlowStarted, ClassicTypeOK, Begin, LockFlow, Finish, CancelFlow, Release, thread
<1>3. SlotHasReader' /\ WaiterHasSlot' /\ SlotIsOpen'
  BY <1>0, <1>p, SlotsKept
<1>4. ClassicCauses'
  BY <1>0, <1>p DEF ClassicCauses
<1>5. OwnIdentity'
  BY <1>0, <1>p, OwnIdentityKept
<1>6. ~timed_out' /\ ~cancelled' => AskedBySlot' /\ OwnAnswer'
  <2> SUFFICES ASSUME AskedBySlot, OwnAnswer
               PROVE  AskedBySlot' /\ OwnAnswer'
    BY <1>0
  <2> QED
    BY <1>0, <1>p, AskedKept, OwnAnswerKept
<1> QED
  BY <1>1, <1>2, <1>f, <1>3, <1>4, <1>5, <1>6

\* A thread goes on without touching a slot or a channel: at the gate, past an
\* answer, into its timeout, past the operation.
LEMMA ThreadMoves ==
  ASSUME ClassicInv, NEW c \in Calls, Gate(c) \/ Received(c) \/ TimesOut(c) \/ Op(c)
  PROVE  ClassicInv'
<1> USE DEF ClassicInv, Phase
<1>0. /\ timed_out => timed_out'
      /\ UNCHANGED <<flow_lock, caller, cancelled, step_rx, slot, asked, authorized, over,
                     step_failing, shutting_down, stopped>>
  BY SMTT(60) DEF Gate, Received, TimesOut, Op, future, classic_session, flags
<1>a. PICK l \in {"start", "gate", "expired", "op", "done"} :
        /\ phase[c] \notin {"none", "done"} /\ phase' = [phase EXCEPT ![c] = l]
        /\ l = "gate" => phase[c] = "start" /\ ~shutting_down
        /\ l = "op" => phase[c] = "wait" /\ stage[c] = "auth" /\ step_rx[c] = "ok"
        /\ l = "expired" => phase[c] = "wait" /\ step_rx[c] = "empty" /\ timed_out'
        /\ l \in {"start", "gate", "done"} =>
             phase[c] \in {"start", "op"} \/ step_rx[c] # "empty"
        /\ stage' = stage \/ stage' = [stage EXCEPT ![c] = "auth"]
        /\ l # "start" => stage' = stage
  <2>1. CASE Gate(c)
    BY <2>1 DEF Gate
  <2>2. CASE Received(c)
    BY <2>2 DEF Received
  <2>3. CASE TimesOut(c)
    BY <2>3 DEF TimesOut
  <2>4. CASE Op(c)
    BY <2>4 DEF Op
  <2> QED
    BY <2>1, <2>2, <2>3, <2>4
<1>p. /\ phase'[c] = l /\ \A d \in Calls : d # c => phase'[d] = phase[d]
      /\ \A d \in Calls : d # c \/ l # "start" => stage'[d] = stage[d]
  BY <1>a DEF ClassicTypeOK
<1>1. ClassicTypeOK'
  <2>1. timed_out' \in BOOLEAN
    BY DEF Gate, Received, TimesOut, Op, ClassicTypeOK
  <2>2. phase' \in [Calls -> {"none", "start", "gate", "wait", "expired", "op", "done"}]
    BY <1>a DEF ClassicTypeOK
  <2>3. stage' \in [Calls -> Stages]
    BY <1>a DEF ClassicTypeOK, Stages
  <2> QED
    BY <1>0, <2>1, <2>2, <2>3 DEF ClassicTypeOK
<1>2. FlowHeld' /\ FlowStarted'
  BY <1>0, <1>a, <1>p, FlowKept
<1>3. SlotHasReader' /\ WaiterHasSlot' /\ SlotIsOpen'
  <2>1. \A d \in Calls : phase'[d] = "wait" => phase[d] = "wait" /\ stage'[d] = stage[d]
    BY <1>a, <1>p
  <2>2. \A d \in Calls : step_rx[d] = "empty" /\ phase[d] \in {"wait", "expired"} =>
          phase'[d] \in {"wait", "expired"} /\ stage'[d] = stage[d]
    BY <1>a, <1>p
  <2> QED
    BY <1>0, <2>1, <2>2, SlotsKept
<1>4. ClassicCauses'
  <2>1. \A d \in Calls : phase'[d] = "expired" => phase[d] = "expired" \/ timed_out'
    BY <1>a, <1>p
  <2> QED
    BY <1>0, <2>1 DEF ClassicCauses
<1>5. OwnIdentity'
  <2> SUFFICES ASSUME ~timed_out, ~cancelled, NEW d \in Calls, phase'[d] = "op"
               PROVE  d \in authorized
    BY <1>0 DEF OwnIdentity
  <2>1. CASE d = c
    BY <1>a, <1>p, <2>1 DEF OwnAnswer
  <2>2. CASE d # c
    BY <1>p, <2>2 DEF OwnIdentity
  <2> QED
    BY <2>1, <2>2
<1>6. ~timed_out' /\ ~cancelled' => AskedBySlot' /\ OwnAnswer'
  <2> SUFFICES ASSUME AskedBySlot, OwnAnswer
               PROVE  AskedBySlot' /\ OwnAnswer'
    BY <1>0
  <2>1. \A d \in Calls : \/ phase'[d] \in {phase[d], "none", "start", "done"}
                         \/ phase[d] \notin {"none", "start", "done"}
                         \/ ~shutting_down
    BY <1>a, <1>p
  <2>2. AskedBySlot'
    BY <1>0, <2>1, AskedKept
  <2>3. \A d \in Calls : phase'[d] = "wait" => phase[d] = "wait" /\ stage'[d] = stage[d]
    BY <1>a, <1>p
  <2>4. OwnAnswer'
    BY <1>0, <2>3, OwnAnswerKept
  <2> QED
    BY <2>2, <2>4
<1> QED
  BY <1>1, <1>2, <1>3, <1>4, <1>5, <1>6

\* A thread installs its sender over whatever the slot held.
LEMMA InstallStep ==
  ASSUME ClassicInv, NEW c \in Calls, Install(c)
  PROVE  ClassicInv'
<1> USE DEF ClassicInv
<1> DEFINE st == stage[c]
           old == slot[stage[c]]
<1>0. /\ phase[c] = "gate" /\ st \in Stages
      /\ step_rx' = [d \in Calls |->
           IF d = c THEN "empty" ELSE IF d = old THEN "closed" ELSE step_rx[d]]
      /\ \/ /\ phase' = [phase EXCEPT ![c] = "wait"] /\ slot' = [slot EXCEPT ![st] = c]
            /\ asked' = [asked EXCEPT ![st] = @ \cup {c}]
         \/ /\ phase' = [phase EXCEPT ![c] = "done"] /\ slot' = [slot EXCEPT ![st] = Nobody]
            /\ asked' = asked
      /\ UNCHANGED <<flow_lock, caller, cancelled, stage, authorized, over, timed_out,
                     step_failing, shutting_down, stopped>>
  BY DEF Install, Phase, future, flags, ClassicTypeOK
<1>s. old \in Calls \cup {Nobody} /\ old # c /\ \A ot \in Stages : slot[ot] # c
  <2>1. \A ot \in Stages : slot[ot] # c
    BY <1>0, NobodyCalls DEF SlotHasReader
  <2> QED
    BY <1>0, <2>1 DEF ClassicTypeOK
<1> HIDE DEF old, st
<1>p. /\ \A d \in Calls : d # c => phase'[d] = phase[d]
      /\ \/ phase'[c] = "wait" /\ slot'[st] = c
         \/ phase'[c] = "done" /\ slot'[st] = Nobody
  BY <1>0 DEF ClassicTypeOK
<1>q. \A ot \in Stages : ot # st => slot'[ot] = slot[ot]
  BY <1>0 DEF ClassicTypeOK
<1>k. /\ asked' \in [Stages -> SUBSET Calls]
      /\ \A ot \in Stages : ot # st => asked'[ot] = asked[ot]
      /\ \A ot \in Stages : \A k \in asked'[ot] : k \in asked[ot] \/ k = c
      /\ slot'[st] # c => asked' = asked
  <2>1. asked[st] \cup {c} \in SUBSET Calls
    BY <1>0 DEF ClassicTypeOK
  <2>2. CASE asked' = asked
    BY <2>2 DEF ClassicTypeOK
  <2>3. CASE asked' = [asked EXCEPT ![st] = @ \cup {c}] /\ slot' = [slot EXCEPT ![st] = c]
    BY <1>0, <2>1, <2>3 DEF ClassicTypeOK
  <2> QED
    BY <1>0, <2>2, <2>3
<1>r. /\ step_rx'[c] = "empty"
      /\ \A d \in Calls : d # c => step_rx'[d] \in {step_rx[d], "closed"}
      /\ \A d \in Calls : d \notin {c, old} => step_rx'[d] = step_rx[d]
      /\ \A d \in Calls : d = old => step_rx'[d] = "closed"
  BY <1>0, <1>s
<1>1. ClassicTypeOK'
  <2>1. step_rx' \in [Calls -> {"empty", "ok", "failed", "closed"}]
    BY <1>0 DEF ClassicTypeOK
  <2>2. phase' \in [Calls -> {"none", "start", "gate", "wait", "expired", "op", "done"}]
    BY <1>0 DEF ClassicTypeOK
  <2>3. slot' \in [Stages -> Calls \cup {Nobody}]
    BY <1>0 DEF ClassicTypeOK
  <2> QED
    BY <1>0, <1>k, <2>1, <2>2, <2>3 DEF ClassicTypeOK
<1>2. FlowHeld' /\ FlowStarted'
  BY <1>0, <1>p, FlowKept
<1>3. SlotHasReader'
  <2> SUFFICES ASSUME NEW ot \in Stages, slot'[ot] # Nobody
               PROVE  stage[slot'[ot]] = ot /\ phase'[slot'[ot]] \in {"wait", "expired"}
    BY <1>0 DEF SlotHasReader
  <2>1. CASE ot = st
    BY <1>p, <2>1 DEF st
  <2>2. CASE ot # st
    <3>1. slot'[ot] = slot[ot] /\ slot[ot] \in Calls /\ slot[ot] # c
      BY <1>q, <1>s, <2>2, SlotNames
    <3>2. stage[slot[ot]] = ot /\ phase[slot[ot]] \in {"wait", "expired"}
      BY <3>1 DEF SlotHasReader
    <3> QED
      BY <1>p, <3>1, <3>2
  <2> QED
    BY <2>1, <2>2
<1>4. WaiterHasSlot'
  <2> SUFFICES ASSUME NEW d \in Calls, phase'[d] = "wait", step_rx'[d] = "empty"
               PROVE  slot'[stage[d]] = d
    BY <1>0 DEF WaiterHasSlot
  <2>1. CASE d = c
    BY <1>p, <2>1 DEF st
  <2>2. CASE d # c
    <3>1. phase[d] = "wait" /\ d # old /\ step_rx[d] = "empty"
      BY <1>p, <1>r, <2>2
    <3>2. slot[stage[d]] = d
      BY <3>1 DEF WaiterHasSlot
    <3>3. stage[d] # st /\ stage[d] \in Stages
      BY <3>1, <3>2 DEF old, st, ClassicTypeOK
    <3> QED
      BY <1>q, <3>2, <3>3
  <2> QED
    BY <2>1, <2>2
<1>5. SlotIsOpen'
  <2> SUFFICES ASSUME NEW ot \in Stages, slot'[ot] # Nobody
               PROVE  step_rx'[slot'[ot]] = "empty"
    BY DEF SlotIsOpen
  <2>1. CASE ot = st
    BY <1>p, <1>r, <2>1
  <2>2. CASE ot # st
    <3>1. slot'[ot] = slot[ot] /\ slot[ot] \in Calls /\ slot[ot] # c
      BY <1>q, <1>s, <2>2, SlotNames
    <3>2. step_rx[slot[ot]] = "empty" /\ stage[slot[ot]] = ot
      BY <3>1, <2>2 DEF SlotIsOpen, SlotHasReader
    <3>3. slot[ot] # old
      BY <1>0, <1>s, <2>2, <3>1, <3>2 DEF SlotHasReader, old, st
    <3> QED
      BY <1>r, <3>1, <3>2, <3>3
  <2> QED
    BY <2>1, <2>2
<1>6. ClassicCauses'
  BY <1>0, <1>p DEF ClassicCauses
<1>7. OwnIdentity'
  BY <1>0, <1>p, OwnIdentityKept
<1>8. ASSUME ~timed_out, ~cancelled, AskedBySlot, OwnAnswer
      PROVE  AskedBySlot' /\ OwnAnswer'
  <2>1. \A ot \in Stages : \A k \in asked[ot] : k \in Calls /\ (slot[ot] # k => k = c)
    BY <1>0, <1>8 DEF AskedBySlot, ClassicTypeOK
  <2>2. \A ot \in Stages : \A k \in asked[ot] : slot[ot] # k
    <3> SUFFICES ASSUME NEW ot \in Stages, NEW k \in asked[ot], slot[ot] = k
                 PROVE  FALSE
      OBVIOUS
    <3>1. k \in Calls /\ k # c /\ phase[k] \in {"wait", "expired"}
      BY <1>s, <2>1, NobodyCalls DEF SlotHasReader
    <3>2. k \in Active /\ c \in Active
      BY <1>0, <3>1 DEF Active
    <3> QED
      BY <1>8, <3>1, <3>2, OneActive
  <2>3. AskedBySlot'
    <3> SUFFICES ASSUME NEW ot \in Stages, NEW k \in asked'[ot], slot'[ot] # k
                 PROVE  /\ shutting_down
                        /\ \A d \in Calls \ {k} : phase'[d] \in {"none", "start", "done"}
      BY <1>0 DEF AskedBySlot
    <3>1. k = c
      BY <1>k, <2>1, <2>2, SMTT(60)
    <3>2. k \in asked[ot]
      BY <1>k, <3>1
    <3>3. /\ shutting_down
          /\ \A d \in Calls \ {k} : phase[d] \in {"none", "start", "done"}
      BY <1>8, <2>2, <3>2 DEF AskedBySlot
    <3> QED
      BY <1>p, <3>1, <3>3
  <2>4. OwnAnswer'
    <3> SUFFICES ASSUME NEW d \in Calls, stage[d] = "auth", phase'[d] = "wait",
                        step_rx'[d] = "ok"
                 PROVE  d \in authorized
      BY <1>0 DEF OwnAnswer
    <3>1. d # c /\ phase[d] = "wait" /\ step_rx[d] = "ok"
      BY <1>p, <1>r
    <3> QED
      BY <1>8, <3>1 DEF OwnAnswer
  <2> QED
    BY <2>3, <2>4
<1>9. ~timed_out' /\ ~cancelled' => AskedBySlot' /\ OwnAnswer'
  BY <1>0, <1>8
<1> QED
  BY <1>1, <1>2, <1>3, <1>4, <1>5, <1>6, <1>7, <1>9

\* A timeout takes out whatever is in the slot of its stage.
LEMMA ClearSlotStep ==
  ASSUME ClassicInv, NEW c \in Calls, ClearSlot(c)
  PROVE  ClassicInv'
<1> USE DEF ClassicInv
<1>0. /\ phase[c] = "expired" /\ phase' = [phase EXCEPT ![c] = "done"]
      /\ stage[c] \in Stages /\ slot' = [slot EXCEPT ![stage[c]] = Nobody]
      /\ step_rx' = [d \in Calls |-> IF d = slot[stage[c]] THEN "closed" ELSE step_rx[d]]
      /\ UNCHANGED <<flow_lock, caller, cancelled, stage, asked, authorized, over, timed_out,
                     step_failing, shutting_down, stopped>>
  BY DEF ClearSlot, Phase, future, classic_session, flags, ClassicTypeOK
<1>p. phase'[c] = "done" /\ \A d \in Calls : d # c => phase'[d] = phase[d]
  BY <1>0 DEF ClassicTypeOK
<1>1. ClassicTypeOK'
  BY <1>0 DEF ClassicTypeOK
<1>2. FlowHeld' /\ FlowStarted'
  BY <1>0, <1>p, FlowKept
<1>3. SlotHasReader' /\ WaiterHasSlot' /\ SlotIsOpen'
  BY <1>0, <1>p, NobodyCalls, SlotTaken
<1>4. ClassicCauses'
  BY <1>0, <1>p DEF ClassicCauses
<1>5. OwnIdentity'
  BY <1>0, <1>p, OwnIdentityKept
<1>6. timed_out'
  BY <1>0, SMTT(60) DEF ClassicCauses
<1> QED
  BY <1>1, <1>2, <1>3, <1>4, <1>5, <1>6

\* The dispatcher or a teardown takes the sender out of a slot and tells it o.
LEMMA FulfilStep ==
  ASSUME ClassicInv, NEW st \in Stages, NEW o \in {"ok", "failed"}, Fulfil(st, o),
         asked' \in [Stages -> SUBSET Calls], \A ot \in Stages : asked'[ot] \subseteq asked[ot],
         authorized \subseteq authorized', authorized' \subseteq Calls,
         ~timed_out /\ ~cancelled =>
           /\ ~shutting_down => slot[st] \notin asked'[st]
           /\ o = "ok" /\ st = "auth" => slot[st] \in authorized' \cup {Nobody},
         step_failing' \in [Tearing -> SUBSET Stages],
         \A a \in Tearing : step_failing'[a] \subseteq step_failing[a],
         UNCHANGED <<flow_lock, caller, cancelled, stage, phase, over, timed_out,
                     shutting_down, stopped>>
  PROVE  ClassicInv'
<1> USE DEF ClassicInv
<1>0. /\ slot' = [slot EXCEPT ![st] = Nobody]
      /\ step_rx' = [d \in Calls |-> IF d = slot[st] THEN o ELSE step_rx[d]]
  BY DEF Fulfil
<1>p. /\ \A ot \in Stages : ot # st => slot'[ot] = slot[ot]
      /\ \A d \in Calls : d # slot[st] => step_rx'[d] = step_rx[d]
      /\ \A d \in Calls : d = slot[st] => step_rx'[d] = o
  BY <1>0 DEF ClassicTypeOK
<1>1. ClassicTypeOK'
  BY <1>0 DEF ClassicTypeOK
<1>2. FlowHeld' /\ FlowStarted'
  BY FlowKept
<1>3. SlotHasReader' /\ WaiterHasSlot' /\ SlotIsOpen'
  BY <1>0, NobodyCalls, SlotTaken
<1>4. ClassicCauses'
  BY DEF ClassicCauses
<1>5. OwnIdentity'
  BY OwnIdentityKept
<1>6. ASSUME ~timed_out, ~cancelled, AskedBySlot, OwnAnswer
      PROVE  AskedBySlot' /\ OwnAnswer'
  <2>1. AskedBySlot'
    <3> SUFFICES ASSUME NEW ot \in Stages, NEW k \in asked'[ot], slot'[ot] # k
                 PROVE  /\ shutting_down
                        /\ \A c \in Calls \ {k} : phase[c] \in {"none", "start", "done"}
      BY DEF AskedBySlot
    <3>1. k \in asked[ot] /\ k \in Calls
      OBVIOUS
    <3>2. CASE slot[ot] # k
      BY <1>6, <3>1, <3>2 DEF AskedBySlot
    <3>3. CASE slot[ot] = k
      <4>1. ot = st /\ shutting_down
        BY <1>6, <1>p, <3>3
      <4>2. k \in Active
        BY <3>1, <3>3, NobodyCalls DEF SlotHasReader, Active
      <4>3. \A c \in Calls \ {k} : c \notin Active
        BY <1>6, <4>2, OneActive
      <4>4. \A c \in Calls \ {k} : phase[c] \in {"none", "done"}
        BY <4>3 DEF Active
      <4> QED
        BY <4>1, <4>4
    <3> QED
      BY <3>2, <3>3
  <2>2. OwnAnswer'
    <3> SUFFICES ASSUME NEW c \in Calls, stage[c] = "auth", phase[c] = "wait",
                        step_rx'[c] = "ok"
                 PROVE  c \in authorized'
      BY DEF OwnAnswer
    <3>1. CASE c = slot[st]
      <4>1. o = "ok" /\ st = "auth"
        BY <1>p, <3>1, NobodyCalls DEF SlotHasReader
      <4> QED
        BY <1>6, <3>1, <4>1, NobodyCalls
    <3>2. CASE c # slot[st]
      BY <1>6, <1>p, <3>2 DEF OwnAnswer
    <3> QED
      BY <3>1, <3>2
  <2> QED
    BY <2>1, <2>2
<1>7. ~timed_out' /\ ~cancelled' => AskedBySlot' /\ OwnAnswer'
  BY <1>6
<1> QED
  BY <1>1, <1>2, <1>3, <1>4, <1>5, <1>7

\* The SDK answers a request of call k.
LEMMA AnswerStep ==
  ASSUME ClassicInv, NEW st \in Stages, NEW k \in Calls, NEW o \in {"ok", "failed"},
         Answer(st, k, o)
  PROVE  ClassicInv'
<1> USE DEF ClassicInv
<1>0. /\ k \in asked[st] /\ asked' = [asked EXCEPT ![st] = @ \ {k}]
      /\ authorized' = IF st = "auth" /\ o = "ok" THEN authorized \cup {k} ELSE authorized
      /\ Fulfil(st, o)
      /\ UNCHANGED <<flow_lock, caller, cancelled, stage, phase, over, timed_out,
                     step_failing, shutting_down, stopped>>
  BY DEF Answer, future, thread, flags
<1>1. /\ asked' \in [Stages -> SUBSET Calls] /\ asked'[st] = asked[st] \ {k}
      /\ \A ot \in Stages : asked'[ot] \subseteq asked[ot]
  BY <1>0 DEF ClassicTypeOK
<1>2. /\ authorized \subseteq authorized' /\ authorized' \subseteq Calls
      /\ o = "ok" /\ st = "auth" => k \in authorized'
  BY <1>0 DEF ClassicTypeOK
<1>3. /\ step_failing' \in [Tearing -> SUBSET Stages]
      /\ \A a \in Tearing : step_failing'[a] \subseteq step_failing[a]
  BY <1>0 DEF ClassicTypeOK
<1>4. ASSUME ~timed_out, ~cancelled
      PROVE  slot[st] \in {k, Nobody}
  <2> SUFFICES ASSUME slot[st] # k, slot[st] # Nobody
               PROVE  FALSE
    OBVIOUS
  <2>1. /\ slot[st] \in Calls /\ phase[slot[st]] \in {"wait", "expired"}
    BY SlotNames DEF SlotHasReader
  <2>2. \A c \in Calls \ {k} : phase[c] \in {"none", "start", "done"}
    BY <1>0, <1>4 DEF AskedBySlot
  <2> QED
    BY <2>1, <2>2
<1>5. ~timed_out /\ ~cancelled =>
        /\ ~shutting_down => slot[st] \notin asked'[st]
        /\ o = "ok" /\ st = "auth" => slot[st] \in authorized' \cup {Nobody}
  BY <1>1, <1>2, <1>4, NobodyCalls
<1>6. /\ Fulfil(st, o)
      /\ UNCHANGED <<flow_lock, caller, cancelled, stage, phase, over, timed_out,
                     shutting_down, stopped>>
  BY <1>0
<1>7. /\ asked' \in [Stages -> SUBSET Calls]
      /\ \A ot \in Stages : asked'[ot] \subseteq asked[ot]
      /\ authorized \subseteq authorized' /\ authorized' \subseteq Calls
  BY <1>1, <1>2
<1> HIDE DEF ClassicInv
<1> QED
  BY <1>3, <1>5, <1>6, <1>7, FulfilStep

\* fail_pending_identity fails the sender in a slot.
LEMMA FailSlotStep ==
  ASSUME ClassicInv, NEW a \in Tearing, NEW st \in Stages, FailSlot(a, st)
  PROVE  ClassicInv'
<1> USE DEF ClassicInv
<1>0. /\ st \in step_failing[a] /\ step_failing' = [step_failing EXCEPT ![a] = @ \ {st}]
      /\ Fulfil(st, "failed")
      /\ UNCHANGED <<flow_lock, caller, cancelled, stage, phase, asked, authorized, over,
                     timed_out, shutting_down, stopped>>
  BY DEF FailSlot, future, thread, classic_session, flags
<1>1. /\ step_failing' \in [Tearing -> SUBSET Stages]
      /\ \A b \in Tearing : step_failing'[b] \subseteq step_failing[b]
  BY <1>0 DEF ClassicTypeOK
<1>2. shutting_down
  BY <1>0 DEF ClassicCauses
<1>3. asked' \in [Stages -> SUBSET Calls] /\ authorized' \subseteq Calls
  BY <1>0 DEF ClassicTypeOK
<1> QED
  BY <1>0, <1>1, <1>2, <1>3, FulfilStep

\* A teardown raises the flag and goes on to fail both slots.
LEMMA ClassicTeardown ==
  ASSUME ClassicInv, NEW a \in Tearing, step_failing' = [step_failing EXCEPT ![a] = Stages],
         shutting_down' = TRUE, over' \in BOOLEAN, stopped' \in BOOLEAN,
         UNCHANGED <<flow_lock, caller, cancelled, stage, phase, step_rx, slot, asked,
                     authorized, timed_out>>
  PROVE  ClassicInv'
<1> USE DEF ClassicInv
<1>1. ClassicTypeOK'
  BY DEF ClassicTypeOK
<1>2. FlowHeld' /\ FlowStarted'
  BY FlowKept
<1>3. SlotHasReader' /\ WaiterHasSlot' /\ SlotIsOpen'
  BY SlotsKept
<1>4. ClassicCauses'
  BY DEF ClassicCauses
<1>5. OwnIdentity'
  BY OwnIdentityKept
<1>6. ~timed_out' /\ ~cancelled' => AskedBySlot' /\ OwnAnswer'
  BY AskedKept, OwnAnswerKept
<1> QED
  BY <1>1, <1>2, <1>3, <1>4, <1>5, <1>6

\* Every step keeps the invariant.
LEMMA ClassicInvStep == ClassicInv /\ [ClassicNext]_classicvars => ClassicInv'
<1> SUFFICES ASSUME ClassicInv, [ClassicNext]_classicvars
             PROVE  ClassicInv'
  OBVIOUS
<1>1. ASSUME NEW c \in Calls, ThreadStep(c)
      PROVE  ClassicInv'
  BY <1>1, ThreadMoves, InstallStep, ClearSlotStep DEF ThreadStep
<1>2. CASE ClassicSessionEnds
  <2>1. over' \in BOOLEAN /\ stopped' \in BOOLEAN /\ Dispatcher \in Tearing
    BY <1>2 DEF ClassicSessionEnds, ClassicInv, ClassicTypeOK, Tearing
  <2> QED
    BY <1>2, <2>1, ClassicTeardown DEF ClassicSessionEnds, future, thread
<1>3. CASE ClassicShutdown
  <2>1. over' \in BOOLEAN /\ stopped' \in BOOLEAN /\ Stopper \in Tearing
    BY <1>3 DEF ClassicShutdown, ClassicInv, ClassicTypeOK, Tearing
  <2> QED
    BY <1>3, <2>1, ClassicTeardown DEF ClassicShutdown, future, thread
<1>4. CASE UNCHANGED classicvars
  <2>1. UNCHANGED <<flow_lock, caller, cancelled, stage, phase, step_rx, slot, asked,
                    authorized, timed_out, step_failing, shutting_down, over, stopped>>
    BY <1>4 DEF classicvars, future, thread, classic_session, flags
  <2>2. ClassicTypeOK' /\ SlotHasReader' /\ WaiterHasSlot' /\ OwnIdentity'
    BY <2>1 DEF ClassicInv, ClassicTypeOK, SlotHasReader, WaiterHasSlot, OwnIdentity
  <2>3. SlotIsOpen' /\ FlowHeld' /\ FlowStarted' /\ ClassicCauses'
    BY <2>1 DEF ClassicInv, SlotIsOpen, FlowHeld, Active, FlowStarted, ClassicCauses
  <2>4. ~timed_out' /\ ~cancelled' => AskedBySlot' /\ OwnAnswer'
    BY <2>1 DEF ClassicInv, AskedBySlot, OwnAnswer
  <2> QED
    BY <2>2, <2>3, <2>4 DEF ClassicInv
<1> QED
  BY <1>1, <1>2, <1>3, <1>4, FutureStep, AnswerStep, FailSlotStep DEF ClassicNext

\* The invariant holds throughout.
LEMMA ClassicAlways == ClassicSpec => []ClassicInv
<1>1. ClassicInit => ClassicInv
  <2> SUFFICES ASSUME ClassicInit
               PROVE  ClassicInv
    OBVIOUS
  <2> USE DEF ClassicInit
  <2>1. ClassicTypeOK
    BY DEF ClassicTypeOK, Stages
  <2>2. SlotHasReader /\ WaiterHasSlot /\ OwnIdentity /\ SlotIsOpen
    BY DEF SlotHasReader, WaiterHasSlot, OwnIdentity, SlotIsOpen
  <2>3. FlowHeld /\ FlowStarted /\ ClassicCauses /\ AskedBySlot /\ OwnAnswer
    BY DEF FlowHeld, FlowStarted, Active, ClassicCauses, AskedBySlot, OwnAnswer
  <2> QED
    BY <2>1, <2>2, <2>3 DEF ClassicInv
<1> QED
  BY <1>1, ClassicInvStep, PTL DEF ClassicSpec

\* The slots pending_token and pending_identity_auth and the blocking threads
\* agree, and identity_flow_lock lets one flow run at a time while no caller
\* drops its future.
THEOREM ClassicKeepsSlots == ClassicSpec => []SlotsConsistent
<1>1. ClassicInv => SlotsConsistent
  <2>1. FlowHeld => OneFlow
    BY OneActive DEF OneFlow
  <2> QED
    BY <2>1 DEF ClassicInv, SlotsConsistent
<1> QED
  BY <1>1, ClassicAlways, PTL

\* with_identity runs its operation with the identity the SDK authorized for this
\* call, as long as no flow was given up by its timer or its caller.
THEOREM ClassicOwnIdentity == ClassicSpec => []OwnIdentity
<1>1. ClassicInv => OwnIdentity
  BY DEF ClassicInv
<1> QED
  BY <1>1, ClassicAlways, PTL
=============================================================================
