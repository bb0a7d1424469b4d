-------------------------- MODULE SessionPoolProofs --------------------------
(***************************************************************************)
(* The session pool keeps its bound, hands over clean sessions and leaves   *)
(* none behind when it is stopped, for every number of calls and sessions.  *)
(***************************************************************************)
EXTENDS SessionPool, FiniteSetTheorems, TLAPS

\* Steps are for Zenon, unless they name the SMT solver.
USE ZenonT(60)

\* The stages of a call that is counted in creations, and of one that has a
\* worker in its hands.
Creating == {"enter", "pop", "spawn", "starting", "register", "final", "made", "failed"}
Owning == {"spawn", "starting", "register", "final", "made", "claimed", "feeding",
           "cleaning", "dropping", "releasing"}
Stages == Holding \cup {"idle", "failed"}

At(stages) == {c \in Claims : claim_pc[c] \in stages}

TypeOK ==
  /\ available \in Seq(Workers) /\ all_workers \subseteq Workers
  /\ worker \in [Workers -> {"starting", "up", "dead", "stopped"}]
  /\ line \in [Workers -> SUBSET {"active", "cancelling"}]
  /\ claim_pc \in [Claims -> Stages] /\ handle \in [Claims -> Workers \cup {NoWorker}]
  /\ shutdown \in BOOLEAN /\ (shutdown <=> stopper # "off")
  /\ to_stop \subseteq Workers
  /\ stopper \in {"off", "collecting", "draining", "stopping", "signalled", "waiting",
                  "collecting to wait", "draining to wait", "stopping to wait", "stopped"}

\* A worker is in one place: idle once, or in the hands of one call.
Held == \A c \in Claims : handle[c] = NoWorker <=> claim_pc[c] \notin Owning
Apart ==
  /\ \A c, d \in Claims : c # d /\ handle[c] # NoWorker => handle[c] # handle[d]
  /\ \A i \in DOMAIN available, c \in Claims : available[i] # handle[c]
  /\ \A i, j \in DOMAIN available : available[i] = available[j] => i = j
Tracked ==
  \A w \in Workers : worker[w] # "stopped" =>
    (\E i \in DOMAIN available : available[i] = w) \/ \E c \in Claims : handle[c] = w

\* A worker that is still to be started is not running.
Unspawned == \A c \in Claims : claim_pc[c] = "spawn" => worker[handle[c]] = "stopped"

\* A thread is starting the worker: it will register the worker or stop it.
InStart(w) == \E c \in Claims : handle[c] = w /\ claim_pc[c] \in {"starting", "register"}

Registered == \A w \in Workers : worker[w] # "stopped" => w \in all_workers \/ InStart(w)

\* What the stopping thread knows at each of its steps.
Collected ==
  stopper \in {"draining", "stopping", "draining to wait", "stopping to wait"} =>
    \A w \in Workers : worker[w] # "stopped" => w \in to_stop \/ InStart(w)
Signalled ==
  stopper = "signalled" => \A w \in Workers : worker[w] # "stopped" => InStart(w)
Waited ==
  stopper \in {"collecting to wait", "draining to wait", "stopping to wait", "stopped"} =>
    \A c \in Claims : claim_pc[c] \notin Creating
Stopped == stopper = "stopped" => \A w \in Workers : worker[w] = "stopped"

Stops == Registered /\ Collected /\ Signalled /\ Waited /\ Stopped

Counts ==
  /\ max_subscription_sessions \in Nat /\ admission \in Nat /\ creations \in Nat
  /\ creations = Cardinality(At(Creating))
  /\ admission + Cardinality(At(Holding)) = max_subscription_sessions
  /\ Len(available) + Cardinality(At(Owning)) <= max_subscription_sessions

Shape == TypeOK /\ Held /\ Apart /\ Tracked /\ Unspawned /\ CleanHandover /\ Stops

PoolInv == Shape /\ Counts

-----------------------------------------------------------------------------
\* Moving one call changes the number of calls in a set of stages as its own
\* old and new stage say.
LEMMA CountMove ==
  ASSUME PoolConstants, TypeOK, NEW c \in Claims, NEW v, NEW S, Goto(c, v)
  PROVE  /\ IsFiniteSet(At(S)) /\ Cardinality(At(S)) \in Nat
         /\ Cardinality(At(S)') \in Nat
         /\ Cardinality(At(S)') = Cardinality(At(S)) + (IF v \in S THEN 1 ELSE 0)
                                     - (IF claim_pc[c] \in S THEN 1 ELSE 0)
<1>1. IsFiniteSet(At(S))
  BY FS_Subset DEF PoolConstants, At
<1>2. Cardinality(At(S)) \in Nat
  BY <1>1, FS_CardinalityType
<1>3. claim_pc'[c] = v /\ \A d \in Claims : d # c => claim_pc'[d] = claim_pc[d]
  BY DEF TypeOK, Goto
<1>4. CASE v \in S
  <2>1. At(S)' = At(S) \cup {c}
    BY <1>3, <1>4 DEF At
  <2>2. Cardinality(At(S)') = IF c \in At(S) THEN Cardinality(At(S)) ELSE Cardinality(At(S)) + 1
    BY <2>1, <1>1, FS_AddElement
  <2> QED
    BY <1>1, <1>2, <1>4, <2>2, SMTT(60) DEF At
<1>5. CASE v \notin S
  <2>1. At(S)' = At(S) \ {c}
    BY <1>3, <1>5 DEF At
  <2>2. Cardinality(At(S)') = IF c \in At(S) THEN Cardinality(At(S)) - 1 ELSE Cardinality(At(S))
    BY <2>1, <1>1, FS_RemoveElement
  <2>3. IsFiniteSet(At(S)')
    BY <2>1, <1>1, FS_RemoveElement, SMTT(60)
  <2>4. Cardinality(At(S)') \in Nat
    BY <2>3, FS_CardinalityType
  <2> QED
    BY <1>1, <1>2, <1>5, <2>2, <2>4, SMTT(60) DEF At
<1> QED
  BY <1>4, <1>5

\* Idle workers are workers.
LEMMA IdleWorkers ==
  ASSUME PoolConstants, TypeOK
  PROVE  \A i \in DOMAIN available : available[i] \in Workers /\ available[i] # NoWorker
<1>1. available \in Seq(Workers) /\ NoWorker \notin Workers
  BY DEF PoolConstants, TypeOK
<1> QED
  BY <1>1, SMTT(60)

\* A call in an owning stage has a worker.
LEMMA OwnedWorker ==
  ASSUME TypeOK, Held, NEW c \in Claims, claim_pc[c] \in Owning
  PROVE  handle[c] \in Workers /\ handle[c] # NoWorker
  BY DEF TypeOK, Held

\* A step of one call that touches its own worker only.
LEMMA OwnStep ==
  ASSUME PoolConstants, Shape, TypeOK', NEW c \in Claims,
         available' = available, stopper' = stopper, to_stop' = to_stop,
         all_workers \subseteq all_workers',
         \A d \in Claims : d # c => claim_pc'[d] = claim_pc[d] /\ handle'[d] = handle[d],
         \A w \in Workers : w # handle[c] => worker'[w] = worker[w] /\ line'[w] = line[w],
         handle'[c] = NoWorker <=> claim_pc'[c] \notin Owning,
         \/ handle'[c] = handle[c]
         \/ handle'[c] = NoWorker /\ worker'[handle[c]] = "stopped",
         claim_pc'[c] # "spawn",
         claim_pc'[c] \in {"made", "claimed"} => line'[handle[c]] = {},
         worker'[handle[c]] # "stopped" => \/ worker[handle[c]] # "stopped"
                                          \/ claim_pc'[c] \in {"starting", "register"},
         claim_pc'[c] \in Creating => claim_pc[c] \in Creating \/ stopper = "off",
         claim_pc'[c] \in {"starting", "register"} => claim_pc[c] \in Creating,
         claim_pc[c] \in {"starting", "register"} =>
           \/ claim_pc'[c] \in {"starting", "register"}
           \/ worker'[handle[c]] = "stopped"
           \/ handle[c] \in all_workers' /\ stopper = "off"
  PROVE  Shape'
<1>1. Held'
  BY DEF Shape, Held
<1>0. \A i \in DOMAIN available : available[i] \in Workers /\ available[i] # NoWorker
  BY IdleWorkers DEF Shape
<1>2. Apart'
  BY <1>0, SMTT(60) DEF Shape, Apart
<1>3. Tracked'
  BY SMTT(60) DEF Shape, Tracked
<1>a. ASSUME NEW d \in Claims, d # c, claim_pc[d] \in Owning
      PROVE  handle[d] \in Workers /\ handle[d] # handle[c] /\ handle'[d] = handle[d]
  BY <1>a, OwnedWorker DEF Shape, Apart
<1>4. Unspawned'
  BY <1>a, SMTT(60) DEF Shape, Unspawned, Owning
<1>5. CleanHandover'
  <2>1. ASSUME NEW i \in DOMAIN available
        PROVE  line'[available[i]] = {}
    BY <1>0, <2>1, SMTT(60) DEF Shape, CleanHandover, Apart
  <2>2. ASSUME NEW d \in Claims, claim_pc'[d] \in {"made", "claimed"}
        PROVE  line'[handle'[d]] = {}
    <3>1. CASE d = c
      BY <2>2, <3>1 DEF Owning
    <3>2. CASE d # c
      BY <1>a, <2>2, <3>2, SMTT(60) DEF Shape, CleanHandover, Owning
    <3> QED
      BY <3>1, <3>2
  <2> QED
    BY <2>1, <2>2 DEF CleanHandover
<1>6. Registered'
  BY SMTT(60) DEF Shape, Stops, Registered, InStart
<1>7. Collected'
  <2> SUFFICES ASSUME stopper \in {"draining", "stopping", "draining to wait", "stopping to wait"},
                      NEW w \in Workers, worker'[w] # "stopped", w \notin to_stop
               PROVE  InStart(w)'
    BY DEF Collected
  <2>1. stopper # "off" /\ (worker[w] # "stopped" => InStart(w))
    BY DEF Shape, Stops, Collected
  <2> QED
    BY <2>1 DEF InStart
<1>8. Signalled'
  BY SMTT(60) DEF Shape, Stops, Signalled, InStart
<1>9. Waited'
  BY DEF Shape, Stops, Waited
<1>10. Stopped'
  BY DEF Shape, Stops, Stopped, Waited
<1> QED
  BY <1>1, <1>2, <1>3, <1>4, <1>5, <1>6, <1>7, <1>8, <1>9, <1>10 DEF Shape, Stops

\* The call gives up its worker, which is stopped.
LEMMA GiveUp ==
  ASSUME PoolConstants, Shape, NEW c \in Claims, claim_pc[c] \in Owning,
         NEW v \in {"failed", "returning"}, v = "failed" => claim_pc[c] \in Creating,
         Goto(c, v), handle' = [handle EXCEPT ![c] = NoWorker], StopAll({handle[c]}),
         UNCHANGED <<available, all_workers, shutdown, stopper, to_stop>>
  PROVE  Shape'
<1>1. TypeOK /\ handle[c] \in Workers
  BY OwnedWorker DEF Shape
<1>2. TypeOK'
  BY <1>1 DEF Goto, StopAll, TypeOK, Stages, Holding
<1>3. /\ claim_pc'[c] = v /\ handle'[c] = NoWorker /\ worker'[handle[c]] = "stopped"
      /\ \A d \in Claims : d # c => claim_pc'[d] = claim_pc[d] /\ handle'[d] = handle[d]
      /\ \A w \in Workers : w # handle[c] => worker'[w] = worker[w] /\ line'[w] = line[w]
  BY <1>1 DEF Goto, StopAll, TypeOK
<1>4. v \notin Owning /\ (v \in Creating => v = "failed")
  BY DEF Owning, Creating
<1> QED
  BY <1>2, <1>3, <1>4, OwnStep

\* A claiming thread enters with nothing in its hands, or fails.
LEMMA Shape_Enter ==
  ASSUME PoolConstants, Shape, NEW c \in Claims, EnterClaim(c)
  PROVE  Shape'
<1>1. TypeOK /\ handle[c] = NoWorker /\ claim_pc[c] = "enter"
  BY DEF Shape, Held, EnterClaim, Owning
<1>2. /\ handle' = handle /\ UNCHANGED <<available, all_workers, worker, line, shutdown, stopper, to_stop>>
      /\ Goto(c, "failed") \/ Goto(c, "pop")
  BY <1>1 DEF TypeOK, EnterClaim, ClaimFails, Goto, pool, stopping
<1>3. TypeOK'
  BY <1>1, <1>2 DEF TypeOK, Goto, Stages, Holding
<1>4. /\ claim_pc'[c] \in {"failed", "pop"}
      /\ \A d \in Claims : d # c => claim_pc'[d] = claim_pc[d] /\ handle'[d] = handle[d]
  BY <1>1, <1>2 DEF TypeOK, Goto
<1> QED
  BY <1>1, <1>2, <1>3, <1>4, OwnStep DEF Owning, Creating

\* A thread begins to start the session it chose, unless the pool was stopped.
LEMMA Shape_SpawnBegin ==
  ASSUME PoolConstants, Shape, NEW c \in Claims, SpawnBegin(c)
  PROVE  Shape'
<1>1. TypeOK /\ handle[c] \in Workers /\ handle[c] # NoWorker /\ claim_pc[c] = "spawn" /\ worker[handle[c]] = "stopped"
  BY OwnedWorker DEF Shape, SpawnBegin, Unspawned, Owning
<1>2. TypeOK'
  BY <1>1 DEF TypeOK, SpawnBegin, ClaimFails, Goto, stopping, Stages, Holding
<1>3. /\ UNCHANGED <<available, all_workers, line, stopper, to_stop>>
      /\ \A d \in Claims : d # c => claim_pc'[d] = claim_pc[d] /\ handle'[d] = handle[d]
      /\ \A w \in Workers : w # handle[c] => worker'[w] = worker[w] /\ line'[w] = line[w]
      /\ \/ claim_pc'[c] = "failed" /\ handle'[c] = NoWorker /\ worker'[handle[c]] = "stopped"
         \/ claim_pc'[c] = "starting" /\ handle'[c] = handle[c]
  BY <1>1 DEF TypeOK, SpawnBegin, ClaimFails, Goto, stopping
<1> QED
  BY <1>1, <1>2, <1>3, OwnStep DEF Owning, Creating

\* A session that started is up and in its thread's hands; another is stopped.
LEMMA Shape_SpawnEnds ==
  ASSUME PoolConstants, Shape, NEW c \in Claims, SpawnEnds(c)
  PROVE  Shape'
<1>1. TypeOK /\ handle[c] \in Workers /\ handle[c] # NoWorker /\ claim_pc[c] = "starting"
  BY OwnedWorker DEF Shape, SpawnEnds, Owning
<1>2. ASSUME StopAll({handle[c]}), ClaimFails(c)
      PROVE  Shape'
  BY <1>1, <1>2, GiveUp DEF SpawnEnds, ClaimFails, Goto, stopping, Owning, Creating
<1>3. ASSUME worker' = [worker EXCEPT ![handle[c]] = "up"], Goto(c, "register"), UNCHANGED <<line, handle>>
      PROVE  Shape'
  <2>1. UNCHANGED <<available, all_workers, shutdown, stopper, to_stop>>
    BY DEF SpawnEnds, stopping
  <2>2. TypeOK'
    BY <1>1, <1>3, <2>1 DEF TypeOK, Goto, Stages, Holding
  <2>3. /\ claim_pc'[c] = "register" /\ \A d \in Claims : d # c => claim_pc'[d] = claim_pc[d]
        /\ \A w \in Workers : w # handle[c] => worker'[w] = worker[w]
    BY <1>1, <1>3 DEF TypeOK, Goto
  <2> QED
    BY <1>1, <1>3, <2>1, <2>2, <2>3, OwnStep DEF Owning, Creating
<1> QED
  BY <1>2, <1>3 DEF SpawnEnds

\* A started session is registered, or stopped behind a shutdown.
LEMMA Shape_Register ==
  ASSUME PoolConstants, Shape, NEW c \in Claims, RegisterWorker(c)
  PROVE  Shape'
<1>1. TypeOK /\ handle[c] \in Workers /\ handle[c] # NoWorker /\ claim_pc[c] = "register"
  BY OwnedWorker DEF Shape, RegisterWorker, Owning
<1>2. CASE shutdown
  BY <1>1, <1>2, GiveUp DEF RegisterWorker, ClaimFails, Goto, stopping, Owning, Creating
<1>3. CASE ~shutdown
  <2>1. /\ UNCHANGED <<available, worker, line, handle, shutdown, stopper, to_stop>>
        /\ Goto(c, "final") /\ all_workers' = all_workers \cup {handle[c]} /\ stopper = "off"
    BY <1>1, <1>3 DEF RegisterWorker, stopping, TypeOK
  <2>2. TypeOK'
    BY <1>1, <2>1 DEF TypeOK, Goto, Stages, Holding
  <2>3. claim_pc'[c] = "final" /\ \A d \in Claims : d # c => claim_pc'[d] = claim_pc[d]
    BY <1>1, <2>1 DEF TypeOK, Goto
  <2> QED
    BY <1>1, <2>1, <2>2, <2>3, OwnStep DEF Owning, Creating
<1> QED
  BY <1>2, <1>3

\* The last test of claim_with_permit stops a session that is not clean.
LEMMA Shape_Final ==
  ASSUME PoolConstants, Shape, NEW c \in Claims, Final(c)
  PROVE  Shape'
<1>1. TypeOK /\ handle[c] \in Workers /\ handle[c] # NoWorker /\ claim_pc[c] = "final"
  BY OwnedWorker DEF Shape, Final, Owning
<1>2. CASE shutdown \/ ~reusable(handle[c])
  BY <1>1, <1>2, GiveUp DEF Final, ClaimFails, Goto, stopping, Owning, Creating
<1>3. CASE ~(shutdown \/ ~reusable(handle[c]))
  <2>1. /\ UNCHANGED <<available, all_workers, worker, line, handle, shutdown, stopper, to_stop>>
        /\ Goto(c, "made") /\ line[handle[c]] = {}
    BY <1>1, <1>3 DEF Final, stopping, reusable
  <2>2. TypeOK'
    BY <1>1, <2>1 DEF TypeOK, Goto, Stages, Holding
  <2>3. claim_pc'[c] = "made" /\ \A d \in Claims : d # c => claim_pc'[d] = claim_pc[d]
    BY <1>1, <2>1 DEF TypeOK, Goto
  <2> QED
    BY <1>1, <2>1, <2>2, <2>3, OwnStep DEF Owning, Creating
<1> QED
  BY <1>2, <1>3

\* The creation guard is dropped and the claim handed over.
LEMMA Shape_EndCreation ==
  ASSUME PoolConstants, Shape, NEW c \in Claims, EndCreation(c)
  PROVE  Shape'
<1>1. TypeOK /\ UNCHANGED <<available, all_workers, worker, line, handle, shutdown, stopper, to_stop>>
  BY DEF Shape, EndCreation, pool, stopping
<1>2. \/ claim_pc[c] = "failed" /\ Goto(c, "idle") /\ handle[c] = NoWorker
      \/ claim_pc[c] = "made" /\ Goto(c, "claimed") /\ handle[c] # NoWorker /\ line[handle[c]] = {}
  BY DEF EndCreation, Shape, Held, CleanHandover, Owning
<1>3. TypeOK'
  BY <1>1, <1>2 DEF TypeOK, Goto, Stages, Holding
<1>4. /\ \A d \in Claims : d # c => claim_pc'[d] = claim_pc[d]
      /\ \/ claim_pc[c] = "failed" /\ claim_pc'[c] = "idle" /\ handle[c] = NoWorker
         \/ claim_pc[c] = "made" /\ claim_pc'[c] = "claimed" /\ handle[c] # NoWorker /\ line[handle[c]] = {}
  BY <1>1, <1>2 DEF TypeOK, Goto
<1> QED
  BY <1>1, <1>3, <1>4, OwnStep DEF Owning, Creating

\* A dropped claim stops its session or goes on to release it.
LEMMA Shape_DropClaim ==
  ASSUME PoolConstants, Shape, NEW c \in Claims, DropClaim(c)
  PROVE  Shape'
<1>1. TypeOK /\ handle[c] \in Workers /\ handle[c] # NoWorker /\ claim_pc[c] = "dropping"
  BY OwnedWorker DEF Shape, DropClaim, Owning
<1>2. CASE ~(reusable(handle[c]) /\ ~shutdown)
  BY <1>1, <1>2, GiveUp DEF DropClaim, stopping, Owning, Creating
<1>3. CASE reusable(handle[c]) /\ ~shutdown
  <2>1. /\ UNCHANGED <<available, all_workers, worker, line, handle, shutdown, stopper, to_stop>>
        /\ Goto(c, "releasing")
    BY <1>1, <1>3 DEF DropClaim, stopping
  <2>2. TypeOK'
    BY <1>1, <2>1 DEF TypeOK, Goto, Stages, Holding
  <2>3. claim_pc'[c] = "releasing" /\ \A d \in Claims : d # c => claim_pc'[d] = claim_pc[d]
    BY <1>1, <2>1 DEF TypeOK, Goto
  <2> QED
    BY <1>1, <2>1, <2>2, <2>3, OwnStep DEF Owning, Creating
<1> QED
  BY <1>2, <1>3

\* The steps of a call that change no session.
LEMMA Shape_Moves ==
  ASSUME PoolConstants, Shape, NEW c \in Claims,
         \/ acquire_capacity(c) \/ begin_creation(c) \/ wait_clean(c) \/ NeverUsed(c)
         \/ ReturnPermit(c)
  PROVE  Shape'
<1>1. /\ TypeOK /\ (handle[c] = NoWorker <=> claim_pc[c] \notin Owning)
      /\ UNCHANGED <<available, all_workers, worker, line, handle, shutdown, stopper, to_stop>>
  BY DEF Shape, Held, acquire_capacity, begin_creation, wait_clean, NeverUsed, ReturnPermit,
         pool, stopping
<1>2. \/ claim_pc[c] = "idle" /\ Goto(c, "permit")
      \/ claim_pc[c] = "permit" /\ (Goto(c, "idle") \/ (stopper = "off" /\ Goto(c, "enter")))
      \/ claim_pc[c] \in {"claimed", "feeding", "cleaning"} /\ Goto(c, "dropping")
      \/ claim_pc[c] = "returning" /\ Goto(c, "idle")
  <2>1. ~shutdown => stopper = "off"
    BY <1>1 DEF TypeOK
  <2>2. CASE begin_creation(c)
    BY <2>1, <2>2 DEF begin_creation
  <2> QED
    BY <2>2 DEF acquire_capacity, wait_clean, NeverUsed, ReturnPermit
<1>3. TypeOK'
  BY <1>1, <1>2 DEF TypeOK, Goto, Stages, Holding
<1>4. /\ \A d \in Claims : d # c => claim_pc'[d] = claim_pc[d]
      /\ \/ claim_pc[c] = "idle" /\ claim_pc'[c] = "permit"
         \/ claim_pc[c] = "permit" /\ (claim_pc'[c] = "idle" \/ (stopper = "off" /\ claim_pc'[c] = "enter"))
         \/ claim_pc[c] \in {"claimed", "feeding", "cleaning"} /\ claim_pc'[c] = "dropping"
         \/ claim_pc[c] = "returning" /\ claim_pc'[c] = "idle"
  BY <1>1, <1>2 DEF TypeOK, Goto
<1> QED
  BY <1>1, <1>3, <1>4, OwnStep DEF Owning, Creating

\* Subscribing and retiring feeds change only the session in the call's hands.
LEMMA Shape_Uses ==
  ASSUME PoolConstants, Shape, NEW c \in Claims, Subscribe(c) \/ RetireFeed(c)
  PROVE  Shape'
<1>1. /\ TypeOK /\ handle[c] \in Workers /\ handle[c] # NoWorker
      /\ claim_pc[c] \in {"claimed", "cleaning", "feeding"}
      /\ UNCHANGED <<available, all_workers, handle, shutdown, stopper, to_stop>>
  BY OwnedWorker DEF Shape, Subscribe, RetireFeed, stopping, Owning
<1>2. Goto(c, "feeding") \/ Goto(c, "cleaning")
  BY DEF Subscribe, RetireFeed
<1>3. /\ line' \in [Workers -> SUBSET {"active", "cancelling"}]
      /\ worker' \in [Workers -> {"starting", "up", "dead", "stopped"}]
      /\ worker'[handle[c]] # "stopped" => worker[handle[c]] # "stopped"
      /\ \A w \in Workers : w # handle[c] => worker'[w] = worker[w] /\ line'[w] = line[w]
  <2>1. CASE UNCHANGED worker /\ line' = [line EXCEPT ![handle[c]] = @ \cup {"active"}]
    BY <1>1, <2>1 DEF TypeOK
  <2>2. CASE /\ UNCHANGED worker
             /\ line' = [line EXCEPT ![handle[c]] = IF "active" \in @ THEN {"cancelling"} ELSE @]
    BY <1>1, <2>2 DEF TypeOK
  <2>3. CASE StopAll({handle[c]})
    BY <1>1, <2>3 DEF TypeOK, StopAll
  <2> QED
    BY <2>1, <2>2, <2>3 DEF Subscribe, RetireFeed
<1>4. TypeOK'
  BY <1>1, <1>2, <1>3 DEF TypeOK, Goto, Stages, Holding
<1>5. /\ claim_pc'[c] \in {"feeding", "cleaning"} /\ \A d \in Claims : d # c => claim_pc'[d] = claim_pc[d]
  BY <1>1, <1>2 DEF TypeOK, Goto
<1> QED
  BY <1>1, <1>3, <1>4, <1>5, OwnStep DEF Owning, Creating

\* A step outside the stopping thread that starts nothing.
LEMMA StopsKept ==
  ASSUME Stops, stopper' = stopper, to_stop' = to_stop,
         \A w \in Workers : worker'[w] # "stopped" =>
           worker[w] # "stopped" /\ (w \in all_workers => w \in all_workers'),
         \A w \in Workers : InStart(w) => InStart(w)',
         \A c \in Claims : claim_pc'[c] \in Creating => claim_pc[c] \in Creating
  PROVE  Stops'
<1>1. Registered'
  BY DEF Stops, Registered
<1>2. (Collected /\ Signalled)'
  BY DEF Stops, Collected, Signalled
<1>3. (Waited /\ Stopped)'
  BY DEF Stops, Waited, Stopped
<1> QED
  BY <1>1, <1>2, <1>3 DEF Stops

\* A worker changes on its own: it may die, and subscriptions end.
LEMMA Shape_Session ==
  ASSUME PoolConstants, Shape, NEW w \in Workers, Acknowledged(w) \/ WorkerEnds(w)
  PROVE  Shape'
<1>1. /\ TypeOK
      /\ UNCHANGED <<available, all_workers, claim_pc, handle, shutdown, stopper, to_stop>>
  BY DEF Shape, Acknowledged, WorkerEnds, calls, stopping
<1>2. /\ worker' \in [Workers -> {"starting", "up", "dead", "stopped"}]
      /\ line' \in [Workers -> SUBSET {"active", "cancelling"}]
      /\ \A v \in Workers : worker'[v] = "stopped" <=> worker[v] = "stopped"
      /\ \A v \in Workers : line'[v] \subseteq line[v]
  <2>1. CASE Acknowledged(w)
    BY <1>1, <2>1 DEF Acknowledged, TypeOK
  <2>2. CASE WorkerEnds(w)
    BY <1>1, <2>2 DEF WorkerEnds, TypeOK
  <2> QED
    BY <2>1, <2>2
<1>3. TypeOK'
  BY <1>1, <1>2 DEF TypeOK
<1>4. (Held /\ Apart)'
  BY <1>1 DEF Shape, Held, Apart
<1>5. Tracked'
  BY <1>1, <1>2 DEF Shape, Tracked
<1>6. Unspawned'
  BY <1>1, <1>2, OwnedWorker DEF Shape, Unspawned, Owning
<1>7. CleanHandover'
  BY <1>1, <1>2, OwnedWorker, IdleWorkers DEF Shape, CleanHandover, Owning
<1>8. Stops'
  BY <1>1, <1>2, StopsKept DEF Shape, InStart
<1> QED
  BY <1>3, <1>4, <1>5, <1>6, <1>7, <1>8 DEF Shape

\* A claim takes the last idle worker that can be reused.
LEMMA Shape_PopIdle ==
  ASSUME PoolConstants, Shape, NEW c \in Claims, claim_pc[c] = "pop", NEW last \in DOMAIN available,
         StopAll({available[i] : i \in (last + 1)..Len(available)}),
         handle' = [handle EXCEPT ![c] = available[last]],
         available' = SubSeq(available, 1, last - 1),
         Goto(c, "final"), UNCHANGED <<all_workers, shutdown, stopper, to_stop>>
  PROVE  Shape'
<1>1. TypeOK /\ handle[c] = NoWorker /\ available[last] \in Workers /\ available[last] # NoWorker
  BY IdleWorkers DEF Shape, Held, Owning
<1>2. /\ available \in Seq(Workers) /\ available' \in Seq(Workers)
      /\ last \in 1..Len(available) /\ DOMAIN available = 1..Len(available)
      /\ DOMAIN available' = 1..(last - 1)
      /\ \A i \in DOMAIN available' : i \in DOMAIN available /\ i # last /\ available'[i] = available[i]
  <2>1. available \in Seq(Workers)
    BY <1>1 DEF TypeOK
  <2> QED
    BY <2>1, SMTT(60)
<1>3. /\ worker' \in [Workers -> {"starting", "up", "dead", "stopped"}]
      /\ line' \in [Workers -> SUBSET {"active", "cancelling"}]
      /\ \A w \in Workers : worker'[w] # "stopped" => worker'[w] = worker[w]
      /\ \A w \in Workers : worker[w] = "stopped" => worker'[w] = "stopped"
      /\ \A w \in Workers : line'[w] = {} \/ line'[w] = line[w]
      /\ \A i \in (last + 1)..Len(available) : available[i] \in Workers => worker'[available[i]] = "stopped"
  BY <1>1 DEF TypeOK, StopAll
<1>4. /\ claim_pc'[c] = "final" /\ handle'[c] = available[last]
      /\ \A d \in Claims : d # c => claim_pc'[d] = claim_pc[d] /\ handle'[d] = handle[d]
  BY <1>1 DEF TypeOK, Goto
<1>5. TypeOK'
  BY <1>1, <1>2, <1>3 DEF TypeOK, Goto, Stages, Holding
<1>6. Held'
  BY <1>1, <1>4 DEF Shape, Held, Owning
<1>7. Apart'
  BY <1>1, <1>2, <1>4, SMTT(60) DEF Shape, Apart
<1>8. Tracked'
  <2> SUFFICES ASSUME NEW w \in Workers, worker'[w] # "stopped"
               PROVE  (\E i \in DOMAIN available' : available'[i] = w) \/ \E d \in Claims : handle'[d] = w
    BY DEF Tracked
  <2>1. CASE \E d \in Claims : handle[d] = w
    BY <1>1, <1>4, <2>1, SMTT(60) DEF PoolConstants
  <2>2. CASE \E i \in DOMAIN available : available[i] = w
    <3>1. PICK i \in DOMAIN available : available[i] = w
      BY <2>2
    <3>2. ~(i > last)
      BY <1>2, <1>3, <3>1, SMTT(60)
    <3> QED
      BY <1>2, <1>4, <3>1, <3>2, SMTT(60)
  <2> QED
    BY <1>3, <2>1, <2>2 DEF Shape, Tracked
<1>9. Unspawned'
  BY <1>1, <1>3, <1>4, OwnedWorker, SMTT(60) DEF Shape, Unspawned, Owning
<1>10. CleanHandover'
  <2>1. ASSUME NEW i \in DOMAIN available'
        PROVE  line'[available'[i]] = {}
    BY <1>1, <1>2, <1>3, <2>1, IdleWorkers, SMTT(60) DEF Shape, CleanHandover
  <2>2. ASSUME NEW d \in Claims, claim_pc'[d] \in {"made", "claimed"}
        PROVE  line'[handle'[d]] = {}
    <3>1. d # c /\ claim_pc[d] \in {"made", "claimed"} /\ handle'[d] = handle[d]
      BY <1>4, <2>2
    <3>2. handle[d] \in Workers /\ line[handle[d]] = {}
      BY <3>1, OwnedWorker DEF Shape, CleanHandover, Owning
    <3> QED
      BY <1>3, <3>1, <3>2
  <2> QED
    BY <2>1, <2>2 DEF CleanHandover
<1>11. Stops'
  BY <1>1, <1>3, <1>4, StopsKept DEF Shape, InStart, Creating
<1> QED
  BY <1>5, <1>6, <1>7, <1>8, <1>9, <1>10, <1>11 DEF Shape

\* The empty list of idle workers.
LEMMA EmptySequence ==
  ASSUME NEW S
  PROVE  << >> \in Seq(S) /\ DOMAIN << >> = {}
  BY SMTT(60)

\* A claim finds no worker to reuse and is about to start one.
LEMMA Shape_PopNone ==
  ASSUME PoolConstants, Shape, NEW c \in Claims, claim_pc[c] = "pop", NEW w \in Workers, Fresh(w),
         StopAll(idle), available' \in Seq(Workers), DOMAIN available' = {},
         handle' = [handle EXCEPT ![c] = w], all_workers' = all_workers \ {w},
         Goto(c, "spawn"), UNCHANGED <<shutdown, stopper, to_stop>>
  PROVE  Shape'
<1>1. /\ TypeOK /\ handle[c] = NoWorker /\ w # NoWorker
      /\ worker[w] = "stopped" /\ \A d \in Claims : handle[d] # w
  BY DEF Shape, Held, Owning, Fresh, Unused, PoolConstants
<1>2. /\ worker' \in [Workers -> {"starting", "up", "dead", "stopped"}]
      /\ line' \in [Workers -> SUBSET {"active", "cancelling"}]
      /\ \A v \in Workers : worker'[v] # "stopped" =>
           worker'[v] = worker[v] /\ \A i \in DOMAIN available : available[i] # v
      /\ \A v \in Workers : worker[v] = "stopped" => worker'[v] = "stopped"
      /\ \A v \in Workers : line'[v] = {} \/ line'[v] = line[v]
  BY <1>1 DEF TypeOK, StopAll, idle
<1>3. /\ claim_pc'[c] = "spawn" /\ handle'[c] = w
      /\ \A d \in Claims : d # c => claim_pc'[d] = claim_pc[d] /\ handle'[d] = handle[d]
  BY <1>1 DEF TypeOK, Goto
<1>4. TypeOK'
  BY <1>1, <1>2 DEF TypeOK, Goto, Stages, Holding
<1>5. Held'
  BY <1>1, <1>3 DEF Shape, Held, Owning
<1>6. Apart'
  BY <1>1, <1>3, SMTT(60) DEF Shape, Apart
<1>7. Tracked'
  BY <1>1, <1>2, <1>3, SMTT(60) DEF Shape, Tracked, PoolConstants
<1>8. Unspawned'
  BY <1>1, <1>2, <1>3, OwnedWorker, SMTT(60) DEF Shape, Unspawned, Owning
<1>9. CleanHandover'
  BY <1>2, <1>3, OwnedWorker, SMTT(60) DEF Shape, CleanHandover, Owning
<1>10. Stops'
  BY <1>1, <1>2, <1>3, StopsKept DEF Shape, InStart, Creating
<1> QED
  BY <1>4, <1>5, <1>6, <1>7, <1>8, <1>9, <1>10 DEF Shape

\* A claim takes an idle session or a fresh number.
LEMMA Shape_Pop ==
  ASSUME PoolConstants, Shape, NEW c \in Claims, Pop(c)
  PROVE  Shape'
  BY Shape_PopIdle, Shape_PopNone, EmptySequence DEF Pop, stopping

\* A clean session joins the idle ones, any other is stopped.
LEMMA Shape_release ==
  ASSUME PoolConstants, Shape, NEW c \in Claims, release(c)
  PROVE  Shape'
<1>1. TypeOK /\ handle[c] \in Workers /\ handle[c] # NoWorker /\ claim_pc[c] = "releasing"
  BY OwnedWorker DEF Shape, release, Owning
<1>2. CASE ~(reusable(handle[c]) /\ ~shutdown)
  BY <1>1, <1>2, GiveUp DEF release, stopping, Owning, Creating
<1>3. CASE reusable(handle[c]) /\ ~shutdown
  <2>1. /\ UNCHANGED <<all_workers, worker, line, shutdown, stopper, to_stop>>
        /\ Goto(c, "returning") /\ handle' = [handle EXCEPT ![c] = NoWorker]
        /\ available' = Append(available, handle[c]) /\ line[handle[c]] = {}
    BY <1>1, <1>3 DEF release, stopping, reusable
  <2>2. /\ claim_pc'[c] = "returning" /\ handle'[c] = NoWorker
        /\ \A d \in Claims : d # c => claim_pc'[d] = claim_pc[d] /\ handle'[d] = handle[d]
    BY <1>1, <2>1 DEF TypeOK, Goto
  <2>3. /\ available \in Seq(Workers) /\ available' \in Seq(Workers)
        /\ DOMAIN available = 1..Len(available) /\ DOMAIN available' = 1..(Len(available) + 1)
        /\ available'[Len(available) + 1] = handle[c]
        /\ \A i \in DOMAIN available : available'[i] = available[i]
        /\ \A i \in DOMAIN available' : i \in DOMAIN available \/ i = Len(available) + 1
    <3>1. available \in Seq(Workers)
      BY <1>1 DEF TypeOK
    <3> QED
      BY <1>1, <2>1, <3>1, SMTT(60)
  <2>4. TypeOK'
    BY <1>1, <2>1, <2>3 DEF TypeOK, Goto, Stages, Holding
  <2>5. Held'
    BY <1>1, <2>2 DEF Shape, Held, Owning
  <2>6. Apart'
    BY <1>1, <2>2, <2>3, IdleWorkers, SMTT(60) DEF Shape, Apart
  <2>7. Tracked'
    BY <1>1, <2>1, <2>2, <2>3, SMTT(60) DEF Shape, Tracked
  <2>8. Unspawned'
    BY <2>1, <2>2, SMTT(60) DEF Shape, Unspawned
  <2>9. CleanHandover'
    BY <2>1, <2>2, <2>3, SMTT(60) DEF Shape, CleanHandover
  <2>10. Stops'
    BY <1>1, <2>1, <2>2, StopsKept DEF Shape, InStart, Creating
  <2> QED
    BY <2>4, <2>5, <2>6, <2>7, <2>8, <2>9, <2>10 DEF Shape
<1> QED
  BY <1>2, <1>3

\* Stopping workers starts none and dirties none.
LEMMA StopAllEffect ==
  ASSUME TypeOK, NEW ws, StopAll(ws)
  PROVE  /\ worker' \in [Workers -> {"starting", "up", "dead", "stopped"}]
         /\ line' \in [Workers -> SUBSET {"active", "cancelling"}]
         /\ \A v \in Workers : worker'[v] # "stopped" => worker'[v] = worker[v] /\ v \notin ws
         /\ \A v \in Workers : worker[v] = "stopped" => worker'[v] = "stopped"
         /\ \A v \in Workers : line'[v] = {} \/ line'[v] = line[v]
  BY DEF TypeOK, StopAll

\* A stop empties the idle list and stops what was in it.
LEMMA Shape_drain_available ==
  ASSUME PoolConstants, Shape, drain_available
  PROVE  Shape'
<1>1. /\ TypeOK /\ StopAll(idle) /\ available' \in Seq(Workers) /\ DOMAIN available' = {}
      /\ UNCHANGED <<all_workers, claim_pc, handle, shutdown, to_stop>>
      /\ \/ stopper = "draining" /\ stopper' = "stopping"
         \/ stopper = "draining to wait" /\ stopper' = "stopping to wait"
  BY EmptySequence DEF Shape, drain_available, StopperGoes, calls
<1>2. /\ worker' \in [Workers -> {"starting", "up", "dead", "stopped"}]
      /\ line' \in [Workers -> SUBSET {"active", "cancelling"}]
      /\ \A v \in Workers : worker'[v] # "stopped" => worker'[v] = worker[v] /\ v \notin idle
      /\ \A v \in Workers : worker[v] = "stopped" => worker'[v] = "stopped"
      /\ \A v \in Workers : line'[v] = {} \/ line'[v] = line[v]
  BY <1>1, StopAllEffect
<1>3. TypeOK'
  BY <1>1, <1>2 DEF TypeOK
<1>4. (Held /\ Apart)'
  BY <1>1 DEF Shape, Held, Apart
<1>5. Tracked'
  BY <1>1, <1>2 DEF Shape, Tracked, idle
<1>6. Unspawned'
  BY <1>1, <1>2, OwnedWorker DEF Shape, Unspawned, Owning
<1>7. CleanHandover'
  BY <1>1, <1>2, OwnedWorker DEF Shape, CleanHandover, Owning
<1>8. Stops'
  <2>1. Registered'
    BY <1>1, <1>2 DEF Shape, Stops, Registered, InStart
  <2>2. Collected'
    BY <1>1, <1>2 DEF Shape, Stops, Collected, InStart
  <2>3. (Signalled /\ Stopped)'
    BY <1>1 DEF Signalled, Stopped
  <2>4. Waited'
    BY <1>1 DEF Shape, Stops, Waited
  <2> QED
    BY <2>1, <2>2, <2>3, <2>4 DEF Stops
<1> QED
  BY <1>3, <1>4, <1>5, <1>6, <1>7, <1>8 DEF Shape

\* A stop ends with the registered workers it collected stopped.
LEMMA Shape_StopWorkers ==
  ASSUME PoolConstants, Shape, StopWorkers
  PROVE  Shape'
<1>1. /\ TypeOK /\ StopAll(to_stop) /\ to_stop' = {}
      /\ UNCHANGED <<available, all_workers, claim_pc, handle, shutdown>>
      /\ \/ stopper = "stopping" /\ stopper' = "signalled"
         \/ stopper = "stopping to wait" /\ stopper' = "stopped"
  BY DEF Shape, StopWorkers, StopperGoes, calls
<1>2. /\ worker' \in [Workers -> {"starting", "up", "dead", "stopped"}]
      /\ line' \in [Workers -> SUBSET {"active", "cancelling"}]
      /\ \A v \in Workers : worker'[v] # "stopped" => worker'[v] = worker[v] /\ v \notin to_stop
      /\ \A v \in Workers : worker[v] = "stopped" => worker'[v] = "stopped"
      /\ \A v \in Workers : line'[v] = {} \/ line'[v] = line[v]
  BY <1>1, StopAllEffect
<1>3. TypeOK'
  BY <1>1, <1>2 DEF TypeOK
<1>4. (Held /\ Apart)'
  BY <1>1 DEF Shape, Held, Apart
<1>5. Tracked'
  BY <1>1, <1>2 DEF Shape, Tracked
<1>6. Unspawned'
  BY <1>1, <1>2, OwnedWorker DEF Shape, Unspawned, Owning
<1>7. CleanHandover'
  BY <1>1, <1>2, OwnedWorker, IdleWorkers DEF Shape, CleanHandover, Owning
<1>8. Stops'
  <2>1. Registered'
    BY <1>1, <1>2 DEF Shape, Stops, Registered, InStart
  <2>2. \A v \in Workers : worker'[v] # "stopped" => InStart(v)
    BY <1>1, <1>2 DEF Shape, Stops, Collected
  <2>3. (Collected /\ Signalled)'
    BY <1>1, <2>2 DEF Collected, Signalled, InStart
  <2>4. Waited'
    BY <1>1 DEF Shape, Stops, Waited
  <2>5. Stopped'
    BY <1>1, <2>2, <2>4 DEF Stopped, Waited, InStart, Creating
  <2> QED
    BY <2>1, <2>3, <2>4, <2>5 DEF Stops
<1> QED
  BY <1>3, <1>4, <1>5, <1>6, <1>7, <1>8 DEF Shape

\* The flag is set, the threads are waited for and the workers are collected.
LEMMA Shape_Signals ==
  ASSUME PoolConstants, PoolInv,
         signal_shutdown \/ shutdown_blocking \/ WaitCreations \/ registered_workers
  PROVE  Shape'
<1>1. Shape /\ TypeOK /\ UNCHANGED <<available, all_workers, worker, line, claim_pc, handle>>
  BY
  DEF PoolInv, Shape, signal_shutdown, shutdown_blocking, WaitCreations, registered_workers,
      pool, calls
<1>2. (Held /\ Apart /\ Tracked /\ Unspawned /\ CleanHandover)'
  BY <1>1, SMTT(60) DEF Shape, Held, Apart, Tracked, Unspawned, CleanHandover
<1>3. Registered'
  BY <1>1 DEF Shape, Stops, Registered, InStart
<1>4. CASE signal_shutdown \/ shutdown_blocking
  <2>1. shutdown' = TRUE /\ stopper' \in {"collecting", "waiting"} /\ to_stop' = to_stop
    BY <1>4 DEF signal_shutdown, shutdown_blocking, StopperGoes
  <2>2. TypeOK'
    BY <1>1, <2>1 DEF TypeOK
  <2>3. Stops'
    BY <1>3, <2>1 DEF Stops, Collected, Signalled, Waited, Stopped
  <2> QED
    BY <1>2, <2>2, <2>3 DEF Shape
<1>5. CASE WaitCreations
  <2>1. /\ stopper = "waiting" /\ stopper' = "collecting to wait" /\ creations = 0
        /\ UNCHANGED <<shutdown, to_stop>>
    BY <1>5 DEF WaitCreations, StopperGoes
  <2>2. TypeOK'
    BY <1>1, <2>1 DEF TypeOK
  <2>3. IsFiniteSet(At(Creating))
    BY FS_Subset DEF PoolConstants, At
  <2>4. At(Creating) = {}
    BY <2>1, <2>3, FS_EmptySet DEF PoolInv, Counts
  <2>5. Stops'
    BY <1>1, <1>3, <2>1, <2>4 DEF Stops, Collected, Signalled, Waited, Stopped, At
  <2> QED
    BY <1>2, <2>2, <2>5 DEF Shape
<1>6. CASE registered_workers
  <2>1. /\ \/ stopper = "collecting" /\ stopper' = "draining"
           \/ stopper = "collecting to wait" /\ stopper' = "draining to wait"
        /\ to_stop' = all_workers \cap Unstopped /\ shutdown' = shutdown
    BY <1>6 DEF registered_workers, StopperGoes
  <2>2. TypeOK'
    BY <1>1, <2>1 DEF TypeOK
  <2>3. \A w \in Workers : worker[w] # "stopped" => w \in to_stop' \/ InStart(w)
    BY <1>1, <2>1 DEF Shape, TypeOK, Stops, Registered, Unstopped
  <2>4. Collected'
    BY <1>1, <2>3 DEF Collected, InStart
  <2>5. Waited'
    BY <1>1, <2>1 DEF Shape, Stops, Waited
  <2>6. (Signalled /\ Stopped)'
    BY <2>1 DEF Signalled, Stopped
  <2> QED
    BY <1>2, <1>3, <2>2, <2>4, <2>5, <2>6 DEF Shape, Stops
<1> QED
  BY <1>4, <1>5, <1>6

-----------------------------------------------------------------------------
\* The counters follow a call to stage v, and the idle workers do not outgrow
\* the capacity it gives back.
One(stage, stages) == IF stage \in stages THEN 1 ELSE 0
Follow(c, v) ==
  /\ max_subscription_sessions' = max_subscription_sessions
  /\ creations' = creations + One(v, Creating) - One(claim_pc[c], Creating)
  /\ admission' = admission - One(v, Holding) + One(claim_pc[c], Holding)
  /\ admission' >= 0 /\ Len(available) \in Nat /\ Len(available') \in Nat
  /\ \/ Len(available') = 0
     \/ Len(available') + One(v, Owning) <= Len(available) + One(claim_pc[c], Owning)

\* A call that changes its stage moves the counters as Follow says.
LEMMA CountsMove ==
  ASSUME PoolConstants, TypeOK, Counts, NEW c \in Claims, NEW v, Goto(c, v), Follow(c, v)
  PROVE  Counts'
<1>0. \A stage, stages : One(stage, stages) \in Int
  BY SMTT(60) DEF One
<1>1. /\ max_subscription_sessions \in Nat /\ admission \in Nat /\ creations \in Nat
      /\ creations = Cardinality(At(Creating))
      /\ admission + Cardinality(At(Holding)) = max_subscription_sessions
      /\ Len(available) + Cardinality(At(Owning)) <= max_subscription_sessions
  BY DEF Counts
<1>2. /\ Cardinality(At(Creating)) \in Nat /\ Cardinality(At(Creating)') \in Nat
      /\ Cardinality(At(Creating)') = Cardinality(At(Creating))
           + One(v, Creating) - One(claim_pc[c], Creating)
  BY CountMove DEF One
<1>3. /\ Cardinality(At(Holding)) \in Nat /\ Cardinality(At(Holding)') \in Nat
      /\ Cardinality(At(Holding)') = Cardinality(At(Holding))
           + One(v, Holding) - One(claim_pc[c], Holding)
  BY CountMove DEF One
<1>4. /\ Cardinality(At(Owning)) \in Nat /\ Cardinality(At(Owning)') \in Nat
      /\ Cardinality(At(Owning)') = Cardinality(At(Owning))
           + One(v, Owning) - One(claim_pc[c], Owning)
  BY CountMove DEF One
<1>5. Cardinality(At(Owning)') <= Cardinality(At(Holding)')
  <2>1. IsFiniteSet(At(Holding)')
    BY FS_Subset DEF PoolConstants, At
  <2>2. At(Owning)' \in SUBSET (At(Holding)')
    BY DEF At, Owning, Holding
  <2> QED
    BY <2>1, <2>2, FS_Subset
<1>6. creations' = Cardinality(At(Creating)') /\ creations' \in Nat
  BY <1>1, <1>2 DEF Follow
<1>7. admission' + Cardinality(At(Holding)') = max_subscription_sessions /\ admission' \in Nat
  <2>1. admission' = admission - One(v, Holding) + One(claim_pc[c], Holding) /\ admission' >= 0
    BY DEF Follow
  <2> QED
    BY <1>0, <1>1, <1>3, <2>1, SMTT(60)
<1>8. Len(available') + Cardinality(At(Owning)') <= max_subscription_sessions
  <2>1. /\ Len(available) \in Nat /\ Len(available') \in Nat
        /\ \/ Len(available') = 0
           \/ Len(available') + One(v, Owning) <= Len(available) + One(claim_pc[c], Owning)
    BY DEF Follow
  <2>2. CASE Len(available') = 0
    BY <1>1, <1>3, <1>4, <1>5, <1>7, <2>2, SMTT(60)
  <2>3. CASE Len(available') + One(v, Owning) <= Len(available) + One(claim_pc[c], Owning)
    BY <1>0, <1>1, <1>4, <2>1, <2>3, SMTT(60)
  <2> QED
    BY <2>1, <2>2, <2>3
<1> QED
  BY <1>1, <1>6, <1>7, <1>8 DEF Counts, Follow

\* No call moves.
LEMMA CountsKept ==
  ASSUME PoolConstants, Counts, max_subscription_sessions' = max_subscription_sessions,
         UNCHANGED <<admission, creations, claim_pc>>, Len(available) \in Nat,
         available' = available \/ Len(available') = 0
  PROVE  Counts'
<1>1. At(Creating)' = At(Creating) /\ At(Holding)' = At(Holding) /\ At(Owning)' = At(Owning)
  BY DEF At
<1>2. Cardinality(At(Owning)) \in Nat
  BY FS_Subset, FS_CardinalityType DEF PoolConstants, At
<1>3. /\ Len(available) + Cardinality(At(Owning)) <= max_subscription_sessions
      /\ max_subscription_sessions \in Nat
  BY DEF Counts
<1>4. Len(available') + Cardinality(At(Owning)') <= max_subscription_sessions
  BY <1>1, <1>2, <1>3, SMTT(60)
<1> QED
  BY <1>1, <1>4 DEF Counts

\* The idle list is finite.
LEMMA IdleLength ==
  ASSUME TypeOK
  PROVE  available \in Seq(Workers) /\ Len(available) \in Nat
<1>1. available \in Seq(Workers)
  BY DEF TypeOK
<1> QED
  BY <1>1, SMTT(60)

\* The ways a call and the counters move together while the idle workers stay:
\* nothing is counted, the permit is returned, or something is counted.
LEMMA CountsOwn ==
  ASSUME PoolConstants, TypeOK, Counts, NEW c \in Claims, NEW v, Goto(c, v),
         max_subscription_sessions' = max_subscription_sessions, available' = available,
         v \in Owning => claim_pc[c] \in Owning,
         \/ /\ v \in Creating <=> claim_pc[c] \in Creating
            /\ v \in Holding <=> claim_pc[c] \in Holding
            /\ UNCHANGED <<admission, creations>>
         \/ /\ v \in Creating <=> claim_pc[c] \in Creating
            /\ v \notin Holding /\ claim_pc[c] \in Holding
            /\ admission' = admission + 1 /\ creations' = creations
         \/ /\ v \in Creating <=> claim_pc[c] \in Creating
            /\ v \in Holding /\ claim_pc[c] \notin Holding
            /\ admission > 0 /\ admission' = admission - 1 /\ creations' = creations
         \/ /\ v \in Creating /\ claim_pc[c] \notin Creating
            /\ v \in Holding <=> claim_pc[c] \in Holding
            /\ creations' = creations + 1 /\ admission' = admission
         \/ /\ v \notin Creating /\ claim_pc[c] \in Creating
            /\ v \in Holding <=> claim_pc[c] \in Holding
            /\ creations' = creations - 1 /\ admission' = admission
  PROVE  Counts'
<1>1. admission \in Nat /\ creations \in Nat
  BY DEF Counts
<1>2. Len(available) \in Nat
  BY IdleLength
<1>3. creations' = creations + One(v, Creating) - One(claim_pc[c], Creating)
  BY <1>1, SMTT(60) DEF One
<1>4. admission' = admission - One(v, Holding) + One(claim_pc[c], Holding) /\ admission' >= 0
  BY <1>1, SMTT(60) DEF One
<1>5. Len(available') + One(v, Owning) <= Len(available) + One(claim_pc[c], Owning)
  BY <1>2, SMTT(60) DEF One
<1> QED
  BY <1>2, <1>3, <1>4, <1>5, CountsMove DEF Follow

\* Permits and creations are counted with the stages of the calls.
LEMMA Counts_Admission ==
  ASSUME PoolConstants, PoolInv, max_subscription_sessions' = max_subscription_sessions,
         NEW c \in Claims,
         \/ acquire_capacity(c) \/ begin_creation(c) \/ EnterClaim(c) \/ EndCreation(c)
         \/ ReturnPermit(c)
  PROVE  Counts'
<1>1. TypeOK /\ Counts
  BY DEF PoolInv, Shape
<1>2. CASE acquire_capacity(c)
  BY <1>1, <1>2, CountsOwn DEF acquire_capacity, pool, Creating, Holding, Owning
<1>3. CASE begin_creation(c)
  BY <1>1, <1>3, CountsOwn DEF begin_creation, pool, Creating, Holding, Owning
<1>4. CASE EnterClaim(c)
  BY <1>1, <1>4, CountsOwn DEF EnterClaim, ClaimFails, Goto, pool, Creating, Holding, Owning
<1>5. CASE EndCreation(c)
  BY <1>1, <1>5, CountsOwn DEF EndCreation, pool, Creating, Holding, Owning
<1>6. CASE ReturnPermit(c)
  BY <1>1, <1>6, CountsOwn DEF ReturnPermit, pool, Creating, Holding, Owning
<1> QED
  BY <1>2, <1>3, <1>4, <1>5, <1>6

\* Starting a session keeps its permit, and a failure returns it.
LEMMA Counts_Spawn ==
  ASSUME PoolConstants, PoolInv, max_subscription_sessions' = max_subscription_sessions,
         NEW c \in Claims, SpawnBegin(c) \/ SpawnEnds(c) \/ RegisterWorker(c) \/ Final(c)
  PROVE  Counts'
<1>1. TypeOK /\ Counts
  BY DEF PoolInv, Shape
<1>2. CASE SpawnBegin(c)
  BY <1>1, <1>2, CountsOwn DEF SpawnBegin, ClaimFails, Goto, Creating, Holding, Owning
<1>3. CASE SpawnEnds(c)
  BY <1>1, <1>3, CountsOwn DEF SpawnEnds, ClaimFails, Goto, Creating, Holding, Owning
<1>4. CASE RegisterWorker(c)
  BY <1>1, <1>4, CountsOwn DEF RegisterWorker, ClaimFails, Goto, Creating, Holding, Owning
<1>5. CASE Final(c)
  BY <1>1, <1>5, CountsOwn DEF Final, ClaimFails, Goto, Creating, Holding, Owning
<1> QED
  BY <1>2, <1>3, <1>4, <1>5

\* A session in use keeps its permit.
LEMMA Counts_Use ==
  ASSUME PoolConstants, PoolInv, max_subscription_sessions' = max_subscription_sessions,
         NEW c \in Claims,
         Subscribe(c) \/ RetireFeed(c) \/ NeverUsed(c) \/ wait_clean(c) \/ DropClaim(c)
  PROVE  Counts'
<1>1. TypeOK /\ Counts
  BY DEF PoolInv, Shape
<1>2. CASE Subscribe(c)
  BY <1>1, <1>2, CountsOwn DEF Subscribe, capacity, Creating, Holding, Owning
<1>3. CASE RetireFeed(c)
  BY <1>1, <1>3, CountsOwn DEF RetireFeed, capacity, Creating, Holding, Owning
<1>4. CASE NeverUsed(c) \/ wait_clean(c)
  BY <1>1, <1>4, CountsOwn DEF NeverUsed, wait_clean, pool, capacity, Creating, Holding, Owning
<1>5. CASE DropClaim(c)
  BY <1>1, <1>5, CountsOwn DEF DropClaim, capacity, Creating, Holding, Owning
<1> QED
  BY <1>2, <1>3, <1>4, <1>5

\* Taking and returning an idle session keeps the counters.
LEMMA Counts_Idle ==
  ASSUME PoolConstants, PoolInv, max_subscription_sessions' = max_subscription_sessions,
         NEW c \in Claims, Pop(c) \/ release(c)
  PROVE  Counts'
<1>1. TypeOK /\ Counts /\ admission \in Nat /\ creations \in Nat
  BY DEF PoolInv, Shape, Counts
<1>2. Len(available) \in Nat /\ available \in Seq(Workers)
  BY <1>1, IdleLength
<1>3. CASE Pop(c)
  <2>1. /\ claim_pc[c] = "pop" /\ UNCHANGED <<admission, creations>>
        /\ \/ Goto(c, "final") /\ \E last \in DOMAIN available : available' = SubSeq(available, 1, last - 1)
           \/ Goto(c, "spawn") /\ available' = <<>>
    BY <1>3 DEF Pop, capacity
  <2>2. /\ One("pop", Creating) = 1 /\ One("pop", Holding) = 1 /\ One("pop", Owning) = 0
        /\ One("final", Creating) = 1 /\ One("final", Holding) = 1 /\ One("final", Owning) = 1
        /\ One("spawn", Creating) = 1 /\ One("spawn", Holding) = 1
    BY DEF One, Creating, Holding, Owning
  <2>3. CASE Goto(c, "final") /\ \E last \in DOMAIN available : available' = SubSeq(available, 1, last - 1)
    <3>1. Len(available') \in Nat /\ Len(available') + 1 <= Len(available)
      BY <1>2, <2>3, SMTT(60)
    <3>2. Follow(c, "final")
      BY <1>1, <1>2, <2>1, <2>2, <3>1, SMTT(60) DEF Follow
    <3> QED
      BY <1>1, <2>3, <3>2, CountsMove
  <2>4. CASE Goto(c, "spawn") /\ available' = <<>>
    <3>1. Len(available') = 0
      BY <2>4
    <3>2. Follow(c, "spawn")
      BY <1>1, <1>2, <2>1, <2>2, <3>1, SMTT(60) DEF Follow
    <3> QED
      BY <1>1, <2>4, <3>2, CountsMove
  <2> QED
    BY <2>1, <2>3, <2>4
<1>4. CASE release(c)
  <2>1. /\ claim_pc[c] = "releasing" /\ UNCHANGED <<admission, creations>> /\ Goto(c, "returning")
        /\ available' = available \/ available' = Append(available, handle[c])
    BY <1>4 DEF release, capacity
  <2>2. /\ One("releasing", Creating) = 0 /\ One("releasing", Holding) = 1 /\ One("releasing", Owning) = 1
        /\ One("returning", Creating) = 0 /\ One("returning", Holding) = 1 /\ One("returning", Owning) = 0
    BY DEF One, Creating, Holding, Owning
  <2>3. Len(available') \in Nat /\ Len(available') <= Len(available) + 1
    BY <1>2, <2>1, SMTT(60)
  <2>4. Follow(c, "returning")
    BY <1>1, <1>2, <2>1, <2>2, <2>3, SMTT(60) DEF Follow
  <2> QED
    BY <1>1, <2>1, <2>4, CountsMove
<1> QED
  BY <1>3, <1>4

\* The SDK's events and a stop touch no counter.
LEMMA Counts_Others ==
  ASSUME PoolConstants, PoolInv, max_subscription_sessions' = max_subscription_sessions,
         \/ \E w \in Workers : Acknowledged(w) \/ WorkerEnds(w)
         \/ signal_shutdown \/ shutdown_blocking \/ Stopping
  PROVE  Counts'
<1>1. Counts /\ Len(available) \in Nat
  BY IdleLength DEF PoolInv, Shape
<1>2. /\ UNCHANGED <<admission, creations, claim_pc>>
      /\ available' = available \/ available' = <<>>
  BY
  DEF Acknowledged, WorkerEnds, signal_shutdown, shutdown_blocking, Stopping, WaitCreations,
      registered_workers, drain_available, StopWorkers, pool, capacity, calls
<1>3. available' = available \/ Len(available') = 0
  BY <1>2, SMTT(60)
<1> QED
  BY <1>1, <1>2, <1>3, CountsKept

-----------------------------------------------------------------------------
\* The pool starts with its first sessions idle and nothing counted.
LEMMA PoolInvInit ==
  ASSUME PoolConstants, PoolInit
  PROVE  PoolInv
<1>1. PICK size \in 0..max_subscription_sessions :
        /\ available = [i \in 1..size |-> i] /\ all_workers = 1..size
        /\ worker = [w \in Workers |-> IF w <= size THEN "up" ELSE "stopped"]
  BY DEF PoolInit
<1>2. /\ max_subscription_sessions \in 1..MaxSessions /\ MaxSessions \in Nat
      /\ size \in Nat /\ size <= max_subscription_sessions /\ size <= MaxSessions
  BY <1>1, SMTT(60) DEF PoolInit, PoolConstants
<1>3. /\ available \in Seq(Workers) /\ Len(available) = size /\ DOMAIN available = 1..size
      /\ \A i \in 1..size : available[i] = i
      /\ 1..size \subseteq Workers
  BY <1>1, <1>2, SMTT(60) DEF Workers
<1>4. /\ line = [w \in Workers |-> {}] /\ admission = max_subscription_sessions /\ creations = 0
      /\ shutdown = FALSE /\ claim_pc = [c \in Claims |-> "idle"] /\ handle = [c \in Claims |-> NoWorker]
      /\ stopper = "off" /\ to_stop = {}
  BY DEF PoolInit
<1>5. TypeOK
  BY <1>1, <1>3, <1>4 DEF TypeOK, Stages
<1>6. Held /\ Apart /\ Unspawned
  BY <1>3, <1>4 DEF Held, Apart, Unspawned, Owning, PoolConstants
<1>7. Tracked
  BY <1>1, <1>2, <1>3, SMTT(60) DEF Tracked, Workers
<1>8. CleanHandover
  BY <1>3, <1>4 DEF CleanHandover
<1>9. Stops
  <2>1. Registered
    BY <1>1, <1>2, SMTT(60) DEF Registered, Workers
  <2> QED
    BY <1>4, <2>1 DEF Stops, Collected, Signalled, Waited, Stopped
<1>10. Counts
  <2>1. At(Creating) = {} /\ At(Holding) = {} /\ At(Owning) = {}
    BY <1>4 DEF At, Creating, Holding, Owning
  <2> QED
    BY <1>2, <1>3, <1>4, <2>1, FS_EmptySet, SMTT(60) DEF Counts
<1> QED
  BY <1>5, <1>6, <1>7, <1>8, <1>9, <1>10 DEF PoolInv, Shape

\* Every step keeps the invariant.
LEMMA PoolInvStep ==
  ASSUME PoolConstants, PoolInv, [PoolNext]_poolvars
  PROVE  PoolInv'
<1>1. CASE UNCHANGED poolvars
  <2>1. /\ UNCHANGED <<available, all_workers, worker, line, claim_pc, handle, shutdown, stopper, to_stop>>
        /\ UNCHANGED <<max_subscription_sessions, admission, creations>>
    BY <1>1 DEF poolvars, pool, capacity, calls, stopping
  <2>2. TypeOK'
    BY <2>1 DEF PoolInv, Shape, TypeOK
  <2>3. (Held /\ Apart /\ Tracked /\ Unspawned /\ CleanHandover)'
    BY <2>1, SMTT(60) DEF PoolInv, Shape, Held, Apart, Tracked, Unspawned, CleanHandover
  <2>4. Stops'
    BY <2>1
    DEF PoolInv, Shape, Stops, Registered, Collected, Signalled, Waited, Stopped, InStart
  <2>5. Counts'
    BY <2>1 DEF PoolInv, Counts, At
  <2> QED
    BY <2>2, <2>3, <2>4, <2>5 DEF PoolInv, Shape
<1>2. CASE PoolNext
  <2>1. Shape /\ max_subscription_sessions' = max_subscription_sessions
    BY <1>2 DEF PoolNext, PoolInv
  <2>2. ASSUME NEW c \in Claims, acquire_capacity(c) \/ begin_creation(c)
        PROVE  PoolInv'
    BY <2>1, <2>2, Shape_Moves, Counts_Admission DEF PoolInv
  <2>3. ASSUME NEW c \in Claims, ClaimThread(c)
        PROVE  PoolInv'
    <3>1. Shape'
      BY <2>1, <2>3, Shape_Enter, Shape_Pop, Shape_SpawnBegin, Shape_SpawnEnds, Shape_Register,
         Shape_Final, Shape_EndCreation DEF ClaimThread
    <3>2. Counts'
      BY <2>1, <2>3, Counts_Admission, Counts_Spawn, Counts_Idle DEF ClaimThread
    <3> QED
      BY <3>1, <3>2 DEF PoolInv
  <2>4. ASSUME NEW c \in Claims, Subscribe(c) \/ RetireFeed(c) \/ NeverUsed(c)
        PROVE  PoolInv'
    BY <2>1, <2>4, Shape_Moves, Shape_Uses, Counts_Use DEF PoolInv
  <2>5. ASSUME NEW c \in Claims, Dropping(c)
        PROVE  PoolInv'
    <3>1. Shape'
      BY <2>1, <2>5, Shape_Moves, Shape_DropClaim, Shape_release DEF Dropping
    <3>2. Counts'
      BY <2>1, <2>5, Counts_Admission, Counts_Use, Counts_Idle DEF Dropping
    <3> QED
      BY <3>1, <3>2 DEF PoolInv
  <2>6. ASSUME NEW w \in Workers, Acknowledged(w) \/ WorkerEnds(w)
        PROVE  PoolInv'
    BY <2>1, <2>6, Shape_Session, Counts_Others DEF PoolInv
  <2>7. CASE signal_shutdown \/ shutdown_blocking \/ Stopping
    <3>1. Shape'
      BY <2>1, <2>7, Shape_Signals, Shape_drain_available, Shape_StopWorkers DEF Stopping
    <3> QED
      BY <2>1, <2>7, <3>1, Counts_Others DEF PoolInv
  <2> QED
    BY <1>2, <2>2, <2>3, <2>4, <2>5, <2>6, <2>7 DEF PoolNext
<1> QED
  BY <1>1, <1>2

\* The inductive invariant holds in every state of the pool.
LEMMA PoolAlways == ASSUME PoolConstants PROVE PoolSpec => []PoolInv
<1>1. PoolInit => PoolInv
  BY PoolInvInit
<1>2. PoolInv /\ [PoolNext]_poolvars => PoolInv'
  BY PoolInvStep
<1> QED
  BY <1>1, <1>2, PTL DEF PoolSpec

-----------------------------------------------------------------------------
\* Every session is idle once or in the hands of one call, so that there are at
\* most as many as there may be: claim_with_permit starts a session only for a
\* call that holds a permit.
LEMMA BoundHolds ==
  ASSUME PoolConstants, PoolInv
  PROVE  SessionBound
<1>1. TypeOK /\ Held /\ Apart /\ Tracked /\ Counts
  BY DEF PoolInv, Shape
<1>2. available \in Seq(Workers) /\ Len(available) \in Nat /\ DOMAIN available = 1..Len(available)
  BY <1>1, IdleLength, SMTT(60)
<1> DEFINE Hands == {handle[c] : c \in At(Owning)}
<1>3. IsFiniteSet(idle) /\ Cardinality(idle) <= Len(available)
  <2>1. IsFiniteSet(1..Len(available)) /\ Cardinality(1..Len(available)) = Len(available)
    BY <1>2, FS_Interval, SMTT(60)
  <2>2. available \in Surjection(1..Len(available), idle)
    BY <1>2, SMTT(60) DEF idle, Surjection
  <2> QED
    BY <2>1, <2>2, FS_Surjection, SMTT(60)
<1>4. IsFiniteSet(At(Owning)) /\ Cardinality(At(Owning)) \in Nat
  BY FS_Subset, FS_CardinalityType DEF PoolConstants, At
<1>5. IsFiniteSet(Hands) /\ Cardinality(Hands) <= Cardinality(At(Owning))
  <2> DEFINE f == [c \in At(Owning) |-> handle[c]]
  <2>1. f \in Surjection(At(Owning), Hands)
    BY DEF Surjection
  <2> HIDE DEF f, Hands
  <2> QED
    BY <1>4, <2>1, FS_Surjection
<1>6. Unstopped \subseteq idle \cup Hands
  BY <1>1 DEF Tracked, Held, At, Unstopped, idle, PoolConstants
<1>7. Cardinality(Unstopped) <= max_subscription_sessions
  <2> HIDE DEF Hands
  <2>1. /\ IsFiniteSet(idle \cup Hands)
        /\ Cardinality(idle \cup Hands) = Cardinality(idle) + Cardinality(Hands) - Cardinality(idle \cap Hands)
    BY <1>3, <1>5, FS_Union
  <2>2. Cardinality(Unstopped) <= Cardinality(idle \cup Hands) /\ IsFiniteSet(Unstopped)
    BY <1>6, <2>1, FS_Subset
  <2>3. /\ Cardinality(idle) \in Nat /\ Cardinality(Hands) \in Nat /\ Cardinality(Unstopped) \in Nat
        /\ Cardinality(idle \cap Hands) \in Nat
    <3>1. IsFiniteSet(idle \cap Hands)
      BY <1>3, FS_Subset
    <3> QED
      BY <1>3, <1>5, <2>2, <3>1, FS_CardinalityType
  <2>4. Len(available) + Cardinality(At(Owning)) <= max_subscription_sessions /\ max_subscription_sessions \in Nat
    BY <1>1 DEF Counts
  <2> QED
    BY <1>2, <1>3, <1>4, <1>5, <2>1, <2>2, <2>3, <2>4, SMTT(60)
<1>8. ASSUME NEW w \in Unstopped
      PROVE  Cardinality({i \in DOMAIN available : available[i] = w})
               + Cardinality({c \in Claims : handle[c] = w}) = 1
  <2> DEFINE I == {i \in DOMAIN available : available[i] = w}
             H == {c \in Claims : handle[c] = w}
  <2>1. w \in Workers /\ w # NoWorker
    BY DEF Unstopped, PoolConstants
  <2>2. CASE \E i \in DOMAIN available : available[i] = w
    <3>1. PICK i \in DOMAIN available : available[i] = w
      BY <2>2
    <3>2. I = {i} /\ H = {}
      BY <1>1, <3>1 DEF Apart
    <3>3. Cardinality(I) = 1 /\ Cardinality(H) = 0
      BY <3>2, FS_Singleton, FS_EmptySet
    <3> QED
      BY <3>3, SMTT(60)
  <2>3. CASE \E c \in Claims : handle[c] = w
    <3>1. PICK c \in Claims : handle[c] = w
      BY <2>3
    <3>2. H = {c} /\ I = {}
      BY <1>1, <2>1, <3>1 DEF Apart
    <3>3. Cardinality(H) = 1 /\ Cardinality(I) = 0
      BY <3>2, FS_Singleton, FS_EmptySet
    <3> QED
      BY <3>3, SMTT(60)
  <2> QED
    BY <1>1, <2>1, <2>2, <2>3 DEF Tracked, Unstopped
<1>9. admission + Cardinality({c \in Claims : claim_pc[c] \in Holding}) = max_subscription_sessions
  BY <1>1 DEF Counts, At
<1> QED
  BY <1>7, <1>8, <1>9 DEF SessionBound

\* The pool never runs more sessions than max_subscription_sessions, each in one
\* place, and returns every permit it hands out, for every number of calls.
THEOREM PoolKeepsBound == PoolSpec => []SessionBound
<1>1. PoolInv => SessionBound
  BY PoolAssumption, BoundHolds
<1> QED
  BY <1>1, PoolAssumption, PoolAlways, PTL

\* A claim never meets a subscription of the claim before it.
THEOREM PoolHandsOverClean == PoolSpec => []CleanHandover
<1>1. PoolInv => CleanHandover
  BY DEF PoolInv, Shape
<1> QED
  BY <1>1, PoolAssumption, PoolAlways, PTL

\* shutdown_blocking leaves no session running and no thread that starts one.
THEOREM PoolStops == PoolSpec => []StopLeavesNothing
<1>1. PoolInv => StopLeavesNothing
  <2> SUFFICES ASSUME PoolInv PROVE StopLeavesNothing
    OBVIOUS
  <2>1. TypeOK /\ Signalled /\ Waited /\ Stopped
    BY DEF PoolInv, Shape, Stops
  <2>2. ASSUME stopper = "stopped" PROVE Unstopped = {} /\ creations = 0
    <3>1. Unstopped = {}
      BY <2>1, <2>2 DEF Stopped, Unstopped
    <3>2. At(Creating) = {}
      BY <2>1, <2>2 DEF Waited, At
    <3> QED
      BY <3>1, <3>2, FS_EmptySet DEF PoolInv, Counts
  <2>3. ASSUME stopper = "signalled", NEW w \in Unstopped
        PROVE  \E c \in Claims : handle[c] = w /\ claim_pc[c] \in {"starting", "register"}
    BY <2>1, <2>3 DEF Signalled, InStart, Unstopped
  <2> QED
    BY <2>2, <2>3 DEF StopLeavesNothing
<1> QED
  BY <1>1, PoolAssumption, PoolAlways, PTL
=============================================================================
