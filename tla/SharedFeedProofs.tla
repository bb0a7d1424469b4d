-------------------------- MODULE SharedFeedProofs --------------------------
(***************************************************************************)
(* The hub's registry, its feeds, the worker's slab and the recovery tasks *)
(* agree in every state, for every number of topics, consumers, feeds,     *)
(* slab keys and events.                                                   *)
(***************************************************************************)
EXTENDS SharedFeed, TLAPS

\* Steps are for Zenon, unless they name the SMT solver.
USE ZenonT(60)

-----------------------------------------------------------------------------
(* The registry and the lives of feeds. *)

LEMMA HubConstants == 0 \notin Feeds /\ NoKey \notin Keys /\ Topics # {} /\ MaxFeeds \in Nat
  BY SharedFeedConstants, SMTT(60) DEF Feeds, Keys

\* A feed is to come, alive or retired.
LEMMA Lives ==
  ASSUME TypeOK
  PROVE  /\ Alive \subseteq born /\ born \subseteq Feeds
         /\ \A f \in Feeds : open(f) => f \in Alive
         /\ \A f \in born : f \in Alive <=> lifecycle[f] # "closed"
  BY DEF TypeOK, Alive, born, open

\* The registered feeds are those alive.
LEMMA RegisteredAlive == TypeOK /\ RegistryExact => registered = Alive
  BY Lives DEF RegistryExact, registered

\* What the invariant says of a key in use.
LEMMA KeyInUse ==
  ASSUME HubInv, NEW k \in Keys, subs[k] # 0
  PROVE  /\ subs[k] \in born /\ subs[k] \in Feeds /\ session[subs[k]] = k[1] /\ k[1] \notin ended
         /\ upstream_key[subs[k]] = k \/ (Held("store") /\ gate.f = subs[k] /\ gate.rest = {k})
         /\ lifecycle[subs[k]] = "closed" => k \in pending_cancel
  BY DEF HubInv, Slab, born

\* A feed has at most one subscription.
LEMMA OneKey ==
  ASSUME HubInv, NEW k \in Keys, NEW j \in Keys, subs[k] # 0, subs[j] = subs[k]
  PROVE  j = k
<1>1. upstream_key[subs[k]] = k \/ (Held("store") /\ gate.f = subs[k] /\ gate.rest = {k})
  BY KeyInUse
<1>2. upstream_key[subs[k]] = j \/ (Held("store") /\ gate.f = subs[k] /\ gate.rest = {j})
  BY KeyInUse
<1>3. Held("store") => upstream_key[gate.f] = NoKey
  BY DEF HubInv, GateHeld, Held
<1>4. k # NoKey /\ j # NoKey
  BY HubConstants
<1> QED
  BY <1>1, <1>2, <1>3, <1>4

-----------------------------------------------------------------------------
(* What keeps each part of the invariant. *)

\* Feeds to come stay as they are.
LEMMA NumberedKept ==
  ASSUME Numbered, born' = born, UNCHANGED session,
         \A f \in Feeds \ born :
           /\ consumers'[f] = consumers[f] /\ active'[f] \subseteq active[f]
           /\ upstream_key'[f] = upstream_key[f] /\ stage'[f] = stage[f]
           /\ recovery_task_scheduled'[f] = recovery_task_scheduled[f]
  PROVE  Numbered'
<1>1. \E n \in 0 .. MaxFeeds : born' = 1 .. n
  BY DEF Numbered
<1>2. ASSUME NEW f \in Feeds \ born'
      PROVE  /\ consumers'[f] = {} /\ active'[f] = {} /\ upstream_key'[f] = NoKey
             /\ stage'[f] = "none" /\ ~recovery_task_scheduled'[f]
  <2>1. f \in Feeds \ born
    OBVIOUS
  <2>2. /\ consumers[f] = {} /\ active[f] = {} /\ upstream_key[f] = NoKey
        /\ stage[f] = "none" /\ ~recovery_task_scheduled[f]
    BY <2>1 DEF Numbered
  <2> QED
    BY <2>1, <2>2
<1>3. \A f \in born' : session'[f] # 0
  BY DEF Numbered
<1> QED
  BY <1>1, <1>2, <1>3 DEF Numbered

LEMMA RegistryKept ==
  ASSUME TypeOK, RegistryExact, Alive' = Alive, UNCHANGED <<registry, topic>>
  PROVE  RegistryExact'
  BY DEF RegistryExact, TypeOK

LEMMA FedKept ==
  ASSUME TypeOK, Fed,
         \A f \in Feeds : active'[f] # {} =>
           /\ active'[f] \subseteq active[f] /\ consumers[f] \subseteq consumers'[f]
           /\ open(f) => open(f)'
  PROVE  Fed'
<1> SUFFICES ASSUME NEW f \in Feeds, active'[f] # {}
             PROVE  open(f)' /\ active'[f] \subseteq consumers'[f]
  BY DEF Fed
<1>1. active'[f] \subseteq active[f] /\ consumers[f] \subseteq consumers'[f] /\ active[f] # {}
  OBVIOUS
<1>2. open(f) /\ active[f] \subseteq consumers[f]
  BY <1>1 DEF Fed
<1> QED
  BY <1>1, <1>2

\* Subscriptions stay or end, and no feed is retired.
LEMMA SlabKept ==
  ASSUME HubInv, UNCHANGED <<session, upstream_key>>, born' = born,
         \A f \in Feeds : lifecycle'[f] = "closed" => lifecycle[f] = "closed",
         \/ Held("store") => Held("store")' /\ gate'.f = gate.f /\ gate'.rest = gate.rest
         \/ \A k \in Keys : subs[k] # gate.f,
         \A k \in Keys : subs'[k] # 0 =>
           /\ subs'[k] = subs[k] /\ k[1] \notin ended'
           /\ k \in pending_cancel => k \in pending_cancel',
         pending_cancel' \subseteq pending_cancel, \A k \in pending_cancel' : subs'[k] # 0
  PROVE  Slab'
<1>1. ASSUME NEW k \in Keys, subs'[k] # 0
      PROVE  /\ subs'[k] \in born' /\ session'[subs'[k]] = k[1] /\ k[1] \notin ended'
             /\ \/ upstream_key'[subs'[k]] = k
                \/ Held("store")' /\ gate'.f = subs'[k] /\ gate'.rest = {k}
             /\ lifecycle'[subs'[k]] = "closed" => k \in pending_cancel'
  <2>1. subs'[k] = subs[k] /\ subs[k] # 0 /\ k[1] \notin ended'
    BY <1>1
  <2>2. /\ subs[k] \in born /\ subs[k] \in Feeds /\ session[subs[k]] = k[1]
        /\ upstream_key[subs[k]] = k \/ (Held("store") /\ gate.f = subs[k] /\ gate.rest = {k})
        /\ lifecycle[subs[k]] = "closed" => k \in pending_cancel
    BY <2>1, KeyInUse
  <2> QED
    BY <1>1, <2>1, <2>2
<1> QED
  BY <1>1 DEF Slab

LEMMA SlabStill ==
  ASSUME HubInv, UNCHANGED <<session, upstream_key, subs, pending_cancel, ended>>, born' = born,
         \A f \in Feeds : lifecycle'[f] = "closed" => lifecycle[f] = "closed",
         \/ Held("store") => Held("store")' /\ gate'.f = gate.f /\ gate'.rest = gate.rest
         \/ \A k \in Keys : subs[k] # gate.f
  PROVE  Slab'
<1>1. \A k \in pending_cancel' : subs'[k] # 0
  BY DEF HubInv, Slab
<1>2. \A k \in Keys : subs'[k] # 0 => k[1] \notin ended'
  BY KeyInUse
<1> QED
  BY <1>1, <1>2, SlabKept

LEMMA GateKept ==
  ASSUME GateHeld, UNCHANGED <<gate, upstream_key, consumers>>, born' = born, Alive' = Alive
  PROVE  GateHeld'
  BY DEF GateHeld

LEMMA AttachedKept ==
  ASSUME Attached, UNCHANGED <<gate, upstream_key, consumers>>, Alive' \subseteq Alive
  PROVE  Attached'
  BY DEF Attached

\* An entry that stops, or whose stream ends, has a cleanup coming or has left.
LEMMA CleanedKept ==
  ASSUME TypeOK, Cleaned, GateHeld, Alive' \subseteq Alive, UNCHANGED consumers,
         Held("attach")' => Held("attach") /\ gate'.c = gate.c,
         left \subseteq left', cleanup_pending => cleanup_pending',
         \A c \in Consumers : c \in closed' /\ c \notin closed => c \in left' \/ cleanup_pending',
         \A f \in Alive : \A c \in active[f] :
           c \notin active'[f] => c \in closed \/ c \in left' \/ cleanup_pending'
  PROVE  Cleaned'
<1>1. ASSUME NEW f \in Alive', NEW c \in consumers'[f], c \notin active'[f] \/ c \in closed',
             c \notin left'
      PROVE  cleanup_pending'
  <2>1. f \in Alive /\ c \in consumers[f] /\ c \notin left /\ c \in Consumers
    BY <1>1 DEF TypeOK, Alive
  <2>2. c \notin active[f] \/ c \in closed => cleanup_pending
    BY <2>1 DEF Cleaned
  <2> QED
    BY <1>1, <2>1, <2>2
<1>2. ASSUME Held("attach")', gate'.c \in closed', gate'.c \notin left'
      PROVE  cleanup_pending'
  <2>1. Held("attach") /\ gate'.c = gate.c /\ gate.c \in Consumers
    BY <1>2 DEF GateHeld, Held
  <2>2. gate.c \in closed => cleanup_pending
    BY <1>2, <2>1 DEF Cleaned
  <2> QED
    BY <1>2, <2>1, <2>2
<1> QED
  BY <1>1, <1>2 DEF Cleaned

LEMMA TasksKept ==
  ASSUME OneTask, UNCHANGED <<tasks, recovery_task_scheduled, stage>>,
         \A f \in Feeds : Running(f)' <=> Running(f), \A f \in Feeds : open(f)' => open(f)
  PROVE  OneTask'
<1> SUFFICES ASSUME NEW f \in Feeds
             PROVE  /\ recovery_task_scheduled'[f] <=> tasks'[f] = 1 \/ Running(f)'
                    /\ tasks'[f] = 1 => ~Running(f)'
                    /\ open(f)' /\ stage'[f] \in {"QueuedInitial", "QueuedRestart"} =>
                         recovery_task_scheduled'[f]
  BY DEF OneTask
<1>1. /\ recovery_task_scheduled[f] <=> tasks[f] = 1 \/ Running(f)
      /\ tasks[f] = 1 => ~Running(f)
      /\ open(f) /\ stage[f] \in {"QueuedInitial", "QueuedRestart"} =>
           recovery_task_scheduled[f]
  BY DEF OneTask
<1> QED
  BY <1>1

Waiting(f) == stage[f] \in {"WaitingInitialPaint", "WaitingRestartStart", "WaitingRestartPaint"}
Sending(f) == Held("send") /\ gate.f = f
Paired(w) == \A i \in DOMAIN w : w[i] = "SubscriptionStarted" =>
               i < Len(w) /\ w[i + 1] = "INITPAINT"
Messages == {"SubscriptionStarted", "INITPAINT"}

\* The answers of a resubscription come after those in flight.
LEMMA AnswerAppended ==
  ASSUME NEW w \in Seq(Messages), Paired(w)
  PROVE  /\ Paired(w \o Answer) /\ w \o Answer \in Seq(Messages)
         /\ \A m \in Messages : \E i \in DOMAIN (w \o Answer) : (w \o Answer)[i] = m
<1> DEFINE v == w \o Answer
<1>1. /\ v \in Seq(Messages) /\ Len(v) = Len(w) + 2 /\ Len(w) \in Nat /\ DOMAIN v = 1 .. Len(v)
      /\ DOMAIN w = 1 .. Len(w) /\ \A i \in 1 .. Len(w) : v[i] = w[i]
      /\ v[Len(w) + 1] = "SubscriptionStarted" /\ v[Len(w) + 2] = "INITPAINT"
  BY SMTT(60) DEF Answer, Messages
<1>2. ASSUME NEW i \in DOMAIN v, v[i] = "SubscriptionStarted"
      PROVE  i < Len(v) /\ v[i + 1] = "INITPAINT"
  BY <1>1, <1>2, SMTT(60) DEF Paired
<1>3. Len(w) + 1 \in DOMAIN v /\ Len(w) + 2 \in DOMAIN v
  BY <1>1, SMTT(60)
<1>4. \A m \in Messages : \E i \in DOMAIN v : v[i] = m
  BY <1>1, <1>3 DEF Messages
<1> QED
  BY <1>1, <1>2, <1>4 DEF Paired

\* The answer a feed waits for stays in flight, or it no longer counts on it.
LEMMA AnsweringKept ==
  ASSUME TypeOK, Answering,
         \A f \in Feeds :
           LET quiet == ~open(f)' \/ ~Subscribed(f)' \/ ~Waiting(f)' \/ Sending(f)' IN
           \/ wire'[f] = wire[f] \o Answer \/ wire'[f] = Answer
           \/ wire'[f] = <<>> /\ quiet
           \/ /\ wire'[f] = wire[f]
              /\ \/ quiet
                 \/ /\ stage'[f] = stage[f] /\ open(f) /\ Subscribed(f)
                    /\ Sending(f) => Sending(f)'
  PROVE  Answering'
<1> SUFFICES ASSUME NEW f \in Feeds
             PROVE  /\ Paired(wire'[f])
                    /\ open(f)' /\ Subscribed(f)' /\ ~Sending(f)' =>
                         /\ stage'[f] \in {"WaitingInitialPaint", "WaitingRestartPaint"} =>
                              InFlight(f, "INITPAINT")'
                         /\ stage'[f] = "WaitingRestartStart" => InFlight(f, "SubscriptionStarted")'
  BY DEF Answering, Paired, Sending
<1>1. Paired(wire[f]) /\ wire[f] \in Seq(Messages)
  BY DEF Answering, Paired, TypeOK, Messages
<1>2. CASE wire'[f] = wire[f] \o Answer
  <2>0. /\ Paired(wire[f] \o Answer)
        /\ \A m \in Messages : \E i \in DOMAIN (wire[f] \o Answer) : (wire[f] \o Answer)[i] = m
    BY <1>1, AnswerAppended
  <2>1. Paired(wire'[f]) /\ \A m \in Messages : \E i \in DOMAIN wire'[f] : wire'[f][i] = m
    BY <1>2, <2>0
  <2>2. InFlight(f, "INITPAINT")' /\ InFlight(f, "SubscriptionStarted")'
    BY <2>1 DEF InFlight, Messages
  <2> QED
    BY <2>1, <2>2
<1>6. CASE wire'[f] = Answer
  <2>0. Paired(<<>>) /\ <<>> \in Seq(Messages) /\ <<>> \o Answer = Answer
    BY SMTT(60) DEF Paired, Answer
  <2>1. /\ Paired(<<>> \o Answer)
        /\ \A m \in Messages : \E i \in DOMAIN (<<>> \o Answer) : (<<>> \o Answer)[i] = m
    BY <2>0, AnswerAppended
  <2>2. Paired(wire'[f]) /\ \A m \in Messages : \E i \in DOMAIN wire'[f] : wire'[f][i] = m
    BY <1>6, <2>0, <2>1
  <2>3. InFlight(f, "INITPAINT")' /\ InFlight(f, "SubscriptionStarted")'
    BY <2>2 DEF InFlight, Messages
  <2> QED
    BY <2>2, <2>3
<1>3. CASE wire'[f] = <<>> /\ (~open(f)' \/ ~Subscribed(f)' \/ ~Waiting(f)' \/ Sending(f)')
  <2>1. Paired(<<>>)
    BY SMTT(60) DEF Paired
  <2> QED
    BY <1>3, <2>1 DEF Waiting
<1>4. CASE wire'[f] = wire[f] /\ (~open(f)' \/ ~Subscribed(f)' \/ ~Waiting(f)' \/ Sending(f)')
  BY <1>1, <1>4 DEF Waiting
<1>5. CASE /\ wire'[f] = wire[f] /\ stage'[f] = stage[f] /\ open(f) /\ Subscribed(f)
           /\ Sending(f) => Sending(f)'
  <2>1. ~Sending(f) =>
          /\ stage[f] \in {"WaitingInitialPaint", "WaitingRestartPaint"} => InFlight(f, "INITPAINT")
          /\ stage[f] = "WaitingRestartStart" => InFlight(f, "SubscriptionStarted")
    BY <1>5 DEF Answering, Sending
  <2>2. \A m : InFlight(f, m) => InFlight(f, m)'
    BY <1>5 DEF InFlight
  <2> QED
    BY <1>1, <1>5, <2>1, <2>2
<1> QED
  BY <1>2, <1>3, <1>4, <1>5, <1>6

\* Nothing that answers depend on changes, but feeds may fail.
LEMMA AnsweringStill ==
  ASSUME TypeOK, Answering, UNCHANGED <<wire, stage, subs, pending_cancel>>,
         \A f \in Feeds : open(f)' => open(f), \A f \in Feeds : Sending(f) => Sending(f)'
  PROVE  Answering'
<1>1. \A f \in Feeds : Subscribed(f)' => Subscribed(f)
  BY DEF Subscribed
<1> QED
  BY <1>1, AnsweringKept

-----------------------------------------------------------------------------
(* Moves of the gate. *)

LEMMA RecordTo ==
  ASSUME NEW o, NEW a, NEW b, NEW c, NEW d, NEW r, NEW q,
         r = [op |-> a, c |-> b, f |-> c, rest |-> d], q = [r EXCEPT !.op = o]
  PROVE  q = [op |-> o, c |-> b, f |-> c, rest |-> d]
  BY SMTT(60)

LEMMA RecordRest ==
  ASSUME NEW o, NEW a, NEW b, NEW c, NEW d, NEW r, NEW q,
         r = [op |-> a, c |-> b, f |-> c, rest |-> d], q = [r EXCEPT !.rest = o]
  PROVE  q = [op |-> a, c |-> b, f |-> c, rest |-> o]
  BY SMTT(60)

LEMMA RecordStore ==
  ASSUME NEW o, NEW a, NEW b, NEW c, NEW d, NEW r, NEW q,
         r = [op |-> a, c |-> b, f |-> c, rest |-> d], q = [r EXCEPT !.op = "store", !.rest = o]
  PROVE  q = [op |-> "store", c |-> b, f |-> c, rest |-> o]
<1> DEFINE p == [r EXCEPT !.op = "store"]
<1>1. p = [op |-> "store", c |-> b, f |-> c, rest |-> d]
  BY SMTT(60)
<1>2. q = [p EXCEPT !.rest = o]
  OBVIOUS
<1> HIDE DEF p
<1> QED
  BY <1>1, <1>2, RecordRest

LEMMA RecordFields ==
  ASSUME NEW o, NEW b, NEW c, NEW d, NEW q, q = [op |-> o, c |-> b, f |-> c, rest |-> d]
  PROVE  /\ q.op = o /\ q.c = b /\ q.f = c /\ q.rest = d
         /\ q = [op |-> q.op, c |-> q.c, f |-> q.f, rest |-> q.rest]
<1>1. q.op = o /\ q.c = b /\ q.f = c /\ q.rest = d
  BY SMTT(60)
<1> QED
  BY <1>1

\* The gate is taken.
LEMMA TakenForFields ==
  ASSUME NEW d, NEW e
  PROVE  [Free EXCEPT !.op = "fields", !.c = d, !.rest = e] =
           [op |-> "fields", c |-> d, f |-> 0, rest |-> e]
<1> DEFINE p == [Free EXCEPT !.op = "fields"]
           q == [p EXCEPT !.c = d]
<1>1. p = [op |-> "fields", c |-> 0, f |-> 0, rest |-> {}]
  BY SMTT(60) DEF Free
<1> HIDE DEF p
<1>2. q = [op |-> "fields", c |-> d, f |-> 0, rest |-> {}]
  BY <1>1, SMTT(60)
<1> HIDE DEF q
<1>3. [q EXCEPT !.rest = e] = [op |-> "fields", c |-> d, f |-> 0, rest |-> e]
  BY <1>2, SMTT(60)
<1> QED
  BY <1>3 DEF p, q

LEMMA TakenForAdd ==
  ASSUME NEW d, NEW e
  PROVE  [Free EXCEPT !.op = "attach", !.c = d, !.f = e] =
           [op |-> "attach", c |-> d, f |-> e, rest |-> {}]
<1> DEFINE p == [Free EXCEPT !.op = "attach"]
           q == [p EXCEPT !.c = d]
<1>1. p = [op |-> "attach", c |-> 0, f |-> 0, rest |-> {}]
  BY SMTT(60) DEF Free
<1> HIDE DEF p
<1>2. q = [op |-> "attach", c |-> d, f |-> 0, rest |-> {}]
  BY <1>1, SMTT(60)
<1> HIDE DEF q
<1>3. [q EXCEPT !.f = e] = [op |-> "attach", c |-> d, f |-> e, rest |-> {}]
  BY <1>2, SMTT(60)
<1> QED
  BY <1>3 DEF p, q

LEMMA TakenForRecovery ==
  ASSUME NEW e
  PROVE  [Free EXCEPT !.op = "recover", !.f = e] = [op |-> "recover", c |-> 0, f |-> e, rest |-> {}]
<1> DEFINE p == [Free EXCEPT !.op = "recover"]
<1>1. p = [op |-> "recover", c |-> 0, f |-> 0, rest |-> {}]
  BY SMTT(60) DEF Free
<1> HIDE DEF p
<1>2. [p EXCEPT !.f = e] = [op |-> "recover", c |-> 0, f |-> e, rest |-> {}]
  BY <1>1, SMTT(60)
<1> QED
  BY <1>2 DEF p

LEMMA GateTo ==
  ASSUME GateHeld, NEW o, gate' = [gate EXCEPT !.op = o]
  PROVE  /\ gate'.op = o /\ gate'.c = gate.c /\ gate'.f = gate.f /\ gate'.rest = gate.rest
         /\ gate' = [op |-> gate'.op, c |-> gate'.c, f |-> gate'.f, rest |-> gate'.rest]
<1>1. gate = [op |-> gate.op, c |-> gate.c, f |-> gate.f, rest |-> gate.rest]
  BY DEF GateHeld
<1>2. gate' = [op |-> o, c |-> gate.c, f |-> gate.f, rest |-> gate.rest]
  BY <1>1, RecordTo
<1> QED
  BY <1>2, RecordFields

\* The gate is left.
LEMMA GateFreed ==
  ASSUME Release
  PROVE  gate'.op = "free" /\ GateHeld'
<1>1. /\ gate'.op = "free" /\ gate'.c = 0 /\ gate'.f = 0 /\ gate'.rest = {}
      /\ gate' = [op |-> gate'.op, c |-> gate'.c, f |-> gate'.f, rest |-> gate'.rest]
  BY SMTT(60) DEF Release, Free
<1> QED
  BY <1>1 DEF GateHeld

\* An add starts to roll back.
LEMMA GateRollsBack ==
  ASSUME GateHeld, Attached, gate.op \in {"attach", "grow", "subscribe", "store"}, RollBack,
         UNCHANGED <<upstream_key, consumers>>, Alive' = Alive
  PROVE  /\ GateHeld' /\ Attached' /\ gate'.op = "rollback" /\ gate'.f = gate.f
         /\ gate'.c = gate.c
<1>1. /\ gate'.op = "rollback" /\ gate'.c = gate.c /\ gate'.f = gate.f
      /\ gate' = [op |-> gate'.op, c |-> gate'.c, f |-> gate'.f, rest |-> gate'.rest]
  BY GateTo DEF RollBack
<1>2. GateHeld'
  BY <1>1 DEF GateHeld
<1>3. Attached'
  BY <1>1 DEF Attached
<1> QED
  BY <1>1, <1>2, <1>3

\* No feed is waiting to be committed, whoever holds the gate next.
LEMMA AttachedMoves ==
  ASSUME Attached, gate.op \notin {"attach", "subscribe", "store", "rollback"},
         UNCHANGED <<upstream_key, consumers>>, Alive' \subseteq Alive
  PROVE  Attached'
  BY DEF Attached

-----------------------------------------------------------------------------
(* Failures. *)

\* Feeds fail: none is retired, and their entries have a cleanup coming.
LEMMA Fails ==
  ASSUME TypeOK, NEW F \in SUBSET Feeds, on_error(F)
  PROVE  /\ lifecycle' \in [Feeds -> {"none", "pending", "active", "failed", "closed"}]
         /\ active' \in [Feeds -> SUBSET Consumers] /\ cleanup_pending' \in BOOLEAN
         /\ born' = born /\ Alive' = Alive
         /\ \A f \in Feeds : open(f)' => open(f)
         /\ \A f \in Feeds : lifecycle'[f] = "closed" => lifecycle[f] = "closed"
         /\ \A f \in Feeds : active'[f] \subseteq active[f]
         /\ \A f \in Feeds : active'[f] # {} => (open(f) => open(f)')
         /\ cleanup_pending => cleanup_pending'
         /\ \A c \in Consumers : c \in closed' /\ c \notin closed => cleanup_pending'
         /\ \A f \in Alive : \A c \in active[f] : c \notin active'[f] => cleanup_pending'
         /\ \A f \in F : ~open(f)'
<1> DEFINE failing == {f \in F : open(f)}
<1>1. /\ \A f \in Feeds : lifecycle'[f] = IF f \in failing THEN "failed" ELSE lifecycle[f]
      /\ \A f \in Feeds : active'[f] = IF f \in failing THEN {} ELSE active[f]
      /\ cleanup_pending' = (cleanup_pending \/ failing # {})
      /\ closed' = closed \cup Ending(failing)
  BY DEF on_error
<1>2. /\ lifecycle' \in [Feeds -> {"none", "pending", "active", "failed", "closed"}]
      /\ active' \in [Feeds -> SUBSET Consumers]
  BY DEF on_error, TypeOK
<1>3. cleanup_pending' \in BOOLEAN
  BY <1>1
<1>4. \A f \in Feeds : (lifecycle'[f] # "none" <=> lifecycle[f] # "none") /\ (f \in Alive' <=> f \in Alive)
                       /\ (open(f)' => open(f)) /\ (f \in F => ~open(f)')
                       /\ (lifecycle'[f] = "closed" => lifecycle[f] = "closed")
  BY <1>1 DEF Alive, open
<1>5. born' = born /\ Alive' = Alive
  BY <1>4 DEF born, Alive
<1>6. \A f \in Feeds : active'[f] \subseteq active[f] /\ (active'[f] # {} => (open(f) => open(f)'))
  BY <1>1 DEF open
<1>7. failing # {} => cleanup_pending'
  BY <1>1
<1>8. \A c \in Consumers : c \in closed' /\ c \notin closed => cleanup_pending'
  BY <1>1, <1>7 DEF Ending
<1>9. \A f \in Alive : \A c \in active[f] : c \notin active'[f] => cleanup_pending'
  BY <1>1, <1>7 DEF Alive
<1> QED
  BY <1>1, <1>2, <1>3, <1>4, <1>5, <1>6, <1>8, <1>9

\* A step that creates and retires no feed.
LEMMA LivesKept ==
  ASSUME HubInv, UNCHANGED <<registry, topic, session>>, born' = born, Alive' = Alive,
         \A f \in Feeds \ born :
           /\ consumers'[f] = consumers[f] /\ active'[f] \subseteq active[f]
           /\ upstream_key'[f] = upstream_key[f] /\ stage'[f] = stage[f]
           /\ recovery_task_scheduled'[f] = recovery_task_scheduled[f],
         TypeOK', Fed', Slab', GateHeld', Attached', Cleaned', OneTask', Answering'
  PROVE  HubInv'
<1>1. Numbered'
  BY NumberedKept DEF HubInv
<1>2. RegistryExact'
  BY RegistryKept DEF HubInv
<1> QED
  BY <1>1, <1>2 DEF HubInv

\* Feeds fail.
LEMMA FailStep ==
  ASSUME HubInv, NEW F \in SUBSET Feeds, on_error(F),
         UNCHANGED <<registry, feedvars, consumers, left>>,
         \A f \in Feeds \ born :
           /\ stage'[f] = stage[f]
           /\ recovery_task_scheduled'[f] = recovery_task_scheduled[f],
         Held("attach")' => Held("attach") /\ gate'.c = gate.c,
         TypeOK', Slab', GateHeld', Attached', OneTask', Answering'
  PROVE  HubInv'
<1>0. TypeOK /\ Fed /\ Cleaned /\ GateHeld
  BY DEF HubInv
<1>1. /\ born' = born /\ Alive' = Alive
      /\ \A f \in Feeds : active'[f] \subseteq active[f]
      /\ \A f \in Feeds : active'[f] # {} => (open(f) => open(f)')
      /\ cleanup_pending => cleanup_pending'
      /\ \A c \in Consumers : c \in closed' /\ c \notin closed => cleanup_pending'
      /\ \A f \in Alive : \A c \in active[f] : c \notin active'[f] => cleanup_pending'
  BY <1>0, Fails
<1>2. Fed'
  BY <1>0, <1>1, FedKept
<1>3. Cleaned'
  BY <1>0, <1>1, CleanedKept
<1>4. UNCHANGED <<registry, topic, upstream_key, session, consumers>>
  BY DEF feedvars
<1> QED
  BY <1>1, <1>2, <1>3, <1>4, LivesKept

\* Feeds fail as the gate moves on, and nothing else happens to them.
LEMMA FailMove ==
  ASSUME HubInv, NEW F \in SUBSET Feeds, on_error(F),
         UNCHANGED <<registry, feedvars, recovery, consumers, worker, own_session, left, wire>>,
         gate.op \notin {"recover", "send"}, gate'.op \notin {"recover", "send", "attach"},
         Held("store") => \A k \in Keys : subs[k] # gate.f,
         GateHeld', Attached'
  PROVE  HubInv'
<1>0. /\ TypeOK /\ OneTask /\ Answering
      /\ UNCHANGED <<registry, topic, upstream_key, session, stage, restart_requested,
                     recovery_task_scheduled, tasks, consumers, subs, pending_cancel, ended,
                     own_session, left, wire>>
  BY DEF HubInv, feedvars, recovery, worker
<1>2. /\ lifecycle' \in [Feeds -> {"none", "pending", "active", "failed", "closed"}]
      /\ active' \in [Feeds -> SUBSET Consumers] /\ cleanup_pending' \in BOOLEAN
      /\ born' = born /\ Alive' = Alive /\ \A f \in Feeds : open(f)' => open(f)
      /\ \A f \in Feeds : lifecycle'[f] = "closed" => lifecycle[f] = "closed"
  BY <1>0, Fails
<1>4. TypeOK'
  BY <1>0, <1>2 DEF TypeOK
<1>5. Slab'
  BY <1>0, <1>2, SlabStill
<1>6. OneTask'
  BY <1>0, <1>2, TasksKept DEF Running
<1>7. Answering'
  BY <1>0, <1>2, AnsweringStill DEF Sending, Held
<1> QED
  BY <1>0, <1>4, <1>5, <1>6, <1>7, FailStep DEF Held, feedvars

\* The worker could not subscribe the feed.
LEMMA SubscribeFailsStep == HubInv /\ SubscribeFails => HubInv'
<1> SUFFICES ASSUME HubInv, SubscribeFails
             PROVE  HubInv'
  OBVIOUS
<1>1. gate.op = "subscribe" /\ {gate.f} \in SUBSET Feeds /\ TypeOK /\ GateHeld /\ Attached
  BY DEF SubscribeFails, Held, HubInv, GateHeld, Alive
<1>2. born' = born /\ Alive' = Alive
  BY <1>1, Fails DEF SubscribeFails
<1>3. GateHeld' /\ Attached' /\ gate'.op = "rollback"
  BY <1>1, <1>2, GateRollsBack DEF SubscribeFails, feedvars
<1> QED
  BY <1>1, <1>3, FailMove DEF SubscribeFails, Held, people

\* The session ended under the add.
LEMMA StoreFails ==
  ASSUME HubInv, Store, session[gate.f] \in ended
  PROVE  HubInv'
<1>1. gate.op = "store" /\ {gate.f} \in SUBSET Feeds /\ TypeOK /\ GateHeld /\ Attached
  BY DEF Store, Held, HubInv, GateHeld, Alive
<1>2. RollBack /\ on_error({gate.f}) /\ UNCHANGED upstream_key
  BY DEF Store
<1>3. born' = born /\ Alive' = Alive
  BY <1>1, <1>2, Fails
<1>4. GateHeld' /\ Attached' /\ gate'.op = "rollback"
  BY <1>1, <1>2, <1>3, GateRollsBack DEF Store
<1>5. ASSUME NEW k \in Keys, subs[k] = gate.f
      PROVE  FALSE
  <2>1. subs[k] # 0
    BY <1>1, <1>5, HubConstants
  <2>2. session[subs[k]] = k[1] /\ k[1] \notin ended
    BY <2>1, KeyInUse
  <2> QED
    BY <1>5, <2>2
<1> QED
  BY <1>1, <1>2, <1>4, <1>5, FailMove DEF Store, feedvars, people

-----------------------------------------------------------------------------
(* Resubscriptions. *)

\* The SDK answers whoever holds the key, which is the feed while it is subscribed.
LEMMA Resubscribed ==
  ASSUME HubInv, NEW f \in Feeds, CanResubscribe(f), resubscribe(f)
  PROVE  /\ wire' \in [Feeds -> Seq(Messages)]
         /\ \A g \in Feeds : wire'[g] = wire[g] \/ wire'[g] = wire[g] \o Answer
         /\ Subscribed(f) /\ ~Held("store") => wire'[f] = wire[f] \o Answer
<1> DEFINE h == subs[upstream_key[f]]
<1>1. upstream_key[f] \in Keys /\ h # 0 /\ h \in Feeds
  BY KeyInUse DEF CanResubscribe
<1>2. wire \in [Feeds -> Seq(Messages)] /\ Paired(wire[h])
  BY <1>1 DEF HubInv, TypeOK, Messages, Answering, Paired
<1>3. wire' = [wire EXCEPT ![h] = wire[h] \o Answer]
  BY DEF resubscribe
<1> HIDE DEF h
<1>4. wire[h] \o Answer \in Seq(Messages)
  BY <1>1, <1>2, AnswerAppended
<1>5. /\ wire' \in [Feeds -> Seq(Messages)] /\ wire'[h] = wire[h] \o Answer
      /\ \A g \in Feeds : g # h => wire'[g] = wire[g]
  BY <1>1, <1>2, <1>3, <1>4
<1>6. ASSUME Subscribed(f), ~Held("store")
      PROVE  h = f
  <2>1. PICK k \in Keys : subs[k] = f
    BY <1>6 DEF Subscribed
  <2>2. f # 0
    BY HubConstants
  <2> QED
    BY <1>6, <2>1, <2>2, KeyInUse DEF h
<1> QED
  BY <1>5, <1>6

\* A resubscription is sent as the gate moves on.
LEMMA ResubscribeStep ==
  ASSUME HubInv, NEW f \in Feeds, CanResubscribe(f), resubscribe(f), ~Held("store"),
         UNCHANGED <<registry, feedvars, recovery, lifecycle, consumers, active, cleanup_pending,
                     worker, people, closed>>,
         gate'.op # "attach", GateHeld', Attached',
         \A g \in Feeds : Running(g)' <=> Running(g),
         \A g \in Feeds : Sending(g) => g = f
  PROVE  HubInv'
<1>0. /\ TypeOK /\ OneTask /\ Answering /\ Fed /\ Cleaned /\ GateHeld
      /\ UNCHANGED <<registry, topic, upstream_key, session, stage, restart_requested,
                     recovery_task_scheduled, tasks, consumers, subs, pending_cancel, ended,
                     lifecycle, active, cleanup_pending, closed, own_session, left>>
  BY DEF HubInv, feedvars, recovery, worker, people
<1>1. /\ wire' \in [Feeds -> Seq(Messages)]
      /\ \A g \in Feeds : wire'[g] = wire[g] \/ wire'[g] = wire[g] \o Answer
      /\ Subscribed(f) => wire'[f] = wire[f] \o Answer
  BY Resubscribed
<1>2. TypeOK'
  BY <1>0, <1>1 DEF TypeOK, Messages
<1>3. born' = born /\ Alive' = Alive /\ \A g \in Feeds : open(g)' <=> open(g)
  BY <1>0 DEF born, Alive, open
<1>4. Fed'
  BY <1>0, <1>3 DEF Fed
<1>5. Slab'
  BY <1>0, <1>3, SlabStill
<1>6. Cleaned'
  <2>1. ~Held("attach")'
    BY DEF Held
  <2>2. /\ \A c \in Consumers : c \in closed' => c \in closed
        /\ \A g \in Alive : \A c \in active[g] : c \in active'[g]
        /\ left \subseteq left' /\ (cleanup_pending => cleanup_pending')
    BY <1>0, SMTT(60)
  <2> QED
    BY <1>0, <1>3, <2>1, <2>2, CleanedKept
<1>7. OneTask'
  BY <1>0, <1>3, TasksKept
<1>8. Answering'
  <2>1. \A g \in Feeds : (Subscribed(g)' <=> Subscribed(g)) /\ (Waiting(g)' <=> Waiting(g))
    BY <1>0 DEF Subscribed, Waiting
  <2>2. ASSUME NEW g \in Feeds
        PROVE  LET quiet == ~open(g)' \/ ~Subscribed(g)' \/ ~Waiting(g)' \/ Sending(g)' IN
               \/ wire'[g] = wire[g] \o Answer
               \/ wire'[g] = <<>> /\ quiet
               \/ /\ wire'[g] = wire[g]
                  /\ \/ quiet
                     \/ /\ stage'[g] = stage[g] /\ open(g) /\ Subscribed(g)
                        /\ Sending(g) => Sending(g)'
    BY <1>0, <1>1, <1>3, <2>1
  <2> QED
    BY <1>0, <2>2, AnsweringKept
<1> QED
  BY <1>0, <1>2, <1>3, <1>4, <1>5, <1>6, <1>7, <1>8, LivesKept

LEMMA GrowStep == HubInv /\ Grow => HubInv'
<1> SUFFICES ASSUME HubInv, Grow
             PROVE  HubInv'
  OBVIOUS
<1>1. /\ gate.op = "grow" /\ gate.f \in Feeds /\ {gate.f} \in SUBSET Feeds /\ TypeOK /\ GateHeld
      /\ Attached
  BY DEF Grow, Held, HubInv, GateHeld, Alive
<1>2. CASE CanResubscribe(gate.f) /\ resubscribe(gate.f) /\ Release
           /\ UNCHANGED <<lifecycle, active, closed, cleanup_pending, events>>
  <2>1. gate'.op = "free" /\ GateHeld'
    BY <1>2, GateFreed
  <2>2. Attached'
    BY <1>1, <1>2, AttachedMoves DEF Grow, feedvars, Alive
  <2> QED
    BY <1>1, <1>2, <2>1, <2>2, ResubscribeStep DEF Grow, Held, Running, Sending
<1>3. CASE ResubscribeFails(gate.f) /\ RollBack
  <2>1. on_error({gate.f}) /\ UNCHANGED wire
    BY <1>3 DEF ResubscribeFails
  <2>2. born' = born /\ Alive' = Alive
    BY <1>1, <2>1, Fails
  <2>3. GateHeld' /\ Attached' /\ gate'.op = "rollback"
    BY <1>1, <1>3, <2>2, GateRollsBack DEF Grow, feedvars
  <2> QED
    BY <1>1, <2>1, <2>3, FailMove DEF Grow, Held, people
<1> QED
  BY <1>2, <1>3 DEF Grow

-----------------------------------------------------------------------------
(* Steps that leave the feeds and the slab alone. *)

LEMMA FeedsStill ==
  ASSUME HubInv, UNCHANGED <<registry, feedvars, lifecycle, consumers, active, worker>>,
         \A f \in Feeds \ born :
           /\ stage'[f] = stage[f]
           /\ recovery_task_scheduled'[f] = recovery_task_scheduled[f],
         Held("store") => Held("store")' /\ gate'.f = gate.f /\ gate'.rest = gate.rest,
         TypeOK', GateHeld', Attached', Cleaned', OneTask', Answering'
  PROVE  HubInv'
<1>0. /\ Fed /\ UNCHANGED <<registry, topic, upstream_key, session, lifecycle, consumers, active,
                            subs, pending_cancel, ended>>
  BY DEF HubInv, feedvars, worker
<1>1. born' = born /\ Alive' = Alive /\ \A g \in Feeds : open(g)' <=> open(g)
  BY <1>0 DEF born, Alive, open
<1>2. Fed'
  BY <1>0, <1>1 DEF Fed
<1>3. Slab'
  BY <1>0, <1>1, SlabStill
<1> QED
  BY <1>0, <1>1, <1>2, <1>3, LivesKept

\* Only the gate moves, streams end or a cleanup is scheduled.
LEMMA StillStep ==
  ASSUME HubInv, UNCHANGED <<registry, feedvars, recovery, lifecycle, consumers, active, worker,
                             own_session, wire>>,
         cleanup_pending' \in BOOLEAN,
         Held("store") => Held("store")' /\ gate'.f = gate.f /\ gate'.rest = gate.rest,
         \A f \in Feeds : Running(f)' <=> Running(f), \A f \in Feeds : Sending(f) => Sending(f)',
         GateHeld', Attached', Cleaned'
  PROVE  HubInv'
<1>0. /\ TypeOK /\ OneTask /\ Answering
      /\ UNCHANGED <<registry, topic, upstream_key, session, stage, restart_requested,
                     recovery_task_scheduled, tasks, consumers, subs, pending_cancel, ended,
                     lifecycle, active, own_session, wire>>
  BY DEF HubInv, feedvars, recovery, worker
<1>1. TypeOK'
  BY <1>0 DEF TypeOK
<1>2. \A f \in Feeds : open(f)' <=> open(f)
  BY <1>0 DEF open
<1>3. OneTask'
  BY <1>0, <1>2, TasksKept
<1>4. Answering'
  BY <1>0, <1>2, AnsweringStill
<1> QED
  BY <1>0, <1>1, <1>3, <1>4, FeedsStill DEF feedvars, worker

\* The same, when the gate was neither committing an add nor recovering.
LEMMA GateStep ==
  ASSUME HubInv, UNCHANGED <<registry, feedvars, recovery, lifecycle, consumers, active, worker,
                             own_session, wire>>,
         cleanup_pending' \in BOOLEAN,
         gate.op \notin {"store", "recover", "send"}, gate'.op \notin {"store", "recover", "send"},
         GateHeld', Attached', Cleaned'
  PROVE  HubInv'
  BY StillStep DEF Held, Running, Sending

\* No entry stops and no stream ends.
LEMMA CleanedStill ==
  ASSUME TypeOK, Cleaned, GateHeld, UNCHANGED <<lifecycle, consumers, active, closed, left>>,
         cleanup_pending' = cleanup_pending \/ cleanup_pending' = TRUE,
         Held("attach")' => Held("attach") /\ gate'.c = gate.c
  PROVE  Cleaned' /\ cleanup_pending' \in BOOLEAN
<1>1. (cleanup_pending => cleanup_pending') /\ cleanup_pending' \in BOOLEAN
  <2>1. cleanup_pending \in BOOLEAN
    BY DEF TypeOK
  <2>2. CASE cleanup_pending' = cleanup_pending
    BY <2>1, <2>2, SMTT(60)
  <2>3. CASE cleanup_pending' = TRUE
    BY <2>3
  <2> QED
    BY <2>2, <2>3
<1>2. /\ \A c \in Consumers : c \in closed' => c \in closed
      /\ \A g \in Alive : \A c \in active[g] : c \in active'[g]
      /\ left \subseteq left'
  OBVIOUS
<1>3. Alive' = Alive
  BY DEF Alive
<1> QED
  BY <1>1, <1>2, <1>3, CleanedKept

\* A cancelled add rolls back.
LEMMA AddCancelledStep == HubInv /\ AddCancelled => HubInv'
<1> SUFFICES ASSUME HubInv, AddCancelled
             PROVE  HubInv'
  OBVIOUS
<1>1. gate.op = "subscribe" /\ TypeOK /\ GateHeld /\ Attached /\ Cleaned
  BY DEF AddCancelled, Held, HubInv
<1>2. born' = born /\ Alive' = Alive
  BY DEF AddCancelled, born, Alive
<1>3. GateHeld' /\ Attached' /\ gate'.op = "rollback"
  BY <1>1, <1>2, GateRollsBack DEF AddCancelled, feedvars
<1>4. Cleaned' /\ cleanup_pending' \in BOOLEAN
  BY <1>1, <1>3, CleanedStill DEF AddCancelled, Held, people
<1> QED
  BY <1>1, <1>3, <1>4, GateStep DEF AddCancelled, people

\* Feeds grow one by one.
LEMMA add_fieldsStep ==
  ASSUME HubInv, NEW d \in Consumers, add_fields(d)
  PROVE  HubInv'
<1>1. gate.op = "free" /\ TypeOK /\ GateHeld /\ Attached /\ Cleaned
  BY DEF add_fields, Held, HubInv
<1>2. PICK F \in SUBSET {f \in born : d \in consumers[f]} :
        gate' = [Free EXCEPT !.op = "fields", !.c = d, !.rest = F]
  BY DEF add_fields
<1>3. gate' = [op |-> "fields", c |-> d, f |-> 0, rest |-> F]
  BY <1>2, TakenForFields
<1>4. /\ gate'.op = "fields" /\ gate'.rest = F
      /\ gate' = [op |-> gate'.op, c |-> gate'.c, f |-> gate'.f, rest |-> gate'.rest]
  BY <1>3, RecordFields
<1>5. GateHeld'
  <2>1. born' = born
    BY DEF add_fields, born
  <2>2. F \subseteq born
    BY <1>2
  <2> QED
    BY <1>4, <2>1, <2>2 DEF GateHeld
<1>6. Attached'
  BY <1>1, AttachedMoves DEF add_fields, feedvars, Alive
<1>7. Cleaned' /\ cleanup_pending' \in BOOLEAN
  BY <1>1, <1>4, CleanedStill DEF add_fields, Held, people
<1> QED
  BY <1>1, <1>4, <1>5, <1>6, <1>7, GateStep DEF add_fields, people

LEMMA FieldsAddedStep == HubInv /\ FieldsAdded => HubInv'
<1> SUFFICES ASSUME HubInv, FieldsAdded
             PROVE  HubInv'
  OBVIOUS
<1>1. gate.op = "fields" /\ TypeOK /\ GateHeld /\ Attached /\ Cleaned
  BY DEF FieldsAdded, Held, HubInv
<1>2. gate'.op = "free" /\ GateHeld'
  BY GateFreed DEF FieldsAdded
<1>3. Attached'
  BY <1>1, AttachedMoves DEF FieldsAdded, feedvars, Alive
<1>4. Cleaned' /\ cleanup_pending' \in BOOLEAN
  BY <1>1, <1>2, CleanedStill DEF FieldsAdded, schedule_cleanup, Held, people
<1> QED
  BY <1>1, <1>2, <1>3, <1>4, GateStep DEF FieldsAdded, people

\* A feed that carries the new fields is resubscribed, or fails.
LEMMA GrowFieldsStep == HubInv /\ GrowFields => HubInv'
<1> SUFFICES ASSUME HubInv, GrowFields
             PROVE  HubInv'
  OBVIOUS
<1>1. gate.op = "fields" /\ gate.rest \subseteq born /\ TypeOK /\ GateHeld /\ Attached
  BY DEF GrowFields, Held, HubInv, GateHeld
<1>2. PICK f \in gate.rest :
        /\ gate' = [gate EXCEPT !.rest = @ \ {f}]
        /\ \/ /\ CanResubscribe(f) /\ resubscribe(f)
              /\ UNCHANGED <<lifecycle, active, closed, cleanup_pending, events>>
           \/ ResubscribeFails(f)
  BY DEF GrowFields
<1>3. f \in Feeds /\ {f} \in SUBSET Feeds
  BY <1>1 DEF born
<1>4. /\ gate'.op = "fields" /\ gate'.rest \subseteq gate.rest
      /\ gate' = [op |-> gate'.op, c |-> gate'.c, f |-> gate'.f, rest |-> gate'.rest]
  <2>1. gate = [op |-> gate.op, c |-> gate.c, f |-> gate.f, rest |-> gate.rest]
    BY <1>1 DEF GateHeld
  <2>2. gate' = [op |-> gate.op, c |-> gate.c, f |-> gate.f, rest |-> gate.rest \ {f}]
    BY <1>2, <2>1, RecordRest
  <2>3. /\ gate'.op = gate.op /\ gate'.rest = gate.rest \ {f}
        /\ gate' = [op |-> gate'.op, c |-> gate'.c, f |-> gate'.f, rest |-> gate'.rest]
    BY <2>2, RecordFields
  <2> QED
    BY <1>1, <2>3
<1>5. born' = born => GateHeld'
  BY <1>1, <1>4 DEF GateHeld
<1>6. Alive' = Alive => Attached'
  BY <1>1, AttachedMoves DEF GrowFields, feedvars
<1>7. CASE CanResubscribe(f) /\ resubscribe(f)
           /\ UNCHANGED <<lifecycle, active, closed, cleanup_pending, events>>
  <2>1. born' = born /\ Alive' = Alive
    BY <1>7 DEF born, Alive
  <2> QED
    BY <1>1, <1>3, <1>4, <1>5, <1>6, <1>7, <2>1, ResubscribeStep
    DEF GrowFields, Held, Running, Sending
<1>8. CASE ResubscribeFails(f)
  <2>1. on_error({f}) /\ UNCHANGED wire
    BY <1>8 DEF ResubscribeFails
  <2>2. born' = born /\ Alive' = Alive
    BY <1>1, <1>3, <2>1, Fails
  <2> QED
    BY <1>1, <1>3, <1>4, <1>5, <1>6, <2>1, <2>2, FailMove DEF GrowFields, Held, people
<1> QED
  BY <1>2, <1>7, <1>8

-----------------------------------------------------------------------------
(* The recovery task. *)

\* The task the flag stands for takes the gate.
LEMMA RecoverBeginStep ==
  ASSUME HubInv, NEW d \in Feeds, RecoverBegin(d)
  PROVE  HubInv'
<1>0. /\ TypeOK /\ GateHeld /\ Attached /\ Cleaned /\ OneTask /\ Answering /\ Numbered
      /\ gate.op = "free"
      /\ UNCHANGED <<registry, feedvars, stage, restart_requested, recovery_task_scheduled,
                     lifecycle, consumers, active, cleanup_pending, worker, own_session, left,
                     closed, wire>>
  BY DEF HubInv, RecoverBegin, Held, people
<1>1. tasks[d] = 1 /\ tasks' = [tasks EXCEPT ![d] = 0] /\ 0 \in 0 .. 1 /\ 0 # 1
  <2>1. tasks[d] \in 0 .. 1 /\ tasks[d] > 0 /\ tasks' = [tasks EXCEPT ![d] = tasks[d] - 1]
    BY DEF HubInv, TypeOK, RecoverBegin
  <2>2. tasks[d] = 1 /\ tasks[d] - 1 = 0
    BY <2>1, SMTT(60)
  <2> QED
    BY <2>1, <2>2, SMTT(60)
<1>2. gate' = [op |-> "recover", c |-> 0, f |-> d, rest |-> {}]
  BY TakenForRecovery DEF RecoverBegin
<1>3. /\ gate'.op = "recover" /\ gate'.f = d
      /\ gate' = [op |-> gate'.op, c |-> gate'.c, f |-> gate'.f, rest |-> gate'.rest]
  BY <1>2, RecordFields
<1>4. born' = born /\ Alive' = Alive /\ \A f \in Feeds : open(f)' <=> open(f)
  BY <1>0 DEF born, Alive, open
<1>5. recovery_task_scheduled[d] /\ d \in born
  <2>1. recovery_task_scheduled[d]
    BY <1>0, <1>1 DEF OneTask
  <2> QED
    BY <1>0, <2>1 DEF Numbered
<1>6. TypeOK'
  BY <1>0, <1>1 DEF TypeOK, feedvars, worker
<1>7. GateHeld'
  BY <1>3, <1>4, <1>5 DEF GateHeld
<1>8. Attached'
  BY <1>0, <1>4, AttachedMoves DEF feedvars
<1>9. Cleaned'
  BY <1>0, <1>3, CleanedStill DEF Held
<1>10. OneTask'
  <2>1. ASSUME NEW f \in Feeds
        PROVE  /\ recovery_task_scheduled'[f] <=> tasks'[f] = 1 \/ Running(f)'
               /\ tasks'[f] = 1 => ~Running(f)'
               /\ open(f)' /\ stage'[f] \in {"QueuedInitial", "QueuedRestart"} =>
                    recovery_task_scheduled'[f]
    <3>1. /\ recovery_task_scheduled[f] <=> tasks[f] = 1 \/ Running(f)
          /\ open(f) /\ stage[f] \in {"QueuedInitial", "QueuedRestart"} =>
               recovery_task_scheduled[f]
      BY <1>0 DEF OneTask
    <3>2. ~Running(f) /\ (Running(f)' <=> f = d)
      BY <1>0, <1>3 DEF Running
    <3>3. f # d => tasks'[f] = tasks[f]
      BY <1>0, <1>1 DEF TypeOK
    <3>4. tasks'[d] = 0
      BY <1>0, <1>1 DEF TypeOK
    <3> QED
      BY <1>0, <1>1, <1>4, <1>5, <3>1, <3>2, <3>3, <3>4
  <2> QED
    BY <2>1 DEF OneTask
<1>11. Answering'
  BY <1>0, <1>4, AnsweringStill DEF worker, Sending, Held
<1> QED
  BY <1>0, <1>6, <1>7, <1>8, <1>9, <1>10, <1>11, FeedsStill DEF Held

\* The running task ends with nothing queued.
LEMMA TaskEnds ==
  ASSUME OneTask, NEW f \in Feeds, Running(f), UNCHANGED tasks, gate'.op = "free",
         ~recovery_task_scheduled'[f],
         \A g \in Feeds : g # f => /\ recovery_task_scheduled'[g] = recovery_task_scheduled[g]
                                  /\ stage'[g] = stage[g],
         open(f)' => stage'[f] \notin {"QueuedInitial", "QueuedRestart"},
         \A g \in Feeds : open(g)' => open(g)
  PROVE  OneTask'
<1> SUFFICES ASSUME NEW g \in Feeds
             PROVE  /\ recovery_task_scheduled'[g] <=> tasks'[g] = 1 \/ Running(g)'
                    /\ tasks'[g] = 1 => ~Running(g)'
                    /\ open(g)' /\ stage'[g] \in {"QueuedInitial", "QueuedRestart"} =>
                         recovery_task_scheduled'[g]
  BY DEF OneTask
<1>1. ~Running(g)' /\ tasks'[g] = tasks[g] /\ tasks[f] # 1
  BY DEF Running, OneTask
<1>2. CASE g = f
  BY <1>1, <1>2
<1>3. CASE g # f
  <2>1. ~Running(g)
    BY <1>3 DEF Running
  <2>2. /\ recovery_task_scheduled[g] <=> tasks[g] = 1
        /\ open(g) /\ stage[g] \in {"QueuedInitial", "QueuedRestart"} =>
             recovery_task_scheduled[g]
    BY <2>1 DEF OneTask
  <2> QED
    BY <1>1, <1>3, <2>2
<1> QED
  BY <1>2, <1>3

\* The task starts a request, or finds nothing to send and ends.
LEMMA RecoverCheckStep == HubInv /\ RecoverCheck => HubInv'
<1> SUFFICES ASSUME HubInv, RecoverCheck
             PROVE  HubInv'
  OBVIOUS
<1> DEFINE f == gate.f
<1>0. /\ TypeOK /\ GateHeld /\ Attached /\ Cleaned /\ OneTask /\ Answering
      /\ gate.op = "recover" /\ f \in born /\ f \in Feeds
      /\ UNCHANGED <<registry, feedvars, tasks, lifecycle, consumers, active, cleanup_pending,
                     worker, own_session, left, closed, wire>>
  BY DEF HubInv, RecoverCheck, Held, people, GateHeld, born
<1>1. born' = born /\ Alive' = Alive /\ \A g \in Feeds : open(g)' <=> open(g)
  BY <1>0 DEF born, Alive, open
<1>2. Attached'
  BY <1>0, <1>1, AttachedMoves DEF feedvars
<1>3. \A g \in Feeds : Subscribed(g)' <=> Subscribed(g)
  BY <1>0 DEF Subscribed, worker
<1>4. tasks[f] # 1 /\ recovery_task_scheduled[f] /\ \A g \in Feeds : Running(g) <=> g = f
  <2>1. \A g \in Feeds : Running(g) <=> g = f
    BY <1>0 DEF Running
  <2> QED
    BY <1>0, <2>1 DEF OneTask
<1>5. CASE /\ stage[f] \in {"QueuedInitial", "QueuedRestart"}
           /\ stage' = [stage EXCEPT ![f] = IF @ = "QueuedInitial" THEN "WaitingInitialPaint"
                                            ELSE "WaitingRestartStart"]
           /\ gate' = [gate EXCEPT !.op = "send"]
           /\ UNCHANGED <<restart_requested, recovery_task_scheduled>>
  <2>1. /\ gate'.op = "send" /\ gate'.f = f
        /\ gate' = [op |-> gate'.op, c |-> gate'.c, f |-> gate'.f, rest |-> gate'.rest]
    BY <1>0, <1>5, GateTo
  <2>2. /\ stage' \in [Feeds -> Stages] /\ stage'[f] \in {"WaitingInitialPaint", "WaitingRestartStart"}
        /\ \A g \in Feeds : g # f => stage'[g] = stage[g]
    BY <1>0, <1>5 DEF TypeOK, Stages
  <2>3. TypeOK'
    BY <1>0, <1>5, <2>2 DEF TypeOK, feedvars, worker
  <2>4. GateHeld'
    BY <1>0, <1>1, <2>1 DEF GateHeld
  <2>5. Cleaned'
    BY <1>0, <2>1, CleanedStill DEF Held
  <2>6. OneTask'
    <3>1. ASSUME NEW g \in Feeds
          PROVE  /\ recovery_task_scheduled'[g] <=> tasks'[g] = 1 \/ Running(g)'
                 /\ tasks'[g] = 1 => ~Running(g)'
                 /\ open(g)' /\ stage'[g] \in {"QueuedInitial", "QueuedRestart"} =>
                      recovery_task_scheduled'[g]
      <4>1. Running(g)' <=> Running(g)
        BY <1>0, <2>1 DEF Running
      <4>2. stage'[g] \in {"QueuedInitial", "QueuedRestart"} => stage'[g] = stage[g]
        BY <2>2
      <4> QED
        BY <1>0, <1>1, <1>5, <4>1, <4>2 DEF OneTask
    <3> QED
      BY <3>1 DEF OneTask
  <2>7. Answering'
    <3>1. \A g \in Feeds : g # f => ~Sending(g) /\ stage'[g] = stage[g]
      BY <1>0, <2>2 DEF Sending
    <3>2. \A g \in Feeds : g = f => Sending(g)'
      BY <2>1 DEF Sending, Held
    <3>3. \A g \in Feeds : wire'[g] = wire[g] /\ (Sending(g)' \/ (~Sending(g) /\ stage'[g] = stage[g]))
      BY <1>0, <3>1, <3>2
    <3> QED
      BY <1>0, <1>1, <1>3, <3>3, AnsweringKept
  <2>8. \A g \in Feeds \ born : stage'[g] = stage[g]
    BY <1>0, <2>2
  <2> QED
    BY <1>0, <1>2, <1>5, <2>1, <2>3, <2>4, <2>5, <2>6, <2>7, <2>8, FeedsStill DEF Held
<1>6. CASE /\ ~(open(f) /\ stage[f] \in {"QueuedInitial", "QueuedRestart"}) \/ shutdown
           /\ IF shutdown \/ ~open(f) THEN Recovered(f) ELSE UNCHANGED <<stage, restart_requested>>
           /\ recovery_task_scheduled' = [recovery_task_scheduled EXCEPT ![f] = FALSE]
           /\ Release
  <2>1. gate'.op = "free" /\ GateHeld'
    BY <1>6, GateFreed
  <2>2. /\ stage' \in [Feeds -> Stages] /\ restart_requested' \in [Feeds -> BOOLEAN]
        /\ recovery_task_scheduled' \in [Feeds -> BOOLEAN]
        /\ \A g \in Feeds : stage'[g] = stage[g] \/ (g = f /\ stage'[g] = "none")
        /\ open(f) => stage'[f] \notin {"QueuedInitial", "QueuedRestart"}
        /\ ~recovery_task_scheduled'[f]
        /\ \A g \in Feeds : g # f => recovery_task_scheduled'[g] = recovery_task_scheduled[g]
    <3>1. /\ recovery_task_scheduled' \in [Feeds -> BOOLEAN] /\ ~recovery_task_scheduled'[f]
          /\ \A g \in Feeds : g # f => recovery_task_scheduled'[g] = recovery_task_scheduled[g]
      BY <1>0, <1>6 DEF TypeOK
    <3>2. CASE Recovered(f)
      BY <1>0, <3>1, <3>2 DEF TypeOK, Stages, Recovered
    <3>3. CASE ~Recovered(f) /\ UNCHANGED <<stage, restart_requested>>
      BY <1>0, <1>6, <3>1, <3>3 DEF TypeOK
    <3> QED
      BY <1>6, <3>2, <3>3
  <2>3. TypeOK'
    BY <1>0, <2>2 DEF TypeOK, feedvars, worker
  <2>5. Cleaned'
    BY <1>0, <2>1, CleanedStill DEF Held
  <2>6. OneTask'
    BY <1>0, <1>1, <1>4, <2>1, <2>2, TaskEnds
  <2>7. Answering'
    <3>1. \A g \in Feeds : stage'[g] = stage[g] \/ ~Waiting(g)'
      BY <2>2 DEF Waiting
    <3>2. \A g \in Feeds : ~Sending(g)
      BY <1>0 DEF Sending, Held
    <3> QED
      BY <1>0, <1>1, <1>3, <3>1, <3>2, AnsweringKept
  <2>8. \A g \in Feeds \ born :
          stage'[g] = stage[g] /\ recovery_task_scheduled'[g] = recovery_task_scheduled[g]
    BY <1>0, <2>2
  <2> QED
    BY <1>0, <1>2, <2>1, <2>3, <2>5, <2>6, <2>7, <2>8, FeedsStill DEF Held
<1> QED
  BY <1>5, <1>6 DEF RecoverCheck

\* The request is sent and answered, or the feed fails and the task ends.
LEMMA RecoverSendStep == HubInv /\ RecoverSend => HubInv'
<1> SUFFICES ASSUME HubInv, RecoverSend, NEW f, f = gate.f
             PROVE  HubInv'
  OBVIOUS
<1>0. /\ TypeOK /\ GateHeld /\ Attached /\ Cleaned /\ OneTask /\ Answering
      /\ gate.op = "send" /\ f \in born /\ f \in Feeds /\ {f} \in SUBSET Feeds
      /\ UNCHANGED <<registry, feedvars, tasks, consumers, worker, people>>
  BY DEF HubInv, RecoverSend, Held, GateHeld, born
<1>1. \A g \in Feeds : (Running(g) <=> g = f) /\ (Sending(g) <=> g = f)
  BY <1>0 DEF Running, Sending, Held
<1>2. CASE /\ CanResubscribe(f) /\ resubscribe(f)
           /\ gate' = [gate EXCEPT !.op = "recover"]
           /\ UNCHANGED <<stage, restart_requested, recovery_task_scheduled, lifecycle, active,
                          closed, cleanup_pending, events>>
  <2>1. /\ gate'.op = "recover" /\ gate'.f = f
        /\ gate' = [op |-> gate'.op, c |-> gate'.c, f |-> gate'.f, rest |-> gate'.rest]
    BY <1>0, <1>2, GateTo
  <2>2. born' = born /\ Alive' = Alive
    BY <1>2 DEF born, Alive
  <2>3. GateHeld'
    BY <1>0, <2>1, <2>2 DEF GateHeld
  <2>4. Attached'
    BY <1>0, <2>2, AttachedMoves DEF feedvars
  <2>5. \A g \in Feeds : Running(g)' <=> Running(g)
    BY <1>1, <2>1 DEF Running
  <2> QED
    BY <1>0, <1>1, <1>2, <2>1, <2>3, <2>4, <2>5, ResubscribeStep DEF Held, recovery
<1>3. CASE /\ ResubscribeFails(f) /\ Recovered(f) /\ Release
           /\ recovery_task_scheduled' = [recovery_task_scheduled EXCEPT ![f] = FALSE]
  <2>1. gate'.op = "free" /\ GateHeld'
    BY <1>3, GateFreed
  <2>2. on_error({f}) /\ UNCHANGED wire
    BY <1>3 DEF ResubscribeFails
  <2>3. /\ lifecycle' \in [Feeds -> {"none", "pending", "active", "failed", "closed"}]
        /\ active' \in [Feeds -> SUBSET Consumers] /\ cleanup_pending' \in BOOLEAN
        /\ born' = born /\ Alive' = Alive /\ \A g \in Feeds : open(g)' => open(g)
        /\ \A g \in Feeds : lifecycle'[g] = "closed" => lifecycle[g] = "closed"
        /\ ~open(f)'
    BY <1>0, <2>2, Fails
  <2>4. Attached'
    BY <1>0, <2>3, AttachedMoves DEF feedvars
  <2>5. /\ stage' \in [Feeds -> Stages] /\ restart_requested' \in [Feeds -> BOOLEAN]
        /\ \A g \in Feeds : g # f => stage'[g] = stage[g]
    BY <1>0, <1>3 DEF Recovered, TypeOK, Stages
  <2>6. /\ recovery_task_scheduled' \in [Feeds -> BOOLEAN] /\ ~recovery_task_scheduled'[f]
        /\ \A g \in Feeds : g # f => recovery_task_scheduled'[g] = recovery_task_scheduled[g]
    BY <1>0, <1>3 DEF TypeOK
  <2>7. TypeOK'
    BY <1>0, <2>2, <2>3, <2>5, <2>6 DEF TypeOK, feedvars, worker, people
  <2>8. Slab'
    BY <1>0, <2>3, SlabStill DEF feedvars, worker, Held
  <2>9. OneTask'
    BY <1>0, <1>1, <2>1, <2>3, <2>5, <2>6, TaskEnds
  <2>10. Answering'
    <3>1. \A g \in Feeds : Subscribed(g)' <=> Subscribed(g)
      BY <1>0 DEF worker, Subscribed
    <3>2. \A g \in Feeds : /\ wire'[g] = wire[g]
                           /\ ~open(g)' \/ (open(g) /\ stage'[g] = stage[g] /\ ~Sending(g))
      BY <1>1, <2>2, <2>3, <2>5
    <3> QED
      BY <1>0, <3>1, <3>2, AnsweringKept
  <2>11. \A g \in Feeds \ born :
           stage'[g] = stage[g] /\ recovery_task_scheduled'[g] = recovery_task_scheduled[g]
    BY <1>0, <2>5, <2>6
  <2> QED
    BY <1>0, <2>1, <2>2, <2>4, <2>7, <2>8, <2>9, <2>10, <2>11, FailStep DEF Held, people
<1> QED
  BY <1>2, <1>3 DEF RecoverSend

-----------------------------------------------------------------------------
(* Consumers end, and adds attach, register and commit. *)

LEMMA LeaveStep ==
  ASSUME HubInv, NEW d \in Consumers, Leave(d)
  PROVE  HubInv'
<1>0. /\ TypeOK /\ GateHeld /\ Attached /\ Cleaned
      /\ closed' = closed \cup {d} /\ left' = left \cup {d}
      /\ UNCHANGED <<registry, feedvars, recovery, lifecycle, consumers, active, cleanup_pending,
                     gate, worker, own_session, wire>>
  BY DEF HubInv, Leave
<1>1. born' = born /\ Alive' = Alive
  BY <1>0 DEF born, Alive
<1>2. cleanup_pending' \in BOOLEAN /\ (cleanup_pending => cleanup_pending')
  <2>1. cleanup_pending \in BOOLEAN /\ cleanup_pending' = cleanup_pending
    BY <1>0 DEF TypeOK
  <2> QED
    BY <2>1, SMTT(60)
<1>3. Cleaned'
  <2>1. \A g \in Alive : \A c \in active[g] : c \in active'[g]
    BY <1>0
  <2> QED
    BY <1>0, <1>1, <1>2, <2>1, CleanedKept DEF Held
<1>4. GateHeld' /\ Attached'
  BY <1>0, <1>1, GateKept, AttachedKept DEF feedvars
<1> QED
  BY <1>0, <1>2, <1>3, <1>4, StillStep DEF Held, Running, Sending

LEMMA ShutDownStep == HubInv /\ ShutDown => HubInv'
<1> SUFFICES ASSUME HubInv, ShutDown
             PROVE  HubInv'
  OBVIOUS
<1>0. /\ GateHeld /\ Attached /\ cleanup_pending' = TRUE
      /\ UNCHANGED <<registry, feedvars, recovery, lifecycle, consumers, active, gate, worker,
                     own_session, wire>>
  BY DEF HubInv, ShutDown, schedule_cleanup
<1>1. born' = born /\ Alive' = Alive
  BY <1>0 DEF born, Alive
<1>2. Cleaned' /\ cleanup_pending' \in BOOLEAN
  BY <1>0 DEF Cleaned
<1>3. GateHeld' /\ Attached'
  BY <1>0, <1>1, GateKept, AttachedKept DEF feedvars
<1> QED
  BY <1>0, <1>2, <1>3, StillStep DEF Held, Running, Sending

\* An add finds the open feed of its topic.
LEMMA AddFinds ==
  ASSUME HubInv, NEW d \in Consumers, NEW t \in Topics, AddBegin(d, t),
         registry[t] # 0, open(registry[t])
  PROVE  HubInv'
<1>0. /\ TypeOK /\ GateHeld /\ Attached /\ Cleaned /\ gate.op = "free" /\ d \notin closed
      /\ gate' = [Free EXCEPT !.op = "attach", !.c = d, !.f = registry[t]]
      /\ UNCHANGED <<registry, feedvars, recovery, lifecycle, consumers, active, cleanup_pending,
                     worker, own_session, left, closed, wire>>
  BY DEF HubInv, AddBegin, Held, worker
<1>1. born' = born /\ Alive' = Alive
  BY <1>0 DEF born, Alive
<1>2. gate' = [op |-> "attach", c |-> d, f |-> registry[t], rest |-> {}]
  BY <1>0, TakenForAdd
<1>3. /\ gate'.op = "attach" /\ gate'.c = d /\ gate'.f = registry[t]
      /\ gate' = [op |-> gate'.op, c |-> gate'.c, f |-> gate'.f, rest |-> gate'.rest]
  BY <1>2, RecordFields
<1>4. registry[t] \in Alive
  BY <1>0, Lives DEF TypeOK
<1>5. consumers[registry[t]] # {} /\ upstream_key[registry[t]] # NoKey
  BY <1>0, <1>4 DEF Attached
<1>6. GateHeld'
  BY <1>0, <1>1, <1>3, <1>4, <1>5 DEF GateHeld, feedvars
<1>7. Attached'
  BY <1>0, <1>1, AttachedMoves DEF feedvars
<1>8. Cleaned' /\ cleanup_pending' \in BOOLEAN
  <2>1. cleanup_pending' \in BOOLEAN /\ (cleanup_pending => cleanup_pending')
    <3>1. cleanup_pending \in BOOLEAN /\ cleanup_pending' = cleanup_pending
      BY <1>0 DEF TypeOK
    <3> QED
      BY <3>1, SMTT(60)
  <2>2. gate'.c \notin closed'
    BY <1>0, <1>3
  <2>3. ASSUME NEW f \in Alive', NEW c \in consumers'[f], c \notin active'[f] \/ c \in closed',
               c \notin left'
        PROVE  cleanup_pending'
    BY <1>0, <1>1, <2>1, <2>3 DEF Cleaned
  <2> QED
    BY <2>1, <2>2, <2>3 DEF Cleaned
<1> QED
  BY <1>0, <1>3, <1>6, <1>7, <1>8, GateStep

\* The consumer is entered in a feed that is still open.
LEMMA AttachOpen ==
  ASSUME HubInv, Attach, NEW f, f = gate.f, NEW c, c = gate.c, open(f)
  PROVE  HubInv'
<1>0. /\ TypeOK /\ GateHeld /\ Attached /\ Cleaned /\ Fed /\ OneTask /\ Answering
      /\ gate.op = "attach" /\ f \in Alive /\ f \in born /\ f \in Feeds /\ c \in Consumers
      /\ upstream_key[f] = NoKey => consumers[f] \subseteq {c}
      /\ UNCHANGED <<registry, topic, upstream_key, session, stage, restart_requested,
                     recovery_task_scheduled, tasks, lifecycle, cleanup_pending, subs,
                     pending_cancel, ended, own_session, left, closed, wire>>
  <2>1. f \in Alive
    BY DEF HubInv, Attach, Held, GateHeld
  <2>2. f \in born /\ f \in Feeds
    BY <2>1 DEF Alive, born
  <2> QED
    BY <2>1, <2>2 DEF HubInv, Attach, Held, GateHeld, feedvars, recovery, worker, people
<1>1. born' = born /\ Alive' = Alive /\ \A g \in Feeds : open(g)' <=> open(g)
  BY <1>0 DEF born, Alive, open
<1>2. /\ consumers' = [consumers EXCEPT ![f] = @ \cup {c}]
      /\ active' = [active EXCEPT ![f] = @ \cup {c}]
  BY DEF Attach
<1>3. /\ consumers' \in [Feeds -> SUBSET Consumers] /\ active' \in [Feeds -> SUBSET Consumers]
      /\ consumers'[f] = consumers[f] \cup {c} /\ active'[f] = active[f] \cup {c}
      /\ \A g \in Feeds : g # f => consumers'[g] = consumers[g] /\ active'[g] = active[g]
  <2>1. consumers \in [Feeds -> SUBSET Consumers] /\ active \in [Feeds -> SUBSET Consumers]
    BY <1>0 DEF TypeOK
  <2>2. f \in Feeds /\ c \in Consumers
    BY <1>0
  <2>3. /\ consumers' \in [Feeds -> SUBSET Consumers] /\ consumers'[f] = consumers[f] \cup {c}
        /\ \A g \in Feeds : g # f => consumers'[g] = consumers[g]
    BY <1>2, <2>1, <2>2
  <2>4. /\ active' \in [Feeds -> SUBSET Consumers] /\ active'[f] = active[f] \cup {c}
        /\ \A g \in Feeds : g # f => active'[g] = active[g]
    BY <1>2, <2>1, <2>2
  <2> QED
    BY <2>3, <2>4
<1>4. /\ gate'.op \in {"subscribe", "free", "grow"} /\ GateHeld'
      /\ gate'.op = "subscribe" => gate'.f = f
      /\ gate'.op # "subscribe" => upstream_key[f] # NoKey
  <2>1. CASE upstream_key[f] = NoKey /\ gate' = [gate EXCEPT !.op = "subscribe"]
    <3>1. /\ gate'.op = "subscribe" /\ gate'.f = f /\ gate'.c = c
          /\ gate' = [op |-> gate'.op, c |-> gate'.c, f |-> gate'.f, rest |-> gate'.rest]
      BY <1>0, <2>1, GateTo
    <3>2. f \in Alive' /\ c \in consumers'[f] /\ consumers'[f] \subseteq {c} /\ upstream_key'[f] = NoKey
      BY <1>0, <1>1, <1>3, <2>1
    <3> QED
      BY <1>0, <3>1, <3>2 DEF GateHeld
  <2>2. CASE upstream_key[f] # NoKey /\ Release
    BY <2>2, GateFreed
  <2>3. CASE upstream_key[f] # NoKey /\ gate' = [gate EXCEPT !.op = "grow"]
    <3>1. /\ gate'.op = "grow" /\ gate'.f = f /\ gate'.c = c
          /\ gate' = [op |-> gate'.op, c |-> gate'.c, f |-> gate'.f, rest |-> gate'.rest]
      BY <1>0, <2>3, GateTo
    <3>2. f \in Alive' /\ c \in consumers'[f] /\ upstream_key'[f] # NoKey
      BY <1>0, <1>1, <1>3, <2>3
    <3> QED
      BY <1>0, <2>3, <3>1, <3>2 DEF GateHeld
  <2> QED
    BY <2>1, <2>2, <2>3 DEF Attach
<1>5. TypeOK'
  BY <1>0, <1>3 DEF TypeOK
<1>6. Fed'
  <2>1. ASSUME NEW g \in Feeds, active'[g] # {}
        PROVE  open(g)' /\ active'[g] \subseteq consumers'[g]
    <3>1. active[g] # {} => open(g) /\ active[g] \subseteq consumers[g]
      BY <1>0 DEF Fed
    <3>2. CASE g = f
      BY <1>1, <1>3, <3>1, <3>2
    <3>3. CASE g # f
      BY <1>1, <1>3, <2>1, <3>1, <3>3
    <3> QED
      BY <3>2, <3>3
  <2> QED
    BY <2>1 DEF Fed
<1>7. Slab'
  BY <1>0, <1>1, SlabStill DEF Held
<1>8. Attached'
  <2>1. ASSUME NEW g \in Alive'
        PROVE  \/ gate'.op \in {"attach", "subscribe", "store", "rollback"} /\ gate'.f = g
               \/ consumers'[g] # {} /\ upstream_key'[g] # NoKey
    <3>1. CASE g = f
      BY <1>0, <1>3, <1>4, <3>1
    <3>2. CASE g # f
      <4>1. g \in Alive /\ g \in Feeds
        BY <1>1 DEF Alive
      <4> QED
        BY <1>0, <1>3, <3>2, <4>1 DEF Attached
    <3> QED
      BY <3>1, <3>2
  <2> QED
    BY <2>1 DEF Attached
<1>9. Cleaned'
  <2>1. cleanup_pending => cleanup_pending'
    BY <1>0, SMTT(60)
  <2>2. ASSUME NEW g \in Alive', NEW e \in consumers'[g], e \notin active'[g] \/ e \in closed',
               e \notin left'
        PROVE  cleanup_pending'
    <3>1. CASE g = f /\ e = c
      BY <1>0, <1>3, <2>1, <2>2, <3>1 DEF Cleaned, Held
    <3>2. CASE g # f \/ e # c
      <4>1. g \in Alive /\ g \in Feeds
        BY <1>1, <2>2 DEF Alive
      <4>2. e \in consumers[g] /\ (e \notin active[g] \/ e \in closed) /\ e \notin left
        BY <1>0, <1>3, <2>2, <3>2, <4>1
      <4> QED
        BY <1>0, <2>1, <4>1, <4>2 DEF Cleaned
    <3> QED
      BY <3>1, <3>2
  <2>3. ~Held("attach")'
    BY <1>4 DEF Held
  <2> QED
    BY <2>2, <2>3 DEF Cleaned
<1>10. OneTask'
  BY <1>0, <1>1, <1>4, TasksKept DEF Running
<1>11. Answering'
  BY <1>0, <1>1, <1>4, AnsweringStill DEF Sending, Held
<1>12. \A g \in Feeds \ born :
         consumers'[g] = consumers[g] /\ active'[g] \subseteq active[g]
  BY <1>0, <1>3
<1> QED
  BY <1>0, <1>1, <1>4, <1>5, <1>6, <1>7, <1>8, <1>9, <1>10, <1>11, <1>12, LivesKept

LEMMA AttachStep == HubInv /\ Attach => HubInv'
<1> SUFFICES ASSUME HubInv, Attach
             PROVE  HubInv'
  OBVIOUS
<1>1. CASE open(gate.f)
  BY <1>1, AttachOpen
<1>2. CASE ~open(gate.f)
  <2>0. /\ TypeOK /\ GateHeld /\ Attached /\ Cleaned /\ gate.op = "attach" /\ RollBack
        /\ UNCHANGED <<registry, feedvars, recovery, lifecycle, consumers, active,
                       cleanup_pending, worker, own_session, left, closed, wire>>
    BY <1>2 DEF HubInv, Attach, Held, people
  <2>1. Alive' = Alive
    BY <2>0 DEF Alive
  <2>2. GateHeld' /\ Attached' /\ gate'.op = "rollback"
    BY <2>0, <2>1, GateRollsBack DEF feedvars
  <2>3. Cleaned' /\ cleanup_pending' \in BOOLEAN
    BY <2>0, <2>2, CleanedStill DEF Held
  <2> QED
    BY <2>0, <2>2, <2>3, GateStep
<1> QED
  BY <1>1, <1>2

\* A vacant key of the session's slab.
LEMMA SlabKey ==
  ASSUME NEW s \in Feeds, NEW k \in {s} \X Slots
  PROVE  k \in Keys /\ k[1] = s
  BY SMTT(60) DEF Keys

\* The feed is subscribed once, at a key nothing else has.
LEMMA RegisterStep == HubInv /\ Register => HubInv'
<1> SUFFICES ASSUME HubInv, Register, NEW f, f = gate.f
             PROVE  HubInv'
  OBVIOUS
<1>0. /\ TypeOK /\ GateHeld /\ Attached /\ Cleaned /\ Fed /\ OneTask /\ Answering
      /\ gate.op = "subscribe" /\ f \in Alive /\ gate.c \in consumers[f]
      /\ gate.c \in Consumers /\ upstream_key[f] = NoKey /\ consumers[f] \subseteq {gate.c}
      /\ UNCHANGED <<registry, topic, upstream_key, session, stage, restart_requested,
                     recovery_task_scheduled, tasks, lifecycle, consumers, active,
                     cleanup_pending, pending_cancel, ended, own_session, left, closed>>
  BY DEF HubInv, Register, Held, GateHeld, feedvars, recovery, people
<1>1. born' = born /\ Alive' = Alive /\ \A g \in Feeds : open(g)' <=> open(g)
  BY <1>0 DEF born, Alive, open
<1>2. f \in born /\ f \in Feeds /\ session[f] \in Feeds /\ session[f] \notin ended
  <2>1. f \in born /\ f \in Feeds
    BY <1>0 DEF Alive, born
  <2>2. session[f] # 0
    BY <2>1 DEF HubInv, Numbered
  <2> QED
    BY <1>0, <2>1, <2>2 DEF TypeOK, Register
<1>3. PICK k \in {session[f]} \X Slots :
        /\ subs[k] = 0 /\ subs' = [subs EXCEPT ![k] = f]
        /\ gate' = [gate EXCEPT !.op = "store", !.rest = {k}]
  BY DEF Register
<1>4. k \in Keys /\ k[1] = session[f]
  BY <1>2, SlabKey
<1>5. /\ subs' \in [Keys -> Feeds \cup {0}] /\ subs'[k] = f
      /\ \A j \in Keys : j # k => subs'[j] = subs[j]
  BY <1>0, <1>2, <1>3, <1>4 DEF TypeOK
<1>6. /\ gate'.op = "store" /\ gate'.f = f /\ gate'.c = gate.c /\ gate'.rest = {k}
      /\ gate' = [op |-> gate'.op, c |-> gate'.c, f |-> gate'.f, rest |-> gate'.rest]
  <2>1. gate = [op |-> gate.op, c |-> gate.c, f |-> gate.f, rest |-> gate.rest]
    BY <1>0 DEF GateHeld
  <2>3. gate' = [op |-> "store", c |-> gate.c, f |-> gate.f, rest |-> {k}]
    BY <1>3, <2>1, RecordStore
  <2> QED
    BY <2>3, RecordFields
<1>7. wire' \in [Feeds -> Seq(Messages)] /\ wire'[f] = Answer /\ \A g \in Feeds : g # f => wire'[g] = wire[g]
  <2>1. Answer \in Seq(Messages)
    BY SMTT(60) DEF Answer, Messages
  <2> QED
    BY <1>0, <1>2, <2>1 DEF Register, TypeOK, Messages
<1>8. TypeOK'
  BY <1>0, <1>5, <1>7 DEF TypeOK, Messages
<1>9. Fed'
  BY <1>0, <1>1 DEF Fed
<1>10. Slab'
  <2>1. ASSUME NEW j \in Keys, subs'[j] # 0
        PROVE  /\ subs'[j] \in born' /\ session'[subs'[j]] = j[1] /\ j[1] \notin ended'
               /\ \/ upstream_key'[subs'[j]] = j
                  \/ Held("store")' /\ gate'.f = subs'[j] /\ gate'.rest = {j}
               /\ lifecycle'[subs'[j]] = "closed" => j \in pending_cancel'
    <3>1. CASE j = k
      <4>1. lifecycle[f] # "closed"
        BY <1>0 DEF Alive
      <4> QED
        BY <1>0, <1>1, <1>2, <1>4, <1>5, <1>6, <3>1, <4>1 DEF Held
    <3>2. CASE j # k
      <4>1. subs'[j] = subs[j] /\ subs[j] # 0
        BY <1>5, <2>1, <3>2
      <4>2. /\ subs[j] \in born /\ session[subs[j]] = j[1] /\ j[1] \notin ended
            /\ upstream_key[subs[j]] = j /\ (lifecycle[subs[j]] = "closed" => j \in pending_cancel)
        BY <1>0, <4>1, KeyInUse DEF Held
      <4> QED
        BY <1>0, <1>1, <4>1, <4>2
    <3> QED
      BY <3>1, <3>2
  <2>2. \A j \in pending_cancel' : subs'[j] # 0
    <3>1. \A j \in pending_cancel : subs[j] # 0 /\ j \in Keys
      BY <1>0 DEF HubInv, Slab, TypeOK
    <3> QED
      BY <1>0, <1>3, <1>5, <3>1
  <2> QED
    BY <2>1, <2>2 DEF Slab
<1>11. GateHeld'
  BY <1>0, <1>1, <1>4, <1>6 DEF GateHeld
<1>12. Attached'
  BY <1>0, <1>1, <1>6 DEF Attached
<1>13. Cleaned'
  BY <1>0, <1>6, CleanedStill DEF Held
<1>14. OneTask'
  BY <1>0, <1>1, <1>6, TasksKept DEF Running
<1>15. Answering'
  <2>1. ASSUME NEW g \in Feeds, g # f
        PROVE  Subscribed(g)' => Subscribed(g)
    BY <1>0, <1>5, <2>1 DEF Subscribed
  <2>2. \A g \in Feeds : ~Sending(g)
    BY <1>0 DEF Sending, Held
  <2>3. ASSUME NEW g \in Feeds
        PROVE  \/ wire'[g] = Answer
               \/ wire'[g] = wire[g] /\ (~Subscribed(g)' \/ Subscribed(g))
    BY <1>7, <2>1
  <2> QED
    BY <1>0, <1>1, <2>2, <2>3, AnsweringKept
<1> QED
  BY <1>0, <1>1, <1>8, <1>9, <1>10, <1>11, <1>12, <1>13, <1>14, <1>15, LivesKept

\* The add commits: the feed has the key it was registered under.
LEMMA StoreStep == HubInv /\ Store => HubInv'
<1> SUFFICES ASSUME HubInv, Store, NEW f, f = gate.f, session[f] \notin ended
             PROVE  HubInv'
  BY StoreFails
<1>0. /\ TypeOK /\ GateHeld /\ Attached /\ Cleaned /\ Fed /\ OneTask /\ Answering
      /\ gate.op = "store" /\ f \in Alive /\ gate.c \in consumers[f] /\ upstream_key[f] = NoKey
      /\ Release /\ upstream_key' = [upstream_key EXCEPT ![f] = CHOOSE k \in gate.rest : TRUE]
      /\ UNCHANGED <<registry, topic, session, stage, restart_requested,
                     recovery_task_scheduled, tasks, lifecycle, consumers, active,
                     cleanup_pending, subs, pending_cancel, ended, own_session, left, closed,
                     wire>>
  BY DEF HubInv, Store, Held, GateHeld, recovery, worker, people
<1>1. /\ born' = born /\ Alive' = Alive /\ (\A g \in Feeds : open(g)' <=> open(g))
      /\ f \in born /\ f \in Feeds
  BY <1>0 DEF born, Alive, open
<1>2. PICK k \in Keys : gate.rest = {k}
  BY <1>0 DEF GateHeld
<1>3. (CHOOSE j \in gate.rest : TRUE) = k
  BY <1>2
<1>4. /\ upstream_key' \in [Feeds -> Keys \cup {NoKey}] /\ upstream_key'[f] = k
      /\ \A g \in Feeds : g # f => upstream_key'[g] = upstream_key[g]
  BY <1>0, <1>1, <1>3 DEF TypeOK
<1>5. gate'.op = "free" /\ GateHeld'
  BY <1>0, GateFreed
<1>6. TypeOK'
  BY <1>0, <1>4 DEF TypeOK
<1>7. Fed'
  BY <1>0, <1>1 DEF Fed
<1>8. Slab'
  <2>1. ASSUME NEW j \in Keys, subs'[j] # 0
        PROVE  /\ subs'[j] \in born' /\ session'[subs'[j]] = j[1] /\ j[1] \notin ended'
               /\ upstream_key'[subs'[j]] = j
               /\ lifecycle'[subs'[j]] = "closed" => j \in pending_cancel'
    <3>1. subs'[j] = subs[j] /\ subs[j] # 0
      BY <1>0, <2>1
    <3>2. /\ subs[j] \in born /\ subs[j] \in Feeds /\ session[subs[j]] = j[1] /\ j[1] \notin ended
          /\ upstream_key[subs[j]] = j \/ (gate.f = subs[j] /\ gate.rest = {j})
          /\ lifecycle[subs[j]] = "closed" => j \in pending_cancel
      BY <3>1, KeyInUse
    <3>3. upstream_key'[subs[j]] = j
      <4>1. CASE subs[j] = f
        BY <1>0, <1>2, <1>4, <3>2, <4>1, HubConstants
      <4>2. CASE subs[j] # f
        BY <1>4, <3>2, <4>2
      <4> QED
        BY <4>1, <4>2
    <3> QED
      BY <1>0, <1>1, <3>1, <3>2, <3>3
  <2>2. \A j \in pending_cancel' : subs'[j] # 0
    BY <1>0 DEF HubInv, Slab
  <2> QED
    BY <2>1, <2>2 DEF Slab
<1>9. Attached'
  <2>1. ASSUME NEW g \in Alive'
        PROVE  consumers'[g] # {} /\ upstream_key'[g] # NoKey
    <3>1. g \in Alive /\ g \in Feeds
      BY <1>1 DEF Alive
    <3>2. CASE g = f
      BY <1>0, <1>4, <3>2, HubConstants
    <3>3. CASE g # f
      BY <1>0, <1>4, <3>1, <3>3 DEF Attached
    <3> QED
      BY <3>2, <3>3
  <2> QED
    BY <2>1 DEF Attached
<1>10. Cleaned'
  BY <1>0, <1>5, CleanedStill DEF Held
<1>11. OneTask'
  BY <1>0, <1>1, <1>5, TasksKept DEF Running
<1>12. Answering'
  BY <1>0, <1>1, <1>5, AnsweringStill DEF Sending, Held
<1> QED
  BY <1>0, <1>1, <1>4, <1>5, <1>6, <1>7, <1>8, <1>9, <1>10, <1>11, <1>12, LivesKept

-----------------------------------------------------------------------------
(* The SDK thread, which does not hold the gate. *)

LEMMA SdkStep ==
  ASSUME HubInv, UNCHANGED <<registry, feedvars, consumers, gate>>, born' = born, Alive' = Alive,
         \A f \in Feeds \ born :
           /\ active'[f] \subseteq active[f] /\ stage'[f] = stage[f]
           /\ recovery_task_scheduled'[f] = recovery_task_scheduled[f],
         TypeOK', Fed', Slab', Cleaned', OneTask', Answering'
  PROVE  HubInv'
<1>1. UNCHANGED <<registry, topic, upstream_key, session, consumers, gate>>
  BY DEF feedvars
<1>2. GateHeld' /\ Attached'
  BY <1>1, GateKept, AttachedKept DEF HubInv
<1> QED
  BY <1>1, <1>2, LivesKept

LEMMA CancelConfirmedStep ==
  ASSUME HubInv, NEW k \in Keys, CancelConfirmed(k)
  PROVE  HubInv'
<1>0. /\ TypeOK /\ Fed /\ Cleaned /\ GateHeld /\ OneTask /\ Answering
      /\ subs' = [subs EXCEPT ![k] = 0] /\ pending_cancel' = pending_cancel \ {k}
      /\ UNCHANGED <<registry, topic, upstream_key, session, stage, restart_requested,
                     recovery_task_scheduled, tasks, lifecycle, consumers, active,
                     cleanup_pending, gate, ended, own_session, left, closed, wire>>
  BY DEF HubInv, CancelConfirmed, feedvars, recovery, people
<1>1. born' = born /\ Alive' = Alive /\ \A g \in Feeds : open(g)' <=> open(g)
  BY <1>0 DEF born, Alive, open
<1>2. subs' \in [Keys -> Feeds \cup {0}] /\ subs'[k] = 0 /\ \A j \in Keys : j # k => subs'[j] = subs[j]
  BY <1>0 DEF TypeOK
<1>3. TypeOK'
  BY <1>0, <1>2 DEF TypeOK
<1>4. Fed'
  BY <1>0, <1>1 DEF Fed
<1>5. Slab'
  <2>1. ASSUME NEW j \in Keys, subs'[j] # 0
        PROVE  /\ subs'[j] = subs[j] /\ j[1] \notin ended'
               /\ j \in pending_cancel => j \in pending_cancel'
    BY <1>0, <1>2, <2>1, KeyInUse
  <2>2. \A j \in pending_cancel' : subs'[j] # 0
    <3>1. \A j \in pending_cancel : subs[j] # 0 /\ j \in Keys
      BY <1>0 DEF HubInv, Slab, TypeOK
    <3> QED
      BY <1>0, <1>2, <3>1
  <2> QED
    BY <1>0, <1>1, <2>1, <2>2, SlabKept DEF Held
<1>6. Cleaned'
  BY <1>0, CleanedStill DEF Held
<1>7. OneTask'
  BY <1>0, <1>1, TasksKept DEF Running
<1>8. Answering'
  <2>1. ASSUME NEW g \in Feeds, Subscribed(g)'
        PROVE  Subscribed(g)
    <3>1. PICK j \in Keys \ pending_cancel' : subs'[j] = g
      BY <1>0, <2>1 DEF Subscribed
    <3>2. j # k
      BY <1>2, <3>1, HubConstants
    <3> QED
      BY <1>0, <1>2, <3>1, <3>2 DEF Subscribed
  <2>2. \A g \in Feeds : Sending(g) => Sending(g)'
    BY <1>0 DEF Sending, Held
  <2> QED
    BY <1>0, <1>1, <2>1, <2>2, AnsweringKept
<1> QED
  BY <1>0, <1>1, <1>3, <1>4, <1>5, <1>6, <1>7, <1>8, SdkStep DEF feedvars

\* A topic fails: its feed stays registered until its entries are cleaned up.
LEMMA TopicFailsStep ==
  ASSUME HubInv, NEW k \in Keys, TopicFails(k), NEW f, f = subs[k]
  PROVE  HubInv'
<1>0. /\ TypeOK /\ Fed /\ Cleaned /\ GateHeld /\ OneTask /\ Answering
      /\ f # 0 /\ k \notin pending_cancel
      /\ subs' = [subs EXCEPT ![k] = 0] /\ wire' = [wire EXCEPT ![f] = <<>>]
      /\ lifecycle' = [lifecycle EXCEPT ![f] = "failed"] /\ active' = [active EXCEPT ![f] = {}]
      /\ closed' = closed \cup Ending({f})
      /\ cleanup_pending' = (cleanup_pending \/ active[f] \ closed # {})
      /\ UNCHANGED <<registry, topic, upstream_key, session, stage, restart_requested,
                     recovery_task_scheduled, tasks, consumers, gate, pending_cancel, ended,
                     own_session, left>>
  BY DEF HubInv, TopicFails, collect_failed, apply, feedvars, recovery, people
<1>1. f \in Feeds /\ f \in born /\ f \in Alive
  <2>1. f \in born /\ f \in Feeds /\ lifecycle[f] # "closed"
    BY <1>0, KeyInUse
  <2> QED
    BY <1>0, <2>1, Lives
<1>2. /\ subs' \in [Keys -> Feeds \cup {0}] /\ subs'[k] = 0
      /\ \A j \in Keys : j # k => subs'[j] = subs[j]
  BY <1>0 DEF TypeOK
<1>3. /\ lifecycle' \in [Feeds -> {"none", "pending", "active", "failed", "closed"}]
      /\ lifecycle'[f] = "failed" /\ \A g \in Feeds : g # f => lifecycle'[g] = lifecycle[g]
      /\ active' \in [Feeds -> SUBSET Consumers] /\ active'[f] = {}
      /\ \A g \in Feeds : g # f => active'[g] = active[g]
  BY <1>0, <1>1 DEF TypeOK
<1>4. /\ wire' \in [Feeds -> Seq(Messages)] /\ wire'[f] = <<>>
      /\ \A g \in Feeds : g # f => wire'[g] = wire[g]
  <2>1. <<>> \in Seq(Messages)
    BY SMTT(60)
  <2> QED
    BY <1>0, <1>1, <2>1 DEF TypeOK, Messages
<1>5. /\ ~open(f)' /\ \A g \in Feeds : g # f => (open(g)' <=> open(g))
      /\ born' = born /\ Alive' = Alive
  <2>1. ~open(f)' /\ \A g \in Feeds : g # f => (open(g)' <=> open(g))
    BY <1>3 DEF open
  <2>2. \A g \in Feeds : g \in Alive' <=> g \in Alive
    BY <1>1, <1>3 DEF Alive
  <2>3. \A g \in Feeds : g \in born' <=> g \in born
    BY <1>1, <1>3 DEF born
  <2> QED
    BY <2>1, <2>2, <2>3 DEF born, Alive
<1>6. TypeOK'
  BY <1>0, <1>2, <1>3, <1>4 DEF TypeOK, Messages
<1>7. Fed'
  <2>1. \A g \in Feeds : active'[g] # {} => g # f
    BY <1>3
  <2> QED
    BY <1>0, <1>3, <1>5, <2>1, FedKept
<1>8. Slab'
  <2>1. ASSUME NEW j \in Keys, subs'[j] # 0
        PROVE  subs'[j] = subs[j] /\ j[1] \notin ended'
    BY <1>0, <1>2, <2>1, KeyInUse
  <2>2. \A j \in pending_cancel' : subs'[j] # 0
    <3>1. \A j \in pending_cancel : subs[j] # 0 /\ j \in Keys
      BY <1>0 DEF HubInv, Slab, TypeOK
    <3> QED
      BY <1>0, <1>2, <3>1
  <2>3. \A g \in Feeds : lifecycle'[g] = "closed" => lifecycle[g] = "closed"
    BY <1>3
  <2> QED
    BY <1>0, <1>5, <2>1, <2>2, <2>3, SlabKept DEF Held
<1>9. Cleaned'
  <2>1. (cleanup_pending => cleanup_pending') /\ (active[f] \ closed # {} => cleanup_pending')
    BY <1>0
  <2>2. \A c \in Ending({f}) : c \in active[f]
    BY DEF Ending
  <2>3. \A c \in Consumers : c \in closed' /\ c \notin closed => cleanup_pending'
    BY <1>0, <2>1, <2>2
  <2>4. \A g \in Alive : \A c \in active[g] : c \notin active'[g] => c \in closed \/ cleanup_pending'
    BY <1>3, <2>1 DEF Alive
  <2> QED
    BY <1>0, <1>5, <2>1, <2>3, <2>4, CleanedKept DEF Held
<1>10. OneTask'
  <2>1. \A g \in Feeds : open(g)' => open(g)
    BY <1>5
  <2> QED
    BY <1>0, <2>1, TasksKept DEF Running
<1>11. Answering'
  <2>1. ASSUME NEW g \in Feeds, Subscribed(g)'
        PROVE  Subscribed(g)
    <3>1. PICK j \in Keys \ pending_cancel' : subs'[j] = g
      BY <1>0, <2>1 DEF Subscribed
    <3>2. j # k
      BY <1>2, <3>1, HubConstants
    <3> QED
      BY <1>0, <1>2, <3>1, <3>2 DEF Subscribed
  <2>2. \A g \in Feeds : Sending(g) => Sending(g)'
    BY <1>0 DEF Sending, Held
  <2>3. \A g \in Feeds : g = f => ~open(g)' /\ wire'[g] = <<>>
    BY <1>3, <1>4 DEF open
  <2>4. \A g \in Feeds : g # f => wire'[g] = wire[g] /\ (open(g)' => open(g)) /\ stage'[g] = stage[g]
    BY <1>0, <1>4, <1>5
  <2> QED
    BY <1>0, <2>1, <2>2, <2>3, <2>4, AnsweringKept
<1> QED
  BY <1>0, <1>1, <1>3, <1>5, <1>6, <1>7, <1>8, <1>9, <1>10, <1>11, SdkStep DEF feedvars

\* A session ends: its feeds fail and its slab empties.
LEMMA SessionEndsStep ==
  ASSUME HubInv, NEW s \in Feeds, SessionEnds(s)
  PROVE  HubInv'
<1> DEFINE lost == {f \in registered : session[f] = s}
<1>0. /\ TypeOK /\ OneTask /\ Answering /\ GateHeld /\ Attached
      /\ on_error(lost) /\ ended' = ended \cup {s}
      /\ wire' = [f \in Feeds |-> IF f \in lost THEN <<>> ELSE wire[f]]
      /\ subs' = [k \in Keys |-> IF k[1] = s THEN 0 ELSE subs[k]]
      /\ pending_cancel' = {k \in pending_cancel : k[1] # s}
      /\ UNCHANGED <<registry, topic, upstream_key, session, stage, restart_requested,
                     recovery_task_scheduled, tasks, consumers, gate, own_session, left>>
  BY DEF HubInv, SessionEnds, feedvars, recovery, people
<1>1. lost \in SUBSET Feeds
  BY DEF registered, born
<1>2. /\ lifecycle' \in [Feeds -> {"none", "pending", "active", "failed", "closed"}]
      /\ active' \in [Feeds -> SUBSET Consumers] /\ cleanup_pending' \in BOOLEAN
      /\ born' = born /\ Alive' = Alive /\ \A g \in Feeds : open(g)' => open(g)
      /\ \A g \in Feeds : lifecycle'[g] = "closed" => lifecycle[g] = "closed"
      /\ \A g \in lost : ~open(g)'
  BY <1>0, <1>1, Fails
<1> HIDE DEF lost
<1>3. /\ \A k \in Keys : subs'[k] = IF k[1] = s THEN 0 ELSE subs[k]
      /\ subs' \in [Keys -> Feeds \cup {0}]
  BY <1>0 DEF TypeOK
<1>4. /\ wire' \in [Feeds -> Seq(Messages)]
      /\ \A g \in Feeds : wire'[g] = IF g \in lost THEN <<>> ELSE wire[g]
  <2>1. <<>> \in Seq(Messages)
    BY SMTT(60)
  <2> QED
    BY <1>0, <2>1 DEF TypeOK, Messages
<1>5. TypeOK'
  BY <1>0, <1>2, <1>3, <1>4 DEF TypeOK, Messages
<1>6. Slab'
  <2>1. ASSUME NEW k \in Keys, subs'[k] # 0
        PROVE  /\ subs'[k] = subs[k] /\ k[1] \notin ended'
               /\ k \in pending_cancel => k \in pending_cancel'
    <3>1. k[1] # s /\ subs'[k] = subs[k]
      BY <1>3, <2>1
    <3>2. k[1] \notin ended
      BY <2>1, <3>1, KeyInUse
    <3> QED
      BY <1>0, <3>1, <3>2
  <2>2. \A k \in pending_cancel' : subs'[k] # 0
    <3>1. \A k \in pending_cancel : subs[k] # 0 /\ k \in Keys
      BY <1>0 DEF HubInv, Slab, TypeOK
    <3> QED
      BY <1>0, <1>3, <3>1
  <2> QED
    BY <1>0, <1>2, <2>1, <2>2, SlabKept DEF Held
<1>7. OneTask'
  BY <1>0, <1>2, TasksKept DEF Running
<1>8. Answering'
  <2>1. ASSUME NEW g \in Feeds, Subscribed(g)'
        PROVE  Subscribed(g)
    <3>1. PICK k \in Keys \ pending_cancel' : subs'[k] = g
      BY <1>0, <2>1 DEF Subscribed
    <3>2. k[1] # s /\ subs[k] = g
      BY <1>3, <3>1, HubConstants
    <3>3. k \notin pending_cancel
      BY <1>0, <3>1, <3>2
    <3> QED
      BY <3>1, <3>2, <3>3 DEF Subscribed
  <2>2. \A g \in Feeds : Sending(g) => Sending(g)'
    BY <1>0 DEF Sending, Held
  <2>3. \A g \in Feeds : \/ wire'[g] = <<>> /\ ~open(g)'
                         \/ wire'[g] = wire[g] /\ (open(g)' => open(g)) /\ stage'[g] = stage[g]
    BY <1>0, <1>2, <1>4
  <2> QED
    BY <1>0, <2>1, <2>2, <2>3, AnsweringKept
<1>9. GateHeld' /\ Attached'
  BY <1>0, <1>2, GateKept, AttachedKept
<1> QED
  BY <1>0, <1>1, <1>5, <1>6, <1>7, <1>8, <1>9, FailStep DEF Held, feedvars

\* A task is spawned exactly when the flag is raised.
LEMMA TaskSpawned ==
  ASSUME HubInv, NEW f \in Feeds, open(f), NEW w, w => ~recovery_task_scheduled[f],
         schedule_recovery(f, w), UNCHANGED gate,
         recovery_task_scheduled' = [recovery_task_scheduled EXCEPT ![f] = @ \/ w],
         \A g \in Feeds : g # f => stage'[g] = stage[g],
         \A g \in Feeds : open(g)' => open(g),
         open(f)' /\ stage'[f] \in {"QueuedInitial", "QueuedRestart"} =>
           recovery_task_scheduled[f] \/ w
  PROVE  /\ OneTask' /\ tasks' \in [Feeds -> 0 .. 1]
         /\ recovery_task_scheduled' \in [Feeds -> BOOLEAN]
         /\ \A g \in Feeds : g # f => recovery_task_scheduled'[g] = recovery_task_scheduled[g]
<1>0. TypeOK /\ OneTask /\ RegistryExact
  BY DEF HubInv
<1>1. registry[topic[f]] = f /\ f # 0
  BY <1>0, Lives, HubConstants DEF RegistryExact
<1>2. /\ recovery_task_scheduled' \in [Feeds -> BOOLEAN]
      /\ recovery_task_scheduled'[f] <=> recovery_task_scheduled[f] \/ w
      /\ \A g \in Feeds : g # f => recovery_task_scheduled'[g] = recovery_task_scheduled[g]
  BY <1>0 DEF TypeOK
<1>3. /\ tasks' \in [Feeds -> 0 .. 1] /\ \A g \in Feeds : g # f => tasks'[g] = tasks[g]
      /\ w => tasks'[f] = 1
      /\ ~w => tasks'[f] = tasks[f]
  <2>1. CASE ~w
    <3>1. tasks' = tasks
      BY <2>1 DEF schedule_recovery
    <3> QED
      BY <1>0, <2>1, <3>1 DEF TypeOK
  <2>2. CASE w
    <3>1. tasks' = [tasks EXCEPT ![f] = tasks[f] + 1]
      BY <1>1, <2>2 DEF schedule_recovery
    <3>2. tasks[f] # 1 /\ tasks[f] \in 0 .. 1
      BY <1>0, <2>2 DEF OneTask, TypeOK
    <3>3. tasks[f] + 1 = 1 /\ 1 \in 0 .. 1
      BY <3>2, SMTT(60)
    <3> QED
      BY <1>0, <2>2, <3>1, <3>3 DEF TypeOK
  <2> QED
    BY <2>1, <2>2
<1>4. ASSUME NEW g \in Feeds
      PROVE  /\ recovery_task_scheduled'[g] <=> tasks'[g] = 1 \/ Running(g)'
             /\ tasks'[g] = 1 => ~Running(g)'
             /\ open(g)' /\ stage'[g] \in {"QueuedInitial", "QueuedRestart"} =>
                  recovery_task_scheduled'[g]
  <2>1. /\ recovery_task_scheduled[g] <=> tasks[g] = 1 \/ Running(g)
        /\ tasks[g] = 1 => ~Running(g)
        /\ open(g) /\ stage[g] \in {"QueuedInitial", "QueuedRestart"} =>
             recovery_task_scheduled[g]
    BY <1>0 DEF OneTask
  <2>2. Running(g)' <=> Running(g)
    BY DEF Running
  <2>3. CASE g = f
    BY <1>2, <1>3, <2>1, <2>2, <2>3
  <2>4. CASE g # f
    <3>1. /\ recovery_task_scheduled'[g] = recovery_task_scheduled[g] /\ tasks'[g] = tasks[g]
          /\ stage'[g] = stage[g] /\ (open(g)' => open(g))
      BY <1>2, <1>3, <2>4
    <3> QED
      BY <2>1, <2>2, <3>1
  <2> QED
    BY <2>3, <2>4
<1> QED
  BY <1>2, <1>3, <1>4 DEF OneTask

\* A paint or an update reaches an open feed.
LEMMA Updated ==
  ASSUME HubInv, NEW f \in Feeds, open(f), NEW p \in BOOLEAN, on_update(f, p),
         UNCHANGED <<gate, consumers, left>>
  PROVE  /\ stage' \in [Feeds -> Stages] /\ restart_requested' \in [Feeds -> BOOLEAN]
         /\ recovery_task_scheduled' \in [Feeds -> BOOLEAN] /\ tasks' \in [Feeds -> 0 .. 1]
         /\ lifecycle' \in [Feeds -> {"none", "pending", "active", "failed", "closed"}]
         /\ active' \in [Feeds -> SUBSET Consumers] /\ cleanup_pending' \in BOOLEAN
         /\ born' = born /\ Alive' = Alive /\ \A g \in Feeds : open(g)' <=> open(g)
         /\ \A g \in Feeds : lifecycle'[g] = "closed" => lifecycle[g] = "closed"
         /\ Fed' /\ Cleaned' /\ OneTask'
         /\ \A g \in Feeds : g # f => /\ stage'[g] = stage[g] /\ active'[g] = active[g]
                                      /\ recovery_task_scheduled'[g] = recovery_task_scheduled[g]
         /\ stage'[f] = stage[f] \/ (Painted(f, p) /\ ~Waiting(f)')
         /\ Painted(f, p) => ~Waiting(f)'
<1> DEFINE again == Painted(f, p) /\ RestartReady(f)
           recovered == Painted(f, p) /\ ~RestartReady(f)
           schedule == again /\ ~recovery_task_scheduled[f]
           gone == {c \in consumers[f] : c \notin active[f] \/ c \in closed}
<1>0. TypeOK /\ Fed /\ Cleaned /\ OneTask /\ GateHeld
  BY DEF HubInv
<1>1. /\ stage' \in [Feeds -> Stages] /\ restart_requested' \in [Feeds -> BOOLEAN]
      /\ \A g \in Feeds : g # f => stage'[g] = stage[g]
      /\ again => stage'[f] = "QueuedRestart"
      /\ recovered => stage'[f] = "none"
      /\ ~again /\ ~recovered => stage'[f] = stage[f]
  <2>1. CASE recovered
    <3>1. /\ stage' = [stage EXCEPT ![f] = "none"] /\ ~again
          /\ restart_requested' = [restart_requested EXCEPT ![f] = FALSE]
      BY <2>1 DEF on_update, Recovered
    <3> HIDE DEF again, recovered
    <3>2. "none" \in Stages
      BY DEF Stages
    <3> QED
      BY <1>0, <2>1, <3>1, <3>2 DEF TypeOK
  <2>2. CASE ~recovered
    <3>1. /\ stage' = [stage EXCEPT ![f] = IF again THEN "QueuedRestart" ELSE stage[f]]
          /\ restart_requested' = restart_requested
      BY <2>2 DEF on_update
    <3> HIDE DEF again, recovered
    <3>2. "QueuedRestart" \in Stages /\ stage[f] \in Stages
      BY <1>0 DEF TypeOK, Stages
    <3> QED
      BY <1>0, <2>2, <3>1, <3>2 DEF TypeOK
  <2> QED
    BY <2>1, <2>2
<1>2. /\ lifecycle'[f] = IF recovered \/ stage[f] = "none" THEN "active" ELSE lifecycle[f]
      /\ lifecycle' \in [Feeds -> {"none", "pending", "active", "failed", "closed"}]
      /\ \A g \in Feeds : g # f => lifecycle'[g] = lifecycle[g]
  BY <1>0 DEF on_update, TypeOK
<1>3. /\ \A g \in Feeds : open(g)' <=> open(g)
      /\ \A g \in Feeds : lifecycle'[g] = "closed" => lifecycle[g] = "closed"
      /\ \A g \in Feeds : g \in Alive' <=> g \in Alive
      /\ \A g \in Feeds : g \in born' <=> g \in born
  <2>1. /\ lifecycle[f] \in {"pending", "active"} /\ lifecycle'[f] \in {"pending", "active"}
        /\ \A g \in Feeds : g # f => lifecycle'[g] = lifecycle[g]
    BY <1>2 DEF open
  <2> QED
    BY <2>1 DEF open, Alive, born
<1>4. born' = born /\ Alive' = Alive
  BY <1>3 DEF born, Alive
<1>5. /\ OneTask' /\ tasks' \in [Feeds -> 0 .. 1]
      /\ recovery_task_scheduled' \in [Feeds -> BOOLEAN]
      /\ \A g \in Feeds : g # f => recovery_task_scheduled'[g] = recovery_task_scheduled[g]
  <2>1. stage'[f] \in {"QueuedInitial", "QueuedRestart"} => recovery_task_scheduled[f] \/ schedule
    <3>1. stage[f] \in {"QueuedInitial", "QueuedRestart"} => recovery_task_scheduled[f]
      BY <1>0 DEF OneTask
    <3> QED
      BY <1>1, <3>1
  <2>2. /\ schedule_recovery(f, schedule)
        /\ recovery_task_scheduled' = [recovery_task_scheduled EXCEPT ![f] = @ \/ schedule]
    BY DEF on_update
  <2>3. schedule => ~recovery_task_scheduled[f]
    OBVIOUS
  <2> HIDE DEF schedule
  <2> QED
    BY <1>1, <1>3, <2>1, <2>2, <2>3, TaskSpawned
<1>6. PICK full \in SUBSET (DeltaConsumers \cap (active[f] \ closed)) :
        /\ active' = [active EXCEPT ![f] = @ \ (gone \cup full)]
        /\ closed' = closed \cup full
        /\ cleanup_pending' = (cleanup_pending \/ gone \cup full # {})
  BY DEF on_update
<1>7. /\ active' \in [Feeds -> SUBSET Consumers] /\ active'[f] = active[f] \ (gone \cup full)
      /\ \A g \in Feeds : g # f => active'[g] = active[g]
      /\ cleanup_pending' \in BOOLEAN /\ (cleanup_pending => cleanup_pending')
      /\ gone \cup full # {} => cleanup_pending'
  <2> HIDE DEF gone
  <2>1. /\ cleanup_pending' \in BOOLEAN /\ (cleanup_pending => cleanup_pending')
        /\ gone \cup full # {} => cleanup_pending'
    BY <1>6
  <2>2. active[f] \ (gone \cup full) \in SUBSET Consumers
    BY <1>0 DEF TypeOK
  <2> QED
    BY <1>0, <1>6, <2>1, <2>2 DEF TypeOK
<1> HIDE DEF gone
<1>8. Fed'
  <2>1. \A g \in Feeds : active'[g] \subseteq active[g]
    BY <1>7
  <2> QED
    BY <1>0, <1>3, <2>1, FedKept
<1>9. Cleaned'
  <2>1. \A c \in Consumers : c \in closed' /\ c \notin closed => cleanup_pending'
    BY <1>6, <1>7
  <2>2. \A g \in Alive : \A c \in active[g] : c \notin active'[g] => cleanup_pending'
    BY <1>7 DEF Alive
  <2> QED
    BY <1>0, <1>4, <1>7, <2>1, <2>2, CleanedKept DEF Held
<1>10. /\ stage'[f] = stage[f] \/ (Painted(f, p) /\ ~Waiting(f)')
       /\ Painted(f, p) => ~Waiting(f)'
  BY <1>1 DEF Waiting
<1> QED
  BY <1>1, <1>2, <1>3, <1>4, <1>5, <1>7, <1>8, <1>9, <1>10

\* An update of an open feed.
LEMMA UpdateStep ==
  ASSUME HubInv, NEW f \in Feeds, Update(f)
  PROVE  HubInv'
<1>0. /\ TypeOK /\ Answering /\ open(f) /\ on_update(f, FALSE)
      /\ UNCHANGED <<registry, topic, upstream_key, session, consumers, gate, subs,
                     pending_cancel, ended, own_session, left, wire>>
  BY DEF HubInv, Update, feedvars, worker, people
<1>1. /\ stage' \in [Feeds -> Stages] /\ restart_requested' \in [Feeds -> BOOLEAN]
      /\ recovery_task_scheduled' \in [Feeds -> BOOLEAN] /\ tasks' \in [Feeds -> 0 .. 1]
      /\ lifecycle' \in [Feeds -> {"none", "pending", "active", "failed", "closed"}]
      /\ active' \in [Feeds -> SUBSET Consumers] /\ cleanup_pending' \in BOOLEAN
      /\ born' = born /\ Alive' = Alive /\ \A g \in Feeds : open(g)' <=> open(g)
      /\ \A g \in Feeds : lifecycle'[g] = "closed" => lifecycle[g] = "closed"
      /\ Fed' /\ Cleaned' /\ OneTask'
      /\ \A g \in Feeds : g # f => /\ stage'[g] = stage[g] /\ active'[g] = active[g]
                                   /\ recovery_task_scheduled'[g] = recovery_task_scheduled[g]
      /\ stage'[f] = stage[f] \/ ~Waiting(f)'
  BY <1>0, Updated
<1>2. f \in born
  BY <1>0, Lives
<1>3. TypeOK'
  BY <1>0, <1>1 DEF TypeOK
<1>4. Slab'
  BY <1>0, <1>1, SlabStill DEF Held
<1>5. Answering'
  <2>1. \A g \in Feeds : (Subscribed(g)' <=> Subscribed(g)) /\ (Sending(g) => Sending(g)')
    BY <1>0 DEF Subscribed, Sending, Held
  <2>2. \A g \in Feeds : stage'[g] = stage[g] \/ ~Waiting(g)'
    BY <1>1
  <2> QED
    BY <1>0, <1>1, <2>1, <2>2, AnsweringKept
<1> QED
  BY <1>0, <1>1, <1>2, <1>3, <1>4, <1>5, SdkStep DEF feedvars

\* The first message in flight is delivered.
LEMMA TailAnswers ==
  ASSUME NEW w \in Seq(Messages), Paired(w), w # <<>>
  PROVE  /\ Tail(w) \in Seq(Messages) /\ Paired(Tail(w)) /\ Head(w) \in Messages
         /\ Head(w) = "SubscriptionStarted" => \E i \in DOMAIN Tail(w) : Tail(w)[i] = "INITPAINT"
         /\ \A m \in Messages : m # Head(w) /\ (\E i \in DOMAIN w : w[i] = m) =>
              \E i \in DOMAIN Tail(w) : Tail(w)[i] = m
<1> DEFINE v == Tail(w)
<1>1. /\ v \in Seq(Messages) /\ Len(w) \in Nat /\ Len(w) >= 1 /\ Len(v) = Len(w) - 1
      /\ DOMAIN w = 1 .. Len(w) /\ DOMAIN v = 1 .. Len(v) /\ Head(w) = w[1] /\ w[1] \in Messages
      /\ \A i \in 1 .. Len(v) : v[i] = w[i + 1]
  <2>1. Len(w) \in Nat /\ DOMAIN w = 1 .. Len(w) /\ Head(w) = w[1]
    BY SMTT(60)
  <2>2. Len(w) >= 1
    BY SMTT(60)
  <2>3. v \in Seq(Messages) /\ Len(v) = Len(w) - 1
    BY SMTT(60)
  <2>4. DOMAIN v = 1 .. Len(v)
    BY <2>3, SMTT(60)
  <2>5. \A i \in 1 .. Len(v) : v[i] = w[i + 1]
    BY <2>2, <2>3, SMTT(60)
  <2>6. w[1] \in Messages
    BY <2>1, <2>2, SMTT(60)
  <2> QED
    BY <2>1, <2>2, <2>3, <2>4, <2>5, <2>6
<1> HIDE DEF v
<1>2. ASSUME NEW i \in DOMAIN v, v[i] = "SubscriptionStarted"
      PROVE  i < Len(v) /\ v[i + 1] = "INITPAINT"
  <2>1. i + 1 \in DOMAIN w /\ i \in 1 .. Len(v) /\ i \in Nat
    BY <1>1, SMTT(60)
  <2>2. i + 1 < Len(w) /\ w[i + 1 + 1] = "INITPAINT"
    BY <1>1, <1>2, <2>1 DEF Paired
  <2>3. i < Len(v) /\ i + 1 \in 1 .. Len(v)
    BY <1>1, <2>1, <2>2, SMTT(60)
  <2> QED
    BY <1>1, <2>2, <2>3
<1>3. ASSUME Head(w) = "SubscriptionStarted"
      PROVE  \E i \in DOMAIN v : v[i] = "INITPAINT"
  <2>1. 1 \in DOMAIN v /\ v[1] = "INITPAINT"
    BY <1>1, <1>3, SMTT(60) DEF Paired
  <2> QED
    BY <2>1
<1>4. ASSUME NEW m \in Messages, m # Head(w), NEW i \in DOMAIN w, w[i] = m
      PROVE  \E j \in DOMAIN v : v[j] = m
  <2>1. i - 1 \in DOMAIN v /\ v[i - 1] = m
    BY <1>1, <1>4, SMTT(60)
  <2> QED
    BY <2>1
<1> QED
  BY <1>1, <1>2, <1>3, <1>4 DEF Paired, v

LEMMA AnswerDelivered ==
  ASSUME TypeOK, Answering, NEW f \in Feeds, wire[f] # <<>>, Subscribed(f),
         wire' = [wire EXCEPT ![f] = Tail(@)], UNCHANGED <<subs, pending_cancel, gate>>,
         \A g \in Feeds : open(g)' <=> open(g),
         \A g \in Feeds : g # f => stage'[g] = stage[g],
         \/ ~open(f)' \/ ~Waiting(f)'
         \/ Head(wire[f]) = "SubscriptionStarted" /\ stage'[f] # "WaitingRestartStart"
         \/ Head(wire[f]) = "INITPAINT" /\ stage'[f] = stage[f] /\ stage[f] = "WaitingRestartStart"
  PROVE  Answering' /\ wire' \in [Feeds -> Seq(Messages)]
<1>1. wire \in [Feeds -> Seq(Messages)] /\ Paired(wire[f])
  BY DEF TypeOK, Messages, Answering, Paired
<1>2. /\ Tail(wire[f]) \in Seq(Messages) /\ Paired(Tail(wire[f]))
      /\ Head(wire[f]) = "SubscriptionStarted" =>
           \E i \in DOMAIN Tail(wire[f]) : Tail(wire[f])[i] = "INITPAINT"
      /\ \A m \in Messages : m # Head(wire[f]) /\ (\E i \in DOMAIN wire[f] : wire[f][i] = m) =>
           \E i \in DOMAIN Tail(wire[f]) : Tail(wire[f])[i] = m
  BY <1>1, TailAnswers
<1>3. /\ wire' \in [Feeds -> Seq(Messages)] /\ wire'[f] = Tail(wire[f])
      /\ \A g \in Feeds : g # f => wire'[g] = wire[g]
  BY <1>1, <1>2
<1>4. ASSUME NEW g \in Feeds
      PROVE  /\ Paired(wire'[g])
             /\ open(g)' /\ Subscribed(g)' /\ ~Sending(g)' =>
                  /\ stage'[g] \in {"WaitingInitialPaint", "WaitingRestartPaint"} =>
                       InFlight(g, "INITPAINT")'
                  /\ stage'[g] = "WaitingRestartStart" => InFlight(g, "SubscriptionStarted")'
  <2>1. /\ Paired(wire[g])
        /\ open(g) /\ Subscribed(g) /\ ~Sending(g) =>
             /\ stage[g] \in {"WaitingInitialPaint", "WaitingRestartPaint"} =>
                  InFlight(g, "INITPAINT")
             /\ stage[g] = "WaitingRestartStart" => InFlight(g, "SubscriptionStarted")
    BY DEF Answering, Paired, Sending
  <2>2. (Subscribed(g)' <=> Subscribed(g)) /\ (Sending(g)' <=> Sending(g))
    BY DEF Subscribed, Sending, Held
  <2>3. CASE g # f
    <3>1. \A m : InFlight(g, m) => InFlight(g, m)'
      BY <1>3, <2>3 DEF InFlight
    <3> QED
      BY <1>3, <2>1, <2>2, <2>3, <3>1
  <2>4. CASE g = f
    <3>1. Paired(wire'[g])
      BY <1>2, <1>3, <2>4
    <3>2. CASE ~open(g)' \/ ~Waiting(g)'
      BY <3>1, <3>2 DEF Waiting
    <3>3. CASE Head(wire[f]) = "SubscriptionStarted" /\ stage'[f] # "WaitingRestartStart"
      <4>1. InFlight(g, "INITPAINT")'
        BY <1>2, <1>3, <2>4, <3>3 DEF InFlight
      <4> QED
        BY <2>4, <3>1, <3>3, <4>1
    <3>4. CASE /\ Head(wire[f]) = "INITPAINT" /\ stage'[f] = stage[f]
               /\ stage[f] = "WaitingRestartStart"
      <4>1. InFlight(g, "SubscriptionStarted") => InFlight(g, "SubscriptionStarted")'
        BY <1>2, <1>3, <2>4, <3>4 DEF InFlight, Messages
      <4> QED
        BY <2>1, <2>2, <2>4, <3>1, <3>4, <4>1
    <3> QED
      BY <2>4, <3>2, <3>3, <3>4
  <2> QED
    BY <2>3, <2>4
<1> QED
  BY <1>3, <1>4 DEF Answering, Paired, Sending

LEMMA DeliverStep ==
  ASSUME HubInv, NEW f \in Feeds, Deliver(f)
  PROVE  HubInv'
<1>0. /\ TypeOK /\ Answering /\ Fed /\ Cleaned /\ OneTask /\ GateHeld
      /\ wire[f] # <<>> /\ Subscribed(f) /\ wire' = [wire EXCEPT ![f] = Tail(@)]
      /\ UNCHANGED <<registry, topic, upstream_key, session, consumers, gate, subs,
                     pending_cancel, ended, own_session, left>>
  BY DEF HubInv, Deliver, feedvars, worker, people
<1>1. f \in born
  <2>1. PICK k \in Keys : subs[k] = f
    BY <1>0 DEF Subscribed
  <2>2. subs[k] # 0
    BY <2>1, HubConstants
  <2> QED
    BY <2>1, <2>2, KeyInUse
<1>2. CASE Head(wire[f]) = "INITPAINT" /\ open(f) /\ on_update(f, TRUE)
  <2>1. /\ stage' \in [Feeds -> Stages] /\ restart_requested' \in [Feeds -> BOOLEAN]
        /\ recovery_task_scheduled' \in [Feeds -> BOOLEAN] /\ tasks' \in [Feeds -> 0 .. 1]
        /\ lifecycle' \in [Feeds -> {"none", "pending", "active", "failed", "closed"}]
        /\ active' \in [Feeds -> SUBSET Consumers] /\ cleanup_pending' \in BOOLEAN
        /\ born' = born /\ Alive' = Alive /\ \A g \in Feeds : open(g)' <=> open(g)
        /\ \A g \in Feeds : lifecycle'[g] = "closed" => lifecycle[g] = "closed"
        /\ Fed' /\ Cleaned' /\ OneTask'
        /\ \A g \in Feeds : g # f => /\ stage'[g] = stage[g] /\ active'[g] = active[g]
                                     /\ recovery_task_scheduled'[g] = recovery_task_scheduled[g]
        /\ stage'[f] = stage[f] \/ ~Waiting(f)'
        /\ Painted(f, TRUE) => ~Waiting(f)'
    BY <1>0, <1>2, Updated
  <2>2. ~Waiting(f)' \/ (stage'[f] = stage[f] /\ stage[f] = "WaitingRestartStart")
    BY <2>1 DEF Waiting, Painted
  <2>3. Answering' /\ wire' \in [Feeds -> Seq(Messages)]
    BY <1>0, <1>2, <2>1, <2>2, AnswerDelivered
  <2>4. TypeOK'
    BY <1>0, <2>1, <2>3 DEF TypeOK, Messages
  <2>5. Slab'
    BY <1>0, <2>1, SlabStill DEF Held
  <2> QED
    BY <1>0, <1>1, <2>1, <2>3, <2>4, <2>5, SdkStep DEF feedvars
<1>3. CASE /\ \/ Head(wire[f]) = "SubscriptionStarted" /\ collect_started(f)
              \/ Head(wire[f]) = "INITPAINT" /\ ~open(f) /\ UNCHANGED stage
           /\ UNCHANGED <<restart_requested, recovery_task_scheduled, tasks, lifecycle, active,
                          closed, cleanup_pending>>
  <2>1. born' = born /\ Alive' = Alive /\ \A g \in Feeds : open(g)' <=> open(g)
    BY <1>3 DEF born, Alive, open
  <2>2. /\ stage' \in [Feeds -> Stages] /\ \A g \in Feeds : g # f => stage'[g] = stage[g]
        /\ stage'[f] = stage[f] \/ stage'[f] = "WaitingRestartPaint"
        /\ open(f) => Head(wire[f]) = "SubscriptionStarted" /\ stage'[f] # "WaitingRestartStart"
    <3>1. CASE Head(wire[f]) = "SubscriptionStarted" /\ collect_started(f)
      BY <1>0, <3>1 DEF collect_started, TypeOK, Stages
    <3>2. CASE ~open(f) /\ UNCHANGED stage
      BY <1>0, <3>2 DEF TypeOK
    <3> QED
      BY <1>3, <3>1, <3>2
  <2>3. Answering' /\ wire' \in [Feeds -> Seq(Messages)]
    BY <1>0, <2>1, <2>2, AnswerDelivered
  <2>4. TypeOK'
    BY <1>0, <1>3, <2>2, <2>3 DEF TypeOK, Messages
  <2>5. Slab'
    BY <1>0, <1>3, <2>1, SlabStill DEF Held
  <2>6. Fed'
    BY <1>0, <1>3, <2>1 DEF Fed
  <2>7. Cleaned'
    BY <1>0, <1>3, CleanedStill DEF Held
  <2>8. OneTask'
    <3>1. ASSUME NEW g \in Feeds
          PROVE  /\ recovery_task_scheduled'[g] <=> tasks'[g] = 1 \/ Running(g)'
                 /\ tasks'[g] = 1 => ~Running(g)'
                 /\ open(g)' /\ stage'[g] \in {"QueuedInitial", "QueuedRestart"} =>
                      recovery_task_scheduled'[g]
      <4>1. stage'[g] \in {"QueuedInitial", "QueuedRestart"} => stage'[g] = stage[g]
        BY <2>2
      <4>2. Running(g)' <=> Running(g)
        BY <1>0 DEF Running
      <4> QED
        BY <1>0, <1>3, <2>1, <4>1, <4>2 DEF OneTask
    <3> QED
      BY <3>1 DEF OneTask
  <2> QED
    BY <1>0, <1>1, <1>3, <2>1, <2>2, <2>3, <2>4, <2>5, <2>6, <2>7, <2>8, SdkStep DEF feedvars
<1> QED
  BY <1>2, <1>3 DEF Deliver, recovery

\* Data is lost: the consumers that can be repainted stay, and a recovery is queued.
LEMMA on_data_lossStep ==
  ASSUME HubInv, NEW f \in Feeds, on_data_loss(f)
  PROVE  HubInv'
<1> DEFINE live == active[f] \ closed
           kept == live \cap ImageConsumers
           queued == IF kept # {} /\ stage[f] = "none" THEN "QueuedInitial" ELSE stage[f]
           schedule == /\ kept # {} /\ ~recovery_task_scheduled[f]
                       /\ queued \in {"QueuedInitial", "QueuedRestart"}
<1>0. /\ TypeOK /\ Answering /\ Fed /\ Cleaned /\ OneTask /\ GateHeld /\ open(f)
      /\ UNCHANGED <<registry, topic, upstream_key, session, consumers, gate, subs,
                     pending_cancel, ended, own_session, left, wire>>
  BY DEF HubInv, on_data_loss, feedvars, worker, people
<1>1. /\ active' = [active EXCEPT ![f] = kept]
      /\ lifecycle' = [lifecycle EXCEPT ![f] = IF kept # {} THEN "pending" ELSE "failed"]
      /\ stage' = [stage EXCEPT ![f] = queued]
      /\ restart_requested' = [restart_requested EXCEPT ![f] =
           @ \/ (kept # {} /\ stage[f] \in {"QueuedInitial", "WaitingInitialPaint"})]
      /\ recovery_task_scheduled' = [recovery_task_scheduled EXCEPT ![f] = @ \/ schedule]
      /\ schedule_recovery(f, schedule) /\ cleanup_pending' = TRUE
  BY DEF on_data_loss, schedule_cleanup
<1>2. schedule => ~recovery_task_scheduled[f]
  OBVIOUS
<1>3. /\ kept # {} /\ queued \in {"QueuedInitial", "QueuedRestart"} =>
           recovery_task_scheduled[f] \/ schedule
      /\ queued \in Stages /\ (queued = stage[f] \/ queued = "QueuedInitial")
  <2>1. stage[f] \in Stages /\ "QueuedInitial" \in Stages
    BY <1>0 DEF TypeOK, Stages
  <2> QED
    BY <2>1
<1>4. kept \subseteq active[f]
  OBVIOUS
<1> HIDE DEF live, kept, queued, schedule
<1>5. /\ active' \in [Feeds -> SUBSET Consumers] /\ active'[f] = kept
      /\ \A g \in Feeds : g # f => active'[g] = active[g]
  <2>1. kept \in SUBSET Consumers
    BY <1>0, <1>4 DEF TypeOK
  <2> QED
    BY <1>0, <1>1, <2>1 DEF TypeOK
<1>6. /\ lifecycle' \in [Feeds -> {"none", "pending", "active", "failed", "closed"}]
      /\ lifecycle'[f] = IF kept # {} THEN "pending" ELSE "failed"
      /\ \A g \in Feeds : g # f => lifecycle'[g] = lifecycle[g]
  BY <1>0, <1>1 DEF TypeOK
<1>7. /\ stage' \in [Feeds -> Stages] /\ stage'[f] = queued
      /\ \A g \in Feeds : g # f => stage'[g] = stage[g]
  BY <1>0, <1>1, <1>3 DEF TypeOK
<1>8. restart_requested' \in [Feeds -> BOOLEAN]
  <2>1. (restart_requested[f] \/ (kept # {} /\ stage[f] \in {"QueuedInitial", "WaitingInitialPaint"}))
          \in BOOLEAN
    OBVIOUS
  <2> QED
    BY <1>0, <1>1, <2>1 DEF TypeOK
<1>9. /\ open(f)' => kept # {}
      /\ \A g \in Feeds : open(g)' => open(g)
      /\ \A g \in Feeds : g # f => (open(g)' <=> open(g))
      /\ \A g \in Feeds : lifecycle'[g] = "closed" => lifecycle[g] = "closed"
      /\ \A g \in Feeds : g \in Alive' <=> g \in Alive
      /\ \A g \in Feeds : g \in born' <=> g \in born
  <2>1. /\ lifecycle[f] \in {"pending", "active"} /\ lifecycle'[f] \in {"pending", "failed"}
        /\ lifecycle'[f] = "pending" => kept # {}
    BY <1>0, <1>6 DEF open
  <2> QED
    BY <1>6, <2>1 DEF open, Alive, born
<1>10. born' = born /\ Alive' = Alive /\ f \in born
  BY <1>0, <1>9, Lives DEF born, Alive
<1>11. /\ OneTask' /\ tasks' \in [Feeds -> 0 .. 1]
       /\ recovery_task_scheduled' \in [Feeds -> BOOLEAN]
       /\ \A g \in Feeds : g # f => recovery_task_scheduled'[g] = recovery_task_scheduled[g]
  <2>1. open(f)' /\ stage'[f] \in {"QueuedInitial", "QueuedRestart"} =>
          recovery_task_scheduled[f] \/ schedule
    BY <1>3, <1>7, <1>9
  <2> QED
    BY <1>0, <1>1, <1>2, <1>7, <1>9, <2>1, TaskSpawned
<1>12. TypeOK'
  BY <1>0, <1>1, <1>5, <1>6, <1>7, <1>8, <1>11 DEF TypeOK
<1>13. Fed'
  <2>1. ASSUME NEW g \in Feeds, active'[g] # {}
        PROVE  active'[g] \subseteq active[g] /\ (open(g) => open(g)')
    <3>1. CASE g = f
      BY <1>4, <1>5, <1>6, <2>1, <3>1 DEF open
    <3>2. CASE g # f
      BY <1>5, <1>9, <3>2
    <3> QED
      BY <3>1, <3>2
  <2> QED
    BY <1>0, <2>1, FedKept
<1>14. Slab'
  BY <1>0, <1>9, <1>10, SlabStill DEF Held
<1>15. Cleaned'
  BY <1>1 DEF Cleaned
<1>16. Answering'
  <2>1. \A g \in Feeds : (Subscribed(g)' <=> Subscribed(g)) /\ (Sending(g) => Sending(g)')
    BY <1>0 DEF Subscribed, Sending, Held
  <2>2. \A g \in Feeds : stage'[g] = stage[g] \/ ~Waiting(g)'
    BY <1>3, <1>7 DEF Waiting
  <2> QED
    BY <1>0, <1>9, <2>1, <2>2, AnsweringKept
<1> QED
  BY <1>0, <1>5, <1>7, <1>10, <1>11, <1>12, <1>13, <1>14, <1>15, <1>16, SdkStep DEF feedvars

-----------------------------------------------------------------------------
(* Feeds are retired. *)

\* What build_unsubscribe_list does: the subscriptions at the keys are being
\* cancelled, and what was in flight to them is dropped.
LEMMA Unsubscribes ==
  ASSUME HubInv, NEW ks, unsubscribe_now(ks), UNCHANGED subs
  PROVE  /\ pending_cancel' \subseteq Keys /\ pending_cancel \subseteq pending_cancel'
         /\ \A k \in pending_cancel' : subs'[k] # 0
         /\ \A k \in ks \cap Keys : subs[k] # 0 => k \in pending_cancel'
         /\ wire' \in [Feeds -> Seq(Messages)]
         /\ \A g \in Feeds : Subscribed(g)' => Subscribed(g)
         /\ \A g \in Feeds : wire'[g] = wire[g] \/ (wire'[g] = <<>> /\ ~Subscribed(g)')
<1> DEFINE cut == {k \in ks \cap Keys : subs[k] # 0}
<1>0. TypeOK
  BY DEF HubInv
<1>1. /\ pending_cancel' = pending_cancel \cup cut
      /\ wire' = [f \in Feeds |-> IF f \in {subs[k] : k \in cut} THEN <<>> ELSE wire[f]]
  BY DEF unsubscribe_now
<1>3. /\ \A k \in cut : k \in Keys /\ subs[k] # 0
      /\ \A k \in ks \cap Keys : subs[k] # 0 => k \in cut
  OBVIOUS
<1> HIDE DEF cut
<1>6. pending_cancel' \subseteq Keys /\ \A k \in pending_cancel' : subs'[k] # 0
  <2>1. \A k \in pending_cancel : k \in Keys /\ subs[k] # 0
    BY <1>0 DEF TypeOK, HubInv, Slab
  <2> QED
    BY <1>1, <1>3, <2>1
<1>7. /\ wire' \in [Feeds -> Seq(Messages)]
      /\ \A f \in Feeds : wire'[f] = wire[f] \/ (wire'[f] = <<>> /\ \E k \in cut : subs[k] = f)
  <2>1. <<>> \in Seq(Messages) /\ wire \in [Feeds -> Seq(Messages)]
    BY <1>0, SMTT(60) DEF TypeOK, Messages
  <2> QED
    BY <1>1, <2>1
<1>8. \A g \in Feeds : Subscribed(g)' => Subscribed(g)
  BY <1>1 DEF Subscribed
<1>9. ASSUME NEW g \in Feeds, NEW k \in cut, subs[k] = g, Subscribed(g)'
      PROVE  FALSE
  <2>1. PICK j \in Keys \ pending_cancel' : subs[j] = g
    BY <1>9 DEF Subscribed
  <2>2. j = k
    BY <1>3, <1>9, <2>1, OneKey
  <2> QED
    BY <1>1, <2>1, <2>2
<1> QED
  BY <1>1, <1>3, <1>6, <1>7, <1>8, <1>9

\* What retire does: the feeds leave the registry and the slab is told to
\* cancel what is left of them.
LEMMA Retires ==
  ASSUME HubInv, NEW F \in SUBSET Feeds, retire(F), ~Held("store"),
         UNCHANGED <<topic, upstream_key, session, subs, ended>>
  PROVE  /\ registry' \in [Topics -> Feeds \cup {0}] /\ pending_cancel' \subseteq Keys
         /\ lifecycle' \in [Feeds -> {"none", "pending", "active", "failed", "closed"}]
         /\ wire' \in [Feeds -> Seq(Messages)]
         /\ born' = born /\ Alive' = Alive \ F
         /\ \A g \in Feeds : g \notin F => lifecycle'[g] = lifecycle[g]
         /\ \A g \in Feeds : open(g)' => open(g)
         /\ RegistryExact' /\ Slab'
         /\ \A g \in Feeds : Subscribed(g)' => Subscribed(g)
         /\ \A g \in Feeds : wire'[g] = wire[g] \/ (wire'[g] = <<>> /\ ~Subscribed(g)')
<1> DEFINE gone == F \cap Alive
<1>0. TypeOK /\ RegistryExact /\ registered = Alive
  BY RegisteredAlive DEF HubInv
<1>1. /\ registry' = [t \in Topics |-> IF registry[t] \in gone THEN 0 ELSE registry[t]]
      /\ lifecycle' = [f \in Feeds |-> IF f \in gone THEN "closed" ELSE lifecycle[f]]
      /\ unsubscribe_now({upstream_key[f] : f \in gone})
  BY <1>0 DEF retire
<1>2. /\ \A f \in gone : f \in Feeds /\ f \in Alive /\ f \in F
      /\ \A f \in Feeds : f \in F /\ f \in Alive => f \in gone
  BY DEF Alive
<1> HIDE DEF gone
<1>3. /\ pending_cancel' \subseteq Keys /\ pending_cancel \subseteq pending_cancel'
      /\ \A k \in pending_cancel' : subs'[k] # 0
      /\ \A k \in {upstream_key[f] : f \in gone} \cap Keys : subs[k] # 0 => k \in pending_cancel'
      /\ wire' \in [Feeds -> Seq(Messages)]
      /\ \A g \in Feeds : Subscribed(g)' => Subscribed(g)
      /\ \A g \in Feeds : wire'[g] = wire[g] \/ (wire'[g] = <<>> /\ ~Subscribed(g)')
  BY <1>1, Unsubscribes
<1>4. /\ registry' \in [Topics -> Feeds \cup {0}]
      /\ \A t \in Topics : registry'[t] = IF registry[t] \in gone THEN 0 ELSE registry[t]
  BY <1>0, <1>1 DEF TypeOK
<1>5. /\ lifecycle' \in [Feeds -> {"none", "pending", "active", "failed", "closed"}]
      /\ \A f \in Feeds : lifecycle'[f] = IF f \in gone THEN "closed" ELSE lifecycle[f]
  BY <1>0, <1>1 DEF TypeOK
<1>8. /\ \A f \in Feeds : f \in born' <=> f \in born
      /\ \A f \in Feeds : f \in Alive' <=> f \in Alive /\ f \notin F
      /\ \A f \in Feeds : open(f)' => open(f)
      /\ \A f \in Feeds : f \notin F => lifecycle'[f] = lifecycle[f]
  <2>1. ASSUME NEW f \in Feeds
        PROVE  /\ f \in born' <=> f \in born
               /\ f \in Alive' <=> f \in Alive /\ f \notin F
               /\ open(f)' => open(f)
               /\ f \notin F => lifecycle'[f] = lifecycle[f]
    <3>1. CASE f \in gone
      <4>1. lifecycle'[f] = "closed" /\ f \in Alive /\ f \in F
        BY <1>2, <1>5, <3>1
      <4> QED
        BY <4>1 DEF born, Alive, open
    <3>2. CASE f \notin gone
      <4>1. lifecycle'[f] = lifecycle[f] /\ ~(f \in F /\ f \in Alive)
        BY <1>2, <1>5, <3>2
      <4> QED
        BY <4>1 DEF born, Alive, open
    <3> QED
      BY <3>1, <3>2
  <2> QED
    BY <2>1
<1>9. born' = born /\ Alive' = Alive \ F
  BY <1>8 DEF born, Alive
<1>10. RegistryExact'
  <2>1. ASSUME NEW f \in Feeds
        PROVE  f \in Alive' <=> registry'[topic'[f]] = f
    <3>1. topic[f] \in Topics /\ topic'[f] = topic[f] /\ f # 0
      BY <1>0, HubConstants DEF TypeOK
    <3>2. registry'[topic[f]] = IF registry[topic[f]] \in gone THEN 0 ELSE registry[topic[f]]
      BY <1>4, <3>1
    <3>3. f \in Alive <=> registry[topic[f]] = f
      BY <1>0 DEF RegistryExact
    <3> QED
      BY <1>2, <1>8, <3>1, <3>2, <3>3
  <2>2. ASSUME NEW t \in Topics, registry'[t] # 0
        PROVE  topic'[registry'[t]] = t
    <3>1. registry'[t] = registry[t] /\ registry[t] # 0
      BY <1>4, <2>2
    <3> QED
      BY <1>0, <3>1 DEF RegistryExact
  <2> QED
    BY <2>1, <2>2 DEF RegistryExact
<1>11. Slab'
  <2>1. ASSUME NEW k \in Keys, subs'[k] # 0
        PROVE  /\ subs'[k] \in born' /\ session'[subs'[k]] = k[1] /\ k[1] \notin ended'
               /\ upstream_key'[subs'[k]] = k
               /\ lifecycle'[subs'[k]] = "closed" => k \in pending_cancel'
    <3>1. /\ subs[k] # 0 /\ subs[k] \in born /\ subs[k] \in Feeds /\ session[subs[k]] = k[1]
          /\ k[1] \notin ended /\ upstream_key[subs[k]] = k
          /\ lifecycle[subs[k]] = "closed" => k \in pending_cancel
      BY <2>1, KeyInUse
    <3>2. lifecycle'[subs[k]] = "closed" => k \in pending_cancel'
      <4>1. CASE subs[k] \in gone
        BY <1>3, <3>1, <4>1
      <4>2. CASE subs[k] \notin gone
        BY <1>3, <1>5, <3>1, <4>2
      <4> QED
        BY <4>1, <4>2
    <3> QED
      BY <1>9, <3>1, <3>2
  <2> QED
    BY <1>3, <2>1 DEF Slab
<1> QED
  BY <1>3, <1>4, <1>5, <1>8, <1>9, <1>10, <1>11

\* Feeds are retired by the holder of the gate, which leaves it free.
LEMMA RetireStep ==
  ASSUME HubInv, NEW F \in SUBSET Feeds, retire(F),
         gate.op \in {"free", "rollback"}, gate'.op = "free",
         UNCHANGED <<feedvars, recovery, subs, ended, own_session>>,
         consumers' \in [Feeds -> SUBSET Consumers], active' \in [Feeds -> SUBSET Consumers],
         cleanup_pending' \in BOOLEAN,
         \A f \in Feeds \ born : consumers'[f] = consumers[f] /\ active'[f] \subseteq active[f],
         GateHeld', Fed', Attached', Cleaned'
  PROVE  HubInv'
<1>0. /\ TypeOK /\ OneTask /\ Answering /\ Numbered /\ ~Held("store")
      /\ UNCHANGED <<topic, upstream_key, session, stage, restart_requested,
                     recovery_task_scheduled, tasks, subs, ended, own_session>>
  BY DEF HubInv, feedvars, recovery, Held
<1>1. /\ registry' \in [Topics -> Feeds \cup {0}] /\ pending_cancel' \subseteq Keys
      /\ lifecycle' \in [Feeds -> {"none", "pending", "active", "failed", "closed"}]
      /\ wire' \in [Feeds -> Seq(Messages)]
      /\ born' = born /\ \A g \in Feeds : open(g)' => open(g)
      /\ RegistryExact' /\ Slab'
      /\ \A g \in Feeds : Subscribed(g)' => Subscribed(g)
      /\ \A g \in Feeds : wire'[g] = wire[g] \/ (wire'[g] = <<>> /\ ~Subscribed(g)')
  BY <1>0, Retires
<1>2. TypeOK'
  BY <1>0, <1>1 DEF TypeOK, Messages
<1>3. Numbered'
  BY <1>0, <1>1, NumberedKept
<1>4. OneTask'
  BY <1>0, <1>1, TasksKept DEF Running
<1>5. Answering'
  <2>1. \A g \in Feeds : ~Sending(g) /\ stage'[g] = stage[g]
    BY <1>0 DEF Sending, Held
  <2> QED
    BY <1>0, <1>1, <2>1, AnsweringKept
<1> QED
  BY <1>1, <1>2, <1>3, <1>4, <1>5 DEF HubInv

\* A consumer is detached, from the feed its add was working on or from feeds
\* it is entered in; if its stream ends too, from all of them.
LEMMA DetachStep ==
  ASSUME HubInv, NEW c \in Consumers, NEW F \in SUBSET Feeds, detach(c, F),
         \/ gate.op = "free"
         \/ gate.op = "rollback" /\ F = {gate.f} /\ c = gate.c,
         gate'.op = "free", GateHeld',
         \/ closed' = closed
         \/ closed' = closed \cup {c} /\ \A f \in born : c \in consumers[f] => f \in F,
         UNCHANGED <<feedvars, recovery, cleanup_pending, subs, ended, own_session, left>>
  PROVE  HubInv'
<1> DEFINE hit == {f \in F \cap born : c \in consumers[f]}
           R == {f \in F \cap born : consumers[f] \subseteq {c}}
<1>0. /\ TypeOK /\ Fed /\ Attached /\ Cleaned /\ GateHeld
      /\ UNCHANGED <<topic, upstream_key, session, subs, ended, own_session, left>>
  BY DEF HubInv, feedvars
<1>1. /\ consumers' = [f \in Feeds |-> IF f \in hit THEN consumers[f] \ {c} ELSE consumers[f]]
      /\ active' = [f \in Feeds |-> IF f \in hit THEN active[f] \ {c} ELSE active[f]]
      /\ retire(R) /\ R \in SUBSET Feeds
  BY DEF detach
<1>2. \A f \in Feeds : /\ f \in hit <=> f \in F /\ f \in born /\ c \in consumers[f]
                       /\ f \in R <=> f \in F /\ f \in born /\ consumers[f] \subseteq {c}
  OBVIOUS
<1> HIDE DEF hit, R
<1>3. \A f \in Feeds : /\ consumers'[f] = IF f \in hit THEN consumers[f] \ {c} ELSE consumers[f]
                       /\ active'[f] = IF f \in hit THEN active[f] \ {c} ELSE active[f]
  BY <1>1
<1>4. consumers' \in [Feeds -> SUBSET Consumers] /\ active' \in [Feeds -> SUBSET Consumers]
  <2>1. \A f \in Feeds : consumers[f] \in SUBSET Consumers /\ active[f] \in SUBSET Consumers
    BY <1>0 DEF TypeOK
  <2> QED
    BY <1>1, <2>1
<1>5. /\ Alive' = Alive \ R /\ \A g \in Feeds : g \notin R => lifecycle'[g] = lifecycle[g]
  <2>1. ~Held("store")
    BY DEF Held
  <2> QED
    BY <1>0, <1>1, <2>1, Retires
<1>6. Fed'
  <2>1. ASSUME NEW g \in Feeds, active'[g] # {}
        PROVE  open(g)' /\ active'[g] \subseteq consumers'[g]
    <3>1. active[g] # {} /\ open(g) /\ active[g] \subseteq consumers[g]
      BY <1>0, <1>3, <2>1 DEF Fed
    <3>2. active'[g] \subseteq consumers'[g]
      BY <1>3, <3>1
    <3>3. g \notin R
      BY <1>2, <1>3, <2>1, <3>1
    <3> QED
      BY <1>5, <3>1, <3>2, <3>3 DEF open
  <2> QED
    BY <2>1 DEF Fed
<1>7. Attached'
  <2>1. ASSUME NEW g \in Alive'
        PROVE  consumers'[g] # {} /\ upstream_key'[g] # NoKey
    <3>1. g \in Alive /\ g \in Feeds /\ g \in born /\ g \notin R
      BY <1>5 DEF Alive, born
    <3>2. g \in F => \E e \in consumers[g] : e # c
      BY <1>2, <3>1
    <3>3. consumers[g] # {} /\ upstream_key[g] # NoKey
      <4>1. CASE gate.op = "rollback" /\ gate.f = g
        BY <1>0, <3>2, <4>1 DEF GateHeld
      <4>2. CASE ~(gate.op = "rollback" /\ gate.f = g)
        BY <1>0, <3>1, <4>2 DEF Attached
      <4> QED
        BY <4>1, <4>2
    <3>4. consumers'[g] # {}
      BY <1>2, <1>3, <3>1, <3>2, <3>3
    <3> QED
      BY <1>0, <3>3, <3>4
  <2> QED
    BY <2>1 DEF Attached
<1>8. Cleaned' /\ cleanup_pending' \in BOOLEAN
  <2>1. cleanup_pending' \in BOOLEAN /\ (cleanup_pending => cleanup_pending')
    <3>1. cleanup_pending \in BOOLEAN /\ cleanup_pending' = cleanup_pending
      BY <1>0 DEF TypeOK
    <3> QED
      BY <3>1, SMTT(60)
  <2>2. ASSUME NEW g \in Alive', NEW e \in consumers'[g], e \notin active'[g] \/ e \in closed',
               e \notin left'
        PROVE  cleanup_pending'
    <3>1. g \in Alive /\ g \in Feeds /\ g \in born
      BY <1>5, <2>2 DEF Alive, born
    <3>2. e \in consumers[g] /\ ~(e = c /\ g \in hit) /\ e \notin left
      BY <1>0, <1>3, <2>2, <3>1
    <3>3. e \notin active[g] \/ e \in closed
      <4>1. CASE e \in active[g]
        <5>1. e \in active'[g]
          BY <1>3, <3>1, <3>2, <4>1
        <5>2. e \in closed'
          BY <2>2, <5>1
        <5>3. CASE e = c /\ \A f \in born : c \in consumers[f] => f \in F
          <6>1. g \in F
            BY <3>1, <3>2, <5>3
          <6> QED
            BY <1>2, <3>1, <3>2, <5>3, <6>1
        <5>4. CASE e \in closed
          BY <5>4
        <5> QED
          BY <5>2, <5>3, <5>4
      <4> QED
        BY <4>1
    <3> QED
      BY <1>0, <2>1, <3>1, <3>2, <3>3 DEF Cleaned
  <2>3. ~Held("attach")'
    BY DEF Held
  <2> QED
    BY <2>1, <2>2, <2>3 DEF Cleaned
<1>9. \A f \in Feeds \ born : consumers'[f] = consumers[f] /\ active'[f] \subseteq active[f]
  BY <1>2, <1>3
<1> QED
  BY <1>1, <1>4, <1>6, <1>7, <1>8, <1>9, RetireStep

LEMMA AddRollbackStep == HubInv /\ AddRollback => HubInv'
<1> SUFFICES ASSUME HubInv, AddRollback
             PROVE  HubInv'
  OBVIOUS
<1>1. gate.op = "rollback" /\ gate.c \in Consumers /\ {gate.f} \in SUBSET Feeds
  BY DEF HubInv, AddRollback, Held, GateHeld, Alive
<1>2. gate'.op = "free" /\ GateHeld'
  BY GateFreed DEF AddRollback
<1> QED
  BY <1>1, <1>2, DetachStep DEF AddRollback, people

\* A topic is removed.
LEMMA removeStep ==
  ASSUME HubInv, NEW d \in Consumers, NEW t \in Topics, remove(d, t)
  PROVE  HubInv'
<1>1. gate.op = "free" /\ gate'.op = "free" /\ UNCHANGED gate
  BY DEF remove, Held
<1>2. {f \in born : topic[f] = t /\ d \in consumers[f]} \in SUBSET Feeds
  BY DEF born
<1>3. GateHeld'
  BY <1>1 DEF HubInv, GateHeld
<1> QED
  BY <1>1, <1>2, <1>3, DetachStep DEF remove, people

\* A stream ends, and all its topics with it.
LEMMA unsubscribeStep ==
  ASSUME HubInv, NEW d \in Consumers, unsubscribe(d)
  PROVE  HubInv'
<1>1. gate.op = "free" /\ gate'.op = "free" /\ UNCHANGED gate
  BY DEF unsubscribe, Held
<1>2. {f \in born : d \in consumers[f]} \in SUBSET Feeds
  BY DEF born
<1>3. GateHeld'
  BY <1>1 DEF HubInv, GateHeld
<1> QED
  BY <1>1, <1>2, <1>3, DetachStep DEF unsubscribe, people

\* Entries that ended go, and the feeds they leave empty are retired.
LEMMA cleanupStep == HubInv /\ cleanup => HubInv'
<1> SUFFICES ASSUME HubInv, cleanup
             PROVE  HubInv'
  OBVIOUS
<1> DEFINE kept(f) == IF lifecycle[f] = "failed" THEN {} ELSE active[f] \ closed
           R == {f \in Alive : kept(f) = {}}
<1>0. /\ TypeOK /\ Fed /\ Attached /\ GateHeld /\ registered = Alive
      /\ gate.op = "free" /\ UNCHANGED gate /\ gate'.op = "free" /\ cleanup_pending' = FALSE
      /\ UNCHANGED <<topic, upstream_key, session, subs, ended, own_session, left, closed>>
  BY RegisteredAlive DEF HubInv, cleanup, Held, feedvars, people
<1>1. /\ consumers' = [f \in Feeds |-> IF f \in Alive THEN kept(f) ELSE consumers[f]]
      /\ active' = [f \in Feeds |-> IF f \in Alive THEN kept(f) ELSE active[f]]
      /\ retire(R) /\ R \in SUBSET Feeds
  BY <1>0 DEF cleanup, Alive
<1>2. /\ \A f \in Alive : f \in R <=> kept(f) = {}
      /\ \A f \in Feeds : kept(f) \subseteq active[f] /\ \A e \in kept(f) : e \notin closed
      /\ \A f \in Feeds : kept(f) # {} => lifecycle[f] # "failed"
  OBVIOUS
<1> HIDE DEF kept, R
<1>3. \A f \in Feeds : /\ consumers'[f] = IF f \in Alive THEN kept(f) ELSE consumers[f]
                       /\ active'[f] = IF f \in Alive THEN kept(f) ELSE active[f]
  BY <1>1
<1>4. consumers' \in [Feeds -> SUBSET Consumers] /\ active' \in [Feeds -> SUBSET Consumers]
  <2>1. \A f \in Feeds : /\ consumers[f] \in SUBSET Consumers /\ active[f] \in SUBSET Consumers
                         /\ kept(f) \in SUBSET Consumers
    BY <1>0, <1>2 DEF TypeOK
  <2> QED
    BY <1>1, <2>1
<1>5. /\ Alive' = Alive \ R /\ \A g \in Feeds : g \notin R => lifecycle'[g] = lifecycle[g]
  <2>1. ~Held("store")
    BY <1>0 DEF Held
  <2> QED
    BY <1>0, <1>1, <2>1, Retires
<1>6. Fed'
  <2>1. ASSUME NEW g \in Feeds, active'[g] # {}
        PROVE  open(g)' /\ active'[g] \subseteq consumers'[g]
    <3>1. g \in Alive
      BY <1>0, <1>3, <2>1, Lives DEF Fed
    <3>2. g \notin R /\ lifecycle[g] # "failed"
      BY <1>2, <1>3, <2>1, <3>1 DEF Alive
    <3> QED
      BY <1>3, <1>5, <3>1, <3>2 DEF open, Alive
  <2> QED
    BY <2>1 DEF Fed
<1>7. ASSUME NEW g \in Alive'
      PROVE  /\ g \in Alive /\ g \in Feeds /\ consumers'[g] = kept(g) /\ active'[g] = kept(g)
             /\ kept(g) # {}
  <2>1. g \in Alive /\ g \notin R /\ g \in Feeds
    BY <1>5 DEF Alive
  <2> QED
    BY <1>2, <1>3, <2>1
<1>8. Attached'
  <2>1. ASSUME NEW g \in Alive'
        PROVE  consumers'[g] # {} /\ upstream_key'[g] # NoKey
    BY <1>0, <1>7 DEF Attached
  <2> QED
    BY <2>1 DEF Attached
<1>9. Cleaned'
  <2>1. ASSUME NEW g \in Alive', NEW e \in consumers'[g]
        PROVE  e \in active'[g] /\ e \notin closed'
    BY <1>0, <1>2, <1>7
  <2>2. ~Held("attach")'
    BY <1>0 DEF Held
  <2> QED
    BY <2>1, <2>2 DEF Cleaned
<1>10. \A f \in Feeds \ born : consumers'[f] = consumers[f] /\ active'[f] \subseteq active[f]
  BY <1>0, <1>3, Lives
<1>11. GateHeld'
  BY <1>0 DEF GateHeld
<1> QED
  BY <1>0, <1>1, <1>4, <1>6, <1>8, <1>9, <1>10, <1>11, RetireStep DEF cleanup, people

-----------------------------------------------------------------------------
(* A feed is created. *)

\* The feed an add creates takes its topic's place in the registry from the
\* failed feed that held it, whose subscription is cancelled.
LEMMA AddNew ==
  ASSUME HubInv, NEW d \in Consumers, NEW t \in Topics, AddBegin(d, t),
         ~(registry[t] # 0 /\ open(registry[t])),
         NEW n \in 0 .. MaxFeeds, born = 1 .. n, Cardinality(born) = n
  PROVE  HubInv'
<1> DEFINE f == n + 1
           old == registry[t]
           ks == {upstream_key[g] : g \in {old} \cap Feeds}
           s == IF Usable(own_session[d]) THEN own_session[d] ELSE f
<1>0. /\ TypeOK /\ Numbered /\ RegistryExact /\ Fed /\ GateHeld /\ Attached /\ Cleaned /\ OneTask
      /\ Answering /\ gate.op = "free" /\ d \notin closed
  BY DEF HubInv, AddBegin, Held
<1>1. f \in Feeds /\ f \notin born /\ f # 0 /\ born \cup {f} = 1 .. (n + 1) /\ n + 1 \in 0 .. MaxFeeds
  <2>1. f \in Feeds
    BY DEF AddBegin
  <2> QED
    BY <2>1, HubConstants, SMTT(60) DEF Feeds
<1>2. /\ registry' = [registry EXCEPT ![t] = f]
      /\ lifecycle' = [g \in Feeds |-> IF g = f THEN "pending"
                                       ELSE IF g = old THEN "closed" ELSE lifecycle[g]]
      /\ unsubscribe_now(ks) /\ topic' = [topic EXCEPT ![f] = t]
      /\ session' = [session EXCEPT ![f] = s]
      /\ own_session' = [own_session EXCEPT ![d] = session'[f]]
      /\ gate' = [Free EXCEPT !.op = "attach", !.c = d, !.f = f]
      /\ UNCHANGED <<upstream_key, stage, restart_requested, recovery_task_scheduled, tasks,
                     consumers, active, cleanup_pending, subs, ended, left, closed>>
  <2>1. Cardinality(born) + 1 = f /\ ~(old # 0 /\ open(old))
    OBVIOUS
  <2>2. UNCHANGED <<stage, restart_requested, recovery_task_scheduled, tasks, consumers, active,
                    cleanup_pending, subs, ended, left, closed>>
    BY DEF AddBegin, recovery
  <2>3. registry' = [registry EXCEPT ![t] = f] /\ topic' = [topic EXCEPT ![f] = t]
    BY <2>1 DEF AddBegin
  <2>4. lifecycle' = [g \in Feeds |-> IF g = f THEN "pending"
                                      ELSE IF g = old THEN "closed" ELSE lifecycle[g]]
    BY <2>1, SMTT(60) DEF AddBegin
  <2>5. unsubscribe_now(ks) /\ UNCHANGED upstream_key
    BY <2>1 DEF AddBegin
  <2>6. /\ session' = [session EXCEPT ![f] = s]
        /\ own_session' = [own_session EXCEPT ![d] = session'[f]]
        /\ gate' = [Free EXCEPT !.op = "attach", !.c = d, !.f = f]
    BY <2>1 DEF AddBegin
  <2> QED
    BY <2>2, <2>3, <2>4, <2>5, <2>6
<1>3. s \in Feeds /\ s # 0
  BY <1>0, <1>1 DEF TypeOK, Usable
<1>4. /\ old \in Feeds \cup {0} /\ old # f /\ (old # 0 => topic[old] = t /\ ~open(old))
      /\ old \in Feeds => upstream_key[old] \in ks
  <2>1. old \in Feeds \cup {0} /\ (old # 0 => topic[old] = t /\ ~open(old))
    BY <1>0 DEF TypeOK, RegistryExact
  <2>2. old # f
    BY <1>0, <1>1, <2>1, Lives DEF RegistryExact
  <2> QED
    BY <2>1, <2>2
<1> HIDE DEF f, old, ks, s
<1>5. /\ registry' \in [Topics -> Feeds \cup {0}] /\ registry'[t] = f
      /\ \A u \in Topics : u # t => registry'[u] = registry[u]
  BY <1>0, <1>1, <1>2 DEF TypeOK
<1>6. /\ topic' \in [Feeds -> Topics] /\ topic'[f] = t
      /\ \A g \in Feeds : g # f => topic'[g] = topic[g]
  BY <1>0, <1>1, <1>2 DEF TypeOK
<1>7. /\ session' \in [Feeds -> Feeds \cup {0}] /\ session'[f] = s
      /\ \A g \in Feeds : g # f => session'[g] = session[g]
  BY <1>0, <1>1, <1>2, <1>3 DEF TypeOK
<1>8. own_session' \in [Consumers -> Feeds \cup {0}]
  BY <1>0, <1>2, <1>3, <1>7 DEF TypeOK
<1>9. /\ lifecycle'[f] = "pending" /\ (old \in Feeds => lifecycle'[old] = "closed")
      /\ \A g \in Feeds : g # f /\ g # old => lifecycle'[g] = lifecycle[g]
      /\ lifecycle' \in [Feeds -> {"none", "pending", "active", "failed", "closed"}]
  <2>1. \A g \in Feeds : lifecycle'[g] = IF g = f THEN "pending"
                                         ELSE IF g = old THEN "closed" ELSE lifecycle[g]
    BY <1>2
  <2>2. lifecycle' \in [Feeds -> {"none", "pending", "active", "failed", "closed"}]
    BY <1>0, <1>2 DEF TypeOK
  <2> QED
    BY <1>1, <1>4, <2>1, <2>2
<1>10. /\ born' = born \cup {f} /\ Alive' = (Alive \ {old}) \cup {f}
       /\ \A g \in Feeds : open(g)' => g = f \/ (g # old /\ open(g))
       /\ \A g \in Feeds : g # f /\ open(g) => open(g)'
  <2>1. ASSUME old \in Feeds
        PROVE  old \in Alive /\ old \in born
    <3>1. topic[old] = t /\ registry[t] = old
      BY <1>4, <2>1, HubConstants DEF old
    <3>2. old \in Alive
      BY <1>0, <2>1, <3>1 DEF RegistryExact
    <3> QED
      BY <1>0, <3>2, Lives
  <2>2. ASSUME NEW g \in Feeds
        PROVE  /\ lifecycle'[g] # "none" <=> lifecycle[g] # "none" \/ g = f
               /\ g \in Alive' <=> (g \in Alive /\ g # old) \/ g = f
               /\ open(g)' => g = f \/ (g # old /\ open(g))
               /\ g # f /\ open(g) => open(g)'
    <3>1. CASE g = f
      BY <1>9, <3>1 DEF Alive
    <3>2. CASE g = old
      BY <1>4, <1>9, <2>1, <3>2, HubConstants DEF Alive, born, open
    <3>3. CASE g # f /\ g # old
      BY <1>9, <3>3 DEF Alive, open
    <3> QED
      BY <3>1, <3>2, <3>3
  <2> QED
    BY <1>1, <2>2 DEF born, Alive
<1>11. /\ gate' = [op |-> "attach", c |-> d, f |-> f, rest |-> {}]
  BY <1>2, TakenForAdd
<1>12. /\ gate'.op = "attach" /\ gate'.c = d /\ gate'.f = f
       /\ gate' = [op |-> gate'.op, c |-> gate'.c, f |-> gate'.f, rest |-> gate'.rest]
  BY <1>11, RecordFields
<1>13. /\ pending_cancel' \subseteq Keys /\ pending_cancel \subseteq pending_cancel'
       /\ \A k \in pending_cancel' : subs'[k] # 0
       /\ \A k \in ks \cap Keys : subs[k] # 0 => k \in pending_cancel'
       /\ wire' \in [Feeds -> Seq(Messages)]
       /\ \A g \in Feeds : Subscribed(g)' => Subscribed(g)
       /\ \A g \in Feeds : wire'[g] = wire[g] \/ (wire'[g] = <<>> /\ ~Subscribed(g)')
  BY <1>2, Unsubscribes
<1>14. /\ consumers[f] = {} /\ active[f] = {} /\ upstream_key[f] = NoKey /\ stage[f] = "none"
  BY <1>0, <1>1 DEF Numbered
<1>15. cleanup_pending' \in BOOLEAN /\ (cleanup_pending => cleanup_pending')
  <2>1. cleanup_pending \in BOOLEAN /\ cleanup_pending' = cleanup_pending
    BY <1>0, <1>2 DEF TypeOK
  <2> QED
    BY <2>1, SMTT(60)
<1>16. TypeOK'
  <2>1. /\ upstream_key' \in [Feeds -> Keys \cup {NoKey}] /\ stage' \in [Feeds -> Stages]
        /\ tasks' \in [Feeds -> 0..1] /\ restart_requested' \in [Feeds -> BOOLEAN]
        /\ recovery_task_scheduled' \in [Feeds -> BOOLEAN]
        /\ active' \in [Feeds -> SUBSET Consumers] /\ consumers' \in [Feeds -> SUBSET Consumers]
        /\ subs' \in [Keys -> Feeds \cup {0}]
    BY <1>0, <1>2 DEF TypeOK
  <2> QED
    BY <1>5, <1>6, <1>7, <1>8, <1>9, <1>13, <1>15, <2>1 DEF TypeOK, Messages
<1>17. Numbered'
  <2>1. \E m \in 0 .. MaxFeeds : born' = 1 .. m
    BY <1>1, <1>10
  <2>2. ASSUME NEW g \in born'
        PROVE  session'[g] # 0
    BY <1>0, <1>1, <1>3, <1>7, <1>10, Lives DEF Numbered
  <2>3. ASSUME NEW g \in Feeds \ born'
        PROVE  /\ consumers'[g] = {} /\ active'[g] = {} /\ upstream_key'[g] = NoKey
               /\ stage'[g] = "none" /\ ~recovery_task_scheduled'[g]
    <3>1. g \in Feeds \ born
      BY <1>10
    <3>2. /\ consumers[g] = {} /\ active[g] = {} /\ upstream_key[g] = NoKey
          /\ stage[g] = "none" /\ ~recovery_task_scheduled[g]
      BY <1>0, <3>1 DEF Numbered
    <3> QED
      BY <1>2, <3>2
  <2> QED
    BY <2>1, <2>2, <2>3 DEF Numbered
<1>18. RegistryExact'
  <2>1. ASSUME NEW g \in Feeds
        PROVE  g \in Alive' <=> registry'[topic'[g]] = g
    <3>1. CASE g = f
      BY <1>5, <1>6, <1>10, <3>1
    <3>2. CASE g # f /\ topic[g] = t
      <4>1. topic'[g] = t /\ registry'[t] # g
        BY <1>5, <1>6, <3>2
      <4>2. g \in Alive => g = old
        BY <1>0, <3>2 DEF RegistryExact, old
      <4> QED
        BY <1>10, <3>2, <4>1, <4>2
    <3>3. CASE g # f /\ topic[g] # t
      <4>1. topic'[g] = topic[g] /\ topic[g] \in Topics
        BY <1>0, <1>6, <3>3 DEF TypeOK
      <4>2. registry'[topic[g]] = registry[topic[g]]
        BY <1>5, <3>3, <4>1
      <4>3. g # old
        BY <1>4, <3>3, HubConstants
      <4> QED
        BY <1>0, <1>10, <3>3, <4>1, <4>2, <4>3 DEF RegistryExact
    <3> QED
      BY <3>1, <3>2, <3>3
  <2>2. ASSUME NEW u \in Topics, registry'[u] # 0
        PROVE  topic'[registry'[u]] = u
    <3>1. CASE u = t
      BY <1>5, <1>6, <3>1
    <3>2. CASE u # t
      <4>0. registry'[u] = registry[u] /\ registry[u] # 0
        BY <1>5, <2>2, <3>2
      <4>1. registry'[u] = registry[u] /\ registry[u] \in Feeds /\ topic[registry[u]] = u
        <5>1. registry[u] \in Feeds
          BY <1>0, <4>0 DEF TypeOK
        <5> QED
          BY <1>0, <4>0, <5>1 DEF RegistryExact
      <4>2. registry[u] \in born
        BY <1>0, <4>1, Lives DEF RegistryExact
      <4> QED
        BY <1>1, <1>6, <4>1, <4>2
    <3> QED
      BY <3>1, <3>2
  <2> QED
    BY <2>1, <2>2 DEF RegistryExact
<1>19. Fed'
  <2>1. ASSUME NEW g \in Feeds, active'[g] # {}
        PROVE  open(g)' /\ active'[g] \subseteq consumers'[g]
    BY <1>0, <1>2, <1>10, <1>14, <2>1 DEF Fed
  <2> QED
    BY <2>1 DEF Fed
<1>20. Slab'
  <2>1. ASSUME NEW k \in Keys, subs'[k] # 0
        PROVE  /\ subs'[k] \in born' /\ session'[subs'[k]] = k[1] /\ k[1] \notin ended'
               /\ upstream_key'[subs'[k]] = k
               /\ lifecycle'[subs'[k]] = "closed" => k \in pending_cancel'
    <3>1. /\ subs'[k] = subs[k] /\ subs[k] \in born /\ subs[k] \in Feeds
          /\ session[subs[k]] = k[1] /\ k[1] \notin ended /\ upstream_key[subs[k]] = k
          /\ lifecycle[subs[k]] = "closed" => k \in pending_cancel
      <4>1. subs'[k] = subs[k] /\ subs[k] # 0 /\ ~Held("store")
        BY <1>0, <1>2, <2>1 DEF Held
      <4> QED
        BY <4>1, KeyInUse
    <3>2. subs[k] # f
      BY <1>1, <3>1
    <3>3. subs[k] = old => k \in pending_cancel'
      BY <1>2, <1>4, <1>13, <2>1, <3>1
    <3>4. subs[k] # old => lifecycle'[subs[k]] = lifecycle[subs[k]]
      BY <1>9, <3>1, <3>2
    <3> QED
      BY <1>2, <1>7, <1>10, <1>13, <3>1, <3>2, <3>3, <3>4
  <2> QED
    BY <1>13, <2>1 DEF Slab
<1>21. GateHeld'
  BY <1>2, <1>10, <1>12, <1>14 DEF GateHeld
<1>22. Attached'
  <2>1. ASSUME NEW g \in Alive'
        PROVE  gate'.f = g \/ (consumers'[g] # {} /\ upstream_key'[g] # NoKey)
    BY <1>0, <1>2, <1>10, <1>12 DEF Attached
  <2> QED
    BY <1>12, <2>1 DEF Attached
<1>23. Cleaned'
  <2>1. ASSUME NEW g \in Alive', NEW e \in consumers'[g], e \notin active'[g] \/ e \in closed',
               e \notin left'
        PROVE  cleanup_pending'
    <3>1. g \in Alive
      BY <1>2, <1>10, <1>14, <2>1
    <3> QED
      BY <1>0, <1>2, <1>15, <2>1, <3>1 DEF Cleaned
  <2>2. gate'.c \notin closed'
    BY <1>0, <1>2, <1>12
  <2> QED
    BY <2>1, <2>2 DEF Cleaned
<1>24. OneTask'
  <2>1. ASSUME NEW g \in Feeds
        PROVE  /\ recovery_task_scheduled'[g] <=> tasks'[g] = 1 \/ Running(g)'
               /\ tasks'[g] = 1 => ~Running(g)'
               /\ open(g)' /\ stage'[g] \in {"QueuedInitial", "QueuedRestart"} =>
                    recovery_task_scheduled'[g]
    <3>1. ~Running(g) /\ ~Running(g)'
      BY <1>0, <1>12 DEF Running
    <3>2. /\ recovery_task_scheduled[g] <=> tasks[g] = 1
          /\ open(g) /\ stage[g] \in {"QueuedInitial", "QueuedRestart"} =>
               recovery_task_scheduled[g]
      BY <1>0, <3>1 DEF OneTask
    <3> QED
      BY <1>2, <1>10, <1>14, <3>1, <3>2
  <2> QED
    BY <2>1 DEF OneTask
<1>25. Answering'
  <2>1. ASSUME NEW g \in Feeds
        PROVE  LET quiet == ~open(g)' \/ ~Subscribed(g)' \/ ~Waiting(g)' \/ Sending(g)' IN
               \/ wire'[g] = <<>> /\ quiet
               \/ /\ wire'[g] = wire[g]
                  /\ \/ quiet
                     \/ /\ stage'[g] = stage[g] /\ open(g) /\ Subscribed(g)
                        /\ Sending(g) => Sending(g)'
    <3>1. ~Sending(g) /\ stage'[g] = stage[g]
      BY <1>0, <1>2 DEF Sending, Held
    <3>2. g = f => ~Waiting(g)'
      BY <1>2, <1>14 DEF Waiting
    <3>3. g # f => (open(g)' => open(g))
      BY <1>10
    <3> QED
      BY <1>13, <3>1, <3>2, <3>3
  <2> QED
    BY <1>0, <2>1, AnsweringKept
<1> QED
  BY <1>16, <1>17, <1>18, <1>19, <1>20, <1>21, <1>22, <1>23, <1>24, <1>25 DEF HubInv

-----------------------------------------------------------------------------
(* The invariant of the specification. *)

\* Nothing is registered, subscribed or waited for in the beginning.
LEMMA HubStart == Init => HubInv
<1> SUFFICES ASSUME Init
             PROVE  HubInv
  OBVIOUS
<1>0. /\ gate = [op |-> "free", c |-> 0, f |-> 0, rest |-> {}] /\ gate.op = "free"
      /\ gate = [op |-> gate.op, c |-> gate.c, f |-> gate.f, rest |-> gate.rest]
  <2>1. gate = [op |-> "free", c |-> 0, f |-> 0, rest |-> {}]
    BY DEF Init, Free
  <2> QED
    BY <2>1, RecordFields
<1>1. /\ \A f \in Feeds : /\ lifecycle[f] = "none" /\ stage[f] = "none" /\ upstream_key[f] = NoKey
                          /\ consumers[f] = {} /\ active[f] = {} /\ wire[f] = <<>>
      /\ \A f \in Feeds : ~recovery_task_scheduled[f]
      /\ \A t \in Topics : registry[t] = 0
      /\ \A k \in Keys : subs[k] = 0
  BY DEF Init
<1>2. \A f \in Feeds : tasks[f] = 0 /\ tasks[f] # 1
  BY SMTT(60) DEF Init
<1>3. born = {} /\ Alive = {} /\ \A f \in Feeds : ~open(f)
  BY <1>1 DEF born, Alive, open
<1>4. TypeOK
  <2>1. registry \in [Topics -> Feeds \cup {0}] /\ topic \in [Feeds -> Topics]
    <3>1. (CHOOSE t \in Topics : TRUE) \in Topics
      BY HubConstants
    <3>2. {CHOOSE t \in Topics : TRUE} \subseteq Topics
      BY <3>1
    <3>3. topic \in [Feeds -> {CHOOSE t \in Topics : TRUE}]
      BY DEF Init
    <3>4. topic \in [Feeds -> Topics]
      BY <3>2, <3>3
    <3> QED
      BY <3>4 DEF Init
  <2>2. /\ upstream_key \in [Feeds -> Keys \cup {NoKey}] /\ session \in [Feeds -> Feeds \cup {0}]
        /\ lifecycle \in [Feeds -> {"none", "pending", "active", "failed", "closed"}]
        /\ stage \in [Feeds -> Stages]
    BY DEF Init, Stages
  <2>3. /\ tasks \in [Feeds -> 0..1] /\ restart_requested \in [Feeds -> BOOLEAN]
        /\ recovery_task_scheduled \in [Feeds -> BOOLEAN] /\ cleanup_pending \in BOOLEAN
        /\ wire \in [Feeds -> Seq({"SubscriptionStarted", "INITPAINT"})]
    <3>1. 0 \in 0..1 /\ <<>> \in Seq({"SubscriptionStarted", "INITPAINT"})
      BY SMTT(60)
    <3> QED
      BY <3>1 DEF Init
  <2>4. /\ active \in [Feeds -> SUBSET Consumers] /\ consumers \in [Feeds -> SUBSET Consumers]
        /\ subs \in [Keys -> Feeds \cup {0}] /\ pending_cancel \subseteq Keys
        /\ own_session \in [Consumers -> Feeds \cup {0}]
    BY DEF Init
  <2> QED
    BY <2>1, <2>2, <2>3, <2>4 DEF TypeOK
<1>5. Numbered
  <2>1. 0 \in 0 .. MaxFeeds /\ {} = 1 .. 0
    BY HubConstants, SMTT(60)
  <2> QED
    BY <1>1, <1>3, <2>1 DEF Numbered
<1>6. RegistryExact
  <2>1. ASSUME NEW f \in Feeds
        PROVE  registry[topic[f]] # f
    <3>1. topic[f] \in Topics
      BY <1>4 DEF TypeOK
    <3> QED
      BY <1>1, <3>1, HubConstants
  <2> QED
    BY <1>1, <1>3, <2>1 DEF RegistryExact
<1>7. Fed /\ Attached
  BY <1>1, <1>3 DEF Fed, Attached
<1>8. Slab
  BY <1>1 DEF Init, Slab
<1>9. GateHeld
  BY <1>0 DEF GateHeld
<1>10. Cleaned
  BY <1>0, <1>3 DEF Cleaned, Held
<1>11. OneTask
  BY <1>0, <1>1, <1>2, <1>3 DEF OneTask, Running
<1>12. Answering
  <2>1. ASSUME NEW f \in Feeds
        PROVE  DOMAIN wire[f] = {}
    BY <1>1, SMTT(60)
  <2> QED
    BY <1>3, <2>1 DEF Answering
<1> QED
  BY <1>4, <1>5, <1>6, <1>7, <1>8, <1>9, <1>10, <1>11, <1>12 DEF HubInv

LEMMA AddingStep == HubInv /\ Adding => HubInv'
  BY AttachStep, GrowStep, RegisterStep, SubscribeFailsStep, AddCancelledStep, StoreStep,
     AddRollbackStep DEF Adding

\* A step of a feed, of the worker or of the SDK's session.
LEMMA UpstreamStep ==
  ASSUME HubInv,
         \/ \E f \in Feeds : RecoverBegin(f) \/ Deliver(f) \/ Update(f) \/ on_data_loss(f)
         \/ \E k \in Keys : TopicFails(k) \/ CancelConfirmed(k)
         \/ \E s \in Feeds : SessionEnds(s)
  PROVE  HubInv'
<1>1. ASSUME NEW f \in Feeds, RecoverBegin(f) \/ Deliver(f) \/ Update(f) \/ on_data_loss(f)
      PROVE  HubInv'
  BY <1>1, RecoverBeginStep, DeliverStep, UpdateStep, on_data_lossStep
<1>2. ASSUME NEW k \in Keys, TopicFails(k) \/ CancelConfirmed(k)
      PROVE  HubInv'
  BY <1>2, TopicFailsStep, CancelConfirmedStep
<1>3. ASSUME NEW s \in Feeds, SessionEnds(s)
      PROVE  HubInv'
  BY <1>3, SessionEndsStep
<1> QED
  BY <1>1, <1>2, <1>3

LEMMA HubStutters == HubInv /\ UNCHANGED vars => HubInv'
<1> SUFFICES ASSUME HubInv, UNCHANGED vars
             PROVE  HubInv'
  OBVIOUS
<1>1. /\ UNCHANGED <<registry, feedvars, recovery, lifecycle, consumers, active, worker, own_session,
                     wire, gate, closed, left, cleanup_pending>>
  BY DEF vars, people
<1>2. TypeOK /\ GateHeld /\ Attached /\ Cleaned
  BY DEF HubInv
<1>3. Alive' = Alive /\ born' = born
  BY <1>1 DEF Alive, born
<1>4. GateHeld' /\ Attached'
  BY <1>1, <1>2, <1>3, GateKept, AttachedKept DEF feedvars
<1>5. Cleaned' /\ cleanup_pending' \in BOOLEAN
  BY <1>1, <1>2, CleanedStill DEF Held
<1>6. /\ Held("store") => Held("store")' /\ gate'.f = gate.f /\ gate'.rest = gate.rest
      /\ \A f \in Feeds : Running(f)' <=> Running(f)
      /\ \A f \in Feeds : Sending(f) => Sending(f)'
  BY <1>1 DEF Held, Running, Sending
<1> QED
  BY <1>1, <1>4, <1>5, <1>6, StillStep

-----------------------------------------------------------------------------
INSTANCE FiniteSetTheorems

\* The next feed an add creates is the first that is to come.
LEMMA AddBeginStep ==
  ASSUME HubInv, NEW d \in Consumers, NEW t \in Topics, AddBegin(d, t)
  PROVE  HubInv'
<1>1. PICK n \in 0 .. MaxFeeds : born = 1 .. n
  BY DEF HubInv, Numbered
<1>2. Cardinality(1 .. n) = n
  BY <1>1, HubConstants, FS_Interval, SMTT(60)
<1>3. Cardinality(born) = n
  BY <1>1, <1>2
<1> QED
  BY <1>1, <1>3, AddFinds, AddNew

\* Every step keeps the invariant.
LEMMA HubNext == HubInv /\ [Next]_vars => HubInv'
<1> SUFFICES ASSUME HubInv, [Next]_vars
             PROVE  HubInv'
  OBVIOUS
<1>1. ASSUME NEW c \in Consumers, NEW t \in Topics, AddBegin(c, t) \/ remove(c, t)
      PROVE  HubInv'
  BY <1>1, AddBeginStep, removeStep
<1>2. ASSUME NEW c \in Consumers, add_fields(c) \/ unsubscribe(c) \/ Leave(c)
      PROVE  HubInv'
  BY <1>2, add_fieldsStep, unsubscribeStep, LeaveStep
<1>3. CASE Adding
  BY <1>3, AddingStep
<1>4. CASE Fields \/ Recovering
  BY <1>4, GrowFieldsStep, FieldsAddedStep, RecoverCheckStep, RecoverSendStep DEF Fields, Recovering
<1>5. CASE cleanup \/ ShutDown
  BY <1>5, cleanupStep, ShutDownStep
<1>6. CASE UNCHANGED vars
  BY <1>6, HubStutters
<1> QED
  BY <1>1, <1>2, <1>3, <1>4, <1>5, <1>6, UpstreamStep DEF Next

\* The inductive invariant holds of every state the hub reaches.
THEOREM HubAlways == Spec => []HubInv
  BY HubStart, HubNext, PTL DEF Spec

-----------------------------------------------------------------------------
(* The properties. *)

\* The registry, the feeds and the slab agree: a consumer is fed by the open
\* feed the registry holds for the topic alone, no feed is subscribed twice,
\* and a retired feed's subscription is being cancelled (attach, retire,
\* detach and cleanup, against failures, cancellations and session ends).
THEOREM HubStaysConsistent == Spec => []HubConsistent
<1>1. HubInv => HubConsistent
  <2> SUFFICES ASSUME HubInv
               PROVE  HubConsistent
    OBVIOUS
  <2>0. TypeOK /\ RegistryExact /\ Fed /\ registered = Alive
    BY RegisteredAlive DEF HubInv
  <2>1. ASSUME NEW t \in Topics, registry[t] # 0
        PROVE  registry[t] \in registered
    <3>1. registry[t] \in Feeds
      BY <2>0, <2>1 DEF TypeOK
    <3>2. topic[registry[t]] = t
      BY <2>0, <2>1 DEF RegistryExact
    <3> QED
      BY <2>0, <3>1, <3>2 DEF RegistryExact
  <2>2. ASSUME NEW f \in Feeds, active[f] # {}
        PROVE  f \in registered /\ open(f) /\ active[f] \subseteq consumers[f]
    BY <2>0, <2>2, Lives DEF Fed
  <2>3. ASSUME NEW f \in Feeds
        PROVE  Cardinality({k \in Keys : subs[k] = f}) <= 1
    <3>1. CASE {k \in Keys : subs[k] = f} = {}
      BY <3>1, FS_EmptySet, SMTT(60)
    <3>2. CASE {k \in Keys : subs[k] = f} # {}
      <4>1. PICK k \in Keys : subs[k] = f
        BY <3>2
      <4>2. \A j \in Keys : subs[j] = f => j = k
        BY <4>1, HubConstants, OneKey
      <4>3. {j \in Keys : subs[j] = f} = {k}
        BY <4>1, <4>2
      <4> QED
        BY <4>3, FS_Singleton, SMTT(60)
    <3> QED
      BY <3>1, <3>2
  <2>4. ASSUME NEW f \in Feeds, lifecycle[f] = "closed", Subscribed(f)
        PROVE  FALSE
    <3>1. PICK k \in Keys \ pending_cancel : subs[k] = f
      BY <2>4 DEF Subscribed
    <3> QED
      BY <2>4, <3>1, HubConstants, KeyInUse
  <2>5. \A k \in pending_cancel : subs[k] # 0
    BY DEF HubInv, Slab
  <2> QED
    BY <2>0, <2>1, <2>2, <2>3, <2>4, <2>5 DEF HubConsistent
<1> QED
  BY <1>1, HubAlways, PTL

\* "Cancelling add while a service opens must not leave attachable phantom
\* feeds": between mutations every feed others could attach to has an entry
\* and has been subscribed, however an add before it ended (AddRollback).
THEOREM NoPhantomFeedEver == Spec => []NoPhantomFeed
<1>1. HubInv => NoPhantomFeed
  BY RegisteredAlive DEF HubInv, NoPhantomFeed, Attached, Held
<1> QED
  BY <1>1, HubAlways, PTL

\* An entry that was ended under a registered feed has a cleanup coming, unless
\* its reader left by itself (schedule_cleanup, cleanup).
THEOREM EndedEntriesAreCleaned == Spec => []AbandonedIsCleaned
<1>1. HubInv => AbandonedIsCleaned
  BY RegisteredAlive DEF HubInv, AbandonedIsCleaned, Cleaned
<1> QED
  BY <1>1, HubAlways, PTL

\* A queued recovery has the one task that will send it, and a recovery that was
\* sent has the answer it waits for in flight while the subscription lasts
\* (schedule_recovery, on_status, on_update, on_data_loss).
THEOREM RecoveryIsNotForgotten == Spec => []RecoveryIsUnderWay
<1>1. HubInv => RecoveryIsUnderWay
  <2> SUFFICES ASSUME HubInv, NEW f \in Feeds
               PROVE  /\ tasks[f] > 0 => ~Running(f) /\ recovery_task_scheduled[f]
                      /\ open(f) /\ stage[f] \in {"QueuedInitial", "QueuedRestart"} =>
                           tasks[f] > 0 \/ Running(f)
                      /\ open(f) /\ Subscribed(f) /\ ~Sending(f) =>
                           /\ stage[f] \in {"WaitingInitialPaint", "WaitingRestartPaint"} =>
                                InFlight(f, "INITPAINT")
                           /\ stage[f] = "WaitingRestartStart" => InFlight(f, "SubscriptionStarted")
    BY DEF RecoveryIsUnderWay, Running, Sending, InFlight
  <2>1. /\ recovery_task_scheduled[f] <=> tasks[f] = 1 \/ Running(f)
        /\ tasks[f] = 1 => ~Running(f)
        /\ open(f) /\ stage[f] \in {"QueuedInitial", "QueuedRestart"} => recovery_task_scheduled[f]
    BY DEF HubInv, OneTask
  <2>2. tasks[f] > 0 <=> tasks[f] = 1
    <3>1. tasks[f] \in 0 .. 1
      BY DEF HubInv, TypeOK
    <3> QED
      BY <3>1, SMTT(60)
  <2>3. open(f) /\ Subscribed(f) /\ ~Sending(f) =>
          /\ stage[f] \in {"WaitingInitialPaint", "WaitingRestartPaint"} => InFlight(f, "INITPAINT")
          /\ stage[f] = "WaitingRestartStart" => InFlight(f, "SubscriptionStarted")
    BY DEF HubInv, Answering, Sending
  <2> QED
    BY <2>1, <2>2, <2>3
<1> QED
  BY <1>1, HubAlways, PTL
=============================================================================
