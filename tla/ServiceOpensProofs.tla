------------------------- MODULE ServiceOpensProofs -------------------------
(***************************************************************************)
(* Opening services keeps the table and the calls in agreement, resolves a *)
(* call with the fate of its own attempt, and leaves nothing pending after *)
(* a shutdown, for every number of calls and services.                     *)
(***************************************************************************)
EXTENDS ServiceOpens, TLAPS

\* Steps are for Zenon, unless they name the SMT solver.
USE ZenonT(60)

-----------------------------------------------------------------------------
(* The table and the numbers. *)

\* A service has a pending attempt or the empty entry.
LEMMA AttemptPending ==
  ASSUME TableType, Joined, NEW s \in Services
  PROVE  by_service[s] = NoAttempt <=> by_service[s].cid = 0
<1>1. by_service[s] \in [cid : Nat, waiters : SUBSET Calls]
  BY DEF TableType
<1>2. NoAttempt \in [cid : Nat, waiters : SUBSET Calls]
  BY DEF NoAttempt
<1>3. by_service[s].cid = 0 => by_service[s].waiters = {}
  BY DEF Joined
<1>4. NoAttempt.cid = 0 /\ NoAttempt.waiters = {}
  BY DEF NoAttempt
<1> QED
  BY <1>1, <1>2, <1>3, <1>4, SMTT(60)

\* The numbers in use are those handed out.
LEMMA InUse ==
  ASSUME TableType, CallType, Numbered
  PROVE  /\ \A d \in Calls : attempt[d] # 0 => attempt[d] \in 1 .. next_id
         /\ \A s \in Services : by_service[s].cid # 0 => by_service[s].cid \in 1 .. next_id
BY SMTT(60) DEF TableType, CallType, Numbered

\* A step that makes no attempt: numbers are only retired.
LEMMA NumbersKept ==
  ASSUME TableType, Numbered, next_id' = next_id,
         \A c \in Calls : attempt'[c] <= next_id,
         \A s \in Services : by_service'[s].cid \in {0, by_service[s].cid},
         \A k \in sdk' : k # 0 /\ k <= next_id /\ answered'[k] = "none"
  PROVE  Numbered'
<1>1. \A s \in Services : by_service'[s].cid <= next_id
  BY SMTT(60) DEF TableType, Numbered
<1> QED
  BY <1>1 DEF Numbered

\* A new attempt has a number nobody has used, and is unanswered.
LEMMA NewNumber ==
  ASSUME TableType, CallType, SessionType, Numbered, NewAttempt
  PROVE  /\ next_id' = next_id + 1 /\ next_id' \in Nat /\ next_id' # 0 /\ next_id' \notin sdk
         /\ answered' \in [1 .. next_id' -> Answers \cup {"none", "late"}]
         /\ answered'[next_id'] = "none"
         /\ \A d \in Calls : /\ attempt[d] # next_id'
                             /\ attempt[d] # 0 => answered'[attempt[d]] = answered[attempt[d]]
         /\ \A s \in Services :
              /\ by_service[s].cid # next_id'
              /\ by_service[s].cid # 0 =>
                   answered'[by_service[s].cid] = answered[by_service[s].cid]
         /\ \A k \in sdk : k # 0 /\ k <= next_id' /\ answered'[k] = "none"
<1>1. next_id' = next_id + 1 /\ next_id' \in Nat /\ next_id \in Nat
  BY SMTT(60) DEF NewAttempt, TableType
<1>2. \A k \in 1 .. next_id : k \in 1 .. next_id' /\ k # next_id'
  BY <1>1, SMTT(60)
<1>3. /\ answered'[next_id'] = "none"
      /\ \A k \in 1 .. next_id : answered'[k] = answered[k]
  BY <1>1, <1>2, SMTT(60) DEF NewAttempt
<1>4. answered' \in [1 .. next_id' -> Answers \cup {"none", "late"}]
  BY <1>1, SMTT(60) DEF NewAttempt, SessionType
<1>5. \A k \in sdk : k \in 1 .. next_id /\ k <= next_id'
  BY <1>1, SMTT(60) DEF SessionType, Numbered
<1>6. /\ \A d \in Calls : attempt[d] # next_id'
      /\ \A s \in Services : by_service[s].cid # next_id'
  BY <1>1, SMTT(60) DEF TableType, CallType, Numbered
<1> QED
  BY <1>1, <1>2, <1>3, <1>4, <1>5, <1>6, InUse, SMTT(60) DEF Numbered

\* The empty entry.
LEMMA EmptyEntry == NoAttempt.cid = 0 /\ NoAttempt.waiters = {}
BY SMTT(60) DEF NoAttempt

\* The waiters of a pending attempt.
LEMMA Waiters ==
  ASSUME TableType, Joined, NEW s \in Services
  PROVE  \A w \in by_service[s].waiters :
           /\ w \in Calls /\ service[w] = s
           /\ attempt[w] = by_service[s].cid /\ attempt[w] # 0
           /\ pc[w] \in {"opening", "waiting", "expired", "leaving"} /\ pc[w] \notin Before
<1>1. by_service[s].waiters \subseteq Calls
  BY SMTT(60) DEF TableType
<1> QED
  BY <1>1, SMTT(60) DEF Joined, Before

\* A service has its own attempts.
LEMMA OneService ==
  ASSUME TableType, Joined, NEW r \in Services, NEW s \in Services,
         by_service[r].cid = by_service[s].cid, by_service[s].cid # 0
  PROVE  r = s
<1>1. PICK w \in by_service[s].waiters : TRUE
  BY SMTT(60) DEF Joined
<1>2. w \in Calls /\ service[w] = s /\ attempt[w] = by_service[s].cid
  BY Waiters
<1> QED
  BY <1>2, SMTT(60) DEF Joined

\* Attempts are taken out, and the waiters of the others stay with theirs.
LEMMA JoinedKept ==
  ASSUME TableType, Joined, UNCHANGED <<service, attempt>>,
         \A s \in Services : by_service'[s] = by_service[s] \/ by_service'[s] = NoAttempt,
         \A d \in Calls :
           \/ pc'[d] = pc[d]
           \/ pc'[d] \in {"opening", "waiting", "expired", "leaving"}
           \/ \A s \in Services : d \notin by_service'[s].waiters,
         \A s \in Services :
           \/ by_service[s].cid = 0 \/ by_service'[s] = NoAttempt
           \/ answered'[by_service[s].cid] = answered[by_service[s].cid]
  PROVE  Joined'
<1> USE DEF Joined
<1>1. \A s \in Services : by_service'[s].cid # 0 =>
        by_service'[s] = by_service[s] /\ answered'[by_service[s].cid] = "none"
  BY EmptyEntry, SMTT(60)
<1>2. \A s \in Services : by_service'[s].cid = 0 <=> by_service'[s].waiters = {}
  <2> SUFFICES ASSUME NEW s \in Services
               PROVE  by_service'[s].cid = 0 <=> by_service'[s].waiters = {}
    OBVIOUS
  <2>1. CASE by_service'[s] = NoAttempt
    BY <2>1, EmptyEntry
  <2>2. CASE by_service'[s] = by_service[s]
    BY <2>2, SMTT(60)
  <2> QED
    BY <2>1, <2>2
<1>3. ASSUME NEW s \in Services, NEW w \in by_service'[s].waiters
      PROVE  /\ by_service'[s] = by_service[s] /\ w \in by_service[s].waiters
             /\ pc'[w] \in {"opening", "waiting", "expired", "leaving"}
  <2>1. by_service'[s] = by_service[s] /\ w \in by_service[s].waiters
    BY <1>3, EmptyEntry
  <2>2. w \in Calls /\ pc[w] \in {"opening", "waiting", "expired", "leaving"}
    BY <2>1, Waiters
  <2> QED
    BY <1>3, <2>1, <2>2
<1> QED
  BY <1>1, <1>2, <1>3, SMTT(60)

\* One attempt is taken out.
LEMMA Removed ==
  ASSUME TableType, NEW s \in Services, remove(s)
  PROVE  /\ by_service' \in [Services -> [cid : Nat, waiters : SUBSET Calls]]
         /\ by_service'[s] = NoAttempt
         /\ \A r \in Services : r # s => by_service'[r] = by_service[r]
<1>1. NoAttempt \in [cid : Nat, waiters : SUBSET Calls]
  BY DEF NoAttempt
<1> QED
  BY <1>1 DEF TableType, remove

\* A call takes its own attempt out if it is still pending.
LEMMA OwnRemoved ==
  ASSUME TableType, Joined, NEW c \in Calls, service[c] \in Services,
         IF pending(service[c], attempt[c]) THEN remove(service[c]) ELSE by_service' = by_service
  PROVE  /\ by_service' \in [Services -> [cid : Nat, waiters : SUBSET Calls]]
         /\ \A s \in Services : by_service'[s] = by_service[s] \/ by_service'[s] = NoAttempt
         /\ \A s \in Services : by_service'[s].cid \in {0, by_service[s].cid}
         /\ \A s \in Services : c \notin by_service'[s].waiters
<1>1. CASE pending(service[c], attempt[c])
  <2>1. /\ by_service' \in [Services -> [cid : Nat, waiters : SUBSET Calls]]
        /\ by_service'[service[c]] = NoAttempt
        /\ \A r \in Services : r # service[c] => by_service'[r] = by_service[r]
    BY <1>1, Removed
  <2>2. \A s \in Services : s # service[c] => c \notin by_service[s].waiters
    BY Waiters
  <2> QED
    BY <2>1, <2>2, EmptyEntry
<1>2. CASE ~pending(service[c], attempt[c])
  <2>1. by_service' = by_service
    BY <1>2
  <2>2. \A s \in Services : c \notin by_service[s].waiters
    BY <1>2, Waiters DEF pending
  <2> QED
    BY <2>1, <2>2 DEF TableType
<1> QED
  BY <1>1, <1>2

\* Calls move on with their attempt: nobody enters, asks the SDK or expires anew.
LEMMA StartingKept ==
  ASSUME Starting, expired \subseteq expired',
         \A d \in Calls : pc'[d] \in Before => pc[d] \in Before /\ rx'[d] = rx[d],
         \A d \in Calls : pc'[d] \in Before \cup {"opening", "expired"} =>
           attempt'[d] = attempt[d],
         \A d \in Calls : pc'[d] = "opening" =>
           /\ pc[d] = "opening" /\ attempt[d] \notin sdk'
           /\ answered'[attempt[d]] = answered[attempt[d]],
         \A d \in Calls : pc'[d] = "expired" => pc[d] = "expired" \/ attempt[d] \in expired'
  PROVE  Starting'
BY SMTT(60) DEF Starting

\* What a thread owes stays owed: calls past the gate keep their attempt, and
\* answers, timers and records of open services are not taken back.
LEMMA OwedKept ==
  ASSUME TakenType, Owed, \A a \in Actors : taken'[a] \subseteq taken[a],
         \A d \in Calls : pc[d] \notin Before =>
           pc'[d] \notin Before /\ attempt'[d] = attempt[d] /\ service'[d] = service[d],
         \A d \in Calls : attempt[d] # 0 /\ answered[attempt[d]] \in Answers =>
           answered'[attempt[d]] = answered[attempt[d]],
         expired \subseteq expired', shutting_down => shutting_down',
         open_services \subseteq open_services',
         inserting \subseteq inserting' \cup open_services',
         \A d \in Calls : taken'[d] # {} => pc'[d] = "retiring"
  PROVE  Owed'
<1> SUFFICES ASSUME NEW a \in Actors, NEW t \in taken'[a]
             PROVE  /\ pc'[t[1]] \notin Before /\ attempt'[t[1]] # 0
                    /\ Deserved(t[1], t[2], open_services \cup
                                 IF a = Dispatcher THEN inserting ELSE {})'
  BY DEF Owed
<1>1. t \in taken[a] /\ t[1] \in Calls
  BY SMTT(60) DEF TakenType
<1>2. /\ pc[t[1]] \notin Before /\ attempt[t[1]] # 0
      /\ Deserved(t[1], t[2], open_services \cup IF a = Dispatcher THEN inserting ELSE {})
  BY <1>1 DEF Owed
<1>3. /\ pc'[t[1]] \notin Before /\ attempt'[t[1]] = attempt[t[1]]
      /\ service'[t[1]] = service[t[1]]
  BY <1>1, <1>2
<1> QED
  BY <1>1, <1>2, <1>3 DEF Deserved, Answers

\* A call comes to the gate only while the flag is down.
LEMMA StoppedKept ==
  ASSUME Stopped, UNCHANGED <<shutting_down, stopped, draining>>,
         \A d \in Calls : pc'[d] \in {"gate", "opening"} =>
           pc[d] \in {"gate", "opening"} \/ ~shutting_down
  PROVE  Stopped'
<1>1. stopped' \/ draining' => shutting_down'
  BY DEF Stopped
<1>2. stopped => Guarded' = {}
  <2> SUFFICES ASSUME stopped, NEW d \in Guarded'
               PROVE  FALSE
    OBVIOUS
  <2>1. d \in Calls /\ pc'[d] \in {"gate", "opening"} /\ shutting_down /\ Guarded = {}
    BY DEF Guarded, Stopped
  <2> QED
    BY <2>1 DEF Guarded
<1> QED
  BY <1>1, <1>2 DEF Stopped

\* Nobody is told anything, and answers, timers and records are not taken back.
LEMMA OwnKept ==
  ASSUME OwnAttempt, UNCHANGED <<service, attempt>>, open_services \subseteq open_services',
         expired \subseteq expired', shutting_down => shutting_down',
         \A d \in Calls : attempt[d] # 0 =>
           /\ rx'[d] \in {rx[d], "closed", "empty"}
           /\ answered[attempt[d]] \in Answers => answered'[attempt[d]] = answered[attempt[d]]
  PROVE  OwnAttempt'
BY SMTT(60) DEF OwnAttempt, Answers

\* What was opened and recorded stays so, and no attempt is found opened anew.
LEMMA RecordedKept ==
  ASSUME Recorded, UNCHANGED <<state_lock, service, attempt>>,
         open_services \subseteq open_services',
         \A d \in Calls : attempt[d] # 0 =>
           answered'[attempt[d]] \in {answered[attempt[d]], "late"}
  PROVE  Recorded'
BY DEF Recorded

\* The waiters of the table make its attempts live.
LEMMA NoZombie ==
  ASSUME TableType, Joined
  PROVE  NoZombieAttempt
BY SMTT(60) DEF TableType, Joined, NoZombieAttempt

-----------------------------------------------------------------------------
(* The steps of a call. *)

\* A call takes a step that touches neither the table nor a receiver.
LEMMA CallMoves ==
  ASSUME OpensInv, NEW c \in Calls, NEW l,
         l \in {"checked", "gate", "expired", "leaving", "ended"},
         \/ pc[c] \in {"idle", "checked"}
         \/ pc[c] = "waiting" /\ l \in {"expired", "leaving"}
         \/ pc[c] = "retiring" /\ taken[c] = {} /\ l = "leaving",
         l \in Before => pc[c] \in Before,
         l = "gate" => ~shutting_down, l = "expired" => attempt[c] \in expired',
         pc' = [pc EXCEPT ![c] = l],
         expired \subseteq expired', expired' \subseteq Nat,
         UNCHANGED <<state_lock, open_services, next_id, by_service, service, attempt, rx,
                     taken, inserting, draining, sdk, answered, over, shutting_down, stopped>>
  PROVE  OpensInv'
<1> USE DEF OpensInv, OpensTypeOK
<1>p. pc'[c] = l /\ \A d \in Calls : d # c => pc'[d] = pc[d]
  BY DEF CallType
<1>1. TableType' /\ TakenType' /\ SessionType'
  BY DEF TableType, TakenType, SessionType
<1>2. CallType'
  BY DEF CallType
<1>3. NoLostWaiter'
  <2>1. \A d \in Calls : InHand(d)' = InHand(d)
    BY DEF InHand
  <2> QED
    BY <2>1 DEF CallType, NoLostWaiter
<1>4. OwnAttempt'
  BY DEF OwnAttempt
<1>5. ShutdownSettlesOpens'
  BY DEF ShutdownSettlesOpens
<1>6. Numbered'
  BY NumbersKept DEF Numbered
<1>7. Starting'
  <2>1. \A d \in Calls : pc'[d] = "opening" =>
          pc[d] = "opening" /\ attempt[d] \notin sdk
    BY <1>p DEF Starting
  <2>2. \A d \in Calls : /\ pc'[d] \in Before => pc[d] \in Before
                      /\ pc'[d] = "expired" => pc[d] = "expired" \/ attempt[d] \in expired'
    BY <1>p DEF Before
  <2>3. \A d \in Calls : /\ rx'[d] = rx[d] /\ attempt'[d] = attempt[d]
                      /\ answered'[attempt[d]] = answered[attempt[d]]
    OBVIOUS
  <2>4. sdk' = sdk
    OBVIOUS
  <2> QED
    BY <2>1, <2>2, <2>3, <2>4, StartingKept, SMTT(60)
<1>8. Joined'
  <2>1. \/ pc'[c] \in {"expired", "leaving"}
        \/ \A s \in Services : c \notin by_service[s].waiters
    BY <1>p, Waiters DEF Before
  <2> QED
    BY <1>p, <2>1, JoinedKept
<1>9. Owed'
  <2>1. \A d \in Calls : pc[d] \notin Before => pc'[d] \notin Before
    BY DEF CallType, Before
  <2>2. \A d \in Calls : taken'[d] # {} => pc'[d] = "retiring"
    BY DEF CallType, Owed
  <2> QED
    BY <2>1, <2>2, OwedKept
<1>10. Stopped'
  BY StoppedKept DEF CallType
<1>11. Recorded'
  BY DEF Recorded
<1> QED
  BY <1>1, <1>2, <1>3, <1>4, <1>5, <1>6, <1>7, <1>8, <1>9, <1>10, <1>11

\* The second test of open_services, under the lock.
LEMMA AlreadyOpenStep ==
  ASSUME OpensInv, NEW c \in Calls, AlreadyOpen(c), UNCHANGED state_lock
  PROVE  OpensInv'
<1> USE DEF OpensInv, OpensTypeOK
<1>0. /\ pc[c] = "gate" /\ service[c] \in open_services
      /\ \/ pc' = [pc EXCEPT ![c] = "waiting"] /\ rx' = [rx EXCEPT ![c] = "ok"]
         \/ pc' = [pc EXCEPT ![c] = "ended"] /\ rx' = rx
      /\ UNCHANGED <<state_lock, open_services, next_id, by_service, service, attempt,
                     expired, taken, inserting, draining, sdk, answered, over,
                     shutting_down, stopped>>
  BY DEF AlreadyOpen, Go, table, dispatch, session, flags
<1>p. /\ pc'[c] \in {"waiting", "ended"} /\ rx'[c] \in {rx[c], "ok"}
      /\ \A d \in Calls : d # c => pc'[d] = pc[d] /\ rx'[d] = rx[d]
  BY <1>0 DEF CallType
<1>1. TableType' /\ TakenType' /\ SessionType'
  BY <1>0 DEF TableType, TakenType, SessionType
<1>2. CallType'
  BY <1>0 DEF CallType, Outcomes
<1>3. NoLostWaiter'
  <2>1. \A d \in Calls : InHand(d)' = InHand(d)
    BY <1>0 DEF InHand
  <2> QED
    BY <1>0, <2>1 DEF CallType, NoLostWaiter
<1>4. OwnAttempt'
  <2>1. attempt[c] = 0
    BY <1>0 DEF Starting, Before
  <2>2. UNCHANGED <<open_services, service, attempt, expired, answered, shutting_down>>
    BY <1>0
  <2> QED
    BY <1>p, <2>1, <2>2 DEF OwnAttempt
<1>5. ShutdownSettlesOpens'
  BY <1>0 DEF ShutdownSettlesOpens
<1>6. Numbered'
  BY <1>0, NumbersKept DEF Numbered
<1>7. Starting'
  BY <1>0, <1>p, StartingKept DEF Starting, Before
<1>8. Joined'
  <2>1. \A s \in Services : c \notin by_service[s].waiters
    BY <1>0, Waiters DEF Before
  <2> QED
    BY <1>0, <1>p, <2>1, JoinedKept
<1>9. Owed'
  <2>1. \A d \in Calls : pc[d] \notin Before =>
          pc'[d] \notin Before /\ attempt'[d] = attempt[d]
    BY <1>0 DEF CallType, Before
  <2>2. \A d \in Calls : taken'[d] # {} => pc'[d] = "retiring"
    BY <1>0 DEF CallType, Owed
  <2> QED
    BY <1>0, <2>1, <2>2, OwedKept
<1>10. Stopped'
  BY <1>0, StoppedKept DEF CallType
<1>11. Recorded'
  BY <1>0, RecordedKept
<1> QED
  BY <1>1, <1>2, <1>3, <1>4, <1>5, <1>6, <1>7, <1>8, <1>9, <1>10, <1>11

\* A call joins the pending attempt for its service.
LEMMA JoinStep ==
  ASSUME OpensInv, NEW c \in Calls, Join(c), UNCHANGED state_lock
  PROVE  OpensInv'
<1> DEFINE live == {w \in by_service[service[c]].waiters : ~is_closed(w)}
<1> USE DEF OpensInv, OpensTypeOK
<1>0. /\ pc[c] = "gate" /\ pc' = [pc EXCEPT ![c] = "waiting"]
      /\ attempt' = [attempt EXCEPT ![c] = by_service[service[c]].cid]
      /\ service[c] \in Services
      /\ UNCHANGED <<state_lock, open_services, next_id, service, rx, expired, taken,
                     inserting, draining, sdk, answered, over, shutting_down, stopped>>
  BY DEF Join, Go, dispatch, session, flags, CallType
<1>a. by_service[service[c]].cid # 0
  BY <1>0, AttemptPending DEF Join
<1>b. /\ by_service' \in [Services -> [cid : Nat, waiters : SUBSET Calls]]
      /\ \A s \in Services : by_service'[s].cid = by_service[s].cid
      /\ \A s \in Services : s # service[c] => by_service'[s] = by_service[s]
      /\ by_service'[service[c]].waiters = live \cup {c}
      /\ live \subseteq by_service[service[c]].waiters
  <2>1. live \subseteq Calls /\ live \subseteq by_service[service[c]].waiters
    BY <1>0 DEF TableType
  <2>2. by_service' = [by_service EXCEPT ![service[c]].waiters = live \cup {c}]
    BY DEF Join
  <2> HIDE DEF live
  <2> QED
    BY <1>0, <2>1, <2>2 DEF TableType
<1>p. /\ pc'[c] = "waiting" /\ attempt'[c] = by_service[service[c]].cid
      /\ \A d \in Calls : d # c => pc'[d] = pc[d] /\ attempt'[d] = attempt[d]
      /\ \A d \in Calls : service[d] \in Services
  BY <1>0 DEF CallType
<1>w. \A s \in Services : \A w \in by_service[s].waiters :
        w # c /\ w \in Calls /\ service[w] = s /\ attempt[w] = by_service[s].cid
          /\ pc[w] \in {"opening", "waiting", "expired", "leaving"}
  BY <1>0, SMTT(60) DEF TableType, Joined
<1>1. TableType' /\ TakenType' /\ SessionType'
  BY <1>0, <1>b DEF TableType, TakenType, SessionType
<1>2. CallType'
  BY <1>0 DEF CallType, TableType
<1>3. NoLostWaiter'
  <2>1. \A d \in Calls : InHand(d)' = InHand(d)
    BY <1>0 DEF InHand
  <2> QED
    BY <1>0, <1>b, <2>1, SMTT(60) DEF CallType, NoLostWaiter, is_closed
<1>4. OwnAttempt'
  BY <1>0 DEF CallType, OwnAttempt, Starting, Before
<1>5. ShutdownSettlesOpens'
  BY <1>0 DEF Stopped, Guarded, ShutdownSettlesOpens
<1>6. Numbered'
  <2>1. \A d \in Calls : attempt'[d] <= next_id
    BY <1>0 DEF CallType, Numbered
  <2> QED
    BY <1>0, <1>b, <2>1, NumbersKept DEF Numbered
<1>7. Starting'
  <2>1. UNCHANGED <<rx, expired, sdk, answered>>
    BY <1>0
  <2> QED
    BY <1>p, <2>1, StartingKept DEF Starting, Before
<1>8. Joined'
  <2>1. UNCHANGED <<service, answered>>
    BY <1>0
  <2>2. \A s \in Services : by_service'[s].cid = 0 <=> by_service'[s].waiters = {}
    <3>1. by_service'[service[c]].waiters # {} /\ by_service'[service[c]].cid # 0
      BY <1>0, <1>a, <1>b
    <3> QED
      BY <1>b, <3>1, SMTT(60) DEF Joined
  <2>3. ASSUME NEW s \in Services, NEW d \in by_service'[s].waiters
        PROVE  /\ service[d] = s /\ attempt'[d] = by_service'[s].cid
               /\ pc'[d] \in {"opening", "waiting", "expired", "leaving"}
    <3> HIDE DEF live
    <3>1. \/ d = c /\ s = service[c]
          \/ d \in by_service[s].waiters
      BY <1>b
    <3> QED
      BY <1>b, <1>p, <1>w, <3>1, SMTT(60)
  <2>4. \A s \in Services, d \in Calls :
          by_service'[s].cid # 0 /\ attempt'[d] = by_service'[s].cid => service[d] = s
    <3>1. \E w \in by_service[service[c]].waiters : w \in Calls
      BY <1>0, <1>a, <1>w, SMTT(60) DEF Joined
    <3>2. \A s \in Services : by_service[s].cid # 0 =>
            (by_service[s].cid = by_service[service[c]].cid => s = service[c])
      BY <1>0, <1>w, <3>1, SMTT(60) DEF Joined
    <3> QED
      BY <1>b, <1>p, <3>2, SMTT(60) DEF Joined
  <2> QED
    BY <1>b, <2>1, <2>2, <2>3, <2>4, SMTT(60) DEF Joined
<1>9. Owed'
  <2>1. \A d \in Calls : pc[d] \notin Before =>
          pc'[d] \notin Before /\ attempt'[d] = attempt[d]
    BY <1>0 DEF CallType, Before
  <2>2. \A d \in Calls : taken'[d] # {} => pc'[d] = "retiring"
    BY <1>0 DEF CallType, Owed
  <2> QED
    BY <1>0, <2>1, <2>2, OwedKept
<1>10. Stopped'
  BY <1>0, StoppedKept DEF CallType
<1>11. Recorded'
  <2>1. answered[by_service[service[c]].cid] = "none"
    BY <1>0, <1>a DEF Joined
  <2>2. UNCHANGED <<state_lock, open_services, service, answered>>
    BY <1>0
  <2> QED
    BY <1>p, <2>1, <2>2, SMTT(60) DEF Recorded
<1> QED
  BY <1>1, <1>2, <1>3, <1>4, <1>5, <1>6, <1>7, <1>8, <1>9, <1>10, <1>11

\* The SDK refuses a new attempt: only its number is used up.
LEMMA RegisterRefused ==
  ASSUME OpensInv, NEW c \in Calls, Register(c), pc'[c] = "ended", UNCHANGED state_lock
  PROVE  OpensInv'
<1> USE DEF OpensInv, OpensTypeOK
<1>0. /\ pc[c] = "gate" /\ NewAttempt /\ pc' = [pc EXCEPT ![c] = "ended"]
      /\ UNCHANGED <<state_lock, open_services, by_service, service, attempt, rx, expired,
                     taken, inserting, draining, sdk, over, shutting_down, stopped>>
  BY DEF Register, Go, dispatch, flags, CallType
<1>a. /\ next_id' = next_id + 1 /\ next_id' \in Nat
      /\ answered' \in [1 .. next_id' -> Answers \cup {"none", "late"}]
      /\ \A d \in Calls : attempt[d] # 0 => answered'[attempt[d]] = answered[attempt[d]]
      /\ \A s \in Services : by_service[s].cid # 0 =>
           answered'[by_service[s].cid] = answered[by_service[s].cid]
      /\ \A k \in sdk : k # 0 /\ k <= next_id' /\ answered'[k] = "none"
  BY <1>0, NewNumber
<1>p. /\ pc'[c] = "ended"
      /\ \A d \in Calls : d # c => pc'[d] = pc[d]
  BY <1>0 DEF CallType
<1>1. TakenType' /\ SessionType'
  BY <1>0, <1>a DEF TakenType, SessionType
<1>2. TableType' /\ CallType'
  BY <1>0, <1>a DEF TableType, CallType
<1>3. NoLostWaiter'
  <2>1. \A d \in Calls : InHand(d)' = InHand(d)
    BY <1>0 DEF InHand
  <2> QED
    BY <1>0, <2>1 DEF CallType, NoLostWaiter
<1>4. OwnAttempt'
  BY <1>0, <1>a DEF OwnAttempt
<1>5. ShutdownSettlesOpens'
  BY <1>0 DEF ShutdownSettlesOpens
<1>6. Numbered'
  <2>1. /\ \A d \in Calls : attempt[d] <= next_id'
        /\ \A s \in Services : by_service[s].cid <= next_id'
    BY <1>a, SMTT(60) DEF CallType, TableType, Numbered
  <2> QED
    BY <1>0, <1>a, <2>1 DEF Numbered
<1>7. Starting'
  <2>1. \A d \in Calls : pc'[d] = "opening" =>
          /\ pc[d] = "opening" /\ attempt[d] \notin sdk /\ attempt[d] # 0
    BY <1>p DEF Starting
  <2>2. \A d \in Calls : pc'[d] \in Before \cup {"expired"} => pc'[d] = pc[d]
    BY <1>p DEF Before
  <2> QED
    BY <1>0, <1>a, <2>1, <2>2, StartingKept
<1>8. Joined'
  <2>1. \A s \in Services : c \notin by_service[s].waiters
    BY <1>0, Waiters DEF Before
  <2> QED
    BY <1>0, <1>a, <1>p, <2>1, JoinedKept
<1>9. Owed'
  <2>1. \A d \in Calls : pc[d] \notin Before =>
          pc'[d] \notin Before /\ attempt'[d] = attempt[d]
    BY <1>0 DEF CallType, Before
  <2>2. \A d \in Calls : taken'[d] # {} => pc'[d] = "retiring"
    BY <1>0 DEF CallType, Owed
  <2> QED
    BY <1>0, <1>a, <2>1, <2>2, OwedKept
<1>10. Stopped'
  BY <1>0, StoppedKept DEF CallType
<1>11. Recorded'
  BY <1>0, <1>a, RecordedKept
<1> QED
  BY <1>1, <1>2, <1>3, <1>4, <1>5, <1>6, <1>7, <1>8, <1>9, <1>10, <1>11

\* A new attempt enters the table with a number nobody has used.
LEMMA RegisterMade ==
  ASSUME OpensInv, NEW c \in Calls, Register(c), pc'[c] # "ended", UNCHANGED state_lock
  PROVE  OpensInv'
<1> DEFINE new == next_id'
<1> USE DEF OpensInv, OpensTypeOK
<1>0. /\ pc[c] = "gate" /\ service[c] \in Services /\ NewAttempt
      /\ service[c] \notin open_services /\ by_service[service[c]] = NoAttempt
      /\ \/ pc' = [pc EXCEPT ![c] = "opening"] /\ sdk' = sdk
         \/ pc' = [pc EXCEPT ![c] = "waiting"] /\ sdk' = sdk \cup {new}
      /\ by_service' = [by_service EXCEPT ![service[c]] = [cid |-> new, waiters |-> {c}]]
      /\ attempt' = [attempt EXCEPT ![c] = new]
      /\ UNCHANGED <<state_lock, open_services, service, rx, expired, taken, inserting,
                     draining, over, shutting_down, stopped>>
  BY DEF Register, Go, dispatch, flags, CallType
<1>a. /\ new = next_id + 1 /\ new \in Nat /\ new # 0 /\ new \notin sdk
      /\ answered' \in [1 .. new -> Answers \cup {"none", "late"}] /\ answered'[new] = "none"
      /\ \A d \in Calls : /\ attempt[d] # new
                          /\ attempt[d] # 0 => answered'[attempt[d]] = answered[attempt[d]]
      /\ \A s \in Services :
           /\ by_service[s].cid # new
           /\ by_service[s].cid # 0 =>
                answered'[by_service[s].cid] = answered[by_service[s].cid]
      /\ \A k \in sdk : k # 0 /\ k <= new /\ answered'[k] = "none"
  BY <1>0, NewNumber
<1>c. /\ by_service' \in [Services -> [cid : Nat, waiters : SUBSET Calls]]
      /\ by_service'[service[c]].cid = new /\ by_service'[service[c]].waiters = {c}
      /\ \A s \in Services : s # service[c] => by_service'[s] = by_service[s]
  BY <1>0, <1>a DEF TableType
<1>d. sdk' \subseteq sdk \cup {new} /\ (pc'[c] = "opening" => sdk' = sdk)
  BY <1>0 DEF CallType
<1>e. /\ pc'[c] \in {"opening", "waiting"} /\ attempt'[c] = new
      /\ \A d \in Calls : d # c => pc'[d] = pc[d] /\ attempt'[d] = attempt[d]
      /\ attempt[c] = 0 /\ rx[c] = "empty"
  BY <1>0 DEF CallType, Starting, Before
<1>f. UNCHANGED <<state_lock, open_services, service, rx, expired, shutting_down>>
  BY <1>0
<1>1. TakenType' /\ SessionType'
  <2>1. TakenType'
    BY <1>0 DEF TakenType
  <2>2. SessionType'
    BY <1>0, <1>a DEF SessionType
  <2> QED
    BY <2>1, <2>2
<1>2. TableType' /\ CallType'
  <2>1. TableType'
    BY <1>0, <1>a, <1>c DEF TableType
  <2>2. CallType'
    BY <1>0, <1>a DEF CallType
  <2> QED
    BY <2>1, <2>2
<1> HIDE DEF new
<1>3. NoLostWaiter'
  <2>1. \A d \in Calls : InHand(d)' = InHand(d)
    BY <1>0 DEF InHand
  <2>2. \A d \in Calls : d # c => attempt'[d] = attempt[d]
    BY <1>0 DEF CallType
  <2>3. attempt'[c] = new
    BY <1>0 DEF CallType
  <2>4. by_service[service[c]].waiters = {}
    BY <1>0, SMTT(60) DEF NoAttempt
  <2>5. service \in [Calls -> Services]
    BY DEF CallType
  <2> QED
    BY <1>0, <1>c, <1>e, <2>1, <2>2, <2>3, <2>4, <2>5, SMTT(60) DEF NoLostWaiter
<1>4. OwnAttempt'
  BY <1>a, <1>e, <1>f, SMTT(60) DEF OwnAttempt
<1>5. ShutdownSettlesOpens'
  BY <1>0 DEF Stopped, Guarded, ShutdownSettlesOpens
<1>6. Numbered'
  <2>1. \A d \in Calls : attempt'[d] <= new
    BY <1>0, <1>a, SMTT(60) DEF CallType, TableType, Numbered
  <2>2. \A s \in Services : by_service'[s].cid <= new
    BY <1>a, <1>c, SMTT(60) DEF TableType, Numbered
  <2>3. \A k \in sdk' : k # 0 /\ k <= new /\ answered'[k] = "none"
    BY <1>a, <1>d, SMTT(60)
  <2> QED
    BY <2>1, <2>2, <2>3 DEF Numbered, new
<1>7. Starting'
  BY <1>a, <1>d, <1>e, <1>f, SMTT(60) DEF Starting, Before
<1>8. Joined'
  <2>1. \A s \in Services : by_service'[s].cid # 0 => answered'[by_service'[s].cid] = "none"
    BY <1>a, <1>c, SMTT(60) DEF Joined
  <2>2. \A s \in Services : by_service'[s].cid = 0 <=> by_service'[s].waiters = {}
    <3>1. by_service'[service[c]].waiters # {} /\ by_service'[service[c]].cid # 0
      BY <1>a, <1>c
    <3> QED
      BY <1>c, <3>1, SMTT(60) DEF Joined
  <2>3. \A s \in Services : \A d \in by_service'[s].waiters :
          /\ service[d] = s /\ attempt'[d] = by_service'[s].cid
          /\ pc'[d] \in {"opening", "waiting", "expired", "leaving"}
    <3>1. \A s \in Services : c \notin by_service[s].waiters
      BY <1>0 DEF Joined
    <3> QED
      BY <1>c, <1>e, <3>1, SMTT(60) DEF TableType, Joined
  <2>4. \A s \in Services, d \in Calls :
          by_service'[s].cid # 0 /\ attempt'[d] = by_service'[s].cid => service[d] = s
    BY <1>a, <1>c, <1>e, SMTT(60) DEF Joined
  <2> QED
    BY <1>f, <2>1, <2>2, <2>3, <2>4, SMTT(60) DEF Joined
<1>9. Owed'
  <2>1. \A d \in Calls : pc[d] \notin Before =>
          pc'[d] \notin Before /\ attempt'[d] = attempt[d]
    BY <1>0 DEF CallType, Before
  <2>2. \A d \in Calls : taken'[d] # {} => pc'[d] = "retiring"
    BY <1>0 DEF CallType, Owed
  <2> QED
    BY <1>0, <1>a, <2>1, <2>2, OwedKept
<1>10. Stopped'
  BY <1>0, StoppedKept DEF CallType
<1>11. Recorded'
  BY <1>a, <1>e, <1>f, SMTT(60) DEF Recorded
<1> QED
  BY <1>1, <1>2, <1>3, <1>4, <1>5, <1>6, <1>7, <1>8, <1>9, <1>10, <1>11

\* The SDK accepts the attempt of a subscription session.
LEMMA OpenAccepted ==
  ASSUME OpensInv, NEW c \in Calls, OpenAsync(c), pc'[c] = "waiting", UNCHANGED state_lock
  PROVE  OpensInv'
<1> USE DEF OpensInv, OpensTypeOK
<1>0. /\ pc[c] = "opening" /\ pc' = [pc EXCEPT ![c] = "waiting"]
      /\ sdk' = sdk \cup {attempt[c]} /\ attempt[c] \in Nat
      /\ UNCHANGED <<state_lock, open_services, next_id, by_service, service, attempt, rx,
                     expired, taken, inserting, draining, answered, over, shutting_down,
                     stopped>>
  BY DEF OpenAsync, Go, table, dispatch, flags, CallType
<1>p. /\ pc'[c] = "waiting"
      /\ \A d \in Calls : d # c => pc'[d] = pc[d]
  BY <1>0 DEF CallType
<1>1. TableType' /\ TakenType'
  BY <1>0 DEF TableType, TakenType
<1>2. CallType' /\ SessionType'
  BY <1>0 DEF CallType, SessionType
<1>3. NoLostWaiter'
  <2>1. \A d \in Calls : InHand(d)' = InHand(d)
    BY <1>0 DEF InHand
  <2> QED
    BY <1>0, <2>1 DEF CallType, NoLostWaiter
<1>4. OwnAttempt'
  BY <1>0 DEF OwnAttempt
<1>5. ShutdownSettlesOpens'
  BY <1>0 DEF ShutdownSettlesOpens
<1>6. Numbered'
  <2>1. \A k \in sdk' : k # 0 /\ k <= next_id /\ answered[k] = "none"
    BY <1>0 DEF Numbered, Starting
  <2> QED
    BY <1>0, <2>1, NumbersKept DEF Numbered
<1>7. Starting'
  <2>1. \A d \in Calls : pc'[d] = "opening" => pc[d] = "opening" /\ attempt[d] \notin sdk'
    BY <1>0, <1>p DEF Starting
  <2>2. \A d \in Calls : pc'[d] \in Before \cup {"expired"} => pc'[d] = pc[d]
    BY <1>p DEF Before
  <2> QED
    BY <1>0, <2>1, <2>2, StartingKept
<1>8. Joined'
  BY <1>0, <1>p, JoinedKept
<1>9. Owed'
  <2>1. \A d \in Calls : pc[d] \notin Before =>
          pc'[d] \notin Before /\ attempt'[d] = attempt[d]
    BY <1>0 DEF CallType, Before
  <2>2. \A d \in Calls : taken'[d] # {} => pc'[d] = "retiring"
    BY <1>0 DEF CallType, Owed
  <2> QED
    BY <1>0, <2>1, <2>2, OwedKept
<1>10. Stopped'
  BY <1>0, StoppedKept DEF CallType
<1>11. Recorded'
  BY <1>0, RecordedKept
<1> QED
  BY <1>1, <1>2, <1>3, <1>4, <1>5, <1>6, <1>7, <1>8, <1>9, <1>10, <1>11

\* The SDK refuses it: the attempt goes, and who joined it loses their sender.
LEMMA OpenRefused ==
  ASSUME OpensInv, NEW c \in Calls, OpenAsync(c), pc'[c] # "waiting", UNCHANGED state_lock
  PROVE  OpensInv'
<1> USE DEF OpensInv, OpensTypeOK
<1>0. /\ pc[c] = "opening" /\ pc' = [pc EXCEPT ![c] = "ended"]
      /\ service[c] \in Services /\ attempt[c] # 0
      /\ IF pending(service[c], attempt[c])
           THEN /\ remove(service[c])
                /\ Tell(by_service[service[c]].waiters \ {c}, "closed")
           ELSE by_service' = by_service /\ rx' = rx
      /\ UNCHANGED <<state_lock, open_services, next_id, sdk, service, attempt, expired,
                     taken, inserting, draining, answered, over, shutting_down, stopped>>
  BY DEF OpenAsync, Go, table, dispatch, flags, CallType, Starting
<1>p. /\ pc'[c] = "ended"
      /\ \A d \in Calls : d # c => pc'[d] = pc[d]
  BY <1>0 DEF CallType
<1>a. /\ by_service' \in [Services -> [cid : Nat, waiters : SUBSET Calls]]
      /\ \A s \in Services : by_service'[s] = by_service[s] \/ by_service'[s] = NoAttempt
      /\ \A s \in Services : by_service'[s].cid \in {0, by_service[s].cid}
      /\ \A s \in Services : c \notin by_service'[s].waiters
  BY <1>0, OwnRemoved
<1>b. /\ rx' \in [Calls -> Outcomes \cup {"empty", "closed"}]
      /\ \A d \in Calls : rx'[d] \in {rx[d], "closed"}
      /\ \A d \in Calls : pc[d] \in Before => rx'[d] = rx[d]
  <2>1. CASE pending(service[c], attempt[c])
    <3>1. \A w \in by_service[service[c]].waiters : pc[w] \notin Before
      BY <1>0, Waiters
    <3>2. Tell(by_service[service[c]].waiters \ {c}, "closed")
      BY <1>0, <2>1
    <3> QED
      BY <3>1, <3>2, SMTT(60) DEF CallType, Tell
  <2>2. CASE ~pending(service[c], attempt[c])
    BY <1>0, <2>2 DEF CallType
  <2> QED
    BY <2>1, <2>2
<1>1. TakenType' /\ SessionType' /\ TableType'
  BY <1>0, <1>a DEF TakenType, SessionType, TableType
<1>2. CallType'
  BY <1>0, <1>b DEF CallType
<1>3. NoLostWaiter'
  <2>1. \A d \in Calls : InHand(d)' = InHand(d)
    BY <1>0 DEF InHand
  <2>2. CASE pending(service[c], attempt[c])
    <3> SUFFICES ASSUME NEW d \in Calls, pc'[d] \in {"opening", "waiting"},
                        rx'[d] = "empty"
                 PROVE  \/ /\ d \in by_service'[service[d]].waiters
                           /\ by_service'[service[d]].cid = attempt[d]
                        \/ InHand(d)
      BY <1>0, <2>1 DEF NoLostWaiter
    <3>1. d # c /\ pc[d] \in {"opening", "waiting"} /\ service[d] \in Services
      BY <1>0 DEF CallType
    <3>2. d \notin by_service[service[c]].waiters /\ rx[d] = "empty"
      BY <1>0, <2>2, <3>1 DEF Tell, is_closed
    <3>3. service[d] # service[c] => by_service'[service[d]] = by_service[service[d]]
      BY <1>0, <2>2, <3>1, Removed
    <3> QED
      BY <3>1, <3>2, <3>3 DEF NoLostWaiter
  <2>3. CASE ~pending(service[c], attempt[c])
    BY <1>0, <2>1, <2>3 DEF CallType, NoLostWaiter
  <2> QED
    BY <2>2, <2>3
<1>4. OwnAttempt'
  BY <1>0, <1>b, OwnKept
<1>5. ShutdownSettlesOpens'
  BY <1>0, <1>a DEF ShutdownSettlesOpens
<1>6. Numbered'
  BY <1>0, <1>a, NumbersKept DEF Numbered
<1>7. Starting'
  <2>1. \A d \in Calls : pc'[d] = "opening" => pc[d] = "opening" /\ attempt[d] \notin sdk
    BY <1>p DEF Starting
  <2>2. \A d \in Calls : pc'[d] \in Before \cup {"expired"} => pc'[d] = pc[d]
    BY <1>p DEF Before
  <2> QED
    BY <1>0, <1>b, <2>1, <2>2, StartingKept
<1>8. Joined'
  BY <1>0, <1>a, <1>p, JoinedKept
<1>9. Owed'
  <2>1. \A d \in Calls : pc[d] \notin Before =>
          pc'[d] \notin Before /\ attempt'[d] = attempt[d]
    BY <1>0, <1>p DEF Before
  <2>2. \A d \in Calls : taken'[d] # {} => pc'[d] = "retiring"
    BY <1>0, <1>p DEF Owed
  <2> QED
    BY <1>0, <2>1, <2>2, OwedKept
<1>10. Stopped'
  BY <1>0, StoppedKept DEF CallType
<1>11. Recorded'
  BY <1>0, RecordedKept
<1> QED
  BY <1>1, <1>2, <1>3, <1>4, <1>5, <1>6, <1>7, <1>8, <1>9, <1>10, <1>11

\* The timer of a call fired: it takes its attempt out for every waiter.
LEMMA RetireStep ==
  ASSUME OpensInv, NEW c \in Calls, Retire(c), UNCHANGED state_lock
  PROVE  OpensInv'
<1> USE DEF OpensInv, OpensTypeOK
<1>0. /\ pc[c] = "expired" /\ pc' = [pc EXCEPT ![c] = "retiring"]
      /\ service[c] \in Services /\ c \in Actors
      /\ attempt[c] \in expired /\ taken[c] = {}
      /\ IF pending(service[c], attempt[c])
           THEN /\ remove(service[c])
                /\ taken' = [taken EXCEPT ![c] = by_service[service[c]].waiters \X {"timeout"}]
           ELSE by_service' = by_service /\ taken' = taken
      /\ UNCHANGED <<state_lock, open_services, next_id, service, attempt, rx, expired,
                     inserting, draining, sdk, answered, over, shutting_down, stopped>>
  BY DEF Retire, Go, dispatch, session, flags, Actors, CallType, Starting, Owed
<1>p. /\ pc'[c] = "retiring"
      /\ \A d \in Calls : d # c => pc'[d] = pc[d]
  BY <1>0 DEF CallType
<1>a. /\ by_service' \in [Services -> [cid : Nat, waiters : SUBSET Calls]]
      /\ \A s \in Services : by_service'[s] = by_service[s] \/ by_service'[s] = NoAttempt
      /\ \A s \in Services : by_service'[s].cid \in {0, by_service[s].cid}
      /\ \A s \in Services : c \notin by_service'[s].waiters
  BY <1>0, OwnRemoved
<1>b. /\ taken' \in [Actors -> SUBSET (Calls \X Outcomes)]
      /\ \A a \in Actors : a # c => taken'[a] = taken[a]
      /\ \A t \in taken'[c] :
           /\ t[1] \in Calls /\ t[2] = "timeout"
           /\ attempt[t[1]] = attempt[c] /\ attempt[c] # 0 /\ pc[t[1]] \notin Before
  <2>1. CASE pending(service[c], attempt[c])
    <3> DEFINE W == by_service[service[c]].waiters
    <3>1. W \in SUBSET Calls
      BY <1>0 DEF TableType
    <3>2. \A w \in W : attempt[w] = attempt[c] /\ pc[w] \notin Before
      BY <1>0, <2>1, Waiters DEF pending
    <3>3. taken' = [taken EXCEPT ![c] = W \X {"timeout"}] /\ attempt[c] # 0
      BY <1>0, <2>1 DEF pending
    <3> HIDE DEF W
    <3>4. W \X {"timeout"} \in SUBSET (Calls \X Outcomes)
      BY <3>1 DEF Outcomes
    <3>5. taken' \in [Actors -> SUBSET (Calls \X Outcomes)]
      BY <1>0, <3>3, <3>4 DEF TakenType
    <3>6. taken'[c] = W \X {"timeout"} /\ \A a \in Actors : a # c => taken'[a] = taken[a]
      BY <1>0, <3>3 DEF TakenType
    <3> QED
      BY <3>1, <3>2, <3>3, <3>5, <3>6
  <2>2. CASE ~pending(service[c], attempt[c])
    BY <1>0, <2>2 DEF TakenType
  <2> QED
    BY <2>1, <2>2
<1>1. SessionType' /\ TableType' /\ TakenType'
  BY <1>0, <1>a, <1>b DEF SessionType, TableType, TakenType
<1>2. CallType'
  BY <1>0 DEF CallType
<1>3. NoLostWaiter'
  <2> SUFFICES ASSUME NEW d \in Calls, pc'[d] \in {"opening", "waiting"}, rx[d] = "empty"
               PROVE  \/ /\ d \in by_service'[service[d]].waiters
                         /\ by_service'[service[d]].cid = attempt[d]
                      \/ InHand(d)'
    BY <1>0 DEF NoLostWaiter
  <2>1. pc[d] \in {"opening", "waiting"} /\ d # c /\ service[d] \in Services
    BY <1>0 DEF CallType
  <2>2. InHand(d) => InHand(d)'
    BY <1>0, <1>b DEF InHand
  <2>3. CASE pending(service[c], attempt[c])
    <3>1. d \in by_service[service[c]].waiters => InHand(d)'
      BY <1>0, <2>3 DEF TakenType, InHand, Outcomes
    <3>2. service[d] # service[c] => by_service'[service[d]] = by_service[service[d]]
      BY <1>0, <2>1, <2>3, Removed
    <3> QED
      BY <2>1, <2>2, <3>1, <3>2 DEF NoLostWaiter
  <2>4. CASE ~pending(service[c], attempt[c])
    BY <1>0, <2>1, <2>2, <2>4 DEF NoLostWaiter
  <2> QED
    BY <2>3, <2>4
<1>4. OwnAttempt'
  BY <1>0 DEF OwnAttempt
<1>5. ShutdownSettlesOpens'
  BY <1>0, <1>a DEF ShutdownSettlesOpens
<1>6. Numbered'
  BY <1>0, <1>a, NumbersKept DEF Numbered
<1>7. Starting'
  <2>1. \A d \in Calls : pc'[d] = "opening" => pc[d] = "opening" /\ attempt[d] \notin sdk
    BY <1>p DEF Starting
  <2>2. \A d \in Calls : pc'[d] \in Before \cup {"expired"} => pc'[d] = pc[d]
    BY <1>p DEF Before
  <2> QED
    BY <1>0, <2>1, <2>2, StartingKept
<1>8. Joined'
  BY <1>0, <1>a, <1>p, JoinedKept
<1>9. Owed'
  <2> SUFFICES ASSUME NEW a \in Actors, NEW t \in taken'[a]
               PROVE  /\ pc'[t[1]] \notin Before /\ attempt[t[1]] # 0
                      /\ Deserved(t[1], t[2], open_services \cup
                                   IF a = Dispatcher THEN inserting ELSE {})'
    <3>1. \A d \in Calls : taken'[d] # {} => pc'[d] = "retiring"
      BY <1>0, <1>b DEF CallType, Owed, Actors
    <3> QED
      BY <1>0, <3>1 DEF Owed
  <2>1. t[1] \in Calls
    BY <1>1, SMTT(60) DEF TakenType
  <2>2. /\ pc[t[1]] \notin Before /\ attempt[t[1]] # 0
        /\ Deserved(t[1], t[2], open_services \cup IF a = Dispatcher THEN inserting ELSE {})
    <3>1. CASE a = c
      BY <1>0, <1>b, <3>1 DEF Deserved
    <3>2. CASE a # c
      BY <1>b, <3>2 DEF Owed
    <3> QED
      BY <3>1, <3>2
  <2>3. pc'[t[1]] \notin Before
    BY <1>0, <2>1, <2>2 DEF CallType, Before
  <2> QED
    BY <1>0, <2>2, <2>3 DEF Deserved
<1>10. Stopped'
  BY <1>0, StoppedKept DEF CallType
<1>11. Recorded'
  BY <1>0, RecordedKept
<1> QED
  BY <1>1, <1>2, <1>3, <1>4, <1>5, <1>6, <1>7, <1>8, <1>9, <1>10, <1>11

\* The drop of a waiter: it leaves its attempt, the last one takes it out.
LEMMA PruneStep ==
  ASSUME OpensInv, NEW c \in Calls, Prune(c), UNCHANGED state_lock
  PROVE  OpensInv'
<1> DEFINE live == {w \in by_service[service[c]].waiters : ~is_closed(w)}
<1> USE DEF OpensInv, OpensTypeOK
<1>0. /\ pc[c] = "leaving" /\ pc' = [pc EXCEPT ![c] = "ended"]
      /\ rx' = [rx EXCEPT ![c] = "empty"] /\ service[c] \in Services
      /\ UNCHANGED <<state_lock, open_services, next_id, service, attempt, expired, taken,
                     inserting, draining, sdk, answered, over, shutting_down, stopped>>
  BY DEF Prune, Go, dispatch, session, flags, CallType
<1>a. /\ by_service' \in [Services -> [cid : Nat, waiters : SUBSET Calls]]
      /\ \A s \in Services : s # service[c] => by_service'[s] = by_service[s]
      /\ \/ by_service'[service[c]] = by_service[service[c]]
         \/ /\ by_service'[service[c]].cid = by_service[service[c]].cid
            /\ by_service'[service[c]].waiters = live /\ live # {}
         \/ by_service'[service[c]] = NoAttempt /\ live = {}
      /\ c \notin by_service'[service[c]].waiters
  <2>1. CASE pending(service[c], attempt[c]) /\ live = {}
    <3>1. remove(service[c])
      BY <2>1 DEF Prune, remove
    <3> QED
      BY <1>0, <2>1, <3>1, Removed, EmptyEntry
  <2>2. CASE pending(service[c], attempt[c]) /\ live # {}
    <3>1. by_service' = [by_service EXCEPT ![service[c]] = [@ EXCEPT !.waiters = live]]
      BY <2>2 DEF Prune
    <3>2. live \in SUBSET Calls /\ c \notin live
      BY <1>0 DEF TableType, is_closed
    <3> HIDE DEF live
    <3> QED
      BY <1>0, <2>2, <3>1, <3>2 DEF TableType
  <2>3. CASE ~pending(service[c], attempt[c])
    <3>1. by_service' = by_service
      BY <2>3 DEF Prune
    <3>2. c \in by_service[service[c]].waiters => pending(service[c], attempt[c])
      BY <1>0, Waiters DEF pending
    <3> QED
      BY <2>3, <3>1, <3>2 DEF TableType
  <2> QED
    BY <2>1, <2>2, <2>3
<1>b. /\ \A d \in Calls : d # c => pc'[d] = pc[d] /\ rx'[d] = rx[d]
      /\ rx'[c] = "empty" /\ pc'[c] = "ended"
  BY <1>0 DEF CallType
<1>1. TableType' /\ TakenType' /\ SessionType'
  BY <1>0, <1>a DEF TableType, TakenType, SessionType
<1>2. CallType'
  BY <1>0 DEF CallType
<1>3. NoLostWaiter'
  <2> SUFFICES ASSUME NEW d \in Calls, pc'[d] \in {"opening", "waiting"}, rx'[d] = "empty"
               PROVE  \/ /\ d \in by_service'[service[d]].waiters
                         /\ by_service'[service[d]].cid = attempt[d]
                      \/ InHand(d)'
    BY <1>0 DEF NoLostWaiter
  <2>1. /\ pc[d] \in {"opening", "waiting"} /\ d # c /\ rx[d] = "empty"
        /\ ~is_closed(d) /\ service[d] \in Services
    BY <1>b DEF CallType, is_closed
  <2>2. InHand(d)' = InHand(d)
    BY <1>0 DEF InHand
  <2>3. d \in by_service[service[c]].waiters => d \in live
    BY <2>1
  <2> HIDE DEF live
  <2> QED
    BY <1>a, <2>1, <2>2, <2>3 DEF NoLostWaiter
<1>4. OwnAttempt'
  BY <1>0, <1>b, OwnKept
<1>5. ShutdownSettlesOpens'
  <2>1. by_service[service[c]] = NoAttempt => live = {}
    BY EmptyEntry
  <2> HIDE DEF live
  <2> QED
    BY <1>0, <1>a, <2>1 DEF ShutdownSettlesOpens
<1> HIDE DEF live
<1>c. \A s \in Services :
        /\ by_service'[s].cid = 0 \/ by_service'[s].cid = by_service[s].cid
        /\ by_service'[s].waiters \subseteq by_service[s].waiters
        /\ by_service'[s].cid = 0 <=> by_service'[s].waiters = {}
        /\ c \notin by_service'[s].waiters
  <2> SUFFICES ASSUME NEW s \in Services
               PROVE  /\ by_service'[s].cid = 0 \/ by_service'[s].cid = by_service[s].cid
                      /\ by_service'[s].waiters \subseteq by_service[s].waiters
                      /\ by_service'[s].cid = 0 <=> by_service'[s].waiters = {}
                      /\ c \notin by_service'[s].waiters
    OBVIOUS
  <2>1. CASE s # service[c]
    BY <1>0, <1>a, <2>1, Waiters, SMTT(60) DEF Joined
  <2>2. CASE s = service[c]
    <3>1. live \subseteq by_service[s].waiters /\ (by_service[s].waiters = {} => live = {})
      BY <2>2 DEF live
    <3>2. by_service[s].cid = 0 <=> by_service[s].waiters = {}
      BY DEF Joined
    <3> QED
      BY <1>a, <2>2, <3>1, <3>2, EmptyEntry
  <2> QED
    BY <2>1, <2>2
<1>6. Numbered'
  <2>1. \A s \in Services : by_service'[s].cid \in {0, by_service[s].cid}
    BY <1>c
  <2> QED
    BY <1>0, <2>1, NumbersKept DEF Numbered
<1>7. Starting'
  <2>1. \A d \in Calls : pc'[d] \in Before \cup {"opening", "expired"} =>
          pc'[d] = pc[d] /\ rx'[d] = rx[d] /\ attempt'[d] = attempt[d]
    BY <1>0, <1>b DEF Before
  <2>2. \A d \in Calls : pc'[d] = "opening" => pc[d] = "opening" /\ attempt[d] \notin sdk
    BY <2>1 DEF Starting
  <2> QED
    BY <1>0, <2>1, <2>2, StartingKept
<1>8. Joined'
  <2>1. \A s \in Services : \A d \in by_service'[s].waiters :
          /\ service[d] = s /\ attempt[d] = by_service'[s].cid
          /\ pc'[d] \in {"opening", "waiting", "expired", "leaving"}
    <3> SUFFICES ASSUME NEW s \in Services, NEW d \in by_service'[s].waiters
                 PROVE  /\ service[d] = s /\ attempt[d] = by_service'[s].cid
                        /\ pc'[d] \in {"opening", "waiting", "expired", "leaving"}
      OBVIOUS
    <3>1. /\ d \in by_service[s].waiters /\ d # c
          /\ by_service'[s].cid = by_service[s].cid
      BY <1>c
    <3>2. /\ d \in Calls /\ service[d] = s /\ attempt[d] = by_service[s].cid
          /\ pc[d] \in {"opening", "waiting", "expired", "leaving"}
      BY <3>1, Waiters
    <3> QED
      BY <1>b, <3>1, <3>2
  <2>2. UNCHANGED <<service, attempt, answered>>
    BY <1>0
  <2> QED
    BY <1>c, <2>1, <2>2, SMTT(60) DEF Joined
<1>9. Owed'
  <2>1. \A d \in Calls : pc[d] \notin Before =>
          pc'[d] \notin Before /\ attempt'[d] = attempt[d]
    BY <1>0, <1>b DEF Before
  <2>2. \A d \in Calls : taken'[d] # {} => pc'[d] = "retiring"
    BY <1>0, <1>b DEF Owed
  <2> QED
    BY <1>0, <2>1, <2>2, OwedKept
<1>10. Stopped'
  BY <1>0, <1>b, StoppedKept
<1>11. Recorded'
  BY <1>0, RecordedKept
<1> QED
  BY <1>1, <1>2, <1>3, <1>4, <1>5, <1>6, <1>7, <1>8, <1>9, <1>10, <1>11

-----------------------------------------------------------------------------
(* The steps of the threads that resolve calls. *)

\* A thread resolves one of the senders in its hands.
LEMMA CompleteStep ==
  ASSUME OpensInv, NEW a \in Actors, Complete(a), UNCHANGED state_lock
  PROVE  OpensInv'
<1> USE DEF OpensInv, OpensTypeOK
<1>0. PICK t \in taken[a] :
        /\ rx' = IF is_closed(t[1]) THEN rx ELSE [rx EXCEPT ![t[1]] = t[2]]
        /\ taken' = [taken EXCEPT ![a] = @ \ {t}]
  BY DEF Complete
<1>a. /\ a = Dispatcher => inserting = {}
      /\ UNCHANGED <<state_lock, open_services, next_id, by_service, pc, service, attempt,
                     expired, inserting, draining, sdk, answered, over, shutting_down, stopped>>
  BY DEF Complete, table, dispatch, session, flags
<1>b. t[1] \in Calls /\ t[2] \in Outcomes /\ t = <<t[1], t[2]>>
  BY SMTT(60) DEF TakenType
<1>c. /\ \A d \in Calls : d # t[1] \/ is_closed(d) => rx'[d] = rx[d]
      /\ ~is_closed(t[1]) => rx'[t[1]] = t[2]
      /\ rx' \in [Calls -> Outcomes \cup {"empty", "closed"}]
  BY <1>0, <1>b DEF CallType
<1>d. /\ \A b \in Actors : taken'[b] \subseteq taken[b]
      /\ \A b \in Actors : \A u \in taken[b] : u # t => u \in taken'[b]
      /\ taken' \in [Actors -> SUBSET (Calls \X Outcomes)]
  BY <1>0 DEF TakenType
<1>e. /\ pc[t[1]] \notin Before /\ attempt[t[1]] # 0
      /\ Deserved(t[1], t[2], open_services)
  <2>1. open_services \cup (IF a = Dispatcher THEN inserting ELSE {}) = open_services
    BY <1>a
  <2> QED
    BY <2>1 DEF Owed
<1>1. TableType' /\ TakenType' /\ SessionType'
  BY <1>a, <1>d DEF TableType, TakenType, SessionType
<1>2. CallType'
  BY <1>a, <1>c DEF CallType
<1>3. NoLostWaiter'
  <2> SUFFICES ASSUME NEW d \in Calls, pc[d] \in {"opening", "waiting"}, rx'[d] = "empty"
               PROVE  \/ /\ d \in by_service[service[d]].waiters
                         /\ by_service[service[d]].cid = attempt[d]
                      \/ InHand(d)'
    BY <1>a DEF NoLostWaiter
  <2>1. ~is_closed(d)
    BY DEF is_closed
  <2>2. d # t[1] /\ rx[d] = "empty"
    BY <1>b, <1>c, <2>1 DEF Outcomes
  <2>3. \A o \in Outcomes : <<d, o>> # t
    BY <1>b, <2>2, SMTT(60)
  <2>4. InHand(d) => InHand(d)'
    BY <1>d, <2>3 DEF InHand
  <2> QED
    BY <2>2, <2>4 DEF NoLostWaiter
<1>4. OwnAttempt'
  BY <1>a, <1>b, <1>c, <1>e, SMTT(60) DEF OwnAttempt, Deserved
<1>5. ShutdownSettlesOpens'
  BY <1>a DEF ShutdownSettlesOpens
<1>6. Numbered'
  BY <1>a, NumbersKept DEF Numbered
<1>7. Starting'
  <2>1. \A d \in Calls : pc[d] \in Before => rx'[d] = rx[d]
    BY <1>c, <1>e
  <2> QED
    BY <1>a, <2>1 DEF Starting
<1>8. Joined'
  BY <1>a DEF Joined
<1>9. Owed'
  <2>1. \A d \in Calls : taken'[d] # {} => pc'[d] = "retiring"
    BY <1>a, <1>d DEF Owed, Actors
  <2> QED
    BY <1>a, <1>d, <2>1, OwedKept
<1>10. Stopped'
  BY <1>a, StoppedKept
<1>11. Recorded'
  BY <1>a, RecordedKept
<1> QED
  BY <1>1, <1>2, <1>3, <1>4, <1>5, <1>6, <1>7, <1>8, <1>9, <1>10, <1>11

\* An answer of the SDK is the first for its attempt, and no call was told of one.
LEMMA AnswerNew ==
  ASSUME TableType, CallType, SessionType, Numbered, NEW k \in sdk,
         NEW m \in Answers \cup {"late"}, next_id' = next_id,
         sdk' = sdk \ {k}, answered' = [answered EXCEPT ![k] = m]
  PROVE  /\ answered' \in [1 .. next_id' -> Answers \cup {"none", "late"}]
         /\ sdk' \subseteq Nat
         /\ k # 0 /\ answered[k] = "none" /\ answered'[k] = m /\ k \notin sdk'
         /\ \A d \in Calls : attempt[d] \notin {0, k} =>
              answered'[attempt[d]] = answered[attempt[d]]
         /\ \A s \in Services : by_service[s].cid \notin {0, k} =>
              answered'[by_service[s].cid] = answered[by_service[s].cid]
         /\ \A i \in sdk' : i # 0 /\ i <= next_id /\ answered'[i] = "none"
<1>1. \A i \in sdk : i \in 1 .. next_id
  BY SMTT(60) DEF SessionType, TableType, Numbered
<1>2. /\ answered' \in [1 .. next_id -> Answers \cup {"none", "late"}]
      /\ answered'[k] = m /\ \A i \in 1 .. next_id : i # k => answered'[i] = answered[i]
  BY <1>1 DEF SessionType
<1>3. k # 0 /\ answered[k] = "none" /\ sdk' \subseteq Nat
  BY DEF Numbered, SessionType
<1> QED
  BY <1>1, <1>2, <1>3, InUse DEF Numbered

\* An answer to an attempt that is no longer pending reaches nobody.
LEMMA LateAnswerStep ==
  ASSUME OpensInv, NEW k \in sdk, LateAnswer(k), UNCHANGED state_lock
  PROVE  OpensInv'
<1> USE DEF OpensInv, OpensTypeOK
<1>0. /\ sdk' = sdk \ {k} /\ answered' = [answered EXCEPT ![k] = "late"]
      /\ \A s \in Services : ~pending(s, k)
      /\ UNCHANGED <<state_lock, open_services, next_id, by_service, pc, service, attempt,
                     rx, expired, taken, inserting, draining, over, shutting_down, stopped>>
  BY DEF LateAnswer, table, call, dispatch, flags
<1>a. /\ answered' \in [1 .. next_id' -> Answers \cup {"none", "late"}]
      /\ sdk' \subseteq Nat
      /\ k # 0 /\ answered[k] = "none" /\ answered'[k] = "late"
      /\ \A d \in Calls : attempt[d] \notin {0, k} =>
           answered'[attempt[d]] = answered[attempt[d]]
      /\ \A s \in Services : by_service[s].cid \notin {0, k} =>
           answered'[by_service[s].cid] = answered[by_service[s].cid]
      /\ \A i \in sdk' : i # 0 /\ i <= next_id /\ answered'[i] = "none"
  BY <1>0, AnswerNew
<1>b. \A d \in Calls : attempt[d] # 0 /\ answered[attempt[d]] \in Answers =>
        answered'[attempt[d]] = answered[attempt[d]]
  BY <1>a DEF Answers
<1>1. TableType' /\ TakenType' /\ SessionType'
  BY <1>0, <1>a DEF TableType, TakenType, SessionType
<1>2. CallType'
  BY <1>0 DEF CallType
<1>3. NoLostWaiter'
  <2>1. \A d \in Calls : InHand(d)' = InHand(d)
    BY <1>0 DEF InHand
  <2> QED
    BY <1>0, <2>1 DEF NoLostWaiter
<1>4. OwnAttempt'
  BY <1>0, <1>b, OwnKept
<1>5. ShutdownSettlesOpens'
  BY <1>0 DEF ShutdownSettlesOpens
<1>6. Numbered'
  BY <1>0, <1>a, NumbersKept DEF Numbered
<1>7. Starting'
  <2>1. \A d \in Calls : pc[d] = "opening" => attempt[d] \notin {0, k} /\ attempt[d] \notin sdk'
    BY <1>0 DEF Starting
  <2> QED
    BY <1>0, <1>a, <2>1, StartingKept
<1>8. Joined'
  <2>1. \A s \in Services : by_service[s].cid # 0 =>
          answered'[by_service[s].cid] = answered[by_service[s].cid]
    BY <1>0, <1>a DEF pending
  <2> QED
    BY <1>0, <2>1, JoinedKept
<1>9. Owed'
  BY <1>0, <1>b, OwedKept DEF Owed
<1>10. Stopped'
  BY <1>0, StoppedKept
<1>11. Recorded'
  <2>1. \A d \in Calls : attempt[d] # 0 =>
          answered'[attempt[d]] \in {answered[attempt[d]], "late"}
    BY <1>a
  <2> QED
    BY <1>0, <2>1, RecordedKept
<1> QED
  BY <1>1, <1>2, <1>3, <1>4, <1>5, <1>6, <1>7, <1>8, <1>9, <1>10, <1>11

\* The request worker takes the attempt out, and will tell its waiters.
LEMMA TakeAnswerStep ==
  ASSUME OpensInv, NEW k \in sdk, NEW m \in Answers, NEW s \in Services,
         TakeAnswer(k, m, s), UNCHANGED state_lock
  PROVE  OpensInv'
<1> DEFINE W == by_service[s].waiters
<1> USE DEF OpensInv, OpensTypeOK
<1>0. /\ ~state_lock /\ taken[Dispatcher] = {} /\ inserting = {} /\ pending(s, k)
      /\ sdk' = sdk \ {k} /\ answered' = [answered EXCEPT ![k] = m] /\ remove(s)
      /\ taken' = [taken EXCEPT ![Dispatcher] = W \X {Verdict(m)}]
      /\ inserting' = IF m = "opened" THEN {s} ELSE {}
      /\ UNCHANGED <<state_lock, open_services, next_id, pc, service, attempt, rx, expired,
                     draining, over, shutting_down, stopped>>
  BY DEF TakeAnswer, DispatcherIdle, call, flags
<1>a. /\ answered' \in [1 .. next_id' -> Answers \cup {"none", "late"}]
      /\ sdk' \subseteq Nat
      /\ k # 0 /\ answered[k] = "none" /\ answered'[k] = m
      /\ \A d \in Calls : attempt[d] \notin {0, k} =>
           answered'[attempt[d]] = answered[attempt[d]]
      /\ \A r \in Services : by_service[r].cid \notin {0, k} =>
           answered'[by_service[r].cid] = answered[by_service[r].cid]
      /\ \A i \in sdk' : i # 0 /\ i <= next_id /\ answered'[i] = "none"
  BY <1>0, AnswerNew
<1>b. /\ by_service' \in [Services -> [cid : Nat, waiters : SUBSET Calls]]
      /\ by_service'[s] = NoAttempt
      /\ \A r \in Services : r # s => by_service'[r] = by_service[r]
  BY <1>0, Removed
<1>c. /\ W \subseteq Calls
      /\ \A w \in W : service[w] = s /\ attempt[w] = k /\ pc[w] \notin Before
  <2>1. by_service[s].cid = k /\ k # 0
    BY <1>0 DEF pending
  <2> QED
    BY <2>1, Waiters
<1>d. Verdict(m) \in Outcomes /\ (Verdict(m) = "ok" => m = "opened")
      /\ (Verdict(m) = "failed" => m = "failed") /\ Verdict(m) # "timeout"
  BY DEF Verdict, Answers, Outcomes
<1> HIDE DEF W
<1>e. /\ taken' \in [Actors -> SUBSET (Calls \X Outcomes)]
      /\ taken'[Dispatcher] = W \X {Verdict(m)}
      /\ \A a \in Actors : a # Dispatcher => taken'[a] = taken[a]
      /\ Dispatcher \in Actors /\ Dispatcher \notin Calls
  BY <1>0, <1>c, <1>d, SessionConstants DEF TakenType, Actors
<1>f. \A d \in Calls : attempt[d] # 0 /\ answered[attempt[d]] \in Answers =>
        answered'[attempt[d]] = answered[attempt[d]]
  BY <1>a DEF Answers
<1>1. TableType' /\ TakenType'
  BY <1>0, <1>b, <1>e DEF TableType, TakenType
<1>2. CallType' /\ SessionType'
  <2>1. inserting' \subseteq Services
    BY <1>0
  <2> QED
    BY <1>0, <1>a, <2>1 DEF CallType, SessionType
<1>3. NoLostWaiter'
  <2> SUFFICES ASSUME NEW d \in Calls, pc[d] \in {"opening", "waiting"}, rx[d] = "empty"
               PROVE  \/ /\ d \in by_service'[service[d]].waiters
                         /\ by_service'[service[d]].cid = attempt[d]
                      \/ InHand(d)'
    BY <1>0 DEF NoLostWaiter
  <2>1. d \in W => InHand(d)'
    BY <1>d, <1>e DEF InHand
  <2>2. InHand(d) => InHand(d)'
    BY <1>0, <1>e DEF InHand
  <2>3. service[d] \in Services
    BY DEF CallType
  <2> QED
    BY <1>b, <2>1, <2>2, <2>3 DEF NoLostWaiter, W
<1>4. OwnAttempt'
  BY <1>0, <1>f, OwnKept
<1>5. ShutdownSettlesOpens'
  BY <1>0, <1>b DEF ShutdownSettlesOpens
<1>6. Numbered'
  <2>1. \A r \in Services : by_service'[r].cid \in {0, by_service[r].cid}
    BY <1>b, EmptyEntry
  <2> QED
    BY <1>0, <1>a, <2>1, NumbersKept DEF Numbered
<1>7. Starting'
  <2>1. \A d \in Calls : pc[d] = "opening" => attempt[d] \notin {0, k} /\ attempt[d] \notin sdk'
    BY <1>0 DEF Starting
  <2> QED
    BY <1>0, <1>a, <2>1, StartingKept
<1>8. Joined'
  <2>1. \A r \in Services : by_service'[r] = by_service[r] \/ by_service'[r] = NoAttempt
    BY <1>b
  <2>2. \A r \in Services :
          \/ by_service[r].cid = 0 \/ by_service'[r] = NoAttempt
          \/ answered'[by_service[r].cid] = answered[by_service[r].cid]
    <3>1. by_service[s].cid = k /\ k # 0
      BY <1>0 DEF pending
    <3>2. \A r \in Services : r # s => by_service[r].cid # k
      BY <3>1, OneService
    <3> QED
      BY <1>a, <1>b, <3>2
  <2> QED
    BY <1>0, <2>1, <2>2, JoinedKept
<1>9. Owed'
  <2> SUFFICES ASSUME NEW a \in Actors, NEW t \in taken'[a]
               PROVE  /\ pc[t[1]] \notin Before /\ attempt[t[1]] # 0
                      /\ Deserved(t[1], t[2], open_services \cup
                                   IF a = Dispatcher THEN inserting ELSE {})'
    <3>1. \A d \in Calls : taken'[d] # {} => pc'[d] = "retiring"
      BY <1>0, <1>e DEF Owed, Actors
    <3> QED
      BY <1>0, <3>1 DEF Owed
  <2>1. CASE a = Dispatcher
    <3>1. t[1] \in W /\ t[2] = Verdict(m)
      BY <1>e, <2>1
    <3>2. m = "opened" => s \in inserting'
      BY <1>0
    <3> QED
      BY <1>0, <1>a, <1>c, <1>d, <2>1, <3>1, <3>2 DEF Deserved
  <2>2. CASE a # Dispatcher
    <3>1. t \in taken[a] /\ t[1] \in Calls
      BY <1>e, <2>2, SMTT(60) DEF TakenType
    <3>2. pc[t[1]] \notin Before /\ attempt[t[1]] # 0 /\ Deserved(t[1], t[2], open_services)
      BY <2>2, <3>1 DEF Owed
    <3> QED
      BY <1>0, <1>a, <2>2, <3>1, <3>2 DEF Deserved
  <2> QED
    BY <2>1, <2>2
<1>10. Stopped'
  BY <1>0, StoppedKept
<1>11. Recorded'
  <2>1. ~state_lock'
    BY <1>0, SMTT(60)
  <2> QED
    BY <2>1 DEF Recorded
<1> QED
  BY <1>1, <1>2, <1>3, <1>4, <1>5, <1>6, <1>7, <1>8, <1>9, <1>10, <1>11

\* ... and records the service first.
LEMMA InsertOpenStep ==
  ASSUME OpensInv, InsertOpen, UNCHANGED state_lock
  PROVE  OpensInv'
<1> USE DEF OpensInv, OpensTypeOK
<1>0. /\ open_services' = open_services \cup inserting /\ inserting' = {}
      /\ UNCHANGED <<state_lock, next_id, by_service, pc, service, attempt, rx, expired,
                     taken, draining, sdk, answered, over, shutting_down, stopped>>
  BY DEF InsertOpen, call, session, flags
<1>1. TableType' /\ TakenType' /\ CallType'
  <2>1. open_services' \subseteq Services
    BY <1>0 DEF TableType, SessionType
  <2> QED
    BY <1>0, <2>1 DEF TableType, TakenType, CallType
<1>2. SessionType'
  BY <1>0 DEF SessionType
<1>3. NoLostWaiter'
  <2>1. \A d \in Calls : InHand(d)' = InHand(d)
    BY <1>0 DEF InHand
  <2> QED
    BY <1>0, <2>1 DEF NoLostWaiter
<1>4. OwnAttempt'
  BY <1>0 DEF OwnAttempt
<1>5. ShutdownSettlesOpens'
  BY <1>0 DEF ShutdownSettlesOpens
<1>6. Numbered'
  BY <1>0, NumbersKept DEF Numbered
<1>7. Starting'
  BY <1>0 DEF Starting
<1>8. Joined'
  BY <1>0 DEF Joined
<1>9. Owed'
  <2>1. \A d \in Calls : taken'[d] # {} => pc'[d] = "retiring"
    BY <1>0 DEF Owed
  <2> QED
    BY <1>0, <2>1, OwedKept
<1>10. Stopped'
  BY <1>0, StoppedKept
<1>11. Recorded'
  BY <1>0, RecordedKept
<1> QED
  BY <1>1, <1>2, <1>3, <1>4, <1>5, <1>6, <1>7, <1>8, <1>9, <1>10, <1>11

\* The subscription session takes the attempt out, records the service and
\* resolves the waiters in one step.
LEMMA HandleStatusStep ==
  ASSUME OpensInv, NEW k \in sdk, NEW m \in Answers, NEW s \in Services,
         HandleStatus(k, m, s), UNCHANGED state_lock
  PROVE  OpensInv'
<1> DEFINE W == by_service[s].waiters
<1> USE DEF OpensInv, OpensTypeOK
<1>0. /\ pending(s, k)
      /\ sdk' = sdk \ {k} /\ answered' = [answered EXCEPT ![k] = m] /\ remove(s)
      /\ open_services' = IF m = "opened" THEN open_services \cup {s} ELSE open_services
      /\ Tell(W, Verdict(m))
      /\ UNCHANGED <<state_lock, next_id, pc, service, attempt, expired, taken, inserting,
                     draining, over, shutting_down, stopped>>
  BY DEF HandleStatus, dispatch, flags
<1>a. /\ answered' \in [1 .. next_id' -> Answers \cup {"none", "late"}]
      /\ sdk' \subseteq Nat
      /\ k # 0 /\ answered[k] = "none" /\ answered'[k] = m
      /\ \A d \in Calls : attempt[d] \notin {0, k} =>
           answered'[attempt[d]] = answered[attempt[d]]
      /\ \A r \in Services : by_service[r].cid \notin {0, k} =>
           answered'[by_service[r].cid] = answered[by_service[r].cid]
      /\ \A i \in sdk' : i # 0 /\ i <= next_id /\ answered'[i] = "none"
  BY <1>0, AnswerNew
<1>b. /\ by_service' \in [Services -> [cid : Nat, waiters : SUBSET Calls]]
      /\ by_service'[s] = NoAttempt
      /\ \A r \in Services : r # s => by_service'[r] = by_service[r]
  BY <1>0, Removed
<1>c. /\ W \subseteq Calls
      /\ \A w \in W : service[w] = s /\ attempt[w] = k /\ pc[w] \notin Before
      /\ \A d \in Calls : attempt[d] = k => service[d] = s
  <2>1. by_service[s].cid = k /\ k # 0
    BY <1>0 DEF pending
  <2>2. \A w \in W : w \in Calls /\ service[w] = s /\ attempt[w] = k /\ pc[w] \notin Before
    BY <2>1, Waiters
  <2>3. \A d \in Calls : attempt[d] = k => service[d] = s
    BY <2>1 DEF Joined
  <2> QED
    BY <2>2, <2>3
<1>d. Verdict(m) \in Outcomes /\ (Verdict(m) = "ok" => m = "opened")
      /\ (Verdict(m) = "failed" => m = "failed") /\ Verdict(m) # "timeout"
  BY DEF Verdict, Answers, Outcomes
<1> HIDE DEF W
<1>e. /\ \A d \in Calls : rx'[d] = IF d \in W /\ ~is_closed(d) THEN Verdict(m) ELSE rx[d]
      /\ rx' \in [Calls -> Outcomes \cup {"empty", "closed"}]
  BY <1>0, <1>d DEF CallType, Tell
<1>f. open_services \subseteq open_services' /\ (m = "opened" => s \in open_services')
      /\ open_services' \subseteq Services
  BY <1>0 DEF TableType
<1>g. \A d \in Calls : attempt[d] # 0 /\ answered[attempt[d]] \in Answers =>
        answered'[attempt[d]] = answered[attempt[d]]
  BY <1>a DEF Answers
<1>1. TableType' /\ TakenType'
  BY <1>0, <1>b, <1>f DEF TableType, TakenType
<1>2. CallType' /\ SessionType'
  BY <1>0, <1>a, <1>e DEF CallType, SessionType
<1>3. NoLostWaiter'
  <2> SUFFICES ASSUME NEW d \in Calls, pc[d] \in {"opening", "waiting"}, rx'[d] = "empty"
               PROVE  \/ /\ d \in by_service'[service[d]].waiters
                         /\ by_service'[service[d]].cid = attempt[d]
                      \/ InHand(d)'
    BY <1>0 DEF NoLostWaiter
  <2>1. d \notin W /\ rx[d] = "empty"
    BY <1>d, <1>e DEF is_closed, Outcomes
  <2>2. InHand(d) = InHand(d)'
    BY <1>0 DEF InHand
  <2>3. service[d] \in Services
    BY DEF CallType
  <2> QED
    BY <1>b, <2>1, <2>2, <2>3 DEF NoLostWaiter, W
<1>4. OwnAttempt'
  <2> SUFFICES ASSUME NEW d \in Calls, attempt[d] # 0
               PROVE  /\ rx'[d] = "ok" =>
                           answered'[attempt[d]] = "opened" /\ service[d] \in open_services'
                      /\ rx'[d] = "failed" => answered'[attempt[d]] = "failed" \/ shutting_down
                      /\ rx'[d] = "timeout" => attempt[d] \in expired
    BY <1>0 DEF OwnAttempt
  <2>1. CASE d \in W /\ ~is_closed(d)
    BY <1>a, <1>c, <1>d, <1>e, <1>f, <2>1
  <2>2. CASE ~(d \in W /\ ~is_closed(d))
    <3>1. rx'[d] = rx[d] /\ open_services \subseteq open_services'
      BY <1>e, <1>f, <2>2
    <3> QED
      BY <1>g, <3>1, SMTT(60) DEF OwnAttempt, Answers
  <2> QED
    BY <2>1, <2>2
<1>5. ShutdownSettlesOpens'
  <2>1. UNCHANGED stopped
    BY <1>0
  <2> QED
    BY <1>b, <2>1, SMTT(60) DEF ShutdownSettlesOpens
<1>6. Numbered'
  <2>1. \A r \in Services : by_service'[r].cid \in {0, by_service[r].cid}
    BY <1>b, EmptyEntry
  <2> QED
    BY <1>0, <1>a, <2>1, NumbersKept DEF Numbered
<1>7. Starting'
  <2>1. \A d \in Calls : pc[d] = "opening" => attempt[d] \notin {0, k} /\ attempt[d] \notin sdk'
    BY <1>0 DEF Starting
  <2>2. \A d \in Calls : pc[d] \in Before => rx'[d] = rx[d]
    BY <1>c, <1>e
  <2> QED
    BY <1>0, <1>a, <2>1, <2>2, StartingKept
<1>8. Joined'
  <2>1. \A r \in Services : by_service'[r] = by_service[r] \/ by_service'[r] = NoAttempt
    BY <1>b
  <2>2. \A r \in Services :
          \/ by_service[r].cid = 0 \/ by_service'[r] = NoAttempt
          \/ answered'[by_service[r].cid] = answered[by_service[r].cid]
    <3>1. by_service[s].cid = k /\ k # 0
      BY <1>0 DEF pending
    <3>2. \A r \in Services : r # s => by_service[r].cid # k
      BY <3>1, OneService
    <3> QED
      BY <1>a, <1>b, <3>2
  <2> QED
    BY <1>0, <2>1, <2>2, JoinedKept
<1>9. Owed'
  <2>1. \A d \in Calls : taken'[d] # {} => pc'[d] = "retiring"
    BY <1>0 DEF Owed
  <2> QED
    BY <1>0, <1>f, <1>g, <2>1, OwedKept
<1>10. Stopped'
  BY <1>0, StoppedKept
<1>11. Recorded'
  <2>1. UNCHANGED <<state_lock, service, attempt>>
    BY <1>0
  <2> QED
    BY <1>a, <1>c, <1>f, <2>1, SMTT(60) DEF Recorded
<1> QED
  BY <1>1, <1>2, <1>3, <1>4, <1>5, <1>6, <1>7, <1>8, <1>9, <1>10, <1>11

\* The end of the session or an explicit shutdown: every attempt is taken out,
\* and its waiters are told or are in the hands of the thread that will.
LEMMA DrainStep ==
  ASSUME OpensInv, NEW a \in {Dispatcher, Stopper}, DrainTable(a), shutting_down',
         stopped => stopped', stopped' => Guarded = {},
         {shutting_down', stopped', draining', over'} \subseteq BOOLEAN,
         UNCHANGED <<state_lock, open_services, next_id, pc, service, attempt, expired,
                     inserting, sdk, answered>>
  PROVE  OpensInv'
<1> USE DEF OpensInv, OpensTypeOK
<1>a. /\ by_service' = [s \in Services |-> NoAttempt]
      /\ by_service' \in [Services -> [cid : Nat, waiters : SUBSET Calls]]
      /\ \A s \in Services : by_service'[s] = NoAttempt
      /\ \A s \in Services : by_service'[s].cid = 0 /\ by_service'[s].waiters = {}
  BY DEF DrainTable, NoAttempt
<1>b. /\ AllWaiters \subseteq Calls
      /\ \A w \in AllWaiters : attempt[w] # 0 /\ pc[w] \notin Before
      /\ \A s \in Services : by_service[s].waiters \subseteq AllWaiters
  <2>1. \A w \in AllWaiters : \E s \in Services : w \in by_service[s].waiters
    BY DEF AllWaiters
  <2>2. \A s \in Services : \A w \in by_service[s].waiters :
          w \in Calls /\ attempt[w] # 0 /\ pc[w] \notin Before
    BY Waiters
  <2>3. \A s \in Services : by_service[s].waiters \subseteq AllWaiters
    BY DEF AllWaiters
  <2> QED
    BY <2>1, <2>2, <2>3
<1>c. /\ rx' \in [Calls -> Outcomes \cup {"empty", "closed"}]
      /\ \A d \in Calls : rx'[d] = rx[d] \/ (rx'[d] = "failed" /\ d \in AllWaiters)
      /\ \A d \in AllWaiters : state_lock /\ ~is_closed(d) => rx'[d] = "failed"
  <2>1. CASE state_lock
    <3>1. Tell(AllWaiters, "failed")
      BY <2>1 DEF DrainTable
    <3> QED
      BY <1>b, <2>1, <3>1 DEF Tell, CallType, Outcomes
  <2>2. CASE ~state_lock
    <3>1. rx' = rx
      BY <2>2 DEF DrainTable
    <3> QED
      BY <2>2, <3>1 DEF CallType
  <2> QED
    BY <2>1, <2>2
<1>d. /\ taken' \in [Actors -> SUBSET (Calls \X Outcomes)]
      /\ \A b \in Actors : b # a => taken'[b] = taken[b]
      /\ a \in Actors /\ a \notin Calls
      /\ taken[a] \subseteq taken'[a]
      /\ \A t \in taken'[a] : t \in taken[a] \/ (t[1] \in AllWaiters /\ t[2] = "failed")
      /\ ~state_lock => \A w \in AllWaiters : <<w, "failed">> \in taken'[a]
  <2>1. a \in Actors /\ a \notin Calls
    BY SessionConstants DEF Actors
  <2>2. CASE state_lock
    <3>1. taken' = taken
      BY <2>2 DEF DrainTable
    <3> QED
      BY <2>1, <2>2, <3>1 DEF TakenType
  <2>3. CASE ~state_lock
    <3>1. taken' = [taken EXCEPT ![a] = @ \cup (AllWaiters \X {"failed"})]
      BY <2>3 DEF DrainTable
    <3>2. AllWaiters \X {"failed"} \in SUBSET (Calls \X Outcomes)
      BY <1>b DEF Outcomes
    <3> QED
      BY <2>1, <2>3, <3>1, <3>2 DEF TakenType
  <2> QED
    BY <2>1, <2>2, <2>3
<1>1. TableType' /\ TakenType'
  BY <1>a, <1>d DEF TableType, TakenType
<1>2. CallType' /\ SessionType'
  BY <1>c DEF CallType, SessionType
<1>3. NoLostWaiter'
  <2> SUFFICES ASSUME NEW d \in Calls, pc[d] \in {"opening", "waiting"}, rx'[d] = "empty"
               PROVE  InHand(d)'
    BY DEF NoLostWaiter
  <2>1. ~is_closed(d) /\ service[d] \in Services
    BY DEF is_closed, CallType
  <2>2. InHand(d) => InHand(d)'
    BY <1>d DEF InHand
  <2>3. d \in AllWaiters => InHand(d)'
    BY <1>c, <1>d, <2>1 DEF InHand, Outcomes
  <2> QED
    BY <1>b, <1>c, <2>1, <2>2, <2>3 DEF NoLostWaiter
<1>4. OwnAttempt'
  BY <1>c DEF OwnAttempt
<1>5. ShutdownSettlesOpens'
  BY <1>a DEF ShutdownSettlesOpens
<1>6. Numbered'
  <2>1. \A s \in Services : by_service'[s].cid \in {0, by_service[s].cid}
    BY <1>a
  <2> QED
    BY <2>1, NumbersKept DEF Numbered
<1>7. Starting'
  <2>1. \A d \in Calls : pc[d] \in Before => rx'[d] = rx[d]
    BY <1>b, <1>c
  <2>2. \A d \in Calls : pc[d] = "opening" => attempt[d] \notin sdk'
    BY DEF Starting
  <2> QED
    BY <2>1, <2>2, StartingKept
<1>8. Joined'
  BY <1>a, JoinedKept
<1>9. Owed'
  <2> SUFFICES ASSUME NEW b \in Actors, NEW t \in taken'[b]
               PROVE  /\ pc[t[1]] \notin Before /\ attempt[t[1]] # 0
                      /\ Deserved(t[1], t[2], open_services \cup
                                   IF b = Dispatcher THEN inserting ELSE {})'
    <3>1. \A d \in Calls : taken'[d] # {} => pc'[d] = "retiring"
      BY <1>d DEF Owed, Actors
    <3> QED
      BY <3>1 DEF Owed
  <2>1. CASE t \in taken[b]
    <3>1. /\ pc[t[1]] \notin Before /\ attempt[t[1]] # 0
          /\ Deserved(t[1], t[2], open_services \cup IF b = Dispatcher THEN inserting ELSE {})
      BY <2>1 DEF Owed
    <3> QED
      BY <3>1 DEF Deserved
  <2>2. CASE t \notin taken[b]
    <3>1. t[1] \in AllWaiters /\ t[2] = "failed"
      BY <1>d, <2>2
    <3> QED
      BY <1>b, <3>1 DEF Deserved
  <2> QED
    BY <2>1, <2>2
<1>10. Stopped'
  BY DEF Stopped, Guarded
<1>11. Recorded'
  BY DEF Recorded
<1> QED
  BY <1>1, <1>2, <1>3, <1>4, <1>5, <1>6, <1>7, <1>8, <1>9, <1>10, <1>11

-----------------------------------------------------------------------------
(* The invariant is inductive. *)

LEMMA OpensInvInit ==
  ASSUME OpensInit
  PROVE  OpensInv
<1> USE DEF OpensInit
<1>0. /\ \A c \in Calls : pc[c] = "idle" /\ attempt[c] = 0 /\ rx[c] = "empty"
      /\ \A s \in Services : by_service[s].cid = 0 /\ by_service[s].waiters = {}
      /\ \A a \in Actors : taken[a] = {}
      /\ Calls \subseteq Actors
  BY DEF NoAttempt, Actors
<1>1. TableType
  BY DEF TableType, NoAttempt
<1>2. CallType /\ TakenType
  BY DEF CallType, TakenType
<1>3. SessionType
  BY DEF SessionType
<1>4. NoLostWaiter /\ OwnAttempt /\ ShutdownSettlesOpens /\ Starting /\ Stopped /\ Recorded
  BY <1>0 DEF NoLostWaiter, OwnAttempt, ShutdownSettlesOpens, Starting, Stopped, Recorded
<1>5. Numbered
  BY <1>0, SMTT(60) DEF Numbered
<1>6. Joined
  BY <1>0 DEF Joined
<1>7. Owed
  BY <1>0 DEF Owed
<1> QED
  BY <1>1, <1>2, <1>3, <1>4, <1>5, <1>6, <1>7 DEF OpensInv, OpensTypeOK

\* A step of a call.
LEMMA CallKeepsInv ==
  ASSUME OpensInv, NEW c \in Calls, CallStep(c), UNCHANGED state_lock
  PROVE  OpensInv'
<1> USE DEF Go, table, call, dispatch, session, flags, Before
<1>0. attempt[c] \in Nat /\ expired \subseteq Nat
  BY DEF OpensInv, OpensTypeOK, CallType
<1>1. CASE EnsureService(c)
  BY <1>0, <1>1, CallMoves DEF EnsureService
<1>2. CASE Enter(c)
  BY <1>0, <1>2, CallMoves DEF Enter
<1>3. CASE AlreadyOpen(c)
  BY <1>3, AlreadyOpenStep
<1>4. CASE Join(c)
  BY <1>4, JoinStep
<1>5. CASE Register(c)
  BY <1>5, RegisterMade, RegisterRefused
<1>6. CASE OpenAsync(c)
  BY <1>6, OpenAccepted, OpenRefused
<1>7. CASE Receive(c)
  BY <1>0, <1>7, CallMoves DEF Receive
<1>8. CASE Cancel(c)
  BY <1>0, <1>8, CallMoves DEF Cancel
<1>9. CASE Expire(c)
  BY <1>0, <1>9, CallMoves DEF Expire
<1>10. CASE Retire(c)
  BY <1>10, RetireStep
<1>11. CASE Retired(c)
  BY <1>0, <1>11, CallMoves DEF Retired
<1>12. CASE Prune(c)
  BY <1>12, PruneStep
<1> QED
  BY <1>1, <1>2, <1>3, <1>4, <1>5, <1>6, <1>7, <1>8, <1>9, <1>10, <1>11, <1>12 DEF CallStep

\* The session ends: the subscription session drains at once, the request
\* worker raises the flag and will drain.
LEMMA SessionEndsStep ==
  ASSUME OpensInv, SessionEnds, UNCHANGED state_lock
  PROVE  OpensInv'
<1>0. /\ over' \in BOOLEAN /\ shutting_down' = TRUE
      /\ UNCHANGED <<state_lock, open_services, next_id, pc, service, attempt, expired,
                     inserting, sdk, answered, stopped>>
  BY DEF SessionEnds
<1>1. CASE state_lock
  <2>1. DrainTable(Dispatcher) /\ draining' = draining
    BY <1>1 DEF SessionEnds
  <2>2. /\ stopped' => Guarded = {}
        /\ {shutting_down', stopped', draining', over'} \subseteq BOOLEAN
    BY <1>0, <2>1 DEF OpensInv, OpensTypeOK, SessionType, Stopped
  <2> QED
    BY <1>0, <2>1, <2>2, DrainStep
<1>2. CASE ~state_lock
  <2> USE DEF OpensInv, OpensTypeOK
  <2>0. draining' = TRUE /\ by_service' = by_service /\ rx' = rx /\ taken' = taken
    BY <1>2 DEF SessionEnds
  <2>1. TableType' /\ TakenType' /\ CallType'
    BY <1>0, <2>0 DEF TableType, TakenType, CallType
  <2>2. SessionType'
    BY <1>0, <2>0 DEF SessionType
  <2>3. NoLostWaiter'
    <3>1. \A d \in Calls : InHand(d)' = InHand(d)
      BY <2>0 DEF InHand
    <3> QED
      BY <1>0, <2>0, <3>1 DEF NoLostWaiter
  <2>4. OwnAttempt' /\ ShutdownSettlesOpens'
    BY <1>0, <2>0 DEF OwnAttempt, ShutdownSettlesOpens
  <2>5. Numbered'
    BY <1>0, <2>0, NumbersKept DEF Numbered
  <2>6. Starting' /\ Joined'
    <3>1. Starting'
      BY <1>0, <2>0 DEF Starting
    <3>2. Joined'
      BY <1>0, <2>0, JoinedKept DEF Joined
    <3> QED
      BY <3>1, <3>2
  <2>7. Owed'
    <3>1. \A d \in Calls : taken'[d] # {} => pc'[d] = "retiring"
      BY <1>0, <2>0 DEF Owed
    <3> QED
      BY <1>0, <2>0, <3>1, OwedKept
  <2>8. Stopped'
    BY <1>0 DEF Stopped, Guarded
  <2>9. Recorded'
    BY <1>0, RecordedKept
  <2> QED
    BY <2>1, <2>2, <2>3, <2>4, <2>5, <2>6, <2>7, <2>8, <2>9
<1> QED
  BY <1>1, <1>2

\* Every step keeps the invariant.
LEMMA OpensInvStep ==
  ASSUME OpensInv, [OpensNext]_opensvars
  PROVE  OpensInv'
<1>1. CASE OpensNext
  <2>0. UNCHANGED state_lock
    BY <1>1 DEF OpensNext
  <2>1. CASE \E c \in Calls : CallStep(c)
    BY <2>0, <2>1, CallKeepsInv
  <2>2. CASE \E a \in Actors : Complete(a)
    BY <2>0, <2>2, CompleteStep
  <2>3. CASE \E k \in sdk : LateAnswer(k)
    BY <2>0, <2>3, LateAnswerStep
  <2>4. CASE \E k \in sdk, m \in Answers, s \in Services :
               TakeAnswer(k, m, s) \/ HandleStatus(k, m, s)
    BY <2>0, <2>4, TakeAnswerStep, HandleStatusStep
  <2>5. CASE InsertOpen
    BY <2>0, <2>5, InsertOpenStep
  <2>6. CASE SessionEnds
    BY <2>0, <2>6, SessionEndsStep
  <2>7. CASE Drain
    <3>1. /\ DrainTable(Dispatcher) /\ draining' = FALSE
          /\ UNCHANGED <<open_services, next_id, pc, service, attempt, expired, inserting,
                         sdk, answered, over, shutting_down, stopped>>
      BY <2>7 DEF Drain, session, flags
    <3>2. /\ shutting_down' /\ (stopped' => Guarded = {})
          /\ {shutting_down', stopped', draining', over'} \subseteq BOOLEAN
      BY <2>7, <3>1 DEF OpensInv, OpensTypeOK, SessionType, Stopped, Drain
    <3> QED
      BY <2>0, <3>1, <3>2, DrainStep
  <2>8. CASE Shutdown
    <3>1. /\ DrainTable(Stopper) /\ Guarded = {} /\ stopped' = TRUE /\ shutting_down' = TRUE
          /\ over' \in {over, TRUE}
          /\ UNCHANGED <<open_services, next_id, pc, service, attempt, expired, inserting,
                         draining, sdk, answered>>
      BY <2>8 DEF Shutdown, dispatch
    <3>2. {shutting_down', stopped', draining', over'} \subseteq BOOLEAN
      BY <3>1 DEF OpensInv, OpensTypeOK, SessionType
    <3> QED
      BY <2>0, <3>1, <3>2, DrainStep
  <2> QED
    BY <1>1, <2>1, <2>2, <2>3, <2>4, <2>5, <2>6, <2>7, <2>8 DEF OpensNext, DispatcherStep
<1>2. CASE UNCHANGED opensvars
  <2>0. UNCHANGED <<state_lock, open_services, next_id, by_service, pc, service, attempt, rx,
                    expired, taken, inserting, draining, sdk, answered, over, shutting_down,
                    stopped>>
    BY <1>2 DEF opensvars, table, call, dispatch, session, flags
  <2> USE DEF OpensInv, OpensTypeOK
  <2>1. TableType' /\ CallType' /\ TakenType'
    BY <2>0 DEF TableType, CallType, TakenType
  <2>2. SessionType'
    BY <2>0 DEF SessionType
  <2>3. NoLostWaiter' /\ OwnAttempt' /\ ShutdownSettlesOpens'
    BY <2>0 DEF NoLostWaiter, InHand, OwnAttempt, ShutdownSettlesOpens
  <2>4. Numbered'
    BY <2>0, NumbersKept DEF Numbered
  <2>5. Starting'
    BY <2>0 DEF Starting
  <2>6. Joined'
    BY <2>0, JoinedKept DEF Joined
  <2>7. Owed'
    BY <2>0, OwedKept DEF Owed
  <2>8. Stopped' /\ Recorded'
    BY <2>0 DEF Stopped, Guarded, Recorded
  <2> QED
    BY <2>1, <2>2, <2>3, <2>4, <2>5, <2>6, <2>7, <2>8
<1> QED
  BY <1>1, <1>2

-----------------------------------------------------------------------------
(* The properties. *)

LEMMA OpensAlways == OpensSpec => []OpensInv
<1>1. OpensInit => OpensInv
  BY OpensInvInit
<1>2. OpensInv /\ [OpensNext]_opensvars => OpensInv'
  BY OpensInvStep
<1> QED
  BY <1>1, <1>2, PTL DEF OpensSpec

\* No register, removal, prune, timer or drain loses the sender of a waiting call
\* or leaves an attempt in the table that nobody will take out.
THEOREM OpensKeepTable == OpensSpec => []TableConsistent
<1>1. OpensInv => TableConsistent
  BY NoZombie DEF OpensInv, OpensTypeOK, TableConsistent
<1> QED
  BY <1>1, OpensAlways, PTL

\* A call of ensure_service is told the fate of its own attempt.
THEOREM OpensResolveOwn == OpensSpec => []OwnAttempt
<1>1. OpensInv => OwnAttempt
  BY DEF OpensInv
<1> QED
  BY <1>1, OpensAlways, PTL

\* After signal_shutdown the table of pending opens stays empty.
THEOREM OpensStop == OpensSpec => []ShutdownSettlesOpens
<1>1. OpensInv => ShutdownSettlesOpens
  BY DEF OpensInv
<1> QED
  BY <1>1, OpensAlways, PTL

\* Only register takes a number.
LEMMA NumberTaken ==
  ASSUME OpensNext, next_id' # next_id
  PROVE  \E c \in Calls : Register(c)
<1> USE DEF table, call
<1>1. \A c \in Calls : CallStep(c) => Register(c)
  BY DEF CallStep, EnsureService, Enter, AlreadyOpen, Join, OpenAsync, Receive, Cancel,
         Expire, Retire, Retired, Prune
<1>2. \A a \in Actors : ~Complete(a)
  BY DEF Complete
<1>3. ~DispatcherStep
  BY DEF DispatcherStep, LateAnswer, TakeAnswer, HandleStatus, InsertOpen, SessionEnds, Drain
<1>4. ~Shutdown
  BY DEF Shutdown
<1> QED
  BY <1>1, <1>2, <1>3, <1>4 DEF OpensNext

\* register_service_waiter of a subscription session makes no second attempt for
\* a service that the SDK has opened.
THEOREM OpensOnce == OpensSpec => OpenedOnce
<1> DEFINE Once ==
      state_lock /\ next_id' # next_id =>
        \A c \in Calls : pc[c] = "gate" /\ pc'[c] # "gate" =>
          \A d \in Calls : service[d] = service[c] /\ attempt[d] # 0 =>
            answered[attempt[d]] # "opened"
<1>1. ASSUME OpensInv, OpensNext
      PROVE  Once
  <2> SUFFICES ASSUME state_lock, next_id' # next_id,
                      NEW c \in Calls, pc[c] = "gate", pc'[c] # "gate",
                      NEW d \in Calls, service[d] = service[c], attempt[d] # 0
               PROVE  answered[attempt[d]] # "opened"
    OBVIOUS
  <2>1. PICK r \in Calls : Register(r)
    BY <1>1, NumberTaken
  <2>2. \A e \in Calls : e # r => pc'[e] = pc[e]
    BY <1>1, <2>1 DEF Register, Go, OpensInv, OpensTypeOK, CallType
  <2>3. c = r
    BY <2>2
  <2>4. service[c] \notin open_services
    BY <2>1, <2>3 DEF Register
  <2> QED
    BY <1>1, <2>4 DEF OpensInv, Recorded
<1>2. ASSUME UNCHANGED opensvars
      PROVE  Once
  BY <1>2 DEF opensvars, table
<1>3. OpensInv /\ [OpensNext]_opensvars => [Once]_opensvars
  BY <1>1, <1>2
<1> QED
  BY <1>3, OpensAlways, PTL DEF OpensSpec, OpenedOnce
=============================================================================
