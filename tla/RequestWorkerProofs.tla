------------------------- MODULE RequestWorkerProofs ------------------------
(***************************************************************************)
(* One owner per pending request, partials before the reply, no send       *)
(* behind a stop, and tickets that address the right request while the     *)
(* generation fits the tag, for every number of requests and threads.      *)
(***************************************************************************)
EXTENDS RequestWorker, FiniteSetTheorems, TLAPS

\* Steps are for Zenon, unless they name the SMT solver.
USE ZenonT(60)

-----------------------------------------------------------------------------
(* Inserting, taking and draining slots. *)

\* The named threads are actors and not requests.
LEMMA Threads ==
  /\ dispatcher \in Actors /\ scanner \in Actors /\ stopper \in Actors
  /\ Requests \subseteq Actors
  /\ dispatcher \notin Requests /\ scanner \notin Requests /\ stopper \notin Requests
  /\ None \notin Requests /\ None \notin Keys
  BY WorkerConstants DEF Actors

\* Where a thread goes on after a stop.
LEMMA AfterStopLabel == \A a : AfterStop(a) \in {"idle", "timeouts", "done"}
  BY DEF AfterStop, Scan

\* A thread moves to a label and the others stay where they are.
LEMMA GotoMove ==
  ASSUME ThreadsOK, NEW a \in Actors, NEW l \in Labels, Goto(a, l)
  PROVE  /\ pc' \in [Actors -> Labels] /\ pc'[a] = l
         /\ \A b \in Actors : b # a => pc'[b] = pc[b]
  BY DEF ThreadsOK, Goto

\* The slot a ticket addresses is in the slab, and is the only one.
LEMMA MatchesLive ==
  ASSUME NEW r \in Requests
  PROVE  /\ Matches(r) \subseteq Requests
         /\ SlabOK => Matches(r) \subseteq Live
         /\ \A x, y \in Matches(r) : x = y
  BY DEF Matches, Live, InSlab, SlabOK

\* take_slot moves its thread, fills its hand and empties the slot.
LEMMA TakeSlot ==
  ASSUME TypeOK, NEW a \in Actors, NEW r \in Requests, NEW v \in {"reply", "discard"},
         NEW l \in Continuations, take_slot(a, r, v, l)
  PROVE  /\ pc' \in [Actors -> Labels] /\ pc'[a] \in {l, "consume"}
         /\ \A b \in Actors : b # a => pc'[b] = pc[b]
         /\ pc'[a] # "consume" => Matches(r) = {}
         /\ taken' = [taken EXCEPT ![a] = Matches(r)]
         /\ taken' \in [Actors -> SUBSET Requests]
         /\ op' \in [Actors -> [target : Requests \cup {None},
                                 verdict : {"reply", "discard"}, next : Labels]]
         /\ op'[a].next \in Continuations
         /\ \A b \in Actors : b # a => op'[b] = op[b]
         /\ SlabOK'
<1>0. ThreadsOK /\ SlabOK /\ Continuations \subseteq Labels /\ "consume" \in Labels
  BY DEF TypeOK, Continuations, Labels
<1>1. PICK m \in {l, "consume"} : Goto(a, m) /\ m = IF Matches(r) = {} THEN l ELSE "consume"
  BY DEF take_slot
<1>2. /\ pc' \in [Actors -> Labels] /\ pc'[a] = m
      /\ \A b \in Actors : b # a => pc'[b] = pc[b]
  BY <1>0, <1>1, GotoMove
<1>3. l # "consume"
  BY DEF Continuations
<1>4. taken' = [taken EXCEPT ![a] = Matches(r)] /\ taken' \in [Actors -> SUBSET Requests]
  BY <1>0, MatchesLive DEF take_slot, ThreadsOK
<1>5. PICK o \in [target : Requests \cup {None}, verdict : {"reply", "discard"}, next : Labels] :
        op' = [op EXCEPT ![a] = o] /\ o.next \in Continuations
  <2>1. /\ NoOp \in [target : Requests \cup {None}, verdict : {"reply", "discard"}, next : Labels]
        /\ NoOp.next \in Continuations
    BY DEF NoOp, Settle, Labels, Continuations
  <2>2. /\ Settle(r, v, l) \in [target : Requests \cup {None},
                                 verdict : {"reply", "discard"}, next : Labels]
        /\ Settle(r, v, l).next \in Continuations
    BY <1>0 DEF Settle
  <2> QED
    BY <2>1, <2>2 DEF take_slot
<1>6. /\ op' \in [Actors -> [target : Requests \cup {None},
                              verdict : {"reply", "discard"}, next : Labels]]
      /\ op'[a].next \in Continuations /\ \A b \in Actors : b # a => op'[b] = op[b]
  BY <1>0, <1>5 DEF ThreadsOK
<1>7. SlabOK'
  BY <1>0, Threads DEF take_slot, SlabOK
<1> QED
  BY <1>1, <1>2, <1>3, <1>4, <1>6, <1>7
-----------------------------------------------------------------------------
\* Taking a set of live slots out of the slab keeps one owner for each.
LEMMA TakeKeepsOwner ==
  ASSUME TypeOK, Ownership, NEW a \in Actors, NEW M \in SUBSET Live, taken[a] = {},
         taken' = [taken EXCEPT ![a] = M],
         requests' = [k \in Keys |-> IF requests[k] \in M THEN None ELSE requests[k]],
         UNCHANGED <<key, cell>>
  PROVE  Ownership'
<1>0. /\ taken \in [Actors -> SUBSET Requests] /\ requests \in [Keys -> Requests \cup {None}]
      /\ M \subseteq Requests /\ None \notin Requests
      /\ \A r \in M : \E k \in Keys : requests[k] = r
  BY Threads DEF TypeOK, ThreadsOK, SlabOK, Live, InSlab
<1>1. /\ taken'[a] = M /\ \A b \in Actors : b # a => taken'[b] = taken[b]
      /\ \A k \in Keys : requests'[k] = IF requests[k] \in M THEN None ELSE requests[k]
  BY <1>0
<1>2. ASSUME NEW k \in Keys, requests'[k] # None
      PROVE  /\ key'[requests'[k]] = k /\ cell'[requests'[k]] = "some"
             /\ \A b \in Actors : requests'[k] \notin taken'[b]
  BY <1>0, <1>1, <1>2 DEF Ownership
<1>3. ASSUME NEW b \in Actors, NEW c \in Actors, NEW r \in taken'[b]
      PROVE  cell'[r] = "some" /\ (r \in taken'[c] => b = c)
  <2>1. \A q \in M : cell[q] = "some" /\ \A d \in Actors : q \notin taken[d]
    BY <1>0, SMTT(60) DEF Ownership
  <2>2. CASE b = a
    BY <1>1, <1>3, <2>1, <2>2
  <2>3. CASE b # a
    BY <1>1, <1>3, <2>1, <2>3, SMTT(60) DEF Ownership
  <2> QED
    BY <2>2, <2>3
<1>4. ASSUME NEW r \in Requests, cell'[r] = "some"
      PROVE  InSlab(r)' \/ \E b \in Actors : r \in taken'[b]
  <2>1. CASE r \in M
    BY <1>1, <2>1
  <2>2. CASE r \notin M
    BY <1>1, <1>4, <2>2, SMTT(60) DEF Ownership, InSlab
  <2> QED
    BY <2>1, <2>2
<1> QED
  BY <1>2, <1>3, <1>4 DEF Ownership

\* Nothing that leaves the slab, the cells and the hands alone changes owners.
LEMMA OwnerKept ==
  ASSUME Ownership, UNCHANGED <<requests, key, cell, taken>>
  PROVE  Ownership'
  BY DEF Ownership, InSlab
-----------------------------------------------------------------------------
\* What op holds for a thread.
OpType == [target : Requests \cup {None}, verdict : {"reply", "discard"}, next : Continuations]
OpOK == op \in [Actors -> [target : Requests \cup {None},
                            verdict : {"reply", "discard"}, next : Labels]]
        /\ \A a \in Actors : op[a].next \in Continuations

\* A thread that records how it will settle a drain, or that it has settled.
LEMMA OpSet ==
  ASSUME OpOK, NEW a \in Actors, NEW o \in OpType, op' = [op EXCEPT ![a] = o]
  PROVE  OpOK'
<1>1. Continuations \subseteq Labels
  BY DEF Continuations, Labels
<1>2. o \in [target : Requests \cup {None}, verdict : {"reply", "discard"}, next : Labels]
      /\ o.next \in Continuations
  BY <1>1 DEF OpType
<1> QED
  BY <1>2 DEF OpOK

\* The records that are stored.
LEMMA OpValues ==
  /\ NoOp \in OpType
  /\ \A l \in Continuations, r \in Requests \cup {None}, v \in {"reply", "discard"} :
       Settle(r, v, l) \in OpType
  BY DEF OpType, NoOp, Settle, Continuations

\* A thread with nothing in hand moves between the labels that hold nothing.
LEMMA Move ==
  ASSUME IInv, NEW a \in Actors, NEW l \in Labels, Goto(a, l),
         pc[a] # "partial", pc[a] # "consume",
         l \notin {"partial", "new", "insert", "send"},
         UNCHANGED <<slab, cell, active_partials, taken, partial>>,
         CellsOK', LifecycleOK', SessionOK', OpOK', tickets' \subseteq Requests,
         \A r \in readers : r # a => r \in readers',
         gate' => shutting_down' /\ readers' = {}
  PROVE  IInv'
<1>0. TypeOK /\ Ownership /\ PartialsBeforeReply /\ Positions /\ ThreadsOK
  BY DEF IInv, TypeOK
<1>1. /\ pc' \in [Actors -> Labels] /\ pc'[a] = l
      /\ \A b \in Actors : b # a => pc'[b] = pc[b]
  BY <1>0, GotoMove
<1>2. TypeOK'
  BY <1>0, <1>1 DEF TypeOK, SlabOK, ThreadsOK, OpOK, slab
<1>3. Ownership' /\ PartialsBeforeReply'
  BY <1>0, OwnerKept DEF slab, PartialsBeforeReply
<1>4. Positions'
  <2>1. \A b \in Actors : pc'[b] # "consume" => taken'[b] = {}
    BY <1>0, <1>1 DEF Positions
  <2>2. \A r \in Requests : pc'[r] \in {"new", "insert"} => cell'[r] = "unborn"
    BY <1>0, <1>1, Threads DEF Positions
  <2>3. partial' # None <=> pc'[dispatcher] = "partial"
    BY <1>0, <1>1, Threads DEF Positions
  <2>4. \A r \in Requests : pc'[r] \in {"insert", "send"} => r \in readers'
    BY <1>0, <1>1, Threads DEF Positions
  <2> QED
    BY <1>0, <2>1, <2>2, <2>3, <2>4 DEF Positions, OpOK
<1> QED
  BY <1>2, <1>3, <1>4 DEF IInv

\* The op part of the invariant.
LEMMA OpFromIInv == IInv => OpOK
  BY DEF IInv, TypeOK, ThreadsOK, Positions, OpOK

\* Dispatching a request, up to the slot it takes back when the send fails.
LEMMA SubmitIInv ==
  ASSUME IInv, NEW r \in Requests, Submit(r)
  PROVE  IInv'
<1>0. /\ r \in Actors /\ TypeOK /\ CellsOK /\ LifecycleOK /\ OpOK /\ pc[r] = "new"
      /\ "done" \in Labels /\ "insert" \in Labels
  BY Threads, OpFromIInv DEF IInv, TypeOK, Submit, Labels
<1>1. CASE shutting_down
  <2>1. CellsOK' /\ LifecycleOK' /\ SessionOK' /\ OpOK'
    BY <1>0, <1>1 DEF Submit, CellsOK, LifecycleOK, SessionOK, TypeOK, OpOK, settling, session
  <2>2. UNCHANGED <<slab, cell, active_partials, taken, partial, tickets, readers, gate, shutting_down>>
        /\ Goto(r, "done")
    BY <1>1 DEF Submit, settling
  <2>3. tickets \subseteq Requests /\ (gate => shutting_down /\ readers = {})
    BY DEF IInv, TypeOK, ThreadsOK, Positions
  <2> QED
    BY <1>0, <2>1, <2>2, <2>3, Move
<1>2. CASE ~shutting_down
  <2>0. /\ readers' = readers \cup {r} /\ Goto(r, "insert")
        /\ UNCHANGED <<slab, cells, shutting_down, health, stop_started, writer, gate,
                       settling, session, tickets, partial>>
    BY <1>2 DEF Submit, cells
  <2>1. /\ pc' \in [Actors -> Labels] /\ pc'[r] = "insert"
        /\ \A b \in Actors : b # r => pc'[b] = pc[b]
    BY <1>0, <2>0, GotoMove DEF TypeOK
  <2>2. TypeOK'
    BY <1>0, <2>0, <2>1 DEF TypeOK, SlabOK, CellsOK, LifecycleOK, ThreadsOK, SessionOK,
       slab, cells, settling, session
  <2>3. Ownership' /\ PartialsBeforeReply'
    BY <2>0, OwnerKept DEF IInv, PartialsBeforeReply, slab, cells, settling
  <2>4. Positions'
    <3>1. \A b \in Actors : pc'[b] # "consume" => taken'[b] = {}
      BY <1>0, <2>0, <2>1 DEF IInv, Positions, settling
    <3>2. \A q \in Requests : /\ pc'[q] \in {"new", "insert"} => cell'[q] = "unborn"
                              /\ pc'[q] \in {"insert", "send"} => q \in readers'
      BY <1>0, <2>0, <2>1, Threads DEF IInv, Positions, cells
    <3>3. partial' # None <=> pc'[dispatcher] = "partial"
      BY <2>0, <2>1, Threads DEF IInv, Positions
    <3>4. ~gate'
      BY <1>2, <2>0 DEF IInv, Positions
    <3> QED
      BY <2>0, <3>1, <3>2, <3>3, <3>4 DEF IInv, Positions, cells, settling
  <2> QED
    BY <2>2, <2>3, <2>4 DEF IInv
<1> QED
  BY <1>1, <1>2

\* A fresh request goes into a vacant slot: it has no other owner yet.
LEMMA InsertIInv ==
  ASSUME IInv, NEW r \in Requests, Insert(r)
  PROVE  IInv'
<1>0. /\ r \in Actors /\ TypeOK /\ pc[r] = "insert" /\ cell[r] = "unborn"
      /\ Ownership /\ None \notin Requests /\ "send" \in Labels
      /\ ~InSlab(r) /\ \A a \in Actors : r \notin taken[a]
  <2>1. r \in Actors /\ None \notin Requests /\ "send" \in Labels
    BY Threads DEF Labels
  <2>2. TypeOK /\ Ownership /\ pc[r] = "insert" /\ cell[r] = "unborn"
    BY DEF IInv, Insert, Positions
  <2>3. "unborn" # "some"
    OBVIOUS
  <2> QED
    BY <2>1, <2>2, <2>3, SMTT(60) DEF Ownership, InSlab
<1>1. PICK k \in Keys : /\ requests[k] = None
                        /\ requests' = [requests EXCEPT ![k] = r]
                        /\ key' = [key EXCEPT ![r] = k]
  BY DEF Insert
<1>2. /\ cell' = [cell EXCEPT ![r] = "some"] /\ Goto(r, "send")
      /\ UNCHANGED <<active_partials, outcome, lifecycle, settling, session, tickets, partial>>
      /\ taken' = taken
  BY DEF Insert, settling
<1>3. /\ pc' \in [Actors -> Labels] /\ pc'[r] = "send"
      /\ \A b \in Actors : b # r => pc'[b] = pc[b]
  BY <1>0, <1>2, GotoMove DEF TypeOK
<1>4. /\ requests \in [Keys -> Requests \cup {None}] /\ key \in [Requests -> Keys \cup {None}]
      /\ cell \in [Requests -> {"unborn", "some", "taken"}]
  BY <1>0 DEF TypeOK, SlabOK, CellsOK
<1>5. /\ requests'[k] = r /\ \A j \in Keys : j # k => requests'[j] = requests[j]
      /\ key'[r] = k /\ \A q \in Requests : q # r => key'[q] = key[q]
      /\ cell'[r] = "some" /\ \A q \in Requests : q # r => cell'[q] = cell[q]
  BY <1>1, <1>2, <1>4
<1>6. SlabOK'
  <2>1. next_generation' \in Nat /\ generation' = [generation EXCEPT ![r] = next_generation']
    BY <1>0, WorkerConstants, SMTT(60) DEF Insert, TypeOK, SlabOK
  <2> QED
    BY <1>0, <1>1, <2>1 DEF TypeOK, SlabOK
<1>7. TypeOK'
  BY <1>0, <1>2, <1>3, <1>6 DEF TypeOK, CellsOK, LifecycleOK, ThreadsOK, SessionOK,
     lifecycle, settling, session
<1>8. Ownership'
  <2>1. ASSUME NEW j \in Keys, requests'[j] # None
        PROVE  /\ key'[requests'[j]] = j /\ cell'[requests'[j]] = "some"
               /\ \A b \in Actors : requests'[j] \notin taken'[b]
    <3>1. CASE j = k
      BY <1>0, <1>2, <1>5, <3>1 DEF settling
    <3>2. CASE j # k
      <4>1. requests'[j] = requests[j] /\ requests[j] # r /\ requests[j] \in Requests
        BY <1>0, <1>4, <1>5, <2>1, <3>2, SMTT(60) DEF InSlab
      <4>2. /\ key[requests[j]] = j /\ cell[requests[j]] = "some"
            /\ \A b \in Actors : requests[j] \notin taken[b]
        BY <1>0, <2>1, <4>1 DEF Ownership
      <4> QED
        BY <1>2, <1>5, <4>1, <4>2, SMTT(60)
    <3> QED
      BY <3>1, <3>2
  <2>2. ASSUME NEW a \in Actors, NEW b \in Actors, NEW q \in taken'[a]
        PROVE  cell'[q] = "some" /\ (q \in taken'[b] => a = b)
    <3>1. q \in taken[a] /\ q # r /\ q \in Requests
      BY <1>0, <1>2, <2>2 DEF settling, TypeOK, ThreadsOK
    <3>2. cell[q] = "some" /\ (q \in taken[b] => a = b)
      BY <1>0, <3>1 DEF Ownership
    <3> QED
      BY <1>2, <1>5, <3>1, <3>2
  <2>3. ASSUME NEW q \in Requests, cell'[q] = "some"
        PROVE  InSlab(q)' \/ \E a \in Actors : q \in taken'[a]
    <3>1. CASE q = r
      BY <1>5, <3>1 DEF InSlab
    <3>2. CASE q # r
      <4>1. InSlab(q) \/ \E a \in Actors : q \in taken[a]
        BY <1>0, <1>5, <2>3, <3>2 DEF Ownership
      <4>2. InSlab(q) => InSlab(q)'
        BY <1>0, <1>1, <1>5 DEF InSlab
      <4> QED
        BY <1>2, <4>1, <4>2 DEF settling
    <3> QED
      BY <3>1, <3>2
  <2> QED
    BY <2>1, <2>2, <2>3 DEF Ownership
<1>9. PartialsBeforeReply'
  BY <1>2, <1>5, <1>0 DEF IInv, PartialsBeforeReply
<1>10. Positions'
  <2>1. \A b \in Actors : pc'[b] # "consume" => taken'[b] = {}
    BY <1>0, <1>2, <1>3 DEF IInv, Positions, settling
  <2>2. \A q \in Requests : /\ pc'[q] \in {"new", "insert"} => cell'[q] = "unborn"
                            /\ pc'[q] \in {"insert", "send"} => q \in readers'
    BY <1>0, <1>2, <1>3, <1>5, Threads, SMTT(60) DEF IInv, Positions, lifecycle
  <2>3. partial' # None <=> pc'[dispatcher] = "partial"
    BY <1>2, <1>3, Threads DEF IInv, Positions
  <2> QED
    BY <1>2, <2>1, <2>2, <2>3 DEF IInv, Positions, lifecycle, settling
<1> QED
  BY <1>7, <1>8, <1>9, <1>10 DEF IInv
-----------------------------------------------------------------------------
\* Every path that takes one slot: send failure, cancel, timeout, final answer.
LEMMA TakeIInv ==
  ASSUME IInv, NEW a \in Actors, NEW r \in Requests, NEW v \in {"reply", "discard"},
         NEW l \in Continuations, take_slot(a, r, v, l),
         pc[a] # "consume", pc[a] # "partial",
         UNCHANGED <<cells, lifecycle, partial>>, SessionOK', tickets' \subseteq Requests
  PROVE  IInv'
<1>0. TypeOK /\ Ownership /\ Positions /\ taken[a] = {}
  BY DEF IInv, Positions
<1>1. /\ pc' \in [Actors -> Labels] /\ pc'[a] \in {l, "consume"}
      /\ \A b \in Actors : b # a => pc'[b] = pc[b]
      /\ pc'[a] # "consume" => Matches(r) = {}
      /\ taken' = [taken EXCEPT ![a] = Matches(r)]
      /\ taken' \in [Actors -> SUBSET Requests]
      /\ op' \in [Actors -> [target : Requests \cup {None},
                              verdict : {"reply", "discard"}, next : Labels]]
      /\ op'[a].next \in Continuations
      /\ \A b \in Actors : b # a => op'[b] = op[b]
      /\ SlabOK'
  BY <1>0, TakeSlot
<1>2. TypeOK'
  BY <1>0, <1>1 DEF TypeOK, CellsOK, LifecycleOK, ThreadsOK, cells, lifecycle
<1>3. Ownership'
  <2>1. Matches(r) \subseteq Live
    BY <1>0, MatchesLive DEF TypeOK
  <2>2. /\ requests' = [k \in Keys |-> IF requests[k] \in Matches(r) THEN None ELSE requests[k]]
        /\ UNCHANGED <<key, cell>>
    BY DEF take_slot, cells
  <2> QED
    BY <1>0, <1>1, <2>1, <2>2, TakeKeepsOwner
<1>4. PartialsBeforeReply'
  BY DEF IInv, PartialsBeforeReply, cells
<1>5. Positions'
  <2>0. l \notin {"new", "insert", "send", "partial", "consume"}
    BY DEF Continuations
  <2>1. \A b \in Actors : pc'[b] # "consume" => taken'[b] = {}
    BY <1>0, <1>1 DEF Positions, TypeOK, ThreadsOK
  <2>2. \A q \in Requests : /\ pc'[q] \in {"new", "insert"} => cell'[q] = "unborn"
                            /\ pc'[q] \in {"insert", "send"} => q \in readers'
    BY <1>0, <1>1, <2>0, Threads DEF Positions, cells, lifecycle
  <2>3. partial' # None <=> pc'[dispatcher] = "partial"
    BY <1>0, <1>1, <2>0, Threads DEF Positions
  <2>4. \A b \in Actors : op'[b].next \in Continuations
    BY <1>0, <1>1 DEF Positions
  <2> QED
    BY <1>0, <2>1, <2>2, <2>3, <2>4 DEF Positions, cells, lifecycle
<1> QED
  BY <1>2, <1>3, <1>4, <1>5 DEF IInv

\* A submitter takes its own slot back: failed send, cancellation.
LEMMA OwnerTakesIInv ==
  ASSUME IInv, NEW r \in Requests, SendFails(r) \/ SendMiscorrelated(r) \/ CancelRequest(r)
  PROVE  IInv'
<1>0. /\ r \in Actors /\ tickets \subseteq Requests /\ SessionOK
      /\ {"release", "mismatch", "done", "quarantine"} \subseteq Continuations
  BY Threads DEF IInv, TypeOK, ThreadsOK, Continuations
<1>1. CASE SendFails(r)
  <2>1. SessionOK'
    BY <1>0, <1>1 DEF SendFails, SessionOK, session
  <2> QED
    BY <1>0, <1>1, <2>1, TakeIInv DEF SendFails
<1>2. CASE SendMiscorrelated(r)
  <2>1. SessionOK'
    BY <1>0, <1>2 DEF SendMiscorrelated, SessionOK, session
  <2> QED
    BY <1>0, <1>2, <2>1, TakeIInv DEF SendMiscorrelated
<1>3. CASE CancelRequest(r)
  <2>1. SessionOK'
    BY <1>0, <1>3 DEF CancelRequest, SessionOK, session
  <2>2. PICK l \in {"done", "quarantine"} : take_slot(r, r, "discard", l)
    BY <1>3 DEF CancelRequest
  <2> QED
    BY <1>0, <1>3, <2>1, <2>2, TakeIInv DEF CancelRequest
<1> QED
  BY <1>1, <1>2, <1>3

\* The scanner takes the slot of an expired request.
LEMMA TimeoutIInv ==
  ASSUME IInv, TimeoutRequest
  PROVE  IInv'
<1>1. PICK r \in tickets, l \in {"idle", "timeouts", "quarantine"} :
        take_slot(scanner, r, "reply", l) /\ tickets' = tickets \ {r}
  BY DEF TimeoutRequest, Scan
<1>2. l \in Continuations /\ tickets \subseteq Requests
  BY DEF Continuations, IInv, TypeOK, ThreadsOK
<1>3. SessionOK'
  BY DEF TimeoutRequest, IInv, TypeOK, SessionOK
<1> QED
  BY <1>1, <1>2, <1>3, Threads, TakeIInv DEF TimeoutRequest

\* The dispatcher takes the slot of a final response or failure.
LEMMA FinalIInv ==
  ASSUME IInv, NEW r \in Requests, HandleFinal(r)
  PROVE  IInv'
<1>1. SessionOK' /\ tickets' \subseteq Requests /\ "idle" \in Continuations
  BY DEF HandleFinal, IInv, TypeOK, ThreadsOK, SessionOK, Continuations
<1> QED
  BY <1>1, Threads, TakeIInv DEF HandleFinal

\* A drain takes every slot at once.
LEMMA DrainIInv ==
  ASSUME IInv, NEW a \in Actors, drain_in_flight(a)
  PROVE  IInv'
<1>0. TypeOK /\ Ownership /\ Positions /\ taken[a] = {} /\ OpOK /\ Live \subseteq Requests
  BY OpFromIInv DEF IInv, Positions, drain_in_flight, Live
<1>1. PICK m \in {op[a].next, "consume"} :
        Goto(a, m) /\ m = IF Live = {} THEN op[a].next ELSE "consume"
  BY DEF drain_in_flight
<1>2. m \in Labels /\ m \notin {"new", "insert", "send", "partial"}
      /\ (m # "consume" => Live = {})
  BY <1>0, <1>1 DEF OpOK, Continuations, Labels
<1>3. /\ pc' \in [Actors -> Labels] /\ pc'[a] = m
      /\ \A b \in Actors : b # a => pc'[b] = pc[b]
  BY <1>0, <1>1, <1>2, GotoMove DEF TypeOK
<1>4. taken' = [taken EXCEPT ![a] = Live] /\ taken' \in [Actors -> SUBSET Requests]
  BY <1>0 DEF drain_in_flight, TypeOK, ThreadsOK
<1>5. OpOK'
  <2>1. CASE Live = {}
    BY <1>0, <2>1, OpSet, OpValues DEF drain_in_flight
  <2>2. CASE Live # {}
    <3>1. op' = op
      BY <1>0, <2>2 DEF drain_in_flight, OpOK
    <3> QED
      BY <1>0, <3>1 DEF OpOK
  <2> QED
    BY <2>1, <2>2
<1>6. TypeOK'
  BY <1>0, <1>3, <1>4, <1>5 DEF drain_in_flight, TypeOK, SlabOK, CellsOK, LifecycleOK,
     ThreadsOK, SessionOK, OpOK, cells, lifecycle, session
<1>7. Ownership'
  <2>1. requests' = [k \in Keys |-> IF requests[k] \in Live THEN None ELSE requests[k]]
    <3>1. \A k \in Keys : requests[k] \notin Live => requests[k] = None
      BY <1>0 DEF TypeOK, SlabOK, Live, InSlab
    <3> QED
      BY <3>1 DEF drain_in_flight
  <2>2. UNCHANGED <<key, cell>>
    BY DEF drain_in_flight, cells
  <2> QED
    BY <1>0, <1>4, <2>1, <2>2, TakeKeepsOwner
<1>8. PartialsBeforeReply'
  BY DEF IInv, PartialsBeforeReply, drain_in_flight, cells
<1>9. Positions'
  <2>1. \A b \in Actors : pc'[b] # "consume" => taken'[b] = {}
    BY <1>0, <1>2, <1>3, <1>4 DEF Positions, TypeOK, ThreadsOK
  <2>2. \A q \in Requests : /\ pc'[q] \in {"new", "insert"} => cell'[q] = "unborn"
                            /\ pc'[q] \in {"insert", "send"} => q \in readers'
    BY <1>0, <1>2, <1>3, Threads DEF Positions, drain_in_flight, cells, lifecycle
  <2>3. partial' # None <=> pc'[dispatcher] = "partial"
    BY <1>0, <1>2, <1>3, Threads DEF Positions, drain_in_flight
  <2> QED
    BY <1>0, <1>5, <2>1, <2>2, <2>3 DEF Positions, OpOK, drain_in_flight, cells, lifecycle
<1> QED
  BY <1>6, <1>7, <1>8, <1>9 DEF IInv

-----------------------------------------------------------------------------
(* Settling a request and decoding a partial. *)

\* Settling a slot in hand: it was pending, and this thread was its only owner.
LEMMA ConsumeIInv ==
  ASSUME IInv, NEW a \in Actors, Consume(a)
  PROVE  IInv'
<1>0. TypeOK /\ Ownership /\ Positions /\ OpOK /\ PartialsBeforeReply /\ pc[a] = "consume"
  BY OpFromIInv DEF IInv, Consume
<1>1. PICK x \in taken[a] :
        /\ active_partials[x] = 0
        /\ cell' = [cell EXCEPT ![x] = "taken"]
        /\ outcome' = [outcome EXCEPT ![x] = IF cell[x] = "some" THEN op[a].verdict ELSE @]
        /\ Settled(a, x)
  BY DEF Consume
<1>2. UNCHANGED <<slab, active_partials, lifecycle, session, tickets, partial>>
  BY DEF Consume
<1>3. /\ x \in Requests /\ cell[x] = "some" /\ ~InSlab(x)
      /\ \A b \in Actors : x \in taken[b] => b = a
      /\ taken \in [Actors -> SUBSET Requests]
  BY <1>0, Threads, SMTT(60) DEF TypeOK, ThreadsOK, Ownership, InSlab
<1>4. PICK m \in {op[a].next, "consume"} :
        Goto(a, m) /\ m = IF taken[a] = {x} THEN op[a].next ELSE "consume"
  BY <1>1 DEF Settled
<1>5. m \in Labels /\ m \notin {"new", "insert", "send", "partial"}
      /\ (m # "consume" => taken[a] = {x})
  BY <1>0, <1>4 DEF OpOK, Continuations, Labels
<1>6. /\ pc' \in [Actors -> Labels] /\ pc'[a] = m
      /\ \A b \in Actors : b # a => pc'[b] = pc[b]
  BY <1>0, <1>4, <1>5, GotoMove DEF TypeOK
<1>7. /\ taken'[a] = taken[a] \ {x} /\ \A b \in Actors : b # a => taken'[b] = taken[b]
      /\ taken' \in [Actors -> SUBSET Requests]
  BY <1>1, <1>3 DEF Settled
<1>8. OpOK'
  <2>1. CASE taken[a] = {x}
    BY <1>0, <1>1, <2>1, OpSet, OpValues DEF Settled
  <2>2. CASE taken[a] # {x}
    <3>1. op' = op
      BY <1>0, <1>1, <2>2 DEF Settled, OpOK
    <3> QED
      BY <1>0, <3>1 DEF OpOK
  <2> QED
    BY <2>1, <2>2
<1>9. /\ cell'[x] = "taken" /\ \A q \in Requests : q # x => cell'[q] = cell[q]
      /\ CellsOK'
  <2>1. op[a].verdict \in {"reply", "discard"}
    BY <1>0 DEF OpOK
  <2> QED
    BY <1>0, <1>1, <1>2, <1>3, <2>1 DEF TypeOK, CellsOK
<1>10. TypeOK'
  BY <1>0, <1>2, <1>6, <1>7, <1>8, <1>9
  DEF TypeOK, SlabOK, LifecycleOK, ThreadsOK, SessionOK, OpOK, slab, lifecycle, session
<1>11. Ownership'
  <2>1. ASSUME NEW k \in Keys, requests'[k] # None
        PROVE  /\ key'[requests'[k]] = k /\ cell'[requests'[k]] = "some"
               /\ \A b \in Actors : requests'[k] \notin taken'[b]
    <3>1. requests[k] \in Requests /\ requests[k] # x /\ requests' = requests /\ key' = key
      BY <1>0, <1>2, <1>3, <2>1 DEF TypeOK, SlabOK, InSlab, slab
    <3>2. /\ key[requests[k]] = k /\ cell[requests[k]] = "some"
          /\ \A b \in Actors : requests[k] \notin taken[b]
      BY <1>0, <2>1, <3>1 DEF Ownership
    <3>3. \A b \in Actors : taken'[b] \subseteq taken[b]
      BY <1>7
    <3> QED
      BY <1>9, <3>1, <3>2, <3>3
  <2>2. ASSUME NEW b \in Actors, NEW c \in Actors, NEW q \in taken'[b]
        PROVE  cell'[q] = "some" /\ (q \in taken'[c] => b = c)
    <3>1. q \in taken[b] /\ q # x /\ q \in Requests
      BY <1>3, <1>7, <2>2
    <3> QED
      BY <1>0, <1>7, <1>9, <3>1, SMTT(60) DEF Ownership
  <2>3. ASSUME NEW q \in Requests, cell'[q] = "some"
        PROVE  InSlab(q)' \/ \E b \in Actors : q \in taken'[b]
    <3>1. q # x /\ cell[q] = "some"
      BY <1>9, <2>3
    <3>2. InSlab(q) \/ \E b \in Actors : q \in taken[b]
      BY <1>0, <3>1 DEF Ownership
    <3>3. CASE InSlab(q)
      BY <1>2, <3>3 DEF InSlab, slab
    <3>4. CASE \E b \in Actors : q \in taken[b]
      BY <1>7, <3>1, <3>4
    <3> QED
      BY <3>2, <3>3, <3>4
  <2> QED
    BY <2>1, <2>2, <2>3 DEF Ownership
<1>12. PartialsBeforeReply'
  <2>1. ASSUME NEW q \in Requests, active_partials'[q] > 0
        PROVE  cell'[q] = "some"
    BY <1>0, <1>1, <1>2, <1>9, <2>1, SMTT(60) DEF PartialsBeforeReply
  <2> QED
    BY <2>1 DEF PartialsBeforeReply
<1>13. Positions'
  <2>1. \A b \in Actors : pc'[b] # "consume" => taken'[b] = {}
    BY <1>0, <1>5, <1>6, <1>7 DEF Positions
  <2>2. \A q \in Requests : /\ pc'[q] \in {"new", "insert"} => cell'[q] = "unborn"
                            /\ pc'[q] \in {"insert", "send"} => q \in readers'
    BY <1>0, <1>2, <1>3, <1>5, <1>6, <1>9, Threads DEF Positions, lifecycle
  <2>3. partial' # None <=> pc'[dispatcher] = "partial"
    BY <1>0, <1>2, <1>5, <1>6, Threads DEF Positions
  <2> QED
    BY <1>0, <1>2, <1>8, <2>1, <2>2, <2>3 DEF Positions, OpOK, lifecycle
<1> QED
  BY <1>10, <1>11, <1>12, <1>13 DEF IInv

\* A partial enters only a registered request, whose decoder state is pending.
LEMMA BeginPartialIInv ==
  ASSUME IInv, NEW r \in Requests, BeginPartial(r)
  PROVE  IInv'
<1>0. TypeOK /\ Ownership /\ Positions /\ OpOK /\ PartialsBeforeReply
      /\ pc[dispatcher] = "idle" /\ dispatcher \in Actors /\ dispatcher \notin Requests
  BY OpFromIInv, Threads DEF IInv, BeginPartial
<1>1. /\ UNCHANGED <<slab, cell, outcome, lifecycle, taken, sdk, wire, events, raised, tickets>>
      /\ partials' = partials + 1
  BY DEF BeginPartial
<1>2. SlabOK' /\ LifecycleOK' /\ SessionOK' /\ Ownership'
  BY <1>0, <1>1, OwnerKept, SMTT(60) DEF TypeOK, SlabOK, LifecycleOK, SessionOK, slab, lifecycle
<1>3. CASE Matches(r) = {}
  <2>1. UNCHANGED <<pc, partial, op, active_partials>>
    BY <1>3 DEF BeginPartial
  <2> QED
    BY <1>0, <1>1, <1>2, <2>1
    DEF IInv, TypeOK, CellsOK, ThreadsOK, PartialsBeforeReply, Positions, lifecycle
<1>4. CASE Matches(r) # {}
  <2>1. PICK x \in Matches(r) :
          /\ partial' = x
          /\ active_partials' = [active_partials EXCEPT ![x] = @ + 1]
          /\ op' = [op EXCEPT ![dispatcher] = Settle(r, "reply", "idle")]
          /\ Goto(dispatcher, "partial")
    BY <1>4 DEF BeginPartial
  <2>2. x \in Requests /\ cell[x] = "some" /\ x # None
    <3>1. x \in Requests /\ x # None /\ \E k \in Keys : requests[k] = x
      BY <1>0, MatchesLive, Threads DEF TypeOK, Live, InSlab
    <3> QED
      BY <1>0, <3>1, SMTT(60) DEF Ownership
  <2>3. partial = None /\ \A q \in Requests : active_partials[q] = 0
    BY <1>0, Threads DEF Positions
  <2>4. /\ active_partials' \in [Requests -> {0, 1}]
        /\ \A q \in Requests : active_partials'[q] = IF q = x THEN 1 ELSE 0
    BY <1>0, <2>1, <2>2, <2>3, SMTT(60) DEF TypeOK, CellsOK
  <2>5. "partial" \in Labels /\ "idle" \in Continuations
    BY DEF Labels, Continuations
  <2>6. /\ pc' \in [Actors -> Labels] /\ pc'[dispatcher] = "partial"
        /\ \A b \in Actors : b # dispatcher => pc'[b] = pc[b]
    BY <1>0, <2>1, <2>5, GotoMove DEF TypeOK
  <2>7. OpOK'
    BY <1>0, <2>1, <2>5, OpSet, OpValues
  <2>8. TypeOK'
    BY <1>0, <1>1, <1>2, <2>1, <2>2, <2>4, <2>6, <2>7 DEF TypeOK, CellsOK, ThreadsOK, OpOK
  <2>9. PartialsBeforeReply'
    BY <1>1, <2>2, <2>4, SMTT(60) DEF PartialsBeforeReply
  <2>10. Positions'
    <3>1. \A b \in Actors : pc'[b] # "consume" => taken'[b] = {}
      BY <1>0, <1>1, <2>6 DEF Positions
    <3>2. \A q \in Requests : /\ pc'[q] \in {"new", "insert"} => cell'[q] = "unborn"
                              /\ pc'[q] \in {"insert", "send"} => q \in readers'
      BY <1>0, <1>1, <2>6, Threads DEF Positions, lifecycle
    <3>3. /\ partial' # None <=> pc'[dispatcher] = "partial"
          /\ \A q \in Requests : active_partials'[q] = IF q = partial' THEN 1 ELSE 0
      BY <2>1, <2>2, <2>4, <2>6
    <3> QED
      BY <1>0, <1>1, <2>7, <3>1, <3>2, <3>3 DEF Positions, OpOK, lifecycle
  <2> QED
    BY <1>2, <2>8, <2>9, <2>10 DEF IInv
<1> QED
  BY <1>3, <1>4

\* The partial guard is dropped after its message is decoded.
LEMMA EndPartialIInv ==
  ASSUME IInv, EndPartial
  PROVE  IInv'
<1>0. TypeOK /\ Ownership /\ Positions /\ OpOK /\ pc[dispatcher] = "partial"
      /\ dispatcher \in Actors /\ dispatcher \notin Requests /\ "idle" \in Labels
  BY OpFromIInv, Threads DEF IInv, EndPartial, Labels
<1>1. /\ UNCHANGED <<slab, cell, outcome, lifecycle, taken, session, tickets>>
      /\ partial' = None /\ op' = [op EXCEPT ![dispatcher] = NoOp] /\ Goto(dispatcher, "idle")
      /\ active_partials' = [active_partials EXCEPT ![partial] = @ - 1]
  BY DEF EndPartial
<1>2. SlabOK' /\ LifecycleOK' /\ SessionOK' /\ Ownership' /\ OpOK'
  BY <1>0, <1>1, OwnerKept, OpSet, OpValues
  DEF TypeOK, SlabOK, LifecycleOK, SessionOK, slab, lifecycle, session
<1>3. /\ active_partials' \in [Requests -> {0, 1}]
      /\ \A q \in Requests : active_partials'[q] = 0
  BY <1>0, <1>1, SMTT(60) DEF TypeOK, CellsOK, ThreadsOK, Positions
<1>4. /\ pc' \in [Actors -> Labels] /\ pc'[dispatcher] = "idle"
      /\ \A b \in Actors : b # dispatcher => pc'[b] = pc[b]
  BY <1>0, <1>1, GotoMove DEF TypeOK
<1>5. TypeOK' /\ PartialsBeforeReply'
  <2>1. CellsOK'
    BY <1>0, <1>1, <1>3 DEF TypeOK, CellsOK
  <2>2. ThreadsOK'
    BY <1>0, <1>1, <1>2, <1>4 DEF TypeOK, ThreadsOK, OpOK
  <2>3. PartialsBeforeReply'
    BY <1>3, SMTT(60) DEF PartialsBeforeReply
  <2> QED
    BY <1>2, <2>1, <2>2, <2>3 DEF TypeOK
<1>6. Positions'
  <2>1. \A b \in Actors : pc'[b] # "consume" => taken'[b] = {}
    BY <1>0, <1>1, <1>4 DEF Positions
  <2>2. \A q \in Requests : /\ pc'[q] \in {"new", "insert"} => cell'[q] = "unborn"
                            /\ pc'[q] \in {"insert", "send"} => q \in readers'
    BY <1>0, <1>1, <1>4, Threads DEF Positions, lifecycle
  <2>3. /\ partial' # None <=> pc'[dispatcher] = "partial"
        /\ \A q \in Requests : active_partials'[q] = IF q = partial' THEN 1 ELSE 0
    BY <1>1, <1>3, <1>4, Threads
  <2> QED
    BY <1>0, <1>1, <1>2, <2>1, <2>2, <2>3 DEF Positions, OpOK, lifecycle
<1> QED
  BY <1>2, <1>5, <1>6 DEF IInv

-----------------------------------------------------------------------------
(* The other steps, and what the invariant gives. *)

\* The steps that only move a thread and touch the lifecycle or the session.
LEMMA SendIInv ==
  ASSUME IInv, NEW r \in Requests, Send(r) \/ Release(r)
  PROVE  IInv'
<1>0. /\ r \in Actors /\ CellsOK /\ LifecycleOK /\ SessionOK /\ OpOK
      /\ tickets \subseteq Requests /\ (gate => shutting_down /\ readers = {})
      /\ {"await", "done", "stop"} \subseteq Labels
  BY Threads, OpFromIInv DEF IInv, TypeOK, ThreadsOK, Positions, Labels
<1>1. CellsOK' /\ LifecycleOK' /\ SessionOK' /\ OpOK'
  BY <1>0 DEF Send, Release, CellsOK, LifecycleOK, SessionOK, OpOK, cells, settling, session
<1>2. /\ UNCHANGED <<slab, cell, active_partials, taken, partial, tickets, gate, shutting_down>>
      /\ readers' = readers \ {r} /\ pc[r] \in {"send", "release", "mismatch"}
  BY DEF Send, Release, cells, settling
<1>3. PICK l \in {"await", "done", "stop"} : Goto(r, l)
  BY DEF Send, Release
<1> QED
  BY <1>0, <1>1, <1>2, <1>3, Move

\* scan_timeouts only collects tickets.
LEMMA ScanIInv ==
  ASSUME IInv, ScanTimeouts
  PROVE  IInv'
<1>1. /\ CellsOK' /\ LifecycleOK' /\ SessionOK' /\ OpOK'
      /\ tickets' \subseteq Requests /\ (gate => shutting_down /\ readers = {})
  BY OpFromIInv
  DEF IInv, TypeOK, Positions, ScanTimeouts, CellsOK, LifecycleOK, SessionOK, OpOK, Live,
      cells, lifecycle, settling, session
<1>2. /\ UNCHANGED <<slab, cell, active_partials, taken, partial, gate, shutting_down, readers>>
      /\ pc[scanner] = "idle" /\ Goto(scanner, "timeouts") /\ "timeouts" \in Labels
  BY DEF ScanTimeouts, cells, settling, lifecycle, Labels
<1> QED
  BY <1>1, <1>2, Threads, Move

\* The pool begins a signalled or a blocking stop.
LEMMA BeginStopIInv ==
  ASSUME IInv, BeginStop
  PROVE  IInv'
<1>1. CellsOK' /\ LifecycleOK' /\ SessionOK' /\ OpOK'
  BY OpFromIInv
  DEF IInv, TypeOK, BeginStop, CellsOK, LifecycleOK, SessionOK, OpOK, cells, settling,
      session
<1>2. /\ UNCHANGED <<slab, cell, active_partials, taken, partial, tickets, gate, shutting_down,
                     readers>>
      /\ pc[stopper] = "idle"
  BY DEF BeginStop, cells, settling
<1>3. tickets \subseteq Requests /\ (gate => shutting_down /\ readers = {})
  BY DEF IInv, TypeOK, ThreadsOK, Positions
<1>4. PICK l \in {"stop", "block"} : Goto(stopper, l)
  BY DEF BeginStop
<1>5. l \in Labels
  BY DEF Labels
<1> QED
  BY <1>1, <1>2, <1>3, <1>4, <1>5, Threads, Move

\* signal_shutdown lets its first caller go on to take the gate.
LEMMA SignalIInv ==
  ASSUME IInv, NEW a \in Actors, SignalShutdown(a)
  PROVE  IInv'
<1>1. CellsOK' /\ LifecycleOK' /\ SessionOK' /\ OpOK'
  <2>1. CellsOK' /\ SessionOK'
    BY DEF IInv, TypeOK, SignalShutdown, CellsOK, SessionOK, cells, session
  <2>2. LifecycleOK'
    BY SMTT(60) DEF IInv, TypeOK, SignalShutdown, LifecycleOK
  <2>3. OpOK'
    BY OpFromIInv DEF SignalShutdown, OpOK, settling
  <2> QED
    BY <2>1, <2>2, <2>3
<1>2. /\ UNCHANGED <<slab, cell, active_partials, taken, partial, tickets, gate, shutting_down,
                     readers>>
      /\ pc[a] \in {"quarantine", "stop"}
  BY DEF SignalShutdown, cells, settling
<1>3. tickets \subseteq Requests /\ (gate => shutting_down /\ readers = {})
  BY DEF IInv, TypeOK, ThreadsOK, Positions
<1>4. PICK l \in {"idle", "timeouts", "done", "lock"} : Goto(a, l)
  BY AfterStopLabel DEF SignalShutdown
<1>5. l \in Labels
  BY DEF Labels
<1> QED
  BY <1>1, <1>2, <1>3, <1>4, <1>5, Move

\* The exclusive guard is taken when no dispatch holds the shared one.
LEMMA StopLockIInv ==
  ASSUME IInv, NEW a \in Actors, StopLock(a)
  PROVE  IInv'
<1>1. OpOK'
  <2>1. PICK l \in {"halt", "unlock"} : op' = [op EXCEPT ![a] = Settle(None, "reply", l)]
    BY DEF StopLock
  <2>2. l \in Continuations
    BY DEF Continuations
  <2> QED
    BY <2>1, <2>2, OpFromIInv, OpSet, OpValues
<1>2. CellsOK' /\ LifecycleOK' /\ SessionOK'
  BY SMTT(60) DEF IInv, TypeOK, StopLock, CellsOK, LifecycleOK, SessionOK, cells, session
<1>3. /\ UNCHANGED <<slab, cell, active_partials, taken, partial, tickets, readers>>
      /\ shutting_down' = TRUE /\ readers = {} /\ pc[a] \in {"lock", "block"}
  BY DEF StopLock, cells
<1>4. tickets \subseteq Requests
  BY DEF IInv, TypeOK, ThreadsOK
<1>5. PICK l \in {"drain", "closing"} : Goto(a, l)
  BY DEF StopLock
<1>6. l \in Labels
  BY DEF Labels
<1> QED
  BY <1>1, <1>2, <1>3, <1>4, <1>5, <1>6, Move

\* Closing the session changes the session and moves the stopping thread.
LEMMA CloseIInv ==
  ASSUME IInv, CloseSession
  PROVE  IInv'
<1>1. CellsOK' /\ LifecycleOK' /\ SessionOK' /\ OpOK'
  <2>1. CellsOK' /\ LifecycleOK'
    BY DEF IInv, TypeOK, CloseSession, CellsOK, LifecycleOK, cells, lifecycle
  <2>2. SessionOK'
    BY SMTT(60) DEF IInv, TypeOK, CloseSession, SessionOK
  <2>3. OpOK'
    BY OpFromIInv DEF CloseSession, OpOK, settling
  <2> QED
    BY <2>1, <2>2, <2>3
<1>2. /\ UNCHANGED <<slab, cell, active_partials, taken, partial, tickets, gate, shutting_down,
                     readers>>
      /\ pc[stopper] = "closing" /\ Goto(stopper, "drain") /\ "drain" \in Labels
  BY DEF CloseSession, cells, settling, lifecycle, Labels
<1>3. tickets \subseteq Requests /\ (gate => shutting_down /\ readers = {})
  BY DEF IInv, TypeOK, ThreadsOK, Positions
<1> QED
  BY <1>1, <1>2, <1>3, Threads, Move

\* The stopping thread leaves the gate where it stands.
LEMMA StopDoneIInv ==
  ASSUME IInv, NEW a \in Actors, StopDone(a)
  PROVE  IInv'
<1>1. CellsOK' /\ LifecycleOK' /\ SessionOK' /\ OpOK'
  BY OpFromIInv DEF IInv, TypeOK, StopDone, CellsOK, LifecycleOK, SessionOK, OpOK, cells,
     settling
<1>2. /\ UNCHANGED <<slab, cell, active_partials, taken, partial, tickets, gate, shutting_down,
                     readers>>
      /\ pc[a] \in {"halt", "unlock"}
  BY DEF StopDone, cells, settling
<1>3. tickets \subseteq Requests /\ (gate => shutting_down /\ readers = {})
  BY DEF IInv, TypeOK, ThreadsOK, Positions
<1>4. PICK l \in {"idle", "timeouts", "done"} : Goto(a, l)
  BY AfterStopLabel DEF StopDone
<1>5. l \in Labels
  BY DEF Labels
<1> QED
  BY <1>1, <1>2, <1>3, <1>4, <1>5, Move
\* The dispatcher's steps on a session status event.
LEMMA StatusIInv ==
  ASSUME IInv, HandleSessionEnd \/ HandleConnectionDown \/ HandleConnectionUp
  PROVE  IInv'
<1>0. /\ UNCHANGED <<slab, cells, health, stop_started, readers, writer, gate, taken, sdk, wire,
                     partials, raised, tickets, partial>>
      /\ pc[dispatcher] = "idle" /\ events # <<>> /\ events' = Tail(events)
  BY DEF HandleSessionEnd, HandleConnectionDown, HandleConnectionUp, Status
<1>1. /\ shutting_down' = TRUE \/ shutting_down' = shutting_down
      /\ op' = op \/ \E l \in {"dead", "idle", "degrade"} :
                       op' = [op EXCEPT ![dispatcher] = Settle(None, "reply", l)]
      /\ \E l \in {"drain", "idle", "heal"} : Goto(dispatcher, l)
  BY DEF HandleSessionEnd, HandleConnectionDown, HandleConnectionUp
<1>2. OpOK'
  <2>1. CASE op' = op
    BY <2>1, OpFromIInv DEF OpOK
  <2>2. CASE \E l \in {"dead", "idle", "degrade"} :
               op' = [op EXCEPT ![dispatcher] = Settle(None, "reply", l)]
    <3>1. {"dead", "idle", "degrade"} \subseteq Continuations
      BY DEF Continuations
    <3> QED
      BY <2>2, <3>1, OpFromIInv, OpSet, OpValues, Threads
  <2> QED
    BY <1>1, <2>1, <2>2
<1>3. CellsOK' /\ LifecycleOK'
  BY <1>0, <1>1 DEF IInv, TypeOK, CellsOK, LifecycleOK, cells
<1>4. SessionOK'
  <2>1. events \in Seq(SessionEvents)
    BY DEF IInv, TypeOK, SessionOK
  <2>2. Tail(events) \in Seq(SessionEvents)
    BY <1>0, <2>1, SMTT(60)
  <2> QED
    BY <1>0, <2>2 DEF IInv, TypeOK, SessionOK
<1>5. tickets \subseteq Requests /\ (gate' => shutting_down' /\ readers = {})
  <2>1. tickets \subseteq Requests /\ (gate => shutting_down /\ readers = {})
    BY DEF IInv, TypeOK, ThreadsOK, Positions
  <2>2. gate' = gate /\ (shutting_down => shutting_down')
    BY <1>0, <1>1, SMTT(60)
  <2> QED
    BY <2>1, <2>2
<1>6. PICK l \in {"drain", "idle", "heal"} : Goto(dispatcher, l)
  BY <1>1
<1>7. l \in Labels /\ UNCHANGED <<cell, active_partials>>
  BY <1>0 DEF Labels, cells
<1> QED
  BY <1>0, <1>2, <1>3, <1>4, <1>5, <1>6, <1>7, Threads, Move

\* A stored health touches no request.
LEMMA HealthIInv ==
  ASSUME IInv, StoreHealth
  PROVE  IInv'
<1>1. health' \in 0..2
  BY SMTT(60) DEF StoreHealth
<1>2. CellsOK' /\ LifecycleOK' /\ SessionOK' /\ OpOK'
  BY <1>1, OpFromIInv DEF IInv, TypeOK, StoreHealth, CellsOK, LifecycleOK, SessionOK, OpOK,
     cells, settling, session
<1>3. /\ UNCHANGED <<slab, cell, active_partials, taken, partial, tickets, gate, shutting_down,
                     readers>>
      /\ pc[dispatcher] \in {"dead", "degrade", "heal"} /\ Goto(dispatcher, "idle")
      /\ "idle" \in Labels
  BY DEF StoreHealth, cells, settling, Labels
<1>4. tickets \subseteq Requests /\ (gate => shutting_down /\ readers = {})
  BY DEF IInv, TypeOK, ThreadsOK, Positions
<1> QED
  BY <1>2, <1>3, <1>4, Threads, Move

\* What the session does on its own changes only the session.
LEMMA SessionIInv ==
  ASSUME IInv, UNCHANGED <<slab, cells, lifecycle, settling, pc, tickets, partial>>, SessionOK'
  PROVE  IInv'
<1>1. TypeOK'
  BY DEF IInv, TypeOK, SlabOK, CellsOK, LifecycleOK, ThreadsOK, slab, cells, lifecycle, settling
<1>2. Ownership' /\ PartialsBeforeReply'
  BY OwnerKept DEF IInv, PartialsBeforeReply, slab, cells, settling
<1>3. Positions'
  BY DEF IInv, Positions, cells, lifecycle, settling
<1> QED
  BY <1>1, <1>2, <1>3 DEF IInv

\* An event of the session waits in its queue.
LEMMA SdkEventIInv ==
  ASSUME IInv, NEW e \in SessionEvents, SdkEvent(e)
  PROVE  IInv'
<1>1. events \in Seq(SessionEvents) /\ Append(events, e) \in Seq(SessionEvents)
  BY SMTT(60) DEF IInv, TypeOK, SessionOK
<1>2. SessionOK'
  BY <1>1, SMTT(60) DEF SdkEvent, IInv, TypeOK, SessionOK
<1> QED
  BY <1>2, SessionIInv DEF SdkEvent

\* A new worker satisfies the invariant.
LEMMA InitIInv == Init => IInv
<1> SUFFICES ASSUME Init PROVE IInv
  OBVIOUS
<1>1. <<>> \in Seq(SessionEvents) /\ "new" \in Labels /\ "idle" \in Labels
  BY SMTT(60) DEF Labels
<1>2. NoOp \in [target : Requests \cup {None}, verdict : {"reply", "discard"}, next : Labels]
      /\ NoOp.next \in Continuations
  BY DEF NoOp, Settle, Labels, Continuations
<1>3. TypeOK
  <2>1. SlabOK /\ CellsOK /\ SessionOK
    BY <1>1, Threads DEF Init, SlabOK, CellsOK, SessionOK
  <2>2. LifecycleOK
    <3>1. health \in 0..2 /\ readers \subseteq Requests /\ writer \in Actors \cup {None}
      BY SMTT(60) DEF Init
    <3>2. shutting_down \in BOOLEAN /\ stop_started \in BOOLEAN /\ gate \in BOOLEAN
      BY DEF Init
    <3> QED
      BY <3>1, <3>2 DEF LifecycleOK
  <2>3. pc \in [Actors -> Labels]
    BY <1>1 DEF Init
  <2>4. ThreadsOK
    BY <1>2, <2>3 DEF Init, ThreadsOK
  <2> QED
    BY <2>1, <2>2, <2>4 DEF TypeOK
<1>4. Ownership /\ PartialsBeforeReply
  <2>1. \A k \in Keys : requests[k] = None
    BY DEF Init
  <2>2. \A a \in Actors : taken[a] = {}
    BY DEF Init
  <2>3. \A r \in Requests : cell[r] = "unborn" /\ active_partials[r] = 0
    BY DEF Init
  <2>4. Ownership
    BY <2>1, <2>2, <2>3 DEF Ownership
  <2>5. PartialsBeforeReply
    BY <2>3, SMTT(60) DEF PartialsBeforeReply
  <2> QED
    BY <2>4, <2>5
<1>5. Positions
  BY <1>2, Threads DEF Init, Positions
<1> QED
  BY <1>3, <1>4, <1>5 DEF IInv

\* Every step of the worker keeps the invariant.
LEMMA NextIInv == IInv /\ [Next]_vars => IInv'
<1> SUFFICES ASSUME IInv, [Next]_vars PROVE IInv'
  OBVIOUS
<1>1. ASSUME NEW r \in Requests, OwnerStep(r) PROVE IInv'
  BY <1>1, SubmitIInv, InsertIInv, SendIInv, OwnerTakesIInv DEF OwnerStep
<1>2. ASSUME NEW a \in Actors, Consume(a) \/ drain_in_flight(a) \/ StopStep(a) PROVE IInv'
  BY <1>2, ConsumeIInv, DrainIInv, SignalIInv, StopLockIInv, StopDoneIInv DEF StopStep
<1>3. CASE DispatcherStep
  BY <1>3, BeginPartialIInv, FinalIInv, EndPartialIInv, StatusIInv, HealthIInv
     DEF DispatcherStep
<1>4. CASE ScanTimeouts \/ TimeoutRequest \/ BeginStop \/ CloseSession
  BY <1>4, ScanIInv, TimeoutIInv, BeginStopIInv, CloseIInv
<1>5. CASE Closed \/ UNCHANGED vars
  <2>1. UNCHANGED <<slab, cells, lifecycle, settling, pc, tickets, partial>> /\ UNCHANGED session
    BY <1>5 DEF Closed, vars
  <2>2. SessionOK'
    BY <2>1 DEF IInv, TypeOK, SessionOK, session
  <2> QED
    BY <2>1, <2>2, SessionIInv
<1>6. ASSUME NEW e \in SessionEvents, SdkEvent(e) PROVE IInv'
  BY <1>6, SdkEventIInv
<1> QED
  BY <1>1, <1>2, <1>3, <1>4, <1>5, <1>6 DEF Next

\* The inductive invariant holds of every run of the worker.
THEOREM Invariance == Spec => []IInv
<1> QED
  BY InitIInv, NextIInv, PTL DEF Spec

\* Every variable keeps its type; one dispatcher thread decodes one partial of
\* a request at a time.
THEOREM TypeCorrect == Spec => []TypeOK
<1>1. IInv => TypeOK
  BY DEF IInv
<1> QED
  BY Invariance, <1>1, PTL

\* A pending request has exactly one owner: its slab slot, or one of the racing
\* response, failure, cancel, timeout, drain and send-failure paths.
THEOREM OneOwner == Spec => []Ownership
<1>1. IInv => Ownership
  BY DEF IInv
<1> QED
  BY Invariance, <1>1, PTL

\* wait_for_partials: no path takes the decoder state under an active partial.
THEOREM PartialsFirst == Spec => []PartialsBeforeReply
<1>1. IInv => PartialsBeforeReply
  BY DEF IInv
<1> QED
  BY Invariance, <1>1, PTL

\* The lifecycle gate: sendRequest never runs once a stop held the exclusive
\* guard, because a dispatch holds the shared guard from its check to its send.
THEOREM NoLateSend == Spec => NoSendAfterGate
<1>1. IInv /\ [Next]_vars => [gate => wire' \subseteq wire]_vars
  <2> SUFFICES ASSUME IInv, Next, gate PROVE wire' \subseteq wire
    OBVIOUS
  <2>1. \A r \in Requests : ~Send(r)
    BY DEF Send, IInv, Positions
  <2>2. ASSUME NEW r \in Requests, OwnerStep(r) PROVE wire' \subseteq wire
    BY <2>1, <2>2
    DEF OwnerStep, Submit, Insert, SendFails, SendMiscorrelated, Release, CancelRequest,
        session
  <2>3. ASSUME NEW a \in Actors, Consume(a) \/ drain_in_flight(a) \/ StopStep(a)
        PROVE  wire' \subseteq wire
    BY <2>3 DEF Consume, drain_in_flight, StopStep, SignalShutdown, StopLock, StopDone, session
  <2>4. CASE DispatcherStep
    BY <2>4
    DEF DispatcherStep, BeginPartial, HandleFinal, EndPartial, HandleSessionEnd,
        HandleConnectionDown, HandleConnectionUp, Status, StoreHealth, session
  <2>5. CASE ScanTimeouts \/ TimeoutRequest \/ BeginStop \/ CloseSession \/ Closed
    BY <2>5 DEF ScanTimeouts, TimeoutRequest, BeginStop, CloseSession, Closed, vars, session
  <2>6. ASSUME NEW e \in SessionEvents, SdkEvent(e) PROVE wire' \subseteq wire
    BY <2>6 DEF SdkEvent
  <2> QED
    BY <2>2, <2>3, <2>4, <2>5, <2>6 DEF Next
<1> QED
  BY Invariance, <1>1, PTL DEF Spec, NoSendAfterGate

-----------------------------------------------------------------------------
(* Tickets. *)

\* The worker registers fewer requests in its life than there are tags.
FewRequests == /\ IsFiniteSet(Requests)
               /\ Cardinality(Requests) < TagModulus
               /\ Cardinality(Requests) < CounterModulus

\* A ticket's tag is then its whole generation, and it addresses its own
\* request, which it finds as long as the request is registered.
LEMMA OwnTicket ==
  ASSUME FewRequests, IInv, Tickets, NEW r \in Requests
  PROVE  Matches(r) \subseteq {r} /\ (InSlab(r) => Matches(r) = {r})
<1>0. SlabOK /\ Ownership /\ None \notin Requests /\ TagModulus \in Nat \ {0}
  BY Threads, WorkerConstants DEF IInv, TypeOK
<1>1. Cardinality(Inserted) \in Nat /\ Cardinality(Inserted) <= Cardinality(Requests)
      /\ Cardinality(Requests) \in Nat
  <2>1. Inserted \subseteq Requests
    BY DEF Inserted
  <2> QED
    BY <2>1, FS_Subset, FS_CardinalityType DEF FewRequests
<1>2. ASSUME r \in Inserted PROVE Tag(r) = generation[r]
  <2>0. generation[r] \in 1..next_generation /\ next_generation = Cardinality(Inserted)
        /\ Cardinality(Requests) < TagModulus
    BY <1>2 DEF Tickets, FewRequests
  <2>1. generation[r] \in Nat /\ generation[r] < TagModulus
    BY <1>0, <1>1, <2>0, SMTT(60)
  <2>2. \A g \in Nat, m \in Nat \ {0} : g < m => g % m = g
    BY SMTT(60)
  <2> QED
    BY <1>0, <2>1, <2>2 DEF Tag
<1>3. ASSUME NEW x \in Matches(r) PROVE x = r
  <2>1. key[r] # None /\ key[r] \in Keys /\ requests[key[r]] = x /\ generation[x] = Tag(r)
        /\ x \in Requests
    BY <1>0, <1>3 DEF Matches, SlabOK
  <2>2. key[x] = key[r]
    BY <1>0, <2>1 DEF Ownership
  <2>3. r \in Inserted /\ x \in Inserted
    BY <2>1, <2>2 DEF Inserted
  <2> QED
    BY <1>2, <2>1, <2>3 DEF Tickets
<1>4. ASSUME InSlab(r) PROVE r \in Matches(r)
  <2>1. PICK k \in Keys : requests[k] = r
    BY <1>4 DEF InSlab
  <2>2. key[r] = k /\ k # None
    BY <1>0, <2>1, Threads DEF Ownership
  <2>3. r \in Inserted
    BY <2>2 DEF Inserted
  <2> QED
    BY <1>2, <2>1, <2>2, <2>3 DEF Matches
<1> QED
  BY <1>3, <1>4

\* Steps that insert no request and take no slot.
LEMMA TicketsKept ==
  ASSUME Tickets, UNCHANGED <<key, generation, next_generation>>,
         \A r \in Requests : cell'[r] = "unborn" <=> cell[r] = "unborn",
         \A a \in Actors : pc'[a] \in {"drain", "closing"} => op'[a].target = None
  PROVE  Tickets'
<1>1. Inserted' = Inserted
  BY DEF Inserted
<1> QED
  BY <1>1 DEF Tickets

\* Steps that touch no ticket, no hand and no partial.
LEMMA Quiet ==
  ASSUME Tickets, RightRequest,
         UNCHANGED <<key, generation, next_generation, cell, taken, op, partial>>,
         \A a \in Actors : pc'[a] \in {"drain", "closing"} => pc[a] \in {"drain", "closing"}
  PROVE  Tickets' /\ RightRequest'
<1>1. \A a \in Actors : pc'[a] \in {"drain", "closing"} => op'[a].target = None
  BY DEF Tickets
<1> QED
  BY <1>1, TicketsKept DEF RightRequest

\* A thread moves to a label where it drains nothing.
LEMMA QuietMove ==
  ASSUME IInv, Tickets, RightRequest, NEW a \in Actors, NEW l \in Labels, Goto(a, l),
         l \in {"drain", "closing"} => pc[a] \in {"drain", "closing"},
         UNCHANGED <<key, generation, next_generation, cell, taken, op, partial>>
  PROVE  Tickets' /\ RightRequest'
<1>1. /\ pc'[a] = l /\ \A b \in Actors : b # a => pc'[b] = pc[b]
  BY GotoMove DEF IInv, TypeOK
<1> QED
  BY <1>1, Quiet

\* take_slot takes at most the request its ticket is for.
LEMMA TakeTickets ==
  ASSUME FewRequests, IInv, Tickets, RightRequest, NEW a \in Actors, NEW r \in Requests,
         NEW v \in {"reply", "discard"}, NEW l \in Continuations, take_slot(a, r, v, l),
         pc[a] # "partial", UNCHANGED <<cell, partial>>
  PROVE  Tickets' /\ RightRequest'
<1>1. /\ pc'[a] \in {l, "consume"} /\ \A b \in Actors : b # a => pc'[b] = pc[b]
      /\ taken' = [taken EXCEPT ![a] = Matches(r)]
      /\ \A b \in Actors : b # a => op'[b] = op[b]
  <2>1. TypeOK
    BY DEF IInv
  <2> QED
    BY <2>1, TakeSlot, SMTT(60)
<1>2. l \notin {"drain", "closing"} /\ UNCHANGED <<key, generation, next_generation>>
  BY DEF Continuations, take_slot
<1>3. /\ taken'[a] = Matches(r) /\ \A b \in Actors : b # a => taken'[b] = taken[b]
  BY <1>1 DEF IInv, TypeOK, ThreadsOK
<1>4. op'[a].target \in {r, None}
  BY DEF take_slot, NoOp, Settle, IInv, TypeOK, ThreadsOK
<1>5. Tickets'
  <2>1. \A b \in Actors : pc'[b] \in {"drain", "closing"} => op'[b].target = None
    BY <1>1, <1>2 DEF Tickets
  <2> QED
    BY <1>2, <2>1, TicketsKept
<1>6. ASSUME NEW b \in Actors, op'[b].target # None
      PROVE  taken'[b] \subseteq {op'[b].target}
  <2>1. CASE b = a
    <3>1. Matches(r) \subseteq {r} /\ op'[a].target = r
      BY <1>4, <1>6, <2>1, OwnTicket
    <3> QED
      BY <1>3, <2>1, <3>1
  <2>2. CASE b # a
    BY <1>1, <1>3, <1>6, <2>2 DEF RightRequest
  <2> QED
    BY <2>1, <2>2
<1>7. partial' # None => partial' = op'[dispatcher].target
  BY <1>1, Threads DEF RightRequest, IInv, Positions
<1> QED
  BY <1>5, <1>6, <1>7 DEF RightRequest
\* A thread records that it is about to drain, for no particular ticket.
LEMMA DrainsNext ==
  ASSUME IInv, Tickets, RightRequest, NEW a \in Actors, NEW l \in Labels, NEW m,
         Goto(a, l), op' = [op EXCEPT ![a] = Settle(None, "reply", m)], pc[a] # "partial",
         UNCHANGED <<key, generation, next_generation, cell, taken, partial>>
  PROVE  Tickets' /\ RightRequest'
<1>1. \A b \in Actors : b # a => pc'[b] = pc[b]
  BY GotoMove DEF IInv, TypeOK
<1>2. op'[a].target = None /\ \A b \in Actors : b # a => op'[b] = op[b]
  BY DEF Settle, IInv, TypeOK, ThreadsOK
<1>3. Tickets'
  <2>1. \A b \in Actors : pc'[b] \in {"drain", "closing"} => op'[b].target = None
    BY <1>1, <1>2 DEF Tickets
  <2> QED
    BY <2>1, TicketsKept
<1>4. RightRequest'
  BY <1>2, Threads DEF RightRequest, IInv, Positions
<1> QED
  BY <1>3, <1>4

\* drain_in_flight settles no particular ticket.
LEMMA DrainTickets ==
  ASSUME IInv, Tickets, RightRequest, NEW a \in Actors, drain_in_flight(a)
  PROVE  Tickets' /\ RightRequest'
<1>0. /\ pc[a] = "drain" /\ op[a].target = None /\ OpOK
      /\ UNCHANGED <<key, generation, next_generation, cell, partial>>
  BY OpFromIInv DEF drain_in_flight, Tickets, cells
<1>1. PICK m \in {op[a].next, "consume"} : Goto(a, m)
  BY DEF drain_in_flight
<1>2. m \in Labels
  BY <1>0, <1>1 DEF OpOK, Continuations, Labels
<1>3. \A b \in Actors : b # a => pc'[b] = pc[b]
  BY <1>1, <1>2, GotoMove DEF IInv, TypeOK
<1>4. /\ op'[a].target = None /\ \A b \in Actors : b # a => op'[b] = op[b]
      /\ \A b \in Actors : b # a => taken'[b] = taken[b]
  BY <1>0 DEF drain_in_flight, NoOp, Settle, IInv, TypeOK, ThreadsOK
<1>5. Tickets'
  <2>1. \A b \in Actors : pc'[b] \in {"drain", "closing"} => op'[b].target = None
    BY <1>3, <1>4 DEF Tickets
  <2> QED
    BY <1>0, <2>1, TicketsKept
<1>6. RightRequest'
  BY <1>0, <1>4, Threads DEF RightRequest, IInv, Positions
<1> QED
  BY <1>5, <1>6

\* Settling a request empties the hand that held it.
LEMMA ConsumeTickets ==
  ASSUME IInv, Tickets, RightRequest, NEW a \in Actors, Consume(a)
  PROVE  Tickets' /\ RightRequest'
<1>0. /\ pc[a] = "consume" /\ OpOK /\ TypeOK
      /\ UNCHANGED <<key, generation, next_generation, partial>>
  BY OpFromIInv DEF Consume, slab, IInv
<1>1. PICK x \in taken[a] : cell' = [cell EXCEPT ![x] = "taken"] /\ Settled(a, x)
  BY DEF Consume
<1>2. x \in Requests /\ cell[x] = "some"
  BY <1>0, <1>1 DEF IInv, Ownership, TypeOK, ThreadsOK
<1>3. \A r \in Requests : cell'[r] = "unborn" <=> cell[r] = "unborn"
  BY <1>0, <1>1, <1>2 DEF TypeOK, CellsOK
<1>4. PICK m \in {op[a].next, "consume"} : Goto(a, m)
  BY <1>1 DEF Settled
<1>5. m \in Labels /\ m \notin {"drain", "closing"}
  BY <1>0, <1>4 DEF OpOK, Continuations, Labels
<1>6. pc'[a] = m /\ \A b \in Actors : b # a => pc'[b] = pc[b]
  BY <1>0, <1>4, <1>5, GotoMove DEF TypeOK
<1>7. /\ op'[a].target \in {op[a].target, None} /\ \A b \in Actors : b # a => op'[b] = op[b]
      /\ taken'[a] \subseteq taken[a] /\ \A b \in Actors : b # a => taken'[b] = taken[b]
  BY <1>0, <1>1 DEF Settled, NoOp, Settle, TypeOK, ThreadsOK
<1>8. Tickets'
  <2>1. \A b \in Actors : pc'[b] \in {"drain", "closing"} => op'[b].target = None
    BY <1>5, <1>6, <1>7 DEF Tickets
  <2> QED
    BY <1>0, <1>3, <2>1, TicketsKept
<1>9. ASSUME NEW b \in Actors, op'[b].target # None
      PROVE  taken'[b] \subseteq {op'[b].target}
  BY <1>7, <1>9 DEF RightRequest
<1>10. partial' # None => partial' = op'[dispatcher].target
  BY <1>0, <1>7, Threads DEF RightRequest, IInv, Positions
<1> QED
  BY <1>8, <1>9, <1>10 DEF RightRequest

\* A partial is decoded into the request its ticket is for.
LEMMA PartialTickets ==
  ASSUME FewRequests, IInv, Tickets, RightRequest,
         EndPartial \/ \E r \in Requests : BeginPartial(r)
  PROVE  Tickets' /\ RightRequest'
<1>0. UNCHANGED <<key, generation, next_generation, cell, taken>> /\ dispatcher \in Actors
  BY Threads DEF EndPartial, BeginPartial, slab
<1>1. taken[dispatcher] = {} /\ pc \in [Actors -> Labels] /\ op \in [Actors -> OpType]
  <2>1. pc[dispatcher] # "consume" /\ dispatcher \in Actors
    BY Threads DEF EndPartial, BeginPartial
  <2>2. taken[dispatcher] = {} /\ pc \in [Actors -> Labels]
    BY <2>1 DEF IInv, Positions, TypeOK, ThreadsOK
  <2>3. op \in [Actors -> OpType]
    BY OpFromIInv DEF OpOK, OpType
  <2> QED
    BY <2>2, <2>3
<1>2. /\ \A b \in Actors : b # dispatcher => pc'[b] = pc[b] /\ op'[b] = op[b]
      /\ pc'[dispatcher] \in {"idle", "partial"}
  BY <1>0, <1>1 DEF EndPartial, BeginPartial, Goto
<1>3. Tickets'
  <2>1. \A b \in Actors : pc'[b] \in {"drain", "closing"} => op'[b].target = None
    BY <1>2 DEF Tickets
  <2> QED
    BY <1>0, <2>1, TicketsKept
<1>4. partial' # None => partial' = op'[dispatcher].target
  <2>1. CASE EndPartial
    BY <2>1 DEF EndPartial
  <2>2. ASSUME NEW r \in Requests, BeginPartial(r)
        PROVE  partial' # None => partial' = op'[dispatcher].target
    <3>1. CASE Matches(r) = {}
      BY <2>2, <3>1 DEF BeginPartial, RightRequest
    <3>2. CASE Matches(r) # {}
      <4>1. Matches(r) \subseteq {r}
        BY OwnTicket
      <4>2. partial' \in Matches(r) /\ op' = [op EXCEPT ![dispatcher] = Settle(r, "reply", "idle")]
        BY <2>2, <3>2 DEF BeginPartial
      <4> QED
        BY <1>0, <1>1, <4>1, <4>2 DEF Settle
    <3> QED
      BY <3>1, <3>2
  <2> QED
    BY <2>1, <2>2
<1>5. RightRequest'
  BY <1>0, <1>1, <1>2, <1>4 DEF RightRequest
<1> QED
  BY <1>3, <1>5
\* A fresh generation: the counter counts the insertions so far.
LEMMA InsertTickets ==
  ASSUME FewRequests, IInv, Tickets, RightRequest, NEW r \in Requests, Insert(r)
  PROVE  Tickets' /\ RightRequest'
<1>0. /\ TypeOK /\ pc[r] = "insert" /\ cell[r] = "unborn" /\ key[r] = None /\ r \notin Inserted
      /\ r \in Actors
  BY Threads DEF IInv, Insert, Positions, Tickets, Inserted
<1>1. PICK k \in Keys : key' = [key EXCEPT ![r] = k]
  BY DEF Insert
<1>2. /\ next_generation' = (next_generation + 1) % CounterModulus
      /\ generation' = [generation EXCEPT ![r] = next_generation']
      /\ cell' = [cell EXCEPT ![r] = "some"] /\ Goto(r, "send")
      /\ UNCHANGED <<taken, op, partial>>
  BY DEF Insert, settling
<1>3. /\ key'[r] = k /\ k # None /\ \A q \in Requests : q # r => key'[q] = key[q]
      /\ generation'[r] = next_generation'
      /\ \A q \in Requests : q # r => generation'[q] = generation[q]
      /\ cell'[r] = "some" /\ \A q \in Requests : q # r => cell'[q] = cell[q]
  BY <1>0, <1>1, <1>2, Threads DEF TypeOK, SlabOK, CellsOK
<1>4. Inserted' = Inserted \cup {r}
  BY <1>3 DEF Inserted
<1>5. /\ IsFiniteSet(Inserted) /\ Cardinality(Inserted) \in Nat
      /\ Cardinality(Inserted') = Cardinality(Inserted) + 1
      /\ Cardinality(Inserted') <= Cardinality(Requests) /\ Cardinality(Requests) \in Nat
  <2>1. Inserted \subseteq Requests /\ Inserted' \subseteq Requests
    BY DEF Inserted
  <2>2. IsFiniteSet(Inserted) /\ IsFiniteSet(Requests)
    BY <2>1, FS_Subset DEF FewRequests
  <2> QED
    BY <1>0, <1>4, <2>1, <2>2, FS_Subset, FS_AddElement, FS_CardinalityType
<1>6. next_generation' = next_generation + 1 /\ next_generation \in Nat
  <2>1. next_generation = Cardinality(Inserted) /\ Cardinality(Requests) < CounterModulus
        /\ CounterModulus \in Nat \ {0}
    BY WorkerConstants DEF Tickets, FewRequests
  <2>2. \A g \in Nat, m \in Nat \ {0} : g < m => g % m = g
    BY SMTT(60)
  <2>3. next_generation + 1 \in Nat /\ next_generation + 1 < CounterModulus
    BY <1>5, <2>1, SMTT(60)
  <2> QED
    BY <1>2, <1>5, <2>1, <2>2, <2>3
<1>7. next_generation' = Cardinality(Inserted')
  BY <1>5, <1>6 DEF Tickets
<1>8. \A q \in Inserted : generation[q] \in 1..next_generation /\ q # r /\ q \in Requests
  BY <1>0 DEF Tickets, Inserted
<1>9. \A q \in Inserted' : generation'[q] \in 1..next_generation'
  <2>1. \A q \in Inserted : generation'[q] = generation[q]
    BY <1>3, <1>8
  <2>2. \A q \in Inserted : generation[q] \in 1..next_generation'
    BY <1>6, <1>8, SMTT(60)
  <2>3. generation'[r] \in 1..next_generation'
    <3>1. generation'[r] = next_generation'
      BY <1>3
    <3>2. next_generation' \in 1..next_generation'
      BY <1>6, SMTT(60)
    <3> QED
      BY <3>1, <3>2
  <2> QED
    BY <1>4, <2>1, <2>2, <2>3
<1>10. ASSUME NEW p \in Inserted', NEW q \in Inserted', generation'[p] = generation'[q]
       PROVE  p = q
  <2>1. \A z \in Inserted : generation'[z] = generation[z] /\ generation'[z] # generation'[r]
    <3>1. \A z \in Inserted : generation'[z] = generation[z]
      BY <1>3, <1>8
    <3>2. \A z \in Inserted : generation[z] # next_generation + 1
      BY <1>6, <1>8, SMTT(60)
    <3> QED
      BY <1>3, <1>6, <3>1, <3>2
  <2>2. CASE p \in Inserted /\ q \in Inserted
    BY <1>10, <2>1, <2>2 DEF Tickets
  <2> QED
    BY <1>4, <1>10, <2>1, <2>2
<1>11. \A q \in Requests : cell'[q] = "unborn" <=> key'[q] = None
  BY <1>3 DEF Tickets
<1>12. \A b \in Actors : pc'[b] \in {"drain", "closing"} => op'[b].target = None
  <2>1. pc'[r] = "send" /\ \A b \in Actors : b # r => pc'[b] = pc[b]
    BY <1>0, <1>2 DEF TypeOK, ThreadsOK, Goto
  <2> QED
    BY <1>2, <2>1 DEF Tickets
<1>13. Tickets'
  BY <1>7, <1>9, <1>10, <1>11, <1>12 DEF Tickets
<1> QED
  BY <1>2, <1>13 DEF RightRequest

\* The steps of a submitter.
LEMMA OwnerTickets ==
  ASSUME FewRequests, IInv, Tickets, RightRequest, NEW r \in Requests, OwnerStep(r)
  PROVE  Tickets' /\ RightRequest'
<1>0. /\ r \in Actors /\ {"done", "insert", "await", "stop"} \subseteq Labels
      /\ {"release", "mismatch", "done", "quarantine"} \subseteq Continuations
  BY Threads DEF Labels, Continuations
<1>1. CASE Submit(r) \/ Send(r) \/ Release(r)
  <2>1. PICK l \in {"done", "insert", "await", "stop"} : Goto(r, l)
    BY <1>1 DEF Submit, Send, Release
  <2>2. UNCHANGED <<key, generation, next_generation, cell, taken, op, partial>>
    BY <1>1 DEF Submit, Send, Release, slab, cells, settling
  <2> QED
    BY <1>0, <2>1, <2>2, QuietMove
<1>2. CASE SendFails(r) \/ SendMiscorrelated(r) \/ CancelRequest(r)
  <2>1. PICK l \in {"release", "mismatch", "done", "quarantine"}, v \in {"reply", "discard"} :
          take_slot(r, r, v, l)
    BY <1>2 DEF SendFails, SendMiscorrelated, CancelRequest
  <2>2. UNCHANGED <<cell, partial>> /\ pc[r] # "partial"
    BY <1>2 DEF SendFails, SendMiscorrelated, CancelRequest, cells
  <2> QED
    BY <1>0, <2>1, <2>2, TakeTickets
<1> QED
  BY <1>1, <1>2, InsertTickets DEF OwnerStep

\* The steps of the dispatcher.
LEMMA DispatcherTickets ==
  ASSUME FewRequests, IInv, Tickets, RightRequest, DispatcherStep
  PROVE  Tickets' /\ RightRequest'
<1>0. /\ dispatcher \in Actors /\ {"drain", "idle", "heal"} \subseteq Labels
      /\ "idle" \in Continuations
  BY Threads DEF Labels, Continuations
<1>1. ASSUME NEW r \in Requests, HandleFinal(r) PROVE Tickets' /\ RightRequest'
  <2>1. take_slot(dispatcher, r, "reply", "idle") /\ UNCHANGED <<cell, partial>>
        /\ pc[dispatcher] # "partial"
    BY <1>1 DEF HandleFinal, cells
  <2> QED
    BY <1>0, <2>1, TakeTickets
<1>2. CASE HandleSessionEnd \/ HandleConnectionDown
  <2>1. PICK m \in {"dead", "idle", "degrade"} :
          op' = [op EXCEPT ![dispatcher] = Settle(None, "reply", m)]
    BY <1>2 DEF HandleSessionEnd, HandleConnectionDown
  <2>2. /\ Goto(dispatcher, "drain") /\ pc[dispatcher] # "partial"
        /\ UNCHANGED <<key, generation, next_generation, cell, taken, partial>>
    BY <1>2 DEF HandleSessionEnd, HandleConnectionDown, Status, slab, cells
  <2> QED
    BY <1>0, <2>1, <2>2, DrainsNext
<1>3. CASE HandleConnectionUp \/ StoreHealth
  <2>1. PICK l \in {"idle", "heal"} : Goto(dispatcher, l)
    BY <1>3 DEF HandleConnectionUp, StoreHealth
  <2>2. UNCHANGED <<key, generation, next_generation, cell, taken, op, partial>>
    BY <1>3 DEF HandleConnectionUp, StoreHealth, Status, slab, cells, settling
  <2> QED
    BY <1>0, <2>1, <2>2, QuietMove
<1> QED
  BY <1>1, <1>2, <1>3, PartialTickets DEF DispatcherStep

\* The steps of a stopping thread.
LEMMA StopTickets ==
  ASSUME IInv, Tickets, RightRequest, NEW a \in Actors, StopStep(a)
  PROVE  Tickets' /\ RightRequest'
<1>0. {"drain", "closing", "lock", "idle", "timeouts", "done"} \subseteq Labels
  BY DEF Labels
<1>1. CASE StopLock(a)
  <2>1. PICK m \in {"halt", "unlock"}, l \in {"drain", "closing"} :
          op' = [op EXCEPT ![a] = Settle(None, "reply", m)] /\ Goto(a, l)
    BY <1>1 DEF StopLock
  <2>2. pc[a] # "partial" /\ UNCHANGED <<key, generation, next_generation, cell, taken, partial>>
    BY <1>1 DEF StopLock, slab, cells
  <2> QED
    BY <1>0, <2>1, <2>2, DrainsNext
<1>2. CASE SignalShutdown(a) \/ StopDone(a)
  <2>1. PICK l \in {"lock", "idle", "timeouts", "done"} : Goto(a, l)
    BY <1>2, AfterStopLabel DEF SignalShutdown, StopDone
  <2>2. UNCHANGED <<key, generation, next_generation, cell, taken, op, partial>>
    BY <1>2 DEF SignalShutdown, StopDone, slab, cells, settling
  <2> QED
    BY <1>0, <2>1, <2>2, QuietMove
<1> QED
  BY <1>1, <1>2 DEF StopStep

\* The steps of the scanner, the pool and the session.
LEMMA PoolTickets ==
  ASSUME FewRequests, IInv, Tickets, RightRequest,
         ScanTimeouts \/ TimeoutRequest \/ BeginStop \/ CloseSession
  PROVE  Tickets' /\ RightRequest'
<1>0. {"timeouts", "stop", "block", "drain"} \subseteq Labels
      /\ {"idle", "timeouts", "quarantine"} \subseteq Continuations
  BY DEF Labels, Continuations
<1>1. CASE TimeoutRequest
  <2>1. PICK r \in tickets, l \in {"idle", "timeouts", "quarantine"} :
          take_slot(scanner, r, "reply", l)
    BY <1>1 DEF TimeoutRequest, Scan
  <2>2. r \in Requests /\ UNCHANGED <<cell, partial>> /\ pc[scanner] # "partial"
    BY <1>1 DEF IInv, TypeOK, ThreadsOK, TimeoutRequest, cells
  <2> QED
    BY <1>0, <2>1, <2>2, Threads, TakeTickets
<1>2. CASE ScanTimeouts
  <2>1. Goto(scanner, "timeouts")
        /\ UNCHANGED <<key, generation, next_generation, cell, taken, op, partial>>
    BY <1>2 DEF ScanTimeouts, slab, cells, settling
  <2> QED
    BY <1>0, <2>1, Threads, QuietMove
<1>3. CASE BeginStop
  <2>1. PICK l \in {"stop", "block"} : Goto(stopper, l)
    BY <1>3 DEF BeginStop
  <2>2. UNCHANGED <<key, generation, next_generation, cell, taken, op, partial>>
    BY <1>3 DEF BeginStop, slab, cells, settling
  <2> QED
    BY <1>0, <2>1, <2>2, Threads, QuietMove
<1>4. CASE CloseSession
  <2>1. Goto(stopper, "drain") /\ pc[stopper] = "closing"
        /\ UNCHANGED <<key, generation, next_generation, cell, taken, op, partial>>
    BY <1>4 DEF CloseSession, slab, cells, settling
  <2> QED
    BY <1>0, <2>1, Threads, QuietMove
<1> QED
  BY <1>1, <1>2, <1>3, <1>4

\* Every step keeps the tickets apart.
LEMMA NextTickets ==
  ASSUME FewRequests
  PROVE  IInv /\ Tickets /\ RightRequest /\ [Next]_vars => Tickets' /\ RightRequest'
<1> SUFFICES ASSUME IInv, Tickets, RightRequest, [Next]_vars PROVE Tickets' /\ RightRequest'
  OBVIOUS
<1>1. CASE Closed \/ UNCHANGED vars
  <2>1. UNCHANGED <<key, generation, next_generation, cell, taken, op, partial, pc>>
    BY <1>1 DEF Closed, vars, slab, cells, settling
  <2> QED
    BY <2>1, Quiet
<1>2. ASSUME NEW e \in SessionEvents, SdkEvent(e) PROVE Tickets' /\ RightRequest'
  <2>1. UNCHANGED <<key, generation, next_generation, cell, taken, op, partial, pc>>
    BY <1>2 DEF SdkEvent, slab, cells, settling
  <2> QED
    BY <2>1, Quiet
<1> QED
  BY <1>1, <1>2, OwnerTickets, ConsumeTickets, DrainTickets, StopTickets, DispatcherTickets,
     PoolTickets DEF Next

\* A new worker has issued no ticket.
LEMMA InitTickets == Init => Tickets /\ RightRequest
<1> SUFFICES ASSUME Init PROVE Tickets /\ RightRequest
  OBVIOUS
<1>1. Inserted = {}
  BY DEF Init, Inserted
<1>2. Cardinality(Inserted) = 0
  BY <1>1, FS_EmptySet
<1>3. \A a \in Actors : op[a].target = None /\ taken[a] = {}
  BY DEF Init, NoOp, Settle
<1>4. \A r \in Requests : cell[r] = "unborn" /\ key[r] = None
  BY DEF Init
<1>5. partial = None /\ next_generation = 0
  BY DEF Init
<1> QED
  BY <1>1, <1>2, <1>3, <1>4, <1>5 DEF Tickets, RightRequest

\* A thread that presents a ticket or a correlation ID only ever gets that
\* request, however slab keys are recycled, as long as the worker registers
\* fewer requests than there are tags (2^30).
THEOREM RightRequestTaken ==
  ASSUME FewRequests
  PROVE  Spec => []RightRequest
<1>1. IInv /\ Tickets /\ RightRequest /\ [Next]_vars => Tickets' /\ RightRequest'
  BY NextTickets
<1> QED
  BY InitTickets, Invariance, <1>1, PTL DEF Spec

\* Under the same bound a final response or failure always finds the slot of
\* its request while it is registered; from generation 2^30 on it never does.
THEOREM AnswersFindSlots ==
  ASSUME FewRequests
  PROVE  Spec => AnswerFindsSlot
<1>1. IInv /\ Tickets /\ RightRequest /\ [Next]_vars => Tickets' /\ RightRequest'
  BY NextTickets
<1>2. IInv /\ Tickets /\ [Next]_vars => [\A r \in Requests : HandleFinal(r) => ~InSlab(r)']_vars
  <2> SUFFICES ASSUME IInv, Tickets, NEW r \in Requests, HandleFinal(r) PROVE ~InSlab(r)'
    OBVIOUS
  <2>1. Matches(r) \subseteq {r} /\ (InSlab(r) => Matches(r) = {r})
    BY OwnTicket
  <2>2. requests' = [k \in Keys |-> IF requests[k] \in Matches(r) THEN None ELSE requests[k]]
    BY DEF HandleFinal, take_slot
  <2> QED
    BY <2>1, <2>2, Threads DEF InSlab
<1> QED
  BY InitTickets, Invariance, <1>1, <1>2, PTL DEF Spec, AnswerFindsSlot
=============================================================================
