------------------------- MODULE EngineSinksProofs --------------------------
(***************************************************************************)
(* The callback hears at most one terminal error and nothing after it, and *)
(* a streamed request loses nothing silently, for every number of handles, *)
(* items, messages and every capacity.                                     *)
(***************************************************************************)
EXTENDS EngineSinks, TLAPS

\* Steps are for Zenon, unless they name the SMT solver.
USE ZenonT(60)

-----------------------------------------------------------------------------
(* The callback sink. *)

CallbackLabels == Callback!Live \cup {"absent", "dropped", "gone"}

\* Nobody is no actor, and the two ways to name the actors agree.
LEMMA CallbackActors ==
  /\ Callback!Actors = Senders \cup {Terminator} /\ Nobody \notin Callback!Actors
  /\ Terminator \notin Senders /\ IsFiniteSet(Senders) /\ First \in Senders
  /\ MaxItems \in Nat
  BY SinkConstants, DropOldestConstants DEF Callback!Actors, Actors

\* Moving one actor.
LEMMA CallbackMove ==
  ASSUME Callback!TypeOK, NEW a \in Callback!Actors, NEW l \in CallbackLabels,
         Callback!Goto(a, l)
  PROVE  /\ cb_pc' \in [Callback!Actors -> CallbackLabels]
         /\ cb_pc'[a] = l /\ \A b \in Callback!Actors : b # a => cb_pc'[b] = cb_pc[b]
<1>1. cb_pc' \in [Callback!Actors -> CallbackLabels]
  BY DEF Callback!TypeOK, Callback!Goto, CallbackLabels, Callback!Live
<1>2. cb_pc'[a] = l /\ \A b \in Callback!Actors : b # a => cb_pc'[b] = cb_pc[b]
  BY DEF Callback!TypeOK, Callback!Goto
<1> QED
  BY <1>1, <1>2

\* One handle, counted once.
LEMMA CallbackStart == Callback!Init /\ Callback!HandlesCounted => Callback!CallbackInv
<1> SUFFICES ASSUME Callback!Init, Callback!HandlesCounted
             PROVE  Callback!CallbackInv
  OBVIOUS
<1>3. /\ \A a \in Callback!Actors : cb_pc[a] \in {"idle", "absent"}
      /\ cb_accepting /\ ~orphaned /\ ~closed /\ delivery = Nobody /\ hub = "new"
      /\ calls = <<>>
  BY DEF Callback!Init
<1>5. Callback!MutexHeld /\ Callback!EndsStop /\ Callback!ClosureReported
  BY <1>3, CallbackActors DEF Callback!MutexHeld, Callback!EndsStop, Callback!ClosureReported
<1>6. Len(<<>>) = 0 /\ 1 .. 0 = {} /\ 0 \in 0 .. MaxItems /\ 1 \in Nat
  BY CallbackActors, SMTT(60)
<1>7. Callback!NotYetTold /\ Callback!NothingAfterTerminal
  BY <1>3, <1>6 DEF Callback!NotYetTold, Callback!NothingAfterTerminal
<1>8. Callback!TypeOK
  <2>1. <<>> \in Seq([item : Callback!Items, last : BOOLEAN])
    BY SMTT(60)
  <2> QED
    BY <1>6, <2>1 DEF Callback!Init, Callback!TypeOK, Callback!Items
<1> QED
  BY <1>3, <1>5, <1>7, <1>8 DEF Callback!CallbackInv, Callback!EndsForAReason

\* An actor moves outside the callback: the delivery in progress and what has
\* been delivered stay, and the sink is not reopened.
LEMMA PlainMove ==
  ASSUME Callback!CallbackInv, NEW a \in Callback!Actors,
         NEW l \in CallbackLabels \ {"call", "last"}, Callback!Goto(a, l),
         cb_pc[a] \notin {"call", "last"},
         UNCHANGED <<keep_open_on_data_loss, delivery, calls, on_closed, hub>>,
         cb_accepting' \in BOOLEAN, cb_accepting' => cb_accepting,
         ~cb_accepting' => \/ ~cb_accepting
                           \/ l \in {"notify", "gone"} /\ (closed' \/ orphaned'),
         told' \in BOOLEAN, told => told',
         cb_pc[a] \in {"notify", "gone"} /\ on_closed => told',
         closed' \in BOOLEAN, closed => closed',
         closed' => closed \/ (~cb_accepting' /\ delivery = Nobody),
         orphaned' \in BOOLEAN, orphaned => orphaned', orphaned' => orphaned \/ ~cb_accepting',
         item' \in [Callback!Actors -> Callback!Items],
         cb_sent' \in [Callback!Actors -> 0 .. MaxItems],
         cb_count' \in Nat, Callback!HandlesCounted'
  PROVE  Callback!CallbackInv'
<1> USE DEF Callback!CallbackInv
<1>0. Callback!TypeOK /\ l \in CallbackLabels
  BY DEF Callback!EndsForAReason
<1>1. /\ cb_pc' \in [Callback!Actors -> CallbackLabels]
      /\ cb_pc'[a] = l /\ \A b \in Callback!Actors : b # a => cb_pc'[b] = cb_pc[b]
  BY <1>0, CallbackMove
<1>2. Callback!TypeOK'
  BY <1>0, <1>1 DEF Callback!TypeOK, CallbackLabels, Callback!Live
<1>3. Callback!MutexHeld'
  BY <1>1 DEF Callback!MutexHeld
<1>4. \A b \in Callback!Actors : cb_pc'[b] = "last" <=> cb_pc[b] = "last"
  BY <1>1
<1>5. Callback!NotYetTold' /\ Callback!NothingAfterTerminal'
  BY <1>4 DEF Callback!NotYetTold, Callback!NothingAfterTerminal
<1>6. Callback!EndsStop'
  BY DEF Callback!EndsStop
<1>7. Callback!EndsForAReason'
  BY <1>2, <1>4 DEF Callback!EndsForAReason
<1>8. Callback!ClosureReported'
  <2> SUFFICES ASSUME ~cb_accepting', hub = "done", ~told'
               PROVE  \E b \in Callback!Actors : cb_pc'[b] \in {"last", "notify", "gone"}
    BY DEF Callback!ClosureReported
  <2>1. CASE l \in {"notify", "gone"}
    BY <1>1, <2>1
  <2>2. CASE ~cb_accepting
    <3>1. PICK b \in Callback!Actors : cb_pc[b] \in {"last", "notify", "gone"}
      BY <2>2 DEF Callback!ClosureReported
    <3>2. b # a
      BY <3>1 DEF Callback!EndsStop
    <3> QED
      BY <1>1, <3>1, <3>2
  <2> QED
    BY <2>1, <2>2
<1> QED
  BY <1>2, <1>3, <1>5, <1>6, <1>7, <1>8

\* A handle or the terminator looks at accepting and goes for the mutex.
LEMMA SendBeginStep ==
  ASSUME Callback!CallbackInv, NEW a \in Callback!Actors, NEW i \in Callback!Items,
         Callback!SendBegin(a, i),
         Callback!HandlesCounted', cb_count' \in Nat
  PROVE  Callback!CallbackInv'
<1>0. /\ cb_pc[a] = "idle" /\ cb_sent[a] < MaxItems
      /\ cb_sent' = [cb_sent EXCEPT ![a] = cb_sent[a] + 1]
      /\ UNCHANGED <<cb_accepting, keep_open_on_data_loss, cb_count, delivery, on_closed, told,
                     hub, calls, closed, orphaned>>
  BY DEF Callback!SendBegin, Callback!sink, Callback!hook, Callback!ends
<1>1. /\ Callback!TypeOK /\ cb_accepting \in BOOLEAN /\ told \in BOOLEAN /\ closed \in BOOLEAN
      /\ orphaned \in BOOLEAN /\ cb_count \in Nat
      /\ item \in [Callback!Actors -> Callback!Items]
      /\ cb_sent \in [Callback!Actors -> 0 .. MaxItems]
  BY DEF Callback!CallbackInv, Callback!EndsForAReason, Callback!TypeOK
<1>2. cb_sent[a] + 1 \in 0 .. MaxItems
  BY <1>0, <1>1, CallbackActors, SMTT(60)
<1>3. cb_sent' \in [Callback!Actors -> 0 .. MaxItems]
  BY <1>0, <1>1, <1>2
<1>4. CASE cb_accepting
  <2>1. Callback!Goto(a, "send") /\ item' = [item EXCEPT ![a] = i]
    BY <1>4 DEF Callback!SendBegin
  <2>2. item' \in [Callback!Actors -> Callback!Items]
    BY <1>1, <2>1
  <2>3. "send" \in CallbackLabels \ {"call", "last"}
    BY DEF CallbackLabels, Callback!Live
  <2> QED
    BY <1>0, <1>1, <1>3, <2>1, <2>2, <2>3, PlainMove
<1>5. CASE ~cb_accepting
  <2>1. UNCHANGED <<cb_pc, item>>
    BY <1>5 DEF Callback!SendBegin
  <2>2. Callback!TypeOK'
    BY <1>0, <1>1, <1>3, <2>1 DEF Callback!TypeOK
  <2>3. Callback!Handles' = Callback!Handles
    BY <2>1 DEF Callback!Handles
  <2> QED
    BY <1>0, <2>1, <2>2, <2>3 DEF Callback!CallbackInv, Callback!MutexHeld, Callback!NotYetTold,
       Callback!EndsStop, Callback!HandlesCounted, Callback!NothingAfterTerminal,
       Callback!EndsForAReason, Callback!ClosureReported
<1> QED
  BY <1>4, <1>5

\* The actor has the mutex: it enters the callback, with the flag cleared if the
\* item is terminal, or finds the sink ended.
LEMMA LockStep ==
  ASSUME Callback!CallbackInv, NEW a \in Callback!Actors, Callback!Lock(a),
         Callback!HandlesCounted', cb_count' \in Nat
  PROVE  Callback!CallbackInv'
<1>0. /\ cb_pc[a] = "send" /\ delivery = Nobody
      /\ UNCHANGED <<keep_open_on_data_loss, cb_count, on_closed, told, hub, item, cb_sent,
                     calls, closed, orphaned>>
  BY DEF Callback!Lock, Callback!hook, Callback!ends
<1>1. /\ Callback!TypeOK /\ cb_accepting \in BOOLEAN /\ told \in BOOLEAN /\ closed \in BOOLEAN
      /\ orphaned \in BOOLEAN /\ cb_count \in Nat
      /\ item \in [Callback!Actors -> Callback!Items]
      /\ cb_sent \in [Callback!Actors -> 0 .. MaxItems]
  BY DEF Callback!CallbackInv, Callback!EndsForAReason, Callback!TypeOK
<1>2. CASE ~cb_accepting
  <2>1. Callback!Goto(a, "idle") /\ UNCHANGED <<delivery, cb_accepting>>
    BY <1>2 DEF Callback!Lock
  <2>2. "idle" \in CallbackLabels \ {"call", "last"}
    BY DEF CallbackLabels, Callback!Live
  <2> QED
    BY <1>0, <1>1, <2>1, <2>2, PlainMove
<1>3. CASE cb_accepting
  <2> DEFINE l == IF Callback!terminal(item[a]) THEN "last" ELSE "call"
  <2>1. Callback!Goto(a, l) /\ delivery' = a /\ cb_accepting' = ~Callback!terminal(item[a])
    BY <1>3 DEF Callback!Lock
  <2>2. l \in CallbackLabels /\ l \in {"call", "last"}
    BY DEF CallbackLabels, Callback!Live
  <2>4. /\ cb_accepting' \in BOOLEAN /\ (cb_accepting' <=> l # "last")
    BY <2>1
  <2> HIDE DEF l
  <2>5. /\ cb_pc' \in [Callback!Actors -> CallbackLabels]
        /\ cb_pc'[a] = l /\ \A b \in Callback!Actors : b # a => cb_pc'[b] = cb_pc[b]
    BY <1>1, <2>1, <2>2, CallbackMove
  <2>6. Callback!TypeOK'
    BY <1>0, <1>1, <2>1, <2>4, <2>5 DEF Callback!TypeOK, CallbackLabels, Callback!Live
  <2>7. Callback!MutexHeld'
    <3>1. \A b \in Callback!Actors : cb_pc[b] \notin {"call", "last"}
      BY <1>0, CallbackActors DEF Callback!CallbackInv, Callback!MutexHeld
    <3> QED
      BY <2>1, <2>2, <2>5, <3>1 DEF Callback!MutexHeld
  <2>8. Callback!NotYetTold' /\ Callback!NothingAfterTerminal'
    BY <1>0, <1>3, <2>4, <2>5
       DEF Callback!CallbackInv, Callback!NotYetTold, Callback!NothingAfterTerminal
  <2>9. Callback!EndsStop'
    BY <1>0, <1>3 DEF Callback!CallbackInv, Callback!EndsStop
  <2>10. Callback!EndsForAReason' /\ Callback!ClosureReported'
    BY <2>4, <2>5, <2>6 DEF Callback!EndsForAReason, Callback!ClosureReported
  <2> QED
    BY <2>7, <2>8, <2>9, <2>10 DEF Callback!CallbackInv
<1> QED
  BY <1>2, <1>3

\* The callback runs: the first terminal error is the last call.
LEMMA CallStep ==
  ASSUME Callback!CallbackInv, NEW a \in Callback!Actors, Callback!Call(a),
         Callback!HandlesCounted', cb_count' \in Nat
  PROVE  Callback!CallbackInv'
<1> DEFINE c == [item |-> item[a], last |-> cb_pc[a] = "last"]
           l == IF cb_pc[a] = "last" THEN "notify" ELSE "idle"
<1>0. /\ cb_pc[a] \in {"call", "last"} /\ delivery' = Nobody /\ calls' = Append(calls, c)
      /\ Callback!Goto(a, l)
      /\ UNCHANGED <<cb_accepting, keep_open_on_data_loss, cb_count, on_closed, told, hub, item,
                     cb_sent, closed, orphaned>>
  BY DEF Callback!Call, Callback!sink, Callback!hook, Callback!ends
<1>1. Callback!TypeOK /\ delivery = a /\ delivery # Nobody
  BY <1>0, CallbackActors
     DEF Callback!CallbackInv, Callback!EndsForAReason, Callback!MutexHeld
<1>2. /\ l \in CallbackLabels
      /\ l \in {"notify", "idle"} /\ (l = "notify" <=> cb_pc[a] = "last")
  BY <1>0 DEF CallbackLabels, Callback!Live
<1>c. c \in [item : Callback!Items, last : BOOLEAN] /\ (c.last <=> l = "notify")
  <2>1. \A x \in Callback!Items, b \in BOOLEAN :
          /\ [item |-> x, last |-> b] \in [item : Callback!Items, last : BOOLEAN]
          /\ [item |-> x, last |-> b].last = b
    OBVIOUS
  <2>2. item[a] \in Callback!Items /\ (cb_pc[a] = "last") \in BOOLEAN
    BY <1>1 DEF Callback!TypeOK
  <2> QED
    BY <2>1, <2>2
<1>d. /\ calls \in Seq([item : Callback!Items, last : BOOLEAN])
      /\ calls' \in Seq([item : Callback!Items, last : BOOLEAN])
      /\ Len(calls') = Len(calls) + 1 /\ Len(calls) \in Nat
      /\ \A i \in 1 .. Len(calls) : calls'[i] = calls[i]
      /\ calls'[Len(calls')] = c /\ calls' # <<>>
  <2>1. calls \in Seq([item : Callback!Items, last : BOOLEAN])
    BY <1>1 DEF Callback!TypeOK
  <2> HIDE DEF c
  <2> QED
    BY <1>0, <1>c, <2>1, SMTT(60)
<1> HIDE DEF l, c
<1>5. /\ cb_pc' \in [Callback!Actors -> CallbackLabels]
      /\ cb_pc'[a] = l /\ \A b \in Callback!Actors : b # a => cb_pc'[b] = cb_pc[b]
  BY <1>0, <1>1, <1>2, CallbackMove
<1>6. Callback!TypeOK'
  BY <1>0, <1>1, <1>d, <1>5 DEF Callback!TypeOK, CallbackLabels, Callback!Live
<1>7. \A b \in Callback!Actors : cb_pc'[b] \notin {"call", "last"}
  BY <1>1, <1>2, <1>5 DEF Callback!CallbackInv, Callback!MutexHeld
<1>8. Callback!MutexHeld'
  BY <1>0, <1>7, CallbackActors DEF Callback!MutexHeld
<1>9. \A i \in 1 .. Len(calls) : ~calls[i].last
  BY <1>1 DEF Callback!CallbackInv, Callback!NotYetTold
<1>10. \A i \in 1 .. Len(calls') : calls'[i].last => i = Len(calls') /\ c.last
  <2> SUFFICES ASSUME NEW i \in 1 .. Len(calls'), calls'[i].last
               PROVE  i = Len(calls') /\ c.last
    OBVIOUS
  <2>1. i \in 1 .. Len(calls) \/ i = Len(calls')
    BY <1>d, SMTT(60)
  <2> QED
    BY <1>d, <1>9, <2>1
<1>11. Callback!NothingAfterTerminal'
  BY <1>10 DEF Callback!NothingAfterTerminal
<1>12. Callback!NotYetTold'
  <2>1. cb_accepting => ~c.last
    BY <1>2, <1>c DEF Callback!CallbackInv, Callback!NotYetTold
  <2> QED
    BY <1>0, <1>7, <1>10, <2>1 DEF Callback!NotYetTold
<1>13. Callback!EndsStop'
  BY <1>0 DEF Callback!CallbackInv, Callback!EndsStop
<1>14. ASSUME ~cb_accepting, ~closed, ~orphaned
       PROVE  c.last
  <2>1. \/ \E b \in Callback!Actors : cb_pc[b] = "last"
        \/ calls # <<>> /\ calls[Len(calls)].last
    BY <1>14 DEF Callback!CallbackInv, Callback!EndsForAReason
  <2>2. CASE calls # <<>> /\ calls[Len(calls)].last
    <3>1. Len(calls) \in 1 .. Len(calls)
      BY <1>d, <2>2, SMTT(60)
    <3> QED
      BY <1>9, <2>2, <3>1
  <2>3. CASE \E b \in Callback!Actors : cb_pc[b] = "last"
    <3>1. cb_pc[a] = "last"
      BY <1>1, <2>3 DEF Callback!CallbackInv, Callback!MutexHeld
    <3> QED
      BY <1>2, <1>c, <3>1
  <2> QED
    BY <2>1, <2>2, <2>3
<1>15. Callback!EndsForAReason'
  BY <1>0, <1>6, <1>14, <1>d DEF Callback!EndsForAReason
<1>16. Callback!ClosureReported'
  <2> SUFFICES ASSUME ~cb_accepting, hub = "done", ~told
               PROVE  \E b \in Callback!Actors : cb_pc'[b] \in {"last", "notify", "gone"}
    BY <1>0 DEF Callback!ClosureReported
  <2>1. PICK b \in Callback!Actors : cb_pc[b] \in {"last", "notify", "gone"}
    BY DEF Callback!CallbackInv, Callback!ClosureReported
  <2>2. CASE b = a
    BY <1>0, <1>2, <1>5, <2>1, <2>2
  <2>3. CASE b # a
    BY <1>5, <2>1, <2>3
  <2> QED
    BY <2>2, <2>3
<1> QED
  BY <1>8, <1>11, <1>12, <1>13, <1>15, <1>16 DEF Callback!CallbackInv

\* The hook is called.
LEMMA NotifyStep ==
  ASSUME Callback!CallbackInv, NEW a \in Callback!Actors, Callback!notify_closed(a),
         Callback!HandlesCounted', cb_count' \in Nat
  PROVE  Callback!CallbackInv'
<1> DEFINE l == IF cb_pc[a] = "gone" THEN "absent" ELSE "idle"
<1>0. /\ cb_pc[a] \in {"notify", "gone"} /\ Callback!Goto(a, l) /\ told' = (told \/ on_closed)
      /\ UNCHANGED <<cb_accepting, keep_open_on_data_loss, cb_count, delivery, on_closed, hub,
                     item, cb_sent, calls, closed, orphaned>>
  BY DEF Callback!notify_closed, Callback!sink, Callback!ends
<1>1. /\ Callback!TypeOK /\ cb_accepting \in BOOLEAN /\ told \in BOOLEAN /\ closed \in BOOLEAN
      /\ orphaned \in BOOLEAN /\ cb_count \in Nat
      /\ item \in [Callback!Actors -> Callback!Items]
      /\ cb_sent \in [Callback!Actors -> 0 .. MaxItems]
  BY DEF Callback!CallbackInv, Callback!EndsForAReason, Callback!TypeOK
<1>t. told' \in BOOLEAN /\ (told => told') /\ (on_closed => told')
  BY <1>0
<1>2. l \in CallbackLabels \ {"call", "last"} /\ cb_pc[a] \notin {"call", "last"}
  BY <1>0 DEF CallbackLabels, Callback!Live
<1> HIDE DEF l
<1> QED
  BY <1>0, <1>1, <1>t, <1>2, PlainMove

\* An explicit close, under the mutex.
LEMMA CloseStep ==
  ASSUME Callback!CallbackInv, NEW s \in Senders, Callback!close(s),
         Callback!HandlesCounted', cb_count' \in Nat
  PROVE  Callback!CallbackInv'
<1>0. /\ cb_pc[s] = "idle" /\ delivery = Nobody /\ ~cb_accepting' /\ closed'
      /\ cb_accepting' \in BOOLEAN /\ closed' \in BOOLEAN /\ Callback!Goto(s, "notify")
      /\ UNCHANGED <<keep_open_on_data_loss, cb_count, delivery, on_closed, told, hub, item,
                     cb_sent, calls, orphaned>>
  BY DEF Callback!close, Callback!hook
<1>1. /\ Callback!TypeOK /\ told \in BOOLEAN /\ orphaned \in BOOLEAN /\ cb_count \in Nat
      /\ item \in [Callback!Actors -> Callback!Items]
      /\ cb_sent \in [Callback!Actors -> 0 .. MaxItems]
  BY DEF Callback!CallbackInv, Callback!EndsForAReason, Callback!TypeOK
<1>2. "notify" \in CallbackLabels \ {"call", "last"} /\ s \in Callback!Actors
  BY CallbackActors DEF CallbackLabels, Callback!Live
<1> QED
  BY <1>0, <1>1, <1>2, PlainMove

\* The owner opts to survive data loss, or the hook is installed: nobody moves.
LEMMA StillStep ==
  ASSUME Callback!CallbackInv,
         \/ \E s \in Senders : Callback!KeepOpen(s)
         \/ Callback!InstallHook
         \/ Callback!CheckHook
         \/ UNCHANGED callback
  PROVE  Callback!CallbackInv'
<1>0. /\ UNCHANGED <<cb_accepting, cb_count, delivery, cb_pc, item, cb_sent, calls, closed,
                     orphaned>>
      /\ told => told'
      /\ keep_open_on_data_loss' \in {keep_open_on_data_loss, TRUE}
      /\ on_closed' \in {on_closed, TRUE}
      /\ \/ UNCHANGED <<hub, on_closed, told>>
         \/ hub' = "set" /\ on_closed' /\ UNCHANGED told
         \/ hub = "set" /\ hub' = "done" /\ on_closed' = on_closed /\ told' = (told \/ ~cb_accepting)
  <2>1. CASE \E s \in Senders : Callback!KeepOpen(s)
    BY <2>1, SMTT(60) DEF Callback!KeepOpen, Callback!hook, Callback!ends
  <2>2. CASE Callback!InstallHook
    BY <2>2 DEF Callback!InstallHook, Callback!sink, Callback!ends
  <2>3. CASE Callback!CheckHook
    BY <2>3 DEF Callback!CheckHook, Callback!sink, Callback!ends
  <2>4. CASE UNCHANGED callback
    BY <2>4 DEF callback
  <2> QED
    BY <2>1, <2>2, <2>3, <2>4
<1>1. Callback!TypeOK
  BY DEF Callback!CallbackInv, Callback!EndsForAReason
<1>2. told' \in BOOLEAN /\ hub' \in {"new", "set", "done"}
  BY <1>0, <1>1 DEF Callback!TypeOK
<1>3. on_closed' \in BOOLEAN /\ keep_open_on_data_loss' \in BOOLEAN
  BY <1>0, <1>1 DEF Callback!TypeOK
<1>4. Callback!TypeOK'
  BY <1>0, <1>1, <1>2, <1>3 DEF Callback!TypeOK
<1>5. Callback!MutexHeld' /\ Callback!NotYetTold' /\ Callback!NothingAfterTerminal'
  BY <1>0 DEF Callback!CallbackInv, Callback!MutexHeld, Callback!NotYetTold,
     Callback!NothingAfterTerminal
<1>6. Callback!HandlesCounted'
  BY <1>0 DEF Callback!CallbackInv, Callback!HandlesCounted, Callback!Handles
<1>7. Callback!EndsForAReason'
  BY <1>0, <1>4 DEF Callback!CallbackInv, Callback!EndsForAReason
<1>8. Callback!EndsStop'
  BY <1>0, SMTT(60) DEF Callback!CallbackInv, Callback!EndsStop
<1>9. Callback!ClosureReported'
  BY <1>0 DEF Callback!CallbackInv, Callback!ClosureReported
<1> QED
  BY <1>5, <1>6, <1>7, <1>8, <1>9 DEF Callback!CallbackInv

\* A handle is cloned.
LEMMA CloneStep ==
  ASSUME Callback!CallbackInv, NEW s \in Senders, NEW t \in Senders, Callback!CloneSender(s, t),
         Callback!HandlesCounted', cb_count' \in Nat
  PROVE  Callback!CallbackInv'
<1>0. /\ cb_pc[s] = "idle" /\ cb_pc[t] = "absent" /\ cb_count' = cb_count + 1
      /\ Callback!Goto(t, "idle")
      /\ UNCHANGED <<cb_accepting, keep_open_on_data_loss, delivery, on_closed, told, hub, item,
                     cb_sent, calls, closed, orphaned>>
  BY DEF Callback!CloneSender, Callback!hook, Callback!ends
<1>1. /\ Callback!TypeOK /\ cb_accepting \in BOOLEAN /\ told \in BOOLEAN /\ closed \in BOOLEAN
      /\ orphaned \in BOOLEAN /\ cb_count \in Nat
      /\ item \in [Callback!Actors -> Callback!Items]
      /\ cb_sent \in [Callback!Actors -> 0 .. MaxItems]
  BY DEF Callback!CallbackInv, Callback!EndsForAReason, Callback!TypeOK
<1>2. "idle" \in CallbackLabels \ {"call", "last"} /\ t \in Callback!Actors
  BY CallbackActors DEF CallbackLabels, Callback!Live
<1> QED
  BY <1>0, <1>1, <1>2, PlainMove

\* A handle is dropped: the count, and for the last one a place to store the flag.
LEMMA DropStep ==
  ASSUME Callback!CallbackInv, NEW s \in Senders, Callback!DropSender(s),
         Callback!HandlesCounted', cb_count' \in Nat
  PROVE  Callback!CallbackInv'
<1> DEFINE l == IF cb_count = 1 THEN "dropped" ELSE "absent"
<1>0. /\ cb_pc[s] = "idle" /\ cb_count' = cb_count - 1 /\ Callback!Goto(s, l)
      /\ UNCHANGED <<cb_accepting, keep_open_on_data_loss, delivery, on_closed, told, hub, item,
                     cb_sent, calls, closed, orphaned>>
  BY DEF Callback!DropSender, Callback!hook, Callback!ends
<1>1. /\ Callback!TypeOK /\ cb_accepting \in BOOLEAN /\ told \in BOOLEAN /\ closed \in BOOLEAN
      /\ orphaned \in BOOLEAN /\ cb_count \in Nat
      /\ item \in [Callback!Actors -> Callback!Items]
      /\ cb_sent \in [Callback!Actors -> 0 .. MaxItems]
  BY DEF Callback!CallbackInv, Callback!EndsForAReason, Callback!TypeOK
<1>2. l \in CallbackLabels \ {"call", "last"} /\ s \in Callback!Actors
  BY CallbackActors DEF CallbackLabels, Callback!Live
<1> HIDE DEF l
<1> QED
  BY <1>0, <1>1, <1>2, PlainMove

\* The last handle's drop clears the flag, without the mutex.
LEMMA LastDropStep ==
  ASSUME Callback!CallbackInv, NEW s \in Senders, Callback!LastSenderDropped(s),
         Callback!HandlesCounted', cb_count' \in Nat
  PROVE  Callback!CallbackInv'
<1>0. /\ cb_pc[s] = "dropped" /\ ~cb_accepting' /\ cb_accepting' \in BOOLEAN
      /\ orphaned' /\ orphaned' \in BOOLEAN /\ Callback!Goto(s, "gone")
      /\ UNCHANGED <<keep_open_on_data_loss, cb_count, delivery, on_closed, told, hub, item,
                     cb_sent, calls, closed>>
  BY DEF Callback!LastSenderDropped, Callback!hook
<1>1. /\ Callback!TypeOK /\ told \in BOOLEAN /\ closed \in BOOLEAN /\ cb_count \in Nat
      /\ item \in [Callback!Actors -> Callback!Items]
      /\ cb_sent \in [Callback!Actors -> 0 .. MaxItems]
  BY DEF Callback!CallbackInv, Callback!EndsForAReason, Callback!TypeOK
<1>2. "gone" \in CallbackLabels \ {"call", "last"} /\ s \in Callback!Actors
  BY CallbackActors DEF CallbackLabels, Callback!Live
<1> QED
  BY <1>0, <1>1, <1>2, PlainMove

\* Every step of the callback sink that keeps the count keeps the invariant.
LEMMA CallbackStep ==
  ASSUME Callback!CallbackInv, Callback!Next, Callback!HandlesCounted', cb_count' \in Nat
  PROVE  Callback!CallbackInv'
<1>1. CASE \E a \in Callback!Actors : Callback!Lock(a) \/ Callback!Call(a) \/ Callback!notify_closed(a)
  BY <1>1, LockStep, CallStep, NotifyStep
<1>2. CASE \E a \in Callback!Actors, i \in Callback!Items : Callback!SendBegin(a, i)
  BY <1>2, SendBeginStep
<1>3. CASE \E s \in Senders : \/ Callback!close(s) \/ Callback!KeepOpen(s)
                              \/ Callback!DropSender(s) \/ Callback!LastSenderDropped(s)
  BY <1>3, CloseStep, StillStep, DropStep, LastDropStep
<1>4. CASE \E s \in Senders, t \in Senders : Callback!CloneSender(s, t)
  BY <1>4, CloneStep
<1>5. CASE Callback!InstallHook \/ Callback!CheckHook
  BY <1>5, StillStep
<1> QED
  BY <1>1, <1>2, <1>3, <1>4, <1>5 DEF Callback!Next

-----------------------------------------------------------------------------
(* The stream of a request. *)

\* What the consumer has read or can still read.
All == received \o buffer \o task

InOrder == \A i \in DOMAIN All : IF All[i].ok THEN All[i] = Response!Chunk(i) ELSE i = Len(All)

\* The items and the errors of a stream; what there is to read is a sequence of them.
LEMMA StreamItems ==
  /\ {Response!RequestError, Response!OverflowError} \subseteq Response!Items
  /\ Response!RequestError.ok = FALSE /\ Response!OverflowError.ok = FALSE
  /\ \A n : Response!Chunk(n).ok = TRUE
  /\ \A n \in 1 .. MaxMessages + 1 : Response!Chunk(n) \in Response!Items
  /\ Capacity \in Nat \ {0} /\ MaxMessages \in Nat
<1>1. /\ Response!RequestError.ok = FALSE /\ Response!OverflowError.ok = FALSE
      /\ \A n : Response!Chunk(n).ok = TRUE
  BY DEF Response!RequestError, Response!OverflowError, Response!Chunk
<1>2. /\ {Response!RequestError, Response!OverflowError} \subseteq Response!Items
      /\ \A n \in 1 .. MaxMessages + 1 : Response!Chunk(n) \in Response!Items
  BY DEF Response!Items
<1> QED
  BY <1>1, <1>2, DropOldestConstants, SinkConstants

\* The shapes of the channel, its reader and its flags.
LEMMA StreamType ==
  ASSUME Response!TypeOK
  PROVE  /\ received \in Seq(Response!Items) /\ buffer \in Seq(Response!Items)
         /\ task \in Seq(Response!Items) /\ All \in Seq(Response!Items)
         /\ Len(buffer) \in Nat /\ Len(buffer) <= Capacity
         /\ guarded \in BOOLEAN /\ sender \in BOOLEAN /\ guard \in BOOLEAN
         /\ failure \in BOOLEAN /\ rx_eof \in BOOLEAN
<1>1. received \in Seq(Response!Items) /\ buffer \in Seq(Response!Items)
      /\ Len(buffer) <= Capacity
      /\ guarded \in BOOLEAN /\ sender \in BOOLEAN /\ guard \in BOOLEAN
      /\ failure \in BOOLEAN /\ rx_eof \in BOOLEAN
  BY DEF Response!TypeOK
<1>2. task \in Seq(Response!Items)
  <2>1. \A e \in Response!Items : <<e>> \in Seq(Response!Items)
    BY SMTT(60)
  <2>2. <<>> \in Seq(Response!Items)
    BY SMTT(60)
  <2> QED
    BY <2>1, <2>2, StreamItems DEF Response!TypeOK
<1>3. Len(buffer) \in Nat
  BY <1>1, SMTT(60)
<1>4. received \o buffer \o task \in Seq(Response!Items)
  BY <1>1, <1>2, SMTT(60)
<1> QED
  BY <1>1, <1>2, <1>3, <1>4 DEF All

\* The invariant, with the name for what there is to read, in this state and in
\* the next.
Readable ==
  guarded /\ rx = "open" =>
    /\ InOrder
    /\ sender => /\ task = <<>> /\ Len(All) = chunks /\ ~failure
                 /\ \A i \in DOMAIN All : All[i].ok
    /\ ~sender => All # <<>> /\ ~All[Len(All)].ok

LEMMA StreamParts ==
  Response!StreamInv <=>
    /\ Response!TypeOK /\ Readable
    /\ Response!Ended /\ Response!Disarmed /\ Response!ChunksCounted
<1>1. Response!ChunksThenOneError <=>
        Response!TypeOK /\ (guarded /\ rx = "open" => InOrder)
  BY DEF Response!ChunksThenOneError, InOrder, All
<1>2. Response!ChunksThenOneError /\ Response!Told <=> Response!TypeOK /\ Readable
  BY <1>1 DEF Response!Told, All, Readable
<1> QED
  BY <1>2 DEF Response!StreamInv

LEMMA StreamPartsNext ==
  Response!StreamInv' <=>
    (/\ Response!TypeOK /\ Readable
     /\ Response!Ended /\ Response!Disarmed /\ Response!ChunksCounted)'
  BY StreamParts, PTL

\* One item more at the end of an unbroken run: the next chunk, or an error.
LEMMA Growing ==
  ASSUME NEW s \in Seq(Response!Items), NEW e \in Response!Items, NEW n \in Nat, Len(s) = n,
         \A i \in DOMAIN s : s[i].ok /\ s[i] = Response!Chunk(i),
         e.ok => e = Response!Chunk(n + 1), NEW a, a = Append(s, e)
  PROVE  /\ a # <<>> /\ Len(a) = n + 1 /\ a[Len(a)] = e
         /\ \A i \in DOMAIN a : IF a[i].ok THEN a[i] = Response!Chunk(i) ELSE i = Len(a)
         /\ e.ok => \A i \in DOMAIN a : a[i].ok
<1>1. /\ a # <<>> /\ Len(a) = n + 1 /\ a[Len(a)] = e
      /\ DOMAIN s = 1 .. n /\ DOMAIN a = 1 .. (n + 1)
      /\ \A i \in 1 .. n : a[i] = s[i]
  BY SMTT(60)
<1>2. \A i \in 1 .. (n + 1) : i \in 1 .. n \/ i = n + 1
  BY SMTT(60)
<1>3. \A i \in DOMAIN a : (i \in DOMAIN s /\ a[i] = s[i]) \/ (i = Len(a) /\ a[i] = e /\ i = n + 1)
  BY <1>1, <1>2
<1>4. \A i \in DOMAIN a : IF a[i].ok THEN a[i] = Response!Chunk(i) ELSE i = Len(a)
  <2> TAKE i \in DOMAIN a
  <2>1. CASE i \in DOMAIN s /\ a[i] = s[i]
    <3>1. a[i].ok /\ a[i] = Response!Chunk(i)
      BY <2>1
    <3> QED
      BY <3>1
  <2>2. CASE i = Len(a) /\ a[i] = e /\ i = n + 1
    BY <2>2
  <2> QED
    BY <1>3, <2>1, <2>2
<1>5. e.ok => \A i \in DOMAIN a : a[i].ok
  BY <1>3
<1> QED
  BY <1>1, <1>4, <1>5

\* ResponseStream::send, while the sender and the receiver are there, adds one
\* item to what there is to read: what it was given, or the overflow error, and
\* an error is the last.
LEMMA SendItem ==
  ASSUME Response!StreamInv, guarded, sender, rx = "open", UNCHANGED received,
         NEW e \in Response!Items, Response!send(e), e.ok \in BOOLEAN,
         e.ok \/ e = Response!RequestError
  PROVE  /\ buffer' \in Seq(Response!Items) /\ Len(buffer') <= Capacity
         /\ task' = <<>> \/ task' \in {<<Response!OverflowError>>, <<Response!RequestError>>}
         /\ \E f \in Response!Items :
              /\ All' = Append(All, f) /\ sender' = f.ok /\ f.ok \in BOOLEAN
              /\ f.ok => f = e /\ task' = <<>>
<1>1. /\ Response!TypeOK /\ task = <<>> /\ received \in Seq(Response!Items)
      /\ buffer \in Seq(Response!Items) /\ <<>> \in Seq(Response!Items)
      /\ Len(buffer) \in Nat /\ Len(buffer) <= Capacity /\ Capacity \in Nat
  BY StreamParts, StreamType, StreamItems DEF Readable
<1>2. Len(buffer) < Capacity \/ Len(buffer) = Capacity
  BY <1>1, SMTT(60)
<1>3. CASE Len(buffer) < Capacity
  <2>0. Len(buffer) # Capacity
    BY <1>1, <1>3, SMTT(60)
  <2>1. buffer' = Append(buffer, e) /\ sender' = e.ok /\ task' = task
    BY <1>3, <2>0 DEF Response!send
  <2>2. buffer' \in Seq(Response!Items) /\ Len(buffer') <= Capacity
    BY <1>1, <1>3, <2>1, SMTT(60)
  <2>3. All' = Append(All, e)
    <3>1. All = received \o buffer \o <<>> /\ All' = received \o Append(buffer, e) \o <<>>
      BY <1>1, <2>1 DEF All
    <3>2. received \o Append(buffer, e) \o <<>> = Append(received \o buffer \o <<>>, e)
      BY <1>1, SMTT(60)
    <3> QED
      BY <3>1, <3>2
  <2> QED
    BY <1>1, <2>1, <2>2, <2>3
<1>4. CASE Len(buffer) = Capacity
  <2>0. ~(Len(buffer) < Capacity)
    BY <1>1, <1>4, SMTT(60)
  <2> DEFINE f == IF e.ok THEN Response!OverflowError ELSE e
  <2>1. buffer' = buffer /\ sender' = FALSE /\ task' = <<f>>
    BY <1>4, <2>0 DEF Response!send
  <2>2. f \in {Response!OverflowError, Response!RequestError}
    OBVIOUS
  <2>3. f \in Response!Items /\ f.ok = FALSE
    BY <2>2, StreamItems
  <2> HIDE DEF f
  <2>4. All' = Append(All, f)
    <3>1. All = received \o buffer \o <<>> /\ All' = received \o buffer \o <<f>>
      BY <1>1, <2>1 DEF All
    <3>2. received \o buffer \o <<f>> = Append(received \o buffer \o <<>>, f)
      BY <1>1, <2>3, SMTT(60)
    <3> QED
      BY <3>1, <3>2
  <2> QED
    BY <1>1, <2>1, <2>2, <2>3, <2>4
<1> QED
  BY <1>2, <1>3, <1>4

\* A decoder with its sender delivers a chunk or an error.
LEMMA DeliverGuarded ==
  ASSUME Response!StreamInv, guarded, sender, rx = "open",
         UNCHANGED <<guarded, rx, received>>,
         NEW e \in Response!Items, Response!send(e),
         \/ e = Response!Chunk(chunks + 1) /\ chunks' = chunks + 1 /\ failure' = failure
         \/ e = Response!RequestError /\ chunks' = chunks
  PROVE  Readable'
<1>1. /\ \A i \in DOMAIN All : All[i].ok
      /\ InOrder /\ Len(All) = chunks /\ ~failure /\ Response!TypeOK
  BY StreamParts DEF Readable
<1>2. All \in Seq(Response!Items) /\ chunks \in Nat
  <2>1. chunks \in 0 .. MaxMessages + 1
    BY <1>1 DEF Response!TypeOK
  <2> QED
    BY <1>1, <2>1, StreamType, StreamItems, SMTT(60)
<1>3. e.ok \in BOOLEAN /\ (e.ok \/ e = Response!RequestError)
  BY StreamItems
<1>4. PICK f \in Response!Items : /\ All' = Append(All, f) /\ sender' = f.ok /\ f.ok \in BOOLEAN
                                  /\ f.ok => f = e /\ task' = <<>>
  BY <1>3, SendItem
<1>5. f.ok => f = Response!Chunk(chunks + 1) /\ chunks' = chunks + 1 /\ failure' = failure
  BY <1>4, StreamItems
<1>6. \A i \in DOMAIN All : All[i].ok /\ All[i] = Response!Chunk(i)
  BY <1>1 DEF InOrder
<1>7. /\ All' # <<>> /\ Len(All') = chunks + 1 /\ All'[Len(All')] = f
      /\ \A i \in DOMAIN All' : IF All'[i].ok THEN All'[i] = Response!Chunk(i)
                                              ELSE i = Len(All')
      /\ f.ok => \A i \in DOMAIN All' : All'[i].ok
  <2>1. /\ All \in Seq(Response!Items) /\ Len(All) = chunks /\ chunks \in Nat
        /\ f.ok => f = Response!Chunk(chunks + 1)
        /\ All' = Append(All, f)
    BY <1>1, <1>2, <1>4, <1>5
  <2> QED
    BY <1>6, <2>1, Growing, SMTT(60)
<1>8. InOrder'
  BY <1>7 DEF InOrder
<1>9. sender' => f.ok
  BY <1>4
<1>10. ~sender' => ~f.ok
  BY <1>4
<1>11. ASSUME sender'
       PROVE  /\ task' = <<>> /\ Len(All') = chunks' /\ ~failure'
              /\ \A i \in DOMAIN All' : All'[i].ok
  <2>1. f.ok
    BY <1>9, <1>11
  <2>2. task' = <<>> /\ Len(All') = chunks' /\ \A i \in DOMAIN All' : All'[i].ok
    BY <1>4, <1>5, <1>7, <2>1
  <2>3. failure' = failure
    BY <1>5, <2>1
  <2> QED
    BY <1>1, <2>2, <2>3
<1> QED
  BY <1>7, <1>8, <1>10, <1>11 DEF Readable

\* A message, the reply or a failure reaches the decoder: it delivers a chunk, an
\* error or nothing.
LEMMA DecodeStep ==
  ASSUME Response!StreamInv, decoder = "live",
         UNCHANGED <<guarded, rx, guard, received, rx_eof>>,
         decoder' \in {"live", "gone"}, messages' \in 0 .. MaxMessages,
         chunks' \in 0 .. MaxMessages + 1, failure' \in BOOLEAN, Response!ChunksCounted',
         \/ UNCHANGED <<sender, task, buffer, chunks, failure>>
         \/ \E e \in Response!Items :
              /\ \/ /\ e = Response!Chunk(chunks + 1) /\ chunks' = chunks + 1
                    /\ failure' = failure /\ (guarded => ~Response!is_closed)
                 \/ e = Response!RequestError /\ chunks' = chunks
              /\ Response!Deliver(e)
  PROVE  Response!StreamInv'
<1>0. /\ Response!TypeOK /\ Readable /\ Response!Ended /\ Response!Disarmed
      /\ buffer \in Seq(Response!Items) /\ received \in Seq(Response!Items)
      /\ Len(buffer) \in Nat /\ Len(buffer) <= Capacity
      /\ sender \in BOOLEAN /\ guarded \in BOOLEAN /\ guard \in BOOLEAN /\ rx_eof \in BOOLEAN
      /\ rx \in {"open", "closed", "dropped"}
  BY StreamParts, StreamType DEF Response!TypeOK
<1>a. SUFFICES /\ buffer' \in Seq(Response!Items) /\ Len(buffer') <= Capacity
               /\ \/ task' = <<>>
                  \/ task' \in {<<Response!OverflowError>>, <<Response!RequestError>>}
               /\ sender' \in BOOLEAN /\ Readable'
               /\ ~sender => UNCHANGED <<sender, task, buffer>>
               /\ ~guarded => sender' = sender
  <2>1. Response!TypeOK'
    BY <1>0, <1>a DEF Response!TypeOK
  <2>2. Response!Ended'
    <3> SUFFICES ASSUME rx_eof, rx = "open"
                 PROVE  buffer' = <<>> /\ task' = <<>> /\ ~sender'
      BY DEF Response!Ended
    <3> QED
      BY <1>0, <1>a DEF Response!Ended
  <2>3. Response!Disarmed'
    BY <1>0, <1>a DEF Response!Disarmed
  <2> QED
    BY <1>a, <2>1, <2>2, <2>3, StreamPartsNext
<1>1. CASE UNCHANGED <<sender, task, buffer, chunks, failure>>
  <2>1. All' = All
    BY <1>1 DEF All
  <2>2. Readable'
    BY <1>0, <1>1, <2>1 DEF Readable, InOrder
  <2> QED
    BY <1>0, <1>1, <2>2 DEF Response!TypeOK
<1>2. ASSUME NEW e \in Response!Items,
             \/ /\ e = Response!Chunk(chunks + 1) /\ chunks' = chunks + 1
                /\ failure' = failure /\ (guarded => ~Response!is_closed)
             \/ e = Response!RequestError /\ chunks' = chunks,
             Response!Deliver(e)
      PROVE  /\ buffer' \in Seq(Response!Items) /\ Len(buffer') <= Capacity
             /\ \/ task' = <<>>
                \/ task' \in {<<Response!OverflowError>>, <<Response!RequestError>>}
             /\ sender' \in BOOLEAN /\ Readable'
             /\ ~sender => UNCHANGED <<sender, task, buffer>>
             /\ ~guarded => sender' = sender
  <2>1. CASE ~guarded
    <3>1. /\ buffer' = IF rx = "open" /\ Len(buffer) < Capacity THEN Append(buffer, e) ELSE buffer
          /\ UNCHANGED <<sender, task>>
      BY <1>2, <2>1 DEF Response!Deliver, Response!try_send
    <3>2. buffer' \in Seq(Response!Items) /\ Len(buffer') <= Capacity
      <4>1. CASE rx = "open" /\ Len(buffer) < Capacity
        <5>1. buffer' = Append(buffer, e) /\ Capacity \in Nat
          BY <3>1, <4>1, StreamItems
        <5> QED
          BY <1>0, <4>1, <5>1, SMTT(60)
      <4>2. CASE ~(rx = "open" /\ Len(buffer) < Capacity)
        BY <1>0, <3>1, <4>2
      <4> QED
        BY <4>1, <4>2
    <3>3. Readable' /\ sender
      BY <1>0, <2>1 DEF Readable, Response!Disarmed
    <3> QED
      BY <1>0, <2>1, <3>1, <3>2, <3>3 DEF Response!TypeOK
  <2>2. CASE guarded /\ ~sender
    <3>1. UNCHANGED <<sender, task, buffer>> /\ chunks' = chunks
      BY <1>2, <2>2 DEF Response!Deliver, Response!send, Response!is_closed
    <3>2. All' = All
      BY <3>1 DEF All
    <3>3. Readable'
      BY <1>0, <2>2, <3>1, <3>2 DEF Readable, InOrder
    <3> QED
      BY <1>0, <2>2, <3>1, <3>3 DEF Response!TypeOK
  <2>3. CASE guarded /\ sender /\ rx # "open"
    BY <1>0, <2>3 DEF Response!Disarmed
  <2>4. CASE guarded /\ sender /\ rx = "open"
    <3>1. Response!send(e)
      BY <1>2, <2>4 DEF Response!Deliver
    <3>2. Readable'
      BY <1>2, <2>4, <3>1, DeliverGuarded
    <3>3. e.ok \in BOOLEAN /\ (e.ok \/ e = Response!RequestError)
      BY <1>2, StreamItems
    <3>4. /\ buffer' \in Seq(Response!Items) /\ Len(buffer') <= Capacity
          /\ \/ task' = <<>>
             \/ task' \in {<<Response!OverflowError>>, <<Response!RequestError>>}
          /\ sender' \in BOOLEAN
      BY <2>4, <3>1, <3>3, SendItem
    <3> QED
      BY <2>4, <3>2, <3>4
  <2> QED
    BY <1>0, <2>1, <2>2, <2>3, <2>4
<1> QED
  BY <1>1, <1>2

\* What Process leaves of a message.
LEMMA Processed ==
  ASSUME Response!StreamInv, NEW final \in BOOLEAN, Response!Process(final)
  PROVE  /\ chunks' \in {chunks, chunks + 1} /\ failure' \in BOOLEAN
         /\ \/ UNCHANGED <<sender, task, buffer, chunks, failure>>
            \/ \E e \in {Response!Chunk(chunks + 1), Response!RequestError} :
                 /\ \/ /\ e = Response!Chunk(chunks + 1) /\ chunks' = chunks + 1
                       /\ failure' = failure /\ (guarded => ~Response!is_closed)
                    \/ e = Response!RequestError /\ chunks' = chunks
                 /\ Response!Deliver(e)
<1>0. failure \in BOOLEAN
  BY StreamParts, StreamType
<1>1. CASE guarded /\ Response!is_closed
  BY <1>0, <1>1 DEF Response!Process
<1>2. CASE ~(guarded /\ Response!is_closed)
  <2>1. Response!Decoded(final)
    BY <1>2 DEF Response!Process
  <2>2. CASE chunks' = chunks + 1 /\ UNCHANGED failure /\ Response!Deliver(Response!Chunk(chunks + 1))
    BY <1>0, <1>2, <2>2
  <2>3. CASE /\ failure' = (guarded \/ final \/ failure) /\ UNCHANGED chunks
             /\ IF guarded \/ final THEN Response!Deliver(Response!RequestError)
                                    ELSE UNCHANGED <<sender, task, buffer>>
    <3>1. CASE guarded \/ final
      BY <2>3, <3>1
    <3>2. CASE ~(guarded \/ final)
      <4>1. failure' = failure
        BY <1>0, <2>3, <3>2
      <4> QED
        BY <1>0, <2>3, <3>2, <4>1
    <3> QED
      BY <3>1, <3>2
  <2>4. CASE UNCHANGED <<chunks, failure, sender, task, buffer>>
    BY <1>0, <2>4
  <2> QED
    BY <2>1, <2>2, <2>3, <2>4 DEF Response!Decoded
<1> QED
  BY <1>1, <1>2

\* A partial response, the reply or a failure.
LEMMA DecoderStep ==
  ASSUME Response!StreamInv, UNCHANGED guarded,
         Response!on_partial \/ Response!finish \/ Response!fail
  PROVE  Response!StreamInv'
<1>0. /\ decoder = "live" /\ UNCHANGED <<rx, guard, received, rx_eof>>
  BY DEF Response!on_partial, Response!finish, Response!fail
<1>1. /\ chunks \in Nat /\ messages \in 0 .. MaxMessages /\ MaxMessages \in Nat
      /\ chunks <= messages /\ failure \in BOOLEAN /\ messages \in Nat
  <2>1. /\ chunks \in 0 .. MaxMessages + 1 /\ messages \in 0 .. MaxMessages
        /\ chunks <= messages + 0 /\ MaxMessages \in Nat /\ failure \in BOOLEAN
    BY <1>0, StreamParts, StreamType, StreamItems DEF Response!TypeOK, Response!ChunksCounted
  <2> QED
    BY <2>1, SMTT(60)
<1>2. CASE Response!on_partial
  <2>1. /\ messages < MaxMessages /\ messages' = messages + 1 /\ Response!Process(FALSE)
        /\ decoder' = decoder
    BY <1>2 DEF Response!on_partial
  <2>2. /\ chunks' \in {chunks, chunks + 1} /\ failure' \in BOOLEAN
        /\ \/ UNCHANGED <<sender, task, buffer, chunks, failure>>
           \/ \E e \in {Response!Chunk(chunks + 1), Response!RequestError} :
                /\ \/ /\ e = Response!Chunk(chunks + 1) /\ chunks' = chunks + 1
                      /\ failure' = failure /\ (guarded => ~Response!is_closed)
                   \/ e = Response!RequestError /\ chunks' = chunks
                /\ Response!Deliver(e)
    BY <2>1, Processed
  <2>3. /\ messages' \in 0 .. MaxMessages /\ chunks' \in 0 .. MaxMessages + 1
        /\ chunks' <= messages' + 0 /\ chunks + 1 \in 1 .. MaxMessages + 1
    BY <1>1, <2>1, <2>2, SMTT(60)
  <2>4. {Response!Chunk(chunks + 1), Response!RequestError} \subseteq Response!Items
    BY <2>3, StreamItems
  <2>5. Response!ChunksCounted'
    BY <1>0, <2>1, <2>3 DEF Response!ChunksCounted
  <2> QED
    BY <1>0, <2>1, <2>2, <2>3, <2>4, <2>5, DecodeStep
<1>3. CASE Response!finish
  <2>1. /\ decoder' = "gone" /\ Response!Process(TRUE) /\ messages' = messages
    BY <1>3 DEF Response!finish
  <2>2. /\ chunks' \in {chunks, chunks + 1} /\ failure' \in BOOLEAN
        /\ \/ UNCHANGED <<sender, task, buffer, chunks, failure>>
           \/ \E e \in {Response!Chunk(chunks + 1), Response!RequestError} :
                /\ \/ /\ e = Response!Chunk(chunks + 1) /\ chunks' = chunks + 1
                      /\ failure' = failure /\ (guarded => ~Response!is_closed)
                   \/ e = Response!RequestError /\ chunks' = chunks
                /\ Response!Deliver(e)
    BY <2>1, Processed
  <2>3. /\ messages' \in 0 .. MaxMessages /\ chunks' \in 0 .. MaxMessages + 1
        /\ chunks' <= messages' + 1 /\ chunks + 1 \in 1 .. MaxMessages + 1
    BY <1>1, <2>1, <2>2, SMTT(60)
  <2>4. {Response!Chunk(chunks + 1), Response!RequestError} \subseteq Response!Items
    BY <2>3, StreamItems
  <2>5. Response!ChunksCounted'
    BY <2>1, <2>3 DEF Response!ChunksCounted
  <2> QED
    BY <1>0, <2>1, <2>2, <2>3, <2>4, <2>5, DecodeStep
<1>4. CASE Response!fail
  <2>1. /\ decoder' = "gone" /\ failure' \in BOOLEAN /\ Response!Deliver(Response!RequestError)
        /\ messages' = messages /\ chunks' = chunks
    BY <1>4 DEF Response!fail
  <2>2. chunks' <= messages' + 1 /\ chunks' \in 0 .. MaxMessages + 1
    BY <1>1, <2>1, SMTT(60)
  <2>3. Response!ChunksCounted' /\ Response!RequestError \in Response!Items
    BY <2>1, <2>2, StreamItems DEF Response!ChunksCounted
  <2> QED
    BY <1>0, <1>1, <2>1, <2>2, <2>3, DecodeStep
<1> QED
  BY <1>2, <1>3, <1>4

\* The spawned task sends its error, or the consumer reads: what there is to read
\* stays the same.
LEMMA ReadStep ==
  ASSUME Response!StreamInv, UNCHANGED guarded,
         Response!TaskSend \/ Response!recv \/ Response!recv_none
  PROVE  Response!StreamInv'
<1>0. /\ Response!TypeOK /\ Readable /\ Response!Ended /\ Response!Disarmed
      /\ Response!ChunksCounted
      /\ buffer \in Seq(Response!Items) /\ received \in Seq(Response!Items)
      /\ task \in Seq(Response!Items) /\ <<>> \in Seq(Response!Items)
      /\ Len(buffer) \in Nat /\ Len(buffer) <= Capacity /\ Capacity \in Nat
      /\ sender \in BOOLEAN
  <2>1. <<>> \in Seq(Response!Items)
    BY SMTT(60)
  <2> QED
    BY <2>1, StreamParts, StreamType, StreamItems
<1>1. UNCHANGED <<decoder, sender, rx, messages, chunks, failure>>
  BY DEF Response!TaskSend, Response!recv, Response!recv_none
<1>2. Response!ChunksCounted'
  BY <1>0, <1>1 DEF Response!ChunksCounted
<1>3. CASE Response!TaskSend
  <2>1. /\ task # <<>> /\ (rx # "open" \/ Len(buffer) < Capacity) /\ task' = <<>>
        /\ buffer' = IF rx = "open" THEN buffer \o task ELSE buffer
        /\ UNCHANGED <<guard, received, rx_eof>>
    BY <1>3 DEF Response!TaskSend
  <2>2. buffer' \in Seq(Response!Items) /\ Len(buffer') <= Capacity
    <3>1. CASE rx = "open"
      <4>1. Len(task) = 1
        <5>1. Len(<<Response!OverflowError>>) = 1 /\ Len(<<Response!RequestError>>) = 1
          BY SMTT(60)
        <5> QED
          BY <1>0, <2>1, <5>1 DEF Response!TypeOK
      <4>2. buffer' = buffer \o task /\ Len(buffer) < Capacity
        BY <2>1, <3>1
      <4>3. buffer \o task \in Seq(Response!Items) /\ Len(buffer \o task) = Len(buffer) + Len(task)
        BY <1>0, SMTT(60)
      <4>4. Len(buffer) + 1 <= Capacity
        BY <1>0, <4>2, SMTT(60)
      <4> QED
        BY <4>1, <4>2, <4>3, <4>4
    <3>2. CASE rx # "open"
      BY <1>0, <2>1, <3>2
    <3> QED
      BY <3>1, <3>2
  <2>3. Response!TypeOK'
    BY <1>0, <1>1, <2>1, <2>2 DEF Response!TypeOK
  <2>4. rx = "open" => All' = All
    <3>1. received \o (buffer \o task) \o <<>> = received \o buffer \o task
      BY <1>0, SMTT(60)
    <3> QED
      BY <2>1, <3>1 DEF All
  <2>5. guarded /\ rx = "open" => ~sender
    BY <1>0, <2>1 DEF Readable
  <2>6. Readable'
    BY <1>0, <1>1, <2>4, <2>5 DEF Readable, InOrder
  <2>7. Response!Ended' /\ Response!Disarmed'
    BY <1>0, <1>1, <2>1 DEF Response!Ended, Response!Disarmed
  <2> QED
    BY <1>2, <2>3, <2>6, <2>7, StreamPartsNext
<1>4. CASE Response!recv
  <2>1. /\ buffer # <<>> /\ received' = Append(received, Head(buffer)) /\ buffer' = Tail(buffer)
        /\ UNCHANGED <<task, guard, rx_eof>>
    BY <1>4 DEF Response!recv
  <2>2. /\ buffer' \in Seq(Response!Items) /\ Len(buffer') <= Capacity
        /\ received' \in Seq(Response!Items)
        /\ Append(received, Head(buffer)) \o Tail(buffer) = received \o buffer
    BY <1>0, <2>1, SMTT(60)
  <2>3. Response!TypeOK'
    BY <1>0, <1>1, <2>1, <2>2 DEF Response!TypeOK
  <2>4. All' = All
    BY <2>1, <2>2 DEF All
  <2>5. Readable'
    BY <1>0, <1>1, <2>1, <2>4 DEF Readable, InOrder
  <2>6. Response!Ended' /\ Response!Disarmed'
    BY <1>0, <1>1, <2>1 DEF Response!Ended, Response!Disarmed
  <2> QED
    BY <1>2, <2>3, <2>5, <2>6, StreamPartsNext
<1>5. CASE Response!recv_none
  <2>1. /\ buffer = <<>> /\ rx_eof' = TRUE /\ guard' = FALSE
        /\ rx = "closed" \/ (task = <<>> /\ (decoder = "gone" \/ ~sender))
        /\ UNCHANGED <<task, buffer, received>>
    BY <1>5 DEF Response!recv_none
  <2>2. rx_eof' \in BOOLEAN /\ guard' \in BOOLEAN /\ rx_eof' /\ ~guard'
    BY <2>1
  <2>3. Response!TypeOK'
    BY <1>0, <1>1, <2>1, <2>2 DEF Response!TypeOK
  <2>4. All' = All
    BY <2>1 DEF All
  <2>5. Readable'
    BY <1>0, <1>1, <2>1, <2>4 DEF Readable, InOrder
  <2>6. Response!Ended'
    BY <1>1, <2>1 DEF Response!Ended
  <2>7. Response!Disarmed'
    BY <1>0, <1>1, <2>1, <2>2 DEF Response!Disarmed
  <2> QED
    BY <1>2, <2>3, <2>5, <2>6, <2>7, StreamPartsNext
<1> QED
  BY <1>3, <1>4, <1>5

\* The consumer closes or drops the stream: an armed guard discards the decoder.
LEMMA LeaveStep ==
  ASSUME Response!StreamInv, UNCHANGED guarded, Response!close \/ Response!Drop
  PROVE  Response!StreamInv'
<1>0. /\ Response!TypeOK /\ Response!Disarmed /\ Response!ChunksCounted
      /\ buffer \in Seq(Response!Items) /\ <<>> \in Seq(Response!Items)
      /\ Len(<<>>) <= Capacity /\ Len(buffer) <= Capacity
  <2>1. Capacity \in Nat
    BY StreamItems
  <2>2. <<>> \in Seq(Response!Items) /\ Len(<<>>) <= Capacity
    BY <2>1, SMTT(60)
  <2> QED
    BY <2>2, StreamParts, StreamType
<1>1. /\ rx' \in {"closed", "dropped"} /\ buffer' \in {buffer, <<>>}
      /\ decoder' = IF guard THEN "gone" ELSE decoder
      /\ guard' = FALSE
      /\ UNCHANGED <<sender, task, messages, chunks, failure, received, rx_eof>>
  BY DEF Response!close, Response!Drop, Response!Cancel
<1>2. /\ decoder' \in {decoder, "gone"} /\ (guard => decoder' = "gone")
      /\ guard' \in BOOLEAN /\ ~guard' /\ rx' # "open"
  BY <1>1
<1>3. Response!TypeOK'
  BY <1>0, <1>1, <1>2 DEF Response!TypeOK
<1>4. Readable' /\ Response!Ended'
  BY <1>2 DEF Readable, Response!Ended
<1>5. Response!Disarmed'
  BY <1>0, <1>1, <1>2 DEF Response!Disarmed
<1>6. Response!ChunksCounted'
  <2>1. chunks \in Nat /\ messages \in Nat
    <3>1. chunks \in 0 .. MaxMessages + 1 /\ messages \in 0 .. MaxMessages
      BY <1>0 DEF Response!TypeOK
    <3> QED
      BY <3>1, StreamItems, SMTT(60)
  <2>2. chunks <= messages + 1 /\ (decoder # "gone" => chunks <= messages + 0)
    <3>1. CASE decoder = "gone"
      BY <1>0, <3>1 DEF Response!ChunksCounted
    <3>2. CASE decoder # "gone"
      <4>1. chunks <= messages + 0
        BY <1>0, <3>2 DEF Response!ChunksCounted
      <4>2. chunks <= messages + 1
        BY <2>1, <4>1, SMTT(60)
      <4> QED
        BY <3>2, <4>1, <4>2
    <3> QED
      BY <3>1, <3>2
  <2> QED
    BY <1>1, <1>2, <2>2 DEF Response!ChunksCounted
<1> QED
  BY <1>3, <1>4, <1>5, <1>6, StreamPartsNext

\* An empty channel.
LEMMA StreamStart == Response!Init => Response!StreamInv
<1> SUFFICES ASSUME Response!Init
             PROVE  Response!StreamInv
  OBVIOUS
<1>0. /\ decoder = "live" /\ sender = TRUE /\ task = <<>> /\ buffer = <<>> /\ rx = "open"
      /\ guard = TRUE /\ messages = 0 /\ chunks = 0 /\ failure = FALSE /\ received = <<>>
      /\ rx_eof = FALSE /\ guarded \in BOOLEAN
  BY DEF Response!Init
<1>1. /\ <<>> \in Seq(Response!Items) /\ Len(<<>>) <= Capacity /\ 0 \in 0 .. MaxMessages
      /\ 0 \in 0 .. MaxMessages + 1 /\ 0 <= 0 + 0
  <2>1. Capacity \in Nat /\ MaxMessages \in Nat
    BY StreamItems
  <2> QED
    BY <2>1, SMTT(60)
<1>2. Response!TypeOK
  BY <1>0, <1>1 DEF Response!TypeOK
<1>3. <<>> \o <<>> \o <<>> = <<>> /\ Len(<<>>) = 0 /\ DOMAIN <<>> = {}
  BY SMTT(60)
<1>4. All = <<>>
  BY <1>0, <1>3 DEF All
<1>5. Readable
  BY <1>0, <1>3, <1>4 DEF Readable, InOrder
<1>6. Response!Ended /\ Response!Disarmed
  BY <1>0 DEF Response!Ended, Response!Disarmed
<1>7. Response!ChunksCounted
  BY <1>0, <1>1 DEF Response!ChunksCounted
<1> QED
  BY <1>2, <1>5, <1>6, <1>7, StreamParts

\* A stream that is left alone keeps its invariant.
LEMMA StreamStill ==
  ASSUME Response!StreamInv, UNCHANGED response
  PROVE  Response!StreamInv'
<1>0. UNCHANGED <<guarded, decoder, sender, task, buffer, rx, guard, messages, chunks, failure,
                  received, rx_eof>>
  BY DEF response
<1>1. All' = All
  BY <1>0 DEF All
<1>2. Readable'
  BY <1>0, <1>1, StreamParts DEF Readable, InOrder
<1>3. Response!TypeOK'
  BY <1>0, StreamParts DEF Response!TypeOK
<1>4. Response!Ended' /\ Response!Disarmed' /\ Response!ChunksCounted'
  BY <1>0, StreamParts DEF Response!Ended, Response!Disarmed, Response!ChunksCounted
<1> QED
  BY <1>2, <1>3, <1>4, StreamPartsNext

-----------------------------------------------------------------------------
(* Counting the handles of the callback sink. *)

INSTANCE FiniteSetTheorems

\* The sink counts with the same Cardinality.
LEMMA SameCardinality == \A S : Callback!Cardinality(S) = Cardinality(S)
  BY DEF Callback!Cardinality, Cardinality, Callback!IsFiniteSet, IsFiniteSet

\* A live handle is counted.
LEMMA CallbackLive ==
  ASSUME Callback!CallbackInv, NEW s \in Senders, cb_pc[s] \in Callback!Live
  PROVE  cb_count \in Nat /\ cb_count > 0
<1>1. Callback!Handles # {} /\ IsFiniteSet(Callback!Handles)
  BY CallbackActors, FS_Subset DEF Callback!Handles
<1>2. Cardinality(Callback!Handles) # 0 /\ Cardinality(Callback!Handles) \in Nat
  BY <1>1, FS_EmptySet, FS_CardinalityType
<1>3. cb_count = Cardinality(Callback!Handles)
  BY SameCardinality DEF Callback!CallbackInv, Callback!HandlesCounted
<1> QED
  BY <1>2, <1>3, SMTT(60)

\* The number of live handles after one handle comes or goes.
LEMMA HandlesMove ==
  ASSUME NEW s \in Senders
  PROVE  /\ IsFiniteSet(Callback!Handles) /\ Cardinality(Callback!Handles) \in Nat
         /\ s \notin Callback!Handles /\ Callback!Handles' = Callback!Handles \cup {s}
              => Cardinality(Callback!Handles') = Cardinality(Callback!Handles) + 1
         /\ s \in Callback!Handles /\ Callback!Handles' = Callback!Handles \ {s}
              => Cardinality(Callback!Handles') = Cardinality(Callback!Handles) - 1
<1>1. IsFiniteSet(Callback!Handles)
  BY CallbackActors, FS_Subset DEF Callback!Handles
<1>2. Cardinality(Callback!Handles) \in Nat
  BY <1>1, FS_CardinalityType
<1>3. s \notin Callback!Handles =>
        Cardinality(Callback!Handles \cup {s}) = Cardinality(Callback!Handles) + 1
  BY <1>1, FS_AddElement
<1>4. s \in Callback!Handles =>
        Cardinality(Callback!Handles \ {s}) = Cardinality(Callback!Handles) - 1
  BY <1>1, FS_RemoveElement
<1> QED
  BY <1>1, <1>2, <1>3, <1>4

\* The count starts right.
LEMMA CountStart == Callback!Init => Callback!HandlesCounted
<1> SUFFICES ASSUME Callback!Init
             PROVE  Callback!HandlesCounted
  OBVIOUS
<1>1. Callback!Handles = {First}
  BY CallbackActors DEF Callback!Init, Callback!Handles, Callback!Live, Callback!Actors
<1>2. cb_count = Callback!Cardinality(Callback!Handles)
  BY <1>1, FS_Singleton, SameCardinality DEF Callback!Init
<1>3. ~orphaned /\ \A a \in Callback!Actors : cb_pc[a] \in {"idle", "absent"}
  BY DEF Callback!Init
<1> QED
  BY <1>2, <1>3, CallbackActors DEF Callback!HandlesCounted

\* A step that leaves the live handles alone.
LEMMA CountKept ==
  ASSUME Callback!CallbackInv, UNCHANGED <<cb_count, orphaned>>,
         \A s \in Senders : /\ cb_pc'[s] \in Callback!Live <=> cb_pc[s] \in Callback!Live
                            /\ cb_pc'[s] \in {"dropped", "gone"} => cb_pc[s] \in {"dropped", "gone"}
  PROVE  Callback!HandlesCounted' /\ cb_count' \in Nat
<1>1. Callback!Handles' = Callback!Handles
  BY DEF Callback!Handles
<1>2. Callback!Cardinality(Callback!Handles)' = Callback!Cardinality(Callback!Handles)
  BY <1>1
<1>3. cb_count \in Nat /\ Callback!HandlesCounted
  BY DEF Callback!CallbackInv, Callback!EndsForAReason, Callback!TypeOK
<1> QED
  BY <1>2, <1>3 DEF Callback!HandlesCounted

\* The label an actor moves to, for the steps that neither make nor end a handle.
LEMMA CountMoves ==
  ASSUME Callback!CallbackInv, NEW a \in Callback!Actors, NEW l, Callback!Goto(a, l),
         UNCHANGED <<cb_count, orphaned>>,
         \/ cb_pc[a] \in Callback!Live /\ l \in Callback!Live
         \/ cb_pc[a] = "gone" /\ l = "absent"
  PROVE  Callback!HandlesCounted' /\ cb_count' \in Nat
<1>1. cb_pc'[a] = l /\ \A b \in Callback!Actors : b # a => cb_pc'[b] = cb_pc[b]
  BY DEF Callback!CallbackInv, Callback!EndsForAReason, Callback!TypeOK, Callback!Goto
<1>2. /\ cb_pc'[a] \in Callback!Live <=> cb_pc[a] \in Callback!Live
      /\ cb_pc'[a] \in {"dropped", "gone"} => cb_pc[a] \in {"dropped", "gone"}
  BY <1>1 DEF Callback!Live
<1>3. \A s \in Senders : /\ cb_pc'[s] \in Callback!Live <=> cb_pc[s] \in Callback!Live
                         /\ cb_pc'[s] \in {"dropped", "gone"} => cb_pc[s] \in {"dropped", "gone"}
  <2> TAKE s \in Senders
  <2>1. CASE s = a
    BY <1>2, <2>1
  <2>2. CASE s # a
    BY <1>1, <2>2, CallbackActors
  <2> QED
    BY <2>1, <2>2
<1> QED
  BY <1>3, CountKept

\* Cloning and dropping.
LEMMA CountChanges ==
  ASSUME Callback!CallbackInv, NEW s \in Senders, NEW t \in Senders,
         Callback!CloneSender(s, t) \/ Callback!DropSender(s)
  PROVE  Callback!HandlesCounted' /\ cb_count' \in Nat
<1>0. /\ cb_pc[s] = "idle" /\ cb_pc[s] \in Callback!Live /\ cb_pc \in [Callback!Actors -> CallbackLabels]
      /\ s \in Callback!Actors /\ t \in Callback!Actors /\ orphaned' = orphaned
  BY CallbackActors DEF Callback!CloneSender, Callback!DropSender, Callback!ends, Callback!Live,
     Callback!CallbackInv, Callback!EndsForAReason, Callback!TypeOK, CallbackLabels
<1>1. cb_count \in Nat /\ cb_count > 0 /\ cb_count # 0
  <2>1. cb_count \in Nat /\ cb_count > 0
    BY <1>0, CallbackLive
  <2> QED
    BY <2>1, SMTT(60)
<1>2. ~orphaned /\ \A r \in Senders : cb_pc[r] \notin {"dropped", "gone"}
  BY <1>1 DEF Callback!CallbackInv, Callback!HandlesCounted
<1>3. cb_count = Cardinality(Callback!Handles)
  BY SameCardinality DEF Callback!CallbackInv, Callback!HandlesCounted
<1>4. CASE Callback!CloneSender(s, t)
  <2>1. /\ cb_pc[t] = "absent" /\ cb_count' = cb_count + 1 /\ cb_pc'[t] = "idle"
        /\ \A b \in Callback!Actors : b # t => cb_pc'[b] = cb_pc[b]
    BY <1>0, <1>4 DEF Callback!CloneSender, Callback!Goto
  <2>2. t \notin Callback!Handles /\ Callback!Handles' = Callback!Handles \cup {t}
    BY <2>1, CallbackActors DEF Callback!Handles, Callback!Live
  <2>3. cb_count' = Callback!Cardinality(Callback!Handles')
    BY <1>3, <2>1, <2>2, HandlesMove, SameCardinality
  <2>4. \A r \in Senders : cb_pc'[r] \notin {"dropped", "gone"}
    BY <1>2, <2>1, CallbackActors
  <2>5. cb_count' \in Nat
    BY <1>1, <2>1, SMTT(60)
  <2> QED
    BY <1>0, <1>2, <2>3, <2>4, <2>5 DEF Callback!HandlesCounted
<1>5. CASE Callback!DropSender(s)
  <2>1. /\ cb_count' = cb_count - 1 /\ cb_pc'[s] = IF cb_count = 1 THEN "dropped" ELSE "absent"
        /\ \A b \in Callback!Actors : b # s => cb_pc'[b] = cb_pc[b]
    BY <1>0, <1>5 DEF Callback!DropSender, Callback!Goto
  <2>2. s \in Callback!Handles /\ Callback!Handles' = Callback!Handles \ {s}
    <3>1. cb_pc'[s] \notin Callback!Live
      BY <2>1 DEF Callback!Live
    <3> QED
      BY <1>0, <2>1, <3>1, CallbackActors DEF Callback!Handles
  <2>3. cb_count' = Callback!Cardinality(Callback!Handles')
    BY <1>3, <2>1, <2>2, HandlesMove, SameCardinality
  <2>4. cb_count' \in Nat /\ (cb_count = 1 => cb_count' = 0)
    BY <1>1, <2>1, SMTT(60)
  <2>5. \A r \in Senders : cb_pc'[r] \in {"dropped", "gone"} => cb_count' = 0
    BY <1>2, <2>1, <2>4, CallbackActors
  <2> QED
    BY <1>0, <1>2, <2>3, <2>4, <2>5 DEF Callback!HandlesCounted
<1> QED
  BY <1>4, <1>5

\* Every step of the sink keeps the count.
LEMMA CountStep ==
  ASSUME Callback!CallbackInv, Callback!Next
  PROVE  Callback!HandlesCounted' /\ cb_count' \in Nat
<1>1. ASSUME NEW a \in Callback!Actors, NEW i \in Callback!Items,
             \/ Callback!Lock(a) \/ Callback!Call(a)
             \/ Callback!notify_closed(a) \/ Callback!SendBegin(a, i)
      PROVE  Callback!HandlesCounted' /\ cb_count' \in Nat
  <2>1. UNCHANGED <<cb_count, orphaned>>
    BY <1>1 DEF Callback!Lock, Callback!Call, Callback!notify_closed, Callback!SendBegin,
       Callback!sink, Callback!ends
  <2>2. \/ UNCHANGED cb_pc
        \/ \E l : /\ Callback!Goto(a, l)
                  /\ \/ cb_pc[a] \in Callback!Live /\ l \in Callback!Live
                     \/ cb_pc[a] = "gone" /\ l = "absent"
    BY <1>1 DEF Callback!Lock, Callback!Call, Callback!notify_closed, Callback!SendBegin,
       Callback!Live
  <2> QED
    BY <2>1, <2>2, CountMoves, CountKept
<1>2. ASSUME NEW s \in Senders, Callback!close(s)
      PROVE  Callback!HandlesCounted' /\ cb_count' \in Nat
  <2>1. /\ cb_pc[s] \in Callback!Live /\ "notify" \in Callback!Live /\ s \in Callback!Actors
        /\ Callback!Goto(s, "notify") /\ UNCHANGED <<cb_count, orphaned>>
    BY <1>2, CallbackActors DEF Callback!close, Callback!Live
  <2> QED
    BY <2>1, CountMoves
<1>3. ASSUME NEW s \in Senders, Callback!LastSenderDropped(s)
      PROVE  Callback!HandlesCounted' /\ cb_count' \in Nat
  <2>1. /\ cb_pc[s] = "dropped" /\ cb_pc'[s] = "gone" /\ cb_count' = cb_count
        /\ \A b \in Callback!Actors : b # s => cb_pc'[b] = cb_pc[b]
    BY <1>3, CallbackActors DEF Callback!LastSenderDropped, Callback!Goto,
       Callback!CallbackInv, Callback!EndsForAReason, Callback!TypeOK
  <2>2. cb_count = 0 /\ cb_count \in Nat /\ cb_count = Callback!Cardinality(Callback!Handles)
    BY <2>1
       DEF Callback!CallbackInv, Callback!EndsForAReason, Callback!TypeOK, Callback!HandlesCounted
  <2>3. Callback!Handles' = Callback!Handles
    BY <2>1, CallbackActors DEF Callback!Handles, Callback!Live
  <2> QED
    BY <2>1, <2>2, <2>3 DEF Callback!HandlesCounted
<1>4. CASE \/ \E s \in Senders : Callback!KeepOpen(s)
           \/ Callback!InstallHook \/ Callback!CheckHook
  <2>1. UNCHANGED <<cb_count, orphaned, cb_pc>>
    BY <1>4 DEF Callback!KeepOpen, Callback!InstallHook, Callback!CheckHook, Callback!sink,
       Callback!ends
  <2> QED
    BY <2>1, CountKept
<1>5. "update" \in Callback!Items
  BY DEF Callback!Items
<1> QED
  BY <1>1, <1>2, <1>3, <1>4, <1>5, CountChanges DEF Callback!Next

\* After a close no delivery runs or starts; after the drop of the last handle
\* none starts, and none of a handle runs.
LEMMA NoneAfterEnd ==
  ASSUME Callback!CallbackInv, Callback!Next
  PROVE  /\ closed => delivery' = Nobody
         /\ orphaned => delivery' \in {delivery, Nobody} \ Senders
<1>1. closed \/ orphaned => ~cb_accepting
  BY DEF Callback!CallbackInv, Callback!EndsStop
<1>2. closed => delivery = Nobody
  BY DEF Callback!CallbackInv, Callback!EndsStop
<1>3. orphaned => delivery \notin Senders
  <2> SUFFICES ASSUME orphaned, delivery \in Senders
               PROVE  FALSE
    OBVIOUS
  <2>1. cb_pc[delivery] \in Callback!Live
    BY CallbackActors DEF Callback!CallbackInv, Callback!MutexHeld, Callback!Live
  <2>2. cb_count # 0
    <3>1. cb_count \in Nat /\ cb_count > 0
      BY <2>1, CallbackLive
    <3> QED
      BY <3>1, SMTT(60)
  <2> QED
    BY <2>2 DEF Callback!CallbackInv, Callback!HandlesCounted
<1>4. ~cb_accepting => delivery' \in {delivery, Nobody}
  BY DEF Callback!Next, Callback!Lock, Callback!Call, Callback!notify_closed,
     Callback!SendBegin, Callback!close, Callback!KeepOpen, Callback!DropSender,
     Callback!LastSenderDropped, Callback!CloneSender, Callback!InstallHook, Callback!CheckHook
<1>5. Nobody \notin Senders
  BY CallbackActors
<1> QED
  BY <1>1, <1>2, <1>3, <1>4, <1>5

-----------------------------------------------------------------------------
(* The engine's sinks. *)

\* Every step of the engine keeps what holds of the two sinks.
LEMMA SinksStep ==
  ASSUME SinksInv, [SinkNext]_allvars
  PROVE  SinksInv'
<1>1. CASE Callback!Next /\ UNCHANGED response
  BY <1>1, CountStep, CallbackStep, StreamStill DEF SinksInv
<1>2. CASE Response!Next /\ UNCHANGED callback
  <2>1. Response!StreamInv'
    BY <1>2, DecoderStep, ReadStep, LeaveStep DEF SinksInv, Response!Next
  <2> QED
    BY <1>2, <2>1, StillStep DEF SinksInv
<1>3. CASE UNCHANGED <<callback, response>>
  <2>1. UNCHANGED callback /\ UNCHANGED response
    BY <1>3
  <2> QED
    BY <2>1, StillStep, StreamStill DEF SinksInv
<1> QED
  BY <1>1, <1>2, <1>3 DEF SinkNext, allvars

\* The invariant of the two sinks holds throughout.
THEOREM SinksAlways == SinkSpec => []SinksInv
<1>1. SinkInit => SinksInv
  BY CountStart, CallbackStart, StreamStart DEF SinkInit, SinksInv
<1>2. SinksInv /\ [SinkNext]_allvars => SinksInv'
  BY SinksStep
<1> QED
  BY <1>1, <1>2, PTL DEF SinkSpec

\* The callback of a subscription hears at most one terminal error and nothing
\* after it, however many threads were past the first test when it was sent.
THEOREM CallbackEndsOnce == SinkSpec => []NothingAfterTerminal
<1>1. SinksInv => NothingAfterTerminal
  BY DEF SinksInv, Callback!CallbackInv, NothingAfterTerminal
<1> QED
  BY <1>1, SinksAlways, PTL

\* A callback sink that stopped accepting was closed, was dropped, or tells its
\* callback why, and its hook hears of every end.
THEOREM CallbackEndsForAReason == SinkSpec => []EndsForAReason
<1>1. SinksInv => EndsForAReason
  BY DEF SinksInv, Callback!CallbackInv, EndsForAReason
<1> QED
  BY <1>1, SinksAlways, PTL

\* No delivery starts after a close or after the drop of the last handle.
THEOREM CallbackStops == SinkSpec => NoDeliveryAfterEnd
<1>1. SinksInv /\ [SinkNext]_allvars =>
        [/\ closed => delivery' = Nobody
         /\ orphaned => delivery' \in {delivery, Nobody} \ Senders]_(Callback!vars)
  <2> SUFFICES ASSUME SinksInv, [SinkNext]_allvars, ~UNCHANGED Callback!vars
               PROVE  /\ closed => delivery' = Nobody
                      /\ orphaned => delivery' \in {delivery, Nobody} \ Senders
    OBVIOUS
  <2>1. UNCHANGED callback => UNCHANGED Callback!vars
    BY DEF callback, Callback!vars, Callback!sink, Callback!hook, Callback!ends
  <2>2. Callback!Next
    BY <2>1 DEF SinkNext, allvars
  <2> QED
    BY <2>2, NoneAfterEnd DEF SinksInv
<1> QED
  BY <1>1, SinksAlways, PTL DEF SinkSpec, NoDeliveryAfterEnd, Callback!NoDeliveryAfterEnd

\* What a consumer can read of a guarded stream is an unbroken run of chunks with
\* at most one error, at its end; read to the end it has the error or every chunk.
THEOREM StreamLosesNothing == SinkSpec => []NoSilentLoss
<1>1. SinksInv => NoSilentLoss
  <2> SUFFICES ASSUME SinksInv
               PROVE  NoSilentLoss
    OBVIOUS
  <2>1. Response!ChunksThenOneError /\ Readable /\ Response!Ended /\ Response!TypeOK
    BY StreamParts DEF SinksInv, Response!StreamInv
  <2>2. Response!NoSilentLoss
    <3> SUFFICES ASSUME guarded, rx_eof, rx = "open"
                 PROVE  \/ \E i \in DOMAIN received : ~received[i].ok
                        \/ ~failure /\ Len(received) = chunks
      BY DEF Response!NoSilentLoss
    <3>1. buffer = <<>> /\ task = <<>> /\ received \in Seq(Response!Items)
      BY <2>1, StreamType DEF Response!Ended
    <3>2. received \o <<>> \o <<>> = received
      BY <3>1, SMTT(60)
    <3>3. All = received
      BY <3>1, <3>2 DEF All
    <3>4. CASE sender
      BY <2>1, <3>3, <3>4 DEF Readable
    <3>5. CASE ~sender
      <4>1. received # <<>> /\ ~received[Len(received)].ok
        BY <2>1, <3>3, <3>5 DEF Readable
      <4>2. Len(received) \in DOMAIN received
        BY <3>1, <4>1, SMTT(60)
      <4> QED
        BY <4>1, <4>2
    <3> QED
      BY <3>4, <3>5
  <2> QED
    BY <2>1, <2>2 DEF NoSilentLoss
<1> QED
  BY <1>1, SinksAlways, PTL

\* A dropped stream leaves no decoder in the worker's slab, but for one that gave
\* up its sender before the consumer read the end.
THEOREM StreamReleasesDecoder == SinkSpec => []DropReleasesDecoder
<1>1. SinksInv => DropReleasesDecoder
  BY StreamParts DEF SinksInv, DropReleasesDecoder, Response!DropReleasesDecoder,
     Response!Disarmed
<1> QED
  BY <1>1, SinksAlways, PTL
=============================================================================
