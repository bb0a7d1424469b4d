---------------------- MODULE SubscriptionChannelProofs ---------------------
(***************************************************************************)
(* Proofs, for every capacity, set of handles, number of updates and set   *)
(* of errors, of the safety properties of the strict subscription channel  *)
(* and of its refinement of DeliveryStream.                                *)
(***************************************************************************)
EXTENDS SubscriptionChannel, FiniteSetTheorems, TLAPS

\* Steps are for Zenon, unless they name the SMT solver.
USE ZenonT(60)

-----------------------------------------------------------------------------
(* Counting the senders that stand at a given set of labels. *)

\* The number of senders at a set of labels is a natural number.
LEMMA AtFinite ==
  ASSUME NEW labels
  PROVE  /\ IsFiniteSet(At(labels))
         /\ Cardinality(At(labels)) \in Nat
         /\ Cardinality(At(labels)) = 0 <=> At(labels) = {}
<1>1. At(labels) \subseteq Senders
  BY DEF At
<1>2. IsFiniteSet(At(labels))
  BY <1>1, ChannelConstants, FS_Subset
<1> QED
  BY <1>2, FS_CardinalityType, FS_EmptySet

\* Moving one actor changes the count by what the actor contributes to it.
LEMMA AtMove ==
  ASSUME PcOK, NEW a \in Actors, NEW l \in Labels, Goto(a, l), NEW labels
  PROVE  /\ (a \notin Senders \/ (pc[a] \in labels <=> l \in labels))
              => At(labels)' = At(labels)
         /\ (a \in Senders /\ pc[a] \notin labels /\ l \in labels)
              => Cardinality(At(labels)') = Cardinality(At(labels)) + 1
         /\ (a \in Senders /\ pc[a] \in labels /\ l \notin labels)
              => Cardinality(At(labels)') = Cardinality(At(labels)) - 1
<1> USE DEF At, PcOK, Goto, Actors
<1>1. ASSUME a \notin Senders \/ (pc[a] \in labels <=> l \in labels)
      PROVE  At(labels)' = At(labels)
  BY <1>1
<1>2. ASSUME a \in Senders, pc[a] \notin labels, l \in labels
      PROVE  Cardinality(At(labels)') = Cardinality(At(labels)) + 1
  <2>1. At(labels)' = At(labels) \cup {a}
    BY <1>2
  <2>2. a \notin At(labels)
    BY <1>2
  <2> QED
    BY <2>1, <2>2, AtFinite, FS_AddElement
<1>3. ASSUME a \in Senders, pc[a] \in labels, l \notin labels
      PROVE  Cardinality(At(labels)') = Cardinality(At(labels)) - 1
  <2>1. At(labels)' = At(labels) \ {a}
    BY <1>3
  <2>2. a \in At(labels)
    BY <1>3
  <2>3. IsFiniteSet(At(labels))
    BY AtFinite
  <2> HIDE DEF At
  <2> QED
    BY <2>1, <2>2, <2>3, FS_RemoveElement
<1> QED
  BY <1>1, <1>2, <1>3

-----------------------------------------------------------------------------
(* Type correctness. *)

\* Moving an actor to a label it may stand at keeps the control state typed.
LEMMA PcStep ==
  ASSUME PcOK, NEW a \in Actors, NEW l \in Labels, Goto(a, l),
         a = Terminator => l \in {"idle", "closing"},
         sent' = sent,
         a \in Senders /\ l \notin Resting => sent[a] > 0
  PROVE  PcOK'
<1>1. pc' \in [Actors -> Labels] /\ pc'[a] = l
  BY DEF PcOK, Goto
<1>2. \A b \in Actors : b # a => pc'[b] = pc[b]
  BY DEF PcOK, Goto
<1> QED
  BY <1>1, <1>2 DEF PcOK, Actors

\* Every step keeps every variable in its type: in particular a handle that
\* is dropped was counted, and a permit that is taken was there.
LEMMA TypeStep ==
  ASSUME TypeOK, HandlesCounted, [Next]_vars
  PROVE  TypeOK'
<1> USE DEF channel, slots, hook, history
<1>0. /\ \A s \in Senders : s \in Actors /\ s # Terminator
      /\ \A s \in Senders : sent[s] > 0 \/ pc[s] \in Resting
  BY ChannelConstants DEF TypeOK, PcOK, Actors
<1>1. CASE UNCHANGED vars
  BY <1>1, SMTT(60) DEF vars, TypeOK, PcOK
<1>2. ASSUME NEW s \in Senders, SendBegin(s) PROVE TypeOK'
  <2>1. sent' \in [Senders -> 0 .. MaxUpdates] /\ sent'[s] > 0
    BY <1>2, ChannelConstants, SMTT(60) DEF SendBegin, TypeOK, PcOK
  <2>2. \A t \in Senders : t # s => sent'[t] = sent[t]
    BY <1>2 DEF SendBegin, TypeOK, PcOK
  <2>3. pc' \in [Actors -> Labels]
    BY <1>2, <1>0 DEF SendBegin, TypeOK, PcOK, Goto, Labels
  <2>4. \A b \in Actors : b # s => pc'[b] = pc[b]
    BY <1>2 DEF SendBegin, TypeOK, PcOK, Goto
  <2>5. PcOK'
    BY <2>1, <2>2, <2>3, <2>4, <1>0 DEF TypeOK, PcOK, Actors
  <2> QED
    BY <1>2, <2>5, SMTT(60) DEF SendBegin, TypeOK
<1>3. ASSUME NEW s \in Senders, TryAcquire(s) PROVE TypeOK'
  <2>1. PICK l \in {"idle", "full", "permit"} : Goto(s, l)
    BY <1>3 DEF TryAcquire
  <2>2. PcOK'
    BY <1>3, <1>0, <2>1, PcStep DEF TryAcquire, TypeOK, Labels, Resting
  <2> QED
    BY <1>3, <2>2, SMTT(60) DEF TryAcquire, TypeOK
<1>4. ASSUME NEW s \in Senders, Acquire(s) PROVE TypeOK'
  <2>1. PICK l \in {"idle", "permit"} : Goto(s, l)
    BY <1>4 DEF Acquire
  <2>2. PcOK'
    BY <1>4, <1>0, <2>1, PcStep DEF Acquire, TypeOK, Labels, Resting
  <2> QED
    BY <1>4, <2>2, SMTT(60) DEF Acquire, TypeOK
<1>5. ASSUME NEW s \in Senders, AcquireTimeout(s) PROVE TypeOK'
  <2>1. PcOK'
    BY <1>5, <1>0, PcStep DEF AcquireTimeout, TypeOK, Labels, Resting
  <2> QED
    BY <1>5, <2>1, SMTT(60) DEF AcquireTimeout, TypeOK
<1>6. ASSUME NEW s \in Senders, Commit(s) PROVE TypeOK'
  <2>1. PICK l \in {"idle", "notify"} : Goto(s, l)
    BY <1>6 DEF Commit
  <2>2. PcOK'
    BY <1>6, <1>0, <2>1, PcStep DEF Commit, TypeOK, Labels, Resting
  <2>3. <<s, sent[s]>> \in Updates
    <3>1. sent[s] > 0 /\ sent[s] \in 0 .. MaxUpdates
      BY <1>6, <1>0 DEF Commit, TypeOK, PcOK, Resting
    <3> QED
      BY <3>1, ChannelConstants, SMTT(60) DEF Updates
  <2>4. queue' \in Seq(Updates) /\ accepted' \in Seq(Updates) /\ permits' \in Nat
    <3>1. CASE accepts_data
      <4>1. /\ queue' = Append(queue, <<s, sent[s]>>)
            /\ accepted' = Append(accepted, <<s, sent[s]>>)
            /\ permits' = permits
        BY <1>6, <3>1 DEF Commit
      <4>2. \A q \in Seq(Updates), u \in Updates : Append(q, u) \in Seq(Updates)
        BY SMTT(60)
      <4> QED
        BY <2>3, <4>1, <4>2 DEF TypeOK
    <3>2. CASE ~accepts_data
      BY <1>6, <3>2, SMTT(60) DEF Commit, TypeOK
    <3> QED
      BY <3>1, <3>2
  <2> QED
    BY <1>6, <2>2, <2>4, SMTT(60) DEF Commit, TypeOK
<1>7. ASSUME NEW s \in Senders, NotifyReady(s) PROVE TypeOK'
  <2>1. PcOK'
    BY <1>7, <1>0, PcStep DEF NotifyReady, TypeOK, Labels, Resting
  <2> QED
    BY <1>7, <2>1, SMTT(60) DEF NotifyReady, TypeOK
<1>8. ASSUME NEW s \in Senders, SenderClose(s) PROVE TypeOK'
  <2>1. PcOK'
    BY <1>8, <1>0, PcStep DEF SenderClose, TypeOK, Labels, Resting
  <2>2. accepting' \in BOOLEAN /\ receiver_closed' \in BOOLEAN
    BY <1>8 DEF SenderClose
  <2> QED
    BY <1>8, <2>1, <2>2, SMTT(60) DEF SenderClose, TypeOK
<1>9. ASSUME NEW s \in Senders, DropSender(s) PROVE TypeOK'
  <2>1. s \in Handles
    BY <1>9 DEF DropSender, Handles, At, Labels
  <2>3. sender_count # 0
    BY <2>1, AtFinite DEF HandlesCounted, Handles
  <2>4. PICK l \in {"last", "absent"} : Goto(s, l)
    BY <1>9 DEF DropSender
  <2>5. PcOK'
    BY <1>9, <1>0, <2>4, PcStep DEF DropSender, TypeOK, Labels, Resting
  <2> QED
    BY <1>9, <2>3, <2>5, SMTT(60) DEF DropSender, TypeOK
<1>10. ASSUME NEW s \in Senders, LastSenderDropped(s) PROVE TypeOK'
  <2>1. PcOK'
    BY <1>10, <1>0, PcStep DEF LastSenderDropped, TypeOK, Labels, Resting
  <2>2. accepting' \in BOOLEAN /\ ready' \in BOOLEAN /\ told' \in BOOLEAN
    BY <1>10 DEF LastSenderDropped, TypeOK
  <2> QED
    BY <1>10, <2>1, <2>2 DEF LastSenderDropped, TypeOK
<1>11. ASSUME NEW s \in Senders, NEW t \in Senders, CloneSender(s, t) PROVE TypeOK'
  <2>1. PcOK'
    BY <1>11, <1>0, PcStep DEF CloneSender, TypeOK, Labels, Resting
  <2> QED
    BY <1>11, <2>1, SMTT(60) DEF CloneSender, TypeOK
<1>12. ASSUME NEW a \in Actors, NEW e \in Errors, Fail(a, e) PROVE TypeOK'
  <2>1. PICK l \in {"idle", "closing"} : Goto(a, l)
    BY <1>12 DEF Fail
  <2>2. PcOK'
    BY <1>12, <2>1, PcStep DEF Fail, TypeOK, Labels, Resting
  <2>3. accepting' \in BOOLEAN /\ terminal_error' \in Errors \cup {NoError}
    BY <1>12 DEF Fail, TypeOK, accepts_data
  <2> QED
    BY <1>12, <2>2, <2>3, SMTT(60) DEF Fail, TypeOK
<1>13. ASSUME NEW a \in Actors, FinishClose(a) PROVE TypeOK'
  <2>1. PcOK'
    BY <1>13, PcStep DEF FinishClose, TypeOK, Labels, Resting
  <2> QED
    BY <1>13, <2>1 DEF FinishClose, TypeOK
<1>14. ASSUME UNCHANGED <<pc, sent>> PROVE PcOK'
  BY <1>14 DEF TypeOK, PcOK
<1>15. CASE RecvUpdate
  <2>1. queue' \in Seq(Updates) /\ delivered' \in Seq(Updates)
    BY <1>15, SMTT(60) DEF RecvUpdate, TypeOK
  <2> QED
    BY <1>14, <1>15, <2>1, SMTT(60) DEF RecvUpdate, TypeOK
<1>16. CASE ReturnSlot
  BY <1>14, <1>16, SMTT(60) DEF ReturnSlot, TypeOK
<1>17. CASE RecvError
  <2>1. errors' \in Seq(Errors)
    BY <1>17, SMTT(60) DEF RecvError, TypeOK
  <2> QED
    BY <1>14, <1>17, <2>1, SMTT(60) DEF RecvError, TypeOK
<1>18. CASE RecvEof
  BY <1>14, <1>18, SMTT(60) DEF RecvEof, TypeOK
<1>19. CASE RecvPark
  BY <1>14, <1>19, SMTT(60) DEF RecvPark, TypeOK
<1>20. CASE RecvWake
  BY <1>14, <1>20 DEF RecvWake, TypeOK
<1>21. CASE RecvCancel
  BY <1>14, <1>21, SMTT(60) DEF RecvCancel, TypeOK
<1>22. CASE RecvClose
  BY <1>14, <1>22 DEF RecvClose, TypeOK
<1>23. CASE RecvDrop
  <2>1. queue' \in Seq(Updates)
    BY <1>23, SMTT(60) DEF RecvDrop
  <2> QED
    BY <1>14, <1>23, <2>1 DEF RecvDrop, TypeOK
<1>24. CASE RecvFinishClose
  <2>1. rpc' \in {"idle", "dropped"} /\ told' \in BOOLEAN
    BY <1>24 DEF RecvFinishClose, TypeOK
  <2> QED
    BY <1>14, <1>24, <2>1 DEF RecvFinishClose, TypeOK
<1>25. CASE InstallHook
  BY <1>14, <1>25, SMTT(60) DEF InstallHook, TypeOK
<1>26. CASE CheckHook
  <2>1. told' \in BOOLEAN /\ hub' = "done"
    BY <1>26 DEF CheckHook, TypeOK
  <2>2. UNCHANGED <<channel, slots, sender_count, ready, on_closed, rpc, history>>
    BY <1>26 DEF CheckHook
  <2>3. PcOK'
    BY <1>14, <1>26 DEF CheckHook
  <2> QED
    BY <2>1, <2>2, <2>3, SMTT(60) DEF TypeOK
<1>27. ASSUME NEW s \in Senders, SenderStep(s) PROVE TypeOK'
  BY <1>2, <1>3, <1>4, <1>5, <1>6, <1>7, <1>8, <1>9, <1>10, <1>11, <1>27 DEF SenderStep
<1>28. CASE ReceiverStep
  BY <1>15, <1>16, <1>17, <1>18, <1>19, <1>20, <1>21, <1>22, <1>23, <1>24, <1>28
     DEF ReceiverStep
<1> QED
  BY <1>1, <1>12, <1>13, <1>25, <1>26, <1>27, <1>28 DEF Next

-----------------------------------------------------------------------------
(* Permits and handles. *)

LiveLabels == Labels \ {"absent", "last"}

\* What moving an actor does to the set of permit holders.
LEMMA HoldersMove ==
  ASSUME PcOK, NEW a \in Actors, NEW l \in Labels, Goto(a, l)
  PROVE  /\ Cardinality(Holders) \in Nat
         /\ (a \notin Senders \/ (pc[a] = "permit" <=> l = "permit")) => Holders' = Holders
         /\ (a \in Senders /\ pc[a] # "permit" /\ l = "permit")
              => Cardinality(Holders') = Cardinality(Holders) + 1
         /\ (a \in Senders /\ pc[a] = "permit" /\ l # "permit")
              => Cardinality(Holders') = Cardinality(Holders) - 1
BY AtMove, AtFinite DEF Holders

\* What moving an actor does to the set of live handles.
LEMMA HandlesMove ==
  ASSUME PcOK, NEW a \in Actors, NEW l \in Labels, Goto(a, l)
  PROVE  /\ Cardinality(Handles) \in Nat
         /\ (a \notin Senders \/ (pc[a] \in LiveLabels <=> l \in LiveLabels))
              => Handles' = Handles
         /\ (a \in Senders /\ pc[a] \notin LiveLabels /\ l \in LiveLabels)
              => Cardinality(Handles') = Cardinality(Handles) + 1
         /\ (a \in Senders /\ pc[a] \in LiveLabels /\ l \notin LiveLabels)
              => Cardinality(Handles') = Cardinality(Handles) - 1
BY AtMove, AtFinite DEF Handles, LiveLabels

\* Slots stay conserved through every step.
LEMMA SlotStep ==
  ASSUME TypeOK, SlotConservation, [Next]_vars
  PROVE  SlotConservation'
<1> USE DEF channel, slots, hook, history, Gone
<1>0. /\ PcOK /\ permits \in Nat /\ queue \in Seq(Updates) /\ Len(queue) \in Nat
      /\ Capacity \in Nat
      /\ \A s \in Senders : s \in Actors
      /\ {"idle", "try", "acquire", "permit", "notify", "full", "closing", "last", "absent"}
           \subseteq Labels
  BY ChannelConstants, SMTT(60) DEF TypeOK, Actors, Labels
<1>1. ASSUME UNCHANGED <<pc, permits, queue, rpc>> PROVE SlotConservation'
  BY <1>1 DEF SlotConservation, Holders, At
<1>2. ASSUME NEW a \in Actors, NEW l \in Labels, Goto(a, l), pc[a] # "permit", l # "permit",
             UNCHANGED <<permits, queue, rpc>>
      PROVE  SlotConservation'
  BY <1>0, <1>2, HoldersMove DEF SlotConservation
<1>3. ASSUME NEW s \in Senders, SendBegin(s) PROVE SlotConservation'
  <2>1. CASE accepting
    <3>1. PICK l \in {"try", "acquire"} : Goto(s, l)
      BY <1>3, <2>1 DEF SendBegin
    <3> QED
      BY <1>0, <1>2, <1>3, <3>1 DEF SendBegin
  <2>2. CASE ~accepting
    BY <1>1, <1>3, <2>2 DEF SendBegin
  <2> QED
    BY <2>1, <2>2
<1>4. ASSUME NEW s \in Senders, pc[s] # "permit", Goto(s, "permit"), permits > 0,
             permits' = permits - 1, UNCHANGED <<queue, rpc>>
      PROVE  SlotConservation'
  <2>1. Cardinality(Holders') = Cardinality(Holders) + 1 /\ Cardinality(Holders) \in Nat
    BY <1>0, <1>4, HoldersMove
  <2> QED
    BY <1>0, <1>4, <2>1, SMTT(60) DEF SlotConservation
<1>5. ASSUME NEW s \in Senders, TryAcquire(s) PROVE SlotConservation'
  <2>1. CASE ~slots_closed /\ permits > 0
    BY <1>4, <1>5, <1>0, <2>1, SMTT(60) DEF TryAcquire
  <2>2. CASE slots_closed \/ permits = 0
    <3>1. PICK l \in {"idle", "full"} : Goto(s, l) /\ UNCHANGED permits
      BY <1>5, <1>0, <2>2, SMTT(60) DEF TryAcquire
    <3> QED
      BY <1>0, <1>2, <1>5, <3>1 DEF TryAcquire
  <2> QED
    BY <1>0, <2>1, <2>2, SMTT(60)
<1>6. ASSUME NEW s \in Senders, Acquire(s) PROVE SlotConservation'
  <2>1. CASE slots_closed
    BY <1>0, <1>2, <1>6, <2>1 DEF Acquire
  <2>2. CASE ~slots_closed
    BY <1>4, <1>6, <2>2 DEF Acquire
  <2> QED
    BY <2>1, <2>2
<1>7. ASSUME NEW s \in Senders, Commit(s) PROVE SlotConservation'
  <2>0. pc[s] = "permit" /\ rpc' = rpc
    BY <1>7 DEF Commit
  <2>1. CASE accepts_data
    <3>1. Goto(s, "notify") /\ queue' = Append(queue, <<s, sent[s]>>) /\ permits' = permits
      BY <1>7, <2>1 DEF Commit
    <3>2. Len(queue') = Len(queue) + 1
      BY <1>0, <3>1, SMTT(60)
    <3>3. Cardinality(Holders') = Cardinality(Holders) - 1 /\ Cardinality(Holders) \in Nat
      BY <1>0, <2>0, <3>1, HoldersMove
    <3> QED
      BY <1>0, <2>0, <3>1, <3>2, <3>3, SMTT(60) DEF SlotConservation
  <2>2. CASE ~accepts_data
    <3>1. Goto(s, "idle") /\ permits' = permits + 1 /\ queue' = queue
      BY <1>7, <2>2 DEF Commit
    <3>2. Cardinality(Holders') = Cardinality(Holders) - 1 /\ Cardinality(Holders) \in Nat
      BY <1>0, <2>0, <3>1, HoldersMove
    <3> QED
      BY <1>0, <2>0, <3>1, <3>2, SMTT(60) DEF SlotConservation
  <2> QED
    BY <2>1, <2>2
<1>8. ASSUME NEW s \in Senders, DropSender(s) PROVE SlotConservation'
  <2>1. PICK l \in {"last", "absent"} : Goto(s, l)
    BY <1>8 DEF DropSender
  <2> QED
    BY <1>0, <1>2, <1>8, <2>1 DEF DropSender
<1>9. ASSUME NEW s \in Senders,
             AcquireTimeout(s) \/ NotifyReady(s) \/ SenderClose(s) \/ LastSenderDropped(s)
      PROVE  SlotConservation'
  <2>1. PICK l \in {"full", "idle", "closing", "absent"} : Goto(s, l) /\ pc[s] # "permit"
    BY <1>9 DEF AcquireTimeout, NotifyReady, SenderClose, LastSenderDropped
  <2>2. UNCHANGED <<permits, queue, rpc>>
    BY <1>9 DEF AcquireTimeout, NotifyReady, SenderClose, LastSenderDropped
  <2> QED
    BY <1>0, <1>2, <2>1, <2>2
<1>10. ASSUME NEW s \in Senders, NEW t \in Senders, CloneSender(s, t) PROVE SlotConservation'
  BY <1>0, <1>2, <1>10 DEF CloneSender
<1>11. ASSUME NEW a \in Actors, NEW e \in Errors, Fail(a, e) PROVE SlotConservation'
  <2>1. PICK l \in {"idle", "closing"} : Goto(a, l)
    BY <1>11 DEF Fail
  <2> QED
    BY <1>0, <1>2, <1>11, <2>1 DEF Fail
<1>12. ASSUME NEW a \in Actors, FinishClose(a) PROVE SlotConservation'
  BY <1>0, <1>2, <1>12 DEF FinishClose
<1>13. ASSUME pc' = pc PROVE Holders' = Holders /\ Cardinality(Holders) \in Nat
  BY <1>13, AtFinite DEF Holders, At
<1>14. CASE RecvUpdate
  <2>1. Len(queue') = Len(queue) - 1
    BY <1>0, <1>14, SMTT(60) DEF RecvUpdate
  <2> QED
    BY <1>0, <1>13, <1>14, <2>1, SMTT(60) DEF RecvUpdate, SlotConservation
<1>15. CASE ReturnSlot
  BY <1>0, <1>13, <1>15, SMTT(60) DEF ReturnSlot, SlotConservation
<1>16. CASE RecvError
  BY <1>1, <1>16 DEF RecvError
<1>17. CASE RecvEof
  BY <1>1, <1>17 DEF RecvEof
<1>18. CASE RecvPark
  BY <1>13, <1>18 DEF RecvPark, SlotConservation
<1>19. CASE RecvWake
  BY <1>13, <1>19 DEF RecvWake, SlotConservation
<1>20. CASE RecvCancel
  BY <1>13, <1>20 DEF RecvCancel, SlotConservation
<1>21. CASE RecvClose
  BY <1>13, <1>21 DEF RecvClose, SlotConservation
<1>22. CASE RecvDrop
  BY <1>22 DEF RecvDrop, SlotConservation
<1>23. CASE RecvFinishClose
  BY <1>13, <1>23 DEF RecvFinishClose, SlotConservation
<1>24. CASE InstallHook \/ CheckHook \/ UNCHANGED vars
  BY <1>1, <1>24 DEF InstallHook, CheckHook, vars
<1> QED
  BY <1>3, <1>5, <1>6, <1>7, <1>8, <1>9, <1>10, <1>11, <1>12, <1>14, <1>15, <1>16, <1>17,
     <1>18, <1>19, <1>20, <1>21, <1>22, <1>23, <1>24
     DEF Next, SenderStep, ReceiverStep

\* The handle count stays exact through every step.
LEMMA HandleStep ==
  ASSUME TypeOK, HandlesCounted, [Next]_vars
  PROVE  HandlesCounted'
<1> USE DEF channel, slots, hook, history
<1>0. /\ PcOK /\ sender_count \in Nat
      /\ \A s \in Senders : s \in Actors
      /\ {"idle", "try", "acquire", "permit", "notify", "full", "closing"} \subseteq LiveLabels
      /\ LiveLabels \subseteq Labels /\ {"last", "absent"} \subseteq Labels
      /\ "last" \notin LiveLabels /\ "absent" \notin LiveLabels
  BY DEF TypeOK, Actors, Labels, LiveLabels
<1>1. ASSUME UNCHANGED <<pc, sender_count>> PROVE HandlesCounted'
  BY <1>1 DEF HandlesCounted, Handles, At
<1>2. ASSUME NEW a \in Actors, NEW l \in Labels, Goto(a, l), sender_count' = sender_count,
             a \notin Senders \/ (pc[a] \in LiveLabels <=> l \in LiveLabels)
      PROVE  HandlesCounted'
  BY <1>0, <1>2, HandlesMove DEF HandlesCounted
<1>3. ASSUME NEW s \in Senders, SendBegin(s) PROVE HandlesCounted'
  <2>1. CASE accepting
    <3>1. PICK l \in {"try", "acquire"} : Goto(s, l)
      BY <1>3, <2>1 DEF SendBegin
    <3> QED
      BY <1>0, <1>2, <1>3, <3>1 DEF SendBegin
  <2>2. CASE ~accepting
    BY <1>1, <1>3, <2>2 DEF SendBegin
  <2> QED
    BY <2>1, <2>2
<1>4. ASSUME NEW s \in Senders, NEW l \in LiveLabels, Goto(s, l), pc[s] \in LiveLabels,
             sender_count' = sender_count
      PROVE  HandlesCounted'
  BY <1>0, <1>2, <1>4
<1>5. ASSUME NEW s \in Senders, TryAcquire(s) PROVE HandlesCounted'
  <2>1. PICK l \in {"idle", "full", "permit"} : Goto(s, l)
    BY <1>5 DEF TryAcquire
  <2> QED
    BY <1>0, <1>4, <1>5, <2>1 DEF TryAcquire
<1>6. ASSUME NEW s \in Senders, Acquire(s) PROVE HandlesCounted'
  <2>1. PICK l \in {"idle", "permit"} : Goto(s, l)
    BY <1>6 DEF Acquire
  <2> QED
    BY <1>0, <1>4, <1>6, <2>1 DEF Acquire
<1>7. ASSUME NEW s \in Senders, Commit(s) PROVE HandlesCounted'
  <2>1. PICK l \in {"idle", "notify"} : Goto(s, l)
    BY <1>7 DEF Commit
  <2> QED
    BY <1>0, <1>4, <1>7, <2>1 DEF Commit
<1>8. ASSUME NEW s \in Senders, AcquireTimeout(s) PROVE HandlesCounted'
  BY <1>0, <1>4, <1>8 DEF AcquireTimeout
<1>9. ASSUME NEW s \in Senders, NotifyReady(s) PROVE HandlesCounted'
  BY <1>0, <1>4, <1>9 DEF NotifyReady
<1>10. ASSUME NEW s \in Senders, SenderClose(s) PROVE HandlesCounted'
  BY <1>0, <1>4, <1>10 DEF SenderClose
<1>11. ASSUME NEW s \in Senders, DropSender(s) PROVE HandlesCounted'
  <2>1. PICK l \in {"last", "absent"} : Goto(s, l)
    BY <1>11 DEF DropSender
  <2>2. pc[s] \in LiveLabels /\ l \notin LiveLabels /\ l \in Labels
    BY <1>0, <1>11, <2>1 DEF DropSender
  <2> QED
    BY <1>0, <1>11, <2>1, <2>2, HandlesMove DEF DropSender, HandlesCounted
<1>12. ASSUME NEW s \in Senders, LastSenderDropped(s) PROVE HandlesCounted'
  BY <1>0, <1>2, <1>12 DEF LastSenderDropped
<1>13. ASSUME NEW s \in Senders, NEW t \in Senders, CloneSender(s, t) PROVE HandlesCounted'
  BY <1>0, <1>13, HandlesMove DEF CloneSender, HandlesCounted
<1>14. ASSUME NEW a \in Actors, NEW e \in Errors, Fail(a, e) PROVE HandlesCounted'
  <2>1. PICK l \in {"idle", "closing"} : Goto(a, l)
    BY <1>14 DEF Fail
  <2> QED
    BY <1>0, <1>2, <1>14, <2>1 DEF Fail
<1>15. ASSUME NEW a \in Actors, FinishClose(a) PROVE HandlesCounted'
  BY <1>0, <1>2, <1>15 DEF FinishClose
<1>16. CASE ReceiverStep
  BY <1>1, <1>16
  DEF ReceiverStep, RecvUpdate, ReturnSlot, RecvError, RecvEof, RecvPark, RecvWake,
      RecvCancel, RecvClose, RecvDrop, RecvFinishClose
<1>17. CASE InstallHook \/ CheckHook \/ UNCHANGED vars
  BY <1>1, <1>17 DEF InstallHook, CheckHook, vars
<1> QED
  BY <1>3, <1>5, <1>6, <1>7, <1>8, <1>9, <1>10, <1>11, <1>12, <1>13, <1>14, <1>15, <1>16,
     <1>17 DEF Next, SenderStep

-----------------------------------------------------------------------------
(* Data, the terminal error and EOF. *)

\* The last handle is never revived: a clone needs a live handle.
LEMMA NoRevival ==
  ASSUME PcOK, Handles = {}, [Next]_vars
  PROVE  Handles' = {}
<1>1. \A s \in Senders : pc[s] \in {"absent", "last"}
  BY DEF Handles, At, PcOK, Actors
<1>2. \A s \in Senders : pc'[s] \in {"absent", "last"}
  <2>1. CASE pc' = pc
    BY <1>1, <2>1
  <2>2. ASSUME NEW s \in Senders, LastSenderDropped(s)
        PROVE  \A t \in Senders : pc'[t] \in {"absent", "last"}
    BY <1>1, <2>2 DEF LastSenderDropped, Goto, PcOK, Actors
  <2>3. ASSUME NEW a \in Actors, NEW l, pc[a] \in {"idle", "full", "closing"}, Goto(a, l)
        PROVE  \A t \in Senders : pc'[t] \in {"absent", "last"}
    <3>1. a \notin Senders
      BY <1>1, <2>3
    <3> QED
      BY <1>1, <2>3, <3>1 DEF Goto, PcOK, Actors
  <2>4. ASSUME NEW a \in Actors, NEW e \in Errors, Fail(a, e)
        PROVE  \A t \in Senders : pc'[t] \in {"absent", "last"}
    BY <2>3, <2>4 DEF Fail
  <2>5. ASSUME NEW a \in Actors, FinishClose(a)
        PROVE  \A t \in Senders : pc'[t] \in {"absent", "last"}
    BY <2>3, <2>5 DEF FinishClose
  <2>6. ASSUME NEW s \in Senders, SenderStep(s), ~LastSenderDropped(s)
        PROVE  FALSE
    BY <1>1, <2>6 DEF SenderStep, SendBegin, TryAcquire, Acquire, AcquireTimeout, Commit,
       NotifyReady, SenderClose, DropSender, CloneSender
  <2>7. CASE ReceiverStep \/ InstallHook \/ CheckHook \/ UNCHANGED vars
    BY <2>1, <2>7
    DEF ReceiverStep, RecvUpdate, ReturnSlot, RecvError, RecvEof, RecvPark, RecvWake,
        RecvCancel, RecvClose, RecvDrop, RecvFinishClose, InstallHook, CheckHook, vars
  <2> QED
    BY <2>2, <2>4, <2>5, <2>6, <2>7 DEF Next
<1> QED
  BY <1>2 DEF Handles, At

Data == CommittedDataSurvives /\ ErrorAfterData /\ Terminal

\* Accepted data, the error and EOF keep their order through every step.
LEMMA DataStep ==
  ASSUME IInv, [Next]_vars
  PROVE  Data'
<1> USE DEF Gone
<1>0. TypeOK /\ PcOK /\ HandlesCounted /\ Data /\ NoError \notin Errors
  BY ChannelConstants DEF IInv, TypeOK, Data
<1>1. Handles = {} => Handles' = {}
  BY <1>0, NoRevival
<1>2. Handles = {} => sender_count = 0
  BY <1>0, AtFinite DEF HandlesCounted, Handles
<1>3. ASSUME UNCHANGED <<queue, terminal_error, terminal_delivered, receiver_closed,
                         accepted, delivered, errors, eof>>,
             Gone' = Gone
      PROVE  Data'
  BY <1>0, <1>1, <1>3 DEF Data, CommittedDataSurvives, ErrorAfterData, Terminal
<1>4. ASSUME NEW s \in Senders, SenderStep(s), ~Commit(s), ~SenderClose(s) PROVE Data'
  <2>1. UNCHANGED <<queue, terminal_error, terminal_delivered, receiver_closed,
                    accepted, delivered, errors, eof, rpc>>
    BY <1>4
    DEF SenderStep, SendBegin, TryAcquire, Acquire, AcquireTimeout, NotifyReady, DropSender,
        LastSenderDropped, CloneSender, channel, history
  <2> QED
    BY <1>3, <2>1
<1>5. ASSUME NEW s \in Senders, Commit(s) PROVE Data'
  <2>1. CASE accepts_data
    <3>1. /\ queue' = Append(queue, <<s, sent[s]>>)
          /\ accepted' = Append(accepted, <<s, sent[s]>>)
          /\ UNCHANGED <<terminal_error, terminal_delivered, receiver_closed, rpc,
                         delivered, errors, eof>>
      BY <1>5, <2>1 DEF Commit
    <3>2. ~receiver_closed /\ ~terminal_delivered /\ terminal_error = NoError
      BY <2>1 DEF accepts_data
    <3>3. s \in Handles
      BY <1>5 DEF Commit, Handles, At, Labels
    <3>4. ~Gone /\ errors = <<>> /\ ~eof
      BY <1>0, <3>2, <3>3 DEF Data, Terminal, ErrorAfterData
    <3>5. accepted = delivered \o queue
      BY <1>0, <3>4 DEF Data, CommittedDataSurvives
    <3>6. <<s, sent[s]>> \in Updates
      <4>1. sent[s] > 0 /\ sent[s] \in 0 .. MaxUpdates
        BY <1>5, <1>0 DEF Commit, PcOK, Resting
      <4> QED
        BY <4>1, ChannelConstants, SMTT(60) DEF Updates
    <3>7. accepted' = delivered' \o queue'
      <4>1. queue \in Seq(Updates) /\ delivered \in Seq(Updates)
        BY <1>0 DEF TypeOK
      <4>2. \A u \in Updates : Append(delivered \o queue, u) = delivered \o Append(queue, u)
        BY <4>1, SMTT(60)
      <4>3. Append(accepted, <<s, sent[s]>>) = delivered \o Append(queue, <<s, sent[s]>>)
        BY <3>5, <3>6, <4>2
      <4> QED
        BY <3>1, <4>3
    <3> QED
      BY <3>1, <3>4, <3>7 DEF Data, CommittedDataSurvives, ErrorAfterData, Terminal
  <2>2. CASE ~accepts_data
    BY <1>3, <1>5, <2>2 DEF Commit
  <2> QED
    BY <2>1, <2>2
<1>6. ASSUME receiver_closed', terminal_delivered' = terminal_delivered,
             UNCHANGED <<queue, terminal_error, accepted, delivered, errors, eof>>,
             Gone' = Gone
      PROVE  Data'
  BY <1>0, <1>6 DEF Data, CommittedDataSurvives, ErrorAfterData, Terminal
<1>7. ASSUME NEW s \in Senders, SenderClose(s) PROVE Data'
  BY <1>6, <1>7 DEF SenderClose, history
<1>8. ASSUME NEW a \in Actors, NEW e \in Errors, Fail(a, e) PROVE Data'
  <2>1. CASE sender_count > 0 /\ accepts_data
    <3>1. ~receiver_closed /\ ~terminal_delivered /\ Handles # {}
      BY <1>2, <2>1, SMTT(60) DEF accepts_data
    <3>2. ~Gone /\ errors = <<>> /\ ~eof
      BY <1>0, <3>1 DEF Data, Terminal, ErrorAfterData
    <3>3. UNCHANGED <<queue, accepted, delivered, errors, eof, rpc>>
      BY <1>8 DEF Fail, history
    <3> QED
      BY <1>0, <3>2, <3>3 DEF Data, CommittedDataSurvives, ErrorAfterData, Terminal
  <2>2. CASE ~(sender_count > 0 /\ accepts_data)
    BY <1>3, <1>8, <2>2 DEF Fail, history
  <2> QED
    BY <2>1, <2>2
<1>9. ASSUME NEW a \in Actors, FinishClose(a) PROVE Data'
  BY <1>3, <1>9 DEF FinishClose, channel, history
<1>10. CASE RecvUpdate
  <2>1. /\ queue' = Tail(queue) /\ delivered' = Append(delivered, Head(queue))
        /\ UNCHANGED <<terminal_error, terminal_delivered, receiver_closed, accepted,
                       errors, eof>>
        /\ ~Gone /\ ~Gone' /\ queue # <<>>
    BY <1>10 DEF RecvUpdate
  <2>2. errors = <<>> /\ ~eof /\ accepted = delivered \o queue
    BY <1>0, <2>1 DEF Data, Terminal, CommittedDataSurvives
  <2>3. queue \in Seq(Updates) /\ delivered \in Seq(Updates)
    BY <1>0 DEF TypeOK
  <2>4. accepted' = delivered' \o queue'
    BY <2>1, <2>2, <2>3, SMTT(60)
  <2> QED
    BY <2>1, <2>2, <2>4 DEF Data, CommittedDataSurvives, ErrorAfterData, Terminal
<1>11. CASE RecvError
  <2>1. /\ errors' = Append(errors, terminal_error) /\ terminal_error # NoError
        /\ terminal_error' = NoError /\ terminal_delivered' /\ queue = <<>>
        /\ UNCHANGED <<queue, receiver_closed, accepted, delivered, eof, rpc>>
        /\ ~Gone
    BY <1>11 DEF RecvError
  <2>2. errors = <<>> /\ ~eof
    BY <1>0, <2>1 DEF Data, Terminal, ErrorAfterData
  <2>3. delivered = accepted
    BY <1>0, <2>1, SMTT(60) DEF Data, CommittedDataSurvives, TypeOK
  <2>4. Len(errors') = 1
    BY <2>1, <2>2, SMTT(60)
  <2> QED
    BY <1>0, <2>1, <2>2, <2>3, <2>4
       DEF Data, CommittedDataSurvives, ErrorAfterData, Terminal
<1>12. CASE RecvEof
  <2>1. sender_count = 0 => Handles' = {}
    BY <1>0, <1>1, AtFinite DEF HandlesCounted, Handles
  <2> QED
    BY <1>0, <1>12, <2>1 DEF RecvEof, Disconnected, channel, Data, CommittedDataSurvives,
       ErrorAfterData, Terminal
<1>13. CASE ReturnSlot \/ RecvPark \/ RecvWake \/ RecvCancel
  BY <1>3, <1>13, SMTT(60) DEF ReturnSlot, RecvPark, RecvWake, RecvCancel, channel, history
<1>14. CASE RecvClose
  BY <1>6, <1>14, SMTT(60) DEF RecvClose, history
<1>15. CASE RecvDrop
  <2>1. /\ receiver_closed' /\ queue' = <<>> /\ terminal_error' = NoError /\ Gone'
        /\ UNCHANGED <<terminal_delivered, accepted, delivered, errors, eof>>
    BY <1>15 DEF RecvDrop, history
  <2> QED
    BY <1>0, <2>1 DEF Data, CommittedDataSurvives, ErrorAfterData, Terminal
<1>16. CASE RecvFinishClose
  BY <1>3, <1>16, SMTT(60) DEF RecvFinishClose, channel, history
<1>17. CASE InstallHook \/ CheckHook \/ UNCHANGED vars
  BY <1>3, <1>17 DEF InstallHook, CheckHook, vars, channel, history
<1> QED
  BY <1>4, <1>5, <1>7, <1>8, <1>9, <1>10, <1>11, <1>12, <1>13, <1>14, <1>15, <1>16, <1>17
     DEF Next, ReceiverStep

-----------------------------------------------------------------------------
(* The theorems. *)

\* The freshly created channel satisfies the inductive invariant.
LEMMA InitIInv == Init => IInv
<1> SUFFICES ASSUME Init PROVE IInv
  OBVIOUS
<1>1. PcOK
  BY ChannelConstants, SMTT(60) DEF Init, PcOK, Actors, Labels, Resting
<1>2. Holders = {} /\ Cardinality(Holders) = 0
  <2>1. Holders = {}
    BY ChannelConstants DEF Init, Holders, At, Actors
  <2> QED
    BY <2>1, FS_EmptySet
<1>3. Handles = {First}
  BY ChannelConstants DEF Init, Handles, At, Labels, Actors
<1>4. HandlesCounted
  BY <1>3, FS_Singleton DEF HandlesCounted, Init
<1>5. TypeOK
  <2>1. queue \in Seq(Updates) /\ accepted \in Seq(Updates) /\ delivered \in Seq(Updates)
        /\ errors \in Seq(Errors)
    BY SMTT(60) DEF Init
  <2>2. permits \in Nat /\ sender_count \in Nat
    BY ChannelConstants DEF Init
  <2> QED
    BY <1>1, <2>1, <2>2 DEF Init, TypeOK
<1> QED
  BY <1>2, <1>4, <1>5, ChannelConstants, SMTT(60)
  DEF IInv, Init, SlotConservation, CommittedDataSurvives, ErrorAfterData, Terminal, Gone

\* Every step of every thread keeps the inductive invariant.
LEMMA NextIInv == IInv /\ [Next]_vars => IInv'
<1> SUFFICES ASSUME IInv, [Next]_vars PROVE IInv'
  OBVIOUS
<1>1. TypeOK' /\ SlotConservation' /\ HandlesCounted'
  BY TypeStep, SlotStep, HandleStep DEF IInv
<1>2. Data'
  BY DataStep
<1> QED
  BY <1>1, <1>2 DEF IInv, Data

\* The inductive invariant holds in every reachable state.
THEOREM Invariance == Spec => []IInv
  BY InitIInv, NextIInv, PTL DEF Spec

\* Type correctness of the strict channel, for every value of the constants.
THEOREM TypeCorrect == Spec => []TypeOK
<1>1. IInv => TypeOK
  BY DEF IInv
<1> QED
  BY Invariance, <1>1, PTL

\* send and try_send never leak a permit nor mint one: capacity is conserved
\* whatever closes, fails or times out.
THEOREM SlotsConserved == Spec => []SlotConservation
<1>1. IInv => SlotConservation
  BY DEF IInv
<1> QED
  BY Invariance, <1>1, PTL

\* Nothing send accepted is lost or reordered unless the receiver is dropped.
THEOREM DataSurvives == Spec => []CommittedDataSurvives
<1>1. IInv => CommittedDataSurvives
  BY DEF IInv
<1> QED
  BY Invariance, <1>1, PTL

\* The terminal error is read at most once, and only behind all accepted data.
THEOREM ErrorIsLast == Spec => []ErrorAfterData
<1>1. IInv => ErrorAfterData
  BY DEF IInv
<1> QED
  BY Invariance, <1>1, PTL

\* After recv has returned None the history of the channel never changes.
THEOREM EofFinal == Spec => EofIsFinal
<1>1. ASSUME IInv, [Next]_vars, eof PROVE UNCHANGED <<accepted, delivered, errors>>
  <2>1. queue = <<>> /\ terminal_error = NoError
        /\ (receiver_closed \/ terminal_delivered \/ Handles = {})
    BY <1>1 DEF IInv, Terminal
  <2>2. ASSUME NEW s \in Senders, Commit(s) PROVE accepted' = accepted
    <3>1. s \in Handles
      BY <2>2 DEF Commit, Handles, At, Labels
    <3>2. ~accepts_data
      BY <2>1, <3>1 DEF accepts_data
    <3> QED
      BY <2>2, <3>2 DEF Commit
  <2>3. ASSUME NEW s \in Senders, SenderStep(s)
        PROVE  UNCHANGED <<accepted, delivered, errors>>
    BY <2>2, <2>3
    DEF SenderStep, SendBegin, TryAcquire, Acquire, AcquireTimeout, Commit, NotifyReady,
        SenderClose, DropSender, LastSenderDropped, CloneSender, history
  <2>4. ASSUME NEW a \in Actors, (\E e \in Errors : Fail(a, e)) \/ FinishClose(a)
        PROVE  UNCHANGED <<accepted, delivered, errors>>
    BY <2>4 DEF Fail, FinishClose, history
  <2>5. CASE ReceiverStep
    BY <2>1, <2>5
    DEF ReceiverStep, RecvUpdate, ReturnSlot, RecvError, RecvEof, RecvPark, RecvWake,
        RecvCancel, RecvClose, RecvDrop, RecvFinishClose, history
  <2>6. CASE InstallHook \/ CheckHook \/ UNCHANGED vars
    BY <2>6 DEF InstallHook, CheckHook, vars, history
  <2> QED
    BY <1>1, <2>3, <2>4, <2>5, <2>6 DEF Next
<1>2. IInv /\ [Next]_vars => [eof => UNCHANGED <<accepted, delivered, errors>>]_vars
  BY <1>1
<1> QED
  BY Invariance, <1>2, PTL DEF Spec, EofIsFinal

-----------------------------------------------------------------------------
(* The channel implements DeliveryStream: each step of a sender, a failure or the
   receiver is a step of the stream or is hidden from its consumer. *)

\* What the consumer of the stream can see of the channel.
Seen == <<accepted, delivered, errors, eof, accepts_data, sender_count > 0,
          terminal_error, Gone>>

\* A step that leaves that unchanged is a stutter of the stream.
LEMMA Hidden == UNCHANGED Seen => UNCHANGED Stream!vars
  BY SMTT(60) DEF Seen, Stream!vars

\* A live handle is counted.
LEMMA HandleLive ==
  ASSUME IInv, NEW s \in Senders, pc[s] \in Labels \ {"absent", "last"}
  PROVE  sender_count \in Nat /\ sender_count > 0
<1>1. Handles # {}
  BY DEF Handles, At
<1>2. sender_count = Cardinality(Handles) /\ sender_count \in Nat
  BY DEF IInv, HandlesCounted, TypeOK
<1>3. Cardinality(Handles) # 0
  BY <1>1, AtFinite DEF Handles
<1> QED
  BY <1>2, <1>3, SMTT(60)

\* The first state of the channel is the first state of a stream.
LEMMA InitRefines == Init => Stream!Init
  BY ChannelConstants, SMTT(60) DEF Init, Stream!Init, accepts_data, Gone

\* While the channel accepts data no error has been read.
LEMMA NoErrorYet ==
  ASSUME IInv
  PROVE  /\ accepts_data => errors = <<>>
         /\ terminal_error # NoError => errors = <<>>
  BY DEF IInv, ErrorAfterData, accepts_data

\* A pushed update is published.
LEMMA CommitRefines ==
  ASSUME IInv, NEW s \in Senders, Commit(s)
  PROVE  [Stream!Next]_(Stream!vars)
<1>0. PcOK /\ pc[s] = "permit" /\ sent[s] \in 0 .. MaxUpdates /\ sent[s] > 0
  BY DEF IInv, TypeOK, PcOK, Commit, Resting
<1>1. sender_count > 0
  BY <1>0, HandleLive DEF Labels
<1>2. <<s, sent[s]>> \in Updates
  BY <1>0, ChannelConstants, SMTT(60) DEF Updates
<1>3. CASE accepts_data
  <2>1. Stream!Publish(<<s, sent[s]>>)
    BY <1>1, <1>3 DEF Stream!Publish, Stream!consumer, Commit, accepts_data, Gone
  <2> QED
    BY <2>1, <1>2 DEF Stream!Next
<1>4. CASE ~accepts_data
  BY <1>4, Hidden DEF Commit, Seen, accepts_data, Gone
<1> QED
  BY <1>3, <1>4

\* The other steps of a sender: the last handle closes the stream.
LEMMA SenderRefines ==
  ASSUME IInv, NEW s \in Senders, SenderStep(s)
  PROVE  [Stream!Next]_(Stream!vars)
<1> USE DEF channel, slots, hook, history
<1>1. CASE Commit(s)
  BY <1>1, CommitRefines
<1>2. CASE SendBegin(s) \/ TryAcquire(s) \/ Acquire(s) \/ AcquireTimeout(s) \/ NotifyReady(s)
  <2>1. UNCHANGED Seen
    BY <1>2, SMTT(60)
    DEF SendBegin, TryAcquire, Acquire, AcquireTimeout, NotifyReady, Seen, accepts_data,
        Gone
  <2> QED
    BY <2>1, Hidden
<1>3. CASE LastSenderDropped(s)
  <2>1. UNCHANGED Seen
    BY <1>3 DEF LastSenderDropped, Seen, accepts_data, Gone
  <2> QED
    BY <2>1, Hidden
<1>4. CASE \E t \in Senders : CloneSender(s, t)
  <2>1. sender_count \in Nat /\ sender_count > 0
    BY <1>4, HandleLive DEF CloneSender, Labels
  <2>2. UNCHANGED Seen
    BY <1>4, <2>1, SMTT(60) DEF CloneSender, Seen, accepts_data, Gone
  <2> QED
    BY <2>2, Hidden
<1>5. CASE SenderClose(s)
  <2>1. CASE accepts_data /\ sender_count > 0
    <3>1. Stream!Close
      BY <1>5, <2>1 DEF SenderClose, Stream!Close, Stream!consumer, accepts_data, Gone
    <3> QED
      BY <3>1 DEF Stream!Next
  <2>2. CASE ~(accepts_data /\ sender_count > 0)
    BY <1>5, <2>2 DEF SenderClose, Stream!vars, accepts_data, Gone
  <2> QED
    BY <2>1, <2>2
<1>6. CASE DropSender(s)
  <2>0. sender_count \in Nat /\ sender_count > 0
    BY <1>6, HandleLive DEF DropSender, Labels
  <2>1. CASE accepts_data /\ sender_count = 1
    <3>1. Stream!Close
      BY <1>6, <2>1, SMTT(60) DEF DropSender, Stream!Close, Stream!consumer, accepts_data, Gone
    <3> QED
      BY <3>1 DEF Stream!Next
  <2>2. CASE ~accepts_data
    BY <1>6, <2>2 DEF DropSender, Stream!vars, accepts_data, Gone
  <2>3. CASE sender_count # 1
    <3>1. UNCHANGED Seen
      BY <1>6, <2>0, <2>3, SMTT(60) DEF DropSender, Seen, accepts_data, Gone
    <3> QED
      BY <3>1, Hidden
  <2> QED
    BY <2>1, <2>2, <2>3
<1> QED
  BY <1>1, <1>2, <1>3, <1>4, <1>5, <1>6 DEF SenderStep

\* A failure that is stored is the stream's fault; any other is hidden.
LEMMA FailRefines ==
  ASSUME IInv, NEW a \in Actors, NEW e \in Errors, Fail(a, e)
  PROVE  [Stream!Next]_(Stream!vars)
<1> USE DEF channel, slots, hook, history
<1>1. CASE sender_count > 0 /\ accepts_data
  <2>1. e # NoError /\ errors = <<>>
    BY <1>1, NoErrorYet, ChannelConstants
  <2>2. Stream!Fail(e)
    BY <1>1, <2>1 DEF Fail, Stream!Fail, Stream!consumer, accepts_data, Gone
  <2> QED
    BY <2>2 DEF Stream!Next
<1>2. CASE ~(sender_count > 0 /\ accepts_data)
  <2>1. UNCHANGED Seen
    BY <1>2 DEF Fail, Seen, accepts_data, Gone
  <2> QED
    BY <2>1, Hidden
<1> QED
  BY <1>1, <1>2

\* Reading an update is a receive that skips nothing.
LEMMA UpdateRefines ==
  ASSUME IInv, RecvUpdate
  PROVE  Stream!Receive(0) /\ 0 \in 0 .. Len(accepted)
<1>0. /\ queue \in Seq(Updates) /\ delivered \in Seq(Updates) /\ accepted \in Seq(Updates)
      /\ queue # <<>> /\ rpc = "idle" /\ rpc' = "popped"
      /\ delivered' = Append(delivered, Head(queue))
  BY DEF IInv, TypeOK, RecvUpdate
<1>1. accepted = delivered \o queue /\ errors = <<>> /\ ~eof
  BY <1>0 DEF IInv, CommittedDataSurvives, Terminal, Gone
<1>2. /\ Len(accepted) = Len(delivered) + Len(queue) /\ Len(queue) > 0
      /\ Len(delivered) \in Nat /\ Len(queue) \in Nat
      /\ accepted[Len(delivered) + 1] = Head(queue)
      /\ Len(delivered') = Len(delivered) + 1
  BY <1>0, <1>1, SMTT(60)
<1>3. Len(delivered) + 0 + 1 <= Len(accepted) /\ Len(delivered') = Len(delivered) + 0 + 1
  BY <1>2, SMTT(60)
<1>4. delivered' = Append(delivered, accepted[Len(delivered')])
  BY <1>0, <1>2
<1>5. UNCHANGED <<accepted, accepts_data, sender_count, errors, terminal_error, eof>>
      /\ ~Gone /\ ~Gone'
  BY <1>0 DEF RecvUpdate, accepts_data, Gone
<1>6. Stream!Receive(0)
  BY <1>0, <1>1, <1>3, <1>4, <1>5, SMTT(60) DEF Stream!Receive, Gone, accepts_data, RecvUpdate
<1> QED
  BY <1>2, <1>6, SMTT(60)

\* The receiver reads, reports, finishes or leaves exactly as the stream's does.
LEMMA ReceiverRefines ==
  ASSUME IInv, ReceiverStep
  PROVE  [Stream!Next]_(Stream!vars)
<1> USE DEF channel, slots, hook, history
<1>0. /\ queue \in Seq(Updates) /\ delivered \in Seq(Updates)
      /\ errors \in Seq(Errors) /\ terminal_error \in Errors \cup {NoError}
      /\ sender_count \in Nat
      /\ rpc = "idle" /\ queue = <<>> => accepted = delivered
  BY SMTT(60) DEF IInv, TypeOK, CommittedDataSurvives, Gone
<1>1. CASE RecvUpdate
  BY <1>1, UpdateRefines DEF Stream!Next
<1>2. CASE ReturnSlot \/ RecvPark \/ RecvWake \/ RecvCancel
  <2>1. ~Gone /\ ~Gone'
    BY <1>2 DEF ReturnSlot, RecvPark, RecvWake, RecvCancel, Gone
  <2>2. UNCHANGED <<accepted, delivered, errors, eof, accepts_data, sender_count, terminal_error>>
    BY <1>2, SMTT(60) DEF ReturnSlot, RecvPark, RecvWake, RecvCancel, accepts_data
  <2> QED
    BY <2>1, <2>2, Hidden, SMTT(60) DEF Seen, Gone
<1>7. CASE RecvFinishClose
  <2>1. UNCHANGED Seen
    BY <1>7, SMTT(60) DEF RecvFinishClose, Seen, accepts_data, Gone
  <2> QED
    BY <2>1, Hidden
<1>3. CASE RecvError
  <2>1. errors = <<>> /\ terminal_error # NoError /\ accepted = delivered
    BY <1>0, <1>3, NoErrorYet DEF RecvError
  <2>2. errors' # <<>> /\ errors'[1] = terminal_error
    BY <1>0, <1>3, <2>1, SMTT(60) DEF RecvError
  <2>3. Stream!ReportFault
    BY <1>3, <2>1, <2>2 DEF RecvError, Stream!ReportFault, Stream!Drained, accepts_data, Gone
  <2> QED
    BY <2>3 DEF Stream!Next
<1>4. CASE RecvEof
  <2>1. Stream!Finish
    BY <1>0, <1>4, SMTT(60)
    DEF RecvEof, Disconnected, Stream!Finish, Stream!Drained, accepts_data, Gone
  <2> QED
    BY <2>1 DEF Stream!Next
<1>5. CASE RecvClose
  <2>1. CASE accepts_data /\ sender_count > 0
    <3>1. Stream!Close
      BY <1>5, <2>1, SMTT(60) DEF RecvClose, Stream!Close, Stream!consumer, accepts_data, Gone
    <3> QED
      BY <3>1 DEF Stream!Next
  <2>2. CASE ~(accepts_data /\ sender_count > 0)
    BY <1>5, <2>2, SMTT(60) DEF RecvClose, Stream!vars, accepts_data, Gone
  <2> QED
    BY <2>1, <2>2
<1>6. CASE RecvDrop
  <2>1. Stream!Abandon
    BY <1>6 DEF RecvDrop, Stream!Abandon, accepts_data, Gone
  <2> QED
    BY <2>1 DEF Stream!Next
<1> QED
  BY <1>1, <1>2, <1>3, <1>4, <1>5, <1>6, <1>7 DEF ReceiverStep

\* Every step of the channel is a step of the stream or a stutter.
LEMMA StepRefines == IInv /\ [Next]_vars => [Stream!Next]_(Stream!vars)
<1> SUFFICES ASSUME IInv, [Next]_vars PROVE [Stream!Next]_(Stream!vars)
  OBVIOUS
<1>1. ASSUME NEW a \in Actors, FinishClose(a) PROVE UNCHANGED Seen
  BY <1>1 DEF FinishClose, Seen, accepts_data, Gone, channel, history
<1>2. ASSUME InstallHook \/ CheckHook \/ UNCHANGED vars PROVE UNCHANGED Seen
  <2>1. /\ UNCHANGED <<terminal_error, terminal_delivered, receiver_closed, sender_count, rpc>>
        /\ UNCHANGED <<accepted, delivered, errors, eof>>
    BY <1>2 DEF InstallHook, CheckHook, vars, channel, history
  <2> QED
    BY <2>1 DEF Seen, accepts_data, Gone
<1> QED
  BY <1>1, <1>2, Hidden, SenderRefines, FailRefines, ReceiverRefines DEF Next

\* The strict channel implements the delivery stream that never skips data,
\* for every number of handles, every capacity and every set of errors.
THEOREM ImplementsStream == Spec => StrictStream
<1> QED
  BY InitRefines, StepRefines, Invariance, PTL DEF Spec, StrictStream, Stream!Spec

-----------------------------------------------------------------------------
(* No update of a producer is skipped. *)

LEMMA Appended ==
  ASSUME NEW q \in Seq(Updates), NEW u \in Updates, NEW r, r = Append(q, u)
  PROVE  /\ Len(q) \in Nat /\ Len(r) = Len(q) + 1
         /\ DOMAIN q = 1 .. Len(q) /\ DOMAIN r = 1 .. (Len(q) + 1)
         /\ \A i \in 1 .. Len(q) : r[i] = q[i]
         /\ r[Len(q) + 1] = u
  BY SMTT(60)

LEMMA Moved ==
  ASSUME PcOK, NEW a \in Actors, NEW l, Goto(a, l)
  PROVE  pc'[a] = l /\ \A b \in Actors : b # a => pc'[b] = pc[b]
  BY DEF PcOK, Goto

\* An update that follows all those its producer made before keeps the run.
LEMMA GaplessAppend ==
  ASSUME NEW q \in Seq(Updates), Gapless(q), NEW s \in Senders, NEW m \in 1 .. MaxUpdates,
         NEW r, r = Append(q, <<s, m>>),
         \A n \in 1 .. MaxUpdates : (\E j \in DOMAIN q : q[j] = <<s, n>>) <=> n < m
  PROVE  Gapless(r)
<1>0. /\ Len(q) \in Nat /\ DOMAIN q = 1 .. Len(q) /\ DOMAIN r = 1 .. (Len(q) + 1)
      /\ \A i \in 1 .. Len(q) : r[i] = q[i]
      /\ r[Len(q) + 1] = <<s, m>>
  <2>1. <<s, m>> \in Updates
    BY DEF Updates
  <2> QED
    BY <2>1, Appended, SMTT(60)
<1>1. ASSUME NEW i \in DOMAIN r, NEW n \in 1 .. MaxUpdates
      PROVE  (\E j \in 1 .. i - 1 : r[j] = <<r[i][1], n>>) <=> n < r[i][2]
  <2>1. CASE i \in DOMAIN q
    <3>1. r[i] = q[i] /\ \A j \in 1 .. i - 1 : r[j] = q[j]
      BY <1>0, <2>1, SMTT(60)
    <3>2. (\E j \in 1 .. i - 1 : q[j] = <<q[i][1], n>>) <=> n < q[i][2]
      BY <2>1 DEF Gapless
    <3> QED
      BY <3>1, <3>2
  <2>2. CASE i = Len(q) + 1
    <3>1. 1 .. i - 1 = DOMAIN q /\ \A j \in DOMAIN q : r[j] = q[j]
      BY <1>0, <2>2, SMTT(60)
    <3>2. r[i][1] = s /\ r[i][2] = m
      BY <1>0, <2>2, SMTT(60)
    <3> QED
      BY <3>1, <3>2
  <2>3. i \in DOMAIN q \/ i = Len(q) + 1
    BY <1>0, SMTT(60)
  <2> QED
    BY <2>1, <2>2, <2>3
<1> QED
  BY <1>1 DEF Gapless

\* So does every prefix.
LEMMA GaplessPrefix ==
  ASSUME NEW q \in Seq(Updates), NEW r \in Seq(Updates), Gapless(r), Len(q) <= Len(r),
         \A i \in DOMAIN q : q[i] = r[i]
  PROVE  Gapless(q)
<1>1. ASSUME NEW i \in DOMAIN q, NEW n \in 1 .. MaxUpdates
      PROVE  (\E j \in 1 .. i - 1 : q[j] = <<q[i][1], n>>) <=> n < q[i][2]
  <2>1. i \in DOMAIN r /\ \A j \in 1 .. i - 1 : j \in DOMAIN q
    BY SMTT(60)
  <2>2. (\E j \in 1 .. i - 1 : r[j] = <<r[i][1], n>>) <=> n < r[i][2]
    BY <2>1 DEF Gapless
  <2> QED
    BY <2>1, <2>2
<1> QED
  BY <1>1 DEF Gapless

\* One actor moves: it stops the channel before it stands where a stop ends.
LEMMA StopsByMove ==
  ASSUME IInv, StoppedForGood, NEW a \in Actors, NEW l, Goto(a, l), Stopped => Stopped',
         l \in {"closing", "last"} => Stopped',
         ~accepting' => ~accepting \/ Stopped', slots_closed' => slots_closed \/ Stopped',
         UNCHANGED <<rpc, receiver_closed>> \/ (rpc' = rpc /\ receiver_closed')
  PROVE  StoppedForGood'
<1>0. PcOK
  BY DEF IInv, TypeOK
<1>1. \A b \in Actors : pc'[b] \in {"closing", "last"} => Stopped'
  BY <1>0, Moved DEF StoppedForGood
<1> QED
  BY <1>1 DEF StoppedForGood

LEMMA StopsStill ==
  ASSUME StoppedForGood, UNCHANGED <<pc, accepting, slots_closed, receiver_closed>>,
         Stopped => Stopped', rpc' \in {"closing", "dropping"} => rpc' = rpc
  PROVE  StoppedForGood'
  BY DEF StoppedForGood

\* Nothing is accepted or read; a producer may take its next update in hand.
LEMMA QuietStep ==
  ASSUME IInv, Unbroken, UNCHANGED <<accepted, delivered>>, Stopped => Stopped', StoppedForGood',
         \A s \in Senders : ~Stopped' =>
           \/ sent'[s] = sent[s] /\ (InHand(s)' <=> InHand(s))
           \/ sent'[s] = sent[s] + 1 /\ ~InHand(s) /\ InHand(s)'
  PROVE  Unbroken'
<1>1. ASSUME ~Stopped', NEW s \in Senders, NEW n \in 1 .. MaxUpdates
      PROVE  Published(s, n)' <=> n < sent'[s] \/ (n = sent'[s] /\ ~InHand(s)')
  <2>1. Published(s, n) <=> n < sent[s] \/ (n = sent[s] /\ ~InHand(s))
    BY <1>1 DEF Unbroken, NothingSkipped
  <2>2. Published(s, n)' <=> Published(s, n)
    BY DEF Published
  <2>3. CASE sent'[s] = sent[s] /\ (InHand(s)' <=> InHand(s))
    BY <2>1, <2>2, <2>3
  <2>4. CASE sent'[s] = sent[s] + 1 /\ ~InHand(s) /\ InHand(s)'
    <3>1. sent[s] \in Nat /\ n \in Nat
      <4>1. sent[s] \in 0 .. MaxUpdates /\ MaxUpdates \in Nat
        BY ChannelConstants DEF IInv, TypeOK, PcOK
      <4> QED
        BY <4>1, SMTT(60)
    <3>2. n < sent[s] + 1 <=> n < sent[s] \/ n = sent[s]
      BY <3>1, SMTT(60)
    <3> QED
      BY <2>1, <2>2, <2>4, <3>2
  <2> QED
    BY <1>1, <2>3, <2>4
<1>2. NothingSkipped'
  BY <1>1 DEF NothingSkipped
<1>3. Gapless(accepted)'
  BY DEF Unbroken, Gapless
<1> QED
  BY <1>2, <1>3 DEF Unbroken

\* The same, when the channel is stopped.
LEMMA StoppedStep ==
  ASSUME IInv, Unbroken, UNCHANGED <<accepted, delivered>>, Stopped', StoppedForGood'
  PROVE  Unbroken'
  BY QuietStep

\* The same, when no producer moves.
LEMMA StillStep ==
  ASSUME IInv, Unbroken, UNCHANGED <<accepted, delivered, pc, sent, accepting, slots_closed,
                                     receiver_closed, terminal_error, terminal_delivered,
                                     sender_count>>,
         rpc' \in {"closing", "dropping"} => rpc' = rpc
  PROVE  Unbroken'
<1>1. Stopped => Stopped'
  BY DEF Stopped, accepts_data
<1>2. StoppedForGood'
  BY <1>1, StopsStill DEF Unbroken
<1>3. \A s \in Senders : sent'[s] = sent[s] /\ (InHand(s)' <=> InHand(s))
  BY DEF InHand
<1> QED
  BY <1>1, <1>2, <1>3, QuietStep

\* One producer moves and nothing else of the stop changes.
LEMMA SenderMoves ==
  ASSUME IInv, Unbroken, NEW s \in Senders, NEW l, Goto(s, l),
         UNCHANGED <<accepted, delivered, accepting, slots_closed, receiver_closed,
                     terminal_error, terminal_delivered, sender_count, rpc>>,
         l \notin {"closing", "last"},
         \/ Stopped
         \/ /\ sent' = sent
            /\ InHand(s) <=> l \in {"try", "acquire", "permit", "full"}
         \/ /\ sent' = [sent EXCEPT ![s] = @ + 1]
            /\ ~InHand(s) /\ l \in {"try", "acquire", "permit", "full"}
  PROVE  Unbroken'
<1>0. PcOK /\ s \in Actors /\ StoppedForGood
  BY DEF IInv, TypeOK, Actors, Unbroken
<1>1. Stopped <=> Stopped'
  BY DEF Stopped, accepts_data
<1>2. StoppedForGood'
  BY <1>0, <1>1, StopsByMove
<1>3. pc'[s] = l /\ \A t \in Senders : t # s => pc'[t] = pc[t]
  BY <1>0, Moved DEF Actors
<1>4. CASE Stopped
  BY <1>1, <1>2, <1>4, StoppedStep
<1>5. CASE sent' = sent /\ (InHand(s) <=> l \in {"try", "acquire", "permit", "full"})
  <2>1. \A t \in Senders : sent'[t] = sent[t] /\ (InHand(t)' <=> InHand(t))
    BY <1>3, <1>5 DEF InHand
  <2> QED
    BY <1>1, <1>2, <2>1, QuietStep
<1>6. CASE /\ sent' = [sent EXCEPT ![s] = @ + 1]
           /\ ~InHand(s) /\ l \in {"try", "acquire", "permit", "full"}
  <2>1. sent'[s] = sent[s] + 1 /\ \A t \in Senders : t # s => sent'[t] = sent[t]
    BY <1>0, <1>6 DEF PcOK
  <2>2. InHand(s)' /\ \A t \in Senders : t # s => (InHand(t)' <=> InHand(t))
    BY <1>3, <1>6 DEF InHand
  <2>3. \A t \in Senders : \/ sent'[t] = sent[t] /\ (InHand(t)' <=> InHand(t))
                           \/ sent'[t] = sent[t] + 1 /\ ~InHand(t) /\ InHand(t)'
    BY <1>6, <2>1, <2>2
  <2> QED
    BY <1>1, <1>2, <2>3, QuietStep
<1> QED
  BY <1>4, <1>5, <1>6

\* The tests of a send: what they reject comes to a channel that is stopped.
LEMMA SendSteps ==
  ASSUME IInv, Unbroken, NEW s \in Senders,
         SendBegin(s) \/ TryAcquire(s) \/ Acquire(s) \/ AcquireTimeout(s) \/ NotifyReady(s)
  PROVE  Unbroken'
<1>0. StoppedForGood /\ PcOK
  BY DEF Unbroken, IInv, TypeOK
<1>1. /\ ~accepting => Stopped
      /\ slots_closed => Stopped
  BY <1>0 DEF StoppedForGood
<1>2. UNCHANGED <<accepted, delivered, accepting, slots_closed, receiver_closed,
                  terminal_error, terminal_delivered, sender_count, rpc>>
  BY DEF SendBegin, TryAcquire, Acquire, AcquireTimeout, NotifyReady, channel, slots, history
<1>3. CASE SendBegin(s) /\ accepting
  BY <1>2, <1>3, SenderMoves DEF SendBegin, InHand
<1>4. CASE SendBegin(s) /\ ~accepting
  <2>1. Stopped' /\ UNCHANGED pc
    BY <1>1, <1>2, <1>4 DEF SendBegin, Stopped, accepts_data
  <2>2. StoppedForGood'
    BY <1>0, <1>2, <2>1, StopsStill
  <2> QED
    BY <1>2, <2>1, <2>2, StoppedStep
<1>5. CASE TryAcquire(s)
  BY <1>1, <1>2, <1>5, SenderMoves DEF TryAcquire, InHand
<1>6. CASE Acquire(s)
  BY <1>1, <1>2, <1>6, SenderMoves DEF Acquire, InHand
<1>7. CASE AcquireTimeout(s)
  BY <1>2, <1>7, SenderMoves DEF AcquireTimeout, InHand
<1>8. CASE NotifyReady(s)
  BY <1>2, <1>8, SenderMoves DEF NotifyReady, InHand
<1> QED
  BY <1>3, <1>4, <1>5, <1>6, <1>7, <1>8

\* The update a producer publishes is the one after its last.
LEMMA CommitStep ==
  ASSUME IInv, Unbroken, NEW s \in Senders, Commit(s)
  PROVE  Unbroken'
<1>0. /\ PcOK /\ pc[s] = "permit" /\ s \in Actors /\ sent' = sent /\ InHand(s)
      /\ StoppedForGood /\ NothingSkipped /\ Gapless(accepted)
      /\ UNCHANGED <<delivered, accepting, slots_closed, receiver_closed, terminal_error,
                     terminal_delivered, sender_count, rpc>>
  BY DEF IInv, TypeOK, Commit, Actors, Unbroken, InHand
<1>1. CASE ~accepts_data
  <2>1. Goto(s, "idle") /\ UNCHANGED accepted /\ Stopped
    BY <1>1 DEF Commit, Stopped
  <2> QED
    BY <1>0, <2>1, SenderMoves
<1>2. CASE accepts_data
  <2>1. /\ Goto(s, "notify") /\ accepted' = Append(accepted, <<s, sent[s]>>)
    BY <1>2 DEF Commit
  <2>2. ~Stopped
    <3>1. sender_count > 0 /\ sender_count \in Nat
      BY <1>0, HandleLive DEF Labels
    <3>2. sender_count # 0
      BY <3>1, SMTT(60)
    <3> QED
      BY <1>2, <3>2 DEF Stopped
  <2>3. sent[s] \in 1 .. MaxUpdates /\ accepted \in Seq(Updates) /\ <<s, sent[s]>> \in Updates
    <3>1. sent[s] \in 0 .. MaxUpdates /\ sent[s] > 0 /\ MaxUpdates \in Nat
      BY <1>0, ChannelConstants DEF PcOK, Resting
    <3>2. sent[s] \in 1 .. MaxUpdates
      BY <3>1, SMTT(60)
    <3> QED
      BY <3>2 DEF IInv, TypeOK, Updates
  <2>4. /\ Len(accepted) \in Nat /\ Len(accepted') = Len(accepted) + 1
        /\ DOMAIN accepted = 1 .. Len(accepted) /\ DOMAIN accepted' = 1 .. (Len(accepted) + 1)
        /\ \A i \in 1 .. Len(accepted) : accepted'[i] = accepted[i]
        /\ accepted'[Len(accepted) + 1] = <<s, sent[s]>>
    BY <2>1, <2>3, Appended, SMTT(60)
  <2>5. ASSUME NEW t \in Senders, NEW n \in 1 .. MaxUpdates
        PROVE  Published(t, n) <=> n < sent[t] \/ (n = sent[t] /\ ~InHand(t))
    BY <1>0, <2>2 DEF NothingSkipped
  <2>6. \A n \in 1 .. MaxUpdates : (\E j \in DOMAIN accepted : accepted[j] = <<s, n>>) <=> n < sent[s]
    BY <1>0, <2>5 DEF Published
  <2>7. Gapless(accepted')
    BY <1>0, <2>1, <2>3, <2>6, GaplessAppend
  <2>8. Stopped <=> Stopped'
    BY <1>0 DEF Stopped, accepts_data
  <2>9. StoppedForGood'
    BY <1>0, <2>1, <2>8, StopsByMove
  <2>10. pc'[s] = "notify" /\ \A t \in Senders : t # s => pc'[t] = pc[t]
    BY <1>0, <2>1, Moved DEF Actors
  <2>11. ASSUME NEW t \in Senders, NEW n \in 1 .. MaxUpdates
         PROVE  Published(t, n)' <=> n < sent'[t] \/ (n = sent'[t] /\ ~InHand(t)')
    <3>1. Published(t, n)' <=> Published(t, n) \/ <<s, sent[s]>> = <<t, n>>
      <4>1. 1 .. (Len(accepted) + 1) = (1 .. Len(accepted)) \cup {Len(accepted) + 1}
        BY <2>4, SMTT(60)
      <4> QED
        BY <2>4, <4>1 DEF Published
    <3>2. CASE t = s
      <4>1. ~InHand(t)' /\ (<<s, sent[s]>> = <<t, n>> <=> n = sent[t])
        BY <2>10, <3>2 DEF InHand
      <4> QED
        BY <1>0, <2>5, <3>1, <3>2, <4>1
    <3>3. CASE t # s
      <4>1. (InHand(t)' <=> InHand(t)) /\ <<s, sent[s]>> # <<t, n>>
        BY <2>10, <3>3 DEF InHand
      <4> QED
        BY <1>0, <2>5, <3>1, <4>1
    <3> QED
      BY <3>2, <3>3
  <2>12. NothingSkipped'
    BY <2>11 DEF NothingSkipped
  <2>13. Len(delivered') <= Len(accepted') /\ \A i \in DOMAIN delivered' : delivered'[i] = accepted'[i]
    <3>1. Len(delivered) \in Nat /\ DOMAIN delivered = 1 .. Len(delivered)
      BY SMTT(60) DEF IInv, TypeOK
    <3>2. Len(delivered) <= Len(accepted) /\ \A i \in DOMAIN delivered : delivered[i] = accepted[i]
      BY DEF Unbroken
    <3> QED
      BY <1>0, <2>4, <3>1, <3>2, SMTT(60)
  <2> QED
    BY <2>7, <2>9, <2>12, <2>13 DEF Unbroken
<1> QED
  BY <1>1, <1>2

\* The producing side stops the channel or changes the number of handles.
LEMMA StopSteps ==
  ASSUME IInv, Unbroken, NEW s \in Senders,
         \/ SenderClose(s) \/ DropSender(s) \/ LastSenderDropped(s)
         \/ \E t \in Senders : CloneSender(s, t)
  PROVE  Unbroken'
<1>0. StoppedForGood /\ PcOK /\ s \in Actors
  BY DEF Unbroken, IInv, TypeOK, Actors
<1>1. CASE SenderClose(s)
  <2>1. /\ Goto(s, "closing") /\ Stopped' /\ receiver_closed'
        /\ UNCHANGED <<accepted, delivered, slots_closed, rpc>>
    BY <1>1 DEF SenderClose, Stopped, accepts_data, slots, history
  <2>2. StoppedForGood'
    BY <1>0, <2>1, StopsByMove
  <2> QED
    BY <2>1, <2>2, StoppedStep
<1>2. CASE LastSenderDropped(s)
  <2>1. /\ Goto(s, "absent") /\ Stopped' /\ rpc' = rpc /\ receiver_closed' = receiver_closed
        /\ UNCHANGED <<accepted, delivered, slots_closed>>
    BY <1>0, <1>2 DEF LastSenderDropped, StoppedForGood, Stopped, accepts_data, slots, history
  <2>2. StoppedForGood'
    BY <1>0, <2>1, StopsByMove
  <2> QED
    BY <2>1, <2>2, StoppedStep
<1>3. CASE DropSender(s)
  <2>1. /\ pc[s] = "idle" /\ sender_count' = sender_count - 1 /\ sent' = sent
        /\ UNCHANGED <<accepted, delivered, accepting, slots_closed, receiver_closed,
                       terminal_error, terminal_delivered, rpc>>
    BY <1>3 DEF DropSender, channel, slots, history
  <2>2. sender_count \in Nat /\ sender_count > 0
    BY <2>1, HandleLive DEF Labels
  <2>3. sender_count # 0
    BY <2>2, SMTT(60)
  <2>4. Stopped => Stopped'
    BY <2>1, <2>3 DEF Stopped, accepts_data
  <2>5. PICK l \in {"last", "absent"} : Goto(s, l) /\ (l = "last" => sender_count = 1)
    BY <1>3 DEF DropSender
  <2>6. l = "last" => Stopped'
    <3>1. sender_count = 1 => sender_count' = 0
      BY <2>1, SMTT(60)
    <3> QED
      BY <2>5, <3>1 DEF Stopped
  <2>7. StoppedForGood'
    BY <1>0, <2>1, <2>4, <2>5, <2>6, StopsByMove
  <2>8. pc'[s] = l /\ \A t \in Senders : t # s => pc'[t] = pc[t]
    BY <1>0, <2>5, Moved DEF Actors
  <2>9. \A t \in Senders : sent'[t] = sent[t] /\ (InHand(t)' <=> InHand(t))
    BY <2>1, <2>5, <2>8 DEF InHand
  <2> QED
    BY <2>1, <2>4, <2>7, <2>9, QuietStep
<1>4. ASSUME NEW t \in Senders, CloneSender(s, t)
      PROVE  Unbroken'
  <2>1. /\ pc[s] = "idle" /\ pc[t] = "absent" /\ Goto(t, "idle") /\ sent' = sent /\ t \in Actors
        /\ UNCHANGED <<accepted, delivered, accepting, slots_closed, receiver_closed,
                       terminal_error, terminal_delivered, rpc>>
    BY <1>4 DEF CloneSender, channel, slots, history, Actors
  <2>2. sender_count \in Nat /\ sender_count > 0
    BY <2>1, HandleLive DEF Labels
  <2>3. sender_count # 0
    BY <2>2, SMTT(60)
  <2>4. Stopped => Stopped'
    BY <2>1, <2>3 DEF Stopped, accepts_data
  <2>5. StoppedForGood'
    BY <1>0, <2>1, <2>4, StopsByMove
  <2>6. pc'[t] = "idle" /\ \A b \in Senders : b # t => pc'[b] = pc[b]
    BY <1>0, <2>1, Moved DEF Actors
  <2>7. \A b \in Senders : sent'[b] = sent[b] /\ (InHand(b)' <=> InHand(b))
    BY <2>1, <2>6 DEF InHand
  <2> QED
    BY <2>1, <2>4, <2>5, <2>7, QuietStep
<1> QED
  BY <1>1, <1>2, <1>3, <1>4

\* A failure stops the channel, or finds it stopped.
LEMMA FailSteps ==
  ASSUME IInv, Unbroken, NEW a \in Actors, (\E e \in Errors : Fail(a, e)) \/ FinishClose(a)
  PROVE  Unbroken'
<1>0. StoppedForGood
  BY DEF Unbroken
<1>1. ASSUME NEW e \in Errors, Fail(a, e)
      PROVE  Unbroken'
  <2>1. UNCHANGED <<accepted, delivered, slots_closed, sender_count, terminal_delivered, rpc,
                    receiver_closed>>
    BY <1>1 DEF Fail, slots, history
  <2>2. CASE sender_count > 0 /\ accepts_data
    <3>1. /\ Goto(a, "closing") /\ terminal_error' = e
      BY <1>1, <2>2 DEF Fail
    <3>2. Stopped'
      BY <3>1, ChannelConstants DEF Stopped, accepts_data
    <3>3. StoppedForGood'
      BY <1>0, <2>1, <3>1, <3>2, StopsByMove
    <3> QED
      BY <2>1, <3>2, <3>3, StoppedStep
  <2>3. CASE ~(sender_count > 0 /\ accepts_data)
    <3>1. Goto(a, "idle") /\ UNCHANGED <<terminal_error, accepting>>
      BY <1>1, <2>3 DEF Fail
    <3>2. sender_count \in Nat
      BY DEF IInv, TypeOK
    <3>3. sender_count > 0 \/ sender_count = 0
      BY <3>2, SMTT(60)
    <3>4. Stopped'
      BY <2>1, <2>3, <3>1, <3>3 DEF Stopped, accepts_data
    <3>5. StoppedForGood'
      BY <1>0, <2>1, <3>1, <3>4, StopsByMove
    <3> QED
      BY <2>1, <3>4, <3>5, StoppedStep
  <2> QED
    BY <2>2, <2>3
<1>2. CASE FinishClose(a)
  <2>1. /\ Goto(a, "idle") /\ UNCHANGED <<accepted, delivered, accepting, receiver_closed, rpc>>
        /\ Stopped'
    BY <1>0, <1>2
    DEF FinishClose, StoppedForGood, Stopped, accepts_data, channel, history
  <2>2. StoppedForGood'
    BY <1>0, <2>1, StopsByMove
  <2> QED
    BY <2>1, <2>2, StoppedStep
<1> QED
  BY <1>1, <1>2

\* The update that is read next is the next one that was accepted.
LEMMA RecvUpdateStep == IInv /\ Unbroken /\ RecvUpdate => Unbroken'
<1> SUFFICES ASSUME IInv, Unbroken, RecvUpdate
             PROVE  Unbroken'
  OBVIOUS
<1>0. /\ queue # <<>> /\ delivered' = Append(delivered, Head(queue)) /\ rpc = "idle" /\ rpc' = "popped"
      /\ UNCHANGED <<accepted, pc, sent, accepting, slots_closed, receiver_closed,
                     terminal_error, terminal_delivered, sender_count>>
  BY DEF RecvUpdate, slots
<1>1. /\ queue \in Seq(Updates) /\ delivered \in Seq(Updates) /\ accepted = delivered \o queue
      /\ accepted \in Seq(Updates)
  BY <1>0 DEF IInv, TypeOK, CommittedDataSurvives, Gone
<1>2. /\ Head(queue) \in Updates /\ Len(delivered) + 1 <= Len(accepted)
      /\ accepted[Len(delivered) + 1] = Head(queue)
  BY <1>0, <1>1, SMTT(60)
<1>3. /\ Len(delivered) \in Nat /\ Len(delivered') = Len(delivered) + 1
      /\ DOMAIN delivered = 1 .. Len(delivered) /\ DOMAIN delivered' = 1 .. (Len(delivered) + 1)
      /\ \A i \in 1 .. Len(delivered) : delivered'[i] = delivered[i]
      /\ delivered'[Len(delivered) + 1] = Head(queue)
  BY <1>0, <1>1, <1>2, Appended, SMTT(60)
<1>4. Len(delivered') <= Len(accepted') /\ \A i \in DOMAIN delivered' : delivered'[i] = accepted'[i]
  <2>1. 1 .. (Len(delivered) + 1) = (1 .. Len(delivered)) \cup {Len(delivered) + 1}
    BY <1>3, SMTT(60)
  <2>2. \A i \in DOMAIN delivered : delivered[i] = accepted[i]
    BY DEF Unbroken
  <2> QED
    BY <1>0, <1>2, <1>3, <2>1, <2>2
<1>5. StoppedForGood' /\ NothingSkipped' /\ Gapless(accepted)'
  <2>1. (Stopped' <=> Stopped) /\ StoppedForGood /\ NothingSkipped /\ Gapless(accepted)
    BY <1>0 DEF Unbroken, Stopped, accepts_data
  <2>2. StoppedForGood'
    BY <1>0, <2>1, StopsStill
  <2>3. NothingSkipped'
    BY <1>0, <2>1 DEF NothingSkipped, Published, InHand
  <2>4. Gapless(accepted)'
    BY <1>0, <2>1 DEF Gapless
  <2> QED
    BY <2>2, <2>3, <2>4
<1> QED
  BY <1>4, <1>5 DEF Unbroken

\* The other steps of the receiver.
LEMMA ReceiverKeeps ==
  ASSUME IInv, Unbroken, ReceiverStep
  PROVE  Unbroken'
<1>0. StoppedForGood
  BY DEF Unbroken
<1>1. CASE RecvUpdate
  BY <1>1, RecvUpdateStep
<1>2. CASE ReturnSlot \/ RecvEof \/ RecvPark \/ RecvWake \/ RecvCancel
  <2>1. /\ UNCHANGED <<accepted, delivered, pc, sent, accepting, slots_closed, receiver_closed,
                       terminal_error, terminal_delivered, sender_count>>
        /\ rpc' \in {"closing", "dropping"} => rpc' = rpc
    BY <1>2 DEF ReturnSlot, RecvEof, RecvPark, RecvWake, RecvCancel, channel, slots, history
  <2> QED
    BY <2>1, StillStep
<1>3. CASE RecvError
  <2>1. /\ UNCHANGED <<accepted, delivered, pc, accepting, slots_closed, receiver_closed, rpc>>
        /\ Stopped'
    BY <1>3 DEF RecvError, Stopped, accepts_data, slots
  <2>2. StoppedForGood'
    BY <1>0, <2>1, StopsStill
  <2> QED
    BY <2>1, <2>2, StoppedStep
<1>4. CASE RecvClose \/ RecvDrop
  <2>1. UNCHANGED <<accepted, delivered, pc, slots_closed>> /\ receiver_closed' /\ Stopped'
    BY <1>4 DEF RecvClose, RecvDrop, Stopped, accepts_data, slots, history
  <2>2. StoppedForGood'
    BY <1>0, <2>1 DEF StoppedForGood
  <2> QED
    BY <2>1, <2>2, StoppedStep
<1>5. CASE RecvFinishClose
  <2>1. /\ UNCHANGED <<accepted, delivered, pc, accepting, receiver_closed>> /\ Stopped'
        /\ rpc' \in {"idle", "dropped"}
    BY <1>0, <1>5 DEF RecvFinishClose, StoppedForGood, Stopped, accepts_data, channel, history
  <2>2. StoppedForGood'
    BY <1>0, <2>1 DEF StoppedForGood
  <2> QED
    BY <2>1, <2>2, StoppedStep
<1> QED
  BY <1>1, <1>2, <1>3, <1>4, <1>5 DEF ReceiverStep

LEMMA UnbrokenStart == Init => Unbroken
<1> SUFFICES ASSUME Init
             PROVE  Unbroken
  OBVIOUS
<1>1. /\ accepted = <<>> /\ delivered = <<>> /\ accepting /\ ~slots_closed /\ rpc = "idle"
      /\ \A a \in Actors : pc[a] \in {"idle", "absent"}
      /\ \A s \in Senders : sent[s] = 0
  BY DEF Init
<1>2. DOMAIN accepted = {} /\ DOMAIN delivered = {} /\ Len(delivered) <= Len(accepted)
  BY <1>1, SMTT(60)
<1>3. StoppedForGood
  BY <1>1 DEF StoppedForGood
<1>4. NothingSkipped
  <2>1. \A n \in 1 .. MaxUpdates : ~(n < 0) /\ n # 0
    BY ChannelConstants, SMTT(60)
  <2> QED
    BY <1>1, <1>2, <2>1 DEF NothingSkipped, Published
<1> QED
  BY <1>2, <1>3, <1>4 DEF Unbroken, Gapless

\* Every step keeps the runs of the producers unbroken.
LEMMA UnbrokenNext == IInv /\ Unbroken /\ [Next]_vars => Unbroken'
<1> SUFFICES ASSUME IInv, Unbroken, [Next]_vars
             PROVE  Unbroken'
  OBVIOUS
<1>1. ASSUME NEW s \in Senders, SenderStep(s)
      PROVE  Unbroken'
  BY <1>1, SendSteps, CommitStep, StopSteps DEF SenderStep
<1>2. CASE InstallHook \/ CheckHook \/ UNCHANGED vars
  <2>1. UNCHANGED <<accepted, delivered, pc, sent, accepting, slots_closed, receiver_closed,
                    terminal_error, terminal_delivered, sender_count, rpc>>
    BY <1>2 DEF InstallHook, CheckHook, vars, channel, slots, history
  <2> QED
    BY <2>1, StillStep
<1> QED
  BY <1>1, <1>2, FailSteps, ReceiverKeeps DEF Next

\* What the consumer reads from one producer is an unbroken run of its updates:
\* try_send's Full and the forwarder's timeout fail the stream before that
\* producer can publish past what they lost.
THEOREM NoGapEver == Spec => []NoSilentGap
<1>1. IInv /\ Unbroken => NoSilentGap
  BY GaplessPrefix DEF IInv, TypeOK, Unbroken, NoSilentGap
<1> QED
  BY <1>1, UnbrokenStart, UnbrokenNext, Invariance, PTL DEF Spec
=============================================================================
