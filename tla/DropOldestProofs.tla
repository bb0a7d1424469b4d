-------------------------- MODULE DropOldestProofs --------------------------
(* The overwrite queue reports its gaps exactly, wakes its receiver, and    *)
(* implements the lossy delivery stream, for every value of the constants.  *)
EXTENDS DropOldestChannel, FiniteSetTheorems, TLAPS

\* Steps are for Zenon, unless they name the SMT solver.
USE ZenonT(60)

\* Moving one actor changes the number of live handles as its label says.
LEMMA HandlesMove ==
  ASSUME TypeOK, NEW a \in Actors, NEW l \in Labels, Goto(a, l)
  PROVE  /\ Cardinality(Handles) \in Nat
         /\ (Cardinality(Handles) = 0 <=> Handles = {})
         /\ (a \notin Senders \/ (pc[a] \in Live <=> l \in Live)) => Handles' = Handles
         /\ (a \in Senders /\ pc[a] \notin Live /\ l \in Live)
              => Cardinality(Handles') = Cardinality(Handles) + 1
         /\ (a \in Senders /\ pc[a] \in Live /\ l \notin Live)
              => Cardinality(Handles') = Cardinality(Handles) - 1
<1>1. IsFiniteSet(Handles)
  BY DropOldestConstants, FS_Subset DEF Handles
<1>2. Cardinality(Handles) \in Nat /\ (Cardinality(Handles) = 0 <=> Handles = {})
  BY <1>1, FS_CardinalityType, FS_EmptySet
<1>3. pc'[a] = l /\ \A b \in Actors : b # a => pc'[b] = pc[b]
  BY DEF TypeOK, Goto
<1>4. ASSUME a \notin Senders \/ (pc[a] \in Live <=> l \in Live)
      PROVE  Handles' = Handles
  BY <1>3, <1>4 DEF Handles, Actors
<1>5. ASSUME a \in Senders, pc[a] \notin Live, l \in Live
      PROVE  Cardinality(Handles') = Cardinality(Handles) + 1
  <2>1. Handles' = Handles \cup {a} /\ a \notin Handles
    BY <1>3, <1>5, SMTT(60) DEF Handles, Actors
  <2> QED
    BY <1>1, <2>1, FS_AddElement
<1>6. ASSUME a \in Senders, pc[a] \in Live, l \notin Live
      PROVE  Cardinality(Handles') = Cardinality(Handles) - 1
  <2>1. Handles' = Handles \ {a} /\ a \in Handles
    BY <1>3, <1>6, SMTT(60) DEF Handles, Actors
  <2> QED
    BY <1>1, <2>1, FS_RemoveElement
<1> QED
  BY <1>2, <1>4, <1>5, <1>6

\* Labels stay labels when an actor moves.
LEMMA PcMove ==
  ASSUME TypeOK, NEW a \in Actors, NEW l \in Labels, Goto(a, l),
         a = Terminator => l \in Live
  PROVE  pc' \in [Actors -> Labels] /\ pc'[Terminator] \in Live
  BY DEF TypeOK, Goto, Actors

\* A live handle is counted.
LEMMA HandleLive ==
  ASSUME IInv, NEW s \in Senders, pc[s] \in Live
  PROVE  sender_count \in Nat /\ sender_count > 0
<1>1. Handles # {} /\ IsFiniteSet(Handles)
  BY DropOldestConstants, FS_Subset DEF Handles
<1>2. Cardinality(Handles) # 0
  BY <1>1, FS_EmptySet
<1> QED
  BY <1>2, SMTT(60) DEF IInv, TypeOK

-----------------------------------------------------------------------------
\* The invariant holds at the start: one handle, counted once.
LEMMA InitIInv == Init => IInv
<1> SUFFICES ASSUME Init PROVE IInv
  OBVIOUS
<1>1. Handles = {First}
  BY DropOldestConstants DEF Init, Handles, Live, Actors
<1>2. sender_count = Cardinality(Handles)
  BY <1>1, FS_Singleton DEF Init
<1>3. pc \in [Actors -> Labels] /\ pc[Terminator] \in Live /\ sent \in [Senders -> 0 .. MaxUpdates]
  BY DropOldestConstants, SMTT(60) DEF Init, Actors, Labels, Live
<1>a. <<>> \in Seq(Updates) /\ <<>> \in Seq(Errors) /\ Len(<<>>) = 0 /\ 0 <= Capacity
  BY DropOldestConstants, SMTT(60)
<1>4. TypeOK
  BY <1>3, <1>a DEF Init, TypeOK
<1> QED
  BY <1>2, <1>4, SMTT(60) DEF Init, IInv, ExactGaps, WaitingIsWoken, Ended, Disconnected

\* Pushing an update, with or without an eviction.
LEMMA SendIInv ==
  ASSUME IInv, NEW s \in Senders, try_send_lossy(s)
  PROVE  IInv'
<1> DEFINE u == <<s, sent[s] + 1>>
<1>a. sent' \in [Senders -> 0 .. MaxUpdates] /\ u \in Updates
  <2>1. sent[s] \in 0 .. MaxUpdates /\ sent[s] < MaxUpdates /\ MaxUpdates \in Nat
        /\ sent \in [Senders -> 0 .. MaxUpdates]
        /\ sent' = [sent EXCEPT ![s] = sent[s] + 1]
    BY DropOldestConstants DEF IInv, TypeOK, try_send_lossy
  <2>2. sent[s] + 1 \in 1 .. MaxUpdates /\ sent[s] + 1 \in 0 .. MaxUpdates
    BY <2>1, SMTT(60)
  <2> QED
    BY <2>1, <2>2 DEF Updates
<1>0. /\ TypeOK /\ s \in Actors /\ s # Terminator
      /\ sent' \in [Senders -> 0 .. MaxUpdates] /\ u \in Updates
      /\ queue \in Seq(Updates) /\ accepted \in Seq(Updates)
      /\ Len(queue) \in Nat /\ Len(queue) <= Capacity /\ Capacity \in Nat \ {0}
      /\ pending_gap \in Nat /\ position \in Nat /\ Len(accepted) \in Nat
  BY DropOldestConstants, <1>a, SMTT(60) DEF IInv, TypeOK, Actors
<1>1. CASE ~(accepts_data /\ accepting)
  <2>1. UNCHANGED <<channel, sender_count, ready, pc, rpc, accepted, output, errors, eof>>
    BY <1>1 DEF try_send_lossy, channel
  <2>2. UNCHANGED Handles /\ UNCHANGED Disconnected
    BY <2>1 DEF Handles, Disconnected, channel
  <2>3. TypeOK'
    BY <1>0, <2>1 DEF TypeOK, channel, output
  <2>4. ExactGaps' /\ WaitingIsWoken' /\ Ended'
    BY <2>1, <2>2 DEF IInv, ExactGaps, WaitingIsWoken, Ended, channel, output
  <2> QED
    BY <2>1, <2>2, <2>3, <2>4 DEF IInv
<1>2. CASE accepts_data /\ accepting
  <2>0. /\ pc[s] = "idle" /\ Goto(s, "notify") /\ "notify" \in Labels
        /\ "notify" \in Live /\ "idle" \in Live
        /\ accepted' = Append(accepted, u)
        /\ queue' = Append(IF Len(queue) = Capacity THEN Tail(queue) ELSE queue, u)
        /\ pending_gap' = IF Len(queue) = Capacity THEN pending_gap + 1 ELSE pending_gap
        /\ UNCHANGED <<accepting, terminal_error, terminal_delivered, receiver_closed,
                       sender_count, ready, rpc, output, errors, eof>>
    BY <1>2 DEF try_send_lossy, Labels, Live
  <2>1. Handles' = Handles /\ pc' \in [Actors -> Labels] /\ pc'[Terminator] \in Live
        /\ pc'[s] = "notify"
    BY <1>0, <2>0, HandlesMove, PcMove DEF TypeOK, Goto
  <2>2. /\ queue' \in Seq(Updates) /\ accepted' \in Seq(Updates)
        /\ Len(accepted') = Len(accepted) + 1
        /\ Len(queue') <= Capacity /\ queue' # <<>>
        /\ Len(queue') = IF Len(queue) = Capacity THEN Len(queue) ELSE Len(queue) + 1
    <3>1. CASE Len(queue) = Capacity
      <4>1. Tail(queue) \in Seq(Updates) /\ Len(Tail(queue)) = Len(queue) - 1
        BY <1>0, <3>1, SMTT(60)
      <4> QED
        BY <1>0, <2>0, <3>1, <4>1, SMTT(60)
    <3>2. CASE Len(queue) # Capacity
      BY <1>0, <2>0, <3>2, SMTT(60)
    <3> QED
      BY <3>1, <3>2
  <2>3. TypeOK'
    BY <1>0, <2>0, <2>1, <2>2, SMTT(60) DEF TypeOK, output
  <2>4. ASSUME rpc # "dropped"
        PROVE  \A i \in 1 .. Len(queue') :
                 queue'[i] = accepted'[position + pending_gap' + i]
    <3>1. /\ Len(accepted) = position + pending_gap + Len(queue)
          /\ \A i \in 1 .. Len(queue) : queue[i] = accepted[position + pending_gap + i]
      BY <2>4 DEF IInv, ExactGaps
    <3>2. CASE Len(queue) = Capacity
      <4>1. /\ Tail(queue) \in Seq(Updates) /\ Len(Tail(queue)) = Len(queue) - 1
            /\ \A i \in 1 .. Len(queue) - 1 : Tail(queue)[i] = queue[i + 1]
            /\ queue' = Append(Tail(queue), u) /\ Len(queue') = Len(queue)
        BY <1>0, <2>0, <3>2, SMTT(60)
      <4>a. pending_gap' = pending_gap + 1 /\ position + pending_gap' = position + pending_gap + 1
        BY <1>0, <2>0, <3>2, SMTT(60)
      <4> SUFFICES ASSUME NEW i \in 1 .. Len(queue)
                   PROVE  queue'[i] = accepted'[position + pending_gap + 1 + i]
        BY <4>1, <4>a
      <4>2. CASE i = Len(queue)
        <5>1. queue'[i] = u
          BY <1>0, <4>1, <4>2, SMTT(60)
        <5>2. accepted'[Len(accepted) + 1] = u
          BY <1>0, <2>0, SMTT(60)
        <5> QED
          BY <5>1, <5>2, <4>2, <3>1, <1>0, SMTT(60)
      <4>3. CASE i < Len(queue)
        <5>0. i \in 1 .. Len(queue) - 1 /\ i + 1 \in 1 .. Len(queue)
          BY <1>0, <4>3, SMTT(60)
        <5>1. queue'[i] = queue[i + 1]
          BY <1>0, <4>1, <5>0, SMTT(60)
        <5>2. queue[i + 1] = accepted[position + pending_gap + (i + 1)]
          BY <5>0, <3>1
        <5>3. position + pending_gap + 1 + i \in 1 .. Len(accepted)
          BY <1>0, <3>1, <4>3, SMTT(60)
        <5>4. accepted'[position + pending_gap + 1 + i] = accepted[position + pending_gap + 1 + i]
          BY <1>0, <2>0, <5>3, SMTT(60)
        <5>5. position + pending_gap + (i + 1) = position + pending_gap + 1 + i
          BY <1>0, SMTT(60)
        <5> QED
          BY <5>1, <5>2, <5>4, <5>5
      <4> QED
        BY <4>2, <4>3, <1>0, SMTT(60)
    <3>3. CASE Len(queue) # Capacity
      <4>1. queue' = Append(queue, u) /\ Len(queue') = Len(queue) + 1 /\ pending_gap' = pending_gap
        BY <1>0, <2>0, <3>3, SMTT(60)
      <4> SUFFICES ASSUME NEW i \in 1 .. Len(queue) + 1
                   PROVE  queue'[i] = accepted'[position + pending_gap + i]
        BY <4>1
      <4>2. CASE i = Len(queue) + 1
        <5>1. queue'[i] = u /\ accepted'[Len(accepted) + 1] = u
          BY <1>0, <2>0, <4>1, <4>2, SMTT(60)
        <5> QED
          BY <5>1, <4>2, <3>1, <1>0, SMTT(60)
      <4>3. CASE i <= Len(queue)
        <5>1. queue'[i] = queue[i]
          BY <1>0, <4>1, <4>3, SMTT(60)
        <5>2. position + pending_gap + i \in 1 .. Len(accepted)
          BY <1>0, <3>1, <4>3, SMTT(60)
        <5>3. accepted'[position + pending_gap + i] = accepted[position + pending_gap + i]
          BY <1>0, <2>0, <5>2, SMTT(60)
        <5> QED
          BY <5>1, <5>3, <3>1, <4>3, <1>0, SMTT(60)
      <4> QED
        BY <4>2, <4>3, <1>0, SMTT(60)
    <3> QED
      BY <3>2, <3>3
  <2>5. ExactGaps'
    <3>1. position' = position /\ rpc' = rpc
      BY <2>0 DEF output
    <3>2. rpc # "dropped" => Len(accepted') = position + pending_gap' + Len(queue')
      <4>1. rpc # "dropped" => Len(accepted) = position + pending_gap + Len(queue)
        BY DEF IInv, ExactGaps
      <4>2. \/ pending_gap' = pending_gap + 1 /\ Len(queue') = Len(queue)
            \/ pending_gap' = pending_gap /\ Len(queue') = Len(queue) + 1
        BY <2>0, <2>2
      <4>3. /\ Len(accepted') = Len(accepted) + 1 /\ Len(accepted) \in Nat
            /\ Len(queue) \in Nat /\ position \in Nat /\ pending_gap \in Nat
        BY <1>0, <2>2
      <4> QED
        BY <4>1, <4>2, <4>3, SMTT(60)
    <3> QED
      BY <2>2, <2>4, <3>1, <3>2 DEF ExactGaps
  <2>6. WaitingIsWoken'
    BY <1>0, <2>1 DEF WaitingIsWoken
  <2>7. Ended'
    <3>1. errors = <<>>
      BY <1>2 DEF IInv, Ended, accepts_data
    <3>2. ~eof
      BY <1>2, <2>0 DEF IInv, Ended, accepts_data, Handles
    <3> QED
      BY <2>0, <3>1, <3>2 DEF Ended
  <2> QED
    BY <2>0, <2>1, <2>3, <2>5, <2>6, <2>7 DEF IInv
<1> QED
  BY <1>1, <1>2
\* A step that leaves the data alone leaves the gap accounting alone.
LEMMA GapsKept ==
  ASSUME ExactGaps, UNCHANGED <<queue, pending_gap, accepted, position>>,
         rpc = "dropped" => rpc' = "dropped"
  PROVE  ExactGaps'
  BY DEF ExactGaps

\* The steps that wake the receiver after the unlock.
LEMMA NotifyIInv ==
  ASSUME IInv, NEW a \in Actors, Notify(a)
  PROVE  IInv'
<1>0. TypeOK /\ ExactGaps /\ Ended /\ sender_count = Cardinality(Handles)
  BY DEF IInv
<1>1. PICK l \in {"idle", "absent"} :
        /\ Goto(a, l) /\ l \in Labels /\ (pc[a] \in Live <=> l \in Live)
        /\ (a = Terminator => l \in Live)
  BY <1>0 DEF Notify, Live, Labels, TypeOK
<1>2. Handles' = Handles /\ pc' \in [Actors -> Labels] /\ pc'[Terminator] \in Live
  BY <1>0, <1>1, HandlesMove, PcMove
<1>3. TypeOK'
  BY <1>0, <1>2 DEF Notify, TypeOK, output
<1>4. ExactGaps'
  BY <1>0, GapsKept DEF Notify, output
<1>5. WaitingIsWoken' /\ Ended'
  BY <1>0, <1>2 DEF Notify, WaitingIsWoken, Ended
<1> QED
  BY <1>0, <1>2, <1>3, <1>4, <1>5 DEF IInv, Notify

\* A terminal error, or a close by a sender, is followed by a notification.
LEMMA StopIInv ==
  ASSUME IInv, NEW a \in Actors, pc[a] = "idle", Goto(a, "notify"),
         UNCHANGED <<queue, pending_gap, terminal_delivered, sender_count, ready,
                     sent, rpc, accepted, output, errors, eof>>,
         accepting' \in BOOLEAN, receiver_closed' \in BOOLEAN,
         terminal_error' \in Errors \cup {NoError},
         terminal_error' = terminal_error \/ accepts_data,
         receiver_closed => receiver_closed',
         terminal_error' = terminal_error \/ sender_count > 0
  PROVE  IInv'
<1>0. TypeOK /\ ExactGaps /\ Ended /\ sender_count = Cardinality(Handles)
      /\ "notify" \in Labels /\ "notify" \in Live /\ "idle" \in Live
  BY DEF IInv, Labels, Live
<1>1. Handles' = Handles /\ pc' \in [Actors -> Labels] /\ pc'[Terminator] \in Live
      /\ pc'[a] = "notify" /\ (Handles = {} => sender_count = 0)
  BY <1>0, HandlesMove, PcMove DEF TypeOK, Goto
<1>2. TypeOK'
  BY <1>0, <1>1 DEF TypeOK, output
<1>3. ExactGaps' /\ WaitingIsWoken'
  BY <1>0, <1>1, GapsKept DEF WaitingIsWoken, output
<1>4. Ended'
  <2>1. CASE terminal_error' = terminal_error
    BY <1>0, <1>1, <2>1 DEF Ended
  <2>2. CASE accepts_data /\ sender_count > 0
    <3>1. errors = <<>> /\ ~eof
      BY <1>0, <1>1, <2>2, SMTT(60) DEF Ended, accepts_data, TypeOK
    <3> QED
      BY <3>1 DEF Ended
  <2> QED
    BY <2>1, <2>2
<1> QED
  BY <1>0, <1>1, <1>2, <1>3, <1>4 DEF IInv

\* send_terminal stores an error only in a channel that still accepts data.
LEMMA TerminalIInv ==
  ASSUME IInv, NEW a \in Actors, NEW e \in Errors, send_terminal(a, e)
  PROVE  IInv'
<1>1. CASE sender_count > 0 /\ accepts_data
  BY <1>1, StopIInv DEF send_terminal, IInv, TypeOK
<1>2. CASE ~(sender_count > 0 /\ accepts_data)
  <2>1. UNCHANGED vars
    BY <1>2 DEF send_terminal, vars, channel
  <2> QED
    BY <2>1, SMTT(60)
    DEF vars, channel, output, IInv, TypeOK, ExactGaps, WaitingIsWoken, Disconnected, Ended,
        Handles
<1> QED
  BY <1>1, <1>2

\* close from either side.
LEMMA CloseIInv ==
  ASSUME IInv, Close
  PROVE  IInv'
<1>1. ASSUME NEW s \in Senders, pc[s] = "idle", Goto(s, "notify"), UNCHANGED ready
      PROVE  IInv'
  BY <1>1, StopIInv DEF Close, IInv, TypeOK, Actors
<1>2. ASSUME rpc = "idle", ready' = TRUE, UNCHANGED pc
      PROVE  IInv'
  <2>1. TypeOK' /\ Handles' = Handles
    BY <1>2 DEF Close, IInv, TypeOK, output, Handles
  <2>2. ExactGaps'
    BY <1>2, GapsKept DEF Close, IInv, output
  <2>3. WaitingIsWoken' /\ Ended'
    BY <1>2, <2>1 DEF Close, IInv, WaitingIsWoken, Ended
  <2> QED
    BY <2>1, <2>2, <2>3 DEF Close, IInv
<1> QED
  BY <1>1, <1>2 DEF Close

\* Handles come and go one at a time, each counted.
LEMMA HandleIInv ==
  ASSUME IInv, NEW s \in Senders, DropSender(s) \/ \E t \in Senders : CloneSender(s, t)
  PROVE  IInv'
<1>0. /\ TypeOK /\ ExactGaps /\ WaitingIsWoken /\ Ended
      /\ sender_count = Cardinality(Handles) /\ sender_count \in Nat
      /\ \A t \in Senders : t \in Actors /\ t # Terminator
      /\ sender_count > 0 /\ s \in Handles
  BY HandleLive, DropOldestConstants
     DEF IInv, TypeOK, Actors, DropSender, CloneSender, Live, Handles
<1>1. CASE DropSender(s)
  <2>1. PICK l \in {"last", "absent"} : /\ Goto(s, l) /\ l \in Labels /\ l \notin Live
                                         /\ l = (IF sender_count = 1 THEN "last" ELSE "absent")
    BY <1>1 DEF DropSender, Labels, Live
  <2>2. /\ sender_count' = Cardinality(Handles') /\ sender_count' \in Nat
        /\ pc' \in [Actors -> Labels] /\ pc'[Terminator] \in Live
        /\ pc'[s] = l /\ \A b \in Actors : b # s => pc'[b] = pc[b]
    <3>1. pc[s] \in Live /\ s \in Senders /\ s \in Actors /\ sender_count' = sender_count - 1
      BY <1>0, <1>1 DEF DropSender, Handles
    <3>2. Cardinality(Handles') = Cardinality(Handles) - 1
      BY <1>0, <2>1, <3>1, HandlesMove
    <3>3. pc' \in [Actors -> Labels] /\ pc'[Terminator] \in Live
      BY <1>0, <2>1, <3>1, PcMove
    <3>4. pc'[s] = l /\ \A b \in Actors : b # s => pc'[b] = pc[b]
      BY <1>0, <2>1, <3>1 DEF TypeOK, Goto
    <3> QED
      BY <1>0, <3>1, <3>2, <3>3, <3>4, SMTT(60)
  <2>3. Handles' \subseteq Handles
    BY <2>1, <2>2 DEF Handles, Actors
  <2>4. TypeOK' /\ ExactGaps'
    BY <1>0, <1>1, <2>2, GapsKept DEF DropSender, TypeOK, channel, output
  <2>5. Ended'
    BY <1>0, <1>1, <2>3 DEF DropSender, Ended, channel
  <2>6. WaitingIsWoken'
    <3>1. CASE sender_count = 1
      BY <1>0, <2>1, <2>2, <3>1 DEF WaitingIsWoken
    <3>2. CASE sender_count # 1
      <4>1. Disconnected' = Disconnected
        BY <1>0, <1>1, <3>2, SMTT(60) DEF DropSender, Disconnected, channel
      <4>2. \A b \in Actors : pc[b] \in {"notify", "last"} => pc'[b] \in {"notify", "last"}
        BY <1>1, <2>2 DEF DropSender
      <4> QED
        BY <1>0, <1>1, <4>1, <4>2 DEF DropSender, WaitingIsWoken, channel
    <3> QED
      BY <3>1, <3>2
  <2> QED
    BY <2>2, <2>4, <2>5, <2>6 DEF IInv
<1>2. ASSUME NEW t \in Senders, CloneSender(s, t) PROVE IInv'
  <2>1. /\ pc[t] = "absent" /\ Goto(t, "idle") /\ "idle" \in Labels /\ "idle" \in Live
        /\ pc[t] \notin Live /\ sender_count' = sender_count + 1
        /\ UNCHANGED <<channel, ready, sent, rpc, accepted, output, errors, eof>>
    BY <1>2 DEF CloneSender, Labels, Live
  <2>2. /\ sender_count' = Cardinality(Handles') /\ sender_count' \in Nat
        /\ pc' \in [Actors -> Labels] /\ pc'[Terminator] \in Live
        /\ \A b \in Actors : b # t => pc'[b] = pc[b]
    <3>1. Cardinality(Handles') = Cardinality(Handles) + 1
      BY <1>0, <2>1, HandlesMove
    <3>2. pc' \in [Actors -> Labels] /\ pc'[Terminator] \in Live
      BY <1>0, <2>1, PcMove
    <3>3. \A b \in Actors : b # t => pc'[b] = pc[b]
      BY <1>0, <2>1 DEF TypeOK, Goto
    <3> QED
      BY <1>0, <2>1, <3>1, <3>2, <3>3, SMTT(60)
  <2>3. TypeOK' /\ ExactGaps'
    BY <1>0, <2>1, <2>2, GapsKept DEF TypeOK, channel, output
  <2>4. Ended'
    BY <1>0, <2>1 DEF Ended, channel
  <2>5. WaitingIsWoken'
    <3>1. Disconnected' = Disconnected
      BY <1>0, <2>1, SMTT(60) DEF Disconnected, channel
    <3>2. \A b \in Actors : pc[b] \in {"notify", "last"} => pc'[b] \in {"notify", "last"}
      BY <2>1, <2>2
    <3> QED
      BY <1>0, <2>1, <3>1, <3>2 DEF WaitingIsWoken, channel
  <2> QED
    BY <2>2, <2>3, <2>4, <2>5 DEF IInv
<1> QED
  BY <1>1, <1>2
\* The receiver takes the oldest update together with the whole pending gap.
LEMMA ReadIInv ==
  ASSUME IInv, RecvUpdate
  PROVE  IInv'
<1>0. /\ queue \in Seq(Updates) /\ delivered \in Seq(Updates) /\ queue # <<>>
      /\ Len(queue) \in Nat /\ pending_gap \in Nat /\ position \in Nat
      /\ queue' = Tail(queue) /\ rpc = "idle" /\ rpc' = "idle"
      /\ position' = position + pending_gap + 1 /\ pending_gap' = 0
      /\ UNCHANGED accepted
  BY SMTT(60) DEF IInv, TypeOK, RecvUpdate
<1>1. /\ queue' \in Seq(Updates) /\ Len(queue') = Len(queue) - 1
      /\ Head(queue) \in Updates /\ Append(delivered, Head(queue)) \in Seq(Updates)
      /\ \A i \in 1 .. Len(queue) - 1 : queue'[i] = queue[i + 1]
  BY <1>0, SMTT(60)
<1>2. TypeOK'
  <2>1. Len(queue') <= Capacity /\ position' \in Nat /\ pending_gap' \in Nat /\ gap' \in Nat
    BY <1>0, <1>1, DropOldestConstants, SMTT(60) DEF IInv, TypeOK, RecvUpdate
  <2> QED
    BY <1>0, <1>1, <2>1 DEF IInv, TypeOK, RecvUpdate
<1>3. ExactGaps'
  <2>1. /\ Len(accepted) = position + pending_gap + Len(queue)
        /\ \A i \in 1 .. Len(queue) : queue[i] = accepted[position + pending_gap + i]
    BY <1>0 DEF IInv, ExactGaps
  <2>2. Len(accepted') = position' + pending_gap' + Len(queue')
    BY <1>0, <1>1, <2>1, SMTT(60)
  <2>3. ASSUME NEW i \in 1 .. Len(queue')
        PROVE  queue'[i] = accepted'[position' + pending_gap' + i]
    <3>1. i \in 1 .. Len(queue) - 1 /\ i + 1 \in 1 .. Len(queue)
      BY <1>0, <1>1, SMTT(60)
    <3>2. queue'[i] = accepted[position + pending_gap + (i + 1)]
      BY <1>1, <2>1, <3>1
    <3>3. position + pending_gap + (i + 1) = position' + pending_gap' + i
      BY <1>0, <3>1, SMTT(60)
    <3> QED
      BY <1>0, <3>2, <3>3
  <2> QED
    BY <1>0, <2>2, <2>3 DEF ExactGaps
<1>4. WaitingIsWoken' /\ Ended' /\ Handles' = Handles
  BY <1>0 DEF IInv, WaitingIsWoken, Ended, RecvUpdate, Handles
<1> QED
  BY <1>2, <1>3, <1>4 DEF IInv, RecvUpdate

\* The other steps of the receiver.
LEMMA ReceiverIInv ==
  ASSUME IInv, ReceiverStep
  PROVE  IInv'
<1>0. TypeOK /\ ExactGaps /\ WaitingIsWoken /\ Ended /\ sender_count = Cardinality(Handles)
      /\ sender_count \in Nat /\ (Handles = {} <=> sender_count = 0)
  <2>1. IsFiniteSet(Handles)
    BY DropOldestConstants, FS_Subset DEF Handles
  <2> QED
    BY <2>1, FS_EmptySet DEF IInv, TypeOK
<1>1. CASE RecvUpdate
  BY <1>1, ReadIInv
<1>2. CASE RecvError
  <2>1. errors = <<>> /\ rpc = "idle" /\ rpc' = "idle"
    BY <1>0, <1>2 DEF RecvError, Ended
  <2>2. errors' \in Seq(Errors) /\ Len(errors') = 1
    BY <1>0, <1>2, <2>1, SMTT(60) DEF RecvError, TypeOK
  <2>3. TypeOK' /\ Handles' = Handles
    BY <1>0, <1>2, <2>2 DEF RecvError, TypeOK, output, Handles
  <2>4. ExactGaps' /\ WaitingIsWoken' /\ Ended'
    BY <1>0, <1>2, <2>1, <2>2, <2>3, GapsKept DEF RecvError, WaitingIsWoken, Ended, output
  <2> QED
    BY <1>0, <1>2, <2>3, <2>4 DEF RecvError, IInv
<1>3. CASE RecvEof
  <2>1. TypeOK' /\ Handles' = Handles /\ ExactGaps'
    BY <1>0, <1>3, GapsKept DEF RecvEof, TypeOK, channel, output, Handles
  <2>2. WaitingIsWoken' /\ Ended'
    BY <1>0, <1>3, <2>1 DEF RecvEof, WaitingIsWoken, Ended, Disconnected, channel
  <2> QED
    BY <1>0, <1>3, <2>1, <2>2 DEF RecvEof, IInv
<1>4. CASE RecvPark \/ RecvWake \/ RecvCancel
  <2>1. TypeOK' /\ Handles' = Handles /\ ExactGaps'
    BY <1>0, <1>4, GapsKept DEF RecvPark, RecvWake, RecvCancel, TypeOK, channel, output, Handles
  <2>2. Ended'
    BY <1>0, <1>4, <2>1, SMTT(60) DEF RecvPark, RecvWake, RecvCancel, Ended, channel
  <2>3. WaitingIsWoken'
    BY <1>4 DEF RecvPark, RecvWake, RecvCancel, WaitingIsWoken, Disconnected, channel
  <2> QED
    BY <1>0, <1>4, <2>1, <2>2, <2>3 DEF RecvPark, RecvWake, RecvCancel, IInv
<1>5. CASE RecvDrop
  <2>0. <<>> \in Seq(Updates) /\ Len(<<>>) <= Capacity
    BY DropOldestConstants, SMTT(60)
  <2>1. TypeOK' /\ Handles' = Handles
    BY <1>0, <1>5, <2>0 DEF RecvDrop, TypeOK, output, Handles
  <2>2. ExactGaps' /\ WaitingIsWoken' /\ Ended'
    BY <1>0, <1>5, <2>1 DEF RecvDrop, ExactGaps, WaitingIsWoken, Ended
  <2> QED
    BY <1>0, <1>5, <2>1, <2>2 DEF RecvDrop, IInv
<1> QED
  BY <1>1, <1>2, <1>3, <1>4, <1>5 DEF ReceiverStep

\* The invariant is inductive.
LEMMA NextIInv == IInv /\ [Next]_vars => IInv'
<1> SUFFICES ASSUME IInv, [Next]_vars PROVE IInv'
  OBVIOUS
<1>1. CASE UNCHANGED vars
  BY <1>1, SMTT(60)
  DEF vars, channel, output, IInv, TypeOK, ExactGaps, WaitingIsWoken, Disconnected, Ended,
      Handles
<1> QED
  BY <1>1, SendIInv, HandleIInv, NotifyIInv, TerminalIInv, CloseIInv, ReceiverIInv
     DEF Next, SenderStep

\* The inductive invariant holds in every reachable state.
THEOREM Invariance == Spec => []IInv
  BY InitIInv, NextIInv, PTL DEF Spec

\* The overwrite queue accounts for every update it evicts, whatever the
\* capacity, the number of producers and the moment of a failure or a close.
THEOREM GapsExact == Spec => []ExactGaps
<1>1. IInv => ExactGaps
  BY DEF IInv
<1> QED
  BY Invariance, <1>1, PTL

\* No receiver waits on something it could read without a notification on the
\* way to it.
THEOREM ReceiverWoken == Spec => []WaitingIsWoken
<1>1. IInv => WaitingIsWoken
  BY DEF IInv
<1> QED
  BY Invariance, <1>1, PTL
-----------------------------------------------------------------------------
(* Refinement. *)

\* What the consumer of the stream can see of the queue.
Seen == <<accepted, output, errors, eof, accepts_data, sender_count > 0,
          terminal_error, rpc = "dropped">>

\* A step that leaves that unchanged is a stutter of the stream.
LEMMA Hidden == UNCHANGED Seen => UNCHANGED Stream!vars
  BY SMTT(60) DEF Seen, Stream!vars, output

\* The first state of the queue is the first state of a stream.
LEMMA InitRefines == Init => Stream!Init
  BY DropOldestConstants, SMTT(60) DEF Init, Stream!Init, accepts_data

\* Every step of a producer publishes, fails or closes the stream, or is hidden.
LEMMA SenderRefines ==
  ASSUME IInv, NEW s \in Senders, SenderStep(s)
  PROVE  [Stream!Next]_(Stream!vars)
<1>0. pc[s] \in Live /\ sender_count \in Nat /\ sender_count > 0
  <2>1. pc[s] \in Live
    BY DEF SenderStep, try_send_lossy, DropSender, CloneSender, Live
  <2> QED
    BY <2>1, HandleLive
<1>1. CASE try_send_lossy(s)
  <2>1. CASE accepts_data /\ accepting
    <3>1. <<s, sent[s] + 1>> \in Updates
      <4>1. sent[s] \in 0 .. MaxUpdates /\ sent[s] < MaxUpdates /\ MaxUpdates \in Nat
        BY <1>1, DropOldestConstants DEF IInv, TypeOK, try_send_lossy
      <4> QED
        BY <4>1, SMTT(60) DEF Updates
    <3>2. Stream!Publish(<<s, sent[s] + 1>>)
      BY <1>0, <1>1, <2>1
         DEF try_send_lossy, Stream!Publish, Stream!consumer, accepts_data, output
    <3> QED
      BY <3>1, <3>2 DEF Stream!Next
  <2>2. CASE ~(accepts_data /\ accepting)
    BY <1>1, <2>2, Hidden DEF try_send_lossy, Seen, accepts_data
  <2> QED
    BY <2>1, <2>2
<1>2. CASE DropSender(s)
  <2>1. CASE accepts_data /\ sender_count = 1
    <3>1. Stream!Close
      BY <1>2, <2>1, SMTT(60)
      DEF DropSender, Stream!Close, Stream!consumer, accepts_data, channel, output
    <3> QED
      BY <3>1 DEF Stream!Next
  <2>2. CASE ~accepts_data
    BY <1>2, <2>2 DEF DropSender, Stream!vars, accepts_data, channel, output
  <2>3. CASE sender_count # 1
    <3>1. UNCHANGED Seen
      BY <1>0, <1>2, <2>3, SMTT(60) DEF DropSender, Seen, accepts_data, channel
    <3> QED
      BY <3>1, Hidden
  <2> QED
    BY <2>1, <2>2, <2>3
<1>3. ASSUME NEW t \in Senders, CloneSender(s, t) PROVE UNCHANGED Seen
  BY <1>0, <1>3, SMTT(60) DEF CloneSender, Seen, accepts_data, channel
<1> QED
  BY <1>1, <1>2, <1>3, Hidden DEF SenderStep

\* A stored failure is the stream's fault, a close its end of publication.
LEMMA StopRefines ==
  ASSUME IInv, Close \/ \E a \in Actors : Notify(a) \/ \E e \in Errors : send_terminal(a, e)
  PROVE  [Stream!Next]_(Stream!vars)
<1>1. CASE Close
  <2>1. CASE accepts_data /\ sender_count > 0
    <3>1. Stream!Close
      BY <1>1, <2>1 DEF Close, Stream!Close, Stream!consumer, accepts_data, output
    <3> QED
      BY <3>1 DEF Stream!Next
  <2>2. CASE ~(accepts_data /\ sender_count > 0)
    BY <1>1, <2>2 DEF Close, Stream!vars, accepts_data, output
  <2> QED
    BY <2>1, <2>2
<1>2. ASSUME NEW a \in Actors, Notify(a) PROVE UNCHANGED Seen
  BY <1>2 DEF Notify, Seen, accepts_data
<1>3. ASSUME NEW a \in Actors, NEW e \in Errors, send_terminal(a, e)
      PROVE  [Stream!Next]_(Stream!vars)
  <2>1. CASE sender_count > 0 /\ accepts_data
    <3>1. e # NoError /\ errors = <<>>
      BY <2>1, DropOldestConstants DEF IInv, Ended, accepts_data
    <3>2. Stream!Fail(e)
      BY <1>3, <2>1, <3>1 DEF send_terminal, Stream!Fail, Stream!consumer, accepts_data, output
    <3> QED
      BY <3>2 DEF Stream!Next
  <2>2. CASE ~(sender_count > 0 /\ accepts_data)
    BY <1>3, <2>2, Hidden DEF send_terminal, Seen, accepts_data
  <2> QED
    BY <2>1, <2>2
<1> QED
  BY <1>1, <1>2, <1>3, Hidden

\* The update read sits right behind the gap that is reported with it.
LEMMA UpdateRefines ==
  ASSUME IInv, RecvUpdate
  PROVE  Stream!Receive(pending_gap) /\ pending_gap \in 0 .. Len(accepted)
<1>0. /\ queue \in Seq(Updates) /\ queue # <<>> /\ Len(queue) \in Nat
      /\ pending_gap \in Nat /\ position \in Nat /\ Len(accepted) \in Nat
      /\ rpc = "idle" /\ rpc' = "idle"
  BY SMTT(60) DEF IInv, TypeOK, RecvUpdate
<1>1. /\ errors = <<>> /\ ~eof
      /\ Len(accepted) = position + pending_gap + Len(queue)
      /\ \A i \in 1 .. Len(queue) : queue[i] = accepted[position + pending_gap + i]
  BY <1>0 DEF IInv, Ended, ExactGaps
<1>2. Len(queue) > 0 /\ 1 \in 1 .. Len(queue) /\ Head(queue) = queue[1]
  BY <1>0, SMTT(60)
<1>3. Head(queue) = accepted[position + pending_gap + 1]
  BY <1>1, <1>2
<1>4. position + pending_gap + 1 <= Len(accepted)
  BY <1>0, <1>1, <1>2, SMTT(60)
<1>5. Stream!Receive(pending_gap)
  BY <1>0, <1>1, <1>3, <1>4 DEF RecvUpdate, Stream!Receive, accepts_data
<1> QED
  BY <1>0, <1>4, <1>5, SMTT(60)

\* The receiver's steps.
LEMMA ReceiverRefines ==
  ASSUME IInv, ReceiverStep
  PROVE  [Stream!Next]_(Stream!vars)
<1>0. ASSUME rpc = "idle", queue = <<>> PROVE position = Len(accepted)
  BY <1>0, SMTT(60) DEF IInv, TypeOK, ExactGaps
<1>1. CASE RecvUpdate
  BY <1>1, UpdateRefines DEF Stream!Next
<1>2. CASE RecvError
  <2>1. errors = <<>> /\ terminal_error # NoError /\ position = Len(accepted)
        /\ errors \in Seq(Errors) /\ terminal_error \in Errors
    BY <1>0, <1>2 DEF RecvError, IInv, Ended, TypeOK
  <2>2. errors' # <<>> /\ errors'[1] = terminal_error
    BY <1>2, <2>1, SMTT(60) DEF RecvError
  <2>3. Stream!ReportFault
    BY <1>2, <2>1, <2>2 DEF RecvError, Stream!ReportFault, Stream!Drained, accepts_data, output
  <2> QED
    BY <2>3 DEF Stream!Next
<1>3. CASE RecvEof
  <2>1. position = Len(accepted) /\ ~(accepts_data /\ sender_count > 0)
    BY <1>0, <1>3, SMTT(60) DEF RecvEof, Disconnected, accepts_data
  <2>2. Stream!Finish
    BY <1>3, <2>1 DEF RecvEof, Stream!Finish, Stream!Drained, accepts_data, channel, output
  <2> QED
    BY <2>2 DEF Stream!Next
<1>4. CASE RecvPark \/ RecvWake \/ RecvCancel
  <2>1. UNCHANGED <<accepted, output, errors, eof, channel, sender_count>>
        /\ rpc # "dropped" /\ rpc' # "dropped"
    BY <1>4 DEF RecvPark, RecvWake, RecvCancel
  <2> QED
    BY <2>1, Hidden DEF Seen, channel, accepts_data
<1>5. CASE RecvDrop
  <2>1. Stream!Abandon
    BY <1>5 DEF RecvDrop, Stream!Abandon, accepts_data, output
  <2> QED
    BY <2>1 DEF Stream!Next
<1> QED
  BY <1>1, <1>2, <1>3, <1>4, <1>5 DEF ReceiverStep

\* Every step of the queue is a step of the stream or a stutter.
LEMMA StepRefines == IInv /\ [Next]_vars => [Stream!Next]_(Stream!vars)
<1> SUFFICES ASSUME IInv, [Next]_vars PROVE [Stream!Next]_(Stream!vars)
  OBVIOUS
<1>1. ASSUME UNCHANGED vars PROVE UNCHANGED Seen
  BY <1>1 DEF vars, Seen, accepts_data, channel
<1> QED
  BY <1>1, Hidden, SenderRefines, StopRefines, ReceiverRefines DEF Next

\* The overwrite queue implements the lossy delivery stream, for every number
\* of handles, every capacity and every set of errors.
THEOREM ImplementsStream == Spec => LossyStream
<1> QED
  BY InitRefines, StepRefines, Invariance, PTL DEF Spec, LossyStream, Stream!Spec
=============================================================================
