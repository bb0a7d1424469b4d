-------------------------- MODULE DropOldestChannel --------------------------
(* The gap-aware overwrite queue of engine/state/channel.rs                 *)
(* (Shared<DropOldest>): a full queue gives up its oldest update and counts *)
(* it in pending_gap, and the next update that is read carries the count.   *)
(* The count is a u64 that saturates; its limit is out of reach here.       *)
EXTENDS Integers, Sequences, FiniteSets

CONSTANTS Senders,     \* identities a SubscriptionSender handle may have
          First,       \* the handle subscription_channel_with_policy returns
          Terminator,  \* the weak SubscriptionTerminator held by the worker
          Capacity,    \* bounded data capacity
          MaxUpdates,  \* bound: updates each sender produces
          Errors, NoError

ASSUME DropOldestConstants ==
  /\ IsFiniteSet(Senders) /\ First \in Senders /\ Terminator \notin Senders
  /\ Capacity \in Nat \ {0} /\ MaxUpdates \in Nat
  /\ NoError \notin Errors

Actors == Senders \cup {Terminator}
Updates == Senders \X (1 .. MaxUpdates)

VARIABLES
  accepting, queue, pending_gap, terminal_error, terminal_delivered,
  receiver_closed,
  sender_count, ready,   \* live handles; the stored Notify permit
  pc, sent,              \* where each handle is; updates it has produced
  rpc,                   \* where the receiver is: "idle", "parked", "dropped"
  accepted, delivered,   \* history of the data that went in and came out
  position, gap,         \* history: last update read, and the gap before it
  errors, eof

channel == <<accepting, queue, pending_gap, terminal_error, terminal_delivered,
             receiver_closed>>
output == <<delivered, position, gap>>
vars == <<channel, sender_count, ready, pc, sent, rpc, accepted, output, errors, eof>>

accepts_data ==
  ~receiver_closed /\ terminal_error = NoError /\ ~terminal_delivered

Init ==
  /\ accepting = TRUE /\ queue = <<>> /\ pending_gap = 0
  /\ terminal_error = NoError /\ terminal_delivered = FALSE
  /\ receiver_closed = FALSE
  /\ sender_count = 1 /\ ready = FALSE
  /\ pc = [a \in Actors |-> IF a \in {First, Terminator} THEN "idle" ELSE "absent"]
  /\ sent = [s \in Senders |-> 0]
  /\ rpc = "idle"
  /\ accepted = <<>> /\ delivered = <<>> /\ position = 0 /\ gap = 0
  /\ errors = <<>> /\ eof = FALSE

Goto(a, l) == pc' = [pc EXCEPT ![a] = l]

-----------------------------------------------------------------------------
\* Mutant: the state is not tested under the lock.
TrySendLossyLate(s) ==
  /\ pc[s] = "idle" /\ sent[s] < MaxUpdates
  /\ sent' = [sent EXCEPT ![s] = @ + 1]
  /\ LET u == <<s, sent[s] + 1>>
         full == Len(queue) = Capacity
     IN  /\ queue' = Append(IF full THEN Tail(queue) ELSE queue, u)
         /\ pending_gap' = IF full THEN pending_gap + 1 ELSE pending_gap
         /\ accepted' = Append(accepted, u)
         /\ Goto(s, "notify")
  /\ UNCHANGED <<accepting, terminal_error, terminal_delivered, receiver_closed,
                 sender_count, ready, rpc, output, errors, eof>>

\* Mutant: the queue is compared with its capacity after the push.
TrySendLossyOverfull(s) ==
  /\ pc[s] = "idle" /\ sent[s] < MaxUpdates
  /\ sent' = [sent EXCEPT ![s] = @ + 1]
  /\ IF accepts_data /\ accepting
     THEN LET u == <<s, sent[s] + 1>>
              full == Len(queue) > Capacity
          IN  /\ queue' = Append(IF full THEN Tail(queue) ELSE queue, u)
              /\ pending_gap' = IF full THEN pending_gap + 1 ELSE pending_gap
              /\ accepted' = Append(accepted, u)
              /\ Goto(s, "notify")
     ELSE UNCHANGED <<queue, pending_gap, accepted, pc>>
  /\ UNCHANGED <<accepting, terminal_error, terminal_delivered, receiver_closed,
                 sender_count, ready, rpc, output, errors, eof>>

\* try_send_lossy: push, after giving up the oldest update of a full queue.
try_send_lossy(s) ==
  /\ pc[s] = "idle" /\ sent[s] < MaxUpdates
  /\ sent' = [sent EXCEPT ![s] = @ + 1]
  /\ IF accepts_data /\ accepting
     THEN LET u == <<s, sent[s] + 1>>
              full == Len(queue) = Capacity
          IN  /\ queue' = Append(IF full THEN Tail(queue) ELSE queue, u)
              /\ pending_gap' = IF full THEN pending_gap + 1 ELSE pending_gap
              /\ accepted' = Append(accepted, u)
              /\ Goto(s, "notify")
     ELSE UNCHANGED <<queue, pending_gap, accepted, pc>>
  /\ UNCHANGED <<accepting, terminal_error, terminal_delivered, receiver_closed,
                 sender_count, ready, rpc, output, errors, eof>>

\* ready.notify_one, after the unlock of a send or of a close.
Notify(a) ==
  /\ pc[a] \in {"notify", "last"}
  /\ ready' = TRUE
  /\ accepting' = IF pc[a] = "last" THEN FALSE ELSE accepting
  /\ Goto(a, IF pc[a] = "last" THEN "absent" ELSE "idle")
  /\ UNCHANGED <<queue, pending_gap, terminal_error, terminal_delivered,
                 receiver_closed, sender_count, sent, rpc, accepted, output,
                 errors, eof>>

\* send_terminal, by a sender or through the weak terminator.
send_terminal(a, e) ==
  /\ pc[a] = "idle"
  /\ IF sender_count > 0 /\ accepts_data
     THEN terminal_error' = e /\ accepting' = FALSE /\ Goto(a, "notify")
     ELSE UNCHANGED <<terminal_error, accepting, pc>>
  /\ UNCHANGED <<queue, pending_gap, terminal_delivered, receiver_closed,
                 sender_count, ready, sent, rpc, accepted, output, errors, eof>>

\* close, by a sender or by the receiver.
Close ==
  /\ ~receiver_closed
  /\ receiver_closed' = TRUE
  /\ accepting' = FALSE
  /\ \/ \E s \in Senders : pc[s] = "idle" /\ Goto(s, "notify") /\ UNCHANGED ready
     \/ rpc = "idle" /\ ready' = TRUE /\ UNCHANGED pc
  /\ UNCHANGED <<queue, pending_gap, terminal_error, terminal_delivered,
                 sender_count, sent, rpc, accepted, output, errors, eof>>

CloneSender(s, t) ==
  /\ pc[s] = "idle" /\ pc[t] = "absent"
  /\ sender_count' = sender_count + 1
  /\ Goto(t, "idle")
  /\ UNCHANGED <<channel, ready, sent, rpc, accepted, output, errors, eof>>

\* sender_dropped: the last handle goes on to stop the channel.
DropSender(s) ==
  /\ pc[s] = "idle"
  /\ sender_count' = sender_count - 1
  /\ Goto(s, IF sender_count = 1 THEN "last" ELSE "absent")
  /\ UNCHANGED <<channel, ready, sent, rpc, accepted, output, errors, eof>>
-----------------------------------------------------------------------------
(* The receiver: try_recv_event, and recv_event which waits around it. *)

\* The update carries the evictions counted since the last one that was read.
RecvUpdate ==
  /\ rpc = "idle" /\ queue # <<>>
  /\ queue' = Tail(queue)
  /\ pending_gap' = 0
  /\ gap' = pending_gap
  /\ position' = position + pending_gap + 1
  /\ delivered' = Append(delivered, Head(queue))
  /\ UNCHANGED <<accepting, terminal_error, terminal_delivered, receiver_closed,
                 sender_count, ready, pc, sent, rpc, accepted, errors, eof>>

RecvError ==
  /\ rpc = "idle" /\ queue = <<>> /\ terminal_error # NoError
  /\ errors' = Append(errors, terminal_error)
  /\ terminal_error' = NoError
  /\ terminal_delivered' = TRUE
  /\ UNCHANGED <<accepting, queue, pending_gap, receiver_closed, sender_count,
                 ready, pc, sent, rpc, accepted, output, eof>>

Disconnected == receiver_closed \/ terminal_delivered \/ sender_count = 0

RecvEof ==
  /\ rpc = "idle" /\ queue = <<>> /\ terminal_error = NoError /\ Disconnected
  /\ eof' = TRUE
  /\ UNCHANGED <<channel, sender_count, ready, pc, sent, rpc, accepted, output,
                 errors>>

RecvPark ==
  /\ rpc = "idle" /\ queue = <<>> /\ terminal_error = NoError /\ ~Disconnected
  /\ rpc' = "parked"
  /\ UNCHANGED <<channel, sender_count, ready, pc, sent, accepted, output,
                 errors, eof>>

RecvWake ==
  /\ rpc = "parked" /\ ready
  /\ ready' = FALSE
  /\ rpc' = "idle"
  /\ UNCHANGED <<channel, sender_count, pc, sent, accepted, output, errors, eof>>

\* The caller drops the recv future.
RecvCancel ==
  /\ rpc = "parked"
  /\ rpc' = "idle"
  /\ UNCHANGED <<channel, sender_count, ready, pc, sent, accepted, output, errors, eof>>

\* receiver_dropped: pending_gap is left as it is.
RecvDrop ==
  /\ rpc = "idle"
  /\ receiver_closed' = TRUE
  /\ accepting' = FALSE
  /\ queue' = <<>>
  /\ terminal_error' = NoError
  /\ ready' = TRUE
  /\ rpc' = "dropped"
  /\ UNCHANGED <<pending_gap, terminal_delivered, sender_count, pc, sent,
                 accepted, output, errors, eof>>

-----------------------------------------------------------------------------
SenderStep(s) ==
  try_send_lossy(s) \/ DropSender(s) \/ \E t \in Senders : CloneSender(s, t)

ReceiverStep ==
  \/ RecvUpdate \/ RecvError \/ RecvEof \/ RecvPark \/ RecvWake
  \/ RecvCancel \/ RecvDrop

Next ==
  \/ \E s \in Senders : SenderStep(s)
  \/ \E a \in Actors : Notify(a) \/ \E e \in Errors : send_terminal(a, e)
  \/ Close \/ ReceiverStep

Spec == Init /\ [][Next]_vars

-----------------------------------------------------------------------------
(* Properties *)

Live == {"idle", "notify"}
Labels == Live \cup {"absent", "last"}
Handles == {s \in Senders : pc[s] \in Live}

\* Every variable keeps its shape, and the queue its bound.
TypeOK ==
  /\ accepting \in BOOLEAN /\ receiver_closed \in BOOLEAN
  /\ terminal_delivered \in BOOLEAN /\ ready \in BOOLEAN /\ eof \in BOOLEAN
  /\ queue \in Seq(Updates) /\ accepted \in Seq(Updates)
  /\ delivered \in Seq(Updates)
  /\ Len(queue) <= Capacity
  /\ pending_gap \in Nat /\ position \in Nat /\ gap \in Nat
  /\ terminal_error \in Errors \cup {NoError} /\ errors \in Seq(Errors)
  /\ sender_count \in Nat
  /\ pc \in [Actors -> Labels] /\ pc[Terminator] \in Live
  /\ sent \in [Senders -> 0 .. MaxUpdates]
  /\ rpc \in {"idle", "parked", "dropped"}

\* The gap that the next update will report is exactly the number of source
\* updates evicted since the last one that was read, what is queued is what
\* was published after them, and no eviction is left to report when the queue
\* is empty, so the error or the end of the stream never hides a gap.
ExactGaps ==
  rpc # "dropped" =>
    /\ Len(accepted) = position + pending_gap + Len(queue)
    /\ \A i \in 1 .. Len(queue) : queue[i] = accepted[position + pending_gap + i]
    /\ queue = <<>> => pending_gap = 0

\* A receiver waits only while there is nothing for it, or a notification is
\* stored or about to be: push, failure and close all reach ready.notify_one.
WaitingIsWoken ==
  rpc = "parked" /\ (queue # <<>> \/ terminal_error # NoError \/ Disconnected)
    => ready \/ \E a \in Actors : pc[a] \in {"notify", "last"}

\* The error once read leaves nothing behind, and after the end of the stream
\* no live handle can publish.
Ended ==
  /\ errors # <<>> => Len(errors) = 1 /\ queue = <<>>
                      /\ terminal_delivered /\ terminal_error = NoError
  /\ eof => /\ queue = <<>> /\ terminal_error = NoError
            /\ receiver_closed \/ terminal_delivered \/ Handles = {}

\* The inductive invariant from which the safety properties follow: besides them,
\* sender_count is the number of live handles through every clone and drop, so
\* that the receiver sees the end exactly when the last handle is gone.
IInv ==
  /\ TypeOK /\ ExactGaps /\ WaitingIsWoken /\ Ended
  /\ sender_count = Cardinality(Handles)

\* The overwrite queue is a lossy delivery stream: it skips data only with an
\* exact gap, and delivers everything it did not skip before its fault or end.
Stream == INSTANCE DeliveryStream WITH
  Items <- Updates, Faults <- Errors, NoFault <- NoError, Lossy <- TRUE,
  published <- accepted, open <- accepts_data /\ sender_count > 0,
  fault <- IF errors # <<>> THEN errors[1] ELSE terminal_error,
  received <- delivered, reported <- errors # <<>>,
  finished <- eof, abandoned <- rpc = "dropped"

LossyStream == Stream!Spec
=============================================================================
