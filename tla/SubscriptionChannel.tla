------------------------- MODULE SubscriptionChannel -------------------------
(***************************************************************************)
(* The strict bounded subscription channel of                              *)
(* crates/xbbg-async/src/engine/state/channel.rs (Shared<Semaphore>), with *)
(* its two producers: an SDK callback that calls try_send and fails the    *)
(* stream when the queue is full (OverflowPolicy::DropNewest), and the     *)
(* forwarder task that awaits send under a timer and fails the stream when *)
(* the timer fires (OverflowPolicy::Block).                                *)
(*                                                                         *)
(* A step is what one thread does while it holds the state mutex, or one   *)
(* atomic or semaphore operation outside it.  The channel's on_closed      *)
(* hook, which the hub installs once, is part of the model because every   *)
(* path that stops the channel has to reach it.                            *)
(***************************************************************************)
EXTENDS Integers, Sequences, FiniteSets

CONSTANTS Senders,     \* identities a SubscriptionSender handle may have
          First,       \* the handle subscription_channel returns
          Terminator,  \* the weak SubscriptionTerminator held by the worker
          Capacity,    \* bounded data capacity
          MaxUpdates,  \* bound: updates each sender produces
          Errors,      \* terminal errors
          NoError      \* Option::None of terminal_error

ASSUME ChannelConstants ==
  /\ IsFiniteSet(Senders) /\ First \in Senders
  /\ Terminator \notin Senders
  /\ Capacity \in Nat \ {0}
  /\ MaxUpdates \in Nat
  /\ NoError \notin Errors

Actors == Senders \cup {Terminator}
Updates == Senders \X (1 .. MaxUpdates)

VARIABLES
  accepting, queue, terminal_error, terminal_delivered, receiver_closed,
  permits, slots_closed,   \* the tokio semaphore
  sender_count, ready,     \* live handles; the stored Notify permit
  on_closed, told,         \* hook installed / hook called at least once
  hub,                     \* the installer of the hook
  pc, sent,                \* where each sender is; updates it has produced
  rpc,                     \* where the receiver is
  accepted, delivered, errors, eof   \* history of what went in and out

channel == <<accepting, queue, terminal_error, terminal_delivered, receiver_closed>>
slots == <<permits, slots_closed>>
hook == <<on_closed, told, hub>>
history == <<accepted, delivered, errors, eof>>
vars == <<channel, slots, sender_count, ready, hook, pc, sent, rpc, history>>

accepts_data ==
  ~receiver_closed /\ terminal_error = NoError /\ ~terminal_delivered

Init ==
  /\ accepting = TRUE
  /\ queue = <<>>
  /\ terminal_error = NoError
  /\ terminal_delivered = FALSE
  /\ receiver_closed = FALSE
  /\ permits = Capacity
  /\ slots_closed = FALSE
  /\ sender_count = 1
  /\ ready = FALSE
  /\ on_closed = FALSE
  /\ told = FALSE
  /\ hub = "new"
  /\ pc = [a \in Actors |-> IF a \in {First, Terminator} THEN "idle" ELSE "absent"]
  /\ sent = [s \in Senders |-> 0]
  /\ rpc = "idle"
  /\ accepted = <<>>
  /\ delivered = <<>>
  /\ errors = <<>>
  /\ eof = FALSE

Goto(a, l) == pc' = [pc EXCEPT ![a] = l]

-----------------------------------------------------------------------------
(* Publishing one update. *)

\* send and try_send start with the same lock-free test; a rejected update
\* is dropped by the caller.
SendBegin(s) ==
  /\ pc[s] = "idle"
  /\ sent[s] < MaxUpdates
  /\ sent' = [sent EXCEPT ![s] = @ + 1]
  /\ IF accepting THEN \E l \in {"try", "acquire"} : Goto(s, l)
                  ELSE UNCHANGED pc
  /\ UNCHANGED <<channel, slots, sender_count, ready, hook, rpc, history>>

\* Mutant: a full queue drops the update and reports nothing.
TryAcquireSilentDrop(s) ==
  /\ pc[s] = "try"
  /\ IF ~slots_closed /\ permits > 0
     THEN permits' = permits - 1 /\ Goto(s, "permit")
     ELSE UNCHANGED permits /\ Goto(s, "idle")
  /\ UNCHANGED <<channel, slots_closed, sender_count, ready, hook, sent, rpc, history>>

\* try_send: a full queue is an error only while the channel is still open.
TryAcquire(s) ==
  /\ pc[s] = "try"
  /\ \/ /\ slots_closed
        /\ Goto(s, "idle")
        /\ UNCHANGED permits
     \/ /\ ~slots_closed /\ permits = 0
        /\ Goto(s, IF accepting THEN "full" ELSE "idle")
        /\ UNCHANGED permits
     \/ /\ ~slots_closed /\ permits > 0
        /\ permits' = permits - 1
        /\ Goto(s, "permit")
  /\ UNCHANGED <<channel, slots_closed, sender_count, ready, hook, sent, rpc, history>>

\* send: the future is woken by a free slot or by the closed semaphore.
Acquire(s) ==
  /\ pc[s] = "acquire"
  /\ \/ /\ slots_closed
        /\ Goto(s, "idle")
        /\ UNCHANGED permits
     \/ /\ ~slots_closed /\ permits > 0
        /\ permits' = permits - 1
        /\ Goto(s, "permit")
  /\ UNCHANGED <<channel, slots_closed, sender_count, ready, hook, sent, rpc, history>>

\* Mutant: the forwarder awaits send without a timer.
AcquireTimeoutNone(s) ==
  /\ pc[s] = "acquire" /\ slots_closed
  /\ Goto(s, "full")
  /\ UNCHANGED <<channel, slots, sender_count, ready, hook, sent, rpc, history>>

\* BLOCK_FORWARD_TIMEOUT drops the pending send and fails the stream next.
AcquireTimeout(s) ==
  /\ pc[s] = "acquire"
  /\ Goto(s, "full")
  /\ UNCHANGED <<channel, slots, sender_count, ready, hook, sent, rpc, history>>

\* Mutant: the state is not tested again under the lock.
CommitUnchecked(s) ==
  /\ pc[s] = "permit"
  /\ queue' = Append(queue, <<s, sent[s]>>)
  /\ accepted' = Append(accepted, <<s, sent[s]>>)
  /\ Goto(s, "notify")
  /\ UNCHANGED <<accepting, terminal_error, terminal_delivered, receiver_closed, slots,
                 sender_count, ready, hook, sent, rpc, delivered, errors, eof>>

\* With a permit in hand the state is locked and tested again.
Commit(s) ==
  /\ pc[s] = "permit"
  /\ IF accepts_data
     THEN /\ queue' = Append(queue, <<s, sent[s]>>)
          /\ accepted' = Append(accepted, <<s, sent[s]>>)
          /\ Goto(s, "notify")
          /\ UNCHANGED permits
     ELSE /\ permits' = permits + 1
          /\ Goto(s, "idle")
          /\ UNCHANGED <<queue, accepted>>
  /\ UNCHANGED <<accepting, terminal_error, terminal_delivered, receiver_closed,
                 slots_closed, sender_count, ready, hook, sent, rpc,
                 delivered, errors, eof>>

NotifyReady(s) ==
  /\ pc[s] = "notify"
  /\ ready' = TRUE
  /\ Goto(s, "idle")
  /\ UNCHANGED <<channel, slots, sender_count, hook, sent, rpc, history>>

-----------------------------------------------------------------------------
(* Stopping the channel from the producing side. *)

\* send_terminal, by a sender or through the weak terminator.
Fail(a, e) ==
  /\ pc[a] \in {"idle", "full"}
  /\ IF sender_count > 0 /\ accepts_data
     THEN /\ terminal_error' = e
          /\ accepting' = FALSE
          /\ Goto(a, "closing")
     ELSE /\ Goto(a, "idle")
          /\ UNCHANGED <<terminal_error, accepting>>
  /\ UNCHANGED <<queue, terminal_delivered, receiver_closed, slots, sender_count,
                 ready, hook, sent, rpc, history>>

SenderClose(s) ==
  /\ pc[s] = "idle"
  /\ ~receiver_closed
  /\ receiver_closed' = TRUE
  /\ accepting' = FALSE
  /\ Goto(s, "closing")
  /\ UNCHANGED <<queue, terminal_error, terminal_delivered, slots, sender_count,
                 ready, hook, sent, rpc, history>>

\* Mutant: the closing path forgets ready.notify_one().
FinishCloseSilent(a) ==
  /\ pc[a] = "closing"
  /\ slots_closed' = TRUE
  /\ told' = IF on_closed THEN TRUE ELSE told
  /\ Goto(a, "idle")
  /\ UNCHANGED <<channel, permits, sender_count, ready, on_closed, hub, sent, rpc, history>>

\* slots.close, ready.notify_one and notify_closed follow the unlock.
FinishClose(a) ==
  /\ pc[a] = "closing"
  /\ slots_closed' = TRUE
  /\ ready' = TRUE
  /\ told' = IF on_closed THEN TRUE ELSE told
  /\ Goto(a, "idle")
  /\ UNCHANGED <<channel, permits, sender_count, on_closed, hub, sent, rpc, history>>

CloneSender(s, t) ==
  /\ pc[s] = "idle" /\ pc[t] = "absent"
  /\ sender_count' = sender_count + 1
  /\ Goto(t, "idle")
  /\ UNCHANGED <<channel, slots, ready, hook, sent, rpc, history>>

DropSender(s) ==
  /\ pc[s] = "idle"
  /\ sender_count' = sender_count - 1
  /\ Goto(s, IF sender_count = 1 THEN "last" ELSE "absent")
  /\ UNCHANGED <<channel, slots, ready, hook, sent, rpc, history>>

\* The handle that saw the count reach zero stops the channel, unlocked.
LastSenderDropped(s) ==
  /\ pc[s] = "last"
  /\ accepting' = FALSE
  /\ ready' = TRUE
  /\ told' = IF on_closed THEN TRUE ELSE told
  /\ Goto(s, "absent")
  /\ UNCHANGED <<queue, terminal_error, terminal_delivered, receiver_closed, slots,
                 sender_count, on_closed, hub, sent, rpc, history>>

-----------------------------------------------------------------------------
(* The receiver: one recv iteration per step, one try_recv per step. *)

\* The slot of a popped update is returned after the unlock.
RecvUpdate ==
  /\ rpc = "idle"
  /\ queue # <<>>
  /\ queue' = Tail(queue)
  /\ delivered' = Append(delivered, Head(queue))
  /\ rpc' = "popped"
  /\ UNCHANGED <<accepting, terminal_error, terminal_delivered, receiver_closed, slots,
                 sender_count, ready, hook, pc, sent, accepted, errors, eof>>

ReturnSlot ==
  /\ rpc = "popped"
  /\ permits' = permits + 1
  /\ rpc' = "idle"
  /\ UNCHANGED <<channel, slots_closed, sender_count, ready, hook, pc, sent, history>>

\* Mutant: the terminal error overtakes the queued data.
RecvErrorFirst ==
  /\ rpc = "idle"
  /\ terminal_error # NoError
  /\ errors' = Append(errors, terminal_error)
  /\ terminal_error' = NoError
  /\ terminal_delivered' = TRUE
  /\ UNCHANGED <<accepting, queue, receiver_closed, slots, sender_count, ready, hook,
                 pc, sent, rpc, accepted, delivered, eof>>

RecvError ==
  /\ rpc = "idle"
  /\ queue = <<>> /\ terminal_error # NoError
  /\ errors' = Append(errors, terminal_error)
  /\ terminal_error' = NoError
  /\ terminal_delivered' = TRUE
  /\ UNCHANGED <<accepting, queue, receiver_closed, slots, sender_count, ready, hook,
                 pc, sent, rpc, accepted, delivered, eof>>

Disconnected == receiver_closed \/ terminal_delivered \/ sender_count = 0

RecvEof ==
  /\ rpc = "idle"
  /\ queue = <<>> /\ terminal_error = NoError /\ Disconnected
  /\ eof' = TRUE
  /\ UNCHANGED <<channel, slots, sender_count, ready, hook, pc, sent, rpc,
                 accepted, delivered, errors>>

RecvPark ==
  /\ rpc = "idle"
  /\ queue = <<>> /\ terminal_error = NoError /\ ~Disconnected
  /\ rpc' = "parked"
  /\ UNCHANGED <<channel, slots, sender_count, ready, hook, pc, sent, history>>

RecvWake ==
  /\ rpc = "parked"
  /\ ready
  /\ ready' = FALSE
  /\ rpc' = "idle"
  /\ UNCHANGED <<channel, slots, sender_count, hook, pc, sent, history>>

\* The caller drops the recv future (a select! arm lost).
RecvCancel ==
  /\ rpc = "parked"
  /\ rpc' = "idle"
  /\ UNCHANGED <<channel, slots, sender_count, ready, hook, pc, sent, history>>

RecvClose ==
  /\ rpc = "idle"
  /\ ~receiver_closed
  /\ receiver_closed' = TRUE
  /\ accepting' = FALSE
  /\ rpc' = "closing"
  /\ UNCHANGED <<queue, terminal_error, terminal_delivered, slots, sender_count,
                 ready, hook, pc, sent, history>>

\* Mutant: dropping the receiver forgets to take the unread error.
RecvDropKeepsError ==
  /\ rpc = "idle"
  /\ receiver_closed' = TRUE
  /\ accepting' = FALSE
  /\ queue' = <<>>
  /\ rpc' = "dropping"
  /\ UNCHANGED <<terminal_error, terminal_delivered, slots, sender_count, ready, hook,
                 pc, sent, history>>

\* receiver_dropped discards the queued data and the unread error.
RecvDrop ==
  /\ rpc = "idle"
  /\ receiver_closed' = TRUE
  /\ accepting' = FALSE
  /\ queue' = <<>>
  /\ terminal_error' = NoError
  /\ rpc' = "dropping"
  /\ UNCHANGED <<terminal_delivered, slots, sender_count, ready, hook, pc, sent, history>>

RecvFinishClose ==
  /\ rpc \in {"closing", "dropping"}
  /\ slots_closed' = TRUE
  /\ ready' = TRUE
  /\ told' = IF on_closed THEN TRUE ELSE told
  /\ rpc' = IF rpc = "closing" THEN "idle" ELSE "dropped"
  /\ UNCHANGED <<channel, permits, sender_count, on_closed, hub, pc, sent, history>>

-----------------------------------------------------------------------------
(* Installing the hook: set the cell, then look whether it is too late. *)

InstallHook ==
  /\ hub = "new"
  /\ on_closed' = TRUE
  /\ hub' = "set"
  /\ UNCHANGED <<channel, slots, sender_count, ready, told, pc, sent, rpc, history>>

\* Mutant: the installer does not look whether it came too late.
CheckHookNever ==
  /\ hub = "set"
  /\ hub' = "done"
  /\ UNCHANGED <<channel, slots, sender_count, ready, on_closed, told, pc, sent, rpc, history>>

CheckHook ==
  /\ hub = "set"
  /\ told' = IF accepting THEN told ELSE TRUE
  /\ hub' = "done"
  /\ UNCHANGED <<channel, slots, sender_count, ready, on_closed, pc, sent, rpc, history>>

-----------------------------------------------------------------------------
SenderStep(s) ==
  \/ SendBegin(s) \/ TryAcquire(s) \/ Acquire(s) \/ AcquireTimeout(s) \/ Commit(s)
  \/ NotifyReady(s) \/ SenderClose(s)
  \/ DropSender(s) \/ LastSenderDropped(s)
  \/ \E t \in Senders : CloneSender(s, t)

ReceiverStep ==
  \/ RecvUpdate \/ ReturnSlot \/ RecvError \/ RecvEof \/ RecvPark \/ RecvWake
  \/ RecvCancel \/ RecvClose \/ RecvDrop \/ RecvFinishClose

Next ==
  \/ \E s \in Senders : SenderStep(s)
  \/ \E a \in Actors : (\E e \in Errors : Fail(a, e)) \/ FinishClose(a)
  \/ ReceiverStep
  \/ InstallHook \/ CheckHook

Spec == Init /\ [][Next]_vars

\* Code that runs to its end once entered, timers, and woken tasks: one thread
\* per handle, one for the receiver and one for the installer of the hook.
Running(s) ==
  \/ TryAcquire(s) \/ AcquireTimeout(s) \/ Commit(s) \/ NotifyReady(s)
  \/ LastSenderDropped(s) \/ FinishClose(s)
  \/ pc[s] = "full" /\ \E e \in Errors : Fail(s, e)

Fairness ==
  /\ \A s \in Senders : WF_vars(Running(s))
  /\ WF_vars(FinishClose(Terminator))
  /\ WF_vars(RecvWake \/ ReturnSlot \/ RecvFinishClose)
  /\ WF_vars(InstallHook \/ CheckHook)

FairSpec == Spec /\ Fairness

-----------------------------------------------------------------------------
(* Properties. *)

Labels == {"absent", "idle", "try", "acquire", "permit", "notify", "full",
           "closing", "last"}
Gone == rpc \in {"dropping", "dropped"}
At(labels) == {s \in Senders : pc[s] \in labels}
Holders == At({"permit"})
Handles == At(Labels \ {"absent", "last"})

Resting == {"idle", "absent", "last", "closing"}

\* A sender that is not resting has an update in hand.
PcOK ==
  /\ pc \in [Actors -> Labels]
  /\ pc[Terminator] \in {"idle", "closing"}
  /\ sent \in [Senders -> 0 .. MaxUpdates]
  /\ \A s \in Senders : pc[s] \notin Resting => sent[s] > 0

\* Every variable of the channel keeps its declared shape.
TypeOK ==
  /\ accepting \in BOOLEAN
  /\ queue \in Seq(Updates)
  /\ terminal_error \in Errors \cup {NoError}
  /\ terminal_delivered \in BOOLEAN
  /\ receiver_closed \in BOOLEAN
  /\ permits \in Nat
  /\ slots_closed \in BOOLEAN
  /\ sender_count \in Nat
  /\ ready \in BOOLEAN
  /\ on_closed \in BOOLEAN
  /\ told \in BOOLEAN
  /\ hub \in {"new", "set", "done"}
  /\ PcOK
  /\ rpc \in {"idle", "popped", "parked", "closing", "dropping", "dropped"}
  /\ accepted \in Seq(Updates)
  /\ delivered \in Seq(Updates)
  /\ errors \in Seq(Errors)
  /\ eof \in BOOLEAN

\* Every unit of capacity is in exactly one place: free in the semaphore, held
\* by a sender between acquire and push, occupied by a queued update, or in
\* the hand of a receiver between pop_front and add_permits.  send and
\* try_send return the permit of a rejected update and forget that of a
\* pushed one, so no close, failure or timeout leaks a slot or mints one.
SlotConservation ==
  ~Gone => permits + Len(queue) + Cardinality(Holders)
             + (IF rpc = "popped" THEN 1 ELSE 0) = Capacity

\* sender_count is the number of live handles, so the channel disconnects
\* exactly when the last handle is gone and never while a send is under way.
HandlesCounted ==
  sender_count = Cardinality(Handles)

\* An update whose send returned Ok is delivered in order or still queued,
\* whatever failure, close or lost handle comes after it; only dropping the
\* receiver discards data.
CommittedDataSurvives ==
  ~Gone => accepted = delivered \o queue

\* The terminal error is read once, after all the data send accepted, and the
\* channel then accepts nothing more ("committed data, one terminal error,
\* then EOF", README of xbbg-async).
ErrorAfterData ==
  errors # <<>> =>
    /\ Len(errors) = 1
    /\ delivered = accepted
    /\ terminal_delivered /\ terminal_error = NoError

\* A receiver being dropped leaves an empty, closed channel behind; the error
\* once read leaves nothing queued; and after EOF no live handle can publish:
\* the channel is closed, its error is spent, or every handle is gone.
Terminal ==
  /\ Gone => receiver_closed /\ queue = <<>> /\ terminal_error = NoError
  /\ errors # <<>> => queue = <<>>
  /\ eof => /\ queue = <<>> /\ terminal_error = NoError
            /\ receiver_closed \/ terminal_delivered \/ Handles = {}

\* The inductive invariant from which the safety properties follow: slots and
\* handles are counted, data and error are where the receiver reads them in
\* order, and a dropped receiver, a read error or an EOF leaves nothing behind.
IInv ==
  /\ TypeOK
  /\ SlotConservation
  /\ HandlesCounted
  /\ CommittedDataSurvives
  /\ ErrorAfterData
  /\ Terminal

\* Before an update of a producer come exactly that producer's earlier ones.
Gapless(updates) ==
  \A i \in DOMAIN updates, n \in 1 .. MaxUpdates :
    (\E j \in 1 .. i - 1 : updates[j] = <<updates[i][1], n>>) <=> n < updates[i][2]

\* What the consumer has read from one producer is an unbroken run of that
\* producer's updates from the first: a full queue (try_send) and a forwarder
\* timeout (send) fail the stream before the producer can publish past the
\* update they lost.
NoSilentGap == Gapless(delivered)

\* Once recv has returned None nothing is ever accepted or handed out again.
EofIsFinal == [][eof => UNCHANGED <<accepted, delivered, errors>>]_vars

\* The strict queue is a delivery stream that never skips: what a consumer of
\* either kind of channel may rely on, with Shared's five flags hidden.
Stream == INSTANCE DeliveryStream WITH
  Items <- Updates, Faults <- Errors, NoFault <- NoError, Lossy <- FALSE,
  published <- accepted, open <- accepts_data /\ sender_count > 0,
  fault <- IF errors # <<>> THEN errors[1] ELSE terminal_error,
  received <- delivered, position <- Len(delivered), gap <- 0,
  reported <- errors # <<>>, finished <- eof, abandoned <- Gone

\* The channel implements that stream: every step of a sender, a failure, the
\* receiver or the hook is one of its steps or hidden from the consumer.
StrictStream == Stream!Spec

\* A receiver parked in recv while there is something to return leaves the
\* await: notify_one comes after every push, failure, close and last drop.
NoLostWakeup ==
  (rpc = "parked" /\ (queue # <<>> \/ terminal_error # NoError \/ Disconnected))
     ~> rpc # "parked"

\* However the channel stops, the hook the hub installs is called, even when
\* the stop races the installation.
ClosureReported == ~accepting ~> told

\* A producer in send or try_send always gets out: by a slot, by the closed
\* semaphore, or by the timer and the failure it causes.
SendResolves ==
  \A s \in Senders : pc[s] \in {"try", "acquire", "permit", "full", "notify"} ~> pc[s] = "idle"

-----------------------------------------------------------------------------
(* The inductive invariant behind NoSilentGap, beside IInv. *)

\* Nothing will be accepted any more.
Stopped == ~accepts_data \/ sender_count = 0

\* Who finds the channel closed finds it stopped for good.
StoppedForGood ==
  /\ ~accepting \/ slots_closed => Stopped
  /\ \A a \in Actors : pc[a] \in {"closing", "last"} => Stopped
  /\ rpc \in {"closing", "dropping"} => receiver_closed

\* An update that was accepted, and a producer that has its last one in hand.
Published(s, n) == \E i \in DOMAIN accepted : accepted[i] = <<s, n>>
InHand(s) == pc[s] \in {"try", "acquire", "permit", "full"}

\* While the channel is not stopped, all a producer made was accepted.
NothingSkipped ==
  ~Stopped => \A s \in Senders, n \in 1 .. MaxUpdates :
    Published(s, n) <=> n < sent[s] \/ (n = sent[s] /\ ~InHand(s))

Unbroken ==
  /\ StoppedForGood /\ NothingSkipped /\ Gapless(accepted)
  /\ Len(delivered) <= Len(accepted) /\ \A i \in DOMAIN delivered : delivered[i] = accepted[i]
=============================================================================
