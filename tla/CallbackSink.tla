---------------------------- MODULE CallbackSink ----------------------------
(***************************************************************************)
(* The inline callback sink of state/channel.rs (CallbackShared): sender   *)
(* handles and a weak terminator deliver items to one callback, on the     *)
(* sending thread and under the delivery mutex.  The first terminal error, *)
(* an explicit close or the drop of the last handle ends it.               *)
(*                                                                         *)
(* A step is one atomic operation, or what a thread does between taking    *)
(* the delivery mutex and releasing it or entering the callback.           *)
(***************************************************************************)
EXTENDS Naturals, Sequences, FiniteSets

CONSTANTS Senders,     \* identities a handle may have
          First,       \* the handle callback() returns
          Terminator,  \* the weak terminator
          Nobody,
          MaxItems     \* bound: items each actor sends

Actors == Senders \cup {Terminator}

\* An update, an error of kind SubscriptionDataLoss, any other error.
Items == {"update", "loss", "error"}

VARIABLES
  accepting, keep_open_on_data_loss, sender_count,
  delivery,         \* who holds the delivery mutex
  on_closed, told,  \* hook installed / hook called at least once
  hub,              \* the installer of the hook
  pc, item, sent,   \* each actor: place, item in hand, items sent
  calls,            \* what the callback has been called with
  closed,           \* a close has returned its mutex
  orphaned          \* the last handle has been dropped

sink == <<accepting, keep_open_on_data_loss, sender_count>>
hook == <<on_closed, told, hub>>
ends == <<closed, orphaned>>
vars == <<sink, delivery, hook, pc, item, sent, calls, ends>>

Init ==
  /\ accepting = TRUE /\ keep_open_on_data_loss = FALSE
  /\ sender_count = 1
  /\ delivery = Nobody
  /\ on_closed = FALSE /\ told = FALSE /\ hub = "new"
  /\ pc = [a \in Actors |-> IF a \in {First, Terminator} THEN "idle" ELSE "absent"]
  /\ item = [a \in Actors |-> "update"]
  /\ sent = [a \in Actors |-> 0]
  /\ calls = <<>>
  /\ closed = FALSE /\ orphaned = FALSE

Goto(a, l) == pc' = [pc EXCEPT ![a] = l]

\* An error ends the sink, except a data loss the owner opted to survive.
terminal(i) == i = "error" \/ (i = "loss" /\ ~keep_open_on_data_loss)

\* A weak reference upgrades until the last handle's drop is over.
upgrade == \E s \in Senders : pc[s] # "absent"

-----------------------------------------------------------------------------
(* send, for a handle, and for the terminator, which upgrades and sends     *)
(* errors only.                                                            *)

SendBegin(a, i) ==
  /\ pc[a] = "idle"
  /\ sent[a] < MaxItems
  /\ a = Terminator => i # "update" /\ upgrade
  /\ sent' = [sent EXCEPT ![a] = @ + 1]
  /\ IF accepting
       THEN Goto(a, "send") /\ item' = [item EXCEPT ![a] = i]
       ELSE UNCHANGED <<pc, item>>
  /\ UNCHANGED <<sink, delivery, hook, calls, ends>>

\* Mutant: accepting is not tested again under the mutex.
LockOneTest(a) ==
  /\ pc[a] = "send"
  /\ delivery = Nobody
  /\ Goto(a, IF terminal(item[a]) THEN "last" ELSE "call")
  /\ delivery' = a
  /\ accepting' = ~terminal(item[a])
  /\ UNCHANGED <<keep_open_on_data_loss, sender_count, hook, item, sent, calls, ends>>

\* Mutant: a terminal error leaves the flag set.
LockKeepsAccepting(a) ==
  /\ pc[a] = "send"
  /\ delivery = Nobody
  /\ accepting
  /\ Goto(a, IF terminal(item[a]) THEN "last" ELSE "call")
  /\ delivery' = a
  /\ UNCHANGED <<sink, hook, item, sent, calls, ends>>

\* Mutant: every error clears the flag, also one the owner survives.
LockEveryErrorEnds(a) ==
  /\ pc[a] = "send"
  /\ delivery = Nobody
  /\ accepting
  /\ Goto(a, IF terminal(item[a]) THEN "last" ELSE "call")
  /\ delivery' = a
  /\ accepting' = (item[a] = "update")
  /\ UNCHANGED <<keep_open_on_data_loss, sender_count, hook, item, sent, calls, ends>>

Lock(a) ==
  /\ pc[a] = "send"
  /\ delivery = Nobody
  /\ IF accepting
       THEN /\ Goto(a, IF terminal(item[a]) THEN "last" ELSE "call")
            /\ delivery' = a
            /\ accepting' = ~terminal(item[a])
       ELSE /\ Goto(a, "idle")
            /\ UNCHANGED <<delivery, accepting>>
  /\ UNCHANGED <<keep_open_on_data_loss, sender_count, hook, item, sent, calls, ends>>

\* The callback runs, the mutex is released.
Call(a) ==
  /\ pc[a] \in {"call", "last"}
  /\ calls' = Append(calls, [item |-> item[a], last |-> pc[a] = "last"])
  /\ delivery' = Nobody
  /\ Goto(a, IF pc[a] = "last" THEN "notify" ELSE "idle")
  /\ UNCHANGED <<sink, hook, item, sent, ends>>

notify_closed(a) ==
  /\ pc[a] \in {"notify", "gone"}
  /\ told' = (told \/ on_closed)
  /\ Goto(a, IF pc[a] = "gone" THEN "absent" ELSE "idle")
  /\ UNCHANGED <<sink, delivery, on_closed, hub, item, sent, calls, ends>>

-----------------------------------------------------------------------------
(* The handles. *)

close(s) ==
  /\ pc[s] = "idle"
  /\ delivery = Nobody
  /\ accepting' = FALSE
  /\ closed' = TRUE
  /\ Goto(s, "notify")
  /\ UNCHANGED <<keep_open_on_data_loss, sender_count, delivery, hook, item, sent, calls,
                 orphaned>>

KeepOpen(s) ==
  /\ pc[s] = "idle"
  /\ delivery = Nobody
  /\ ~keep_open_on_data_loss
  /\ keep_open_on_data_loss' = TRUE
  /\ UNCHANGED <<accepting, sender_count, delivery, hook, pc, item, sent, calls, ends>>

CloneSender(s, t) ==
  /\ pc[s] = "idle" /\ pc[t] = "absent"
  /\ sender_count' = sender_count + 1
  /\ Goto(t, "idle")
  /\ UNCHANGED <<accepting, keep_open_on_data_loss, delivery, hook, item, sent, calls, ends>>

\* The count, and for the last handle the flag, which is stored without the mutex.
DropSender(s) ==
  /\ pc[s] = "idle"
  /\ sender_count' = sender_count - 1
  /\ Goto(s, IF sender_count = 1 THEN "dropped" ELSE "absent")
  /\ UNCHANGED <<accepting, keep_open_on_data_loss, delivery, hook, item, sent, calls, ends>>

LastSenderDropped(s) ==
  /\ pc[s] = "dropped"
  /\ accepting' = FALSE
  /\ orphaned' = TRUE
  /\ Goto(s, "gone")
  /\ UNCHANGED <<keep_open_on_data_loss, sender_count, delivery, hook, item, sent, calls,
                 closed>>

\* on_closed installs the hook, then looks whether the sink has already ended.
InstallHook ==
  /\ hub = "new"
  /\ \E s \in Senders : pc[s] = "idle"
  /\ on_closed' = TRUE /\ hub' = "set"
  /\ UNCHANGED <<sink, delivery, told, pc, item, sent, calls, ends>>

CheckHook ==
  /\ hub = "set"
  /\ told' = (told \/ ~accepting)
  /\ hub' = "done"
  /\ UNCHANGED <<sink, delivery, on_closed, pc, item, sent, calls, ends>>

-----------------------------------------------------------------------------
Next ==
  \/ \E a \in Actors : Lock(a) \/ Call(a) \/ notify_closed(a)
  \/ \E a \in Actors, i \in Items : SendBegin(a, i)
  \/ \E s \in Senders : close(s) \/ KeepOpen(s) \/ DropSender(s) \/ LastSenderDropped(s)
  \/ \E s \in Senders, t \in Senders : CloneSender(s, t)
  \/ InstallHook \/ CheckHook

Spec == Init /\ [][Next]_vars

-----------------------------------------------------------------------------
(* Properties. *)

TypeOK ==
  /\ {accepting, keep_open_on_data_loss, on_closed, told, closed, orphaned} \subseteq BOOLEAN
  /\ sender_count \in Nat
  /\ delivery \in Actors \cup {Nobody}
  /\ hub \in {"new", "set", "done"}
  /\ pc \in [Actors -> {"absent", "idle", "send", "call", "last", "notify", "dropped", "gone"}]
  /\ item \in [Actors -> Items]
  /\ sent \in [Actors -> 0 .. MaxItems]
  /\ calls \in Seq([item : Items, last : BOOLEAN])

\* The callback sees at most one terminal error and nothing after it, although
\* several threads may be past the first test of accepting when it is sent.
NothingAfterTerminal ==
  \A i \in 1 .. Len(calls) : calls[i].last => i = Len(calls)

\* The sink ends for a reason: while a handle is alive and nobody closed it,
\* a sink that stopped accepting has told its callback the terminal error, or
\* is about to.  Data loss the owner opted to survive does not end it.
EndsForAReason ==
  /\ TypeOK
  /\ ~accepting /\ ~closed /\ ~orphaned =>
       \/ \E a \in Actors : pc[a] = "last"
       \/ calls # <<>> /\ calls[Len(calls)].last

\* No delivery starts once a close has released the mutex or the last handle has
\* been dropped, not even by a thread that passed the first test before.  After a
\* close none is running either; after the last drop at most the terminator's.
NoDeliveryAfterEnd ==
  [][/\ closed => delivery' = Nobody
     /\ orphaned => delivery' \in {delivery, Nobody} \ Senders]_vars

\* However the sink ends, the hook hears of it: an end that the installer of the
\* hook did not find is still to be reported by the thread that caused it.
ClosureReported ==
  ~accepting /\ hub = "done" => told \/ \E a \in Actors : pc[a] \in {"last", "notify", "gone"}

-----------------------------------------------------------------------------
(* The inductive invariant behind the properties. *)

\* The labels of a handle that is still counted.
Live == {"idle", "send", "call", "last", "notify"}
Handles == {s \in Senders : pc[s] \in Live}

\* Who is in the callback holds the delivery mutex, and nobody else does.
MutexHeld == \A a \in Actors : pc[a] \in {"call", "last"} <=> delivery = a

\* While the sink accepts, or a delivery runs, no terminal error has been
\* delivered; the delivery of one has already cleared the flag.
NotYetTold ==
  /\ accepting \/ delivery # Nobody => \A i \in 1 .. Len(calls) : ~calls[i].last
  /\ \A a \in Actors : pc[a] = "last" => ~accepting

\* What the ghosts of the two other ends imply, and the installed hook.
EndsStop ==
  /\ closed => ~accepting /\ delivery = Nobody
  /\ orphaned => ~accepting
  /\ hub # "new" => on_closed

\* The count is that of the live handles; one that is going down was the last.
HandlesCounted ==
  /\ sender_count = Cardinality(Handles)
  /\ orphaned \/ (\E s \in Senders : pc[s] \in {"dropped", "gone"}) => sender_count = 0

CallbackInv ==
  /\ MutexHeld /\ NotYetTold /\ EndsStop /\ HandlesCounted
  /\ NothingAfterTerminal /\ EndsForAReason /\ ClosureReported
=============================================================================
