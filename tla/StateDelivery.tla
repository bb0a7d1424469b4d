---------------------------- MODULE StateDelivery ----------------------------
(***************************************************************************)
(* State delivery (engine/shared_subscriptions/state_delivery.rs): a       *)
(* consumer of conflated current images.  Feeds mark their topics dirty;   *)
(* the receiver takes dirty topics in FIFO order, reads the image of each  *)
(* from its feed outside the lock, and leases the rows until they are      *)
(* committed or given back.  A draining close freezes the images that are  *)
(* still owed (SubscriptionConsumer::prepare_unsubscribe_deliveries).      *)
(*                                                                         *)
(* A key is one membership of the consumer, with the feed it reads.  Of an *)
(* image the model keeps its revision and whether it is valid.  A step is  *)
(* what a thread does under the lock of the delivery or of a feed.         *)
(***************************************************************************)
EXTENDS Integers, Sequences, FiniteSets, SequencesExt

CONSTANTS Keys,
          Limit,        \* rows of one delivery (the flush threshold)
          MaxChanges    \* bound: revisions, failures and removals of the topics

ASSUME StateDeliveryConstants ==
  /\ IsFiniteSet(Keys)
  /\ Limit \in Nat \ {0} /\ MaxChanges \in Nat

NoRev == -1
Image == [rev : Int, valid : BOOLEAN]
NoImage == [rev |-> NoRev, valid |-> FALSE]
Absent == [here |-> FALSE, revision |-> 0, acknowledged |-> NoRev, invalidated |-> NoRev,
           queued |-> FALSE, in_flight |-> FALSE, retired |-> FALSE, final |-> NoImage]

VARIABLES
  label,            \* label[k]: the alias of k, which a later key may reuse
  feed,             \* feed[k]: revision, image, and whether k is active on it
  detaching,        \* keys off their feed, not yet off the delivery
  stream,           \* the sink of the consumer: how far its end has got
  members, queue,
  frozen_images, frozen_queue,
  terminal,         \* the terminal error: none, set, leased, delivered
  source_closed, receiver_closed,
  phase,            \* live, freezing, sealed (both flags), frozen
  permit, woken,    \* Notify: stored permit; what reached the pending Notified
  pc,               \* the receiver
  selected, rows,   \* a delivery being built, and the rows of the live lease
  drained,          \* receipts of the drain
  whole, losses, view, owed   \* history, see StateView; images owed at the freeze

feeds == <<label, feed, detaching, whole, losses>>
dirty == <<members, queue>>
frozenv == <<frozen_images, frozen_queue>>
flags == <<terminal, source_closed, receiver_closed, phase>>
notify == <<permit, woken>>
reader == <<pc, selected, rows, drained, view, owed>>
vars == <<feeds, stream, dirty, frozenv, flags, notify, reader>>

Init ==
  /\ label \in {[k \in Keys |-> {k}], [k \in Keys |-> Keys]}
  /\ \E image \in {"unknown", "valid", "lost"} :
       /\ feed = [k \in Keys |->
            [rev |-> 0, image |-> image, active |-> FALSE, new |-> TRUE]]
       /\ whole = [k \in Keys |-> IF image = "valid" THEN {0} ELSE {}]
  /\ detaching = {}
  /\ stream = "open"
  /\ members = [k \in Keys |-> Absent] /\ queue = <<>>
  /\ frozen_images = <<>> /\ frozen_queue = <<>>
  /\ terminal = "none" /\ source_closed = FALSE /\ receiver_closed = FALSE
  /\ phase = "live"
  /\ permit = FALSE /\ woken = "no"
  /\ pc = "idle" /\ selected = <<>> /\ rows = <<>> /\ drained = <<>>
  /\ losses = [k \in Keys |-> {}]
  /\ view = [k \in Keys |-> NoImage] /\ owed = [k \in Keys |-> NoImage]

maximum(a, b) == IF a > b THEN a ELSE b

\* What retain or filter leaves of s: its elements in S, in order.
Kept(s, S) ==
  LET kept[i \in 0 .. Len(s)] ==
        IF i = 0 THEN <<>>
        ELSE IF s[i] \in S THEN Append(kept[i - 1], s[i]) ELSE kept[i - 1]
  IN  kept[Len(s)]

-----------------------------------------------------------------------------
(* Notify: recv has enabled its Notified before it looks at the queue.       *)

Receiving == pc \in {"select", "snapshot", "stamp", "check", "parked"}

notify_one ==
  IF Receiving /\ woken = "no"
    THEN woken' = "one" /\ UNCHANGED permit
    ELSE permit' = TRUE /\ UNCHANGED woken

notify_waiters ==
  /\ woken' = IF Receiving /\ woken = "no" THEN "all" ELSE woken
  /\ UNCHANGED permit

\* The Notified is dropped; one that got a notify_one passes it on.
Dropped == permit' = (permit \/ woken = "one") /\ woken' = "no"

-----------------------------------------------------------------------------
(* What the feeds and the hub do to the delivery.                            *)

Marking == ~source_closed /\ ~receiver_closed /\ phase \in {"live", "freezing"}

\* The common end of mark and retire: m is the changed member.
Touch(k, m) ==
  LET silent == phase = "freezing" \/ m.queued \/ m.in_flight IN
  /\ members' = [members EXCEPT ![k] = [m EXCEPT !.queued = @ \/ ~silent]]
  /\ IF silent THEN UNCHANGED <<queue, notify>>
     ELSE queue' = Append(queue, k) /\ notify_one

mark(k, rev, loss) ==
  IF Marking /\ members[k].here
    THEN Touch(k, [members[k] EXCEPT
           !.revision = maximum(@, rev),
           !.invalidated = IF loss /\ @ = NoRev THEN rev ELSE @])
    ELSE UNCHANGED <<dirty, notify>>

retire(k) ==
  IF Marking /\ members[k].here
    THEN Touch(k, [members[k] EXCEPT
           !.revision = @ + 1, !.invalidated = NoRev, !.retired = TRUE,
           !.final = [rev |-> members[k].revision + 1, valid |-> FALSE]])
    ELSE UNCHANGED <<dirty, notify>>

\* register, and the mark of a feed that is recovering.
register(k) ==
  LET old == {j \in Keys : members[j].retired /\ label[j] = label[k]} IN
  IF Marking /\ phase = "live"
    THEN /\ members' = [j \in Keys |->
              IF j = k THEN [Absent EXCEPT
                   !.here = TRUE, !.revision = feed[k].rev, !.queued = TRUE,
                   !.invalidated = IF feed[k].image = "lost" THEN feed[k].rev ELSE NoRev]
              ELSE IF j \in old THEN Absent ELSE members[j]]
         /\ queue' = Append(Kept(queue, Keys \ old), k)
         /\ notify_one
    ELSE UNCHANGED <<dirty, notify>>

\* remove, and detach, which leaves a freezing delivery alone.
remove(k) ==
  /\ members' = [members EXCEPT ![k] = Absent]
  /\ queue' = Kept(queue, Keys \ {k})

Others == <<frozenv, flags, reader>>

Active == {k \in Keys : feed[k].active}

\* A close and the changes of the topics exclude each other (the operations lock).
Closing == phase # "live" \/ receiver_closed

Left == {k \in Keys : ~feed[k].active /\ ~feed[k].new}

\* Something happens to an active topic.
Changes(k) ==
  /\ feed[k].active
  /\ SumFunction([j \in Keys |-> feed[j].rev]) + Cardinality(Left) < MaxChanges

\* on_update: a new image, or the one that ends a recovery.
Update(k) ==
  /\ Changes(k)
  /\ feed' = [feed EXCEPT ![k] = [@ EXCEPT !.rev = feed[k].rev + 1, !.image = "valid"]]
  /\ whole' = [whole EXCEPT ![k] = @ \cup {feed[k].rev + 1}]
  /\ mark(k, feed[k].rev + 1, FALSE)
  /\ UNCHANGED <<label, detaching, losses, stream, Others>>

\* on_data_loss.
DataLoss(k) ==
  /\ Changes(k)
  /\ feed' = [feed EXCEPT ![k] = [@ EXCEPT !.rev = feed[k].rev + 1, !.image = "lost"]]
  /\ losses' = [losses EXCEPT ![k] = @ \cup {feed[k].rev + 1}]
  /\ mark(k, feed[k].rev + 1, TRUE)
  /\ UNCHANGED <<label, detaching, whole, stream, Others>>

\* on_stream_availability, a status or added fields: a new revision of the image.
Availability(k) ==
  /\ Changes(k)
  /\ feed' = [feed EXCEPT ![k].rev = @ + 1]
  /\ whole' = IF feed[k].image = "valid"
                THEN [whole EXCEPT ![k] = @ \cup {feed[k].rev + 1}] ELSE whole
  /\ mark(k, feed[k].rev + 1, FALSE)
  /\ UNCHANGED <<label, detaching, losses, stream, Others>>

\* record_topic_failure: the row is final; the failure of the last active topic
\* goes on to fail the stream.
TopicFails(k) ==
  /\ Changes(k)
  /\ feed' = [feed EXCEPT ![k].active = FALSE]
  /\ retire(k)
  /\ stream' = IF stream = "open" /\ Active = {k} THEN "failing" ELSE stream
  /\ UNCHANGED <<label, detaching, whole, losses, Others>>

\* add_validated attaches a topic to its feed, under the mutations gate.
Attach(k) ==
  /\ feed[k].new /\ detaching = {}
  /\ stream = "open" /\ ~Closing
  /\ \A j \in Active : label[j] # label[k]
  /\ feed' = [feed EXCEPT ![k] = [@ EXCEPT !.active = TRUE, !.new = FALSE]]
  /\ register(k)
  /\ UNCHANGED <<label, detaching, whole, losses, stream, Others>>

\* SubscriptionHandle::remove takes the topic off its feed, and then ...
Detach(k) ==
  /\ Changes(k) /\ ~Closing
  /\ feed' = [feed EXCEPT ![k].active = FALSE]
  /\ detaching' = detaching \cup {k}
  /\ UNCHANGED <<label, whole, losses, stream, dirty, notify, Others>>

\* ... off the delivery (after_detach).
AfterDetach(k) ==
  /\ k \in detaching
  /\ detaching' = detaching \ {k}
  /\ IF phase = "live" THEN remove(k) ELSE UNCHANGED dirty
  /\ UNCHANGED <<label, feed, whole, losses, stream, notify, Others>>

\* The engine shuts down.
EngineStops ==
  /\ stream = "open"
  /\ stream' = "failing"
  /\ UNCHANGED <<feeds, dirty, notify, Others>>

Unqueued == [k \in Keys |-> [members[k] EXCEPT !.queued = FALSE]]

\* Mutant: the error wakes nobody.
failSilently ==
  /\ stream = "failing"
  /\ stream' = "closing"
  /\ IF receiver_closed \/ terminal \in {"leased", "delivered"}
       THEN UNCHANGED <<dirty, frozenv, flags, notify>>
       ELSE /\ terminal' = "set" /\ source_closed' = TRUE
            /\ members' = Unqueued /\ queue' = <<>> /\ frozen_queue' = <<>>
            /\ UNCHANGED <<frozen_images, receiver_closed, phase, notify>>
  /\ UNCHANGED <<feeds, reader>>

\* fail: the callback of the sink.
fail ==
  /\ stream = "failing"
  /\ stream' = "closing"
  /\ IF receiver_closed \/ terminal \in {"leased", "delivered"}
       THEN UNCHANGED <<dirty, frozenv, flags, notify>>
       ELSE /\ terminal' = "set" /\ source_closed' = TRUE
            /\ members' = Unqueued /\ queue' = <<>> /\ frozen_queue' = <<>>
            /\ notify_waiters
            /\ UNCHANGED <<frozen_images, receiver_closed, phase>>
  /\ UNCHANGED <<feeds, reader>>

\* close_source: the hook of the sink.
close_source ==
  /\ stream = "closing"
  /\ stream' = "closed"
  /\ source_closed' = TRUE
  /\ IF phase = "live"
       THEN members' = [k \in Keys |-> Absent] /\ queue' = <<>>
       ELSE UNCHANGED dirty
  /\ notify_waiters
  /\ UNCHANGED <<feeds, frozenv, terminal, receiver_closed, phase, reader>>

-----------------------------------------------------------------------------
(* recv and try_recv.                                                        *)

RecvBegin ==
  /\ pc = "idle" /\ phase = "live"
  /\ pc' = "select"
  /\ woken' = IF permit THEN "used" ELSE "no"
  /\ permit' = FALSE
  /\ UNCHANGED <<feeds, stream, dirty, frozenv, flags, selected, rows, drained, view, owed>>

\* A terminal error comes before any image.
SelectTerminal ==
  /\ pc = "select"
  /\ ~receiver_closed /\ terminal = "set"
  /\ terminal' = "leased"
  /\ pc' = "lease"
  /\ Dropped
  /\ UNCHANGED <<feeds, stream, dirty, frozenv, source_closed, receiver_closed, phase,
                 selected, rows, drained, view, owed>>

SelectNothing ==
  /\ pc = "select"
  /\ receiver_closed \/ terminal \in {"leased", "delivered"}
     \/ (terminal = "none" /\ queue = <<>>)
  /\ pc' = "check"
  /\ UNCHANGED <<feeds, stream, dirty, frozenv, flags, notify, selected, rows, drained,
                 view, owed>>

SelectDirty ==
  LET n == IF Limit < Len(queue) THEN Limit ELSE Len(queue)
      head == SubSeq(queue, 1, n)
  IN
  /\ pc = "select"
  /\ ~receiver_closed /\ terminal = "none" /\ queue # <<>>
  /\ queue' = SubSeq(queue, n + 1, Len(queue))
  /\ members' = [k \in Keys |-> IF k \in ToSet(head)
       THEN [members[k] EXCEPT !.queued = FALSE, !.in_flight = TRUE] ELSE members[k]]
  /\ selected' = [i \in 1 .. n |-> [key |-> head[i],
       invalidated |-> members[head[i]].invalidated, final |-> members[head[i]].final]]
  /\ pc' = "snapshot"
  /\ UNCHANGED <<feeds, stream, frozenv, flags, notify, rows, drained, view, owed>>

FeedImage(k) == [rev |-> feed[k].rev, valid |-> feed[k].image = "valid"]

\* The image of the next key: the final one, the feed's, or one that became
\* final meanwhile.  A key without any is removed.
Snapshot ==
  LET s == Head(selected)
      image == IF s.final # NoImage THEN s.final
               ELSE IF feed[s.key].active /\ members[s.key].here THEN FeedImage(s.key)
               ELSE members[s.key].final
  IN
  /\ pc = "snapshot"
  /\ IF image = NoImage
       THEN /\ remove(s.key)
            /\ selected' = Tail(selected)
            /\ pc' = IF Len(selected) > 1 THEN "snapshot"
                     ELSE IF rows # <<>> THEN "lease" ELSE "check"
            /\ IF pc' = "lease" THEN Dropped ELSE UNCHANGED notify
       ELSE /\ selected' = <<[s EXCEPT !.final = image]>> \o Tail(selected)
            /\ pc' = "stamp"
            /\ UNCHANGED <<dirty, notify>>
  /\ UNCHANGED <<feeds, stream, frozenv, flags, rows, drained, view, owed>>

\* The marker is read again: the member's, or else the one that was selected, if
\* the image is not older.
MarkedAt(s) ==
  LET UpTo(at) == IF at <= s.final.rev THEN at ELSE NoRev
      now == UpTo(members[s.key].invalidated)
  IN  IF now # NoRev THEN now ELSE UpTo(s.invalidated)

\* A valid image that a marker precedes goes out as the invalidation, and stays
\* dirty.
Stamp ==
  LET s == Head(selected)
      image == s.final
      at == MarkedAt(s)
      row == [key |-> s.key, invalidated |-> at,
              rev |-> IF image.valid /\ at # NoRev THEN at ELSE image.rev,
              valid |-> image.valid /\ at = NoRev]
  IN
  /\ pc = "stamp"
  /\ rows' = Append(rows, row)
  /\ selected' = Tail(selected)
  /\ pc' = IF Len(selected) > 1 THEN "snapshot" ELSE "lease"
  /\ IF pc' = "lease" THEN Dropped ELSE UNCHANGED notify
  /\ UNCHANGED <<feeds, stream, dirty, frozenv, flags, drained, view, owed>>

Ended ==
  \/ receiver_closed \/ terminal = "delivered"
  \/ source_closed /\ queue = <<>> /\ terminal = "none"

\* recv found nothing: it returns None or waits.
Check ==
  /\ pc = "check"
  /\ pc' = IF Ended THEN "idle" ELSE "parked"
  /\ IF Ended THEN Dropped ELSE UNCHANGED notify
  /\ UNCHANGED <<feeds, stream, dirty, frozenv, flags, selected, rows, drained, view, owed>>

Wake ==
  /\ pc = "parked" /\ woken # "no"
  /\ pc' = "idle" /\ woken' = "no"
  /\ UNCHANGED <<feeds, stream, dirty, frozenv, flags, permit, selected, rows, drained,
                 view, owed>>

\* The caller drops the future.
CancelRecv ==
  /\ pc = "parked"
  /\ pc' = "idle"
  /\ Dropped
  /\ UNCHANGED <<feeds, stream, dirty, frozenv, flags, selected, rows, drained, view, owed>>

-----------------------------------------------------------------------------
(* The lease of a live delivery.                                             *)

RowKeys == [i \in DOMAIN rows |-> rows[i].key]
RowOf(k) == rows[CHOOSE i \in DOMAIN rows : rows[i].key = k]

\* Mutant: the marker is cleared although the row did not carry it.
SettledUnmarked(k, committed) ==
  LET m == members[k]
      r == RowOf(k)
  IN  IF committed
        THEN [m EXCEPT !.in_flight = FALSE,
                       !.acknowledged = maximum(@, r.rev),
                       !.invalidated = NoRev]
        ELSE [m EXCEPT !.in_flight = FALSE]

\* What finish makes of the member of a row.
Settled(k, committed) ==
  LET m == members[k]
      r == RowOf(k)
  IN  IF committed
        THEN [m EXCEPT !.in_flight = FALSE,
                       !.acknowledged = maximum(@, r.rev),
                       !.invalidated = IF @ = r.invalidated THEN NoRev ELSE @]
        ELSE [m EXCEPT !.in_flight = FALSE]

\* Mutant: what changed while the row was in flight is not looked at.
staysDirtyIfDropped(m, committed) == ~committed

\* Whether a member must be delivered again.
staysDirty(m, committed) ==
  ~committed \/ m.invalidated # NoRev \/ m.acknowledged < m.revision

finish(committed) ==
  LET can_queue == /\ ~receiver_closed /\ ~source_closed
                   /\ terminal = "none" /\ phase = "live"
      Leased(k) == k \in ToSet(RowKeys) /\ members[k].here
      Again(k) == Leased(k) /\ staysDirty(Settled(k, committed), committed)
      Gone(k) == phase = "live" /\ members[k].retired /\ committed /\ ~Again(k)
      Requeued(k) == can_queue /\ Again(k) /\ ~members[k].queued
  IN
  /\ members' = [k \in Keys |->
       IF ~Leased(k) THEN members[k]
       ELSE IF Gone(k) THEN Absent
       ELSE [Settled(k, committed) EXCEPT !.queued = @ \/ Requeued(k)]]
  /\ queue' = queue \o Kept(RowKeys, {k \in Keys : Requeued(k)})
  /\ notify_waiters

\* The consumer keeps the rows (acknowledge, commit).
Commit ==
  /\ pc = "lease" /\ rows # <<>>
  /\ finish(TRUE)
  /\ view' = [k \in Keys |-> IF k \in ToSet(RowKeys)
       THEN [rev |-> RowOf(k).rev, valid |-> RowOf(k).valid] ELSE view[k]]
  /\ pc' = "idle" /\ rows' = <<>>
  /\ UNCHANGED <<feeds, stream, frozenv, flags, selected, drained, owed>>

\* The lease is dropped.
GiveBack ==
  /\ pc = "lease" /\ rows # <<>>
  /\ finish(FALSE)
  /\ pc' = "idle" /\ rows' = <<>>
  /\ UNCHANGED <<feeds, stream, frozenv, flags, selected, drained, view, owed>>

\* finish_terminal.
CommitTerminal ==
  /\ pc = "lease" /\ rows = <<>>
  /\ terminal' = "delivered"
  /\ queue' = <<>> /\ frozen_queue' = <<>>
  /\ pc' = "idle"
  /\ notify_waiters
  /\ UNCHANGED <<feeds, stream, members, frozen_images, source_closed, receiver_closed,
                 phase, selected, rows, drained, view, owed>>

GiveBackTerminal ==
  /\ pc = "lease" /\ rows = <<>>
  /\ terminal' = IF receiver_closed THEN "none" ELSE "set"
  /\ pc' = "idle"
  /\ notify_waiters
  /\ UNCHANGED <<feeds, stream, dirty, frozenv, source_closed, receiver_closed, phase,
                 selected, rows, drained, view, owed>>

-----------------------------------------------------------------------------
(* prepare_close.  The reader has no lease: close_receiver waits for it.     *)

FreezeBegin ==
  LET fresh == Kept(queue, {k \in Keys : ~members[k].retired}) IN
  /\ pc \in {"idle", "parked"}
  /\ ~Closing /\ detaching = {}
  /\ phase' = "freezing"
  /\ selected' = [i \in DOMAIN fresh |->
       [key |-> fresh[i], invalidated |-> NoRev, final |-> NoImage]]
  /\ pc' = "freeze"
  /\ Dropped
  /\ UNCHANGED <<feeds, stream, dirty, frozenv, terminal, source_closed, receiver_closed,
                 rows, drained, view, owed>>

FreezeSnapshot ==
  LET k == Head(selected).key
      m == members[k]
  IN
  /\ pc = "freeze" /\ selected # <<>>
  /\ selected' = Tail(selected)
  /\ IF ~m.here \/ m.retired THEN UNCHANGED dirty
     ELSE IF feed[k].active
       THEN /\ members' = [members EXCEPT ![k] = [m EXCEPT
                 !.revision = maximum(@, feed[k].rev), !.final = FeedImage(k)]]
            /\ UNCHANGED queue
     ELSE IF m.final = NoImage THEN remove(k) ELSE UNCHANGED dirty
  /\ UNCHANGED <<feeds, stream, frozenv, flags, notify, pc, rows, drained, view, owed>>

\* The final images are taken, with the markers as they are now.
FreezeSeal ==
  LET final == Kept(queue, {k \in Keys : members[k].final # NoImage}) IN
  /\ pc = "freeze" /\ selected = <<>>
  /\ phase' = "sealed"
  /\ rows' = [i \in DOMAIN final |-> LET m == members[final[i]] IN
       [key |-> final[i], rev |-> m.final.rev, valid |-> m.final.valid,
        invalidated |-> m.invalidated]]
  /\ owed' = [k \in Keys |-> IF k \in ToSet(final) THEN members[k].final ELSE NoImage]
  /\ members' = [k \in Keys |-> [members[k] EXCEPT !.queued = FALSE, !.final = NoImage]]
  /\ queue' = <<>>
  /\ pc' = "seal"
  /\ UNCHANGED <<feeds, stream, frozenv, terminal, source_closed, receiver_closed, notify,
                 selected, drained, view>>

Marker(r) == IF r.invalidated <= r.rev THEN r.invalidated ELSE NoRev
BothEpochs(r) == r.valid /\ Marker(r) # NoRev

\* Mutant: an invalidation replaces the image that follows it.
frozenInvalidOnly(sealed) ==
  [i \in DOMAIN sealed |-> LET r == sealed[i] IN
     [key |-> r.key, invalidated |-> Marker(r), recovery |-> FALSE,
      rev |-> IF BothEpochs(r) THEN Marker(r) ELSE r.rev,
      valid |-> r.valid /\ ~BothEpochs(r)]]

\* Invalidations and images first, then the images that follow an invalidation.
frozenImages(sealed) ==
  LET first == [i \in DOMAIN sealed |-> LET r == sealed[i] IN
        [key |-> r.key, invalidated |-> Marker(r), recovery |-> FALSE,
         rev |-> IF BothEpochs(r) THEN Marker(r) ELSE r.rev,
         valid |-> r.valid /\ ~BothEpochs(r)]]
      both == Kept(sealed, {r \in ToSet(sealed) : BothEpochs(r)})
  IN  first \o [i \in DOMAIN both |->
        [key |-> both[i].key, invalidated |-> NoRev, recovery |-> TRUE,
         rev |-> both[i].rev, valid |-> TRUE]]

FreezePublish ==
  /\ pc = "seal"
  /\ frozen_images' = frozenImages(rows)
  /\ frozen_queue' = IF terminal = "none"
       THEN [i \in 1 .. Len(frozenImages(rows)) |-> i] ELSE frozen_queue
  /\ phase' = "frozen" /\ source_closed' = TRUE
  /\ rows' = <<>>
  /\ pc' = "unsubscribe"
  /\ UNCHANGED <<feeds, stream, dirty, terminal, receiver_closed, notify, selected, drained,
                 view, owed>>

AllDetached == [k \in Keys |-> [feed[k] EXCEPT !.active = FALSE, !.new = FALSE]]

\* SubscriptionHandle::unsubscribe; the delivery is frozen and keeps its members.
Unsubscribe ==
  /\ pc = "unsubscribe"
  /\ feed' = AllDetached
  /\ stream' = IF stream = "open" THEN "closing" ELSE stream
  /\ pc' = "drain"
  /\ UNCHANGED <<label, detaching, whole, losses, dirty, frozenv, flags, notify, selected,
                 rows, drained, view, owed>>

-----------------------------------------------------------------------------
(* The drain: every receipt is taken, then all are committed or given back.  *)

covered_by(f) ==
  LET m == members[f.key] IN
  /\ m.here
  /\ m.acknowledged # NoRev /\ m.acknowledged >= f.rev
  /\ IF f.invalidated # NoRev THEN m.invalidated # f.invalidated
     ELSE m.invalidated = NoRev \/ m.invalidated > f.rev

\* One try_recv of the frozen images: up to Limit of one epoch.
DrainTake ==
  LET Ids == DOMAIN frozen_images
      left == Kept(frozen_queue, {i \in Ids : ~covered_by(frozen_images[i])})
      epoch == Kept(left, {i \in Ids :
                 frozen_images[i].recovery = frozen_images[left[1]].recovery})
      ids == SubSeq(epoch, 1, IF Limit < Len(epoch) THEN Limit ELSE Len(epoch))
  IN
  /\ pc = "drain"
  /\ stream \in {"closing", "closed"}
  /\ \/ /\ terminal = "set"
        /\ terminal' = "leased"
        /\ drained' = Append(drained, <<>>)
        /\ UNCHANGED <<frozen_queue, pc>>
     \/ /\ terminal = "none" /\ ids # <<>>
        /\ frozen_queue' = Kept(left, Ids \ ToSet(ids))
        /\ drained' = Append(drained, ids)
        /\ UNCHANGED <<terminal, pc>>
     \/ /\ terminal = "leased" \/ (terminal = "none" /\ ids = <<>>)
        /\ pc' = "drained"
        /\ UNCHANGED <<terminal, frozen_queue, drained>>
  /\ UNCHANGED <<feeds, stream, dirty, frozen_images, source_closed, receiver_closed, phase,
                 notify, selected, rows, view, owed>>

\* Acknowledge the receipts one after the other ...
DrainCommit ==
  LET ids == Head(drained) IN
  /\ pc \in {"drained", "commit"} /\ drained # <<>>
  /\ pc' = "commit"
  /\ drained' = Tail(drained)
  /\ IF ids = <<>>
       THEN /\ terminal' = "delivered" /\ queue' = <<>> /\ frozen_queue' = <<>>
            /\ UNCHANGED view
       ELSE /\ view' = [k \in Keys |->
                 LET shown == {i \in ToSet(ids) : frozen_images[i].key = k} IN
                 IF shown = {} THEN view[k]
                 ELSE LET f == frozen_images[CHOOSE i \in shown : TRUE]
                      IN  [rev |-> f.rev, valid |-> f.valid]]
            /\ UNCHANGED <<terminal, queue, frozen_queue>>
  /\ UNCHANGED <<feeds, stream, members, frozen_images, source_closed, receiver_closed,
                 phase, notify, selected, rows, owed>>

\* ... or give all of them back, in order, for another drain.
DrainGiveBack ==
  LET back == UNION {ToSet(drained[i]) : i \in DOMAIN drained}
      queued == back \cup ToSet(frozen_queue)
  IN
  /\ pc = "drained"
  /\ pc' = "drain" /\ drained' = <<>>
  /\ terminal' = IF terminal = "leased" THEN "set" ELSE terminal
  /\ frozen_queue' = IF terminal = "none"
       THEN Kept([i \in DOMAIN frozen_images |-> i], queued)
       ELSE frozen_queue
  /\ UNCHANGED <<feeds, stream, dirty, frozen_images, source_closed, receiver_closed, phase,
                 notify, selected, rows, view, owed>>

\* close: without a drain, by dropping what a drain left, or after its commit.
close ==
  /\ pc \in {"idle", "parked", "drain"} \/ (pc \in {"drained", "commit"} /\ drained = <<>>)
  /\ detaching = {}
  /\ receiver_closed' = TRUE /\ source_closed' = TRUE
  /\ members' = [k \in Keys |-> Absent] /\ queue' = <<>>
  /\ frozen_images' = <<>> /\ frozen_queue' = <<>>
  /\ terminal' = IF terminal = "set" THEN "none" ELSE terminal
  /\ feed' = AllDetached
  /\ stream' = IF stream = "open" THEN "closing" ELSE stream
  /\ pc' = IF pc \in {"drained", "commit"} THEN "published" ELSE "closed"
  /\ Dropped
  /\ UNCHANGED <<label, detaching, whole, losses, phase, selected, rows, drained, view, owed>>

-----------------------------------------------------------------------------
FeedStep(k) ==
  \/ Update(k) \/ DataLoss(k) \/ Availability(k) \/ TopicFails(k)
  \/ Attach(k) \/ Detach(k) \/ AfterDetach(k)

Receive ==
  \/ RecvBegin \/ SelectTerminal \/ SelectNothing \/ SelectDirty \/ Snapshot \/ Stamp
  \/ Check \/ Wake \/ CancelRecv
  \/ Commit \/ GiveBack \/ CommitTerminal \/ GiveBackTerminal

Drain ==
  \/ FreezeBegin \/ FreezeSnapshot \/ FreezeSeal \/ FreezePublish \/ Unsubscribe
  \/ DrainTake \/ DrainCommit \/ DrainGiveBack

Next ==
  \/ \E k \in Keys : FeedStep(k)
  \/ EngineStops \/ fail \/ close_source
  \/ Receive \/ Drain \/ close

Spec == Init /\ [][Next]_vars

-----------------------------------------------------------------------------
(* Properties. *)

Member == [here : BOOLEAN, revision : Nat, acknowledged : Int, invalidated : Int,
           queued : BOOLEAN, in_flight : BOOLEAN, retired : BOOLEAN, final : Image]

TypeOK ==
  /\ members \in [Keys -> Member]
  /\ queue \in Seq(Keys)
  /\ terminal \in {"none", "set", "leased", "delivered"}
  /\ stream \in {"open", "failing", "closing", "closed"}
  /\ phase \in {"live", "freezing", "sealed", "frozen"}
  /\ woken \in {"no", "used", "one", "all"}
  /\ view \in [Keys -> Image]

\* The FIFO holds every queued member once; a member in flight is in the hands
\* of the receiver.
QueueConsistent ==
  /\ \A i, j \in DOMAIN queue : i # j => queue[i] # queue[j]
  /\ ToSet(queue) = {k \in Keys : members[k].queued}
  /\ \A k \in Keys : members[k].in_flight =>
       \/ \E i \in DOMAIN selected : selected[i].key = k
       \/ \E i \in DOMAIN rows : rows[i].key = k

\* A consumer that is owed nothing is up to date: while the delivery is live, an
\* active topic that is neither queued nor in flight was last shown at the feed's
\* current revision and validity, whatever marks, losses and dropped leases came
\* while its rows were being read.
UpToDate ==
  phase = "live" /\ ~source_closed =>
    \A k \in Active : members[k].here /\ ~members[k].queued /\ ~members[k].in_flight =>
      view[k] = FeedImage(k)

\* The dirty list, the leases and the feeds agree.
DeliveryConsistent == TypeOK /\ QueueConsistent /\ UpToDate

\* A receiver that waits in recv has nothing to take, or its wakeup is on the way.
WaitingIsWoken ==
  pc = "parked" /\ woken = "no" => queue = <<>> /\ terminal # "set" /\ ~Ended

\* A drain that was published without an error has shown, of every topic that was
\* owed an image at the freeze, that very image last.
DrainComplete ==
  pc = "published" /\ terminal # "delivered" =>
    \A k \in Keys : owed[k] # NoImage => view[k] = owed[k]

\* The topics whose losses are marked.  A failure or removal between Snapshot and
\* Stamp clears the marker, and after fail there are none: a row in hand then hides
\* the loss, which StateView excuses.
Attached ==
  {k \in Keys : /\ members[k].here /\ ~members[k].retired
                /\ phase = "live" => ~source_closed}

\* The consumer sees each topic move forward only, and of an attached topic never
\* two valid images with a loss between them and no invalid one.
Conflation == INSTANCE StateView WITH Topics <- Keys, attached <- Attached

ImplementsView == Conflation!Spec

\* For TLC: the keys are interchangeable.
KeySymmetry == Permutations(Keys)
=============================================================================
