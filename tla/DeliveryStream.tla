--------------------------- MODULE DeliveryStream ---------------------------
(* What a subscription channel promises its consumer, whichever overflow    *)
(* policy it was created with: data in the order it was published, then at  *)
(* most one fault, then the end.  A lossy stream may skip data, but says    *)
(* before the next item exactly how many items it skipped.                  *)
EXTENDS Naturals, Sequences

CONSTANTS Items, Faults, NoFault,
          Lossy      \* whether the policy may skip data (DropOldest)

VARIABLES
  published,   \* the data accepted from the producers, in order
  open,        \* whether more may be published
  fault,       \* the terminal fault, or NoFault
  received,    \* what the consumer read
  position,    \* index in published of the last item read
  gap,         \* items skipped just before the last item read
  reported,    \* whether the consumer read the fault
  finished,    \* whether the consumer read the end of the stream
  abandoned    \* whether the consumer went away

vars == <<published, open, fault, received, position, gap, reported, finished, abandoned>>
consumer == <<received, position, gap, reported, finished, abandoned>>

Init ==
  /\ published = <<>> /\ open = TRUE /\ fault = NoFault
  /\ received = <<>> /\ position = 0 /\ gap = 0
  /\ reported = FALSE /\ finished = FALSE /\ abandoned = FALSE

Publish(i) ==
  /\ open
  /\ published' = Append(published, i)
  /\ UNCHANGED <<open, fault, consumer>>

Fail(f) ==
  /\ open
  /\ fault' = f
  /\ open' = FALSE
  /\ UNCHANGED <<published, consumer>>

Close ==
  /\ open
  /\ open' = FALSE
  /\ UNCHANGED <<published, fault, consumer>>

Receive(skipped) ==
  /\ ~reported /\ ~finished /\ ~abandoned
  /\ skipped > 0 => Lossy
  /\ position + skipped + 1 <= Len(published)
  /\ position' = position + skipped + 1
  /\ gap' = skipped
  /\ received' = Append(received, published[position'])
  /\ UNCHANGED <<published, open, fault, reported, finished, abandoned>>

\* Nothing is left unread or unaccounted for when the stream ends.
Drained == ~abandoned /\ position = Len(published)

ReportFault ==
  /\ Drained /\ fault # NoFault /\ ~reported
  /\ reported' = TRUE
  /\ UNCHANGED <<published, open, fault, received, position, gap, finished, abandoned>>

Finish ==
  /\ Drained /\ ~open /\ (fault # NoFault => reported)
  /\ finished' = TRUE
  /\ UNCHANGED <<published, open, fault, received, position, gap, reported, abandoned>>

\* A consumer that goes away discards an unread fault.
Abandon ==
  /\ ~abandoned
  /\ abandoned' = TRUE
  /\ open' = FALSE
  /\ fault' = IF reported THEN fault ELSE NoFault
  /\ UNCHANGED <<published, received, position, gap, reported, finished>>

Next ==
  \/ \E i \in Items : Publish(i)
  \/ \E f \in Faults : Fail(f)
  \/ \E n \in 0 .. Len(published) : Receive(n)
  \/ Close \/ ReportFault \/ Finish \/ Abandon

Spec == Init /\ [][Next]_vars
=============================================================================
