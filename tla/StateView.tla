------------------------------ MODULE StateView ------------------------------
(***************************************************************************)
(* What a consumer of state delivery may rely on.  Every topic has a       *)
(* current image that the feed replaces, and that a data loss invalidates. *)
(* The consumer is shown some of the images (the rest are conflated), each *)
(* no older than the one before.  While it has the topic, it is never      *)
(* shown two valid images of it with a loss between them unless it was     *)
(* told in between that the topic was invalid.                             *)
(***************************************************************************)
EXTENDS Integers

CONSTANTS Topics

VARIABLES
  whole,     \* whole[t]: revisions at which the image of t was valid
  losses,    \* losses[t]: revisions at which continuity was lost
  attached,  \* topics the consumer has
  view       \* view[t]: the last image of t the consumer took

vars == <<whole, losses, attached, view>>

Init ==
  /\ \E w \in {{}, {0}} : whole = [t \in Topics |-> w]
  /\ losses = [t \in Topics |-> {}]
  /\ attached = {}
  /\ view = [t \in Topics |-> [rev |-> -1, valid |-> FALSE]]

\* The feed moves on: newer valid images and newer losses; topics come and go.
Publish ==
  /\ \A t \in Topics :
       /\ whole[t] \subseteq whole'[t] /\ losses[t] \subseteq losses'[t]
       /\ \A new \in (whole'[t] \ whole[t]) \cup (losses'[t] \ losses[t]) :
            \A old \in whole[t] \cup losses[t] : old < new
  /\ attached' \subseteq Topics
  /\ UNCHANGED view

\* The consumer may take image i of t.
Showable(t, i) ==
  /\ i.rev >= view[t].rev
  /\ i.valid =>
       /\ i.rev \in whole[t]
       /\ view[t].valid /\ t \in attached =>
            ~ \E l \in losses[t] : view[t].rev < l /\ l <= i.rev

Show ==
  /\ \A t \in Topics : view'[t] # view[t] => Showable(t, view'[t])
  /\ UNCHANGED <<whole, losses, attached>>

Next == Publish \/ Show

Spec == Init /\ [][Next]_vars
=============================================================================
