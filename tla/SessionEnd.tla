----------------------------- MODULE SessionEnd -----------------------------
(***************************************************************************)
(* What the parts of one worker session share: its calls, the thread that  *)
(* dispatches the SDK's messages, the thread that shuts it down, and how   *)
(* it comes to an end.                                                     *)
(***************************************************************************)
EXTENDS Naturals, FiniteSets

CONSTANTS Calls, Dispatcher, Stopper

ASSUME SessionConstants ==
  IsFiniteSet(Calls) /\ {Dispatcher, Stopper} \cap Calls = {} /\ Dispatcher # Stopper

VARIABLES
  shutting_down,  \* the worker's shutdown flag
  stopped,        \* an explicit shutdown has run
  over            \* the SDK session has ended and answers nothing any more

flags == <<shutting_down, stopped>>
Actors == Calls \cup {Dispatcher, Stopper}
=============================================================================
