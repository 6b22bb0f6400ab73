--------------------------- MODULE SlidingWindow ---------------------------
(***************************************************************************)
(* What every history of this repository promises: it holds the newest     *)
(* Size readings handed to it, oldest first.  The first Size readings are  *)
(* appended; from then on each new one pushes the oldest one out.          *)
(***************************************************************************)
EXTENDS Naturals, Sequences

CONSTANTS
  Item, \* the readings
  Size  \* how many of them are kept, at least one

VARIABLE window

Slide(w, item) ==
  IF Len(w) < Size THEN Append(w, item) ELSE Append(Tail(w), item)

Init == window = << >>

Push(item) == window' = Slide(window, item)

Next == \E item \in Item : Push(item)

Spec == Init /\ [][Next]_window
=============================================================================
