---------------------------- MODULE InOrderTest ----------------------------
(***************************************************************************)
(* What the tester promises, with no FIFO, clock or pipeline in sight: the  *)
(* vectors of the program are issued in order, each response is compared    *)
(* with the expectation of its own vector, once and in that order, and no   *)
(* more than Depth vectors are under way at a time.                         *)
(***************************************************************************)
EXTENDS Integers, Sequences

CONSTANTS Depth, MaxVectors

VARIABLES
  issued,    \* vectors issued
  compared   \* the comparisons made: <<expectation of, response to>>

vars == <<issued, compared>>

Init == issued = 0 /\ compared = <<>>

Issue ==
  /\ issued < MaxVectors
  /\ issued - Len(compared) < Depth
  /\ issued' = issued + 1

Compare ==
  /\ Len(compared) < issued
  /\ LET n == Len(compared) + 1
     IN  compared' = Append(compared, <<n, n>>)

(* stim and check share a clock: both may act on one edge. *)
Next ==
  \/ Issue /\ UNCHANGED compared
  \/ Compare /\ UNCHANGED issued
  \/ Issue /\ Compare

Spec == Init /\ [][Next]_vars
=============================================================================
