------------------------------ MODULE MCConfrd ------------------------------
(***************************************************************************)
(* Instances of Confrd for TLC.                                             *)
(***************************************************************************)
EXTENDS Confrd

Lines(kinds, n) == UNION { [1 .. k -> kinds] : k \in 0 .. n }

(* All short files, and files that fill the SRAM. *)
ShortAndLong ==
  Lines({"vector", "pindef", "design", "measure"}, 3)
    \cup { <<"vector", "bad">>, <<"measure", "vector", "vector", "vector", "bad">> }
    \cup { <<"vector">> \o f : f \in [1 .. 4 -> {"vector", "pindef"}] }

(* Vectors, in two batches. *)
MeasureBetween == { <<"vector", "measure", "vector">> }

=============================================================================
