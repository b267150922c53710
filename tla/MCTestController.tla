-------------------------- MODULE MCTestController --------------------------
(***************************************************************************)
(* Instances of TestController for TLC.                                     *)
(***************************************************************************)
EXTENDS TestController

(* Every kind of record alone, before and after a vector, and in longer     *)
(* programs with vectors before and after; the empty program.               *)
Alone  == { <<op>> : op \in Ops \ {"END"} }
Pairs  == { <<"TEST_VECTOR", op>> : op \in Ops \ {"END"} }
            \cup { <<op, "TEST_VECTOR">> : op \in Ops \ {"END"} }
Longer ==
  { <<"TEST_VECTOR", "SWITCH_TARGET", "TEST_VECTOR">>,
    <<"TEST_VECTOR", "PLLRECONFIG", "SEND_DICMD", "TEST_VECTOR">>,
    <<"SETUP_BITMASK", "TEST_VECTOR", "TEST_VECTOR", "TEST_VECTOR">> }

Mixed == { Append(b, "END") : b \in {<<>>} \cup Alone \cup Pairs \cup Longer }

=============================================================================
