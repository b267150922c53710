---------------------------- MODULE MCDriverLife ----------------------------
(***************************************************************************)
(* DriverLife with the interrupt of the test runner (linuxsys.dts), with     *)
(* ENXIO itself and with -ENXIO, and two processes.                          *)
(***************************************************************************)
EXTENDS DriverLife, TLC

CONSTANTS u1, u2

MCIrqNumbers == {7, ENXIO, -ENXIO}
MCUsers == {u1, u2}
Symmetry == Permutations(MCUsers)
=============================================================================
