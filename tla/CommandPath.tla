---------------------------- MODULE CommandPath ----------------------------
(***************************************************************************)
(* The command FIFO from stim to dut_if (dififo) and the registers its      *)
(* commands load: the clock multiplexers of the inputs and the trigger      *)
(* mask.  It runs beside the stimulus FIFO and is synchronised on its own:  *)
(* nothing but timing orders a command and the vectors around it.           *)
(*                                                                          *)
(* To be composed: SysCommand is one edge of the system clock, PllCommand   *)
(* one edge of pll_clock.                                                   *)
(***************************************************************************)
EXTENDS Dcfifo

CONSTANTS
  Depth,       \* entries of the FIFO (FIFO_DEPTH, 16 in the code)
  SyncStages   \* flip-flops of a pointer synchroniser

VARIABLES
  dLog, dRd,    \* command FIFO: commands [cmd, payload]
  dToPll,       \* its write pointer on its way to pll_clock
  dToSys,       \* its read pointer on its way to the system clock
  dPrev,        \* both pointers before their clock's last edge
  diState,      \* dut_if: state
  mux_config,   \* dut_if: the payload of the last SETUP_MUXES command
  trigger_mask  \* dut_if: the payload of the last TRGMASK command

cmdSysVars == <<dLog, dToSys>>
cmdPllVars == <<dRd, dToPll, diState, mux_config, trigger_mask>>
cmdVars    == <<cmdSysVars, cmdPllVars, dPrev>>

dififo_wrfull  == WrFull(Len(dLog), dToSys[SyncStages], Depth)
dififo_rdempty == RdEmpty(dToPll[SyncStages], dRd)

CommandInit(resetPayload) ==
  /\ dLog = <<>> /\ dRd = 0
  /\ dToPll = [k \in 1 .. SyncStages |-> 0]
  /\ dToSys = [k \in 1 .. SyncStages |-> 0]
  /\ dPrev = [wr |-> 0, rd |-> 0]
  /\ diState = "IDLE"
  /\ mux_config = resetPayload /\ trigger_mask = resetPayload

(* written: the sequence of at most one command written on this edge. *)
SysCommand(written) ==
  /\ dLog' = IF dififo_wrfull THEN dLog ELSE dLog \o written
  /\ \E r \in Sampled(dPrev.rd, dRd, dToSys[1]) : dToSys' = Shift(dToSys, r)
  /\ dPrev' = [dPrev EXCEPT !.wr = Len(dLog)]
  /\ UNCHANGED cmdPllVars

(* The command interpreter of dut_if: IDLE pops, READ_CMD loads. *)
FetchCommand ==
  /\ diState = "IDLE"
  /\ dRd' = Read(dRd, dififo_rdempty)
  /\ diState' = IF dififo_rdempty THEN "IDLE" ELSE "READ_CMD"
  /\ UNCHANGED <<mux_config, trigger_mask>>

LoadCommand ==
  /\ diState = "READ_CMD"
  /\ diState' = "IDLE"
  /\ mux_config' = IF dLog[dRd].cmd = "SETUP_MUXES" THEN dLog[dRd].payload
                                                    ELSE mux_config
  /\ trigger_mask' = IF dLog[dRd].cmd = "TRGMASK" THEN dLog[dRd].payload
                                                  ELSE trigger_mask
  /\ UNCHANGED dRd

PllCommand ==
  /\ FetchCommand \/ LoadCommand
  /\ \E w \in Sampled(dPrev.wr, Len(dLog), dToPll[1]) : dToPll' = Shift(dToPll, w)
  /\ dPrev' = [dPrev EXCEPT !.rd = dRd]
  /\ UNCHANGED cmdSysVars
=============================================================================
