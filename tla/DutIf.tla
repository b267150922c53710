------------------------------- MODULE DutIf -------------------------------
(***************************************************************************)
(* The pll_clock domain of the tester in full: the pipeline of dut_if with  *)
(* its cycle counter, its two modes (a fixed number of cycles, or a trigger *)
(* with a time limit), the clock it gates for the device under test, and    *)
(* the command interpreter beside it.  The system clock domain is that of   *)
(* VectorFlow, which this module refines.                                   *)
(*                                                                          *)
(* The device under test is free: its outputs may be anything on any cycle. *)
(***************************************************************************)
EXTENDS CommandPath

CONSTANTS
  MaxVectors,   \* test vectors (bound of the model)
  MaxCommands,  \* commands (bound of the model)
  Commands,     \* kinds of command software sends
  CountRange,   \* values of the cycle counter (32 in the code)
  Pins,         \* outputs of the device under test
  Masks         \* trigger masks software sends

ASSUME DutIfAssumption ==
  /\ Depth \in Nat \ {0} /\ SyncStages \in Nat \ {0} /\ MaxVectors \in Nat
  /\ CountRange \in Nat \ {0}
  /\ Commands \subseteq {"SETUP_MUXES", "TRGMASK"}
  /\ Masks \subseteq SUBSET Pins

VARIABLES
  issued, stim, check, sLog, sRd, cLog, cRd, rLog, rRd, toPll, toSys, prevSys,
  prevPll, fetchBubble, exBubble, exVec, wrReq, wrVec,   \* as in VectorFlow
  tests,            \* the [mode, cycles] of each vector in sfifo
  exState,          \* dut_execute: state
  cycle_count_int,  \* dut_execute: cycle_count_int
  exRes,            \* dut_execute: result_r, cycle_count_r, timeout_r
  wrRes,            \* dut_writeback: wr_data_r
  rData,            \* the results in rfifo's history
  seen,      \* history: per cycle of the vector at execute, what was there
  finished,  \* history: that of each vector dut_execute has finished
  cmdsBefore \* history: commands written before each vector

dutVars  == <<exState, cycle_count_int, exRes, wrRes, rData, seen, finished>>
flowSysVars == <<issued, stim, check, sLog, cLog, cRd, rRd, toSys, prevSys>>
flowPllVars == <<sRd, rLog, toPll, prevPll, fetchBubble, exBubble, exVec,
                 wrReq, wrVec>>
vars     == <<flowSysVars, flowPllVars, dutVars, tests, cmdsBefore, cmdVars>>

ExView == IF exState = "IDLE" THEN "IDLE" ELSE "WAIT"

Flow == INSTANCE VectorFlow WITH exState <- ExView

stall_writeback == Flow!rfifo_wrfull

-----------------------------------------------------------------------------
(* dut_execute. *)

test == tests[sRd]     \* the fields of rd_data, sfifo's output register

(* Mutant: the comparison is one cycle early.                               *)
counter_match_Early == cycle_count_int + 1 = test.cycles

counter_match == cycle_count_int = test.cycles

(* miso & trigger_mask == miso *)
trigger_match(miso) == (miso \cap trigger_mask) = miso

(* next_state, given the outputs of the device under test. *)
NextState(miso) ==
  CASE exState = "IDLE" /\ fetchBubble -> "IDLE"
    [] exState = "IDLE" /\ ~fetchBubble ->
         IF test.mode = "FIXED" /\ test.cycles # 0 THEN "WAIT_COUNT"
         ELSE IF test.mode = "TRIGGER" /\ test.cycles > 0 /\ ~trigger_match(miso)
         THEN "WAIT_TRIGGER" ELSE "IDLE"
    [] exState = "WAIT_COUNT" ->
         IF counter_match THEN "IDLE" ELSE "WAIT_COUNT"
    [] exState = "WAIT_TRIGGER" ->
         IF counter_match \/ trigger_match(miso) THEN "IDLE" ELSE "WAIT_TRIGGER"

(* The next cycle_count_int and bubble_r. *)

(* Mutant: the counter is not reset between vectors.                        *)
NextCount_NoReset(next) == (cycle_count_int + 1) % CountRange

NextCount(next) ==
  IF next = "IDLE" THEN 0 ELSE (cycle_count_int + 1) % CountRange

(* Mutant: the bubble of fetch is passed on when a long vector ends.        *)
NextBubble_OfFetch(next) == fetchBubble \/ next # "IDLE"

NextBubble(next) ==
  IF exState # "IDLE" /\ next = "IDLE" THEN FALSE
                                       ELSE fetchBubble \/ next # "IDLE"

(* cycle_count_r alone is not held during a stall. *)
ExecuteStep(miso, next) ==
  /\ IF stall_writeback
     THEN /\ UNCHANGED <<exState, exBubble, exVec, cycle_count_int>>
          /\ exRes' = [exRes EXCEPT !.count = cycle_count_int]
     ELSE /\ exState' = next
          /\ exBubble' = NextBubble(next)
          /\ exVec' = Q(sLog, sRd, 0)
          /\ cycle_count_int' = NextCount(next)
          /\ exRes' = [miso |-> miso, count |-> cycle_count_int,
                       timeout |-> sRd > 0 /\ test.mode = "TRIGGER" /\ counter_match]

WritebackStep ==
  /\ Flow!WritebackStep
  /\ wrRes' = IF ~exBubble /\ ~stall_writeback THEN exRes ELSE wrRes
  /\ rData' = IF wrReq THEN Write(rData, wrRes, stall_writeback) ELSE rData

(***************************************************************************)
(* The device under test is clocked at the end of a cycle unless stall_n    *)
(* was taken down on the falling edge in the middle of it.                  *)
(***************************************************************************)
stall_n == ~stall_writeback /\ ~fetchBubble

(* History: what each vector went through while it was at execute.          *)
Observe(miso, next) ==
  LET now == [miso |-> miso, mask |-> trigger_mask]
  IN  IF Flow!Pending /\ ~stall_writeback
      THEN IF next = "IDLE"
           THEN /\ finished' = Append(finished, Append(seen, now))
                /\ seen' = <<>>
           ELSE seen' = Append(seen, now) /\ UNCHANGED finished
      ELSE UNCHANGED <<seen, finished>>

PllTick ==
  /\ \E miso \in SUBSET Pins :
       LET next == NextState(miso)
       IN  /\ ExecuteStep(miso, next)
           /\ Flow!FetchStep(stall_writeback \/ next # "IDLE")
           /\ Observe(miso, next)
  /\ WritebackStep
  /\ Flow!PllSync
  /\ PllCommand
  /\ UNCHANGED <<flowSysVars, tests, cmdsBefore>>

-----------------------------------------------------------------------------
(* The tests software writes: it gives a triggered test the longest time    *)
(* there is.                                                                *)
Tests == [mode : {"FIXED"}, cycles : 0 .. CountRange - 1]
           \cup [mode : {"TRIGGER"}, cycles : {CountRange - 1}]

(* stim sends a command as it leaves a state that waits for the FIFOs to    *)
(* drain.  Mutant: as it leaves any state for IDLE.                         *)
SendsCommand_Undrained == stim # "IDLE" /\ stim' = "IDLE"

SendsCommand == stim = "DRAIN" /\ stim' = "IDLE"

(* The system clock: stim sends a command where it waits for the FIFOs to   *)
(* drain, and a vector may be a test of any kind.                           *)
SysTick ==
  /\ UNCHANGED <<flowPllVars, dutVars>>
  /\ Flow!SysTick
  /\ IF issued' = issued
     THEN UNCHANGED <<tests, cmdsBefore>>
     ELSE /\ \E t \in Tests : tests' = Append(tests, t)
          /\ cmdsBefore' = Append(cmdsBefore, Len(dLog))
  /\ \/ SysCommand(<<>>)
     \/ /\ SendsCommand
        /\ ~dififo_wrfull /\ Len(dLog) < MaxCommands
        /\ \E cmd \in Commands, payload \in Masks :
             SysCommand(<<[cmd |-> cmd, payload |-> payload]>>)

Init ==
  /\ tests = <<>> /\ exState = "IDLE" /\ cycle_count_int = 0
  /\ exRes = [miso |-> {}, count |-> 0, timeout |-> FALSE]
  /\ wrRes = [miso |-> {}, count |-> 0, timeout |-> FALSE]
  /\ rData = <<>> /\ seen = <<>> /\ finished = <<>> /\ cmdsBefore = <<>>
  /\ CommandInit({})
  /\ Flow!Init

Next == SysTick \/ PllTick

Spec == Init /\ [][Next]_vars

-----------------------------------------------------------------------------

Results == [miso : SUBSET Pins, count : 0 .. CountRange - 1, timeout : BOOLEAN]

TypeOK ==
  /\ tests \in Seq(Tests)
  /\ exState \in {"IDLE", "WAIT_COUNT", "WAIT_TRIGGER"}
  /\ cycle_count_int \in 0 .. CountRange - 1 /\ Len(seen) < CountRange
  /\ {exRes, wrRes} \subseteq Results /\ rData \in Seq(Results)
  /\ mux_config \in SUBSET Pins /\ trigger_mask \in SUBSET Pins

(***************************************************************************)
(* Every vector gets the cycles it asks for, whatever stalls come between:  *)
(* a fixed test exactly its own number, counted from 0; a triggered one     *)
(* never more than its time limit allows, nor beyond a cycle in which only  *)
(* the pins of the trigger mask, and all of them, were asserted.  When else *)
(* it ends is left open: the documentation says when all pins of the mask   *)
(* are asserted (hardware.tex:635, embedded_sw.tex:555), the code           *)
(* (dut_if.v:307) when no other pin is, so that outputs that are all low    *)
(* are a trigger, too.                                                      *)
(***************************************************************************)
ExecutedInFull ==
  \A n \in 1 .. Len(finished) :
    LET h == finished[n]
    IN  /\ Len(h) <= tests[n].cycles + 1
        /\ tests[n].mode = "FIXED" => Len(h) = tests[n].cycles + 1
        /\ tests[n].mode = "TRIGGER" => \A k \in 1 .. Len(h) - 1 : h[k].miso # h[k].mask

(***************************************************************************)
(* The n-th result in rfifo is that of the n-th vector as a whole: outputs, *)
(* cycle count and timeout flag were taken on its last cycle, though they   *)
(* travel in registers of which not all are held during a stall.            *)
(***************************************************************************)
Outcome(t, h) ==
  [miso |-> h[Len(h)].miso, count |-> Len(h) - 1,
   timeout |-> t.mode = "TRIGGER" /\ Len(h) - 1 = t.cycles]

ResultsOfTheirVectors ==
  /\ TypeOK
  /\ \A n \in 1 .. Len(rData) : rData[n] = Outcome(tests[n], finished[n])

(***************************************************************************)
(* No vector is executed under a command that was sent after it: a command  *)
(* is sent only when every vector issued before it has its result.          *)
(***************************************************************************)
NoCommandTooEarly ==
  \A n \in Len(rLog) + 1 .. issued : Len(dLog) <= cmdsBefore[n]

(***************************************************************************)
(* dut_if implements the pll_clock side of the vector flow.                 *)
(***************************************************************************)
RefinesFlow == Flow!Spec
=============================================================================
