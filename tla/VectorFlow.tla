----------------------------- MODULE VectorFlow -----------------------------
(***************************************************************************)
(* How a test vector travels through the tester and back:                   *)
(*                                                                          *)
(*          +--> sfifo --> dut_fetch -> dut_execute -> dut_writeback --+    *)
(*    stim -+                (pll_clock domain)                        |    *)
(*          +--> cfifo --> check  <------------------------- rfifo <---+    *)
(*                 (system clock domain)                                    *)
(*                                                                          *)
(* stim writes each vector to sfifo and what to expect of it to cfifo;      *)
(* dut_if applies the vectors and writes the results to rfifo; check pops   *)
(* rfifo and cfifo together and so relies on the order alone to know whose  *)
(* result it holds.                                                         *)
(*                                                                          *)
(* One step is one rising edge of one of the two clocks; the edges          *)
(* interleave freely, so every ratio of the two frequencies is covered.     *)
(* The pll_clock side is modelled register by register.  Of stim and check  *)
(* only the states that touch the FIFOs are kept apart: how long stim takes *)
(* to fetch a record and check to write a result back is left open here     *)
(* (module TestController has both in full, module DutIf the pipeline).     *)
(*                                                                          *)
(* A vector is its number in the order of issue; 0 is what the output       *)
(* registers hold before the first.                                         *)
(***************************************************************************)
EXTENDS Dcfifo

CONSTANTS
  Depth,       \* entries of each FIFO (FIFO_DEPTH, 16 in the code)
  SyncStages,  \* flip-flops of a pointer synchroniser
  MaxVectors   \* test vectors the loaded program holds

ASSUME FlowAssumption ==
  /\ Depth \in Nat \ {0}
  /\ SyncStages \in Nat \ {0}
  /\ MaxVectors \in Nat

VARIABLES
  issued,       \* vectors stim has written to its FIFOs
  stim,         \* stim.v: state
  check,        \* check.v: state
  sLog, sRd,    \* stimulus FIFO
  cLog, cRd,    \* check FIFO
  rLog, rRd,    \* result FIFO
  toPll,        \* synchronisers clocked by pll_clock
  toSys,        \* synchronisers clocked by the system clock
  prevSys,      \* system-clock pointers before that clock's last edge
  prevPll,      \* pll_clock pointers before that clock's last edge
  fetchBubble,  \* dut_fetch: bubble_r
  exState,      \* dut_execute: state
  exBubble,     \* dut_execute: bubble_r
  exVec,        \* dut_execute: whose response result_r holds
  wrReq,        \* dut_writeback: wr_req_r
  wrVec         \* dut_writeback: whose response wr_data_r holds

sysVars  == <<issued, stim, check, sLog, cLog, cRd, rRd, toSys, prevSys>>
pllVars  == <<sRd, rLog, toPll, prevPll, fetchBubble, exState, exBubble,
              exVec, wrReq, wrVec>>
vars     == <<sysVars, pllVars>>

SFifoDepth == Depth
CFifoDepth == Depth

RFifoDepth == Depth

Stages == 1 .. SyncStages

-----------------------------------------------------------------------------
(* The status flags each component sees. *)

seenByPll == toPll[SyncStages]
seenBySys == toSys[SyncStages]

sfifo_wrfull  == WrFull(Len(sLog), seenBySys.sRd, SFifoDepth)
sfifo_wrempty == WrEmpty(Len(sLog), seenBySys.sRd)
sfifo_rdempty == RdEmpty(seenByPll.sWr, sRd)
cfifo_wrfull  == WrFull(Len(cLog), seenBySys.cRd, CFifoDepth)

(* Mutant: stim does not look at this flag.                                 *)
cfifo_wrempty_Ignored == TRUE

cfifo_wrempty == WrEmpty(Len(cLog), seenBySys.cRd)
cfifo_rdempty == RdEmpty(seenBySys.cWr, cRd)
rfifo_rdempty == RdEmpty(seenBySys.rWr, rRd)
rfifo_wrfull  == WrFull(Len(rLog), seenByPll.rRd, RFifoDepth)

-----------------------------------------------------------------------------
(***************************************************************************)
(* The system clock domain.                                                 *)
(*                                                                          *)
(* stim: in IDLE it waits for room in both FIFOs, fetches a record (FETCH   *)
(* stands for the states between), and either writes the vector, or acts    *)
(* on the record (in DRAIN only once both FIFOs are empty), and is back in  *)
(* IDLE.                                                                    *)
(***************************************************************************)

(* Mutant: stim makes sure of room in sfifo only.                           *)
StimIdle_RoomInOne ==
  /\ stim = "IDLE"
  /\ stim' \in IF sfifo_wrfull THEN {"IDLE"} ELSE {"IDLE", "FETCH"}
  /\ UNCHANGED <<issued, sLog, cLog>>

StimIdle ==
  /\ stim = "IDLE"
  /\ \/ /\ ~sfifo_wrfull /\ ~cfifo_wrfull
        /\ stim' = "FETCH"
     \/ UNCHANGED stim          \* full, or the memory makes it wait
  /\ UNCHANGED <<issued, sLog, cLog>>

(* Mutant: stim reads on past the end of the program.                       *)
StimFetch_PastEnd ==
  /\ stim = "FETCH"
  /\ stim' \in {"FETCH", "DRAIN", "IDLE", "WR_FIFOS"}
  /\ UNCHANGED <<issued, sLog, cLog>>

StimFetch ==
  /\ stim = "FETCH"
  /\ stim' \in {"FETCH", "DRAIN", "IDLE"}
                 \cup (IF issued < MaxVectors THEN {"WR_FIFOS"} ELSE {})
  /\ UNCHANGED <<issued, sLog, cLog>>

StimDrain ==
  /\ stim = "DRAIN"
  /\ stim' \in IF sfifo_wrempty /\ cfifo_wrempty THEN {"DRAIN", "IDLE"}
                                                 ELSE {"DRAIN"}
  /\ UNCHANGED <<issued, sLog, cLog>>

StimWrite ==
  /\ stim = "WR_FIFOS"
  /\ stim' = "IDLE"
  /\ issued' = issued + 1
  /\ sLog' = Write(sLog, issued + 1, sfifo_wrfull)
  /\ cLog' = Write(cLog, issued + 1, cfifo_wrfull)

StimStep == StimIdle \/ StimFetch \/ StimDrain \/ StimWrite

(* check: pop both FIFOs in RD_FIFOS, compare and write back (WORK). *)

(* Mutant: check starts as soon as it has something to expect.              *)
CheckIdle_NoResult ==
  /\ check = "IDLE"
  /\ check' = IF ~cfifo_rdempty THEN "RD_FIFOS" ELSE "IDLE"
  /\ UNCHANGED <<cRd, rRd>>

CheckIdle ==
  /\ check = "IDLE"
  /\ check' = IF ~rfifo_rdempty /\ ~cfifo_rdempty THEN "RD_FIFOS" ELSE "IDLE"
  /\ UNCHANGED <<cRd, rRd>>

CheckRead ==
  /\ check = "RD_FIFOS"
  /\ check' = "WORK"
  /\ rRd' = Read(rRd, rfifo_rdempty)
  /\ cRd' = Read(cRd, cfifo_rdempty)

CheckWork ==
  /\ check = "WORK"
  /\ check' \in {"WORK", "IDLE"}
  /\ UNCHANGED <<cRd, rRd>>

CheckStep == CheckIdle \/ CheckRead \/ CheckWork

(* The synchronisers of the system clock: pointers of the other domain, and *)
(* for cfifo, whose two sides share this clock, the pointers of this one.   *)
SysSync ==
  /\ \E s \in Sampled(prevPll.sRd, sRd, toSys[1].sRd),
        r \in Sampled(prevPll.rWr, Len(rLog), toSys[1].rWr) :
       toSys' = Shift(toSys, [sRd |-> s, rWr |-> r,
                              cRd |-> cRd, cWr |-> Len(cLog)])
  /\ prevSys' = [sWr |-> Len(sLog), rRd |-> rRd]

SysTick ==
  /\ StimStep
  /\ CheckStep
  /\ SysSync
  /\ UNCHANGED pllVars

-----------------------------------------------------------------------------
(* The pll_clock domain: the three stages of dut_if and their stalls. *)

(* dut_execute holds a vector while it counts cycles or waits for the       *)
(* trigger (WAIT stands for WAIT_COUNT and WAIT_TRIGGER).                   *)
ExecNext ==
  IF exState = "IDLE" /\ fetchBubble THEN {"IDLE"} ELSE {"IDLE", "WAIT"}

(* Mutant: dut_fetch goes on while dut_execute is busy.                     *)
FetchStep_Unstalled(stall) ==
  /\ sRd' = Read(sRd, sfifo_rdempty)
  /\ fetchBubble' = sfifo_rdempty

FetchStep(stall) ==
  /\ sRd' = IF ~sfifo_rdempty /\ ~stall THEN sRd + 1 ELSE sRd
  /\ fetchBubble' = sfifo_rdempty

ExecuteStep(next, stall) ==
  IF stall
  THEN UNCHANGED <<exState, exBubble, exVec>>
  ELSE /\ exState' = next
       /\ exBubble' = IF exState # "IDLE" /\ next = "IDLE"
                      THEN FALSE
                      ELSE fetchBubble \/ next # "IDLE"
       /\ exVec' = Q(sLog, sRd, 0)

WritebackStep ==
  /\ wrReq' = (~exBubble /\ ~rfifo_wrfull)
  /\ wrVec' = IF ~exBubble /\ ~rfifo_wrfull THEN exVec ELSE wrVec
  /\ rLog' = IF wrReq THEN Write(rLog, wrVec, rfifo_wrfull) ELSE rLog

(* The synchronisers of pll_clock. *)
PllSync ==
  /\ \E s \in Sampled(prevSys.sWr, Len(sLog), toPll[1].sWr),
        r \in Sampled(prevSys.rRd, rRd, toPll[1].rRd) :
       toPll' = Shift(toPll, [sWr |-> s, rRd |-> r])
  /\ prevPll' = [sRd |-> sRd, rWr |-> Len(rLog)]

PllTick ==
  /\ \E next \in ExecNext :
       /\ FetchStep(rfifo_wrfull \/ next # "IDLE")
       /\ ExecuteStep(next, rfifo_wrfull)
  /\ WritebackStep
  /\ PllSync
  /\ UNCHANGED sysVars

-----------------------------------------------------------------------------

Init ==
  /\ issued = 0 /\ stim = "DRAIN" /\ check = "IDLE"   \* stim resets to END
  /\ sLog = <<>> /\ sRd = 0
  /\ cLog = <<>> /\ cRd = 0
  /\ rLog = <<>> /\ rRd = 0
  /\ toPll = [k \in Stages |-> [sWr |-> 0, rRd |-> 0]]
  /\ toSys = [k \in Stages |-> [sRd |-> 0, rWr |-> 0, cRd |-> 0, cWr |-> 0]]
  /\ prevSys = [sWr |-> 0, rRd |-> 0]
  /\ prevPll = [sRd |-> 0, rWr |-> 0]
  /\ fetchBubble = TRUE
  /\ exState = "IDLE" /\ exBubble = TRUE /\ exVec = 0
  /\ wrReq = FALSE /\ wrVec = 0

Next == SysTick \/ PllTick

Spec == Init /\ [][Next]_vars

-----------------------------------------------------------------------------

SysPointers == [sRd : Nat, rWr : Nat, cRd : Nat, cWr : Nat]
PllPointers == [sWr : Nat, rRd : Nat]

TypeOK ==
  /\ issued \in 0 .. MaxVectors
  /\ stim \in {"IDLE", "FETCH", "DRAIN", "WR_FIFOS"}
  /\ check \in {"IDLE", "RD_FIFOS", "WORK"}
  /\ sLog \in Seq(Nat) /\ cLog \in Seq(Nat) /\ rLog \in Seq(Nat)
  /\ sRd \in Nat /\ cRd \in Nat /\ rRd \in Nat
  /\ toPll \in [Stages -> PllPointers]
  /\ toSys \in [Stages -> SysPointers]
  /\ prevSys \in PllPointers
  /\ prevPll \in [sRd : Nat, rWr : Nat]
  /\ fetchBubble \in BOOLEAN /\ exBubble \in BOOLEAN /\ wrReq \in BOOLEAN
  /\ exState \in {"IDLE", "WAIT"}
  /\ exVec \in Nat /\ wrVec \in Nat

(***************************************************************************)
(* check never compares one vector's response with another vector's         *)
(* expectation: what it has popped from rfifo and from cfifo belong to the  *)
(* same vector.  Nothing in the code tags a result with its vector; the     *)
(* order of two FIFOs filled by different clocks is all there is.           *)
(***************************************************************************)
Paired ==
  check = "WORK" => Q(rLog, rRd, 0) = Q(cLog, cRd, 0)

(***************************************************************************)
(* Every vector comes back exactly once and in order: the i-th result       *)
(* dut_if writes is that of the i-th vector stim issued, whatever stalls    *)
(* the pipeline went through (a bubble lost in a stall would drop a vector, *)
(* one invented would apply it twice).                                      *)
(***************************************************************************)
ResultsInOrder == \A i \in 1 .. Len(rLog) : rLog[i] = i

(***************************************************************************)
(* Full rfifo and busy pipeline exclude each other: while dut_writeback     *)
(* stalls on a full rfifo there is no vector anywhere in the pipeline and   *)
(* none to fetch.  dut_fetch relies on it (its bubble_r follows rd_empty    *)
(* even when it is stalled), and so does dut_writeback (its write request   *)
(* is registered, one cycle after it has looked at wr_full).                *)
(***************************************************************************)
PipelineEmpty == fetchBubble /\ exState = "IDLE" /\ exBubble /\ ~wrReq

StallOnlyWhenIdle == rfifo_wrfull => PipelineEmpty /\ sfifo_rdempty

(***************************************************************************)
(* No FIFO loses a write: each vector issued is in sfifo's and cfifo's      *)
(* history, though stim looked at the full flags many cycles before it      *)
(* wrote.                                                                   *)
(***************************************************************************)
NothingLost == Len(sLog) = issued /\ Len(cLog) = issued

(***************************************************************************)
(* A request that waits for the FIFOs to drain (switch target, DI command,  *)
(* end) goes ahead only when no earlier vector is under way anywhere,       *)
(* though stim sees neither the pipeline nor rfifo, only that sfifo and     *)
(* cfifo are empty.                                                         *)
(***************************************************************************)
Quiescent == PipelineEmpty /\ sRd = issued /\ Len(rLog) = issued /\ rRd = issued

DrainedBeforeAct ==
  [][stim = "DRAIN" /\ stim' # "DRAIN" => Quiescent]_vars

-----------------------------------------------------------------------------
(***************************************************************************)
(* The inductive invariant behind the properties.                           *)
(***************************************************************************)

(* The output register of sfifo holds a vector dut_execute is not done with.*)
Pending == exState = "WAIT" \/ ~fetchBubble

(* The vectors in the three stages. *)
AtExecute   == IF Pending THEN 1 ELSE 0
AtWriteback == IF exBubble THEN 0 ELSE 1
AtRfifo     == IF wrReq THEN 1 ELSE 0
InPipe      == AtExecute + AtWriteback + AtRfifo

(* The FIFOs carry the vectors in order and without a gap. *)
LogsInv ==
  /\ NothingLost
  /\ \A i \in 1 .. issued : sLog[i] = i /\ cLog[i] = i
  /\ ResultsInOrder

(* What was fetched is in rfifo's history or in exactly one stage. *)
PipeInv ==
  /\ sRd = Len(rLog) + InPipe
  /\ wrReq => wrVec = Len(rLog) + 1
  /\ ~exBubble => exVec = Len(rLog) + AtRfifo + 1

(* What pll_clock has seen of the other domain is old, and coherent enough: *)
(* whenever it has seen the n-th vector come, it has seen check take the    *)
(* result of vector n - Depth.                                              *)
PllSyncInv ==
  /\ \A k \in Stages :
       /\ toPll[k].sWr <= issued
       /\ toPll[k].rRd <= rRd
       /\ toPll[k].sWr <= toPll[k].rRd + Depth
       /\ k > 1 => /\ toPll[k].sWr <= toPll[k - 1].sWr
                   /\ toPll[k].rRd <= toPll[k - 1].rRd
  /\ sRd <= seenByPll.sWr
  /\ prevSys.sWr <= issued
  /\ prevSys.rRd <= rRd
  /\ issued <= prevSys.rRd + Depth

(* What the system clock has seen is old too. *)
SysSyncInv ==
  /\ \A k \in Stages :
       /\ toSys[k].sRd <= sRd
       /\ toSys[k].rWr <= Len(rLog)
       /\ toSys[k].cRd <= cRd
       /\ toSys[k].cWr <= issued
       /\ k > 1 => /\ toSys[k].sRd <= toSys[k - 1].sRd
                   /\ toSys[k].rWr <= toSys[k - 1].rWr
                   /\ toSys[k].cRd <= toSys[k - 1].cRd
                   /\ toSys[k].cWr <= toSys[k - 1].cWr
  /\ prevPll.sRd <= sRd
  /\ prevPll.rWr <= Len(rLog)

(* The room stim saw in IDLE is still there when it writes. *)
StimInv ==
  stim \in {"FETCH", "WR_FIFOS"} =>
    /\ ~sfifo_wrfull /\ ~cfifo_wrfull
    /\ issued < prevSys.rRd + Depth
    /\ stim = "WR_FIFOS" => issued < MaxVectors

(* check pops both FIFOs together, and only what has arrived. *)
CheckInv ==
  /\ rRd = cRd
  /\ rRd <= seenBySys.rWr
  /\ cRd <= seenBySys.cWr
  /\ check = "RD_FIFOS" => rRd < seenBySys.rWr /\ cRd < seenBySys.cWr
  /\ check = "WORK" => rRd > 0

IInv ==
  /\ TypeOK
  /\ LogsInv
  /\ PipeInv
  /\ PllSyncInv
  /\ SysSyncInv
  /\ StimInv
  /\ CheckInv

-----------------------------------------------------------------------------
(* The tester implements the in-order test: a comparison is a pair of       *)
(* entries popped from cfifo and from rfifo.                                *)
compared == [i \in 1 .. cRd |-> <<cLog[i], rLog[i]>>]

Promise == INSTANCE InOrderTest

(***************************************************************************)
(* The path through both clock domains implements the in-order test, for    *)
(* every interleaving of the two clocks.                                    *)
(***************************************************************************)
InOrder == Promise!Spec
=============================================================================
