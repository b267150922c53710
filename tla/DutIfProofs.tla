---------------------------- MODULE DutIfProofs ----------------------------
(***************************************************************************)
(* Proofs about module DutIf, for every depth of the FIFOs, every length of *)
(* the synchronisers, every width of the cycle counter and all pins.  What  *)
(* is known of the path of the vectors is taken from VectorFlowProofs.      *)
(***************************************************************************)
EXTENDS DutIf, SequenceTheorems, TLAPS

FlowProofs == INSTANCE VectorFlowProofs WITH exState <- ExView

(***************************************************************************)
(* The inductive invariant.                                                 *)
(***************************************************************************)

(* The command path carries commands, and dut_if pops no more than came.    *)
CommandInv ==
  /\ dLog \in Seq([cmd : Commands, payload : Masks])
  /\ dRd \in Nat /\ dToPll \in [1 .. SyncStages -> Nat]
  /\ \A k \in 1 .. SyncStages :
       /\ dToPll[k] <= Len(dLog)
       /\ k > 1 => dToPll[k] <= dToPll[k - 1]
  /\ dRd <= dToPll[SyncStages]
  /\ dPrev \in [wr : Nat, rd : Nat] /\ dPrev.wr <= Len(dLog)
  /\ diState \in {"IDLE", "READ_CMD"}
  /\ diState = "READ_CMD" => dRd > 0
  /\ mux_config \in SUBSET Pins /\ trigger_mask \in SUBSET Pins

Cycle == [miso : SUBSET Pins, mask : SUBSET Pins]

RegistersInv ==
  /\ tests \in Seq(Tests)
  /\ cmdsBefore \in Seq(Nat)
  /\ exState \in {"IDLE", "WAIT_COUNT", "WAIT_TRIGGER"}
  /\ cycle_count_int \in 0 .. CountRange - 1
  /\ exRes \in Results /\ wrRes \in Results /\ rData \in Seq(Results)
  /\ seen \in Seq(Cycle)
  /\ finished \in Seq(Seq(Cycle))

(* Each history has an entry for each vector that has come so far.          *)
LengthsInv ==
  /\ Len(tests) = issued /\ Len(cmdsBefore) = issued
  /\ Len(rData) = Len(rLog)
  /\ Len(finished) = Len(rLog) + Flow!AtRfifo + Flow!AtWriteback

(* Cycle k of test t, counted from 1, is the last one it is given: its      *)
(* cycles are up or, of a triggered test, the comparison of the code holds. *)
Matches(c) == c.miso \subseteq c.mask

Over(t, h, k) ==
  \/ k - 1 = t.cycles
  \/ t.mode = "TRIGGER" /\ Matches(h[k])

EndedWhenOver ==
  \A n \in 1 .. Len(finished) :
    LET h == finished[n]
    IN  Over(tests[n], h, Len(h)) /\ \A k \in 1 .. Len(h) - 1 : ~Over(tests[n], h, k)

(* A vector is at execute for as long as it has to be and no longer: none   *)
(* of the cycles it was given was its last, and the counter counts them.    *)
ExecuteInv ==
  /\ Len(seen) = cycle_count_int
  /\ exState = "IDLE" => seen = <<>>
  /\ exState # "IDLE" =>
       /\ seen # <<>>
       /\ cycle_count_int <= test.cycles
       /\ exState = "WAIT_COUNT" <=> test.mode = "FIXED"
       /\ \A k \in 1 .. Len(seen) : ~Over(test, seen, k)

(* The registers behind execute hold the outcome of the vectors there.      *)
OutcomeOf(n) == Outcome(tests[n], finished[n])

OutcomesInv ==
  /\ \A n \in 1 .. Len(finished) : finished[n] # <<>>
  /\ ~exBubble => exRes = OutcomeOf(Len(finished))
  /\ wrReq => wrRes = OutcomeOf(Len(rLog) + 1)
  /\ \A n \in 1 .. Len(rData) : rData[n] = OutcomeOf(n)

IInv ==
  /\ CommandInv
  /\ RegistersInv
  /\ LengthsInv
  /\ ExecuteInv
  /\ EndedWhenOver
  /\ OutcomesInv
  /\ NoCommandTooEarly

-----------------------------------------------------------------------------
(***************************************************************************)
(* dut_if is the pll_clock side of VectorFlow: a step is one of VectorFlow  *)
(* once the two ways of waiting are taken for one.                          *)
(***************************************************************************)
LEMMA NextStateIsExecNext ==
  ASSUME NEW miso \in SUBSET Pins, exState \in {"IDLE", "WAIT_COUNT", "WAIT_TRIGGER"}
  PROVE  /\ NextState(miso) \in {"IDLE", "WAIT_COUNT", "WAIT_TRIGGER"}
         /\ exState = "IDLE" /\ fetchBubble => NextState(miso) = "IDLE"
  BY DEF NextState

LEMMA PllTickImplements ==
  ASSUME exState \in {"IDLE", "WAIT_COUNT", "WAIT_TRIGGER"}, fetchBubble \in BOOLEAN, PllTick
  PROVE  Flow!PllTick
<1>1. PICK miso \in SUBSET Pins :
        /\ ExecuteStep(miso, NextState(miso))
        /\ Flow!FetchStep(stall_writeback \/ NextState(miso) # "IDLE")
  BY DEF PllTick
<1> DEFINE next == NextState(miso)
           view == IF next = "IDLE" THEN "IDLE" ELSE "WAIT"
<1>2. /\ next \in {"IDLE", "WAIT_COUNT", "WAIT_TRIGGER"}
      /\ exState = "IDLE" /\ fetchBubble => next = "IDLE"
  BY NextStateIsExecNext
<1>3. view \in Flow!ExecNext
  BY <1>2 DEF Flow!ExecNext, ExView
<1>4. Flow!FetchStep(Flow!rfifo_wrfull \/ view # "IDLE")
  BY <1>1 DEF Flow!FetchStep, stall_writeback
<1>5. Flow!ExecuteStep(view, Flow!rfifo_wrfull)
  BY <1>1, <1>2 DEF ExecuteStep, Flow!ExecuteStep, stall_writeback, ExView, NextBubble,
         Q, Flow!Q
<1>6. Flow!WritebackStep /\ Flow!PllSync /\ UNCHANGED Flow!sysVars
  BY DEF PllTick, WritebackStep, flowSysVars, Flow!sysVars
<1> QED
  BY <1>3, <1>4, <1>5, <1>6 DEF Flow!PllTick

(***************************************************************************)
(* The type of the two registers that step needs holds by itself.           *)
(***************************************************************************)
StageType == exState \in {"IDLE", "WAIT_COUNT", "WAIT_TRIGGER"} /\ fetchBubble \in BOOLEAN

LEMMA StageTypeCorrect == Spec => []StageType
<1>1. Init => StageType
  BY DEF Init, StageType, Flow!Init
<1>2. StageType /\ [Next]_vars => StageType'
  <2> SUFFICES ASSUME StageType, [Next]_vars PROVE StageType'
    OBVIOUS
  <2>1. CASE PllTick
    <3>1. PICK miso \in SUBSET Pins :
            /\ ExecuteStep(miso, NextState(miso))
            /\ Flow!FetchStep(stall_writeback \/ NextState(miso) # "IDLE")
      BY <2>1 DEF PllTick
    <3>2. exState' \in {exState, NextState(miso)}
      BY <3>1 DEF ExecuteStep
    <3>3. fetchBubble' \in BOOLEAN
      BY <3>1 DEF Flow!FetchStep, Flow!sfifo_rdempty, Flow!RdEmpty
    <3> QED
      BY <3>2, <3>3, NextStateIsExecNext DEF StageType
  <2>2. CASE SysTick \/ UNCHANGED vars
    BY <2>2 DEF SysTick, vars, flowPllVars, dutVars, StageType
  <2> QED
    BY <2>1, <2>2 DEF Next
<1> QED
  BY <1>1, <1>2, PTL DEF Spec

(* The pipeline with its counter, trigger and commands does with the        *)
(* vectors what VectorFlow says (dut_if.v: dut_fetch, dut_execute and       *)
(* dut_writeback with their stalls).                                        *)
THEOREM ImplementsVectorFlow == Spec => RefinesFlow
<1>1. Init => Flow!Init
  BY DEF Init
<1>2. StageType /\ [Next]_vars => [Flow!Next]_(Flow!vars)
  <2> SUFFICES ASSUME StageType, [Next]_vars PROVE [Flow!Next]_(Flow!vars)
    OBVIOUS
  <2>1. CASE PllTick
    BY <2>1, PllTickImplements DEF StageType, Flow!Next
  <2>2. CASE SysTick
    BY <2>2 DEF SysTick, Flow!Next
  <2>3. CASE UNCHANGED vars
    BY <2>3 DEF vars, flowSysVars, flowPllVars, dutVars, ExView,
                Flow!vars, Flow!sysVars, Flow!pllVars
  <2> QED
    BY <2>1, <2>2, <2>3 DEF Next
<1> QED
  BY <1>1, <1>2, StageTypeCorrect, PTL DEF Spec, RefinesFlow, Flow!Spec

(***************************************************************************)
(* Flow and FlowProofs are instances of the same module.                    *)
(***************************************************************************)
LEMMA SameSysTick == Flow!SysTick <=> FlowProofs!SysTick
  BY DEF Flow!SysTick, FlowProofs!SysTick, Flow!StimStep,
         FlowProofs!StimStep, Flow!StimIdle, FlowProofs!StimIdle,
         Flow!StimFetch, FlowProofs!StimFetch, Flow!StimDrain,
         FlowProofs!StimDrain, Flow!StimWrite, FlowProofs!StimWrite,
         Flow!CheckStep, FlowProofs!CheckStep, Flow!CheckIdle,
         FlowProofs!CheckIdle, Flow!CheckRead, FlowProofs!CheckRead,
         Flow!CheckWork, FlowProofs!CheckWork, Flow!SysSync,
         FlowProofs!SysSync, Flow!sfifo_wrfull, FlowProofs!sfifo_wrfull,
         Flow!cfifo_wrfull, FlowProofs!cfifo_wrfull, Flow!sfifo_wrempty,
         FlowProofs!sfifo_wrempty, Flow!cfifo_wrempty,
         FlowProofs!cfifo_wrempty, Flow!cfifo_rdempty,
         FlowProofs!cfifo_rdempty, Flow!rfifo_rdempty,
         FlowProofs!rfifo_rdempty, Flow!seenBySys, FlowProofs!seenBySys,
         Flow!pllVars, FlowProofs!pllVars, Flow!SFifoDepth,
         FlowProofs!SFifoDepth, Flow!CFifoDepth, FlowProofs!CFifoDepth,
         Flow!Sampled, FlowProofs!Sampled, Flow!Shift, FlowProofs!Shift,
         Flow!WrFull, FlowProofs!WrFull, Flow!WrEmpty, FlowProofs!WrEmpty,
         Flow!RdEmpty, FlowProofs!RdEmpty, Flow!Write, FlowProofs!Write,
         Flow!Read, FlowProofs!Read, Flow!Q, FlowProofs!Q

LEMMA SamePllTick == Flow!PllTick <=> FlowProofs!PllTick
  BY DEF Flow!PllTick, FlowProofs!PllTick, Flow!ExecNext,
         FlowProofs!ExecNext, Flow!FetchStep, FlowProofs!FetchStep,
         Flow!ExecuteStep, FlowProofs!ExecuteStep, Flow!WritebackStep,
         FlowProofs!WritebackStep, Flow!PllSync, FlowProofs!PllSync,
         Flow!rfifo_wrfull, FlowProofs!rfifo_wrfull, Flow!sfifo_rdempty,
         FlowProofs!sfifo_rdempty, Flow!seenByPll, FlowProofs!seenByPll,
         Flow!sysVars, FlowProofs!sysVars, Flow!RFifoDepth,
         FlowProofs!RFifoDepth, Flow!Sampled, FlowProofs!Sampled, Flow!Shift,
         FlowProofs!Shift, Flow!WrFull, FlowProofs!WrFull, Flow!WrEmpty,
         FlowProofs!WrEmpty, Flow!RdEmpty, FlowProofs!RdEmpty, Flow!Write,
         FlowProofs!Write, Flow!Read, FlowProofs!Read, Flow!Q, FlowProofs!Q

(* So the invariant of VectorFlow holds here.                               *)
LEMMA FlowInvariance == Spec => []FlowProofs!IInv
<1>1. FlowProofs!FlowAssumption
  BY DutIfAssumption DEF FlowProofs!FlowAssumption
<1>2. FlowProofs!Spec => []FlowProofs!IInv
  BY <1>1, FlowProofs!Invariance
<1>3. Flow!Init => FlowProofs!Init
  BY DEF Flow!Init, FlowProofs!Init, Flow!Stages, FlowProofs!Stages
<1>4. [Flow!Next]_(Flow!vars) => [FlowProofs!Next]_(FlowProofs!vars)
  BY SameSysTick, SamePllTick
     DEF Flow!Next, FlowProofs!Next, Flow!vars, FlowProofs!vars,
         Flow!sysVars, FlowProofs!sysVars, Flow!pllVars, FlowProofs!pllVars
<1> QED
  BY <1>2, <1>3, <1>4, ImplementsVectorFlow, PTL DEF RefinesFlow, Flow!Spec, FlowProofs!Spec

-----------------------------------------------------------------------------
(***************************************************************************)
(* What the invariant of VectorFlow tells of a state.                       *)
(***************************************************************************)
LEMMA FlowFacts ==
  ASSUME FlowProofs!IInv
  PROVE  /\ issued \in Nat /\ sRd \in Nat /\ sRd <= issued /\ Len(rLog) \in Nat
         /\ {fetchBubble, exBubble, wrReq} \subseteq BOOLEAN
         /\ sRd = Len(rLog) + Flow!AtRfifo + Flow!AtWriteback + Flow!AtExecute
         /\ stall_writeback \in BOOLEAN /\ Flow!sfifo_rdempty \in BOOLEAN
         /\ stall_writeback => /\ exState = "IDLE" /\ fetchBubble /\ exBubble /\ ~wrReq
                               /\ Flow!sfifo_rdempty
<1>a. FlowProofs!FlowAssumption
  BY DutIfAssumption DEF FlowProofs!FlowAssumption
<1> USE DutIfAssumption
<1>1. /\ issued \in Nat /\ sRd \in Nat /\ Len(rLog) \in Nat
      /\ {fetchBubble, exBubble, wrReq} \subseteq BOOLEAN
  BY DEF FlowProofs!IInv, FlowProofs!TypeOK
<1>2. sRd <= issued
  <2>1. SyncStages \in FlowProofs!Stages
    BY DEF FlowProofs!Stages
  <2>2. /\ toPll[SyncStages].sWr \in Nat
        /\ sRd <= toPll[SyncStages].sWr /\ toPll[SyncStages].sWr <= issued
    BY <2>1 DEF FlowProofs!IInv, FlowProofs!TypeOK, FlowProofs!PllSyncInv,
                FlowProofs!seenByPll, FlowProofs!PllPointers
  <2> QED
    BY <1>1, <2>2
<1>3. sRd = Len(rLog) + Flow!AtRfifo + Flow!AtWriteback + Flow!AtExecute
  <2>1. sRd = Len(rLog) + (FlowProofs!AtExecute + FlowProofs!AtWriteback + FlowProofs!AtRfifo)
    BY DEF FlowProofs!IInv, FlowProofs!PipeInv, FlowProofs!InPipe
  <2>2. /\ FlowProofs!AtExecute = Flow!AtExecute /\ Flow!AtExecute \in Nat
        /\ FlowProofs!AtWriteback = Flow!AtWriteback /\ Flow!AtWriteback \in Nat
        /\ FlowProofs!AtRfifo = Flow!AtRfifo /\ Flow!AtRfifo \in Nat
    BY DEF FlowProofs!AtRfifo, FlowProofs!AtWriteback, FlowProofs!AtExecute, FlowProofs!Pending,
           Flow!AtRfifo, Flow!AtWriteback, Flow!AtExecute, Flow!Pending
  <2> QED
    BY <1>1, <2>1, <2>2
<1>4. stall_writeback \in BOOLEAN /\ Flow!sfifo_rdempty \in BOOLEAN
  BY DEF stall_writeback, Flow!rfifo_wrfull, Flow!WrFull, Flow!sfifo_rdempty, Flow!RdEmpty
<1>5. stall_writeback <=> FlowProofs!rfifo_wrfull
  BY DEF stall_writeback, Flow!rfifo_wrfull, FlowProofs!rfifo_wrfull, Flow!WrFull,
         FlowProofs!WrFull, Flow!seenByPll, FlowProofs!seenByPll, Flow!RFifoDepth,
         FlowProofs!RFifoDepth
<1>6. stall_writeback => FlowProofs!PipelineEmpty /\ FlowProofs!sfifo_rdempty
  BY <1>a, <1>5, FlowProofs!FullMeansIdle
<1>7. stall_writeback => /\ exState = "IDLE" /\ fetchBubble /\ exBubble /\ ~wrReq
                         /\ Flow!sfifo_rdempty
  BY <1>6 DEF FlowProofs!PipelineEmpty, ExView, Flow!sfifo_rdempty, FlowProofs!sfifo_rdempty,
              Flow!RdEmpty, FlowProofs!RdEmpty, Flow!seenByPll, FlowProofs!seenByPll
<1> QED
  BY <1>1, <1>2, <1>3, <1>4, <1>7

(* stim leaves a state that drains the FIFOs only when all results are back. *)
LEMMA DrainedMeansAllBack ==
  ASSUME FlowProofs!IInv, Flow!SysTick, stim = "DRAIN", stim' # "DRAIN"
  PROVE  Len(rLog) = issued /\ issued' = issued
<1>a. FlowProofs!FlowAssumption
  BY DutIfAssumption DEF FlowProofs!FlowAssumption
<1>1. FlowProofs!StimDrain
  BY SameSysTick DEF FlowProofs!SysTick, FlowProofs!StimStep, FlowProofs!StimIdle,
                     FlowProofs!StimFetch, FlowProofs!StimWrite
<1>2. FlowProofs!sfifo_wrempty /\ FlowProofs!cfifo_wrempty /\ issued' = issued
  BY <1>1 DEF FlowProofs!StimDrain
<1>3. FlowProofs!Quiescent
  BY <1>a, <1>2, FlowProofs!BothEmptyMeansQuiescent
<1> QED
  BY <1>2, <1>3 DEF FlowProofs!Quiescent

(* Vectors are issued one by one, and never as a command is sent.           *)
LEMMA IssuedOneByOne ==
  ASSUME Flow!SysTick
  PROVE  \/ issued' = issued
         \/ issued' = issued + 1 /\ stim = "WR_FIFOS"
<1>1. Flow!StimIdle \/ Flow!StimFetch \/ Flow!StimDrain \/ Flow!StimWrite
  BY DEF Flow!SysTick, Flow!StimStep
<1>2. CASE Flow!StimIdle \/ Flow!StimFetch \/ Flow!StimDrain
  BY <1>2 DEF Flow!StimIdle, Flow!StimFetch, Flow!StimDrain
<1>3. CASE Flow!StimWrite
  BY <1>3 DEF Flow!StimWrite
<1> QED
  BY <1>1, <1>2, <1>3

-----------------------------------------------------------------------------
(***************************************************************************)
(* The command path.                                                        *)
(***************************************************************************)
LEMMA ConcatOne ==
  ASSUME NEW S, NEW s \in Seq(S), NEW c \in S
  PROVE  /\ s \o <<c>> \in Seq(S) /\ Len(s \o <<c>>) = Len(s) + 1
         /\ s \o <<>> = s
<1>1. <<c>> \in Seq(S) /\ Len(<<c>>) = 1
  OBVIOUS
<1>2. s \o <<c>> \in Seq(S) /\ Len(s \o <<c>>) = Len(s) + Len(<<c>>)
  BY <1>1, ConcatProperties
<1> QED
  BY <1>1, <1>2, ConcatEmptySeq

LEMMA SysCommandInv ==
  ASSUME CommandInv, NEW written, SysCommand(written),
         \/ written = <<>>
         \/ \E cmd \in Commands, payload \in Masks :
              written = <<[cmd |-> cmd, payload |-> payload]>>
  PROVE  /\ CommandInv'
         /\ Len(dLog) \in Nat /\ (written = <<>> => dLog' = dLog)
<1> DEFINE Command == [cmd : Commands, payload : Masks]
<1>0. dLog \in Seq(Command) /\ Len(dLog) \in Nat
  BY DEF CommandInv
<1>1. /\ dLog' \in Seq(Command)
      /\ Len(dLog') \in Nat /\ Len(dLog) <= Len(dLog')
      /\ written = <<>> => dLog' = dLog
  <2>0. dLog' = IF dififo_wrfull THEN dLog ELSE dLog \o written
    BY DEF SysCommand
  <2>1. CASE dififo_wrfull
    BY <2>1, <2>0, <1>0
  <2>2. CASE ~dififo_wrfull /\ written = <<>>
    BY <2>2, <2>0, <1>0, ConcatEmptySeq
  <2>3. CASE ~dififo_wrfull /\ written # <<>>
    <3>1. PICK c \in Command : written = <<c>>
      BY <2>3
    <3>2. dLog' = dLog \o <<c>>
      BY <2>0, <2>3, <3>1
    <3>3. dLog' \in Seq(Command) /\ Len(dLog') = Len(dLog) + 1
      BY <3>2, <1>0, ConcatOne
    <3> QED
      BY <2>3, <3>3, <1>0
  <2> QED
    BY <2>1, <2>2, <2>3
<1>2. UNCHANGED <<dRd, dToPll, diState, mux_config, trigger_mask>>
  BY DEF cmdPllVars, SysCommand
<1>3. dPrev' \in [wr : Nat, rd : Nat] /\ dPrev'.wr = Len(dLog)
  BY <1>0 DEF CommandInv, SysCommand
<1>4. \A k \in 1 .. SyncStages :
        /\ dToPll'[k] <= Len(dLog')
        /\ k > 1 => dToPll'[k] <= dToPll'[k - 1]
  <2>1. \A k \in 1 .. SyncStages :
          /\ dToPll[k] \in Nat /\ dToPll[k] <= Len(dLog)
          /\ k > 1 => dToPll[k] <= dToPll[k - 1]
    BY DEF CommandInv
  <2> QED
    BY <2>1, <1>0, <1>1, <1>2
<1> QED
  BY <1>0, <1>1, <1>2, <1>3, <1>4 DEF CommandInv

LEMMA PllCommandInv ==
  ASSUME CommandInv, PllCommand
  PROVE  CommandInv' /\ dLog' = dLog
<1> USE DutIfAssumption DEF CommandInv
<1>1. dLog' = dLog /\ Len(dLog) \in Nat /\ SyncStages \in 1 .. SyncStages /\ 1 \in 1 .. SyncStages
  BY DEF PllCommand, cmdSysVars
<1>2. PICK w \in Sampled(dPrev.wr, Len(dLog), dToPll[1]) : dToPll' = Shift(dToPll, w)
  BY DEF PllCommand
<1>3. w \in Nat /\ dToPll[1] <= w /\ w <= Len(dLog)
  BY <1>1, <1>2 DEF Sampled
<1>4. \A k \in 1 .. SyncStages : dToPll'[k] = IF k = 1 THEN w ELSE dToPll[k - 1]
  BY <1>2 DEF Shift
<1>5. dToPll' \in [1 .. SyncStages -> Nat]
  BY <1>2, <1>3 DEF Shift
<1>6. \A k \in 1 .. SyncStages : dToPll[k] <= dToPll'[k] /\ dToPll'[k] <= Len(dLog)
  BY <1>1, <1>3, <1>4, <1>5, SMTT(30)
<1>7. ASSUME NEW k \in 1 .. SyncStages, k > 1
      PROVE  dToPll'[k] <= dToPll'[k - 1]
  <2>1. k - 1 \in 1 .. SyncStages /\ dToPll'[k] = dToPll[k - 1]
    BY <1>4, <1>7
  <2> QED
    BY <1>6, <2>1
<1>8. dPrev' \in [wr : Nat, rd : Nat] /\ dPrev'.wr = dPrev.wr
  BY DEF PllCommand
<1>9. CASE FetchCommand
  <2>1. /\ UNCHANGED <<mux_config, trigger_mask>>
        /\ diState' = IF dififo_rdempty THEN "IDLE" ELSE "READ_CMD"
        /\ dRd' = IF dififo_rdempty THEN dRd ELSE dRd + 1
    BY <1>9 DEF FetchCommand, Read
  <2>2. dRd' \in Nat /\ dRd' <= dToPll[SyncStages] /\ (diState' = "READ_CMD" => dRd' > 0)
    BY <2>1, <1>1 DEF dififo_rdempty, RdEmpty
  <2>3. dRd' <= dToPll'[SyncStages]
    BY <2>2, <1>1, <1>5, <1>6
  <2> QED
    BY <1>1, <1>5, <1>6, <1>7, <1>8, <2>1, <2>2, <2>3
<1>10. CASE LoadCommand
  <2>1. /\ dRd' = dRd /\ diState' = "IDLE"
        /\ mux_config' \in {mux_config, dLog[dRd].payload}
        /\ trigger_mask' \in {trigger_mask, dLog[dRd].payload}
    BY <1>10 DEF LoadCommand
  <2>2. dRd \in 1 .. Len(dLog)
    BY <1>1, <1>10 DEF LoadCommand
  <2>3. dLog[dRd] \in [cmd : Commands, payload : Masks]
    BY <2>2, ElementOfSeq
  <2>4. dLog[dRd].payload \in SUBSET Pins
    BY <2>3
  <2>5. dRd' <= dToPll'[SyncStages]
    BY <2>1, <1>1, <1>5, <1>6
  <2> QED
    BY <1>1, <1>5, <1>6, <1>7, <1>8, <2>1, <2>4, <2>5
<1> QED
  BY <1>1, <1>9, <1>10 DEF PllCommand

-----------------------------------------------------------------------------
(***************************************************************************)
(* An edge of the system clock.                                             *)
(***************************************************************************)
LEMMA AppendKeeps ==
  ASSUME NEW S, NEW s \in Seq(S), NEW x \in S
  PROVE  /\ Append(s, x) \in Seq(S) /\ Len(Append(s, x)) = Len(s) + 1
         /\ \A n \in 1 .. Len(s) : Append(s, x)[n] = s[n]
         /\ Append(s, x)[Len(s) + 1] = x
  OBVIOUS

(* A vector behind the others changes nothing of what they are.             *)
LEMMA TestsKept ==
  ASSUME RegistersInv, LengthsInv, issued \in Nat, SysTick
  PROVE  /\ tests' \in Seq(Tests) /\ Len(tests') = issued'
         /\ \A n \in 1 .. issued : tests'[n] = tests[n]
<1>1. Flow!SysTick
  BY DEF SysTick
<1>2. CASE issued' = issued
  BY <1>2 DEF SysTick, RegistersInv, LengthsInv
<1>3. CASE issued' # issued
  <2>1. PICK t \in Tests : tests' = Append(tests, t)
    BY <1>3 DEF SysTick
  <2> QED
    BY <1>1, <1>3, <2>1, IssuedOneByOne, AppendKeeps DEF RegistersInv, LengthsInv
<1> QED
  BY <1>2, <1>3

LEMMA SysTickIInv ==
  ASSUME FlowProofs!IInv, IInv, SysTick
  PROVE  IInv'
<1> USE DutIfAssumption
<1>f. Flow!SysTick
  BY DEF SysTick
<1>u. UNCHANGED <<sRd, rLog, fetchBubble, exBubble, wrReq, exState, cycle_count_int, exRes,
                  wrRes, rData, seen, finished>>
  BY DEF SysTick, flowPllVars, dutVars
<1>n. /\ issued \in Nat /\ sRd \in Nat /\ sRd <= issued /\ Len(rLog) \in Nat
      /\ sRd = Len(rLog) + Flow!AtRfifo + Flow!AtWriteback + Flow!AtExecute
      /\ Flow!AtRfifo \in 0 .. 1 /\ Flow!AtWriteback \in 0 .. 1 /\ Flow!AtExecute \in 0 .. 1
  <2>1. Flow!AtRfifo \in 0 .. 1 /\ Flow!AtWriteback \in 0 .. 1 /\ Flow!AtExecute \in 0 .. 1
    BY DEF Flow!AtRfifo, Flow!AtWriteback, Flow!AtExecute
  <2> QED
    BY <2>1, FlowFacts
<1>i. issued' \in Nat /\ issued <= issued'
  BY <1>f, <1>n, IssuedOneByOne
<1>t. /\ tests' \in Seq(Tests) /\ Len(tests') = issued'
      /\ \A n \in 1 .. issued : tests'[n] = tests[n]
  BY <1>n, TestsKept DEF IInv
<1>len. /\ Len(finished) \in Nat /\ Len(finished) <= issued /\ Len(finished) <= sRd
        /\ Len(rData) = Len(rLog) /\ Len(rLog) <= Len(finished)
        /\ wrReq => Len(rLog) + 1 <= Len(finished)
        /\ ~exBubble => Len(finished) > 0
  <2>1. /\ Len(finished) = Len(rLog) + Flow!AtRfifo + Flow!AtWriteback
        /\ Len(rData) = Len(rLog)
    BY DEF IInv, LengthsInv
  <2>2. wrReq => Flow!AtRfifo = 1
    BY DEF Flow!AtRfifo
  <2>3. ~exBubble => Flow!AtWriteback = 1
    BY DEF Flow!AtWriteback
  <2> QED
    BY <1>n, <2>1, <2>2, <2>3
<1>1. CommandInv' /\ Len(dLog) \in Nat /\ (~SendsCommand => dLog' = dLog)
  <2>1. CASE SysCommand(<<>>)
    BY <2>1, SysCommandInv DEF IInv
  <2>2. ASSUME SendsCommand, NEW cmd \in Commands, NEW payload \in Masks,
               SysCommand(<<[cmd |-> cmd, payload |-> payload]>>)
        PROVE  CommandInv' /\ Len(dLog) \in Nat
    BY <2>2, SysCommandInv DEF IInv
  <2> QED
    BY <2>1, <2>2 DEF SysTick
<1>2. /\ cmdsBefore' \in Seq(Nat) /\ Len(cmdsBefore') = issued'
      /\ issued' = issued => cmdsBefore' = cmdsBefore
      /\ issued' # issued => /\ issued' = issued + 1 /\ ~SendsCommand
                             /\ cmdsBefore' = Append(cmdsBefore, Len(dLog))
  <2>0. cmdsBefore \in Seq(Nat) /\ Len(cmdsBefore) = issued
    BY DEF IInv, RegistersInv, LengthsInv
  <2>1. CASE issued' = issued
    BY <2>0, <2>1 DEF SysTick
  <2>2. CASE issued' # issued
    <3>1. issued' = issued + 1 /\ ~SendsCommand
      BY <2>2, <1>f, IssuedOneByOne DEF SendsCommand
    <3>2. cmdsBefore' = Append(cmdsBefore, Len(dLog))
      BY <2>2 DEF SysTick
    <3> QED
      BY <2>0, <2>2, <3>1, <3>2, <1>1, AppendKeeps
  <2> QED
    BY <2>1, <2>2
<1>3. RegistersInv'
  BY <1>u, <1>t, <1>2 DEF IInv, RegistersInv
<1>4. LengthsInv'
  BY <1>u, <1>t, <1>2 DEF IInv, LengthsInv, Flow!AtRfifo, Flow!AtWriteback
<1>5. ExecuteInv'
  <2>1. CASE exState = "IDLE"
    BY <2>1, <1>u DEF IInv, ExecuteInv
  <2>2. CASE exState # "IDLE"
    <3>1. sRd \in 1 .. issued
      BY <2>2, <1>n, <1>len DEF Flow!AtExecute, Flow!Pending, ExView
    <3>2. test' = test
      BY <3>1, <1>t, <1>u DEF test
    <3> QED
      BY <2>2, <3>2, <1>u DEF IInv, ExecuteInv, Over, Matches
  <2> QED
    BY <2>1, <2>2
<1>6. EndedWhenOver'
  <2> SUFFICES ASSUME NEW n \in 1 .. Len(finished)
               PROVE  /\ Over(tests'[n], finished[n], Len(finished[n]))
                      /\ \A k \in 1 .. Len(finished[n]) - 1 :
                           ~Over(tests'[n], finished[n], k)
    BY <1>u DEF EndedWhenOver, Over, Matches
  <2>1. tests'[n] = tests[n]
    BY <1>t, <1>len, <1>n
  <2> QED
    BY <2>1 DEF IInv, EndedWhenOver
<1>7. OutcomesInv'
  <2>1. ASSUME NEW n \in 1 .. Len(finished)
        PROVE  Outcome(tests'[n], finished'[n]) = OutcomeOf(n)
    <3>1. tests'[n] = tests[n]
      BY <1>t, <1>len, <1>n
    <3> QED
      BY <3>1, <1>u DEF OutcomeOf, Outcome
  <2>2. \A n \in 1 .. Len(finished') : finished'[n] # <<>>
    BY <1>u DEF IInv, OutcomesInv
  <2>3. ~exBubble' => exRes' = Outcome(tests'[Len(finished')], finished'[Len(finished')])
    BY <2>1, <1>len, <1>u DEF IInv, OutcomesInv
  <2>4. wrReq' => wrRes' = Outcome(tests'[Len(rLog') + 1], finished'[Len(rLog') + 1])
    BY <2>1, <1>len, <1>n, <1>u DEF IInv, OutcomesInv
  <2>5. \A n \in 1 .. Len(rData') : rData'[n] = Outcome(tests'[n], finished'[n])
    BY <2>1, <1>len, <1>n, <1>u DEF IInv, OutcomesInv
  <2> QED
    BY <2>2, <2>3, <2>4, <2>5 DEF OutcomesInv, OutcomeOf
<1>8. NoCommandTooEarly'
  <2>1. CASE SendsCommand
    <3>1. Len(rLog) = issued /\ issued' = issued
      BY <2>1, <1>f, DrainedMeansAllBack DEF SendsCommand
    <3> QED
      BY <3>1, <1>u, <1>n DEF NoCommandTooEarly
  <2>2. CASE ~SendsCommand /\ issued' = issued
    BY <2>2, <1>1, <1>2, <1>u DEF IInv, NoCommandTooEarly
  <2>3. CASE ~SendsCommand /\ issued' # issued
    <3>1. dLog' = dLog /\ issued' = issued + 1 /\ cmdsBefore' = Append(cmdsBefore, Len(dLog))
      BY <2>3, <1>1, <1>2
    <3>2. \A n \in 1 .. issued : cmdsBefore'[n] = cmdsBefore[n]
      BY <3>1, <1>1, AppendKeeps DEF IInv, RegistersInv, LengthsInv
    <3>3. cmdsBefore'[issued'] = Len(dLog)
      BY <3>1, <1>1, AppendKeeps DEF IInv, RegistersInv, LengthsInv
    <3>4. ASSUME NEW n \in Len(rLog) + 1 .. issued' PROVE Len(dLog) <= cmdsBefore'[n]
      <4>1. CASE n = issued'
        BY <4>1, <3>3, <1>1
      <4>2. CASE n # issued'
        <5>1. n \in Len(rLog) + 1 .. issued /\ n \in 1 .. issued
          BY <4>2, <3>1, <1>n
        <5> QED
          BY <5>1, <3>2 DEF IInv, NoCommandTooEarly
      <4> QED
        BY <4>1, <4>2
    <3> QED
      BY <3>1, <3>4, <1>u DEF NoCommandTooEarly
  <2> QED
    BY <2>1, <2>2, <2>3
<1> QED
  BY <1>1, <1>3, <1>4, <1>5, <1>6, <1>7, <1>8 DEF IInv

-----------------------------------------------------------------------------
(***************************************************************************)
(* An edge of pll_clock.                                                    *)
(***************************************************************************)
Now(miso)  == [miso |-> miso, mask |-> trigger_mask]
Through(miso) == Append(seen, Now(miso))   \* what the vector at execute went through

(* The vector at execute is one stim has issued.                            *)
LEMMA VectorAtExecute ==
  ASSUME FlowProofs!IInv, IInv, Flow!Pending
  PROVE  /\ sRd \in 1 .. issued /\ sRd = Len(finished) + 1
         /\ test \in Tests /\ test.cycles \in 0 .. CountRange - 1
<1>1. /\ issued \in Nat /\ sRd \in Nat /\ sRd <= issued /\ Len(rLog) \in Nat
      /\ sRd = Len(rLog) + Flow!AtRfifo + Flow!AtWriteback + Flow!AtExecute
  BY FlowFacts
<1>2. Flow!AtRfifo \in 0 .. 1 /\ Flow!AtWriteback \in 0 .. 1 /\ Flow!AtExecute = 1
  BY DEF Flow!AtRfifo, Flow!AtWriteback, Flow!AtExecute
<1>3. Len(finished) = Len(rLog) + Flow!AtRfifo + Flow!AtWriteback
  BY DEF IInv, LengthsInv
<1>4. sRd \in 1 .. issued /\ sRd = Len(finished) + 1
  BY <1>1, <1>2, <1>3
<1>5. tests \in Seq(Tests) /\ Len(tests) = issued
  BY DEF IInv, RegistersInv, LengthsInv
<1>6. test \in Tests
  BY <1>4, <1>5 DEF test
<1>7. CountRange - 1 \in 0 .. CountRange - 1
  BY DutIfAssumption
<1>8. test.cycles \in 0 .. CountRange - 1
  BY <1>6, <1>7 DEF Tests
<1> QED
  BY <1>4, <1>6, <1>8

(* A cycle at execute: the vector is over if and only if execute says so.   *)
LEMMA ExecuteCycle ==
  ASSUME FlowProofs!IInv, IInv, Flow!Pending, NEW miso \in SUBSET Pins
  PROVE  /\ Through(miso) \in Seq(Cycle) /\ Len(Through(miso)) = cycle_count_int + 1
         /\ Through(miso)[cycle_count_int + 1] = Now(miso)
         /\ \A k \in 1 .. cycle_count_int : ~Over(test, Through(miso), k)
         /\ NextState(miso) = "IDLE"
              <=> Over(test, Through(miso), cycle_count_int + 1)
         /\ NextState(miso) # "IDLE" =>
              /\ cycle_count_int < test.cycles
              /\ NextState(miso) = "WAIT_COUNT" <=> test.mode = "FIXED"
<1> DEFINE h == Through(miso)
           c == cycle_count_int
<1>1. /\ test \in Tests /\ test.cycles \in 0 .. CountRange - 1
      /\ test.mode \in {"FIXED", "TRIGGER"}
  BY VectorAtExecute DEF Tests
<1>2. /\ seen \in Seq(Cycle) /\ c \in Nat /\ Len(seen) = c
      /\ trigger_mask \in SUBSET Pins
      /\ exState \in {"IDLE", "WAIT_COUNT", "WAIT_TRIGGER"}
      /\ CountRange \in Nat \ {0}
  BY DutIfAssumption DEF IInv, CommandInv, RegistersInv, ExecuteInv
<1>3. Now(miso) \in Cycle
  BY <1>2 DEF Now, Cycle
<1>4. /\ h \in Seq(Cycle) /\ Len(h) = c + 1 /\ h[c + 1] = Now(miso)
      /\ \A k \in 1 .. c : h[k] = seen[k]
  BY <1>2, <1>3, AppendKeeps DEF Through
<1>5. c <= test.cycles /\ \A k \in 1 .. c : ~Over(test, seen, k)
  <2>1. CASE exState = "IDLE"
    <3>1. c = 0
      BY <2>1, <1>2 DEF IInv, ExecuteInv
    <3> QED
      BY <3>1, <1>1
  <2>2. CASE exState # "IDLE"
    BY <2>2, <1>2 DEF IInv, ExecuteInv
  <2> QED
    BY <2>1, <2>2
<1>6. \A k \in 1 .. c : ~Over(test, h, k)
  BY <1>4, <1>5 DEF Over, Matches
<1>7. trigger_match(miso) <=> Matches(h[c + 1])
  BY <1>4 DEF trigger_match, Matches, Now
<1>8. Over(test, h, c + 1) <=> \/ c = test.cycles
                               \/ test.mode = "TRIGGER" /\ trigger_match(miso)
  BY <1>1, <1>2, <1>7 DEF Over
<1>9. /\ NextState(miso) = "IDLE" <=> Over(test, h, c + 1)
      /\ NextState(miso) # "IDLE" =>
           /\ c < test.cycles
           /\ NextState(miso) = "WAIT_COUNT" <=> test.mode = "FIXED"
  <2>1. CASE exState = "IDLE"
    <3>1. c = 0 /\ ~fetchBubble
      BY <2>1, <1>2 DEF IInv, ExecuteInv, Flow!Pending, ExView
    <3> QED
      BY <2>1, <3>1, <1>1, <1>8 DEF NextState
  <2>2. CASE exState = "WAIT_COUNT"
    <3>1. test.mode = "FIXED"
      BY <2>2 DEF IInv, ExecuteInv
    <3> QED
      BY <2>2, <3>1, <1>1, <1>2, <1>5, <1>8 DEF NextState, counter_match
  <2>3. CASE exState = "WAIT_TRIGGER"
    <3>1. test.mode = "TRIGGER"
      BY <2>3, <1>1 DEF IInv, ExecuteInv
    <3> QED
      BY <2>3, <3>1, <1>1, <1>2, <1>5, <1>8 DEF NextState, counter_match
  <2> QED
    BY <1>2, <2>1, <2>2, <2>3
<1> QED
  BY <1>4, <1>6, <1>9

(* A full rfifo has an idle pipeline before it: nothing but the clock of    *)
(* the device under test stands still.                                      *)
LEMMA StalledTickIInv ==
  ASSUME FlowProofs!IInv, IInv, PllTick, stall_writeback
  PROVE  IInv'
<1>1. PICK miso \in SUBSET Pins :
        /\ ExecuteStep(miso, NextState(miso))
        /\ Flow!FetchStep(stall_writeback \/ NextState(miso) # "IDLE")
        /\ Observe(miso, NextState(miso))
  BY DEF PllTick
<1>2. exState = "IDLE" /\ fetchBubble /\ exBubble /\ ~wrReq /\ Flow!sfifo_rdempty
  BY FlowFacts
<1>3. /\ UNCHANGED <<exState, exBubble, cycle_count_int, sRd, seen, finished, tests, cmdsBefore,
                     issued>>
      /\ exRes' = [exRes EXCEPT !.count = cycle_count_int] /\ fetchBubble'
  BY <1>1, <1>2 DEF ExecuteStep, Flow!FetchStep, Observe, PllTick, flowSysVars
<1>4. /\ UNCHANGED <<rLog, wrRes, rData>> /\ wrReq' = FALSE
  BY <1>2 DEF PllTick, WritebackStep, Flow!WritebackStep, stall_writeback
<1>5. CommandInv' /\ dLog' = dLog
  BY PllCommandInv DEF PllTick, IInv
<1>6. RegistersInv'
  <2>1. exRes' \in Results
    BY <1>3 DEF IInv, RegistersInv, Results
  <2> QED
    BY <2>1, <1>3, <1>4 DEF IInv, RegistersInv
<1>7. LengthsInv'
  BY <1>2, <1>3, <1>4 DEF IInv, LengthsInv, Flow!AtRfifo, Flow!AtWriteback
<1>8. ExecuteInv'
  BY <1>2, <1>3 DEF IInv, ExecuteInv
<1>9. EndedWhenOver'
  BY <1>3 DEF IInv, EndedWhenOver, Over, Matches
<1>10. OutcomesInv'
  BY <1>2, <1>3, <1>4 DEF IInv, OutcomesInv, OutcomeOf, Outcome
<1>11. NoCommandTooEarly'
  BY <1>3, <1>4, <1>5 DEF IInv, NoCommandTooEarly
<1> QED
  BY <1>5, <1>6, <1>7, <1>8, <1>9, <1>10, <1>11 DEF IInv

LEMMA MovingTickIInv ==
  ASSUME FlowProofs!IInv, IInv, PllTick, ~stall_writeback
  PROVE  IInv'
<1> USE DutIfAssumption
<1>1. PICK miso \in SUBSET Pins :
        /\ ExecuteStep(miso, NextState(miso))
        /\ Flow!FetchStep(stall_writeback \/ NextState(miso) # "IDLE")
        /\ Observe(miso, NextState(miso))
  BY DEF PllTick
<1> DEFINE next == NextState(miso)
           over == Flow!Pending /\ next = "IDLE"
           h    == Through(miso)
           c    == cycle_count_int
<1>2. /\ Len(rLog) \in Nat /\ sRd \in Nat /\ issued \in Nat
      /\ {fetchBubble, exBubble, wrReq} \subseteq BOOLEAN
      /\ sRd = Len(rLog) + Flow!AtRfifo + Flow!AtWriteback + Flow!AtExecute
  BY FlowFacts
<1>3. /\ exState \in {"IDLE", "WAIT_COUNT", "WAIT_TRIGGER"}
      /\ next \in {"IDLE", "WAIT_COUNT", "WAIT_TRIGGER"}
      /\ exState = "IDLE" /\ fetchBubble => next = "IDLE"
      /\ c \in 0 .. CountRange - 1 /\ CountRange \in Nat
  BY NextStateIsExecNext DEF IInv, RegistersInv
<1>4. Flow!Pending <=> exState # "IDLE" \/ ~fetchBubble
  BY <1>3 DEF Flow!Pending, ExView
<1>5. /\ exState' = next /\ c' = NextCount(next) /\ exBubble' = ~over
      /\ exRes' = [miso |-> miso, count |-> c,
                   timeout |-> sRd > 0 /\ test.mode = "TRIGGER" /\ counter_match]
  BY <1>1, <1>2, <1>3, <1>4 DEF ExecuteStep, NextBubble
<1>6. /\ fetchBubble' = Flow!sfifo_rdempty
      /\ next # "IDLE" => sRd' = sRd
  BY <1>1 DEF Flow!FetchStep
<1>7. /\ UNCHANGED <<issued, tests, cmdsBefore>>
      /\ wrReq' = ~exBubble
      /\ wrRes' = IF ~exBubble THEN exRes ELSE wrRes
      /\ rLog' = IF wrReq THEN Append(rLog, wrVec) ELSE rLog
      /\ rData' = IF wrReq THEN Append(rData, wrRes) ELSE rData
  BY DEF PllTick, flowSysVars, WritebackStep, Flow!WritebackStep, stall_writeback, Write,
         Flow!Write
<1>8. /\ finished' = IF over THEN Append(finished, h) ELSE finished
      /\ seen' = IF next # "IDLE" THEN h ELSE <<>>
  <2>1. ~Flow!Pending => seen = <<>> /\ next = "IDLE"
    BY <1>3, <1>4 DEF IInv, ExecuteInv
  <2> QED
    BY <1>1, <2>1 DEF Observe, Through, Now
<1>9. CommandInv' /\ dLog' = dLog
  BY PllCommandInv DEF PllTick, IInv
<1>10. /\ Flow!AtRfifo \in 0 .. 1 /\ Flow!AtWriteback \in 0 .. 1
       /\ Flow!AtRfifo' = Flow!AtWriteback
       /\ Flow!AtWriteback' = IF over THEN 1 ELSE 0
       /\ wrReq => Flow!AtRfifo = 1
       /\ ~wrReq => Flow!AtRfifo = 0
       /\ ~exBubble => Flow!AtWriteback = 1
  <2>1. /\ Flow!AtRfifo = IF wrReq THEN 1 ELSE 0
        /\ Flow!AtWriteback = IF exBubble THEN 0 ELSE 1
    BY DEF Flow!AtRfifo, Flow!AtWriteback
  <2>2. /\ Flow!AtRfifo' = IF ~exBubble THEN 1 ELSE 0
        /\ Flow!AtWriteback' = IF ~over THEN 0 ELSE 1
    BY <1>5, <1>7 DEF Flow!AtRfifo, Flow!AtWriteback
  <2> QED
    BY <1>2, <2>1, <2>2
<1>11. /\ Len(finished) = Len(rLog) + Flow!AtRfifo + Flow!AtWriteback
       /\ Len(rData) = Len(rLog) /\ Len(finished) \in Nat
       /\ Len(tests) = issued /\ Len(cmdsBefore) = issued
  BY <1>2, <1>10 DEF IInv, LengthsInv
<1>12. /\ tests \in Seq(Tests) /\ cmdsBefore \in Seq(Nat)
       /\ exRes \in Results /\ wrRes \in Results /\ rData \in Seq(Results)
       /\ seen \in Seq(Cycle) /\ finished \in Seq(Seq(Cycle))
  BY DEF IInv, RegistersInv
<1>13. Flow!Pending =>
         /\ sRd \in 1 .. issued /\ sRd = Len(finished) + 1
         /\ test \in Tests /\ test.cycles \in 0 .. CountRange - 1
  BY VectorAtExecute
<1>14. Flow!Pending =>
         /\ h \in Seq(Cycle) /\ Len(h) = c + 1 /\ h[c + 1] = Now(miso)
         /\ \A k \in 1 .. c : ~Over(test, h, k)
         /\ next = "IDLE" <=> Over(test, h, c + 1)
         /\ next # "IDLE" => /\ c < test.cycles
                             /\ next = "WAIT_COUNT" <=> test.mode = "FIXED"
  BY ExecuteCycle
<1>15. next # "IDLE" => Flow!Pending
  BY <1>3, <1>4
(* The vector that leaves execute. *)
<1>16. /\ finished' \in Seq(Seq(Cycle))
       /\ Len(finished') = Len(finished) + Flow!AtWriteback'
       /\ \A n \in 1 .. Len(finished) : finished'[n] = finished[n]
       /\ over => finished'[Len(finished) + 1] = h
  <2>1. CASE over
    BY <2>1, <1>8, <1>10, <1>12, <1>14, AppendKeeps
  <2>2. CASE ~over
    BY <2>2, <1>8, <1>10, <1>11, <1>12
  <2> QED
    BY <2>1, <2>2
(* The result that enters rfifo. *)
<1>17. /\ rData' \in Seq(Results) /\ Len(rData') = Len(rData) + Flow!AtRfifo
       /\ Len(rLog') = Len(rLog) + Flow!AtRfifo
       /\ \A n \in 1 .. Len(rData) : rData'[n] = rData[n]
       /\ wrReq => rData'[Len(rData) + 1] = wrRes
  <2>0. rLog \in Seq(Nat) /\ wrVec \in Nat
    BY DEF FlowProofs!IInv, FlowProofs!TypeOK
  <2>1. CASE wrReq
    BY <2>0, <2>1, <1>7, <1>10, <1>12, AppendKeeps
  <2>2. CASE ~wrReq
    BY <2>2, <1>2, <1>7, <1>10, <1>11, <1>12
  <2> QED
    BY <2>1, <2>2
<1>18. c' \in 0 .. CountRange - 1 /\ (next = "IDLE" => c' = 0) /\ (next # "IDLE" => c' = c + 1)
  <2>1. CASE next = "IDLE"
    BY <2>1, <1>3, <1>5 DEF NextCount
  <2>2. CASE next # "IDLE"
    <3>1. c' = (c + 1) % CountRange
      BY <2>2, <1>5 DEF NextCount
    <3>2. c + 1 \in 0 .. CountRange - 1
      BY <2>2, <1>3, <1>13, <1>14, <1>15
    <3>3. (c + 1) % CountRange = c + 1
      BY <3>2, <1>3
    <3> QED
      BY <2>2, <3>1, <3>2, <3>3
  <2> QED
    BY <2>1, <2>2
<1>19. RegistersInv'
  <2>1. exRes' \in Results
    BY <1>3, <1>5 DEF Results
  <2>2. wrRes' \in Results
    BY <1>7, <1>12
  <2>3. seen' \in Seq(Cycle)
    BY <1>8, <1>14, <1>15
  <2> QED
    BY <2>1, <2>2, <2>3, <1>3, <1>5, <1>7, <1>12, <1>16, <1>17, <1>18 DEF RegistersInv
<1>20. LengthsInv'
  BY <1>2, <1>7, <1>10, <1>11, <1>16, <1>17 DEF LengthsInv
<1>21. ExecuteInv'
  <2>1. CASE next = "IDLE"
    BY <2>1, <1>5, <1>8, <1>18 DEF ExecuteInv
  <2>2. CASE next # "IDLE"
    <3>1. test' = test
      BY <2>2, <1>6, <1>7 DEF test
    <3>2. seen' = h /\ c' = c + 1 /\ exState' = next /\ Len(h) = c + 1
      BY <2>2, <1>5, <1>8, <1>14, <1>15, <1>18
    <3>3. h # <<>> /\ c + 1 <= test.cycles
      BY <2>2, <3>2, <1>3, <1>13, <1>14, <1>15
    <3>4. \A k \in 1 .. Len(h) : ~Over(test, h, k)
      BY <2>2, <3>2, <1>3, <1>14, <1>15
    <3>5. \A k \in 1 .. Len(seen') : ~Over(test', seen', k)
      BY <3>1, <3>2, <3>4
    <3> QED
      BY <2>2, <3>1, <3>2, <3>3, <3>5, <1>14, <1>15 DEF ExecuteInv, Over, Matches
  <2> QED
    BY <2>1, <2>2
<1>22. EndedWhenOver'
  <2> SUFFICES ASSUME NEW n \in 1 .. Len(finished')
               PROVE  /\ Over(tests[n], finished'[n], Len(finished'[n]))
                      /\ \A k \in 1 .. Len(finished'[n]) - 1 : ~Over(tests[n], finished'[n], k)
    BY <1>7 DEF EndedWhenOver, Over, Matches
  <2>1. CASE n \in 1 .. Len(finished)
    BY <2>1, <1>16 DEF IInv, EndedWhenOver
  <2>2. CASE n \notin 1 .. Len(finished)
    <3>1. over /\ n = Len(finished) + 1
      BY <2>2, <1>10, <1>11, <1>16
    <3>2. finished'[n] = h /\ tests[n] = test /\ Len(h) = c + 1
      BY <3>1, <1>13, <1>14, <1>16 DEF test
    <3> QED
      BY <3>1, <3>2, <1>3, <1>14
  <2> QED
    BY <2>1, <2>2
<1>23. OutcomesInv'
  <2>1. \A n \in 1 .. Len(finished) : Outcome(tests'[n], finished'[n]) = OutcomeOf(n)
    BY <1>7, <1>16 DEF OutcomeOf
  <2>2. over => exRes' = Outcome(tests'[Len(finished')], finished'[Len(finished')])
    <3> SUFFICES ASSUME over
                 PROVE  exRes' = Outcome(tests'[Len(finished')], finished'[Len(finished')])
      OBVIOUS
    <3>1. Len(finished') = Len(finished) + 1 /\ sRd = Len(finished')
      BY <1>10, <1>13, <1>16
    <3>2. finished'[Len(finished')] = h /\ tests'[Len(finished')] = test
      BY <3>1, <1>7, <1>16 DEF test
    <3>3. Len(h) = c + 1 /\ h[Len(h)].miso = miso /\ Len(h) - 1 = c
      BY <1>3, <1>14 DEF Now
    <3>4. exRes' = [miso |-> miso, count |-> c,
                    timeout |-> test.mode = "TRIGGER" /\ c = test.cycles]
      BY <1>5, <1>13 DEF counter_match
    <3> QED
      BY <3>2, <3>3, <3>4 DEF Outcome
  <2>3. \A n \in 1 .. Len(finished') : finished'[n] # <<>>
    <3> SUFFICES ASSUME NEW n \in 1 .. Len(finished') PROVE finished'[n] # <<>>
      OBVIOUS
    <3>1. CASE n \in 1 .. Len(finished)
      BY <3>1, <1>16 DEF IInv, OutcomesInv
    <3>2. CASE n \notin 1 .. Len(finished)
      <4>1. over /\ n = Len(finished) + 1
        BY <3>2, <1>10, <1>11, <1>16
      <4> QED
        BY <4>1, <1>3, <1>14, <1>16
    <3> QED
      BY <3>1, <3>2
  <2>4. wrReq' => wrRes' = Outcome(tests'[Len(rLog') + 1], finished'[Len(rLog') + 1])
    <3> SUFFICES ASSUME wrReq' PROVE wrRes' = Outcome(tests'[Len(rLog') + 1], finished'[Len(rLog') + 1])
      OBVIOUS
    <3>1. ~exBubble /\ wrRes' = exRes
      BY <1>7
    <3>2. Len(rLog') + 1 = Len(finished) /\ Len(finished) \in 1 .. Len(finished)
      BY <3>1, <1>2, <1>10, <1>11, <1>17
    <3> QED
      BY <3>1, <3>2, <2>1 DEF IInv, OutcomesInv
  <2>5. \A n \in 1 .. Len(rData') : rData'[n] = Outcome(tests'[n], finished'[n])
    <3> SUFFICES ASSUME NEW n \in 1 .. Len(rData')
                 PROVE  rData'[n] = Outcome(tests'[n], finished'[n])
      OBVIOUS
    <3>0. n \in 1 .. Len(finished)
      BY <1>2, <1>10, <1>11, <1>17
    <3>1. CASE n \in 1 .. Len(rData)
      BY <3>0, <3>1, <2>1, <1>17 DEF IInv, OutcomesInv
    <3>2. CASE n \notin 1 .. Len(rData)
      <4>1. wrReq /\ n = Len(rData) + 1
        BY <3>2, <1>2, <1>10, <1>11, <1>17
      <4>2. rData'[n] = wrRes /\ wrRes = OutcomeOf(n)
        BY <4>1, <1>11, <1>17 DEF IInv, OutcomesInv
      <4> QED
        BY <3>0, <4>2, <2>1
    <3> QED
      BY <3>1, <3>2
  <2> QED
    BY <2>2, <2>3, <2>4, <2>5, <1>5 DEF OutcomesInv, OutcomeOf
<1>24. NoCommandTooEarly'
  BY <1>2, <1>7, <1>9, <1>10, <1>17 DEF IInv, NoCommandTooEarly
<1> QED
  BY <1>9, <1>19, <1>20, <1>21, <1>22, <1>23, <1>24 DEF IInv

-----------------------------------------------------------------------------
LEMMA InitIInv == Init => IInv
<1> SUFFICES ASSUME Init PROVE IInv
  OBVIOUS
<1> USE DutIfAssumption DEF Init
<1>1. CommandInv
  <2>1. SyncStages \in 1 .. SyncStages
    OBVIOUS
  <2> QED
    BY <2>1 DEF CommandInv, CommandInit
<1>2. RegistersInv
  BY DEF RegistersInv, Results
<1>3. LengthsInv
  BY DEF LengthsInv, Flow!Init, Flow!AtRfifo, Flow!AtWriteback
<1>4. ExecuteInv
  BY DEF ExecuteInv
<1>5. EndedWhenOver /\ OutcomesInv
  BY DEF EndedWhenOver, OutcomesInv, Flow!Init
<1>6. NoCommandTooEarly
  BY DEF NoCommandTooEarly, Flow!Init
<1> QED
  BY <1>1, <1>2, <1>3, <1>4, <1>5, <1>6 DEF IInv

THEOREM Invariance == Spec => []IInv
<1>1. FlowProofs!IInv /\ IInv /\ [Next]_vars => IInv'
  <2> SUFFICES ASSUME FlowProofs!IInv, IInv, [Next]_vars PROVE IInv'
    OBVIOUS
  <2>1. CASE SysTick
    BY <2>1, SysTickIInv
  <2>2. CASE PllTick
    BY <2>2, StalledTickIInv, MovingTickIInv
  <2>3. CASE UNCHANGED vars
    BY <2>3 DEF vars, flowSysVars, flowPllVars, dutVars, cmdVars, cmdSysVars, cmdPllVars,
                IInv, CommandInv, RegistersInv, LengthsInv, ExecuteInv, EndedWhenOver,
                OutcomesInv, OutcomeOf, Outcome, NoCommandTooEarly, Over, Matches, test,
                Flow!AtRfifo, Flow!AtWriteback
  <2> QED
    BY <2>1, <2>2, <2>3 DEF Next
<1> QED
  BY <1>1, InitIInv, FlowInvariance, PTL DEF Spec

(* A vector is at execute for the cycles it asks for: a fixed test for all  *)
(* of them, a triggered one for no more, and not beyond a cycle in which    *)
(* the pins of the trigger mask, and only those, are asserted (dut_if.v:    *)
(* next_state and cycle_count_int of dut_execute).                          *)
THEOREM EachExecutedInFull == Spec => []ExecutedInFull
<1>1. FlowProofs!IInv /\ IInv => ExecutedInFull
  <2> SUFFICES ASSUME FlowProofs!IInv, IInv, NEW n \in 1 .. Len(finished)
               PROVE  /\ Len(finished[n]) <= tests[n].cycles + 1
                      /\ tests[n].mode = "FIXED" => Len(finished[n]) = tests[n].cycles + 1
                      /\ tests[n].mode = "TRIGGER" =>
                           \A k \in 1 .. Len(finished[n]) - 1 : finished[n][k].miso # finished[n][k].mask
    BY DEF ExecutedInFull
  <2> DEFINE len == Len(finished[n])
             cycles == tests[n].cycles
  <2>1. n \in 1 .. Len(tests)
    <3>1. /\ issued \in Nat /\ sRd \in Nat /\ sRd <= issued /\ Len(rLog) \in Nat
          /\ sRd = Len(rLog) + Flow!AtRfifo + Flow!AtWriteback + Flow!AtExecute
      BY FlowFacts
    <3>2. Flow!AtRfifo \in Nat /\ Flow!AtWriteback \in Nat /\ Flow!AtExecute \in Nat
      BY DEF Flow!AtRfifo, Flow!AtWriteback, Flow!AtExecute
    <3> QED
      BY <3>1, <3>2 DEF IInv, LengthsInv
  <2>2. finished[n] \in Seq(Cycle) /\ tests[n] \in Tests
    BY <2>1 DEF IInv, RegistersInv
  <2>3. len \in Nat /\ cycles \in Nat
    BY <2>2, DutIfAssumption DEF Tests
  <2>4. /\ len - 1 = cycles \/ tests[n].mode = "TRIGGER"
        /\ \A k \in 1 .. len - 1 : k - 1 # cycles
    BY DEF IInv, EndedWhenOver, Over
  <2>5. len <= cycles + 1
    <3> SUFFICES ASSUME len > cycles + 1 PROVE FALSE
      BY <2>3
    <3>1. cycles + 1 \in 1 .. len - 1 /\ (cycles + 1) - 1 = cycles
      BY <2>3
    <3> HIDE DEF len, cycles
    <3> QED
      BY <3>1, <2>4
  <2>6. ASSUME tests[n].mode = "TRIGGER", NEW k \in 1 .. len - 1
        PROVE  finished[n][k].miso # finished[n][k].mask
    <3>1. ~Matches(finished[n][k])
      BY <2>6 DEF IInv, EndedWhenOver, Over
    <3> QED
      BY <3>1 DEF Matches
  <2> QED
    BY <2>3, <2>4, <2>5, <2>6
<1> QED
  BY <1>1, Invariance, FlowInvariance, PTL

(* The n-th result of rfifo is that of the n-th vector as a whole, and no   *)
(* field of it is that of another cycle, whatever part of the pipeline      *)
(* stands still while it passes (dut_if.v: result_r, cycle_count_r,         *)
(* timeout_r and wr_data_r).                                                *)
THEOREM EachResultOfItsVector == Spec => []ResultsOfTheirVectors
<1>1. IInv => ResultsOfTheirVectors
  <2> SUFFICES ASSUME IInv PROVE ResultsOfTheirVectors
    OBVIOUS
  <2>1. TypeOK
    <3>1. Len(seen) = cycle_count_int /\ cycle_count_int \in 0 .. CountRange - 1
      BY DEF IInv, ExecuteInv, RegistersInv
    <3>2. Len(seen) < CountRange
      BY <3>1, DutIfAssumption
    <3> QED
      BY <3>1, <3>2 DEF IInv, RegistersInv, CommandInv, TypeOK
  <2> QED
    BY <2>1 DEF IInv, OutcomesInv, OutcomeOf, ResultsOfTheirVectors
<1> QED
  BY <1>1, Invariance, PTL

(* A command reaches the device under test only when the vectors issued     *)
(* before it have been through (stim.v: the states that wait for the FIFOs  *)
(* to drain; dut_if.v: the command interpreter beside the pipeline).        *)
THEOREM CommandsInTheirPlace == Spec => []NoCommandTooEarly
  BY Invariance, PTL DEF IInv
=============================================================================
