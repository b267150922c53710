--------------------------- MODULE TestController ---------------------------
(***************************************************************************)
(* The system clock domain of the tester in full: stim reads the program    *)
(* from SRAM word by word and acts on its records, check compares and       *)
(* writes results back, mem_if and sram_arb_sync share the SRAM port        *)
(* between them, test_runner starts a run and reports it.  The pll_clock    *)
(* domain is that of VectorFlow, which this module refines.                 *)
(*                                                                          *)
(* One SysTick is one edge of the system clock: every register takes its    *)
(* next value from the values all of them had before the edge.              *)
(***************************************************************************)
EXTENDS FiniteSets, CommandPath

CONSTANTS
  Programs,      \* the record sequences software may load
  MaxRuns,       \* runs software starts (bound of the model)
  SettleCycles,  \* cycles stim waits after a target switch (65535)
  None           \* no word, no address

Ops == {"SWITCH_TARGET", "TEST_VECTOR", "SETUP_BITMASK", "SEND_DICMD",
        "PLLRECONFIG", "END"}

VectorsOf(p) == Cardinality({ i \in DOMAIN p : p[i] = "TEST_VECTOR" })

(* A program ends with its first END; the SRAM bounds its length, so that   *)
(* some program has the most vectors.                                       *)
ASSUME ControllerAssumption ==
  /\ Programs \subseteq
       { p \in Seq(Ops) : p # <<>> /\ \A i \in DOMAIN p : p[i] = "END" <=> i = Len(p) }
  /\ \E m \in Programs : \A p \in Programs : VectorsOf(p) <= VectorsOf(m)
  /\ Depth \in Nat \ {0} /\ SettleCycles \in Nat /\ MaxRuns \in Nat
  /\ SyncStages \in Nat /\ SyncStages >= 2   \* dcfifo's rdsync_delaypipe of 4
  /\ None \notin Nat

VARIABLES
  issued, sLog, sRd, cLog, cRd, rLog, rRd, toPll, toSys, prevSys, prevPll,
  fetchBubble, exState, exBubble, exVec, wrReq, wrVec,   \* as in VectorFlow
  prog,          \* the program in SRAM
  runs,          \* runs started
  enable, busy,  \* test_runner.v: enable, busy (busy is the arbiter's sel[0])
  stimState, address, requested, stored, buffer, waitcnt,   \* stim.v
  target,        \* stim.v: target_sel (the record it came from)
  oe, ready,     \* sram_arb_sync.v: addresses in the two read stages
  wbAddr,        \* the write-back address of each entry of cfifo
  checkState, chkAddr, chkStored, bitmask,                  \* check.v
  results        \* what check has written in this run

flowSysVars == <<issued, sLog, cLog, cRd, rRd, toSys, prevSys>>
flowPllVars == <<sRd, rLog, toPll, prevPll, fetchBubble, exState, exBubble,
                 exVec, wrReq, wrVec>>
hostVars  == <<prog, runs, enable, busy>>
stimVars  == <<stimState, address, requested, stored, buffer, waitcnt, target,
               wbAddr>>
checkVars == <<checkState, chkAddr, chkStored, bitmask, results>>
ctrlVars  == <<hostVars, stimVars, checkVars, oe, ready>>
vars      == <<flowSysVars, flowPllVars, ctrlVars, cmdVars>>

(* What VectorFlow keeps of stim and of check.  Once the FIFOs have drained *)
(* (SWITCH_VDD, WR_DIFIFO) stim is as good as idle to them.                 *)
StimView ==
  CASE stimState \in {"IDLE", "SWITCH_VDD", "WR_DIFIFO"}      -> "IDLE"
    [] stimState \in {"SWITCH_TARGET", "SEND_DICMD", "END"}   -> "DRAIN"
    [] stimState = "WR_FIFOS"                                 -> "WR_FIFOS"
    [] OTHER                                                  -> "FETCH"

CheckView ==
  IF checkState \in {"CMP_AND_MASK", "WRITEBACK"} THEN "WORK" ELSE checkState

MaxVectors == MaxRuns * CHOOSE n \in { VectorsOf(p) : p \in Programs } :
                          \A p \in Programs : VectorsOf(p) <= n

Flow == INSTANCE VectorFlow WITH stim <- StimView, check <- CheckView

-----------------------------------------------------------------------------
(* The program in SRAM: a test vector is 6 words long, other records are    *)
(* padded to 3.                                                             *)
VectorWords == 6

ShortWords == 3

Base(p, i) ==
  LET vectors == Cardinality({ j \in 1 .. i - 1 : p[j] = "TEST_VECTOR" })
  IN  ShortWords * (i - 1) + (VectorWords - ShortWords) * vectors

(* The record that starts at a word, 0 if none does. *)
RecordAt(a) ==
  IF \E i \in DOMAIN prog : Base(prog, i) = a
  THEN CHOOSE i \in DOMAIN prog : Base(prog, i) = a
  ELSE 0

(* req_type, from the first word of the buffer: UNKNOWN stands for whatever *)
(* a word in the middle of a record decodes to.                             *)
record   == RecordAt(buffer[0])
req_type == IF record = 0 THEN "UNKNOWN" ELSE prog[record]

-----------------------------------------------------------------------------
(* The SRAM port.  Nobody but the tester uses it while busy is set.         *)

ShortStates == {"READ_META", "SETUP_BITMASK", "SEND_DICMD", "SWITCH_TARGET",
                "SWITCH_VDD", "START_REPLL"}

mem_waitrequest == ~busy

(* Mutant: one read too many.                                               *)
stim_read_OneTooMany ==
  \/ stimState = "IDLE" /\ ~Flow!sfifo_wrfull /\ ~Flow!cfifo_wrfull
  \/ stimState \in ShortStates /\ requested <= ShortWords
  \/ stimState = "READ_TV" /\ requested <= VectorWords

stim_read ==
  \/ stimState = "IDLE" /\ ~Flow!sfifo_wrfull /\ ~Flow!cfifo_wrfull
  \/ stimState \in ShortStates /\ requested < ShortWords
  \/ stimState = "READ_TV" /\ requested < VectorWords

(* mem_if: stim's reads go before check's writes. *)
inc_address       == stim_read /\ ~mem_waitrequest
check_waitrequest == stim_read \/ mem_waitrequest

mem_readdataready == ready # None /\ busy

SramStep ==
  /\ oe' = IF inc_address THEN address ELSE None
  /\ ready' = oe

-----------------------------------------------------------------------------
(* stim: one disjunct per state. *)

(* Mutant: done once dut_if has fetched the last vector.                    *)
done_Early == stimState = "END" /\ Flow!sfifo_wrempty

done == stimState = "END" /\ Flow!sfifo_wrempty /\ Flow!cfifo_wrempty

NoVector == UNCHANGED <<issued, sLog, cLog, wbAddr>>

StimIdle ==
  /\ stimState = "IDLE"
  /\ stimState' = IF stim_read /\ ~mem_waitrequest THEN "READ_META" ELSE "IDLE"
  /\ NoVector

Handler ==
  [SWITCH_TARGET |-> "SWITCH_TARGET", TEST_VECTOR |-> "READ_TV",
   SETUP_BITMASK |-> "SETUP_BITMASK", SEND_DICMD |-> "SEND_DICMD",
   END |-> "END", PLLRECONFIG |-> "START_REPLL", UNKNOWN |-> "IDLE"]

StimReadMeta ==
  /\ stimState = "READ_META"
  /\ stimState' = IF stored = 1 THEN Handler[req_type] ELSE "READ_META"
  /\ NoVector

(* Mutant: the target is switched at once.                                  *)
StimSwitchTarget_AtOnce ==
  /\ stimState = "SWITCH_TARGET"
  /\ stimState' = "SWITCH_VDD"
  /\ NoVector

StimSwitchTarget ==
  /\ stimState = "SWITCH_TARGET"
  /\ stimState' = IF Flow!sfifo_wrempty /\ Flow!cfifo_wrempty
                  THEN "SWITCH_VDD" ELSE "SWITCH_TARGET"
  /\ NoVector

StimSwitchVdd ==
  /\ stimState = "SWITCH_VDD"
  /\ stimState' = IF waitcnt = 0 THEN "IDLE" ELSE "SWITCH_VDD"
  /\ NoVector

load_bitmask == stimState = "SETUP_BITMASK" /\ stored = ShortWords

StimSetupBitmask ==
  /\ stimState = "SETUP_BITMASK"
  /\ stimState' = IF load_bitmask THEN "IDLE" ELSE "SETUP_BITMASK"
  /\ NoVector

(* Mutant: the command is sent once the vectors have been fetched.          *)
StimSendDicmd_Fetched ==
  /\ stimState = "SEND_DICMD"
  /\ stimState' = IF stored = ShortWords /\ ~dififo_wrfull /\ Flow!sfifo_wrempty
                  THEN "WR_DIFIFO" ELSE "SEND_DICMD"
  /\ NoVector

StimSendDicmd ==
  /\ stimState = "SEND_DICMD"
  /\ stimState' = IF /\ stored = ShortWords /\ ~dififo_wrfull
                     /\ Flow!sfifo_wrempty /\ Flow!cfifo_wrempty
                  THEN "WR_DIFIFO" ELSE "SEND_DICMD"
  /\ NoVector

StimWrDififo ==
  /\ stimState = "WR_DIFIFO"
  /\ stimState' = "IDLE"
  /\ NoVector

(* Mutants: too few words, a word too many.                                  *)
StimReadTv_FourWords ==
  /\ stimState = "READ_TV"
  /\ stimState' = IF stored = VectorWords - 2 THEN "WR_FIFOS" ELSE "READ_TV"
  /\ NoVector

StimReadTv_SevenWords ==
  /\ stimState = "READ_TV"
  /\ stimState' = IF stored = VectorWords + 1 THEN "WR_FIFOS" ELSE "READ_TV"
  /\ NoVector

StimReadTv ==
  /\ stimState = "READ_TV"
  /\ stimState' = IF stored = VectorWords THEN "WR_FIFOS" ELSE "READ_TV"
  /\ NoVector

StimWrFifos ==
  /\ stimState = "WR_FIFOS"
  /\ stimState' = "IDLE"
  /\ issued' = issued + 1
  /\ sLog' = Write(sLog, issued + 1, Flow!sfifo_wrfull)
  /\ cLog' = Write(cLog, issued + 1, Flow!cfifo_wrfull)
  /\ wbAddr' = Write(wbAddr, address - 4, Flow!cfifo_wrfull)

(* The PLL and its reconfiguration controller answer when they please. *)
StimRepll ==
  /\ stimState = "START_REPLL"
  /\ \E pll_locked \in BOOLEAN :
       stimState' = IF stored = ShortWords /\ pll_locked THEN "PLL_RECONFIG"
                                                         ELSE "START_REPLL"
  /\ NoVector

StimPllReconfig ==
  /\ stimState = "PLL_RECONFIG"
  /\ stimState' = "PLL_WAIT"
  /\ NoVector

StimPllWait ==
  /\ stimState = "PLL_WAIT"
  /\ \E pll_stable \in BOOLEAN :
       stimState' = IF pll_stable THEN "IDLE" ELSE "PLL_WAIT"
  /\ NoVector

StimEnd ==
  /\ stimState = "END"
  /\ stimState' = IF done /\ enable THEN "IDLE" ELSE "END"
  /\ NoVector

StimState ==
  \/ StimIdle \/ StimReadMeta \/ StimReadTv \/ StimWrFifos
  \/ StimSwitchTarget \/ StimSwitchVdd \/ StimSetupBitmask
  \/ StimSendDicmd \/ StimWrDififo
  \/ StimRepll \/ StimPllReconfig \/ StimPllWait
  \/ StimEnd

(* The registers beside the state; stimState' is next_state.                *)

next_address ==
  IF stimState = "END" THEN 0 ELSE IF inc_address THEN address + 1 ELSE address

StimRegs ==
  /\ address' = next_address
  /\ requested' = IF stimState' = "IDLE" THEN 0
                  ELSE IF inc_address THEN requested + 1 ELSE requested
  /\ stored' = IF stimState' = "IDLE" THEN 0
               ELSE IF mem_readdataready THEN stored + 1 ELSE stored
  /\ buffer' = IF mem_readdataready THEN [buffer EXCEPT ![stored] = ready]
                                    ELSE buffer
  /\ waitcnt' = IF stimState = "SWITCH_TARGET" /\ stimState' = "SWITCH_VDD"
                THEN SettleCycles
                ELSE IF waitcnt > 0 THEN waitcnt - 1 ELSE 0
  /\ target' = IF stimState' = "SWITCH_VDD" THEN record ELSE target

StimStep == StimState /\ StimRegs

(* WR_DIFIFO writes the command; its payload is the record's number. *)
DififoData ==
  IF stimState = "WR_DIFIFO"
  THEN << [cmd |-> "SETUP_MUXES", payload |-> record] >>
  ELSE <<>>

-----------------------------------------------------------------------------
(* check. *)

CheckIdle ==
  /\ checkState = "IDLE"
  /\ checkState' = IF ~Flow!rfifo_rdempty /\ ~Flow!cfifo_rdempty
                   THEN "RD_FIFOS" ELSE "IDLE"
  /\ chkStored' = 0
  /\ UNCHANGED <<rRd, cRd, chkAddr, results>>

CheckRead ==
  /\ checkState = "RD_FIFOS"
  /\ checkState' = "CMP_AND_MASK"
  /\ rRd' = Read(rRd, Flow!rfifo_rdempty)
  /\ cRd' = Read(cRd, Flow!cfifo_rdempty)
  /\ UNCHANGED <<chkAddr, chkStored, results>>

CheckCompare ==
  /\ checkState = "CMP_AND_MASK"
  /\ checkState' = "WRITEBACK"
  /\ chkAddr' = Q(wbAddr, cRd, 0)
  /\ UNCHANGED <<rRd, cRd, chkStored, results>>

ResultWords == 2

CheckWriteback ==
  /\ checkState = "WRITEBACK"
  /\ IF check_waitrequest
     THEN UNCHANGED <<checkState, chkAddr, chkStored, results>>
     ELSE /\ checkState' = IF chkStored = ResultWords - 1 THEN "IDLE"
                                                          ELSE "WRITEBACK"
          /\ chkAddr' = chkAddr + 1
          /\ chkStored' = chkStored + 1
          /\ results' = results \cup
               {[at |-> chkAddr, run |-> runs, vec |-> Q(rLog, rRd, 0),
                 mask |-> bitmask]}
  /\ UNCHANGED <<rRd, cRd>>

CheckStep ==
  /\ CheckIdle \/ CheckRead \/ CheckCompare \/ CheckWriteback
  /\ bitmask' = IF load_bitmask THEN record ELSE bitmask

-----------------------------------------------------------------------------
(***************************************************************************)
(* test_runner's handshake, and software at the other end of it: it loads a *)
(* program and writes the enable register only while the tester is done     *)
(* (trunner_enable), and enable is a pulse of one cycle.                    *)
(***************************************************************************)
RunnerStep ==
  /\ busy' = IF enable THEN TRUE ELSE IF done THEN FALSE ELSE busy
  /\ \/ /\ done /\ ~busy /\ ~enable /\ runs < MaxRuns
        /\ enable' = TRUE
        /\ runs' = runs + 1
        /\ prog' \in Programs
     \/ enable' = FALSE /\ UNCHANGED <<runs, prog>>

SysTick ==
  /\ StimStep
  /\ CheckStep
  /\ SramStep
  /\ RunnerStep
  /\ SysCommand(DififoData)
  /\ Flow!SysSync
  /\ UNCHANGED flowPllVars

PllTick ==
  /\ UNCHANGED ctrlVars
  /\ Flow!PllTick
  /\ PllCommand

Init ==
  /\ prog \in Programs /\ runs = 0 /\ enable = FALSE /\ busy = FALSE
  /\ stimState = "END" /\ address = 0 /\ requested = 0 /\ stored = 0
  /\ buffer = [k \in 0 .. VectorWords - 1 |-> 0] /\ waitcnt = 0 /\ target = 0
  /\ oe = None /\ ready = None /\ wbAddr = <<>>
  /\ checkState = "IDLE" /\ chkAddr = 0 /\ chkStored = 0 /\ bitmask = 0
  /\ results = {}
  /\ CommandInit(0)
  /\ Flow!Init

Next == SysTick \/ PllTick

Spec == Init /\ [][Next]_vars
(***************************************************************************)
(* Both clocks keep running; a vector does not execute for ever (dut_if     *)
(* counts its cycles); the PLL locks and settles in the end.                *)
(***************************************************************************)
Fairness ==
  /\ WF_vars(SysTick)
  /\ WF_vars(PllTick /\ exState' = "IDLE")
  /\ WF_vars(SysTick /\ stimState = "START_REPLL" /\ stimState' = "PLL_RECONFIG")
  /\ WF_vars(SysTick /\ stimState = "PLL_WAIT" /\ stimState' = "IDLE")

FairSpec == Spec /\ Fairness

-----------------------------------------------------------------------------

StimStates == {"IDLE", "WR_FIFOS", "READ_TV", "WR_DIFIFO", "PLL_RECONFIG",
               "PLL_WAIT", "END"} \cup ShortStates

TypeOK ==
  /\ prog \in Programs /\ runs \in 0 .. MaxRuns
  /\ enable \in BOOLEAN /\ busy \in BOOLEAN
  /\ stimState \in StimStates
  /\ address \in Nat /\ waitcnt \in 0 .. SettleCycles
  /\ requested \in 0 .. VectorWords /\ stored \in 0 .. VectorWords
  /\ buffer \in [0 .. VectorWords - 1 -> Nat]
  /\ target \in Nat /\ bitmask \in Nat
  /\ {oe, ready} \subseteq Nat \cup {None}
  /\ wbAddr \in Seq(Nat)
  /\ checkState \in {"IDLE", "RD_FIFOS", "CMP_AND_MASK", "WRITEBACK"}
  /\ chkAddr \in Nat /\ chkStored \in 0 .. ResultWords
  /\ results \subseteq [at : Nat, run : 1 .. MaxRuns, vec : Nat, mask : Nat]

(***************************************************************************)
(* stim stays in step with the program, though it asks for words before it  *)
(* knows what record they belong to and they arrive cycles later: when it   *)
(* goes for the next record nothing of the last one is still on its way     *)
(* from the SRAM, and the address is that of a record.  The padding of the  *)
(* short records to three words is there for this.                          *)
(***************************************************************************)
AlignedParse ==
  /\ TypeOK
  /\ stimState = "IDLE" =>
       /\ requested = 0 /\ stored = 0
       /\ oe = None /\ ready = None
       /\ RecordAt(address) # 0

(***************************************************************************)
(* The vector stim writes to the FIFOs is made of the six words of one      *)
(* record, in their order.                                                  *)
(***************************************************************************)
WholeVector ==
  stimState = "WR_FIFOS" =>
    /\ req_type = "TEST_VECTOR"
    /\ \A k \in DOMAIN buffer : buffer[k] = buffer[0] + k

(***************************************************************************)
(* What software finds in SRAM once busy has dropped: for each test vector  *)
(* of the program both words of the response to that very vector, in the    *)
(* result fields of its record, and nothing else written.  done only says   *)
(* that check has popped its last entry: the comparison and two writes      *)
(* still lie ahead of it at that moment, and a write check has not made     *)
(* when the arbiter turns away from the tester waits for the next run.      *)
(***************************************************************************)
VectorAt(i) ==
  issued - Cardinality({ j \in DOMAIN prog : j > i /\ prog[j] = "TEST_VECTOR" })

Expected ==
  UNION { { <<Base(prog, i) + 2, VectorAt(i)>>, <<Base(prog, i) + 3, VectorAt(i)>> } :
          i \in { j \in DOMAIN prog : prog[j] = "TEST_VECTOR" } }

Written == { <<r.at, r.vec>> : r \in { w \in results : w.run = runs } }

(* Each is masked with the bitmask that was set before its vector, or with a *)
(* later one: SETUP_BITMASK does not wait for the vectors before it, but it  *)
(* never comes too late for the vectors behind it.                          *)
MaskNotLate ==
  \A r \in results : \A i \in DOMAIN prog :
    r.run = runs /\ r.at \in {Base(prog, i) + 2, Base(prog, i) + 3}
      => \A j \in 1 .. i - 1 : prog[j] = "SETUP_BITMASK" => j <= r.mask

RunComplete ==
  runs > 0 /\ ~enable /\ ~busy
    => Written = Expected /\ checkState = "IDLE" /\ MaskNotLate

(***************************************************************************)
(* A command reaches dut_if only between vectors: while one is on its way,  *)
(* from stim's decision to send it until it is in the command FIFO, no      *)
(* vector is under way, and the target is switched likewise.                *)
(***************************************************************************)
ChangesWhenQuiescent ==
  /\ stimState = "WR_DIFIFO" => Flow!Quiescent
  /\ stimState = "SWITCH_VDD" => Flow!Quiescent

(***************************************************************************)
(* The controller implements the vector flow: the word-by-word parsing, the *)
(* memory arbitration and the write-back change nothing of it.              *)
(***************************************************************************)
RefinesFlow == Flow!Spec

(***************************************************************************)
(* Every run ends: whatever the records of the program, busy drops again    *)
(* after the enable pulse.                                                  *)
(***************************************************************************)
RunsEnd == enable \/ busy ~> ~enable /\ ~busy
=============================================================================
