----------------------------- MODULE AdcCapture -----------------------------
(***************************************************************************)
(* A capture with the ADC, and the memory it shares with the tester and the *)
(* CPU: confrd's .measure adc (parse_line_measure, adc_if.c, the upload of  *)
(* the samples), the driver adc_dev.c with its interrupt handler, the       *)
(* registers of adc_if.v, the sampler adc.v and the arbiter                 *)
(* sram_arb_sync.v.  The tester is a master that reads and writes while it  *)
(* is busy (TestController has it in full), its driver the one answer       *)
(* module TestRunner shows it to give.                                      *)
(*                                                                          *)
(* Samples are numbered.  One confrd, which may be killed and started       *)
(* again.  Between two steps of a process the clock may tick; the CPU stops *)
(* when it reads or writes the SRAM and is made to wait.                    *)
(***************************************************************************)
EXTENDS Integers, FiniteSets

CONSTANTS
  LastAddress,   \* (1 << ADDR_WIDTH) - 1
  PowerUp,       \* cycles the sampler waits for the ADC to wake up (31)
  MaxCaptures,   \* captures (bound of the model)
  MaxKills       \* times confrd is killed (bound of the model)

ASSUME CaptureAssumption == {LastAddress, PowerUp, MaxCaptures, MaxKills} \subseteq Nat

Words == 0 .. LastAddress

VARIABLES
  enable, adc_busy, done_d1, irq,          \* adc_if.v
  state, mem_address, mem_write, mem_writedata, pwrup_counter,  \* adc.v
  samples, captures,                       \* samples so far, and of which capture
  tr_enable, tr_busy, running, tr_waits,   \* the tester; tr_waits: for the answer to a read
  access, answer,                          \* sram_arb_sync.v: pipeline
  sram,
  ad_busy, polling, woken, handler,        \* adc_dev.c
  pc, word, got, kills                     \* confrd; got: what it has read, up to word

adcVars    == <<enable, adc_busy, done_d1, irq, state, mem_address, mem_write,
                mem_writedata, pwrup_counter, samples, captures>>
testerVars == <<tr_enable, tr_busy, running, tr_waits>>
sramVars   == <<access, answer, sram>>
hwVars     == <<adcVars, testerVars, sramVars>>
drvVars    == <<ad_busy, polling, woken, handler>>
upVars     == <<word, got>>
vars       == <<hwVars, drvVars, pc, upVars, kills>>

-----------------------------------------------------------------------------
(* sram_arb_sync.v                                                          *)

(* Mutant: the CPU waits for the tester only.                               *)
sopc_waitrequest_Tester == tr_busy

sopc_waitrequest == tr_busy \/ adc_busy
tr_waitrequest   == ~tr_busy \/ adc_busy

Idle == [op |-> "none"]
Read(a, by) == [op |-> "read", a |-> a, by |-> by]
Write(a, d) == [op |-> "write", a |-> a, d |-> d]

(* Whose request goes to the memory.                                        *)
Selected(cpu, tester) ==
  IF adc_busy THEN IF mem_write THEN Write(mem_address, mem_writedata) ELSE Idle
  ELSE IF tr_busy THEN tester ELSE cpu

(* The request registered at one edge reaches the memory at the next one;   *)
(* what was read is there one edge later, for whoever is selected then.     *)
SramEdge(cpu, tester) ==
  /\ access' = Selected(cpu, tester)
  /\ sram' = IF access.op = "write" THEN [sram EXCEPT ![access.a] = access.d] ELSE sram
  /\ answer' = IF access.op = "read" THEN [by |-> access.by, d |-> sram[access.a]]
               ELSE [by |-> "nobody"]

sopc_readdataready == answer.by # "nobody" /\ ~adc_busy /\ ~tr_busy
tr_readdataready   == answer.by # "nobody" /\ ~adc_busy /\ tr_busy

-----------------------------------------------------------------------------
(* adc_if.v and adc.v                                                       *)

done == state = "END"

done_rises == done /\ ~done_d1

NextBusy == IF enable THEN TRUE ELSE IF done THEN FALSE ELSE adc_busy

(* Mutant: the address is tested one word early.                            *)
last_address_Early == mem_address + 1 >= LastAddress

last_address == mem_address = LastAddress

NextState ==
  CASE state = "IDLE"    -> IF adc_busy THEN "POWERUP" ELSE "IDLE"
    [] state = "POWERUP" -> IF pwrup_counter = 0 THEN "SAMPLE1" ELSE "POWERUP"
    [] state = "SAMPLE1" -> "SAMPLE2"
    [] state = "SAMPLE2" -> IF last_address THEN "END" ELSE "SAMPLE1"
    [] state = "END"     -> IF enable THEN "IDLE" ELSE "END"

(* The sampler writes a word one cycle after its second half.               *)
SamplerEdge ==
  /\ state' = NextState
  /\ mem_write' = (state = "SAMPLE2")
  /\ mem_address' = IF done THEN 0
                    ELSE IF mem_write /\ adc_busy THEN (mem_address + 1) % (LastAddress + 1)
                    ELSE mem_address
  /\ pwrup_counter' = IF state = "IDLE" THEN PowerUp
                      ELSE IF state = "POWERUP" /\ pwrup_counter >= 1 THEN pwrup_counter - 1
                      ELSE pwrup_counter
  /\ mem_writedata' = IF state = "SAMPLE1" THEN [mem_writedata EXCEPT !.high = samples]
                      ELSE IF state = "SAMPLE2" THEN [mem_writedata EXCEPT !.low = samples, !.of = captures]
                      ELSE mem_writedata
  /\ samples' = IF state \in {"SAMPLE1", "SAMPLE2"} THEN samples + 1
                ELSE IF done THEN 0 ELSE samples
  /\ captures' = IF done /\ enable THEN captures + 1 ELSE captures

RegisterEdge(writeEnable, readIrq) ==
  /\ enable' = writeEnable
  /\ adc_busy' = NextBusy
  /\ done_d1' = done
  /\ irq' = (done_rises \/ (irq /\ ~readIrq))

(* The tester runs until it likes to end, but not before its last answer.   *)
TesterEdge(writeEnable, request) ==
  /\ tr_enable' = writeEnable
  /\ tr_busy' = IF tr_enable THEN TRUE ELSE IF ~running THEN FALSE ELSE tr_busy
  /\ request # Idle => running /\ ~tr_waits /\ ~tr_waitrequest
  /\ tr_waits' = (request.op = "read" \/ (tr_waits /\ ~tr_readdataready))
  /\ IF running
     THEN running' \in IF tr_waits \/ request # Idle THEN {TRUE} ELSE BOOLEAN
     ELSE running' = tr_enable

TesterRequests == {Idle, Read(0, "tester"), Write(LastAddress, [of |-> "tester"])}

(* One edge of the clock, with at most one access by the CPU.               *)
Edge(adcEnable, trEnable, readIrq, cpu) ==
  \E request \in TesterRequests :
    /\ RegisterEdge(adcEnable, readIrq) /\ SamplerEdge
    /\ TesterEdge(trEnable, request) /\ SramEdge(cpu, request)

Tick == Edge(FALSE, FALSE, FALSE, Idle)

(* An answer to the CPU is taken at the edge at which it comes (WordRead).  *)
Clock ==
  /\ ~ (pc = "reading" /\ sopc_readdataready)
  /\ Tick
  /\ UNCHANGED <<drvVars, pc, upVars, kills>>

-----------------------------------------------------------------------------
(* adc_irq_handler.  The CPU waits for the answer to a read ("reading").    *)

Interrupt ==
  /\ handler = "out" /\ irq /\ pc # "reading"
  /\ handler' = "read"
  /\ UNCHANGED <<hwVars, ad_busy, polling, woken, pc, upVars, kills>>

HandlerRead ==
  /\ handler = "read"
  /\ Edge(FALSE, FALSE, TRUE, Idle)
  /\ handler' = "free"
  /\ UNCHANGED <<ad_busy, polling, woken, pc, upVars, kills>>

HandlerFree ==
  /\ handler = "free"
  /\ ad_busy' = FALSE
  /\ handler' = "wake"
  /\ UNCHANGED <<hwVars, polling, woken, pc, upVars, kills>>

HandlerWake ==
  /\ handler = "wake"
  /\ woken' = (woken \/ polling)
  /\ handler' = "out"
  /\ UNCHANGED <<hwVars, ad_busy, polling, pc, upVars, kills>>

Handler == Interrupt \/ HandlerRead \/ HandlerFree \/ HandlerWake

-----------------------------------------------------------------------------
(* confrd                                                                   *)

step(from, to) == handler = "out" /\ pc = from /\ pc' = to

(* suspend_emit, go: what was read so far, and END in any case, is loaded   *)
(* into the SRAM.                                                           *)
Load ==
  /\ captures < MaxCaptures
  /\ step("line", "loaded")
  /\ ~sopc_waitrequest
  /\ Edge(FALSE, FALSE, FALSE, Write(0, [of |-> "confrd"]))
  /\ UNCHANGED <<drvVars, upVars, kills>>

(* run_trunner: refused while the tester is busy; else the process waits    *)
(* until it is not.                                                         *)
RunTester ==
  /\ IF running \/ tr_busy \/ tr_enable
     THEN step("loaded", "line") /\ Tick
     ELSE step("loaded", "running") /\ Edge(FALSE, TRUE, FALSE, Idle)
  /\ UNCHANGED <<drvVars, upVars, kills>>

TesterDone ==
  /\ ~(running \/ tr_busy \/ tr_enable)
  /\ step("running", "measure")
  /\ UNCHANGED <<hwVars, drvVars, upVars, kills>>

(* adc_enable of the driver: EBUSY if a capture is under way for the driver *)
(* or for the hardware ...                                                  *)
EnableCheckBusy ==
  /\ \/ ad_busy /\ step("measure", "line")
     \/ ~ad_busy /\ step("measure", "ask")
  /\ UNCHANGED <<hwVars, drvVars, upVars, kills>>

EnableCheckDone ==
  /\ \/ ~done /\ step("ask", "line")
     \/ done /\ step("ask", "mark")
  /\ Tick
  /\ UNCHANGED <<drvVars, upVars, kills>>

(* ... else note it, and start the sampler.                                 *)
EnableMark ==
  /\ step("mark", "start")
  /\ ad_busy' = TRUE
  /\ UNCHANGED <<hwVars, polling, woken, handler, upVars, kills>>

EnableStart ==
  /\ step("start", "wait")
  /\ Edge(TRUE, FALSE, FALSE, Idle)
  /\ UNCHANGED <<drvVars, upVars, kills>>

(* Mutant: the process is not entered in the wait queue.                    *)
PollWait_NotQueued ==
  /\ step("wait", "check")
  /\ woken' = FALSE
  /\ UNCHANGED <<hwVars, ad_busy, polling, handler, upVars, kills>>

(* adc_wait_done: poll, adc_poll.                                           *)
PollWait ==
  /\ step("wait", "check")
  /\ polling' = TRUE /\ woken' = FALSE
  /\ UNCHANGED <<hwVars, ad_busy, handler, upVars, kills>>

PollCheck ==
  /\ \/ ~ad_busy /\ step("check", "upload") /\ polling' = FALSE
     \/ ad_busy /\ step("check", "asleep") /\ UNCHANGED polling
  /\ UNCHANGED <<hwVars, ad_busy, woken, handler, upVars, kills>>

PollAgain ==
  /\ woken
  /\ step("asleep", "check")
  /\ woken' = FALSE
  /\ UNCHANGED <<hwVars, ad_busy, polling, handler, upVars, kills>>

(* submit_measurement_adc, _adc_readdata: the words of the SRAM in order.   *)
ReadWord ==
  /\ step("upload", "reading")
  /\ ~sopc_waitrequest
  /\ Edge(FALSE, FALSE, FALSE, Read(word, "cpu"))
  /\ UNCHANGED <<drvVars, upVars, kills>>

WordRead ==
  /\ sopc_readdataready
  /\ step("reading", IF word = LastAddress THEN "sent" ELSE "upload")
  /\ Tick
  /\ got' = [got EXCEPT ![word] = answer.d]
  /\ word' = (word + 1) % (LastAddress + 1)
  /\ UNCHANGED <<drvVars, kills>>

NoWords == [a \in Words |-> [of |-> "nobody"]]

NextLine ==
  /\ step("sent", "line")
  /\ got' = NoWords
  /\ UNCHANGED <<hwVars, drvVars, word, kills>>

(* The card is removed and put in again: confrd is killed and started,      *)
(* which takes far longer than an enable pulse needs to arrive.             *)
Kill ==
  /\ kills < MaxKills /\ ~enable /\ ~tr_enable
  /\ handler = "out" /\ pc \notin {"ask", "mark", "start", "check", "reading"}
  /\ pc' = "line" /\ word' = 0 /\ got' = NoWords
  /\ polling' = FALSE /\ woken' = FALSE
  /\ kills' = kills + 1
  /\ UNCHANGED <<hwVars, ad_busy, handler>>

Process ==
  \/ Load \/ RunTester \/ TesterDone
  \/ EnableCheckBusy \/ EnableCheckDone \/ EnableMark \/ EnableStart
  \/ PollWait \/ PollCheck \/ PollAgain
  \/ ReadWord \/ WordRead \/ NextLine

(* After reset and probe, with the interrupt of reset taken.                *)
Init ==
  /\ enable = FALSE /\ adc_busy = FALSE /\ done_d1 = TRUE /\ irq = FALSE
  /\ state = "END" /\ mem_address = 0 /\ mem_write = FALSE
  /\ mem_writedata = [of |-> 0, high |-> 0, low |-> 0]
  /\ pwrup_counter = PowerUp /\ samples = 0 /\ captures = 0
  /\ tr_enable = FALSE /\ tr_busy = FALSE /\ running = FALSE /\ tr_waits = FALSE
  /\ access = Idle /\ answer = [by |-> "nobody"]
  /\ sram = NoWords
  /\ ad_busy = FALSE /\ polling = FALSE /\ woken = FALSE /\ handler = "out"
  /\ pc = "line" /\ word = 0 /\ got = NoWords /\ kills = 0

Next == Clock \/ Handler \/ Process \/ Kill

Spec == Init /\ [][Next]_vars

(***************************************************************************)
(* The clock runs, every run of the tester ends, an interrupt is taken and  *)
(* the process goes on.                                                     *)
(***************************************************************************)
Fairness ==
  /\ WF_vars(Clock)
  /\ WF_vars(Clock /\ ~running')
  /\ WF_vars(Handler)
  /\ WF_vars(Process)

FairSpec == Spec /\ Fairness

-----------------------------------------------------------------------------

Sampled(c, a) == [of |-> c, high |-> 2 * a, low |-> 2 * a + 1]

TypeOK ==
  /\ {enable, adc_busy, done_d1, irq, mem_write, tr_enable, tr_busy, running, tr_waits,
      ad_busy, polling, woken} \subseteq BOOLEAN
  /\ state \in {"IDLE", "POWERUP", "SAMPLE1", "SAMPLE2", "END"}
  /\ mem_address \in Words /\ pwrup_counter \in 0 .. PowerUp
  /\ samples \in 0 .. 2 * (LastAddress + 1) /\ captures \in 0 .. MaxCaptures
  /\ state = "SAMPLE1" /\ ~mem_write => samples = 2 * mem_address
  /\ handler \in {"out", "read", "free", "wake"}
  /\ polling <=> pc \in {"check", "asleep"}
  /\ DOMAIN sram = Words /\ DOMAIN got = Words /\ word \in Words /\ kills \in 0 .. MaxKills

(***************************************************************************)
(* The sampler does not look at waitrequest while it samples: whatever it   *)
(* writes, it owns the SRAM then, to the last word.                         *)
(***************************************************************************)
SampleTaken == mem_write => adc_busy

(***************************************************************************)
(* The tester and the ADC never both have the SRAM, though nothing in the   *)
(* hardware and neither driver keeps them apart, not even when confrd is    *)
(* killed with one of them at work and started again.                       *)
(***************************************************************************)
OneOwner == ~ (tr_busy /\ (adc_busy \/ enable))

(***************************************************************************)
(* Every answer of the memory finds the reader it is for selected: an       *)
(* answer that comes after the SRAM has changed hands is lost, and CPU or   *)
(* tester wait for it for ever.                                             *)
(***************************************************************************)
AnswerReachesReader ==
  /\ answer.by = "cpu" => sopc_readdataready
  /\ answer.by = "tester" => tr_readdataready

(***************************************************************************)
(* The SRAM changes hands without loss: its owner is one at a time, keeps it *)
(* while it writes, and no answer is under way to another one.              *)
(***************************************************************************)
SramShared == TypeOK /\ SampleTaken /\ OneOwner /\ AnswerReachesReader

(***************************************************************************)
(* What confrd uploads is the capture it has asked for, every sample of it, *)
(* in order and nothing else.                                               *)
(***************************************************************************)
UploadsCapture == pc = "sent" => got = [a \in Words |-> Sampled(captures, a)]

(***************************************************************************)
(* A measurement ends: the samples are sent, the line is given up, or the   *)
(* process is killed.                                                       *)
(***************************************************************************)
MeasurementEnds == pc = "measure" ~> pc \in {"sent", "line"}
=============================================================================
