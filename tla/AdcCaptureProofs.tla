-------------------------- MODULE AdcCaptureProofs --------------------------
(***************************************************************************)
(* Proofs about module AdcCapture, for an SRAM and a power-up time of any   *)
(* size and any number of captures and kills.                               *)
(***************************************************************************)
EXTENDS AdcCapture, TLAPS

(***************************************************************************)
(* Why the SRAM is shared without loss.  The sampler has it whenever it is  *)
(* not at its end, and has as many samples as its address says.             *)
(***************************************************************************)
Written == IF mem_write THEN 1 ELSE 0

SamplerInv ==
  /\ state # "END" => adc_busy
  /\ state \in {"IDLE", "POWERUP"} => mem_address = 0 /\ samples = 0 /\ ~mem_write
  /\ state = "SAMPLE1" => samples = 2 * (mem_address + Written) /\ mem_address + Written <= LastAddress
  /\ state = "SAMPLE2" => samples = 2 * mem_address + 1 /\ ~mem_write
  /\ SampleTaken

(* The driver's flag: whenever it is clear the sampler rests and has no     *)
(* interrupt left, and what the handler serves is the last of a capture.    *)
Quiet == state = "END" /\ done_d1 /\ ~adc_busy /\ ~enable

InHandler == handler \in {"read", "free"}

DriverInv ==
  /\ ~ad_busy => Quiet /\ ~irq /\ ~InHandler
  /\ irq \/ InHandler => Quiet
  /\ handler = "free" => ~irq
  /\ pc \in {"ask", "mark"} => ~ad_busy
  /\ pc = "start" => ad_busy /\ Quiet /\ ~irq /\ ~InHandler
  /\ enable => ad_busy /\ state = "END" /\ done_d1 /\ ~irq /\ ~InHandler /\ ~adc_busy

(* confrd uses the tester and the ADC in turn, and what it started before   *)
(* it was killed keeps it from loading the SRAM.                            *)
TurnInv ==
  /\ enable => pc \in {"wait", "check", "asleep"}
  /\ adc_busy => pc \in {"line", "wait", "check", "asleep"}
  /\ tr_enable => pc = "running"
  /\ tr_busy => pc \in {"line", "running"}
  /\ OneOwner

Begun == {"loaded", "running", "measure", "ask", "mark", "start"}

CapturesInv == pc \in Begun \/ enable => captures < MaxCaptures

(* A reader asks for one word at a time and keeps the SRAM till it has it.  *)
Asks(who)     == access.op = "read" /\ access.by = who
Answered(who) == answer.by = who

AnswerInv ==
  /\ access.op = "read" => access.by \in {"cpu", "tester"}
  /\ Asks("cpu") \/ Answered("cpu") => pc = "reading"
  /\ Asks("tester") \/ Answered("tester") => tr_waits
  /\ ~ (access.op = "read" /\ answer.by # "nobody")
  /\ tr_waits => running
  /\ running => tr_busy

IInv == TypeOK /\ SamplerInv /\ DriverInv /\ TurnInv /\ CapturesInv /\ AnswerInv

-----------------------------------------------------------------------------
LEMMA InitIInv == Init => IInv
<1> SUFFICES ASSUME Init PROVE IInv
  OBVIOUS
<1> USE CaptureAssumption DEF Init
<1>1. 0 \in Words /\ DOMAIN NoWords = Words
  BY DEF Words, NoWords
<1>2. {enable, adc_busy, done_d1, irq, mem_write, tr_enable, tr_busy, running, tr_waits,
       ad_busy, polling, woken} \subseteq BOOLEAN
  OBVIOUS
<1>3. /\ state = "END" /\ handler = "out" /\ pc = "line" /\ ~polling
      /\ mem_address \in Words /\ word \in Words
      /\ pwrup_counter \in 0 .. PowerUp /\ samples \in 0 .. 2 * (LastAddress + 1)
      /\ captures \in 0 .. MaxCaptures /\ kills \in 0 .. MaxKills
  BY <1>1
<1>4. TypeOK
  BY <1>1, <1>2, <1>3 DEF TypeOK
<1>5. SamplerInv /\ DriverInv /\ TurnInv /\ CapturesInv
  BY DEF SamplerInv, SampleTaken, DriverInv, Quiet, InHandler, TurnInv, OneOwner, CapturesInv, Begun
<1>6. AnswerInv
  BY DEF AnswerInv, Asks, Answered, Idle
<1> QED
  BY <1>4, <1>5, <1>6 DEF IInv

-----------------------------------------------------------------------------
(***************************************************************************)
(* The parts of one edge of the clock.                                      *)
(***************************************************************************)
LEMMA ModWords ==
  ASSUME NEW a \in Words
  PROVE  /\ (a + 1) % (LastAddress + 1) \in Words
         /\ a + 1 <= LastAddress => (a + 1) % (LastAddress + 1) = a + 1
<1>1. LastAddress \in Nat /\ a \in 0 .. LastAddress
  BY CaptureAssumption DEF Words
<1> QED
  BY <1>1 DEF Words

LEMMA SamplerStep ==
  ASSUME TypeOK, SamplerInv, CapturesInv, NEW we \in BOOLEAN, NEW ri \in BOOLEAN,
         RegisterEdge(we, ri), SamplerEdge
  PROVE  /\ SamplerInv'
         /\ {enable', adc_busy', done_d1', irq', mem_write'} \subseteq BOOLEAN
         /\ state' \in {"IDLE", "POWERUP", "SAMPLE1", "SAMPLE2", "END"}
         /\ mem_address' \in Words /\ pwrup_counter' \in 0 .. PowerUp
         /\ samples' \in 0 .. 2 * (LastAddress + 1) /\ captures' \in 0 .. MaxCaptures
<1> USE CaptureAssumption
<1>1. {enable', adc_busy', done_d1', irq', mem_write'} \subseteq BOOLEAN
  BY DEF TypeOK, RegisterEdge, NextBusy, done, done_rises, SamplerEdge
<1>2. /\ state' \in {"IDLE", "POWERUP", "SAMPLE1", "SAMPLE2", "END"}
      /\ pwrup_counter' \in 0 .. PowerUp
  BY DEF TypeOK, SamplerEdge, NextState
<1>3. captures' \in 0 .. MaxCaptures
  BY DEF TypeOK, SamplerEdge, CapturesInv
<1>4. mem_address' \in Words
  BY ModWords DEF TypeOK, SamplerEdge, Words
<1>5. CASE state = "END"
  <2>1. state' \in {"IDLE", "END"} /\ ~mem_write' /\ mem_address' = 0 /\ samples' = 0
    BY <1>5 DEF SamplerEdge, NextState, done
  <2>2. state' = "IDLE" => adc_busy'
    BY <1>5 DEF SamplerEdge, NextState, RegisterEdge, NextBusy
  <2> QED
    BY <1>1, <1>2, <1>3, <1>4, <2>1, <2>2 DEF SamplerInv, SampleTaken
<1>6. CASE state \in {"IDLE", "POWERUP"}
  <2>1. /\ state' \in {"POWERUP", "SAMPLE1", "IDLE"} /\ ~mem_write'
        /\ mem_address' = 0 /\ samples' = 0 /\ adc_busy'
    BY <1>6 DEF SamplerInv, SamplerEdge, NextState, done, RegisterEdge, NextBusy
  <2> QED
    BY <1>1, <1>2, <1>3, <1>4, <2>1 DEF SamplerInv, SampleTaken, Written
<1>7. CASE state = "SAMPLE1"
  <2>1. /\ state' = "SAMPLE2" /\ ~mem_write' /\ adc_busy' /\ adc_busy
        /\ samples' = 2 * (mem_address + Written) + 1 /\ mem_address + Written <= LastAddress
    BY <1>7 DEF SamplerInv, SamplerEdge, NextState, done, RegisterEdge, NextBusy
  <2>2. mem_address' = mem_address + Written
    <3>1. CASE mem_write
      BY <1>7, <2>1, <3>1, ModWords DEF TypeOK, SamplerEdge, done, Written
    <3>2. CASE ~mem_write
      BY <1>7, <3>2 DEF TypeOK, SamplerEdge, done, Written, Words
    <3> QED
      BY <3>1, <3>2
  <2>3. samples' \in 0 .. 2 * (LastAddress + 1)
    BY <2>1, <2>2, <1>4 DEF Words
  <2> QED
    BY <1>1, <1>2, <1>3, <1>4, <2>1, <2>2, <2>3 DEF SamplerInv, SampleTaken
<1>8. CASE state = "SAMPLE2"
  <2>1. /\ state' = IF mem_address = LastAddress THEN "END" ELSE "SAMPLE1"
        /\ mem_write' /\ adc_busy' /\ mem_address' = mem_address /\ samples' = samples + 1
    BY <1>8 DEF SamplerInv, SamplerEdge, NextState, last_address, done, RegisterEdge, NextBusy
  <2>2. samples' = 2 * mem_address + 2
    BY <1>8, <2>1 DEF SamplerInv, TypeOK, Words
  <2>3. samples' \in 0 .. 2 * (LastAddress + 1)
    BY <2>2 DEF TypeOK, Words
  <2>4. mem_address # LastAddress => mem_address + 1 <= LastAddress
    BY DEF TypeOK, Words
  <2>5. Written' = 1
    BY <2>1 DEF Written
  <2>6. SamplerInv'
    BY <2>1, <2>2, <2>4, <2>5 DEF SamplerInv, SampleTaken, TypeOK, Words
  <2> QED
    BY <1>1, <1>2, <1>3, <1>4, <2>3, <2>6
<1> QED
  BY <1>5, <1>6, <1>7, <1>8 DEF TypeOK

(***************************************************************************)
(* How far confrd may go with an edge that writes we to the enable register *)
(* of the ADC and te to that of the tester.                                 *)
(***************************************************************************)
EdgeMove(we, te) ==
  \/ pc' = pc /\ ~we /\ ~te
  \/ pc = "line" /\ pc' = "loaded" /\ ~sopc_waitrequest /\ captures < MaxCaptures /\ ~we /\ ~te
  \/ pc = "loaded" /\ pc' = "line" /\ ~we /\ ~te
  \/ pc = "loaded" /\ pc' = "running" /\ ~we /\ te
  \/ pc = "ask" /\ pc' \in {"line", "mark"} /\ ~we /\ ~te
  \/ pc = "start" /\ pc' = "wait" /\ we /\ ~te
  \/ pc = "upload" /\ pc' = "reading" /\ ~we /\ ~te
  \/ pc = "reading" /\ pc' \in {"upload", "sent"} /\ sopc_readdataready /\ ~we /\ ~te

(* A request of the CPU's is what the program is at.                        *)
CpuMove(cpu) == cpu.op = "read" => cpu.by = "cpu" /\ pc = "upload" /\ pc' = "reading"

HandlerMove(ri) == handler' = handler \/ (ri /\ handler = "read" /\ handler' = "free")

LEMMA DriverStep ==
  ASSUME TypeOK, SamplerInv, DriverInv, NEW we \in BOOLEAN, NEW te \in BOOLEAN, NEW ri \in BOOLEAN,
         RegisterEdge(we, ri), SamplerEdge, EdgeMove(we, te), HandlerMove(ri), ad_busy' = ad_busy
  PROVE  DriverInv'
<1>1. we => pc = "start" /\ pc' = "wait"
  BY DEF EdgeMove
<1>2. pc' = "start" => pc = "start" /\ ~we
  BY DEF EdgeMove
<1>3. Quiet /\ ~we => Quiet'
  BY DEF Quiet, RegisterEdge, NextBusy, SamplerEdge, NextState, done
<1>4. Quiet /\ ~irq => ~irq'
  BY DEF Quiet, RegisterEdge, done_rises
<1>5. irq' => Quiet' \/ (Quiet /\ irq)
  <2>1. CASE done_rises
    BY <2>1, <1>1 DEF DriverInv, Quiet, RegisterEdge, NextBusy, SamplerEdge, NextState, done, done_rises
  <2>2. CASE ~done_rises
    BY <2>2 DEF DriverInv, RegisterEdge
  <2> QED
    BY <2>1, <2>2
<1>6. InHandler' => InHandler
  BY DEF HandlerMove, InHandler
<1>7. ~ad_busy' => Quiet' /\ ~irq' /\ ~InHandler'
  BY <1>1, <1>3, <1>4, <1>6 DEF DriverInv
<1>8. irq' \/ InHandler' => Quiet'
  BY <1>1, <1>3, <1>5, <1>6 DEF DriverInv
<1>9. handler' = "free" => ~irq'
  <2>1. CASE handler = "free"
    BY <2>1, <1>4 DEF DriverInv, InHandler
  <2>2. CASE ri /\ handler = "read"
    BY <2>2 DEF DriverInv, InHandler, Quiet, RegisterEdge, done_rises
  <2> QED
    BY <2>1, <2>2 DEF HandlerMove
<1>10. /\ pc' \in {"ask", "mark"} => ~ad_busy'
       /\ pc' = "start" => ad_busy' /\ Quiet' /\ ~irq' /\ ~InHandler'
  BY <1>2, <1>3, <1>4, <1>6 DEF DriverInv, EdgeMove
<1>11. enable' => /\ ad_busy' /\ state' = "END" /\ done_d1' /\ ~irq' /\ ~InHandler'
                  /\ ~adc_busy'
  <2> SUFFICES ASSUME enable' PROVE ad_busy' /\ state' = "END" /\ done_d1' /\ ~irq' /\ ~InHandler' /\ ~adc_busy'
    OBVIOUS
  <2>1. we
    BY DEF RegisterEdge
  <2>2. ad_busy /\ Quiet /\ ~irq /\ ~InHandler
    BY <1>1, <2>1 DEF DriverInv
  <2>3. state' = "END" /\ done_d1' /\ ~adc_busy'
    BY <2>2 DEF Quiet, RegisterEdge, NextBusy, SamplerEdge, NextState, done
  <2> QED
    BY <1>4, <1>6, <2>2, <2>3
<1> QED
  BY <1>7, <1>8, <1>9, <1>10, <1>11 DEF DriverInv

LEMMA TurnStep ==
  ASSUME TypeOK, DriverInv, TurnInv, CapturesInv, NEW we \in BOOLEAN, NEW te \in BOOLEAN, NEW ri \in BOOLEAN,
         NEW request, RegisterEdge(we, ri), SamplerEdge, TesterEdge(te, request), EdgeMove(we, te)
  PROVE  TurnInv' /\ CapturesInv'
<1>1. enable' = we /\ tr_enable' = te
  BY DEF RegisterEdge, TesterEdge
<1>2. /\ adc_busy' => enable \/ adc_busy
      /\ tr_busy' => tr_enable \/ tr_busy
  BY DEF TypeOK, RegisterEdge, NextBusy, TesterEdge
<1>3. enable' => pc' \in {"wait", "check", "asleep"}
  BY <1>1 DEF EdgeMove
<1>4. adc_busy' => pc' \in {"line", "wait", "check", "asleep"}
  BY <1>2 DEF TurnInv, EdgeMove, sopc_waitrequest
<1>5. tr_enable' => pc' = "running"
  BY <1>1 DEF EdgeMove
<1>6. tr_busy' => pc' \in {"line", "running"}
  BY <1>2 DEF TurnInv, EdgeMove, sopc_waitrequest
<1>7. OneOwner'
  BY <1>1, <1>2, <1>3, <1>6 DEF TurnInv, OneOwner
<1>8. CapturesInv'
  <2>1. CASE done /\ enable
    BY <2>1, <1>1 DEF TurnInv, CapturesInv, EdgeMove, Begun
  <2>2. CASE ~ (done /\ enable)
    BY <2>2, <1>1 DEF SamplerEdge, CapturesInv, EdgeMove, Begun
  <2> QED
    BY <2>1, <2>2
<1> QED
  BY <1>3, <1>4, <1>5, <1>6, <1>7, <1>8 DEF TurnInv

LEMMA AnswerStep ==
  ASSUME TypeOK, TurnInv, AnswerInv, NEW we \in BOOLEAN, NEW te \in BOOLEAN,
         NEW cpu, NEW request \in TesterRequests,
         TesterEdge(te, request), SramEdge(cpu, request), EdgeMove(we, te), CpuMove(cpu)
  PROVE  /\ AnswerInv'
         /\ {tr_enable', tr_busy', running', tr_waits'} \subseteq BOOLEAN
         /\ DOMAIN sram' = Words
<1>1. {tr_enable', tr_busy', running', tr_waits'} \subseteq BOOLEAN
  BY DEF TypeOK, TesterEdge
<1>2. DOMAIN sram' = Words
  BY DEF TypeOK, SramEdge
<1>3. /\ request.op = "read" => request # Idle /\ request.by = "tester"
  BY DEF TesterRequests, Read, Write, Idle
<1>4. request.op = "read" => running /\ ~tr_waits /\ tr_busy
  BY <1>3 DEF TesterEdge, AnswerInv
<1>5. access'.op = "read" =>
        \/ access'.by = "cpu" /\ cpu.op = "read"
        \/ access'.by = "tester" /\ request.op = "read"
  BY <1>3 DEF SramEdge, Selected, CpuMove, Write, Idle
<1>6. answer'.by = IF access.op = "read" THEN access.by ELSE "nobody"
  BY DEF SramEdge
<1>7. access'.op = "read" => access'.by \in {"cpu", "tester"}
  BY <1>5
<1>8. pc = "reading" /\ pc' # "reading" => answer.by # "nobody"
  BY DEF EdgeMove, sopc_readdataready
<1>9. Asks("cpu")' \/ Answered("cpu")' => pc' = "reading"
  BY <1>5, <1>6, <1>8 DEF Asks, Answered, CpuMove, AnswerInv
<1>10. Asks("tester")' \/ Answered("tester")' => tr_waits'
  <2>1. CASE Asks("tester")'
    BY <2>1, <1>5 DEF Asks, TesterEdge
  <2>2. CASE Answered("tester")'
    <3>1. access.op = "read" /\ access.by = "tester"
      BY <2>2, <1>6 DEF Answered
    <3>2. tr_waits /\ answer.by = "nobody"
      BY <3>1 DEF AnswerInv, Asks
    <3> QED
      BY <3>2 DEF TesterEdge, tr_readdataready
  <2> QED
    BY <2>1, <2>2
<1>11. ~ (access'.op = "read" /\ answer'.by # "nobody")
  <2> SUFFICES ASSUME access'.op = "read", access.op = "read" PROVE FALSE
    BY <1>6
  <2>1. CASE access.by = "cpu"
    <3>1. pc = "reading"
      BY <2>1 DEF AnswerInv, Asks
    <3> QED
      BY <3>1, <1>4, <1>5 DEF CpuMove, TurnInv
  <2>2. CASE access.by = "tester"
    <3>1. tr_waits /\ tr_busy
      BY <2>2 DEF AnswerInv, Asks
    <3> QED
      BY <3>1, <1>4, <1>5 DEF CpuMove, TurnInv
  <2> QED
    BY <2>1, <2>2 DEF AnswerInv
<1>12. tr_waits' => running'
  <2>1. tr_waits' => tr_waits \/ request # Idle
    BY <1>3 DEF TesterEdge
  <2> QED
    BY <2>1 DEF TesterEdge, AnswerInv
<1>13. running' => tr_busy'
  BY DEF TypeOK, TesterEdge, AnswerInv
<1> QED
  BY <1>1, <1>2, <1>7, <1>9, <1>10, <1>11, <1>12, <1>13 DEF AnswerInv

-----------------------------------------------------------------------------
(***************************************************************************)
(* One edge, with all that confrd or the handler does along with it.        *)
(***************************************************************************)
LEMMA EdgeIInv ==
  ASSUME IInv, NEW we \in BOOLEAN, NEW te \in BOOLEAN, NEW ri \in BOOLEAN, NEW cpu,
         Edge(we, te, ri, cpu), EdgeMove(we, te), CpuMove(cpu), HandlerMove(ri),
         UNCHANGED <<ad_busy, polling, woken, kills>>, word' \in Words, DOMAIN got' = Words
  PROVE  IInv'
<1>1. PICK request \in TesterRequests :
        /\ RegisterEdge(we, ri) /\ SamplerEdge
        /\ TesterEdge(te, request) /\ SramEdge(cpu, request)
  BY DEF Edge
<1>2. TypeOK /\ SamplerInv /\ DriverInv /\ TurnInv /\ CapturesInv /\ AnswerInv
  BY DEF IInv
<1>3. /\ SamplerInv'
      /\ {enable', adc_busy', done_d1', irq', mem_write'} \subseteq BOOLEAN
      /\ state' \in {"IDLE", "POWERUP", "SAMPLE1", "SAMPLE2", "END"}
      /\ mem_address' \in Words /\ pwrup_counter' \in 0 .. PowerUp
      /\ samples' \in 0 .. 2 * (LastAddress + 1) /\ captures' \in 0 .. MaxCaptures
  BY <1>1, <1>2, SamplerStep
<1>4. DriverInv'
  BY <1>1, <1>2, DriverStep
<1>5. TurnInv' /\ CapturesInv'
  BY <1>1, <1>2, TurnStep
<1>6. /\ AnswerInv'
      /\ {tr_enable', tr_busy', running', tr_waits'} \subseteq BOOLEAN
      /\ DOMAIN sram' = Words
  BY <1>1, <1>2, AnswerStep
<1>7. state' = "SAMPLE1" /\ ~mem_write' => samples' = 2 * mem_address'
  BY <1>3 DEF SamplerInv, Written, Words
<1>8. handler' \in {"out", "read", "free", "wake"}
  BY <1>2 DEF TypeOK, HandlerMove
<1>9. polling' <=> pc' \in {"check", "asleep"}
  BY <1>2 DEF TypeOK, EdgeMove
<1>10. {ad_busy', polling', woken'} \subseteq BOOLEAN /\ kills' \in 0 .. MaxKills
  BY <1>2 DEF TypeOK
<1>11. {enable', adc_busy', done_d1', irq', mem_write', tr_enable', tr_busy', running', tr_waits',
        ad_busy', polling', woken'} \subseteq BOOLEAN
  BY <1>3, <1>6, <1>10
<1>12. TypeOK'
  BY <1>3, <1>6, <1>7, <1>8, <1>9, <1>10, <1>11 DEF TypeOK
<1> QED
  BY <1>3, <1>4, <1>5, <1>6, <1>12 DEF IInv

(***************************************************************************)
(* The steps with an edge, one by one.                                      *)
(***************************************************************************)
LEMMA ClockIInv == IInv /\ Clock => IInv'
<1> SUFFICES ASSUME IInv, Clock PROVE IInv'
  OBVIOUS
<1>1. Edge(FALSE, FALSE, FALSE, Idle) /\ UNCHANGED <<drvVars, pc, upVars, kills>>
  BY DEF Clock, Tick
<1>2. EdgeMove(FALSE, FALSE) /\ CpuMove(Idle) /\ HandlerMove(FALSE)
  BY <1>1 DEF EdgeMove, CpuMove, HandlerMove, Idle, drvVars
<1>3. UNCHANGED <<ad_busy, polling, woken, kills>> /\ word' \in Words /\ DOMAIN got' = Words
  BY <1>1 DEF IInv, TypeOK, drvVars, upVars
<1> QED
  BY <1>1, <1>2, <1>3, EdgeIInv

LEMMA HandlerReadIInv == IInv /\ HandlerRead => IInv'
<1> SUFFICES ASSUME IInv, HandlerRead PROVE IInv'
  OBVIOUS
<1>1. /\ Edge(FALSE, FALSE, TRUE, Idle) /\ handler = "read" /\ handler' = "free"
      /\ UNCHANGED <<ad_busy, polling, woken, pc, word, got, kills>>
  BY DEF HandlerRead, upVars
<1>2. EdgeMove(FALSE, FALSE) /\ CpuMove(Idle) /\ HandlerMove(TRUE)
  BY <1>1 DEF EdgeMove, CpuMove, HandlerMove, Idle
<1>3. word' \in Words /\ DOMAIN got' = Words
  BY <1>1 DEF IInv, TypeOK
<1> QED
  BY <1>1, <1>2, <1>3, EdgeIInv

LEMMA LoadIInv == IInv /\ Load => IInv'
<1> SUFFICES ASSUME IInv, Load PROVE IInv'
  OBVIOUS
<1> DEFINE program == Write(0, [of |-> "confrd"])
<1>1. /\ Edge(FALSE, FALSE, FALSE, program)
      /\ captures < MaxCaptures /\ pc = "line" /\ pc' = "loaded" /\ ~sopc_waitrequest
      /\ UNCHANGED <<handler, ad_busy, polling, woken, word, got, kills>>
  BY DEF Load, step, drvVars, upVars
<1>2. program.op # "read"
  BY DEF Write
<1> HIDE DEF program
<1>3. EdgeMove(FALSE, FALSE) /\ CpuMove(program) /\ HandlerMove(FALSE)
  BY <1>1, <1>2 DEF EdgeMove, CpuMove, HandlerMove
<1>4. word' \in Words /\ DOMAIN got' = Words
  BY <1>1 DEF IInv, TypeOK
<1> QED
  BY <1>1, <1>3, <1>4, EdgeIInv

LEMMA RunTesterIInv == IInv /\ RunTester => IInv'
<1> SUFFICES ASSUME IInv, RunTester PROVE IInv'
  OBVIOUS
<1>1. UNCHANGED <<handler, ad_busy, polling, woken, word, got, kills>> /\ pc = "loaded"
  BY DEF RunTester, step, drvVars, upVars
<1>2. word' \in Words /\ DOMAIN got' = Words
  BY <1>1 DEF IInv, TypeOK
<1>3. CASE pc' = "line" /\ Edge(FALSE, FALSE, FALSE, Idle)
  <2>1. EdgeMove(FALSE, FALSE) /\ CpuMove(Idle) /\ HandlerMove(FALSE)
    BY <1>1, <1>3 DEF EdgeMove, CpuMove, HandlerMove, Idle
  <2> QED
    BY <1>1, <1>2, <1>3, <2>1, EdgeIInv
<1>4. CASE pc' = "running" /\ Edge(FALSE, TRUE, FALSE, Idle)
  <2>1. EdgeMove(FALSE, TRUE) /\ CpuMove(Idle) /\ HandlerMove(FALSE)
    BY <1>1, <1>4 DEF EdgeMove, CpuMove, HandlerMove, Idle
  <2> QED
    BY <1>1, <1>2, <1>4, <2>1, EdgeIInv
<1> QED
  BY <1>3, <1>4 DEF RunTester, step, Tick

LEMMA EnableCheckDoneIInv == IInv /\ EnableCheckDone => IInv'
<1> SUFFICES ASSUME IInv, EnableCheckDone PROVE IInv'
  OBVIOUS
<1>1. /\ Edge(FALSE, FALSE, FALSE, Idle) /\ pc = "ask" /\ pc' \in {"line", "mark"}
      /\ UNCHANGED <<handler, ad_busy, polling, woken, word, got, kills>>
  BY DEF EnableCheckDone, Tick, step, drvVars, upVars
<1>2. EdgeMove(FALSE, FALSE) /\ CpuMove(Idle) /\ HandlerMove(FALSE)
  BY <1>1 DEF EdgeMove, CpuMove, HandlerMove, Idle
<1>3. word' \in Words /\ DOMAIN got' = Words
  BY <1>1 DEF IInv, TypeOK
<1> QED
  BY <1>1, <1>2, <1>3, EdgeIInv

LEMMA EnableStartIInv == IInv /\ EnableStart => IInv'
<1> SUFFICES ASSUME IInv, EnableStart PROVE IInv'
  OBVIOUS
<1>1. /\ Edge(TRUE, FALSE, FALSE, Idle) /\ pc = "start" /\ pc' = "wait"
      /\ UNCHANGED <<handler, ad_busy, polling, woken, word, got, kills>>
  BY DEF EnableStart, step, drvVars, upVars
<1>2. EdgeMove(TRUE, FALSE) /\ CpuMove(Idle) /\ HandlerMove(FALSE)
  BY <1>1 DEF EdgeMove, CpuMove, HandlerMove, Idle
<1>3. word' \in Words /\ DOMAIN got' = Words
  BY <1>1 DEF IInv, TypeOK
<1> QED
  BY <1>1, <1>2, <1>3, EdgeIInv

LEMMA ReadWordIInv == IInv /\ ReadWord => IInv'
<1> SUFFICES ASSUME IInv, ReadWord PROVE IInv'
  OBVIOUS
<1> DEFINE request == Read(word, "cpu")
<1>1. /\ Edge(FALSE, FALSE, FALSE, request) /\ pc = "upload" /\ pc' = "reading"
      /\ UNCHANGED <<handler, ad_busy, polling, woken, word, got, kills>>
  BY DEF ReadWord, step, drvVars, upVars
<1>2. request.by = "cpu"
  BY DEF Read
<1> HIDE DEF request
<1>3. EdgeMove(FALSE, FALSE) /\ CpuMove(request) /\ HandlerMove(FALSE)
  BY <1>1, <1>2 DEF EdgeMove, CpuMove, HandlerMove
<1>4. word' \in Words /\ DOMAIN got' = Words
  BY <1>1 DEF IInv, TypeOK
<1> QED
  BY <1>1, <1>3, <1>4, EdgeIInv

LEMMA WordReadIInv == IInv /\ WordRead => IInv'
<1> SUFFICES ASSUME IInv, WordRead PROVE IInv'
  OBVIOUS
<1>1. /\ Edge(FALSE, FALSE, FALSE, Idle) /\ pc = "reading" /\ pc' \in {"upload", "sent"}
      /\ sopc_readdataready /\ UNCHANGED <<handler, ad_busy, polling, woken, kills>>
  BY DEF WordRead, Tick, step, drvVars
<1>2. EdgeMove(FALSE, FALSE) /\ CpuMove(Idle) /\ HandlerMove(FALSE)
  BY <1>1 DEF EdgeMove, CpuMove, HandlerMove, Idle
<1>3. word' \in Words /\ DOMAIN got' = Words
  BY ModWords DEF WordRead, IInv, TypeOK
<1> QED
  BY <1>1, <1>2, <1>3, EdgeIInv

-----------------------------------------------------------------------------
(***************************************************************************)
(* The steps between two edges leave the hardware alone.                    *)
(***************************************************************************)
LEMMA Between ==
  ASSUME IInv, UNCHANGED hwVars,
         {ad_busy', polling', woken'} \subseteq BOOLEAN,
         handler' \in {"out", "read", "free", "wake"}, word' \in Words, DOMAIN got' = Words,
         kills' \in 0 .. MaxKills, polling' <=> pc' \in {"check", "asleep"},
         DriverInv', TurnInv', CapturesInv', pc' = "reading" <=> pc = "reading"
  PROVE  IInv'
<1>1. TypeOK /\ SamplerInv /\ AnswerInv
  BY DEF IInv
<1>2. SamplerInv' /\ AnswerInv'
  BY <1>1 DEF SamplerInv, SampleTaken, Written, AnswerInv, Asks, Answered, hwVars, adcVars, testerVars, sramVars
<1>3. {enable', adc_busy', done_d1', irq', mem_write', tr_enable', tr_busy', running', tr_waits',
       ad_busy', polling', woken'} \subseteq BOOLEAN
  BY <1>1 DEF TypeOK, hwVars, adcVars, testerVars
<1>4. /\ state' \in {"IDLE", "POWERUP", "SAMPLE1", "SAMPLE2", "END"}
      /\ mem_address' \in Words /\ pwrup_counter' \in 0 .. PowerUp
      /\ samples' \in 0 .. 2 * (LastAddress + 1) /\ captures' \in 0 .. MaxCaptures
      /\ state' = "SAMPLE1" /\ ~mem_write' => samples' = 2 * mem_address'
      /\ DOMAIN sram' = Words
  BY <1>1 DEF TypeOK, hwVars, adcVars, sramVars
<1>5. TypeOK'
  BY <1>3, <1>4 DEF TypeOK
<1> QED
  BY <1>2, <1>5 DEF IInv

LEMMA HandlerIInv == IInv /\ (Interrupt \/ HandlerFree \/ HandlerWake) => IInv'
<1> SUFFICES ASSUME IInv, Interrupt \/ HandlerFree \/ HandlerWake PROVE IInv'
  OBVIOUS
<1>1. UNCHANGED hwVars /\ UNCHANGED <<polling, pc, word, got, kills>>
  BY DEF Interrupt, HandlerFree, HandlerWake, upVars
<1>2. {ad_busy', polling', woken'} \subseteq BOOLEAN /\ handler' \in {"out", "read", "free", "wake"}
  BY DEF Interrupt, HandlerFree, HandlerWake, IInv, TypeOK
<1>3. TurnInv' /\ CapturesInv'
  BY <1>1 DEF IInv, TurnInv, OneOwner, CapturesInv, hwVars, adcVars, testerVars
<1>4. /\ Quiet' <=> Quiet
      /\ irq' = irq /\ enable' = enable /\ state' = state /\ done_d1' = done_d1 /\ adc_busy' = adc_busy
  BY <1>1 DEF Quiet, hwVars, adcVars
<1>5. DriverInv'
  <2>1. CASE Interrupt
    BY <1>1, <1>4, <2>1 DEF Interrupt, IInv, DriverInv, InHandler, Quiet
  <2>2. CASE HandlerFree
    BY <1>1, <1>4, <2>2 DEF HandlerFree, IInv, DriverInv, InHandler, Quiet
  <2>3. CASE HandlerWake
    BY <1>1, <1>4, <2>3 DEF HandlerWake, IInv, DriverInv, InHandler, Quiet
  <2> QED
    BY <2>1, <2>2, <2>3
<1> QED
  BY <1>1, <1>2, <1>3, <1>5, Between DEF IInv, TypeOK

(* What confrd does without an edge, but for setting the driver's flag.     *)
Calls == TesterDone \/ EnableCheckBusy \/ PollWait \/ PollCheck \/ PollAgain \/ NextLine \/ Kill

LEMMA CallsIInv == IInv /\ Calls => IInv'
<1> SUFFICES ASSUME IInv, Calls PROVE IInv'
  OBVIOUS
<1>1. UNCHANGED hwVars /\ UNCHANGED <<handler, ad_busy>>
  BY DEF Calls, TesterDone, EnableCheckBusy, PollWait, PollCheck, PollAgain, NextLine, Kill, step, drvVars
<1>2. DOMAIN NoWords = Words /\ 0 \in Words
  BY CaptureAssumption DEF NoWords, Words
<1>3. {ad_busy', polling', woken'} \subseteq BOOLEAN
  BY <1>1 DEF Calls, TesterDone, EnableCheckBusy, PollWait, PollCheck, PollAgain, NextLine, Kill, drvVars, IInv, TypeOK
<1>4. word' \in Words /\ DOMAIN got' = Words
  BY <1>2 DEF Calls, TesterDone, EnableCheckBusy, PollWait, PollCheck, PollAgain, NextLine, Kill, upVars, IInv, TypeOK
<1>5. kills' \in 0 .. MaxKills
  BY CaptureAssumption DEF Calls, TesterDone, EnableCheckBusy, PollWait, PollCheck, PollAgain, NextLine, Kill, IInv, TypeOK
<1>6. polling' <=> pc' \in {"check", "asleep"}
  BY DEF Calls, TesterDone, EnableCheckBusy, PollWait, PollCheck, PollAgain, NextLine, Kill, step, drvVars, IInv, TypeOK
<1>7. pc' # "start" /\ pc' # "reading" /\ pc # "reading"
  BY DEF Calls, TesterDone, EnableCheckBusy, PollWait, PollCheck, PollAgain, NextLine, Kill, step
<1>8. DriverInv'
  <2>1. pc' \in {"ask", "mark"} => ~ad_busy
    BY DEF Calls, TesterDone, EnableCheckBusy, PollWait, PollCheck, PollAgain, NextLine, Kill, step
  <2> QED
    BY <1>1, <1>7, <2>1 DEF IInv, DriverInv, Quiet, InHandler, hwVars, adcVars
<1>9. /\ UNCHANGED <<enable, adc_busy, tr_enable, tr_busy, captures>>
      /\ TurnInv /\ DriverInv /\ CapturesInv
  BY <1>1 DEF IInv, hwVars, adcVars, testerVars
<1>10. TurnInv' /\ CapturesInv'
  <2>1. CASE TesterDone \/ EnableCheckBusy
    BY <1>9, <2>1 DEF TesterDone, EnableCheckBusy, step, TurnInv, OneOwner, CapturesInv, Begun
  <2>2. CASE PollWait \/ PollCheck \/ PollAgain
    BY <1>9, <2>2 DEF PollWait, PollCheck, PollAgain, step, TurnInv, OneOwner, CapturesInv, Begun, DriverInv, Quiet
  <2>3. CASE NextLine \/ Kill
    BY <1>9, <2>3 DEF NextLine, Kill, step, TurnInv, OneOwner, CapturesInv, Begun
  <2> QED
    BY <2>1, <2>2, <2>3 DEF Calls
<1>11. handler' \in {"out", "read", "free", "wake"}
  BY <1>1 DEF IInv, TypeOK
<1> QED
  BY <1>1, <1>3, <1>4, <1>5, <1>6, <1>7, <1>8, <1>10, <1>11, Between

LEMMA EnableMarkIInv == IInv /\ EnableMark => IInv'
<1> SUFFICES ASSUME IInv, EnableMark PROVE IInv'
  OBVIOUS
<1>1. /\ UNCHANGED hwVars /\ UNCHANGED <<polling, woken, handler, word, got, kills>>
      /\ handler = "out" /\ pc = "mark" /\ pc' = "start" /\ ad_busy' = TRUE
  BY DEF EnableMark, step, upVars
<1>2. ~enable /\ ~tr_enable /\ ~adc_busy /\ ~tr_busy /\ captures < MaxCaptures
  BY <1>1 DEF IInv, TurnInv, CapturesInv, Begun
<1>3. TurnInv' /\ CapturesInv'
  BY <1>1, <1>2 DEF TurnInv, OneOwner, CapturesInv, hwVars, adcVars, testerVars
<1>4. Quiet /\ ~irq /\ ~InHandler
  BY <1>1 DEF IInv, DriverInv
<1>5. DriverInv'
  BY <1>1, <1>4 DEF DriverInv, Quiet, InHandler, hwVars, adcVars
<1>6. /\ {ad_busy', polling', woken'} \subseteq BOOLEAN
      /\ handler' \in {"out", "read", "free", "wake"} /\ word' \in Words /\ DOMAIN got' = Words
      /\ kills' \in 0 .. MaxKills /\ (polling' <=> pc' \in {"check", "asleep"})
  BY <1>1 DEF IInv, TypeOK
<1> QED
  BY <1>1, <1>3, <1>5, <1>6, Between

-----------------------------------------------------------------------------
LEMMA StepIInv == IInv /\ [Next]_vars => IInv'
<1> SUFFICES ASSUME IInv, [Next]_vars PROVE IInv'
  OBVIOUS
<1>1. CASE Clock \/ HandlerRead
  BY <1>1, ClockIInv, HandlerReadIInv
<1>2. CASE Interrupt \/ HandlerFree \/ HandlerWake
  BY <1>2, HandlerIInv
<1>3. CASE Load \/ RunTester \/ EnableCheckDone \/ EnableStart \/ ReadWord \/ WordRead
  BY <1>3, LoadIInv, RunTesterIInv, EnableCheckDoneIInv, EnableStartIInv, ReadWordIInv, WordReadIInv
<1>4. CASE Calls \/ EnableMark
  BY <1>4, CallsIInv, EnableMarkIInv
<1>5. CASE UNCHANGED vars
  <2>1. UNCHANGED hwVars /\ UNCHANGED <<ad_busy, polling, woken, handler, pc, word, got, kills>>
    BY <1>5 DEF vars, drvVars, upVars
  <2>2. DriverInv' /\ TurnInv' /\ CapturesInv'
    BY <2>1 DEF IInv, DriverInv, Quiet, InHandler, TurnInv, OneOwner, CapturesInv, hwVars, adcVars, testerVars
  <2>3. /\ {ad_busy', polling', woken'} \subseteq BOOLEAN
        /\ handler' \in {"out", "read", "free", "wake"} /\ word' \in Words /\ DOMAIN got' = Words
        /\ kills' \in 0 .. MaxKills /\ (polling' <=> pc' \in {"check", "asleep"})
    BY <2>1 DEF IInv, TypeOK
  <2> QED
    BY <2>1, <2>2, <2>3, Between
<1> QED
  BY <1>1, <1>2, <1>3, <1>4, <1>5 DEF Next, Handler, Process, Calls

LEMMA Invariance == Spec => []IInv
  BY InitIInv, StepIInv, PTL DEF Spec

(***************************************************************************)
(* The tester, the ADC and the CPU share the SRAM without loss, for every   *)
(* size of it, though sram_arb_sync.v only looks at two busy flags and the  *)
(* drivers do not know each other: nobody writes without owning it, tester  *)
(* and ADC never both own it, and every answer finds its reader.            *)
(***************************************************************************)
THEOREM SramSharedWithoutLoss == Spec => []SramShared
<1>1. ASSUME IInv PROVE SramShared
  <2>1. SampleTaken /\ OneOwner
    BY <1>1 DEF IInv, SamplerInv, TurnInv
  <2>2. answer.by = "cpu" => sopc_readdataready
    BY <1>1 DEF IInv, AnswerInv, Answered, TurnInv, sopc_readdataready
  <2>3. answer.by = "tester" => tr_readdataready
    BY <1>1, <2>1 DEF IInv, AnswerInv, Answered, OneOwner, tr_readdataready
  <2> QED
    BY <1>1, <2>1, <2>2, <2>3 DEF IInv, SramShared, AnswerReachesReader
<1> QED
  BY <1>1, Invariance, PTL
-----------------------------------------------------------------------------
(***************************************************************************)
(* Why confrd uploads its capture.  The sampler has both halves of the word *)
(* it is at, and leaves its last state with a write, that of the last word. *)
(***************************************************************************)
SampleInv ==
  /\ mem_writedata = [of |-> mem_writedata.of, high |-> mem_writedata.high, low |-> mem_writedata.low]
  /\ state = "SAMPLE2" => mem_writedata.high = 2 * mem_address
  /\ mem_write => mem_writedata = Sampled(captures, mem_address)
  /\ state = "END" /\ adc_busy => mem_write /\ mem_address = LastAddress

(* Nothing written before the capture is still on its way when it starts.   *)
Writes == access.op = "write"

BeforeInv ==
  /\ pc \in {"measure", "ask", "mark", "start"} \/ enable => ~Writes
  /\ pc = "running" /\ Writes => running

(* While confrd waits for its capture, each word the sampler has passed is  *)
(* in the SRAM or one edge away from it, and nobody else writes; the        *)
(* handler reads the register between the last write and the waking.        *)
Waiting == pc \in {"wait", "check", "asleep"} /\ ~enable

Passed == {a \in Words : a < mem_address \/ (state = "END" /\ ~adc_busy)}

Taken(a) ==
  \/ sram[a] = Sampled(captures, a)
  \/ Writes /\ access.a = a /\ access.d = Sampled(captures, a)

FillInv ==
  Waiting => /\ \A a \in Passed : Taken(a)
             /\ Writes => access.d = Sampled(captures, access.a)
             /\ handler = "free" \/ ~ad_busy => ~Writes

(* The capture stays in the SRAM until it is read, and what is read is the  *)
(* word asked for.                                                          *)
Uploading == pc \in {"upload", "reading", "sent"}

ReadInv ==
  /\ Uploading => ~Writes /\ \A a \in Words : sram[a] = Sampled(captures, a)
  /\ pc = "reading" => /\ access.op = "read" => access.a = word
                       /\ answer.by # "nobody" => answer.d = Sampled(captures, word)
  /\ got = [a \in Words |-> got[a]]
  /\ pc \notin {"upload", "reading"} => word = 0
  /\ pc \in {"upload", "reading"} => \A a \in Words : a < word => got[a] = Sampled(captures, a)
  /\ UploadsCapture

UploadInv == SampleInv /\ BeforeInv /\ FillInv /\ ReadInv

LEMMA InitUpload == Init => UploadInv
<1> SUFFICES ASSUME Init PROVE UploadInv
  OBVIOUS
<1>1. SampleInv
  BY DEF Init, SampleInv
<1>2. BeforeInv /\ FillInv
  BY DEF Init, BeforeInv, FillInv, Waiting, Writes, Idle
<1>3. ReadInv
  BY DEF Init, ReadInv, Uploading, NoWords, UploadsCapture
<1> QED
  BY <1>1, <1>2, <1>3 DEF UploadInv

(***************************************************************************)
(* One edge of the clock: the sampler's word.                               *)
(***************************************************************************)
LEMMA SampleStep ==
  ASSUME TypeOK, SamplerInv, DriverInv, SampleInv, NEW we \in BOOLEAN, NEW ri \in BOOLEAN,
         RegisterEdge(we, ri), SamplerEdge
  PROVE  SampleInv'
<1> USE CaptureAssumption
<1>1. PICK c, h, l : mem_writedata = [of |-> c, high |-> h, low |-> l]
  BY DEF SampleInv
<1>2. mem_writedata' = IF state = "SAMPLE1" THEN [of |-> c, high |-> samples, low |-> l]
                       ELSE IF state = "SAMPLE2" THEN [of |-> captures, high |-> h, low |-> samples]
                       ELSE [of |-> c, high |-> h, low |-> l]
  <2>1. CASE state = "SAMPLE1"
    <3>1. mem_writedata' = [[of |-> c, high |-> h, low |-> l] EXCEPT !.high = samples]
      BY <1>1, <2>1 DEF SamplerEdge
    <3> QED
      BY <2>1, <3>1
  <2>2. CASE state = "SAMPLE2"
    <3>1. mem_writedata' = [[of |-> c, high |-> h, low |-> l] EXCEPT !.low = samples, !.of = captures]
      BY <1>1, <2>2 DEF SamplerEdge
    <3>2. [[of |-> c, high |-> h, low |-> l] EXCEPT !.low = samples] = [of |-> c, high |-> h, low |-> samples]
      OBVIOUS
    <3>3. [[of |-> c, high |-> h, low |-> samples] EXCEPT !.of = captures]
            = [of |-> captures, high |-> h, low |-> samples]
      OBVIOUS
    <3> QED
      BY <2>2, <3>1, <3>2, <3>3
  <2>3. CASE state \notin {"SAMPLE1", "SAMPLE2"}
    BY <1>1, <2>3 DEF SamplerEdge
  <2> QED
    BY <2>1, <2>2, <2>3
<1>3. mem_writedata' = [of |-> mem_writedata'.of, high |-> mem_writedata'.high, low |-> mem_writedata'.low]
  BY <1>2
<1>4. mem_write' => state = "SAMPLE2"
  BY DEF SamplerEdge
<1>5. state' = "SAMPLE2" => mem_writedata'.high = 2 * mem_address'
  <2> SUFFICES ASSUME state' = "SAMPLE2" PROVE mem_writedata'.high = 2 * mem_address'
    OBVIOUS
  <2>1. state = "SAMPLE1"
    BY DEF TypeOK, SamplerEdge, NextState
  <2>2. mem_writedata'.high = samples /\ samples = 2 * (mem_address + Written)
    BY <1>2, <2>1 DEF SamplerInv
  <2>3. mem_address' = mem_address + Written
    <3>1. mem_address + Written <= LastAddress /\ ~done /\ adc_busy
      BY <2>1 DEF SamplerInv, done
    <3>2. CASE mem_write
      BY <3>1, <3>2, ModWords DEF SamplerEdge, Written, TypeOK
    <3>3. CASE ~mem_write
      BY <3>1, <3>3 DEF SamplerEdge, Written, TypeOK, Words
    <3> QED
      BY <3>2, <3>3
  <2> QED
    BY <2>2, <2>3
<1>6. state = "SAMPLE2" =>
        mem_writedata' = Sampled(captures', mem_address') /\ mem_address' = mem_address
  <2> SUFFICES ASSUME state = "SAMPLE2"
               PROVE  mem_writedata' = Sampled(captures', mem_address') /\ mem_address' = mem_address
    OBVIOUS
  <2>1. h = 2 * mem_address /\ samples = 2 * mem_address + 1 /\ ~mem_write
    BY <1>1 DEF SampleInv, SamplerInv
  <2>2. mem_address' = mem_address /\ captures' = captures
    BY <2>1 DEF SamplerEdge, done
  <2> QED
    BY <1>2, <2>1, <2>2 DEF Sampled
<1>7. state' = "END" /\ adc_busy' => mem_write' /\ mem_address' = LastAddress
  <2> SUFFICES ASSUME state' = "END", adc_busy' PROVE mem_write' /\ mem_address' = LastAddress
    OBVIOUS
  <2>1. state # "END"
    BY DEF SamplerEdge, NextState, RegisterEdge, NextBusy, done
  <2>2. state = "SAMPLE2" /\ last_address
    BY <2>1 DEF TypeOK, SamplerEdge, NextState
  <2> QED
    BY <1>6, <2>2 DEF SamplerEdge, last_address
<1> QED
  BY <1>3, <1>4, <1>5, <1>6, <1>7 DEF SampleInv

(***************************************************************************)
(* A read of the CPU's is of the word confrd is at, a write is the program  *)
(* it loads.                                                                *)
(***************************************************************************)
CpuAsks(cpu) ==
  /\ cpu.op = "read" => pc = "upload" /\ pc' = "reading" /\ cpu.a = word
  /\ cpu.op = "write" => pc = "line" /\ pc' = "loaded"

LEMMA BeforeStep ==
  ASSUME TypeOK, TurnInv, AnswerInv, BeforeInv, NEW we \in BOOLEAN, NEW te \in BOOLEAN, NEW ri \in BOOLEAN,
         NEW cpu, NEW request \in TesterRequests,
         RegisterEdge(we, ri), TesterEdge(te, request), SramEdge(cpu, request),
         EdgeMove(we, te), CpuAsks(cpu)
  PROVE  BeforeInv'
<1>1. Writes' => adc_busy \/ (tr_busy /\ request.op = "write") \/ cpu.op = "write"
  BY DEF Writes, SramEdge, Selected, Idle
<1>2. request.op = "write" => running /\ running'
  <2>1. request.op = "write" => request # Idle
    BY DEF Idle
  <2> QED
    BY <2>1 DEF TesterEdge
<1>3. pc' = "running" /\ Writes' => running'
  <2> SUFFICES ASSUME pc' = "running", Writes' PROVE running'
    OBVIOUS
  <2>1. pc \in {"running", "loaded"}
    BY DEF EdgeMove
  <2>2. ~adc_busy /\ cpu.op # "write"
    BY <2>1 DEF TurnInv, CpuAsks
  <2> QED
    BY <1>1, <1>2, <2>2
<1>4. pc' \in {"measure", "ask", "mark", "start"} \/ enable' => ~Writes'
  <2> SUFFICES ASSUME pc' \in {"measure", "ask", "mark", "start"} \/ enable' PROVE ~Writes'
    OBVIOUS
  <2>1. pc \in {"measure", "ask", "mark", "start"}
    BY DEF EdgeMove, RegisterEdge
  <2>2. ~adc_busy /\ ~tr_busy /\ cpu.op # "write"
    BY <2>1 DEF TurnInv, CpuAsks
  <2> QED
    BY <1>1, <2>2
<1> QED
  BY <1>3, <1>4 DEF BeforeInv

LEMMA FillStep ==
  ASSUME TypeOK, SamplerInv, DriverInv, TurnInv, SampleInv, BeforeInv, FillInv,
         NEW we \in BOOLEAN, NEW te \in BOOLEAN, NEW ri \in BOOLEAN, NEW cpu, NEW request,
         RegisterEdge(we, ri), SamplerEdge, SramEdge(cpu, request),
         EdgeMove(we, te), HandlerMove(ri), CpuAsks(cpu), ad_busy' = ad_busy
  PROVE  FillInv'
<1> USE CaptureAssumption
<1> SUFFICES ASSUME Waiting'
             PROVE  /\ \A a \in Passed' : Taken(a)'
                    /\ Writes' => access'.d = Sampled(captures', access'.a)
                    /\ handler' = "free" \/ ~ad_busy' => ~Writes'
  BY DEF FillInv
<1>1. pc \in {"wait", "check", "asleep"} /\ pc' = pc /\ ~we
  BY DEF Waiting, EdgeMove, RegisterEdge
<1>2. ~tr_busy /\ cpu.op # "write"
  BY <1>1 DEF TurnInv, CpuAsks
<1>3. Writes' => adc_busy /\ mem_write
  BY <1>2 DEF Writes, SramEdge, Selected, Idle
<1>4. handler' = "free" \/ ~ad_busy' => ~Writes'
  BY <1>3 DEF HandlerMove, DriverInv, InHandler, Quiet
<1>5. CASE enable
  <2>1. state = "END" /\ ~adc_busy
    BY <1>5 DEF DriverInv
  <2>2. state' = "IDLE" /\ mem_address' = 0 /\ ~Writes'
    BY <1>3, <1>5, <2>1 DEF SamplerEdge, NextState, done
  <2>3. Passed' = {}
    BY <2>2 DEF Passed, Words
  <2> QED
    BY <1>4, <2>2, <2>3
<1>6. CASE ~enable
  <2>1. /\ \A a \in Passed : Taken(a)
        /\ Writes => access.d = Sampled(captures, access.a)
    BY <1>1, <1>6 DEF FillInv, Waiting
  <2>2. captures' = captures
    BY <1>6 DEF SamplerEdge
  <2>3. \A a \in Passed : sram'[a] = Sampled(captures, a)
    <3> SUFFICES ASSUME NEW a \in Passed PROVE sram'[a] = Sampled(captures, a)
      OBVIOUS
    <3>1. a \in DOMAIN sram /\ Taken(a)
      BY <2>1 DEF Passed, TypeOK
    <3>2. CASE Writes /\ access.a = a
      BY <2>1, <3>1, <3>2 DEF SramEdge, Writes
    <3>3. CASE ~ (Writes /\ access.a = a)
      <4>1. sram[a] = Sampled(captures, a)
        BY <3>1, <3>3 DEF Taken
      <4>2. sram'[a] = sram[a]
        BY <3>1, <3>3 DEF SramEdge, Writes
      <4> QED
        BY <4>1, <4>2
    <3> QED
      BY <3>2, <3>3
  <2>4. adc_busy /\ mem_write =>
          Writes' /\ access'.a = mem_address /\ access'.d = Sampled(captures, mem_address)
    BY DEF SampleInv, Writes, SramEdge, Selected, Write
  <2>5. \A a \in Passed' : a \in Passed \/ (adc_busy /\ mem_write /\ a = mem_address)
    <3> SUFFICES ASSUME NEW a \in Words, a < mem_address' \/ (state' = "END" /\ ~adc_busy')
                 PROVE  a \in Passed \/ (adc_busy /\ mem_write /\ a = mem_address)
      BY DEF Passed
    <3>1. CASE state = "END"
      BY <3>1 DEF SampleInv, Passed, Words
    <3>2. CASE state # "END"
      <4>1. adc_busy /\ adc_busy' /\ ~done
        BY <3>2 DEF SamplerInv, RegisterEdge, NextBusy, done
      <4>2. CASE mem_write
        <5>1. state = "SAMPLE1"
          BY <3>2, <4>2 DEF SamplerInv, TypeOK
        <5>2. mem_address + 1 <= LastAddress
          BY <4>2, <5>1 DEF SamplerInv, Written
        <5>3. mem_address' = mem_address + 1
          BY <4>1, <4>2, <5>2, ModWords DEF SamplerEdge, TypeOK
        <5> QED
          BY <4>1, <4>2, <5>3 DEF Passed, TypeOK, Words
      <4>3. CASE ~mem_write
        BY <4>1, <4>3 DEF SamplerEdge, Passed
      <4> QED
        BY <4>2, <4>3
    <3> QED
      BY <3>1, <3>2
  <2>6. \A a \in Passed' : Taken(a)'
    <3> SUFFICES ASSUME NEW a \in Passed' PROVE Taken(a)'
      OBVIOUS
    <3> QED
      BY <2>2, <2>3, <2>4, <2>5 DEF Taken
  <2> QED
    BY <1>3, <1>4, <2>2, <2>4, <2>6
<1> QED
  BY <1>5, <1>6

(***************************************************************************)
(* What confrd does with its answer.                                        *)
(***************************************************************************)
TakesWord ==
  /\ pc = "reading" /\ sopc_readdataready
  /\ pc' = IF word = LastAddress THEN "sent" ELSE "upload"
  /\ got' = [got EXCEPT ![word] = answer.d]
  /\ word' = (word + 1) % (LastAddress + 1)

WordMove ==
  \/ TakesWord
  \/ UNCHANGED <<word, got>> /\ (pc = "reading" => pc' = "reading")

LEMMA ReadStep ==
  ASSUME TypeOK, TurnInv, AnswerInv, ReadInv,
         NEW we \in BOOLEAN, NEW te \in BOOLEAN, NEW ri \in BOOLEAN, NEW cpu, NEW request,
         RegisterEdge(we, ri), SamplerEdge, SramEdge(cpu, request),
         EdgeMove(we, te), CpuAsks(cpu), WordMove
  PROVE  ReadInv'
<1> USE CaptureAssumption
<1>1. Uploading' => Uploading
  BY DEF Uploading, EdgeMove
<1>2. CASE ~Uploading
  <2>1. ~Uploading' /\ UNCHANGED <<word, got>>
    BY <1>1, <1>2 DEF Uploading, EdgeMove, WordMove, TakesWord
  <2>2. pc \notin {"upload", "reading", "sent"} /\ pc' \notin {"upload", "reading", "sent"}
    BY <1>2, <2>1 DEF Uploading
  <2> QED
    BY <1>2, <2>1, <2>2 DEF ReadInv, UploadsCapture
<1>3. CASE Uploading
  <2>1. pc \in {"upload", "reading", "sent"} /\ pc' \in {"upload", "reading", "sent"}
    BY <1>3 DEF Uploading, EdgeMove
  <2>2. ~enable /\ ~adc_busy /\ ~tr_busy /\ cpu.op # "write"
    BY <2>1 DEF TurnInv, CpuAsks
  <2>3. captures' = captures /\ access' = cpu /\ sram' = sram
    BY <1>3, <2>2 DEF SamplerEdge, SramEdge, Selected, ReadInv, Writes
  <2>4. ~Writes' /\ \A a \in Words : sram'[a] = Sampled(captures', a)
    BY <1>3, <2>2, <2>3 DEF ReadInv, Writes
  <2>5. word \in Words
    BY DEF TypeOK
  <2>6. pc' = "reading" => /\ access'.op = "read" => access'.a = word'
                           /\ answer'.by # "nobody" => answer'.d = Sampled(captures', word')
    <3> SUFFICES ASSUME pc' = "reading"
                 PROVE  /\ access'.op = "read" => access'.a = word'
                        /\ answer'.by # "nobody" => answer'.d = Sampled(captures', word')
      OBVIOUS
    <3>1. word' = word
      BY DEF WordMove, TakesWord
    <3>2. access'.op = "read" => access'.a = word'
      BY <2>3, <3>1 DEF CpuAsks
    <3>3. answer'.by # "nobody" => access.op = "read" /\ answer'.d = sram[access.a]
      BY DEF SramEdge
    <3>4. access.op = "read" => pc = "reading"
      BY <2>2 DEF AnswerInv, Asks
    <3>5. access.op = "read" => sram[access.a] = Sampled(captures, word)
      BY <1>3, <2>5, <3>4 DEF ReadInv
    <3> QED
      BY <2>3, <3>1, <3>2, <3>3, <3>5
  <2>7. CASE TakesWord
    <3>1. answer.d = Sampled(captures, word) /\ \A a \in Words : a < word => got[a] = Sampled(captures, a)
      BY <2>7 DEF TakesWord, ReadInv, sopc_readdataready
    <3>2. /\ got' = [a \in Words |-> got'[a]]
          /\ \A a \in Words : got'[a] = IF a = word THEN answer.d ELSE got[a]
      BY <2>5, <2>7 DEF TakesWord, ReadInv, TypeOK
    <3>3. \A a \in Words : a <= word => got'[a] = Sampled(captures, a)
      BY <2>5, <3>1, <3>2 DEF Words
    <3>4. CASE word = LastAddress
      <4>1. pc' = "sent" /\ word' = 0
        BY <2>5, <2>7, <3>4 DEF TakesWord, Words
      <4>2. \A a \in Words : got'[a] = Sampled(captures, a)
        BY <3>3, <3>4 DEF Words
      <4>3. UploadsCapture'
        BY <2>3, <3>2, <4>2 DEF UploadsCapture
      <4> QED
        BY <2>4, <3>2, <4>1, <4>3 DEF ReadInv
    <3>5. CASE word # LastAddress
      <4>1. pc' = "upload" /\ word' = word + 1
        BY <2>5, <2>7, <3>5, ModWords DEF TakesWord, Words
      <4>2. \A a \in Words : a < word' => got'[a] = Sampled(captures', a)
        BY <2>3, <2>5, <3>3, <4>1 DEF Words
      <4> QED
        BY <2>4, <3>2, <4>1, <4>2 DEF ReadInv, UploadsCapture
    <3> QED
      BY <3>4, <3>5
  <2>8. CASE ~TakesWord
    <3>1. UNCHANGED <<word, got>> /\ (pc' = "sent" => pc = "sent")
      BY <2>1, <2>8 DEF WordMove, EdgeMove
    <3>2. UploadsCapture'
      BY <2>3, <3>1 DEF ReadInv, UploadsCapture
    <3>3. pc \in {"upload", "reading"} => \A a \in Words : a < word => got[a] = Sampled(captures, a)
      BY DEF ReadInv
    <3>4. pc' \in {"upload", "reading"} => \A a \in Words : a < word' => got'[a] = Sampled(captures', a)
      <4>1. pc' \in {"upload", "reading"} => pc \in {"upload", "reading"}
        BY <2>1 DEF EdgeMove
      <4> QED
        BY <2>3, <3>1, <3>3, <4>1
    <3>5. pc' \notin {"upload", "reading"} => word' = 0
      BY <2>1, <3>1 DEF ReadInv
    <3>6. got' = [a \in Words |-> got'[a]]
      BY <3>1 DEF ReadInv
    <3> QED
      BY <2>4, <2>6, <3>2, <3>4, <3>5, <3>6 DEF ReadInv
  <2> QED
    BY <2>7, <2>8
<1> QED
  BY <1>2, <1>3

LEMMA EdgeUpload ==
  ASSUME IInv, UploadInv, NEW we \in BOOLEAN, NEW te \in BOOLEAN, NEW ri \in BOOLEAN, NEW cpu,
         Edge(we, te, ri, cpu), EdgeMove(we, te), HandlerMove(ri), CpuAsks(cpu), WordMove,
         ad_busy' = ad_busy
  PROVE  UploadInv'
<1>1. PICK request \in TesterRequests :
        /\ RegisterEdge(we, ri) /\ SamplerEdge
        /\ TesterEdge(te, request) /\ SramEdge(cpu, request)
  BY DEF Edge
<1>2. /\ TypeOK /\ SamplerInv /\ DriverInv /\ TurnInv /\ AnswerInv
      /\ SampleInv /\ BeforeInv /\ FillInv /\ ReadInv
  BY DEF IInv, UploadInv
<1>3. SampleInv'
  BY <1>1, <1>2, SampleStep
<1>4. BeforeInv'
  BY <1>1, <1>2, BeforeStep
<1>5. FillInv'
  BY <1>1, <1>2, FillStep
<1>6. ReadInv'
  BY <1>1, <1>2, ReadStep
<1> QED
  BY <1>3, <1>4, <1>5, <1>6 DEF UploadInv

(* The steps with an edge that do not touch what confrd has read.           *)
Ticking == Clock \/ HandlerRead \/ RunTester \/ EnableCheckDone \/ EnableStart

LEMMA TickingUpload == IInv /\ UploadInv /\ Ticking => UploadInv'
<1> SUFFICES ASSUME IInv, UploadInv, Ticking PROVE UploadInv'
  OBVIOUS
<1>1. CpuAsks(Idle)
  BY DEF CpuAsks, Idle
<1>2. UNCHANGED <<word, got>> /\ ad_busy' = ad_busy
  BY DEF Ticking, Clock, HandlerRead, RunTester, EnableCheckDone, EnableStart, drvVars, upVars
<1>3. WordMove
  BY <1>2 DEF Ticking, Clock, HandlerRead, RunTester, EnableCheckDone, EnableStart, step, WordMove
<1>4. CASE Clock \/ EnableCheckDone
  <2>1. Edge(FALSE, FALSE, FALSE, Idle) /\ EdgeMove(FALSE, FALSE) /\ HandlerMove(FALSE)
    BY <1>4 DEF Clock, EnableCheckDone, Tick, step, EdgeMove, HandlerMove, drvVars
  <2> QED
    BY <1>1, <1>2, <1>3, <2>1, EdgeUpload
<1>5. CASE HandlerRead
  <2>1. Edge(FALSE, FALSE, TRUE, Idle) /\ EdgeMove(FALSE, FALSE) /\ HandlerMove(TRUE)
    BY <1>5 DEF HandlerRead, EdgeMove, HandlerMove
  <2> QED
    BY <1>1, <1>2, <1>3, <2>1, EdgeUpload
<1>6. CASE EnableStart
  <2>1. Edge(TRUE, FALSE, FALSE, Idle) /\ EdgeMove(TRUE, FALSE) /\ HandlerMove(FALSE)
    BY <1>6 DEF EnableStart, step, EdgeMove, HandlerMove, drvVars
  <2> QED
    BY <1>1, <1>2, <1>3, <2>1, EdgeUpload
<1>7. CASE RunTester
  <2>1. HandlerMove(FALSE)
    BY <1>7 DEF RunTester, HandlerMove, drvVars
  <2>2. CASE pc' = "line" /\ pc = "loaded" /\ Edge(FALSE, FALSE, FALSE, Idle)
    <3>1. EdgeMove(FALSE, FALSE)
      BY <2>2 DEF EdgeMove
    <3> QED
      BY <1>1, <1>2, <1>3, <2>1, <2>2, <3>1, EdgeUpload
  <2>3. CASE pc' = "running" /\ pc = "loaded" /\ Edge(FALSE, TRUE, FALSE, Idle)
    <3>1. EdgeMove(FALSE, TRUE)
      BY <2>3 DEF EdgeMove
    <3> QED
      BY <1>1, <1>2, <1>3, <2>1, <2>3, <3>1, EdgeUpload
  <2> QED
    BY <1>7, <2>2, <2>3 DEF RunTester, step, Tick
<1> QED
  BY <1>4, <1>5, <1>6, <1>7 DEF Ticking

LEMMA LoadUpload == IInv /\ UploadInv /\ Load => UploadInv'
<1> SUFFICES ASSUME IInv, UploadInv, Load PROVE UploadInv'
  OBVIOUS
<1> DEFINE program == Write(0, [of |-> "confrd"])
<1>1. /\ Edge(FALSE, FALSE, FALSE, program)
      /\ captures < MaxCaptures /\ pc = "line" /\ pc' = "loaded" /\ ~sopc_waitrequest
      /\ UNCHANGED <<handler, ad_busy, word, got>>
  BY DEF Load, step, drvVars, upVars
<1>2. program.op = "write"
  BY DEF Write
<1> HIDE DEF program
<1>3. EdgeMove(FALSE, FALSE) /\ CpuAsks(program) /\ HandlerMove(FALSE) /\ WordMove
  BY <1>1, <1>2 DEF EdgeMove, CpuAsks, HandlerMove, WordMove
<1> QED
  BY <1>1, <1>3, EdgeUpload

LEMMA ReadWordUpload == IInv /\ UploadInv /\ ReadWord => UploadInv'
<1> SUFFICES ASSUME IInv, UploadInv, ReadWord PROVE UploadInv'
  OBVIOUS
<1> DEFINE request == Read(word, "cpu")
<1>1. /\ Edge(FALSE, FALSE, FALSE, request) /\ pc = "upload" /\ pc' = "reading"
      /\ UNCHANGED <<handler, ad_busy, word, got>>
  BY DEF ReadWord, step, drvVars, upVars
<1>2. request.op = "read" /\ request.a = word
  BY DEF Read
<1> HIDE DEF request
<1>3. EdgeMove(FALSE, FALSE) /\ CpuAsks(request) /\ HandlerMove(FALSE) /\ WordMove
  BY <1>1, <1>2 DEF EdgeMove, CpuAsks, HandlerMove, WordMove
<1> QED
  BY <1>1, <1>3, EdgeUpload

LEMMA WordReadUpload == IInv /\ UploadInv /\ WordRead => UploadInv'
<1> SUFFICES ASSUME IInv, UploadInv, WordRead PROVE UploadInv'
  OBVIOUS
<1>1. /\ Edge(FALSE, FALSE, FALSE, Idle) /\ sopc_readdataready
      /\ pc = "reading" /\ pc' \in {"upload", "sent"}
      /\ UNCHANGED <<handler, ad_busy>>
  BY DEF WordRead, Tick, step, drvVars
<1>2. EdgeMove(FALSE, FALSE) /\ CpuAsks(Idle) /\ HandlerMove(FALSE)
  BY <1>1 DEF EdgeMove, CpuAsks, HandlerMove, Idle
<1>3. WordMove
  BY DEF WordRead, step, WordMove, TakesWord
<1> QED
  BY <1>1, <1>2, <1>3, EdgeUpload

(***************************************************************************)
(* The steps between two edges.                                             *)
(***************************************************************************)
LEMMA CallsUpload ==
  ASSUME IInv, UploadInv,
         Calls \/ EnableMark \/ Interrupt \/ HandlerFree \/ HandlerWake \/ UNCHANGED vars
  PROVE  UploadInv'
<1>1. /\ UNCHANGED <<enable, adc_busy, state, mem_address, mem_write, mem_writedata, captures>>
      /\ UNCHANGED <<running, access, answer, sram>>
  BY DEF Calls, TesterDone, EnableCheckBusy, PollWait, PollCheck, PollAgain, NextLine, Kill, EnableMark,
         Interrupt, HandlerFree, HandlerWake, vars, hwVars, adcVars, testerVars, sramVars
<1>2. SampleInv /\ BeforeInv /\ FillInv /\ ReadInv /\ DriverInv /\ TurnInv /\ AnswerInv
  BY DEF IInv, UploadInv
<1>3. SampleInv'
  BY <1>1, <1>2 DEF SampleInv, Sampled
<1>4. Writes' = Writes /\ Passed' = Passed /\ \A a \in Words : Taken(a)' <=> Taken(a)
  BY <1>1 DEF Writes, Passed, Taken, Sampled
<1>5. BeforeInv'
  BY <1>1, <1>2, <1>4
     DEF Calls, TesterDone, EnableCheckBusy, PollWait, PollCheck, PollAgain, NextLine, Kill, EnableMark,
         Interrupt, HandlerFree, HandlerWake, vars, step, BeforeInv, AnswerInv, drvVars, upVars
<1>6. Waiting' => Waiting
  BY <1>1
     DEF Calls, TesterDone, EnableCheckBusy, PollWait, PollCheck, PollAgain, NextLine, Kill, EnableMark,
         Interrupt, HandlerFree, HandlerWake, vars, step, Waiting, drvVars, upVars
<1>7. handler' = "free" \/ ~ad_busy' => handler = "free" \/ ~ad_busy
  BY DEF Calls, TesterDone, EnableCheckBusy, PollWait, PollCheck, PollAgain, NextLine, Kill, EnableMark,
         Interrupt, HandlerFree, HandlerWake, vars, step, drvVars
<1>8. FillInv'
  <2> SUFFICES ASSUME Waiting'
               PROVE  /\ \A a \in Passed' : Taken(a)'
                      /\ Writes' => access'.d = Sampled(captures', access'.a)
                      /\ handler' = "free" \/ ~ad_busy' => ~Writes'
    BY DEF FillInv
  <2>1. /\ \A a \in Passed : Taken(a)
        /\ Writes => access.d = Sampled(captures, access.a)
        /\ handler = "free" \/ ~ad_busy => ~Writes
    BY <1>2, <1>6 DEF FillInv
  <2>2. \A a \in Passed' : Taken(a)'
    BY <1>4, <2>1 DEF Passed
  <2> QED
    BY <1>1, <1>4, <1>7, <2>1, <2>2
<1>9. ReadInv'
  <2>1. CASE PollCheck
    <3>1. CASE pc' = "upload"
      <4>1. ~ad_busy /\ pc = "check" /\ UNCHANGED <<word, got>>
        BY <2>1, <3>1 DEF PollCheck, step, upVars
      <4>2. Waiting /\ state = "END" /\ ~adc_busy
        BY <1>2, <4>1 DEF DriverInv, Quiet, Waiting
      <4>3. ~Writes /\ \A a \in Words : sram[a] = Sampled(captures, a)
        BY <1>2, <4>1, <4>2 DEF FillInv, Passed, Taken
      <4>4. word = 0
        BY <1>2, <4>1 DEF ReadInv
      <4>5. ~Writes' /\ \A a \in Words : sram'[a] = Sampled(captures', a)
        BY <1>1, <1>4, <4>3
      <4> QED
        BY <1>2, <3>1, <4>1, <4>4, <4>5 DEF ReadInv, UploadsCapture, Words
    <3>2. CASE pc' = "asleep"
      BY <1>1, <1>2, <2>1, <3>2 DEF PollCheck, step, ReadInv, Uploading, UploadsCapture, upVars
    <3> QED
      BY <2>1, <3>1, <3>2 DEF PollCheck, step
  <2>2. CASE NextLine \/ Kill
    <3>1. pc' = "line" /\ got' = NoWords /\ word' = 0
      BY <1>2, <2>2 DEF NextLine, Kill, step, ReadInv
    <3> QED
      BY <3>1 DEF ReadInv, Uploading, UploadsCapture, NoWords
  <2>3. CASE TesterDone \/ EnableCheckBusy \/ PollWait \/ PollAgain \/ EnableMark
    <3>1. /\ pc \notin {"upload", "reading", "sent"} /\ pc' \notin {"upload", "reading", "sent"}
          /\ UNCHANGED <<word, got>>
      BY <2>3 DEF TesterDone, EnableCheckBusy, PollWait, PollAgain, EnableMark, step, upVars
    <3> QED
      BY <1>2, <3>1 DEF ReadInv, Uploading, UploadsCapture
  <2>4. CASE Interrupt \/ HandlerFree \/ HandlerWake \/ UNCHANGED vars
    <3>1. UNCHANGED <<pc, word, got>>
      BY <2>4 DEF Interrupt, HandlerFree, HandlerWake, vars, upVars
    <3> QED
      BY <1>1, <1>2, <1>4, <3>1 DEF ReadInv, Uploading, UploadsCapture
  <2> QED
    BY <2>1, <2>2, <2>3, <2>4 DEF Calls
<1> QED
  BY <1>3, <1>5, <1>8, <1>9 DEF UploadInv

LEMMA StepUpload == IInv /\ UploadInv /\ [Next]_vars => UploadInv'
<1> SUFFICES ASSUME IInv, UploadInv, [Next]_vars PROVE UploadInv'
  OBVIOUS
<1>1. CASE Ticking
  BY <1>1, TickingUpload
<1>2. CASE Load \/ ReadWord \/ WordRead
  BY <1>2, LoadUpload, ReadWordUpload, WordReadUpload
<1>3. CASE Calls \/ EnableMark \/ Interrupt \/ HandlerFree \/ HandlerWake \/ UNCHANGED vars
  BY <1>3, CallsUpload
<1> QED
  BY <1>1, <1>2, <1>3 DEF Next, Handler, Process, Calls, Ticking

(***************************************************************************)
(* What confrd uploads is the capture it has asked for, every sample of it  *)
(* in order, for every size of the SRAM: the driver's flag is cleared only  *)
(* when the sampler's last write, made one edge after it has come to rest,  *)
(* has reached the memory, and neither the tester nor a confrd killed       *)
(* before can write between the capture and its upload.                     *)
(***************************************************************************)
THEOREM UploadsItsCapture == Spec => []UploadsCapture
<1>1. UploadInv => UploadsCapture
  BY DEF UploadInv, ReadInv
<1> QED
  BY <1>1, InitIInv, StepIInv, InitUpload, StepUpload, PTL DEF Spec
=============================================================================
