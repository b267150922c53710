-------------------------- MODULE TestRunnerProofs --------------------------
(***************************************************************************)
(* Proofs about module TestRunner, for any number of processes, of loads    *)
(* and of kills.                                                            *)
(***************************************************************************)
EXTENDS TestRunner, TLAPS

(* The invariant without its types: what hardware, driver and processes     *)
(* know of each other.                                                      *)
Agreement ==
  /\ FreeIsQuiet /\ StartIsQuiet /\ CheckedIsFree
  /\ ServedResting /\ PulseAlone /\ EnablingAlone

(***************************************************************************)
(* The initial state satisfies the inductive invariant.                     *)
(***************************************************************************)
LEMMA InitIInv == Init => IInv
<1> SUFFICES ASSUME Init PROVE IInv
  OBVIOUS
<1> USE RunnerAssumption DEF Init
<1>1. TypeOK
  <2>1. sram \in [Halves -> [by : Procs \cup {None}, load : 0 .. MaxLoads, ran : BOOLEAN]]
    OBVIOUS
  <2>2. loads \in [Procs -> 0 .. MaxLoads] /\ kills \in 0 .. MaxKills
    OBVIOUS
  <2>3. pc \in [Procs -> Places] /\ tr_wq = { p \in Procs : pc[p] \in {"check", "schedule", "asleep"} }
    BY DEF Places
  <2> QED
    BY <2>1, <2>2, <2>3 DEF TypeOK
<1>2. Quiet /\ handler = "out"
  BY DEF Quiet, Resting
<1>3. \A p \in Procs : pc[p] = "load"
  OBVIOUS
<1> QED
  BY <1>1, <1>2, <1>3 DEF IInv, FreeIsQuiet, StartIsQuiet, CheckedIsFree, ServedResting, PulseAlone, EnablingAlone, Quiet

(***************************************************************************)
(* An edge of the system clock keeps the types of what it writes.           *)
(***************************************************************************)
LEMMA EdgeType ==
  ASSUME TypeOK, NEW w \in BOOLEAN, NEW r \in BOOLEAN, Edge(w, r)
  PROVE  /\ {running', enable', busy', done_d1', irq'} \subseteq BOOLEAN
         /\ sram' \in [Halves -> [by : Procs \cup {None}, load : 0 .. MaxLoads, ran : BOOLEAN]]
<1>1. running' \in BOOLEAN
  BY DEF TypeOK, Edge
<1>2. /\ enable' \in BOOLEAN /\ done_d1' \in BOOLEAN
      /\ busy' \in BOOLEAN /\ irq' \in BOOLEAN
  BY DEF TypeOK, Edge, done
<1>3. \A h \in Halves : [sram[h] EXCEPT !.ran = TRUE] \in
        [by : Procs \cup {None}, load : 0 .. MaxLoads, ran : BOOLEAN]
  BY DEF TypeOK
<1>4. sram' \in [Halves -> [by : Procs \cup {None}, load : 0 .. MaxLoads, ran : BOOLEAN]]
  BY <1>3 DEF TypeOK, Edge
<1> QED
  BY <1>1, <1>2, <1>4

(***************************************************************************)
(* What an edge does that does not start the tester: quiet stays quiet,     *)
(* and the interrupt is raised only when nothing else moves any more.       *)
(***************************************************************************)
LEMMA EdgeAgreement ==
  ASSUME TypeOK, Agreement, NEW r \in BOOLEAN, Edge(FALSE, r),
         r => handler = "read",
         handler' = IF r THEN "free" ELSE handler
  PROVE  /\ Quiet => Quiet'
         /\ Resting => Resting'
         /\ ServedResting'
         /\ PulseAlone'
<1> USE DEF TypeOK, Agreement, Edge, done, done_rises, Resting
<1>1. ~enable'
  OBVIOUS
<1>2. Resting => Resting' /\ (irq' => irq) /\ (r => ~irq')
  OBVIOUS
<1>3. irq' => irq \/ (~running /\ ~done_d1)
  OBVIOUS
<1>4. ~running /\ ~done_d1 => Resting'
  BY DEF PulseAlone
<1>5. handler \in {"read", "free"} => Resting
  BY DEF ServedResting
<1>6. irq => Resting
  BY DEF ServedResting
<1>7. handler' \in {"read", "free"} => handler \in {"read", "free"}
  OBVIOUS
<1>8. handler' = "free" => ~irq'
  BY <1>2, <1>5 DEF ServedResting
<1>9. Quiet => Quiet'
  BY <1>2 DEF Quiet
<1> QED
  BY <1>1, <1>2, <1>3, <1>4, <1>5, <1>6, <1>7, <1>8, <1>9 DEF ServedResting, PulseAlone

(***************************************************************************)
(* A step of one process leaves every other process where it is.            *)
(***************************************************************************)
LEMMA StepMoves ==
  ASSUME TypeOK, NEW p \in Procs, NEW from \in Places, NEW to \in Places,
         step(p, from, to)
  PROVE  /\ pc' \in [Procs -> Places]
         /\ pc'[p] = to /\ pc[p] = from
         /\ \A q \in Procs \ {p} : pc'[q] = pc[q]
         /\ handler = "out" /\ inKernel \in {None, p}
  BY DEF TypeOK, step

(***************************************************************************)
(* A step outside poll leaves the wait queue as it describes it.            *)
(***************************************************************************)
LEMMA QueueKept ==
  ASSUME TypeOK, NEW p \in Procs, UNCHANGED tr_wq,
         \A q \in Procs \ {p} : pc'[q] = pc[q],
         pc'[p] \in {"check", "schedule", "asleep"} <=> pc[p] \in {"check", "schedule", "asleep"}
  PROVE  tr_wq' = { q \in Procs : pc'[q] \in {"check", "schedule", "asleep"} }
<1>1. \A q \in Procs :
        pc'[q] \in {"check", "schedule", "asleep"} <=> pc[q] \in {"check", "schedule", "asleep"}
  OBVIOUS
<1> QED
  BY <1>1 DEF TypeOK

(***************************************************************************)
(* The clock, and the interrupt handler between two steps of a process.     *)
(***************************************************************************)
LEMMA ClockIInv ==
  ASSUME IInv, Clock
  PROVE  IInv'
<1>1. TypeOK /\ Agreement /\ Edge(FALSE, FALSE)
  BY DEF IInv, Agreement, Clock
<1>2. UNCHANGED <<tr_busy, tr_wq, woken, handler, inKernel, pc, loads, kills>>
  BY DEF Clock, drvVars
<1>3. TypeOK'
  BY <1>1, <1>2, EdgeType DEF TypeOK
<1>4. (Quiet => Quiet') /\ ServedResting' /\ PulseAlone'
  BY <1>1, <1>2, EdgeAgreement
<1>5. FreeIsQuiet' /\ StartIsQuiet' /\ CheckedIsFree' /\ EnablingAlone'
  BY <1>1, <1>2, <1>4 DEF Agreement, FreeIsQuiet, StartIsQuiet, CheckedIsFree, EnablingAlone
<1> QED
  BY <1>3, <1>4, <1>5 DEF IInv

LEMMA HandlerIInv ==
  ASSUME IInv, Handler
  PROVE  IInv'
<1>t. TypeOK /\ Agreement
  BY DEF IInv, Agreement
<1>1. CASE Interrupt
  <2>1. /\ handler' = "read" /\ irq /\ handler = "out"
        /\ UNCHANGED <<running, enable, busy, done_d1, irq, tr_busy, tr_wq, woken, sram,
                       inKernel, pc, loads, kills>>
    BY <1>1 DEF Interrupt, hwVars, drvVars
  <2>2. Resting /\ tr_busy
    BY <1>t, <2>1 DEF Agreement, ServedResting, FreeIsQuiet, Quiet, TypeOK
  <2>3. TypeOK'
    BY <1>t, <2>1 DEF TypeOK
  <2>4. ~Quiet
    BY <2>1 DEF Quiet
  <2> QED
    BY <1>t, <2>1, <2>2, <2>3, <2>4
    DEF IInv, Agreement, FreeIsQuiet, StartIsQuiet, CheckedIsFree, ServedResting, PulseAlone, EnablingAlone, Resting
<1>2. CASE HandlerRead
  <2>1. /\ handler = "read" /\ handler' = "free" /\ Edge(FALSE, TRUE)
        /\ UNCHANGED <<tr_busy, tr_wq, woken, inKernel, pc, loads, kills>>
    BY <1>2 DEF HandlerRead, drvVars
  <2>2. TypeOK'
    BY <1>t, <2>1, EdgeType DEF TypeOK
  <2>3. ServedResting' /\ PulseAlone'
    BY <1>t, <2>1, EdgeAgreement
  <2>4. ~Quiet
    BY <2>1 DEF Quiet
  <2> QED
    BY <1>t, <2>1, <2>2, <2>3, <2>4
    DEF IInv, Agreement, FreeIsQuiet, StartIsQuiet, CheckedIsFree, EnablingAlone
<1>3. CASE HandlerFree
  <2>1. /\ handler = "free" /\ handler' = "wake" /\ tr_busy' = FALSE
        /\ UNCHANGED <<running, enable, busy, done_d1, irq, tr_wq, woken, sram,
                       inKernel, pc, loads, kills>>
    BY <1>3 DEF HandlerFree, hwVars
  <2>2. TypeOK'
    BY <1>t, <2>1 DEF TypeOK
  <2>3. ~Quiet /\ Quiet'
    BY <1>t, <2>1 DEF Quiet, Agreement, ServedResting, Resting
  <2> QED
    BY <1>t, <2>1, <2>2, <2>3
    DEF IInv, Agreement, FreeIsQuiet, StartIsQuiet, CheckedIsFree, ServedResting, PulseAlone, EnablingAlone, Quiet
<1>4. CASE HandlerWake
  <2>1. /\ handler = "wake" /\ handler' = "out" /\ woken' = woken \cup tr_wq
        /\ UNCHANGED <<running, enable, busy, done_d1, irq, tr_busy, tr_wq, sram,
                       inKernel, pc, loads, kills>>
    BY <1>4 DEF HandlerWake, hwVars
  <2>2. TypeOK'
    BY <1>t, <2>1 DEF TypeOK
  <2>3. (Quiet => Quiet') /\ (Resting => Resting')
    BY <2>1 DEF Quiet, Resting
  <2> QED
    BY <1>t, <2>1, <2>2, <2>3
    DEF IInv, Agreement, FreeIsQuiet, StartIsQuiet, CheckedIsFree, ServedResting, PulseAlone, EnablingAlone
<1> QED
  BY <1>1, <1>2, <1>3, <1>4 DEF Handler

(***************************************************************************)
(* A step that leaves hardware, handler and tr_busy alone and brings its    *)
(* process neither into trunner_enable nor on in it keeps the agreement.    *)
(***************************************************************************)
LEMMA OutsideEnable ==
  ASSUME TypeOK, Agreement, NEW p \in Procs,
         UNCHANGED <<hwVars, tr_busy, handler>>,
         inKernel \in {None, p},
         \A q \in Procs \ {p} : pc'[q] = pc[q],
         pc'[p] \notin {"enable", "mark", "start"}
  PROVE  Agreement'
<1>1. \A q \in Procs : pc'[q] \in {"enable", "mark", "start"} => q # p /\ pc[q] = pc'[q] /\ inKernel = q
  BY DEF Agreement, EnablingAlone
<1>2. \A q \in Procs : pc'[q] \notin {"enable", "mark", "start"}
  BY <1>1, RunnerAssumption
<1>3. (Quiet => Quiet') /\ (Resting => Resting')
  BY DEF Quiet, Resting, hwVars
<1> QED
  BY <1>2, <1>3 DEF Agreement, FreeIsQuiet, StartIsQuiet, CheckedIsFree, ServedResting, PulseAlone, EnablingAlone, hwVars

LEMMA UserIInv ==
  ASSUME IInv, NEW p \in Procs, Load(p) \/ GiveUp(p) \/ Upload(p)
  PROVE  IInv'
<1>t. TypeOK /\ Agreement
  BY DEF IInv, Agreement
<1> DEFINE Cell == [by : Procs \cup {None}, load : 0 .. MaxLoads, ran : BOOLEAN]
<1>1. CASE Load(p)
  <2>1. PICK h \in Halves :
          /\ IF h = 1 THEN step(p, "load", "load2") ELSE step(p, "load2", "loaded")
          /\ h = 1 => loads[p] < MaxLoads
          /\ loads' = IF h = 1 THEN [loads EXCEPT ![p] = @ + 1] ELSE loads
          /\ sram' = [sram EXCEPT ![h] = [by |-> p, load |-> loads'[p], ran |-> FALSE]]
          /\ UNCHANGED <<hwVars, drvVars, handler, inKernel, kills>>
    BY <1>1 DEF Load
  <2>2. /\ pc' \in [Procs -> Places]
        /\ pc[p] \in {"load", "load2"} /\ pc'[p] \in {"load2", "loaded"}
        /\ \A q \in Procs \ {p} : pc'[q] = pc[q]
        /\ inKernel \in {None, p}
    BY <1>t, <2>1, StepMoves DEF Places
  <2>3. Agreement'
    BY <1>t, <2>1, <2>2, OutsideEnable DEF drvVars
  <2>4. loads' \in [Procs -> 0 .. MaxLoads]
    BY <1>t, <2>1, RunnerAssumption DEF TypeOK
  <2>5. [by |-> p, load |-> loads'[p], ran |-> FALSE] \in Cell
    BY <2>4
  <2>6. sram' \in [Halves -> Cell]
    BY <1>t, <2>1, <2>5 DEF TypeOK
  <2>7. tr_wq' = { q \in Procs : pc'[q] \in {"check", "schedule", "asleep"} }
    BY <1>t, <2>1, <2>2, QueueKept DEF drvVars
  <2>8. TypeOK'
    BY <1>t, <2>1, <2>2, <2>4, <2>6, <2>7 DEF TypeOK, hwVars, drvVars
  <2> QED
    BY <2>3, <2>8 DEF IInv, Agreement
<1>2. CASE GiveUp(p) \/ Upload(p)
  <2>1. UNCHANGED <<hwVars, drvVars, sram, handler, inKernel, loads, kills>>
    BY <1>2 DEF GiveUp, Upload
  <2>2. /\ pc' \in [Procs -> Places]
        /\ pc[p] \in {"failed", "done", "upload2"} /\ pc'[p] \in {"load", "upload2"}
        /\ \A q \in Procs \ {p} : pc'[q] = pc[q]
        /\ inKernel \in {None, p}
    BY <1>t, <1>2, StepMoves DEF Places, GiveUp, Upload
  <2>3. Agreement'
    BY <1>t, <2>1, <2>2, OutsideEnable DEF drvVars
  <2>4. tr_wq' = { q \in Procs : pc'[q] \in {"check", "schedule", "asleep"} }
    BY <1>t, <2>1, <2>2, QueueKept DEF drvVars
  <2>5. TypeOK'
    BY <1>t, <2>1, <2>2, <2>4 DEF TypeOK, hwVars, drvVars
  <2> QED
    BY <2>3, <2>5 DEF IInv, Agreement
<1> QED
  BY <1>1, <1>2

(***************************************************************************)
(* trunner_enable, from its two checks to the write of the register.  While *)
(* p is in it no other process is, so the checks hold when p acts on them.  *)
(***************************************************************************)
LEMMA EnablingIsOne ==
  ASSUME Agreement, NEW p \in Procs, inKernel \in {None, p}
  PROVE  \A q \in Procs \ {p} : pc[q] \notin {"enable", "mark", "start"}
  BY RunnerAssumption DEF Agreement, EnablingAlone

LEMMA EnableCheckBusyIInv ==
  ASSUME IInv, NEW p \in Procs, EnableCheckBusy(p)
  PROVE  IInv'
<1>t. TypeOK /\ Agreement
  BY DEF IInv, Agreement
<1>1. /\ pc' \in [Procs -> Places]
      /\ pc[p] = "loaded"
      /\ \A q \in Procs \ {p} : pc'[q] = pc[q]
      /\ inKernel \in {None, p}
      /\ \/ tr_busy /\ pc'[p] = "failed" /\ inKernel' = None
         \/ ~tr_busy /\ pc'[p] = "enable" /\ inKernel' = p
  BY <1>t, StepMoves DEF Places, EnableCheckBusy
<1>2. UNCHANGED <<hwVars, drvVars, sram, handler, loads, kills>>
  BY DEF EnableCheckBusy
<1>3. TypeOK'
  <2>1. tr_wq' = { q \in Procs : pc'[q] \in {"check", "schedule", "asleep"} }
    BY <1>t, <1>1, <1>2, QueueKept DEF drvVars
  <2> QED
    BY <1>t, <1>1, <1>2, <2>1 DEF TypeOK, hwVars, drvVars
<1>4. \A q \in Procs \ {p} : pc'[q] \notin {"enable", "mark", "start"}
  BY <1>t, <1>1, EnablingIsOne
<1>5. (Quiet => Quiet') /\ (Resting => Resting') /\ UNCHANGED <<tr_busy, enable, running, done_d1, irq, handler>>
  BY <1>2 DEF Quiet, Resting, hwVars, drvVars
<1>6. FreeIsQuiet' /\ ServedResting' /\ PulseAlone'
  BY <1>t, <1>5 DEF Agreement, FreeIsQuiet, ServedResting, PulseAlone
<1>7. StartIsQuiet' /\ CheckedIsFree' /\ EnablingAlone'
  BY <1>1, <1>4, <1>5 DEF StartIsQuiet, CheckedIsFree, EnablingAlone
<1> QED
  BY <1>3, <1>6, <1>7 DEF IInv

LEMMA EnableCheckDoneIInv ==
  ASSUME IInv, NEW p \in Procs, EnableCheckDone(p)
  PROVE  IInv'
<1>t. TypeOK /\ Agreement
  BY DEF IInv, Agreement
<1>1. /\ pc' \in [Procs -> Places]
      /\ pc[p] = "enable"
      /\ \A q \in Procs \ {p} : pc'[q] = pc[q]
      /\ inKernel \in {None, p}
      /\ \/ pc'[p] = "failed" /\ inKernel' = None
         \/ pc'[p] = "mark" /\ inKernel' = p
  BY <1>t, StepMoves DEF Places, EnableCheckDone
<1>2. Edge(FALSE, FALSE) /\ UNCHANGED <<drvVars, handler, loads, kills>>
  BY DEF EnableCheckDone
<1>3. TypeOK'
  <2>1. tr_wq' = { q \in Procs : pc'[q] \in {"check", "schedule", "asleep"} }
    BY <1>t, <1>1, <1>2, QueueKept DEF drvVars
  <2> QED
    BY <1>t, <1>1, <1>2, <2>1, EdgeType DEF TypeOK, drvVars
<1>4. \A q \in Procs \ {p} : pc'[q] \notin {"enable", "mark", "start"}
  BY <1>t, <1>1, EnablingIsOne
<1>5. (Quiet => Quiet') /\ ServedResting' /\ PulseAlone'
  BY <1>t, <1>2, EdgeAgreement
<1>6. tr_busy' = tr_busy /\ ~tr_busy
  BY <1>t, <1>1, <1>2 DEF Agreement, CheckedIsFree, drvVars
<1>7. FreeIsQuiet' /\ StartIsQuiet' /\ CheckedIsFree' /\ EnablingAlone'
  BY <1>t, <1>1, <1>4, <1>5, <1>6 DEF Agreement, FreeIsQuiet, StartIsQuiet, CheckedIsFree, EnablingAlone
<1> QED
  BY <1>3, <1>5, <1>7 DEF IInv

LEMMA EnableMarkIInv ==
  ASSUME IInv, NEW p \in Procs, EnableMark(p)
  PROVE  IInv'
<1>t. TypeOK /\ Agreement
  BY DEF IInv, Agreement
<1>1. /\ pc' \in [Procs -> Places]
      /\ pc[p] = "mark" /\ pc'[p] = "start"
      /\ \A q \in Procs \ {p} : pc'[q] = pc[q]
      /\ inKernel \in {None, p}
  BY <1>t, StepMoves DEF Places, EnableMark
<1>2. /\ tr_busy' = TRUE
      /\ UNCHANGED <<running, enable, busy, done_d1, irq, tr_wq, woken, sram, handler,
                     inKernel, loads, kills>>
  BY DEF EnableMark, hwVars
<1>3. TypeOK'
  <2>1. tr_wq' = { q \in Procs : pc'[q] \in {"check", "schedule", "asleep"} }
    BY <1>t, <1>1, <1>2, QueueKept
  <2> QED
    BY <1>t, <1>1, <1>2, <2>1 DEF TypeOK
<1>4. \A q \in Procs \ {p} : pc'[q] \notin {"enable", "mark", "start"}
  BY <1>t, <1>1, EnablingIsOne
<1>5. Quiet'
  BY <1>t, <1>1, <1>2 DEF Agreement, CheckedIsFree, FreeIsQuiet, Quiet, Resting
<1>6. inKernel' = p
  BY <1>t, <1>1, <1>2 DEF Agreement, EnablingAlone
<1>7. /\ FreeIsQuiet' /\ StartIsQuiet' /\ CheckedIsFree'
      /\ ServedResting' /\ PulseAlone' /\ EnablingAlone'
  BY <1>t, <1>1, <1>2, <1>4, <1>5, <1>6
  DEF Agreement, FreeIsQuiet, StartIsQuiet, CheckedIsFree, ServedResting, PulseAlone, EnablingAlone, Quiet, Resting
<1> QED
  BY <1>3, <1>7 DEF IInv

LEMMA EnableStartIInv ==
  ASSUME IInv, NEW p \in Procs, EnableStart(p)
  PROVE  IInv'
<1>t. TypeOK /\ Agreement
  BY DEF IInv, Agreement
<1>1. /\ pc' \in [Procs -> Places]
      /\ pc[p] = "start" /\ pc'[p] = "started"
      /\ \A q \in Procs \ {p} : pc'[q] = pc[q]
      /\ handler = "out" /\ inKernel \in {None, p}
  BY <1>t, StepMoves DEF Places, EnableStart
<1>2. /\ Edge(TRUE, FALSE)
      /\ inKernel' = None
      /\ UNCHANGED <<tr_busy, tr_wq, woken, handler, loads, kills>>
  BY DEF EnableStart, drvVars
<1>3. TypeOK'
  <2>1. tr_wq' = { q \in Procs : pc'[q] \in {"check", "schedule", "asleep"} }
    BY <1>t, <1>1, <1>2, QueueKept
  <2> QED
    BY <1>t, <1>1, <1>2, <2>1, EdgeType DEF TypeOK
<1>4. \A q \in Procs : pc'[q] \notin {"enable", "mark", "start"}
  BY <1>t, <1>1, EnablingIsOne
<1>5. Quiet /\ tr_busy
  BY <1>t, <1>1 DEF Agreement, StartIsQuiet
<1>6. ~running' /\ done_d1' /\ ~irq' /\ tr_busy' /\ handler' = "out"
  BY <1>1, <1>2, <1>5 DEF Edge, Quiet, Resting, done, done_rises
<1> QED
  BY <1>3, <1>4, <1>6
  DEF IInv, FreeIsQuiet, StartIsQuiet, CheckedIsFree, ServedResting, PulseAlone, EnablingAlone

(***************************************************************************)
(* poll, and a process that is killed.                                      *)
(***************************************************************************)
LEMMA PollIInv ==
  ASSUME IInv, NEW p \in Procs,
         PollWait(p) \/ PollCheck(p) \/ PollSleep(p) \/ PollAgain(p)
  PROVE  IInv'
<1> DEFINE InPoll == {"check", "schedule", "asleep"}
<1>t. TypeOK /\ Agreement
  BY DEF IInv, Agreement
<1>1. /\ UNCHANGED <<running, enable, busy, done_d1, irq, tr_busy, sram, handler, loads, kills>>
      /\ inKernel' \in {None, p}
  BY DEF PollWait, PollCheck, PollSleep, PollAgain, hwVars, drvVars
<1>2. /\ pc' \in [Procs -> Places]
      /\ pc'[p] \in {"check", "done", "schedule", "asleep"}
      /\ \A q \in Procs \ {p} : pc'[q] = pc[q]
      /\ inKernel \in {None, p}
  BY <1>t, StepMoves DEF Places, PollWait, PollCheck, PollSleep, PollAgain
<1>3. woken' \subseteq Procs
  BY <1>t DEF TypeOK, PollWait, PollCheck, PollSleep, PollAgain, drvVars
<1>4. tr_wq' = { q \in Procs : pc'[q] \in InPoll }
  <2>1. CASE PollWait(p)
    <3>1. tr_wq' = tr_wq \cup {p} /\ pc'[p] = "check"
      BY <1>t, <2>1, StepMoves DEF PollWait, Places
    <3> QED
      BY <1>t, <1>2, <3>1 DEF TypeOK
  <2>2. CASE PollCheck(p)
    <3>1. /\ pc[p] = "check"
          /\ \/ tr_wq' = tr_wq \ {p} /\ pc'[p] = "done"
             \/ tr_wq' = tr_wq /\ pc'[p] = "schedule"
      BY <1>t, <2>2, StepMoves DEF PollCheck, Places
    <3> QED
      BY <1>t, <1>2, <3>1 DEF TypeOK
  <2>3. CASE PollSleep(p) \/ PollAgain(p)
    <3>1. tr_wq' = tr_wq /\ pc[p] \in InPoll /\ pc'[p] \in InPoll
      BY <1>t, <2>3, StepMoves DEF PollSleep, PollAgain, Places, drvVars
    <3> QED
      BY <1>t, <1>2, <3>1 DEF TypeOK
  <2> QED
    BY <2>1, <2>2, <2>3
<1>5. TypeOK'
  BY <1>t, <1>1, <1>2, <1>3, <1>4 DEF TypeOK
<1>6. Agreement'
  BY <1>t, <1>1, <1>2, OutsideEnable DEF hwVars
<1> QED
  BY <1>5, <1>6 DEF IInv, Agreement

LEMMA KillIInv ==
  ASSUME IInv, NEW p \in Procs, Kill(p)
  PROVE  IInv'
<1>t. TypeOK /\ Agreement
  BY DEF IInv, Agreement
<1>1. /\ kills < MaxKills /\ kills' = kills + 1
      /\ inKernel = None
      /\ tr_wq' = tr_wq \ {p} /\ woken' = woken \ {p}
      /\ pc' = [pc EXCEPT ![p] = "load"]
      /\ UNCHANGED <<running, enable, busy, done_d1, irq, tr_busy, sram, handler, inKernel, loads>>
  BY DEF Kill, hwVars
<1>2. /\ pc' \in [Procs -> Places]
      /\ pc'[p] = "load"
      /\ \A q \in Procs \ {p} : pc'[q] = pc[q]
  BY <1>t, <1>1 DEF TypeOK, Places
<1>3. tr_wq' = { q \in Procs : pc'[q] \in {"check", "schedule", "asleep"} }
  BY <1>t, <1>1, <1>2 DEF TypeOK
<1>4. kills' \in 0 .. MaxKills
  BY <1>t, <1>1, RunnerAssumption DEF TypeOK
<1>5. TypeOK'
  BY <1>t, <1>1, <1>2, <1>3, <1>4 DEF TypeOK
<1>6. Agreement'
  BY <1>t, <1>1, <1>2, OutsideEnable DEF hwVars
<1> QED
  BY <1>5, <1>6 DEF IInv, Agreement

(***************************************************************************)
(* Every step preserves the invariant.                                      *)
(***************************************************************************)
LEMMA StepIInv == IInv /\ [Next]_vars => IInv'
<1> SUFFICES ASSUME IInv, [Next]_vars PROVE IInv'
  OBVIOUS
<1>1. CASE Clock
  BY <1>1, ClockIInv
<1>2. CASE Handler
  BY <1>2, HandlerIInv
<1>3. ASSUME NEW p \in Procs, Process(p)
      PROVE  IInv'
  BY <1>3, UserIInv, EnableCheckBusyIInv, EnableCheckDoneIInv, EnableMarkIInv, EnableStartIInv, PollIInv DEF Process
<1>4. ASSUME NEW p \in Procs, Kill(p)
      PROVE  IInv'
  BY <1>4, KillIInv
<1>5. CASE UNCHANGED vars
  BY <1>5 DEF vars, hwVars, drvVars, IInv, TypeOK, FreeIsQuiet, StartIsQuiet, CheckedIsFree,
              ServedResting, PulseAlone, EnablingAlone, Quiet, Resting
<1> QED
  BY <1>1, <1>2, <1>3, <1>4, <1>5 DEF Next

LEMMA Invariance == Spec => []IInv
  BY InitIInv, StepIInv, PTL DEF Spec

-----------------------------------------------------------------------------
(***************************************************************************)
(* The type invariant; that the wait queue holds exactly the processes in   *)
(* poll is part of it (trunner_poll, poll_wait and its undoing).            *)
(***************************************************************************)
THEOREM TypeCorrect == Spec => []TypeOK
<1>1. IInv => TypeOK
  BY DEF IInv
<1> QED
  BY <1>1, Invariance, PTL

(***************************************************************************)
(* The enable pulse of trunner_enable always meets a tester that is done.   *)
(***************************************************************************)
THEOREM PulseNeverLost == Spec => []PulseHits
<1>1. IInv => PulseHits
  BY DEF IInv, PulseAlone, PulseHits, done
<1> QED
  BY <1>1, Invariance, PTL

(***************************************************************************)
(* When the driver is free (tr_busy), the tester is done, the SRAM released *)
(* and no pulse under way: poll does not return before the run is over.     *)
(***************************************************************************)
THEOREM PollTellsTheTruth == Spec => []PollMeansFinished
<1>1. IInv => PollMeansFinished
  BY DEF IInv, FreeIsQuiet, Quiet, Resting, PollMeansFinished, done
<1> QED
  BY <1>1, Invariance, PTL

(***************************************************************************)
(* While the tester runs, or is about to, tr_busy is set: a second process  *)
(* gets EBUSY from trunner_enable until the handler has seen the first end. *)
(***************************************************************************)
THEOREM DriverKnowsBusy == Spec => []BusyIsKnown
<1>1. IInv => BusyIsKnown
  BY DEF IInv, FreeIsQuiet, Quiet, Resting, BusyIsKnown
<1> QED
  BY <1>1, Invariance, PTL

-----------------------------------------------------------------------------
(***************************************************************************)
(* Whose results a process reads.  A process that has got beyond loading a  *)
(* half of the SRAM finds its own vectors in it, and from the start of its  *)
(* run until it is back from poll they are to be run, being run, or have    *)
(* been run: whatever an earlier instance of it had started is over by the  *)
(* time the driver lets it start the tester.                                *)
(***************************************************************************)
Has(p, h) == sram[h].by = p /\ sram[h].load = loads[p]

RanAll == \A h \in Halves : sram[h].ran

Waiting  == {"started", "check", "schedule", "asleep"}
Reading  == {"done", "upload2"}
Unloaded == {"load", "load2"}

MineInv(p) ==
  /\ pc[p] # "load" => Has(p, 1)
  /\ pc[p] \notin Unloaded => Has(p, 2)
  /\ pc[p] \in Waiting /\ ~running /\ ~enable => RanAll
  /\ pc[p] \in Reading => RanAll

NotBegun == \A q \in Procs : loads[q] = 0 => pc[q] = "load"

OwnInv == NotBegun /\ \A p \in Procs : Alone(p) => MineInv(p)

(***************************************************************************)
(* An edge gives nobody's half to anybody else, and a run that ends with it *)
(* has run all of the SRAM.                                                 *)
(***************************************************************************)
SramKept ==
  \A h \in Halves : /\ sram'[h].by = sram[h].by /\ sram'[h].load = sram[h].load
                    /\ sram[h].ran => sram'[h].ran

EndedRan == ~running' /\ ~enable' => RanAll' \/ (~running /\ ~enable)

LEMMA EdgeRan ==
  ASSUME TypeOK, NEW w \in BOOLEAN, NEW r \in BOOLEAN, Edge(w, r)
  PROVE  SramKept /\ EndedRan /\ enable' = w
<1>1. CASE running /\ ~running'
  <2>1. \A h \in Halves : sram'[h] = [sram[h] EXCEPT !.ran = TRUE]
    BY <1>1 DEF Edge
  <2>2. \A h \in Halves :
          sram'[h].by = sram[h].by /\ sram'[h].load = sram[h].load /\ sram'[h].ran = TRUE
    BY <2>1 DEF TypeOK
  <2> QED
    BY <2>2 DEF SramKept, EndedRan, RanAll, Edge
<1>2. CASE ~ (running /\ ~running')
  <2>1. sram' = sram
    BY <1>2 DEF Edge
  <2>2. ~running' => ~running /\ ~enable
    BY <1>2 DEF Edge, TypeOK
  <2> QED
    BY <2>1, <2>2 DEF SramKept, EndedRan, Edge
<1> QED
  BY <1>1, <1>2

(***************************************************************************)
(* Moves of a process that ask for no more than it has.                     *)
(***************************************************************************)
Allowed(p) ==
  /\ pc'[p] # "load" => pc[p] # "load"
  /\ pc'[p] \notin Unloaded => pc[p] \notin Unloaded
  /\ pc'[p] \in Waiting => pc[p] \in Waiting \/ enable'
  /\ pc'[p] \in Reading => pc[p] \in Reading \/ (pc[p] \in Waiting /\ ~running /\ ~enable)

LEMMA MineKept ==
  ASSUME NEW p \in Procs, MineInv(p), Allowed(p), SramKept, EndedRan, loads'[p] = loads[p]
  PROVE  MineInv(p)'
<1>1. RanAll => RanAll'
  BY DEF RanAll, SramKept
<1>2. \A h \in Halves : Has(p, h) => Has(p, h)'
  BY DEF Has, SramKept
<1>3. (pc'[p] # "load" => Has(p, 1)') /\ (pc'[p] \notin Unloaded => Has(p, 2)')
  BY <1>2 DEF MineInv, Allowed, Halves
<1>4. pc'[p] \in Waiting /\ ~running' /\ ~enable' => RanAll'
  BY <1>1 DEF MineInv, Allowed, EndedRan
<1>5. pc'[p] \in Reading => RanAll'
  BY <1>1 DEF MineInv, Allowed
<1> QED
  BY <1>3, <1>4, <1>5 DEF MineInv

(***************************************************************************)
(* Steps that load nothing.                                                 *)
(***************************************************************************)
Enabling(q) == EnableCheckBusy(q) \/ EnableCheckDone(q) \/ EnableMark(q) \/ EnableStart(q)
Polling(q)  == PollWait(q) \/ PollCheck(q) \/ PollSleep(q) \/ PollAgain(q)
Calling(q)  == Enabling(q) \/ Polling(q) \/ GiveUp(q) \/ Upload(q)

LEMMA QuietOwn ==
  ASSUME IInv, OwnInv, SramKept, EndedRan, UNCHANGED loads,
         \A q \in Procs : pc[q] = "load" => pc'[q] = "load",
         \A q \in Procs : Allowed(q)
  PROVE  OwnInv'
<1>1. NotBegun'
  BY DEF OwnInv, NotBegun
<1>2. ASSUME NEW p \in Procs, Alone(p)' PROVE MineInv(p)'
  <2>1. Alone(p)
    BY <1>2 DEF Alone
  <2> QED
    BY <2>1, MineKept DEF OwnInv
<1> QED
  BY <1>1, <1>2 DEF OwnInv

LEMMA HardwareOwn == IInv /\ OwnInv /\ (Clock \/ Handler) => OwnInv'
<1> SUFFICES ASSUME IInv, OwnInv, Clock \/ Handler PROVE OwnInv'
  OBVIOUS
<1>1. UNCHANGED pc /\ UNCHANGED loads
  BY DEF Clock, Handler, Interrupt, HandlerRead, HandlerFree, HandlerWake
<1>2. SramKept /\ EndedRan
  <2>1. CASE Clock
    BY <2>1, EdgeRan DEF Clock, IInv
  <2>2. CASE HandlerRead
    BY <2>2, EdgeRan DEF HandlerRead, IInv
  <2>3. CASE Interrupt \/ HandlerFree \/ HandlerWake
    BY <2>3 DEF Interrupt, HandlerFree, HandlerWake, SramKept, EndedRan, hwVars
  <2> QED
    BY <2>1, <2>2, <2>3 DEF Handler
<1>3. \A q \in Procs : Allowed(q)
  BY <1>1 DEF Allowed
<1> QED
  BY <1>1, <1>2, <1>3, QuietOwn

LEMMA CallingOwn ==
  ASSUME IInv, OwnInv, NEW q \in Procs, Calling(q)
  PROVE  OwnInv'
<1>t. TypeOK
  BY DEF IInv
<1>1. UNCHANGED loads
  BY DEF Calling, Enabling, Polling, EnableCheckBusy, EnableCheckDone, EnableMark, EnableStart,
         PollWait, PollCheck, PollSleep, PollAgain, GiveUp, Upload
<1>2. SramKept /\ EndedRan
  <2>1. CASE EnableCheckDone(q)
    BY <2>1, <1>t, EdgeRan DEF EnableCheckDone
  <2>2. CASE EnableStart(q)
    BY <2>2, <1>t, EdgeRan DEF EnableStart
  <2>3. CASE EnableCheckBusy(q) \/ EnableMark(q) \/ Polling(q) \/ GiveUp(q) \/ Upload(q)
    BY <2>3 DEF Polling, EnableCheckBusy, EnableMark, PollWait, PollCheck, PollSleep, PollAgain,
                GiveUp, Upload, SramKept, EndedRan, hwVars
  <2> QED
    BY <2>1, <2>2, <2>3 DEF Calling, Enabling
<1>3. \A p \in Procs \ {q} : pc'[p] = pc[p]
  BY <1>t DEF TypeOK, step, Calling, Enabling, Polling, EnableCheckBusy, EnableCheckDone, EnableMark,
         EnableStart, PollWait, PollCheck, PollSleep, PollAgain, GiveUp, Upload
<1>4. pc[q] # "load" /\ Allowed(q)
  <2>1. CASE EnableStart(q)
    <3>1. enable' = TRUE
      BY <2>1 DEF EnableStart, Edge
    <3> QED
      BY <1>t, <2>1, <3>1 DEF EnableStart, step, TypeOK, Allowed, Waiting, Reading, Unloaded
  <2>2. CASE EnableCheckBusy(q) \/ EnableCheckDone(q) \/ EnableMark(q)
    BY <1>t, <2>2 DEF EnableCheckBusy, EnableCheckDone, EnableMark, step, TypeOK, Allowed, Waiting, Reading, Unloaded
  <2>3. CASE PollWait(q) \/ PollSleep(q) \/ PollAgain(q)
    BY <1>t, <2>3 DEF PollWait, PollSleep, PollAgain, step, TypeOK, Allowed, Waiting, Reading, Unloaded
  <2>4. CASE PollCheck(q)
    <3>1. ~tr_busy => ~running /\ ~enable
      BY DEF IInv, FreeIsQuiet, Quiet, Resting
    <3> QED
      BY <1>t, <2>4, <3>1 DEF PollCheck, step, TypeOK, Allowed, Waiting, Reading, Unloaded
  <2>5. CASE GiveUp(q) \/ Upload(q)
    BY <1>t, <2>5 DEF GiveUp, Upload, step, TypeOK, Allowed, Waiting, Reading, Unloaded
  <2> QED
    BY <2>1, <2>2, <2>3, <2>4, <2>5 DEF Calling, Enabling, Polling
<1>5. \A p \in Procs : Allowed(p) /\ (pc[p] = "load" => pc'[p] = "load")
  BY <1>3, <1>4 DEF Allowed
<1> QED
  BY <1>1, <1>2, <1>5, QuietOwn

LEMMA KillOwn ==
  ASSUME IInv, OwnInv, NEW q \in Procs, Kill(q)
  PROVE  OwnInv'
<1>1. UNCHANGED <<running, enable, sram, loads>>
  BY DEF Kill, hwVars
<1>2. \A p \in Procs : pc'[p] = pc[p] \/ pc'[p] = "load"
  BY DEF Kill, IInv, TypeOK
<1>3. SramKept /\ EndedRan
  BY <1>1 DEF SramKept, EndedRan
<1>4. \A p \in Procs : Allowed(p) /\ (pc[p] = "load" => pc'[p] = "load")
  BY <1>2 DEF Allowed, Waiting, Reading, Unloaded
<1> QED
  BY <1>1, <1>3, <1>4, QuietOwn

(***************************************************************************)
(* Loading: who loads is no longer alone with anybody else, and has what it *)
(* has loaded.                                                              *)
(***************************************************************************)
LEMMA LoadOwn ==
  ASSUME IInv, OwnInv, NEW q \in Procs, Load(q)
  PROVE  OwnInv'
<1>t. TypeOK
  BY DEF IInv
<1>1. PICK h \in Halves :
        /\ IF h = 1 THEN step(q, "load", "load2") ELSE step(q, "load2", "loaded")
        /\ loads' = IF h = 1 THEN [loads EXCEPT ![q] = @ + 1] ELSE loads
        /\ sram' = [sram EXCEPT ![h] = [by |-> q, load |-> loads'[q], ran |-> FALSE]]
  BY DEF Load
<1>2. /\ pc'[q] = IF h = 1 THEN "load2" ELSE "loaded"
      /\ pc[q] = IF h = 1 THEN "load" ELSE "load2"
      /\ \A p \in Procs \ {q} : pc'[p] = pc[p] /\ loads'[p] = loads[p]
  BY <1>t, <1>1 DEF TypeOK, step
<1>3. loads[q] \in Nat /\ loads'[q] # 0
  <2>1. h = 1 => loads'[q] = loads[q] + 1
    BY <1>t, <1>1 DEF TypeOK
  <2>2. h # 1 => loads'[q] = loads[q] /\ loads[q] # 0
    BY <1>1, <1>2 DEF OwnInv, NotBegun
  <2> QED
    BY <1>t, <2>1, <2>2, RunnerAssumption DEF TypeOK
<1>4. NotBegun'
  BY <1>2, <1>3 DEF OwnInv, NotBegun
<1>5. ASSUME NEW p \in Procs, Alone(p)' PROVE MineInv(p)'
  <2>1. p = q
    BY <1>3, <1>5 DEF Alone
  <2>2. Alone(q)
    BY <1>2, <1>5, <2>1 DEF Alone
  <2>3. MineInv(q)
    BY <2>2 DEF OwnInv
  <2>4. Has(q, h)'
    BY <1>t, <1>1 DEF Has, TypeOK
  <2>5. h = 2 => Has(q, 1)'
    BY <1>t, <1>1, <1>2, <2>3 DEF MineInv, Has, TypeOK, Halves
  <2>6. pc'[q] \notin Waiting \cup Reading /\ (h = 1 => pc'[q] \in Unloaded)
    BY <1>2 DEF Waiting, Reading, Unloaded
  <2>7. h \in {1, 2}
    BY DEF Halves
  <2> QED
    BY <2>1, <2>4, <2>5, <2>6, <2>7 DEF MineInv
<1> QED
  BY <1>4, <1>5 DEF OwnInv

LEMMA OwnStep == IInv /\ OwnInv /\ [Next]_vars => OwnInv'
<1> SUFFICES ASSUME IInv, OwnInv, [Next]_vars PROVE OwnInv'
  OBVIOUS
<1>1. CASE Clock \/ Handler
  BY <1>1, HardwareOwn
<1>2. ASSUME NEW q \in Procs, Process(q) \/ Kill(q) PROVE OwnInv'
  BY <1>2, CallingOwn, LoadOwn, KillOwn DEF Process, Calling, Enabling, Polling
<1>3. CASE UNCHANGED vars
  <2>1. SramKept /\ EndedRan /\ UNCHANGED <<pc, loads>>
    BY <1>3 DEF vars, hwVars, SramKept, EndedRan
  <2>2. \A q \in Procs : Allowed(q)
    BY <2>1 DEF Allowed
  <2> QED
    BY <2>1, <2>2, QuietOwn
<1> QED
  BY <1>1, <1>2, <1>3 DEF Next

(***************************************************************************)
(* A process whose like do not overlap with it uploads the results of the   *)
(* vectors it has loaded, though it may have been killed with the tester    *)
(* running, and started again (automount.sh, go, trunner_enable).           *)
(***************************************************************************)
THEOREM OwnResults == Spec => []ResultsMine
<1>1. Init => OwnInv
  BY DEF Init, OwnInv, NotBegun, MineInv, Waiting, Reading, Unloaded
<1>2. ASSUME TypeOK, OwnInv PROVE ResultsMine
  <2> SUFFICES ASSUME NEW p \in Procs, Alone(p)
               PROVE  /\ pc[p] = "done" => \A h \in Halves : Mine(p, h)
                      /\ pc[p] = "upload2" => Mine(p, 2)
    BY DEF ResultsMine
  <2>1. ASSUME pc[p] \in Reading, NEW h \in Halves PROVE Mine(p, h)
    <3>1. Has(p, h) /\ sram[h].ran
      BY <1>2, <2>1 DEF OwnInv, MineInv, Reading, Unloaded, RanAll, Halves
    <3>2. sram[h] \in [by : Procs \cup {None}, load : 0 .. MaxLoads, ran : BOOLEAN]
      BY <1>2 DEF TypeOK
    <3> QED
      BY <3>1, <3>2 DEF Has, Mine
  <2> QED
    BY <2>1 DEF Reading, Halves
<1>3. IInv => TypeOK
  BY DEF IInv
<1> QED
  BY <1>1, <1>2, <1>3, InitIInv, OwnStep, Invariance, PTL DEF Spec
=============================================================================
