-------------------------- MODULE FreqCounterProofs --------------------------
(***************************************************************************)
(* Proofs about module FreqCounter, for any number of processes, calls and  *)
(* kills, and registers of any width.                                       *)
(***************************************************************************)
EXTENDS FreqCounter, TLAPS

Driving == {"mark", "start", "put cycles", "put select"}

LEMMA ModType == ASSUME NEW x \in Nat PROVE x % Width \in 0 .. Width - 1
  BY CounterAssumption

LEMMA NothingType == Nothing \in Windows
  BY CounterAssumption DEF Nothing, Windows

(***************************************************************************)
(* The initial state satisfies the inductive invariant.                     *)
(***************************************************************************)
LEMMA InitIInv == Init => IInv
<1> SUFFICES ASSUME Init PROVE IInv
  OBVIOUS
<1> USE CounterAssumption DEF Init
<1>1. Width \div 2 \in 0 .. Width - 1
  OBVIOUS
<1>2. got \in [Procs -> Windows] /\ edge_count \in Windows /\ edgecount \in Windows
  BY NothingType
<1>3. ask \in [Procs -> [cycles : 0 .. Width - 1, pin : Pins]]
  OBVIOUS
<1>4. pc \in [Procs -> Places] /\ fc_wq = { p \in Procs : pc[p] \in InPoll }
  BY DEF Places, InPoll
<1>5. /\ runs \in [Procs -> 0 .. MaxRuns] /\ fds \in [Procs -> 0 .. MaxFds]
      /\ kills \in 0 .. MaxKills /\ cycle_count \in 0 .. Width - 1
  OBVIOUS
<1>6. {irq, enable, done_d1, enable_d1, counting, fc_busy} \subseteq BOOLEAN
  OBVIOUS
<1>7. TypeOK
  BY <1>1, <1>2, <1>3, <1>4, <1>5, <1>6 DEF TypeOK
<1>8. \A p \in Procs : pc[p] = "line"
  OBVIOUS
<1>9. Agreement
  BY <1>8 DEF Agreement, FreeIsResting, ServedResting, EnablingSettled, MarkedIsBusy, PuttingIsFree, AloneInDriver, PulseAlone, Resting
<1> QED
  BY <1>7, <1>9 DEF IInv

-----------------------------------------------------------------------------
(***************************************************************************)
(* What an access writes fits its register.                                 *)
(***************************************************************************)
Writable(write, value) ==
  /\ write = "CYCLECOUNT" => value \in 0 .. Width - 1
  /\ write = "INPUT_SEL" => value \in Pins

(***************************************************************************)
(* An edge of the clock keeps the types of what it writes.                  *)
(***************************************************************************)
LEMMA EdgeType ==
  ASSUME TypeOK, NEW w, NEW v, NEW r \in BOOLEAN, Edge(w, v, r), Writable(w, v)
  PROVE  /\ n_cycles' \in 0 .. Width - 1 /\ input_sel' \in Pins /\ edgecount' \in Windows
         /\ {irq', enable', done_d1', enable_d1', counting'} \subseteq BOOLEAN
         /\ cycle_count' \in 0 .. Width - 1 /\ edge_count' \in Windows
<1>1. n_cycles' \in 0 .. Width - 1 /\ input_sel' \in Pins /\ edgecount' \in Windows
  BY DEF TypeOK, Edge, Registers, Writable
<1>2. {irq', enable', done_d1', enable_d1', counting'} \subseteq BOOLEAN
  BY DEF TypeOK, Edge, Registers, Measure, done
<1>3. cycle_count' \in 0 .. Width - 1
  <2>1. (cycle_count + 1) % Width \in 0 .. Width - 1
    BY ModType DEF TypeOK
  <2>2. cycle_count' \in {0, (cycle_count + 1) % Width, cycle_count}
    BY DEF Edge, Measure
  <2> QED
    BY <2>1, <2>2, CounterAssumption DEF TypeOK
<1>4. edge_count' \in Windows
  <2>1. (edge_count[input_sel] + 1) % Width \in 0 .. Width - 1
    <3>1. edge_count[input_sel] + 1 \in Nat
      BY DEF TypeOK, Windows
    <3> QED
      BY <3>1, ModType
  <2>2. [edge_count EXCEPT ![input_sel] = (@ + 1) % Width] \in Windows
    BY <2>1 DEF TypeOK, Windows
  <2> QED
    BY <2>2, NothingType DEF TypeOK, Edge, Measure, NextEdgeCount
<1> QED
  BY <1>1, <1>2, <1>3, <1>4

(***************************************************************************)
(* An edge that starts no measurement leaves a resting counter at rest, and *)
(* an interrupt finds it so.  Without a write it leaves it settled too.     *)
(***************************************************************************)
LEMMA EdgeAgreement ==
  ASSUME TypeOK, Agreement, NEW w, NEW v, NEW r \in BOOLEAN, Edge(w, v, r), w # "ENABLE"
  PROVE  /\ Resting => Resting'
         /\ irq' => Resting'
         /\ PulseAlone'
         /\ w = "none" /\ Resting /\ Settled => Settled'
<1>1. ~enable'
  BY DEF Edge
<1>2. Resting => Resting'
  BY <1>1 DEF Edge, Measure, Resting
<1>3. done => Resting'
  BY <1>1 DEF Edge, Measure, Resting, done
<1>4. irq' => irq \/ done
  BY DEF Edge, Registers, done_rises, TypeOK
<1>5. irq' => Resting'
  BY <1>2, <1>3, <1>4 DEF Agreement, ServedResting
<1>6. ASSUME w = "none", Resting, Settled
      PROVE  Settled'
  <2>1. ~done_rises
    BY <1>6 DEF Settled, done_rises
  <2>2. n_cycles' = n_cycles /\ irq' = FALSE /\ done_d1' = done
    BY <1>6, <2>1 DEF Edge, Registers, Settled, TypeOK
  <2>3. cycle_count' = cycle_count
    BY <1>6, <1>2 DEF Resting
  <2> QED
    BY <2>2, <2>3 DEF Settled, done
<1> QED
  BY <1>1, <1>2, <1>5, <1>6 DEF PulseAlone

(***************************************************************************)
(* A step of one process leaves every other process where it is.            *)
(***************************************************************************)
LEMMA StepMoves ==
  ASSUME TypeOK, NEW p \in Procs, NEW from, NEW to \in Places, step(p, from, to)
  PROVE  /\ pc' \in [Procs -> Places]
         /\ pc'[p] = to /\ pc[p] = from
         /\ \A q \in Procs \ {p} : pc'[q] = pc[q]
         /\ handler = "out" /\ inKernel \in {None, p}
  BY DEF TypeOK, step

LEMMA NoneIsNobody == \A p \in Procs : p # None
  BY CounterAssumption

(***************************************************************************)
(* While one process is in the driver no other one is half-way through it.  *)
(***************************************************************************)
LEMMA DrivingIsOne ==
  ASSUME Agreement, NEW p \in Procs, inKernel \in {None, p}
  PROVE  \A q \in Procs \ {p} : pc[q] \notin Driving
  BY NoneIsNobody DEF Agreement, AloneInDriver, Driving

(***************************************************************************)
(* Where calls and their errors lead a process.                             *)
(***************************************************************************)
Calls == {"cycles", "select", "enable", "wait", "read"}

LEMMA AfterPlaces ==
  ASSUME NEW p \in Procs, NEW op \in Calls
  PROVE  /\ AfterCall(p, op) \in Places \ (InPoll \cup Driving)
         /\ AfterError(p, op) \in Places \ (InPoll \cup Driving)
  BY DEF AfterCall, AfterError, Calls, Places, InPoll, Driving

(***************************************************************************)
(* A step outside poll leaves the wait queue as it describes it.            *)
(***************************************************************************)
LEMMA QueueKept ==
  ASSUME TypeOK, NEW p \in Procs, UNCHANGED fc_wq,
         \A q \in Procs \ {p} : pc'[q] = pc[q],
         pc'[p] \in InPoll <=> pc[p] \in InPoll
  PROVE  fc_wq' = { q \in Procs : pc'[q] \in InPoll }
<1>1. \A q \in Procs : pc'[q] \in InPoll <=> pc[q] \in InPoll
  OBVIOUS
<1> QED
  BY <1>1 DEF TypeOK

(***************************************************************************)
(* A step that leaves the hardware and the driver's flag alone and takes    *)
(* its process to a place outside the driver keeps the agreement.           *)
(***************************************************************************)
LEMMA OutsideDriver ==
  ASSUME TypeOK, Agreement, NEW p \in Procs,
         UNCHANGED <<hwVars, fc_busy, handler>>,
         inKernel \in {None, p},
         \A q \in Procs \ {p} : pc'[q] = pc[q],
         pc'[p] \notin Driving
  PROVE  Agreement'
<1>1. \A q \in Procs : pc'[q] \notin Driving
  BY DrivingIsOne
<1>2. Resting' <=> Resting
  BY DEF Resting, hwVars
<1>3. FreeIsResting' /\ ServedResting' /\ PulseAlone'
  BY <1>2 DEF Agreement, FreeIsResting, ServedResting, PulseAlone, hwVars, regVars
<1>4. EnablingSettled' /\ MarkedIsBusy' /\ PuttingIsFree' /\ AloneInDriver'
  BY <1>1 DEF EnablingSettled, MarkedIsBusy, PuttingIsFree, AloneInDriver, Driving
<1> QED
  BY <1>3, <1>4 DEF Agreement

-----------------------------------------------------------------------------
(***************************************************************************)
(* The clock, and the interrupt handler between two steps of a process.     *)
(***************************************************************************)
LEMMA ClockIInv ==
  ASSUME IInv, Clock
  PROVE  IInv'
<1>1. TypeOK /\ Agreement /\ Edge("none", 0, FALSE)
  BY DEF IInv, Clock
<1>2. UNCHANGED <<fc_busy, fc_wq, woken, handler, inKernel, pc, runs, ask, got, fds, kills>>
  BY DEF Clock, drvVars, procVars
<1>3. TypeOK'
  BY <1>1, <1>2, EdgeType DEF TypeOK, Writable
<1>4. /\ Resting => Resting'
      /\ irq' => Resting'
      /\ PulseAlone'
      /\ Resting /\ Settled => Settled'
  BY <1>1, EdgeAgreement
<1>5. Agreement'
  BY <1>1, <1>2, <1>4 DEF Agreement, FreeIsResting, ServedResting, EnablingSettled, MarkedIsBusy, PuttingIsFree, AloneInDriver
<1> QED
  BY <1>3, <1>5 DEF IInv

LEMMA HandlerIInv ==
  ASSUME IInv, Handler
  PROVE  IInv'
<1>t. TypeOK /\ Agreement
  BY DEF IInv
<1>1. CASE Interrupt
  <2>1. /\ handler' = "read" /\ irq
        /\ UNCHANGED <<hwVars, drvVars, inKernel, pc, procVars>>
    BY <1>1 DEF Interrupt
  <2>2. TypeOK'
    BY <1>t, <2>1 DEF TypeOK, hwVars, regVars, drvVars, procVars
  <2>3. Resting /\ (Resting' <=> Resting) /\ ~Settled
    BY <1>t, <2>1 DEF Agreement, ServedResting, Resting, Settled, hwVars
  <2>4. Agreement'
    BY <1>t, <2>1, <2>3
    DEF Agreement, FreeIsResting, ServedResting, EnablingSettled, MarkedIsBusy, PuttingIsFree, AloneInDriver, PulseAlone,
        hwVars, drvVars
  <2> QED
    BY <2>2, <2>4 DEF IInv
<1>2. CASE HandlerRead
  <2>1. /\ handler = "read" /\ handler' = "free" /\ Edge("none", 0, TRUE)
        /\ UNCHANGED <<fc_busy, fc_wq, woken, inKernel, pc, runs, ask, got, fds, kills>>
    BY <1>2 DEF HandlerRead, drvVars, procVars
  <2>2. TypeOK'
    BY <1>t, <2>1, EdgeType DEF TypeOK, Writable
  <2>3. (Resting => Resting') /\ PulseAlone'
    BY <1>t, <2>1, EdgeAgreement
  <2>4. Agreement'
    BY <1>t, <2>1, <2>3
    DEF Agreement, FreeIsResting, ServedResting, EnablingSettled, MarkedIsBusy, PuttingIsFree, AloneInDriver
  <2> QED
    BY <2>2, <2>4 DEF IInv
<1>3. CASE HandlerFree
  <2>1. /\ handler = "free" /\ handler' = "wake" /\ fc_busy' = FALSE
        /\ UNCHANGED <<hwVars, fc_wq, woken, inKernel, pc, procVars>>
    BY <1>3 DEF HandlerFree
  <2>2. TypeOK'
    BY <1>t, <2>1 DEF TypeOK, hwVars, regVars, procVars
  <2>3. Resting /\ (Resting' <=> Resting)
    BY <1>t, <2>1 DEF Agreement, ServedResting, Resting, hwVars
  <2>4. Agreement'
    BY <1>t, <2>1, <2>3
    DEF Agreement, FreeIsResting, ServedResting, EnablingSettled, MarkedIsBusy, PuttingIsFree, AloneInDriver, PulseAlone,
        hwVars
  <2> QED
    BY <2>2, <2>4 DEF IInv
<1>4. CASE HandlerWake
  <2>1. /\ handler = "wake" /\ handler' = "out" /\ woken' = woken \cup fc_wq
        /\ UNCHANGED <<hwVars, fc_busy, fc_wq, inKernel, pc, procVars>>
    BY <1>4 DEF HandlerWake
  <2>2. TypeOK'
    BY <1>t, <2>1 DEF TypeOK, hwVars, regVars, procVars
  <2>3. Resting' <=> Resting
    BY <2>1 DEF Resting, hwVars
  <2>4. Agreement'
    BY <1>t, <2>1, <2>3
    DEF Agreement, FreeIsResting, ServedResting, EnablingSettled, MarkedIsBusy, PuttingIsFree, AloneInDriver, PulseAlone,
        hwVars, regVars
  <2> QED
    BY <2>2, <2>4 DEF IInv
<1> QED
  BY <1>1, <1>2, <1>3, <1>4 DEF Handler

-----------------------------------------------------------------------------
(***************************************************************************)
(* Steps of a process outside the driver.                                   *)
(***************************************************************************)
LEMMA UserIInv ==
  ASSUME IInv, NEW p \in Procs, Begin(p) \/ Option(p) \/ OpenFails(p) \/ Submit(p)
  PROVE  IInv'
<1>t. TypeOK /\ Agreement
  BY DEF IInv
<1>1. UNCHANGED <<hwVars, drvVars, handler, inKernel, kills>>
  BY DEF Begin, Option, OpenFails, Submit, procVars
<1>2. PICK from \in Places \ InPoll, to \in Places \ (InPoll \cup Driving) : step(p, from, to)
  <2>1. CASE Begin(p)
    BY <2>1 DEF Begin, Places, InPoll, Driving
  <2>2. CASE Option(p)
    BY <2>2 DEF Option, Places, InPoll, Driving
  <2>3. CASE OpenFails(p)
    <3>1. PICK op \in Calls : step(p, op, AfterError(p, op))
      BY <2>3 DEF OpenFails, Calls
    <3>2. op \in Places \ InPoll
      BY DEF Calls, Places, InPoll
    <3> QED
      BY <3>1, <3>2, AfterPlaces
  <2>4. CASE Submit(p)
    BY <2>4 DEF Submit, Places, InPoll, Driving
  <2> QED
    BY <2>1, <2>2, <2>3, <2>4
<1>3. /\ pc' \in [Procs -> Places]
      /\ pc'[p] = to /\ pc[p] = from
      /\ \A q \in Procs \ {p} : pc'[q] = pc[q]
      /\ inKernel \in {None, p}
  BY <1>t, <1>2, StepMoves
<1>4. Agreement'
  BY <1>t, <1>1, <1>3, OutsideDriver DEF drvVars
<1>5. fc_wq' = { q \in Procs : pc'[q] \in InPoll }
  BY <1>t, <1>1, <1>3, QueueKept DEF drvVars
<1>6. /\ runs' \in [Procs -> 0 .. MaxRuns] /\ fds' \in [Procs -> 0 .. MaxFds]
      /\ ask' \in [Procs -> [cycles : 0 .. Width - 1, pin : Pins]]
      /\ got' \in [Procs -> Windows]
  <2>1. CASE Begin(p)
    <3>1. PICK c \in Cycles, pin \in Pins : ask' = [ask EXCEPT ![p] = [cycles |-> c, pin |-> pin]]
      BY <2>1 DEF Begin
    <3>2. [cycles |-> c, pin |-> pin] \in [cycles : 0 .. Width - 1, pin : Pins]
      BY CounterAssumption
    <3>3. runs' \in [Procs -> 0 .. MaxRuns]
      BY <1>t, <2>1, CounterAssumption DEF TypeOK, Begin
    <3> QED
      BY <1>t, <2>1, <3>1, <3>2, <3>3 DEF TypeOK, Begin
  <2>2. CASE Option(p)
    BY <1>t, <2>2, CounterAssumption DEF TypeOK, Option
  <2>3. CASE OpenFails(p)
    BY <1>t, <2>3 DEF TypeOK, OpenFails, procVars
  <2>4. CASE Submit(p)
    BY <1>t, <2>4, NothingType DEF TypeOK, Submit
  <2> QED
    BY <2>1, <2>2, <2>3, <2>4
<1>7. TypeOK'
  BY <1>t, <1>1, <1>3, <1>5, <1>6 DEF TypeOK, hwVars, regVars, drvVars
<1> QED
  BY <1>4, <1>7 DEF IInv

(***************************************************************************)
(* poll.                                                                    *)
(***************************************************************************)
LEMMA PollIInv ==
  ASSUME IInv, NEW p \in Procs, PollWait(p) \/ PollCheck(p) \/ PollSleep(p) \/ PollAgain(p)
  PROVE  IInv'
<1>t. TypeOK /\ Agreement
  BY DEF IInv
<1>1. UNCHANGED <<hwVars, fc_busy, handler, procVars>>
  BY DEF PollWait, PollCheck, PollSleep, PollAgain, drvVars
<1>2. PICK from \in Places, to \in Places \ Driving : step(p, from, to)
  <2>1. AfterCall(p, "wait") \in Places \ Driving
    BY AfterPlaces DEF Calls
  <2> QED
    BY <2>1 DEF PollWait, PollCheck, PollSleep, PollAgain, Places, InPoll, Driving
<1>3. /\ pc' \in [Procs -> Places]
      /\ pc'[p] = to /\ pc[p] = from
      /\ \A q \in Procs \ {p} : pc'[q] = pc[q]
      /\ inKernel \in {None, p}
  BY <1>t, <1>2, StepMoves
<1>4. Agreement'
  BY <1>t, <1>1, <1>3, OutsideDriver
<1>5. fc_wq' = { q \in Procs : pc'[q] \in InPoll }
  <2>1. CASE PollWait(p)
    <3>1. pc'[p] \in InPoll /\ fc_wq' = fc_wq \cup {p}
      BY <1>t, <2>1 DEF PollWait, step, InPoll, TypeOK
    <3> QED
      BY <1>t, <1>3, <3>1 DEF TypeOK
  <2>2. CASE PollCheck(p) /\ ~fc_busy
    <3>1. AfterCall(p, "wait") \notin InPoll
      BY AfterPlaces DEF Calls
    <3>2. pc'[p] \notin InPoll /\ fc_wq' = fc_wq \ {p}
      BY <1>t, <2>2, <3>1 DEF PollCheck, step, TypeOK
    <3> QED
      BY <1>t, <1>3, <3>2 DEF TypeOK
  <2>3. CASE (PollCheck(p) /\ fc_busy) \/ PollSleep(p) \/ PollAgain(p)
    <3>1. pc'[p] \in InPoll /\ pc[p] \in InPoll /\ UNCHANGED fc_wq
      BY <1>t, <2>3 DEF PollCheck, PollSleep, PollAgain, step, InPoll, TypeOK, drvVars
    <3> QED
      BY <1>t, <1>3, <3>1, QueueKept
  <2> QED
    BY <2>1, <2>2, <2>3
<1>6. woken' \subseteq Procs
  BY <1>t DEF TypeOK, PollWait, PollCheck, PollSleep, PollAgain, drvVars
<1>7. inKernel' \in Procs \cup {None}
  BY DEF PollWait, PollCheck, PollSleep, PollAgain
<1>8. TypeOK'
  BY <1>t, <1>1, <1>3, <1>5, <1>6, <1>7 DEF TypeOK, hwVars, regVars, procVars
<1> QED
  BY <1>4, <1>8 DEF IInv

-----------------------------------------------------------------------------
(***************************************************************************)
(* Into the driver: refused, or admitted to it with fc_busy unset.          *)
(***************************************************************************)
LEMMA RefusedIInv ==
  ASSUME IInv, NEW p \in Procs, NEW op \in Calls, fds[p] < MaxFds, Refused(p, op),
         UNCHANGED <<hwVars, drvVars, handler, runs, ask, got, kills>>
  PROVE  IInv'
<1>t. TypeOK /\ Agreement
  BY DEF IInv
<1>1. op \notin InPoll
  BY DEF Calls, InPoll
<1>2. /\ pc' \in [Procs -> Places]
      /\ pc'[p] = AfterError(p, op) /\ pc[p] = op
      /\ \A q \in Procs \ {p} : pc'[q] = pc[q]
      /\ inKernel \in {None, p}
      /\ pc'[p] \notin InPoll \cup Driving
  BY <1>t, StepMoves, AfterPlaces DEF Refused
<1>3. Agreement'
  BY <1>t, <1>2, OutsideDriver DEF drvVars
<1>4. fc_wq' = { q \in Procs : pc'[q] \in InPoll }
  BY <1>t, <1>1, <1>2, QueueKept DEF drvVars
<1>5. fds' \in [Procs -> 0 .. MaxFds]
  BY <1>t, CounterAssumption DEF TypeOK, Refused
<1>6. TypeOK'
  BY <1>t, <1>2, <1>4, <1>5 DEF TypeOK, hwVars, regVars, drvVars, Refused
<1> QED
  BY <1>3, <1>6 DEF IInv

LEMMA AdmittedIInv ==
  ASSUME IInv, NEW p \in Procs, NEW op \in Calls, NEW to \in {"put cycles", "put select", "mark"},
         Settled, Admitted(p, op, to),
         UNCHANGED <<hwVars, drvVars, handler, runs, ask, got, kills>>
  PROVE  IInv'
<1>t. TypeOK /\ Agreement
  BY DEF IInv
<1>1. op \notin InPoll /\ to \in Driving /\ to \in Places /\ to \notin InPoll
  BY DEF Calls, InPoll, Driving, Places
<1>2. /\ pc' \in [Procs -> Places]
      /\ pc'[p] = to /\ pc[p] = op
      /\ \A q \in Procs \ {p} : pc'[q] = pc[q]
      /\ handler = "out" /\ inKernel \in {None, p}
  BY <1>t, <1>1, StepMoves DEF Admitted
<1>3. ~fc_busy /\ inKernel' = p /\ UNCHANGED fds
  BY DEF Admitted
<1>4. fc_wq' = { q \in Procs : pc'[q] \in InPoll }
  BY <1>t, <1>1, <1>2, QueueKept DEF drvVars
<1>5. TypeOK'
  BY <1>t, <1>2, <1>3, <1>4 DEF TypeOK, hwVars, regVars, drvVars
<1>6. \A q \in Procs \ {p} : pc'[q] \notin Driving
  BY <1>t, <1>2, DrivingIsOne
<1>7. Resting /\ (Resting' <=> Resting) /\ (Settled' <=> Settled)
  BY <1>t, <1>3 DEF Agreement, FreeIsResting, Resting, Settled, done, hwVars, regVars
<1>8. FreeIsResting' /\ ServedResting' /\ PulseAlone'
  BY <1>t, <1>7 DEF Agreement, FreeIsResting, ServedResting, PulseAlone, hwVars, regVars, drvVars
<1>9. EnablingSettled' /\ MarkedIsBusy' /\ PuttingIsFree' /\ AloneInDriver'
  BY <1>2, <1>3, <1>6, <1>7 DEF EnablingSettled, MarkedIsBusy, PuttingIsFree, AloneInDriver, Driving, drvVars
<1> QED
  BY <1>5, <1>8, <1>9 DEF IInv, Agreement

LEMMA CheckIInv ==
  ASSUME IInv, NEW p \in Procs, SetCheck(p) \/ EnableCheck(p)
  PROVE  IInv'
<1>1. /\ fds[p] < MaxFds /\ Settled
      /\ UNCHANGED <<hwVars, drvVars, handler, runs, ask, got, kills>>
  BY DEF SetCheck, EnableCheck, Enters
<1>2. CASE \E op \in Calls : Refused(p, op)
  BY <1>1, <1>2, RefusedIInv
<1>3. CASE \E op \in Calls, to \in {"put cycles", "put select", "mark"} : Admitted(p, op, to)
  BY <1>1, <1>3, AdmittedIInv
<1> QED
  BY <1>2, <1>3 DEF SetCheck, EnableCheck, Calls

(***************************************************************************)
(* In the driver.                                                           *)
(***************************************************************************)
LEMMA SetWriteIInv ==
  ASSUME IInv, NEW p \in Procs, SetWrite(p)
  PROVE  IInv'
<1>t. TypeOK /\ Agreement
  BY DEF IInv
<1>1. PICK from \in {"put cycles", "put select"}, to \in Places \ (InPoll \cup Driving) : step(p, from, to)
  BY AfterPlaces DEF SetWrite, Calls
<1>2. /\ pc' \in [Procs -> Places]
      /\ pc'[p] = to /\ pc[p] = from
      /\ \A q \in Procs \ {p} : pc'[q] = pc[q]
      /\ handler = "out" /\ inKernel \in {None, p}
  BY <1>t, <1>1, StepMoves
<1>3. UNCHANGED <<fc_busy, fc_wq, woken, handler, runs, ask, got, fds, kills>> /\ inKernel' = None
  BY DEF SetWrite, drvVars, procVars
<1>4. PICK w \in {"CYCLECOUNT", "INPUT_SEL"}, v \in Cycles \cup Pins \cup {ask[p].cycles, ask[p].pin} :
        Edge(w, v, FALSE) /\ Writable(w, v)
  <2>1. ask[p] \in [cycles : 0 .. Width - 1, pin : Pins] /\ Cycles \subseteq 0 .. Width - 1
    BY <1>t, CounterAssumption DEF TypeOK
  <2> QED
    BY <2>1 DEF SetWrite, Writable
<1>5. fc_wq' = { q \in Procs : pc'[q] \in InPoll }
  <2>1. from \notin InPoll /\ to \notin InPoll
    BY DEF InPoll
  <2> QED
    BY <1>t, <1>2, <1>3, <2>1, QueueKept
<1>6. TypeOK'
  BY <1>t, <1>2, <1>3, <1>4, <1>5, EdgeType DEF TypeOK
<1>7. (Resting => Resting') /\ (irq' => Resting') /\ PulseAlone'
  BY <1>t, <1>4, EdgeAgreement
<1>8. \A q \in Procs : pc'[q] \notin Driving
  BY <1>t, <1>2, DrivingIsOne
<1>9. FreeIsResting' /\ ServedResting'
  BY <1>t, <1>2, <1>3, <1>7 DEF Agreement, FreeIsResting, ServedResting
<1>10. EnablingSettled' /\ MarkedIsBusy' /\ PuttingIsFree' /\ AloneInDriver'
  BY <1>8 DEF EnablingSettled, MarkedIsBusy, PuttingIsFree, AloneInDriver, Driving
<1> QED
  BY <1>6, <1>7, <1>9, <1>10 DEF IInv, Agreement

LEMMA EnableMarkIInv ==
  ASSUME IInv, NEW p \in Procs, EnableMark(p)
  PROVE  IInv'
<1>t. TypeOK /\ Agreement
  BY DEF IInv
<1>1. /\ pc' \in [Procs -> Places]
      /\ pc'[p] = "start" /\ pc[p] = "mark"
      /\ \A q \in Procs \ {p} : pc'[q] = pc[q]
      /\ inKernel \in {None, p}
  BY <1>t, StepMoves DEF EnableMark, Places
<1>2. fc_busy' = TRUE /\ UNCHANGED <<hwVars, fc_wq, woken, handler, inKernel, procVars>>
  BY DEF EnableMark
<1>3. fc_wq' = { q \in Procs : pc'[q] \in InPoll }
  BY <1>t, <1>1, <1>2, QueueKept DEF InPoll
<1>4. TypeOK'
  BY <1>t, <1>1, <1>2, <1>3 DEF TypeOK, hwVars, regVars, procVars
<1>5. \A q \in Procs \ {p} : pc'[q] \notin Driving
  BY <1>t, <1>1, DrivingIsOne
<1>6. Resting /\ Settled /\ handler = "out" /\ inKernel = p
  BY <1>t, <1>1 DEF Agreement, EnablingSettled, AloneInDriver
<1>7. (Resting' <=> Resting) /\ (Settled' <=> Settled)
  BY <1>2 DEF Resting, Settled, done, hwVars, regVars
<1>8. FreeIsResting' /\ ServedResting' /\ PulseAlone'
  BY <1>t, <1>2, <1>6, <1>7 DEF Agreement, FreeIsResting, ServedResting, PulseAlone, hwVars, regVars
<1>9. EnablingSettled' /\ MarkedIsBusy' /\ PuttingIsFree' /\ AloneInDriver'
  BY <1>1, <1>2, <1>5, <1>6, <1>7 DEF EnablingSettled, MarkedIsBusy, PuttingIsFree, AloneInDriver, Driving
<1> QED
  BY <1>4, <1>8, <1>9 DEF IInv, Agreement

LEMMA EnableStartIInv ==
  ASSUME IInv, NEW p \in Procs, EnableStart(p)
  PROVE  IInv'
<1>t. TypeOK /\ Agreement
  BY DEF IInv
<1>1. AfterCall(p, "enable") \in Places \ (InPoll \cup Driving)
  BY AfterPlaces DEF Calls
<1>2. /\ pc' \in [Procs -> Places]
      /\ pc'[p] = AfterCall(p, "enable") /\ pc[p] = "start"
      /\ \A q \in Procs \ {p} : pc'[q] = pc[q]
      /\ inKernel \in {None, p}
  BY <1>t, <1>1, StepMoves DEF EnableStart
<1>3. /\ Edge("ENABLE", 1, FALSE) /\ inKernel' = None
      /\ UNCHANGED <<fc_busy, fc_wq, woken, handler, runs, ask, got, fds, kills>>
  BY DEF EnableStart, drvVars, procVars
<1>4. fc_wq' = { q \in Procs : pc'[q] \in InPoll }
  <2>1. "start" \notin InPoll
    BY DEF InPoll
  <2> QED
    BY <1>t, <1>1, <1>2, <1>3, <2>1, QueueKept
<1>5. TypeOK'
  BY <1>t, <1>2, <1>3, <1>4, EdgeType DEF TypeOK, Writable
<1>6. \A q \in Procs : pc'[q] \notin Driving
  BY <1>t, <1>1, <1>2, DrivingIsOne
<1>7. Resting /\ Settled /\ handler = "out" /\ fc_busy
  BY <1>t, <1>2 DEF Agreement, EnablingSettled, MarkedIsBusy
<1>8. ~irq'
  BY <1>3, <1>7 DEF Edge, Registers, Settled, done_rises
<1>9. PulseAlone'
  BY <1>3, <1>7 DEF Edge, Measure, Resting, PulseAlone
<1>10. FreeIsResting' /\ ServedResting'
  BY <1>3, <1>7, <1>8 DEF FreeIsResting, ServedResting
<1>11. EnablingSettled' /\ MarkedIsBusy' /\ PuttingIsFree' /\ AloneInDriver'
  BY <1>6 DEF EnablingSettled, MarkedIsBusy, PuttingIsFree, AloneInDriver, Driving
<1> QED
  BY <1>5, <1>9, <1>10, <1>11 DEF IInv, Agreement

LEMMA GetCountIInv ==
  ASSUME IInv, NEW p \in Procs, GetCount(p)
  PROVE  IInv'
<1>t. TypeOK /\ Agreement
  BY DEF IInv
<1>1. AfterCall(p, "read") \in Places \ (InPoll \cup Driving)
  BY AfterPlaces DEF Calls
<1>2. /\ pc' \in [Procs -> Places]
      /\ pc'[p] = AfterCall(p, "read") /\ pc[p] = "read"
      /\ \A q \in Procs \ {p} : pc'[q] = pc[q]
      /\ inKernel \in {None, p}
  BY <1>t, <1>1, StepMoves DEF GetCount
<1>3. /\ Edge("none", 0, FALSE)
      /\ UNCHANGED <<fc_busy, fc_wq, woken, handler, inKernel, runs, ask, fds, kills>>
  BY DEF GetCount, drvVars
<1>4. got' \in [Procs -> Windows]
  BY <1>t DEF TypeOK, GetCount
<1>5. fc_wq' = { q \in Procs : pc'[q] \in InPoll }
  <2>1. "read" \notin InPoll
    BY DEF InPoll
  <2> QED
    BY <1>t, <1>1, <1>2, <1>3, <2>1, QueueKept
<1>6. TypeOK'
  BY <1>t, <1>2, <1>3, <1>4, <1>5, EdgeType DEF TypeOK, Writable
<1>7. \A q \in Procs : pc'[q] \notin Driving
  BY <1>t, <1>1, <1>2, DrivingIsOne
<1>8. (Resting => Resting') /\ (irq' => Resting') /\ PulseAlone'
  BY <1>t, <1>3, EdgeAgreement
<1>9. FreeIsResting' /\ ServedResting'
  BY <1>t, <1>3, <1>8 DEF Agreement, FreeIsResting, ServedResting
<1>10. EnablingSettled' /\ MarkedIsBusy' /\ PuttingIsFree' /\ AloneInDriver'
  BY <1>7 DEF EnablingSettled, MarkedIsBusy, PuttingIsFree, AloneInDriver, Driving
<1> QED
  BY <1>6, <1>8, <1>9, <1>10 DEF IInv, Agreement

(***************************************************************************)
(* A confrd is killed: it leaves the wait queue and is in no driver.        *)
(***************************************************************************)
LEMMA KillIInv ==
  ASSUME IInv, NEW p \in Procs, Kill(p)
  PROVE  IInv'
<1>t. TypeOK /\ Agreement
  BY DEF IInv
<1>1. /\ inKernel = None /\ kills < MaxKills /\ kills' = kills + 1
      /\ pc' = [pc EXCEPT ![p] = "line"]
      /\ fds' = [fds EXCEPT ![p] = 0]
      /\ fc_wq' = fc_wq \ {p} /\ woken' = woken \ {p}
      /\ UNCHANGED <<hwVars, fc_busy, handler, inKernel, runs, ask, got>>
  BY DEF Kill
<1>2. "line" \in Places /\ "line" \notin InPoll \cup Driving
  BY DEF Places, InPoll, Driving
<1>3. /\ pc' \in [Procs -> Places] /\ pc'[p] = "line"
      /\ \A q \in Procs \ {p} : pc'[q] = pc[q]
  BY <1>t, <1>1, <1>2 DEF TypeOK
<1>4. fc_wq' = { q \in Procs : pc'[q] \in InPoll }
  BY <1>t, <1>1, <1>2, <1>3 DEF TypeOK
<1>5. fds' \in [Procs -> 0 .. MaxFds] /\ kills' \in 0 .. MaxKills
  BY <1>t, <1>1, CounterAssumption DEF TypeOK
<1>6. TypeOK'
  BY <1>t, <1>1, <1>3, <1>4, <1>5 DEF TypeOK, hwVars, regVars
<1>7. Agreement'
  BY <1>t, <1>1, <1>2, <1>3, OutsideDriver
<1> QED
  BY <1>6, <1>7 DEF IInv

(***************************************************************************)
(* Every step preserves the invariant.                                      *)
(***************************************************************************)
LEMMA StepIInv == IInv /\ [Next]_vars => IInv'
<1> SUFFICES ASSUME IInv, [Next]_vars PROVE IInv'
  OBVIOUS
<1>1. CASE Clock
  BY <1>1, ClockIInv
<1>2. CASE Handler
  BY <1>2, HandlerIInv
<1>3. ASSUME NEW p \in Procs, Process(p)
      PROVE  IInv'
  BY <1>3, UserIInv, PollIInv, CheckIInv, SetWriteIInv, EnableMarkIInv, EnableStartIInv, GetCountIInv DEF Process
<1>4. ASSUME NEW p \in Procs, Kill(p)
      PROVE  IInv'
  BY <1>4, KillIInv
<1>5. CASE UNCHANGED vars
  <2>1. (Resting' <=> Resting) /\ (Settled' <=> Settled)
    BY <1>5 DEF vars, hwVars, regVars, Resting, Settled, done
  <2>2. TypeOK'
    BY <1>5 DEF IInv, TypeOK, vars, hwVars, regVars, drvVars, procVars
  <2>3. Agreement'
    BY <1>5, <2>1 DEF IInv, Agreement, FreeIsResting, ServedResting, EnablingSettled, MarkedIsBusy, PuttingIsFree,
      AloneInDriver, PulseAlone, vars, hwVars, regVars, drvVars
  <2> QED
    BY <2>2, <2>3 DEF IInv
<1> QED
  BY <1>1, <1>2, <1>3, <1>4, <1>5 DEF Next

LEMMA Invariance == Spec => []IInv
  BY InitIInv, StepIInv, PTL DEF Spec

-----------------------------------------------------------------------------
(***************************************************************************)
(* The handshake of driver and counter: fcounter_enable's pulse finds the   *)
(* counter idle, fc_busy covers every measurement, and fc_wq holds exactly  *)
(* the processes in poll.                                                   *)
(***************************************************************************)
THEOREM HandshakeHolds == Spec => []Handshake
<1>1. IInv => TypeOK
  BY DEF IInv
<1>2. IInv => StartHits
  BY DEF IInv, Agreement, PulseAlone, StartHits, done
<1>3. IInv => BusyIsKnown
  BY DEF IInv, Agreement, FreeIsResting, Resting, BusyIsKnown
<1>4. IInv => Handshake
  BY <1>1, <1>2, <1>3 DEF Handshake
<1> QED
  BY <1>4, Invariance, PTL

(***************************************************************************)
(* SET_CYCLES and SET_IPSEL never change a measurement under way.           *)
(***************************************************************************)
THEOREM ParametersNeverChange == Spec => ParametersHold
<1>1. ASSUME IInv, [Next]_vars, counting \/ enable
      PROVE  UNCHANGED <<n_cycles, input_sel>>
  <2>1. fc_busy
    BY <1>1 DEF IInv, Agreement, FreeIsResting, Resting
  <2>2. ASSUME NEW p \in Procs, SetWrite(p)
        PROVE  FALSE
    <3>1. pc[p] \in {"put cycles", "put select"}
      BY <2>2 DEF SetWrite, step
    <3> QED
      BY <1>1, <2>1, <3>1 DEF IInv, Agreement, PuttingIsFree
  <2>3. ASSUME NEW w \in {"none", "ENABLE"}, NEW v, NEW r, Edge(w, v, r)
        PROVE  UNCHANGED <<n_cycles, input_sel>>
    BY <2>3 DEF Edge, Registers
  <2>4. CASE Clock
    BY <2>3, <2>4 DEF Clock
  <2>5. CASE Handler
    BY <2>3, <2>5 DEF Handler, Interrupt, HandlerRead, HandlerFree, HandlerWake, hwVars, regVars
  <2>6. ASSUME NEW p \in Procs, EnableStart(p) \/ GetCount(p)
        PROVE  UNCHANGED <<n_cycles, input_sel>>
    BY <2>3, <2>6 DEF EnableStart, GetCount
  <2>7. ASSUME NEW p \in Procs,
               \/ Begin(p) \/ Option(p) \/ OpenFails(p) \/ Submit(p) \/ SetCheck(p) \/ EnableCheck(p)
               \/ EnableMark(p) \/ PollWait(p) \/ PollCheck(p) \/ PollSleep(p) \/ PollAgain(p) \/ Kill(p)
        PROVE  UNCHANGED <<n_cycles, input_sel>>
    BY <2>7 DEF Begin, Option, OpenFails, Submit, SetCheck, EnableCheck, EnableMark,
                PollWait, PollCheck, PollSleep, PollAgain, Kill, hwVars, regVars
  <2>8. CASE UNCHANGED vars
    BY <2>8 DEF vars, hwVars, regVars
  <2> QED
    BY <1>1, <2>2, <2>4, <2>5, <2>6, <2>7, <2>8 DEF Next, Process
<1>2. IInv /\ [Next]_vars => [counting \/ enable => UNCHANGED <<n_cycles, input_sel>>]_vars
  BY <1>1
<1> QED
  BY <1>2, Invariance, PTL DEF Spec, ParametersHold

-----------------------------------------------------------------------------
(***************************************************************************)
(* The inductive invariant behind OwnMeasurement.                           *)
(***************************************************************************)
Window(pin, n) == [Nothing EXCEPT ![pin] = n]

(* The counters of freq_measurement.sv count together, or rest at zero.     *)
CountInv ==
  IF counting THEN edge_count = Window(input_sel, cycle_count)
              ELSE edge_count = Nothing /\ cycle_count = 0

(* Who is about to write a parameter meets no result coming in.             *)
Putting == {"put cycles", "put select"}

PuttingSettled == \A p \in Procs : pc[p] \in Putting => Settled /\ handler = "out"

UncalledAtLine == \A p \in Procs : runs[p] = 0 => pc[p] = "line"

(* How far the measurement of a process is that waits for it: the counter   *)
(* is on its way to the end of the window, has delivered its result, or was *)
(* set to zero cycles.                                                      *)
Measuring ==
  /\ n_cycles # 0 /\ fc_busy /\ (enable \/ counting)
  /\ ~done_d1 /\ ~irq /\ handler = "out"

Measured(p) ==
  n_cycles # 0 /\ Resting /\ edgecount = Window(ask[p].pin, ask[p].cycles)

Stuck ==
  /\ n_cycles = 0 /\ fc_busy /\ ~counting /\ cycle_count = 0
  /\ done_d1 /\ ~irq /\ handler = "out"

Waiting == {"wait"} \cup InPoll

Own(p) ==
  /\ pc[p] \in {"select", "put select", "enable", "mark", "start", "read"} \cup Waiting =>
       n_cycles = ask[p].cycles
  /\ pc[p] \in {"enable", "mark", "start", "read"} \cup Waiting => input_sel = ask[p].pin
  /\ pc[p] \in Waiting => Measuring \/ Measured(p) \/ Stuck
  /\ pc[p] = "read" => Measured(p) /\ ~fc_busy
  /\ pc[p] = "submit" => got[p] = Window(ask[p].pin, ask[p].cycles)

OwnInv == \A p \in Confrds : Alone(p) => Own(p)

SubmitInv == CountInv /\ PuttingSettled /\ UncalledAtLine /\ OwnInv

LEMMA WindowFacts ==
  ASSUME NEW pin \in Pins, NEW n \in 0 .. Width - 1
  PROVE  /\ Window(pin, n) \in Windows /\ Window(pin, 0) = Nothing
         /\ Window(pin, n)[pin] = n
         /\ \A m : [Window(pin, n) EXCEPT ![pin] = m] = Window(pin, m)
<1>1. Nothing = [q \in Pins |-> 0] /\ Nothing \in Windows
  BY NothingType DEF Nothing
<1>2. Window(pin, n) = [q \in Pins |-> IF q = pin THEN n ELSE 0]
  BY <1>1 DEF Window
<1>3. Window(pin, 0) = Nothing
  BY <1>1 DEF Window
<1>4. Window(pin, n) \in Windows
  BY <1>2, CounterAssumption DEF Windows
<1>5. \A m : [Window(pin, n) EXCEPT ![pin] = m] = Window(pin, m)
  BY <1>1 DEF Window
<1> QED
  BY <1>2, <1>3, <1>4, <1>5

LEMMA EdgeCounts ==
  ASSUME TypeOK, CountInv, NEW w, NEW v, NEW r \in BOOLEAN, Edge(w, v, r), Writable(w, v),
         w \in {"none", "ENABLE"} \/ (~counting /\ ~enable)
  PROVE  CountInv'
<1>1. /\ counting' = (~done /\ (counting \/ (enable /\ ~enable_d1)))
      /\ edge_count' = NextEdgeCount
      /\ cycle_count' = IF done THEN 0
                        ELSE IF counting THEN (cycle_count + 1) % Width ELSE cycle_count
  BY DEF Edge, Measure
<1>2. input_sel \in Pins /\ input_sel' \in Pins /\ cycle_count \in 0 .. Width - 1
  BY EdgeType DEF TypeOK
<1>3. CASE done
  BY <1>1, <1>3 DEF CountInv, NextEdgeCount
<1>4. CASE ~done /\ ~counting
  <2>1. edge_count' = Nothing /\ cycle_count' = 0
    BY <1>1, <1>4 DEF CountInv, NextEdgeCount
  <2>2. 0 \in 0 .. Width - 1
    BY CounterAssumption
  <2>3. Window(input_sel', 0) = Nothing
    BY <1>2, <2>2, WindowFacts
  <2> QED
    BY <2>1, <2>3 DEF CountInv
<1>5. CASE ~done /\ counting
  <2>1. input_sel' = input_sel
    BY <1>5 DEF Edge, Registers
  <2>2. edge_count = Window(input_sel, cycle_count)
    BY <1>5 DEF CountInv
  <2>3. edge_count' = [edge_count EXCEPT ![input_sel] = (edge_count[input_sel] + 1) % Width]
    BY <1>1, <1>5 DEF NextEdgeCount
  <2>4. edge_count[input_sel] = cycle_count
    BY <1>2, <2>2, WindowFacts
  <2>5. edge_count' = Window(input_sel, (cycle_count + 1) % Width)
    <3>1. edge_count'
            = [Window(input_sel, cycle_count) EXCEPT ![input_sel] = (cycle_count + 1) % Width]
      BY <2>2, <2>3, <2>4
    <3>2. \A m : [Window(input_sel, cycle_count) EXCEPT ![input_sel] = m] = Window(input_sel, m)
      BY <1>2, WindowFacts
    <3> QED
      BY <3>1, <3>2
  <2>6. counting' /\ cycle_count' = (cycle_count + 1) % Width
    BY <1>1, <1>5
  <2> QED
    BY <2>1, <2>5, <2>6 DEF CountInv
<1> QED
  BY <1>3, <1>4, <1>5

(* Every edge is one of these.                                              *)
LEMMA Edges ==
  ASSUME IInv, [Next]_vars
  PROVE  \/ UNCHANGED hwVars
         \/ \E r \in BOOLEAN : Edge("none", 0, r)
         \/ Edge("ENABLE", 1, FALSE) /\ \E p \in Procs : EnableStart(p)
         \/ \E p \in Procs : SetWrite(p)
<1>1. CASE Clock \/ Handler
  BY <1>1 DEF Clock, Handler, Interrupt, HandlerRead, HandlerFree, HandlerWake
<1>2. ASSUME NEW p \in Procs, Process(p) \/ Kill(p)
      PROVE  \/ UNCHANGED hwVars
             \/ Edge("none", 0, FALSE)
             \/ Edge("ENABLE", 1, FALSE) /\ EnableStart(p)
             \/ SetWrite(p)
  BY <1>2 DEF Process, Begin, Option, OpenFails, SetCheck, EnableCheck, EnableMark, EnableStart,
              PollWait, PollCheck, PollSleep, PollAgain, GetCount, Submit, Kill
<1>3. CASE UNCHANGED vars
  BY <1>3 DEF vars
<1> QED
  BY <1>1, <1>2, <1>3 DEF Next

LEMMA WriteIsWritable ==
  ASSUME TypeOK, NEW p \in Procs, SetWrite(p)
  PROVE  /\ pc[p] \in Putting
         /\ \E w \in {"CYCLECOUNT", "INPUT_SEL"} :
              \E v : Edge(w, v, FALSE) /\ Writable(w, v)
<1>1. ask[p] \in [cycles : 0 .. Width - 1, pin : Pins] /\ Cycles \subseteq 0 .. Width - 1
  BY CounterAssumption DEF TypeOK
<1> QED
  BY <1>1 DEF SetWrite, Writable, step, Putting

LEMMA StepCountInv ==
  ASSUME IInv, CountInv, [Next]_vars
  PROVE  CountInv'
<1>t. TypeOK
  BY DEF IInv
<1>1. CASE UNCHANGED hwVars
  BY <1>1 DEF CountInv, hwVars, regVars
<1>2. ASSUME NEW r \in BOOLEAN, Edge("none", 0, r)
      PROVE  CountInv'
  BY <1>t, <1>2, EdgeCounts DEF Writable
<1>3. CASE Edge("ENABLE", 1, FALSE)
  BY <1>t, <1>3, EdgeCounts DEF Writable
<1>4. ASSUME NEW p \in Procs, SetWrite(p)
      PROVE  CountInv'
  <2>1. ~counting /\ ~enable
    BY <1>t, <1>4, WriteIsWritable
       DEF IInv, Agreement, PuttingIsFree, FreeIsResting, Resting, Putting
  <2> QED
    BY <1>t, <1>4, <2>1, WriteIsWritable, EdgeCounts
<1> QED
  BY <1>1, <1>2, <1>3, <1>4, Edges

(* Where the steps of a process lead it.                                    *)
LEMMA ProcessMoves ==
  ASSUME IInv, NEW p \in Procs, Process(p) \/ Kill(p)
  PROVE  /\ handler = "out" /\ handler' = handler /\ inKernel \in {None, p}
         /\ \A q \in Procs \ {p} : pc'[q] = pc[q] /\ ask'[q] = ask[q] /\ got'[q] = got[q]
                                   /\ runs'[q] = runs[q]
         /\ runs[p] <= runs'[p]
         /\ pc[p] = "line" /\ ~(Begin(p) \/ Option(p)) => Kill(p)
         /\ Begin(p) \/ Option(p) => runs'[p] > 0
         /\ Kill(p) => pc'[p] = "line" /\ inKernel = None
<1>t. TypeOK /\ runs \in [Procs -> 0 .. MaxRuns] /\ pc \in [Procs -> Places] /\ MaxRuns \in Nat
  BY CounterAssumption DEF IInv, TypeOK
<1>1. \A q \in Procs : runs[q] \in Nat
  BY <1>t
<1>2. ASSUME Begin(p) \/ Option(p)
      PROVE  /\ handler = "out" /\ handler' = handler /\ inKernel \in {None, p}
             /\ \A q \in Procs \ {p} : pc'[q] = pc[q] /\ ask'[q] = ask[q] /\ got'[q] = got[q]
                                       /\ runs'[q] = runs[q]
             /\ runs'[p] = runs[p] + 1
  <2>1. UNCHANGED <<handler, got>> /\ runs' = [runs EXCEPT ![p] = @ + 1]
    BY <1>2 DEF Begin, Option
  <2>2. \E to : step(p, "line", to)
    BY <1>2 DEF Begin, Option
  <2>3. \A q \in Procs \ {p} : ask'[q] = ask[q]
    BY <1>t, <1>2 DEF Begin, Option, TypeOK
  <2> QED
    BY <1>t, <2>1, <2>2, <2>3 DEF step
<1>3. ASSUME Kill(p)
      PROVE  /\ handler = "out" /\ handler' = handler /\ inKernel = None /\ pc'[p] = "line"
             /\ \A q \in Procs \ {p} : pc'[q] = pc[q]
             /\ UNCHANGED <<ask, got, runs>>
  BY <1>t, <1>3 DEF Kill
<1>4. ASSUME GetCount(p) \/ Submit(p)
      PROVE  /\ handler = "out" /\ handler' = handler /\ inKernel \in {None, p}
             /\ \A q \in Procs \ {p} : pc'[q] = pc[q] /\ got'[q] = got[q]
             /\ UNCHANGED <<ask, runs>> /\ pc[p] # "line"
  <2>1. UNCHANGED <<handler, ask, runs>> /\ \A q \in Procs \ {p} : got'[q] = got[q]
    BY <1>t, <1>4 DEF GetCount, Submit, TypeOK
  <2>2. \E from \in {"read", "submit"} : \E to : step(p, from, to)
    BY <1>4 DEF GetCount, Submit
  <2> QED
    BY <1>t, <2>1, <2>2 DEF step
<1>5. ASSUME \/ OpenFails(p) \/ SetCheck(p) \/ SetWrite(p)
             \/ EnableCheck(p) \/ EnableMark(p) \/ EnableStart(p)
             \/ PollWait(p) \/ PollCheck(p) \/ PollSleep(p) \/ PollAgain(p)
      PROVE  /\ handler = "out" /\ inKernel \in {None, p} /\ pc[p] # "line"
             /\ \A q \in Procs \ {p} : pc'[q] = pc[q]
             /\ UNCHANGED <<handler, runs, ask, got>>
  <2>1. UNCHANGED <<handler, runs, ask, got>>
    BY <1>5 DEF OpenFails, SetCheck, SetWrite, EnableCheck, EnableMark, EnableStart,
                PollWait, PollCheck, PollSleep, PollAgain, procVars
  <2>2. PICK from \in Places \ {"line"} : \E to : step(p, from, to)
    <3>1. CASE OpenFails(p)
      BY <3>1 DEF OpenFails, Places, InPoll
    <3>2. CASE SetCheck(p) \/ EnableCheck(p)
      BY <3>2 DEF SetCheck, EnableCheck, Refused, Admitted, Places, InPoll
    <3>3. CASE SetWrite(p) \/ EnableMark(p) \/ EnableStart(p)
      BY <3>3 DEF SetWrite, EnableMark, EnableStart, Places, InPoll
    <3>4. CASE PollWait(p) \/ PollCheck(p) \/ PollSleep(p) \/ PollAgain(p)
      BY <3>4 DEF PollWait, PollCheck, PollSleep, PollAgain, Places, InPoll
    <3> QED
      BY <1>5, <3>1, <3>2, <3>3, <3>4
  <2> QED
    BY <1>t, <2>1, <2>2 DEF step
<1>6. Begin(p) \/ Option(p) => runs'[p] > 0
  BY <1>1, <1>2
<1>7. /\ handler = "out" /\ handler' = handler /\ inKernel \in {None, p}
      /\ \A q \in Procs \ {p} : pc'[q] = pc[q] /\ ask'[q] = ask[q] /\ got'[q] = got[q]
                                /\ runs'[q] = runs[q]
      /\ runs[p] <= runs'[p]
  BY <1>1, <1>2, <1>3, <1>4, <1>5 DEF Process
<1>8. pc[p] = "line" /\ ~(Begin(p) \/ Option(p)) => Kill(p)
  BY <1>4, <1>5 DEF Process
<1> QED
  BY <1>3, <1>6, <1>7, <1>8

LEMMA StepUncalled ==
  ASSUME IInv, UncalledAtLine, [Next]_vars
  PROVE  UncalledAtLine'
<1> SUFFICES ASSUME NEW q \in Procs, runs'[q] = 0 PROVE pc'[q] = "line"
  BY DEF UncalledAtLine
<1>t. runs \in [Procs -> 0 .. MaxRuns] /\ MaxRuns \in Nat
  BY CounterAssumption DEF IInv, TypeOK
<1>1. ASSUME NEW p \in Procs, Process(p) \/ Kill(p)
      PROVE  pc'[q] = "line"
  <2>1. CASE q = p
    <3>1. runs[p] = 0 /\ ~(Begin(p) \/ Option(p))
      BY <1>t, <1>1, <2>1, ProcessMoves
    <3>2. pc[p] = "line"
      BY <3>1 DEF UncalledAtLine
    <3> QED
      BY <1>1, <2>1, <3>1, <3>2, ProcessMoves
  <2>2. CASE q # p
    BY <1>1, <2>2, ProcessMoves DEF UncalledAtLine
  <2> QED
    BY <2>1, <2>2
<1>2. CASE Clock \/ Handler \/ UNCHANGED vars
  <2>1. UNCHANGED <<pc, runs>>
    BY <1>2 DEF Clock, Handler, Interrupt, HandlerRead, HandlerFree, HandlerWake, vars, procVars
  <2> QED
    BY <2>1 DEF UncalledAtLine
<1> QED
  BY <1>1, <1>2 DEF Next

LEMMA StepPutting ==
  ASSUME IInv, PuttingSettled, [Next]_vars
  PROVE  PuttingSettled'
<1> SUFFICES ASSUME NEW p \in Procs, pc'[p] \in Putting
             PROVE  Settled' /\ handler' = "out"
  BY DEF PuttingSettled
<1>t. TypeOK /\ Agreement
  BY DEF IInv
<1>1. CASE Clock
  <2>1. pc[p] \in Putting /\ handler' = handler /\ Edge("none", 0, FALSE)
    BY <1>1 DEF Clock
  <2>2. Resting /\ Settled /\ handler = "out"
    BY <1>t, <2>1 DEF PuttingSettled, Agreement, PuttingIsFree, FreeIsResting, Putting
  <2> QED
    BY <1>t, <2>1, <2>2, EdgeAgreement
<1>2. CASE Handler
  <2>1. pc[p] \in Putting
    BY <1>2 DEF Handler, Interrupt, HandlerRead, HandlerFree, HandlerWake
  <2>2. handler = "out" /\ ~irq
    BY <2>1 DEF PuttingSettled, Settled
  <2> QED
    BY <1>2, <2>2 DEF Handler, Interrupt, HandlerRead, HandlerFree, HandlerWake
<1>3. ASSUME NEW q \in Procs \ {p}, Process(q) \/ Kill(q)
      PROVE  FALSE
  <2>1. pc[p] \in Putting /\ inKernel \in {None, q}
    BY <1>3, ProcessMoves
  <2>2. inKernel = p
    BY <1>t, <2>1 DEF Agreement, AloneInDriver, Putting
  <2> QED
    BY <2>1, <2>2, NoneIsNobody
<1>4. CASE Process(p)
  <2>0. Driving = {"mark", "start"} \cup Putting
    BY DEF Driving, Putting
  <2>1. CASE SetCheck(p)
    BY <1>4, <2>1, ProcessMoves DEF SetCheck, Enters, Settled, done, hwVars, regVars
  <2>2. CASE ~SetCheck(p)
    <3>1. PICK to \in Places \ Putting : pc'[p] = to
      <4>1. \A op \in Calls : /\ AfterCall(p, op) \in Places \ Putting
                              /\ AfterError(p, op) \in Places \ Putting
        BY <2>0, AfterPlaces
      <4>2. \E to \in Places \ Putting : \E from : step(p, from, to)
        BY <1>4, <2>2, <4>1 DEF Process, Begin, Option, OpenFails, SetWrite, EnableCheck,
           EnableMark, EnableStart, PollWait, PollCheck, PollSleep, PollAgain, GetCount, Submit,
           Refused, Admitted, Calls, Places, InPoll, Putting
      <4> QED
        BY <1>t, <4>2, StepMoves
    <3> QED
      BY <3>1
  <2> QED
    BY <2>1, <2>2
<1>5. CASE Kill(p)
  BY <1>5, ProcessMoves DEF Putting
<1>6. CASE UNCHANGED vars
  BY <1>6 DEF PuttingSettled, Settled, done, vars, hwVars, regVars
<1> QED
  BY <1>1, <1>2, <1>3, <1>4, <1>5, <1>6 DEF Next

(* A tick of the clock while a process waits for its measurement.           *)
LEMMA EdgeMeasures ==
  ASSUME IInv, CountInv, NEW p \in Procs, NEW r \in BOOLEAN, Edge("none", 0, r),
         UNCHANGED <<ask, fc_busy>>, n_cycles = ask[p].cycles, input_sel = ask[p].pin
  PROVE  /\ UNCHANGED <<n_cycles, input_sel>>
         /\ Measuring /\ handler' = handler => Measuring' \/ Measured(p)'
         /\ Measured(p) => Measured(p)'
         /\ Stuck /\ handler' = handler => Stuck'
<1>t. TypeOK /\ Agreement
  BY DEF IInv
<1>0. UNCHANGED <<n_cycles, input_sel>> /\ enable' = FALSE /\ done_d1' = done
  BY DEF Edge, Registers
<1>1. /\ counting' = (~done /\ (counting \/ (enable /\ ~enable_d1)))
      /\ cycle_count' = IF done THEN 0
                        ELSE IF counting THEN (cycle_count + 1) % Width ELSE cycle_count
      /\ edgecount' = IF done_rises THEN edge_count ELSE edgecount
      /\ irq' = (done_rises \/ (irq /\ ~r))
  BY DEF Edge, Measure, Registers
<1>2. ASSUME Measuring, handler' = handler
      PROVE  Measuring' \/ Measured(p)'
  <2>1. CASE done
    <3>1. counting
      BY <1>t, <1>2, <2>1 DEF Measuring, done, Agreement, PulseAlone
    <3>2. edge_count = Window(input_sel, n_cycles)
      BY <2>1, <3>1 DEF CountInv, done
    <3>3. edgecount' = Window(ask'[p].pin, ask'[p].cycles)
      BY <1>1, <1>2, <2>1, <3>2 DEF Measuring, done_rises
    <3>4. Resting' /\ n_cycles' # 0
      BY <1>0, <1>1, <1>2, <2>1 DEF Resting, Measuring
    <3> QED
      BY <3>3, <3>4 DEF Measured
  <2>2. CASE ~done
    <3>1. counting'
      BY <1>t, <1>1, <1>2, <2>2 DEF Measuring, Agreement, PulseAlone
    <3>2. ~irq' /\ ~done_d1'
      BY <1>0, <1>1, <1>2, <2>2 DEF Measuring, done_rises
    <3> QED
      BY <1>0, <1>2, <3>1, <3>2 DEF Measuring
  <2> QED
    BY <2>1, <2>2
<1>3. ASSUME Measured(p)
      PROVE  Measured(p)'
  <2>1. ~done /\ Resting
    BY <1>3 DEF Measured, Resting, done
  <2>2. edgecount' = edgecount /\ Resting'
    BY <1>0, <1>1, <2>1 DEF done_rises, Resting
  <2> QED
    BY <1>0, <1>3, <2>2 DEF Measured
<1>4. ASSUME Stuck, handler' = handler
      PROVE  Stuck'
  <2>1. done /\ ~done_rises
    BY <1>4 DEF Stuck, done, done_rises
  <2> QED
    BY <1>0, <1>1, <1>4, <2>1 DEF Stuck
<1> QED
  BY <1>0, <1>2, <1>3, <1>4

(* Steps that neither touch the counter nor the process.                    *)
LEMMA OwnKept ==
  ASSUME NEW p \in Procs, Own(p), UNCHANGED <<hwVars, fc_busy>>,
         pc'[p] = pc[p], ask'[p] = ask[p], got'[p] = got[p],
         handler' = handler \/ Measured(p) \/ pc[p] \notin Waiting
  PROVE  Own(p)'
<1>1. UNCHANGED <<n_cycles, input_sel, edgecount, enable, counting, done_d1, irq, cycle_count>>
  BY DEF hwVars, regVars
<1>2. Measured(p)' <=> Measured(p)
  BY <1>1 DEF Measured, Resting
<1>3. Measuring /\ handler' = handler => Measuring'
  BY <1>1 DEF Measuring
<1>4. Stuck /\ handler' = handler => Stuck'
  BY <1>1 DEF Stuck
<1> QED
  BY <1>1, <1>2, <1>3, <1>4 DEF Own

LEMMA ClockOwn ==
  ASSUME IInv, CountInv, NEW p \in Confrds, Own(p), Clock \/ Handler
  PROVE  Own(p)'
<1>0. p \in Procs /\ UNCHANGED <<pc, ask, got>>
  BY DEF Procs, Clock, Handler, Interrupt, HandlerRead, HandlerFree, HandlerWake, procVars
<1>1. CASE Clock \/ HandlerRead
  <2>1. PICK r \in BOOLEAN : Edge("none", 0, r)
    BY <1>1 DEF Clock, HandlerRead
  <2>2. fc_busy' = fc_busy /\ (handler' = handler \/ handler = "read")
    BY <1>1 DEF Clock, HandlerRead, drvVars
  <2>3. UNCHANGED <<n_cycles, input_sel>>
    BY <2>1 DEF Edge, Registers
  <2>4. CASE pc[p] \in {"read"} \cup Waiting
    <3>1. n_cycles = ask[p].cycles /\ input_sel = ask[p].pin
      BY <2>4 DEF Own
    <3>2. /\ Measuring /\ handler' = handler => Measuring' \/ Measured(p)'
          /\ Measured(p) => Measured(p)'
          /\ Stuck /\ handler' = handler => Stuck'
      BY <1>0, <2>1, <2>2, <3>1, EdgeMeasures
    <3>3. Measuring \/ Stuck => handler = "out"
      BY DEF Measuring, Stuck
    <3> QED
      BY <1>0, <2>2, <2>3, <3>2, <3>3 DEF Own
  <2>5. CASE pc[p] \notin {"read"} \cup Waiting
    BY <1>0, <2>3, <2>5 DEF Own
  <2> QED
    BY <2>4, <2>5
<1>2. CASE Interrupt \/ HandlerWake
  <2>1. UNCHANGED <<hwVars, fc_busy>> /\ ~Measuring /\ ~Stuck
    BY <1>2 DEF Interrupt, HandlerWake, drvVars, Measuring, Stuck
  <2>2. Measured(p) \/ pc[p] \notin Waiting
    BY <2>1 DEF Own
  <2> QED
    BY <1>0, <2>1, <2>2, OwnKept
<1>3. CASE HandlerFree
  <2>1. UNCHANGED hwVars /\ fc_busy' = FALSE /\ ~Measuring /\ ~Stuck
    BY <1>3 DEF HandlerFree, Measuring, Stuck
  <2>2. UNCHANGED <<n_cycles, input_sel, edgecount, enable, counting, cycle_count>>
    BY <2>1 DEF hwVars, regVars
  <2>3. Measured(p)' <=> Measured(p)
    BY <1>0, <2>2 DEF Measured, Resting
  <2> QED
    BY <1>0, <2>1, <2>2, <2>3 DEF Own
<1> QED
  BY <1>1, <1>2, <1>3 DEF Handler

(* The calls of confrd itself.                                              *)
LEMMA ProcessOwn ==
  ASSUME IInv, CountInv, PuttingSettled, NEW p \in Confrds, Own(p), Process(p) \/ Kill(p)
  PROVE  Own(p)'
<1>0. /\ p \in Procs /\ p \notin Tools /\ TypeOK /\ Agreement /\ pc \in [Procs -> Places]
      /\ handler = "out" /\ handler' = "out"
  BY CounterAssumption, ProcessMoves DEF Procs, IInv, TypeOK
<1>m. ASSUME NEW from, NEW to, step(p, from, to)
      PROVE  pc[p] = from /\ pc'[p] = to
  BY <1>0, <1>m DEF step
<1>1. ASSUME pc'[p] \in {"line", "cycles", "put cycles"}
      PROVE  Own(p)'
  BY <1>1 DEF Own, Waiting, InPoll
<1>2. CASE Begin(p) \/ Option(p) \/ OpenFails(p) \/ Submit(p) \/ Kill(p)
  <2>1. pc'[p] \in {"line", "cycles", "put cycles"}
    BY <1>0, <1>2, <1>m, ProcessMoves DEF Begin, Option, OpenFails, Submit, AfterError
  <2> QED
    BY <1>1, <2>1
<1>3. CASE SetCheck(p) \/ EnableCheck(p)
  <2>1. UNCHANGED <<hwVars, drvVars, ask, got>>
    BY <1>3 DEF SetCheck, EnableCheck
  <2>2. \/ pc'[p] \in {"line", "put cycles"}
        \/ pc[p] = "select" /\ pc'[p] = "put select"
        \/ pc[p] = "enable" /\ pc'[p] = "mark"
    BY <1>0, <1>3, <1>m DEF SetCheck, EnableCheck, Refused, Admitted, AfterError
  <2> QED
    BY <1>1, <2>1, <2>2 DEF Own, Waiting, InPoll, hwVars, regVars
<1>4. CASE SetWrite(p)
  <2>1. UNCHANGED <<ask, got>>
    BY <1>4 DEF SetWrite, procVars
  <2>2. pc[p] \in Putting
    BY <1>0, <1>4, WriteIsWritable
  <2>3. ~done_rises
    BY <1>0, <2>2 DEF PuttingSettled, Settled, done_rises
  <2>4. \/ pc[p] = "put cycles" /\ pc'[p] = "select" /\ Edge("CYCLECOUNT", ask[p].cycles, FALSE)
        \/ pc[p] = "put select" /\ pc'[p] = "enable" /\ Edge("INPUT_SEL", ask[p].pin, FALSE)
    BY <1>0, <1>4, <1>m DEF SetWrite, AfterCall
  <2>5. CASE pc[p] = "put cycles"
    BY <2>1, <2>3, <2>4, <2>5 DEF Edge, Registers, Own, Waiting, InPoll
  <2>6. CASE pc[p] = "put select"
    <3>1. n_cycles = ask[p].cycles
      BY <2>6 DEF Own
    <3> QED
      BY <2>1, <2>3, <2>4, <2>6, <3>1 DEF Edge, Registers, Own, Waiting, InPoll
  <2> QED
    BY <2>4, <2>5, <2>6
<1>5. CASE EnableMark(p)
  <2>1. pc[p] = "mark" /\ pc'[p] = "start" /\ UNCHANGED <<n_cycles, input_sel, ask, got>>
    BY <1>0, <1>5, <1>m DEF EnableMark, procVars, hwVars, regVars
  <2> QED
    BY <2>1 DEF Own, Waiting, InPoll
<1>6. CASE EnableStart(p)
  <2>1. /\ pc[p] = "start" /\ pc'[p] = "wait" /\ UNCHANGED <<ask, got, fc_busy>>
        /\ Edge("ENABLE", 1, FALSE)
    BY <1>0, <1>6, <1>m DEF EnableStart, procVars, drvVars, AfterCall
  <2>2. Resting /\ Settled /\ fc_busy
    BY <1>0, <2>1 DEF Agreement, EnablingSettled, MarkedIsBusy
  <2>3. n_cycles = ask[p].cycles /\ input_sel = ask[p].pin
    BY <2>1 DEF Own, Waiting
  <2>4. ~done_rises
    BY <2>2 DEF Settled, done_rises
  <2>5. /\ UNCHANGED <<n_cycles, input_sel>> /\ enable' /\ done_d1' = done /\ ~irq'
        /\ ~counting' /\ cycle_count' = 0
    BY <2>1, <2>2, <2>4 DEF Edge, Registers, Measure, Settled, Resting
  <2>6. done <=> n_cycles = 0
    BY <2>2 DEF done, Resting
  <2>7. Measuring' \/ Stuck'
    BY <1>0, <2>1, <2>2, <2>5, <2>6 DEF Measuring, Stuck
  <2> QED
    BY <2>1, <2>3, <2>5, <2>7 DEF Own
<1>7. CASE PollWait(p) \/ PollCheck(p) \/ PollSleep(p) \/ PollAgain(p)
  <2>1. UNCHANGED <<hwVars, fc_busy, ask, got>>
    BY <1>7 DEF PollWait, PollCheck, PollSleep, PollAgain, procVars, drvVars
  <2>2. /\ pc[p] \in Waiting
        /\ pc'[p] \in Waiting \/ (pc'[p] = "read" /\ ~fc_busy)
    BY <1>0, <1>7, <1>m DEF PollWait, PollCheck, PollSleep, PollAgain, AfterCall, Waiting, InPoll
  <2>3. /\ n_cycles = ask[p].cycles /\ input_sel = ask[p].pin
        /\ Measuring \/ Measured(p) \/ Stuck
    BY <2>2 DEF Own
  <2>4. /\ Measuring' <=> Measuring
        /\ Stuck' <=> Stuck
        /\ Measured(p)' <=> Measured(p)
        /\ UNCHANGED <<n_cycles, input_sel>>
    BY <1>0, <2>1 DEF Measuring, Measured, Stuck, Resting, hwVars, regVars
  <2>5. ~fc_busy => ~Measuring /\ ~Stuck
    BY DEF Measuring, Stuck
  <2> QED
    BY <2>1, <2>2, <2>3, <2>4, <2>5 DEF Own, Waiting, InPoll
<1>8. CASE GetCount(p)
  <2>1. /\ pc[p] = "read" /\ pc'[p] = "submit" /\ UNCHANGED ask
        /\ got' = [got EXCEPT ![p] = edgecount]
    BY <1>0, <1>8, <1>m DEF GetCount, AfterCall
  <2>2. edgecount = Window(ask[p].pin, ask[p].cycles)
    BY <2>1 DEF Own, Measured
  <2>3. got'[p] = edgecount
    BY <1>0, <2>1 DEF TypeOK
  <2> QED
    BY <2>1, <2>2, <2>3 DEF Own, Waiting, InPoll
<1> QED
  BY <1>2, <1>3, <1>4, <1>5, <1>6, <1>7, <1>8 DEF Process

LEMMA StepOwn ==
  ASSUME IInv, SubmitInv, [Next]_vars
  PROVE  OwnInv'
<1> SUFFICES ASSUME NEW p \in Confrds, Alone(p)' PROVE Own(p)'
  BY DEF OwnInv
<1>0. p \in Procs /\ CountInv /\ PuttingSettled /\ UncalledAtLine
  BY DEF SubmitInv, Procs
<1>1. \A q \in Procs \ {p} : runs[q] = 0
  <2> SUFFICES ASSUME NEW q \in Procs \ {p} PROVE runs[q] = 0
    OBVIOUS
  <2>1. runs'[q] = 0 /\ runs[q] \in Nat
    BY CounterAssumption DEF Alone, IInv, TypeOK
  <2>2. runs[q] <= runs'[q]
    <3>1. ASSUME NEW x \in Procs, Process(x) \/ Kill(x)
          PROVE  runs[q] <= runs'[q]
      <4>1. CASE x = q
        BY <3>1, <4>1, ProcessMoves
      <4>2. CASE x # q
        BY <2>1, <3>1, <4>2, ProcessMoves
      <4> QED
        BY <4>1, <4>2
    <3>2. CASE Clock \/ Handler \/ UNCHANGED vars
      <4>1. runs' = runs
        BY <3>2 DEF Clock, Handler, Interrupt, HandlerRead, HandlerFree, HandlerWake, vars,
                    procVars
      <4> QED
        BY <2>1, <4>1
    <3> QED
      BY <3>1, <3>2 DEF Next
  <2> QED
    BY <2>1, <2>2
<1>2. Own(p)
  BY <1>1 DEF SubmitInv, OwnInv, Alone
<1>3. CASE Clock \/ Handler
  BY <1>0, <1>2, <1>3, ClockOwn
<1>4. CASE Process(p) \/ Kill(p)
  BY <1>0, <1>2, <1>4, ProcessOwn
<1>5. ASSUME NEW q \in Procs \ {p}, Process(q) \/ Kill(q)
      PROVE  Own(p)'
  <2>1. pc[q] = "line"
    BY <1>0, <1>1 DEF UncalledAtLine
  <2>2. ~(Begin(q) \/ Option(q))
    BY <1>5, ProcessMoves DEF Alone
  <2>3. Kill(q)
    BY <1>5, <2>1, <2>2, ProcessMoves
  <2>4. UNCHANGED <<hwVars, fc_busy, handler>>
    BY <2>3 DEF Kill
  <2>5. pc'[p] = pc[p] /\ ask'[p] = ask[p] /\ got'[p] = got[p]
    BY <1>0, <1>5, ProcessMoves
  <2> QED
    BY <1>0, <1>2, <2>4, <2>5, OwnKept
<1>6. CASE UNCHANGED vars
  BY <1>0, <1>2, <1>6, OwnKept DEF vars, drvVars, procVars
<1> QED
  BY <1>3, <1>4, <1>5, <1>6 DEF Next

(***************************************************************************)
(* As long as no other process has ever opened the counter, what confrd     *)
(* submits for a .measure line is its own measurement (parse_line_measure): *)
(* the edges of the pin of the line over as many cycles as it asks for,     *)
(* also when an instance of it was killed in the middle of a measurement    *)
(* before.                                                                  *)
(***************************************************************************)
THEOREM SubmitsOwnMeasurement == Spec => []OwnMeasurement
<1>1. Init => SubmitInv
  <2> SUFFICES ASSUME Init PROVE SubmitInv
    OBVIOUS
  <2>1. CountInv
    BY DEF Init, CountInv
  <2>2. \A p \in Procs : pc[p] = "line"
    BY DEF Init
  <2> QED
    BY <2>1, <2>2 DEF SubmitInv, PuttingSettled, Putting, UncalledAtLine, OwnInv, Own, Waiting,
                      InPoll, Procs
<1>2. IInv /\ SubmitInv /\ [Next]_vars => SubmitInv'
  BY StepCountInv, StepPutting, StepUncalled, StepOwn DEF SubmitInv
<1>3. SubmitInv => OwnMeasurement
  BY DEF SubmitInv, OwnInv, Own, OwnMeasurement, Window
<1> QED
  BY <1>1, <1>2, <1>3, Invariance, PTL DEF Spec
=============================================================================
