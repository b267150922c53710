---------------------------- MODULE FreqCounter ----------------------------
(***************************************************************************)
(* The frequency counter, from a .measure line down to the counter and      *)
(* back: parse_line_measure of confrd and the command line tool fcounter,   *)
(* both through fcounter_if.c; the driver fcounter_dev.c with its interrupt *)
(* handler; the registers of fc_control.sv and the counters of              *)
(* freq_measurement.sv.                                                     *)
(*                                                                          *)
(* The input signal is abstracted to which pin it comes from: instead of    *)
(* edges, edge_count has for each pin the cycles in which its edges were    *)
(* counted.  CPU, kernel and clock are as in module TestRunner, except that *)
(* a system call is only entered when the counter has settled and no        *)
(* interrupt is pending (Settled): the call itself takes far longer.        *)
(***************************************************************************)
EXTENDS Integers, FiniteSets

CONSTANTS
  Confrds, Tools,   \* processes of confrd, command lines with the tool fcounter
  Pins,             \* inputs of the multiplexer
  Width,            \* values of a register (2^32 in the hardware)
  Cycles,           \* what measurements are asked for (bound of the model)
  MaxRuns,          \* calls of the tool, measurements of confrd (bound of the model)
  MaxFds,           \* files a process may have open
  MaxKills,         \* processes killed (bound of the model)
  None              \* no process

Procs == Confrds \cup Tools

ASSUME CounterAssumption ==
  /\ 0 \in Pins /\ None \notin Procs /\ Confrds \cap Tools = {}
  /\ Width \in Nat \ {0} /\ Cycles \subseteq 0 .. Width - 1
  /\ MaxRuns \in Nat /\ MaxFds \in Nat /\ MaxKills \in Nat

VARIABLES
  n_cycles, input_sel, edgecount, irq,  \* fc_control: CYCLECOUNT, INPUT_SEL, EDGECOUNT, IRQ
  enable, done_d1,                      \* fc_control
  enable_d1, counting,                  \* freq_measurement (counting: its enable)
  cycle_count, edge_count,
  fc_busy, fc_wq, woken,                \* fcounter_dev.c, and who was woken on fc_wq
  handler,                              \* where fcounter_irq_handler is
  inKernel,                             \* the process in the driver
  pc, runs, ask, got, fds,              \* processes: place, calls, parameters, result, open files
  kills

regVars  == <<n_cycles, input_sel, edgecount, irq>>
hwVars   == <<regVars, enable, done_d1, enable_d1, counting, cycle_count, edge_count>>
drvVars  == <<fc_busy, fc_wq, woken>>
procVars == <<runs, ask, got, fds, kills>>
vars     == <<hwVars, drvVars, handler, inKernel, pc, procVars>>

-----------------------------------------------------------------------------
(* One edge of the clock, with at most one access to a register.            *)

done == cycle_count = n_cycles

done_rises == done /\ ~done_d1

Nothing == [p \in Pins |-> 0]

(* The register file: a result coming in takes precedence over a write.     *)
Registers(write, value, readIrq) ==
  IF done_rises
  THEN /\ edgecount' = edge_count /\ irq' = TRUE
       /\ UNCHANGED <<n_cycles, input_sel>>
  ELSE /\ n_cycles' = IF write = "CYCLECOUNT" THEN value ELSE n_cycles
       /\ input_sel' = IF write = "INPUT_SEL" THEN value ELSE input_sel
       /\ irq' = (irq /\ ~readIrq)
       /\ UNCHANGED edgecount

(* Mutant: the count goes on from one measurement to the next.              *)
NextEdgeCount_NoReset ==
  IF counting THEN [edge_count EXCEPT ![input_sel] = (@ + 1) % Width] ELSE edge_count

NextEdgeCount ==
  IF done THEN Nothing
  ELSE IF counting THEN [edge_count EXCEPT ![input_sel] = (@ + 1) % Width] ELSE edge_count

(* A rising edge of enable starts a measurement, the last cycle ends it.    *)
Measure ==
  /\ enable_d1' = enable
  /\ counting' = (~done /\ (counting \/ (enable /\ ~enable_d1)))
  /\ edge_count' = NextEdgeCount
  /\ cycle_count' = IF done THEN 0 ELSE IF counting THEN (cycle_count + 1) % Width ELSE cycle_count

Edge(write, value, readIrq) ==
  /\ Registers(write, value, readIrq)
  /\ enable' = (write = "ENABLE")
  /\ done_d1' = done
  /\ Measure

Clock ==
  /\ Edge("none", 0, FALSE)
  /\ UNCHANGED <<drvVars, handler, inKernel, pc, procVars>>

-----------------------------------------------------------------------------
(* fcounter_irq_handler: read the register, which clears it; free the       *)
(* device; wake whoever polls.                                              *)

Interrupt ==
  /\ handler = "out" /\ irq
  /\ handler' = "read"
  /\ UNCHANGED <<hwVars, drvVars, inKernel, pc, procVars>>

HandlerRead ==
  /\ handler = "read"
  /\ Edge("none", 0, TRUE)
  /\ handler' = "free"
  /\ UNCHANGED <<drvVars, inKernel, pc, procVars>>

HandlerFree ==
  /\ handler = "free"
  /\ fc_busy' = FALSE
  /\ handler' = "wake"
  /\ UNCHANGED <<hwVars, fc_wq, woken, inKernel, pc, procVars>>

HandlerWake ==
  /\ handler = "wake"
  /\ woken' = woken \cup fc_wq
  /\ handler' = "out"
  /\ UNCHANGED <<hwVars, fc_busy, fc_wq, inKernel, pc, procVars>>

Handler == Interrupt \/ HandlerRead \/ HandlerFree \/ HandlerWake

-----------------------------------------------------------------------------
(* Processes.                                                               *)

Settled == done = done_d1 /\ ~irq

step(p, from, to) ==
  /\ handler = "out" /\ inKernel \in {None, p}
  /\ pc[p] = from
  /\ pc' = [pc EXCEPT ![p] = to]

(* What a process does after a call that succeeded or failed: confrd gives  *)
(* the line up at the first error, the tool goes on with its next option;   *)
(* its option -e waits whether it could enable the counter or not.          *)
AfterCall(p, op) ==
  IF p \in Tools THEN IF op = "enable" THEN "wait" ELSE "line"
  ELSE CASE op = "cycles" -> "select"
         [] op = "select" -> "enable"
         [] op = "enable" -> "wait"
         [] op = "wait"   -> "read"
         [] op = "read"   -> "submit"

AfterError(p, op) == IF p \in Tools THEN AfterCall(p, op) ELSE "line"

(* parse_line_measure: the next .measure line.                              *)
Begin(p) ==
  /\ p \in Confrds /\ step(p, "line", "cycles")
  /\ runs[p] < MaxRuns
  /\ runs' = [runs EXCEPT ![p] = @ + 1]
  /\ \E cycles \in Cycles, pin \in Pins : ask' = [ask EXCEPT ![p] = [cycles |-> cycles, pin |-> pin]]
  /\ UNCHANGED <<hwVars, drvVars, handler, inKernel, got, fds, kills>>

(* main of the tool: the next option, in any order.                         *)
Option(p) ==
  /\ p \in Tools
  /\ \E op \in {"cycles", "select", "enable", "read"} : step(p, "line", op)
  /\ runs[p] < MaxRuns
  /\ runs' = [runs EXCEPT ![p] = @ + 1]
  /\ UNCHANGED <<hwVars, drvVars, handler, inKernel, ask, got, fds, kills>>

(* Every function of fcounter_if.c opens the device first ...               *)
OpenFails(p) ==
  /\ fds[p] = MaxFds
  /\ \E op \in {"cycles", "select", "enable", "wait", "read"} : step(p, op, AfterError(p, op))
  /\ UNCHANGED <<hwVars, drvVars, handler, inKernel, procVars>>

Enters(p) == inKernel = None /\ Settled /\ fds[p] < MaxFds

(* ... and does not close it when the call fails.                           *)
Refused(p, op) ==
  /\ fc_busy
  /\ step(p, op, AfterError(p, op))
  /\ fds' = [fds EXCEPT ![p] = @ + 1]
  /\ UNCHANGED inKernel

Admitted(p, op, to) ==
  /\ ~fc_busy
  /\ step(p, op, to)
  /\ inKernel' = p
  /\ UNCHANGED fds

(* Mutant: the input may be changed under a measurement.                    *)
SetCheck_SelectUnguarded(p) ==
  /\ Enters(p)
  /\ \/ Refused(p, "cycles") \/ Admitted(p, "cycles", "put cycles")
     \/ step(p, "select", "put select") /\ inKernel' = p /\ UNCHANGED fds
  /\ UNCHANGED <<hwVars, drvVars, handler, runs, ask, got, kills>>

(* fcounter_ioctl, SET_CYCLES and SET_IPSEL: EBUSY or the write.            *)
SetCheck(p) ==
  /\ Enters(p)
  /\ \/ Refused(p, "cycles") \/ Admitted(p, "cycles", "put cycles")
     \/ Refused(p, "select") \/ Admitted(p, "select", "put select")
  /\ UNCHANGED <<hwVars, drvVars, handler, runs, ask, got, kills>>

SetWrite(p) ==
  /\ \/ /\ step(p, "put cycles", AfterCall(p, "cycles"))
        /\ \E v \in IF p \in Tools THEN Cycles ELSE {ask[p].cycles} : Edge("CYCLECOUNT", v, FALSE)
     \/ /\ step(p, "put select", AfterCall(p, "select"))
        /\ \E v \in IF p \in Tools THEN Pins ELSE {ask[p].pin} : Edge("INPUT_SEL", v, FALSE)
  /\ inKernel' = None
  /\ UNCHANGED <<drvVars, handler, procVars>>

(* Mutant: the driver does not look at fc_busy.                             *)
EnableCheck_Ignored(p) ==
  /\ Enters(p)
  /\ step(p, "enable", "mark") /\ inKernel' = p /\ UNCHANGED fds
  /\ UNCHANGED <<hwVars, drvVars, handler, runs, ask, got, kills>>

(* fcounter_enable: unlike trunner_enable it asks only the driver's flag.   *)
EnableCheck(p) ==
  /\ Enters(p)
  /\ Refused(p, "enable") \/ Admitted(p, "enable", "mark")
  /\ UNCHANGED <<hwVars, drvVars, handler, runs, ask, got, kills>>

EnableMark(p) ==
  /\ step(p, "mark", "start")
  /\ fc_busy' = TRUE
  /\ UNCHANGED <<hwVars, fc_wq, woken, handler, inKernel, procVars>>

EnableStart(p) ==
  /\ step(p, "start", AfterCall(p, "enable"))
  /\ Edge("ENABLE", 1, FALSE)
  /\ inKernel' = None
  /\ UNCHANGED <<drvVars, handler, procVars>>

(* Mutant: the process is not entered in the wait queue.                    *)
PollWait_NotQueued(p) ==
  /\ Enters(p)
  /\ step(p, "wait", "check") /\ inKernel' = p
  /\ woken' = woken \ {p}
  /\ UNCHANGED <<hwVars, fc_busy, fc_wq, handler, procVars>>

(* fcounter_wait_done: poll calls fcounter_poll, which enters the process   *)
(* in the wait queue and then looks at fc_busy.                             *)
PollWait(p) ==
  /\ Enters(p)
  /\ step(p, "wait", "check") /\ inKernel' = p
  /\ fc_wq' = fc_wq \cup {p}
  /\ woken' = woken \ {p}
  /\ UNCHANGED <<hwVars, fc_busy, handler, procVars>>

PollCheck(p) ==
  /\ \/ ~fc_busy /\ step(p, "check", AfterCall(p, "wait")) /\ inKernel' = None
        /\ fc_wq' = fc_wq \ {p}
     \/ fc_busy /\ step(p, "check", "schedule") /\ inKernel' = p
        /\ UNCHANGED fc_wq
  /\ UNCHANGED <<hwVars, fc_busy, woken, handler, procVars>>

PollSleep(p) ==
  /\ p \notin woken
  /\ step(p, "schedule", "asleep") /\ inKernel' = None
  /\ UNCHANGED <<hwVars, drvVars, handler, procVars>>

PollAgain(p) ==
  /\ p \in woken
  /\ step(p, "schedule", "check") \/ step(p, "asleep", "check")
  /\ inKernel' = p
  /\ woken' = woken \ {p}
  /\ UNCHANGED <<hwVars, fc_busy, fc_wq, handler, procVars>>

(* GET_COUNT and read: nothing asks whether a measurement is under way.     *)
GetCount(p) ==
  /\ Enters(p)
  /\ step(p, "read", AfterCall(p, "read"))
  /\ Edge("none", 0, FALSE)
  /\ got' = IF p \in Tools THEN got ELSE [got EXCEPT ![p] = edgecount]
  /\ UNCHANGED <<drvVars, handler, inKernel, runs, ask, fds, kills>>

(* submit_measurement_freq: the result leaves for the server.               *)
Submit(p) ==
  /\ step(p, "submit", "line")
  /\ got' = [got EXCEPT ![p] = Nothing]
  /\ UNCHANGED <<hwVars, drvVars, handler, inKernel, runs, ask, fds, kills>>

(* killall -9 confrd: the kernel closes its files.                          *)
Kill(p) ==
  /\ p \in Confrds /\ kills < MaxKills
  /\ handler = "out" /\ inKernel = None
  /\ pc' = [pc EXCEPT ![p] = "line"]
  /\ fds' = [fds EXCEPT ![p] = 0]
  /\ fc_wq' = fc_wq \ {p} /\ woken' = woken \ {p}
  /\ kills' = kills + 1
  /\ UNCHANGED <<hwVars, fc_busy, handler, inKernel, runs, ask, got>>

Process(p) ==
  \/ Begin(p) \/ Option(p) \/ OpenFails(p) \/ SetCheck(p) \/ SetWrite(p)
  \/ EnableCheck(p) \/ EnableMark(p) \/ EnableStart(p)
  \/ PollWait(p) \/ PollCheck(p) \/ PollSleep(p) \/ PollAgain(p)
  \/ GetCount(p) \/ Submit(p)

(* After reset and probe; CYCLECOUNT comes out of reset at half its range.  *)
Init ==
  /\ n_cycles = Width \div 2 /\ input_sel = 0 /\ edgecount = Nothing /\ irq = FALSE
  /\ enable = FALSE /\ done_d1 = FALSE /\ enable_d1 = FALSE /\ counting = FALSE
  /\ cycle_count = 0 /\ edge_count = Nothing
  /\ fc_busy = FALSE /\ fc_wq = {} /\ woken = {}
  /\ handler = "out" /\ inKernel = None
  /\ pc = [p \in Procs |-> "line"]
  /\ runs = [p \in Procs |-> 0] /\ fds = [p \in Procs |-> 0]
  /\ ask = [p \in Procs |-> [cycles |-> 0, pin |-> 0]]
  /\ got = [p \in Procs |-> Nothing]
  /\ kills = 0

Next ==
  \/ Clock
  \/ Handler
  \/ \E p \in Procs : Process(p) \/ Kill(p)

Spec == Init /\ [][Next]_vars

(***************************************************************************)
(* The clock runs, an interrupt is taken in the end, and the scheduler lets *)
(* every process go on.  (The hardware's own pace decides whether the       *)
(* counter has settled, so a process is only owed a step while it has.)     *)
(***************************************************************************)
Fairness ==
  /\ WF_vars(Clock)
  /\ WF_vars(Handler)
  /\ \A p \in Procs : WF_vars(Process(p))

FairSpec == Spec /\ Fairness

-----------------------------------------------------------------------------

InPoll == {"check", "schedule", "asleep"}

Places == InPoll \cup {"line", "cycles", "put cycles", "select", "put select", "enable",
                       "mark", "start", "wait", "read", "submit"}

Windows == [Pins -> 0 .. Width - 1]

TypeOK ==
  /\ n_cycles \in 0 .. Width - 1 /\ input_sel \in Pins /\ edgecount \in Windows
  /\ {irq, enable, done_d1, enable_d1, counting, fc_busy} \subseteq BOOLEAN
  /\ cycle_count \in 0 .. Width - 1 /\ edge_count \in Windows
  /\ fc_wq = { p \in Procs : pc[p] \in InPoll }
  /\ woken \subseteq Procs
  /\ handler \in {"out", "read", "free", "wake"}
  /\ inKernel \in Procs \cup {None}
  /\ pc \in [Procs -> Places] /\ runs \in [Procs -> 0 .. MaxRuns]
  /\ ask \in [Procs -> [cycles : 0 .. Width - 1, pin : Pins]]
  /\ got \in [Procs -> Windows] /\ fds \in [Procs -> 0 .. MaxFds]
  /\ kills \in 0 .. MaxKills

(***************************************************************************)
(* No enable is lost although fcounter_enable never asks the hardware: when *)
(* the pulse reaches the counter, the counter is idle, unless it was set to *)
(* zero cycles.                                                             *)
(***************************************************************************)
StartHits == enable /\ n_cycles # 0 => ~counting /\ ~enable_d1 /\ ~done

(***************************************************************************)
(* While a measurement is under way the driver knows it.                    *)
(***************************************************************************)
BusyIsKnown == counting \/ enable => fc_busy

(***************************************************************************)
(* The handshake of driver and counter: the two above, and the wait queue   *)
(* of the driver holds exactly the processes that are in poll.              *)
(***************************************************************************)
Handshake == TypeOK /\ StartHits /\ BusyIsKnown

(***************************************************************************)
(* Nobody changes the window or the input of a measurement under way.       *)
(***************************************************************************)
ParametersHold == [][counting \/ enable => UNCHANGED <<n_cycles, input_sel>>]_vars

(***************************************************************************)
(* What confrd submits is its own measurement: edges of the pin of the line *)
(* over as many cycles as the line asks for, not more and not of another    *)
(* pin or an earlier measurement.  This is said of a confrd that is the only *)
(* process ever to have run with the counter, whether or not an instance of *)
(* it was killed during a measurement before.                               *)
(***************************************************************************)
Alone(p) == \A q \in Procs \ {p} : runs[q] = 0

OwnMeasurement ==
  \A p \in Confrds : Alone(p) /\ pc[p] = "submit" =>
    got[p] = [Nothing EXCEPT ![ask[p].pin] = ask[p].cycles]

(***************************************************************************)
(* A process that waits for the counter comes back, unless the counter is   *)
(* set to zero cycles, which neither confrd nor the driver refuses: then    *)
(* done never rises and nobody ever measures again.                         *)
(***************************************************************************)
MeasurementEnds ==
  \A p \in Procs : pc[p] \in InPoll ~> pc[p] \notin InPoll \/ n_cycles = 0
-----------------------------------------------------------------------------
(***************************************************************************)
(* Why it works.  Whenever the driver is free the counter rests, so that    *)
(* fc_busy is as good as asking the hardware: an interrupt, or what is left *)
(* of one, finds it at rest, and only the handler frees the driver.  A      *)
(* process in fcounter_enable or about to write a parameter is alone in the *)
(* driver, and while it is no interrupt comes.                              *)
(***************************************************************************)
Resting == ~counting /\ ~enable /\ cycle_count = 0

FreeIsResting   == ~fc_busy => Resting
ServedResting   == irq \/ handler \in {"read", "free"} => Resting
EnablingSettled ==
  \A p \in Procs : pc[p] \in {"mark", "start"} => Resting /\ Settled /\ handler = "out"
MarkedIsBusy    == \A p \in Procs : pc[p] = "start" => fc_busy
PuttingIsFree   == \A p \in Procs : pc[p] \in {"put cycles", "put select"} => ~fc_busy
AloneInDriver   ==
  \A p \in Procs : pc[p] \in {"mark", "start", "put cycles", "put select"} => inKernel = p
PulseAlone      == enable => ~counting /\ ~enable_d1 /\ cycle_count = 0

Agreement ==
  /\ FreeIsResting /\ ServedResting /\ EnablingSettled /\ MarkedIsBusy
  /\ PuttingIsFree /\ AloneInDriver /\ PulseAlone

IInv == TypeOK /\ Agreement
=============================================================================
