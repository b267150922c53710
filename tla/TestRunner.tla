----------------------------- MODULE TestRunner -----------------------------
(***************************************************************************)
(* From a process that wants its test vectors run down to the tester and    *)
(* back: confrd (go, run_trunner, trunner_enable, trunner_wait_done and the *)
(* upload of the results), the driver trunner_dev.c with its interrupt      *)
(* handler, and the registers of test_runner.v.  The tester itself is only  *)
(* running or done (module TestController has the rest).                    *)
(*                                                                          *)
(* There is one CPU.  The kernel is not preemptible: a process in the       *)
(* driver keeps the CPU until it returns or sleeps, but for the interrupt   *)
(* handler, which may come between any two of its steps.  A process in user *)
(* mode may lose the CPU anywhere and may be killed.  Every access to a     *)
(* register is an edge of the system clock; others pass in between.         *)
(***************************************************************************)
EXTENDS Integers, FiniteSets

CONSTANTS
  Procs,      \* confrd processes
  MaxLoads,   \* times a process loads the SRAM (bound of the model)
  MaxKills,   \* processes killed (bound of the model)
  None        \* no process

ASSUME RunnerAssumption == None \notin Procs /\ MaxLoads \in Nat /\ MaxKills \in Nat

VARIABLES
  running,                     \* the tester is not done
  enable, busy, done_d1, irq,  \* test_runner.v (irq: bit IRQ_TR of REG_IRQ)
  sram,                        \* whose vectors each half of the SRAM holds
  tr_busy,                     \* trunner_dev.c: tr_busy
  tr_wq, woken,                \* trunner_dev.c: tr_wq, and who was woken on it
  handler,                     \* where trunner_irq_handler is
  inKernel,                    \* the process in the driver
  pc, loads,                   \* where a process is, how often it has loaded
  kills

hwVars   == <<running, enable, busy, done_d1, irq>>
drvVars  == <<tr_busy, tr_wq, woken>>
vars     == <<hwVars, drvVars, sram, handler, inKernel, pc, loads, kills>>

Halves == {1, 2}

-----------------------------------------------------------------------------
(* test_runner.v: one edge of the system clock, with at most one access.    *)

done == ~running

(* Mutant: the interrupt is raised by the level of done, not by its edge.   *)
done_rises_Level == done

done_rises == done /\ ~done_d1

Edge(writeEnable, readIrq) ==
  /\ running' \in IF running THEN BOOLEAN ELSE {enable}
  /\ irq' = IF done_rises THEN TRUE
            ELSE IF readIrq THEN FALSE ELSE irq
  /\ enable' = writeEnable
  /\ done_d1' = done
  /\ busy' = IF enable THEN TRUE ELSE IF done THEN FALSE ELSE busy
  /\ sram' = IF running /\ ~running'
             THEN [h \in Halves |-> [sram[h] EXCEPT !.ran = TRUE]] ELSE sram

Clock ==
  /\ Edge(FALSE, FALSE)
  /\ UNCHANGED <<drvVars, handler, inKernel, pc, loads, kills>>

-----------------------------------------------------------------------------
(* trunner_irq_handler: read the register, which clears it; free the        *)
(* device; wake whoever polls.                                              *)

Interrupt ==
  /\ handler = "out" /\ irq
  /\ handler' = "read"
  /\ UNCHANGED <<hwVars, drvVars, sram, inKernel, pc, loads, kills>>

HandlerRead ==
  /\ handler = "read"
  /\ Edge(FALSE, TRUE)
  /\ handler' = "free"
  /\ UNCHANGED <<drvVars, inKernel, pc, loads, kills>>

HandlerFree ==
  /\ handler = "free"
  /\ tr_busy' = FALSE
  /\ handler' = "wake"
  /\ UNCHANGED <<hwVars, tr_wq, woken, sram, inKernel, pc, loads, kills>>

HandlerWake ==
  /\ handler = "wake"
  /\ woken' = woken \cup tr_wq
  /\ handler' = "out"
  /\ UNCHANGED <<hwVars, tr_busy, tr_wq, sram, inKernel, pc, loads, kills>>

Handler == Interrupt \/ HandlerRead \/ HandlerFree \/ HandlerWake

-----------------------------------------------------------------------------
(* A process.  step: process p, on the CPU, goes on from one place to       *)
(* another.                                                                 *)

step(p, from, to) ==
  /\ handler = "out" /\ inKernel \in {None, p}
  /\ pc[p] = from
  /\ pc' = [pc EXCEPT ![p] = to]

(* go: load the SRAM.  While the tester owns the SRAM the access waits.     *)
Load(p) ==
  \E h \in Halves :
    /\ ~busy
    /\ IF h = 1 THEN step(p, "load", "load2") ELSE step(p, "load2", "loaded")
    /\ h = 1 => loads[p] < MaxLoads
    /\ loads' = IF h = 1 THEN [loads EXCEPT ![p] = @ + 1] ELSE loads
    /\ sram' = [sram EXCEPT ![h] = [by |-> p, load |-> loads'[p], ran |-> FALSE]]
    /\ UNCHANGED <<hwVars, drvVars, handler, inKernel, kills>>

(* Mutant: the driver does not look at tr_busy.                             *)
EnableCheckBusy_Ignored(p) ==
  /\ step(p, "loaded", "enable") /\ inKernel' = p
  /\ UNCHANGED <<hwVars, drvVars, sram, handler, loads, kills>>

(* trunner_enable: EBUSY if a run is under way for the driver ...           *)
EnableCheckBusy(p) ==
  /\ \/ tr_busy /\ step(p, "loaded", "failed") /\ inKernel' = None
     \/ ~tr_busy /\ step(p, "loaded", "enable") /\ inKernel' = p
  /\ UNCHANGED <<hwVars, drvVars, sram, handler, loads, kills>>

(* ... or for the hardware ...                                              *)
EnableCheckDone(p) ==
  /\ \/ ~done /\ step(p, "enable", "failed") /\ inKernel' = None
     \/ done /\ step(p, "enable", "mark") /\ inKernel' = p
  /\ Edge(FALSE, FALSE)
  /\ UNCHANGED <<drvVars, handler, loads, kills>>

(* Mutant: the driver does not mark itself busy.                            *)
EnableMark_Skipped(p) ==
  /\ step(p, "mark", "start")
  /\ UNCHANGED <<hwVars, drvVars, sram, handler, inKernel, loads, kills>>

(* ... else note it, and only then start the tester.                        *)
EnableMark(p) ==
  /\ step(p, "mark", "start")
  /\ tr_busy' = TRUE
  /\ UNCHANGED <<hwVars, tr_wq, woken, sram, handler, inKernel, loads, kills>>

EnableStart(p) ==
  /\ step(p, "start", "started")
  /\ Edge(TRUE, FALSE)
  /\ inKernel' = None
  /\ UNCHANGED <<drvVars, handler, loads, kills>>

(* go returns the error and confrd goes on to the next file. *)
GiveUp(p) ==
  /\ step(p, "failed", "load")
  /\ UNCHANGED <<hwVars, drvVars, sram, handler, inKernel, loads, kills>>

(***************************************************************************)
(* trunner_wait_done: poll.  The kernel calls trunner_poll, which enters    *)
(* the process in the wait queue and then looks at tr_busy; it sleeps only  *)
(* if it was not woken meanwhile, and calls trunner_poll again when it was. *)
(***************************************************************************)
(* Mutant: the process is not entered in the wait queue.                    *)
PollWait_NotQueued(p) ==
  /\ step(p, "started", "check")
  /\ inKernel' = p
  /\ woken' = woken \ {p}
  /\ UNCHANGED <<hwVars, tr_busy, tr_wq, sram, handler, loads, kills>>

PollWait(p) ==
  /\ step(p, "started", "check")
  /\ inKernel' = p
  /\ tr_wq' = tr_wq \cup {p}
  /\ woken' = woken \ {p}
  /\ UNCHANGED <<hwVars, tr_busy, sram, handler, loads, kills>>

PollCheck(p) ==
  /\ \/ ~tr_busy /\ step(p, "check", "done") /\ inKernel' = None
        /\ tr_wq' = tr_wq \ {p}
     \/ tr_busy /\ step(p, "check", "schedule") /\ inKernel' = p
        /\ UNCHANGED tr_wq
  /\ UNCHANGED <<hwVars, tr_busy, woken, sram, handler, loads, kills>>

PollSleep(p) ==
  /\ p \notin woken
  /\ step(p, "schedule", "asleep") /\ inKernel' = None
  /\ UNCHANGED <<hwVars, drvVars, sram, handler, loads, kills>>

PollAgain(p) ==
  /\ p \in woken
  /\ step(p, "schedule", "check") \/ step(p, "asleep", "check")
  /\ inKernel' = p
  /\ woken' = woken \ {p}
  /\ UNCHANGED <<hwVars, tr_busy, tr_wq, sram, handler, loads, kills>>

(* process_sram_results reads back what it has loaded, with the results. *)
Upload(p) ==
  /\ ~busy
  /\ step(p, "done", "upload2") \/ step(p, "upload2", "load")
  /\ UNCHANGED <<hwVars, drvVars, sram, handler, inKernel, loads, kills>>

(* killall -9 confrd, when the SD card is removed; another is started when  *)
(* it is back.                                                              *)
Kill(p) ==
  /\ kills < MaxKills
  /\ handler = "out" /\ inKernel = None
  /\ pc' = [pc EXCEPT ![p] = "load"]
  /\ tr_wq' = tr_wq \ {p} /\ woken' = woken \ {p}
  /\ kills' = kills + 1
  /\ UNCHANGED <<hwVars, tr_busy, sram, handler, inKernel, loads>>

Process(p) ==
  \/ Load(p) \/ EnableCheckBusy(p) \/ EnableCheckDone(p) \/ EnableMark(p)
  \/ EnableStart(p) \/ GiveUp(p) \/ PollWait(p) \/ PollCheck(p)
  \/ PollSleep(p) \/ PollAgain(p) \/ Upload(p)

(* The driver has been probed: the interrupt test_runner raises when it     *)
(* comes out of reset has been taken.                                       *)
Init ==
  /\ running = FALSE /\ enable = FALSE /\ busy = FALSE
  /\ done_d1 = TRUE /\ irq = FALSE
  /\ sram = [h \in Halves |-> [by |-> None, load |-> 0, ran |-> FALSE]]
  /\ tr_busy = FALSE /\ tr_wq = {} /\ woken = {}
  /\ handler = "out" /\ inKernel = None
  /\ pc = [p \in Procs |-> "load"] /\ loads = [p \in Procs |-> 0]
  /\ kills = 0

Next ==
  \/ Clock
  \/ Handler
  \/ \E p \in Procs : Process(p) \/ Kill(p)

Spec == Init /\ [][Next]_vars

(***************************************************************************)
(* The clock runs and every run of the tester ends (TestController shows    *)
(* it); an interrupt is taken in the end; the scheduler lets every process  *)
(* go on.                                                                   *)
(***************************************************************************)
Fairness ==
  /\ WF_vars(Clock)
  /\ WF_vars(Clock /\ ~running')
  /\ WF_vars(Handler)
  /\ \A p \in Procs : WF_vars(Process(p))

FairSpec == Spec /\ Fairness

-----------------------------------------------------------------------------

Places == {"load", "load2", "loaded", "enable", "mark", "start", "failed",
           "started", "check", "schedule", "asleep", "done", "upload2"}

TypeOK ==
  /\ {running, enable, busy, done_d1, irq, tr_busy} \subseteq BOOLEAN
  /\ sram \in [Halves -> [by : Procs \cup {None}, load : 0 .. MaxLoads, ran : BOOLEAN]]
  /\ tr_wq = { p \in Procs : pc[p] \in {"check", "schedule", "asleep"} }
  /\ woken \subseteq Procs
  /\ handler \in {"out", "read", "free", "wake"}
  /\ inKernel \in Procs \cup {None}
  /\ pc \in [Procs -> Places] /\ loads \in [Procs -> 0 .. MaxLoads]
  /\ kills \in 0 .. MaxKills

(***************************************************************************)
(* The enable pulse is never lost: when it reaches the tester, the tester   *)
(* is in END with its FIFOs drained, the only state in which it looks.      *)
(* trunner_enable read done several cycles and perhaps an interrupt ago.    *)
(***************************************************************************)
PulseHits == enable => done

(***************************************************************************)
(* poll tells the truth: a process that has come back from it, and was not  *)
(* overtaken by another one, finds the tester done and the SRAM free.       *)
(***************************************************************************)
PollMeansFinished ==
  \A p \in Procs : pc[p] = "done" /\ tr_busy = FALSE => done /\ ~busy /\ ~enable

(***************************************************************************)
(* While the tester runs, or is about to, the driver knows it is busy, or   *)
(* the interrupt that will tell it is on its way.                           *)
(***************************************************************************)
BusyIsKnown == running \/ enable => tr_busy

(***************************************************************************)
(* As long as confrd processes do not overlap (one may be killed, with the  *)
(* tester running, and start again), what a process uploads are the results *)
(* of the vectors it has loaded.                                            *)
(***************************************************************************)
Alone(p) == \A q \in Procs \ {p} : loads[q] = 0

Mine(p, h) == sram[h] = [by |-> p, load |-> loads[p], ran |-> TRUE]

ResultsMine ==
  \A p \in Procs : Alone(p) =>
    /\ pc[p] = "done" => \A h \in Halves : Mine(p, h)
    /\ pc[p] = "upload2" => Mine(p, 2)

(***************************************************************************)
(* Nobody sleeps for ever: a process that has started the tester comes back *)
(* from poll (or is killed), whenever the interrupt comes.                  *)
(***************************************************************************)
WaitsEnd == \A p \in Procs : pc[p] = "started" ~> pc[p] \in {"done", "load"}
-----------------------------------------------------------------------------
(***************************************************************************)
(* Why it works.  Nothing is under way (Quiet) whenever the driver is free, *)
(* and once more when a process is about to start the tester: the interrupt *)
(* of the last run was the only one, and it was served before the driver    *)
(* became free.  From an interrupt until the driver is free the tester      *)
(* rests; and it rests when the enable pulse comes.                         *)
(***************************************************************************)
Resting == ~running /\ ~enable /\ ~busy /\ done_d1

Quiet == Resting /\ ~irq /\ handler \notin {"read", "free"}

FreeIsQuiet    == ~tr_busy => Quiet
StartIsQuiet   == \A p \in Procs : pc[p] = "start" => Quiet /\ tr_busy
CheckedIsFree  == \A p \in Procs : pc[p] \in {"enable", "mark"} => ~tr_busy
ServedResting  ==
  /\ irq \/ handler \in {"read", "free"} => Resting
  /\ handler = "free" => ~irq
PulseAlone     == enable => ~running /\ done_d1 /\ ~irq
EnablingAlone  ==
  \A p \in Procs : pc[p] \in {"enable", "mark", "start"} => inKernel = p

IInv ==
  /\ TypeOK
  /\ FreeIsQuiet
  /\ StartIsQuiet
  /\ CheckedIsFree
  /\ ServedResting
  /\ PulseAlone
  /\ EnablingAlone
=============================================================================
