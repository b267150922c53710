----------------------------- MODULE DriverLife -----------------------------
(***************************************************************************)
(* The life of a driver of linux-2.6/drivers/misc: the module is loaded     *)
(* (init), finds its device (probe), serves processes and interrupts, and is *)
(* unloaded (exit, with remove).  All four share the skeleton; each is       *)
(* described by the list of what it acquires and the lists of what it        *)
(* releases.  Every step may fail.  Between any two steps an interrupt that   *)
(* the hardware has left from an earlier life may arrive, and processes open  *)
(* and close the device.                                                    *)
(*                                                                          *)
(* External (the kernel): a module is not unloaded while it has references,  *)
(* and no reference to it can be taken while it is; a process finds the node *)
(* of a device only while the device exists.  remove is called by exit only   *)
(* (nobody unbinds the driver through sysfs).                                *)
(*                                                                          *)
(* Not modelled: the timer with which de2lcd shifts long texts.  probe sets   *)
(* it up, remove does not delete it, and when it runs out after that it       *)
(* writes through registers no longer mapped.                               *)
(***************************************************************************)
EXTENDS Integers, Sequences, FiniteSets

CONSTANTS
  Drivers,     \* subset of {"trunner", "adc", "fcounter", "de2lcd"}
  IrqNumbers,  \* what platform_get_irq may answer; -ENXIO when there is none
  Users,       \* processes
  MaxLoads     \* how often the module is loaded (bound of the model)

ENXIO == 6

ASSUME DriverAssumption ==
  /\ Drivers \subseteq {"trunner", "adc", "fcounter", "de2lcd"}
  /\ IrqNumbers \subseteq Int /\ IsFiniteSet(Users) /\ MaxLoads \in Nat

VARIABLES
  driver, irq,     \* which driver; the interrupt its device has
  stage, todo,        \* what the module is doing, and the steps it has left
  held,            \* what the driver has acquired and not released
  failed,          \* the step of init or probe that failed last, or "none"
  refs,            \* references to the module
  open,            \* the processes that have the device open
  running, raised, \* the hardware: at work; interrupt pending
  loads

lifeVars == <<driver, irq, stage, todo, held, failed, refs, open, running, raised, loads>>

(* The steps of probe that only look.                                       *)
Looks == {"get_irq", "resource", "magic"}
Resources == {"class", "region", "driver", "mapping", "data", "irq", "cdev", "device"}
(* What concerns the device; its platform data the kernel frees with it.    *)
OfDevice == {"mapping", "irq", "cdev", "device"}

-----------------------------------------------------------------------------
(* The drivers.  error is what probe undoes when a step fails that needs it. *)

(* Mutant: remove unmaps the registers before it frees the interrupt.       *)
trunner_device_UnmapFirst ==
  [probe  |-> <<"get_irq", "resource", "mapping", "magic", "data", "irq", "cdev", "device">>,
   error  |-> (IF irq >= 0 THEN <<"irq">> ELSE <<>>) \o <<"mapping">>,
   remove |-> <<"device", "cdev", "mapping", "irq">>]

trunner_device ==
  [probe  |-> <<"get_irq", "resource", "mapping", "magic", "data", "irq", "cdev", "device">>,
   error  |-> (IF irq >= 0 THEN <<"irq">> ELSE <<>>) \o <<"mapping">>,
   remove |-> <<"device", "cdev", "irq", "mapping">>]

adc_device == trunner_device

fcounter_device == trunner_device

(* No interrupt, no identification register; its timer belongs to neither    *)
(* list, as remove does not delete it.                                      *)
de2lcd_device ==
  [probe  |-> <<"resource", "mapping", "data", "cdev", "device">>,
   error  |-> <<"mapping">>,
   remove |-> <<"device", "cdev", "mapping">>]

trunner_module ==
  [init |-> <<"class", "region", "driver">>, exit |-> <<"driver", "region", "class">>]

adc_module == trunner_module
fcounter_module == trunner_module
de2lcd_module == trunner_module

device == CASE driver = "trunner"  -> trunner_device  [] driver = "adc"    -> adc_device
            [] driver = "fcounter" -> fcounter_device [] driver = "de2lcd" -> de2lcd_device
module == CASE driver = "trunner"  -> trunner_module  [] driver = "adc"    -> adc_module
            [] driver = "fcounter" -> fcounter_module [] driver = "de2lcd" -> de2lcd_module

(* Mutant: a device_create that fails leaves the character device behind.   *)
undo_KeepsCdev(s) ==
  CASE s = "region" -> <<"class">>
    [] s \in {"class", "driver", "get_irq", "resource", "mapping"} -> <<>>
    [] OTHER -> device.error

(* What is undone when step s fails.  When platform_driver_register does,    *)
(* init returns its error and undoes nothing.                               *)
undo(s) ==
  CASE s = "region" -> <<"class">>
    [] s \in {"class", "driver", "get_irq", "resource", "mapping"} -> <<>>
    [] OTHER -> (IF s = "device" THEN <<"cdev">> ELSE <<>>) \o device.error

-----------------------------------------------------------------------------
(* Loading and unloading.                                                   *)

(* The compare of probe is with ENXIO, and platform_get_irq answers -ENXIO. *)
CannotSucceed(s) ==
  \/ s = "get_irq" /\ irq = ENXIO
  \/ s = "irq" /\ irq < 0
  \/ s = "class" /\ s \in held   \* class_create: the name is still there

MayFail(s) == s # "get_irq" \/ irq = ENXIO

Load ==
  /\ stage = "unloaded" /\ loads < MaxLoads
  /\ stage' = "init" /\ todo' = module.init
  /\ failed' = "none"
  /\ loads' = loads + 1
  /\ UNCHANGED <<driver, irq, held, refs, open, running, raised>>

(* A step of init or probe.  platform_driver_register, the last of init,    *)
(* probes the device that is there.                                         *)
Acquire ==
  /\ stage \in {"init", "probe"} /\ todo # <<>> /\ ~CannotSucceed(Head(todo))
  /\ held' = held \cup ({Head(todo)} \ Looks)
  /\ IF Tail(todo) # <<>> THEN todo' = Tail(todo) /\ UNCHANGED stage
     ELSE IF stage = "init" THEN stage' = "probe" /\ todo' = device.probe
     ELSE stage' = "live" /\ todo' = <<>>
  /\ UNCHANGED <<driver, irq, failed, refs, open, running, raised, loads>>

(* What stage becomes when the last step of stage is done: a probe that fails     *)
(* leaves the module loaded.                                                *)
AfterRelease == [undo_init |-> "unloaded", undo_probe |-> "live", exit |-> "unloaded"]

Fails ==
  /\ stage \in {"init", "probe"} /\ todo # <<>> /\ MayFail(Head(todo))
  /\ failed' = Head(todo)
  /\ todo' = undo(Head(todo))
  /\ LET p == IF stage = "init" THEN "undo_init" ELSE "undo_probe"
     IN  stage' = IF todo' = <<>> THEN AfterRelease[p] ELSE p
  /\ UNCHANGED <<driver, irq, held, refs, open, running, raised, loads>>

(* free_irq of an interrupt that was never requested warns, and no more.    *)
Release ==
  /\ stage \in DOMAIN AfterRelease
  /\ held' = held \ {Head(todo)}
  /\ todo' = Tail(todo)
  /\ stage' = IF todo' = <<>> THEN AfterRelease[stage] ELSE stage
  /\ UNCHANGED <<driver, irq, failed, refs, open, running, raised, loads>>

(* exit: platform_driver_unregister calls remove for the device it has.     *)
Unload ==
  /\ stage = "live" /\ refs = 0
  /\ stage' = "exit"
  /\ todo' = (IF "device" \in held THEN device.remove ELSE <<>>) \o module.exit
  /\ UNCHANGED <<driver, irq, held, failed, refs, open, running, raised, loads>>

-----------------------------------------------------------------------------
(* Processes and interrupts.                                                *)

(* The kernel takes a reference of its own (fops.owner), open another, and   *)
(* release and the kernel put them.                                         *)
Open(u) ==
  /\ u \notin open /\ {"cdev", "device"} \subseteq held /\ stage # "exit"
  /\ open' = open \cup {u}
  /\ refs' = refs + 2
  /\ UNCHANGED <<driver, irq, stage, todo, held, failed, running, raised, loads>>

Close(u) ==
  /\ u \in open
  /\ open' = open \ {u}
  /\ refs' = refs - 2
  /\ UNCHANGED <<driver, irq, stage, todo, held, failed, running, raised, loads>>

(* A process starts the hardware.                                           *)
Enable(u) ==
  /\ u \in open /\ driver # "de2lcd" /\ ~running /\ ~raised
  /\ running' = TRUE
  /\ UNCHANGED <<driver, irq, stage, todo, held, failed, refs, open, raised, loads>>

HardwareDone ==
  /\ running
  /\ running' = FALSE /\ raised' = TRUE
  /\ UNCHANGED <<driver, irq, stage, todo, held, failed, refs, open, loads>>

(* The handler reads the interrupt register and writes the platform data.   *)
Interrupt ==
  /\ raised /\ "irq" \in held
  /\ raised' = FALSE
  /\ UNCHANGED <<driver, irq, stage, todo, held, failed, refs, open, running, loads>>

LifeInit ==
  /\ driver \in Drivers /\ irq \in IrqNumbers
  /\ stage = "unloaded" /\ todo = <<>> /\ held = {} /\ failed = "none"
  /\ refs = 0 /\ open = {}
  /\ running = FALSE /\ raised = FALSE /\ loads = 0

LifeNext ==
  \/ Load \/ Acquire \/ Fails \/ Release \/ Unload
  \/ \E u \in Users : Open(u) \/ Close(u) \/ Enable(u)
  \/ HardwareDone \/ Interrupt

LifeSpec == LifeInit /\ [][LifeNext]_lifeVars

-----------------------------------------------------------------------------

LifeTypeOK ==
  /\ driver \in Drivers /\ irq \in IrqNumbers
  /\ stage \in {"unloaded", "init", "probe", "undo_init", "undo_probe", "live", "exit"}
  /\ todo \in Seq(Looks \cup Resources)
  /\ held \subseteq Resources
  /\ failed \in Looks \cup Resources \cup {"none"}
  /\ refs \in 0 .. 2 * Cardinality(Users) /\ open \subseteq Users
  /\ running \in BOOLEAN /\ raised \in BOOLEAN /\ loads \in 0 .. MaxLoads

(***************************************************************************)
(* Whenever an interrupt can call the handler, even one that the hardware    *)
(* has kept since an earlier life of the module, the registers are mapped    *)
(* and the softc is there.                                                  *)
(***************************************************************************)
HandlerSafe == "irq" \in held => {"mapping", "data"} \subseteq held

(***************************************************************************)
(* A process that has the device open finds all of it, however loading,      *)
(* failing and unloading are interleaved with opening and closing.          *)
(***************************************************************************)
UsersSafe == open # {} => {"mapping", "data", "cdev", "device"} \subseteq held /\ stage = "live"

(***************************************************************************)
(* The interrupt handler and the processes, whenever they come, find the     *)
(* driver whole.  (Not the timer of de2lcd, which may still be pending when  *)
(* remove unmaps the registers and the module goes.)                        *)
(***************************************************************************)
InUseIsMapped == LifeTypeOK /\ HandlerSafe /\ UsersSafe

(***************************************************************************)
(* A probe that fails leaves nothing of the device behind, and a module that *)
(* is not loaded leaves nothing at all, whichever step failed, unless it was *)
(* the registration of the driver (whose failure init does not undo).       *)
(***************************************************************************)
NothingLeftBehind ==
  /\ stage = "live" /\ failed # "none" => held \cap OfDevice = {}
  /\ stage = "unloaded" => held \cap OfDevice = {}
  /\ stage = "unloaded" /\ held \ {"data"} # {} => {"class", "region"} \subseteq held /\ "driver" \notin held

(***************************************************************************)
(* A device is never left half bound: with a node there is a handler, if     *)
(* the driver has one to wait for, and a device whose interrupt could not    *)
(* be had (its number is negative) gets no node.                            *)
(***************************************************************************)
BoundIsWhole ==
  "device" \in held /\ driver # "de2lcd" /\ stage # "exit" => "irq" \in held /\ irq >= 0

(***************************************************************************)
(* Loading and unloading do all of it or nothing.                           *)
(***************************************************************************)
NothingHalfDone == NothingLeftBehind /\ BoundIsWhole
=============================================================================
