---------------------------- MODULE LinuxProofs ----------------------------
(***************************************************************************)
(* Proofs about the Linux side of the tester: what confrd does on a card     *)
(* (module Session), for every set of team.cfgs and any number of            *)
(* directories and files; the life of the drivers (DriverLife), for every    *)
(* set of drivers, interrupt numbers, processes and number of loads; the     *)
(* display (Lcd), for every display whose lines lie as the HD44780's do,     *)
(* all texts, times and numbers of calls; and the programmer of the flash    *)
(* (SpiFlash), for every flash, every file and any number of calls.          *)
(***************************************************************************)
EXTENDS Session, DriverLife, Lcd, SpiFlash, FiniteSetTheorems, SequenceTheorems, TLAPS

(***************************************************************************)
(* Session                                                                  *)
(***************************************************************************)

(* Where confrd is, or goes on after a message has been logged.             *)
InLog == {"vlog", "log_sending", "log_sent"}
Place == IF pc \in InLog THEN log ELSE pc

Configured == {"check", "url", "url_missing", "init_remote", "init_done", "go"}
Testing    == {"files", "parse", "bad_file", "run", "upload", "uploaded"}

TypeInv ==
  /\ wflag \in BOOLEAN /\ team \in Nat /\ number \in Int /\ cfg \in Seq(Lines)
  /\ gd \in [team_no : Int, base_url : Nat, result_id : [dir : Nat, team_no : Int]]

(* What globaldata holds is of this directory, or nothing.                  *)
OfThisTeam == gd.team_no \in {-1, DesignOf(number)} /\ gd.base_url \in {NULL, team}

(* After team.cfg has been read the team is known, ...                      *)
TeamKnown == Place \in Configured \cup Testing => gd.team_no = DesignOf(number)

(* ... and so is the server before a result is asked of it, ...             *)
UrlKnown ==
  wflag /\ Place \in {"url", "init_remote", "init_done", "go"} \cup Testing => gd.base_url = team

(* ... the result before the chip is selected, and from then on the chip.   *)
OwnResult == [dir |-> team, team_no |-> gd.team_no]

ResultKnown == wflag /\ Place \in {"go"} \cup Testing => gd.result_id = OwnResult

ChipSelected == wflag /\ Place \in Testing => target = gd.team_no

Known == OfThisTeam /\ TeamKnown /\ UrlKnown /\ ResultKnown /\ ChipSelected

SessionInv == TypeInv /\ Known /\ OwnTeam

-----------------------------------------------------------------------------
(***************************************************************************)
(* The chip of a team number.                                               *)
(***************************************************************************)
LEMMA DesignOfNumber ==
  ASSUME NEW n \in Int
  PROVE  DesignOf(n) \in Int /\ (n \in 0 .. Designs - 1 => DesignOf(n) = n)
  BY SessionAssumption DEF DesignOf

-----------------------------------------------------------------------------
(***************************************************************************)
(* Logging, and a request that fails or not, only delay what comes next.    *)
(***************************************************************************)
LEMMA LoggerPlace == ASSUME NEW then, Logger(then) PROVE Place' = then
  BY DEF Logger, Place, InLog

LEMMA RequestPlace ==
  ASSUME NEW then, then \notin InLog, Request(then) PROVE Place' = then
  BY DEF Request, Place, InLog

Vlog == VlogReturns \/ VlogLocal \/ VlogRemote \/ LogRequest \/ VlogDone

LEMMA VlogPlace == ASSUME Vlog PROVE Place' = Place /\ UNCHANGED data
  BY DEF Vlog, VlogReturns, VlogLocal, VlogRemote, LogRequest, VlogDone, Place, InLog, data, quiet

(***************************************************************************)
(* A step that leaves the data alone keeps the invariant, if what it goes   *)
(* on with asks for no more than what it comes from.                        *)
(***************************************************************************)
LEMMA DataKept ==
  ASSUME SessionInv, UNCHANGED data,
         \/ Place' = Place
         \/ Place' \notin Configured \cup Testing
         \/ Place \in Testing /\ Place' \in Testing
  PROVE  SessionInv'
<1>1. TypeInv' /\ OfThisTeam' /\ OwnTeam'
  BY DEF SessionInv, Known, TypeInv, OfThisTeam, OwnTeam, data
<1>2. TeamKnown' /\ UrlKnown' /\ ResultKnown' /\ ChipSelected'
  BY DEF SessionInv, Known, TeamKnown, UrlKnown, ResultKnown, OwnResult, ChipSelected, Configured, Testing, data
<1> QED
  BY <1>1, <1>2 DEF SessionInv, Known

(***************************************************************************)
(* main and parser_cfg.c: a directory starts with nothing, and what its     *)
(* team.cfg gives is its own.                                               *)
(***************************************************************************)
LEMMA NextTeamIInv == SessionInv /\ NextTeam => SessionInv'
<1> SUFFICES ASSUME SessionInv, NextTeam PROVE SessionInv'
  OBVIOUS
<1>1. Place' \notin Configured \cup Testing
  <2>1. CASE Logger("bad_cfg")
    BY <2>1, LoggerPlace DEF Configured, Testing
  <2>2. CASE pc' = "cfg"
    BY <2>2 DEF Place, InLog, Configured, Testing
  <2> QED
    BY <2>1, <2>2 DEF NextTeam
<1>2. TypeInv' /\ OfThisTeam' /\ OwnTeam'
  BY SessionAssumption DEF NextTeam, SessionInv, TypeInv, OfThisTeam, OwnTeam, cleared, NULL, NoResult
<1> QED
  BY <1>1, <1>2 DEF SessionInv, Known, TeamKnown, UrlKnown, ResultKnown, OwnResult, ChipSelected, Configured, Testing

LEMMA ParseLineIInv == SessionInv /\ ParseLine => SessionInv'
<1> SUFFICES ASSUME SessionInv, ParseLine PROVE SessionInv'
  OBVIOUS
<1>1. Place' \in {"bad_cfg", "cfg"}
  <2>1. CASE Logger("bad_cfg")
    BY <2>1, LoggerPlace
  <2>2. CASE UNCHANGED <<pc, quiet>>
    BY <2>2 DEF ParseLine, Place, InLog
  <2> QED
    BY <2>1, <2>2 DEF ParseLine
<1>2. /\ Head(cfg) \in Lines /\ cfg' \in Seq(Lines)
      /\ UNCHANGED <<wflag, team, tested>>
  BY DEF ParseLine, SessionInv, TypeInv
<1>3. \/ /\ Head(cfg).key = "team" /\ number' = Head(cfg).no
         /\ gd' = [gd EXCEPT !.team_no = DesignOf(number')]
      \/ number' = number /\ gd' \in {[gd EXCEPT !.base_url = team], gd}
  BY <1>2 DEF ParseLine, Lines
<1>4. TypeInv' /\ OfThisTeam'
  <2>1. CASE Head(cfg).key = "team" /\ number' = Head(cfg).no
             /\ gd' = [gd EXCEPT !.team_no = DesignOf(number')]
    <3>1. number' \in Int
      BY <1>2, <2>1 DEF Lines
    <3>2. DesignOf(number') \in Int
      BY <3>1, DesignOfNumber
    <3> QED
      BY <1>2, <2>1, <3>1, <3>2 DEF SessionInv, Known, TypeInv, OfThisTeam
  <2>2. CASE number' = number /\ gd' \in {[gd EXCEPT !.base_url = team], gd}
    BY <1>2, <2>2 DEF SessionInv, Known, TypeInv, OfThisTeam
  <2> QED
    BY <1>3, <2>1, <2>2
<1>5. OwnTeam'
  BY <1>2 DEF SessionInv, OwnTeam
<1> QED
  BY <1>1, <1>4, <1>5 DEF SessionInv, Known, TeamKnown, UrlKnown, ResultKnown, OwnResult, ChipSelected, Configured, Testing

LEMMA EndOfCfgIInv == SessionInv /\ EndOfCfg => SessionInv'
<1> SUFFICES ASSUME SessionInv, EndOfCfg PROVE SessionInv'
  OBVIOUS
<1>1. CASE gd.team_no < 0
  BY <1>1, LoggerPlace, DataKept DEF EndOfCfg, Configured, Testing
<1>2. CASE ~ (gd.team_no < 0)
  <2>1. Place' = "check"
    BY <1>2 DEF EndOfCfg, Place, InLog
  <2>2. TypeInv' /\ OfThisTeam' /\ OwnTeam'
    BY DEF EndOfCfg, SessionInv, Known, TypeInv, OfThisTeam, OwnTeam, data
  <2>3. gd.team_no = DesignOf(number)
    BY <1>2 DEF SessionInv, Known, OfThisTeam
  <2> QED
    BY <2>1, <2>2, <2>3 DEF EndOfCfg, data, SessionInv, Known, TeamKnown, UrlKnown, ResultKnown, OwnResult, ChipSelected, Testing
<1> QED
  BY <1>1, <1>2

(***************************************************************************)
(* parse_team_dir up to the selection of the chip.                          *)
(***************************************************************************)
LEMMA CheckUrlIInv == SessionInv /\ CheckUrl => SessionInv'
<1> SUFFICES ASSUME SessionInv, CheckUrl PROVE SessionInv'
  OBVIOUS
<1>1. Place = "check"
  BY DEF CheckUrl, Place, InLog
<1>2. \/ Place' = "url_missing"
      \/ Place' = "url" /\ (wflag => gd.base_url # NULL)
  <2>1. CASE Logger("url_missing")
    BY <2>1, LoggerPlace
  <2>2. CASE ~ Logger("url_missing")
    BY <2>2 DEF CheckUrl, Place, InLog
  <2> QED
    BY <2>1, <2>2
<1>3. TypeInv' /\ OfThisTeam' /\ OwnTeam'
  BY DEF CheckUrl, SessionInv, Known, TypeInv, OfThisTeam, OwnTeam, data
<1>4. TeamKnown' /\ UrlKnown'
  BY <1>1, <1>2 DEF CheckUrl, data, SessionInv, Known, OfThisTeam, TeamKnown, UrlKnown, Configured, Testing
<1> QED
  BY <1>2, <1>3, <1>4 DEF SessionInv, Known, ResultKnown, OwnResult, ChipSelected, Testing

LEMMA SetUrlIInv == SessionInv /\ SetUrl => SessionInv'
<1> SUFFICES ASSUME SessionInv, SetUrl PROVE SessionInv'
  OBVIOUS
<1>1. /\ Place \in {"url", "url_missing"} /\ Place' \in {"failed", "init_remote", "go"}
      /\ Place' # "failed" => Place = "url"
      /\ Place' = "go" => ~wflag
  BY DEF SetUrl, Place, InLog
<1>2. TypeInv' /\ OfThisTeam' /\ OwnTeam'
  BY DEF SetUrl, SessionInv, Known, TypeInv, OfThisTeam, OwnTeam
<1> QED
  BY <1>1, <1>2 DEF SetUrl, SessionInv, Known, TeamKnown, UrlKnown, ResultKnown, OwnResult, ChipSelected, Configured, Testing

LEMMA InitRemoteIInv == SessionInv /\ InitRemote => SessionInv'
<1> SUFFICES ASSUME SessionInv, InitRemote PROVE SessionInv'
  OBVIOUS
<1>1. Place = "init_remote" /\ Place' = "init_done"
  BY RequestPlace DEF InitRemote, Place, InLog
<1>2. TypeInv' /\ OfThisTeam' /\ OwnTeam'
  BY DEF InitRemote, SessionInv, Known, TypeInv, OfThisTeam, OwnTeam, data
<1> QED
  BY <1>1, <1>2 DEF InitRemote, data, SessionInv, Known, TeamKnown, UrlKnown, ResultKnown, OwnResult, ChipSelected, Configured, Testing

LEMMA InitDoneIInv == SessionInv /\ InitDone => SessionInv'
<1> SUFFICES ASSUME SessionInv, InitDone PROVE SessionInv'
  OBVIOUS
<1>1. Place = "init_done"
  BY DEF InitDone, Place, InLog
<1>2. CASE Place' = "failed" /\ UNCHANGED gd
  <2>1. UNCHANGED data
    BY <1>2 DEF InitDone, data
  <2> QED
    BY <1>2, <2>1, DataKept DEF Configured, Testing
<1>3. CASE Place' = "go" /\ gd' = [gd EXCEPT !.result_id = OwnResult]
  <2>1. TypeInv' /\ OfThisTeam' /\ OwnTeam' /\ gd'.result_id = OwnResult
    BY <1>3 DEF InitDone, SessionInv, Known, TypeInv, OfThisTeam, OwnTeam
  <2>2. gd'.team_no = gd.team_no /\ gd'.base_url = gd.base_url
    BY <1>3 DEF SessionInv, TypeInv
  <2> QED
    BY <1>1, <1>3, <2>1, <2>2
    DEF InitDone, SessionInv, Known, TeamKnown, UrlKnown, ResultKnown, OwnResult, ChipSelected, Configured, Testing
<1>4. \/ Place' = "failed" /\ UNCHANGED gd
      \/ Place' = "go" /\ gd' = [gd EXCEPT !.result_id = OwnResult]
  <2>1. CASE Logger("failed") /\ UNCHANGED gd
    BY <2>1, LoggerPlace
  <2>2. CASE ~ (Logger("failed") /\ UNCHANGED gd)
    BY <2>2 DEF InitDone, OwnResult, Place, InLog
  <2> QED
    BY <2>1, <2>2
<1> QED
  BY <1>2, <1>3, <1>4

LEMMA GoTargetIInv == SessionInv /\ GoTarget => SessionInv'
<1> SUFFICES ASSUME SessionInv, GoTarget PROVE SessionInv'
  OBVIOUS
<1>1. Place = "go" /\ Place' \in {"files", "failed"}
  BY DEF GoTarget, GoFailed, Place, InLog
<1>2. Place' = "files" /\ wflag => target' = gd.team_no
  BY DEF GoTarget, GoFailed, Place, InLog
<1>3. TypeInv' /\ OfThisTeam' /\ OwnTeam'
  BY DEF GoTarget, SessionInv, Known, TypeInv, OfThisTeam, OwnTeam
<1>5. TeamKnown' /\ UrlKnown' /\ ResultKnown'
  BY <1>1 DEF GoTarget, SessionInv, Known, TeamKnown, UrlKnown, ResultKnown, OwnResult, Configured, Testing
<1>6. ChipSelected'
  BY <1>1, <1>2 DEF GoTarget, ChipSelected, Testing
<1> QED
  BY <1>3, <1>5, <1>6 DEF SessionInv, Known

(***************************************************************************)
(* The files of a directory.                                                *)
(***************************************************************************)
LEMMA RunFileIInv == SessionInv /\ RunFile => SessionInv'
<1> SUFFICES ASSUME SessionInv, RunFile PROVE SessionInv'
  OBVIOUS
<1>1. Place = "run" /\ Place' \in {"upload", "failed", "files"}
  BY DEF RunFile, Place, InLog
<1>2. CASE UNCHANGED tested
  <2>1. UNCHANGED data
    BY <1>2 DEF RunFile, data
  <2> QED
    BY <1>1, <2>1, DataKept DEF Configured, Testing
<1> DEFINE run == [team |-> team, number |-> number, chip |-> target,
                   result |-> gd.result_id, server |-> gd.base_url]
<1>3. CASE wflag /\ tested' = tested \cup {run}
  <2>1. /\ target = DesignOf(number) /\ gd.base_url = team
        /\ gd.result_id = [dir |-> team, team_no |-> DesignOf(number)]
    BY <1>1, <1>3 DEF SessionInv, Known, TeamKnown, UrlKnown, ResultKnown, ChipSelected, OwnResult,
                      Testing
  <2>a. number \in 0 .. Designs - 1 => DesignOf(number) = number
    BY DesignOfNumber DEF SessionInv, TypeInv
  <2>2. OwnTeam'
    BY <1>3, <2>1, <2>a DEF SessionInv, OwnTeam
  <2>3. TypeInv' /\ OfThisTeam'
    BY DEF RunFile, SessionInv, Known, TypeInv, OfThisTeam
  <2>4. TeamKnown' /\ UrlKnown' /\ ResultKnown' /\ ChipSelected'
    BY <1>1 DEF RunFile, SessionInv, Known, TeamKnown, UrlKnown, ResultKnown, OwnResult, ChipSelected, Configured, Testing
  <2> QED
    BY <2>2, <2>3, <2>4 DEF SessionInv, Known
<1> QED
  BY <1>2, <1>3 DEF RunFile

OfFiles == OpenDirFails \/ NextFile \/ ParseFile \/ BadFile \/ UploadResults \/ Uploaded

LEMMA OfFilesIInv == SessionInv /\ OfFiles => SessionInv'
<1> SUFFICES ASSUME SessionInv, OfFiles PROVE SessionInv'
  OBVIOUS
<1>1. CASE OpenDirFails
  BY <1>1, DataKept DEF OpenDirFails, Place, InLog, Configured, Testing
<1>2. CASE NextFile
  <2>1. Place = "files" /\ Place' = "parse"
    BY <1>2, LoggerPlace DEF NextFile, Place, InLog
  <2>2. TypeInv' /\ OfThisTeam' /\ OwnTeam'
    BY <1>2 DEF NextFile, SessionInv, Known, TypeInv, OfThisTeam, OwnTeam
  <2> QED
    BY <1>2, <2>1, <2>2
    DEF NextFile, SessionInv, Known, TeamKnown, UrlKnown, ResultKnown, OwnResult, ChipSelected, Configured, Testing
<1>3. CASE ParseFile
  <2>1. Place = "parse" /\ UNCHANGED data
    BY <1>3 DEF ParseFile, Place, InLog
  <2>2. Place' \in {"bad_file", "run"}
    <3>1. CASE Logger("bad_file")
      BY <3>1, LoggerPlace
    <3>2. CASE ~ Logger("bad_file")
      BY <1>3, <3>2 DEF ParseFile, Place, InLog
    <3> QED
      BY <3>1, <3>2
  <2> QED
    BY <2>1, <2>2, DataKept DEF Testing
<1>4. CASE BadFile
  <2>1. Place = "bad_file" /\ UNCHANGED data
    BY <1>4 DEF BadFile, Place, InLog
  <2> QED
    BY <1>4, <2>1, LoggerPlace, DataKept DEF BadFile, Testing
<1>5. CASE UploadResults
  <2>1. Place = "upload" /\ Place' = "uploaded" /\ UNCHANGED data
    BY <1>5, RequestPlace DEF UploadResults, Place, InLog
  <2> QED
    BY <2>1, DataKept DEF Testing
<1>6. CASE Uploaded
  <2>1. Place = "uploaded" /\ UNCHANGED data
    BY <1>6 DEF Uploaded, Place, InLog
  <2>2. Place' = "files"
    <3>1. CASE Logger("files")
      BY <3>1, LoggerPlace
    <3>2. CASE ~ Logger("files")
      BY <1>6, <3>2 DEF Uploaded, Place, InLog
    <3> QED
      BY <3>1, <3>2
  <2> QED
    BY <2>1, <2>2, DataKept DEF Testing
<1> QED
  BY <1>1, <1>2, <1>3, <1>4, <1>5, <1>6 DEF OfFiles

(* What ends something: the card, a directory, a team.cfg in error.         *)
Ending == Start \/ TeamFailed \/ Finish \/ BadCfg

LEMMA EndingIInv == SessionInv /\ Ending => SessionInv'
<1> SUFFICES ASSUME SessionInv, Ending PROVE SessionInv'
  OBVIOUS
<1>1. UNCHANGED data
  BY DEF Ending, Start, TeamFailed, Finish, BadCfg
<1>2. Place' \notin Configured \cup Testing
  <2>1. CASE Logger("teams")
    BY <2>1, LoggerPlace DEF Configured, Testing
  <2>2. CASE Logger("failed")
    BY <2>2, LoggerPlace DEF Configured, Testing
  <2>3. CASE Start \/ Finish
    BY <2>3 DEF Start, Finish, Place, InLog, Configured, Testing
  <2> QED
    BY <2>1, <2>2, <2>3 DEF Ending, TeamFailed, BadCfg
<1> QED
  BY <1>1, <1>2, DataKept

-----------------------------------------------------------------------------
LEMMA SessionInitHolds == SessionInit => SessionInv
<1> SUFFICES ASSUME SessionInit PROVE SessionInv
  OBVIOUS
<1>1. Place = "start"
  BY DEF SessionInit, Place, InLog
<1> QED
  BY <1>1 DEF SessionInit, SessionInv, Known, TypeInv, OfThisTeam, TeamKnown, UrlKnown, ResultKnown, OwnResult, ChipSelected,
              OwnTeam, Configured, Testing, cleared, NULL, NoResult

LEMMA SessionStepKeeps == SessionInv /\ [SessionNext]_sessionVars => SessionInv'
<1> SUFFICES ASSUME SessionInv, [SessionNext]_sessionVars PROVE SessionInv'
  OBVIOUS
<1>1. CASE Vlog
  BY <1>1, VlogPlace, DataKept
<1>2. CASE Ending \/ NextTeam
  BY <1>2, EndingIInv, NextTeamIInv
<1>3. CASE ParseLine \/ EndOfCfg
  BY <1>3, ParseLineIInv, EndOfCfgIInv
<1>4. CASE CheckUrl \/ SetUrl \/ InitRemote \/ InitDone \/ GoTarget
  BY <1>4, CheckUrlIInv, SetUrlIInv, InitRemoteIInv, InitDoneIInv, GoTargetIInv
<1>5. CASE OfFiles \/ RunFile
  BY <1>5, OfFilesIInv, RunFileIInv
<1>6. CASE EndOfDir
  BY <1>6, DataKept DEF EndOfDir, data, Place, InLog, Configured, Testing
<1>7. CASE UNCHANGED sessionVars
  BY <1>7, DataKept DEF sessionVars, data, Place
<1> QED
  BY <1>1, <1>2, <1>3, <1>4, <1>5, <1>6, <1>7 DEF SessionNext, Vlog, Ending, OfFiles, Stopped

(***************************************************************************)
(* Whatever the team.cfgs on the card are and whichever requests and runs   *)
(* fail, vectors run only into the result of their own directory, and on    *)
(* the chip of the team that result is of, which is the team of team.cfg    *)
(* whenever there is a chip of its number (parse_team_dir, init_remote, go, *)
(* parse_line_team).                                                        *)
(***************************************************************************)
THEOREM TestedForOwnTeam == SessionSpec => []OwnTeam
<1>1. SessionInv => OwnTeam
  BY DEF SessionInv
<1> QED
  BY <1>1, SessionInitHolds, SessionStepKeeps, PTL DEF SessionSpec

-----------------------------------------------------------------------------
(***************************************************************************)
(* DriverLife.  Everything is acquired in the order of the lists, of which   *)
(* the module has a tail left: what it holds of the device comes before what  *)
(* it has left to acquire, and is among what it has left to release.          *)
(***************************************************************************)
Modules == {"class", "region", "driver"}

(* The order in which everything is acquired, by any of the drivers.        *)
Rank(s) ==
  CASE s = "class" -> 1 [] s = "region" -> 2 [] s = "driver" -> 3
    [] s = "get_irq" -> 4 [] s = "resource" -> 5 [] s = "mapping" -> 6 [] s = "magic" -> 7
    [] s = "data" -> 8 [] s = "irq" -> 9 [] s = "cdev" -> 10 [] s = "device" -> 11

Entries(s) == { s[i] : i \in DOMAIN s }

(* What is acquired in order, and the interrupt released before the mapping. *)
InOrder(s) == \A i, j \in DOMAIN s : i < j => Rank(s[i]) < Rank(s[j])
IrqFirst(s) == \A i, j \in DOMAIN s : s[i] = "irq" /\ s[j] = "mapping" => i < j

(* Two references for each process that has the device open.                *)
OpenInv == refs = 2 * Cardinality(open)

(* An interrupt is never had for a device without one.                      *)
IrqInv == "irq" \in held => irq >= 0 /\ driver # "de2lcd"

(* init: a class or region that is held already is that of a module whose    *)
(* platform_driver_register failed; class_create then fails.                *)
InitInv ==
  stage = "init" =>
    /\ todo # <<>> /\ InOrder(todo) /\ failed = "none"
    /\ Entries(todo) \subseteq Modules /\ todo[Len(todo)] = "driver"
    /\ held \cap OfDevice = {} /\ "driver" \notin held
    /\ IF "class" \in Entries(todo)
       THEN "region" \in Entries(todo) /\ (held \subseteq {"data"} \/ {"class", "region"} \subseteq held)
       ELSE "class" \in held /\ ("region" \in held <=> "region" \notin Entries(todo))

(* probe: what it has to acquire comes after what it has, and that is all.  *)
ProbeInv ==
  stage = "probe" =>
    /\ todo # <<>> /\ InOrder(todo) /\ failed = "none"
    /\ Entries(todo) \subseteq Entries(device.probe) /\ todo[Len(todo)] = "device"
    /\ Modules \subseteq held
    /\ \A x \in held \cap OfDevice, y \in Entries(todo) : Rank(x) < Rank(y)
    /\ Entries(device.probe) \ Looks \subseteq held \cup Entries(todo)

(* An error path, remove and exit: they release whatever is held (but the   *)
(* platform data), the interrupt before the registers it reads.             *)
UndoInv ==
  /\ stage = "undo_init" => todo # <<>> /\ held \ {"data"} \subseteq Entries(todo) /\ Entries(todo) \subseteq {"class"}
  /\ stage = "undo_probe" =>
       /\ todo # <<>> /\ IrqFirst(todo) /\ Entries(todo) \subseteq OfDevice /\ "device" \notin held
       /\ held \cap OfDevice \subseteq Entries(todo) /\ Modules \subseteq held /\ failed # "none"
  /\ stage = "exit" => /\ todo # <<>> /\ IrqFirst(todo) /\ "data" \notin Entries(todo)
                    /\ held \ {"data"} \subseteq Entries(todo)

(* A loaded module has the device or nothing of it.                         *)
LiveInv ==
  stage = "live" =>
    /\ Modules \subseteq held
    /\ IF "device" \in held THEN {"mapping", "data", "cdev"} \subseteq held ELSE held \cap OfDevice = {}

LifeInv ==
  /\ LifeTypeOK /\ OpenInv /\ IrqInv
  /\ InitInv /\ ProbeInv /\ UndoInv /\ LiveInv
  /\ HandlerSafe /\ UsersSafe /\ NothingHalfDone

-----------------------------------------------------------------------------
Steps == Looks \cup Resources

(* What remains true of a list when its first entry is taken.               *)
LEMMA TailFacts ==
  ASSUME NEW s \in Seq(Steps), s # <<>>
  PROVE  /\ Tail(s) \in Seq(Steps) /\ Head(s) \in Steps
         /\ Entries(s) = {Head(s)} \cup Entries(Tail(s))
         /\ InOrder(s) => InOrder(Tail(s)) /\ \A y \in Entries(Tail(s)) : Rank(Head(s)) < Rank(y)
         /\ IrqFirst(s) => IrqFirst(Tail(s)) /\ (Head(s) = "mapping" => "irq" \notin Entries(Tail(s)))
         /\ Tail(s) # <<>> => Tail(s)[Len(Tail(s))] = s[Len(s)]
         /\ Tail(s) = <<>> => Head(s) = s[Len(s)]
<1>1. /\ Len(s) \in Nat /\ Len(s) >= 1 /\ DOMAIN s = 1 .. Len(s)
      /\ Head(s) = s[1] /\ Tail(s) \in Seq(Steps) /\ Len(Tail(s)) = Len(s) - 1
      /\ DOMAIN Tail(s) = 1 .. Len(s) - 1
      /\ \A i \in 1 .. Len(s) - 1 : Tail(s)[i] = s[i + 1]
  BY HeadTailProperties, EmptySeq, LenProperties
<1>2. Head(s) \in Steps
  BY <1>1, ElementOfSeq
<1>3. Entries(s) = {Head(s)} \cup Entries(Tail(s))
  <2>1. \A i \in 1 .. Len(s) : i = 1 \/ (i - 1 \in 1 .. Len(s) - 1 /\ Tail(s)[i - 1] = s[i])
    BY <1>1
  <2>2. \A i \in 1 .. Len(s) - 1 : i + 1 \in 1 .. Len(s) /\ Tail(s)[i] = s[i + 1]
    BY <1>1
  <2>3. 1 \in 1 .. Len(s)
    BY <1>1
  <2>4. ASSUME NEW i \in 1 .. Len(s) PROVE s[i] \in {Head(s)} \cup Entries(Tail(s))
    BY <1>1, <2>1 DEF Entries
  <2>5. ASSUME NEW i \in 1 .. Len(s) - 1 PROVE Tail(s)[i] \in Entries(s)
    BY <1>1, <2>2 DEF Entries
  <2>6. Head(s) \in Entries(s)
    BY <1>1, <2>3 DEF Entries
  <2> QED
    BY <1>1, <2>4, <2>5, <2>6 DEF Entries
<1>4. InOrder(s) => InOrder(Tail(s)) /\ \A y \in Entries(Tail(s)) : Rank(Head(s)) < Rank(y)
  <2> SUFFICES ASSUME InOrder(s)
               PROVE  InOrder(Tail(s)) /\ \A y \in Entries(Tail(s)) : Rank(Head(s)) < Rank(y)
    OBVIOUS
  <2>1. \A i \in 1 .. Len(s) - 1 : 1 < i + 1 /\ i + 1 \in DOMAIN s /\ 1 \in DOMAIN s /\ Tail(s)[i] = s[i + 1]
    BY <1>1
  <2>2. \A y \in Entries(Tail(s)) : Rank(Head(s)) < Rank(y)
    BY <1>1, <2>1 DEF InOrder, Entries
  <2>3. \A i, j \in 1 .. Len(s) - 1 : i < j => i + 1 < j + 1
    BY <1>1
  <2>4. InOrder(Tail(s))
    BY <1>1, <2>1, <2>3 DEF InOrder
  <2> QED
    BY <2>2, <2>4
<1>5. IrqFirst(s) => IrqFirst(Tail(s)) /\ (Head(s) = "mapping" => "irq" \notin Entries(Tail(s)))
  <2> SUFFICES ASSUME IrqFirst(s)
               PROVE  IrqFirst(Tail(s)) /\ (Head(s) = "mapping" => "irq" \notin Entries(Tail(s)))
    OBVIOUS
  <2>1. \A i \in 1 .. Len(s) - 1 : ~(i + 1 < 1) /\ i + 1 \in DOMAIN s /\ 1 \in DOMAIN s /\ Tail(s)[i] = s[i + 1]
    BY <1>1
  <2>2. Head(s) = "mapping" => "irq" \notin Entries(Tail(s))
    BY <1>1, <2>1 DEF IrqFirst, Entries
  <2>3. \A i, j \in 1 .. Len(s) - 1 : i + 1 < j + 1 => i < j
    BY <1>1
  <2>4. IrqFirst(Tail(s))
    BY <1>1, <2>1, <2>3 DEF IrqFirst
  <2> QED
    BY <2>2, <2>4
<1>6. Tail(s) # <<>> => Tail(s)[Len(Tail(s))] = s[Len(s)]
  <2> SUFFICES ASSUME Tail(s) # <<>> PROVE Tail(s)[Len(Tail(s))] = s[Len(s)]
    OBVIOUS
  <2>1. Len(Tail(s)) # 0
    BY <1>1, EmptySeq
  <2>2. Len(s) - 1 \in 1 .. Len(s) - 1 /\ Len(s) - 1 + 1 = Len(s)
    BY <1>1, <2>1
  <2> QED
    BY <1>1, <2>2
<1>7. Tail(s) = <<>> => Head(s) = s[Len(s)]
  <2>1. Len(<<>>) = 0
    BY EmptySeq
  <2>2. Tail(s) = <<>> => Len(s) - 1 = 0
    BY <1>1, <2>1
  <2>3. Tail(s) = <<>> => Len(s) = 1
    BY <1>1, <2>2
  <2> QED
    BY <1>1, <2>3
<1> QED
  BY <1>1, <1>2, <1>3, <1>4, <1>5, <1>6, <1>7

(***************************************************************************)
(* The lists of the drivers.                                                *)
(***************************************************************************)
LEMMA ProbeList ==
  ASSUME driver \in Drivers
  PROVE  LET p == device.probe
         IN  /\ p \in Seq(Steps) /\ p # <<>> /\ InOrder(p) /\ p[Len(p)] = "device"
             /\ Entries(p) \subseteq Looks \cup {"mapping", "data", "irq", "cdev", "device"}
             /\ {"mapping", "data", "cdev", "device"} \subseteq Entries(p)
             /\ "irq" \in Entries(p) <=> driver # "de2lcd"
<1> DEFINE t == <<"get_irq", "resource", "mapping", "magic", "data", "irq", "cdev", "device">>
           l == <<"resource", "mapping", "data", "cdev", "device">>
<1>1. driver \in {"trunner", "adc", "fcounter", "de2lcd"}
  BY DriverAssumption
<1>2. IF driver = "de2lcd" THEN device.probe = l ELSE device.probe = t
  BY <1>1 DEF device, trunner_device, adc_device, fcounter_device, de2lcd_device
<1>3. t \in Seq(Steps) /\ Len(t) = 8 /\ t # <<>> /\ DOMAIN t = 1 .. 8
  BY DEF Steps, Looks, Resources
<1>4. l \in Seq(Steps) /\ Len(l) = 5 /\ l # <<>> /\ DOMAIN l = 1 .. 5
  BY DEF Steps, Looks, Resources
<1>5. \A i \in 1 .. 8 : Rank(t[i]) = 3 + i
  BY DEF Rank
<1>6. \A i, j \in 1 .. 8 : i < j => 3 + i < 3 + j
  OBVIOUS
<1>7. InOrder(t)
  BY <1>3, <1>5, <1>6 DEF InOrder
<1>8. \A i \in 1 .. 5 : Rank(l[i]) = CASE i = 1 -> 5 [] i = 2 -> 6 [] i = 3 -> 8 [] i = 4 -> 10 [] i = 5 -> 11
  BY DEF Rank
<1>9. InOrder(l)
  BY <1>4, <1>8 DEF InOrder
<1>10. Entries(t) = {"get_irq", "resource", "mapping", "magic", "data", "irq", "cdev", "device"}
  BY <1>3 DEF Entries
<1>11. Entries(l) = {"resource", "mapping", "data", "cdev", "device"}
  BY <1>4 DEF Entries
<1>12. t[8] = "device" /\ l[5] = "device"
  OBVIOUS
<1>13. CASE driver = "de2lcd"
  <2>1. device.probe = l
    BY <1>2, <1>13
  <2> HIDE DEF l, t
  <2> QED
    <3>1. l \in Seq(Steps) /\ l # <<>> /\ InOrder(l) /\ l[Len(l)] = "device"
      BY <1>4, <1>9, <1>12
    <3>2. /\ Entries(l) \subseteq Looks \cup {"mapping", "data", "irq", "cdev", "device"}
          /\ {"mapping", "data", "cdev", "device"} \subseteq Entries(l)
          /\ "irq" \notin Entries(l)
      BY <1>11 DEF Looks
    <3> QED
      BY <1>13, <2>1, <3>1, <3>2
<1>14. CASE driver # "de2lcd"
  <2>1. device.probe = t
    BY <1>2, <1>14
  <2> HIDE DEF l, t
  <2> QED
    BY <1>3, <1>7, <1>10, <1>12, <1>14, <2>1 DEF Looks
<1> QED
  BY <1>13, <1>14

(* Two lists, one after the other.                                          *)
LEMMA ConcatFacts ==
  ASSUME NEW s \in Seq(Steps), NEW t \in Seq(Steps)
  PROVE  /\ s \o t \in Seq(Steps) /\ (t # <<>> => s \o t # <<>>)
         /\ Entries(s \o t) = Entries(s) \cup Entries(t)
         /\ IrqFirst(s) /\ IrqFirst(t) /\ ("mapping" \notin Entries(s) \/ "irq" \notin Entries(t))
              => IrqFirst(s \o t)
<1> DEFINE c == s \o t
           m == Len(s)
           n == Len(t)
<1>1. m \in Nat /\ n \in Nat /\ DOMAIN s = 1 .. m /\ DOMAIN t = 1 .. n
  BY LenProperties
<1>2. c \in Seq(Steps) /\ Len(c) = m + n /\ \A i \in 1 .. m + n : c[i] = IF i <= m THEN s[i] ELSE t[i - m]
  BY ConcatProperties
<1>3. DOMAIN c = 1 .. m + n
  BY <1>2, LenProperties
<1>4. t # <<>> => c # <<>>
  BY ConcatEqualIffEmpty
<1> HIDE DEF c, m, n
<1>5. ASSUME NEW i \in 1 .. m + n PROVE c[i] \in Entries(s) \cup Entries(t)
  <2>1. CASE i <= m
    <3>1. i \in DOMAIN s /\ c[i] = s[i]
      BY <1>1, <1>2, <2>1
    <3> QED
      BY <3>1 DEF Entries
  <2>2. CASE ~(i <= m)
    <3>1. i - m \in 1 .. n
      BY <1>1, <2>2
    <3> QED
      BY <1>1, <1>2, <2>2, <3>1 DEF Entries
  <2> QED
    BY <2>1, <2>2
<1>6. ASSUME NEW i \in 1 .. m PROVE s[i] \in Entries(c)
  <2>1. i \in 1 .. m + n /\ c[i] = s[i]
    BY <1>1, <1>2
  <2> QED
    BY <1>3, <2>1 DEF Entries
<1>7. ASSUME NEW i \in 1 .. n PROVE t[i] \in Entries(c)
  <2> DEFINE k == i + m
  <2>1. k \in 1 .. m + n /\ ~(k <= m) /\ k - m = i
    BY <1>1
  <2> HIDE DEF k
  <2>2. c[k] = t[i]
    BY <1>2, <2>1
  <2> QED
    BY <1>3, <2>1, <2>2 DEF Entries
<1>8. Entries(c) = Entries(s) \cup Entries(t)
  BY <1>1, <1>3, <1>5, <1>6, <1>7 DEF Entries
<1>9. ASSUME IrqFirst(s), IrqFirst(t), "mapping" \notin Entries(s) \/ "irq" \notin Entries(t),
             NEW i \in 1 .. m + n, NEW j \in 1 .. m + n, c[i] = "irq", c[j] = "mapping", ~(i < j)
      PROVE  FALSE
  <2>1. j <= i /\ i \in Int /\ j \in Int
    BY <1>1, <1>9
  <2>2. CASE i <= m
    <3>1. i \in DOMAIN s /\ j \in DOMAIN s /\ s[i] = "irq" /\ s[j] = "mapping"
      BY <1>1, <1>2, <1>9, <2>1, <2>2
    <3> QED
      BY <1>9, <3>1 DEF IrqFirst
  <2>3. CASE ~(j <= m)
    <3>1. i - m \in DOMAIN t /\ j - m \in DOMAIN t /\ ~(i - m < j - m)
      BY <1>1, <2>1, <2>3
    <3>2. t[i - m] = "irq" /\ t[j - m] = "mapping"
      BY <1>1, <1>2, <1>9, <2>1, <2>3
    <3> QED
      BY <1>9, <3>1, <3>2 DEF IrqFirst
  <2>4. CASE ~(i <= m) /\ j <= m
    <3>1. i - m \in DOMAIN t /\ t[i - m] = "irq" /\ j \in DOMAIN s /\ s[j] = "mapping"
      BY <1>1, <1>2, <1>9, <2>4
    <3> QED
      BY <1>9, <3>1 DEF Entries
  <2> QED
    BY <2>2, <2>3, <2>4
<1> QED
  BY <1>2, <1>3, <1>4, <1>8, <1>9 DEF c, IrqFirst

LEMMA UndoList ==
  ASSUME driver \in Drivers, irq \in IrqNumbers, NEW s \in Steps
  PROVE  LET u == undo(s)
         IN  /\ u \in Seq(Steps) /\ IrqFirst(u)
             /\ s \in {"class", "driver", "get_irq", "resource", "mapping"} => u = <<>>
             /\ s = "region" => u # <<>> /\ Entries(u) = {"class"}
             /\ s \in {"magic", "data", "irq", "cdev", "device"} =>
                  /\ u # <<>> /\ Entries(u) \subseteq OfDevice /\ "mapping" \in Entries(u)
                  /\ s = "device" => "cdev" \in Entries(u)
                  /\ irq >= 0 /\ driver # "de2lcd" => "irq" \in Entries(u)
<1> DEFINE c == IF s = "device" THEN <<"cdev">> ELSE <<>>
           i == IF irq >= 0 /\ driver # "de2lcd" THEN <<"irq">> ELSE <<>>
           m == <<"mapping">>
<1>1. driver \in {"trunner", "adc", "fcounter", "de2lcd"} /\ irq \in Int
  BY DriverAssumption
<1>2. <<"mapping">> \in Seq(Steps) /\ <<>> \o <<"mapping">> = <<"mapping">>
  BY ConcatEmptySeq DEF Steps, Looks, Resources
<1>3. device.error = i \o m
  BY <1>1, <1>2 DEF device, trunner_device, adc_device, fcounter_device, de2lcd_device
<1>4. CASE s \in {"class", "driver", "get_irq", "resource", "mapping"}
  <2>1. undo(s) = <<>>
    BY <1>4 DEF undo
  <2> QED
    BY <1>4, <2>1, EmptySeq DEF IrqFirst
<1>5. CASE s = "region"
  <2>1. undo(s) = <<"class">>
    BY <1>5 DEF undo
  <2>2. <<"class">> \in Seq(Steps) /\ <<"class">> # <<>> /\ IrqFirst(<<"class">>) /\ Entries(<<"class">>) = {"class"}
    BY DEF Steps, Looks, Resources, IrqFirst, Entries
  <2> QED
    BY <1>5, <2>1, <2>2
<1>6. CASE s \in {"magic", "data", "irq", "cdev", "device"}
  <2>1. undo(s) = c \o (i \o m)
    BY <1>3, <1>6 DEF undo
  <2>2. c \in Seq(Steps) /\ i \in Seq(Steps) /\ m \in Seq(Steps) /\ m # <<>>
    <3>1. {<<"cdev">>, <<"irq">>, <<"mapping">>, <<>>} \subseteq Seq(Steps) /\ <<"mapping">> # <<>>
      BY DEF Steps, Looks, Resources
    <3> QED
      BY <3>1
  <2>3. IrqFirst(c) /\ IrqFirst(i) /\ IrqFirst(m)
    BY DEF IrqFirst
  <2>4. Entries(c) = (IF s = "device" THEN {"cdev"} ELSE {}) /\ Entries(m) = {"mapping"}
    BY DEF Entries
  <2>5. Entries(i) = IF irq >= 0 /\ driver # "de2lcd" THEN {"irq"} ELSE {}
    BY DEF Entries
  <2>c. "mapping" \notin Entries(c) /\ "mapping" \notin Entries(i)
    BY <2>4, <2>5
  <2> HIDE DEF c, i, m
  <2>6. /\ i \o m \in Seq(Steps) /\ i \o m # <<>> /\ Entries(i \o m) = Entries(i) \cup Entries(m)
        /\ IrqFirst(i \o m)
    BY <2>2, <2>3, <2>c, ConcatFacts
  <2>7. /\ c \o (i \o m) \in Seq(Steps) /\ c \o (i \o m) # <<>>
        /\ Entries(c \o (i \o m)) = Entries(c) \cup Entries(i) \cup Entries(m)
        /\ IrqFirst(c \o (i \o m))
    <3>1. c \o (i \o m) \in Seq(Steps) /\ c \o (i \o m) # <<>>
      BY <2>2, <2>6, ConcatFacts
    <3>2. Entries(c \o (i \o m)) = Entries(c) \cup Entries(i \o m)
      BY <2>2, <2>6, ConcatFacts
    <3>3. IrqFirst(c \o (i \o m))
      BY <2>2, <2>3, <2>c, <2>6, ConcatFacts
    <3> QED
      BY <2>6, <3>1, <3>2, <3>3
  <2> QED
    BY <1>6, <2>1, <2>4, <2>5, <2>7 DEF OfDevice
<1> QED
  BY <1>4, <1>5, <1>6 DEF Steps, Looks, Resources

LEMMA ExitList ==
  ASSUME driver \in Drivers
  PROVE  LET e == (IF "device" \in held THEN device.remove ELSE <<>>) \o module.exit
         IN  /\ e \in Seq(Steps) /\ e # <<>> /\ IrqFirst(e)
             /\ Modules \subseteq Entries(e) /\ "data" \notin Entries(e)
             /\ "device" \in held =>
                  /\ {"device", "cdev", "mapping"} \subseteq Entries(e)
                  /\ driver # "de2lcd" => "irq" \in Entries(e)
<1> DEFINE x == <<"driver", "region", "class">>
           r == IF driver = "de2lcd" THEN <<"device", "cdev", "mapping">>
                                     ELSE <<"device", "cdev", "irq", "mapping">>
           d == IF "device" \in held THEN r ELSE <<>>
<1>1. driver \in {"trunner", "adc", "fcounter", "de2lcd"}
  BY DriverAssumption
<1>2. module.exit = x
  BY <1>1 DEF module, trunner_module, adc_module, fcounter_module, de2lcd_module
<1>3. device.remove = r
  BY <1>1 DEF device, trunner_device, adc_device, fcounter_device, de2lcd_device
<1>4. x \in Seq(Steps) /\ x # <<>> /\ IrqFirst(x) /\ Entries(x) = Modules
  <2>1. x \in Seq(Steps) /\ x # <<>>
    BY DEF Steps, Looks, Resources
  <2>2. IrqFirst(x)
    BY DEF IrqFirst
  <2>3. Entries(x) = Modules
    BY DEF Entries, Modules
  <2> QED
    BY <2>1, <2>2, <2>3
<1>5. r \in Seq(Steps) /\ IrqFirst(r)
  <2>1. {<<"device", "cdev", "mapping">>, <<"device", "cdev", "irq", "mapping">>} \subseteq Seq(Steps)
    BY DEF Steps, Looks, Resources
  <2>2. IrqFirst(<<"device", "cdev", "mapping">>) /\ IrqFirst(<<"device", "cdev", "irq", "mapping">>)
    BY DEF IrqFirst
  <2> QED
    BY <2>1, <2>2
<1>6. /\ {"device", "cdev", "mapping"} \subseteq Entries(r) /\ (driver # "de2lcd" => "irq" \in Entries(r))
      /\ "data" \notin Entries(r)
  BY DEF Entries
<1>7. <<>> \in Seq(Steps) /\ IrqFirst(<<>>) /\ "data" \notin Entries(<<>>)
  BY DEF IrqFirst, Entries
<1> HIDE DEF x, r
<1>8. /\ d \in Seq(Steps) /\ IrqFirst(d) /\ "irq" \notin Entries(x)
      /\ "data" \notin Entries(d) /\ "data" \notin Entries(x)
  BY <1>4, <1>5, <1>6, <1>7 DEF Modules
<1>9. "device" \in held => d = r
  OBVIOUS
<1> HIDE DEF d
<1>10. /\ d \o x \in Seq(Steps) /\ d \o x # <<>> /\ IrqFirst(d \o x)
       /\ Entries(d \o x) = Entries(d) \cup Entries(x)
  BY <1>4, <1>8, ConcatFacts
<1>11. (IF "device" \in held THEN device.remove ELSE <<>>) \o module.exit = d \o x
  BY <1>2, <1>3 DEF d
<1> QED
  BY <1>4, <1>6, <1>8, <1>9, <1>10, <1>11

-----------------------------------------------------------------------------
(***************************************************************************)
(* The steps.                                                               *)
(***************************************************************************)
LEMMA TodoFacts ==
  ASSUME LifeInv, todo # <<>>
  PROVE  /\ todo \in Seq(Steps) /\ driver \in Drivers /\ irq \in IrqNumbers /\ irq \in Int
         /\ held \subseteq Resources /\ Head(todo) \in Steps /\ Head(todo) \in Entries(todo)
         /\ Tail(todo) \in Seq(Steps)
<1>1. todo \in Seq(Steps) /\ driver \in Drivers /\ irq \in IrqNumbers /\ held \subseteq Resources
  BY DEF LifeInv, LifeTypeOK, Steps
<1> QED
  BY <1>1, TailFacts, DriverAssumption

LEMMA LifeInitHolds == LifeInit => LifeInv
<1> SUFFICES ASSUME LifeInit PROVE LifeInv
  OBVIOUS
<1>1. Cardinality({}) = 0 /\ Cardinality(Users) \in Nat
  BY DriverAssumption, FS_EmptySet, FS_CardinalityType
<1>2. 0 \in 0 .. 2 * Cardinality(Users) /\ 0 \in 0 .. MaxLoads
  BY <1>1, DriverAssumption
<1>3. LifeTypeOK
  <2>1. todo \in Seq(Looks \cup Resources)
    BY EmptySeq DEF LifeInit
  <2> QED
    BY <1>2, <2>1 DEF LifeInit, LifeTypeOK
<1> QED
  BY <1>1, <1>3 DEF LifeInit, LifeInv, OpenInv, IrqInv, InitInv, ProbeInv, UndoInv, LiveInv, HandlerSafe,
     UsersSafe, NothingHalfDone, NothingLeftBehind, BoundIsWhole

LEMMA LoadKeeps ==
  ASSUME LifeInv, Load
  PROVE  LifeInv'
<1>1. /\ stage = "unloaded" /\ stage' = "init" /\ todo' = module.init /\ failed' = "none"
      /\ loads' = loads + 1 /\ loads < MaxLoads
      /\ UNCHANGED <<driver, irq, held, refs, open, running, raised>>
  BY DEF Load
<1>2. driver \in {"trunner", "adc", "fcounter", "de2lcd"}
  BY DriverAssumption DEF LifeInv, LifeTypeOK
<1>3. todo' = <<"class", "region", "driver">>
  BY <1>1, <1>2 DEF module, trunner_module, adc_module, fcounter_module, de2lcd_module
<1>4. /\ todo' \in Seq(Steps) /\ todo' # <<>> /\ todo'[Len(todo')] = "driver"
      /\ Entries(todo') = Modules
  <2>1. todo' \in Seq(Steps) /\ todo' # <<>> /\ todo'[Len(todo')] = "driver"
    BY <1>3 DEF Steps, Looks, Resources
  <2>2. Entries(todo') = Modules
    BY <1>3 DEF Entries, Modules
  <2> QED
    BY <2>1, <2>2
<1>5. InOrder(todo')
  BY <1>3 DEF InOrder, Rank
<1>6. held \cap OfDevice = {} /\ (held \ {"data"} # {} => {"class", "region"} \subseteq held /\ "driver" \notin held)
  BY <1>1 DEF LifeInv, NothingHalfDone, NothingLeftBehind
<1>7. LifeTypeOK'
  BY <1>1, <1>4, DriverAssumption DEF LifeInv, LifeTypeOK, Steps, Looks, Resources
<1>8. InitInv'
  BY <1>1, <1>4, <1>5, <1>6 DEF InitInv, Modules
<1> QED
  BY <1>1, <1>6, <1>7, <1>8 DEF LifeInv, OpenInv, IrqInv, ProbeInv, UndoInv, LiveInv, HandlerSafe,
     UsersSafe, NothingHalfDone, NothingLeftBehind, BoundIsWhole, OfDevice

(* A step of init.                                                          *)
LEMMA AcquireInit ==
  ASSUME LifeInv, Acquire, stage = "init"
  PROVE  LifeInv'
<1> DEFINE h == Head(todo)
           t == Tail(todo)
<1>1. /\ todo # <<>> /\ held' = held \cup ({h} \ Looks) /\ ~(h = "class" /\ "class" \in held)
      /\ UNCHANGED <<driver, irq, failed, refs, open, running, raised, loads>>
      /\ IF t # <<>> THEN todo' = t /\ stage' = stage ELSE stage' = "probe" /\ todo' = device.probe
  BY DEF Acquire, CannotSucceed
<1>2. /\ todo \in Seq(Steps) /\ driver \in Drivers /\ irq \in IrqNumbers /\ irq \in Int
      /\ held \subseteq Resources /\ h \in Steps /\ h \in Entries(todo) /\ t \in Seq(Steps)
  BY <1>1, TodoFacts
<1>3. /\ Entries(todo) = {h} \cup Entries(t) /\ InOrder(t)
      /\ \A y \in Entries(t) : Rank(h) < Rank(y)
      /\ t # <<>> => t[Len(t)] = "driver"
      /\ t = <<>> => h = "driver"
  BY <1>1, <1>2, TailFacts DEF LifeInv, InitInv
<1>4. /\ Entries(todo) \subseteq Modules /\ held \cap OfDevice = {} /\ "driver" \notin held /\ failed = "none"
      /\ IF "class" \in Entries(todo)
         THEN "region" \in Entries(todo) /\ (held \subseteq {"data"} \/ {"class", "region"} \subseteq held)
         ELSE "class" \in held /\ ("region" \in held <=> "region" \notin Entries(todo))
  BY DEF LifeInv, InitInv
<1>5. h \in Modules /\ h \notin Entries(t) /\ held' = held \cup {h} /\ held' \subseteq Resources
  <2>1. h \in Modules
    BY <1>2, <1>4
  <2>2. h \notin Entries(t)
    BY <1>3, <2>1 DEF Rank, Modules
  <2> QED
    BY <1>1, <1>2, <2>1, <2>2 DEF Modules, Looks, Resources
<1>6. open = {} /\ "irq" \notin held' /\ held' \cap OfDevice = {}
  BY <1>4, <1>5 DEF LifeInv, UsersSafe, OfDevice, Modules
<1>7. CASE t # <<>>
  <2>1. h # "driver"
    <3>1. "driver" \in Entries(t)
      <4>1. Len(t) \in DOMAIN t
        BY <1>2, <1>7, EmptySeq, LenProperties
      <4> QED
        BY <1>3, <1>7, <4>1 DEF Entries
    <3> QED
      BY <1>5, <3>1
  <2>2. h = "class" => "region" \in Entries(t) /\ held \subseteq {"data"}
    BY <1>1, <1>3, <1>4
  <2>3. h = "region" => "class" \notin Entries(t) /\ "class" \in held
    BY <1>3, <1>4 DEF Rank
  <2>4. InitInv'
    <3>1. /\ todo' = t /\ todo' # <<>> /\ InOrder(todo') /\ failed' = "none" /\ todo'[Len(todo')] = "driver"
          /\ Entries(todo') \subseteq Modules
      BY <1>1, <1>3, <1>4, <1>7
    <3>2. held' \cap OfDevice = {} /\ "driver" \notin held'
      BY <1>4, <1>5, <1>6, <2>1
    <3>3. "class" \notin Entries(t)
      BY <1>3, <1>5 DEF Rank, Modules
    <3>4. "class" \in held'
      BY <1>3, <1>4, <1>5, <2>1, <2>3 DEF Modules
    <3>5. "region" \in held' <=> "region" \notin Entries(t)
      BY <1>3, <1>4, <1>5, <2>1, <2>2 DEF Modules
    <3> QED
      BY <3>1, <3>2, <3>3, <3>4, <3>5 DEF InitInv
  <2>5. LifeTypeOK'
    BY <1>1, <1>2, <1>5, <1>7 DEF LifeInv, LifeTypeOK, Steps
  <2> QED
    BY <1>1, <1>4, <1>6, <1>7, <2>4, <2>5 DEF LifeInv, OpenInv, IrqInv, ProbeInv, UndoInv, LiveInv, HandlerSafe,
       UsersSafe, NothingHalfDone, NothingLeftBehind, BoundIsWhole, OfDevice
<1>8. CASE t = <<>>
  <2>1. h = "driver" /\ Entries(todo) = {"driver"} /\ Modules \subseteq held'
    <3>1. Entries(t) = {}
      BY <1>8 DEF Entries
    <3> QED
      BY <1>3, <1>4, <1>5, <1>8, <3>1 DEF Modules
  <2>2. stage' = "probe" /\ todo' = device.probe /\ device' = device
    BY <1>1, <1>8 DEF device, trunner_device, adc_device, fcounter_device, de2lcd_device
  <2>3. /\ todo' \in Seq(Steps) /\ todo' # <<>> /\ InOrder(todo') /\ todo'[Len(todo')] = "device"
    BY <1>2, <2>2, ProbeList
  <2>4. ProbeInv'
    BY <1>1, <1>4, <1>6, <2>1, <2>2, <2>3 DEF ProbeInv
  <2>5. LifeTypeOK'
    BY <1>1, <1>2, <1>5, <2>2, <2>3 DEF LifeInv, LifeTypeOK, Steps
  <2> QED
    BY <1>1, <1>4, <1>6, <2>2, <2>4, <2>5 DEF LifeInv, OpenInv, IrqInv, InitInv, UndoInv, LiveInv, HandlerSafe,
       UsersSafe, NothingHalfDone, NothingLeftBehind, BoundIsWhole, OfDevice
<1> QED
  BY <1>7, <1>8

(* A step of probe.                                                         *)
LEMMA AcquireProbe ==
  ASSUME LifeInv, Acquire, stage = "probe"
  PROVE  LifeInv'
<1> DEFINE h == Head(todo)
           t == Tail(todo)
<1>1. /\ todo # <<>> /\ held' = held \cup ({h} \ Looks) /\ ~(h = "irq" /\ irq < 0)
      /\ UNCHANGED <<driver, irq, failed, refs, open, running, raised, loads>>
      /\ todo' = t /\ IF t # <<>> THEN stage' = stage ELSE stage' = "live"
  BY DEF Acquire, CannotSucceed
<1>2. /\ todo \in Seq(Steps) /\ driver \in Drivers /\ irq \in IrqNumbers /\ irq \in Int
      /\ held \subseteq Resources /\ h \in Steps /\ h \in Entries(todo) /\ t \in Seq(Steps)
  BY <1>1, TodoFacts
<1>3. /\ Entries(todo) = {h} \cup Entries(t) /\ InOrder(t)
      /\ \A y \in Entries(t) : Rank(h) < Rank(y)
      /\ t # <<>> => t[Len(t)] = "device"
      /\ t = <<>> => h = "device"
  BY <1>1, <1>2, TailFacts DEF LifeInv, ProbeInv
<1>4. /\ Entries(todo) \subseteq Entries(device.probe) /\ Modules \subseteq held /\ failed = "none"
      /\ \A x \in held \cap OfDevice, y \in Entries(todo) : Rank(x) < Rank(y)
      /\ Entries(device.probe) \ Looks \subseteq held \cup Entries(todo)
      /\ "irq" \in held => irq >= 0 /\ driver # "de2lcd"
  BY DEF LifeInv, ProbeInv, IrqInv
<1>5. /\ Entries(device.probe) \subseteq Looks \cup {"mapping", "data", "irq", "cdev", "device"}
      /\ {"mapping", "data", "cdev", "device"} \subseteq Entries(device.probe)
      /\ "irq" \in Entries(device.probe) <=> driver # "de2lcd"
  BY <1>2, ProbeList
<1>6. /\ held' \subseteq Resources /\ held \subseteq held'
      /\ \A s \in Steps : s \in held' <=> s \in held \/ (s = h /\ h \notin Looks)
      /\ device' = device
  BY <1>1, <1>2, <1>4, <1>5 DEF Looks, Resources, Steps, device, trunner_device, adc_device, fcounter_device, de2lcd_device
<1>7. open = {} /\ "device" \notin held
  <2>1. "device" \in Entries(todo)
    <3>1. Len(todo) \in DOMAIN todo /\ todo[Len(todo)] = "device"
      BY <1>1, <1>2, EmptySeq, LenProperties DEF LifeInv, ProbeInv
    <3> QED
      BY <3>1 DEF Entries
  <2>2. "device" \notin held
    BY <1>4, <2>1 DEF OfDevice, Rank
  <2> QED
    BY <2>2 DEF LifeInv, UsersSafe
<1>8. IrqInv' /\ HandlerSafe'
  <2>1. h = "irq" => irq >= 0 /\ driver # "de2lcd"
    BY <1>1, <1>2, <1>4, <1>5
  <2>2. h = "irq" => {"mapping", "data"} \subseteq held
    <3> SUFFICES ASSUME h = "irq" PROVE {"mapping", "data"} \subseteq held
      OBVIOUS
    <3>1. "mapping" \notin Entries(t) /\ "data" \notin Entries(t)
      BY <1>3 DEF Rank
    <3> QED
      BY <1>3, <1>4, <1>5, <3>1 DEF Looks
  <2>3. "irq" \in held => {"mapping", "data"} \subseteq held
    BY DEF LifeInv, HandlerSafe
  <2> QED
    BY <1>1, <1>4, <1>6, <2>1, <2>2, <2>3 DEF IrqInv, HandlerSafe
<1>9. CASE t # <<>>
  <2>1. "device" \in Entries(t) /\ h # "device"
    <3>1. Len(t) \in DOMAIN t
      BY <1>2, <1>9, EmptySeq, LenProperties
    <3>2. "device" \in Entries(t)
      BY <1>3, <1>9, <3>1 DEF Entries
    <3> QED
      BY <1>3, <3>2 DEF Rank
  <2>2. ProbeInv'
    <3>1. \A x \in held' \cap OfDevice, y \in Entries(t) : Rank(x) < Rank(y)
      BY <1>1, <1>3, <1>4
    <3>2. Entries(device.probe) \ Looks \subseteq held' \cup Entries(t)
      BY <1>1, <1>3, <1>4
    <3> QED
      BY <1>1, <1>3, <1>4, <1>6, <1>9, <3>1, <3>2 DEF ProbeInv
  <2>3. LifeTypeOK'
    BY <1>1, <1>2, <1>6, <1>9 DEF LifeInv, LifeTypeOK, Steps
  <2>4. "device" \notin held'
    BY <1>6, <1>7, <2>1 DEF Steps, Resources
  <2> QED
    BY <1>1, <1>7, <1>8, <1>9, <2>2, <2>3, <2>4 DEF LifeInv, OpenInv, InitInv, UndoInv, LiveInv,
       UsersSafe, NothingHalfDone, NothingLeftBehind, BoundIsWhole
<1>10. CASE t = <<>>
  <2>1. h = "device" /\ Entries(t) = {}
    BY <1>3, <1>10 DEF Entries
  <2>2. Entries(device.probe) \ Looks \subseteq held'
    BY <1>1, <1>3, <1>4, <2>1 DEF Looks
  <2>3. {"mapping", "data", "cdev", "device"} \subseteq held' /\ (driver # "de2lcd" => "irq" \in held')
    BY <1>5, <2>2 DEF Looks
  <2>4. LifeTypeOK'
    BY <1>1, <1>2, <1>6, <1>10 DEF LifeInv, LifeTypeOK, Steps
  <2>5. stage' = "live" /\ Modules \subseteq held' /\ failed' = "none"
    BY <1>1, <1>4, <1>6, <1>10
  <2>6. LiveInv' /\ NothingHalfDone'
    BY <1>1, <1>8, <2>3, <2>5 DEF LiveInv, NothingHalfDone, NothingLeftBehind, BoundIsWhole, IrqInv
  <2> QED
    BY <1>1, <1>7, <1>8, <2>4, <2>5, <2>6 DEF LifeInv, OpenInv, InitInv, ProbeInv, UndoInv, UsersSafe
<1> QED
  BY <1>9, <1>10

LEMMA FailsKeeps ==
  ASSUME LifeInv, Fails
  PROVE  LifeInv'
<1> DEFINE h == Head(todo)
           u == undo(h)
<1>1. /\ stage \in {"init", "probe"} /\ todo # <<>> /\ failed' = h /\ todo' = u
      /\ UNCHANGED <<driver, irq, held, refs, open, running, raised, loads>>
      /\ stage' = IF u = <<>> THEN IF stage = "init" THEN "unloaded" ELSE "live"
               ELSE IF stage = "init" THEN "undo_init" ELSE "undo_probe"
  BY DEF Fails, AfterRelease
<1>2. /\ todo \in Seq(Steps) /\ driver \in Drivers /\ irq \in IrqNumbers /\ irq \in Int
      /\ held \subseteq Resources /\ h \in Steps /\ h \in Entries(todo)
  BY <1>1, TodoFacts
<1>3. /\ u \in Seq(Steps) /\ IrqFirst(u)
      /\ h \in {"class", "driver", "get_irq", "resource", "mapping"} => u = <<>>
      /\ h = "region" => u # <<>> /\ Entries(u) = {"class"}
      /\ h \in {"magic", "data", "irq", "cdev", "device"} =>
           /\ u # <<>> /\ Entries(u) \subseteq OfDevice /\ "mapping" \in Entries(u)
           /\ h = "device" => "cdev" \in Entries(u)
           /\ irq >= 0 /\ driver # "de2lcd" => "irq" \in Entries(u)
  BY <1>2, UndoList
<1>4. LifeTypeOK'
  BY <1>1, <1>2, <1>3 DEF LifeInv, LifeTypeOK, Steps
<1>5. h # "none"
  BY <1>2 DEF Steps, Looks, Resources
<1>6. CASE stage = "init"
  <2>1. /\ Entries(todo) \subseteq Modules /\ held \cap OfDevice = {} /\ "driver" \notin held
        /\ IF "class" \in Entries(todo)
           THEN "region" \in Entries(todo) /\ (held \subseteq {"data"} \/ {"class", "region"} \subseteq held)
           ELSE "class" \in held /\ ("region" \in held <=> "region" \notin Entries(todo))
    BY <1>6 DEF LifeInv, InitInv
  <2>2. h \in Modules /\ open = {} /\ "device" \notin held
    BY <1>2, <2>1 DEF LifeInv, UsersSafe, OfDevice
  <2>3. Entries(todo) = {h} \cup Entries(Tail(todo)) /\ \A y \in Entries(Tail(todo)) : Rank(h) < Rank(y)
    BY <1>1, <1>2, <1>6, TailFacts DEF LifeInv, InitInv
  <2>4. h # "class" => "class" \notin Entries(todo)
    BY <2>2, <2>3 DEF Rank, Modules
  <2>5. h = "driver" => "region" \notin Entries(todo)
    BY <2>3 DEF Rank
  <2>6. CASE h = "region"
    <3>1. held \ {"data"} \subseteq {"class"}
      BY <1>2, <2>1, <2>4, <2>6 DEF Resources, OfDevice
    <3>2. stage' = "undo_init" /\ todo' # <<>> /\ Entries(todo') = {"class"}
      BY <1>1, <1>3, <1>6, <2>6
    <3> QED
      BY <1>1, <1>4, <2>1, <2>2, <3>1, <3>2 DEF LifeInv, OpenInv, IrqInv, InitInv, ProbeInv, UndoInv, LiveInv,
         HandlerSafe, UsersSafe, NothingHalfDone, NothingLeftBehind, BoundIsWhole, OfDevice
  <2>7. CASE h # "region"
    <3>1. stage' = "unloaded"
      BY <1>1, <1>3, <1>6, <2>2, <2>7 DEF Modules
    <3>2. held \ {"data"} # {} => {"class", "region"} \subseteq held
      <4>1. CASE h = "class"
        BY <1>2, <2>1, <4>1
      <4>2. CASE h = "driver"
        BY <2>1, <2>4, <2>5, <4>2
      <4> QED
        BY <2>2, <2>7, <4>1, <4>2 DEF Modules
    <3> QED
      BY <1>1, <1>4, <2>1, <2>2, <3>1, <3>2 DEF LifeInv, OpenInv, IrqInv, InitInv, ProbeInv, UndoInv, LiveInv,
         HandlerSafe, UsersSafe, NothingHalfDone, NothingLeftBehind, BoundIsWhole, OfDevice
  <2> QED
    BY <2>6, <2>7
<1>7. CASE stage = "probe"
  <2>1. /\ Entries(todo) \subseteq Entries(device.probe) /\ Modules \subseteq held
        /\ \A x \in held \cap OfDevice : Rank(x) < Rank(h)
        /\ todo[Len(todo)] = "device"
    BY <1>2, <1>7 DEF LifeInv, ProbeInv
  <2>2. "device" \notin held /\ open = {}
    <3>1. Len(todo) \in DOMAIN todo
      BY <1>1, <1>2, EmptySeq, LenProperties
    <3>2. "device" \in Entries(todo)
      BY <2>1, <3>1 DEF Entries
    <3> QED
      BY <1>7, <3>2 DEF LifeInv, ProbeInv, UsersSafe, OfDevice, Rank
  <2>3. h \in {"get_irq", "resource", "mapping", "magic", "data", "irq", "cdev", "device"}
    BY <1>2, <2>1, ProbeList DEF Looks
  <2>4. CASE h \in {"get_irq", "resource", "mapping"}
    <3>1. held \cap OfDevice = {}
      BY <2>1, <2>4 DEF Rank, OfDevice
    <3>2. stage' = "live"
      BY <1>1, <1>3, <1>7, <2>4
    <3> QED
      BY <1>1, <1>4, <2>1, <2>2, <3>1, <3>2 DEF LifeInv, OpenInv, IrqInv, InitInv, ProbeInv, UndoInv, LiveInv,
         HandlerSafe, UsersSafe, NothingHalfDone, NothingLeftBehind, BoundIsWhole
  <2>5. CASE h \in {"magic", "data", "irq", "cdev", "device"}
    <3>1. h # "device" => "cdev" \notin held
      BY <2>1, <2>5 DEF Rank, OfDevice
    <3>2. held \cap OfDevice \subseteq Entries(u)
      <4>1. "irq" \in held => "irq" \in Entries(u)
        BY <1>3, <2>5 DEF LifeInv, IrqInv
      <4>2. "cdev" \in held => "cdev" \in Entries(u)
        BY <1>3, <2>5, <3>1
      <4> QED
        BY <1>3, <2>2, <2>5, <4>1, <4>2 DEF OfDevice
    <3>3. /\ stage' = "undo_probe" /\ todo' # <<>> /\ IrqFirst(todo') /\ Entries(todo') \subseteq OfDevice
          /\ failed' # "none"
      BY <1>1, <1>3, <1>5, <1>7, <2>5
    <3>4. UndoInv'
      BY <1>1, <2>1, <2>2, <3>2, <3>3 DEF UndoInv
    <3> QED
      BY <1>1, <1>4, <2>2, <3>3, <3>4 DEF LifeInv, OpenInv, IrqInv, InitInv, ProbeInv, LiveInv,
         HandlerSafe, UsersSafe, NothingHalfDone, NothingLeftBehind, BoundIsWhole
  <2> QED
    BY <2>3, <2>4, <2>5
<1> QED
  BY <1>1, <1>6, <1>7

LEMMA ReleaseKeeps ==
  ASSUME LifeInv, Release
  PROVE  LifeInv'
<1> DEFINE h == Head(todo)
           t == Tail(todo)
<1>1. /\ stage \in {"undo_init", "undo_probe", "exit"} /\ held' = held \ {h} /\ todo' = t
      /\ UNCHANGED <<driver, irq, failed, refs, open, running, raised, loads>>
      /\ stage' = IF t # <<>> THEN stage ELSE IF stage = "undo_probe" THEN "live" ELSE "unloaded"
  BY DEF Release, AfterRelease
<1>2. todo # <<>>
  BY <1>1 DEF LifeInv, UndoInv
<1>3. /\ todo \in Seq(Steps) /\ driver \in Drivers /\ irq \in IrqNumbers /\ irq \in Int
      /\ held \subseteq Resources /\ h \in Steps /\ h \in Entries(todo) /\ t \in Seq(Steps)
  BY <1>2, TodoFacts
<1>4. /\ Entries(todo) = {h} \cup Entries(t)
      /\ IrqFirst(todo) => IrqFirst(t) /\ (h = "mapping" => "irq" \notin Entries(t))
      /\ t = <<>> => Entries(t) = {}
  <2>1. Entries(<<>>) = {}
    BY DEF Entries
  <2> QED
    BY <1>2, <1>3, <2>1, TailFacts
<1>5. LifeTypeOK'
  BY <1>1, <1>3 DEF LifeInv, LifeTypeOK, Steps
<1>6. open = {}
  BY <1>1 DEF LifeInv, UsersSafe
<1>7. IrqInv'
  BY <1>1 DEF LifeInv, IrqInv
<1>8. CASE stage = "undo_init"
  <2>1. held \ {"data"} \subseteq Entries(todo) /\ Entries(todo) \subseteq {"class"}
    BY <1>8 DEF LifeInv, UndoInv
  <2>2. held' \ {"data"} = {} /\ Entries(t) \subseteq {"class"}
    BY <1>1, <1>3, <1>4, <2>1
  <2> QED
    BY <1>1, <1>5, <1>6, <1>7, <1>8, <2>2 DEF LifeInv, OpenInv, InitInv, ProbeInv, UndoInv, LiveInv,
       HandlerSafe, UsersSafe, NothingHalfDone, NothingLeftBehind, BoundIsWhole, OfDevice
<1>9. CASE stage = "undo_probe"
  <2>1. /\ IrqFirst(todo) /\ Entries(todo) \subseteq OfDevice /\ "device" \notin held
        /\ held \cap OfDevice \subseteq Entries(todo) /\ Modules \subseteq held /\ failed # "none"
    BY <1>9 DEF LifeInv, UndoInv
  <2>2. /\ held' \cap OfDevice \subseteq Entries(t) /\ Modules \subseteq held' /\ "device" \notin held'
        /\ Entries(t) \subseteq OfDevice /\ IrqFirst(t)
    BY <1>1, <1>3, <1>4, <2>1 DEF Modules, OfDevice
  <2>3. HandlerSafe'
    <3>1. "irq" \in held' => h # "mapping" /\ h # "data"
      BY <1>3, <1>4, <2>1, <2>2 DEF OfDevice
    <3> QED
      BY <1>1, <3>1 DEF LifeInv, HandlerSafe
  <2> QED
    BY <1>1, <1>4, <1>5, <1>6, <1>7, <1>9, <2>1, <2>2, <2>3 DEF LifeInv, OpenInv, InitInv, ProbeInv, UndoInv,
       LiveInv, UsersSafe, NothingHalfDone, NothingLeftBehind, BoundIsWhole
<1>10. CASE stage = "exit"
  <2>1. IrqFirst(todo) /\ "data" \notin Entries(todo) /\ held \ {"data"} \subseteq Entries(todo)
    BY <1>10 DEF LifeInv, UndoInv
  <2>2. held' \ {"data"} \subseteq Entries(t) /\ IrqFirst(t) /\ "data" \notin Entries(t)
    BY <1>1, <1>4, <2>1
  <2>3. HandlerSafe'
    <3>1. "irq" \in held' => h # "mapping"
      BY <1>4, <2>1, <2>2
    <3>2. h # "data"
      BY <1>3, <1>10 DEF LifeInv, UndoInv
    <3> QED
      BY <1>1, <3>1, <3>2 DEF LifeInv, HandlerSafe
  <2> QED
    BY <1>1, <1>4, <1>5, <1>6, <1>7, <1>10, <2>2, <2>3 DEF LifeInv, OpenInv, InitInv, ProbeInv, UndoInv,
       LiveInv, UsersSafe, NothingHalfDone, NothingLeftBehind, BoundIsWhole, OfDevice
<1> QED
  BY <1>1, <1>8, <1>9, <1>10

LEMMA UnloadKeeps ==
  ASSUME LifeInv, Unload
  PROVE  LifeInv'
<1>1. /\ stage = "live" /\ refs = 0 /\ stage' = "exit"
      /\ todo' = (IF "device" \in held THEN device.remove ELSE <<>>) \o module.exit
      /\ UNCHANGED <<driver, irq, held, failed, refs, open, running, raised, loads>>
  BY DEF Unload
<1>2. driver \in Drivers /\ held \subseteq Resources /\ open \subseteq Users
  BY DEF LifeInv, LifeTypeOK
<1>3. /\ todo' \in Seq(Steps) /\ todo' # <<>> /\ IrqFirst(todo') /\ Modules \subseteq Entries(todo')
      /\ "data" \notin Entries(todo')
      /\ "device" \in held =>
           /\ {"device", "cdev", "mapping"} \subseteq Entries(todo')
           /\ driver # "de2lcd" => "irq" \in Entries(todo')
  BY <1>1, <1>2, ExitList
<1>4. open = {}
  <2>1. IsFiniteSet(open)
    BY <1>2, DriverAssumption, FS_Subset
  <2>2. Cardinality(open) \in Nat /\ 2 * Cardinality(open) = 0
    BY <1>1, <2>1, FS_CardinalityType DEF LifeInv, OpenInv
  <2>3. Cardinality(open) = 0
    BY <2>2
  <2> QED
    BY <2>1, <2>3, FS_EmptySet
<1>5. held \ {"data"} \subseteq Entries(todo')
  <2>1. IF "device" \in held THEN {"mapping", "data", "cdev"} \subseteq held ELSE held \cap OfDevice = {}
    BY <1>1 DEF LifeInv, LiveInv
  <2>2. "irq" \in held => driver # "de2lcd"
    BY DEF LifeInv, IrqInv
  <2>3. ASSUME NEW s \in held, s # "data" PROVE s \in Entries(todo')
    <3>1. CASE s \in OfDevice
      <4>1. "device" \in held
        BY <2>1, <2>3, <3>1
      <4> QED
        BY <1>3, <2>2, <2>3, <3>1, <4>1 DEF OfDevice
    <3>2. CASE s \notin OfDevice
      BY <1>2, <1>3, <2>3, <3>2 DEF Resources, OfDevice, Modules
    <3> QED
      BY <3>1, <3>2
  <2> QED
    BY <2>3
<1>6. LifeTypeOK'
  BY <1>1, <1>3 DEF LifeInv, LifeTypeOK, Steps
<1> QED
  BY <1>1, <1>3, <1>4, <1>5, <1>6 DEF LifeInv, OpenInv, IrqInv, InitInv, ProbeInv, UndoInv, LiveInv,
     HandlerSafe, UsersSafe, NothingHalfDone, NothingLeftBehind, BoundIsWhole

(* Processes and the hardware touch nothing but open, refs, and themselves. *)
LEMMA LifeOtherKeeps ==
  ASSUME LifeInv, UNCHANGED <<driver, irq, stage, todo, held, failed, loads>>,
         running' \in BOOLEAN, raised' \in BOOLEAN, open' \subseteq Users, refs' = 2 * Cardinality(open'),
         open' # {} => {"mapping", "data", "cdev", "device"} \subseteq held /\ stage = "live"
  PROVE  LifeInv'
<1>1. refs' \in 0 .. 2 * Cardinality(Users)
  <2>1. Cardinality(open') \in Nat /\ Cardinality(Users) \in Nat /\ Cardinality(open') <= Cardinality(Users)
    BY DriverAssumption, FS_Subset, FS_CardinalityType
  <2> QED
    BY <2>1
<1>2. LifeTypeOK'
  BY <1>1 DEF LifeInv, LifeTypeOK
<1>3. device' = device
  BY DEF device, trunner_device, adc_device, fcounter_device, de2lcd_device
<1> QED
  BY <1>2, <1>3 DEF LifeInv, OpenInv, IrqInv, InitInv, ProbeInv, UndoInv, LiveInv, HandlerSafe,
     UsersSafe, NothingHalfDone, NothingLeftBehind, BoundIsWhole

LEMMA OpenKeeps ==
  ASSUME LifeInv, NEW u \in Users, Open(u)
  PROVE  LifeInv'
<1>1. /\ u \notin open /\ {"cdev", "device"} \subseteq held /\ stage # "exit"
      /\ open' = open \cup {u} /\ refs' = refs + 2
      /\ UNCHANGED <<driver, irq, stage, todo, held, failed, running, raised, loads>>
  BY DEF Open
<1>2. open \subseteq Users /\ IsFiniteSet(open) /\ refs = 2 * Cardinality(open) /\ Cardinality(open) \in Nat
  BY DriverAssumption, FS_Subset, FS_CardinalityType DEF LifeInv, LifeTypeOK, OpenInv
<1>3. Cardinality(open') = Cardinality(open) + 1
  BY <1>1, <1>2, FS_AddElement
<1>4. refs' = 2 * Cardinality(open')
  BY <1>1, <1>2, <1>3
<1>5. stage = "live"
  <2>1. stage # "init"
    BY <1>1 DEF LifeInv, InitInv, OfDevice
  <2>2. stage # "probe"
    <3> SUFFICES ASSUME stage = "probe" PROVE FALSE
      OBVIOUS
    <3>1. todo \in Seq(Steps) /\ todo # <<>> /\ todo[Len(todo)] = "device"
      BY DEF LifeInv, ProbeInv, LifeTypeOK, Steps
    <3>2. Len(todo) \in DOMAIN todo
      BY <3>1, EmptySeq, LenProperties
    <3>3. "device" \in Entries(todo)
      BY <3>1, <3>2 DEF Entries
    <3> QED
      BY <1>1, <3>3 DEF LifeInv, ProbeInv, OfDevice, Rank
  <2>3. stage \notin {"undo_init", "undo_probe"}
    BY <1>1 DEF LifeInv, UndoInv
  <2>4. stage # "unloaded"
    BY <1>1 DEF LifeInv, NothingHalfDone, NothingLeftBehind, OfDevice
  <2> QED
    BY <1>1, <2>1, <2>2, <2>3, <2>4 DEF LifeInv, LifeTypeOK
<1>6. {"mapping", "data", "cdev", "device"} \subseteq held
  BY <1>1, <1>5 DEF LifeInv, LiveInv
<1> QED
  BY <1>1, <1>2, <1>4, <1>5, <1>6, LifeOtherKeeps DEF LifeInv, LifeTypeOK

LEMMA CloseKeeps ==
  ASSUME LifeInv, NEW u \in Users, Close(u)
  PROVE  LifeInv'
<1>1. /\ u \in open /\ open' = open \ {u} /\ refs' = refs - 2
      /\ UNCHANGED <<driver, irq, stage, todo, held, failed, running, raised, loads>>
  BY DEF Close
<1>2. open \subseteq Users /\ IsFiniteSet(open) /\ refs = 2 * Cardinality(open) /\ Cardinality(open) \in Nat
  BY DriverAssumption, FS_Subset, FS_CardinalityType DEF LifeInv, LifeTypeOK, OpenInv
<1>3. Cardinality(open') = Cardinality(open) - 1
  BY <1>1, <1>2, FS_RemoveElement
<1>4. refs' = 2 * Cardinality(open')
  BY <1>1, <1>2, <1>3
<1>5. {"mapping", "data", "cdev", "device"} \subseteq held /\ stage = "live"
  BY <1>1 DEF LifeInv, UsersSafe
<1> QED
  BY <1>1, <1>2, <1>4, <1>5, LifeOtherKeeps DEF LifeInv, LifeTypeOK

LEMMA LifeStepKeeps == LifeInv /\ [LifeNext]_lifeVars => LifeInv'
<1> SUFFICES ASSUME LifeInv, [LifeNext]_lifeVars PROVE LifeInv'
  OBVIOUS
<1>t. /\ running \in BOOLEAN /\ raised \in BOOLEAN /\ open \subseteq Users /\ refs = 2 * Cardinality(open)
      /\ open # {} => {"mapping", "data", "cdev", "device"} \subseteq held /\ stage = "live"
  BY DEF LifeInv, LifeTypeOK, OpenInv, UsersSafe
<1>1. CASE Load
  BY <1>1, LoadKeeps
<1>2. CASE Acquire
  BY <1>2, AcquireInit, AcquireProbe DEF Acquire
<1>3. CASE Fails
  BY <1>3, FailsKeeps
<1>4. CASE Release
  BY <1>4, ReleaseKeeps
<1>5. CASE Unload
  BY <1>5, UnloadKeeps
<1>6. ASSUME NEW u \in Users, Open(u) PROVE LifeInv'
  BY <1>6, OpenKeeps
<1>7. ASSUME NEW u \in Users, Close(u) PROVE LifeInv'
  BY <1>7, CloseKeeps
<1>8. ASSUME NEW u \in Users, Enable(u) PROVE LifeInv'
  BY <1>t, <1>8, LifeOtherKeeps DEF Enable
<1>9. CASE HardwareDone
  BY <1>t, <1>9, LifeOtherKeeps DEF HardwareDone
<1>10. CASE Interrupt
  BY <1>t, <1>10, LifeOtherKeeps DEF Interrupt
<1>11. CASE UNCHANGED lifeVars
  BY <1>t, <1>11, LifeOtherKeeps DEF lifeVars
<1> QED
  BY <1>1, <1>2, <1>3, <1>4, <1>5, <1>6, <1>7, <1>8, <1>9, <1>10, <1>11 DEF LifeNext

(***************************************************************************)
(* The inductive invariant of DriverLife: whatever fails and whenever        *)
(* processes and interrupts come, what a driver holds is what its lists say. *)
(***************************************************************************)
THEOREM LifeInvariance == LifeSpec => []LifeInv
  BY LifeInitHolds, LifeStepKeeps, PTL DEF LifeSpec

(***************************************************************************)
(* The interrupt handler, even of an interrupt kept since an earlier life of *)
(* the module, and every process that has the device open find its registers *)
(* mapped and its softc there (probe, remove, open, the handlers).  Nothing  *)
(* is said of the timer of the display's driver, which remove leaves pending.*)
(***************************************************************************)
THEOREM DriversInUseAreMapped == LifeSpec => []InUseIsMapped
<1>1. LifeInv => InUseIsMapped
  BY DEF LifeInv, InUseIsMapped
<1> QED
  BY <1>1, LifeInvariance, PTL

(***************************************************************************)
(* A probe or an init that fails at any step, other than the registration    *)
(* of the driver, and an exit leave nothing behind, and no device gets a     *)
(* node without its interrupt (the error paths of probe and init, remove).   *)
(***************************************************************************)
THEOREM NothingIsHalfDone == LifeSpec => []NothingHalfDone
<1>1. LifeInv => NothingHalfDone
  BY DEF LifeInv
<1> QED
  BY <1>1, LifeInvariance, PTL

-----------------------------------------------------------------------------
(***************************************************************************)
(* Lcd.  The list of instructions a system call has left, and how far the    *)
(* display has come with it; the timer and what the driver keeps of it.      *)
(***************************************************************************)

(* Where the display is m characters behind cell a.                         *)
Index(a) == IF a < Line THEN a ELSE a - Bottom + Line
CellAt(i) == IF i < Line THEN i ELSE Bottom + (i - Line)
Wrapped(i) == IF i >= 2 * Line THEN i - 2 * Line ELSE i
Behind(a, m) == CellAt(Wrapped(Index(a) + m))

(* The system calls, after d of their instructions.                         *)
Instrs ==
  [op : {"CLEAR", "HOME", "SET_CURSOR", "DATA", "CURSOR_ON", "CURSOR_OFF", "SETUP"}, arg : Nat \X Nat]
Home == Instr("HOME")
Setup(ms) == [op |-> "SETUP", arg |-> <<ms, 0>>]

WriteInstr(loc, n, j) ==
  IF j = 1 THEN Home
  ELSE IF j = 2 THEN [op |-> "SET_CURSOR", arg |-> <<loc, 0>>]
  ELSE [op |-> "DATA", arg |-> Char(n, j - 2)]

Writing(list, loc, n, count, d) ==
  /\ DOMAIN list = 1 .. count + 2 - d
  /\ \A i \in 1 .. count + 2 - d : list[i] = WriteInstr(loc, n, d + i)

Setting(list, ms) == list \in { << Home, Setup(ms) >>, << Setup(ms) >> }

Single == { << Instr("CLEAR") >>, << Instr("CURSOR_ON") >>, << Instr("CURSOR_OFF") >> }

Ids == 1 .. MaxCalls
Counts == 0 .. 2 * Line

(* What is left of the system call is the rest of one that the driver       *)
(* knows; a write has brought the display to where its next character goes,  *)
(* and its end is where the offset of the file is already.                  *)
JobInv ==
  /\ job \in Seq(Instrs)
  /\ \/ job = <<>>
     \/ caller # "stream" /\ job \in Single
     \/ caller # "stream" /\ \E ms \in 0 .. Width - 1 : Setting(job, ms)
     \/ \E loc \in Cells, n \in Ids, count \in Counts : \E d \in 0 .. count + 1 :
          /\ Writing(job, loc, n, count, d)
          /\ d >= 2 => ac = Behind(loc, d - 2)
          /\ caller = "stream" /\ ~overrun => fpos = Behind(loc, count)

(* The timer is down while a new time is being set.                         *)
HasSetup(list) == \E i \in DOMAIN list : list[i].op = "SETUP"

TimerInv == IF HasSetup(job) THEN ~timer ELSE timer <=> de_shl_ms # 0

(* The first d characters of the text are on the display, and no other.     *)
Shown(d) ==
  \A k \in 1 .. 2 * Line : ddram[CellOf(k)] = IF k <= d THEN Char(text.id, k) ELSE Blank

(* If nothing is to be shifted, the display is not.                         *)
Still == de_shl_ms = 0 => shift = 0

(* The calls of a de2lcd_printf that nobody disturbs: the display is clear,  *)
(* then holds what has been written, then is shifted or not.                *)
Scripts == { << "clear", "write", "shl" >>, << "write", "shl" >>, << "shl" >>, <<>> }

ScriptInv ==
  /\ script \in Scripts
  /\ script # <<>> \/ alone => text.id \in Ids

ClearedInv ==
  alone /\ script = << "write", "shl" >> =>
    \/ job = << Instr("CLEAR") >>
    \/ job = <<>> /\ Shown(0) /\ Still

WrittenInv ==
  alone /\ script = << "shl" >> =>
    /\ Still
    /\ \/ \E d \in 0 .. Kept(text.n) + 1 :
            /\ Writing(job, 0, text.id, Kept(text.n), d)
            /\ d >= 2 => ac = Behind(0, d - 2)
            /\ Shown(IF d >= 2 THEN d - 2 ELSE 0)
       \/ job = <<>> /\ Shown(Kept(text.n))

SetInv ==
  alone /\ script = <<>> =>
    /\ Shown(Kept(text.n))
    /\ \/ job = << Home, Setup(shl_ms(text.n) % Width) >>
       \/ job = << Setup(shl_ms(text.n) % Width) >> /\ shift = 0
       \/ job = <<>> /\ (text.n <= Visible => shift = 0 /\ ~timer) /\ (text.n > Visible => timer)

TextInv == ScriptInv /\ ClearedInv /\ WrittenInv /\ SetInv

LcdInv == LcdTypeOK /\ JobInv /\ TimerInv /\ TextInv /\ OffsetFollowsCursor

-----------------------------------------------------------------------------
(***************************************************************************)
(* The cells of the display.                                                *)
(***************************************************************************)
LEMMA Sizes ==
  /\ Line \in Nat /\ Visible \in Nat /\ Bottom \in Nat /\ Width \in Nat /\ MaxCalls \in Nat
  /\ Visible >= 1 /\ Visible < Line /\ Line <= Bottom /\ Bottom <= 2 * Line /\ Width > 150
  /\ Lengths \subseteq Nat /\ Times \subseteq Int
  BY LcdAssumption

LEMMA CellsAre == \A a : a \in Cells <=> a \in Int /\ ((0 <= a /\ a < Line) \/ (Bottom <= a /\ a < Bottom + Line))
  BY Sizes DEF Cells, Top, Bot

LEMMA CellAtFacts ==
  ASSUME NEW i \in 0 .. 2 * Line - 1
  PROVE  CellAt(i) \in Cells /\ NextCell(CellAt(i)) = CellAt(Wrapped(i + 1)) /\ CellOf(i + 1) = CellAt(i)
<1>1. CellAt(i) \in Cells
  BY Sizes, CellsAre DEF CellAt
<1>2. NextCell(CellAt(i)) = CellAt(Wrapped(i + 1))
  BY Sizes DEF CellAt, NextCell, Wrapped
<1>3. CellOf(i + 1) = CellAt(i)
  BY Sizes DEF CellAt, CellOf
<1> QED
  BY <1>1, <1>2, <1>3

LEMMA IndexFacts ==
  ASSUME NEW a \in Cells
  PROVE  Index(a) \in 0 .. 2 * Line - 1 /\ CellAt(Index(a)) = a
  BY Sizes, CellsAre DEF Index, CellAt

LEMMA BehindFacts ==
  ASSUME NEW a \in Cells, NEW m \in 0 .. 2 * Line
  PROVE  /\ Behind(a, m) \in Cells /\ Behind(a, 0) = a
         /\ m < 2 * Line => NextCell(Behind(a, m)) = Behind(a, m + 1)
<1>1. Index(a) \in 0 .. 2 * Line - 1 /\ CellAt(Index(a)) = a
  BY IndexFacts
<1>2. Wrapped(Index(a) + m) \in 0 .. 2 * Line - 1
  BY <1>1, Sizes DEF Wrapped
<1>3. Behind(a, m) \in Cells
  BY <1>2, CellAtFacts DEF Behind
<1>4. Behind(a, 0) = a
  BY <1>1, Sizes DEF Behind, Wrapped
<1>5. ASSUME m < 2 * Line PROVE NextCell(Behind(a, m)) = Behind(a, m + 1)
  <2>1. NextCell(CellAt(Wrapped(Index(a) + m))) = CellAt(Wrapped(Wrapped(Index(a) + m) + 1))
    BY <1>2, CellAtFacts
  <2>2. Wrapped(Wrapped(Index(a) + m) + 1) = Wrapped(Index(a) + (m + 1))
    BY <1>1, <1>5, Sizes DEF Wrapped
  <2> QED
    BY <2>1, <2>2 DEF Behind
<1> QED
  BY <1>3, <1>4, <1>5

(* The characters of a text written from the start.                         *)
LEMMA FromTheStart ==
  /\ 0 \in Cells
  /\ \A m \in 0 .. 2 * Line - 1 : Behind(0, m) = CellAt(m) /\ CellOf(m + 1) = CellAt(m)
  /\ \A k \in 1 .. 2 * Line : CellOf(k) \in Cells
  /\ \A k, m \in 1 .. 2 * Line : CellOf(k) = CellOf(m) => k = m
<1>1. 0 \in Cells
  BY Sizes, CellsAre
<1>2. ASSUME NEW m \in 0 .. 2 * Line - 1 PROVE Behind(0, m) = CellAt(m) /\ CellOf(m + 1) = CellAt(m)
  <2>1. Wrapped(Index(0) + m) = m
    BY Sizes DEF Wrapped, Index
  <2> QED
    BY <2>1, CellAtFacts DEF Behind
<1>3. ASSUME NEW k \in 1 .. 2 * Line PROVE CellOf(k) \in Cells
  BY Sizes, CellsAre DEF CellOf
<1>4. ASSUME NEW k \in 1 .. 2 * Line, NEW m \in 1 .. 2 * Line, CellOf(k) = CellOf(m) PROVE k = m
  BY <1>4, Sizes DEF CellOf
<1> QED
  BY <1>1, <1>2, <1>3, <1>4

LEMMA FposFacts ==
  ASSUME NEW p \in Cells, NEW n \in Counts
  PROVE  /\ NextFpos(p, n) \in 0 .. Bottom + Line - 1
         /\ ~(p + n >= Bottom + Line \/ (p \in Top /\ p + n >= Bottom)) => NextFpos(p, n) = Behind(p, n)
<1>1. p \in Int /\ n \in Nat /\ n <= 2 * Line /\ ((0 <= p /\ p < Line) \/ (Bottom <= p /\ p < Bottom + Line))
  BY Sizes, CellsAre DEF Counts
<1> DEFINE q == p + n
           r == IF q >= Line /\ q <= Bottom - 1 THEN q + (Bottom - Line) ELSE q
<1>2. NextFpos(p, n) = IF r >= Bottom + Line THEN r - 2 * Line ELSE r
  BY <1>1, Sizes DEF NextFpos
<1>3. NextFpos(p, n) \in 0 .. Bottom + Line - 1
  BY <1>1, <1>2, Sizes
<1>4. ASSUME ~(p + n >= Bottom + Line \/ (p \in Top /\ p + n >= Bottom)) PROVE NextFpos(p, n) = Behind(p, n)
  <2>1. q < Bottom + Line /\ (p < Line => q < Bottom)
    BY <1>1, <1>4, Sizes DEF Top
  <2>2. CASE p < Line
    BY <1>1, <1>2, <2>1, <2>2, Sizes DEF Behind, Index, Wrapped, CellAt
  <2>3. CASE ~(p < Line)
    BY <1>1, <1>2, <2>1, <2>3, Sizes DEF Behind, Index, Wrapped, CellAt
  <2> QED
    BY <2>2, <2>3
<1> QED
  BY <1>3, <1>4

-----------------------------------------------------------------------------
(***************************************************************************)
(* Lists of instructions.                                                   *)
(***************************************************************************)
LEMMA Tuples ==
  /\ \A a : << a >> # <<>> /\ Head(<< a >>) = a /\ Tail(<< a >>) = <<>> /\ DOMAIN << a >> = {1} /\ << a >>[1] = a
  /\ \A a, b : /\ << a, b >> # <<>> /\ Head(<< a, b >>) = a /\ Tail(<< a, b >>) = << b >>
               /\ DOMAIN << a, b >> = {1, 2} /\ << a, b >>[1] = a /\ << a, b >>[2] = b
               /\ << a >> \o << b >> = << a, b >> /\ <<>> \o << b >> = << b >>
<1>1. ASSUME NEW a PROVE << a >> # <<>> /\ Head(<< a >>) = a /\ DOMAIN << a >> = {1} /\ << a >>[1] = a
  OBVIOUS
<1>2. ASSUME NEW a PROVE Tail(<< a >>) = <<>>
  <2>1. << a >> \in Seq({a}) /\ Len(<< a >>) = 1 /\ << a >> # <<>>
    OBVIOUS
  <2>2. Tail(<< a >>) \in Seq({a}) /\ Len(Tail(<< a >>)) = 0
    BY <2>1, HeadTailProperties
  <2> QED
    BY <2>2, EmptySeq
<1>3. ASSUME NEW a, NEW b
      PROVE  << a, b >> # <<>> /\ Head(<< a, b >>) = a /\ DOMAIN << a, b >> = {1, 2} /\ << a, b >>[1] = a /\ << a, b >>[2] = b
  OBVIOUS
<1>4. ASSUME NEW a, NEW b PROVE Tail(<< a, b >>) = << b >>
  <2>1. << a, b >> \in Seq({a, b}) /\ Len(<< a, b >>) = 2 /\ << a, b >> # <<>> /\ << b >> \in Seq({a, b}) /\ Len(<< b >>) = 1
    OBVIOUS
  <2>2. Tail(<< a, b >>) \in Seq({a, b}) /\ Len(Tail(<< a, b >>)) = 1 /\ Tail(<< a, b >>)[1] = b
    BY <2>1, HeadTailProperties
  <2>3. \A i \in 1 .. 1 : Tail(<< a, b >>)[i] = << b >>[i]
    BY <2>2
  <2> QED
    BY <2>1, <2>2, <2>3, SeqEqual
<1>5. ASSUME NEW a, NEW b PROVE << a >> \o << b >> = << a, b >> /\ <<>> \o << b >> = << b >>
  <2>1. /\ << a >> \in Seq({a, b}) /\ << b >> \in Seq({a, b}) /\ << a, b >> \in Seq({a, b})
        /\ Len(<< a >>) = 1 /\ Len(<< b >>) = 1 /\ Len(<< a, b >>) = 2
    OBVIOUS
  <2>2. /\ << a >> \o << b >> \in Seq({a, b}) /\ Len(<< a >> \o << b >>) = 2
        /\ (<< a >> \o << b >>)[1] = << a >>[1] /\ (<< a >> \o << b >>)[2] = << b >>[1]
    BY <2>1, ConcatProperties
  <2>3. \A i \in 1 .. 2 : (<< a >> \o << b >>)[i] = << a, b >>[i]
    BY <2>2
  <2>4. << a >> \o << b >> = << a, b >>
    BY <2>1, <2>2, <2>3, SeqEqual
  <2>5. <<>> \o << b >> = << b >>
    BY <2>1, ConcatEmptySeq
  <2> QED
    BY <2>4, <2>5
<1> QED
  BY <1>1, <1>2, <1>3, <1>4, <1>5

LEMMA ScriptTails ==
  /\ Head(<< "clear", "write", "shl" >>) = "clear" /\ Tail(<< "clear", "write", "shl" >>) = << "write", "shl" >>
  /\ Head(<< "write", "shl" >>) = "write" /\ Tail(<< "write", "shl" >>) = << "shl" >>
  /\ Head(<< "shl" >>) = "shl" /\ Tail(<< "shl" >>) = <<>>
<1> DEFINE S == {"clear", "write", "shl"}
           s == << "clear", "write", "shl" >>
           t == << "write", "shl" >>
<1>1. s \in Seq(S) /\ Len(s) = 3 /\ s # <<>> /\ t \in Seq(S) /\ Len(t) = 2 /\ s[2] = t[1] /\ s[3] = t[2] /\ Head(s) = "clear"
  OBVIOUS
<1>2. Tail(s) \in Seq(S) /\ Len(Tail(s)) = 2 /\ \A i \in 1 .. 2 : Tail(s)[i] = s[i + 1]
  BY <1>1, HeadTailProperties
<1>3. \A i \in 1 .. 2 : Tail(s)[i] = t[i]
  BY <1>1, <1>2
<1>4. Tail(s) = t
  BY <1>1, <1>2, <1>3, SeqEqual
<1> QED
  BY <1>1, <1>4, Tuples

LEMMA InstrTypes ==
  /\ \A op \in {"CLEAR", "HOME", "CURSOR_ON", "CURSOR_OFF"} : Instr(op) \in Instrs /\ Instr(op).op = op
  /\ \A ms \in Nat : Setup(ms) \in Instrs /\ Setup(ms).op = "SETUP" /\ Setup(ms).arg[1] = ms
  BY DEF Instr, Setup, Instrs

LEMMA WriteInstrFacts ==
  ASSUME NEW loc \in Cells, NEW n \in Ids, NEW j \in Nat \ {0}
  PROVE  /\ WriteInstr(loc, n, j) \in Instrs /\ WriteInstr(loc, n, j).op # "SETUP"
         /\ j = 1 => WriteInstr(loc, n, j) = Home
         /\ j = 2 => WriteInstr(loc, n, j).op = "SET_CURSOR" /\ WriteInstr(loc, n, j).arg[1] = loc
         /\ j > 2 => WriteInstr(loc, n, j).op = "DATA" /\ WriteInstr(loc, n, j).arg = Char(n, j - 2)
<1>1. loc \in Nat /\ n \in Nat
  BY Sizes, CellsAre DEF Ids
<1>2. CASE j = 1
  BY <1>2, InstrTypes DEF WriteInstr, Home
<1>3. CASE j = 2
  BY <1>1, <1>3 DEF WriteInstr, Instrs
<1>4. CASE j > 2
  <2>1. j - 2 \in Nat
    BY <1>4
  <2> QED
    BY <1>1, <1>4, <2>1 DEF WriteInstr, Instrs, Char
<1> QED
  BY <1>2, <1>3, <1>4

LEMMA Joined ==
  ASSUME NEW S, NEW s \in Seq(S), NEW t \in Seq(S), NEW m \in Nat, Len(s) = 2, Len(t) = m
  PROVE  /\ s \o t \in Seq(S) /\ Len(s \o t) = m + 2
         /\ \A i \in 1 .. m + 2 : (s \o t)[i] = IF i <= 2 THEN s[i] ELSE t[i - 2]
<1>1. /\ s \o t \in Seq(S) /\ Len(s \o t) = Len(s) + Len(t)
      /\ \A i \in 1 .. Len(s) + Len(t) : (s \o t)[i] = IF i <= Len(s) THEN s[i] ELSE t[i - Len(s)]
  BY ConcatProperties
<1>2. 2 + m = m + 2
  OBVIOUS
<1> QED
  BY <1>1, <1>2

LEMMA Follows ==
  ASSUME NEW S, NEW s \in Seq(S), NEW m \in Nat, Len(s) = m + 1
  PROVE  /\ s # <<>> /\ Head(s) = s[1] /\ Tail(s) \in Seq(S) /\ Len(Tail(s)) = m
         /\ \A i \in 1 .. m : Tail(s)[i] = s[i + 1]
<1>1. s # <<>>
  BY EmptySeq
<1>2. /\ Tail(s) \in Seq(S) /\ Len(Tail(s)) = Len(s) - 1
      /\ \A i \in 1 .. Len(Tail(s)) : Tail(s)[i] = s[i + 1]
  BY <1>1, HeadTailProperties
<1>3. Len(s) - 1 = m
  OBVIOUS
<1> QED
  BY <1>1, <1>2, <1>3

(* de2lcd_write_at, at its beginning.                                       *)
LEMMA WriteList ==
  ASSUME NEW loc \in Cells, NEW n \in Ids, NEW count \in Counts
  PROVE  LET list == de2lcd_write_at(loc, n, count)
         IN  list \in Seq(Instrs) /\ Writing(list, loc, n, count, 0)
<1> DEFINE two == << Instr("HOME"), [op |-> "SET_CURSOR", arg |-> <<loc, 0>>] >>
           chars == [k \in 1 .. count |-> [op |-> "DATA", arg |-> Char(n, k)]]
<1>1. loc \in Nat /\ n \in Nat /\ count \in Nat
  BY Sizes, CellsAre DEF Ids, Counts
<1>2. two \in Seq(Instrs) /\ Len(two) = 2
  <2>1. two[1] \in Instrs /\ two[2] \in Instrs
    BY <1>1 DEF Instr, Instrs
  <2> QED
    BY <2>1
<1>3. chars \in Seq(Instrs) /\ Len(chars) = count
  <2>1. \A k \in 1 .. count : [op |-> "DATA", arg |-> Char(n, k)] \in Instrs
    BY <1>1 DEF Instrs, Char
  <2>2. chars \in [1 .. count -> Instrs]
    BY <2>1
  <2> QED
    BY <1>1, <2>2
<1> DEFINE list == two \o chars
<1>4. /\ list \in Seq(Instrs) /\ Len(list) = count + 2
      /\ \A i \in 1 .. count + 2 : list[i] = IF i <= 2 THEN two[i] ELSE chars[i - 2]
  <2> HIDE DEF two, chars
  <2> QED
    BY <1>1, <1>2, <1>3, Joined
<1>5. ASSUME NEW i \in 1 .. count + 2 PROVE list[i] = WriteInstr(loc, n, i)
  <2>1. CASE i = 1 \/ i = 2
    BY <1>4, <2>1 DEF WriteInstr, Home
  <2>2. CASE i > 2
    <3>1. i - 2 \in 1 .. count
      BY <1>1, <2>2
    <3> QED
      BY <1>1, <1>4, <2>2, <3>1 DEF WriteInstr
  <2> QED
    BY <1>1, <2>1, <2>2
<1>6. DOMAIN list = 1 .. count + 2
  <2> HIDE DEF list
  <2> QED
    BY <1>4, LenProperties
<1>7. list = de2lcd_write_at(loc, n, count)
  BY DEF de2lcd_write_at
<1> HIDE DEF list
<1>8. count + 2 - 0 = count + 2 /\ \A i \in 1 .. count + 2 : 0 + i = i
  BY <1>1
<1> QED
  BY <1>4, <1>5, <1>6, <1>7, <1>8 DEF Writing

(* The next instruction of a write.                                         *)
LEMMA WritingNext ==
  ASSUME NEW list \in Seq(Instrs), NEW loc, NEW n, NEW count \in Counts, NEW d \in 0 .. count + 1,
         Writing(list, loc, n, count, d)
  PROVE  /\ list # <<>> /\ Head(list) = WriteInstr(loc, n, d + 1) /\ Tail(list) \in Seq(Instrs)
         /\ d < count + 1 => Writing(Tail(list), loc, n, count, d + 1)
         /\ d = count + 1 => Tail(list) = <<>>
<1>1. count \in Nat /\ d \in Nat /\ d <= count + 1
  BY Sizes DEF Counts
<1>2. Len(list) = count + 2 - d /\ Len(list) >= 1 /\ list # <<>>
  <2>1. 1 .. Len(list) = 1 .. count + 2 - d /\ Len(list) \in Nat
    BY LenProperties DEF Writing
  <2>2. count + 2 - d \in Nat /\ count + 2 - d >= 1
    BY <1>1
  <2>3. Len(list) = count + 2 - d
    BY <2>1, <2>2
  <2> QED
    BY <2>2, <2>3, EmptySeq
<1>3. /\ Head(list) = list[1] /\ Tail(list) \in Seq(Instrs) /\ Len(Tail(list)) = count + 1 - d
      /\ \A i \in 1 .. count + 1 - d : Tail(list)[i] = list[i + 1]
  <2>1. count + 1 - d \in Nat /\ Len(list) = (count + 1 - d) + 1
    BY <1>1, <1>2
  <2> QED
    BY <2>1, Follows
<1>4. Head(list) = WriteInstr(loc, n, d + 1)
  BY <1>1, <1>2, <1>3 DEF Writing
<1>5. ASSUME d < count + 1 PROVE Writing(Tail(list), loc, n, count, d + 1)
  <2>1. count + 2 - (d + 1) = count + 1 - d
    BY <1>1
  <2>2. DOMAIN Tail(list) = 1 .. count + 1 - d
    BY <1>3, LenProperties
  <2>3. ASSUME NEW i \in 1 .. count + 1 - d PROVE Tail(list)[i] = WriteInstr(loc, n, d + 1 + i)
    <3>1. i + 1 \in 1 .. count + 2 - d /\ d + (i + 1) = d + 1 + i
      BY <1>1
    <3> QED
      BY <1>3, <3>1 DEF Writing
  <2> QED
    BY <2>1, <2>2, <2>3 DEF Writing
<1>6. ASSUME d = count + 1 PROVE Tail(list) = <<>>
  <2>1. count + 1 - d = 0
    BY <1>1, <1>6
  <2>2. Len(Tail(list)) = 0
    BY <1>3, <2>1, Zenon
  <2> QED
    BY <1>3, <2>2, EmptySeq
<1> QED
  BY <1>2, <1>3, <1>4, <1>5, <1>6

LEMMA WritingHasNoSetup ==
  ASSUME NEW list, NEW loc \in Cells, NEW n \in Ids, NEW count \in Counts, NEW d \in 0 .. count + 1,
         Writing(list, loc, n, count, d)
  PROVE  ~HasSetup(list)
<1>1. \A i \in 1 .. count + 2 - d : d + i \in Nat \ {0}
  BY Sizes DEF Counts
<1> QED
  BY <1>1, WriteInstrFacts DEF Writing, HasSetup

LEMMA ShortLists ==
  /\ \A list \in Single : list \in Seq(Instrs) /\ list # <<>> /\ Tail(list) = <<>> /\ ~HasSetup(list)
                          /\ Head(list).op \in {"CLEAR", "CURSOR_ON", "CURSOR_OFF"}
  /\ \A ms \in Nat : /\ << Setup(ms) >> \in Seq(Instrs) /\ HasSetup(<< Setup(ms) >>)
                     /\ << Home, Setup(ms) >> \in Seq(Instrs) /\ HasSetup(<< Home, Setup(ms) >>)
  /\ ~HasSetup(<<>>)
<1>1. ASSUME NEW op \in {"CLEAR", "CURSOR_ON", "CURSOR_OFF"}
      PROVE  /\ << Instr(op) >> \in Seq(Instrs) /\ << Instr(op) >> # <<>> /\ Tail(<< Instr(op) >>) = <<>>
             /\ ~HasSetup(<< Instr(op) >>) /\ Head(<< Instr(op) >>).op = op
  BY InstrTypes, Tuples DEF HasSetup
<1>2. ASSUME NEW ms \in Nat
      PROVE  << Setup(ms) >> \in Seq(Instrs) /\ HasSetup(<< Setup(ms) >>)
  BY InstrTypes, Tuples DEF HasSetup
<1>3. ASSUME NEW ms \in Nat
      PROVE  << Home, Setup(ms) >> \in Seq(Instrs) /\ HasSetup(<< Home, Setup(ms) >>)
  BY InstrTypes, Tuples DEF HasSetup, Home
<1>4. ~HasSetup(<<>>)
  BY DEF HasSetup
<1> QED
  BY <1>1, <1>2, <1>3, <1>4 DEF Single

-----------------------------------------------------------------------------
(***************************************************************************)
(* The initial state, and the arithmetic of the driver.                     *)
(***************************************************************************)
LEMMA Remainders ==
  /\ \A ms \in Int : ms % Width \in 0 .. Width - 1
  /\ 150 % Width = 150 /\ 0 % Width = 0
  /\ \A k \in Int : k % Line \in 0 .. Line - 1
<1>1. Width \in Nat /\ Width > 150 /\ Line \in Nat /\ Line > 0
  BY Sizes
<1>2. \A ms \in Int : ms % Width \in 0 .. Width - 1
  BY <1>1
<1>3. 150 % Width = 150 /\ 0 % Width = 0
  BY <1>1
<1>4. \A k \in Int : k % Line \in 0 .. Line - 1
  BY <1>1
<1> QED
  BY <1>2, <1>3, <1>4

LEMMA TextFacts ==
  ASSUME LcdTypeOK
  PROVE  /\ text.n \in Nat /\ Kept(text.n) \in Counts
         /\ shl_ms(text.n) \in Nat
         /\ shl_ms(text.n) % Width = IF text.n > Visible THEN 150 ELSE 0
<1>1. text.n \in Nat
  <2>1. text \in [id : 0 .. MaxCalls, n : Lengths \cup {0}]
    BY DEF LcdTypeOK
  <2>2. text.n \in Lengths \cup {0}
    BY <2>1
  <2>3. \A n \in Lengths \cup {0} : n \in Nat
    BY Sizes
  <2> QED
    BY <2>2, <2>3
<1>2. Kept(text.n) \in Counts
  BY <1>1, Sizes DEF Kept, Counts
<1>3. shl_ms(text.n) \in Nat /\ shl_ms(text.n) % Width = IF text.n > Visible THEN 150 ELSE 0
  <2>1. CASE text.n > Visible
    BY <2>1, Remainders DEF shl_ms
  <2>2. CASE ~(text.n > Visible)
    BY <2>2, Remainders DEF shl_ms
  <2> QED
    BY <2>1, <2>2
<1> QED
  BY <1>1, <1>2, <1>3

LEMMA LcdInitHolds == LcdInit => LcdInv
<1> SUFFICES ASSUME LcdInit PROVE LcdInv
  OBVIOUS
<1> USE DEF LcdInit
<1>1. LcdTypeOK
  <2>1. 0 \in Cells /\ 0 \in 0 .. Line - 1 /\ 0 \in 0 .. Width - 1 /\ 0 \in 0 .. Bottom + Line - 1 /\ 0 \in 0 .. MaxCalls
    BY Sizes, CellsAre
  <2>2. Len(<<>>) <= 3
    OBVIOUS
  <2> QED
    BY <2>1, <2>2 DEF LcdTypeOK
<1>2. JobInv
  BY DEF JobInv
<1>3. TimerInv
  BY ShortLists DEF TimerInv
<1>4. TextInv
  BY DEF TextInv, ScriptInv, Scripts, ClearedInv, WrittenInv, SetInv
<1>5. OffsetFollowsCursor
  BY DEF OffsetFollowsCursor
<1> QED
  BY <1>1, <1>2, <1>3, <1>4, <1>5 DEF LcdInv

-----------------------------------------------------------------------------
(***************************************************************************)
(* What an instruction does, by the list it heads.                          *)
(***************************************************************************)
LEMMA WriteStep ==
  ASSUME Instruction, job \in Seq(Instrs),
         NEW loc \in Cells, NEW n \in Ids, NEW count \in Counts, NEW d \in 0 .. count + 1,
         Writing(job, loc, n, count, d)
  PROVE  /\ UNCHANGED <<de_shl_ms, timer>>
         /\ d = 0 => ac' = 0 /\ shift' = 0 /\ ddram' = ddram
         /\ d = 1 => ac' = loc /\ UNCHANGED <<ddram, shift>>
         /\ d >= 2 => ac' = NextCell(ac) /\ ddram' = [ddram EXCEPT ![ac] = Char(n, d - 1)] /\ UNCHANGED shift
         /\ job' \in Seq(Instrs)
         /\ IF d < count + 1 THEN Writing(job', loc, n, count, d + 1) ELSE job' = <<>>
<1>1. count \in Nat /\ d \in Nat /\ d + 1 \in Nat \ {0} /\ d <= count + 1
  BY Sizes DEF Counts
<1>2. /\ Head(job) = WriteInstr(loc, n, d + 1) /\ Tail(job) \in Seq(Instrs)
      /\ d < count + 1 => Writing(Tail(job), loc, n, count, d + 1)
      /\ d = count + 1 => Tail(job) = <<>>
  BY WritingNext
<1>3. job' = Tail(job) /\ Obey(WriteInstr(loc, n, d + 1))
  BY <1>2 DEF Instruction
<1>4. UNCHANGED <<de_shl_ms, timer>>
  <2>1. Head(job).op # "SETUP"
    BY <1>1, <1>2, WriteInstrFacts
  <2> QED
    BY <2>1 DEF Instruction
<1>5. d = 0 => ac' = 0 /\ shift' = 0 /\ ddram' = ddram
  BY <1>3 DEF WriteInstr, Home, Instr, Obey
<1>6. d = 1 => ac' = loc /\ UNCHANGED <<ddram, shift>>
  BY <1>3 DEF WriteInstr, Obey
<1>7. ASSUME d >= 2 PROVE ac' = NextCell(ac) /\ ddram' = [ddram EXCEPT ![ac] = Char(n, d - 1)] /\ UNCHANGED shift
  <2>1. d + 1 > 2 /\ d + 1 - 2 = d - 1
    BY <1>1, <1>7
  <2>2. WriteInstr(loc, n, d + 1).op = "DATA" /\ WriteInstr(loc, n, d + 1).arg = Char(n, d - 1)
    BY <1>1, <2>1, WriteInstrFacts
  <2> QED
    BY <1>3, <2>2 DEF Obey
<1> QED
  BY <1>1, <1>2, <1>3, <1>4, <1>5, <1>6, <1>7

LEMMA SingleStep ==
  ASSUME Instruction, job \in Single
  PROVE  /\ job' = <<>> /\ UNCHANGED <<de_shl_ms, timer>>
         /\ \/ ddram' = [a \in Cells |-> Blank] /\ ac' = 0 /\ shift' = 0
            \/ job # << Instr("CLEAR") >> /\ UNCHANGED <<ddram, ac, shift>>
<1>1. PICK op \in {"CLEAR", "CURSOR_ON", "CURSOR_OFF"} : job = << Instr(op) >>
  BY DEF Single
<1>2. Head(job) = Instr(op) /\ Tail(job) = <<>> /\ Instr(op).op = op
  BY <1>1, Tuples, InstrTypes
<1>3. Obey(Instr(op)) /\ job' = <<>> /\ UNCHANGED <<de_shl_ms, timer>>
  BY <1>2 DEF Instruction
<1>4. CASE op = "CLEAR"
  BY <1>2, <1>3, <1>4 DEF Obey
<1>5. CASE op # "CLEAR"
  <2>1. UNCHANGED <<ddram, ac, shift>>
    BY <1>2, <1>3, <1>5 DEF Obey
  <2>2. job # << Instr("CLEAR") >>
    BY <1>1, <1>2, <1>5, InstrTypes, Tuples
  <2> QED
    BY <1>3, <2>1, <2>2
<1> QED
  BY <1>3, <1>4, <1>5

LEMMA HomeStep ==
  ASSUME Instruction, NEW ms \in Nat, job = << Home, Setup(ms) >>
  PROVE  job' = << Setup(ms) >> /\ ac' = 0 /\ shift' = 0 /\ UNCHANGED <<ddram, de_shl_ms, timer>>
<1>1. Head(job) = Home /\ Tail(job) = << Setup(ms) >> /\ Home.op = "HOME"
  BY Tuples, InstrTypes DEF Home
<1> QED
  BY <1>1 DEF Instruction, Obey

LEMMA SetupStep ==
  ASSUME Instruction, NEW ms \in Nat, job = << Setup(ms) >>
  PROVE  job' = <<>> /\ de_shl_ms' = ms /\ timer' = (timer \/ ms # 0) /\ UNCHANGED <<ddram, ac, shift>>
<1>1. Head(job) = Setup(ms) /\ Tail(job) = <<>> /\ Setup(ms).op = "SETUP" /\ Setup(ms).arg[1] = ms
  BY Tuples, InstrTypes
<1> QED
  BY <1>1 DEF Instruction, Obey

-----------------------------------------------------------------------------
(***************************************************************************)
(* An instruction keeps the invariant.                                      *)
(***************************************************************************)
LEMMA Marked ==
  ASSUME NEW n \in Ids, NEW k \in 1 .. 2 * Line
  PROVE  Char(n, k) \in (1 .. MaxCalls) \X (1 .. 2 * Line)
  BY DEF Ids, Char

(* A write shows the next character of the text.                            *)
LEMMA NextShown ==
  ASSUME LcdTypeOK, NEW d \in 1 .. 2 * Line, Shown(d - 1), ac = Behind(0, d - 1),
         text' = text, ddram' = [ddram EXCEPT ![ac] = Char(text.id, d)]
  PROVE  Shown(d)'
<1>1. d - 1 \in 0 .. 2 * Line - 1 /\ d - 1 + 1 = d
  BY Sizes
<1>2. ac = CellOf(d)
  BY <1>1, FromTheStart
<1>3. ASSUME NEW k \in 1 .. 2 * Line
      PROVE  ddram'[CellOf(k)] = IF k <= d THEN Char(text.id, k) ELSE Blank
  <2>1. CellOf(k) \in Cells /\ DOMAIN ddram = Cells
    BY FromTheStart DEF LcdTypeOK
  <2>2. CASE k = d
    BY <1>2, <2>1, <2>2
  <2>3. CASE k # d
    <3>1. CellOf(k) # ac
      BY <1>2, <2>3, FromTheStart
    <3>2. ddram'[CellOf(k)] = ddram[CellOf(k)]
      BY <2>1, <3>1
    <3>3. k <= d <=> k <= d - 1
      BY <2>3, Sizes
    <3> QED
      BY <3>2, <3>3 DEF Shown
  <2> QED
    BY <2>2, <2>3
<1> QED
  BY <1>3 DEF Shown

LEMMA InstructionType ==
  ASSUME LcdInv, Instruction
  PROVE  LcdTypeOK'
<1> USE DEF LcdInv
<1> DEFINE Marks == {Blank} \cup ((1 .. MaxCalls) \X (1 .. 2 * Line))
<1>1. 0 \in Cells /\ 0 \in 0 .. Line - 1
  BY Sizes, CellsAre
<1>2. SUFFICES ddram' \in [Cells -> Marks] /\ ac' \in Cells /\ shift' \in 0 .. Line - 1
               /\ de_shl_ms' \in 0 .. Width - 1 /\ timer' \in BOOLEAN
  BY <1>2 DEF LcdTypeOK, Instruction
<1>3. ddram \in [Cells -> Marks] /\ ac \in Cells /\ shift \in 0 .. Line - 1
      /\ de_shl_ms \in 0 .. Width - 1 /\ timer \in BOOLEAN
  BY DEF LcdTypeOK
<1>4. CASE job \in Single
  <2>1. [a \in Cells |-> Blank] \in [Cells -> Marks]
    OBVIOUS
  <2> QED
    BY <1>1, <1>3, <1>4, <2>1, SingleStep
<1>5. CASE \E ms \in 0 .. Width - 1 : Setting(job, ms)
  <2>1. PICK ms \in 0 .. Width - 1 : Setting(job, ms)
    BY <1>5
  <2>2. ms \in Nat
    BY Sizes
  <2> QED
    BY <1>1, <1>3, <2>1, <2>2, HomeStep, SetupStep DEF Setting
<1>6. CASE \E loc \in Cells, n \in Ids, count \in Counts : \E d \in 0 .. count + 1 : Writing(job, loc, n, count, d)
  <2>1. PICK loc \in Cells, n \in Ids, count \in Counts : \E d \in 0 .. count + 1 : Writing(job, loc, n, count, d)
    BY <1>6
  <2>2. PICK d \in 0 .. count + 1 : Writing(job, loc, n, count, d)
    BY <2>1
  <2>3. job \in Seq(Instrs)
    BY DEF JobInv
  <2>4. d \in Nat
    BY Sizes DEF Counts
  <2>5. CASE d < 2
    BY <1>1, <1>3, <2>2, <2>3, <2>4, <2>5, WriteStep
  <2>6. CASE d >= 2
    <3>1. d - 1 \in 1 .. 2 * Line
      BY <2>6, Sizes DEF Counts
    <3>2. Char(n, d - 1) \in Marks
      BY <3>1, Marked
    <3>3. ddram' = [ddram EXCEPT ![ac] = Char(n, d - 1)] /\ ac' = NextCell(ac) /\ UNCHANGED <<shift, de_shl_ms, timer>>
      BY <2>2, <2>3, <2>6, WriteStep
    <3>4. NextCell(ac) \in Cells
      BY <1>3, Sizes, CellsAre DEF NextCell
    <3>5. [ddram EXCEPT ![ac] = Char(n, d - 1)] \in [Cells -> Marks]
      BY <1>3, <3>2
    <3> QED
      BY <1>3, <3>3, <3>4, <3>5
  <2> QED
    BY <2>4, <2>5, <2>6
<1> QED
  BY <1>4, <1>5, <1>6 DEF JobInv, Instruction

LEMMA InstructionJob ==
  ASSUME LcdInv, Instruction
  PROVE  JobInv' /\ TimerInv' /\ OffsetFollowsCursor'
<1> USE DEF LcdInv
<1>1. job \in Seq(Instrs) /\ job # <<>> /\ UNCHANGED <<caller, fpos, overrun>>
  BY DEF JobInv, Instruction
<1>2. ~HasSetup(<<>>) /\ <<>> \in Seq(Instrs)
  BY ShortLists
<1>3. CASE caller # "stream" /\ job \in Single
  <2>1. job' = <<>> /\ UNCHANGED <<de_shl_ms, timer>> /\ ~HasSetup(job)
    BY <1>3, SingleStep, ShortLists
  <2> QED
    BY <1>1, <1>2, <1>3, <2>1 DEF JobInv, TimerInv, OffsetFollowsCursor
<1>4. CASE caller # "stream" /\ \E ms \in 0 .. Width - 1 : Setting(job, ms)
  <2>1. PICK ms \in 0 .. Width - 1 : Setting(job, ms)
    BY <1>4
  <2>2. ms \in Nat
    BY Sizes
  <2>3. HasSetup(job) /\ ~timer
    BY <2>1, <2>2, ShortLists DEF Setting, TimerInv
  <2>4. CASE job = << Home, Setup(ms) >>
    <3>1. job' = << Setup(ms) >> /\ timer' = timer /\ HasSetup(job') /\ job' \in Seq(Instrs)
      BY <2>2, <2>4, HomeStep, ShortLists
    <3>2. Setting(job', ms) /\ job' # <<>>
      BY <3>1, Tuples DEF Setting
    <3> QED
      BY <1>1, <1>4, <2>3, <3>1, <3>2 DEF JobInv, TimerInv, OffsetFollowsCursor
  <2>5. CASE job = << Setup(ms) >>
    <3>1. job' = <<>> /\ de_shl_ms' = ms /\ timer' = (ms # 0)
      BY <2>2, <2>3, <2>5, SetupStep
    <3> QED
      BY <1>1, <1>2, <1>4, <3>1 DEF JobInv, TimerInv, OffsetFollowsCursor
  <2> QED
    BY <2>1, <2>4, <2>5 DEF Setting
<1>5. CASE \E loc \in Cells, n \in Ids, count \in Counts : \E d \in 0 .. count + 1 :
             /\ Writing(job, loc, n, count, d)
             /\ d >= 2 => ac = Behind(loc, d - 2)
             /\ caller = "stream" /\ ~overrun => fpos = Behind(loc, count)
  <2>1. PICK loc \in Cells, n \in Ids, count \in Counts : \E d \in 0 .. count + 1 :
             /\ Writing(job, loc, n, count, d)
             /\ d >= 2 => ac = Behind(loc, d - 2)
             /\ caller = "stream" /\ ~overrun => fpos = Behind(loc, count)
    BY <1>5
  <2>2. PICK d \in 0 .. count + 1 :
             /\ Writing(job, loc, n, count, d)
             /\ d >= 2 => ac = Behind(loc, d - 2)
             /\ caller = "stream" /\ ~overrun => fpos = Behind(loc, count)
    BY <2>1
  <2>3. count \in Nat /\ count <= 2 * Line /\ d \in Nat /\ d <= count + 1
    BY Sizes DEF Counts
  <2>4. ~HasSetup(job) /\ UNCHANGED <<de_shl_ms, timer>>
    BY <1>1, <2>2, WriteStep, WritingHasNoSetup
  <2>5. d + 1 >= 2 => ac' = Behind(loc, d + 1 - 2)
    <3>1. CASE d = 1
      <4>1. ac' = loc
        BY <1>1, <2>2, <3>1, WriteStep
      <4>2. Behind(loc, 0) = loc
        BY Sizes, BehindFacts
      <4> QED
        BY <3>1, <4>1, <4>2
    <3>2. CASE d >= 2
      <4>1. ac' = NextCell(Behind(loc, d - 2))
        BY <1>1, <2>2, <3>2, WriteStep
      <4>2. d - 2 \in 0 .. 2 * Line /\ d - 2 < 2 * Line /\ d - 2 + 1 = d + 1 - 2
        BY <2>3, <3>2, Sizes
      <4> QED
        BY <4>1, <4>2, BehindFacts
    <3> QED
      BY <2>3, <3>1, <3>2
  <2>6. CASE d < count + 1
    <3>1. Writing(job', loc, n, count, d + 1) /\ job' \in Seq(Instrs)
      BY <1>1, <2>2, <2>6, WriteStep
    <3>2. d + 1 \in 0 .. count + 1
      BY <2>3, <2>6
    <3>3. ~HasSetup(job') /\ job' # <<>>
      BY <3>1, <3>2, WritingHasNoSetup, WritingNext
    <3>4. caller' = "stream" /\ ~overrun' => fpos' = Behind(loc, count)
      BY <1>1, <2>2
    <3>5. JobInv'
      BY <2>5, <3>1, <3>2, <3>4 DEF JobInv
    <3> QED
      BY <2>4, <3>3, <3>5 DEF TimerInv, OffsetFollowsCursor
  <2>7. CASE ~(d < count + 1)
    <3>1. job' = <<>>
      BY <1>1, <2>2, <2>7, WriteStep
    <3>2. d = count + 1
      BY <2>3, <2>7
    <3>3. CASE caller = "stream" /\ ~overrun
      <4>1. d + 1 >= 2 /\ d + 1 - 2 = count
        BY <2>3, <3>2
      <4> QED
        BY <1>1, <1>2, <2>2, <2>4, <2>5, <3>1, <3>3, <4>1 DEF JobInv, TimerInv, OffsetFollowsCursor
    <3>4. CASE ~(caller = "stream" /\ ~overrun)
      BY <1>1, <1>2, <2>4, <3>1, <3>4 DEF JobInv, TimerInv, OffsetFollowsCursor
    <3> QED
      BY <3>3, <3>4
  <2> QED
    BY <2>6, <2>7
<1> QED
  BY <1>1, <1>3, <1>4, <1>5 DEF JobInv

LEMMA InstructionText ==
  ASSUME LcdInv, Instruction
  PROVE  TextInv'
<1>1. job # <<>> /\ UNCHANGED <<script, text, alone>> /\ LcdTypeOK /\ job \in Seq(Instrs)
  BY DEF Instruction, LcdInv, JobInv
<1>2. ScriptInv'
  BY <1>1 DEF LcdInv, TextInv, ScriptInv
<1>3. ClearedInv'
  <2>1. SUFFICES ASSUME alone, script = << "write", "shl" >> PROVE job' = <<>> /\ Shown(0)' /\ Still'
    BY <1>1 DEF ClearedInv
  <2>2. job = << Instr("CLEAR") >>
    BY <1>1, <2>1 DEF LcdInv, TextInv, ClearedInv
  <2>3. job' = <<>> /\ ddram' = [a \in Cells |-> Blank] /\ shift' = 0
    BY <2>2, SingleStep DEF Single
  <2>4. Shown(0)'
    <3>1. \A k \in 1 .. 2 * Line : ~(k <= 0) /\ CellOf(k) \in Cells
      BY FromTheStart, Sizes
    <3> QED
      BY <2>3, <3>1 DEF Shown
  <2> QED
    BY <2>3, <2>4 DEF Still
<1>4. WrittenInv'
  <2> DEFINE n == Kept(text.n)
  <2>1. SUFFICES ASSUME alone, script = << "shl" >>
                 PROVE  /\ Still'
                        /\ \/ \E d \in 0 .. n + 1 :
                                /\ Writing(job', 0, text.id, n, d)
                                /\ d >= 2 => ac' = Behind(0, d - 2)
                                /\ Shown(IF d >= 2 THEN d - 2 ELSE 0)'
                           \/ job' = <<>> /\ Shown(n)'
    BY <1>1 DEF WrittenInv
  <2>2. /\ Still
        /\ \E d \in 0 .. n + 1 :
             /\ Writing(job, 0, text.id, n, d)
             /\ d >= 2 => ac = Behind(0, d - 2)
             /\ Shown(IF d >= 2 THEN d - 2 ELSE 0)
    BY <1>1, <2>1 DEF LcdInv, TextInv, WrittenInv
  <2>3. PICK d \in 0 .. n + 1 :
             /\ Writing(job, 0, text.id, n, d)
             /\ d >= 2 => ac = Behind(0, d - 2)
             /\ Shown(IF d >= 2 THEN d - 2 ELSE 0)
    BY <2>2
  <2>4. n \in Counts /\ text.id \in Ids /\ 0 \in Cells
    BY <1>1, <2>1, TextFacts, FromTheStart DEF LcdInv, TextInv, ScriptInv
  <2>5. n \in Nat /\ n <= 2 * Line /\ d \in Nat /\ d <= n + 1
    BY <2>4, Sizes DEF Counts
  <2>5a. n' = n
    BY <1>1
  <2> HIDE DEF n
  <2>6. /\ UNCHANGED <<de_shl_ms, timer>>
        /\ d = 0 => ac' = 0 /\ shift' = 0 /\ ddram' = ddram
        /\ d = 1 => ac' = 0 /\ UNCHANGED <<ddram, shift>>
        /\ d >= 2 => ac' = NextCell(ac) /\ ddram' = [ddram EXCEPT ![ac] = Char(text.id, d - 1)] /\ UNCHANGED shift
        /\ IF d < n + 1 THEN Writing(job', 0, text.id, n, d + 1) ELSE job' = <<>>
    BY <1>1, <2>3, <2>4, WriteStep
  <2>7. Still'
    BY <2>2, <2>5, <2>6 DEF Still
  <2>8. /\ d + 1 >= 2 => ac' = Behind(0, d + 1 - 2)
        /\ Shown(IF d + 1 >= 2 THEN d + 1 - 2 ELSE 0)'
    <3>1. CASE d < 2
      <4>1. Shown(0) /\ ddram' = ddram
        BY <2>3, <2>5, <2>6, <3>1
      <4>2. Shown(0)'
        BY <1>1, <4>1 DEF Shown
      <4>3. Behind(0, 0) = 0
        BY <2>4, BehindFacts, Sizes
      <4>4. CASE d = 0
        BY <4>2, <4>4
      <4>5. CASE d = 1
        BY <2>6, <4>2, <4>3, <4>5
      <4> QED
        BY <2>5, <3>1, <4>4, <4>5
    <3>2. CASE d >= 2
      <4>1. /\ d - 1 \in 1 .. 2 * Line /\ d - 1 - 1 = d - 2 /\ d + 1 - 2 = d - 1 /\ d + 1 >= 2
            /\ d - 2 \in 0 .. 2 * Line /\ d - 2 < 2 * Line /\ d - 2 + 1 = d - 1
        BY <2>5, <3>2, Sizes
      <4>2. ac = Behind(0, d - 2) /\ Shown(d - 2)
        BY <2>3, <3>2
      <4>3. ac' = Behind(0, d - 1)
        BY <2>4, <2>6, <3>2, <4>1, <4>2, BehindFacts
      <4>4. Shown(d - 1)'
        BY <1>1, <2>6, <3>2, <4>1, <4>2, NextShown
      <4> QED
        BY <4>1, <4>3, <4>4
    <3> QED
      BY <2>5, <3>1, <3>2
  <2>9. CASE d < n + 1
    <3>1. d + 1 \in 0 .. n + 1
      BY <2>5, <2>9
    <3> QED
      BY <2>6, <2>7, <2>8, <2>9, <3>1
  <2>10. CASE ~(d < n + 1)
    <3>1. d + 1 >= 2 /\ d + 1 - 2 = n
      BY <2>5, <2>10
    <3>2. job' = <<>>
      BY <2>6, <2>10
    <3>3. Shown(n)'
      BY <2>5a, <2>8, <3>1 DEF Shown
    <3> QED
      BY <2>7, <3>2, <3>3
  <2> QED
    BY <2>9, <2>10
<1>5. SetInv'
  <2> DEFINE ms == shl_ms(text.n) % Width
  <2>1. SUFFICES ASSUME alone, script = <<>>
                 PROVE  /\ Shown(Kept(text.n))'
                        /\ \/ job' = << Home, Setup(ms) >>
                           \/ job' = << Setup(ms) >> /\ shift' = 0
                           \/ job' = <<>> /\ (text.n <= Visible => shift' = 0 /\ ~timer') /\ (text.n > Visible => timer')
    BY <1>1 DEF SetInv
  <2>2. Shown(Kept(text.n)) /\ (job = << Home, Setup(ms) >> \/ (job = << Setup(ms) >> /\ shift = 0))
    <3>1. SetInv
      BY DEF LcdInv, TextInv
    <3> QED
      BY <1>1, <2>1, <3>1 DEF SetInv
  <2>3. text.n \in Nat /\ ms \in Nat /\ ms = IF text.n > Visible THEN 150 ELSE 0
    BY <1>1, TextFacts
  <2> HIDE DEF ms
  <2>4. ddram' = ddram
    BY <2>2, <2>3, HomeStep, SetupStep
  <2>5. Shown(Kept(text.n))'
    BY <1>1, <2>2, <2>4 DEF Shown
  <2>6. CASE job = << Home, Setup(ms) >>
    BY <2>3, <2>5, <2>6, HomeStep
  <2>7. CASE job = << Setup(ms) >> /\ shift = 0
    <3>1. HasSetup(job) /\ ~timer
      BY <2>3, <2>7, ShortLists DEF LcdInv, TimerInv
    <3>2. job' = <<>> /\ timer' = (ms # 0) /\ shift' = 0
      BY <2>3, <2>7, <3>1, SetupStep
    <3>3. text.n <= Visible <=> ~(text.n > Visible)
      BY <2>3, Sizes
    <3>4. text.n <= Visible => shift' = 0 /\ ~timer'
      BY <2>3, <3>2, <3>3
    <3>5. text.n > Visible => timer'
      <4>1. text.n > Visible => ms # 0
        BY <2>3
      <4> QED
        BY <3>2, <4>1, Zenon
    <3> QED
      BY <2>5, <3>2, <3>4, <3>5
  <2> QED
    BY <2>2, <2>6, <2>7
<1> QED
  BY <1>2, <1>3, <1>4, <1>5 DEF TextInv

LEMMA InstructionKeeps == LcdInv /\ Instruction => LcdInv'
  BY InstructionType, InstructionJob, InstructionText DEF LcdInv

(* The timer fires only while the driver thinks it shifts.                  *)
LEMMA ShiftKeeps == LcdInv /\ Shift => LcdInv'
<1> SUFFICES ASSUME LcdInv, Shift PROVE LcdInv'
  OBVIOUS
<1>1. timer /\ UNCHANGED <<ddram, ac, de_shl_ms, timer, job, caller, script, fpos, overrun, text, alone, calls>>
  BY DEF Shift
<1>2. ~HasSetup(job) /\ de_shl_ms # 0
  BY <1>1 DEF LcdInv, TimerInv
<1>3. LcdTypeOK'
  <2>1. shift \in 0 .. Line - 1 /\ shift + 1 \in Int
    BY Sizes DEF LcdInv, LcdTypeOK
  <2>2. shift' \in 0 .. Line - 1
    BY <2>1, Remainders DEF Shift
  <2> QED
    BY <1>1, <2>2 DEF LcdInv, LcdTypeOK
<1>4. JobInv' /\ TimerInv' /\ OffsetFollowsCursor'
  BY <1>1 DEF LcdInv, JobInv, TimerInv, OffsetFollowsCursor
<1>5. \A d \in Nat : Shown(d)' <=> Shown(d)
  BY <1>1 DEF Shown
<1>6. ScriptInv' /\ Still'
  BY <1>1, <1>2 DEF LcdInv, TextInv, ScriptInv, Still
<1>7. ClearedInv'
  BY <1>1, <1>5, <1>6 DEF LcdInv, TextInv, ClearedInv
<1>8. WrittenInv'
  BY <1>1, <1>6 DEF LcdInv, TextInv, WrittenInv, Shown
<1>9. SetInv'
  <2>1. SUFFICES ASSUME alone, script = <<>> PROVE SetInv'
    BY <1>1 DEF SetInv
  <2>2. text.n \in Nat /\ shl_ms(text.n) % Width \in Nat
    BY TextFacts DEF LcdInv
  <2>3. job # << Setup(shl_ms(text.n) % Width) >> /\ job # << Home, Setup(shl_ms(text.n) % Width) >>
    BY <1>2, <2>2, ShortLists
  <2>4. job = <<>> /\ Shown(Kept(text.n)) /\ ~(text.n <= Visible)
    BY <1>1, <2>1, <2>3 DEF LcdInv, TextInv, SetInv
  <2> QED
    BY <1>1, <2>4 DEF SetInv, Shown
<1> QED
  BY <1>3, <1>4, <1>6, <1>7, <1>8, <1>9 DEF LcdInv, TextInv

-----------------------------------------------------------------------------
(***************************************************************************)
(* The system calls: which lists they begin with.                           *)
(***************************************************************************)
LEMMA ScriptFacts ==
  ASSUME ScriptInv, script # <<>>
  PROVE  /\ text.id \in Ids
         /\ Head(script) = "clear" => Tail(script) = << "write", "shl" >>
         /\ Head(script) = "write" => script = << "write", "shl" >> /\ Tail(script) = << "shl" >>
         /\ Head(script) = "shl" => script = << "shl" >> /\ Tail(script) = <<>>
  BY ScriptTails DEF ScriptInv, Scripts

LEMMA ScriptsDiffer ==
  /\ << "clear", "write", "shl" >> # << "write", "shl" >> /\ << "clear", "write", "shl" >> # << "shl" >>
  /\ << "clear", "write", "shl" >> # <<>> /\ << "write", "shl" >> # << "shl" >>
  /\ << "write", "shl" >> # <<>> /\ << "shl" >> # <<>>
  /\ Len(<< "write", "shl" >>) <= 3 /\ Len(<< "shl" >>) <= 3 /\ Len(<<>>) <= 3
  /\ Len(<< "clear", "write", "shl" >>) <= 3
  OBVIOUS

(* Between system calls the timer is pending iff the driver shifts.         *)
LEMMA AtRest == ASSUME LcdInv, job = <<>> PROVE timer <=> de_shl_ms # 0
  BY ShortLists DEF LcdInv, TimerInv

(* A system call that writes or does one thing begins.                      *)
LEMMA SingleBegins ==
  ASSUME LcdInv, job = <<>>, job' \in Single, caller' # "stream", UNCHANGED <<de_shl_ms, timer>>
  PROVE  JobInv' /\ TimerInv' /\ OffsetFollowsCursor'
<1>1. job' \in Seq(Instrs) /\ job' # <<>> /\ ~HasSetup(job')
  BY ShortLists
<1> QED
  BY <1>1, AtRest DEF JobInv, TimerInv, OffsetFollowsCursor

LEMMA WriteBegins ==
  ASSUME LcdInv, job = <<>>, UNCHANGED <<de_shl_ms, timer>>,
         NEW loc \in Cells, NEW n \in Ids, NEW count \in Counts,
         job' = de2lcd_write_at(loc, n, count),
         caller' = "stream" /\ ~overrun' => fpos' = Behind(loc, count)
  PROVE  JobInv' /\ TimerInv' /\ OffsetFollowsCursor' /\ Writing(job', loc, n, count, 0)
<1>1. job' \in Seq(Instrs) /\ Writing(job', loc, n, count, 0)
  BY WriteList
<1>2. 0 \in 0 .. count + 1 /\ ~(0 >= 2)
  BY Sizes DEF Counts
<1>3. job' # <<>> /\ ~HasSetup(job')
  BY <1>1, <1>2, WritingNext, WritingHasNoSetup
<1>4. JobInv'
  BY <1>1, <1>2 DEF JobInv
<1> QED
  BY <1>1, <1>3, <1>4, AtRest DEF TimerInv, OffsetFollowsCursor

LEMMA SettingBegins ==
  ASSUME LcdInv, NEW who, NEW ms \in Int, SetShl(who, ms), who # "stream", UNCHANGED de_shl_ms
  PROVE  /\ JobInv' /\ TimerInv' /\ OffsetFollowsCursor' /\ timer' = FALSE
         /\ job' = IF de_shl_ms # 0 THEN << Home, Setup(ms % Width) >> ELSE << Setup(ms % Width) >>
<1>1. job = <<>> /\ caller' = who
  BY DEF SetShl, Enters
<1>2. job' = IF de_shl_ms # 0 THEN << Home, Setup(ms % Width) >> ELSE << Setup(ms % Width) >>
  <2>1. job' = schedule_shl \o << Setup(ms % Width) >>
    BY DEF SetShl, Enters, Setup
  <2>2. schedule_shl = IF de_shl_ms # 0 THEN << Home >> ELSE <<>>
    BY DEF schedule_shl, Home
  <2> QED
    BY <2>1, <2>2, Tuples
<1>3. timer' = FALSE
  <2>1. timer' = IF de_shl_ms # 0 THEN FALSE ELSE timer
    BY DEF SetShl, stop_timer
  <2>2. timer \in BOOLEAN
    BY DEF LcdInv, LcdTypeOK
  <2> QED
    BY <1>1, <2>1, <2>2, AtRest
<1>4. ms % Width \in 0 .. Width - 1 /\ ms % Width \in Nat
  BY Remainders, Sizes
<1>5. job' \in Seq(Instrs) /\ HasSetup(job') /\ Setting(job', ms % Width) /\ job' # <<>>
  BY <1>2, <1>4, ShortLists, Tuples DEF Setting
<1>6. JobInv'
  BY <1>1, <1>4, <1>5 DEF JobInv
<1> QED
  BY <1>2, <1>3, <1>5, <1>6 DEF TimerInv, OffsetFollowsCursor

LEMMA PrintfKeeps == LcdInv /\ Printf => LcdInv'
<1> SUFFICES ASSUME LcdInv, Printf PROVE LcdInv'
  OBVIOUS
<1>1. /\ calls' = calls + 1 /\ calls < MaxCalls /\ calls \in 0 .. MaxCalls
      /\ UNCHANGED <<ddram, ac, shift, de_shl_ms, timer, job, caller, fpos, overrun>>
      /\ script' = << "clear", "write", "shl" >> /\ alone' = TRUE
  BY DEF Printf, LcdInv, LcdTypeOK
<1>2. PICK n \in Lengths : text' = [id |-> calls', n |-> n]
  BY DEF Printf
<1>3. calls' \in Ids /\ calls' \in 0 .. MaxCalls
  BY <1>1, Sizes DEF Ids
<1>4. LcdTypeOK'
  <2>1. text' \in [id : 0 .. MaxCalls, n : Lengths \cup {0}]
    BY <1>2, <1>3
  <2>2. Len(script') <= 3
    BY <1>1, ScriptsDiffer
  <2> QED
    BY <1>1, <1>3, <2>1, <2>2 DEF LcdInv, LcdTypeOK
<1>5. JobInv' /\ TimerInv' /\ OffsetFollowsCursor'
  BY <1>1 DEF LcdInv, JobInv, TimerInv, OffsetFollowsCursor
<1>6. TextInv'
  <2>1. script' \in Scripts /\ text'.id \in Ids
    BY <1>1, <1>2, <1>3 DEF Scripts
  <2> QED
    BY <1>1, <2>1, ScriptsDiffer DEF TextInv, ScriptInv, ClearedInv, WrittenInv, SetInv
<1> QED
  BY <1>4, <1>5, <1>6 DEF LcdInv

LEMMA PrintfClearKeeps == LcdInv /\ PrintfClear => LcdInv'
<1> SUFFICES ASSUME LcdInv, PrintfClear PROVE LcdInv'
  OBVIOUS
<1>1. /\ job = <<>> /\ job' = << Instr("CLEAR") >> /\ caller' = "confrd"
      /\ script # <<>> /\ Head(script) = "clear" /\ script' = Tail(script)
      /\ UNCHANGED <<ddram, ac, shift, de_shl_ms, timer, fpos, overrun, text, calls>>
  BY DEF PrintfClear, Enters
<1>2. alone' \in BOOLEAN
  BY DEF PrintfClear, Enters
<1>3. script' = << "write", "shl" >> /\ text.id \in Ids
  BY <1>1, ScriptFacts DEF LcdInv, TextInv
<1>4. LcdTypeOK'
  BY <1>1, <1>2, <1>3, ScriptsDiffer DEF LcdInv, LcdTypeOK
<1>5. JobInv' /\ TimerInv' /\ OffsetFollowsCursor'
  BY <1>1, SingleBegins DEF Single
<1>6. TextInv'
  BY <1>1, <1>3, ScriptsDiffer DEF TextInv, ScriptInv, Scripts, ClearedInv, WrittenInv, SetInv
<1> QED
  BY <1>4, <1>5, <1>6 DEF LcdInv

LEMMA PrintfWriteKeeps == LcdInv /\ PrintfWrite => LcdInv'
<1> SUFFICES ASSUME LcdInv, PrintfWrite PROVE LcdInv'
  OBVIOUS
<1>1. /\ job = <<>> /\ job' = de2lcd_write_at(0, text.id, Kept(text.n)) /\ caller' = "confrd"
      /\ script # <<>> /\ Head(script) = "write" /\ script' = Tail(script)
      /\ UNCHANGED <<ddram, ac, shift, de_shl_ms, timer, fpos, overrun, text, calls>>
  BY DEF PrintfWrite, Enters
<1>2. alone' \in BOOLEAN /\ (alone' => alone)
  BY DEF PrintfWrite, Enters
<1>3. script' = << "shl" >> /\ script = << "write", "shl" >> /\ text.id \in Ids
  BY <1>1, ScriptFacts DEF LcdInv, TextInv
<1>4. LcdTypeOK'
  BY <1>1, <1>2, <1>3, ScriptsDiffer DEF LcdInv, LcdTypeOK
<1>5. Kept(text.n) \in Counts /\ 0 \in Cells /\ 0 \in 0 .. Kept(text.n) + 1
  <2>1. Kept(text.n) \in Counts
    BY TextFacts DEF LcdInv
  <2> QED
    BY <2>1, FromTheStart, Sizes DEF Counts
<1>6. JobInv' /\ TimerInv' /\ OffsetFollowsCursor' /\ Writing(job', 0, text.id, Kept(text.n), 0)
  BY <1>1, <1>3, <1>5, WriteBegins
<1>7. WrittenInv'
  <2>1. SUFFICES ASSUME alone'
                 PROVE  /\ Still'
                        /\ \E d \in 0 .. Kept(text.n) + 1 :
                             /\ Writing(job', 0, text.id, Kept(text.n), d)
                             /\ d >= 2 => ac' = Behind(0, d - 2)
                             /\ Shown(IF d >= 2 THEN d - 2 ELSE 0)'
    BY <1>1 DEF WrittenInv
  <2>2. Shown(0) /\ Still
    <3>1. job # << Instr("CLEAR") >>
      BY <1>1, Tuples
    <3> QED
      BY <1>2, <1>3, <2>1, <3>1 DEF LcdInv, TextInv, ClearedInv
  <2>3. Shown(0)' /\ Still'
    BY <1>1, <2>2 DEF Shown, Still
  <2>4. ~(0 >= 2)
    OBVIOUS
  <2> QED
    BY <1>5, <1>6, <2>3, <2>4
<1>8. TextInv'
  BY <1>1, <1>3, <1>7, ScriptsDiffer DEF TextInv, ScriptInv, Scripts, ClearedInv, SetInv
<1> QED
  BY <1>4, <1>6, <1>8 DEF LcdInv

LEMMA PrintfShlKeeps == LcdInv /\ PrintfShl => LcdInv'
<1> SUFFICES ASSUME LcdInv, PrintfShl PROVE LcdInv'
  OBVIOUS
<1> DEFINE ms == shl_ms(text.n)
<1>1. /\ script # <<>> /\ Head(script) = "shl" /\ script' = Tail(script) /\ SetShl("confrd", ms)
      /\ UNCHANGED <<ddram, ac, shift, de_shl_ms, fpos, overrun, text, calls>>
  BY DEF PrintfShl
<1>2. job = <<>> /\ caller' = "confrd" /\ alone' \in BOOLEAN /\ (alone' => alone)
  BY <1>1 DEF SetShl, Enters
<1>3. script' = <<>> /\ script = << "shl" >> /\ text.id \in Ids
  BY <1>1, ScriptFacts DEF LcdInv, TextInv
<1>4. ms \in Int
  BY TextFacts DEF LcdInv
<1>5. /\ JobInv' /\ TimerInv' /\ OffsetFollowsCursor' /\ timer' = FALSE
      /\ job' = IF de_shl_ms # 0 THEN << Home, Setup(ms % Width) >> ELSE << Setup(ms % Width) >>
  <2> HIDE DEF ms
  <2> QED
    BY <1>1, <1>4, SettingBegins
<1>6. LcdTypeOK'
  BY <1>1, <1>2, <1>3, <1>5, ScriptsDiffer DEF LcdInv, LcdTypeOK
<1>7. SetInv'
  <2>1. SUFFICES ASSUME alone'
                 PROVE  /\ Shown(Kept(text.n))'
                        /\ \/ job' = << Home, Setup(ms % Width) >>
                           \/ job' = << Setup(ms % Width) >> /\ shift' = 0
    BY <1>1 DEF SetInv
  <2>2. Still /\ Shown(Kept(text.n))
    <3>1. ASSUME NEW d \in 0 .. Kept(text.n) + 1 PROVE ~Writing(job, 0, text.id, Kept(text.n), d)
      <4>1. Kept(text.n) \in Counts /\ job \in Seq(Instrs)
        BY TextFacts DEF LcdInv, JobInv
      <4> QED
        BY <1>2, <4>1, WritingNext
    <3> QED
      BY <1>2, <1>3, <2>1, <3>1 DEF LcdInv, TextInv, WrittenInv
  <2>3. Shown(Kept(text.n))'
    BY <1>1, <2>2 DEF Shown
  <2> QED
    BY <1>1, <1>5, <2>2, <2>3 DEF Still
<1>8. TextInv'
  BY <1>1, <1>3, <1>7, ScriptsDiffer DEF TextInv, ScriptInv, Scripts, ClearedInv, WrittenInv
<1> QED
  BY <1>5, <1>6, <1>8 DEF LcdInv

(* Any other process's call ends what is known of the screen.               *)
LEMMA OthersText ==
  ASSUME LcdInv, alone' = FALSE, UNCHANGED <<script, text>>
  PROVE  TextInv'
  BY DEF LcdInv, TextInv, ScriptInv, ClearedInv, WrittenInv, SetInv

LEMMA OptionKeeps == LcdInv /\ Option => LcdInv'
<1> SUFFICES ASSUME LcdInv, Option PROVE LcdInv'
  OBVIOUS
<1>1. /\ calls' = calls + 1 /\ calls < MaxCalls /\ calls \in 0 .. MaxCalls
      /\ UNCHANGED <<ddram, ac, shift, de_shl_ms, script, fpos, overrun, text>>
  BY DEF Option, LcdInv, LcdTypeOK
<1>2. calls' \in Ids /\ calls' \in 0 .. MaxCalls
  BY <1>1, Sizes DEF Ids
<1>3. job = <<>> /\ caller' = "de2lcd" /\ alone' = FALSE
  BY DEF Option, SetShl, Enters
<1>4. JobInv' /\ TimerInv' /\ OffsetFollowsCursor' /\ timer' \in BOOLEAN
  <2>1. CASE job' \in Single /\ UNCHANGED timer
    BY <1>1, <1>3, <2>1, SingleBegins DEF LcdInv, LcdTypeOK
  <2>2. ASSUME NEW n \in Counts, job' = de2lcd_write_at(0, calls', n), UNCHANGED timer
        PROVE  JobInv' /\ TimerInv' /\ OffsetFollowsCursor' /\ timer' \in BOOLEAN
    BY <1>1, <1>2, <1>3, <2>2, FromTheStart, WriteBegins DEF LcdInv, LcdTypeOK
  <2>3. ASSUME NEW ms \in Times, SetShl("de2lcd", ms)
        PROVE  JobInv' /\ TimerInv' /\ OffsetFollowsCursor' /\ timer' \in BOOLEAN
    <3>1. ms \in Int
      BY Sizes
    <3> QED
      BY <1>1, <2>3, <3>1, SettingBegins
  <2>4. \/ job' \in Single /\ UNCHANGED timer
        \/ UNCHANGED timer /\ \E n \in Counts : job' = de2lcd_write_at(0, calls', n)
        \/ \E ms \in Times : SetShl("de2lcd", ms)
    <3>1. 2 * Line \in Counts
      BY Sizes DEF Counts
    <3>2. \A n \in Lengths : ~WriteRefused(0, n) => n \in Counts
      BY Sizes DEF WriteRefused, Counts
    <3> QED
      BY <3>1, <3>2 DEF Option, Enters, Single, de2lcd_test
  <2> QED
    BY <2>1, <2>2, <2>3, <2>4
<1>5. LcdTypeOK'
  BY <1>1, <1>2, <1>3, <1>4 DEF LcdInv, LcdTypeOK
<1> QED
  BY <1>1, <1>3, <1>4, <1>5, OthersText DEF LcdInv

LEMMA StreamWriteKeeps == LcdInv /\ StreamWrite => LcdInv'
<1> SUFFICES ASSUME LcdInv, StreamWrite PROVE LcdInv'
  OBVIOUS
<1>1. /\ calls' = calls + 1 /\ calls < MaxCalls /\ calls \in 0 .. MaxCalls
      /\ UNCHANGED <<ddram, ac, shift, de_shl_ms, timer, script, text>>
  BY DEF StreamWrite, LcdInv, LcdTypeOK
<1>2. calls' \in Ids /\ calls' \in 0 .. MaxCalls
  BY <1>1, Sizes DEF Ids
<1>3. PICK n \in Lengths :
        /\ ~WriteRefused(fpos, n)
        /\ Enters("stream", de2lcd_write_at(fpos, calls', n))
        /\ fpos' = NextFpos(fpos, n)
        /\ overrun' = (overrun \/ fpos + n >= Bottom + Line \/ (fpos \in Top /\ fpos + n >= Bottom))
  BY DEF StreamWrite
<1>4. job = <<>> /\ job' = de2lcd_write_at(fpos, calls', n) /\ caller' = "stream" /\ alone' = FALSE
  BY <1>3 DEF Enters
<1>5. fpos \in Cells /\ n \in Counts
  BY <1>3, Sizes DEF WriteRefused, Counts
<1>6. fpos' \in 0 .. Bottom + Line - 1 /\ (~overrun' => fpos' = Behind(fpos, n))
  BY <1>3, <1>5, FposFacts
<1>7. JobInv' /\ TimerInv' /\ OffsetFollowsCursor'
  BY <1>1, <1>2, <1>4, <1>5, <1>6, WriteBegins
<1>8. overrun' \in BOOLEAN
  BY <1>3
<1>9. LcdTypeOK'
  BY <1>1, <1>2, <1>4, <1>6, <1>8 DEF LcdInv, LcdTypeOK
<1> QED
  BY <1>1, <1>4, <1>7, <1>9, OthersText DEF LcdInv

-----------------------------------------------------------------------------
LEMMA LcdStepKeeps == LcdInv /\ [LcdNext]_lcdVars => LcdInv'
<1>1. LcdInv /\ UNCHANGED lcdVars => LcdInv'
  BY DEF lcdVars, LcdInv, LcdTypeOK, JobInv, TimerInv, TextInv, ScriptInv, ClearedInv, WrittenInv, SetInv,
         Shown, Still, OffsetFollowsCursor
<1> QED
  BY <1>1, InstructionKeeps, ShiftKeeps, PrintfKeeps, PrintfClearKeeps, PrintfWriteKeeps, PrintfShlKeeps,
     OptionKeeps, StreamWriteKeeps DEF LcdNext

(***************************************************************************)
(* The inductive invariant of Lcd, for every interleaving of the calls of    *)
(* three processes and the timer.                                           *)
(***************************************************************************)
THEOREM LcdInvariance == LcdSpec => []LcdInv
  BY LcdInitHolds, LcdStepKeeps, PTL DEF LcdSpec

LEMMA ShowsText == LcdInv => ScreenShowsText
<1> SUFFICES ASSUME LcdInv, job = <<>>, script = <<>>, alone
             PROVE  /\ Shown(Kept(text.n))
                    /\ text.n <= Visible => shift = 0 /\ ~timer
                    /\ text.n > Visible => timer
  BY DEF ScreenShowsText, Shown
<1>1. SetInv
  BY DEF LcdInv, TextInv
<1>2. job # << Home, Setup(shl_ms(text.n) % Width) >> /\ job # << Setup(shl_ms(text.n) % Width) >>
  BY Tuples
<1> QED
  BY <1>1, <1>2 DEF SetInv

LEMMA KnowsDisplay == LcdInv => DriverKnowsDisplay
<1> SUFFICES ASSUME LcdInv PROVE TimerKnown
  BY DEF LcdInv, DriverKnowsDisplay
<1>1. job = <<>> => (timer <=> de_shl_ms # 0)
  BY AtRest
<1>2. ASSUME job # <<>>, Head(job).op = "SETUP" PROVE ~timer
  <2>1. job \in Seq(Instrs)
    BY DEF LcdInv, JobInv
  <2>2. 1 \in DOMAIN job /\ Head(job) = job[1]
    BY <1>2, <2>1
  <2>3. HasSetup(job)
    BY <1>2, <2>2 DEF HasSetup
  <2> QED
    BY <2>3 DEF LcdInv, TimerInv
<1> QED
  BY <1>1, <1>2 DEF TimerKnown

(***************************************************************************)
(* When de2lcd_printf has returned undisturbed the display holds its text    *)
(* and nothing else, at rest where it is seen if it fits and being shifted   *)
(* if it does not, whatever was shown and shifted before (de2lcd_printf,     *)
(* de2lcd_schedule_shl, de2lcd_shl_task).                                   *)
(***************************************************************************)
THEOREM TextIsShown == LcdSpec => []ScreenShowsText
  BY LcdInvariance, ShowsText, PTL

(***************************************************************************)
(* Between calls the timer is pending iff the driver keeps a time, it is     *)
(* never set up while pending, and the offset of the stream's file is where  *)
(* the display writes next, until a write runs over the end of the bottom    *)
(* line or over what is left of the top line and of the gap behind it        *)
(* (de2lcd_schedule_shl, de2lcd_write).                                      *)
(***************************************************************************)
THEOREM DisplayIsKnown == LcdSpec => []DriverKnowsDisplay
  BY LcdInvariance, KnowsDisplay, PTL

-----------------------------------------------------------------------------
(***************************************************************************)
(* SpiFlash                                                                 *)
(*                                                                          *)
(* The inductive invariant FlashInv: what is left of a call is orderly (a    *)
(* request that needs WEL comes right after it has been set, and a wait for  *)
(* it is all that follows); the erase or the page program that a call is for *)
(* is still to come or has had its effect on the flash; and                  *)
(* prog_flash_from_file has written every page up to where it is, and the    *)
(* pages behind are erased, in the sector it is in or, with -c, all of them. *)
(***************************************************************************)

(* The contents there are, and the steps of the functions of spi.h.         *)
Datas == Contents \cup { OfFile(k) : k \in Nat }

Commands ==
  [cmd : {"check", "check_addr", "wait_busy", "WRITE_ENABLE", "WRITE_DISABLE", "WRITE_STATUS_REGISTER",
          "CHIP_ERASE", "SECTOR_ERASE", "BLOCK_ERASE", "PAGE_PROGRAM", "READ_DATA",
          "READ_MDID", "READ_JEDEC", "READ_UID"},
   a : Nat, d : Datas]

Program(a, d) == [cmd |-> "PAGE_PROGRAM", a |-> a, d |-> d]
Erase(a) == At("SECTOR_ERASE", a)

(* A request that needs WEL comes right after it has been set, or after the *)
(* check of the address that follows it; and then it is only waited for.    *)
Orderly(s) ==
  /\ \A i \in DOMAIN s : s[i].cmd \in NeedsWel => i + 1 = Len(s) /\ s[i + 1] = WaitBusy
  /\ \A i \in DOMAIN s : i > 1 /\ s[i].cmd \in NeedsWel \cup {"check_addr"} =>
       s[i - 1].cmd \in {"WRITE_ENABLE", "check_addr"}

StepsInv ==
  /\ steps \in Seq(Commands) /\ Len(steps) <= 6 /\ Orderly(steps)
  /\ \A c \in Entries(steps) : c.a \in Pages => c.d \in Contents

(* The flash is busy only when it is waited for.                            *)
FlashReady ==
  /\ BUSY => steps # <<>> /\ Head(steps) = WaitBusy
  /\ steps # <<>> /\ Head(steps).cmd \in NeedsWel \cup {"check_addr"} => WEL

(* Where main can be, by what it was called with.                           *)
PhaseInv ==
  /\ mode = "-i" => phase \in {"start", "info", "done", "failed"}
  /\ mode = "calls" => phase \in {"calls", "call"}
  /\ mode \in {"-c", "sectors"} => phase \in {"start", "test", "tested", "erase", "pages", "unread", "done", "failed"}
  /\ phase = "erase" => mode = "-c"
  /\ phase \in {"start", "test", "tested", "erase"} => flash_addr = 0 /\ int_off = 0
  /\ phase \in {"start", "tested", "calls", "unread", "done", "failed"} => steps = <<>>
  /\ phase \in {"info", "test"} =>
       \A c \in Entries(steps) : c.cmd \in {"wait_busy", "READ_MDID", "READ_JEDEC", "READ_UID"}

(* A client's call has yet to do what it is for, or has done it.            *)
SectorErased(s) == \A p \in Pages : p \in PagesOf(s) => chip[p] = Erased
AllErased == \A p \in Pages : chip[p] = Erased

CallInv ==
  phase = "call" =>
    /\ last.a \in Nat /\ last.d \in Contents
    /\ last.cmd \in {"page", "sector", "chip", "block", "other"}
    /\ last.cmd = "page" =>
         /\ \A c \in Entries(steps) : c.cmd \in NeedsWel => c = Program(last.a, last.d)
         /\ Program(last.a, last.d) \in Entries(steps) \/ (last.a \in Pages /\ chip[last.a] = last.d)
    /\ last.cmd = "sector" =>
         /\ \A c \in Entries(steps) : c.cmd \in NeedsWel => c = Erase(last.a)
         /\ Erase(last.a) \in Entries(steps) \/ (SectorOf(last.a) < Sectors /\ SectorErased(SectorOf(last.a)))
    /\ last.cmd = "chip" =>
         /\ \A c \in Entries(steps) : c.cmd \in NeedsWel => c = Do("CHIP_ERASE")
         /\ Do("CHIP_ERASE") \in Entries(steps) \/ AllErased
    /\ last.cmd \in {"block", "other"} => \A c \in Entries(steps) : c.cmd \notin NeedsWel

EraseInv ==
  phase = "erase" =>
    /\ \A c \in Entries(steps) : c.cmd \in {"wait_busy", "WRITE_ENABLE"} \/ c = Do("CHIP_ERASE")
    /\ Do("CHIP_ERASE") \in Entries(steps) \/ AllErased

(* What a page of the file is to hold, and how far prog_flash_from_file is. *)
DataOf(k) == IF k < file THEN OfFile(k) ELSE Zeros
Base == flash_addr * SectorPages
Here == Base + int_off - 1
ToProgram == Program(Here, DataOf(Here))
ToErase == Erase(Base)
Written(n) == \A k \in Pages : k < n => chip[k] = DataOf(k)
StillErased(n) ==
  \A k \in Pages : k >= n /\ (mode = "sectors" => k < Base + SectorPages) => chip[k] = Erased

(* Before the first page of a sector, and after it.                         *)
ErasingInv ==
  phase = "pages" /\ int_off = 0 =>
    /\ \A c \in Entries(steps) :
         c.cmd \in {"wait_busy", "WRITE_ENABLE"} \/ c \in {At("check_addr", Base), ToErase}
    /\ mode = "-c" => steps = <<>>
    /\ Written(Base)
    /\ ToErase \in Entries(steps) \/ StillErased(Base)

ProgrammingInv ==
  phase = "pages" /\ int_off > 0 =>
    /\ \A c \in Entries(steps) :
         c.cmd \in {"wait_busy", "WRITE_ENABLE"} \/ c \in {At("check", Here), ToProgram}
    /\ IF ToProgram \in Entries(steps)
       THEN Written(Here) /\ StillErased(Here)
       ELSE Here \in Pages /\ Written(Here + 1) /\ StillErased(Here + 1)

(* main ends without an error only for an empty file, and by itself only at *)
(* the end of the flash.                                                    *)
EndInv ==
  /\ phase = "unread" => Written(Base)
  /\ phase = "done" /\ mode # "-i" => file = 0
  /\ phase = "failed" /\ mode # "-i" => \A k \in Pages : chip[k] = DataOf(k)

FlashInv ==
  /\ FlashTypeOK /\ StepsInv /\ FlashReady /\ PhaseInv /\ CallInv
  /\ EraseInv /\ ErasingInv /\ ProgrammingInv /\ EndInv /\ CallsDoNotInterfere

-----------------------------------------------------------------------------
(***************************************************************************)
(* Sectors and pages.                                                       *)
(***************************************************************************)
LEMMA FlashSizes ==
  /\ SectorPages \in Nat /\ SectorPages > 0 /\ Sectors \in Nat /\ Sectors > 0
  /\ AddressSectors \in Nat /\ AddressSectors > Sectors
  /\ MarginPages \in Nat /\ MarginPages <= SectorPages /\ MaxClientCalls \in Nat /\ Files \subseteq Nat
  BY FlashAssumption

LEMMA Multiples ==
  ASSUME NEW n \in Nat, n > 0, NEW i \in Nat
  PROVE  /\ i * n \in Nat /\ (i + 1) * n = i * n + n /\ (i * n) \div n = i
         /\ \A j \in Nat : i < j => i * n + n <= j * n
         /\ \A j \in Nat : i <= j => i * n <= j * n
<1>1. i * n \in Nat /\ (i + 1) * n = i * n + n
  OBVIOUS
<1>2. ASSUME NEW j \in Nat, NEW k \in Nat, k <= j PROVE k * n <= j * n
  <2>1. (j - k) * n >= 0 /\ j * n = k * n + (j - k) * n
    BY <1>2
  <2>2. k * n \in Nat /\ j * n \in Nat /\ (j - k) * n \in Int
    BY <1>2
  <2> QED
    BY <2>1, <2>2
<1>3. (i * n) \div n = i
  <2>1. ASSUME NEW x \in Nat, x = i * n PROVE x \div n = i
    BY <2>1
  <2> QED
    BY <1>1, <2>1
<1>4. ASSUME NEW j \in Nat, i < j PROVE i * n + n <= j * n
  <2>1. i + 1 \in Nat /\ i + 1 <= j
    BY <1>4
  <2> QED
    BY <1>1, <1>2, <2>1
<1> QED
  BY <1>1, <1>2, <1>3, <1>4

LEMMA InSector ==
  ASSUME NEW s \in Nat
  PROVE  /\ s * SectorPages \in Nat /\ (s + 1) * SectorPages = s * SectorPages + SectorPages
         /\ SectorOf(s * SectorPages) = s
         /\ PagesOf(s) = s * SectorPages .. s * SectorPages + SectorPages - 1
         /\ s < Sectors => PagesOf(s) \subseteq Pages /\ s * SectorPages + SectorPages <= Sectors * SectorPages
         /\ s >= Sectors => s * SectorPages >= Sectors * SectorPages
         /\ s <= Sectors => s * SectorPages < AddressSectors * SectorPages
  BY FlashSizes, Multiples DEF SectorOf, PagesOf, Pages

LEMMA PageFacts ==
  /\ Sectors * SectorPages \in Nat /\ Pages = 0 .. Sectors * SectorPages - 1
  /\ Sectors * SectorPages + MarginPages <= AddressSectors * SectorPages
  /\ \A a \in Nat : SectorOf(a) \in Nat
<1>1. Sectors * SectorPages + SectorPages <= AddressSectors * SectorPages /\ Sectors * SectorPages \in Nat
  BY FlashSizes, Multiples
<1>2. AddressSectors * SectorPages \in Nat
  BY FlashSizes, Multiples
<1>3. ASSUME NEW a \in Nat PROVE SectorOf(a) \in Nat
  BY FlashSizes DEF SectorOf
<1> QED
  BY <1>1, <1>2, <1>3, FlashSizes DEF Pages

(***************************************************************************)
(* Steps.                                                                   *)
(***************************************************************************)
LEMMA DataFacts ==
  /\ Contents \subseteq Datas /\ Erased \in Contents /\ Zeros \in Contents
  /\ \A k \in Nat : OfFile(k) \in Datas
  /\ \A k \in Pages : OfFile(k) \in Contents
  /\ \A n \in 1 .. MaxClientCalls : << "call", n >> \in Contents
  BY DEF Contents, Datas

LEMMA StepKinds ==
  /\ \A a, b : At(a, b) = [cmd |-> a, a |-> b, d |-> Erased] /\ At(a, b).cmd = a /\ At(a, b).a = b /\ At(a, b).d = Erased
  /\ \A a : Do(a) = [cmd |-> a, a |-> 0, d |-> Erased] /\ Do(a).cmd = a /\ Do(a).a = 0 /\ Do(a).d = Erased
  /\ \A a, d : /\ Program(a, d) = [cmd |-> "PAGE_PROGRAM", a |-> a, d |-> d]
               /\ Program(a, d).cmd = "PAGE_PROGRAM" /\ Program(a, d).a = a /\ Program(a, d).d = d
  /\ WaitBusy = Do("wait_busy")
  /\ NeedsWel = {"CHIP_ERASE", "SECTOR_ERASE", "PAGE_PROGRAM"}
  BY DEF At, Do, Program, WaitBusy, NeedsWel

LEMMA TailSteps ==
  ASSUME NEW s \in Seq(Commands), s # <<>>
  PROVE  /\ Head(s) \in Commands /\ Head(s) \in Entries(s)
         /\ Tail(s) \in Seq(Commands) /\ Len(Tail(s)) = Len(s) - 1 /\ Len(s) \in Nat
         /\ Entries(Tail(s)) \subseteq Entries(s)
         /\ \A c \in Entries(s) : c = Head(s) \/ c \in Entries(Tail(s))
         /\ \A c \in Entries(s) : c \in Commands
<1>1. /\ Len(s) \in Nat /\ Len(s) >= 1 /\ DOMAIN s = 1 .. Len(s)
      /\ Head(s) = s[1] /\ Tail(s) \in Seq(Commands) /\ Len(Tail(s)) = Len(s) - 1
      /\ DOMAIN Tail(s) = 1 .. Len(s) - 1
      /\ \A i \in 1 .. Len(s) - 1 : Tail(s)[i] = s[i + 1]
  BY HeadTailProperties, EmptySeq, LenProperties
<1>2. \A i \in 1 .. Len(s) : i = 1 \/ (i - 1 \in 1 .. Len(s) - 1 /\ Tail(s)[i - 1] = s[i])
  BY <1>1
<1>3. \A i \in 1 .. Len(s) - 1 : i + 1 \in 1 .. Len(s) /\ Tail(s)[i] = s[i + 1]
  BY <1>1
<1>4. 1 \in 1 .. Len(s)
  BY <1>1
<1>5. \A i \in 1 .. Len(s) : s[i] \in Commands
  BY <1>1, ElementOfSeq
<1>6. Entries(Tail(s)) \subseteq Entries(s)
  BY <1>1, <1>3 DEF Entries
<1>7. ASSUME NEW i \in 1 .. Len(s) PROVE s[i] = Head(s) \/ s[i] \in Entries(Tail(s))
  BY <1>1, <1>2 DEF Entries
<1>8. Head(s) \in Entries(s) /\ \A c \in Entries(s) : c \in Commands
  BY <1>1, <1>4, <1>5 DEF Entries
<1>9. \A c \in Entries(s) : c = Head(s) \/ c \in Entries(Tail(s))
  BY <1>1, <1>7 DEF Entries
<1> QED
  BY <1>1, <1>4, <1>5, <1>6, <1>8, <1>9

LEMMA NoSteps == Entries(<<>>) = {} /\ Orderly(<<>>) /\ <<>> \in Seq(Commands) /\ Len(<<>>) = 0 /\ Len(<<>>) <= 6
  BY DEF Entries, Orderly

LEMMA OrderlyTail ==
  ASSUME NEW s \in Seq(Commands), s # <<>>, Orderly(s)
  PROVE  /\ Orderly(Tail(s))
         /\ Head(s).cmd \in NeedsWel => Tail(s) # <<>> /\ Head(Tail(s)) = WaitBusy /\ Entries(Tail(s)) = {WaitBusy}
         /\ Tail(s) # <<>> /\ Head(Tail(s)).cmd \in NeedsWel \cup {"check_addr"} =>
              Head(s).cmd \in {"WRITE_ENABLE", "check_addr"}
<1>1. /\ Len(s) \in Nat /\ Len(s) >= 1 /\ DOMAIN s = 1 .. Len(s)
      /\ Head(s) = s[1] /\ Tail(s) \in Seq(Commands) /\ Len(Tail(s)) = Len(s) - 1
      /\ DOMAIN Tail(s) = 1 .. Len(s) - 1
      /\ \A i \in 1 .. Len(s) - 1 : Tail(s)[i] = s[i + 1]
  BY HeadTailProperties, EmptySeq, LenProperties
<1>2. \A i \in 1 .. Len(s) : s[i].cmd \in NeedsWel => i + 1 = Len(s) /\ s[i + 1] = WaitBusy
  BY <1>1 DEF Orderly
<1>3. \A i \in 1 .. Len(s) : i > 1 /\ s[i].cmd \in NeedsWel \cup {"check_addr"} =>
        s[i - 1].cmd \in {"WRITE_ENABLE", "check_addr"}
  BY <1>1 DEF Orderly
<1>4. ASSUME NEW i \in 1 .. Len(s) - 1, Tail(s)[i].cmd \in NeedsWel
      PROVE  i + 1 = Len(s) - 1 /\ Tail(s)[i + 1] = WaitBusy
  <2>1. i + 1 \in 1 .. Len(s) /\ s[i + 1].cmd \in NeedsWel
    BY <1>1, <1>4
  <2>2. (i + 1) + 1 = Len(s) /\ s[(i + 1) + 1] = WaitBusy
    BY <1>2, <2>1
  <2>3. Len(s) \in Nat
    BY <1>1
  <2>4. i + 1 = Len(s) - 1 /\ i + 1 \in 1 .. Len(s) - 1
    BY <2>2, <2>3
  <2> QED
    BY <1>1, <2>2, <2>4
<1>5. ASSUME NEW i \in 1 .. Len(s) - 1, i > 1, Tail(s)[i].cmd \in NeedsWel \cup {"check_addr"}
      PROVE  Tail(s)[i - 1].cmd \in {"WRITE_ENABLE", "check_addr"}
  <2>1. /\ i + 1 \in 1 .. Len(s) /\ s[i + 1].cmd \in NeedsWel \cup {"check_addr"} /\ i + 1 > 1
        /\ (i + 1) - 1 = i /\ i - 1 \in 1 .. Len(s) - 1 /\ (i - 1) + 1 = i
    BY <1>1, <1>5
  <2> QED
    BY <1>1, <1>3, <2>1
<1>6. Orderly(Tail(s))
  BY <1>1, <1>4, <1>5 DEF Orderly
<1>7. ASSUME Head(s).cmd \in NeedsWel
      PROVE  Tail(s) # <<>> /\ Head(Tail(s)) = WaitBusy /\ Entries(Tail(s)) = {WaitBusy}
  <2>1. 1 \in 1 .. Len(s) /\ s[1].cmd \in NeedsWel
    BY <1>1, <1>7
  <2>2. 1 + 1 = Len(s) /\ s[1 + 1] = WaitBusy
    BY <1>2, <2>1
  <2>3. Len(s) - 1 = 1 /\ s[2] = WaitBusy
    BY <2>2
  <2>6. 1 .. Len(s) - 1 = {1} /\ 1 \in 1 .. Len(s) - 1
    <3>1. 1 .. 1 = {1}
      OBVIOUS
    <3> QED
      BY <2>3, <3>1, Zenon
  <2>7. Tail(s) # <<>>
    <3>1. Len(Tail(s)) = 1
      BY <1>1, <2>3
    <3> QED
      <4>1. Len(<<>>) = 0 /\ 0 # 1
        BY NoSteps
      <4> QED
        BY <3>1, <4>1, Zenon
  <2>4. Tail(s)[1] = WaitBusy
    BY <1>1, <2>2, <2>6
  <2>5. Entries(Tail(s)) = {WaitBusy}
    BY <1>1, <2>4, <2>6 DEF Entries
  <2> QED
    BY <1>1, <2>4, <2>5, <2>7, HeadTailProperties
<1>8. ASSUME Tail(s) # <<>>, Head(Tail(s)).cmd \in NeedsWel \cup {"check_addr"}
      PROVE  Head(s).cmd \in {"WRITE_ENABLE", "check_addr"}
  <2>1. Len(Tail(s)) # 0 /\ Head(Tail(s)) = Tail(s)[1]
    BY <1>1, <1>8, EmptySeq, HeadTailProperties
  <2>2. 1 \in 1 .. Len(s) - 1 /\ 2 \in 1 .. Len(s) /\ 2 > 1 /\ 2 - 1 = 1 /\ Tail(s)[1] = s[2]
    BY <1>1, <2>1
  <2> QED
    BY <1>1, <1>3, <1>8, <2>1, <2>2
<1> QED
  BY <1>6, <1>7, <1>8

(***************************************************************************)
(* What the functions of spi.h are made of.                                 *)
(***************************************************************************)
(* Steps that need no WEL.                                                  *)
Plain(c) == c.cmd \notin NeedsWel \cup {"check_addr"}

LEMMA PlainSteps ==
  ASSUME NEW s \in Seq(Commands), \A c \in Entries(s) : Plain(c)
  PROVE  Orderly(s)
  BY DEF Plain, Orderly, Entries

LEMMA CommandsAre ==
  /\ \A cmd \in {"check", "check_addr", "wait_busy", "WRITE_ENABLE", "WRITE_DISABLE", "WRITE_STATUS_REGISTER",
                 "CHIP_ERASE", "SECTOR_ERASE", "BLOCK_ERASE", "READ_DATA",
                 "READ_MDID", "READ_JEDEC", "READ_UID"} :
       Do(cmd) \in Commands /\ \A a \in Nat : At(cmd, a) \in Commands
  /\ WaitBusy \in Commands
  /\ \A a \in Nat, d \in Datas : Program(a, d) \in Commands
  BY DataFacts, StepKinds DEF Commands

LEMMA EraserList ==
  ASSUME NEW cmd \in {"SECTOR_ERASE", "BLOCK_ERASE"}, NEW a \in Nat
  PROVE  /\ eraser(cmd, a) \in Seq(Commands) /\ Len(eraser(cmd, a)) <= 6 /\ eraser(cmd, a) # <<>>
         /\ Entries(eraser(cmd, a)) = {Do("WRITE_ENABLE"), At("check_addr", a), At(cmd, a), WaitBusy}
         /\ Head(eraser(cmd, a)) = Do("WRITE_ENABLE") /\ Orderly(eraser(cmd, a))
<1> DEFINE s == << Do("WRITE_ENABLE"), At("check_addr", a), At(cmd, a), WaitBusy >>
<1>1. s \in Seq(Commands) /\ Len(s) = 4 /\ DOMAIN s = 1 .. 4 /\ s # <<>> /\ Head(s) = Do("WRITE_ENABLE")
  BY CommandsAre
<1>2. s[1] = Do("WRITE_ENABLE") /\ s[2] = At("check_addr", a) /\ s[3] = At(cmd, a) /\ s[4] = WaitBusy
  OBVIOUS
<1>3. 1 .. 4 = {1, 2, 3, 4}
  OBVIOUS
<1> HIDE DEF s
<1>4. Entries(s) = {Do("WRITE_ENABLE"), At("check_addr", a), At(cmd, a), WaitBusy}
  BY <1>1, <1>2, <1>3 DEF Entries
<1>5. Orderly(s)
  <2>1. s[1].cmd = "WRITE_ENABLE" /\ s[2].cmd = "check_addr" /\ s[3].cmd = cmd /\ s[4].cmd = "wait_busy"
    BY <1>2, StepKinds
  <2>2. ASSUME NEW i \in 1 .. 4, s[i].cmd \in NeedsWel PROVE i + 1 = 4 /\ s[i + 1] = WaitBusy
    BY <1>2, <1>3, <2>1, <2>2, StepKinds
  <2>3. ASSUME NEW i \in 1 .. 4, i > 1, s[i].cmd \in NeedsWel \cup {"check_addr"}
        PROVE  s[i - 1].cmd \in {"WRITE_ENABLE", "check_addr"}
    BY <1>2, <1>3, <2>1, <2>3, StepKinds
  <2> QED
    BY <1>1, <2>2, <2>3 DEF Orderly
<1>6. s = eraser(cmd, a)
  BY DEF s, eraser
<1>7. Len(s) <= 6
  BY <1>1
<1> QED
  BY <1>1, <1>4, <1>5, <1>6, <1>7, Zenon

LEMMA PageProgramList ==
  ASSUME NEW a \in Nat, NEW d \in Datas
  PROVE  /\ page_program(a, d) \in Seq(Commands) /\ Len(page_program(a, d)) <= 6 /\ page_program(a, d) # <<>>
         /\ Entries(page_program(a, d)) = {At("check", a), WaitBusy, Do("WRITE_ENABLE"), Program(a, d)}
         /\ Head(page_program(a, d)) = At("check", a) /\ Orderly(page_program(a, d))
<1> DEFINE s == << At("check", a), WaitBusy, Do("WRITE_ENABLE"), Program(a, d), WaitBusy >>
<1>1. s \in Seq(Commands) /\ Len(s) = 5 /\ DOMAIN s = 1 .. 5 /\ s # <<>> /\ Head(s) = At("check", a)
  BY CommandsAre
<1>2. s[1] = At("check", a) /\ s[2] = WaitBusy /\ s[3] = Do("WRITE_ENABLE") /\ s[4] = Program(a, d) /\ s[5] = WaitBusy
  OBVIOUS
<1>3. 1 .. 5 = {1, 2, 3, 4, 5}
  OBVIOUS
<1> HIDE DEF s
<1>4. Entries(s) = {At("check", a), WaitBusy, Do("WRITE_ENABLE"), Program(a, d)}
  BY <1>1, <1>2, <1>3 DEF Entries
<1>5. Orderly(s)
  <2>1. /\ s[1].cmd = "check" /\ s[2].cmd = "wait_busy" /\ s[3].cmd = "WRITE_ENABLE" /\ s[4].cmd = "PAGE_PROGRAM"
        /\ s[5].cmd = "wait_busy"
    BY <1>2, StepKinds
  <2>2. ASSUME NEW i \in 1 .. 5, s[i].cmd \in NeedsWel PROVE i + 1 = 5 /\ s[i + 1] = WaitBusy
    BY <1>2, <1>3, <2>1, <2>2, StepKinds
  <2>3. ASSUME NEW i \in 1 .. 5, i > 1, s[i].cmd \in NeedsWel \cup {"check_addr"}
        PROVE  s[i - 1].cmd \in {"WRITE_ENABLE", "check_addr"}
    BY <1>2, <1>3, <2>1, <2>3, StepKinds
  <2> QED
    BY <1>1, <2>2, <2>3 DEF Orderly
<1>6. s = page_program(a, d)
  BY DEF s, page_program, Program
<1>7. Len(s) <= 6
  BY <1>1
<1> QED
  BY <1>1, <1>4, <1>5, <1>6, <1>7, Zenon

LEMMA ChipEraseList ==
  /\ chip_erase \in Seq(Commands) /\ Len(chip_erase) <= 6 /\ chip_erase # <<>>
  /\ Entries(chip_erase) = {WaitBusy, Do("WRITE_ENABLE"), Do("CHIP_ERASE")}
  /\ Head(chip_erase) = WaitBusy /\ Orderly(chip_erase)
<1> DEFINE s == << WaitBusy, Do("WRITE_ENABLE"), Do("CHIP_ERASE"), WaitBusy >>
<1>1. s \in Seq(Commands) /\ Len(s) = 4 /\ DOMAIN s = 1 .. 4 /\ s # <<>> /\ Head(s) = WaitBusy
  BY CommandsAre
<1>2. s[1] = WaitBusy /\ s[2] = Do("WRITE_ENABLE") /\ s[3] = Do("CHIP_ERASE") /\ s[4] = WaitBusy
  OBVIOUS
<1>3. 1 .. 4 = {1, 2, 3, 4}
  OBVIOUS
<1> HIDE DEF s
<1>4. Entries(s) = {WaitBusy, Do("WRITE_ENABLE"), Do("CHIP_ERASE")}
  BY <1>1, <1>2, <1>3 DEF Entries
<1>5. Orderly(s)
  <2>1. s[1].cmd = "wait_busy" /\ s[2].cmd = "WRITE_ENABLE" /\ s[3].cmd = "CHIP_ERASE" /\ s[4].cmd = "wait_busy"
    BY <1>2, StepKinds
  <2>2. ASSUME NEW i \in 1 .. 4, s[i].cmd \in NeedsWel PROVE i + 1 = 4 /\ s[i + 1] = WaitBusy
    BY <1>2, <1>3, <2>1, <2>2, StepKinds
  <2>3. ASSUME NEW i \in 1 .. 4, i > 1, s[i].cmd \in NeedsWel \cup {"check_addr"}
        PROVE  s[i - 1].cmd \in {"WRITE_ENABLE", "check_addr"}
    BY <1>2, <1>3, <2>1, <2>3, StepKinds
  <2> QED
    BY <1>1, <2>2, <2>3 DEF Orderly
<1>6. s = chip_erase
  BY DEF s, chip_erase
<1>7. Len(s) <= 6
  BY <1>1
<1> QED
  BY <1>1, <1>4, <1>5, <1>6, <1>7, Zenon

(* The calls that neither erase nor program.                                *)
LEMMA OtherLists ==
  ASSUME NEW a \in Nat,
         NEW s \in { read_data(a), write_enable, write_disable, write_sreg,
                     read_id("READ_MDID"), read_id("READ_JEDEC"), read_id("READ_UID") }
  PROVE  /\ s \in Seq(Commands) /\ Len(s) <= 6 /\ s # <<>> /\ Plain(Head(s)) /\ Orderly(s)
         /\ \A c \in Entries(s) : Plain(c) /\ c.d = Erased
         /\ s = read_id("READ_MDID") => Entries(s) = {WaitBusy, Do("READ_MDID")}
         /\ s = read_id("READ_JEDEC") => Entries(s) = {WaitBusy, Do("READ_JEDEC")}
         /\ s = read_id("READ_UID") => Entries(s) = {WaitBusy, Do("READ_UID")}
<1> DEFINE P(c) == c \in Commands /\ Plain(c) /\ c.d = Erased
           Good(t) == t \in Seq(Commands) /\ Len(t) <= 6 /\ t # <<>> /\ \A i \in DOMAIN t : P(t[i])
<1>1. /\ \A cmd \in {"wait_busy", "WRITE_ENABLE", "WRITE_DISABLE", "WRITE_STATUS_REGISTER",
                     "READ_MDID", "READ_JEDEC", "READ_UID"} : P(Do(cmd))
      /\ P(WaitBusy) /\ P(At("check", a)) /\ P(At("READ_DATA", a))
  BY CommandsAre, StepKinds DEF Plain
<1> HIDE DEF P
<1>2. ASSUME NEW t, t \in Seq(Commands), t # <<>>, \A i \in DOMAIN t : P(t[i])
      PROVE  /\ Plain(Head(t)) /\ Orderly(t) /\ \A c \in Entries(t) : Plain(c) /\ c.d = Erased
  <2>1. \A c \in Entries(t) : P(c)
    BY <1>2 DEF Entries
  <2>2. Head(t) \in Entries(t)
    BY <1>2, TailSteps
  <2> QED
    BY <1>2, <2>1, <2>2, PlainSteps DEF P
<1>3. ASSUME NEW c, P(c) PROVE Good(<< c >>)
  BY <1>3 DEF P
<1>4. ASSUME NEW b, NEW c, P(b), P(c) PROVE Good(<< b, c >>) /\ Entries(<< b, c >>) = {b, c}
  <2>1. << b, c >> \in Seq(Commands) /\ Len(<< b, c >>) = 2 /\ DOMAIN << b, c >> = {1, 2}
    BY <1>4 DEF P
  <2> QED
    BY <1>4, <2>1 DEF Entries
<1>5. ASSUME NEW b, NEW c, NEW d, P(b), P(c), P(d) PROVE Good(<< b, c, d >>)
  <2>1. << b, c, d >> \in Seq(Commands) /\ Len(<< b, c, d >>) = 3 /\ DOMAIN << b, c, d >> = {1, 2, 3}
    BY <1>5 DEF P
  <2> QED
    BY <1>5, <2>1
<1>6. \A cmd \in {"READ_MDID", "READ_JEDEC", "READ_UID"} :
        Good(read_id(cmd)) /\ Entries(read_id(cmd)) = {WaitBusy, Do(cmd)}
  BY <1>1, <1>4 DEF read_id
<1>7. Good(read_data(a)) /\ Good(write_enable) /\ Good(write_disable) /\ Good(write_sreg)
  BY <1>1, <1>3, <1>4, <1>5 DEF read_data, write_enable, write_disable, write_sreg
<1>8. Good(s)
  BY <1>6, <1>7
<1> QED
  BY <1>2, <1>6, <1>8

(* What info asks for.                                                      *)
Asked == read_id("READ_MDID") \o read_id("READ_JEDEC") \o read_id("READ_UID")

LEMMA InfoList ==
  /\ Asked \in Seq(Commands) /\ Len(Asked) <= 6 /\ Asked # <<>> /\ Plain(Head(Asked)) /\ Orderly(Asked)
  /\ \A c \in Entries(Asked) : Plain(c) /\ c.d = Erased /\ c.cmd \in {"wait_busy", "READ_MDID", "READ_JEDEC", "READ_UID"}
<1> DEFINE s == << WaitBusy, Do("READ_MDID"), WaitBusy, Do("READ_JEDEC"), WaitBusy, Do("READ_UID") >>
<1>1. s = Asked
  BY DEF Asked, read_id
<1>2. s \in Seq(Commands) /\ Len(s) = 6 /\ DOMAIN s = 1 .. 6 /\ s # <<>>
  BY CommandsAre
<1>3. \A i \in 1 .. 6 : s[i] \in {WaitBusy, Do("READ_MDID"), Do("READ_JEDEC"), Do("READ_UID")}
  OBVIOUS
<1> HIDE DEF s
<1>4. \A c \in Entries(s) : c \in {WaitBusy, Do("READ_MDID"), Do("READ_JEDEC"), Do("READ_UID")}
  BY <1>2, <1>3 DEF Entries
<1>5. \A c \in Entries(s) : Plain(c) /\ c.d = Erased /\ c.cmd \in {"wait_busy", "READ_MDID", "READ_JEDEC", "READ_UID"}
  BY <1>4, StepKinds DEF Plain
<1> QED
  BY <1>1, <1>2, <1>5, PlainSteps, TailSteps

-----------------------------------------------------------------------------
(***************************************************************************)
(* One step of a call.                                                      *)
(***************************************************************************)
(* What a step of a call leaves alone.                                      *)
Unmoved == UNCHANGED <<argVars, flash_addr, int_off, clientCalls>>

LEMMA UnmovedFacts ==
  ASSUME Unmoved
  PROVE  /\ mode' = mode /\ file' = file /\ flash_addr' = flash_addr /\ int_off' = int_off /\ clientCalls' = clientCalls
         /\ Base' = Base /\ Here' = Here /\ ToProgram' = ToProgram /\ ToErase' = ToErase
         /\ \A k : DataOf(k)' = DataOf(k)
  BY DEF Unmoved, argVars, Base, Here, ToProgram, ToErase, DataOf

LEMMA FlashInitHolds == FlashInit => FlashInv
<1> SUFFICES ASSUME FlashInit PROVE FlashInv
  OBVIOUS
<1> USE DEF FlashInit
<1>1. FlashTypeOK
  <2>1. chip \in [Pages -> Contents]
    BY DataFacts
  <2>2. BUSY \in BOOLEAN /\ WEL \in BOOLEAN /\ {BUSY, WEL} \subseteq BOOLEAN
    OBVIOUS
  <2>3. Len(steps) <= 6 /\ int_off \in 0 .. SectorPages /\ flash_addr \in 0 .. Sectors /\ clientCalls \in 0 .. MaxClientCalls
    BY FlashSizes, NoSteps
  <2> QED
    BY <2>1, <2>2, <2>3 DEF FlashTypeOK
<1>2. StepsInv
  BY NoSteps DEF StepsInv
<1>3. FlashReady /\ PhaseInv /\ CallInv /\ EraseInv /\ CallsDoNotInterfere
  BY NoSteps DEF FlashReady, PhaseInv, CallInv, EraseInv, CallsDoNotInterfere
<1>4. ErasingInv /\ ProgrammingInv /\ EndInv
  BY DEF ErasingInv, ProgrammingInv, EndInv
<1> QED
  BY <1>1, <1>2, <1>3, <1>4 DEF FlashInv

(* What is left of a call stays in order.                                   *)
LEMMA LeftInOrder ==
  ASSUME FlashInv, steps # <<>>, steps' = Tail(steps)
  PROVE  /\ StepsInv' /\ Len(steps') <= 6
         /\ step.cmd \in NeedsWel => steps' # <<>> /\ Head(steps') = WaitBusy /\ Entries(steps') = {WaitBusy}
         /\ steps' # <<>> /\ Head(steps').cmd \in NeedsWel \cup {"check_addr"} =>
              step.cmd \in {"WRITE_ENABLE", "check_addr"}
         /\ step \in Commands /\ step \in Entries(steps)
         /\ \A c \in Entries(steps') : c \in Entries(steps)
         /\ \A c \in Entries(steps) : c = step \/ c \in Entries(steps')
         /\ (step.cmd \in NeedsWel \cup {"check_addr"} => WEL) /\ (BUSY => step = WaitBusy)
<1>1. /\ steps \in Seq(Commands) /\ Len(steps) <= 6 /\ Orderly(steps)
      /\ \A c \in Entries(steps) : c.a \in Pages => c.d \in Contents
  BY DEF FlashInv, StepsInv
<1>2. /\ step \in Commands /\ step \in Entries(steps)
      /\ steps' \in Seq(Commands) /\ Len(steps') = Len(steps) - 1 /\ Len(steps) \in Nat
      /\ \A c \in Entries(steps') : c \in Entries(steps)
      /\ \A c \in Entries(steps) : c = step \/ c \in Entries(steps')
  BY <1>1, TailSteps DEF step
<1>3. /\ Orderly(steps')
      /\ step.cmd \in NeedsWel => steps' # <<>> /\ Head(steps') = WaitBusy /\ Entries(steps') = {WaitBusy}
      /\ steps' # <<>> /\ Head(steps').cmd \in NeedsWel \cup {"check_addr"} =>
           step.cmd \in {"WRITE_ENABLE", "check_addr"}
  BY <1>1, OrderlyTail DEF step
<1>4. Len(steps') <= 6
  BY <1>1, <1>2
<1>5. StepsInv'
  BY <1>1, <1>2, <1>3, <1>4 DEF StepsInv
<1>6. (step.cmd \in NeedsWel \cup {"check_addr"} => WEL) /\ (BUSY => step = WaitBusy)
  BY DEF FlashInv, FlashReady, step
<1> QED
  BY <1>2, <1>3, <1>4, <1>5, <1>6

(* A step that neither erases nor programs.                                 *)
LEMMA Passes ==
  ASSUME FlashInv, steps # <<>>, GoOn, Unmoved, UNCHANGED chip, step.cmd \notin NeedsWel
  PROVE  PhaseInv' /\ CallInv' /\ EraseInv' /\ ErasingInv' /\ ProgrammingInv' /\ EndInv'
<1> USE UnmovedFacts
<1>1. steps' = Tail(steps) /\ phase' = phase /\ last' = last /\ chip' = chip
  BY DEF GoOn
<1>2. /\ \A c \in Entries(steps') : c \in Entries(steps)
      /\ \A c \in Entries(steps) : c.cmd \in NeedsWel => c \in Entries(steps')
  BY <1>1, LeftInOrder
<1>3. PhaseInv'
  BY <1>1, <1>2 DEF FlashInv, PhaseInv
<1>4. CallInv'
  BY <1>1, <1>2, StepKinds DEF FlashInv, CallInv, Erase, SectorErased, AllErased
<1>5. EraseInv'
  BY <1>1, <1>2, StepKinds DEF FlashInv, EraseInv, AllErased
<1>6. ErasingInv'
  <2> SUFFICES ASSUME phase = "pages", int_off = 0 PROVE ErasingInv'
    BY <1>1 DEF ErasingInv
  <2>1. ErasingInv
    BY DEF FlashInv
  <2>2. mode # "-c"
    BY <2>1 DEF ErasingInv
  <2>3. ToErase.cmd \in NeedsWel
    BY StepKinds DEF ToErase, Erase
  <2> QED
    BY <1>1, <1>2, <2>1, <2>2, <2>3 DEF ErasingInv, Written, StillErased
<1>7. ProgrammingInv'
  <2>1. ProgrammingInv
    BY DEF FlashInv
  <2>2. ToProgram.cmd \in NeedsWel
    BY StepKinds DEF ToProgram
  <2> QED
    BY <1>1, <1>2, <2>1, <2>2 DEF ProgrammingInv, Written, StillErased
<1>8. EndInv'
  BY <1>1 DEF FlashInv, EndInv, PhaseInv
<1> QED
  BY <1>3, <1>4, <1>5, <1>6, <1>7, <1>8

(* A step that fails, and the call with it.                                 *)
LEMMA CallFails ==
  ASSUME FlashInv, steps # <<>>, Fail, Unmoved, UNCHANGED flashVars, step # WaitBusy,
         refused' \in {"no", "range", "not erased"},
         mode # "-i" /\ phase \notin {"test", "call"} => \A k \in Pages : chip[k] = DataOf(k)
  PROVE  FlashInv'
<1>1. steps' = <<>> /\ BUSY' = BUSY /\ WEL' = WEL /\ chip' = chip
  BY DEF Fail, flashVars
<1>2. phase' = IF phase = "test" THEN "tested" ELSE IF phase = "call" THEN "calls" ELSE "failed"
  BY DEF Fail
<1>3. ~BUSY
  BY DEF FlashInv, FlashReady, step
<1>4. FlashTypeOK'
  <2>1. Len(<<>>) <= 6
    BY NoSteps
  <2>2. Len(steps') <= 6
    BY <1>1, <2>1, Zenon
  <2> QED
    BY <1>1, <1>2, <2>2, UnmovedFacts DEF FlashInv, FlashTypeOK
<1>5. StepsInv'
  <2>1. Len(<<>>) <= 6
    BY NoSteps
  <2>2. Orderly(<<>>) /\ <<>> \in Seq(Commands) /\ \A c \in Entries(<<>>) : c.a \in Pages => c.d \in Contents
    BY NoSteps
  <2> QED
    BY <1>1, <2>1, <2>2, Zenon DEF StepsInv
<1>9. FlashReady' /\ CallsDoNotInterfere'
  BY <1>1, <1>3 DEF FlashReady, CallsDoNotInterfere
<1>6. PhaseInv'
  BY <1>1, <1>2, NoSteps, UnmovedFacts DEF FlashInv, PhaseInv
<1>7. CallInv' /\ EraseInv' /\ ErasingInv' /\ ProgrammingInv'
  BY <1>2 DEF CallInv, EraseInv, ErasingInv, ProgrammingInv
<1>8. EndInv'
  BY <1>1, <1>2, UnmovedFacts DEF EndInv
<1> QED
  BY <1>4, <1>5, <1>6, <1>7, <1>8, <1>9 DEF FlashInv

LEMMA AlarmKeeps == FlashInv /\ Alarm => FlashInv'
<1> SUFFICES ASSUME FlashInv, Alarm PROVE FlashInv'
  OBVIOUS
<1>1. /\ BUSY' = FALSE /\ WEL' = WEL /\ chip' = chip /\ phase' = phase /\ steps' = steps /\ last' = last
      /\ refused' = refused /\ Unmoved
  BY DEF Alarm, Unmoved, argVars
<1> USE <1>1, UnmovedFacts DEF FlashInv
<1>2. FlashTypeOK'
  BY DEF FlashTypeOK
<1>3. StepsInv' /\ FlashReady' /\ PhaseInv' /\ CallsDoNotInterfere'
  BY DEF StepsInv, FlashReady, PhaseInv, CallsDoNotInterfere
<1>4. CallInv' /\ EraseInv' /\ EndInv'
  BY DEF CallInv, EraseInv, EndInv, SectorErased, AllErased, Written
<1>5. ErasingInv' /\ ProgrammingInv'
  BY DEF ErasingInv, ProgrammingInv, Written, StillErased
<1> QED
  BY <1>2, <1>3, <1>4, <1>5

LEMMA WaitKeeps == FlashInv /\ Wait => FlashInv'
<1> SUFFICES ASSUME FlashInv, Wait PROVE FlashInv'
  OBVIOUS
<1>1. /\ steps # <<>> /\ step = WaitBusy /\ BUSY = FALSE /\ GoOn /\ Unmoved
      /\ BUSY' = BUSY /\ WEL' = WEL /\ chip' = chip /\ refused' = refused
  BY DEF Wait, Unmoved, argVars, flashVars, status_busy, FlashInv, FlashTypeOK
<1>2. steps' = Tail(steps) /\ phase' = phase /\ last' = last
  BY <1>1 DEF GoOn
<1>3. step.cmd = "wait_busy"
  BY <1>1, StepKinds
<1>4. PhaseInv' /\ CallInv' /\ EraseInv' /\ ErasingInv' /\ ProgrammingInv' /\ EndInv'
  BY <1>1, <1>3, Passes, StepKinds
<1>5. StepsInv' /\ Len(steps') <= 6 /\ ~(steps' # <<>> /\ Head(steps').cmd \in NeedsWel \cup {"check_addr"})
  BY <1>1, <1>2, <1>3, LeftInOrder
<1>6. FlashTypeOK'
  BY <1>1, <1>2, <1>5, UnmovedFacts DEF FlashInv, FlashTypeOK
<1>7. FlashReady' /\ CallsDoNotInterfere'
  BY <1>1, <1>5 DEF FlashInv, FlashReady, CallsDoNotInterfere
<1> QED
  BY <1>4, <1>5, <1>6, <1>7 DEF FlashInv

(* prog_flash_from_file is never beyond the sector behind the flash.        *)
LEMMA WhereItIs ==
  ASSUME FlashInv
  PROVE  /\ Base \in Nat /\ flash_addr \in Nat /\ int_off \in Nat /\ int_off <= SectorPages /\ flash_addr <= Sectors
         /\ Base < AddressSectors * SectorPages /\ SectorOf(Base) = flash_addr
         /\ int_off > 0 => Here \in Nat /\ Base <= Here /\ Here < Base + SectorPages
<1>1. flash_addr \in Nat /\ int_off \in Nat /\ int_off <= SectorPages /\ flash_addr <= Sectors
  <2>1. int_off \in 0 .. SectorPages /\ flash_addr \in 0 .. Sectors
    BY DEF FlashInv, FlashTypeOK
  <2> QED
    BY <2>1, FlashSizes
<1>2. Base \in Nat /\ Base < AddressSectors * SectorPages /\ SectorOf(Base) = flash_addr
  BY <1>1, InSector DEF Base
<1>3. ASSUME int_off > 0 PROVE Here \in Nat /\ Base <= Here /\ Here < Base + SectorPages
  BY <1>1, <1>2, <1>3, FlashSizes DEF Here
<1> QED
  BY <1>1, <1>2, <1>3

LEMMA CheckKeeps == FlashInv /\ Check => FlashInv'
<1> SUFFICES ASSUME FlashInv, Check PROVE FlashInv'
  OBVIOUS
<1>1. /\ steps # <<>> /\ step.cmd \in {"check", "check_addr"} /\ Unmoved
      /\ BUSY' = BUSY /\ WEL' = WEL /\ chip' = chip /\ refused' = refused
  BY DEF Check, Unmoved, argVars, flashVars
<1>2. step # WaitBusy /\ step.cmd \notin NeedsWel
  BY <1>1, StepKinds
<1>3. CASE GoOn
  <2>1. steps' = Tail(steps) /\ phase' = phase /\ last' = last
    BY <1>3 DEF GoOn
  <2>2. PhaseInv' /\ CallInv' /\ EraseInv' /\ ErasingInv' /\ ProgrammingInv' /\ EndInv'
    BY <1>1, <1>2, <1>3, Passes
  <2>3. /\ StepsInv' /\ Len(steps') <= 6 /\ BUSY # TRUE
        /\ steps' # <<>> /\ Head(steps').cmd \in NeedsWel \cup {"check_addr"} => WEL
    BY <1>1, <1>2, <2>1, LeftInOrder
  <2>4. FlashTypeOK'
    BY <1>1, <2>1, <2>3, UnmovedFacts DEF FlashInv, FlashTypeOK
  <2>5. FlashReady' /\ CallsDoNotInterfere'
    BY <1>1, <2>3 DEF FlashInv, FlashReady, CallsDoNotInterfere, FlashTypeOK
  <2> QED
    BY <2>2, <2>3, <2>4, <2>5 DEF FlashInv
<1>4. CASE Fail /\ step.a + (IF step.cmd = "check" THEN MarginPages ELSE 0) >= AddressSectors * SectorPages
  <2>1. step \in Entries(steps) /\ step \in Commands
    BY <1>1, TailSteps DEF FlashInv, StepsInv, step
  <2>2. refused' \in {"no", "range", "not erased"}
    BY <1>1 DEF FlashInv, FlashTypeOK, CallsDoNotInterfere
  <2>3. ASSUME mode # "-i", phase \notin {"test", "call"} PROVE \A k \in Pages : chip[k] = DataOf(k)
    <3>1. phase \in {"erase", "pages"}
      BY <1>1, <2>3 DEF FlashInv, PhaseInv, FlashTypeOK
    <3>2. phase # "erase"
      BY <1>1, <2>1, StepKinds DEF FlashInv, EraseInv
    <3>3. int_off # 0
      <4> SUFFICES ASSUME int_off = 0 PROVE FALSE
        OBVIOUS
      <4>1. step = At("check_addr", Base)
        BY <1>1, <2>1, <3>1, <3>2, StepKinds DEF FlashInv, ErasingInv, ToErase, Erase
      <4>2. step.a = Base /\ step.cmd = "check_addr"
        BY <4>1, StepKinds
      <4> QED
        BY <1>4, <4>2, WhereItIs, PageFacts, FlashSizes
    <3>4. int_off > 0
      BY <3>3, WhereItIs
    <3>5. step = At("check", Here)
      BY <1>1, <2>1, <3>1, <3>2, <3>4, StepKinds DEF FlashInv, ProgrammingInv, ToProgram
    <3>6. Here + MarginPages >= AddressSectors * SectorPages
      BY <1>4, <3>5, StepKinds
    <3>7. AddressSectors * SectorPages \in Nat
      BY FlashSizes, Multiples
    <3>8. Here \in Nat
      BY <3>4, WhereItIs
    <3>9. Here \notin Pages /\ \A k \in Pages : k < Here
      <4>1. ASSUME NEW h \in Nat, NEW m \in Nat, NEW n \in Nat, NEW top \in Nat, n + m <= top, h + m >= top
            PROVE  h \notin 0 .. n - 1 /\ \A k \in 0 .. n - 1 : k < h
        BY <4>1
      <4> QED
        BY <3>6, <3>7, <3>8, <4>1, PageFacts, FlashSizes
    <3>10. Written(Here)
      BY <3>1, <3>2, <3>4, <3>9 DEF FlashInv, ProgrammingInv
    <3> QED
      BY <3>9, <3>10 DEF Written
  <2> QED
    BY <1>1, <1>2, <1>4, <2>2, <2>3, CallFails DEF flashVars
<1> QED
  BY <1>3, <1>4 DEF Check

(***************************************************************************)
(* A request that is served.                                                *)
(***************************************************************************)
LEMMA Requests ==
  ASSUME FlashInv, Transfer
  PROVE  /\ steps # <<>> /\ step # WaitBusy /\ step.cmd \notin {"check", "check_addr"} /\ Unmoved
         /\ step \in Entries(steps) /\ step \in Commands /\ ~BUSY
         /\ refused' = Refusal(step) /\ refused' \in {"no", "range", "not erased"}
         /\ refused' = "range" =>
              \/ step.cmd = "SECTOR_ERASE" /\ SectorOf(step.a) >= Sectors
              \/ step.cmd = "PAGE_PROGRAM" /\ step.a \notin Pages
              \/ step.cmd = "READ_DATA"
         /\ refused' = "not erased" => step.cmd = "PAGE_PROGRAM" /\ step.a \in Pages /\ chip[step.a] # Erased
         /\ refused' = "no" =>
              /\ Serve(step) /\ GoOn
              /\ step.cmd = "SECTOR_ERASE" => SectorOf(step.a) < Sectors
              /\ step.cmd = "PAGE_PROGRAM" => step.a \in Pages /\ chip[step.a] = Erased
         /\ refused' # "no" => Fail /\ UNCHANGED flashVars
<1>1. /\ steps # <<>> /\ step # WaitBusy /\ step.cmd \notin {"check", "check_addr"} /\ Unmoved
      /\ refused' = Refusal(step)
      /\ IF Refusal(step) = "no" THEN Serve(step) /\ GoOn ELSE Fail /\ UNCHANGED flashVars
  BY DEF Transfer, Unmoved
<1>2. step \in Entries(steps) /\ step \in Commands
  BY <1>1, TailSteps DEF FlashInv, StepsInv, step
<1>3. ~BUSY /\ (step.cmd \in NeedsWel => WEL)
  BY <1>1 DEF FlashInv, FlashReady, step
<1>4. Refusal(step) =
        IF \/ step.cmd = "SECTOR_ERASE" /\ erased_sector(step.a) >= Sectors
           \/ step.cmd = "PAGE_PROGRAM" /\ step.a \notin Pages
           \/ step.cmd = "READ_DATA" /\ step.a + 1 \notin Pages THEN "range"
        ELSE IF step.cmd = "PAGE_PROGRAM" /\ chip[step.a] # Erased THEN "not erased"
        ELSE "no"
  BY <1>3, Zenon DEF Refusal
<1>5. SectorOf(step.a) \in Nat /\ (~(SectorOf(step.a) >= Sectors) => SectorOf(step.a) < Sectors)
  BY <1>2, PageFacts, FlashSizes DEF Commands
<1> QED
  BY <1>1, <1>2, <1>3, <1>4, <1>5 DEF erased_sector

(* What becomes of the pages.                                               *)
LEMMA Serves ==
  ASSUME FlashInv, steps # <<>>, Serve(step)
  PROVE  /\ step.cmd \notin NeedsWel => chip' = chip /\ ~BUSY'
         /\ step.cmd \in NeedsWel => BUSY' /\ WEL' = WEL
         /\ step.cmd = "WRITE_ENABLE" => WEL' = TRUE
         /\ step.cmd = "CHIP_ERASE" => \A p \in Pages : chip'[p] = Erased
         /\ step.cmd = "SECTOR_ERASE" =>
              \A p \in Pages : chip'[p] = IF p \in PagesOf(SectorOf(step.a)) THEN Erased ELSE chip[p]
         /\ step.cmd = "PAGE_PROGRAM" /\ step.a \in Pages /\ chip[step.a] = Erased =>
              chip'[step.a] = step.d /\ \A p \in Pages : p # step.a => chip'[p] = chip[p]
         /\ {BUSY', WEL'} \subseteq BOOLEAN /\ chip' \in [Pages -> Contents]
<1>1. step \in Entries(steps) /\ step \in Commands
  BY TailSteps DEF FlashInv, StepsInv, step
<1>2. chip \in [Pages -> Contents] /\ {BUSY, WEL} \subseteq BOOLEAN /\ (step.a \in Pages => step.d \in Contents)
  BY <1>1 DEF FlashInv, FlashTypeOK, StepsInv
<1>3. /\ WEL' = IF step.cmd = "WRITE_ENABLE" THEN TRUE ELSE IF step.cmd = "WRITE_DISABLE" THEN FALSE ELSE WEL
      /\ BUSY' = (step.cmd \in NeedsWel)
  BY DEF Serve
<1>4. step.cmd \notin NeedsWel => chip' = chip
  BY StepKinds DEF Serve
<1>5. step.cmd = "CHIP_ERASE" => chip' = [p \in Pages |-> Erased]
  BY DEF Serve
<1>6. step.cmd = "SECTOR_ERASE" =>
        chip' = [p \in Pages |-> IF p \in PagesOf(SectorOf(step.a)) THEN Erased ELSE chip[p]]
  BY DEF Serve, erased_sector
<1>7. step.cmd = "PAGE_PROGRAM" => chip' = [chip EXCEPT ![step.a] = IF @ = Erased THEN step.d ELSE @]
  BY DEF Serve
<1>8. {BUSY', WEL'} \subseteq BOOLEAN
  <2>1. WEL \in BOOLEAN
    BY <1>2, Zenon
  <2>2. WEL' \in BOOLEAN
    BY <1>3, <2>1
  <2>3. BUSY' \in BOOLEAN
    BY <1>3
  <2> QED
    BY <2>2, <2>3
<1>9. chip' \in [Pages -> Contents]
  <2>1. step.cmd \in NeedsWel => step.cmd \in {"CHIP_ERASE", "SECTOR_ERASE", "PAGE_PROGRAM"}
    BY StepKinds
  <2>2. CASE step.cmd = "CHIP_ERASE"
    BY <1>5, <2>2, DataFacts
  <2>3. CASE step.cmd = "SECTOR_ERASE"
    BY <1>2, <1>6, <2>3, DataFacts
  <2>4. CASE step.cmd = "PAGE_PROGRAM"
    BY <1>2, <1>7, <2>4
  <2>5. CASE step.cmd \notin NeedsWel
    BY <1>2, <1>4, <2>5
  <2> QED
    BY <2>1, <2>2, <2>3, <2>4, <2>5
<1>10. step.cmd \notin NeedsWel => ~BUSY'
  BY <1>3
<1>11. step.cmd \in NeedsWel => BUSY' /\ WEL' = WEL
  BY <1>3, StepKinds
<1>12. step.cmd = "WRITE_ENABLE" => WEL' = TRUE
  BY <1>3
<1>13. step.cmd = "PAGE_PROGRAM" /\ step.a \in Pages /\ chip[step.a] = Erased =>
         chip'[step.a] = step.d /\ \A p \in Pages : p # step.a => chip'[p] = chip[p]
  BY <1>2, <1>7
<1> QED
  BY <1>4, <1>5, <1>6, <1>8, <1>9, <1>10, <1>11, <1>12, <1>13

(* A request that erases or programs, in a call of a client.                *)
LEMMA ClientServed ==
  ASSUME FlashInv, Transfer, refused' = "no", step.cmd \in NeedsWel
  PROVE  CallInv'
<1> SUFFICES ASSUME phase = "call" PROVE CallInv'
  BY Requests DEF CallInv, GoOn
<1>1. /\ phase' = phase /\ last' = last /\ steps' = Tail(steps) /\ steps # <<>> /\ Serve(step)
      /\ step \in Entries(steps) /\ step \in Commands
      /\ step.cmd = "SECTOR_ERASE" => SectorOf(step.a) < Sectors
      /\ step.cmd = "PAGE_PROGRAM" => step.a \in Pages /\ chip[step.a] = Erased
  BY Requests DEF GoOn
<1>2. \A c \in Entries(steps') : c \in Entries(steps)
  BY <1>1, LeftInOrder
<1>3. CallInv
  BY DEF FlashInv
<1>4. CASE last.cmd = "page"
  <2>1. step = Program(last.a, last.d)
    BY <1>1, <1>3, <1>4 DEF CallInv
  <2>2. last.a \in Pages /\ chip'[last.a] = last.d
    BY <1>1, <2>1, Serves, StepKinds
  <2> QED
    BY <1>1, <1>2, <1>3, <1>4, <2>2 DEF CallInv
<1>5. CASE last.cmd = "sector"
  <2>1. step = Erase(last.a)
    BY <1>1, <1>3, <1>5 DEF CallInv
  <2>2. step.cmd = "SECTOR_ERASE" /\ step.a = last.a
    BY <2>1, StepKinds DEF Erase
  <2>3. SectorOf(last.a) < Sectors /\ \A p \in Pages : p \in PagesOf(SectorOf(last.a)) => chip'[p] = Erased
    BY <1>1, <2>2, Serves
  <2> QED
    BY <1>1, <1>2, <1>3, <1>5, <2>3 DEF CallInv, SectorErased
<1>6. CASE last.cmd = "chip"
  <2>1. step = Do("CHIP_ERASE")
    BY <1>1, <1>3, <1>6 DEF CallInv
  <2>2. \A p \in Pages : chip'[p] = Erased
    BY <1>1, <2>1, Serves, StepKinds
  <2> QED
    BY <1>1, <1>2, <1>3, <1>6, <2>2 DEF CallInv, AllErased
<1>7. CASE last.cmd \in {"block", "other"}
  BY <1>1, <1>3, <1>7 DEF CallInv
<1> QED
  BY <1>3, <1>4, <1>5, <1>6, <1>7 DEF CallInv

(* ... and in main.                                                         *)
LEMMA MainServed ==
  ASSUME FlashInv, Transfer, refused' = "no", step.cmd \in NeedsWel
  PROVE  PhaseInv' /\ EraseInv' /\ ErasingInv' /\ ProgrammingInv' /\ EndInv'
<1>1. /\ phase' = phase /\ last' = last /\ steps' = Tail(steps) /\ steps # <<>> /\ Serve(step) /\ Unmoved
      /\ step \in Entries(steps) /\ step \in Commands
      /\ step.cmd = "SECTOR_ERASE" => SectorOf(step.a) < Sectors
      /\ step.cmd = "PAGE_PROGRAM" => step.a \in Pages /\ chip[step.a] = Erased
  BY Requests DEF GoOn
<1>2. /\ \A c \in Entries(steps') : c \in Entries(steps)
      /\ \A c \in Entries(steps) : c = step \/ c \in Entries(steps')
  BY <1>1, LeftInOrder
<1> USE <1>1, UnmovedFacts
<1>3. PhaseInv'
  BY <1>2 DEF FlashInv, PhaseInv
<1>4. EraseInv'
  <2> SUFFICES ASSUME phase = "erase" PROVE EraseInv'
    BY DEF EraseInv
  <2>1. step = Do("CHIP_ERASE")
    BY StepKinds DEF FlashInv, EraseInv
  <2>2. \A p \in Pages : chip'[p] = Erased
    BY <2>1, Serves, StepKinds
  <2> QED
    BY <1>2, <2>2 DEF FlashInv, EraseInv, AllErased
<1>5. ErasingInv'
  <2> SUFFICES ASSUME phase = "pages", int_off = 0 PROVE ErasingInv'
    BY DEF ErasingInv
  <2>1. ErasingInv
    BY DEF FlashInv
  <2>2. mode = "sectors"
    BY <2>1, NoSteps DEF ErasingInv, FlashInv, PhaseInv, FlashTypeOK
  <2>3. step = ToErase
    BY <2>1, StepKinds DEF ErasingInv
  <2>4. step.cmd = "SECTOR_ERASE" /\ step.a = Base
    BY <2>3, StepKinds DEF ToErase, Erase
  <2>5. /\ Base \in Nat /\ PagesOf(SectorOf(step.a)) = Base .. Base + SectorPages - 1
    BY <2>4, WhereItIs, InSector DEF Base
  <2>6. \A p \in Pages : chip'[p] = IF p \in Base .. Base + SectorPages - 1 THEN Erased ELSE chip[p]
    BY <2>4, <2>5, Serves
  <2>7. \A k \in Pages : k < Base => k \notin Base .. Base + SectorPages - 1
    BY <2>5, FlashSizes, PageFacts
  <2>8. Written(Base)'
    BY <2>1, <2>6, <2>7 DEF ErasingInv, Written
  <2>9. \A k \in Pages : k >= Base /\ k < Base + SectorPages => k \in Base .. Base + SectorPages - 1
    BY <2>5, FlashSizes, PageFacts
  <2>10. StillErased(Base)'
    BY <2>2, <2>6, <2>9 DEF StillErased
  <2> QED
    BY <1>2, <2>1, <2>2, <2>8, <2>10 DEF ErasingInv
<1>6. ProgrammingInv'
  <2> SUFFICES ASSUME phase = "pages", int_off > 0 PROVE ProgrammingInv'
    BY DEF ProgrammingInv
  <2>1. ProgrammingInv
    BY DEF FlashInv
  <2>2. step = ToProgram /\ ToProgram \in Entries(steps)
    BY <2>1, StepKinds DEF ProgrammingInv
  <2>3. step.cmd = "PAGE_PROGRAM" /\ step.a = Here /\ step.d = DataOf(Here)
    BY <2>2, StepKinds DEF ToProgram
  <2>4. Here \in Pages /\ chip'[Here] = DataOf(Here) /\ \A p \in Pages : p # Here => chip'[p] = chip[p]
    BY <2>3, Serves
  <2>5. Written(Here) /\ StillErased(Here)
    BY <2>1, <2>2 DEF ProgrammingInv
  <2>6. \A k \in Pages : (k < Here + 1 => k = Here \/ k < Here) /\ (k >= Here + 1 => k # Here /\ k >= Here)
    <3>1. Here \in Int /\ \A k \in Pages : k \in Int
      BY <2>4, PageFacts
    <3> QED
      BY <3>1
  <2>7. Written(Here + 1)'
    BY <2>4, <2>5, <2>6 DEF Written
  <2>8. StillErased(Here + 1)'
    BY <2>4, <2>5, <2>6 DEF StillErased
  <2>9. ToProgram \notin Entries(steps')
    BY <2>3, LeftInOrder, StepKinds DEF ToProgram
  <2> QED
    BY <1>2, <2>1, <2>4, <2>7, <2>8, <2>9 DEF ProgrammingInv
<1>7. EndInv'
  BY NoSteps DEF FlashInv, EndInv, PhaseInv
<1> QED
  BY <1>3, <1>4, <1>5, <1>6, <1>7

(* A request of main is refused only behind the end of the flash.           *)
LEMMA MainRefused ==
  ASSUME FlashInv, Transfer, refused' # "no", mode # "-i", phase \notin {"test", "call"}
  PROVE  \A k \in Pages : chip[k] = DataOf(k)
<1>1. /\ steps # <<>> /\ step \in Entries(steps) /\ step \in Commands
      /\ step.cmd \notin {"check", "check_addr", "WRITE_ENABLE"} /\ step # WaitBusy
      /\ \/ step.cmd = "SECTOR_ERASE" /\ SectorOf(step.a) >= Sectors
         \/ step.cmd = "PAGE_PROGRAM" /\ (step.a \in Pages => chip[step.a] # Erased)
         \/ step.cmd = "READ_DATA"
  BY Requests
<1>2. phase \in {"erase", "pages"}
  BY <1>1 DEF FlashInv, PhaseInv, FlashTypeOK
<1>3. phase = "pages"
  BY <1>1, <1>2, StepKinds DEF FlashInv, EraseInv
<1>4. CASE int_off = 0
  <2>1. step = ToErase /\ Written(Base)
    BY <1>1, <1>3, <1>4, StepKinds DEF FlashInv, ErasingInv
  <2>2. step.a = Base /\ step.cmd = "SECTOR_ERASE"
    BY <2>1, StepKinds DEF ToErase, Erase
  <2>3. flash_addr >= Sectors
    BY <1>1, <2>2, WhereItIs
  <2>4. Base >= Sectors * SectorPages /\ Base \in Nat
    BY <2>3, WhereItIs, InSector DEF Base
  <2>5. \A k \in Pages : k < Base
    BY <2>4, PageFacts
  <2> QED
    BY <2>1, <2>5 DEF Written
<1>5. CASE int_off > 0
  <2>1. step = ToProgram /\ Written(Here) /\ StillErased(Here)
    BY <1>1, <1>3, <1>5, StepKinds DEF FlashInv, ProgrammingInv
  <2>2. step.a = Here /\ step.cmd = "PAGE_PROGRAM"
    BY <2>1, StepKinds DEF ToProgram
  <2>3. Here \in Nat /\ Here < Base + SectorPages
    BY <1>5, WhereItIs
  <2>4. Here \notin Pages
    <3> SUFFICES ASSUME Here \in Pages PROVE FALSE
      OBVIOUS
    <3>1. chip[Here] = Erased
      BY <2>1, <2>3 DEF StillErased
    <3> QED
      BY <1>1, <2>2, <3>1
  <2>5. \A k \in Pages : k < Here
    BY <2>3, <2>4, PageFacts
  <2> QED
    BY <2>1, <2>5 DEF Written
<1> QED
  BY <1>4, <1>5, WhereItIs

LEMMA TransferKeeps == FlashInv /\ Transfer => FlashInv'
<1> SUFFICES ASSUME FlashInv, Transfer PROVE FlashInv'
  OBVIOUS
<1>1. CASE refused' # "no"
  <2>1. refused' \in {"no", "range", "not erased"} /\ steps # <<>> /\ step # WaitBusy /\ Unmoved /\ Fail /\ UNCHANGED flashVars
    BY <1>1, Requests
  <2> QED
    BY <1>1, <2>1, MainRefused, CallFails
<1>2. CASE refused' = "no"
  <2>1. /\ steps # <<>> /\ step # WaitBusy /\ Unmoved /\ Serve(step) /\ GoOn
        /\ step.cmd \notin {"check", "check_addr"}
    BY <1>2, Requests
  <2>2. steps' = Tail(steps) /\ phase' = phase /\ last' = last
    BY <2>1 DEF GoOn
  <2>3. PhaseInv' /\ CallInv' /\ EraseInv' /\ ErasingInv' /\ ProgrammingInv' /\ EndInv'
    <3>1. CASE step.cmd \in NeedsWel
      BY <1>2, <3>1, ClientServed, MainServed
    <3>2. CASE step.cmd \notin NeedsWel
      BY <2>1, <3>2, Passes, Serves
    <3> QED
      BY <3>1, <3>2
  <2>4. /\ StepsInv' /\ Len(steps') <= 6
        /\ step.cmd \in NeedsWel => steps' # <<>> /\ Head(steps') = WaitBusy
        /\ steps' # <<>> /\ Head(steps').cmd \in NeedsWel \cup {"check_addr"} => step.cmd = "WRITE_ENABLE"
    BY <2>1, <2>2, LeftInOrder
  <2>5. {BUSY', WEL'} \subseteq BOOLEAN /\ chip' \in [Pages -> Contents]
    BY <2>1, Serves
  <2>6. FlashTypeOK'
    BY <1>2, <2>1, <2>2, <2>4, <2>5, UnmovedFacts DEF FlashInv, FlashTypeOK
  <2>7. BUSY' => steps' # <<>> /\ Head(steps') = WaitBusy
    BY <2>1, <2>4, Serves
  <2>8. steps' # <<>> /\ Head(steps').cmd \in NeedsWel \cup {"check_addr"} => WEL'
    BY <2>1, <2>4, Serves
  <2>9. FlashReady' /\ CallsDoNotInterfere'
    BY <1>2, <2>7, <2>8 DEF FlashReady, CallsDoNotInterfere
  <2> QED
    BY <2>3, <2>4, <2>6, <2>9 DEF FlashInv
<1> QED
  BY <1>1, <1>2

-----------------------------------------------------------------------------
(***************************************************************************)
(* What main and a client call.                                             *)
(***************************************************************************)
(* A list of steps that can be started when the flash rests.                *)
Callable(s) ==
  /\ s \in Seq(Commands) /\ Len(s) <= 6 /\ Orderly(s) /\ (s # <<>> => Plain(Head(s)))
  /\ \A c \in Entries(s) : c.a \in Pages => c.d \in Contents

LEMMA CallStarts ==
  ASSUME FlashInv, steps = <<>>, UNCHANGED <<flashVars, refused, argVars>>, Callable(steps'),
         phase' \in {"start", "info", "test", "tested", "erase", "pages", "unread", "done", "failed", "calls", "call"},
         int_off' \in 0 .. SectorPages, flash_addr' \in 0 .. Sectors, clientCalls' \in 0 .. MaxClientCalls
  PROVE  /\ FlashTypeOK' /\ StepsInv' /\ FlashReady' /\ CallsDoNotInterfere'
         /\ mode' = mode /\ file' = file /\ chip' = chip /\ ~BUSY /\ Entries(steps) = {}
<1>1. BUSY' = BUSY /\ WEL' = WEL /\ chip' = chip /\ refused' = refused /\ mode' = mode /\ file' = file
  BY DEF flashVars, argVars
<1>2. ~BUSY /\ Entries(steps) = {}
  BY NoSteps DEF FlashInv, FlashReady
<1>3. FlashTypeOK'
  BY <1>1 DEF FlashInv, FlashTypeOK, Callable
<1>4. StepsInv'
  BY DEF StepsInv, Callable
<1>5. FlashReady' /\ CallsDoNotInterfere'
  BY <1>1, <1>2 DEF FlashInv, FlashReady, CallsDoNotInterfere, Callable, Plain
<1> QED
  BY <1>1, <1>2, <1>3, <1>4, <1>5

LEMMA Counters ==
  ASSUME FlashInv
  PROVE  int_off \in 0 .. SectorPages /\ flash_addr \in 0 .. Sectors /\ clientCalls \in 0 .. MaxClientCalls
  BY DEF FlashInv, FlashTypeOK

LEMMA CallsAre ==
  /\ Callable(<<>>) /\ Callable(chip_erase) /\ Callable(Asked)
  /\ \A cmd \in {"READ_MDID", "READ_JEDEC", "READ_UID"} : Callable(read_id(cmd))
  /\ Callable(write_enable) /\ Callable(write_disable) /\ Callable(write_sreg)
  /\ \A a \in Nat : Callable(read_data(a))
  /\ \A a \in Nat : \A cmd \in {"SECTOR_ERASE", "BLOCK_ERASE"} : Callable(eraser(cmd, a))
  /\ \A a \in Nat, d \in Datas : (a \in Pages => d \in Contents) => Callable(page_program(a, d))
<1>1. Callable(<<>>)
  BY NoSteps DEF Callable
<1>2. Callable(chip_erase)
  BY ChipEraseList, StepKinds, DataFacts DEF Callable, Plain
<1>3. Callable(Asked)
  BY InfoList, DataFacts DEF Callable
<1>4. ASSUME NEW a \in Nat,
             NEW s \in { read_data(a), write_enable, write_disable, write_sreg,
                         read_id("READ_MDID"), read_id("READ_JEDEC"), read_id("READ_UID") }
      PROVE  Callable(s)
  <2>1. /\ s \in Seq(Commands) /\ Len(s) <= 6 /\ Plain(Head(s)) /\ Orderly(s)
        /\ \A c \in Entries(s) : c.d = Erased
    BY OtherLists
  <2> QED
    BY <2>1, DataFacts DEF Callable
<1>5. ASSUME NEW a \in Nat, NEW cmd \in {"SECTOR_ERASE", "BLOCK_ERASE"} PROVE Callable(eraser(cmd, a))
  <2>1. /\ eraser(cmd, a) \in Seq(Commands) /\ Len(eraser(cmd, a)) <= 6 /\ Orderly(eraser(cmd, a))
        /\ Entries(eraser(cmd, a)) = {Do("WRITE_ENABLE"), At("check_addr", a), At(cmd, a), WaitBusy}
        /\ Head(eraser(cmd, a)) = Do("WRITE_ENABLE")
    BY EraserList
  <2>2. Plain(Head(eraser(cmd, a))) /\ \A c \in Entries(eraser(cmd, a)) : c.d = Erased
    BY <2>1, StepKinds DEF Plain
  <2> QED
    BY <2>1, <2>2, DataFacts DEF Callable
<1>6. ASSUME NEW a \in Nat, NEW d \in Datas, a \in Pages => d \in Contents PROVE Callable(page_program(a, d))
  <2>1. /\ page_program(a, d) \in Seq(Commands) /\ Len(page_program(a, d)) <= 6 /\ Orderly(page_program(a, d))
        /\ Entries(page_program(a, d)) = {At("check", a), WaitBusy, Do("WRITE_ENABLE"), Program(a, d)}
        /\ Head(page_program(a, d)) = At("check", a)
    BY PageProgramList
  <2>2. /\ Plain(Head(page_program(a, d)))
        /\ \A c \in Entries(page_program(a, d)) : c.d = Erased \/ (c.a = a /\ c.d = d)
    BY <2>1, StepKinds DEF Plain
  <2> QED
    BY <1>6, <2>1, <2>2, DataFacts DEF Callable
<1>7. 0 \in Nat
  OBVIOUS
<1> QED
  BY <1>1, <1>2, <1>3, <1>4, <1>5, <1>6, <1>7

LEMMA InfoKeeps == FlashInv /\ Info => FlashInv'
<1> SUFFICES ASSUME FlashInv, Info PROVE FlashInv'
  OBVIOUS
<1>1. /\ mode = "-i" /\ steps = <<>> /\ phase' = "info" /\ steps' = Asked
      /\ UNCHANGED <<argVars, flashVars, refused>>
      /\ flash_addr' = flash_addr /\ int_off' = int_off /\ clientCalls' = clientCalls
  BY DEF Info, Call, Asked
<1>2. /\ FlashTypeOK' /\ StepsInv' /\ FlashReady' /\ CallsDoNotInterfere'
      /\ mode' = mode
  BY <1>1, CallStarts, CallsAre, Counters
<1>3. PhaseInv'
  BY <1>1, <1>2, InfoList DEF PhaseInv
<1>4. CallInv' /\ EraseInv' /\ ErasingInv' /\ ProgrammingInv' /\ EndInv'
  BY <1>1 DEF CallInv, EraseInv, ErasingInv, ProgrammingInv, EndInv
<1> QED
  BY <1>2, <1>3, <1>4 DEF FlashInv

LEMMA TestMemoryKeeps == FlashInv /\ TestMemory => FlashInv'
<1> SUFFICES ASSUME FlashInv, TestMemory PROVE FlashInv'
  OBVIOUS
<1>1. /\ mode \in {"-c", "sectors"} /\ steps = <<>> /\ phase = "start" /\ phase' = "test"
      /\ steps' = read_id("READ_JEDEC")
      /\ UNCHANGED <<argVars, flashVars, refused>>
      /\ flash_addr' = flash_addr /\ int_off' = int_off /\ clientCalls' = clientCalls
  BY DEF TestMemory, Call
<1>2. /\ FlashTypeOK' /\ StepsInv' /\ FlashReady' /\ CallsDoNotInterfere'
      /\ mode' = mode
  BY <1>1, CallStarts, CallsAre, Counters
<1>3. \A c \in Entries(steps') : c.cmd \in {"wait_busy", "READ_MDID", "READ_JEDEC", "READ_UID"}
  <2>1. Entries(read_id("READ_JEDEC")) = {WaitBusy, Do("READ_JEDEC")}
    BY OtherLists
  <2> QED
    BY <1>1, <2>1, StepKinds
<1>4. PhaseInv'
  BY <1>1, <1>2, <1>3 DEF FlashInv, PhaseInv
<1>5. CallInv' /\ EraseInv' /\ ErasingInv' /\ ProgrammingInv' /\ EndInv'
  BY <1>1 DEF CallInv, EraseInv, ErasingInv, ProgrammingInv, EndInv
<1> QED
  BY <1>2, <1>4, <1>5 DEF FlashInv

LEMMA ChipEraseKeeps == FlashInv /\ ChipErase => FlashInv'
<1> SUFFICES ASSUME FlashInv, ChipErase PROVE FlashInv'
  OBVIOUS
<1>1. /\ mode = "-c" /\ steps = <<>> /\ phase \in {"test", "tested"} /\ phase' = "erase"
      /\ steps' = chip_erase
      /\ UNCHANGED <<argVars, flashVars, refused>>
      /\ flash_addr' = flash_addr /\ int_off' = int_off /\ clientCalls' = clientCalls
  BY DEF ChipErase, Call
<1>2. /\ FlashTypeOK' /\ StepsInv' /\ FlashReady' /\ CallsDoNotInterfere'
      /\ mode' = mode
  BY <1>1, CallStarts, CallsAre, Counters
<1>3. PhaseInv'
  BY <1>1, <1>2 DEF FlashInv, PhaseInv
<1>4. EraseInv'
  BY <1>1, ChipEraseList, StepKinds DEF EraseInv
<1>5. CallInv' /\ ErasingInv' /\ ProgrammingInv' /\ EndInv'
  BY <1>1 DEF CallInv, ErasingInv, ProgrammingInv, EndInv
<1> QED
  BY <1>2, <1>3, <1>4, <1>5 DEF FlashInv

LEMMA ReturnKeeps == FlashInv /\ Return => FlashInv'
<1> SUFFICES ASSUME FlashInv, Return PROVE FlashInv'
  OBVIOUS
<1>1. /\ steps = <<>> /\ steps' = <<>>
      /\ (phase = "call" /\ phase' = "calls") \/ (phase = "info" /\ phase' = "done")
      /\ UNCHANGED <<argVars, flashVars, refused>>
      /\ flash_addr' = flash_addr /\ int_off' = int_off /\ clientCalls' = clientCalls
  <2>1. steps = <<>> /\ steps' = steps /\ UNCHANGED <<argVars, flashVars, refused, flash_addr, int_off, clientCalls>>
    BY DEF Return
  <2>2. (phase = "call" /\ phase' = "calls") \/ (phase = "info" /\ phase' = "done")
    BY DEF Return
  <2> QED
    BY <2>1, <2>2
<1>2. /\ FlashTypeOK' /\ StepsInv' /\ FlashReady' /\ CallsDoNotInterfere'
      /\ mode' = mode
  BY <1>1, CallStarts, CallsAre, Counters
<1>3. PhaseInv'
  BY <1>1, <1>2 DEF FlashInv, PhaseInv
<1>4. mode \in {"-i", "calls"}
  BY <1>1 DEF FlashInv, PhaseInv, FlashTypeOK
<1>5. CallInv' /\ EraseInv' /\ ErasingInv' /\ ProgrammingInv' /\ EndInv'
  BY <1>1, <1>2, <1>3, <1>4 DEF CallInv, EraseInv, ErasingInv, ProgrammingInv, EndInv, PhaseInv
<1> QED
  BY <1>2, <1>3, <1>5 DEF FlashInv

(* Where the next sector is read the file has been written up to there, and *)
(* after -c what follows is erased.                                         *)
LEMMA WrittenToHere ==
  ASSUME FlashInv, AtSector, flash_addr' = NextAddr, chip' = chip
  PROVE  /\ mode \in {"-c", "sectors"}
         /\ flash_addr' \in 0 .. Sectors /\ Base' \in Nat
         /\ Written(Base')
         /\ mode = "-c" => \A k \in Pages : k >= Base' => chip[k] = Erased
<1>1. /\ steps = <<>>
      /\ \/ mode = "-c" /\ phase = "erase"
         \/ mode = "sectors" /\ phase \in {"test", "tested"}
         \/ phase = "pages" /\ int_off = SectorPages
      /\ flash_addr' = IF phase = "pages" THEN flash_addr + 1 ELSE flash_addr
  BY DEF AtSector, NextAddr, in_sector
<1>2. mode \in {"-c", "sectors"}
  BY <1>1 DEF FlashInv, PhaseInv, FlashTypeOK
<1>3. Entries(steps) = {}
  BY <1>1, NoSteps
<1>4. /\ flash_addr' \in 0 .. Sectors /\ Base' \in Nat
      /\ Written(Base')
      /\ mode = "-c" => \A k \in Pages : k >= Base' => chip[k] = Erased
  <2>1. CASE phase = "pages"
    <3>1. int_off = SectorPages /\ int_off > 0 /\ flash_addr' = flash_addr + 1
      BY <1>1, <2>1, FlashSizes
    <3>2. Here \in Pages /\ Written(Here + 1) /\ StillErased(Here + 1)
      BY <1>3, <2>1, <3>1 DEF FlashInv, ProgrammingInv
    <3>3. flash_addr \in Nat /\ flash_addr <= Sectors /\ Base \in Nat /\ Here + 1 = Base + SectorPages /\ Base <= Here
      BY <3>1, WhereItIs, FlashSizes DEF Here
    <3>4. Base < Sectors * SectorPages
      BY <3>2, <3>3, PageFacts
    <3>5. flash_addr < Sectors
      <4>1. flash_addr >= Sectors => Base >= Sectors * SectorPages
        BY <3>3, InSector DEF Base
      <4> QED
        BY <3>3, <3>4, <4>1, PageFacts, FlashSizes
    <3>6. flash_addr' \in 0 .. Sectors
      BY <3>1, <3>3, <3>5, FlashSizes
    <3>7. Base' = Base + SectorPages
      BY <3>1, <3>3, InSector DEF Base
    <3>8. Base' = Here + 1 /\ Base' \in Nat
      BY <3>3, <3>7, FlashSizes
    <3>9. Written(Base') /\ (mode = "-c" => \A k \in Pages : k >= Base' => chip[k] = Erased)
      BY <3>2, <3>8 DEF StillErased
    <3> QED
      BY <3>6, <3>8, <3>9
  <2>2. CASE phase # "pages"
    <3>1. flash_addr' = 0
      BY <1>1, <2>2 DEF FlashInv, PhaseInv
    <3>2. Base' = 0 /\ flash_addr' \in 0 .. Sectors
      BY <3>1, FlashSizes, Multiples DEF Base
    <3>3. Written(0)
      BY PageFacts DEF Written
    <3>4. mode = "-c" => AllErased
      BY <1>1, <1>3, <2>2 DEF FlashInv, EraseInv
    <3> QED
      BY <3>2, <3>3, <3>4 DEF AllErased
  <2> QED
    BY <2>1, <2>2
<1> QED
  BY <1>2, <1>4

LEMMA FileFailsKeeps == FlashInv /\ FileFails => FlashInv'
<1> SUFFICES ASSUME FlashInv, FileFails PROVE FlashInv'
  OBVIOUS
<1>1. /\ AtSector /\ steps = <<>> /\ steps' = <<>> /\ phase' = "unread" /\ flash_addr' = NextAddr
      /\ UNCHANGED <<argVars, flashVars, refused>> /\ int_off' = int_off /\ clientCalls' = clientCalls
  BY DEF FileFails, AtSector
<1>2. mode' = mode /\ file' = file /\ chip' = chip
  BY <1>1 DEF argVars, flashVars
<1>3. mode \in {"-c", "sectors"} /\ flash_addr' \in 0 .. Sectors /\ Written(Base')
  BY <1>1, <1>2, WrittenToHere
<1>4. FlashTypeOK' /\ StepsInv' /\ FlashReady' /\ CallsDoNotInterfere'
  BY <1>1, <1>3, CallStarts, CallsAre, Counters
<1>5. PhaseInv'
  BY <1>1, <1>2, <1>3 DEF PhaseInv
<1>6. Written(Base)'
  BY <1>2, <1>3 DEF Written, DataOf
<1>7. CallInv' /\ EraseInv' /\ ErasingInv' /\ ProgrammingInv' /\ EndInv'
  BY <1>1, <1>6 DEF CallInv, EraseInv, ErasingInv, ProgrammingInv, EndInv
<1> QED
  BY <1>4, <1>5, <1>7 DEF FlashInv

LEMMA NextSectorKeeps == FlashInv /\ NextSector => FlashInv'
<1> SUFFICES ASSUME FlashInv, NextSector PROVE FlashInv'
  OBVIOUS
<1>1. /\ AtSector /\ steps = <<>> /\ int_off' = 0 /\ flash_addr' = NextAddr
      /\ IF file = 0 THEN phase' = "done" /\ UNCHANGED steps
         ELSE /\ phase' = "pages"
              /\ steps' = IF mode = "-c" THEN <<>> ELSE eraser("SECTOR_ERASE", flash_addr' * SectorPages)
      /\ UNCHANGED <<argVars, flashVars, refused>> /\ clientCalls' = clientCalls
  BY DEF NextSector, AtSector
<1>3. mode' = mode /\ file' = file /\ chip' = chip
  BY <1>1 DEF argVars, flashVars
<1>2. mode \in {"-c", "sectors"}
  BY <1>1, <1>3, WrittenToHere
<1>4. /\ flash_addr' \in 0 .. Sectors /\ Base' \in Nat
      /\ Written(Base')
      /\ mode = "-c" => \A k \in Pages : k >= Base' => chip[k] = Erased
  BY <1>1, <1>3, WrittenToHere
<1>5. file = 0 => phase' = "done" /\ steps' = <<>>
  BY <1>1
<1>6. file # 0 => phase' = "pages" /\ steps' = IF mode = "-c" THEN <<>> ELSE eraser("SECTOR_ERASE", Base')
  BY <1>1 DEF Base
<1>7. Callable(steps')
  BY <1>4, <1>5, <1>6, CallsAre
<1>8. /\ phase' \in {"start", "info", "test", "tested", "erase", "pages", "unread", "done", "failed", "calls", "call"}
      /\ int_off' \in 0 .. SectorPages /\ clientCalls' \in 0 .. MaxClientCalls
  BY <1>1, <1>5, <1>6, Counters, FlashSizes
<1>9. FlashTypeOK' /\ StepsInv' /\ FlashReady' /\ CallsDoNotInterfere'
  BY <1>1, <1>4, <1>7, <1>8, CallStarts
<1>10. PhaseInv'
  BY <1>2, <1>3, <1>5, <1>6 DEF PhaseInv
<1>11. CallInv' /\ EraseInv' /\ EndInv'
  BY <1>3, <1>5, <1>6 DEF CallInv, EraseInv, EndInv
<1>12. ProgrammingInv'
  BY <1>1 DEF ProgrammingInv
<1>13. ErasingInv'
  <2> SUFFICES ASSUME phase' = "pages" PROVE ErasingInv'
    BY DEF ErasingInv
  <2>1. Written(Base)'
    BY <1>3, <1>4 DEF Written, DataOf
  <2>2. CASE mode = "-c"
    <3>1. steps' = <<>>
      BY <1>5, <1>6, <2>2
    <3>2. StillErased(Base)'
      BY <1>3, <1>4, <2>2 DEF StillErased
    <3> QED
      BY <2>1, <3>1, <3>2, NoSteps DEF ErasingInv
  <2>3. CASE mode = "sectors"
    <3>1. steps' = eraser("SECTOR_ERASE", Base')
      BY <1>5, <1>6, <2>3
    <3>2. Entries(steps') = {Do("WRITE_ENABLE"), At("check_addr", Base'), Erase(Base'), WaitBusy}
      BY <1>4, <3>1, EraserList DEF Erase
    <3>3. ToErase' = Erase(Base')
      BY DEF ToErase, Erase, At
    <3> QED
      BY <1>3, <2>1, <2>3, <3>2, <3>3, StepKinds DEF ErasingInv
  <2> QED
    BY <1>2, <2>2, <2>3
<1> QED
  BY <1>9, <1>10, <1>11, <1>12, <1>13 DEF FlashInv

LEMMA NextPageKeeps == FlashInv /\ NextPage => FlashInv'
<1> SUFFICES ASSUME FlashInv, NextPage PROVE FlashInv'
  OBVIOUS
<1>1. /\ steps = <<>> /\ phase = "pages" /\ int_off # SectorPages
      /\ steps' = page_program(Base + int_off, DataOf(Base + int_off))
      /\ int_off' = int_off + 1 /\ phase' = phase /\ flash_addr' = flash_addr /\ clientCalls' = clientCalls
      /\ UNCHANGED <<argVars, flashVars, refused>>
  BY DEF NextPage, in_sector, Base, DataOf
<1>2. mode \in {"-c", "sectors"} /\ Entries(steps) = {} /\ mode' = mode /\ file' = file /\ chip' = chip
  BY <1>1, NoSteps DEF FlashInv, PhaseInv, FlashTypeOK, argVars, flashVars
<1>3. /\ Base \in Nat /\ int_off \in Nat /\ int_off < SectorPages /\ int_off' \in 0 .. SectorPages /\ int_off' > 0
      /\ Base' = Base /\ Here' = Base + int_off /\ Here' \in Nat
  <2>1. Base \in Nat /\ int_off \in Nat /\ int_off < SectorPages
    BY <1>1, WhereItIs, FlashSizes
  <2>2. int_off' \in 0 .. SectorPages /\ int_off' > 0
    BY <1>1, <2>1, FlashSizes
  <2>3. Base' = Base
    BY <1>1 DEF Base
  <2>4. Here' = Base + int_off
    BY <1>1, <2>1, <2>3 DEF Here
  <2> QED
    BY <2>1, <2>2, <2>3, <2>4
<1>4. Written(Here') /\ StillErased(Here')
  <2>1. CASE int_off = 0
    <3>1. Here' = Base
      BY <1>3, <2>1
    <3> QED
      BY <1>1, <1>2, <2>1, <3>1 DEF FlashInv, ErasingInv
  <2>2. CASE int_off > 0
    <3>1. Here = Base + int_off - 1
      BY DEF Here
    <3>2. Here' = Here + 1
      BY <1>3, <3>1
    <3> QED
      BY <1>1, <1>2, <2>2, <3>2 DEF FlashInv, ProgrammingInv
  <2> QED
    BY <1>3, <2>1, <2>2
<1>5. steps' = page_program(Here', DataOf(Here')) /\ ToProgram' = Program(Here', DataOf(Here'))
  BY <1>1, <1>2, <1>3 DEF ToProgram, DataOf, Program
<1>6. DataOf(Here') \in Datas /\ (Here' \in Pages => DataOf(Here') \in Contents)
  BY <1>3, DataFacts DEF DataOf
<1>7. Callable(steps') /\ Entries(steps') = {At("check", Here'), WaitBusy, Do("WRITE_ENABLE"), ToProgram'}
  BY <1>3, <1>5, <1>6, CallsAre, PageProgramList
<1>8. FlashTypeOK' /\ StepsInv' /\ FlashReady' /\ CallsDoNotInterfere'
  BY <1>1, <1>3, <1>7, Counters, CallStarts
<1>9. PhaseInv'
  BY <1>1, <1>2 DEF PhaseInv
<1>10. CallInv' /\ EraseInv' /\ EndInv' /\ ErasingInv'
  BY <1>1, <1>3 DEF CallInv, EraseInv, EndInv, ErasingInv
<1>11. ProgrammingInv'
  <2>1. Written(Here)' /\ StillErased(Here)'
    BY <1>2, <1>3, <1>4 DEF Written, StillErased, DataOf
  <2> QED
    BY <1>7, <2>1, StepKinds DEF ProgrammingInv
<1> QED
  BY <1>8, <1>9, <1>10, <1>11 DEF FlashInv

(* A client's call is not done when it is made.                             *)
LEMMA ClientCallKeeps == FlashInv /\ ClientCall => FlashInv'
<1> SUFFICES ASSUME FlashInv, ClientCall PROVE FlashInv'
  OBVIOUS
<1>1. /\ mode = "calls" /\ steps = <<>> /\ clientCalls < MaxClientCalls /\ clientCalls' = clientCalls + 1
      /\ phase' = "call" /\ flash_addr' = flash_addr /\ int_off' = int_off
      /\ UNCHANGED <<argVars, flashVars, refused>>
  BY DEF ClientCall
<1> DEFINE d == << "call", clientCalls' >>
<1>2. clientCalls' \in 1 .. MaxClientCalls
  BY <1>1, Counters, FlashSizes
<1>3. d \in Contents /\ d \in Datas
  BY <1>2, DataFacts
<1> HIDE DEF d
<1>4. PICK a \in Pages \cup {Sectors * SectorPages} :
        \/ last' = [cmd |-> "page", a |-> a, d |-> d] /\ steps' = page_program(a, d)
        \/ last' = [cmd |-> "sector", a |-> a, d |-> d] /\ steps' = eraser("SECTOR_ERASE", a)
        \/ last' = [cmd |-> "block", a |-> a, d |-> d] /\ steps' = eraser("BLOCK_ERASE", a)
        \/ last' = [cmd |-> "chip", a |-> a, d |-> d] /\ steps' = chip_erase
        \/ last' = [cmd |-> "other", a |-> a, d |-> d]
             /\ steps' \in {read_data(a), write_enable, write_disable, write_sreg}
  BY DEF ClientCall, d
<1>5. a \in Nat /\ last'.a = a /\ last'.d = d
  BY <1>4, PageFacts
<1>6. Callable(steps')
  BY <1>3, <1>4, <1>5, CallsAre
<1>7. FlashTypeOK' /\ StepsInv' /\ FlashReady' /\ CallsDoNotInterfere' /\ mode' = mode
  <2>1. clientCalls' \in 0 .. MaxClientCalls
    BY <1>2
  <2> QED
    BY <1>1, <1>6, <2>1, Counters, CallStarts
<1>8. PhaseInv'
  BY <1>1, <1>7 DEF PhaseInv
<1>9. EraseInv' /\ ErasingInv' /\ ProgrammingInv' /\ EndInv'
  BY <1>1 DEF EraseInv, ErasingInv, ProgrammingInv, EndInv
<1>10. CallInv'
  <2>1. CASE last' = [cmd |-> "page", a |-> a, d |-> d] /\ steps' = page_program(a, d)
    <3>1. last'.cmd = "page" /\ Entries(steps') = {At("check", a), WaitBusy, Do("WRITE_ENABLE"), Program(a, d)}
      BY <1>3, <1>5, <2>1, PageProgramList
    <3> QED
      BY <1>3, <1>5, <3>1, StepKinds DEF CallInv
  <2>2. CASE last' = [cmd |-> "sector", a |-> a, d |-> d] /\ steps' = eraser("SECTOR_ERASE", a)
    <3>1. Entries(eraser("SECTOR_ERASE", a)) = {Do("WRITE_ENABLE"), At("check_addr", a), Erase(a), WaitBusy}
      BY <1>5, EraserList DEF Erase
    <3>2. last'.cmd = "sector" /\ Entries(steps') = {Do("WRITE_ENABLE"), At("check_addr", a), Erase(a), WaitBusy}
      BY <2>2, <3>1
    <3>3. \A c \in Entries(steps') : c.cmd \in NeedsWel => c = Erase(a)
      BY <3>2, StepKinds
    <3> QED
      BY <1>3, <1>5, <3>2, <3>3 DEF CallInv
  <2>3. CASE last' = [cmd |-> "block", a |-> a, d |-> d] /\ steps' = eraser("BLOCK_ERASE", a)
    <3>2. Entries(eraser("BLOCK_ERASE", a)) = {Do("WRITE_ENABLE"), At("check_addr", a), At("BLOCK_ERASE", a), WaitBusy}
      BY <1>5, EraserList
    <3>1. last'.cmd = "block" /\ Entries(steps') = {Do("WRITE_ENABLE"), At("check_addr", a), At("BLOCK_ERASE", a), WaitBusy}
      BY <2>3, <3>2
    <3> QED
      BY <1>3, <1>5, <3>1, StepKinds DEF CallInv
  <2>4. CASE last' = [cmd |-> "chip", a |-> a, d |-> d] /\ steps' = chip_erase
    <3>1. last'.cmd = "chip" /\ Entries(steps') = {WaitBusy, Do("WRITE_ENABLE"), Do("CHIP_ERASE")}
      BY <2>4, ChipEraseList
    <3> QED
      BY <1>3, <1>5, <3>1, StepKinds DEF CallInv
  <2>5. CASE last' = [cmd |-> "other", a |-> a, d |-> d]
               /\ steps' \in {read_data(a), write_enable, write_disable, write_sreg}
    <3>1. last'.cmd = "other"
      BY <2>5
    <3>2. \A s \in {read_data(a), write_enable, write_disable, write_sreg} : \A c \in Entries(s) : Plain(c)
      BY <1>5, OtherLists
    <3>3. \A c \in Entries(steps') : c.cmd \notin NeedsWel
      BY <2>5, <3>2 DEF Plain
    <3> QED
      BY <1>3, <1>5, <3>1, <3>3 DEF CallInv
  <2> QED
    BY <1>4, <2>1, <2>2, <2>3, <2>4, <2>5
<1> QED
  BY <1>7, <1>8, <1>9, <1>10 DEF FlashInv

-----------------------------------------------------------------------------
LEMMA FlashStepKeeps == FlashInv /\ [FlashNext]_allFlashVars => FlashInv'
<1> SUFFICES ASSUME FlashInv, [FlashNext]_allFlashVars PROVE FlashInv'
  OBVIOUS
<1>1. CASE Check \/ Wait \/ Transfer \/ Alarm
  BY <1>1, CheckKeeps, WaitKeeps, TransferKeeps, AlarmKeeps
<1>2. CASE Info \/ TestMemory \/ ChipErase \/ Return
  BY <1>2, InfoKeeps, TestMemoryKeeps, ChipEraseKeeps, ReturnKeeps
<1>3. CASE NextSector \/ FileFails \/ NextPage \/ ClientCall
  BY <1>3, NextSectorKeeps, FileFailsKeeps, NextPageKeeps, ClientCallKeeps
<1>4. CASE UNCHANGED allFlashVars
  <2>1. /\ mode' = mode /\ file' = file /\ BUSY' = BUSY /\ WEL' = WEL /\ chip' = chip /\ phase' = phase /\ steps' = steps
        /\ last' = last /\ refused' = refused /\ flash_addr' = flash_addr /\ int_off' = int_off /\ clientCalls' = clientCalls
    BY <1>4 DEF allFlashVars, argVars, flashVars
  <2>2. Unmoved
    BY <2>1 DEF Unmoved, argVars
  <2> USE <2>1, <2>2, UnmovedFacts DEF FlashInv
  <2>3. FlashTypeOK'
    BY DEF FlashTypeOK
  <2>4. StepsInv' /\ FlashReady' /\ PhaseInv' /\ CallsDoNotInterfere'
    BY DEF StepsInv, FlashReady, PhaseInv, CallsDoNotInterfere
  <2>5. CallInv' /\ EraseInv' /\ EndInv'
    BY DEF CallInv, EraseInv, EndInv, SectorErased, AllErased, Written
  <2>6. ErasingInv' /\ ProgrammingInv'
    BY DEF ErasingInv, ProgrammingInv, Written, StillErased
  <2> QED
    BY <2>3, <2>4, <2>5, <2>6
<1> QED
  BY <1>1, <1>2, <1>3, <1>4 DEF FlashNext, Process

(* FlashInv is an inductive invariant of the flash and whoever programs it.  *)
THEOREM FlashInvariance == FlashSpec => []FlashInv
<1> QED
  BY FlashInitHolds, FlashStepKeeps, PTL DEF FlashSpec

LEMMA FileIsThere == FlashInv => FileWritten
<1> SUFFICES ASSUME FlashInv, phase \in {"pages", "unread", "done", "failed"}, mode # "-i",
                    NEW k \in Pages, k < file, k < PagesRead
             PROVE  chip[k] = OfFile(k)
  BY DEF FileWritten
<1>1. DataOf(k) = OfFile(k) /\ k \in Nat
  BY PageFacts DEF DataOf
<1>2. CASE phase = "pages"
  <2>1. k < Base
    BY <1>2 DEF PagesRead, Base
  <2>2. CASE int_off = 0
    BY <1>1, <1>2, <2>1, <2>2 DEF FlashInv, ErasingInv, Written
  <2>3. CASE int_off > 0
    <3>1. k < Here /\ k < Here + 1
      BY <1>1, <2>1, <2>3, WhereItIs
    <3> QED
      BY <1>1, <1>2, <2>3, <3>1 DEF FlashInv, ProgrammingInv, Written
  <2> QED
    BY <2>2, <2>3, WhereItIs
<1>3. CASE phase = "unread"
  <2>1. k < Base
    BY <1>3 DEF PagesRead, Base
  <2> QED
    BY <1>1, <1>3, <2>1 DEF FlashInv, EndInv, Written
<1>4. CASE phase = "failed"
  BY <1>1, <1>4 DEF FlashInv, EndInv
<1>5. CASE phase = "done"
  <2>1. file = 0
    BY <1>5 DEF FlashInv, EndInv
  <2> QED
    BY <1>1, <2>1
<1> QED
  BY <1>2, <1>3, <1>4, <1>5

LEMMA SuccessIsDone == FlashInv => CallsWork
<1> SUFFICES ASSUME FlashInv PROVE CallsWork
  OBVIOUS
<1>1. ASSUME phase = "call", steps = <<>>
      PROVE  /\ ~BUSY
             /\ last.cmd = "page" => chip[last.a] = last.d
             /\ last.cmd = "sector" => \A p \in PagesOf(SectorOf(last.a)) : chip[p] = Erased
             /\ last.cmd = "chip" => \A p \in Pages : chip[p] = Erased
  <2>1. ~BUSY /\ Entries(steps) = {} /\ CallInv
    BY <1>1, NoSteps DEF FlashInv, FlashReady
  <2>2. last.cmd = "page" => chip[last.a] = last.d
    BY <1>1, <2>1 DEF CallInv
  <2>3. last.cmd = "chip" => \A p \in Pages : chip[p] = Erased
    BY <1>1, <2>1 DEF CallInv, AllErased
  <2>4. ASSUME last.cmd = "sector" PROVE \A p \in PagesOf(SectorOf(last.a)) : chip[p] = Erased
    <3>1. last.a \in Nat /\ SectorOf(last.a) < Sectors /\ SectorErased(SectorOf(last.a))
      BY <1>1, <2>1, <2>4 DEF CallInv
    <3>2. PagesOf(SectorOf(last.a)) \subseteq Pages
      BY <3>1, PageFacts, InSector
    <3> QED
      BY <3>1, <3>2 DEF SectorErased
  <2> QED
    BY <2>1, <2>2, <2>3, <2>4
<1>2. SuccessMeansDone
  BY <1>1 DEF SuccessMeansDone
<1> QED
  BY <1>2 DEF CallsWork, FlashInv

(***************************************************************************)
(* What prog_flash_from_file has written of the file stays in the flash,     *)
(* whatever the size of the file, of a sector and of the flash: no erase and *)
(* no program it goes on to make destroys it.  When the program ends at the  *)
(* end of the flash that is the file as far as the flash reaches; when an    *)
(* operation on the file fails it is what was read before.                   *)
(***************************************************************************)
THEOREM FlashHoldsTheFile == FlashSpec => []FileWritten
<1> QED
  BY FlashInvariance, FileIsThere, PTL

(***************************************************************************)
(* Whatever calls of spi.h a client makes, in whatever order: none fails     *)
(* because of what another has left behind, and one that returns success     *)
(* has done what it says.                                                    *)
(***************************************************************************)
THEOREM FlashCallsWork == FlashSpec => []CallsWork
<1> QED
  BY FlashInvariance, SuccessIsDone, PTL

=============================================================================
