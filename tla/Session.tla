------------------------------ MODULE Session ------------------------------
(***************************************************************************)
(* One start of confrd on a card (main, parse_team_dir): the directories of *)
(* the teams one after the other, each with its team.cfg, its result on the *)
(* server, its chip selected in the tester and its vector files; and what    *)
(* confrd says of errors, on the screen, the LCD and the server (log.c), on  *)
(* a network that may fail at any request (http_json.c).  Confrd is what      *)
(* happens within one file; here a file is parsed or not, run and uploaded   *)
(* or not.                                                                  *)
(***************************************************************************)
EXTENDS Integers, Sequences

CONSTANTS
  Cfgs,      \* contents of team.cfg: sequences of lines
  Designs,   \* DESIGN_NUMBER_MASK + 1 (32)
  MaxTeams,  \* directories on the card (bound of the model)
  MaxFiles   \* vector files in a directory (bound of the model)

Lines == [key : {"team"}, no : Int] \cup [key : {"bad_team", "base_url", "email", "bad"}]

ASSUME SessionAssumption ==
  /\ Cfgs \subseteq Seq(Lines) /\ Designs \in Nat \ {0}
  /\ {MaxTeams, MaxFiles} \subseteq Nat

VARIABLES
  wflag,         \* the option -w: there is a tester to run and a server
  pc,            \* what confrd is at
  team, cfg,     \* the directory (0 before the first), the lines of its team.cfg left
  number,        \* history: the number its team.cfg gives to the team
  files,         \* vector files of it that were opened
  gd,            \* globaldata: team_no, base_url, result_id
  base_url,      \* the pointer vlog uses: NULL, or whose base_url it points to
  active, log,   \* vlog: its guard; what confrd does after it
  result,        \* what the last request came to
  target,        \* the chip the tester has selected
  tested         \* history: the runs of vector files

sessionVars == <<wflag, pc, team, number, cfg, files, gd, base_url, active, log, result, target, tested>>

data  == <<wflag, team, number, cfg, files, gd, base_url, target, tested>>
quiet == <<active, log, result>>

NULL == 0

-----------------------------------------------------------------------------
(* log.c and http_json.c                                                    *)

(* logger, after which confrd is at "then".                                *)
Logger(then) ==
  /\ pc' = "vlog" /\ log' = then
  /\ UNCHANGED <<active, result>>

(* Mutant: nothing keeps vlog from calling itself.                          *)
recursive_Allowed == FALSE

(* "Don't allow vlog recursion"                                             *)
recursive == active

VlogReturns ==
  /\ pc = "vlog" /\ recursive
  /\ pc' = "log_sent"
  /\ UNCHANGED <<data, quiet>>

(* The message is on the screen, and an error on the LCD.                   *)
VlogLocal ==
  /\ pc = "vlog" /\ ~recursive /\ (~wflag \/ base_url = NULL)
  /\ pc' = log
  /\ UNCHANGED <<data, quiet>>

VlogRemote ==
  /\ pc = "vlog" /\ ~recursive /\ wflag /\ base_url # NULL
  /\ active' = TRUE
  /\ pc' = "log_sending"
  /\ UNCHANGED <<data, log, result>>

(* req_json of the message: it is received, or refused, or, when the        *)
(* network fails, req wants to log that.                                    *)
LogRequest ==
  /\ pc = "log_sending"
  /\ pc' \in {"log_sent", "vlog"}
  /\ UNCHANGED <<data, quiet>>

VlogDone ==
  /\ pc = "log_sent"
  /\ active' = FALSE
  /\ pc' = log
  /\ UNCHANGED <<data, log, result>>

(* req: the request of "pc" fails in the network, which is logged, or gets  *)
(* an answer other than 200 or no JSON, which is not, or is answered.  *)
Outcomes == {"ok", "http", "net"}

Request(then) ==
  /\ result' \in Outcomes
  /\ IF result' = "net"
     THEN /\ pc' = "vlog" /\ log' = then
     ELSE pc' = then /\ UNCHANGED log
  /\ UNCHANGED active

-----------------------------------------------------------------------------
(* main                                                                     *)

(* The SRAM, the directory or the network library may not be had.           *)
Start ==
  /\ pc = "start"
  /\ pc' \in {"teams", "exit"}
  /\ UNCHANGED <<data, quiet>>

NoResult == [dir |-> 0, team_no |-> -1]

cleared == [team_no |-> -1, base_url |-> NULL, result_id |-> NoResult]

(* parse_team_dir begins; its team.cfg may not be had.                      *)
NextTeam ==
  /\ pc = "teams" /\ team < MaxTeams
  /\ team' = team + 1 /\ number' = -1 /\ cfg' \in Cfgs /\ files' = 0
  /\ gd' = cleared
  /\ \/ pc' = "cfg" /\ UNCHANGED quiet
     \/ Logger("bad_cfg")
  /\ UNCHANGED <<wflag, base_url, target, tested>>

(* Only LOGWARN "as we'll already have a LOGERR from elsewhere".            *)
TeamFailed ==
  /\ pc = "failed"
  /\ Logger("teams")
  /\ UNCHANGED data

Finish ==
  /\ pc = "teams" /\ team = MaxTeams
  /\ pc' = "exit"
  /\ UNCHANGED <<data, quiet>>

-----------------------------------------------------------------------------
(* parser_cfg.c                                                             *)

(* parse_line_team: the chips of the tester are fewer than the numbers.     *)
DesignOf(n) == n % Designs

(* (What a line in error leaves in team_no is never read.)                  *)
ParseLine ==
  /\ pc = "cfg" /\ cfg # <<>>
  /\ cfg' = Tail(cfg)
  /\ LET line == Head(cfg)
     IN  /\ number' = IF line.key = "team" THEN line.no ELSE number
         /\ gd' = CASE line.key = "team"     -> [gd EXCEPT !.team_no = DesignOf(line.no)]
                    [] line.key = "base_url" -> [gd EXCEPT !.base_url = team]
                    [] OTHER                 -> gd
         /\ IF line.key \in {"bad_team", "bad"} THEN Logger("bad_cfg")
            ELSE UNCHANGED <<pc, quiet>>
  /\ UNCHANGED <<wflag, team, files, base_url, target, tested>>

EndOfCfg ==
  /\ pc = "cfg" /\ cfg = <<>>
  /\ IF gd.team_no < 0 THEN Logger("bad_cfg") ELSE pc' = "check" /\ UNCHANGED quiet
  /\ UNCHANGED data

BadCfg ==
  /\ pc = "bad_cfg"
  /\ Logger("failed")
  /\ UNCHANGED data

-----------------------------------------------------------------------------
(* parse_team_dir                                                           *)

(* The error is logged before base_url is set.                              *)
CheckUrl ==
  /\ pc = "check"
  /\ IF gd.base_url = NULL /\ wflag THEN Logger("url_missing")
     ELSE pc' = "url" /\ UNCHANGED quiet
  /\ UNCHANGED data

SetUrl ==
  /\ pc \in {"url", "url_missing"}
  /\ base_url' = gd.base_url
  /\ pc' = IF pc = "url_missing" THEN "failed" ELSE IF wflag THEN "init_remote" ELSE "go"
  /\ UNCHANGED <<wflag, team, number, cfg, files, gd, target, tested, quiet>>

(* init_remote: a result of the team is created at its server, ...          *)
InitRemote ==
  /\ pc = "init_remote"
  /\ Request("init_done")
  /\ UNCHANGED data

(* ... whose answer may not be understood or be no id.                      *)
InitDone ==
  /\ pc = "init_done"
  /\ IF result # "ok" THEN pc' = "failed" /\ UNCHANGED <<quiet, gd>>
     ELSE \/ Logger("failed") /\ UNCHANGED gd
          \/ /\ pc' = "go" /\ UNCHANGED quiet
             /\ gd' = [gd EXCEPT !.result_id = [dir |-> team, team_no |-> gd.team_no]]
  /\ UNCHANGED <<wflag, team, number, cfg, files, base_url, target, tested>>

(* Mutant: a tester that could not be run is not noticed.                   *)
GoFailed_Ignored == "files"

GoFailed == "failed"

(* go(&pi, 0): the program that selects the chip of the team is run.        *)
GoTarget ==
  /\ pc = "go"
  /\ \/ /\ pc' = "files"
        /\ target' = IF wflag THEN gd.team_no ELSE target
     \/ wflag /\ pc' = GoFailed /\ target' \in {target, gd.team_no}
  /\ UNCHANGED <<wflag, team, number, cfg, files, gd, base_url, tested, quiet>>

OpenDirFails ==
  /\ pc = "files" /\ files = 0
  /\ pc' = "failed"
  /\ UNCHANGED <<data, quiet>>

NextFile ==
  /\ pc = "files" /\ files < MaxFiles
  /\ files' = files + 1
  /\ Logger("parse")
  /\ UNCHANGED <<wflag, team, number, cfg, gd, base_url, target, tested>>

(* A file that is in error is given up, not the directory.                  *)
ParseFile ==
  /\ pc = "parse"
  /\ \/ Logger("bad_file")                   \* it cannot be opened, or a syntax error
     \/ pc' = "bad_file" /\ UNCHANGED quiet  \* suspend_emit or emit_end failed
     \/ pc' = "run" /\ UNCHANGED quiet
  /\ UNCHANGED data

BadFile ==
  /\ pc = "bad_file"
  /\ Logger("files")
  /\ UNCHANGED data

(* go(&pi, 1), with the batches before it: when the tester cannot be run the  *)
(* directory is given up.                                                   *)
RunFile ==
  /\ pc = "run"
  /\ \/ wflag /\ pc' = "upload"
        /\ tested' = tested \cup {[team |-> team, number |-> number, chip |-> target,
                                   result |-> gd.result_id, server |-> gd.base_url]}
     \/ wflag /\ pc' = "failed" /\ UNCHANGED tested
     \/ ~wflag /\ pc' = "files" /\ UNCHANGED tested
  /\ UNCHANGED <<wflag, team, number, cfg, files, gd, base_url, target, quiet>>

(* process_sram_results, whose failure run_trunner ignores.                 *)
UploadResults ==
  /\ pc = "upload"
  /\ Request("uploaded")
  /\ UNCHANGED data

Uploaded ==
  /\ pc = "uploaded"
  /\ IF result = "ok" THEN pc' = "files" /\ UNCHANGED quiet ELSE Logger("files")
  /\ UNCHANGED data

(* The strings are freed; the base_url of vlog still points to one of them   *)
(* until the next directory's is set.                                       *)
EndOfDir ==
  /\ pc = "files"
  /\ pc' = "teams"
  /\ UNCHANGED <<wflag, team, number, cfg, files, gd, base_url, target, tested, quiet>>

Stopped == pc = "exit" /\ UNCHANGED sessionVars

SessionInit ==
  /\ wflag \in BOOLEAN
  /\ pc = "start" /\ team = 0 /\ number = -1 /\ cfg = <<>> /\ files = 0
  /\ gd = cleared /\ base_url = NULL
  /\ active = FALSE /\ log = "start"
  /\ result = "ok" /\ target = 0 /\ tested = {}

SessionNext ==
  \/ Start \/ NextTeam \/ TeamFailed \/ Finish
  \/ VlogReturns \/ VlogLocal \/ VlogRemote \/ LogRequest \/ VlogDone
  \/ ParseLine \/ EndOfCfg \/ BadCfg
  \/ CheckUrl \/ SetUrl \/ InitRemote \/ InitDone \/ GoTarget
  \/ OpenDirFails \/ NextFile \/ ParseFile \/ BadFile \/ RunFile
  \/ UploadResults \/ Uploaded \/ EndOfDir
  \/ Stopped

SessionSpec == SessionInit /\ [][SessionNext]_sessionVars

(* confrd is one process and goes on.                                       *)
FairSessionSpec == SessionSpec /\ WF_sessionVars(SessionNext)

-----------------------------------------------------------------------------
(***************************************************************************)
(* Vectors run only with their directory's result on its server to go to,   *)
(* and on the chip of the team that result is of, whatever was left by the  *)
(* directory before and whichever step of this one failed: a directory      *)
(* whose chip could not be selected, or whose result could not be created,  *)
(* is not tested (parse_team_dir).  The chip is that of the number in       *)
(* team.cfg if there is a chip of that number; any other number is taken    *)
(* for that of another team, and saved as it, where the documentation       *)
(* (embedded_sw.tex:457) has the team number saved (parse_line_team).       *)
(***************************************************************************)
OwnTeam ==
  \A t \in tested :
    /\ t.result.dir = t.team /\ t.server = t.team
    /\ t.chip = t.result.team_no
    /\ t.number \in 0 .. Designs - 1 => t.chip = t.number

(* confrd comes to the end of the card however the network fails: an error    *)
(* that cannot be sent to the server does not log itself for ever (vlog).     *)
SessionEnds == <>(pc = "exit")
=============================================================================
