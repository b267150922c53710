------------------------------- MODULE Confrd -------------------------------
(***************************************************************************)
(* confrd between the vector files and the tester: the lines of a file      *)
(* become records in a staging area; when it is full, before a measurement  *)
(* or another design, and at the end of the file, the batch is written to   *)
(* the SRAM and run, and what the tester has written back is read in chunks *)
(* and uploaded.  A line that did not fit is parsed again.                  *)
(*                                                                          *)
(* The SRAM is counted in bytes, as in the code, and held in cells of six   *)
(* bytes: every record is one cell, a test vector two.  A line is its kind; *)
(* `pindef' stands for clock and trigger too, which stage a record of the   *)
(* same size; `frequency' stages nothing and is left out.                   *)
(***************************************************************************)
EXTENDS Integers, Sequences, SequencesExt

CONSTANTS
  SRAM_SIZE,  \* bytes of SRAM (2 MiB in the code)
  ChunkSize,  \* bytes read back at a time (256 in the code)
  Files,      \* vector files: sequences of lines
  MaxFiles    \* files in the directory (bound of the model)

Kinds == {"vector", "pindef", "design", "measure", "bad"}

(* The remainder is that of 2 MiB.                                          *)
ASSUME ConfrdAssumption ==
  /\ SRAM_SIZE \in Nat /\ SRAM_SIZE % 12 = 8 /\ SRAM_SIZE >= 32
  /\ ChunkSize \in Nat /\ ChunkSize % 12 = 4 /\ ChunkSize >= 16
  /\ Files \subseteq Seq(Kinds)
  /\ MaxFiles \in Nat

VARIABLES
  pc,      \* what confrd is at
  resume,  \* what called go: "team", "line", "design", "measure" or "file"
  file,    \* the lines of the file
  files,   \* files opened
  lineno,  \* the line parsed next
  pi,      \* parserinfo
  sram,    \* its cells
  rd,      \* process_sram_results: off + position in the chunk, sz, i
  ran,     \* history: the records of this file the tester has run
  batches, \* history: the batches of this file (2: or more)
  failed,  \* history: a request to the server has failed in this file
  uploaded \* history: the results of this file that were uploaded

vars == <<pc, resume, file, files, lineno, pi, sram, rd, ran, batches, failed,
          uploaded>>

CellSize == 6
Cells == 0 .. SRAM_SIZE \div CellSize - 1

req_sz(req) == IF req = "TEST_VECTOR" THEN 2 * CellSize ELSE CellSize

Cell(req, line) == [req |-> req, line |-> line, run |-> FALSE]

Record(req, line) ==
  IF req = "TEST_VECTOR" THEN <<Cell(req, line), Cell("REST", line)>>
                         ELSE <<Cell(req, line)>>

-----------------------------------------------------------------------------
(* Staging. *)

(* stage_alloc_chunk: room for the record and for END behind it.            *)
Fits(req) == pi.free >= req_sz(req) + req_sz("END")

Staged(p, req, line) ==
  [p EXCEPT !.stage = @ \o Record(req, line), !.free = @ - req_sz(req)]

init_parserinfo ==
  [stage |-> <<>>, free |-> SRAM_SIZE, seen_vectors |-> FALSE, output |-> <<>>,
   design |-> 0, design_result_id |-> 0]

(* suspend_emit up to go: what emit_end says is ignored.                    *)
suspend_emit(why) ==
  /\ pc' = "load" /\ resume' = why
  /\ pi' = IF Fits("END") THEN Staged(pi, "END", lineno) ELSE pi

noParse == <<file, files, sram, rd, ran, batches, failed, uploaded>>

AtLine(kinds) == pc = "parse" /\ lineno <= Len(file) /\ file[lineno] \in kinds

(* A parser that stages one record, or is called again after suspend_emit.  *)
Stage(req) ==
  IF Fits(req) THEN pi' = Staged(pi, req, lineno) /\ UNCHANGED <<pc, resume>>
               ELSE suspend_emit("line")

(* parse_line_vectors, for its first line: reconfigure the PLL.             *)
PreVectors ==
  /\ AtLine({"vector", "measure"}) /\ ~pi.seen_vectors
  /\ IF Fits("PLLRECONFIG")
     THEN /\ pi' = [Staged(pi, "PLLRECONFIG", lineno) EXCEPT !.seen_vectors = TRUE]
          /\ UNCHANGED <<pc, resume>>
     ELSE suspend_emit("line")
  /\ UNCHANGED <<noParse, lineno>>

(* Bytes of pi->output, of which a vector takes three.                      *)
OutputSize == (3 * SRAM_SIZE) \div 12

OutputFits == 3 * (Len(pi.output) + 1) <= OutputSize

(* parse_line_vectors: the expectations of all the file are kept, and no    *)
(* batch takes any away.  Beyond the end of output they go over what lies   *)
(* behind it, output_idx to begin with: confrd goes astray, and nothing is  *)
(* known of it from then on.                                                *)
ParseVector ==
  /\ AtLine({"vector"}) /\ pi.seen_vectors
  /\ \/ /\ Fits("TEST_VECTOR") /\ OutputFits
        /\ pi' = [Staged(pi, "TEST_VECTOR", lineno) EXCEPT !.output = Append(@, lineno)]
        /\ lineno' = lineno + 1
        /\ UNCHANGED <<pc, resume>>
     \/ /\ Fits("TEST_VECTOR") /\ ~OutputFits
        /\ pc' = "astray"
        /\ UNCHANGED <<pi, lineno, resume>>
     \/ /\ ~Fits("TEST_VECTOR")
        /\ suspend_emit("line")
        /\ UNCHANGED lineno
  /\ UNCHANGED noParse

ParsePindef ==
  /\ AtLine({"pindef"})
  /\ Stage("SETUP_BITMASK")
  /\ lineno' = IF Fits("SETUP_BITMASK") THEN lineno + 1 ELSE lineno
  /\ UNCHANGED noParse

(* The tests staged so far belong to the design before this one. *)
ParseDesign ==
  /\ AtLine({"design"})
  /\ IF pi.design = 0
     THEN /\ pi' = [pi EXCEPT !.design = lineno]
          /\ lineno' = lineno + 1
          /\ UNCHANGED <<pc, resume>>
     ELSE suspend_emit("design") /\ UNCHANGED lineno
  /\ UNCHANGED noParse

ParseMeasure ==
  /\ AtLine({"measure"}) /\ pi.seen_vectors
  /\ suspend_emit("measure")
  /\ UNCHANGED <<noParse, lineno>>

(* A syntax error: the rest of the file, and what is staged, is given up.   *)
ParseBad ==
  /\ AtLine({"bad"})
  /\ pc' = "files"
  /\ UNCHANGED <<noParse, pi, resume, lineno>>

(* parse_vec_file at the end of the file: here an END that does not fit     *)
(* makes the file fail.                                                     *)
EndOfFile ==
  /\ pc = "parse" /\ lineno > Len(file)
  /\ IF Fits("END")
     THEN pi' = Staged(pi, "END", lineno) /\ pc' = "load" /\ resume' = "file"
     ELSE pc' = "files" /\ UNCHANGED <<pi, resume>>
  /\ UNCHANGED <<noParse, lineno>>

Parse ==
  \/ PreVectors \/ ParseVector \/ ParsePindef \/ ParseDesign \/ ParseMeasure
  \/ ParseBad \/ EndOfFile

-----------------------------------------------------------------------------
(* Running a batch.                                                         *)

(* go: write what is staged over the beginning of the SRAM.                 *)
Load ==
  /\ pc = "load"
  /\ sram' = [c \in Cells |-> IF c < Len(pi.stage) THEN pi.stage[c + 1] ELSE sram[c]]
  /\ pc' = "run"
  /\ UNCHANGED <<resume, file, files, lineno, pi, rd, ran, batches, failed, uploaded>>

HasEnd == pi.stage # <<>> /\ Last(pi.stage).req = "END"

(* What is staged but for END, which is always the last.                    *)
Program == IF HasEnd THEN Front(pi.stage) ELSE pi.stage

(* run_trunner: the tester runs the program up to END and writes into each  *)
(* vector that it has run.  Without END it goes astray, into what nobody    *)
(* has ever written, and nothing is known of it from then on.               *)
Run ==
  /\ pc = "run"
  /\ IF HasEnd
     THEN /\ sram' = [c \in Cells |-> [sram[c] EXCEPT !.run = @ \/ c < Len(pi.stage)]]
          /\ pc' = IF resume = "team" THEN "files" ELSE "upload"
          /\ ran' = IF resume = "team" THEN ran ELSE ran \o Program
     ELSE pc' = "astray" /\ UNCHANGED <<sram, ran>>
  /\ batches' = IF batches < 2 THEN batches + 1 ELSE 2
  /\ rd' = [pos |-> 0, sz |-> 0, i |-> 1]
  /\ UNCHANGED <<resume, file, files, lineno, pi, failed, uploaded>>

(* The driver refuses: the file is given up, or the whole directory.        *)
RunFails ==
  /\ pc = "run"
  /\ pc' = IF resume \in {"team", "file"} THEN "exit" ELSE "files"
  /\ UNCHANGED <<resume, file, files, lineno, pi, sram, rd, ran, batches, failed,
                 uploaded>>

-----------------------------------------------------------------------------
(* Uploading the results.                                                   *)

(* Back from go: the batch is forgotten, its expectations are not.  The     *)
(* measurement may fail, and then the file is given up.                     *)
(* Mutants: the measurement is parsed again, another line is not.           *)
Return_MeasureAgain ==
  /\ pc' = IF resume = "file" THEN "files" ELSE "parse"
  /\ lineno' = IF resume = "design" THEN lineno + 1 ELSE lineno
  /\ pi' = [pi EXCEPT !.stage = <<>>, !.free = SRAM_SIZE,
                      !.design = IF resume = "design" THEN lineno ELSE @]

Return_NextLine ==
  /\ pc' = IF resume = "file" THEN "files" ELSE "parse"
  /\ lineno' = IF resume = "file" THEN lineno ELSE lineno + 1
  /\ pi' = [pi EXCEPT !.stage = <<>>, !.free = SRAM_SIZE,
                      !.design = IF resume = "design" THEN lineno ELSE @]

Return ==
  /\ pc' \in CASE resume = "file"    -> {"files"}
              [] resume = "measure" -> {"parse", "files"}
              [] OTHER              -> {"parse"}
  /\ lineno' = IF resume \in {"design", "measure"} THEN lineno + 1 ELSE lineno
  /\ pi' = IF resume = "file" THEN pi
           ELSE [pi EXCEPT !.stage = <<>>, !.free = SRAM_SIZE,
                           !.design = IF resume = "design" THEN lineno ELSE @]

noUpload == <<resume, file, files, sram, ran, batches>>

(* DesignResult, created once: an id is 1 + the design it was created for.  *)
CreateDesign ==
  /\ pc = "upload" /\ pi.design_result_id = 0
  /\ pi' = [pi EXCEPT !.design_result_id = 1 + pi.design]
  /\ UNCHANGED <<noUpload, pc, lineno, rd, failed, uploaded>>

(* A request fails: the other results of the batch are not uploaded.        *)
RequestFails ==
  /\ pc = "upload"
  /\ failed' = TRUE
  /\ Return
  /\ UNCHANGED <<noUpload, rd, uploaded>>

Here == sram[rd.pos \div CellSize]

(* Is there a whole record left in the chunk? *)
InChunk == rd.sz >= CellSize /\ rd.sz >= req_sz(Here.req)

(* The next chunk starts where the records read so far end; what would end  *)
(* behind the SRAM is not read, and the results there are not uploaded.     *)
ReadChunk ==
  /\ pc = "upload" /\ pi.design_result_id # 0 /\ ~InChunk
  /\ IF rd.pos + ChunkSize > SRAM_SIZE
     THEN Return /\ UNCHANGED rd
     ELSE rd' = [rd EXCEPT !.sz = ChunkSize] /\ UNCHANGED <<pc, lineno, pi>>
  /\ UNCHANGED <<noUpload, failed, uploaded>>

Skip(r) == [r EXCEPT !.pos = @ + req_sz(Here.req), !.sz = @ - req_sz(Here.req)]

(* output is zero behind what parse_line_vectors has written. *)
Expected(i) == IF i <= Len(pi.output) THEN pi.output[i] ELSE 0

(* Mutant: every result is shown with the first expectation.                *)
UploadVector_SameExpectation ==
  /\ pc = "upload" /\ pi.design_result_id # 0 /\ InChunk
  /\ Here.req = "TEST_VECTOR"
  /\ uploaded' = Append(uploaded,
       [line |-> Here.line, run |-> Here.run, expected |-> Expected(rd.i),
        design |-> pi.design_result_id - 1])
  /\ rd' = Skip(rd)
  /\ UNCHANGED <<noUpload, pc, lineno, pi, failed>>

UploadVector ==
  /\ pc = "upload" /\ pi.design_result_id # 0 /\ InChunk
  /\ Here.req = "TEST_VECTOR"
  /\ uploaded' = Append(uploaded,
       [line |-> Here.line, run |-> Here.run, expected |-> Expected(rd.i),
        design |-> pi.design_result_id - 1])
  /\ rd' = [Skip(rd) EXCEPT !.i = @ + 1]
  /\ UNCHANGED <<noUpload, pc, lineno, pi, failed>>

SkipRecord ==
  /\ pc = "upload" /\ pi.design_result_id # 0 /\ InChunk
  /\ Here.req \notin {"TEST_VECTOR", "END"}
  /\ rd' = Skip(rd)
  /\ UNCHANGED <<noUpload, pc, lineno, pi, failed, uploaded>>

(* Mutant: END does not end the results.                                    *)
UploadEnd_GoOn ==
  /\ pc = "upload" /\ pi.design_result_id # 0 /\ InChunk
  /\ Here.req = "END"
  /\ rd' = Skip(rd)
  /\ UNCHANGED <<noUpload, pc, lineno, pi, failed, uploaded>>

UploadEnd ==
  /\ pc = "upload" /\ pi.design_result_id # 0 /\ InChunk
  /\ Here.req = "END"
  /\ Return
  /\ UNCHANGED <<noUpload, rd, failed, uploaded>>

Upload ==
  \/ CreateDesign \/ RequestFails \/ ReadChunk \/ UploadVector \/ SkipRecord
  \/ UploadEnd

-----------------------------------------------------------------------------
(* parse_team_dir. *)

OpenFile ==
  /\ pc = "files" /\ files < MaxFiles
  /\ pc' = "parse"
  /\ file' \in Files
  /\ files' = files + 1
  /\ lineno' = 1
  /\ pi' = init_parserinfo
  /\ ran' = <<>> /\ batches' = 0 /\ failed' = FALSE /\ uploaded' = <<>>
  /\ UNCHANGED <<resume, sram, rd>>

CloseDir ==
  /\ pc = "files" /\ files = MaxFiles
  /\ pc' = "exit"
  /\ UNCHANGED <<resume, file, files, lineno, pi, sram, rd, ran, batches, failed,
                 uploaded>>

Stopped == pc \in {"exit", "astray"} /\ UNCHANGED vars

(* The team's file has been read and its program, which selects the chip,   *)
(* staged; the SRAM is full of the results of somebody else's vectors.      *)
OldCell(c) ==
  [Cell(IF c % 2 = 0 THEN "TEST_VECTOR" ELSE "REST", 0) EXCEPT !.run = TRUE]

Init ==
  /\ pc = "load" /\ resume = "team"
  /\ file = <<>> /\ files = 0 /\ lineno = 1
  /\ pi = Staged(Staged(init_parserinfo, "SWITCH_TARGET", 0), "END", 0)
  /\ sram = [c \in Cells |-> OldCell(c)]
  /\ rd = [pos |-> 0, sz |-> 0, i |-> 1]
  /\ ran = <<>> /\ batches = 0 /\ failed = FALSE /\ uploaded = <<>>

Next ==
  \/ Parse
  \/ Load \/ Run \/ RunFails
  \/ Upload
  \/ OpenFile \/ CloseDir
  \/ Stopped

Spec == Init /\ [][Next]_vars

(* confrd is one process and goes on. *)
FairSpec == Spec /\ WF_vars(Next)

-----------------------------------------------------------------------------

Reqs == {"TEST_VECTOR", "REST", "SETUP_BITMASK", "PLLRECONFIG", "SWITCH_TARGET", "END"}

(* Besides the types: staged and free bytes make up the SRAM, and as long   *)
(* as END is not staged more bytes are free than it takes.                  *)
TypeOK ==
  /\ pc \in {"files", "parse", "load", "run", "upload", "exit", "astray"}
  /\ resume \in {"team", "line", "design", "measure", "file"}
  /\ lineno \in 1 .. Len(file) + 1
  /\ \A k \in DOMAIN pi.stage : pi.stage[k].req \in Reqs
  /\ pi.free + CellSize * Len(pi.stage) = SRAM_SIZE
  /\ pi.free > 0 /\ (HasEnd \/ pi.free > CellSize)
  /\ \A c \in Cells : sram[c].req \in Reqs /\ sram[c].run \in BOOLEAN
  /\ rd.pos \in 0 .. SRAM_SIZE /\ rd.sz \in 0 .. ChunkSize
  /\ rd.i \in Nat

FirstVector(k) ==
  /\ k \in DOMAIN file /\ file[k] \in {"vector", "measure"}
  /\ \A j \in 1 .. k - 1 : file[j] \notin {"vector", "measure"}

Passed(kinds) == { k \in 1 .. lineno - 1 : file[k] \in kinds }

Wanted ==
  UNION { { Cell("TEST_VECTOR", k) : k \in Passed({"vector"}) },
          { Cell("REST", k) : k \in Passed({"vector"}) },
          { Cell("SETUP_BITMASK", k) : k \in Passed({"pindef"}) },
          { Cell("PLLRECONFIG", k) : k \in { j \in 1 .. lineno : pi.seen_vectors /\ FirstVector(j) } } }

Place(c) == CASE c.req = "PLLRECONFIG" -> 0 [] c.req = "REST" -> 2 [] OTHER -> 1

Precedes(c, d) == c.line < d.line \/ (c.line = d.line /\ Place(c) < Place(d))

InPlace(s) == \A m, n \in DOMAIN s : m < n => Precedes(s[m], s[n])

(* Only a file of more than one batch can make confrd go astray: output, of *)
(* a size of its own, has room for the expectations of all the vectors that *)
(* fit the SRAM at once, whatever else is staged between them.              *)
BatchFitsOutput == pc = "astray" => batches # 0

(***************************************************************************)
(* Each line of a file is run exactly once and in its place, the PLL is     *)
(* reconfigured exactly once and before its first vector, however the file  *)
(* is cut into batches and whichever line did not fit, for as long as       *)
(* confrd has not gone astray: of a file whose expectations are more than   *)
(* output holds, nothing is claimed from the first that does not fit, which *)
(* is never one of the first batch.                                         *)
(***************************************************************************)
RunsTheFile ==
  /\ TypeOK /\ BatchFitsOutput
  /\ pc = "parse" => /\ Range(ran \o Program) = Wanted /\ InPlace(ran \o Program)
                     /\ Passed({"vector", "measure"}) # {} => pi.seen_vectors

(***************************************************************************)
(* What is uploaded are results of vectors of this file that have been run, *)
(* each once, in the order of the file; never what a former batch or file   *)
(* has left in the SRAM behind the program.                                 *)
(***************************************************************************)
UploadedOnce ==
  \A k \in DOMAIN uploaded :
    /\ uploaded[k].run
    /\ uploaded[k].line > IF k = 1 THEN 0 ELSE uploaded[k - 1].line

(***************************************************************************)
(* A file that was run as one batch, and with a chunk's worth of the SRAM   *)
(* to spare, is reported in full, with the expectations of its own vectors, *)
(* and under the design it names first.                                     *)
(***************************************************************************)
VectorLines == { k \in DOMAIN file : file[k] = "vector" }

SmallFileReported ==
  pc = "files" /\ resume = "file" /\ batches = 1 /\ ~failed
    /\ lineno > Len(file) /\ pi.free >= ChunkSize
    => /\ { uploaded[k].line : k \in DOMAIN uploaded } = VectorLines
       /\ \A k \in DOMAIN uploaded :
            /\ uploaded[k].expected = uploaded[k].line
            /\ file[1] = "design" => uploaded[k].design = 1

(***************************************************************************)
(* The comparison a result is shown with is that with the expectation of    *)
(* its own vector.                                                          *)
(***************************************************************************)
ExpectationOfItsOwn ==
  \A k \in DOMAIN uploaded : uploaded[k].expected = uploaded[k].line

(***************************************************************************)
(* A file comes to its end, if confrd does not go astray before: parsing a  *)
(* line again and again ends too.                                           *)
(***************************************************************************)
FileEnds == pc = "parse" ~> pc \in {"files", "exit", "astray"}
=============================================================================
