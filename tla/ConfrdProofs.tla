---------------------------- MODULE ConfrdProofs ----------------------------
(***************************************************************************)
(* Proofs about module Confrd, for an SRAM and chunks of any size and any   *)
(* vector files.                                                            *)
(***************************************************************************)
EXTENDS Confrd, SequenceTheorems, TLAPS

SramCells == [req : Reqs, line : Nat, run : BOOLEAN]

ParserInfo == [stage : Seq(SramCells), free : Int, seen_vectors : BOOLEAN, output : Seq(Nat),
               design : Nat, design_result_id : Nat]

Results == [line : Nat, run : BOOLEAN, expected : Nat, design : Int]

TypeInv ==
  /\ pc \in {"files", "parse", "load", "run", "upload", "exit", "astray"}
  /\ resume \in {"team", "line", "design", "measure", "file"}
  /\ file \in Seq(Kinds) /\ files \in 0 .. MaxFiles /\ lineno \in 1 .. Len(file) + 1
  /\ pi \in ParserInfo /\ sram \in [Cells -> SramCells]
  /\ rd \in [pos : 0 .. SRAM_SIZE, sz : 0 .. ChunkSize, i : Nat \ {0}]
  /\ ran \in Seq(SramCells) /\ batches \in 0 .. 2 /\ failed \in BOOLEAN
  /\ uploaded \in Seq(Results)

(* END is staged last and only after parsing, and a vector takes two cells. *)
Is(k, req) == pi.stage[k].req = req

LayoutInv ==
  \A k \in DOMAIN pi.stage :
    /\ ~pi.stage[k].run
    /\ Is(k, "END") => k = Len(pi.stage) /\ pc # "parse"
    /\ Is(k, "TEST_VECTOR") => k + 1 \in DOMAIN pi.stage /\ Is(k + 1, "REST")
    /\ Is(k, "REST") => k - 1 \in DOMAIN pi.stage /\ Is(k - 1, "TEST_VECTOR")

RoomInv ==
  /\ pi.free + CellSize * Len(pi.stage) = SRAM_SIZE
  /\ pi.free > 0 /\ (HasEnd \/ pi.free > CellSize)

(* From the first line of a file to the last batch of it.                   *)
InFile == pc = "parse" \/ (pc \in {"load", "run", "upload"} /\ resume # "team")

All == IF pc = "upload" THEN ran ELSE ran \o Program

OrderInv ==
  InFile => /\ Range(All) = Wanted /\ InPlace(All)
            /\ Passed({"vector", "measure"}) # {} => pi.seen_vectors
            /\ pi.seen_vectors => \E j \in 1 .. lineno : FirstVector(j)

SuspendInv ==
  pc \in {"load", "run", "upload"} /\ resume \in {"design", "measure"} =>
    /\ lineno \in DOMAIN file /\ file[lineno] = resume
    /\ resume = "measure" => pi.seen_vectors

(* What is read back is the batch that was run, record by record.           *)
InSram(k, run) ==
  /\ sram[k - 1].req = pi.stage[k].req /\ sram[k - 1].line = pi.stage[k].line
  /\ run => sram[k - 1].run

Ahead(k) == CellSize * (k - 1) >= rd.pos

BatchInv ==
  /\ pc = "run" => \A k \in DOMAIN pi.stage : InSram(k, FALSE)
  /\ pc = "upload" =>
       /\ HasEnd /\ resume # "team" /\ batches > 0
       /\ \A k \in DOMAIN pi.stage : InSram(k, TRUE)
       /\ \E j \in DOMAIN pi.stage : rd.pos = CellSize * (j - 1) /\ ~Is(j, "REST")

LinesInv ==
  InFile =>
    /\ \A m \in DOMAIN pi.stage : Is(m, "TEST_VECTOR") => pi.stage[m].line \in 1 .. lineno - 1
    /\ \A m, n \in DOMAIN pi.stage :
         m < n /\ Is(m, "TEST_VECTOR") /\ Is(n, "TEST_VECTOR") => pi.stage[m].line < pi.stage[n].line
    /\ \A k \in DOMAIN uploaded : uploaded[k].line < lineno
    /\ \A k \in DOMAIN uploaded, m \in DOMAIN pi.stage :
         Is(m, "TEST_VECTOR") /\ (pc = "upload" => Ahead(m)) => uploaded[k].line < pi.stage[m].line

(* The first batch.                                                         *)
StagedLines == { pi.stage[k].line : k \in { m \in DOMAIN pi.stage : Is(m, "TEST_VECTOR") } }

FirstBatch == (pc \in {"parse", "load", "run"} /\ InFile /\ batches = 0) \/ (pc = "upload" /\ batches = 1)

FirstInv ==
  /\ FirstBatch =>
       /\ Range(pi.output) = Passed({"vector"})
       /\ \A m, n \in DOMAIN pi.output : m < n => pi.output[m] < pi.output[n]
       /\ StagedLines = Passed({"vector"})
       /\ lineno > 1 /\ file[1] = "design" => pi.design = 1
       /\ pi.design_result_id \in {0, 1 + pi.design}
       /\ pc # "upload" => uploaded = <<>> /\ pi.design_result_id = 0
  /\ pc = "upload" /\ batches = 1 =>
       /\ rd.i = Len(uploaded) + 1
       /\ \A m \in DOMAIN pi.stage : ~Ahead(m) /\ Is(m, "TEST_VECTOR") =>
            \E k \in DOMAIN uploaded : uploaded[k].line = pi.stage[m].line
       /\ \A k \in DOMAIN uploaded :
            /\ k \in DOMAIN pi.output /\ uploaded[k].line = pi.output[k] /\ uploaded[k].expected = pi.output[k]
            /\ file[1] = "design" => uploaded[k].design = 1
  /\ pc = "parse" /\ resume = "file" => batches = 0
  /\ SmallFileReported

IInv == TypeInv /\ LayoutInv /\ RoomInv /\ OrderInv /\ SuspendInv /\ BatchInv /\ LinesInv /\ UploadedOnce /\ FirstInv

-----------------------------------------------------------------------------
(***************************************************************************)
(* Bytes and cells.                                                         *)
(***************************************************************************)
LEMMA Sizes ==
  /\ SRAM_SIZE \in Nat /\ SRAM_SIZE >= 32 /\ ChunkSize \in Nat /\ ChunkSize >= 16
  /\ \E q \in Nat : SRAM_SIZE = 12 * q + 8
<1>1. SRAM_SIZE \in Nat /\ SRAM_SIZE >= 32 /\ ChunkSize \in Nat /\ ChunkSize >= 16 /\ SRAM_SIZE % 12 = 8
  BY ConfrdAssumption
<1>2. SRAM_SIZE = 12 * (SRAM_SIZE \div 12) + 8 /\ SRAM_SIZE \div 12 \in Nat
  BY <1>1
<1> QED
  BY <1>1, <1>2

LEMMA CellOfByte ==
  ASSUME NEW j \in Nat
  PROVE  /\ (CellSize * j) \div CellSize = j
         /\ CellSize * (j + 1) <= SRAM_SIZE => j \in Cells
<1>1. SRAM_SIZE \in Nat
  BY Sizes
<1>2. (6 * j) \div 6 = j
  OBVIOUS
<1>3. 6 * (j + 1) <= SRAM_SIZE => j \in 0 .. SRAM_SIZE \div 6 - 1
  BY <1>1
<1> QED
  BY <1>2, <1>3 DEF Cells, CellSize

(***************************************************************************)
(* Staging a record.                                                        *)
(***************************************************************************)
Staging == {"TEST_VECTOR", "SETUP_BITMASK", "PLLRECONFIG", "SWITCH_TARGET", "END"}

LEMMA RecordCells ==
  ASSUME NEW req \in Staging, NEW line \in Nat
  PROVE  /\ Record(req, line) \in Seq(SramCells)
         /\ Len(Record(req, line)) = IF req = "TEST_VECTOR" THEN 2 ELSE 1
         /\ Record(req, line)[1] = Cell(req, line)
         /\ req = "TEST_VECTOR" => Record(req, line)[2] = Cell("REST", line)
         /\ \A r \in {req, "REST"} : /\ Cell(r, line).req = r /\ Cell(r, line).line = line
                                     /\ ~Cell(r, line).run /\ Cell(r, line) \in SramCells
<1>1. \A r \in {req, "REST"} : /\ Cell(r, line).req = r /\ Cell(r, line).line = line
                               /\ ~Cell(r, line).run /\ Cell(r, line) \in SramCells
  BY DEF Cell, SramCells, Reqs, Staging
<1>2. Cell(req, line) \in SramCells /\ Cell("REST", line) \in SramCells
  BY <1>1
<1> HIDE DEF Cell
<1>3. CASE req = "TEST_VECTOR"
  BY <1>1, <1>2, <1>3 DEF Record
<1>4. CASE req # "TEST_VECTOR"
  BY <1>1, <1>2, <1>4 DEF Record
<1> QED
  BY <1>3, <1>4

LEMMA StagedFields ==
  ASSUME NEW p \in ParserInfo, NEW req \in Staging, NEW line \in Nat
  PROVE  LET q == Staged(p, req, line)
         IN  /\ q \in ParserInfo
             /\ q.stage = p.stage \o Record(req, line)
             /\ q.free = p.free - req_sz(req)
             /\ q.seen_vectors = p.seen_vectors /\ q.output = p.output
             /\ q.design = p.design /\ q.design_result_id = p.design_result_id
<1> DEFINE st == p.stage \o Record(req, line)
           fr == p.free - req_sz(req)
<1>1. st \in Seq(SramCells)
  BY RecordCells, ConcatProperties DEF ParserInfo
<1>2. fr \in Int
  BY DEF ParserInfo, req_sz, CellSize
<1>3. Staged(p, req, line) = [p EXCEPT !.stage = st, !.free = fr]
  BY DEF Staged
<1> HIDE DEF st, fr
<1>4. [p EXCEPT !.stage = st, !.free = fr] \in ParserInfo
  BY <1>1, <1>2 DEF ParserInfo
<1>5. /\ [p EXCEPT !.stage = st, !.free = fr].stage = st
      /\ [p EXCEPT !.stage = st, !.free = fr].free = fr
      /\ [p EXCEPT !.stage = st, !.free = fr].seen_vectors = p.seen_vectors
      /\ [p EXCEPT !.stage = st, !.free = fr].output = p.output
      /\ [p EXCEPT !.stage = st, !.free = fr].design = p.design
      /\ [p EXCEPT !.stage = st, !.free = fr].design_result_id = p.design_result_id
  BY DEF ParserInfo
<1> QED
  BY <1>3, <1>4, <1>5 DEF st, fr

LEMMA StageIsSeq ==
  ASSUME TypeInv
  PROVE  /\ pi.stage \in Seq(SramCells) /\ Len(pi.stage) \in Nat /\ DOMAIN pi.stage = 1 .. Len(pi.stage)
         /\ \A k \in DOMAIN pi.stage : pi.stage[k] \in SramCells
         /\ HasEnd <=> Len(pi.stage) > 0 /\ Is(Len(pi.stage), "END")
         /\ pi.free \in Int /\ lineno \in Nat
<1>1. pi.stage \in Seq(SramCells) /\ pi.free \in Int
  BY DEF TypeInv, ParserInfo
<1>2. lineno \in Nat
  BY DEF TypeInv
<1>3. Len(pi.stage) \in Nat /\ DOMAIN pi.stage = 1 .. Len(pi.stage)
  BY <1>1, LenProperties
<1>4. pi.stage # <<>> <=> Len(pi.stage) > 0
  BY <1>1, EmptySeq
<1> QED
  BY <1>1, <1>2, <1>3, <1>4 DEF HasEnd, Last, Is

LEMMA UploadedIsSeq ==
  ASSUME TypeInv
  PROVE  /\ uploaded \in Seq(Results) /\ Len(uploaded) \in Nat /\ DOMAIN uploaded = 1 .. Len(uploaded)
         /\ \A k \in DOMAIN uploaded : uploaded[k] \in Results
<1>1. uploaded \in Seq(Results)
  BY DEF TypeInv
<1>2. Len(uploaded) \in Nat /\ DOMAIN uploaded = 1 .. Len(uploaded)
  BY <1>1, LenProperties
<1>3. \A k \in 1 .. Len(uploaded) : uploaded[k] \in Results
  BY <1>1, ElementOfSeq
<1> QED
  BY <1>1, <1>2, <1>3

LEMMA NoEndWhileParsing ==
  ASSUME TypeInv, LayoutInv, pc = "parse"
  PROVE  ~HasEnd /\ Program = pi.stage
<1>1. ~HasEnd
  BY StageIsSeq DEF LayoutInv
<1> QED
  BY <1>1 DEF Program

LEMMA Concat ==
  ASSUME NEW S, NEW s \in Seq(S), NEW r \in Seq(S), NEW t, t = s \o r
  PROVE  /\ t \in Seq(S) /\ Len(t) = Len(s) + Len(r)
         /\ \A i \in 1 .. Len(s) + Len(r) : t[i] = IF i <= Len(s) THEN s[i] ELSE r[i - Len(s)]
  BY ConcatProperties

WithRecord(t, s, req, line) == t = s \o Record(req, line)

IsExtended(t, s, req, line, n) ==
  /\ Len(t) = IF req = "TEST_VECTOR" THEN n + 2 ELSE n + 1
  /\ \A k \in 1 .. n : k \in DOMAIN t /\ t[k] = s[k]
  /\ \A k \in DOMAIN t : k <= n \/ k = n + 1 \/ (k = n + 2 /\ req = "TEST_VECTOR")
  /\ n + 1 \in DOMAIN t /\ t[n + 1] = Cell(req, line)
  /\ req = "TEST_VECTOR" => n + 2 \in DOMAIN t /\ t[n + 2] = Cell("REST", line)
  /\ t # <<>> /\ (t[Len(t)].req = "END" <=> req = "END")

LEMMA CellsWithRecord ==
  ASSUME NEW s \in Seq(SramCells), NEW req \in Staging, NEW line \in Nat,
         NEW t, WithRecord(t, s, req, line), NEW n, n = Len(s)
  PROVE  IsExtended(t, s, req, line, n)
<1> DEFINE r == Record(req, line)
<1>1. /\ r \in Seq(SramCells) /\ Len(r) = IF req = "TEST_VECTOR" THEN 2 ELSE 1
      /\ r[1] = Cell(req, line)
      /\ req = "TEST_VECTOR" => r[2] = Cell("REST", line)
      /\ Cell(req, line).req = req /\ Cell("REST", line).req = "REST"
  BY RecordCells
<1>2. t = s \o r
  BY DEF WithRecord
<1> HIDE DEF r
<1>3. /\ t \in Seq(SramCells) /\ Len(t) = Len(s) + Len(r)
      /\ \A i \in 1 .. Len(s) + Len(r) : t[i] = IF i <= Len(s) THEN s[i] ELSE r[i - Len(s)]
  <2>1. r \in Seq(SramCells)
    BY <1>1
  <2> QED
    BY <1>2, <2>1, Concat
<1>4. n \in Nat /\ DOMAIN t = 1 .. Len(t)
  BY <1>3, LenProperties
<1>5. CASE req = "TEST_VECTOR"
  <2>1. Len(t) = n + 2 /\ DOMAIN t = 1 .. n + 2 /\ \A i \in 1 .. n + 2 : t[i] = IF i <= n THEN s[i] ELSE r[i - n]
    BY <1>1, <1>3, <1>4, <1>5
  <2>2. t[n + 1] = r[1] /\ t[n + 2] = r[2]
    BY <1>4, <2>1
  <2>3. t # <<>>
    BY <1>3, <1>4, <2>1, EmptySeq
  <2>4. \A k \in 1 .. n : k \in DOMAIN t /\ t[k] = s[k]
    BY <1>4, <2>1
  <2>5. t[Len(t)] = Cell("REST", line)
    BY <1>1, <1>5, <2>1, <2>2
  <2> QED
    BY <1>1, <1>4, <1>5, <2>1, <2>2, <2>3, <2>4, <2>5 DEF IsExtended
<1>6. CASE req # "TEST_VECTOR"
  <2>1. Len(t) = n + 1 /\ DOMAIN t = 1 .. n + 1 /\ \A i \in 1 .. n + 1 : t[i] = IF i <= n THEN s[i] ELSE r[i - n]
    BY <1>1, <1>3, <1>4, <1>6
  <2>2. t[n + 1] = r[1]
    BY <1>4, <2>1
  <2>3. t # <<>>
    BY <1>3, <1>4, <2>1, EmptySeq
  <2>4. \A k \in 1 .. n : k \in DOMAIN t /\ t[k] = s[k]
    BY <1>4, <2>1
  <2>5. t[Len(t)] = Cell(req, line)
    BY <1>1, <1>6, <2>1, <2>2
  <2> QED
    BY <1>1, <1>4, <1>6, <2>1, <2>2, <2>3, <2>4, <2>5 DEF IsExtended
<1> QED
  BY <1>5, <1>6

Grows(req) ==
  /\ WithRecord(pi'.stage, pi.stage, req, lineno)
  /\ pi'.free = pi.free - req_sz(req)

LEMMA GrownStage ==
  ASSUME TypeInv, TypeInv', NEW req \in Staging, Grows(req), NEW n, n = Len(pi.stage)
  PROVE  /\ Len(pi'.stage) = IF req = "TEST_VECTOR" THEN n + 2 ELSE n + 1
         /\ \A k \in 1 .. n : k \in DOMAIN pi'.stage /\ pi'.stage[k] = pi.stage[k]
         /\ \A k \in DOMAIN pi'.stage : k <= n \/ k = n + 1 \/ (k = n + 2 /\ req = "TEST_VECTOR")
         /\ n + 1 \in DOMAIN pi'.stage /\ pi'.stage[n + 1] = Cell(req, lineno)
         /\ req = "TEST_VECTOR" => n + 2 \in DOMAIN pi'.stage /\ pi'.stage[n + 2] = Cell("REST", lineno)
         /\ HasEnd' <=> req = "END"
<1>1. pi.stage \in Seq(SramCells) /\ lineno \in Nat
  BY StageIsSeq
<1>2. HasEnd' <=> pi'.stage # <<>> /\ pi'.stage[Len(pi'.stage)].req = "END"
  BY DEF HasEnd, Last
<1>3. WithRecord(pi'.stage, pi.stage, req, lineno)
  BY DEF Grows
<1>4. IsExtended(pi'.stage, pi.stage, req, lineno, n)
  BY <1>1, <1>3, CellsWithRecord
<1> QED
  BY <1>2, <1>4 DEF IsExtended

LEMMA GrowRoom ==
  ASSUME TypeInv, TypeInv', RoomInv, ~HasEnd, NEW req \in Staging, Fits(req), Grows(req)
  PROVE  RoomInv'
<1>1. PICK q \in Nat : SRAM_SIZE = 12 * q + 8
  BY Sizes
<1>2. pi.free \in Int /\ Len(pi.stage) \in Nat /\ pi.free + 6 * Len(pi.stage) = SRAM_SIZE
  BY StageIsSeq DEF RoomInv, CellSize
<1>3. PICK c \in {1, 2} : req_sz(req) = 6 * c /\ (req = "TEST_VECTOR" <=> c = 2)
  BY DEF req_sz, CellSize
<1>4. pi.free >= 6 * c + 6 /\ pi'.free = pi.free - 6 * c
  BY <1>3 DEF Fits, req_sz, CellSize, Grows
<1>5. Len(pi'.stage) = Len(pi.stage) + c
  <2>1. Len(pi'.stage) = IF req = "TEST_VECTOR" THEN Len(pi.stage) + 2 ELSE Len(pi.stage) + 1
    BY GrownStage
  <2> QED
    BY <1>2, <1>3, <2>1
<1>6. pi'.free + 6 * Len(pi'.stage) = SRAM_SIZE /\ pi'.free >= 6 /\ pi'.free \in Int
  BY <1>2, <1>4, <1>5, SMTT(30)
<1>7. pi'.free > 6
  BY <1>1, <1>2, <1>4, <1>5, <1>6
<1> QED
  BY <1>6, <1>7 DEF RoomInv, CellSize

LEMMA GrowLayout ==
  ASSUME TypeInv, TypeInv', LayoutInv, ~HasEnd, NEW req \in Staging,
         Grows(req), pc' = "parse" => req # "END", pc = "parse"
  PROVE  LayoutInv'
<1> DEFINE n == Len(pi.stage)
<1>1. n \in Nat /\ DOMAIN pi.stage = 1 .. n /\ lineno \in Nat
  BY StageIsSeq
<1>2. /\ \A r \in {req, "REST"} : Cell(r, lineno).req = r /\ ~Cell(r, lineno).run
  BY <1>1, RecordCells
<1>3. SUFFICES ASSUME NEW k \in DOMAIN pi'.stage
               PROVE  /\ ~pi'.stage[k].run
                      /\ Is(k, "END")' => k = Len(pi'.stage) /\ pc' # "parse"
                      /\ Is(k, "TEST_VECTOR")' => k + 1 \in DOMAIN pi'.stage /\ pi'.stage[k + 1].req = "REST"
                      /\ Is(k, "REST")' => k - 1 \in DOMAIN pi'.stage /\ pi'.stage[k - 1].req = "TEST_VECTOR"
  BY DEF LayoutInv, Is
<1>4. CASE k <= n
  <2>1. k \in DOMAIN pi.stage /\ pi'.stage[k] = pi.stage[k]
    <3>1. DOMAIN pi'.stage = 1 .. Len(pi'.stage)
      BY LenProperties DEF TypeInv, ParserInfo
    <3>2. k \in 1 .. n
      BY <1>1, <1>4, <3>1
    <3> QED
      BY <1>1, <3>2, GrownStage
  <2>2. /\ ~pi.stage[k].run /\ ~Is(k, "END")
        /\ Is(k, "TEST_VECTOR") => k + 1 \in DOMAIN pi.stage /\ Is(k + 1, "REST")
        /\ Is(k, "REST") => k - 1 \in DOMAIN pi.stage /\ Is(k - 1, "TEST_VECTOR")
    BY <2>1 DEF LayoutInv
  <2>3. \A j \in DOMAIN pi.stage : j \in DOMAIN pi'.stage /\ pi'.stage[j] = pi.stage[j]
    BY <1>1, GrownStage
  <2> QED
    BY <2>1, <2>2, <2>3 DEF Is
<1>5. CASE k = n + 1
  <2>1. pi'.stage[k] = Cell(req, lineno) /\ req \notin {"REST"}
    BY <1>5, GrownStage DEF Staging
  <2>2. req = "END" => k = Len(pi'.stage)
    BY <1>5, GrownStage
  <2>3. req = "TEST_VECTOR" => k + 1 \in DOMAIN pi'.stage /\ pi'.stage[k + 1] = Cell("REST", lineno)
    <3>1. k + 1 = n + 2
      BY <1>1, <1>5
    <3> QED
      BY <3>1, GrownStage
  <2> QED
    BY <1>2, <2>1, <2>2, <2>3 DEF Is
<1>6. CASE k = n + 2 /\ req = "TEST_VECTOR"
  <2>1. pi'.stage[k] = Cell("REST", lineno)
    BY <1>6, GrownStage
  <2>2. k - 1 = n + 1
    BY <1>1, <1>6
  <2>3. k - 1 \in DOMAIN pi'.stage /\ pi'.stage[k - 1] = Cell("TEST_VECTOR", lineno)
    BY <1>6, <2>2, GrownStage
  <2> QED
    BY <1>2, <1>6, <2>1, <2>3 DEF Is
<1> QED
  BY <1>4, <1>5, <1>6, GrownStage

(***************************************************************************)
(* The records of a file in their order.                                    *)
(***************************************************************************)
LEMMA RecordInPlace ==
  ASSUME NEW req \in Staging, NEW line \in Nat
  PROVE  /\ InPlace(Record(req, line))
         /\ Range(Record(req, line)) = {Cell(req, line)}
              \cup (IF req = "TEST_VECTOR" THEN {Cell("REST", line)} ELSE {})
<1> DEFINE r == Record(req, line)
<1>1. /\ r \in Seq(SramCells) /\ Len(r) = IF req = "TEST_VECTOR" THEN 2 ELSE 1
      /\ r[1] = Cell(req, line) /\ Cell(req, line).req = req /\ Cell(req, line).line = line
      /\ req = "TEST_VECTOR" => /\ r[2] = Cell("REST", line)
                                /\ Cell("REST", line).req = "REST" /\ Cell("REST", line).line = line
  BY RecordCells
<1>2. InPlace(r)
  <2>1. DOMAIN r = 1 .. Len(r)
    BY <1>1, LenProperties
  <2> HIDE DEF r
  <2>2. SUFFICES ASSUME NEW m \in DOMAIN r, NEW n \in DOMAIN r, m < n PROVE Precedes(r[m], r[n])
    BY DEF InPlace
  <2>3. req = "TEST_VECTOR" /\ m = 1 /\ n = 2
    BY <1>1, <2>1, <2>2
  <2> QED
    BY <1>1, <2>3 DEF Precedes, Place
<1>3. Range(r) = { r[i] : i \in 1 .. Len(r) }
  BY <1>1, RangeEquality
<1> HIDE DEF r
<1>4. Range(r) = {Cell(req, line)} \cup (IF req = "TEST_VECTOR" THEN {Cell("REST", line)} ELSE {})
  <2>1. CASE req = "TEST_VECTOR"
    <3>1. 1 .. Len(r) = {1, 2}
      BY <1>1, <2>1
    <3> QED
      BY <1>1, <1>3, <2>1, <3>1
  <2>2. CASE req # "TEST_VECTOR"
    <3>1. 1 .. Len(r) = {1}
      BY <1>1, <2>2
    <3> QED
      BY <1>1, <1>3, <2>2, <3>1
  <2> QED
    BY <2>1, <2>2
<1> QED
  BY <1>2, <1>4 DEF r

LEMMA ConcatInPlace ==
  ASSUME NEW s \in Seq(SramCells), NEW r \in Seq(SramCells), InPlace(s), InPlace(r),
         \A c \in Range(s), d \in Range(r) : Precedes(c, d)
  PROVE  InPlace(s \o r) /\ Range(s \o r) = Range(s) \cup Range(r)
<1> DEFINE t == s \o r
<1>1. /\ t \in Seq(SramCells) /\ Len(t) = Len(s) + Len(r)
      /\ \A i \in 1 .. Len(s) + Len(r) : t[i] = IF i <= Len(s) THEN s[i] ELSE r[i - Len(s)]
  BY ConcatProperties
<1>2. Range(t) = Range(s) \cup Range(r)
  BY RangeConcatenation
<1> HIDE DEF t
<1>3. DOMAIN t = 1 .. Len(t) /\ DOMAIN s = 1 .. Len(s) /\ DOMAIN r = 1 .. Len(r) /\ Len(s) \in Nat /\ Len(r) \in Nat
  BY <1>1, LenProperties
<1>4. (\A i \in DOMAIN s : s[i] \in Range(s)) /\ (\A i \in DOMAIN r : r[i] \in Range(r))
  BY DEF Range
<1>5. InPlace(t)
  <2>1. SUFFICES ASSUME NEW m \in DOMAIN t, NEW n \in DOMAIN t, m < n PROVE Precedes(t[m], t[n])
    BY DEF InPlace
  <2>2. m \in 1 .. Len(s) + Len(r) /\ n \in 1 .. Len(s) + Len(r)
    BY <1>1, <1>3
  <2>3. CASE n <= Len(s)
    <3>1. m \in DOMAIN s /\ n \in DOMAIN s /\ t[m] = s[m] /\ t[n] = s[n]
      BY <1>1, <1>3, <2>1, <2>2, <2>3
    <3> QED
      BY <2>1, <3>1 DEF InPlace
  <2>4. CASE m <= Len(s) /\ n > Len(s)
    <3>1. m \in DOMAIN s /\ n - Len(s) \in DOMAIN r /\ t[m] = s[m] /\ t[n] = r[n - Len(s)]
      BY <1>1, <1>3, <2>2, <2>4
    <3> QED
      BY <1>4, <3>1
  <2>5. CASE m > Len(s)
    <3>1. /\ m - Len(s) \in DOMAIN r /\ n - Len(s) \in DOMAIN r /\ m - Len(s) < n - Len(s)
          /\ t[m] = r[m - Len(s)] /\ t[n] = r[n - Len(s)]
      BY <1>1, <1>3, <2>1, <2>2, <2>5
    <3> QED
      BY <3>1 DEF InPlace
  <2> QED
    BY <1>3, <2>2, <2>3, <2>4, <2>5
<1> QED
  BY <1>2, <1>5 DEF t

LEMMA Associative ==
  ASSUME NEW S, NEW s \in Seq(S), NEW r \in Seq(S), NEW t \in Seq(S)
  PROVE  (s \o r) \o t = s \o (r \o t)
  BY ConcatAssociative, SMTT(30)

LEMMA AllWhileParsing ==
  ASSUME TypeInv, LayoutInv, pc = "parse"
  PROVE  All = ran \o pi.stage /\ All \in Seq(SramCells)
<1>1. ran \in Seq(SramCells) /\ pi.stage \in Seq(SramCells)
  BY StageIsSeq DEF TypeInv
<1> QED
  BY <1>1, NoEndWhileParsing, ConcatProperties DEF All

LEMMA GrownAll ==
  ASSUME TypeInv, TypeInv', LayoutInv, pc = "parse", pc' # "upload", ran' = ran,
         NEW req \in Staging, Grows(req)
  PROVE  All' = IF req = "END" THEN All ELSE All \o Record(req, lineno)
<1>1. /\ ran \in Seq(SramCells) /\ pi.stage \in Seq(SramCells) /\ pi'.stage \in Seq(SramCells)
      /\ lineno \in Nat /\ Record(req, lineno) \in Seq(SramCells)
  BY StageIsSeq, RecordCells DEF TypeInv, ParserInfo
<1>2. All = ran \o pi.stage /\ All' = ran \o Program'
  BY AllWhileParsing DEF All
<1>3. HasEnd' <=> req = "END"
  BY GrownStage
<1>4. CASE req = "END"
  <2>1. Program' = SubSeq(pi'.stage, 1, Len(pi'.stage) - 1)
    BY <1>3, <1>4 DEF Program, Front
  <2>2. pi'.stage = pi.stage \o <<Cell("END", lineno)>>
    BY <1>4 DEF Grows, WithRecord, Record
  <2>3. PICK n \in Nat : n = Len(pi.stage)
    BY <1>1, LenProperties
  <2>4. IsExtended(pi'.stage, pi.stage, req, lineno, n)
    BY <1>1, <2>3, CellsWithRecord DEF Grows
  <2>5. Len(pi'.stage) = n + 1 /\ \A k \in 1 .. n : pi'.stage[k] = pi.stage[k]
    BY <1>4, <2>4 DEF IsExtended
  <2>6. \A k \in 1 .. n : pi.stage[k] \in SramCells
    BY <1>1, <2>3, ElementOfSeq
  <2>7. Program' = SubSeq(pi'.stage, 1, n)
    BY <2>1, <2>3, <2>5
  <2>8. \A k \in 1 .. n : pi'.stage[k] \in SramCells
    BY <2>5, <2>6
  <2>9. Program' \in Seq(SramCells) /\ Len(Program') = n /\ \A k \in 1 .. n : Program'[k] = pi'.stage[k]
    <3>1. /\ SubSeq(pi'.stage, 1, n) \in Seq(SramCells)
          /\ Len(SubSeq(pi'.stage, 1, n)) = IF 1 <= n THEN n - 1 + 1 ELSE 0
          /\ \A i \in 1 .. n - 1 + 1 : SubSeq(pi'.stage, 1, n)[i] = pi'.stage[1 + i - 1]
      BY <2>8, SubSeqProperties
    <3> QED
      BY <2>3, <2>7, <3>1
  <2>10. Program' = pi.stage
    BY <1>1, <2>3, <2>5, <2>9, SeqEqual
  <2> QED
    BY <1>2, <1>4, <2>10
<1>5. CASE req # "END"
  <2>1. All' = ran \o (pi.stage \o Record(req, lineno))
    BY <1>2, <1>3, <1>5 DEF Program, Grows, WithRecord
  <2>2. ran \in Seq(SramCells) /\ pi.stage \in Seq(SramCells) /\ Record(req, lineno) \in Seq(SramCells)
    BY <1>1
  <2>3. \A a, b, c \in Seq(SramCells) : (a \o b) \o c = a \o (b \o c)
    BY Associative, SMTT(30)
  <2> QED
    BY <1>2, <1>5, <2>1, <2>2, <2>3, Zenon
<1> QED
  BY <1>4, <1>5

(***************************************************************************)
(* What is wanted of a file up to the line parsed next.                     *)
(***************************************************************************)
PllLines == { j \in 1 .. lineno : pi.seen_vectors /\ FirstVector(j) }

LEMMA WantedAlready ==
  ASSUME TypeInv, NEW c \in Wanted
  PROVE  /\ c.line \in 1 .. lineno
         /\ c.line < lineno \/ (Place(c) = 0 /\ pi.seen_vectors)
<1>1. lineno \in Nat
  BY StageIsSeq
<1>2. CASE \E k \in Passed({"vector"}) : c = Cell("TEST_VECTOR", k) \/ c = Cell("REST", k)
  BY <1>1, <1>2 DEF Passed, Cell
<1>3. CASE \E k \in Passed({"pindef"}) : c = Cell("SETUP_BITMASK", k)
  BY <1>1, <1>3 DEF Passed, Cell
<1>4. CASE \E k \in PllLines : c = Cell("PLLRECONFIG", k)
  BY <1>1, <1>4 DEF PllLines, Cell, Place
<1> QED
  BY <1>2, <1>3, <1>4 DEF Wanted, PllLines

LEMMA NextLinePassed ==
  ASSUME TypeInv, lineno' = lineno + 1, file' = file, NEW kinds
  PROVE  Passed(kinds)' = Passed(kinds) \cup (IF file[lineno] \in kinds THEN {lineno} ELSE {})
<1>1. lineno \in 1 .. Len(file) + 1
  BY DEF TypeInv
<1>2. lineno \in Nat /\ lineno >= 1
  BY <1>1, StageIsSeq
<1>3. 1 .. lineno' - 1 = (1 .. lineno - 1) \cup {lineno}
  BY <1>2
<1> QED
  BY <1>3 DEF Passed

LEMMA FirstIsFirst ==
  ASSUME NEW n, FirstVector(n), NEW j \in 1 .. n - 1
  PROVE  ~FirstVector(j)
  BY DEF FirstVector

LEMMA NextLinePll ==
  ASSUME TypeInv, lineno' = lineno + 1, file' = file, pi'.seen_vectors = pi.seen_vectors,
         pi.seen_vectors => \E j \in 1 .. lineno : FirstVector(j)
  PROVE  /\ PllLines' = PllLines
         /\ pi'.seen_vectors => \E j \in 1 .. lineno' : FirstVector(j)'
<1>1. lineno \in Nat
  BY StageIsSeq
<1>2. \A j : FirstVector(j)' <=> FirstVector(j)
  BY DEF FirstVector
<1>3. pi.seen_vectors => ~FirstVector(lineno + 1)
  <2> SUFFICES ASSUME pi.seen_vectors, NEW n, n = lineno + 1, FirstVector(n) PROVE FALSE
    OBVIOUS
  <2>1. PICK j \in 1 .. lineno : FirstVector(j)
    OBVIOUS
  <2>2. j \in 1 .. n - 1
    BY <1>1
  <2> QED
    BY <2>1, <2>2, FirstIsFirst
<1>4. 1 .. lineno + 1 = (1 .. lineno) \cup {lineno + 1}
  BY <1>1
<1> QED
  BY <1>2, <1>3, <1>4 DEF PllLines

LEMMA WantedIs ==
  Wanted = { Cell("TEST_VECTOR", k) : k \in Passed({"vector"}) }
             \cup { Cell("REST", k) : k \in Passed({"vector"}) }
             \cup { Cell("SETUP_BITMASK", k) : k \in Passed({"pindef"}) }
             \cup { Cell("PLLRECONFIG", k) : k \in PllLines }
  BY DEF Wanted, PllLines

LEMMA NextLineWanted ==
  ASSUME TypeInv, lineno' = lineno + 1, file' = file, pi'.seen_vectors = pi.seen_vectors,
         pi.seen_vectors => \E j \in 1 .. lineno : FirstVector(j)
  PROVE  Wanted' = Wanted \cup
           CASE file[lineno] = "vector" -> {Cell("TEST_VECTOR", lineno), Cell("REST", lineno)}
             [] file[lineno] = "pindef" -> {Cell("SETUP_BITMASK", lineno)}
             [] OTHER -> {}
<1>1. /\ Passed({"vector"})' = Passed({"vector"}) \cup (IF file[lineno] \in {"vector"} THEN {lineno} ELSE {})
      /\ Passed({"pindef"})' = Passed({"pindef"}) \cup (IF file[lineno] \in {"pindef"} THEN {lineno} ELSE {})
      /\ PllLines' = PllLines
  BY NextLinePassed, NextLinePll
<1>2. Wanted' = { Cell("TEST_VECTOR", k) : k \in Passed({"vector"})' }
             \cup { Cell("REST", k) : k \in Passed({"vector"})' }
             \cup { Cell("SETUP_BITMASK", k) : k \in Passed({"pindef"})' }
             \cup { Cell("PLLRECONFIG", k) : k \in PllLines' }
  BY DEF Wanted, PllLines
<1>3. CASE file[lineno] = "vector"
  <2>1. Passed({"vector"})' = Passed({"vector"}) \cup {lineno} /\ Passed({"pindef"})' = Passed({"pindef"})
    BY <1>1, <1>3
  <2> QED
    BY <1>1, <1>2, <1>3, <2>1, WantedIs
<1>4. CASE file[lineno] = "pindef"
  <2>1. Passed({"pindef"})' = Passed({"pindef"}) \cup {lineno} /\ Passed({"vector"})' = Passed({"vector"})
    BY <1>1, <1>4
  <2> QED
    BY <1>1, <1>2, <1>4, <2>1, WantedIs
<1>5. CASE file[lineno] \notin {"vector", "pindef"}
  <2>1. Passed({"pindef"})' = Passed({"pindef"}) /\ Passed({"vector"})' = Passed({"vector"})
    BY <1>1, <1>5
  <2> QED
    BY <1>1, <1>2, <1>5, <2>1, WantedIs
<1> QED
  BY <1>3, <1>4, <1>5


(***************************************************************************)
(* What a step leaves as it was.                                            *)
(***************************************************************************)
LEMMA SameWanted ==
  ASSUME file' = file, lineno' = lineno, pi'.seen_vectors = pi.seen_vectors
  PROVE  /\ Wanted' = Wanted /\ \A kinds : Passed(kinds)' = Passed(kinds)
         /\ (\E j \in 1 .. lineno' : FirstVector(j)') <=> (\E j \in 1 .. lineno : FirstVector(j))
<1>1. \A kinds : Passed(kinds)' = Passed(kinds)
  BY DEF Passed
<1>2. \A j : FirstVector(j)' <=> FirstVector(j)
  BY DEF FirstVector
<1> QED
  BY <1>1, <1>2 DEF Wanted

LEMMA SameProgram ==
  ASSUME pi'.stage = pi.stage
  PROVE  (HasEnd' <=> HasEnd) /\ Program' = Program
  BY DEF HasEnd, Program

LEMMA SameOrder ==
  ASSUME OrderInv, InFile, file' = file, lineno' = lineno, pi'.seen_vectors = pi.seen_vectors,
         All' = All
  PROVE  OrderInv'
<1>1. /\ Range(All) = Wanted /\ InPlace(All)
      /\ Passed({"vector", "measure"}) # {} => pi.seen_vectors
      /\ pi.seen_vectors => \E j \in 1 .. lineno : FirstVector(j)
  BY DEF OrderInv
<1>2. Range(All') = Wanted' /\ InPlace(All')
  BY <1>1, SameWanted
<1>3. Passed({"vector", "measure"})' # {} => pi'.seen_vectors
  BY <1>1, SameWanted
<1>4. pi'.seen_vectors => \E j \in 1 .. lineno' : FirstVector(j)'
  BY <1>1, SameWanted
<1> QED
  BY <1>2, <1>3, <1>4 DEF OrderInv

LEMMA SameUploaded ==
  ASSUME UploadedOnce, uploaded' = uploaded
  PROVE  UploadedOnce'
  BY DEF UploadedOnce

(***************************************************************************)
(* What staging a record does to the lines staged.                          *)
(***************************************************************************)
LEMMA GrownLines ==
  ASSUME TypeInv, TypeInv', NEW req \in Staging, Grows(req)
  PROVE  /\ \A m \in DOMAIN pi'.stage : Is(m, "TEST_VECTOR")' =>
              \/ m \in DOMAIN pi.stage /\ Is(m, "TEST_VECTOR") /\ pi'.stage[m].line = pi.stage[m].line
              \/ m = Len(pi.stage) + 1 /\ req = "TEST_VECTOR" /\ pi'.stage[m].line = lineno
         /\ \A m \in DOMAIN pi.stage : /\ m \in DOMAIN pi'.stage
                                       /\ (Is(m, "TEST_VECTOR")' <=> Is(m, "TEST_VECTOR"))
                                       /\ pi'.stage[m].line = pi.stage[m].line
         /\ req = "TEST_VECTOR" =>
              /\ Len(pi.stage) + 1 \in DOMAIN pi'.stage /\ pi'.stage[Len(pi.stage) + 1].req = "TEST_VECTOR"
              /\ pi'.stage[Len(pi.stage) + 1].line = lineno
<1> DEFINE n == Len(pi.stage)
<1>1. n \in Nat /\ DOMAIN pi.stage = 1 .. n /\ lineno \in Nat
  BY StageIsSeq
<1>2. DOMAIN pi'.stage = 1 .. Len(pi'.stage) /\ Len(pi'.stage) \in Nat
  BY LenProperties DEF TypeInv, ParserInfo
<1>3. /\ \A k \in 1 .. n : k \in DOMAIN pi'.stage /\ pi'.stage[k] = pi.stage[k]
      /\ \A k \in DOMAIN pi'.stage : k <= n \/ k = n + 1 \/ (k = n + 2 /\ req = "TEST_VECTOR")
      /\ n + 1 \in DOMAIN pi'.stage /\ pi'.stage[n + 1] = Cell(req, lineno)
      /\ req = "TEST_VECTOR" => n + 2 \in DOMAIN pi'.stage /\ pi'.stage[n + 2] = Cell("REST", lineno)
  BY GrownStage
<1>4. \A r \in {req, "REST"} : Cell(r, lineno).req = r /\ Cell(r, lineno).line = lineno
  BY <1>1, RecordCells
<1> HIDE DEF n
<1>5. ASSUME NEW m \in DOMAIN pi'.stage, Is(m, "TEST_VECTOR")'
      PROVE  \/ m \in DOMAIN pi.stage /\ Is(m, "TEST_VECTOR") /\ pi'.stage[m].line = pi.stage[m].line
             \/ m = n + 1 /\ req = "TEST_VECTOR" /\ pi'.stage[m].line = lineno
  <2>1. pi'.stage[m].req = "TEST_VECTOR"
    BY <1>5 DEF Is
  <2>2. CASE m <= n
    <3>1. m \in 1 .. n
      BY <1>1, <1>2, <1>5, <2>2
    <3> QED
      BY <1>1, <1>3, <2>1, <3>1 DEF Is
  <2>3. CASE m = n + 1
    BY <1>3, <1>4, <2>1, <2>3
  <2>4. CASE m = n + 2 /\ req = "TEST_VECTOR"
    BY <1>3, <1>4, <2>1, <2>4
  <2> QED
    BY <1>3, <2>2, <2>3, <2>4
<1>6. \A m \in DOMAIN pi.stage : /\ m \in DOMAIN pi'.stage
                                 /\ (Is(m, "TEST_VECTOR")' <=> Is(m, "TEST_VECTOR"))
                                 /\ pi'.stage[m].line = pi.stage[m].line
  BY <1>1, <1>3 DEF Is
<1>7. req = "TEST_VECTOR" => /\ n + 1 \in DOMAIN pi'.stage /\ pi'.stage[n + 1].req = "TEST_VECTOR"
                             /\ pi'.stage[n + 1].line = lineno
  BY <1>3, <1>4
<1> QED
  BY <1>5, <1>6, <1>7 DEF n

LEMMA GrowLines ==
  ASSUME TypeInv, TypeInv', LinesInv, pc = "parse", pc' # "upload", uploaded' = uploaded,
         lineno' \in {lineno, lineno + 1}, NEW req \in Staging, Grows(req),
         req = "TEST_VECTOR" => lineno' = lineno + 1
  PROVE  LinesInv'
<1>1. /\ \A m \in DOMAIN pi.stage : Is(m, "TEST_VECTOR") => pi.stage[m].line \in 1 .. lineno - 1
      /\ \A m, n \in DOMAIN pi.stage :
           m < n /\ Is(m, "TEST_VECTOR") /\ Is(n, "TEST_VECTOR") => pi.stage[m].line < pi.stage[n].line
      /\ \A k \in DOMAIN uploaded : uploaded[k].line < lineno
      /\ \A k \in DOMAIN uploaded, m \in DOMAIN pi.stage :
           Is(m, "TEST_VECTOR") => uploaded[k].line < pi.stage[m].line
  BY DEF LinesInv, InFile
<1>2. lineno \in Nat /\ lineno >= 1 /\ Len(pi.stage) \in Nat /\ DOMAIN pi.stage = 1 .. Len(pi.stage)
  BY StageIsSeq, SMTT(30) DEF TypeInv
<1>3. \A m \in DOMAIN pi'.stage : Is(m, "TEST_VECTOR")' =>
        \/ m \in DOMAIN pi.stage /\ Is(m, "TEST_VECTOR") /\ pi'.stage[m].line = pi.stage[m].line
        \/ m = Len(pi.stage) + 1 /\ req = "TEST_VECTOR" /\ pi'.stage[m].line = lineno
  BY GrownLines
<1>4. \A k \in DOMAIN uploaded : uploaded[k].line \in Nat
  BY UploadedIsSeq DEF Results
<1>5. ASSUME NEW m \in DOMAIN pi'.stage, Is(m, "TEST_VECTOR")'
      PROVE  pi'.stage[m].line \in 1 .. lineno' - 1
  <2>1. CASE m \in DOMAIN pi.stage /\ Is(m, "TEST_VECTOR") /\ pi'.stage[m].line = pi.stage[m].line
    <3>1. pi.stage[m].line \in 1 .. lineno - 1
      BY <1>1, <2>1
    <3> QED
      BY <1>2, <2>1, <3>1
  <2>2. CASE req = "TEST_VECTOR" /\ pi'.stage[m].line = lineno
    BY <1>2, <2>2
  <2> QED
    BY <1>3, <1>5, <2>1, <2>2
<1>6. ASSUME NEW m \in DOMAIN pi'.stage, NEW n \in DOMAIN pi'.stage, m < n,
             Is(m, "TEST_VECTOR")', Is(n, "TEST_VECTOR")'
      PROVE  pi'.stage[m].line < pi'.stage[n].line
  BY <1>1, <1>2, <1>3, <1>6
<1>7. \A k \in DOMAIN uploaded : uploaded[k].line < lineno'
  BY <1>1, <1>2, <1>4
<1>8. ASSUME NEW k \in DOMAIN uploaded, NEW m \in DOMAIN pi'.stage, Is(m, "TEST_VECTOR")'
      PROVE  uploaded[k].line < pi'.stage[m].line
  BY <1>1, <1>3, <1>8
<1> QED
  BY <1>5, <1>6, <1>7, <1>8 DEF LinesInv

(***************************************************************************)
(* The first batch grows.                                                   *)
(***************************************************************************)
LEMMA AppendRange ==
  ASSUME NEW S, NEW s \in Seq(S), NEW e \in S
  PROVE  /\ Range(Append(s, e)) = Range(s) \cup {e}
         /\ DOMAIN Append(s, e) = 1 .. Len(s) + 1 /\ DOMAIN s = 1 .. Len(s) /\ Len(s) \in Nat
         /\ \A k \in DOMAIN s : Append(s, e)[k] = s[k] /\ s[k] \in Range(s)
         /\ Append(s, e)[Len(s) + 1] = e
<1>1. /\ DOMAIN Append(s, e) = 1 .. Len(s) + 1 /\ DOMAIN s = 1 .. Len(s) /\ Len(s) \in Nat
      /\ \A k \in DOMAIN s : Append(s, e)[k] = s[k]
      /\ Append(s, e)[Len(s) + 1] = e
  BY AppendProperties, LenProperties
<1>2. \A k \in DOMAIN s : s[k] \in Range(s)
  BY DEF Range
<1>3. 1 .. Len(s) + 1 = (1 .. Len(s)) \cup {Len(s) + 1}
  BY <1>1
<1>4. Range(Append(s, e)) = Range(s) \cup {e}
  <2> DEFINE t == Append(s, e)
  <2> HIDE DEF t
  <2>1. /\ DOMAIN t = DOMAIN s \cup {Len(s) + 1} /\ \A k \in DOMAIN s : t[k] = s[k]
        /\ t[Len(s) + 1] = e
    BY <1>1, <1>3 DEF t
  <2>2. Range(t) = Range(s) \cup {e}
    BY <2>1 DEF Range
  <2> QED
    BY <2>2 DEF t
<1> QED
  BY <1>1, <1>2, <1>4

LEMMA GrownStagedLines ==
  ASSUME TypeInv, TypeInv', NEW req \in Staging, Grows(req)
  PROVE  StagedLines' = StagedLines \cup (IF req = "TEST_VECTOR" THEN {lineno} ELSE {})
<1>1. /\ \A m \in DOMAIN pi'.stage : Is(m, "TEST_VECTOR")' =>
           \/ m \in DOMAIN pi.stage /\ Is(m, "TEST_VECTOR") /\ pi'.stage[m].line = pi.stage[m].line
           \/ m = Len(pi.stage) + 1 /\ req = "TEST_VECTOR" /\ pi'.stage[m].line = lineno
      /\ \A m \in DOMAIN pi.stage : /\ m \in DOMAIN pi'.stage
                                    /\ (Is(m, "TEST_VECTOR")' <=> Is(m, "TEST_VECTOR"))
                                    /\ pi'.stage[m].line = pi.stage[m].line
      /\ req = "TEST_VECTOR" =>
           /\ Len(pi.stage) + 1 \in DOMAIN pi'.stage /\ pi'.stage[Len(pi.stage) + 1].req = "TEST_VECTOR"
           /\ pi'.stage[Len(pi.stage) + 1].line = lineno
  BY GrownLines
<1>2. \A l : l \in StagedLines <=> \E m \in DOMAIN pi.stage : Is(m, "TEST_VECTOR") /\ pi.stage[m].line = l
  BY DEF StagedLines
<1>3. \A l : l \in StagedLines' <=> \E m \in DOMAIN pi'.stage : Is(m, "TEST_VECTOR")' /\ pi'.stage[m].line = l
  BY DEF StagedLines
<1>4. req = "TEST_VECTOR" => lineno \in StagedLines'
  BY <1>1 DEF StagedLines, Is
<1> QED
  BY <1>1, <1>2, <1>3, <1>4

LEMMA GrowFirst ==
  ASSUME TypeInv, TypeInv', FirstInv, pc = "parse", pc' \in {"parse", "load"},
         pc' = "parse" => resume' = resume,
         batches' = batches, file' = file, uploaded' = uploaded, NEW req \in Staging, Grows(req),
         pi'.design_result_id = pi.design_result_id, pi'.design = pi.design,
         \/ /\ lineno' = lineno + 1 /\ req = "TEST_VECTOR" /\ file[lineno] = "vector"
            /\ pi'.output = Append(pi.output, lineno)
         \/ /\ req # "TEST_VECTOR" /\ pi'.output = pi.output
            /\ lineno' = lineno \/ (lineno' = lineno + 1 /\ file[lineno] = "pindef")
  PROVE  FirstInv'
<1>1. lineno \in Nat /\ lineno >= 1 /\ pi.output \in Seq(Nat)
  BY StageIsSeq DEF TypeInv, ParserInfo
<1>2. pc' # "upload" /\ pc' # "files"
  OBVIOUS
<1>3. pc' = "parse" /\ resume' = "file" => batches' = 0
  BY DEF FirstInv
<1>4. ASSUME FirstBatch'
      PROVE  /\ Range(pi'.output) = Passed({"vector"})'
             /\ \A m, n \in DOMAIN pi'.output : m < n => pi'.output[m] < pi'.output[n]
             /\ StagedLines' = Passed({"vector"})'
             /\ lineno' > 1 /\ file'[1] = "design" => pi'.design = 1
             /\ pi'.design_result_id \in {0, 1 + pi'.design}
             /\ uploaded' = <<>> /\ pi'.design_result_id = 0
  <2>1. FirstBatch
    BY <1>4 DEF FirstBatch, InFile
  <2>2. /\ Range(pi.output) = Passed({"vector"})
        /\ \A m, n \in DOMAIN pi.output : m < n => pi.output[m] < pi.output[n]
        /\ StagedLines = Passed({"vector"})
        /\ lineno > 1 /\ file[1] = "design" => pi.design = 1
        /\ uploaded = <<>> /\ pi.design_result_id = 0
    BY <2>1 DEF FirstInv
  <2>3. lineno' > 1 /\ file'[1] = "design" => pi'.design = 1
    BY <1>1, <2>2
  <2>4. /\ Range(pi'.output) = Passed({"vector"})' /\ StagedLines' = Passed({"vector"})'
        /\ \A m, n \in DOMAIN pi'.output : m < n => pi'.output[m] < pi'.output[n]
    <3>1. CASE /\ lineno' = lineno + 1 /\ req = "TEST_VECTOR" /\ file[lineno] = "vector"
               /\ pi'.output = Append(pi.output, lineno)
      <4>1. Passed({"vector"})' = Passed({"vector"}) \cup {lineno}
        BY <3>1, NextLinePassed
      <4>2. /\ Range(pi'.output) = Range(pi.output) \cup {lineno}
            /\ DOMAIN pi'.output = 1 .. Len(pi.output) + 1 /\ DOMAIN pi.output = 1 .. Len(pi.output)
            /\ Len(pi.output) \in Nat
            /\ \A k \in DOMAIN pi.output : pi'.output[k] = pi.output[k] /\ pi.output[k] \in Range(pi.output)
            /\ pi'.output[Len(pi.output) + 1] = lineno
        BY <1>1, <3>1, AppendRange, SMTT(30)
      <4>3. \A k \in DOMAIN pi.output : pi.output[k] < lineno
        <5> SUFFICES ASSUME NEW k \in DOMAIN pi.output PROVE pi.output[k] < lineno
          OBVIOUS
        <5>1. pi.output[k] \in Passed({"vector"})
          BY <2>2, <4>2
        <5>2. pi.output[k] \in 1 .. lineno - 1
          BY <5>1 DEF Passed
        <5> QED
          BY <1>1, <5>2
      <4>4. \A m, n \in DOMAIN pi'.output : m < n => pi'.output[m] < pi'.output[n]
        <5> SUFFICES ASSUME NEW m \in DOMAIN pi'.output, NEW n \in DOMAIN pi'.output, m < n
                     PROVE  pi'.output[m] < pi'.output[n]
          OBVIOUS
        <5>1. m \in DOMAIN pi.output /\ (n \in DOMAIN pi.output \/ n = Len(pi.output) + 1)
          BY <4>2
        <5> QED
          BY <2>2, <4>2, <4>3, <5>1
      <4>5. StagedLines' = StagedLines \cup {lineno}
        BY <3>1, GrownStagedLines
      <4> QED
        BY <2>2, <4>1, <4>2, <4>4, <4>5
    <3>2. CASE /\ req # "TEST_VECTOR" /\ pi'.output = pi.output
               /\ lineno' = lineno \/ (lineno' = lineno + 1 /\ file[lineno] = "pindef")
      <4>1. Passed({"vector"})' = Passed({"vector"})
        <5>1. CASE lineno' = lineno
          BY <5>1 DEF Passed
        <5>2. CASE lineno' = lineno + 1 /\ file[lineno] = "pindef"
          BY <5>2, NextLinePassed
        <5> QED
          BY <3>2, <5>1, <5>2
      <4>2. StagedLines' = StagedLines
        BY <3>2, GrownStagedLines
      <4> QED
        BY <2>2, <3>2, <4>1, <4>2
    <3> QED
      BY <3>1, <3>2
  <2> QED
    BY <2>2, <2>3, <2>4
<1> QED
  BY <1>2, <1>3, <1>4 DEF FirstInv, SmallFileReported

(***************************************************************************)
(* The parser's steps.                                                      *)
(***************************************************************************)
LEMMA Parsing ==
  ASSUME IInv, pc = "parse"
  PROVE  /\ TypeInv /\ LayoutInv /\ RoomInv /\ OrderInv /\ LinesInv /\ UploadedOnce /\ FirstInv
         /\ ~HasEnd /\ InFile /\ All \in Seq(SramCells)
         /\ Range(All) = Wanted /\ InPlace(All)
         /\ Passed({"vector", "measure"}) # {} => pi.seen_vectors
         /\ pi.seen_vectors => \E j \in 1 .. lineno : FirstVector(j)
<1>1. TypeInv /\ LayoutInv /\ RoomInv /\ OrderInv /\ LinesInv /\ UploadedOnce /\ FirstInv
  BY DEF IInv
<1>2. ~HasEnd /\ All \in Seq(SramCells)
  BY <1>1, NoEndWhileParsing, AllWhileParsing
<1> QED
  BY <1>1, <1>2 DEF OrderInv, InFile

LEMMA ExtendOrder ==
  ASSUME IInv, pc = "parse", TypeInv', pc' # "upload", ran' = ran,
         NEW req \in Staging \ {"END"}, Grows(req),
         Wanted' = Wanted \cup Range(Record(req, lineno)),
         \A c \in Wanted : Precedes(c, Cell(req, lineno)) /\ (req = "TEST_VECTOR" => Precedes(c, Cell("REST", lineno))),
         Passed({"vector", "measure"})' # {} => pi'.seen_vectors,
         pi'.seen_vectors => \E j \in 1 .. lineno' : FirstVector(j)'
  PROVE  OrderInv'
<1>1. /\ TypeInv /\ LayoutInv /\ All \in Seq(SramCells) /\ Range(All) = Wanted /\ InPlace(All)
      /\ lineno \in Nat /\ req \in Staging /\ req # "END"
  BY Parsing, StageIsSeq
<1>2. All' = All \o Record(req, lineno)
  BY <1>1, GrownAll
<1>3. /\ Record(req, lineno) \in Seq(SramCells) /\ InPlace(Record(req, lineno))
      /\ Range(Record(req, lineno)) = {Cell(req, lineno)}
           \cup (IF req = "TEST_VECTOR" THEN {Cell("REST", lineno)} ELSE {})
  BY <1>1, RecordCells, RecordInPlace
<1>4. \A c \in Range(All), d \in Range(Record(req, lineno)) : Precedes(c, d)
  BY <1>1, <1>3
<1>5. InPlace(All \o Record(req, lineno)) /\ Range(All \o Record(req, lineno)) = Range(All) \cup Range(Record(req, lineno))
  BY <1>1, <1>3, <1>4, ConcatInPlace
<1>6. InPlace(All') /\ Range(All') = Wanted'
  BY <1>1, <1>2, <1>5
<1> QED
  BY <1>6 DEF OrderInv

LEMMA SuspendStep ==
  ASSUME IInv, pc = "parse", NEW why \in {"line", "design", "measure", "file"}, suspend_emit(why),
         UNCHANGED noParse, lineno' = lineno,
         why \in {"design", "measure"} => lineno \in DOMAIN file /\ file[lineno] = why,
         why = "measure" => pi.seen_vectors
  PROVE  IInv'
<1>1. /\ TypeInv /\ LayoutInv /\ RoomInv /\ OrderInv /\ LinesInv /\ UploadedOnce /\ FirstInv
      /\ ~HasEnd /\ InFile /\ All \in Seq(SramCells) /\ lineno \in Nat
  BY Parsing, StageIsSeq
<1>2. /\ pc' = "load" /\ resume' = why /\ file' = file /\ files' = files /\ sram' = sram /\ rd' = rd
      /\ ran' = ran /\ batches' = batches /\ failed' = failed /\ uploaded' = uploaded
      /\ InFile'
  BY DEF suspend_emit, noParse, InFile
<1>3. SuspendInv' /\ BatchInv' /\ UploadedOnce'
  <2>1. pi'.seen_vectors = pi.seen_vectors
    BY <1>1, StagedFields DEF suspend_emit, TypeInv, Staging
  <2> QED
    BY <1>1, <1>2, <2>1, SameUploaded DEF SuspendInv, BatchInv
<1>4. CASE Fits("END")
  <2>1. /\ pi' \in ParserInfo /\ Grows("END")
        /\ pi'.seen_vectors = pi.seen_vectors /\ pi'.output = pi.output
        /\ pi'.design = pi.design /\ pi'.design_result_id = pi.design_result_id
    BY <1>1, <1>4, StagedFields DEF suspend_emit, TypeInv, Staging, Grows, WithRecord
  <2>2. TypeInv'
    BY <1>1, <1>2, <2>1 DEF TypeInv
  <2>3. "END" \in Staging
    BY DEF Staging
  <2>4. LayoutInv' /\ RoomInv'
    BY <1>1, <1>2, <1>4, <2>1, <2>2, <2>3, GrowLayout, GrowRoom
  <2>5. All' = All
    BY <1>1, <1>2, <2>1, <2>2, <2>3, GrownAll
  <2>6. OrderInv'
    BY <1>1, <1>2, <2>1, <2>5, SameOrder
  <2>7. LinesInv'
    BY <1>1, <1>2, <2>1, <2>2, <2>3, GrowLines
  <2>8. FirstInv'
    BY <1>1, <1>2, <2>1, <2>2, <2>3, GrowFirst
  <2> QED
    BY <1>3, <2>2, <2>4, <2>6, <2>7, <2>8 DEF IInv
<1>5. CASE ~Fits("END")
  <2>1. pi' = pi
    BY <1>5 DEF suspend_emit
  <2>2. TypeInv'
    BY <1>1, <1>2, <2>1 DEF TypeInv
  <2>3. LayoutInv'
    BY <1>1, <1>2, <2>1 DEF LayoutInv, Is
  <2>4. (HasEnd' <=> HasEnd) /\ Program' = Program
    BY <2>1, SameProgram
  <2>5. RoomInv'
    BY <1>1, <2>1, <2>4 DEF RoomInv
  <2>6. All' = All
    BY <1>2, <2>4 DEF All
  <2>7. OrderInv'
    BY <1>1, <1>2, <2>1, <2>6, SameOrder
  <2>8. LinesInv'
    BY <1>1, <1>2, <2>1 DEF LinesInv, InFile, Is
  <2>9. FirstInv'
    <3>1. Passed({"vector"})' = Passed({"vector"}) /\ StagedLines' = StagedLines
      BY <1>2, <2>1 DEF Passed, StagedLines, Is
    <3>2. FirstBatch' => FirstBatch
      BY <1>1, <1>2 DEF FirstBatch
    <3> QED
      BY <1>1, <1>2, <2>1, <3>1, <3>2 DEF FirstInv, SmallFileReported
  <2> QED
    BY <1>3, <2>2, <2>3, <2>5, <2>7, <2>8, <2>9 DEF IInv
<1> QED
  BY <1>4, <1>5

LEMMA AtLineFacts ==
  ASSUME TypeInv, NEW kinds, AtLine(kinds)
  PROVE  /\ pc = "parse" /\ lineno \in DOMAIN file /\ lineno \in Nat /\ lineno >= 1 /\ file[lineno] \in kinds
         /\ lineno + 1 \in 1 .. Len(file) + 1
<1>1. Len(file) \in Nat /\ DOMAIN file = 1 .. Len(file)
  BY LenProperties DEF TypeInv
<1> QED
  BY <1>1 DEF AtLine, TypeInv

LEMMA PrecedesHere ==
  ASSUME TypeInv, NEW c \in Wanted, NEW req \in Staging, req # "PLLRECONFIG" \/ ~pi.seen_vectors
  PROVE  Precedes(c, Cell(req, lineno)) /\ Precedes(c, Cell("REST", lineno))
<1>1. /\ c.line \in 1 .. lineno /\ lineno \in Nat
      /\ c.line < lineno \/ (Place(c) = 0 /\ pi.seen_vectors)
  BY WantedAlready, StageIsSeq
<1>2. /\ Cell(req, lineno).line = lineno /\ Cell("REST", lineno).line = lineno
      /\ Place(Cell("REST", lineno)) = 2 /\ (req # "PLLRECONFIG" => Place(Cell(req, lineno)) = 1)
  BY DEF Cell, Place, Staging
<1>3. CASE c.line < lineno
  BY <1>2, <1>3 DEF Precedes
<1>4. CASE c.line = lineno
  <2>1. Place(c) = 0 /\ req # "PLLRECONFIG"
    BY <1>1, <1>4
  <2> QED
    BY <1>2, <1>4, <2>1 DEF Precedes
<1> QED
  BY <1>1, <1>3, <1>4

LEMMA PreVectorsStep ==
  ASSUME IInv, PreVectors
  PROVE  IInv'
<1>1. /\ pc = "parse" /\ ~pi.seen_vectors /\ lineno' = lineno /\ UNCHANGED noParse
      /\ lineno \in DOMAIN file /\ lineno \in Nat /\ lineno >= 1 /\ file[lineno] \in {"vector", "measure"}
  BY AtLineFacts DEF PreVectors, IInv
<1>2. CASE ~Fits("PLLRECONFIG")
  <2>1. suspend_emit("line")
    BY <1>2 DEF PreVectors
  <2> QED
    BY <1>1, <2>1, SuspendStep
<1>3. CASE Fits("PLLRECONFIG")
  <2>1. /\ TypeInv /\ LayoutInv /\ RoomInv /\ OrderInv /\ LinesInv /\ UploadedOnce /\ FirstInv
        /\ ~HasEnd /\ InFile
        /\ Passed({"vector", "measure"}) # {} => pi.seen_vectors
    BY <1>1, Parsing
  <2>2. /\ pc' = pc /\ resume' = resume /\ file' = file /\ files' = files /\ sram' = sram /\ rd' = rd
        /\ ran' = ran /\ batches' = batches /\ failed' = failed /\ uploaded' = uploaded
    BY <1>3 DEF PreVectors, noParse
  <2>3. "PLLRECONFIG" \in Staging /\ "PLLRECONFIG" # "END" /\ "PLLRECONFIG" # "TEST_VECTOR"
    BY DEF Staging
  <2>4. /\ pi' \in ParserInfo /\ Grows("PLLRECONFIG")
        /\ pi'.seen_vectors /\ pi'.output = pi.output
        /\ pi'.design = pi.design /\ pi'.design_result_id = pi.design_result_id
    <3> DEFINE q == Staged(pi, "PLLRECONFIG", lineno)
    <3>1. /\ q \in ParserInfo /\ q.stage = pi.stage \o Record("PLLRECONFIG", lineno)
          /\ q.free = pi.free - req_sz("PLLRECONFIG") /\ q.output = pi.output
          /\ q.design = pi.design /\ q.design_result_id = pi.design_result_id
      <4>1. pi \in ParserInfo
        BY <2>1 DEF TypeInv
      <4> QED
        BY <1>1, <2>3, <4>1, StagedFields, Zenon
    <3>2. pi' = [q EXCEPT !.seen_vectors = TRUE]
      BY <1>3 DEF PreVectors
    <3> HIDE DEF q
    <3>3. /\ pi' \in ParserInfo /\ pi'.seen_vectors /\ pi'.stage = q.stage /\ pi'.free = q.free
          /\ pi'.output = q.output /\ pi'.design = q.design /\ pi'.design_result_id = q.design_result_id
      BY <3>1, <3>2 DEF ParserInfo
    <3> QED
      BY <3>1, <3>3 DEF Grows, WithRecord
  <2>5. TypeInv'
    BY <1>1, <2>1, <2>2, <2>4 DEF TypeInv
  <2>6. LayoutInv' /\ RoomInv'
    BY <1>1, <1>3, <2>1, <2>2, <2>3, <2>4, <2>5, GrowLayout, GrowRoom
  <2>7. \A j \in 1 .. lineno : FirstVector(j) <=> j = lineno
    <3>1. \A j \in 1 .. lineno - 1 : file[j] \notin {"vector", "measure"}
      BY <1>1, <2>1 DEF Passed
    <3> QED
      BY <1>1, <3>1 DEF FirstVector
  <2>8. \A j : FirstVector(j)' <=> FirstVector(j)
    BY <2>2 DEF FirstVector
  <2>9. PllLines = {} /\ PllLines' = {lineno}
    BY <1>1, <2>4, <2>7, <2>8 DEF PllLines
  <2>10. \A kinds : Passed(kinds)' = Passed(kinds)
    BY <1>1, <2>2 DEF Passed
  <2>11. Wanted' = Wanted \cup {Cell("PLLRECONFIG", lineno)}
    <3>1. Wanted' = { Cell("TEST_VECTOR", k) : k \in Passed({"vector"})' }
             \cup { Cell("REST", k) : k \in Passed({"vector"})' }
             \cup { Cell("SETUP_BITMASK", k) : k \in Passed({"pindef"})' }
             \cup { Cell("PLLRECONFIG", k) : k \in PllLines' }
      BY DEF Wanted, PllLines
    <3> QED
      BY <2>9, <2>10, <3>1, WantedIs
  <2>12. Range(Record("PLLRECONFIG", lineno)) = {Cell("PLLRECONFIG", lineno)}
    BY <1>1, <2>3, RecordInPlace
  <2>13. \A c \in Wanted : Precedes(c, Cell("PLLRECONFIG", lineno))
    BY <1>1, <2>1, <2>3, PrecedesHere
  <2>14. \E j \in 1 .. lineno' : FirstVector(j)'
    BY <1>1, <2>7, <2>8
  <2>15. OrderInv'
    BY <1>1, <2>2, <2>3, <2>4, <2>5, <2>11, <2>12, <2>13, <2>14, ExtendOrder
  <2>16. LinesInv'
    BY <1>1, <2>1, <2>2, <2>3, <2>4, <2>5, GrowLines
  <2>17. FirstInv'
    BY <1>1, <2>1, <2>2, <2>3, <2>4, <2>5, GrowFirst
  <2> QED
    BY <1>1, <2>1, <2>2, <2>5, <2>6, <2>15, <2>16, <2>17, SameUploaded DEF IInv, SuspendInv, BatchInv
<1> QED
  BY <1>2, <1>3

LEMMA GivesUp ==
  ASSUME IInv, pc' \in {"files", "exit", "astray"}, TypeInv', pi' = pi, uploaded' = uploaded,
         SmallFileReported'
  PROVE  IInv'
<1>1. TypeInv /\ LayoutInv /\ RoomInv /\ UploadedOnce
  BY DEF IInv
<1>2. (HasEnd' <=> HasEnd) /\ Program' = Program
  BY SameProgram
<1>3. LayoutInv' /\ RoomInv' /\ UploadedOnce'
  BY <1>1, <1>2, SameUploaded DEF LayoutInv, RoomInv, Is
<1>4. ~InFile' /\ ~FirstBatch' /\ pc' \notin {"load", "run", "upload", "parse"}
  BY DEF InFile, FirstBatch
<1>5. OrderInv' /\ SuspendInv' /\ BatchInv' /\ LinesInv' /\ FirstInv'
  BY <1>4 DEF OrderInv, SuspendInv, BatchInv, LinesInv, FirstInv
<1> QED
  BY <1>3, <1>5 DEF IInv

LEMMA ParseVectorStep ==
  ASSUME IInv, ParseVector
  PROVE  IInv'
<1>1. /\ pc = "parse" /\ pi.seen_vectors /\ UNCHANGED noParse
      /\ lineno \in DOMAIN file /\ lineno \in Nat /\ lineno >= 1 /\ file[lineno] = "vector"
      /\ lineno + 1 \in 1 .. Len(file) + 1
  BY AtLineFacts DEF ParseVector, IInv
<1>2. CASE ~Fits("TEST_VECTOR")
  <2>1. suspend_emit("line") /\ lineno' = lineno
    BY <1>2 DEF ParseVector
  <2> QED
    BY <1>1, <2>1, SuspendStep
<1>3. CASE Fits("TEST_VECTOR") /\ OutputFits
  <2>1. /\ TypeInv /\ LayoutInv /\ RoomInv /\ OrderInv /\ LinesInv /\ UploadedOnce /\ FirstInv
        /\ ~HasEnd /\ InFile
        /\ pi.seen_vectors => \E j \in 1 .. lineno : FirstVector(j)
    BY <1>1, Parsing
  <2>2. /\ pc' = pc /\ resume' = resume /\ file' = file /\ files' = files /\ sram' = sram /\ rd' = rd
        /\ ran' = ran /\ batches' = batches /\ failed' = failed /\ uploaded' = uploaded
        /\ lineno' = lineno + 1
    BY <1>3 DEF ParseVector, noParse
  <2>3. "TEST_VECTOR" \in Staging /\ "TEST_VECTOR" # "END" /\ "TEST_VECTOR" # "PLLRECONFIG"
    BY DEF Staging
  <2>4. /\ pi' \in ParserInfo /\ Grows("TEST_VECTOR")
        /\ pi'.seen_vectors = pi.seen_vectors /\ pi'.output = Append(pi.output, lineno)
        /\ pi'.design = pi.design /\ pi'.design_result_id = pi.design_result_id
    <3> DEFINE q == Staged(pi, "TEST_VECTOR", lineno)
    <3>1. /\ q \in ParserInfo /\ q.stage = pi.stage \o Record("TEST_VECTOR", lineno)
          /\ q.free = pi.free - req_sz("TEST_VECTOR") /\ q.output = pi.output
          /\ q.seen_vectors = pi.seen_vectors
          /\ q.design = pi.design /\ q.design_result_id = pi.design_result_id
      <4>1. pi \in ParserInfo
        BY <2>1 DEF TypeInv
      <4> QED
        BY <1>1, <2>3, <4>1, StagedFields, Zenon
    <3>2. pi' = [q EXCEPT !.output = Append(@, lineno)]
      BY <1>3 DEF ParseVector
    <3> HIDE DEF q
    <3>3. Append(q.output, lineno) \in Seq(Nat)
      BY <1>1, <3>1, AppendProperties DEF ParserInfo
    <3>4. /\ pi' \in ParserInfo /\ pi'.seen_vectors = q.seen_vectors /\ pi'.stage = q.stage /\ pi'.free = q.free
          /\ pi'.output = Append(q.output, lineno)
          /\ pi'.design = q.design /\ pi'.design_result_id = q.design_result_id
      BY <3>1, <3>2, <3>3 DEF ParserInfo
    <3> QED
      BY <3>1, <3>4 DEF Grows, WithRecord
  <2>5. TypeInv'
    BY <1>1, <2>1, <2>2, <2>4 DEF TypeInv
  <2>6. LayoutInv' /\ RoomInv'
    BY <1>1, <1>3, <2>1, <2>2, <2>3, <2>4, <2>5, GrowLayout, GrowRoom
  <2>7. Range(Record("TEST_VECTOR", lineno)) = {Cell("TEST_VECTOR", lineno), Cell("REST", lineno)}
    BY <1>1, <2>3, RecordInPlace
  <2>8. Wanted' = Wanted \cup {Cell("TEST_VECTOR", lineno), Cell("REST", lineno)}
    BY <1>1, <2>1, <2>2, <2>4, NextLineWanted
  <2>9. \A c \in Wanted : Precedes(c, Cell("TEST_VECTOR", lineno)) /\ Precedes(c, Cell("REST", lineno))
    BY <2>1, <2>3, PrecedesHere
  <2>10. pi'.seen_vectors /\ \E j \in 1 .. lineno' : FirstVector(j)'
    BY <1>1, <2>1, <2>2, <2>4, NextLinePll
  <2>11. OrderInv'
    BY <1>1, <2>2, <2>3, <2>4, <2>5, <2>7, <2>8, <2>9, <2>10, ExtendOrder
  <2>12. LinesInv'
    BY <1>1, <2>1, <2>2, <2>3, <2>4, <2>5, GrowLines
  <2>13. FirstInv'
    BY <1>1, <2>1, <2>2, <2>3, <2>4, <2>5, GrowFirst
  <2> QED
    BY <1>1, <2>1, <2>2, <2>5, <2>6, <2>11, <2>12, <2>13, SameUploaded DEF IInv, SuspendInv, BatchInv
<1>4. CASE Fits("TEST_VECTOR") /\ ~OutputFits
  <2>1. pc' = "astray" /\ resume' = resume /\ pi' = pi /\ lineno' = lineno
    BY <1>4 DEF ParseVector
  <2>2. TypeInv'
    BY <1>1, <2>1 DEF IInv, TypeInv, noParse
  <2>3. SmallFileReported'
    BY <2>1 DEF SmallFileReported
  <2> QED
    BY <1>1, <2>1, <2>2, <2>3, GivesUp DEF noParse
<1> QED
  BY <1>2, <1>3, <1>4

LEMMA ParsePindefStep ==
  ASSUME IInv, ParsePindef
  PROVE  IInv'
<1>1. /\ pc = "parse" /\ UNCHANGED noParse
      /\ lineno \in DOMAIN file /\ lineno \in Nat /\ lineno >= 1 /\ file[lineno] = "pindef"
      /\ lineno + 1 \in 1 .. Len(file) + 1
  BY AtLineFacts DEF ParsePindef, IInv
<1>2. CASE ~Fits("SETUP_BITMASK")
  <2>1. suspend_emit("line") /\ lineno' = lineno
    BY <1>2 DEF ParsePindef, Stage
  <2> QED
    BY <1>1, <2>1, SuspendStep
<1>3. CASE Fits("SETUP_BITMASK")
  <2>1. /\ TypeInv /\ LayoutInv /\ RoomInv /\ OrderInv /\ LinesInv /\ UploadedOnce /\ FirstInv
        /\ ~HasEnd /\ InFile
        /\ Passed({"vector", "measure"}) # {} => pi.seen_vectors
        /\ pi.seen_vectors => \E j \in 1 .. lineno : FirstVector(j)
    BY <1>1, Parsing
  <2>2. /\ pc' = pc /\ resume' = resume /\ file' = file /\ files' = files /\ sram' = sram /\ rd' = rd
        /\ ran' = ran /\ batches' = batches /\ failed' = failed /\ uploaded' = uploaded
        /\ lineno' = lineno + 1
    BY <1>3 DEF ParsePindef, Stage, noParse
  <2>3. /\ "SETUP_BITMASK" \in Staging /\ "SETUP_BITMASK" # "END" /\ "SETUP_BITMASK" # "TEST_VECTOR"
        /\ "SETUP_BITMASK" # "PLLRECONFIG"
    BY DEF Staging
  <2>4. /\ pi' \in ParserInfo /\ Grows("SETUP_BITMASK")
        /\ pi'.seen_vectors = pi.seen_vectors /\ pi'.output = pi.output
        /\ pi'.design = pi.design /\ pi'.design_result_id = pi.design_result_id
    <3>1. pi' = Staged(pi, "SETUP_BITMASK", lineno)
      BY <1>3 DEF ParsePindef, Stage
    <3> QED
      <4>1. pi \in ParserInfo
        BY <2>1 DEF TypeInv
      <4>2. /\ pi' \in ParserInfo /\ pi'.stage = pi.stage \o Record("SETUP_BITMASK", lineno)
            /\ pi'.free = pi.free - req_sz("SETUP_BITMASK")
            /\ pi'.seen_vectors = pi.seen_vectors /\ pi'.output = pi.output
            /\ pi'.design = pi.design /\ pi'.design_result_id = pi.design_result_id
        BY <1>1, <2>3, <3>1, <4>1, StagedFields, Zenon
      <4> QED
        BY <4>2 DEF Grows, WithRecord
  <2>5. TypeInv'
    BY <1>1, <2>1, <2>2, <2>4 DEF TypeInv
  <2>6. LayoutInv' /\ RoomInv'
    BY <1>1, <1>3, <2>1, <2>2, <2>3, <2>4, <2>5, GrowLayout, GrowRoom
  <2>7. Range(Record("SETUP_BITMASK", lineno)) = {Cell("SETUP_BITMASK", lineno)}
    BY <1>1, <2>3, RecordInPlace
  <2>8. Wanted' = Wanted \cup {Cell("SETUP_BITMASK", lineno)}
    BY <1>1, <2>1, <2>2, <2>4, NextLineWanted
  <2>9. \A c \in Wanted : Precedes(c, Cell("SETUP_BITMASK", lineno))
    BY <2>1, <2>3, PrecedesHere
  <2>10. Passed({"vector", "measure"})' = Passed({"vector", "measure"})
    <3>1. \A kinds : Passed(kinds)' = Passed(kinds) \cup (IF file[lineno] \in kinds THEN {lineno} ELSE {})
      BY <2>1, <2>2, NextLinePassed
    <3> QED
      BY <1>1, <3>1
  <2>11. pi'.seen_vectors => \E j \in 1 .. lineno' : FirstVector(j)'
    BY <2>1, <2>2, <2>4, NextLinePll
  <2>12. OrderInv'
    BY <1>1, <2>1, <2>2, <2>3, <2>4, <2>5, <2>7, <2>8, <2>9, <2>10, <2>11, ExtendOrder
  <2>13. LinesInv'
    BY <1>1, <2>1, <2>2, <2>3, <2>4, <2>5, GrowLines
  <2>14. FirstInv'
    BY <1>1, <2>1, <2>2, <2>3, <2>4, <2>5, GrowFirst
  <2> QED
    BY <1>1, <2>1, <2>2, <2>5, <2>6, <2>12, <2>13, <2>14, SameUploaded DEF IInv, SuspendInv, BatchInv
<1> QED
  BY <1>2, <1>3

LEMMA ParseDesignStep ==
  ASSUME IInv, ParseDesign
  PROVE  IInv'
<1>1. /\ pc = "parse" /\ UNCHANGED noParse
      /\ lineno \in DOMAIN file /\ lineno \in Nat /\ lineno >= 1 /\ file[lineno] = "design"
      /\ lineno + 1 \in 1 .. Len(file) + 1
  BY AtLineFacts DEF ParseDesign, IInv
<1>2. CASE pi.design # 0
  <2>1. suspend_emit("design") /\ lineno' = lineno
    BY <1>2 DEF ParseDesign
  <2> QED
    BY <1>1, <2>1, SuspendStep
<1>3. CASE pi.design = 0
  <2>1. /\ TypeInv /\ LayoutInv /\ RoomInv /\ OrderInv /\ LinesInv /\ UploadedOnce /\ FirstInv
        /\ ~HasEnd /\ InFile
        /\ Range(All) = Wanted /\ InPlace(All)
        /\ Passed({"vector", "measure"}) # {} => pi.seen_vectors
        /\ pi.seen_vectors => \E j \in 1 .. lineno : FirstVector(j)
    BY <1>1, Parsing
  <2>2. /\ pc' = pc /\ resume' = resume /\ file' = file /\ files' = files /\ sram' = sram /\ rd' = rd
        /\ ran' = ran /\ batches' = batches /\ failed' = failed /\ uploaded' = uploaded
        /\ lineno' = lineno + 1
    BY <1>3 DEF ParseDesign, noParse
  <2>3. /\ pi' \in ParserInfo /\ pi'.stage = pi.stage /\ pi'.free = pi.free
        /\ pi'.seen_vectors = pi.seen_vectors /\ pi'.output = pi.output
        /\ pi'.design = lineno /\ pi'.design_result_id = pi.design_result_id
    <3>1. pi' = [pi EXCEPT !.design = lineno] /\ pi \in ParserInfo
      BY <1>3, <2>1 DEF ParseDesign, TypeInv
    <3> QED
      BY <1>1, <3>1 DEF ParserInfo
  <2>4. TypeInv'
    BY <1>1, <2>1, <2>2, <2>3 DEF TypeInv
  <2>5. (HasEnd' <=> HasEnd) /\ Program' = Program
    BY <2>3, SameProgram
  <2>6. LayoutInv' /\ RoomInv'
    BY <2>1, <2>2, <2>3, <2>5 DEF LayoutInv, RoomInv, Is
  <2>7. Wanted' = Wanted
    BY <1>1, <2>1, <2>2, <2>3, NextLineWanted
  <2>8. \A kinds : Passed(kinds)' = Passed(kinds) \cup (IF file[lineno] \in kinds THEN {lineno} ELSE {})
    BY <2>1, <2>2, NextLinePassed
  <2>9. Passed({"vector", "measure"})' = Passed({"vector", "measure"}) /\ Passed({"vector"})' = Passed({"vector"})
    BY <1>1, <2>8
  <2>10. pi'.seen_vectors => \E j \in 1 .. lineno' : FirstVector(j)'
    BY <2>1, <2>2, <2>3, NextLinePll
  <2>11. All' = All
    BY <2>2, <2>5 DEF All
  <2>12. Range(All') = Wanted' /\ InPlace(All')
    BY <2>1, <2>7, <2>11
  <2>13. OrderInv'
    BY <2>1, <2>3, <2>9, <2>10, <2>12 DEF OrderInv
  <2>14. LinesInv'
    <3>1. \A k \in DOMAIN uploaded : uploaded[k].line \in Nat
      BY <2>1, UploadedIsSeq DEF Results
    <3>2. \A m \in DOMAIN pi.stage : pi.stage[m].line \in 1 .. lineno - 1 => pi.stage[m].line \in 1 .. lineno'- 1
      BY <1>1, <2>2
    <3>3. \A k \in DOMAIN uploaded : uploaded[k].line < lineno => uploaded[k].line < lineno'
      BY <1>1, <2>2, <3>1
    <3> QED
      BY <1>1, <2>1, <2>2, <2>3, <3>2, <3>3 DEF LinesInv, Is, InFile
  <2>15. FirstInv'
    <3>1. StagedLines' = StagedLines
      BY <2>3 DEF StagedLines, Is
    <3>2. FirstBatch' => FirstBatch
      BY <2>1, <2>2 DEF FirstBatch
    <3>3. FirstBatch' => (lineno' > 1 /\ file'[1] = "design" => pi'.design = 1)
      BY <1>1, <1>3, <2>1, <2>2, <2>3, <3>2 DEF FirstInv
    <3> QED
      BY <1>1, <2>1, <2>2, <2>3, <2>9, <3>1, <3>2, <3>3 DEF FirstInv, SmallFileReported
  <2> QED
    BY <1>1, <2>1, <2>2, <2>4, <2>6, <2>13, <2>14, <2>15, SameUploaded DEF IInv, SuspendInv, BatchInv
<1> QED
  BY <1>2, <1>3

LEMMA ParseMeasureStep ==
  ASSUME IInv, ParseMeasure
  PROVE  IInv'
<1>1. /\ pc = "parse" /\ UNCHANGED noParse /\ lineno' = lineno /\ pi.seen_vectors
      /\ lineno \in DOMAIN file /\ file[lineno] = "measure" /\ suspend_emit("measure")
  BY AtLineFacts DEF ParseMeasure, IInv
<1> QED
  BY <1>1, SuspendStep

LEMMA ParseBadStep ==
  ASSUME IInv, ParseBad
  PROVE  IInv'
<1>1. /\ pc = "parse" /\ pc' = "files" /\ resume' = resume /\ pi' = pi /\ lineno' = lineno /\ UNCHANGED noParse
  BY DEF ParseBad, AtLine
<1>2. TypeInv'
  BY <1>1 DEF IInv, TypeInv, noParse
<1>3. SmallFileReported'
  BY <1>1 DEF IInv, FirstInv, SmallFileReported, noParse
<1> QED
  BY <1>1, <1>2, <1>3, GivesUp DEF noParse

LEMMA EndOfFileStep ==
  ASSUME IInv, EndOfFile
  PROVE  IInv'
<1>1. pc = "parse" /\ UNCHANGED noParse /\ lineno' = lineno
  BY DEF EndOfFile
<1>2. CASE Fits("END")
  <2>1. suspend_emit("file")
    BY <1>2 DEF EndOfFile, suspend_emit
  <2> QED
    BY <1>1, <2>1, SuspendStep
<1>3. CASE ~Fits("END")
  <2>1. pc' = "files" /\ resume' = resume /\ pi' = pi
    BY <1>3 DEF EndOfFile
  <2>2. TypeInv'
    BY <1>1, <2>1 DEF IInv, TypeInv, noParse
  <2>3. SmallFileReported'
    BY <1>1, <2>1 DEF IInv, FirstInv, SmallFileReported, noParse
  <2> QED
    BY <1>1, <2>1, <2>2, <2>3, GivesUp DEF noParse
<1> QED
  BY <1>2, <1>3

LEMMA ParseStep ==
  ASSUME IInv, Parse
  PROVE  IInv'
  BY PreVectorsStep, ParseVectorStep, ParsePindefStep, ParseDesignStep, ParseMeasureStep, ParseBadStep,
     EndOfFileStep DEF Parse

(***************************************************************************)
(* Running a batch.                                                         *)
(***************************************************************************)
LEMMA LoadStep ==
  ASSUME IInv, Load
  PROVE  IInv'
<1>1. /\ pc = "load" /\ pc' = "run" /\ resume' = resume /\ file' = file /\ files' = files /\ lineno' = lineno
      /\ pi' = pi /\ rd' = rd /\ ran' = ran /\ batches' = batches /\ failed' = failed /\ uploaded' = uploaded
      /\ sram' = [c \in Cells |-> IF c < Len(pi.stage) THEN pi.stage[c + 1] ELSE sram[c]]
  BY DEF Load
<1>2. TypeInv /\ LayoutInv /\ RoomInv /\ OrderInv /\ SuspendInv /\ LinesInv /\ UploadedOnce /\ FirstInv
  BY DEF IInv
<1>3. /\ Len(pi.stage) \in Nat /\ DOMAIN pi.stage = 1 .. Len(pi.stage) /\ pi.free \in Int
      /\ \A k \in DOMAIN pi.stage : pi.stage[k] \in SramCells
  BY <1>2, StageIsSeq
<1>4. \A c \in Cells : c \in Nat
  BY Sizes DEF Cells, CellSize
<1>5. sram' \in [Cells -> SramCells]
  <2>1. \A c \in Cells : c < Len(pi.stage) => c + 1 \in DOMAIN pi.stage
    BY <1>3, <1>4
  <2>2. \A c \in Cells : sram[c] \in SramCells
    BY <1>2 DEF TypeInv
  <2> QED
    BY <1>1, <1>3, <2>1, <2>2
<1>6. TypeInv'
  BY <1>1, <1>2, <1>5 DEF TypeInv
<1>7. (HasEnd' <=> HasEnd) /\ Program' = Program
  BY <1>1, SameProgram
<1>8. LayoutInv' /\ RoomInv' /\ UploadedOnce' /\ SuspendInv'
  BY <1>1, <1>2, <1>7, SameUploaded DEF LayoutInv, RoomInv, Is, SuspendInv
<1>9. All' = All
  BY <1>1, <1>7 DEF All
<1>10. InFile' <=> InFile
  BY <1>1 DEF InFile
<1>11. OrderInv'
  BY <1>1, <1>2, <1>9, <1>10, SameOrder DEF OrderInv
<1>12. LinesInv'
  BY <1>1, <1>2, <1>10 DEF LinesInv, Is
<1>13. FirstInv'
  <2>1. Passed({"vector"})' = Passed({"vector"}) /\ StagedLines' = StagedLines
    BY <1>1 DEF Passed, StagedLines, Is
  <2>2. FirstBatch' => FirstBatch
    BY <1>1, <1>10 DEF FirstBatch
  <2> QED
    BY <1>1, <1>2, <2>1, <2>2 DEF FirstInv, SmallFileReported
<1>14. BatchInv'
  <2>1. SUFFICES ASSUME NEW k \in DOMAIN pi.stage
                 PROVE  sram'[k - 1].req = pi.stage[k].req /\ sram'[k - 1].line = pi.stage[k].line
    BY <1>1 DEF BatchInv, InSram
  <2>2. pi.free + 6 * Len(pi.stage) = SRAM_SIZE /\ pi.free > 0
    BY <1>2 DEF RoomInv, CellSize
  <2>3. k - 1 \in Nat /\ 6 * (k - 1 + 1) <= SRAM_SIZE /\ k - 1 < Len(pi.stage)
    BY <1>3, <2>2
  <2>4. k - 1 \in Cells
    BY <2>3, CellOfByte DEF CellSize
  <2>5. sram'[k - 1] = pi.stage[k - 1 + 1]
    BY <1>1, <2>3, <2>4
  <2>6. k - 1 + 1 = k
    BY <1>3
  <2> QED
    BY <2>5, <2>6
<1> QED
  BY <1>6, <1>8, <1>11, <1>12, <1>13, <1>14 DEF IInv

LEMMA RunSram ==
  ASSUME TypeInv, sram' = [c \in Cells |-> [sram[c] EXCEPT !.run = @ \/ c < Len(pi.stage)]]
  PROVE  /\ sram' \in [Cells -> SramCells]
         /\ \A c \in Cells : /\ sram'[c].req = sram[c].req /\ sram'[c].line = sram[c].line
                             /\ c < Len(pi.stage) => sram'[c].run
<1>1. ASSUME NEW c \in Cells
      PROVE  LET d == [sram[c] EXCEPT !.run = @ \/ c < Len(pi.stage)]
             IN  /\ d \in SramCells /\ d.req = sram[c].req /\ d.line = sram[c].line
                 /\ d.run = (sram[c].run \/ c < Len(pi.stage))
  <2>1. sram[c] \in SramCells
    BY DEF TypeInv
  <2>2. PICK b \in BOOLEAN : b = (sram[c].run \/ c < Len(pi.stage))
    OBVIOUS
  <2>3. [sram[c] EXCEPT !.run = @ \/ c < Len(pi.stage)] = [sram[c] EXCEPT !.run = b]
    BY <2>2
  <2>4. /\ [sram[c] EXCEPT !.run = b] \in SramCells /\ [sram[c] EXCEPT !.run = b].req = sram[c].req
        /\ [sram[c] EXCEPT !.run = b].line = sram[c].line /\ [sram[c] EXCEPT !.run = b].run = b
    BY <2>1 DEF SramCells
  <2> QED
    BY <2>2, <2>3, <2>4
<1> QED
  BY <1>1

LEMMA RunStep ==
  ASSUME IInv, Run
  PROVE  IInv'
<1>1. /\ pc = "run" /\ resume' = resume /\ file' = file /\ files' = files /\ lineno' = lineno
      /\ pi' = pi /\ failed' = failed /\ uploaded' = uploaded
      /\ batches' = (IF batches < 2 THEN batches + 1 ELSE 2) /\ rd' = [pos |-> 0, sz |-> 0, i |-> 1]
  BY DEF Run
<1>2. TypeInv /\ LayoutInv /\ RoomInv /\ OrderInv /\ SuspendInv /\ BatchInv /\ LinesInv /\ UploadedOnce /\ FirstInv
  BY DEF IInv
<1>3. /\ Len(pi.stage) \in Nat /\ DOMAIN pi.stage = 1 .. Len(pi.stage) /\ pi.free \in Int
      /\ \A k \in DOMAIN pi.stage : pi.stage[k] \in SramCells
      /\ pi.stage \in Seq(SramCells)
      /\ HasEnd <=> Len(pi.stage) > 0 /\ Is(Len(pi.stage), "END")
  BY <1>2, StageIsSeq
<1>4. batches' \in 0 .. 2 /\ batches' > 0 /\ (batches' = 1 => batches = 0)
      /\ rd' \in [pos : 0 .. SRAM_SIZE, sz : 0 .. ChunkSize, i : Nat \ {0}]
      /\ rd'.pos = 0 /\ rd'.i = 1
  BY <1>1, <1>2, Sizes DEF TypeInv
<1>5. CASE ~HasEnd
  <2>1. pc' = "astray" /\ sram' = sram /\ ran' = ran
    BY <1>5 DEF Run
  <2>2. TypeInv'
    BY <1>1, <1>2, <1>4, <2>1 DEF TypeInv
  <2> QED
    BY <1>1, <2>1, <2>2, GivesUp DEF SmallFileReported
<1>6. CASE HasEnd
  <2>1. /\ sram' = [c \in Cells |-> [sram[c] EXCEPT !.run = @ \/ c < Len(pi.stage)]]
        /\ pc' = IF resume = "team" THEN "files" ELSE "upload"
        /\ ran' = IF resume = "team" THEN ran ELSE ran \o Program
    BY <1>6 DEF Run
  <2>2. /\ sram' \in [Cells -> SramCells]
        /\ \A c \in Cells : /\ sram'[c].req = sram[c].req /\ sram'[c].line = sram[c].line
                            /\ c < Len(pi.stage) => sram'[c].run
    BY <1>2, <2>1, RunSram
  <2>3. (HasEnd' <=> HasEnd) /\ Program' = Program
    BY <1>1, SameProgram
  <2>4. CASE resume = "team"
    <3>1. TypeInv'
      BY <1>1, <1>2, <1>4, <2>1, <2>2, <2>4 DEF TypeInv
    <3> QED
      BY <1>1, <2>1, <2>4, <3>1, GivesUp DEF SmallFileReported
  <2>5. CASE resume # "team"
    <3>1. pc' = "upload" /\ ran' = ran \o Program /\ InFile
      BY <1>1, <2>1, <2>5 DEF InFile
    <3>2. Program \in Seq(SramCells)
      <4>1. Program = SubSeq(pi.stage, 1, Len(pi.stage) - 1)
        BY <1>6 DEF Program, Front
      <4>2. \A k \in 1 .. Len(pi.stage) - 1 : pi.stage[k] \in SramCells
        BY <1>3
      <4>3. 1 \in Int /\ Len(pi.stage) - 1 \in Int
        BY <1>3
      <4>4. SubSeq(pi.stage, 1, Len(pi.stage) - 1) \in Seq(SramCells)
        BY <4>2, <4>3, SubSeqProperties
      <4> QED
        BY <4>1, <4>4
    <3>3. TypeInv'
      <4>1. ran' \in Seq(SramCells)
        BY <1>2, <3>1, <3>2, ConcatProperties DEF TypeInv
      <4> QED
        BY <1>1, <1>2, <1>4, <2>2, <3>1, <4>1 DEF TypeInv
    <3>4. LayoutInv' /\ RoomInv' /\ UploadedOnce' /\ SuspendInv'
      BY <1>1, <1>2, <2>3, <3>1, SameUploaded DEF LayoutInv, RoomInv, Is, SuspendInv
    <3>5. OrderInv'
      <4>1. All = ran \o Program /\ All' = ran'
        BY <1>1, <3>1 DEF All
      <4>2. All' = All
        BY <3>1, <4>1
      <4> QED
        BY <1>1, <1>2, <3>1, <4>2, SameOrder
    <3>6. LinesInv'
      BY <1>1, <1>2, <3>1 DEF LinesInv, Is
    <3>7. \A k \in DOMAIN pi.stage : Ahead(k)'
      BY <1>1, <1>3, <1>4 DEF Ahead, CellSize
    <3>8. FirstInv'
      <4>1. Passed({"vector"})' = Passed({"vector"}) /\ StagedLines' = StagedLines
        BY <1>1 DEF Passed, StagedLines, Is
      <4>2. FirstBatch' => FirstBatch /\ uploaded = <<>>
        BY <1>1, <1>2, <1>4, <3>1 DEF FirstBatch, FirstInv
      <4>3. uploaded = <<>> => Len(uploaded) = 0 /\ DOMAIN uploaded = {}
        BY <1>2, UploadedIsSeq
      <4>4. /\ FirstBatch' =>
                /\ Range(pi'.output) = Passed({"vector"})'
                /\ \A m, n \in DOMAIN pi'.output : m < n => pi'.output[m] < pi'.output[n]
                /\ StagedLines' = Passed({"vector"})'
                /\ lineno' > 1 /\ file'[1] = "design" => pi'.design = 1
                /\ pi'.design_result_id \in {0, 1 + pi'.design}
                /\ pc' # "upload" => uploaded' = <<>> /\ pi'.design_result_id = 0
        BY <1>1, <1>2, <3>1, <4>1, <4>2 DEF FirstInv
      <4>5. pc' = "upload" /\ batches' = 1 =>
              /\ rd'.i = Len(uploaded') + 1
              /\ \A m \in DOMAIN pi'.stage : ~Ahead(m)' /\ Is(m, "TEST_VECTOR")' =>
                   \E k \in DOMAIN uploaded' : uploaded'[k].line = pi'.stage[m].line
              /\ DOMAIN uploaded' = {}
        BY <1>1, <1>4, <3>7, <4>2, <4>3 DEF FirstBatch
      <4> QED
        BY <3>1, <4>4, <4>5 DEF FirstInv, SmallFileReported
    <3>9. BatchInv'
      <4>1. HasEnd' /\ resume' # "team" /\ batches' > 0
        BY <1>1, <1>4, <1>6, <2>3, <2>5
      <4>2. ASSUME NEW k \in DOMAIN pi.stage
            PROVE  sram'[k - 1].req = pi.stage[k].req /\ sram'[k - 1].line = pi.stage[k].line /\ sram'[k - 1].run
        <5>1. sram[k - 1].req = pi.stage[k].req /\ sram[k - 1].line = pi.stage[k].line
          BY <1>1, <1>2 DEF BatchInv, InSram
        <5>2. pi.free + 6 * Len(pi.stage) = SRAM_SIZE /\ pi.free > 0
          BY <1>2 DEF RoomInv, CellSize
        <5>3. k - 1 \in Nat /\ 6 * (k - 1 + 1) <= SRAM_SIZE /\ k - 1 < Len(pi.stage)
          BY <1>3, <5>2
        <5>4. k - 1 \in Cells
          BY <5>3, CellOfByte DEF CellSize
        <5> QED
          BY <2>2, <5>1, <5>3, <5>4
      <4>3. 1 \in DOMAIN pi.stage /\ rd'.pos = CellSize * (1 - 1)
        BY <1>3, <1>4, <1>6 DEF CellSize
      <4>4. ~Is(1, "REST")
        <5>1. 1 - 1 \notin DOMAIN pi.stage
          BY <1>3
        <5> QED
          BY <1>2, <4>3, <5>1 DEF LayoutInv
      <4> QED
        BY <1>1, <3>1, <4>1, <4>2, <4>3, <4>4 DEF BatchInv, InSram, Is
    <3> QED
      BY <3>3, <3>4, <3>5, <3>6, <3>8, <3>9 DEF IInv
  <2> QED
    BY <2>4, <2>5
<1> QED
  BY <1>5, <1>6

LEMMA RunFailsStep ==
  ASSUME IInv, RunFails
  PROVE  IInv'
<1>1. TypeInv' /\ pi' = pi /\ uploaded' = uploaded
  BY DEF IInv, TypeInv, RunFails
<1>2. SmallFileReported'
  BY DEF RunFails, SmallFileReported
<1> QED
  BY <1>1, <1>2, GivesUp DEF RunFails

LEMMA CloseDirStep ==
  ASSUME IInv, CloseDir
  PROVE  IInv'
<1>1. TypeInv' /\ pi' = pi /\ uploaded' = uploaded
  BY DEF IInv, TypeInv, CloseDir
<1> QED
  BY <1>1, GivesUp DEF CloseDir, SmallFileReported

(***************************************************************************)
(* A file is opened; the first state.                                       *)
(***************************************************************************)
LEMMA EmptyStage ==
  ASSUME TypeInv', pi'.stage = <<>>
  PROVE  DOMAIN pi'.stage = {} /\ Len(pi'.stage) = 0 /\ ~HasEnd' /\ Program' = <<>> /\ LayoutInv' /\ StagedLines' = {}
<1>1. DOMAIN pi'.stage = {} /\ Len(pi'.stage) = 0
  OBVIOUS
<1>2. ~HasEnd'
  BY DEF HasEnd
<1>3. Program' = <<>>
  BY <1>2 DEF Program
<1> QED
  BY <1>1, <1>2, <1>3 DEF LayoutInv, StagedLines

LEMMA OpenFileStep ==
  ASSUME IInv, OpenFile
  PROVE  IInv'
<1>1. /\ pc' = "parse" /\ file' \in Files /\ files < MaxFiles /\ files' = files + 1 /\ lineno' = 1
      /\ pi' = init_parserinfo /\ ran' = <<>> /\ batches' = 0 /\ failed' = FALSE /\ uploaded' = <<>>
      /\ resume' = resume /\ sram' = sram /\ rd' = rd
  BY DEF OpenFile
<1>2. /\ pi' \in ParserInfo /\ pi'.stage = <<>> /\ pi'.free = SRAM_SIZE /\ ~pi'.seen_vectors
      /\ pi'.output = <<>> /\ pi'.design = 0 /\ pi'.design_result_id = 0
  BY <1>1, Sizes DEF init_parserinfo, ParserInfo
<1>3. file' \in Seq(Kinds)
  BY <1>1, ConfrdAssumption
<1>4. TypeInv'
  <2>1. lineno' \in 1 .. Len(file') + 1
    BY <1>1, <1>3, LenProperties
  <2>2. files' \in 0 .. MaxFiles
    BY <1>1, ConfrdAssumption DEF IInv, TypeInv
  <2>3. ran' \in Seq(SramCells) /\ uploaded' \in Seq(Results) /\ batches' \in 0 .. 2
    BY <1>1
  <2>4. /\ resume' \in {"team", "line", "design", "measure", "file"} /\ sram' \in [Cells -> SramCells]
        /\ rd' \in [pos : 0 .. SRAM_SIZE, sz : 0 .. ChunkSize, i : Nat \ {0}]
    BY <1>1 DEF IInv, TypeInv
  <2>5. pc' \in {"files", "parse", "load", "run", "upload", "exit", "astray"} /\ failed' \in BOOLEAN
    BY <1>1
  <2> QED
    BY <1>2, <1>3, <2>1, <2>2, <2>3, <2>4, <2>5 DEF TypeInv
<1>5. DOMAIN pi'.stage = {} /\ Len(pi'.stage) = 0 /\ ~HasEnd' /\ Program' = <<>> /\ LayoutInv' /\ StagedLines' = {}
  BY <1>2, <1>4, EmptyStage
<1>6. RoomInv'
  BY <1>2, <1>5, Sizes DEF RoomInv, CellSize
<1>7. \A kinds : Passed(kinds)' = {}
  BY <1>1 DEF Passed
<1>8. Wanted' = {}
  <2>1. PllLines' = {}
    BY <1>2 DEF PllLines
  <2>2. Wanted' = { Cell("TEST_VECTOR", k) : k \in Passed({"vector"})' }
             \cup { Cell("REST", k) : k \in Passed({"vector"})' }
             \cup { Cell("SETUP_BITMASK", k) : k \in Passed({"pindef"})' }
             \cup { Cell("PLLRECONFIG", k) : k \in PllLines' }
    BY DEF Wanted, PllLines
  <2> QED
    BY <1>7, <2>1, <2>2
<1>9. OrderInv'
  <2>1. All' = <<>>
    <3>1. All' = <<>> \o <<>>
      BY <1>1, <1>5 DEF All
    <3>2. <<>> \o <<>> = <<>>
      OBVIOUS
    <3> QED
      BY <3>1, <3>2
  <2>2. Range(All') = {} /\ InPlace(All')
    BY <2>1 DEF Range, InPlace
  <2> QED
    BY <1>2, <1>7, <1>8, <2>2 DEF OrderInv
<1>10. DOMAIN uploaded' = {} /\ DOMAIN pi'.output = {}
  BY <1>1, <1>2
<1>11. SuspendInv' /\ BatchInv' /\ LinesInv' /\ UploadedOnce'
  BY <1>1, <1>5, <1>10 DEF SuspendInv, BatchInv, LinesInv, UploadedOnce
<1>12. FirstInv'
  <2>1. Range(pi'.output) = {}
    BY <1>2 DEF Range
  <2>2. Range(pi'.output) = Passed({"vector"})' /\ StagedLines' = Passed({"vector"})'
    BY <1>5, <1>7, <2>1
  <2>3. ~(lineno' > 1)
    BY <1>1
  <2>4. \A m, n \in DOMAIN pi'.output : m < n => pi'.output[m] < pi'.output[n]
    BY <1>10
  <2> QED
    BY <1>1, <1>2, <2>2, <2>3, <2>4 DEF FirstInv, SmallFileReported
<1> QED
  BY <1>4, <1>5, <1>6, <1>9, <1>11, <1>12 DEF IInv

LEMMA InitIInv ==
  ASSUME Init
  PROVE  IInv
<1> DEFINE p == Staged(init_parserinfo, "SWITCH_TARGET", 0)
<1>1. /\ init_parserinfo \in ParserInfo /\ init_parserinfo.stage = <<>> /\ init_parserinfo.free = SRAM_SIZE
      /\ SRAM_SIZE \in Nat /\ SRAM_SIZE >= 32
      /\ "SWITCH_TARGET" \in Staging /\ "END" \in Staging /\ 0 \in Nat
  BY Sizes DEF init_parserinfo, ParserInfo, Staging
<1>2. p \in ParserInfo /\ p.stage = <<>> \o Record("SWITCH_TARGET", 0) /\ p.free = SRAM_SIZE - 6
  <2>1. /\ p \in ParserInfo /\ p.stage = init_parserinfo.stage \o Record("SWITCH_TARGET", 0)
        /\ p.free = init_parserinfo.free - req_sz("SWITCH_TARGET")
    BY <1>1, StagedFields
  <2>2. req_sz("SWITCH_TARGET") = 6
    BY DEF req_sz, CellSize
  <2> HIDE DEF p
  <2> QED
    BY <1>1, <2>1, <2>2
<1>3. pi = Staged(p, "END", 0)
  BY DEF Init
<1> HIDE DEF p
<1>4. pi \in ParserInfo /\ pi.stage = p.stage \o Record("END", 0) /\ pi.free = SRAM_SIZE - 12
  <2>1. /\ pi \in ParserInfo /\ pi.stage = p.stage \o Record("END", 0)
        /\ pi.free = p.free - req_sz("END")
    BY <1>1, <1>2, <1>3, StagedFields
  <2>2. req_sz("END") = 6
    BY DEF req_sz, CellSize
  <2>3. pi.free = SRAM_SIZE - 12
    BY <1>1, <1>2, <2>1, <2>2
  <2> QED
    BY <2>1, <2>3
<1>5. IsExtended(p.stage, <<>>, "SWITCH_TARGET", 0, 0)
  <2>1. WithRecord(p.stage, <<>>, "SWITCH_TARGET", 0)
    BY <1>2 DEF WithRecord
  <2>2. <<>> \in Seq(SramCells) /\ 0 = Len(<<>>)
    OBVIOUS
  <2> QED
    BY <1>1, <2>1, <2>2, CellsWithRecord
<1>6. IsExtended(pi.stage, p.stage, "END", 0, 1)
  <2>1. WithRecord(pi.stage, p.stage, "END", 0)
    BY <1>4 DEF WithRecord
  <2>2. p.stage \in Seq(SramCells) /\ Len(p.stage) = 1
    BY <1>2, <1>5 DEF ParserInfo, IsExtended
  <2> QED
    BY <1>1, <2>1, <2>2, CellsWithRecord
<1>7. /\ Len(pi.stage) = 2 /\ pi.stage[1] = Cell("SWITCH_TARGET", 0) /\ pi.stage[2] = Cell("END", 0)
      /\ pi.stage # <<>>
  BY <1>5, <1>6 DEF IsExtended
<1>8. /\ \A r \in {"SWITCH_TARGET", "END", "REST"} : Cell(r, 0).req = r /\ ~Cell(r, 0).run
      /\ \A r \in {"TEST_VECTOR", "REST"} : [Cell(r, 0) EXCEPT !.run = TRUE] \in SramCells
  BY DEF Cell, SramCells, Reqs
<1>9. sram \in [Cells -> SramCells]
  <2>1. \A c \in Cells : OldCell(c) \in SramCells
    BY <1>8 DEF OldCell
  <2> QED
    BY <2>1 DEF Init
<1>10. TypeInv
  <2>1. file \in Seq(Kinds) /\ ran \in Seq(SramCells) /\ uploaded \in Seq(Results) /\ Len(file) = 0
    BY DEF Init
  <2>2. files \in 0 .. MaxFiles /\ rd \in [pos : 0 .. SRAM_SIZE, sz : 0 .. ChunkSize, i : Nat \ {0}]
    BY Sizes, ConfrdAssumption DEF Init
  <2>3. lineno = 1 /\ batches = 0
    BY DEF Init
  <2>4. lineno \in 1 .. Len(file) + 1 /\ batches \in 0 .. 2
    BY <2>1, <2>3
  <2>5. /\ pc \in {"files", "parse", "load", "run", "upload", "exit", "astray"}
        /\ resume \in {"team", "line", "design", "measure", "file"} /\ failed \in BOOLEAN
    BY DEF Init
  <2> QED
    BY <1>4, <1>9, <2>1, <2>2, <2>4, <2>5 DEF TypeInv
<1>11. DOMAIN pi.stage = {1, 2}
  <2>1. DOMAIN pi.stage = 1 .. 2
    BY <1>7, <1>10, StageIsSeq
  <2> QED
    BY <2>1
<1>12. HasEnd /\ LayoutInv
  BY <1>7, <1>8, <1>11 DEF HasEnd, Last, LayoutInv, Is, Init
<1>13. RoomInv
  BY <1>1, <1>4, <1>7, <1>12 DEF RoomInv, CellSize
<1>14. DOMAIN uploaded = {} /\ ~InFile /\ ~FirstBatch /\ pc = "load" /\ resume = "team"
  BY DEF Init, InFile, FirstBatch
<1>15. OrderInv /\ SuspendInv /\ BatchInv /\ LinesInv /\ UploadedOnce /\ FirstInv
  BY <1>14 DEF OrderInv, SuspendInv, BatchInv, LinesInv, UploadedOnce, FirstInv, SmallFileReported
<1> QED
  BY <1>10, <1>12, <1>13, <1>15 DEF IInv

(***************************************************************************)
(* Reading the results back.                                                *)
(***************************************************************************)
LEMMA Uploading ==
  ASSUME IInv, pc = "upload"
  PROVE  /\ TypeInv /\ LayoutInv /\ RoomInv /\ OrderInv /\ SuspendInv /\ BatchInv /\ LinesInv /\ UploadedOnce /\ FirstInv
         /\ HasEnd /\ resume # "team" /\ batches > 0 /\ InFile
         /\ Len(pi.stage) \in Nat /\ DOMAIN pi.stage = 1 .. Len(pi.stage)
         /\ Len(pi.stage) > 0 /\ Is(Len(pi.stage), "END")
         /\ pi.free + 6 * Len(pi.stage) = SRAM_SIZE /\ pi.free \in Int /\ pi.free > 0
         /\ lineno \in Nat /\ lineno >= 1
         /\ \E j \in DOMAIN pi.stage : rd.pos = CellSize * (j - 1) /\ ~Is(j, "REST")
<1>1. TypeInv /\ LayoutInv /\ RoomInv /\ OrderInv /\ SuspendInv /\ BatchInv /\ LinesInv /\ UploadedOnce /\ FirstInv
  BY DEF IInv
<1>2. /\ HasEnd /\ resume # "team" /\ batches > 0 /\ InFile
      /\ \E j \in DOMAIN pi.stage : rd.pos = CellSize * (j - 1) /\ ~Is(j, "REST")
  BY <1>1 DEF BatchInv, InFile
<1>3. pi.free + 6 * Len(pi.stage) = SRAM_SIZE /\ pi.free > 0
  BY <1>1 DEF RoomInv, CellSize
<1>4. lineno \in Nat /\ lineno >= 1
  BY <1>1, StageIsSeq DEF TypeInv
<1> QED
  BY <1>1, <1>2, <1>3, <1>4, StageIsSeq

LEMMA HereIs ==
  ASSUME IInv, pc = "upload", NEW j \in DOMAIN pi.stage, rd.pos = CellSize * (j - 1)
  PROVE  Here.req = pi.stage[j].req /\ Here.line = pi.stage[j].line /\ Here.run
<1>1. j - 1 \in Nat
  BY Uploading
<1>2. rd.pos \div CellSize = j - 1
  BY <1>1, CellOfByte
<1>3. /\ sram[j - 1].req = pi.stage[j].req /\ sram[j - 1].line = pi.stage[j].line
      /\ sram[j - 1].run
  BY DEF IInv, BatchInv, InSram
<1> QED
  BY <1>2, <1>3 DEF Here

LEMMA ReturnStep ==
  ASSUME IInv, pc = "upload", Return, UNCHANGED noUpload, rd' = rd, uploaded' = uploaded,
         failed' \in BOOLEAN, SmallFileReported'
  PROVE  IInv'
<1>1. /\ TypeInv /\ LayoutInv /\ RoomInv /\ OrderInv /\ SuspendInv /\ LinesInv /\ UploadedOnce
      /\ resume # "team" /\ batches > 0 /\ InFile /\ lineno \in Nat /\ lineno >= 1
  BY Uploading
<1>2. /\ resume' = resume /\ file' = file /\ files' = files /\ sram' = sram /\ ran' = ran /\ batches' = batches
  BY DEF noUpload
<1>3. CASE resume = "file"
  <2>1. pc' = "files" /\ pi' = pi /\ lineno' = lineno
    BY <1>3 DEF Return
  <2>2. TypeInv'
    BY <1>1, <1>2, <2>1 DEF TypeInv
  <2> QED
    BY <2>1, <2>2, GivesUp
<1>4. CASE resume # "file"
  <2>1. /\ pc' \in {"parse", "files"}
        /\ lineno' = IF resume \in {"design", "measure"} THEN lineno + 1 ELSE lineno
        /\ pi' = [pi EXCEPT !.stage = <<>>, !.free = SRAM_SIZE,
                            !.design = IF resume = "design" THEN lineno ELSE @]
    BY <1>4 DEF Return
  <2>2. /\ pi' \in ParserInfo /\ pi'.stage = <<>> /\ pi'.free = SRAM_SIZE
        /\ pi'.seen_vectors = pi.seen_vectors
    <3>1. PICK d \in Nat : d = IF resume = "design" THEN lineno ELSE pi.design
      BY <1>1 DEF TypeInv, ParserInfo
    <3>2. PICK s \in Seq(SramCells) : s = <<>>
      BY EmptySeq
    <3>3. pi' = [pi EXCEPT !.stage = s, !.free = SRAM_SIZE, !.design = d]
      BY <2>1, <3>1, <3>2
    <3>4. pi \in ParserInfo /\ SRAM_SIZE \in Int
      BY <1>1, Sizes DEF TypeInv
    <3>5. /\ pi' \in ParserInfo /\ pi'.stage = s /\ pi'.free = SRAM_SIZE
          /\ pi'.seen_vectors = pi.seen_vectors
      BY <3>1, <3>3, <3>4 DEF ParserInfo
    <3> QED
      BY <3>2, <3>5
  <2>3. resume \in {"design", "measure"} =>
          /\ lineno \in DOMAIN file /\ file[lineno] = resume /\ lineno + 1 \in 1 .. Len(file) + 1
          /\ resume = "measure" => pi.seen_vectors
    <3>1. Len(file) \in Nat /\ DOMAIN file = 1 .. Len(file)
      BY <1>1, LenProperties DEF TypeInv
    <3> QED
      BY <1>1, <3>1 DEF SuspendInv
  <2>4. TypeInv'
    <3>1. lineno' \in 1 .. Len(file') + 1
      BY <1>1, <1>2, <2>1, <2>3 DEF TypeInv
    <3> QED
      BY <1>1, <1>2, <2>1, <2>2, <3>1 DEF TypeInv
  <2>5. DOMAIN pi'.stage = {} /\ Len(pi'.stage) = 0 /\ ~HasEnd' /\ Program' = <<>> /\ LayoutInv' /\ StagedLines' = {}
    BY <2>2, <2>4, EmptyStage
  <2>6. RoomInv'
    BY <2>2, <2>5, Sizes DEF RoomInv, CellSize
  <2>7. OrderInv'
    <3>1. /\ Range(ran) = Wanted /\ InPlace(ran)
          /\ Passed({"vector", "measure"}) # {} => pi.seen_vectors
          /\ pi.seen_vectors => \E j \in 1 .. lineno : FirstVector(j)
      BY <1>1 DEF OrderInv, All
    <3>2. All' = ran
      <4>1. All' = ran \o <<>>
        BY <1>2, <2>1, <2>5 DEF All
      <4>2. ran \in Seq(SramCells)
        BY <1>1 DEF TypeInv
      <4> QED
        BY <4>1, <4>2, ConcatEmptySeq
    <3>3. CASE resume \notin {"design", "measure"}
      <4>1. lineno' = lineno
        BY <2>1, <3>3
      <4>2. /\ Wanted' = Wanted /\ Passed({"vector", "measure"})' = Passed({"vector", "measure"})
            /\ (\E j \in 1 .. lineno' : FirstVector(j)') <=> (\E j \in 1 .. lineno : FirstVector(j))
        BY <1>2, <2>2, <4>1, SameWanted
      <4> QED
        BY <2>2, <3>1, <3>2, <4>2 DEF OrderInv
    <3>4. CASE resume \in {"design", "measure"}
      <4>1. lineno' = lineno + 1 /\ file[lineno] \in {"design", "measure"}
        BY <2>1, <2>3, <3>4
      <4>2. Wanted' = Wanted
        BY <1>1, <1>2, <2>2, <3>1, <4>1, NextLineWanted
      <4>3. \A kinds : Passed(kinds)' = Passed(kinds) \cup (IF file[lineno] \in kinds THEN {lineno} ELSE {})
        BY <1>1, <1>2, <4>1, NextLinePassed
      <4>4. Passed({"vector", "measure"})' # {} => pi'.seen_vectors
        <5>1. CASE resume = "measure"
          BY <2>2, <2>3, <5>1
        <5>2. CASE resume = "design"
          BY <2>2, <2>3, <3>1, <4>3, <5>2
        <5> QED
          BY <3>4, <5>1, <5>2
      <4>5. pi'.seen_vectors => \E j \in 1 .. lineno' : FirstVector(j)'
        BY <1>1, <1>2, <2>2, <3>1, <4>1, NextLinePll
      <4> QED
        BY <3>1, <3>2, <4>2, <4>4, <4>5 DEF OrderInv
    <3> QED
      BY <3>3, <3>4
  <2>8. LinesInv'
    <3>1. \A k \in DOMAIN uploaded : uploaded[k].line < lineno /\ uploaded[k].line \in Nat
      BY <1>1, UploadedIsSeq DEF LinesInv, Results
    <3>2. \A k \in DOMAIN uploaded : uploaded[k].line < lineno'
      BY <1>1, <2>1, <3>1
    <3> QED
      BY <2>5, <3>2 DEF LinesInv
  <2>9. FirstInv'
    <3>1. ~FirstBatch' /\ pc' # "upload"
      <4>1. batches' # 0
        BY <1>1, <1>2 DEF TypeInv
      <4> QED
        BY <2>1, <4>1 DEF FirstBatch
    <3> QED
      BY <1>2, <1>4, <3>1 DEF FirstInv
  <2>10. SuspendInv' /\ BatchInv' /\ UploadedOnce'
    BY <1>1, <2>1, SameUploaded DEF SuspendInv, BatchInv
  <2> QED
    BY <2>4, <2>5, <2>6, <2>7, <2>8, <2>9, <2>10 DEF IInv
<1> QED
  BY <1>3, <1>4

LEMMA RequestFailsStep ==
  ASSUME IInv, RequestFails
  PROVE  IInv'
<1>1. /\ pc = "upload" /\ Return /\ UNCHANGED noUpload /\ rd' = rd /\ uploaded' = uploaded /\ failed' = TRUE
  BY DEF RequestFails
<1>2. SmallFileReported' /\ failed' \in BOOLEAN
  BY <1>1 DEF SmallFileReported
<1> QED
  BY <1>1, <1>2, ReturnStep

LEMMA CreateDesignStep ==
  ASSUME IInv, CreateDesign
  PROVE  IInv'
<1>1. /\ pc = "upload" /\ pc' = pc /\ lineno' = lineno /\ rd' = rd /\ failed' = failed /\ uploaded' = uploaded
      /\ resume' = resume /\ file' = file /\ files' = files /\ sram' = sram /\ ran' = ran /\ batches' = batches
  BY DEF CreateDesign, noUpload
<1>2. /\ TypeInv /\ LayoutInv /\ RoomInv /\ OrderInv /\ SuspendInv /\ BatchInv /\ LinesInv /\ UploadedOnce
      /\ FirstInv /\ InFile
  BY <1>1, Uploading
<1>3. /\ pi' \in ParserInfo /\ pi'.stage = pi.stage /\ pi'.free = pi.free /\ pi'.seen_vectors = pi.seen_vectors
      /\ pi'.output = pi.output /\ pi'.design = pi.design /\ pi'.design_result_id = 1 + pi.design
  <2>1. PICK n \in Nat : n = 1 + pi.design
    BY <1>2 DEF TypeInv, ParserInfo
  <2>2. pi' = [pi EXCEPT !.design_result_id = n] /\ pi \in ParserInfo
    BY <1>2, <2>1 DEF CreateDesign, TypeInv
  <2>3. /\ pi' \in ParserInfo /\ pi'.stage = pi.stage /\ pi'.free = pi.free /\ pi'.seen_vectors = pi.seen_vectors
        /\ pi'.output = pi.output /\ pi'.design = pi.design /\ pi'.design_result_id = n
    BY <2>2 DEF ParserInfo
  <2> QED
    BY <2>1, <2>3
<1>4. TypeInv'
  BY <1>1, <1>2, <1>3 DEF TypeInv
<1>5. (HasEnd' <=> HasEnd) /\ Program' = Program
  BY <1>3, SameProgram
<1>6. LayoutInv' /\ RoomInv' /\ UploadedOnce' /\ SuspendInv'
  BY <1>1, <1>2, <1>3, <1>5, SameUploaded DEF LayoutInv, RoomInv, Is, SuspendInv
<1>7. OrderInv'
  <2>1. All' = All
    BY <1>1, <1>5 DEF All
  <2> QED
    BY <1>1, <1>2, <1>3, <2>1, SameOrder
<1>8. BatchInv' /\ LinesInv'
  <2>1. \A k : (Ahead(k)' <=> Ahead(k)) /\ (InSram(k, TRUE)' <=> InSram(k, TRUE))
    BY <1>1, <1>3 DEF Ahead, InSram
  <2>2. BatchInv'
    BY <1>1, <1>2, <1>3, <1>5, <2>1 DEF BatchInv, Is
  <2>3. LinesInv'
    BY <1>1, <1>2, <1>3, <2>1 DEF LinesInv, Is, InFile
  <2> QED
    BY <2>2, <2>3
<1>9. FirstInv'
  <2>1. /\ Passed({"vector"})' = Passed({"vector"}) /\ StagedLines' = StagedLines /\ (FirstBatch' <=> FirstBatch)
        /\ \A k : Ahead(k)' <=> Ahead(k)
    BY <1>1, <1>3 DEF Passed, StagedLines, Is, FirstBatch, InFile, Ahead
  <2> QED
    BY <1>1, <1>2, <1>3, <2>1 DEF FirstInv, Is, SmallFileReported
<1> QED
  BY <1>4, <1>6, <1>7, <1>8, <1>9 DEF IInv

(***************************************************************************)
(* The last record: everything that was run has been uploaded.              *)
(***************************************************************************)
LEMMA EndReached ==
  ASSUME IInv, pc = "upload", Here.req = "END", Return, UNCHANGED noUpload, uploaded' = uploaded, failed' = failed
  PROVE  SmallFileReported'
<1>1. /\ TypeInv /\ LayoutInv /\ FirstInv
      /\ Len(pi.stage) \in Nat /\ DOMAIN pi.stage = 1 .. Len(pi.stage) /\ Is(Len(pi.stage), "END")
      /\ lineno \in Nat /\ lineno >= 1
  BY Uploading
<1>2. PICK j \in DOMAIN pi.stage : rd.pos = CellSize * (j - 1) /\ ~Is(j, "REST")
  BY Uploading
<1>3. SUFFICES ASSUME resume = "file", batches = 1, lineno > Len(file)
               PROVE  /\ { uploaded[k].line : k \in DOMAIN uploaded } = VectorLines
                      /\ \A k \in DOMAIN uploaded :
                           /\ uploaded[k].expected = uploaded[k].line
                           /\ file[1] = "design" => uploaded[k].design = 1
  <2>1. /\ resume' = resume /\ file' = file /\ batches' = batches /\ (resume = "file" => lineno' = lineno)
        /\ VectorLines' = VectorLines
    BY DEF noUpload, Return, VectorLines
  <2> QED
    BY <2>1 DEF SmallFileReported
<1>4. FirstBatch
  BY <1>3 DEF FirstBatch
<1>5. /\ Range(pi.output) = Passed({"vector"}) /\ StagedLines = Passed({"vector"})
      /\ \A m \in DOMAIN pi.stage : ~Ahead(m) /\ Is(m, "TEST_VECTOR") =>
           \E k \in DOMAIN uploaded : uploaded[k].line = pi.stage[m].line
      /\ \A k \in DOMAIN uploaded :
           /\ k \in DOMAIN pi.output /\ uploaded[k].line = pi.output[k] /\ uploaded[k].expected = pi.output[k]
           /\ file[1] = "design" => uploaded[k].design = 1
  BY <1>1, <1>3, <1>4 DEF FirstInv
<1>6. Passed({"vector"}) = VectorLines
  <2>1. Len(file) \in Nat /\ DOMAIN file = 1 .. Len(file)
    BY <1>1, LenProperties DEF TypeInv
  <2>2. lineno - 1 = Len(file)
    BY <1>1, <1>3, <2>1 DEF TypeInv
  <2> QED
    BY <2>1, <2>2 DEF Passed, VectorLines
<1>7. j = Len(pi.stage)
  <2>1. pi.stage[j].req = "END"
    BY <1>2, HereIs
  <2> QED
    BY <1>1, <1>2, <2>1 DEF LayoutInv, Is
<1>8. \A m \in DOMAIN pi.stage : Is(m, "TEST_VECTOR") => ~Ahead(m)
  <2> SUFFICES ASSUME NEW m \in DOMAIN pi.stage, Is(m, "TEST_VECTOR") PROVE ~Ahead(m)
    OBVIOUS
  <2>1. m # Len(pi.stage)
    BY <1>1 DEF Is
  <2>2. m < j
    BY <1>1, <1>7, <2>1
  <2>3. rd.pos = 6 * (j - 1) /\ j \in Nat /\ m \in Nat
    BY <1>1, <1>2 DEF CellSize
  <2> QED
    BY <2>2, <2>3 DEF Ahead, CellSize
<1>9. { uploaded[k].line : k \in DOMAIN uploaded } = VectorLines
  <2>1. ASSUME NEW k \in DOMAIN uploaded
        PROVE  uploaded[k].line \in VectorLines
    BY <1>5, <1>6 DEF Range
  <2>2. ASSUME NEW l \in VectorLines
        PROVE  \E k \in DOMAIN uploaded : uploaded[k].line = l
    <3>1. PICK m \in DOMAIN pi.stage : Is(m, "TEST_VECTOR") /\ pi.stage[m].line = l
      BY <1>5, <1>6 DEF StagedLines
    <3> QED
      BY <1>5, <1>8, <3>1
  <2> QED
    BY <2>1, <2>2
<1> QED
  BY <1>5, <1>9

LEMMA UploadEndStep ==
  ASSUME IInv, UploadEnd
  PROVE  IInv'
<1>1. /\ pc = "upload" /\ Here.req = "END" /\ Return /\ UNCHANGED noUpload /\ rd' = rd /\ failed' = failed
      /\ uploaded' = uploaded
  BY DEF UploadEnd
<1>2. SmallFileReported'
  BY <1>1, EndReached
<1>3. failed' \in BOOLEAN
  BY <1>1 DEF IInv, TypeInv
<1> QED
  BY <1>1, <1>2, <1>3, ReturnStep

LEMMA ReadChunkStep ==
  ASSUME IInv, ReadChunk
  PROVE  IInv'
<1>1. /\ pc = "upload" /\ UNCHANGED noUpload /\ failed' = failed /\ uploaded' = uploaded
  BY DEF ReadChunk
<1>2. /\ TypeInv /\ LayoutInv /\ RoomInv /\ OrderInv /\ SuspendInv /\ BatchInv /\ LinesInv /\ UploadedOnce
      /\ FirstInv /\ InFile
      /\ Len(pi.stage) \in Nat /\ DOMAIN pi.stage = 1 .. Len(pi.stage)
      /\ pi.free + 6 * Len(pi.stage) = SRAM_SIZE /\ pi.free \in Int /\ pi.free > 0
  BY <1>1, Uploading
<1>3. CASE rd.pos + ChunkSize > SRAM_SIZE
  <2>1. Return /\ rd' = rd
    BY <1>3 DEF ReadChunk
  <2>2. PICK j \in DOMAIN pi.stage : rd.pos = CellSize * (j - 1)
    BY <1>1, Uploading
  <2>3. pi.free < ChunkSize
    <3>1. ChunkSize \in Nat /\ SRAM_SIZE \in Nat /\ rd.pos = 6 * (j - 1) /\ j \in 1 .. Len(pi.stage)
      BY <1>2, <2>2, Sizes DEF CellSize
    <3> QED
      BY <1>2, <1>3, <3>1, SMTT(30)
  <2>4. SmallFileReported'
    <3>1. resume' = resume /\ (resume = "file" => pi' = pi)
      BY <1>1, <2>1 DEF Return, noUpload
    <3>2. ~(pi.free >= ChunkSize)
      BY <1>2, <2>3, Sizes
    <3> QED
      BY <3>1, <3>2 DEF SmallFileReported
  <2>5. failed' \in BOOLEAN
    BY <1>1, <1>2 DEF TypeInv
  <2> QED
    BY <1>1, <2>1, <2>4, <2>5, ReturnStep
<1>4. CASE ~(rd.pos + ChunkSize > SRAM_SIZE)
  <2>1. /\ pc' = pc /\ lineno' = lineno /\ pi' = pi /\ rd' = [rd EXCEPT !.sz = ChunkSize]
        /\ resume' = resume /\ file' = file /\ files' = files /\ sram' = sram /\ ran' = ran /\ batches' = batches
    BY <1>1, <1>4 DEF ReadChunk, noUpload
  <2>2. /\ rd' \in [pos : 0 .. SRAM_SIZE, sz : 0 .. ChunkSize, i : Nat \ {0}]
        /\ rd'.pos = rd.pos /\ rd'.i = rd.i
    <3>1. ChunkSize \in 0 .. ChunkSize /\ rd \in [pos : 0 .. SRAM_SIZE, sz : 0 .. ChunkSize, i : Nat \ {0}]
      BY <1>2, Sizes DEF TypeInv
    <3> QED
      BY <2>1, <3>1
  <2>3. TypeInv'
    BY <1>1, <1>2, <2>1, <2>2 DEF TypeInv
  <2>4. (HasEnd' <=> HasEnd) /\ Program' = Program
    BY <2>1, SameProgram
  <2>5. LayoutInv' /\ RoomInv' /\ UploadedOnce' /\ SuspendInv'
    BY <1>1, <1>2, <2>1, <2>4, SameUploaded DEF LayoutInv, RoomInv, Is, SuspendInv
  <2>6. OrderInv'
    <3>1. All' = All
      BY <2>1, <2>4 DEF All
    <3> QED
      BY <1>2, <2>1, <3>1, SameOrder
  <2>7. \A k : (Ahead(k)' <=> Ahead(k)) /\ (InSram(k, TRUE)' <=> InSram(k, TRUE))
    BY <2>1, <2>2 DEF Ahead, InSram
  <2>8. BatchInv'
    BY <1>1, <1>2, <2>1, <2>2, <2>4, <2>7 DEF BatchInv, Is
  <2>9. LinesInv'
    BY <1>1, <1>2, <2>1, <2>7 DEF LinesInv, Is, InFile
  <2>10. FirstInv'
    <3>1. Passed({"vector"})' = Passed({"vector"}) /\ StagedLines' = StagedLines /\ (FirstBatch' <=> FirstBatch)
      BY <2>1 DEF Passed, StagedLines, Is, FirstBatch, InFile
    <3> QED
      BY <1>1, <1>2, <2>1, <2>2, <2>7, <3>1, ZenonT(60) DEF FirstInv, Is, SmallFileReported
  <2> QED
    BY <2>3, <2>5, <2>6, <2>8, <2>9, <2>10 DEF IInv
<1> QED
  BY <1>3, <1>4

(***************************************************************************)
(* From one record to the next.                                             *)
(***************************************************************************)
NextRecord(j) == IF Is(j, "TEST_VECTOR") THEN j + 2 ELSE j + 1

LEMMA SkipTo ==
  ASSUME IInv, pc = "upload", InChunk, Here.req # "END",
         NEW j \in DOMAIN pi.stage, rd.pos = CellSize * (j - 1), ~Is(j, "REST"),
         NEW n, n = NextRecord(j)
  PROVE  /\ n \in DOMAIN pi.stage /\ ~Is(n, "REST") /\ j < n
         /\ \A m \in DOMAIN pi.stage : j < m /\ m < n => ~Is(m, "TEST_VECTOR")
         /\ Skip(rd) \in [pos : 0 .. SRAM_SIZE, sz : 0 .. ChunkSize, i : Nat \ {0}]
         /\ Skip(rd).pos = CellSize * (n - 1) /\ Skip(rd).i = rd.i
<1>1. /\ TypeInv /\ LayoutInv
      /\ Len(pi.stage) \in Nat /\ DOMAIN pi.stage = 1 .. Len(pi.stage) /\ Is(Len(pi.stage), "END")
      /\ pi.free + 6 * Len(pi.stage) = SRAM_SIZE /\ pi.free \in Int /\ pi.free > 0
  BY Uploading
<1>2. Here.req = pi.stage[j].req
  BY HereIs
<1>3. j # Len(pi.stage) /\ j + 1 \in DOMAIN pi.stage /\ j \in Nat
  <2>1. j # Len(pi.stage)
    BY <1>1, <1>2 DEF Is
  <2> QED
    BY <1>1, <2>1
<1>4. /\ n \in DOMAIN pi.stage /\ ~Is(n, "REST") /\ j < n
      /\ \A m \in DOMAIN pi.stage : j < m /\ m < n => ~Is(m, "TEST_VECTOR")
      /\ req_sz(Here.req) = 6 * (n - j)
  <2>1. CASE Is(j, "TEST_VECTOR")
    <3>1. n = j + 2 /\ req_sz(Here.req) = 12
      BY <1>2, <2>1 DEF NextRecord, req_sz, CellSize, Is
    <3>2. Is(j + 1, "REST")
      BY <1>1, <2>1 DEF LayoutInv
    <3>3. j + 1 # Len(pi.stage)
      BY <1>1, <3>2 DEF Is
    <3>4. n \in DOMAIN pi.stage /\ n - 1 = j + 1
      BY <1>1, <1>3, <3>1, <3>3
    <3>5. ~Is(n, "REST")
      <4>1. Is(n, "REST") => Is(n - 1, "TEST_VECTOR")
        BY <1>1, <3>4 DEF LayoutInv
      <4> QED
        BY <3>2, <3>4, <4>1 DEF Is
    <3>6. \A m \in DOMAIN pi.stage : j < m /\ m < n => m = j + 1
      BY <1>1, <1>3, <3>1
    <3>7. \A m \in DOMAIN pi.stage : j < m /\ m < n => ~Is(m, "TEST_VECTOR")
      BY <3>2, <3>6 DEF Is
    <3>8. j < n /\ 6 * (n - j) = 12
      BY <1>3, <3>1
    <3> QED
      BY <3>1, <3>4, <3>5, <3>7, <3>8
  <2>2. CASE ~Is(j, "TEST_VECTOR")
    <3>1. n = j + 1 /\ req_sz(Here.req) = 6
      BY <1>2, <2>2 DEF NextRecord, req_sz, CellSize, Is
    <3>2. n - 1 = j /\ n - j = 1 /\ j < n /\ \A m \in DOMAIN pi.stage : ~(j < m /\ m < n)
      BY <1>1, <1>3, <3>1
    <3>3. ~Is(n, "REST")
      <4>1. Is(n, "REST") => Is(n - 1, "TEST_VECTOR")
        BY <1>1, <1>3, <3>1 DEF LayoutInv
      <4> QED
        BY <2>2, <3>2, <4>1
    <3>4. n \in DOMAIN pi.stage /\ req_sz(Here.req) = 6 * (n - j)
      BY <1>3, <3>1, <3>2
    <3>5. \A m \in DOMAIN pi.stage : j < m /\ m < n => ~Is(m, "TEST_VECTOR")
      BY <3>2
    <3> QED
      BY <3>2, <3>3, <3>4, <3>5
  <2> QED
    BY <2>1, <2>2
<1>5. /\ Skip(rd) \in [pos : 0 .. SRAM_SIZE, sz : 0 .. ChunkSize, i : Nat \ {0}]
      /\ Skip(rd).pos = rd.pos + 6 * (n - j) /\ Skip(rd).i = rd.i
  <2>1. /\ rd \in [pos : 0 .. SRAM_SIZE, sz : 0 .. ChunkSize, i : Nat \ {0}]
        /\ ChunkSize \in Nat /\ SRAM_SIZE \in Nat /\ rd.sz >= req_sz(Here.req)
    BY <1>1, Sizes DEF TypeInv, InChunk
  <2>2. n \in Nat /\ n <= Len(pi.stage) /\ rd.pos = 6 * (j - 1)
    BY <1>1, <1>4 DEF CellSize
  <2>3. PICK a, b : a = rd.pos + 6 * (n - j) /\ b = rd.sz - 6 * (n - j)
    OBVIOUS
  <2>4. rd.sz \in Int /\ rd.sz <= ChunkSize /\ rd.sz >= 6 * (n - j) /\ j \in Nat /\ j >= 1 /\ n > j
    BY <1>1, <1>3, <1>4, <2>1
  <2>5. a \in 0 .. SRAM_SIZE
    <3>1. a = 6 * (n - 1)
      BY <2>2, <2>3, <2>4
    <3>2. SRAM_SIZE \in Nat /\ Len(pi.stage) \in Nat /\ 6 * Len(pi.stage) < SRAM_SIZE
      BY <1>1, <2>1
    <3>3. 6 * n <= 6 * Len(pi.stage) /\ n >= 1 /\ n \in Nat
      BY <2>2, <2>4, <3>2, SMTT(30)
    <3> QED
      BY <3>1, <3>2, <3>3
  <2>6. b \in 0 .. ChunkSize
    <3>1. b = rd.sz - 6 * (n - j) /\ rd.sz \in Int /\ n \in Nat /\ ChunkSize \in Nat
      BY <2>1, <2>2, <2>3, <2>4
    <3>2. 6 * (n - j) \in Int /\ 6 * (n - j) >= 0
      BY <2>4, <3>1
    <3> QED
      BY <2>4, <3>1, <3>2
  <2>7. Skip(rd) = [rd EXCEPT !.pos = a, !.sz = b]
    BY <1>4, <2>3 DEF Skip
  <2>8. /\ Skip(rd) \in [pos : 0 .. SRAM_SIZE, sz : 0 .. ChunkSize, i : Nat \ {0}]
        /\ Skip(rd).pos = a /\ Skip(rd).i = rd.i
    BY <2>1, <2>5, <2>6, <2>7
  <2> QED
    BY <2>3, <2>8
<1>6. rd.pos + 6 * (n - j) = 6 * (n - 1) /\ rd.pos = 6 * (j - 1)
  <2>1. rd.pos = 6 * (j - 1) /\ n \in Nat
    BY <1>1, <1>4 DEF CellSize
  <2> QED
    BY <1>3, <2>1
<1> QED
  BY <1>4, <1>5, <1>6 DEF CellSize

LEMMA SkippedTo ==
  ASSUME IInv, pc = "upload", NEW n \in DOMAIN pi.stage, ~Is(n, "REST"),
         rd' \in [pos : 0 .. SRAM_SIZE, sz : 0 .. ChunkSize, i : Nat \ {0}], rd'.pos = CellSize * (n - 1),
         uploaded' \in Seq(Results), UNCHANGED noUpload, pc' = pc, lineno' = lineno, pi' = pi, failed' = failed
  PROVE  /\ TypeInv' /\ LayoutInv' /\ RoomInv' /\ OrderInv' /\ SuspendInv' /\ BatchInv'
         /\ \A m \in DOMAIN pi.stage : Ahead(m)' <=> n <= m
<1>1. /\ TypeInv /\ LayoutInv /\ RoomInv /\ OrderInv /\ SuspendInv /\ BatchInv /\ InFile
      /\ DOMAIN pi.stage = 1 .. Len(pi.stage) /\ Len(pi.stage) \in Nat
  BY Uploading
<1>2. resume' = resume /\ file' = file /\ files' = files /\ sram' = sram /\ ran' = ran /\ batches' = batches
  BY DEF noUpload
<1>3. TypeInv'
  BY <1>1, <1>2 DEF TypeInv
<1>4. (HasEnd' <=> HasEnd) /\ Program' = Program
  BY SameProgram
<1>5. LayoutInv' /\ RoomInv' /\ SuspendInv'
  BY <1>1, <1>2, <1>4 DEF LayoutInv, RoomInv, Is, SuspendInv
<1>6. OrderInv'
  <2>1. All' = All
    BY <1>2, <1>4 DEF All
  <2> QED
    BY <1>1, <1>2, <2>1, SameOrder
<1>7. BatchInv'
  <2>1. \A k : InSram(k, TRUE)' <=> InSram(k, TRUE)
    BY <1>2 DEF InSram
  <2> QED
    BY <1>1, <1>2, <1>4, <2>1 DEF BatchInv, Is
<1>8. \A m \in DOMAIN pi.stage : Ahead(m)' <=> n <= m
  <2> SUFFICES ASSUME NEW m \in DOMAIN pi.stage PROVE 6 * (m - 1) >= 6 * (n - 1) <=> n <= m
    BY DEF Ahead, CellSize
  <2> QED
    BY <1>1
<1> QED
  BY <1>3, <1>5, <1>6, <1>7, <1>8

LEMMA AheadOf ==
  ASSUME IInv, pc = "upload", NEW j \in DOMAIN pi.stage, rd.pos = CellSize * (j - 1)
  PROVE  \A m \in DOMAIN pi.stage : Ahead(m) <=> j <= m
<1>1. DOMAIN pi.stage = 1 .. Len(pi.stage) /\ Len(pi.stage) \in Nat /\ rd.pos = 6 * (j - 1)
  BY Uploading DEF CellSize
<1> QED
  BY <1>1 DEF Ahead, CellSize

LEMMA SkipRecordStep ==
  ASSUME IInv, SkipRecord
  PROVE  IInv'
<1>1. /\ pc = "upload" /\ InChunk /\ Here.req # "END" /\ Here.req # "TEST_VECTOR" /\ rd' = Skip(rd)
      /\ UNCHANGED noUpload /\ pc' = pc /\ lineno' = lineno /\ pi' = pi /\ failed' = failed /\ uploaded' = uploaded
  BY DEF SkipRecord
<1>2. /\ TypeInv /\ LinesInv /\ UploadedOnce /\ FirstInv /\ InFile
      /\ DOMAIN pi.stage = 1 .. Len(pi.stage) /\ Len(pi.stage) \in Nat
  BY <1>1, Uploading
<1>3. PICK j \in DOMAIN pi.stage : rd.pos = CellSize * (j - 1) /\ ~Is(j, "REST")
  BY <1>1, Uploading
<1>4. PICK n : n = NextRecord(j)
  OBVIOUS
<1>5. /\ n \in DOMAIN pi.stage /\ ~Is(n, "REST") /\ j < n
      /\ \A m \in DOMAIN pi.stage : j < m /\ m < n => ~Is(m, "TEST_VECTOR")
      /\ rd' \in [pos : 0 .. SRAM_SIZE, sz : 0 .. ChunkSize, i : Nat \ {0}]
      /\ rd'.pos = CellSize * (n - 1) /\ rd'.i = rd.i
  BY <1>1, <1>3, <1>4, SkipTo
<1>6. /\ TypeInv' /\ LayoutInv' /\ RoomInv' /\ OrderInv' /\ SuspendInv' /\ BatchInv'
      /\ \A m \in DOMAIN pi.stage : Ahead(m)' <=> n <= m
  <2>1. uploaded' \in Seq(Results)
    BY <1>1, <1>2 DEF TypeInv
  <2> QED
    BY <1>1, <1>5, <2>1, SkippedTo
<1>7. \A m \in DOMAIN pi.stage : Ahead(m) <=> j <= m
  BY <1>1, <1>3, AheadOf
<1>8. ~Is(j, "TEST_VECTOR")
  BY <1>1, <1>3, HereIs DEF Is
<1>9. \A m \in DOMAIN pi.stage : Is(m, "TEST_VECTOR") => (Ahead(m)' <=> Ahead(m))
  BY <1>2, <1>5, <1>6, <1>7, <1>8
<1>10. /\ resume' = resume /\ file' = file /\ files' = files /\ sram' = sram /\ ran' = ran /\ batches' = batches
       /\ (InFile' <=> InFile) /\ (FirstBatch' <=> FirstBatch)
       /\ Passed({"vector"})' = Passed({"vector"}) /\ StagedLines' = StagedLines
  BY <1>1 DEF noUpload, InFile, FirstBatch, Passed, StagedLines, Is
<1>11. UploadedOnce'
  BY <1>1, <1>2, SameUploaded
<1>12. LinesInv'
  BY <1>1, <1>2, <1>9, <1>10 DEF LinesInv, Is
<1>13. FirstInv'
  BY <1>1, <1>2, <1>5, <1>9, <1>10 DEF FirstInv, Is, SmallFileReported
<1> QED
  BY <1>6, <1>11, <1>12, <1>13 DEF IInv

(***************************************************************************)
(* The result of a vector is uploaded.  In the first batch the lines of the *)
(* vectors staged are those of the expectations, in the same order, and all *)
(* before this one have been uploaded: so the next expectation is its own.  *)
(***************************************************************************)
LEMMA NextExpectation ==
  ASSUME IInv, pc = "upload", batches = 1, NEW j \in DOMAIN pi.stage, rd.pos = CellSize * (j - 1),
         Is(j, "TEST_VECTOR")
  PROVE  /\ rd.i \in DOMAIN pi.output /\ pi.output[rd.i] = pi.stage[j].line
         /\ Expected(rd.i) = pi.output[rd.i]
<1>1. /\ TypeInv /\ LinesInv /\ FirstInv /\ InFile
      /\ DOMAIN pi.stage = 1 .. Len(pi.stage) /\ Len(pi.stage) \in Nat
  BY Uploading
<1>2. /\ Range(pi.output) = StagedLines
      /\ \A m, n \in DOMAIN pi.output : m < n => pi.output[m] < pi.output[n]
      /\ rd.i = Len(uploaded) + 1
      /\ \A m \in DOMAIN pi.stage : ~Ahead(m) /\ Is(m, "TEST_VECTOR") =>
           \E k \in DOMAIN uploaded : uploaded[k].line = pi.stage[m].line
      /\ \A k \in DOMAIN uploaded : k \in DOMAIN pi.output /\ uploaded[k].line = pi.output[k]
  BY <1>1 DEF FirstInv, FirstBatch
<1>3. \A m \in DOMAIN pi.stage : Ahead(m) <=> j <= m
  BY AheadOf
<1>4. /\ \A m, n \in DOMAIN pi.stage :
           m < n /\ Is(m, "TEST_VECTOR") /\ Is(n, "TEST_VECTOR") => pi.stage[m].line < pi.stage[n].line
      /\ \A k \in DOMAIN uploaded : uploaded[k].line < pi.stage[j].line
  BY <1>1, <1>3 DEF LinesInv
<1>5. /\ Len(uploaded) \in Nat /\ DOMAIN uploaded = 1 .. Len(uploaded)
      /\ pi.output \in Seq(Nat) /\ Len(pi.output) \in Nat /\ DOMAIN pi.output = 1 .. Len(pi.output)
      /\ \A k \in DOMAIN pi.output : pi.output[k] \in Nat
  <2>1. pi.output \in Seq(Nat)
    BY <1>1 DEF TypeInv, ParserInfo
  <2>2. Len(pi.output) \in Nat /\ DOMAIN pi.output = 1 .. Len(pi.output)
    BY <2>1, LenProperties
  <2>3. \A k \in DOMAIN pi.output : pi.output[k] \in Nat
    BY <2>1, <2>2, ElementOfSeq
  <2> QED
    BY <1>1, <2>1, <2>2, <2>3, UploadedIsSeq
<1>6. \A m \in DOMAIN pi.stage : pi.stage[m].line \in Nat
  BY <1>1, StageIsSeq DEF SramCells
<1>7. PICK m \in DOMAIN pi.output : pi.output[m] = pi.stage[j].line
  <2>1. pi.stage[j].line \in StagedLines
    BY DEF StagedLines
  <2> QED
    BY <1>2, <2>1 DEF Range
<1>8. m >= rd.i
  <2> SUFFICES ASSUME m < rd.i PROVE FALSE
    BY <1>2, <1>5
  <2>1. m \in DOMAIN uploaded
    BY <1>2, <1>5
  <2>2. pi.output[m] < pi.stage[j].line
    BY <1>2, <1>4, <2>1
  <2> QED
    BY <1>5, <1>7, <2>2
<1>9. ~(m > rd.i)
  <2> SUFFICES ASSUME m > rd.i PROVE FALSE
    OBVIOUS
  <2>1. rd.i \in DOMAIN pi.output
    BY <1>2, <1>5
  <2>2. pi.output[rd.i] < pi.stage[j].line
    BY <1>2, <1>7, <2>1
  <2>3. PICK n \in DOMAIN pi.stage : Is(n, "TEST_VECTOR") /\ pi.stage[n].line = pi.output[rd.i]
    <3>1. pi.output[rd.i] \in StagedLines
      BY <1>2, <2>1 DEF Range
    <3> QED
      BY <3>1 DEF StagedLines
  <2>4. n < j
    <3>1. ~(j < n)
      <4> SUFFICES ASSUME j < n PROVE FALSE
        OBVIOUS
      <4>1. pi.stage[j].line < pi.stage[n].line
        BY <1>4, <2>3
      <4> QED
        BY <1>6, <2>2, <2>3, <4>1
    <3>2. j # n
      BY <1>6, <2>2, <2>3
    <3> QED
      BY <1>1, <3>1, <3>2
  <2>5. PICK k \in DOMAIN uploaded : uploaded[k].line = pi.output[rd.i]
    <3>1. ~Ahead(n)
      BY <1>1, <1>3, <2>4
    <3> QED
      BY <1>2, <2>3, <3>1
  <2>6. k \in DOMAIN pi.output /\ k < rd.i /\ pi.output[k] = pi.output[rd.i]
    BY <1>2, <1>5, <2>5
  <2>7. pi.output[k] < pi.output[rd.i]
    BY <1>2, <2>1, <2>6
  <2> QED
    BY <1>5, <2>1, <2>6, <2>7
<1>10. m = rd.i
  BY <1>2, <1>5, <1>8, <1>9
<1> QED
  BY <1>5, <1>7, <1>10 DEF Expected

LEMMA UploadVectorStep ==
  ASSUME IInv, UploadVector
  PROVE  IInv'
<1> DEFINE r == [line |-> Here.line, run |-> Here.run, expected |-> Expected(rd.i),
                 design |-> pi.design_result_id - 1]
           len == Len(uploaded)
<1>1. /\ pc = "upload" /\ InChunk /\ Here.req = "TEST_VECTOR"
      /\ UNCHANGED noUpload /\ pc' = pc /\ lineno' = lineno /\ pi' = pi /\ failed' = failed
      /\ uploaded' = Append(uploaded, r) /\ rd' = [Skip(rd) EXCEPT !.i = @ + 1]
      /\ pi.design_result_id # 0
  BY DEF UploadVector
<1>2. /\ TypeInv /\ LinesInv /\ UploadedOnce /\ FirstInv /\ InFile
      /\ DOMAIN pi.stage = 1 .. Len(pi.stage) /\ Len(pi.stage) \in Nat
      /\ lineno \in Nat
  BY <1>1, Uploading
<1>3. PICK j \in DOMAIN pi.stage : rd.pos = CellSize * (j - 1) /\ ~Is(j, "REST")
  BY <1>1, Uploading
<1>4. PICK n : n = NextRecord(j)
  OBVIOUS
<1>5. /\ n \in DOMAIN pi.stage /\ ~Is(n, "REST") /\ j < n
      /\ \A m \in DOMAIN pi.stage : j < m /\ m < n => ~Is(m, "TEST_VECTOR")
      /\ Skip(rd) \in [pos : 0 .. SRAM_SIZE, sz : 0 .. ChunkSize, i : Nat \ {0}]
      /\ Skip(rd).pos = CellSize * (n - 1) /\ Skip(rd).i = rd.i
  BY <1>1, <1>3, <1>4, SkipTo
<1>6. /\ rd' \in [pos : 0 .. SRAM_SIZE, sz : 0 .. ChunkSize, i : Nat \ {0}]
      /\ rd'.pos = CellSize * (n - 1) /\ rd'.i = rd.i + 1
  <2>1. PICK s \in [pos : 0 .. SRAM_SIZE, sz : 0 .. ChunkSize, i : Nat \ {0}] : s = Skip(rd)
    BY <1>5
  <2>2. rd' = [s EXCEPT !.i = @ + 1]
    BY <1>1, <2>1
  <2>3. /\ rd' \in [pos : 0 .. SRAM_SIZE, sz : 0 .. ChunkSize, i : Nat \ {0}]
        /\ rd'.pos = s.pos /\ rd'.i = s.i + 1
    BY <2>2
  <2> QED
    BY <1>5, <2>1, <2>3
<1>7. /\ Here.line = pi.stage[j].line /\ Here.run /\ Is(j, "TEST_VECTOR")
      /\ pi.stage[j].line \in Nat /\ Here.run \in BOOLEAN
  <2>1. Here.req = pi.stage[j].req /\ Here.line = pi.stage[j].line /\ Here.run
    BY <1>1, <1>3, HereIs
  <2>2. pi.stage[j].line \in Nat
    BY <1>2, StageIsSeq DEF SramCells
  <2>3. Here.run \in BOOLEAN
    <3>1. j - 1 \in Nat /\ 6 * (j - 1 + 1) <= SRAM_SIZE
      BY <1>1, <1>2, Uploading, SMTT(30)
    <3>2. rd.pos \div CellSize = j - 1 /\ j - 1 \in Cells
      BY <1>3, <3>1, CellOfByte DEF CellSize
    <3> QED
      BY <1>2, <3>2 DEF Here, TypeInv, SramCells
  <2> QED
    BY <1>1, <2>1, <2>2, <2>3 DEF Is
<1>8. /\ r \in Results /\ r.line = pi.stage[j].line /\ r.run
      /\ r.expected = Expected(rd.i) /\ r.design = pi.design_result_id - 1
  <2>1. Expected(rd.i) \in Nat
    <3>1. rd.i \in Nat /\ rd.i >= 1 /\ pi.output \in Seq(Nat)
      BY <1>2 DEF TypeInv, ParserInfo
    <3>2. rd.i >= 1 /\ rd.i <= Len(pi.output) => pi.output[rd.i] \in Nat
      BY <3>1, ElementOfSeq, LenProperties
    <3> QED
      BY <3>1, <3>2 DEF Expected
  <2>2. pi.design_result_id - 1 \in Int
    BY <1>2, SMTT(30) DEF TypeInv, ParserInfo
  <2> QED
    BY <1>7, <2>1, <2>2 DEF Results
<1> HIDE DEF r
<1>9. /\ uploaded' \in Seq(Results) /\ Len(uploaded') = len + 1 /\ len \in Nat
      /\ DOMAIN uploaded = 1 .. len /\ DOMAIN uploaded' = 1 .. len + 1
      /\ \A k \in DOMAIN uploaded : uploaded'[k] = uploaded[k]
      /\ uploaded'[len + 1] = r
      /\ \A k \in DOMAIN uploaded' : k \in DOMAIN uploaded \/ k = len + 1
  <2>1. uploaded \in Seq(Results) /\ len \in Nat /\ DOMAIN uploaded = 1 .. len
    BY <1>2, UploadedIsSeq
  <2>2. /\ uploaded' \in Seq(Results) /\ Len(uploaded') = len + 1
        /\ \A k \in 1 .. len : uploaded'[k] = uploaded[k]
        /\ uploaded'[len + 1] = r
    BY <1>1, <1>8, <2>1, AppendProperties
  <2>3. DOMAIN uploaded' = 1 .. len + 1
    BY <2>2, LenProperties
  <2> QED
    BY <2>1, <2>2, <2>3
<1> HIDE DEF len
<1>10. /\ TypeInv' /\ LayoutInv' /\ RoomInv' /\ OrderInv' /\ SuspendInv' /\ BatchInv'
       /\ \A m \in DOMAIN pi.stage : Ahead(m)' <=> n <= m
  BY <1>1, <1>5, <1>6, <1>9, SkippedTo
<1>11. \A m \in DOMAIN pi.stage : Ahead(m) <=> j <= m
  BY <1>1, <1>3, AheadOf
<1>12. /\ resume' = resume /\ file' = file /\ batches' = batches
       /\ (InFile' <=> InFile) /\ (FirstBatch' <=> FirstBatch)
       /\ Passed({"vector"})' = Passed({"vector"}) /\ StagedLines' = StagedLines
  BY <1>1 DEF noUpload, InFile, FirstBatch, Passed, StagedLines, Is
<1>13. /\ \A m \in DOMAIN pi.stage : Is(m, "TEST_VECTOR") => pi.stage[m].line \in 1 .. lineno - 1
       /\ \A m, k \in DOMAIN pi.stage :
            m < k /\ Is(m, "TEST_VECTOR") /\ Is(k, "TEST_VECTOR") => pi.stage[m].line < pi.stage[k].line
       /\ \A k \in DOMAIN uploaded : uploaded[k].line < lineno
       /\ \A k \in DOMAIN uploaded, m \in DOMAIN pi.stage :
            Is(m, "TEST_VECTOR") /\ Ahead(m) => uploaded[k].line < pi.stage[m].line
  BY <1>1, <1>2 DEF LinesInv
<1>14. \A k \in DOMAIN uploaded : uploaded[k].line < pi.stage[j].line
  BY <1>7, <1>11, <1>13, <1>2
<1>15. UploadedOnce'
  <2>1. SUFFICES ASSUME NEW k \in DOMAIN uploaded'
                 PROVE  uploaded'[k].run /\ uploaded'[k].line > IF k = 1 THEN 0 ELSE uploaded'[k - 1].line
    BY DEF UploadedOnce
  <2>2. CASE k \in DOMAIN uploaded
    <3>1. k # 1 => k - 1 \in DOMAIN uploaded
      BY <1>9, <2>2
    <3>2. uploaded[k].run /\ uploaded[k].line > IF k = 1 THEN 0 ELSE uploaded[k - 1].line
      BY <1>2, <2>2 DEF UploadedOnce
    <3> QED
      BY <1>9, <2>2, <3>1, <3>2
  <2>3. CASE k = len + 1
    <3>1. k # 1 => k - 1 \in DOMAIN uploaded
      BY <1>9, <2>3
    <3>2. k # 1 => uploaded'[k - 1].line < pi.stage[j].line /\ uploaded'[k - 1].line \in Nat
      BY <1>2, <1>9, <1>14, <3>1, UploadedIsSeq DEF Results
    <3>3. pi.stage[j].line > 0
      BY <1>2, <1>7, <1>13
    <3> QED
      BY <1>7, <1>8, <1>9, <2>3, <3>2, <3>3
  <2> QED
    BY <1>9, <2>2, <2>3
<1>16. LinesInv'
  <2>1. ASSUME NEW k \in DOMAIN uploaded'
        PROVE  uploaded'[k].line < lineno
    <3>1. pi.stage[j].line < lineno
      BY <1>2, <1>7, <1>13
    <3> QED
      BY <1>8, <1>9, <1>13, <3>1
  <2>2. ASSUME NEW k \in DOMAIN uploaded', NEW m \in DOMAIN pi.stage, Is(m, "TEST_VECTOR"), n <= m
        PROVE  uploaded'[k].line < pi.stage[m].line
    <3>1. j < m /\ Ahead(m)
      BY <1>2, <1>5, <1>11, <2>2
    <3>2. pi.stage[j].line < pi.stage[m].line
      BY <1>7, <1>13, <2>2, <3>1
    <3> QED
      BY <1>8, <1>9, <1>13, <2>2, <3>1, <3>2
  <2> QED
    BY <1>1, <1>10, <1>13, <2>1, <2>2 DEF LinesInv, Is
<1>17. FirstInv'
  <2>1. FirstBatch' =>
          /\ Range(pi'.output) = Passed({"vector"})'
          /\ \A m, k \in DOMAIN pi'.output : m < k => pi'.output[m] < pi'.output[k]
          /\ StagedLines' = Passed({"vector"})'
          /\ lineno' > 1 /\ file'[1] = "design" => pi'.design = 1
          /\ pi'.design_result_id \in {0, 1 + pi'.design}
          /\ pc' # "upload" => uploaded' = <<>> /\ pi'.design_result_id = 0
    BY <1>1, <1>2, <1>12 DEF FirstInv
  <2>2. ASSUME batches = 1
        PROVE  /\ rd'.i = Len(uploaded') + 1
               /\ \A m \in DOMAIN pi.stage : ~(n <= m) /\ Is(m, "TEST_VECTOR") =>
                    \E k \in DOMAIN uploaded' : uploaded'[k].line = pi.stage[m].line
               /\ \A k \in DOMAIN uploaded' :
                    /\ k \in DOMAIN pi.output /\ uploaded'[k].line = pi.output[k]
                    /\ uploaded'[k].expected = pi.output[k]
                    /\ file[1] = "design" => uploaded'[k].design = 1
    <3>1. /\ rd.i = len + 1
          /\ \A m \in DOMAIN pi.stage : ~Ahead(m) /\ Is(m, "TEST_VECTOR") =>
               \E k \in DOMAIN uploaded : uploaded[k].line = pi.stage[m].line
          /\ \A k \in DOMAIN uploaded :
               /\ k \in DOMAIN pi.output /\ uploaded[k].line = pi.output[k] /\ uploaded[k].expected = pi.output[k]
               /\ file[1] = "design" => uploaded[k].design = 1
          /\ lineno > 1 /\ file[1] = "design" => pi.design = 1
          /\ pi.design_result_id \in {0, 1 + pi.design}
      BY <1>1, <1>2, <2>2 DEF FirstInv, FirstBatch, len
    <3>2. /\ len + 1 \in DOMAIN pi.output /\ pi.output[len + 1] = pi.stage[j].line
          /\ Expected(rd.i) = pi.output[len + 1]
      BY <1>1, <1>3, <1>7, <2>2, <3>1, NextExpectation
    <3>3. rd'.i = Len(uploaded') + 1
      BY <1>6, <1>9, <3>1
    <3>4. ASSUME NEW m \in DOMAIN pi.stage, ~(n <= m), Is(m, "TEST_VECTOR")
          PROVE  \E k \in DOMAIN uploaded' : uploaded'[k].line = pi.stage[m].line
      <4>1. CASE j <= m
        <5>1. m = j
          BY <1>2, <1>5, <3>4, <4>1
        <5> QED
          BY <1>8, <1>9, <5>1
      <4>2. CASE ~(j <= m)
        <5>1. PICK k \in DOMAIN uploaded : uploaded[k].line = pi.stage[m].line
          BY <1>11, <3>1, <3>4, <4>2
        <5> QED
          BY <1>9, <5>1
      <4> QED
        BY <4>1, <4>2
    <3>5. file[1] = "design" => r.design = 1
      <4>1. lineno > 1
        BY <1>2, <1>7, <1>13
      <4>2. pi.design_result_id = 1 + pi.design
        BY <1>1, <3>1
      <4>3. file[1] = "design" => pi.design_result_id - 1 = 1
        BY <3>1, <4>1, <4>2
      <4> QED
        BY <1>8, <4>3
    <3>6. ASSUME NEW k \in DOMAIN uploaded'
          PROVE  /\ k \in DOMAIN pi.output /\ uploaded'[k].line = pi.output[k]
                 /\ uploaded'[k].expected = pi.output[k]
                 /\ file[1] = "design" => uploaded'[k].design = 1
      BY <1>8, <1>9, <3>1, <3>2, <3>5
    <3> QED
      BY <3>3, <3>4, <3>6
  <2> QED
    BY <1>1, <1>10, <1>12, <2>1, <2>2 DEF FirstInv, Is, SmallFileReported
<1> QED
  BY <1>10, <1>15, <1>16, <1>17 DEF IInv

LEMMA UploadStep ==
  ASSUME IInv, Upload
  PROVE  IInv'
  BY CreateDesignStep, RequestFailsStep, ReadChunkStep, UploadVectorStep, SkipRecordStep, UploadEndStep
     DEF Upload

-----------------------------------------------------------------------------
(***************************************************************************)
(* The invariant and what follows from it.                                  *)
(***************************************************************************)
LEMMA Stutter ==
  ASSUME IInv, UNCHANGED vars
  PROVE  IInv'
<1>1. /\ TypeInv /\ LayoutInv /\ RoomInv /\ OrderInv /\ SuspendInv /\ BatchInv /\ LinesInv /\ UploadedOnce
      /\ FirstInv
  BY DEF IInv
<1>2. /\ pc' = pc /\ resume' = resume /\ file' = file /\ files' = files /\ lineno' = lineno /\ pi' = pi
      /\ sram' = sram /\ rd' = rd /\ ran' = ran /\ batches' = batches /\ failed' = failed
      /\ uploaded' = uploaded
  BY DEF vars
<1>3. /\ (HasEnd' <=> HasEnd) /\ Program' = Program /\ All' = All /\ (InFile' <=> InFile)
      /\ (FirstBatch' <=> FirstBatch) /\ StagedLines' = StagedLines /\ VectorLines' = VectorLines
      /\ Passed({"vector"})' = Passed({"vector"})
      /\ \A k : (Ahead(k)' <=> Ahead(k))
  BY <1>2 DEF HasEnd, Program, All, InFile, FirstBatch, StagedLines, VectorLines, Is, Passed, Ahead
<1>4. TypeInv' /\ LayoutInv' /\ RoomInv' /\ SuspendInv' /\ UploadedOnce'
  BY <1>1, <1>2, <1>3, SameUploaded DEF TypeInv, LayoutInv, RoomInv, SuspendInv, Is
<1>5. OrderInv'
  BY <1>1, <1>2, <1>3, SameOrder DEF OrderInv
<1>6. BatchInv'
  BY <1>1, <1>2, <1>3 DEF BatchInv, InSram, Is
<1>7. LinesInv'
  BY <1>1, <1>2, <1>3 DEF LinesInv, Is
<1>8. FirstInv'
  BY <1>1, <1>2, <1>3 DEF FirstInv, Is, SmallFileReported
<1> QED
  BY <1>4, <1>5, <1>6, <1>7, <1>8 DEF IInv

LEMMA StepIInv ==
  ASSUME IInv, [Next]_vars
  PROVE  IInv'
<1>1. ASSUME Parse PROVE IInv'
  BY <1>1, ParseStep
<1>2. ASSUME Load PROVE IInv'
  BY <1>2, LoadStep
<1>3. ASSUME Run PROVE IInv'
  BY <1>3, RunStep
<1>4. ASSUME RunFails PROVE IInv'
  BY <1>4, RunFailsStep
<1>5. ASSUME Upload PROVE IInv'
  BY <1>5, UploadStep
<1>6. ASSUME OpenFile PROVE IInv'
  BY <1>6, OpenFileStep
<1>7. ASSUME CloseDir PROVE IInv'
  BY <1>7, CloseDirStep
<1>8. ASSUME Stopped PROVE IInv'
  BY <1>8, Stutter DEF Stopped
<1>9. ASSUME UNCHANGED vars PROVE IInv'
  BY <1>9, Stutter
<1> QED
  BY <1>1, <1>2, <1>3, <1>4, <1>5, <1>6, <1>7, <1>8, <1>9 DEF Next

(***************************************************************************)
(* The inductive invariant of confrd.                                       *)
(***************************************************************************)
THEOREM Invariance == Spec => []IInv
<1>1. Init => IInv
  BY InitIInv
<1>2. IInv /\ [Next]_vars => IInv'
  BY StepIInv
<1> QED
  BY <1>1, <1>2, PTL DEF Spec

LEMMA Typed ==
  ASSUME IInv
  PROVE  TypeOK
<1>1. TypeInv /\ RoomInv
  BY DEF IInv
<1>2. \A k \in DOMAIN pi.stage : pi.stage[k].req \in Reqs
  BY <1>1, StageIsSeq DEF SramCells
<1>3. \A c \in Cells : sram[c].req \in Reqs /\ sram[c].run \in BOOLEAN
  <2>1. \A c \in Cells : sram[c] \in SramCells
    BY <1>1 DEF TypeInv
  <2> QED
    BY <2>1 DEF SramCells
<1>4. rd.pos \in 0 .. SRAM_SIZE /\ rd.sz \in 0 .. ChunkSize /\ rd.i \in Nat
  BY <1>1 DEF TypeInv
<1> QED
  BY <1>1, <1>2, <1>3, <1>4 DEF TypeOK, TypeInv, RoomInv

(***************************************************************************)
(* As long as a file is in its first batch, each expectation in output      *)
(* stands for a vector that is staged and takes four times as much room.    *)
(***************************************************************************)
OutputInv ==
  /\ BatchFitsOutput
  /\ pc = "parse" /\ batches = 0 => 2 * Len(pi.output) <= Len(pi.stage)

LEMMA OutputRoom ==
  ASSUME IInv, OutputInv, batches = 0, pc = "parse", Fits("TEST_VECTOR")
  PROVE  OutputFits
<1> DEFINE n == Len(pi.output)
           m == Len(pi.stage)
<1>1. pi.output \in Seq(Nat) /\ m \in Nat /\ pi.free \in Int
  BY StageIsSeq DEF IInv, TypeInv, ParserInfo
<1>2. n \in Nat
  BY <1>1
<1>3. 2 * n <= m /\ pi.free + 6 * m = SRAM_SIZE /\ pi.free >= 18
  BY DEF OutputInv, IInv, RoomInv, Fits, req_sz, CellSize
<1>4. PICK q \in Nat : SRAM_SIZE = 12 * q + 8
  BY Sizes
<1> HIDE DEF n, m
<1>5. n < q
  BY <1>1, <1>2, <1>3, <1>4
<1>6. OutputSize = 3 * q + 2
  BY <1>4 DEF OutputSize
<1> QED
  BY <1>2, <1>4, <1>5, <1>6 DEF OutputFits, n

(* What a step of the parser stages and expects.                            *)
LEMMA ParseOutput ==
  ASSUME IInv, OutputInv, Parse
  PROVE  OutputInv'
<1>1. pc = "parse" /\ batches' = batches
  BY DEF Parse, PreVectors, ParseVector, ParsePindef, ParseDesign, ParseMeasure, ParseBad, EndOfFile,
         AtLine, noParse
<1>2. pi \in ParserInfo /\ pi.output \in Seq(Nat) /\ pi.stage \in Seq(SramCells)
      /\ Len(pi.output) \in Nat /\ Len(pi.stage) \in Nat /\ lineno \in Nat
  BY StageIsSeq DEF IInv, TypeInv, ParserInfo
<1> DEFINE StageOf(req) == pi.stage \o Record(req, lineno)
<1>3. ASSUME NEW req \in Staging
      PROVE  Len(StageOf(req)) = Len(pi.stage) + (IF req = "TEST_VECTOR" THEN 2 ELSE 1)
  <2>1. /\ Record(req, lineno) \in Seq(SramCells)
        /\ Len(Record(req, lineno)) = IF req = "TEST_VECTOR" THEN 2 ELSE 1
    BY <1>2, <1>3, RecordCells
  <2>2. Len(StageOf(req)) = Len(pi.stage) + Len(Record(req, lineno))
    BY <1>2, <2>1, ConcatProperties, Zenon
  <2> QED
    BY <2>1, <2>2
<1>4. \/ pc' = "parse" /\ pi'.output = pi.output /\ Len(pi.stage) <= Len(pi'.stage)
      \/ pc' = "parse" /\ pi'.output = Append(pi.output, lineno) /\ Len(pi'.stage) = Len(pi.stage) + 2
      \/ pc' \in {"load", "files"}
      \/ pc' = "astray" /\ batches # 0
  <2>1. ASSUME NEW req \in {"PLLRECONFIG", "SETUP_BITMASK"}, NEW b \in BOOLEAN,
               pi' = [Staged(pi, req, lineno) EXCEPT !.seen_vectors = b]
        PROVE  pi'.output = pi.output /\ Len(pi.stage) <= Len(pi'.stage)
    <3>1. req \in Staging /\ req # "TEST_VECTOR"
      BY <2>1 DEF Staging
    <3>2. Staged(pi, req, lineno) \in ParserInfo /\ Staged(pi, req, lineno).stage = StageOf(req)
          /\ Staged(pi, req, lineno).output = pi.output
      BY <1>2, <3>1, StagedFields, Zenon
    <3>3. pi'.stage = StageOf(req) /\ pi'.output = pi.output
      BY <2>1, <3>2 DEF ParserInfo
    <3>4. Len(StageOf(req)) = Len(pi.stage) + 1
      BY <1>3, <3>1
    <3> QED
      BY <1>2, <3>3, <3>4
  <2>2. CASE PreVectors
    BY <1>1, <2>1, <2>2 DEF PreVectors, suspend_emit
  <2>3. CASE ParsePindef
    <3>1. Staged(pi, "SETUP_BITMASK", lineno)
            = [Staged(pi, "SETUP_BITMASK", lineno) EXCEPT !.seen_vectors = pi.seen_vectors]
          /\ pi.seen_vectors \in BOOLEAN
      <4>1. Staged(pi, "SETUP_BITMASK", lineno) \in ParserInfo
            /\ Staged(pi, "SETUP_BITMASK", lineno).seen_vectors = pi.seen_vectors
        BY <1>2, StagedFields, Zenon DEF Staging
      <4> QED
        BY <1>2, <4>1 DEF ParserInfo
    <3> QED
      BY <1>1, <2>1, <2>3, <3>1 DEF ParsePindef, Stage, suspend_emit
  <2>4. CASE ParseVector
    <3>1. CASE Fits("TEST_VECTOR") /\ OutputFits
      <4>1. /\ pc' = "parse"
            /\ pi' = [Staged(pi, "TEST_VECTOR", lineno) EXCEPT !.output = Append(@, lineno)]
        BY <1>1, <2>4, <3>1 DEF ParseVector
      <4>2. /\ Staged(pi, "TEST_VECTOR", lineno) \in ParserInfo
            /\ Staged(pi, "TEST_VECTOR", lineno).stage = StageOf("TEST_VECTOR")
            /\ Staged(pi, "TEST_VECTOR", lineno).output = pi.output
        BY <1>2, StagedFields, Zenon DEF Staging
      <4>3. pi'.stage = StageOf("TEST_VECTOR") /\ pi'.output = Append(pi.output, lineno)
        BY <4>1, <4>2 DEF ParserInfo
      <4>4. Len(StageOf("TEST_VECTOR")) = Len(pi.stage) + 2
        BY <1>3 DEF Staging
      <4> QED
        BY <4>1, <4>3, <4>4
    <3>2. CASE Fits("TEST_VECTOR") /\ ~OutputFits
      BY <1>1, <2>4, <3>2, OutputRoom DEF ParseVector
    <3>3. CASE ~Fits("TEST_VECTOR")
      BY <2>4, <3>3 DEF ParseVector, suspend_emit
    <3> QED
      BY <3>1, <3>2, <3>3
  <2>5. CASE ParseDesign
    <3>1. CASE pi.design = 0
      <4>1. pc' = "parse" /\ pi' = [pi EXCEPT !.design = lineno]
        BY <1>1, <2>5, <3>1 DEF ParseDesign
      <4>2. pi'.output = pi.output /\ pi'.stage = pi.stage
        BY <1>2, <4>1 DEF ParserInfo
      <4> QED
        BY <1>2, <4>1, <4>2
    <3>2. CASE pi.design # 0
      BY <2>5, <3>2 DEF ParseDesign, suspend_emit
    <3> QED
      BY <3>1, <3>2
  <2>6. CASE ParseMeasure \/ ParseBad \/ EndOfFile
    BY <2>6 DEF ParseMeasure, ParseBad, EndOfFile, suspend_emit
  <2> QED
    BY <2>2, <2>3, <2>4, <2>5, <2>6 DEF Parse
<1>5. pi' \in ParserInfo /\ Len(pi'.stage) \in Nat
  <2>1. IInv'
    BY ParseStep
  <2>2. pi' \in ParserInfo
    BY <2>1 DEF IInv, TypeInv
  <2> QED
    BY <2>2 DEF ParserInfo
<1>6. Len(Append(pi.output, lineno)) = Len(pi.output) + 1
  BY <1>2, AppendProperties
<1>7. batches = 0 => 2 * Len(pi.output) <= Len(pi.stage)
  BY <1>1 DEF OutputInv
<1>8. CASE pc' = "parse"
  <2>1. batches' = 0 => 2 * Len(pi'.output) <= Len(pi'.stage)
    <3>1. CASE pi'.output = pi.output /\ Len(pi.stage) <= Len(pi'.stage)
      BY <1>1, <1>2, <1>5, <1>7, <3>1
    <3>2. CASE pi'.output = Append(pi.output, lineno) /\ Len(pi'.stage) = Len(pi.stage) + 2
      BY <1>1, <1>2, <1>6, <1>7, <3>2
    <3> QED
      BY <1>4, <1>8, <3>1, <3>2
  <2> QED
    BY <1>8, <2>1 DEF OutputInv, BatchFitsOutput
<1>9. CASE pc' \in {"load", "files"} \/ (pc' = "astray" /\ batches # 0)
  BY <1>1, <1>9 DEF OutputInv, BatchFitsOutput
<1> QED
  BY <1>4, <1>8, <1>9

(***************************************************************************)
(* A file that is still in its first batch never makes confrd go astray:    *)
(* the array for the expectations holds those of any batch, for an SRAM of  *)
(* any size (parse_line_vectors; struct parserinfo of confrd.h).            *)
(***************************************************************************)
THEOREM OneBatchFits == Spec => []BatchFitsOutput
<1>1. Init => OutputInv
  BY DEF Init, OutputInv, BatchFitsOutput
<1>2. IInv /\ OutputInv /\ [Next]_vars => OutputInv'
  <2> SUFFICES ASSUME IInv, OutputInv, [Next]_vars PROVE OutputInv'
    OBVIOUS
  <2>1. CASE Parse
    BY <2>1, ParseOutput
  <2>2. CASE Run
    <3>1. batches \in 0 .. 2
      BY DEF IInv, TypeInv
    <3> QED
      BY <2>2, <3>1 DEF Run, OutputInv, BatchFitsOutput
  <2>3. CASE Load \/ RunFails \/ CloseDir
    BY <2>3 DEF Load, RunFails, CloseDir, OutputInv, BatchFitsOutput
  <2>4. CASE OpenFile
    <3>1. pi' = init_parserinfo /\ pc' = "parse"
      BY <2>4 DEF OpenFile
    <3>2. pi'.output = <<>> /\ pi'.stage = <<>>
      BY <3>1 DEF init_parserinfo
    <3> QED
      BY <3>1, <3>2 DEF OutputInv, BatchFitsOutput
  <2>5. CASE Upload
    <3>1. pc = "upload" /\ batches > 0 /\ batches \in 0 .. 2
      BY <2>5 DEF Upload, CreateDesign, RequestFails, ReadChunk, UploadVector, SkipRecord, UploadEnd,
                  IInv, BatchInv, TypeInv
    <3>2. batches' = batches /\ batches' # 0
      BY <2>5, <3>1 DEF Upload, CreateDesign, RequestFails, ReadChunk, UploadVector, SkipRecord,
                        UploadEnd, noUpload
    <3> QED
      BY <3>2 DEF OutputInv, BatchFitsOutput
  <2>6. CASE UNCHANGED vars
    BY <2>6 DEF vars, OutputInv, BatchFitsOutput
  <2> QED
    BY <2>1, <2>2, <2>3, <2>4, <2>5, <2>6 DEF Next, Stopped
<1>3. OutputInv => BatchFitsOutput
  BY DEF OutputInv
<1> QED
  BY <1>1, <1>2, <1>3, Invariance, PTL DEF Spec

(***************************************************************************)
(* Each line of a file is run exactly once and in its place, however the    *)
(* file is cut into batches and whichever line did not fit, up to the first *)
(* vector whose expectation output has no room for, which is never one of   *)
(* the first batch (parser_vec.c, suspend_emit of confrd.c).                *)
(***************************************************************************)
THEOREM RunsEachLine == Spec => []RunsTheFile
<1>1. IInv /\ BatchFitsOutput => RunsTheFile
  <2> SUFFICES ASSUME IInv, BatchFitsOutput PROVE RunsTheFile
    OBVIOUS
  <2>1. TypeOK
    BY Typed
  <2>2. pc = "parse" => /\ Range(ran \o Program) = Wanted /\ InPlace(ran \o Program)
                        /\ Passed({"vector", "measure"}) # {} => pi.seen_vectors
    BY DEF IInv, OrderInv, InFile, All
  <2> QED
    BY <2>1, <2>2 DEF RunsTheFile
<1> QED
  BY <1>1, Invariance, OneBatchFits, PTL

(***************************************************************************)
(* What is uploaded are results of vectors of this file that have been run, *)
(* each once and in the order of the file: what a former batch has left in  *)
(* the SRAM is never taken for one (process_sram_results of confrd.c).      *)
(***************************************************************************)
THEOREM UploadsEachOnce == Spec => []UploadedOnce
<1>1. IInv => UploadedOnce
  BY DEF IInv
<1> QED
  BY <1>1, Invariance, PTL

(***************************************************************************)
(* A file run as one batch is reported in full and each vector with its own *)
(* expectation, whatever the sizes of the SRAM and of a chunk are           *)
(* (process_sram_results of confrd.c).                      *)
(***************************************************************************)
THEOREM SmallFilesReported == Spec => []SmallFileReported
<1>1. IInv => SmallFileReported
  BY DEF IInv, FirstInv
<1> QED
  BY <1>1, Invariance, PTL

=============================================================================
