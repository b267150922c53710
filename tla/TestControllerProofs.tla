------------------------- MODULE TestControllerProofs -------------------------
(***************************************************************************)
(* Proofs about module TestController, for every depth of the FIFOs, every  *)
(* length of the synchronisers and all programs.  What is known of the path *)
(* of the vectors is taken from VectorFlowProofs, once the controller is    *)
(* shown to implement VectorFlow.                                           *)
(***************************************************************************)
EXTENDS TestController, FiniteSetTheorems, TLAPS

FlowProofs == INSTANCE VectorFlowProofs WITH stim <- StimView, check <- CheckView

(***************************************************************************)
(* The inductive invariant of stim and the SRAM port.                       *)
(***************************************************************************)

(* r words asked for, s stored, one on its way in either read stage or not. *)
Fetched(r, s, inOe, inReady) ==
  requested = r /\ stored = s /\ (oe # None <=> inOe) /\ (ready # None <=> inReady)

(* How far the fetch is in each state: the words on their way are known to  *)
(* the cycle, for nobody takes the port from stim while it reads.           *)
FetchInv ==
  /\ stimState = "IDLE" => Fetched(0, 0, FALSE, FALSE)
  /\ stimState = "READ_META" =>
       \/ Fetched(1, 0, TRUE, FALSE)
       \/ Fetched(2, 0, TRUE, TRUE)
       \/ Fetched(3, 1, TRUE, TRUE)
  /\ stimState = "READ_TV" =>
       \/ Fetched(3, 2, FALSE, TRUE)
       \/ Fetched(4, 3, TRUE, FALSE)
       \/ Fetched(5, 3, TRUE, TRUE)
       \/ Fetched(6, 4, TRUE, TRUE)
       \/ Fetched(6, 5, FALSE, TRUE)
       \/ Fetched(6, 6, FALSE, FALSE)
  /\ stimState = "WR_FIFOS" => Fetched(6, 6, FALSE, FALSE)
  /\ stimState \in {"SETUP_BITMASK", "SEND_DICMD", "SWITCH_TARGET", "START_REPLL"} =>
       Fetched(3, 2, FALSE, TRUE) \/ Fetched(3, 3, FALSE, FALSE)
  /\ stimState \in {"SWITCH_VDD", "WR_DIFIFO", "PLL_RECONFIG", "PLL_WAIT"} =>
       Fetched(3, 3, FALSE, FALSE)
  /\ stimState = "END" =>
       \/ Fetched(3, 2, FALSE, TRUE) /\ busy
       \/ Fetched(3, 3, FALSE, FALSE)
       \/ Fetched(0, 0, FALSE, FALSE)

RegsInv ==
  /\ prog \in Programs /\ runs \in 0 .. MaxRuns
  /\ enable \in BOOLEAN /\ busy \in BOOLEAN
  /\ stimState \in StimStates
  /\ stimState # "END" => busy
  /\ enable => ~busy
  /\ enable \/ busy => runs > 0
  /\ address \in Nat /\ waitcnt \in 0 .. SettleCycles
  /\ buffer \in [0 .. VectorWords - 1 -> Nat]
  /\ target \in Nat /\ bitmask \in Nat
  /\ oe \in Nat \cup {None} /\ ready \in Nat \cup {None}

(* The record stim is at, or, before a run, the first and, after it, END.   *)
Here == RecordAt(address - requested)

reached ==
  IF stimState # "END" THEN Here ELSE IF enable THEN 1 ELSE Len(prog)

(* The words stim has and those on their way are words of that record.      *)
WordsInv ==
  LET base == Base(prog, Here)
  IN  /\ Here \in DOMAIN prog
      /\ address = base + requested
      /\ oe # None => oe = address - 1
      /\ ready # None => ready = base + stored
      /\ \A k \in 0 .. stored - 1 : buffer[k] = base + k

(* The state is one of those that handle that record.                       *)
HandlesInv ==
  /\ stimState \in {"READ_TV", "WR_FIFOS"} => prog[Here] = "TEST_VECTOR"
  /\ stimState = "SETUP_BITMASK" => prog[Here] = "SETUP_BITMASK"
  /\ stimState \in {"SEND_DICMD", "WR_DIFIFO"} => prog[Here] = "SEND_DICMD"
  /\ stimState \in {"SWITCH_TARGET", "SWITCH_VDD"} => prog[Here] = "SWITCH_TARGET"
  /\ stimState \in {"START_REPLL", "PLL_RECONFIG", "PLL_WAIT"} =>
       prog[Here] = "PLLRECONFIG"

ParseInv == stimState # "END" => WordsInv /\ HandlesInv

(* No more vectors than the programs have.                                  *)
MostVectors == CHOOSE n \in { VectorsOf(p) : p \in Programs } :
                 \A p \in Programs : VectorsOf(p) <= n

VectorsFrom(p, i) == { j \in DOMAIN p : j >= i /\ p[j] = "TEST_VECTOR" }

BoundInv ==
  /\ issued \in Nat
  /\ issued + Cardinality(VectorsFrom(prog, reached)) <= runs * MostVectors

StimInv ==
  /\ RegsInv
  /\ FetchInv
  /\ ParseInv
  /\ BoundInv

-----------------------------------------------------------------------------
(***************************************************************************)
(* The inductive invariant of check and of the run as a whole.              *)
(***************************************************************************)
CheckTypeInv ==
  /\ wbAddr \in Seq(Nat) /\ Len(wbAddr) = issued
  /\ checkState \in {"IDLE", "RD_FIFOS", "CMP_AND_MASK", "WRITEBACK"}
  /\ chkAddr \in Nat /\ chkStored \in 0 .. ResultWords
  /\ checkState \in {"RD_FIFOS", "CMP_AND_MASK"} => chkStored = 0
  /\ checkState = "WRITEBACK" => chkStored < ResultWords
  /\ results \subseteq [at : Nat, run : 1 .. MaxRuns, vec : Nat, mask : Nat]

(* While the tester is not busy it is done, and check is through.           *)
DoneInv ==
  ~busy => done /\ checkState = "IDLE"

(* It takes stim longer to see that check has popped an entry than check to *)
(* write the first of its results, unless stim reads; and it does not do so *)
(* as it comes to the end.                                                  *)
LateInv ==
  /\ checkState = "CMP_AND_MASK" => \A k \in 1 .. SyncStages : toSys[k].cRd < cRd
  /\ checkState = "WRITEBACK" /\ chkStored = 0 /\ stimState = "END"
       => toSys[SyncStages].cRd < cRd

(* The vector of the i-th record, for the records behind stim.              *)
VectorsBetween(p, i, r) ==
  { j \in DOMAIN p : i < j /\ j < r /\ p[j] = "TEST_VECTOR" }

VectorNumber(i) == issued - Cardinality(VectorsBetween(prog, i, reached))

Behind == { i \in DOMAIN prog : i < reached /\ prog[i] = "TEST_VECTOR" }

(* The first vector of which check has not written everything.              *)
pending == IF checkState \in {"CMP_AND_MASK", "WRITEBACK"} THEN cRd ELSE cRd + 1

(* What cfifo holds is where the results of this run's vectors go.          *)
AddressInv ==
  /\ runs > 0 => \A n \in pending .. issued :
       \E i \in Behind : VectorNumber(i) = n /\ wbAddr[n] = Base(prog, i) + 2
  /\ checkState = "WRITEBACK" => chkAddr = wbAddr[cRd] + chkStored

(* What check has written.                                                  *)
Fields(i, n) == { <<Base(prog, i) + 2, n>>, <<Base(prog, i) + 3, n>> }

Half == IF checkState = "WRITEBACK" /\ chkStored = 1 THEN { <<wbAddr[cRd], cRd>> } ELSE {}

Through == { k \in Behind : VectorNumber(k) < pending }

WrittenInv ==
  /\ \A r \in results : r.run <= runs
  /\ runs > 0 =>
       Written = Half \cup UNION { Fields(i, VectorNumber(i)) : i \in Through }

(* The masks set so far are no older than the records behind stim.          *)
MaskInv ==
  runs > 0 =>
    /\ \A j \in DOMAIN prog : j < reached /\ prog[j] = "SETUP_BITMASK" => j <= bitmask
    /\ \A r \in results : r.run = runs =>
         \E i \in Behind :
           /\ r.at \in {Base(prog, i) + 2, Base(prog, i) + 3}
           /\ \A j \in 1 .. i - 1 : prog[j] = "SETUP_BITMASK" => j <= r.mask

RunInv ==
  /\ CheckTypeInv
  /\ DoneInv
  /\ LateInv
  /\ AddressInv
  /\ WrittenInv
  /\ MaskInv
  /\ ChangesWhenQuiescent

-----------------------------------------------------------------------------
(***************************************************************************)
(* Programs and the places of their records.                                *)
(***************************************************************************)
LEMMA ProgramFacts ==
  ASSUME NEW p \in Programs
  PROVE  /\ p \in Seq(Ops) /\ Len(p) \in Nat \ {0} /\ DOMAIN p = 1 .. Len(p)
         /\ \A i \in DOMAIN p : i \in Nat /\ p[i] \in Ops /\ (p[i] = "END" <=> i = Len(p))
  BY ControllerAssumption

LEMMA FiniteRange ==
  ASSUME NEW a \in Int, NEW b \in Int, NEW S, S \subseteq a .. b
  PROVE  IsFiniteSet(S) /\ Cardinality(S) \in Nat
<1>1. IsFiniteSet(a .. b)
  BY FS_Interval
<1> QED
  BY <1>1, FS_Subset, FS_CardinalityType

VectorsBefore(p, i) == { j \in 1 .. i - 1 : p[j] = "TEST_VECTOR" }

LEMMA BeforeFacts ==
  ASSUME NEW p, NEW i \in Nat
  PROVE  IsFiniteSet(VectorsBefore(p, i)) /\ Cardinality(VectorsBefore(p, i)) \in Nat
<1>1. VectorsBefore(p, i) \subseteq 1 .. i - 1 /\ 1 \in Int /\ i - 1 \in Int
  BY DEF VectorsBefore
<1> QED
  BY <1>1, FiniteRange

LEMMA BaseIs ==
  ASSUME NEW p, NEW i \in Nat
  PROVE  Base(p, i) = 3 * (i - 1) + 3 * Cardinality(VectorsBefore(p, i))
<1>1. Cardinality(VectorsBefore(p, i)) \in Nat
  BY BeforeFacts
<1> QED
  BY <1>1 DEF Base, VectorsBefore, VectorWords, ShortWords

Words(p, i) == IF p[i] = "TEST_VECTOR" THEN VectorWords ELSE ShortWords

(* The records lie one behind the other, the first at 0.                    *)
LEMMA BaseFirst ==
  ASSUME NEW p
  PROVE  Base(p, 1) = 0
<1>1. VectorsBefore(p, 1) = {}
  BY DEF VectorsBefore
<1>2. Cardinality(VectorsBefore(p, 1)) = 0
  BY <1>1, FS_EmptySet
<1> QED
  BY <1>2, BaseIs

LEMMA BaseNext ==
  ASSUME NEW p, NEW i \in Nat \ {0}
  PROVE  Base(p, i + 1) = Base(p, i) + Words(p, i)
<1> DEFINE now == VectorsBefore(p, i)
           nxt == VectorsBefore(p, i + 1)
<1>1. IsFiniteSet(now) /\ Cardinality(now) \in Nat
  BY BeforeFacts
<1>2. CASE p[i] = "TEST_VECTOR"
  <2>1. nxt = now \cup {i} /\ i \notin now
    BY <1>2 DEF VectorsBefore
  <2>2. Cardinality(nxt) = Cardinality(now) + 1
    BY <1>1, <2>1, FS_AddElement
  <2> QED
    BY <1>1, <1>2, <2>2, BaseIs DEF Words, VectorWords
<1>3. CASE p[i] # "TEST_VECTOR"
  <2>1. nxt = now
    BY <1>3 DEF VectorsBefore
  <2> QED
    BY <1>1, <1>3, <2>1, BaseIs DEF Words, ShortWords
<1> QED
  BY <1>2, <1>3

LEMMA BaseGrows ==
  ASSUME NEW p, NEW i \in Nat \ {0}, NEW j \in Nat, i < j
  PROVE  Base(p, i) \in Nat /\ Base(p, j) \in Nat /\ Base(p, i) < Base(p, j)
<1>1. /\ IsFiniteSet(VectorsBefore(p, j)) /\ Cardinality(VectorsBefore(p, j)) \in Nat
      /\ Cardinality(VectorsBefore(p, i)) \in Nat
  BY BeforeFacts
<1>2. VectorsBefore(p, i) \subseteq VectorsBefore(p, j)
  BY DEF VectorsBefore
<1>3. Cardinality(VectorsBefore(p, i)) <= Cardinality(VectorsBefore(p, j))
  BY <1>1, <1>2, FS_Subset
<1> QED
  BY <1>1, <1>3, BaseIs

LEMMA BaseType ==
  ASSUME NEW p, NEW i \in Nat \ {0}
  PROVE  Base(p, i) \in Nat
  BY BeforeFacts, BaseIs

(* The result fields of two records are apart.                              *)
LEMMA FieldsApart ==
  ASSUME NEW p, NEW i \in Nat \ {0}, NEW k \in Nat \ {0},
         NEW a \in {Base(p, i) + 2, Base(p, i) + 3},
         a \in {Base(p, k) + 2, Base(p, k) + 3}
  PROVE  i = k
<1>1. /\ Cardinality(VectorsBefore(p, i)) \in Nat /\ Cardinality(VectorsBefore(p, k)) \in Nat
      /\ Base(p, i) = 3 * (i - 1) + 3 * Cardinality(VectorsBefore(p, i))
      /\ Base(p, k) = 3 * (k - 1) + 3 * Cardinality(VectorsBefore(p, k))
  BY BeforeFacts, BaseIs
<1>2. Base(p, i) = Base(p, k)
  BY <1>1
<1>3. ~(i < k) /\ ~(k < i)
  BY <1>2, BaseGrows
<1> QED
  BY <1>3

LEMMA RecordAtBase ==
  ASSUME NEW i \in DOMAIN prog, prog \in Programs
  PROVE  RecordAt(Base(prog, i)) = i
<1>1. DOMAIN prog = 1 .. Len(prog) /\ Len(prog) \in Nat
  BY ProgramFacts
<1>2. \A j \in DOMAIN prog : Base(prog, j) = Base(prog, i) => j = i
  BY <1>1, BaseGrows
<1> QED
  BY <1>2 DEF RecordAt

(* The vectors still to come.                                               *)
LEMMA FromNext ==
  ASSUME NEW p \in Programs, NEW i \in DOMAIN p
  PROVE  /\ IsFiniteSet(VectorsFrom(p, i)) /\ Cardinality(VectorsFrom(p, i)) \in Nat
         /\ Cardinality(VectorsFrom(p, i + 1)) \in Nat
         /\ Cardinality(VectorsFrom(p, i))
              = Cardinality(VectorsFrom(p, i + 1)) + (IF p[i] = "TEST_VECTOR" THEN 1 ELSE 0)
<1>1. DOMAIN p = 1 .. Len(p) /\ Len(p) \in Nat /\ i \in Nat
  BY ProgramFacts
<1>2. /\ IsFiniteSet(VectorsFrom(p, i)) /\ Cardinality(VectorsFrom(p, i)) \in Nat
      /\ IsFiniteSet(VectorsFrom(p, i + 1)) /\ Cardinality(VectorsFrom(p, i + 1)) \in Nat
  <2>1. VectorsFrom(p, i) \subseteq 1 .. Len(p) /\ VectorsFrom(p, i + 1) \subseteq 1 .. Len(p)
    BY <1>1 DEF VectorsFrom
  <2> QED
    BY <1>1, <2>1, FiniteRange
<1>3. CASE p[i] = "TEST_VECTOR"
  <2>1. VectorsFrom(p, i) = VectorsFrom(p, i + 1) \cup {i} /\ i \notin VectorsFrom(p, i + 1)
    BY <1>1, <1>3 DEF VectorsFrom
  <2>2. Cardinality(VectorsFrom(p, i)) = Cardinality(VectorsFrom(p, i + 1)) + 1
    BY <1>2, <2>1, FS_AddElement
  <2> QED
    BY <1>2, <1>3, <2>2
<1>4. CASE p[i] # "TEST_VECTOR"
  <2>1. VectorsFrom(p, i) = VectorsFrom(p, i + 1)
    BY <1>1, <1>4 DEF VectorsFrom
  <2> QED
    BY <1>2, <1>4, <2>1
<1> QED
  BY <1>2, <1>3, <1>4

LEMMA FromEnds ==
  ASSUME NEW p \in Programs
  PROVE  /\ Cardinality(VectorsFrom(p, Len(p))) = 0
         /\ Cardinality(VectorsFrom(p, 1)) = VectorsOf(p)
<1>1. /\ DOMAIN p = 1 .. Len(p) /\ Len(p) \in Nat
      /\ \A i \in DOMAIN p : p[i] = "END" <=> i = Len(p)
  BY ProgramFacts
<1>2. VectorsFrom(p, Len(p)) = {}
  BY <1>1 DEF VectorsFrom
<1>3. VectorsFrom(p, 1) = { i \in DOMAIN p : p[i] = "TEST_VECTOR" }
  BY <1>1 DEF VectorsFrom
<1> QED
  BY <1>2, <1>3, FS_EmptySet DEF VectorsOf

LEMMA MostVectorsIs ==
  /\ MostVectors \in Nat
  /\ \A p \in Programs : VectorsOf(p) \in Nat /\ VectorsOf(p) <= MostVectors
  /\ MaxVectors = MaxRuns * MostVectors /\ MaxVectors \in Nat
<1>1. \A p \in Programs : VectorsOf(p) \in Nat
  BY FromNext, FromEnds, ProgramFacts
<1>2. \E n \in { VectorsOf(p) : p \in Programs } : \A p \in Programs : VectorsOf(p) <= n
  BY ControllerAssumption
<1>3. /\ MostVectors \in { VectorsOf(p) : p \in Programs }
      /\ \A p \in Programs : VectorsOf(p) <= MostVectors
  BY <1>2 DEF MostVectors
<1>4. MostVectors \in Nat
  BY <1>1, <1>3
<1>5. MaxVectors = MaxRuns * MostVectors
  BY DEF MaxVectors, MostVectors
<1> QED
  BY <1>1, <1>3, <1>4, <1>5, ControllerAssumption

-----------------------------------------------------------------------------
(***************************************************************************)
(* stim on an edge of the system clock.                                     *)
(***************************************************************************)
LEMMA RecordType ==
  ASSUME NEW a, prog \in Programs
  PROVE  RecordAt(a) \in Nat
<1>1. \A i \in DOMAIN prog : i \in Nat
  BY ProgramFacts
<1> QED
  BY <1>1 DEF RecordAt

(* Away from END the port is stim's: each word it asks for is on its way.   *)
LEMMA PortFacts ==
  ASSUME StimInv, SysTick, stimState # "END"
  PROVE  /\ busy /\ ~enable
         /\ prog' = prog /\ runs' = runs /\ enable' = FALSE /\ busy' = TRUE
         /\ address' = IF stim_read THEN address + 1 ELSE address
         /\ oe' = IF stim_read THEN address ELSE None
         /\ ready' = oe
         /\ requested' = IF stimState' = "IDLE" THEN 0
                         ELSE IF stim_read THEN requested + 1 ELSE requested
         /\ stored' = IF stimState' = "IDLE" THEN 0
                      ELSE IF ready # None THEN stored + 1 ELSE stored
         /\ buffer' = IF ready # None THEN [buffer EXCEPT ![stored] = ready] ELSE buffer
<1>1. busy = TRUE /\ ~enable
  BY DEF StimInv, RegsInv
<1>2. ~done
  BY DEF done
<1>3. RunnerStep /\ StimRegs /\ SramStep
  BY DEF SysTick, StimStep
<1>4. prog' = prog /\ runs' = runs /\ enable' = FALSE /\ busy' = TRUE
  BY <1>1, <1>2, <1>3 DEF RunnerStep
<1>5. inc_address <=> stim_read
  BY <1>1 DEF inc_address, mem_waitrequest
<1>6. mem_readdataready <=> ready # None
  BY <1>1 DEF mem_readdataready
<1> QED
  BY <1>1, <1>3, <1>4, <1>5, <1>6 DEF StimRegs, SramStep, next_address

(* stim goes from the first words of a record to the state that handles it. *)
LEMMA RecordIsHere ==
  ASSUME StimInv, stimState # "END", stored >= 1
  PROVE  record = Here /\ req_type = prog[Here] /\ Here \in DOMAIN prog
<1>1. WordsInv /\ prog \in Programs
  BY DEF StimInv, ParseInv, RegsInv
<1>2. 0 \in 0 .. stored - 1
  BY DEF StimInv, FetchInv, Fetched, RegsInv, StimStates, ShortStates
<1>3. buffer[0] = Base(prog, Here) + 0 /\ Here \in DOMAIN prog
  BY <1>1, <1>2 DEF WordsInv
<1>4. Here \in Nat \ {0}
  BY <1>1, <1>3, ProgramFacts
<1>5. buffer[0] = Base(prog, Here)
  BY <1>3, <1>4, BaseType
<1>6. record = Here
  BY <1>1, <1>3, <1>5, RecordAtBase DEF record
<1> QED
  BY <1>3, <1>4, <1>6 DEF req_type

(* Where stim goes next.                                                    *)
LEMMA StimNext ==
  ASSUME StimInv, SysTick
  PROVE  /\ stimState' \in StimStates
         /\ stimState = "IDLE" => stimState' = IF stim_read THEN "READ_META" ELSE "IDLE"
         /\ stimState = "READ_META" =>
              stimState' = IF stored = 1 THEN Handler[prog[Here]] ELSE "READ_META"
         /\ stimState = "READ_TV" =>
              stimState' = IF stored = 6 THEN "WR_FIFOS" ELSE "READ_TV"
         /\ stimState = "WR_FIFOS" => stimState' = "IDLE"
         /\ stimState = "SETUP_BITMASK" =>
              stimState' = IF stored = 3 THEN "IDLE" ELSE "SETUP_BITMASK"
         /\ stimState = "SEND_DICMD" =>
              stimState' \in IF stored = 3 THEN {"SEND_DICMD", "WR_DIFIFO"} ELSE {"SEND_DICMD"}
         /\ stimState = "WR_DIFIFO" => stimState' = "IDLE"
         /\ stimState = "SWITCH_TARGET" => stimState' \in {"SWITCH_TARGET", "SWITCH_VDD"}
         /\ stimState = "SWITCH_VDD" => stimState' \in {"SWITCH_VDD", "IDLE"}
         /\ stimState = "START_REPLL" =>
              stimState' \in IF stored = 3 THEN {"START_REPLL", "PLL_RECONFIG"}
                                           ELSE {"START_REPLL"}
         /\ stimState = "PLL_RECONFIG" => stimState' = "PLL_WAIT"
         /\ stimState = "PLL_WAIT" => stimState' \in {"PLL_WAIT", "IDLE"}
         /\ stimState = "END" => stimState' = IF done /\ enable THEN "IDLE" ELSE "END"
<1>1. StimState /\ stimState \in StimStates
  BY DEF SysTick, StimStep, StimInv, RegsInv
<1>2. stimState = "IDLE" => ~mem_waitrequest
  BY DEF StimInv, RegsInv, mem_waitrequest
<1>3. CASE stimState = "READ_META"
  <2>1. stimState' = IF stored = 1 THEN Handler[req_type] ELSE "READ_META"
    BY <1>1, <1>3 DEF StimState, StimIdle, StimReadMeta, StimReadTv, StimWrFifos, StimSwitchTarget,
           StimSwitchVdd, StimSetupBitmask, StimSendDicmd, StimWrDififo, StimRepll,
           StimPllReconfig, StimPllWait, StimEnd
  <2>2. CASE stored = 1
    <3>1. req_type = prog[Here] /\ prog[Here] \in Ops
      BY <1>3, <2>2, RecordIsHere, ProgramFacts DEF StimInv, RegsInv
    <3>2. Handler[prog[Here]] \in StimStates
      BY <3>1 DEF Handler, Ops, StimStates, ShortStates
    <3> QED
      BY <1>3, <2>1, <2>2, <3>1, <3>2
  <2> QED
    BY <1>3, <2>1, <2>2 DEF StimStates, ShortStates
<1>4. CASE stimState # "READ_META"
  BY <1>1, <1>2, <1>4 DEF StimState, StimIdle, StimReadMeta, StimReadTv, StimWrFifos,
     StimSwitchTarget, StimSwitchVdd, StimSetupBitmask, StimSendDicmd, StimWrDififo, StimRepll,
     StimPllReconfig, StimPllWait, StimEnd, StimStates, ShortStates, load_bitmask,
     ShortWords, VectorWords
<1> QED
  BY <1>3, <1>4

LEMMA HandlerFacts ==
  ASSUME NEW op \in Ops
  PROVE  /\ Handler[op] \in {"SWITCH_TARGET", "READ_TV", "SETUP_BITMASK", "SEND_DICMD",
                             "START_REPLL", "END"}
         /\ Handler[op] = "END" <=> op = "END"
         /\ Handler[op] = "READ_TV" <=> op = "TEST_VECTOR"
         /\ Handler[op] = "SETUP_BITMASK" <=> op = "SETUP_BITMASK"
         /\ Handler[op] = "SEND_DICMD" <=> op = "SEND_DICMD"
         /\ Handler[op] = "SWITCH_TARGET" <=> op = "SWITCH_TARGET"
         /\ Handler[op] = "START_REPLL" <=> op = "PLLRECONFIG"
  BY DEF Handler, Ops

(* Which states read, and what is on its way then.                          *)
LEMMA ReadFacts ==
  ASSUME StimInv, stimState # "END"
  PROVE  /\ stim_read \in BOOLEAN
         /\ stimState = "READ_META" => (stim_read <=> requested < 3)
         /\ stimState = "READ_TV" => (stim_read <=> requested < 6)
         /\ stimState \in {"WR_FIFOS", "SETUP_BITMASK", "SEND_DICMD", "WR_DIFIFO",
                           "SWITCH_TARGET", "SWITCH_VDD", "START_REPLL", "PLL_RECONFIG",
                           "PLL_WAIT"} => ~stim_read
         /\ requested \in 0 .. 6 /\ stored \in 0 .. requested
         /\ ready # None => stored <= 5
         /\ oe # None => requested - 1 = stored + (IF ready # None THEN 1 ELSE 0)
<1>1. FetchInv /\ stimState \in StimStates
  BY DEF StimInv, RegsInv
<1>2. stim_read \in BOOLEAN
  BY DEF stim_read
<1>3. /\ stimState = "READ_META" => (stim_read <=> requested < 3)
      /\ stimState = "READ_TV" => (stim_read <=> requested < 6)
      /\ stimState \in {"WR_FIFOS", "SETUP_BITMASK", "SEND_DICMD", "WR_DIFIFO",
                        "SWITCH_TARGET", "SWITCH_VDD", "START_REPLL", "PLL_RECONFIG",
                        "PLL_WAIT"} => ~stim_read
  BY <1>1 DEF stim_read, FetchInv, Fetched, ShortStates, ShortWords, VectorWords
<1>4. /\ requested \in 0 .. 6 /\ stored \in 0 .. requested
      /\ ready # None => stored <= 5
      /\ oe # None => requested - 1 = stored + (IF ready # None THEN 1 ELSE 0)
  BY <1>1 DEF FetchInv, Fetched, StimStates, ShortStates
<1> QED
  BY <1>2, <1>3, <1>4

(* The state as stim goes for the next record: the last word of this one    *)
(* has come, and nothing else was asked for.                                *)
LEMMA RecordEnds ==
  ASSUME StimInv, SysTick, stimState # "END", stimState # "IDLE", stimState' = "IDLE"
  PROVE  /\ ~stim_read /\ oe = None /\ ready = None
         /\ prog[Here] # "END"
         /\ requested = Words(prog, Here)
         /\ stimState \in {"WR_FIFOS", "SETUP_BITMASK", "SWITCH_VDD", "WR_DIFIFO", "PLL_WAIT"}
<1>1. FetchInv /\ HandlesInv /\ stimState \in StimStates
  BY DEF StimInv, ParseInv, RegsInv
<1>2. stimState # "READ_META"
  <2> SUFFICES ASSUME stimState = "READ_META" PROVE FALSE
    OBVIOUS
  <2>1. stored = 1 /\ stimState' = Handler[prog[Here]]
    BY StimNext
  <2>2. prog[Here] \in Ops
    BY <2>1, RecordIsHere, ProgramFacts DEF StimInv, RegsInv
  <2> QED
    BY <2>1, <2>2, HandlerFacts
<1>3. CASE stimState = "WR_FIFOS"
  BY <1>1, <1>3, ReadFacts DEF FetchInv, Fetched, HandlesInv, Words, VectorWords
<1>4. CASE stimState \in {"SETUP_BITMASK", "SWITCH_VDD", "WR_DIFIFO", "PLL_WAIT"}
  <2>1. requested = 3 /\ oe = None /\ ready = None
    BY <1>1, <1>4, StimNext DEF FetchInv, Fetched
  <2>2. prog[Here] # "END" /\ prog[Here] # "TEST_VECTOR"
    BY <1>1, <1>4 DEF HandlesInv
  <2> QED
    BY <1>4, <2>1, <2>2, ReadFacts DEF Words, ShortWords
<1>5. stimState \in {"WR_FIFOS", "SETUP_BITMASK", "SWITCH_VDD", "WR_DIFIFO", "PLL_WAIT"}
  BY <1>1, <1>2, StimNext DEF StimStates, ShortStates
<1> QED
  BY <1>3, <1>4, <1>5

LEMMA FetchStepInv ==
  ASSUME StimInv, SysTick, stimState # "END"
  PROVE  FetchInv'
<1>0. /\ FetchInv /\ stimState \in StimStates
      /\ address \in Nat /\ None \notin Nat
  BY ControllerAssumption DEF StimInv, RegsInv
<1>1. oe' # None <=> stim_read
  BY <1>0, PortFacts
<1>2. /\ ready' = oe
      /\ requested' = IF stimState' = "IDLE" THEN 0
                      ELSE IF stim_read THEN requested + 1 ELSE requested
      /\ stored' = IF stimState' = "IDLE" THEN 0
                   ELSE IF ready # None THEN stored + 1 ELSE stored
  BY PortFacts
<1>3. CASE stimState = "IDLE"
  <2>1. Fetched(0, 0, FALSE, FALSE)
    BY <1>0, <1>3 DEF FetchInv
  <2>2. CASE stim_read
    BY <1>1, <1>2, <1>3, <2>1, <2>2, StimNext DEF FetchInv, Fetched
  <2>3. CASE ~stim_read
    BY <1>1, <1>2, <1>3, <2>1, <2>3, StimNext DEF FetchInv, Fetched
  <2> QED
    BY <2>2, <2>3
<1>4. CASE stimState # "IDLE" /\ stimState' = "IDLE"
  BY <1>1, <1>2, <1>4, RecordEnds DEF FetchInv, Fetched
<1>5. CASE stimState = "READ_META" /\ stored # 1
  <2>1. stimState' = "READ_META" /\ (stim_read <=> requested < 3)
    BY <1>5, StimNext, ReadFacts
  <2> QED
    BY <1>0, <1>1, <1>2, <1>5, <2>1 DEF FetchInv, Fetched
<1>6. CASE stimState = "READ_META" /\ stored = 1
  <2>1. prog[Here] \in Ops
    BY <1>6, RecordIsHere, ProgramFacts DEF StimInv, RegsInv
  <2>2. stimState' \in {"SWITCH_TARGET", "READ_TV", "SETUP_BITMASK", "SEND_DICMD",
                        "START_REPLL", "END"}
    BY <1>6, <2>1, StimNext, HandlerFacts
  <2>3. Fetched(3, 1, TRUE, TRUE) /\ ~stim_read
    BY <1>0, <1>6, ReadFacts DEF FetchInv, Fetched
  <2>4. busy' = TRUE
    BY PortFacts
  <2> QED
    BY <1>1, <1>2, <2>2, <2>3, <2>4 DEF FetchInv, Fetched
<1>7. CASE stimState = "READ_TV"
  <2>1. /\ stimState' = IF stored = 6 THEN "WR_FIFOS" ELSE "READ_TV"
        /\ stim_read <=> requested < 6
    BY <1>7, StimNext, ReadFacts
  <2> QED
    BY <1>0, <1>1, <1>2, <1>7, <2>1 DEF FetchInv, Fetched
<1>8. CASE /\ stimState \in {"SETUP_BITMASK", "SEND_DICMD", "SWITCH_TARGET", "START_REPLL"}
           /\ stimState' # "IDLE"
  <2>1. ~stim_read
    BY <1>8, ReadFacts
  <2>2. \/ stimState' = stimState
        \/ stimState' \in {"WR_DIFIFO", "PLL_RECONFIG"} /\ stored = 3
        \/ stimState' = "SWITCH_VDD"
    BY <1>8, StimNext
  <2> QED
    BY <1>0, <1>1, <1>2, <1>8, <2>1, <2>2 DEF FetchInv, Fetched
<1>9. CASE /\ stimState \in {"SWITCH_VDD", "PLL_RECONFIG", "PLL_WAIT"}
           /\ stimState' # "IDLE"
  <2>1. ~stim_read /\ stimState' \in {"SWITCH_VDD", "PLL_WAIT"}
    BY <1>9, StimNext, ReadFacts
  <2> QED
    BY <1>0, <1>1, <1>2, <1>9, <2>1 DEF FetchInv, Fetched
<1>10. stimState \in {"WR_DIFIFO", "WR_FIFOS"} => stimState' = "IDLE"
  BY StimNext
<1> QED
  BY <1>0, <1>3, <1>4, <1>5, <1>6, <1>7, <1>8, <1>9, <1>10 DEF StimStates, ShortStates

(* The record stim is at after an edge.                                     *)
LEMMA HereNext ==
  ASSUME StimInv, SysTick
  PROVE  /\ stimState # "END" =>
              /\ Here \in DOMAIN prog /\ Here \in Nat /\ prog' = prog
              /\ prog[Here] \in Ops
              /\ stimState' \notin {"END", "IDLE"} => Here' = Here
              /\ stimState = "IDLE" /\ stimState' = "IDLE" => Here' = Here
              /\ stimState # "IDLE" /\ stimState' = "IDLE" =>
                   Here' = Here + 1 /\ Here + 1 \in DOMAIN prog
              /\ stimState' = "END" => Here = Len(prog) /\ enable' = FALSE
         /\ stimState = "END" /\ stimState' = "IDLE" =>
              Here' = 1 /\ prog' = prog /\ enable
<1>0. prog \in Programs /\ address \in Nat
  BY DEF StimInv, RegsInv
<1>1. DOMAIN prog = 1 .. Len(prog) /\ Len(prog) \in Nat \ {0}
  BY <1>0, ProgramFacts
<1>2. ASSUME stimState # "END"
      PROVE  /\ Here \in DOMAIN prog /\ Here \in Nat /\ prog' = prog
             /\ prog[Here] \in Ops
             /\ stimState' \notin {"END", "IDLE"} => Here' = Here
             /\ stimState = "IDLE" /\ stimState' = "IDLE" => Here' = Here
             /\ stimState # "IDLE" /\ stimState' = "IDLE" =>
                  Here' = Here + 1 /\ Here + 1 \in DOMAIN prog
             /\ stimState' = "END" => Here = Len(prog) /\ enable' = FALSE
  <2>1. WordsInv
    BY <1>2 DEF StimInv, ParseInv
  <2>2. /\ Here \in DOMAIN prog /\ Here \in Nat \ {0}
        /\ address = Base(prog, Here) + requested
        /\ requested \in Nat
    BY <1>0, <1>1, <1>2, <2>1, ReadFacts DEF WordsInv
  <2>3. prog' = prog /\ enable' = FALSE
    BY <1>2, PortFacts
  <2>5. address' - requested' = address - requested => Here' = Here
    BY <2>3 DEF Here, RecordAt
  <2>6. stimState' \notin {"END", "IDLE"} => Here' = Here
    BY <1>0, <1>2, <2>2, <2>5, PortFacts
  <2>7. stimState = "IDLE" /\ stimState' = "IDLE" => Here' = Here
    <3> SUFFICES ASSUME stimState = "IDLE", stimState' = "IDLE" PROVE Here' = Here
      OBVIOUS
    <3>1. requested = 0 /\ ~stim_read
      BY <1>2, StimNext DEF StimInv, FetchInv, Fetched
    <3> QED
      BY <1>0, <1>2, <2>5, <3>1, PortFacts
  <2>8. ASSUME stimState # "IDLE", stimState' = "IDLE"
        PROVE  Here' = Here + 1 /\ Here + 1 \in DOMAIN prog
    <3>1. ~stim_read /\ prog[Here] # "END" /\ requested = Words(prog, Here)
      BY <1>2, <2>8, RecordEnds
    <3>2. Here + 1 \in DOMAIN prog
      BY <1>0, <1>1, <2>2, <3>1, ProgramFacts
    <3>3. Base(prog, Here + 1) = Base(prog, Here) + Words(prog, Here)
      BY <2>2, BaseNext
    <3>4. address' = Base(prog, Here + 1) /\ requested' = 0
      BY <1>2, <2>2, <2>8, <3>1, <3>3, PortFacts
    <3>5. RecordAt(Base(prog, Here + 1)) = Here + 1
      BY <1>0, <3>2, RecordAtBase
    <3>6. Base(prog, Here + 1) \in Nat
      BY <2>2, BaseType
    <3>7. address' - requested' = Base(prog, Here + 1)
      BY <3>4, <3>6
    <3> QED
      BY <2>3, <3>2, <3>5, <3>7 DEF Here, RecordAt
  <2>9. stimState' = "END" => Here = Len(prog)
    <3> SUFFICES ASSUME stimState' = "END" PROVE Here = Len(prog)
      OBVIOUS
    <3>1. stimState = "READ_META" /\ stored = 1
      BY <1>2, StimNext DEF StimInv, RegsInv, StimStates, ShortStates
    <3>2. Handler[prog[Here]] = "END" /\ prog[Here] \in Ops
      BY <1>0, <2>2, <3>1, StimNext, ProgramFacts
    <3>3. prog[Here] = "END"
      BY <3>2, HandlerFacts
    <3> QED
      BY <1>0, <2>2, <3>3, ProgramFacts
  <2> QED
    BY <1>0, <2>2, <2>3, <2>6, <2>7, <2>8, <2>9, ProgramFacts
<1>3. ASSUME stimState = "END", stimState' = "IDLE"
      PROVE  Here' = 1 /\ prog' = prog /\ enable
  <2>1. enable
    BY <1>3, StimNext
  <2>2. prog' = prog /\ address' = 0 /\ requested' = 0
    BY <1>3, <2>1 DEF SysTick, RunnerStep, StimStep, StimRegs, next_address
  <2>3. RecordAt(Base(prog, 1)) = 1 /\ Base(prog, 1) = 0
    BY <1>0, <1>1, RecordAtBase, BaseFirst
  <2>4. address' - requested' = 0
    BY <2>2
  <2> QED
    BY <2>1, <2>2, <2>3, <2>4 DEF Here, RecordAt
<1> QED
  BY <1>2, <1>3

LEMMA WordsStepInv ==
  ASSUME StimInv, SysTick, stimState # "END", stimState' # "END"
  PROVE  WordsInv'
<1>0. /\ prog \in Programs /\ address \in Nat /\ WordsInv /\ None \notin Nat
      /\ buffer \in [0 .. 5 -> Nat] /\ oe \in Nat \cup {None} /\ ready \in Nat \cup {None}
  BY ControllerAssumption DEF StimInv, RegsInv, ParseInv, VectorWords
<1>1. /\ Here \in DOMAIN prog /\ prog' = prog /\ Here \in Nat \ {0}
      /\ Base(prog, Here) \in Nat
  BY <1>0, HereNext, ProgramFacts, BaseType, SMTT(30)
<1>2. CASE stimState' # "IDLE"
  <2> DEFINE base == Base(prog, Here)
  <2>1. Here' = Here /\ Base(prog', Here') = base
    BY <1>1, <1>2, HereNext DEF Base
  <2>2. /\ address' = IF stim_read THEN address + 1 ELSE address
        /\ requested' = IF stim_read THEN requested + 1 ELSE requested
        /\ stored' = IF ready # None THEN stored + 1 ELSE stored
        /\ oe' = IF stim_read THEN address ELSE None
        /\ ready' = oe
        /\ buffer' = IF ready # None THEN [buffer EXCEPT ![stored] = ready] ELSE buffer
    BY <1>2, PortFacts
  <2>3. /\ address = base + requested
        /\ oe # None => oe = address - 1
        /\ ready # None => ready = base + stored
        /\ \A k \in 0 .. stored - 1 : buffer[k] = base + k
    BY <1>0 DEF WordsInv
  <2>4. /\ requested \in Nat /\ stored \in 0 .. 6
        /\ ready # None => stored \in 0 .. 5
        /\ oe # None => requested - 1 = stored + (IF ready # None THEN 1 ELSE 0)
    BY ReadFacts
  <2>5. address' = base + requested' /\ (oe' # None => oe' = address' - 1)
    BY <1>0, <1>1, <2>2, <2>3, <2>4
  <2>6. ready' # None => ready' = base + stored'
    BY <1>0, <1>1, <2>2, <2>3, <2>4
  <2>7. \A k \in 0 .. stored' - 1 : buffer'[k] = base + k
    <3>1. CASE ready = None
      BY <2>2, <2>3, <3>1
    <3>2. CASE ready # None
      <4>1. /\ buffer' = [buffer EXCEPT ![stored] = ready] /\ stored' = stored + 1
            /\ stored \in 0 .. 5
        BY <2>2, <2>4, <3>2
      <4>2. buffer'[stored] = base + stored
        BY <1>0, <2>3, <3>2, <4>1
      <4>3. \A k \in 0 .. stored - 1 : buffer'[k] = buffer[k]
        BY <1>0, <4>1
      <4> QED
        BY <2>3, <4>1, <4>2, <4>3
    <3> QED
      BY <3>1, <3>2
  <2>8. Here' \in DOMAIN prog'
    BY <1>1, <2>1
  <2> QED
    BY <2>1, <2>5, <2>6, <2>7, <2>8 DEF WordsInv
<1>3. CASE stimState' = "IDLE"
  <2>1. /\ requested' = 0 /\ stored' = 0 /\ ready' = oe
        /\ oe' = IF stim_read THEN address ELSE None
        /\ address' = IF stim_read THEN address + 1 ELSE address
    BY <1>3, PortFacts
  <2>2. /\ oe = None /\ ~stim_read /\ Here' \in DOMAIN prog'
        /\ address = Base(prog, Here')
    <3>1. CASE stimState = "IDLE"
      <4>1. ~stim_read /\ oe = None /\ requested = 0
        BY <1>3, <3>1, StimNext DEF StimInv, FetchInv, Fetched
      <4>2. Here' = Here
        BY <1>3, <3>1, HereNext
      <4> QED
        BY <1>0, <1>1, <4>1, <4>2 DEF WordsInv
    <3>2. CASE stimState # "IDLE"
      <4>1. ~stim_read /\ oe = None /\ requested = Words(prog, Here)
        BY <1>3, <3>2, RecordEnds
      <4>2. Here' = Here + 1 /\ Here + 1 \in DOMAIN prog
        BY <1>3, <3>2, HereNext
      <4>3. Base(prog, Here + 1) = Base(prog, Here) + Words(prog, Here)
        BY <1>1, BaseNext
      <4> QED
        BY <1>0, <1>1, <4>1, <4>2, <4>3 DEF WordsInv
    <3> QED
      BY <3>1, <3>2
  <2>3. Base(prog', Here') = address' /\ Base(prog', Here') \in Nat
    BY <1>0, <1>1, <2>1, <2>2 DEF Base
  <2> QED
    BY <2>1, <2>2, <2>3 DEF WordsInv
<1> QED
  BY <1>2, <1>3

LEMMA HandlesStepInv ==
  ASSUME StimInv, SysTick, stimState # "END", stimState' # "END"
  PROVE  HandlesInv'
<1>0. /\ HandlesInv /\ stimState \in StimStates
  BY DEF StimInv, RegsInv, ParseInv
<1>1. prog' = prog /\ prog[Here] \in Ops
  BY HereNext
<1>2. CASE stimState' = "IDLE" \/ stimState' = "READ_META"
  BY <1>2 DEF HandlesInv
<1>3. CASE stimState' # "IDLE" /\ stimState' # "READ_META"
  <2>1. Here' = Here
    BY <1>3, HereNext
  <2>2. CASE stimState = "READ_META"
    <3>1. stimState' = Handler[prog[Here]]
      BY <1>3, <2>2, StimNext
    <3> QED
      BY <1>1, <2>1, <3>1, HandlerFacts DEF HandlesInv
  <2>3. CASE stimState # "READ_META"
    <3>1. stimState # "IDLE"
      BY <1>3, StimNext
    <3> QED
      BY <1>0, <1>1, <1>3, <2>1, <2>3, <3>1, StimNext
         DEF HandlesInv, StimStates, ShortStates
  <2> QED
    BY <2>2, <2>3
<1> QED
  BY <1>2, <1>3

LEMMA IssuedNext ==
  ASSUME StimInv, SysTick
  PROVE  issued' = IF stimState = "WR_FIFOS" THEN issued + 1 ELSE issued
<1>1. StimState /\ stimState \in StimStates
  BY DEF SysTick, StimStep, StimInv, RegsInv
<1>2. CASE stimState = "WR_FIFOS"
  BY <1>1, <1>2 DEF StimState, StimIdle, StimReadMeta, StimReadTv, StimWrFifos,
     StimSwitchTarget, StimSwitchVdd, StimSetupBitmask, StimSendDicmd, StimWrDififo, StimRepll,
     StimPllReconfig, StimPllWait, StimEnd
<1>3. CASE stimState # "WR_FIFOS"
  BY <1>1, <1>3 DEF StimState, StimIdle, StimReadMeta, StimReadTv, StimWrFifos,
     StimSwitchTarget, StimSwitchVdd, StimSetupBitmask, StimSendDicmd, StimWrDififo, StimRepll,
     StimPllReconfig, StimPllWait, StimEnd, NoVector
<1> QED
  BY <1>2, <1>3

(* What becomes of the record that is reached.                              *)
LEMMA ReachedNext ==
  ASSUME StimInv, SysTick
  PROVE  \/ /\ prog' = prog /\ runs' = runs /\ reached' = reached
            /\ stimState # "WR_FIFOS" /\ enable' = FALSE
            /\ stimState = "END" /\ stimState' = "END" => ~enable
         \/ /\ prog' = prog /\ runs' = runs /\ ~enable /\ enable' = FALSE
            /\ stimState \notin {"END", "IDLE"} /\ stimState' = "IDLE"
            /\ reached = Here /\ reached' = reached + 1 /\ reached + 1 \in DOMAIN prog
         \/ /\ prog' = prog /\ runs' = runs /\ enable /\ enable' = FALSE /\ stimState = "END"
            /\ stimState' = "END" /\ ~done /\ reached = 1 /\ reached' = Len(prog)
         \/ /\ prog' \in Programs /\ runs' = runs + 1 /\ runs < MaxRuns
            /\ ~enable /\ ~busy /\ done /\ enable' = TRUE
            /\ stimState = "END" /\ stimState' = "END"
            /\ reached = Len(prog) /\ reached' = 1
<1>1. CASE stimState # "END"
  <2>0. runs' = runs /\ enable' = FALSE /\ ~enable
    BY <1>1, PortFacts
  <2>1. stimState = "WR_FIFOS" => stimState' = "IDLE"
    BY StimNext
  <2> QED
    BY <1>1, <2>0, <2>1, HereNext DEF reached
<1>2. CASE stimState = "END"
  <2>1. stimState' = IF done /\ enable THEN "IDLE" ELSE "END"
    BY <1>2, StimNext
  <2>2. \/ /\ done /\ ~busy /\ ~enable /\ runs < MaxRuns
           /\ enable' = TRUE /\ runs' = runs + 1 /\ prog' \in Programs
        \/ enable' = FALSE /\ runs' = runs /\ prog' = prog
    BY DEF SysTick, RunnerStep
  <2>3. CASE stimState' = "IDLE"
    BY <1>2, <2>1, <2>2, <2>3, HereNext DEF reached
  <2>4. CASE stimState' = "END"
    BY <1>2, <2>1, <2>2, <2>4 DEF reached
  <2> QED
    BY <2>1, <2>3, <2>4
<1> QED
  BY <1>1, <1>2

LEMMA ReachedType ==
  ASSUME StimInv
  PROVE  reached \in DOMAIN prog /\ reached \in Nat \ {0}
<1>1. DOMAIN prog = 1 .. Len(prog) /\ Len(prog) \in Nat \ {0}
  BY ProgramFacts DEF StimInv, RegsInv
<1> QED
  BY <1>1 DEF StimInv, ParseInv, WordsInv, reached

LEMMA BoundStepInv ==
  ASSUME StimInv, SysTick
  PROVE  BoundInv'
<1> DEFINE left(p, i) == Cardinality(VectorsFrom(p, i))
<1>0. /\ prog \in Programs /\ runs \in Nat /\ issued \in Nat /\ MostVectors \in Nat
      /\ issued + left(prog, reached) <= runs * MostVectors
      /\ runs * MostVectors \in Nat
  <2>1. prog \in Programs /\ runs \in Nat /\ MostVectors \in Nat
    BY ControllerAssumption, MostVectorsIs DEF StimInv, RegsInv
  <2>2. runs * MostVectors \in Nat
    BY <2>1
  <2> QED
    BY <2>1, <2>2 DEF StimInv, BoundInv
<1>1. reached \in DOMAIN prog /\ reached \in Nat
  BY ReachedType
<1>2. issued' = IF stimState = "WR_FIFOS" THEN issued + 1 ELSE issued
  BY IssuedNext
<1>3. /\ left(prog, reached) \in Nat /\ left(prog, reached + 1) \in Nat
      /\ left(prog, reached)
           = left(prog, reached + 1) + (IF prog[reached] = "TEST_VECTOR" THEN 1 ELSE 0)
  BY <1>0, <1>1, FromNext
<1> SUFFICES issued' + left(prog', reached') <= runs' * MostVectors
  BY <1>0, <1>2 DEF BoundInv
<1>4. CASE prog' = prog /\ runs' = runs /\ reached' = reached /\ stimState # "WR_FIFOS"
  BY <1>0, <1>2, <1>4
<1>5. CASE /\ prog' = prog /\ runs' = runs /\ reached = Here /\ reached' = reached + 1
           /\ stimState # "END"
  <2>1. stimState = "WR_FIFOS" => prog[reached] = "TEST_VECTOR"
    BY <1>5 DEF StimInv, ParseInv, HandlesInv
  <2>2. issued' + left(prog, reached + 1) <= issued + left(prog, reached)
    BY <1>0, <1>2, <1>3, <2>1
  <2> QED
    BY <1>0, <1>2, <1>3, <1>5, <2>2
<1>6. CASE prog' = prog /\ runs' = runs /\ stimState = "END" /\ reached' = Len(prog)
  <2>1. left(prog, reached') = 0
    BY <1>0, <1>6, FromEnds
  <2> QED
    BY <1>0, <1>2, <1>3, <1>6, <2>1
<1>7. CASE /\ prog' \in Programs /\ runs' = runs + 1 /\ stimState = "END"
           /\ reached' = 1
  <2>1. left(prog', 1) \in Nat /\ left(prog', 1) <= MostVectors
    BY <1>7, FromEnds, MostVectorsIs
  <2>2. runs' * MostVectors = runs * MostVectors + MostVectors
    BY <1>0, <1>7
  <2> QED
    BY <1>0, <1>2, <1>3, <1>7, <2>1, <2>2
<1> QED
  BY <1>4, <1>5, <1>6, <1>7, ReachedNext

LEMMA RegsStepInv ==
  ASSUME StimInv, SysTick
  PROVE  RegsInv'
<1> USE DEF VectorWords
<1>0. RegsInv /\ SettleCycles \in Nat /\ MaxRuns \in Nat
  BY ControllerAssumption DEF StimInv
<1>1. stimState' \in StimStates
  BY StimNext
<1>2. prog' \in Programs /\ runs' \in 0 .. MaxRuns /\ runs <= runs'
  <2>1. \/ prog' = prog /\ runs' = runs
        \/ prog' \in Programs /\ runs' = runs + 1 /\ runs < MaxRuns
    BY ReachedNext
  <2>2. prog \in Programs /\ runs \in 0 .. MaxRuns
    BY <1>0 DEF RegsInv
  <2> QED
    BY <1>0, <2>1, <2>2
<1>3. RunnerStep /\ StimRegs /\ SramStep /\ CheckStep
  BY DEF SysTick, StimStep
<1>4. enable' \in BOOLEAN /\ busy' \in BOOLEAN
  BY <1>0, <1>3 DEF RunnerStep, RegsInv
<1>5. stimState' # "END" => busy' = TRUE
  <2>1. CASE stimState # "END"
    BY <2>1, PortFacts
  <2>2. CASE stimState = "END" /\ stimState' # "END"
    BY <2>2, <1>3, StimNext DEF RunnerStep
  <2> QED
    BY <2>1, <2>2
<1>6. (enable' => ~busy') /\ (enable' \/ busy' => runs' > 0)
  BY <1>0, <1>2, <1>3 DEF RunnerStep, RegsInv
<1>7. address' \in Nat /\ waitcnt' \in 0 .. SettleCycles
  BY <1>0, <1>3 DEF StimRegs, next_address, RegsInv
<1>8. oe' \in Nat \cup {None} /\ ready' \in Nat \cup {None}
  BY <1>0, <1>3 DEF SramStep, RegsInv
<1>9. record \in Nat
  BY <1>0, RecordType DEF record, RegsInv
<1>10. target' \in Nat /\ bitmask' \in Nat
  BY <1>0, <1>3, <1>9 DEF StimRegs, CheckStep, RegsInv
<1>11. buffer' \in [0 .. VectorWords - 1 -> Nat]
  <2>1. CASE mem_readdataready
    <3>1. ready \in Nat
      BY <1>0, <2>1 DEF mem_readdataready, RegsInv
    <3> QED
      BY <1>0, <1>3, <2>1, <3>1 DEF StimRegs, RegsInv
  <2>2. CASE ~mem_readdataready
    BY <1>0, <1>3, <2>2 DEF StimRegs, RegsInv
  <2> QED
    BY <2>1, <2>2
<1> QED
  BY <1>1, <1>2, <1>4, <1>5, <1>6, <1>7, <1>8, <1>10, <1>11 DEF RegsInv

LEMMA SysTickStimInv ==
  ASSUME StimInv, SysTick
  PROVE  StimInv'
<1>1. FetchInv'
  <2>1. CASE stimState # "END"
    BY <2>1, FetchStepInv
  <2>2. CASE stimState = "END"
    <3>0. /\ RunnerStep /\ StimRegs /\ SramStep /\ None \notin Nat
          /\ busy \in BOOLEAN
      BY ControllerAssumption DEF SysTick, StimStep, StimInv, RegsInv
    <3>1. ~stim_read /\ ~inc_address
      BY <2>2 DEF stim_read, inc_address, ShortStates
    <3>2. \/ Fetched(3, 2, FALSE, TRUE) /\ busy
          \/ Fetched(3, 3, FALSE, FALSE)
          \/ Fetched(0, 0, FALSE, FALSE)
      BY <2>2 DEF StimInv, FetchInv
    <3>3. oe' = None /\ ready' = None
      BY <3>0, <3>1, <3>2 DEF SramStep, Fetched
    <3>4. /\ stored' = IF stimState' = "IDLE" THEN 0
                       ELSE IF ready # None /\ busy THEN stored + 1 ELSE stored
          /\ requested' = IF stimState' = "IDLE" THEN 0 ELSE requested
      BY <3>0, <3>1 DEF StimRegs, mem_readdataready
    <3>5. stimState' \in {"IDLE", "END"}
      BY <2>2, StimNext
    <3> QED
      BY <3>2, <3>3, <3>4, <3>5 DEF FetchInv, Fetched
  <2> QED
    BY <2>1, <2>2
<1>2. ParseInv'
  <2>1. CASE stimState # "END" /\ stimState' # "END"
    BY <2>1, WordsStepInv, HandlesStepInv DEF ParseInv
  <2>2. CASE stimState = "END" /\ stimState' # "END"
    <3>1. stimState' = "IDLE" /\ Here' = 1 /\ prog' = prog
      BY <2>2, StimNext, HereNext
    <3>2. Fetched(0, 0, FALSE, FALSE)'
      BY <1>1, <3>1 DEF FetchInv
    <3>3. address' = 0 /\ stimState' = "IDLE"
      BY <2>2, <3>1 DEF SysTick, StimStep, StimRegs, next_address
    <3>4. Base(prog', Here') = 0 /\ 1 \in DOMAIN prog
      BY <3>1, BaseFirst, ProgramFacts DEF StimInv, RegsInv
    <3>5. WordsInv'
      <4>1. requested' = 0 /\ stored' = 0 /\ oe' = None /\ ready' = None
        BY <3>2 DEF Fetched
      <4>2. Here' \in DOMAIN prog' /\ address' = Base(prog', Here') + requested'
        BY <3>1, <3>3, <3>4, <4>1
      <4> QED
        BY <4>1, <4>2 DEF WordsInv
    <3>6. HandlesInv'
      BY <3>3 DEF HandlesInv
    <3> QED
      BY <3>5, <3>6 DEF ParseInv
  <2>3. CASE stimState' = "END"
    BY <2>3 DEF ParseInv
  <2> QED
    BY <2>1, <2>2, <2>3
<1> QED
  BY <1>1, <1>2, BoundStepInv, RegsStepInv DEF StimInv

(* An edge of pll_clock leaves stim alone.                                  *)
LEMMA StimInvKept ==
  ASSUME StimInv, UNCHANGED ctrlVars, issued' = issued
  PROVE  StimInv'
<1> USE DEF ctrlVars, hostVars, stimVars, checkVars
<1>1. UNCHANGED <<Here, reached>> /\ \A i : Base(prog', i) = Base(prog, i)
  BY DEF Here, reached, RecordAt, Base
<1>2. RegsInv'
  BY DEF StimInv, RegsInv
<1>3. FetchInv'
  BY DEF StimInv, FetchInv, Fetched
<1>4. ParseInv'
  BY <1>1 DEF StimInv, ParseInv, WordsInv, HandlesInv
<1>5. BoundInv'
  BY <1>1 DEF StimInv, BoundInv
<1> QED
  BY <1>2, <1>3, <1>4, <1>5 DEF StimInv

LEMMA InitStimInv == Init => StimInv
<1> SUFFICES ASSUME Init PROVE StimInv
  OBVIOUS
<1> USE DEF Init
<1>0. issued = 0 /\ prog \in Programs
  BY DEF Flow!Init
<1>1. RegsInv
  <2>1. buffer \in [0 .. VectorWords - 1 -> Nat]
    BY DEF VectorWords
  <2>2. 0 \in 0 .. MaxRuns /\ 0 \in 0 .. SettleCycles
    BY ControllerAssumption
  <2> QED
    BY <1>0, <2>1, <2>2 DEF RegsInv, StimStates
<1>2. FetchInv
  BY DEF FetchInv, Fetched
<1>3. ParseInv
  BY DEF ParseInv
<1>4. BoundInv
  <2>1. reached = Len(prog)
    BY DEF reached
  <2> QED
    BY <1>0, <2>1, FromEnds, MostVectorsIs DEF BoundInv
<1> QED
  BY <1>1, <1>2, <1>3, <1>4 DEF StimInv

LEMMA StimInvariance == Spec => []StimInv
<1>1. StimInv /\ [Next]_vars => StimInv'
  <2> SUFFICES ASSUME StimInv, [Next]_vars PROVE StimInv'
    OBVIOUS
  <2>1. CASE SysTick
    BY <2>1, SysTickStimInv
  <2>2. CASE PllTick
    BY <2>2, StimInvKept DEF PllTick, Flow!PllTick, Flow!sysVars
  <2>3. CASE UNCHANGED vars
    BY <2>3, StimInvKept DEF vars, flowSysVars
  <2> QED
    BY <2>1, <2>2, <2>3 DEF Next
<1> QED
  BY <1>1, InitStimInv, PTL DEF Spec

(* The vector stim writes to the FIFOs is made of the six words of one      *)
(* record in their order, though they come two cycles after stim asks for   *)
(* them (stim.v: words_requested, words_stored, buffer).                    *)
THEOREM VectorsAreWhole == Spec => []WholeVector
<1>1. StimInv => WholeVector
  <2> SUFFICES ASSUME StimInv, stimState = "WR_FIFOS"
               PROVE  /\ req_type = "TEST_VECTOR"
                      /\ \A k \in DOMAIN buffer : buffer[k] = buffer[0] + k
    BY DEF WholeVector
  <2>1. WordsInv /\ HandlesInv /\ stored = 6 /\ buffer \in [0 .. 5 -> Nat]
    BY DEF StimInv, ParseInv, FetchInv, Fetched, RegsInv, VectorWords
  <2>2. req_type = "TEST_VECTOR"
    BY <2>1, RecordIsHere DEF HandlesInv
  <2>3. \A k \in 0 .. 5 : buffer[k] = Base(prog, Here) + k
    BY <2>1 DEF WordsInv
  <2>4. Base(prog, Here) \in Nat
    BY <2>1, BaseType, ProgramFacts DEF WordsInv, StimInv, RegsInv
  <2> QED
    BY <2>1, <2>2, <2>3, <2>4
<1> QED
  BY <1>1, StimInvariance, PTL

-----------------------------------------------------------------------------
(***************************************************************************)
(* The controller implements VectorFlow.                                    *)
(***************************************************************************)
LEMMA StimImplements ==
  ASSUME StimInv, SysTick
  PROVE  Flow!StimStep
<1>0. StimState /\ stimState \in StimStates
  BY DEF SysTick, StimStep, StimInv, RegsInv
<1>1. stimState # "WR_FIFOS" => UNCHANGED <<issued, sLog, cLog>>
  BY <1>0 DEF StimState, StimIdle, StimReadMeta, StimReadTv, StimWrFifos,
     StimSwitchTarget, StimSwitchVdd, StimSetupBitmask, StimSendDicmd, StimWrDififo, StimRepll,
     StimPllReconfig, StimPllWait, StimEnd, NoVector
<1>2. CASE stimState \in {"IDLE", "SWITCH_VDD", "WR_DIFIFO"}
  <2>1. \/ StimView' = "IDLE"
        \/ StimView' = "FETCH" /\ ~Flow!sfifo_wrfull /\ ~Flow!cfifo_wrfull
    BY <1>2, StimNext DEF StimView, stim_read, ShortStates
  <2> QED
    BY <1>1, <1>2, <2>1 DEF Flow!StimStep, Flow!StimIdle, StimView
<1>3. CASE stimState = "READ_META"
  <2>1. stimState' \in {"READ_META", "SWITCH_TARGET", "READ_TV", "SETUP_BITMASK", "SEND_DICMD",
                        "START_REPLL", "END"}
    <3>1. CASE stored = 1
      BY <1>3, <3>1, StimNext, RecordIsHere, HandlerFacts, ProgramFacts DEF StimInv, RegsInv
    <3>2. CASE stored # 1
      BY <1>3, <3>2, StimNext
    <3> QED
      BY <3>1, <3>2
  <2>2. StimView' \in {"FETCH", "DRAIN"}
    BY <2>1 DEF StimView
  <2> QED
    BY <1>1, <1>3, <2>2 DEF Flow!StimStep, Flow!StimFetch, StimView
<1>4. CASE stimState \in {"SETUP_BITMASK", "START_REPLL", "PLL_RECONFIG", "PLL_WAIT"}
  <2>1. stimState' \in {"SETUP_BITMASK", "START_REPLL", "PLL_RECONFIG", "PLL_WAIT", "IDLE"}
    BY <1>4, StimNext
  <2>2. StimView' \in {"FETCH", "IDLE"}
    BY <2>1 DEF StimView
  <2> QED
    BY <1>1, <1>4, <2>2 DEF Flow!StimStep, Flow!StimFetch, StimView
<1>5. CASE stimState = "READ_TV"
  <2>1. issued < MaxVectors
    <3>1. /\ prog[Here] = "TEST_VECTOR" /\ Here \in DOMAIN prog /\ reached = Here
          /\ issued \in Nat /\ prog \in Programs /\ runs \in Nat /\ runs <= MaxRuns
          /\ issued + Cardinality(VectorsFrom(prog, Here)) <= runs * MostVectors
      BY <1>5, ControllerAssumption
         DEF StimInv, ParseInv, HandlesInv, WordsInv, reached, BoundInv, RegsInv
    <3>2. /\ Cardinality(VectorsFrom(prog, Here + 1)) \in Nat
          /\ Cardinality(VectorsFrom(prog, Here))
               = Cardinality(VectorsFrom(prog, Here + 1)) + 1
      BY <3>1, FromNext
    <3>3. issued < runs * MostVectors /\ runs * MostVectors \in Nat
      BY <3>1, <3>2, MostVectorsIs
    <3>4. /\ MaxRuns \in Nat /\ MostVectors \in Nat /\ MaxVectors = MaxRuns * MostVectors
          /\ MaxRuns - runs \in Nat
      BY <3>1, ControllerAssumption, MostVectorsIs
    <3>5. MaxRuns * MostVectors = runs * MostVectors + (MaxRuns - runs) * MostVectors
      BY <3>1, <3>4
    <3>6. (MaxRuns - runs) * MostVectors \in Nat
      BY <3>4
    <3> QED
      BY <3>1, <3>3, <3>4, <3>5, <3>6
  <2>2. StimView' \in {"FETCH", "WR_FIFOS"}
    BY <1>5, StimNext DEF StimView
  <2> QED
    BY <1>1, <1>5, <2>1, <2>2 DEF Flow!StimStep, Flow!StimFetch, StimView
<1>6. CASE stimState \in {"SWITCH_TARGET", "SEND_DICMD", "END"}
  <2>1. \/ stimState' = stimState
        \/ /\ stimState' \in {"SWITCH_VDD", "WR_DIFIFO", "IDLE"}
           /\ Flow!sfifo_wrempty /\ Flow!cfifo_wrempty
    BY <1>0, <1>6 DEF StimState, StimIdle, StimReadMeta, StimReadTv, StimWrFifos,
     StimSwitchTarget, StimSwitchVdd, StimSetupBitmask, StimSendDicmd, StimWrDififo, StimRepll,
     StimPllReconfig, StimPllWait, StimEnd, done
  <2>2. \/ StimView' = "DRAIN"
        \/ StimView' = "IDLE" /\ Flow!sfifo_wrempty /\ Flow!cfifo_wrempty
    BY <1>6, <2>1 DEF StimView
  <2> QED
    BY <1>1, <1>6, <2>2 DEF Flow!StimStep, Flow!StimDrain, StimView
<1>7. CASE stimState = "WR_FIFOS"
  <2>1. StimWrFifos
    BY <1>0, <1>7 DEF StimState, StimIdle, StimReadMeta, StimReadTv,
     StimSwitchTarget, StimSwitchVdd, StimSetupBitmask, StimSendDicmd, StimWrDififo, StimRepll,
     StimPllReconfig, StimPllWait, StimEnd
  <2> QED
    BY <1>7, <2>1 DEF StimWrFifos, Flow!StimStep, Flow!StimWrite, StimView, Write, Flow!Write
<1> QED
  BY <1>0, <1>2, <1>3, <1>4, <1>5, <1>6, <1>7 DEF StimStates, ShortStates

LEMMA CheckImplements ==
  ASSUME SysTick
  PROVE  Flow!CheckStep
<1>1. CheckIdle \/ CheckRead \/ CheckCompare \/ CheckWriteback
  BY DEF SysTick, CheckStep
<1>2. CASE CheckIdle
  BY <1>2 DEF CheckIdle, Flow!CheckStep, Flow!CheckIdle, CheckView
<1>3. CASE CheckRead
  BY <1>3 DEF CheckRead, Flow!CheckStep, Flow!CheckRead, CheckView, Read, Flow!Read
<1>4. CASE CheckCompare
  BY <1>4 DEF CheckCompare, Flow!CheckStep, Flow!CheckWork, CheckView
<1>5. CASE CheckWriteback
  BY <1>5 DEF CheckWriteback, Flow!CheckStep, Flow!CheckWork, CheckView
<1> QED
  BY <1>1, <1>2, <1>3, <1>4, <1>5

(* The word-by-word parsing, the arbitration of the memory and the          *)
(* write-back change nothing of the path of the vectors (stim.v, check.v    *)
(* and mem_if.v).                                                           *)
THEOREM ImplementsVectorFlow == Spec => RefinesFlow
<1>1. Init => Flow!Init
  BY DEF Init
<1>2. StimInv /\ [Next]_vars => [Flow!Next]_(Flow!vars)
  <2> SUFFICES ASSUME StimInv, [Next]_vars PROVE [Flow!Next]_(Flow!vars)
    OBVIOUS
  <2>1. CASE SysTick
    BY <2>1, StimImplements, CheckImplements
       DEF SysTick, flowPllVars, Flow!pllVars, Flow!SysTick, Flow!Next
  <2>2. CASE PllTick
    BY <2>2 DEF PllTick, Flow!Next
  <2>3. CASE UNCHANGED vars
    BY <2>3 DEF vars, flowSysVars, flowPllVars, ctrlVars, stimVars, checkVars, StimView,
                CheckView, Flow!vars, Flow!sysVars, Flow!pllVars
  <2> QED
    BY <2>1, <2>2, <2>3 DEF Next
<1> QED
  BY <1>1, <1>2, StimInvariance, PTL DEF Spec, RefinesFlow, Flow!Spec

(* Flow and FlowProofs are instances of the same module.                    *)
LEMMA SameSysTick == Flow!SysTick <=> FlowProofs!SysTick
  BY DEF Flow!SysTick, FlowProofs!SysTick, Flow!StimStep,
         FlowProofs!StimStep, Flow!StimIdle, FlowProofs!StimIdle,
         Flow!StimFetch, FlowProofs!StimFetch, Flow!StimDrain,
         FlowProofs!StimDrain, Flow!StimWrite, FlowProofs!StimWrite,
         Flow!CheckStep, FlowProofs!CheckStep, Flow!CheckIdle,
         FlowProofs!CheckIdle, Flow!CheckRead, FlowProofs!CheckRead,
         Flow!CheckWork, FlowProofs!CheckWork, Flow!SysSync,
         FlowProofs!SysSync, Flow!sfifo_wrfull, FlowProofs!sfifo_wrfull,
         Flow!cfifo_wrfull, FlowProofs!cfifo_wrfull, Flow!sfifo_wrempty,
         FlowProofs!sfifo_wrempty, Flow!cfifo_wrempty,
         FlowProofs!cfifo_wrempty, Flow!cfifo_rdempty,
         FlowProofs!cfifo_rdempty, Flow!rfifo_rdempty,
         FlowProofs!rfifo_rdempty, Flow!seenBySys, FlowProofs!seenBySys,
         Flow!pllVars, FlowProofs!pllVars, Flow!SFifoDepth,
         FlowProofs!SFifoDepth, Flow!CFifoDepth, FlowProofs!CFifoDepth,
         Flow!Sampled, FlowProofs!Sampled, Flow!Shift, FlowProofs!Shift,
         Flow!WrFull, FlowProofs!WrFull, Flow!WrEmpty, FlowProofs!WrEmpty,
         Flow!RdEmpty, FlowProofs!RdEmpty, Flow!Write, FlowProofs!Write,
         Flow!Read, FlowProofs!Read, Flow!Q, FlowProofs!Q

LEMMA SamePllTick == Flow!PllTick <=> FlowProofs!PllTick
  BY DEF Flow!PllTick, FlowProofs!PllTick, Flow!ExecNext,
         FlowProofs!ExecNext, Flow!FetchStep, FlowProofs!FetchStep,
         Flow!ExecuteStep, FlowProofs!ExecuteStep, Flow!WritebackStep,
         FlowProofs!WritebackStep, Flow!PllSync, FlowProofs!PllSync,
         Flow!rfifo_wrfull, FlowProofs!rfifo_wrfull, Flow!sfifo_rdempty,
         FlowProofs!sfifo_rdempty, Flow!seenByPll, FlowProofs!seenByPll,
         Flow!sysVars, FlowProofs!sysVars, Flow!RFifoDepth,
         FlowProofs!RFifoDepth, Flow!Sampled, FlowProofs!Sampled, Flow!Shift,
         FlowProofs!Shift, Flow!WrFull, FlowProofs!WrFull, Flow!WrEmpty,
         FlowProofs!WrEmpty, Flow!RdEmpty, FlowProofs!RdEmpty, Flow!Write,
         FlowProofs!Write, Flow!Read, FlowProofs!Read, Flow!Q, FlowProofs!Q

(* So the invariant of VectorFlow holds here.                               *)
LEMMA FlowAssumed == FlowProofs!FlowAssumption
  BY ControllerAssumption, MostVectorsIs DEF FlowProofs!FlowAssumption

LEMMA FlowInvariance == Spec => []FlowProofs!IInv
<1>1. FlowProofs!Spec => []FlowProofs!IInv
  BY FlowAssumed, FlowProofs!Invariance
<1>2. Flow!Init => FlowProofs!Init
  BY DEF Flow!Init, FlowProofs!Init, Flow!Stages, FlowProofs!Stages
<1>3. [Flow!Next]_(Flow!vars) => [FlowProofs!Next]_(FlowProofs!vars)
  BY SameSysTick, SamePllTick
     DEF Flow!Next, FlowProofs!Next, Flow!vars, FlowProofs!vars,
         Flow!sysVars, FlowProofs!sysVars, Flow!pllVars, FlowProofs!pllVars
<1> QED
  BY <1>1, <1>2, <1>3, ImplementsVectorFlow, PTL DEF RefinesFlow, Flow!Spec, FlowProofs!Spec

-----------------------------------------------------------------------------
(***************************************************************************)
(* What the invariant of VectorFlow tells of a state.                       *)
(***************************************************************************)
LEMMA FlowFacts ==
  ASSUME FlowProofs!IInv
  PROVE  /\ issued \in Nat /\ cRd \in Nat /\ rRd = cRd /\ cRd <= issued
         /\ Len(sLog) = issued /\ Len(cLog) = issued
         /\ Len(rLog) \in Nat /\ cRd <= Len(rLog)
         /\ \A i \in 1 .. Len(rLog) : rLog[i] = i
         /\ \A k \in 1 .. SyncStages :
              /\ toSys[k].cRd \in Nat /\ toSys[k].cRd <= cRd
              /\ toSys[k].sRd \in Nat /\ toSys[k].sRd <= issued
              /\ k > 1 => toSys[k].cRd <= toSys[k - 1].cRd /\ toSys[k].sRd <= toSys[k - 1].sRd
         /\ toSys[SyncStages].cWr \in Nat /\ toSys[SyncStages].cWr <= issued
         /\ cRd <= toSys[SyncStages].cWr
         /\ checkState = "RD_FIFOS" => cRd < toSys[SyncStages].cWr
         /\ checkState \in {"CMP_AND_MASK", "WRITEBACK"} => cRd > 0
<1>0. SyncStages \in 1 .. SyncStages /\ FlowProofs!Stages = 1 .. SyncStages
  BY ControllerAssumption DEF FlowProofs!Stages
<1>1. FlowProofs!TypeOK /\ FlowProofs!LogsInv /\ FlowProofs!SysSyncInv /\ FlowProofs!CheckInv
      /\ FlowProofs!PipeInv /\ FlowProofs!PllSyncInv
  BY DEF FlowProofs!IInv
<1>2. /\ issued \in Nat /\ cRd \in Nat /\ rRd = cRd /\ Len(rLog) \in Nat /\ sRd \in Nat
      /\ Len(sLog) = issued /\ Len(cLog) = issued
      /\ \A i \in 1 .. Len(rLog) : rLog[i] = i
  BY <1>1 DEF FlowProofs!TypeOK, FlowProofs!LogsInv, FlowProofs!NothingLost, FlowProofs!CheckInv,
             FlowProofs!ResultsInOrder
<1>3. toSys \in [1 .. SyncStages -> [sRd : Nat, rWr : Nat, cRd : Nat, cWr : Nat]]
  BY <1>0, <1>1 DEF FlowProofs!TypeOK, FlowProofs!SysPointers
<1>4. toPll \in [1 .. SyncStages -> [sWr : Nat, rRd : Nat]]
  BY <1>0, <1>1 DEF FlowProofs!TypeOK, FlowProofs!PllPointers
<1>5. sRd <= issued
  <2>1. sRd <= toPll[SyncStages].sWr /\ toPll[SyncStages].sWr <= issued
    BY <1>0, <1>1 DEF FlowProofs!PllSyncInv, FlowProofs!seenByPll
  <2> QED
    BY <1>0, <1>2, <1>4, <2>1
<1>6. \A k \in 1 .. SyncStages :
        /\ toSys[k].sRd <= sRd /\ toSys[k].rWr <= Len(rLog)
        /\ toSys[k].cRd <= cRd /\ toSys[k].cWr <= issued
        /\ k > 1 => toSys[k].cRd <= toSys[k - 1].cRd /\ toSys[k].sRd <= toSys[k - 1].sRd
  BY <1>0, <1>1 DEF FlowProofs!SysSyncInv
<1>7. /\ cRd <= toSys[SyncStages].cWr /\ rRd <= toSys[SyncStages].rWr
      /\ checkState = "RD_FIFOS" => cRd < toSys[SyncStages].cWr
      /\ checkState \in {"CMP_AND_MASK", "WRITEBACK"} => rRd > 0
  BY <1>1 DEF FlowProofs!CheckInv, FlowProofs!seenBySys, CheckView
<1>8. \A k \in 1 .. SyncStages :
        /\ toSys[k].cRd \in Nat /\ toSys[k].sRd \in Nat /\ toSys[k].cWr \in Nat
        /\ toSys[k].rWr \in Nat /\ toSys[k].sRd <= issued
  BY <1>2, <1>3, <1>5, <1>6
<1>9. cRd <= issued /\ cRd <= Len(rLog)
  BY <1>0, <1>2, <1>6, <1>7, <1>8
<1> QED
  BY <1>0, <1>2, <1>6, <1>7, <1>8, <1>9

LEMMA DrainedIsQuiescent ==
  ASSUME FlowProofs!IInv, Flow!sfifo_wrempty, Flow!cfifo_wrempty
  PROVE  Flow!Quiescent
<1>1. FlowProofs!sfifo_wrempty /\ FlowProofs!cfifo_wrempty
  BY DEF Flow!sfifo_wrempty, FlowProofs!sfifo_wrempty, Flow!cfifo_wrempty,
         FlowProofs!cfifo_wrempty, Flow!seenBySys, FlowProofs!seenBySys, Flow!WrEmpty,
         FlowProofs!WrEmpty
<1>2. FlowProofs!Quiescent
  BY <1>1, FlowAssumed, FlowProofs!BothEmptyMeansQuiescent
<1> QED
  BY <1>2 DEF Flow!Quiescent, FlowProofs!Quiescent, Flow!PipelineEmpty, FlowProofs!PipelineEmpty

(* Nothing moves where nothing is under way.                                *)
LEMMA QuiescentKept ==
  ASSUME FlowProofs!IInv, Flow!Quiescent, Flow!Next, issued' = issued
  PROVE  Flow!Quiescent'
<1>0. SyncStages \in 1 .. SyncStages /\ FlowProofs!Stages = 1 .. SyncStages
  BY ControllerAssumption DEF FlowProofs!Stages
<1>1. /\ fetchBubble /\ exState = "IDLE" /\ exBubble /\ ~wrReq
      /\ sRd = issued /\ Len(rLog) = issued /\ rRd = issued
  BY DEF Flow!Quiescent, Flow!PipelineEmpty
<1>2. CASE Flow!SysTick
  <2>1. UNCHANGED <<fetchBubble, exState, exBubble, wrReq, sRd, rLog>>
    BY <1>2 DEF Flow!SysTick, Flow!pllVars
  <2>2. checkState # "RD_FIFOS"
    BY <1>1, FlowFacts
  <2>3. rRd' = rRd
    BY <1>2, <2>2 DEF Flow!SysTick, Flow!CheckStep, Flow!CheckIdle, Flow!CheckRead,
                      Flow!CheckWork, CheckView
  <2> QED
    BY <1>1, <2>1, <2>3 DEF Flow!Quiescent, Flow!PipelineEmpty
<1>3. CASE Flow!PllTick
  <2>1. PICK next \in Flow!ExecNext :
          /\ Flow!FetchStep(Flow!rfifo_wrfull \/ next # "IDLE")
          /\ Flow!ExecuteStep(next, Flow!rfifo_wrfull)
    BY <1>3 DEF Flow!PllTick
  <2>2. next = "IDLE"
    BY <1>1, <2>1 DEF Flow!ExecNext
  <2>3. Flow!sfifo_rdempty
    <3>1. sRd <= toPll[SyncStages].sWr /\ toPll[SyncStages].sWr <= issued
      BY <1>0 DEF FlowProofs!IInv, FlowProofs!PllSyncInv, FlowProofs!seenByPll
    <3>2. toPll[SyncStages].sWr \in Nat /\ issued \in Nat
      BY <1>0 DEF FlowProofs!IInv, FlowProofs!TypeOK, FlowProofs!PllPointers
    <3> QED
      BY <1>1, <3>1, <3>2 DEF Flow!sfifo_rdempty, Flow!RdEmpty, Flow!seenByPll
  <2>4. sRd' = sRd /\ fetchBubble' = TRUE
    BY <2>1, <2>3 DEF Flow!FetchStep
  <2>5. exState' = "IDLE" /\ exBubble' = TRUE
    BY <1>1, <2>1, <2>2 DEF Flow!ExecuteStep
  <2>6. wrReq' = FALSE /\ rLog' = rLog /\ rRd' = rRd
    BY <1>1, <1>3 DEF Flow!PllTick, Flow!WritebackStep, Flow!sysVars
  <2> QED
    BY <1>1, <2>4, <2>5, <2>6 DEF Flow!Quiescent, Flow!PipelineEmpty
<1> QED
  BY <1>2, <1>3 DEF Flow!Next

(* Read pointers on their way to the system clock.                          *)
LEMMA SyncNext ==
  ASSUME FlowProofs!IInv, SysTick
  PROVE  \A k \in 1 .. SyncStages :
           /\ toSys'[k].cRd = IF k = 1 THEN cRd ELSE toSys[k - 1].cRd
           /\ k > 1 => toSys'[k].sRd = toSys[k - 1].sRd
<1>1. toSys \in [1 .. SyncStages -> [sRd : Nat, rWr : Nat, cRd : Nat, cWr : Nat]]
  BY DEF FlowProofs!IInv, FlowProofs!TypeOK, FlowProofs!SysPointers, FlowProofs!Stages
<1>2. PICK s \in Flow!Sampled(prevPll.sRd, sRd, toSys[1].sRd),
           r \in Flow!Sampled(prevPll.rWr, Len(rLog), toSys[1].rWr) :
             toSys' = Flow!Shift(toSys, [sRd |-> s, rWr |-> r, cRd |-> cRd, cWr |-> Len(cLog)])
  BY DEF SysTick, Flow!SysSync
<1>3. \A k \in 1 .. SyncStages :
        toSys'[k] = IF k = 1 THEN [sRd |-> s, rWr |-> r, cRd |-> cRd, cWr |-> Len(cLog)]
                             ELSE toSys[k - 1]
  BY <1>1, <1>2 DEF Flow!Shift
<1> QED
  BY <1>3

(* FIFOs that stim has seen empty are so until it writes to them.           *)
LEMMA EmptyKept ==
  ASSUME FlowProofs!IInv, SysTick, Flow!sfifo_wrempty, Flow!cfifo_wrempty,
         UNCHANGED <<issued, sLog, cLog>>
  PROVE  Flow!sfifo_wrempty' /\ Flow!cfifo_wrempty'
<1>1. /\ SyncStages \in 1 .. SyncStages /\ SyncStages - 1 \in 1 .. SyncStages
      /\ SyncStages > 1 /\ SyncStages # 1
  BY ControllerAssumption
<1>2. toSys[SyncStages].sRd = issued /\ toSys[SyncStages].cRd = issued
  BY FlowFacts DEF Flow!sfifo_wrempty, Flow!cfifo_wrempty, Flow!WrEmpty, Flow!seenBySys
<1>3. toSys[SyncStages - 1].sRd = issued /\ toSys[SyncStages - 1].cRd = issued
  <2>1. /\ toSys[SyncStages].cRd <= toSys[SyncStages - 1].cRd
        /\ toSys[SyncStages].sRd <= toSys[SyncStages - 1].sRd
    BY <1>1, FlowFacts
  <2>2. /\ toSys[SyncStages - 1].cRd \in Nat /\ toSys[SyncStages - 1].cRd <= cRd
        /\ toSys[SyncStages - 1].sRd \in Nat /\ toSys[SyncStages - 1].sRd <= issued
        /\ cRd <= issued /\ cRd \in Nat /\ issued \in Nat
    BY <1>1, FlowFacts
  <2> QED
    BY <1>2, <2>1, <2>2
<1>4. toSys'[SyncStages].sRd = issued /\ toSys'[SyncStages].cRd = issued
  BY <1>1, <1>3, SyncNext
<1>5. Len(sLog') = issued /\ Len(cLog') = issued
  BY FlowFacts
<1> QED
  BY <1>4, <1>5 DEF Flow!sfifo_wrempty, Flow!cfifo_wrempty, Flow!WrEmpty, Flow!seenBySys

IInv ==
  /\ FlowProofs!IInv
  /\ StimInv
  /\ RunInv

(* Nothing of a vector changes but in WR_FIFOS.                             *)
LEMMA VectorNext ==
  ASSUME IInv, SysTick
  PROVE  /\ stimState # "WR_FIFOS" => UNCHANGED <<issued, sLog, cLog, wbAddr>>
         /\ stimState = "WR_FIFOS" => wbAddr' = Append(wbAddr, address - 4)
<1>0. StimState /\ stimState \in StimStates
  BY DEF SysTick, StimStep, IInv, StimInv, RegsInv
<1>1. CASE stimState # "WR_FIFOS"
  BY <1>0, <1>1 DEF StimState, StimIdle, StimReadMeta, StimReadTv, StimWrFifos,
     StimSwitchTarget, StimSwitchVdd, StimSetupBitmask, StimSendDicmd, StimWrDififo, StimRepll,
     StimPllReconfig, StimPllWait, StimEnd, NoVector
<1>2. CASE stimState = "WR_FIFOS"
  <2>1. StimWrFifos
    BY <1>0, <1>2 DEF StimState, StimIdle, StimReadMeta, StimReadTv,
     StimSwitchTarget, StimSwitchVdd, StimSetupBitmask, StimSendDicmd, StimWrDififo, StimRepll,
     StimPllReconfig, StimPllWait, StimEnd
  <2>2. StimView = "WR_FIFOS"
    BY <1>2 DEF StimView
  <2>3. ~FlowProofs!cfifo_wrfull
    BY <2>2 DEF IInv, FlowProofs!IInv, FlowProofs!StimInv
  <2>4. ~Flow!cfifo_wrfull
    BY <2>3 DEF Flow!cfifo_wrfull, FlowProofs!cfifo_wrfull, Flow!WrFull, FlowProofs!WrFull,
                Flow!seenBySys, FlowProofs!seenBySys, Flow!CFifoDepth, FlowProofs!CFifoDepth
  <2> QED
    BY <1>2, <2>1, <2>4 DEF StimWrFifos, Write
<1> QED
  BY <1>1, <1>2

(* The steps of check.                                                      *)
LEMMA CheckNext ==
  ASSUME IInv, SysTick
  PROVE  \/ /\ checkState = "IDLE" /\ checkState' \in {"IDLE", "RD_FIFOS"}
            /\ checkState' = "RD_FIFOS" => toSys[SyncStages].cWr # cRd
            /\ chkStored' = 0 /\ UNCHANGED <<cRd, chkAddr, results>>
         \/ /\ checkState = "RD_FIFOS" /\ checkState' = "CMP_AND_MASK"
            /\ cRd' = cRd + 1 /\ UNCHANGED <<chkAddr, chkStored, results>>
         \/ /\ checkState = "CMP_AND_MASK" /\ checkState' = "WRITEBACK"
            /\ chkAddr' = wbAddr[cRd] /\ UNCHANGED <<cRd, chkStored, results>>
         \/ /\ checkState = "WRITEBACK" /\ (stim_read \/ ~busy)
            /\ UNCHANGED <<checkState, cRd, chkAddr, chkStored, results>>
         \/ /\ checkState = "WRITEBACK" /\ ~stim_read /\ busy
            /\ checkState' = IF chkStored = 1 THEN "IDLE" ELSE "WRITEBACK"
            /\ chkAddr' = chkAddr + 1 /\ chkStored' = chkStored + 1 /\ cRd' = cRd
            /\ results' = results \cup
                 {[at |-> chkAddr, run |-> runs, vec |-> cRd, mask |-> bitmask]}
<1>0. FlowProofs!IInv
  BY DEF IInv
<1>1. CheckIdle \/ CheckRead \/ CheckCompare \/ CheckWriteback
  BY DEF SysTick, CheckStep
<1>2. CASE CheckIdle
  BY <1>2 DEF CheckIdle, Flow!cfifo_rdempty, Flow!RdEmpty, Flow!seenBySys
<1>3. CASE CheckRead
  <2>1. ~Flow!cfifo_rdempty
    BY <1>0, <1>3, FlowFacts DEF CheckRead, Flow!cfifo_rdempty, Flow!RdEmpty, Flow!seenBySys
  <2> QED
    BY <1>3, <2>1 DEF CheckRead, Read
<1>4. CASE CheckCompare
  <2>1. cRd # 0
    BY <1>0, <1>4, FlowFacts DEF CheckCompare
  <2> QED
    BY <1>4, <2>1 DEF CheckCompare, Q
<1>5. CASE CheckWriteback
  <2>1. check_waitrequest <=> stim_read \/ ~busy
    BY DEF check_waitrequest, mem_waitrequest
  <2>2. checkState = "WRITEBACK" /\ cRd' = cRd
    BY <1>5 DEF CheckWriteback
  <2>3. Q(rLog, rRd, 0) = cRd
    <3>1. cRd \in 1 .. Len(rLog) /\ rRd = cRd
      BY <1>0, <2>2, FlowFacts
    <3> QED
      BY <1>0, <3>1, FlowFacts DEF Q
  <2>4. CASE check_waitrequest
    BY <1>5, <2>1, <2>2, <2>4 DEF CheckWriteback
  <2>5. CASE ~check_waitrequest
    BY <1>5, <2>1, <2>2, <2>3, <2>5 DEF CheckWriteback, ResultWords
  <2> QED
    BY <2>4, <2>5
<1> QED
  BY <1>1, <1>2, <1>3, <1>4, <1>5

LEMMA ChangesStepInv ==
  ASSUME IInv, SysTick
  PROVE  ChangesWhenQuiescent'
<1>0. FlowProofs!IInv /\ StimInv /\ ChangesWhenQuiescent
  BY DEF IInv, RunInv
<1>1. StimState /\ stimState \in StimStates
  BY <1>0 DEF SysTick, StimStep, StimInv, RegsInv
<1>2. Flow!Next
  BY <1>0, StimImplements, CheckImplements
     DEF SysTick, flowPllVars, Flow!pllVars, Flow!SysTick, Flow!Next
<1> SUFFICES ASSUME stimState' \in {"WR_DIFIFO", "SWITCH_VDD"} PROVE Flow!Quiescent'
  BY DEF ChangesWhenQuiescent
<1>3. stimState \in {"SEND_DICMD", "SWITCH_TARGET", "SWITCH_VDD"}
  <2>1. stimState # "READ_META"
    BY <1>0, StimNext, RecordIsHere, HandlerFacts, ProgramFacts DEF StimInv, RegsInv
  <2> QED
    BY <1>0, <1>1, <2>1, StimNext DEF StimStates, ShortStates
<1>4. issued' = issued
  BY <1>0, <1>3, IssuedNext
<1>5. CASE stimState \in {"SEND_DICMD", "SWITCH_TARGET"}
  <2>1. Flow!sfifo_wrempty /\ Flow!cfifo_wrempty
    BY <1>1, <1>5 DEF StimState, StimIdle, StimReadMeta, StimReadTv, StimWrFifos,
     StimSwitchTarget, StimSwitchVdd, StimSetupBitmask, StimSendDicmd, StimWrDififo, StimRepll,
     StimPllReconfig, StimPllWait, StimEnd
  <2> QED
    BY <1>0, <1>2, <1>4, <2>1, DrainedIsQuiescent, QuiescentKept
<1>6. CASE stimState = "SWITCH_VDD"
  BY <1>0, <1>2, <1>4, <1>6, QuiescentKept DEF ChangesWhenQuiescent
<1> QED
  BY <1>3, <1>5, <1>6

(* Where stim is done check has at most the second word of the last result  *)
(* to write.                                                                *)
LEMMA DoneMeansThrough ==
  ASSUME IInv, done
  PROVE  /\ \/ checkState = "IDLE"
            \/ checkState = "WRITEBACK" /\ chkStored = 1
         /\ toSys[SyncStages].cWr = cRd /\ cRd = issued /\ Flow!Quiescent
<1>0. FlowProofs!IInv /\ CheckTypeInv /\ LateInv
  BY DEF IInv, RunInv
<1>1. stimState = "END" /\ Flow!Quiescent /\ toSys[SyncStages].cRd = issued
  BY <1>0, DrainedIsQuiescent, FlowFacts
     DEF done, Flow!sfifo_wrempty, Flow!cfifo_wrempty, Flow!WrEmpty, Flow!seenBySys
<1>2. cRd = issued /\ toSys[SyncStages].cWr = cRd
  BY <1>0, <1>1, FlowFacts DEF Flow!Quiescent
<1>3. SyncStages \in 1 .. SyncStages
  BY ControllerAssumption
<1>4. checkState \notin {"RD_FIFOS", "CMP_AND_MASK"}
  BY <1>0, <1>1, <1>2, <1>3, FlowFacts DEF LateInv
<1>5. checkState = "WRITEBACK" => chkStored = 1
  BY <1>0, <1>1, <1>2, FlowFacts DEF LateInv, CheckTypeInv, ResultWords
<1> QED
  BY <1>0, <1>1, <1>2, <1>4, <1>5 DEF CheckTypeInv

LEMMA DoneStepInv ==
  ASSUME IInv, SysTick
  PROVE  DoneInv'
<1>0. FlowProofs!IInv /\ StimInv /\ DoneInv
  BY DEF IInv, RunInv
<1> SUFFICES ASSUME ~busy' PROVE done' /\ checkState' = "IDLE"
  BY DEF DoneInv
<1>1. ~enable /\ done
  BY <1>0 DEF SysTick, RunnerStep, DoneInv
<1>2. stimState = "END" /\ Flow!sfifo_wrempty /\ Flow!cfifo_wrempty
  BY <1>1 DEF done
<1>3. stimState' = "END" /\ UNCHANGED <<issued, sLog, cLog>>
  BY <1>0, <1>1, <1>2, StimNext, VectorNext
<1>4. Flow!sfifo_wrempty' /\ Flow!cfifo_wrempty'
  BY <1>0, <1>2, <1>3, EmptyKept
<1>5. checkState' = "IDLE"
  <2>1. CASE checkState = "IDLE"
    BY <1>1, <2>1, CheckNext, DoneMeansThrough
  <2>2. CASE checkState = "WRITEBACK" /\ chkStored = 1
    <3>1. ~stim_read
      BY <1>2 DEF stim_read, ShortStates
    <3>2. busy
      BY <1>0, <2>2 DEF DoneInv
    <3> QED
      BY <2>2, <3>1, <3>2, CheckNext
  <2> QED
    BY <1>1, <2>1, <2>2, DoneMeansThrough
<1> QED
  BY <1>3, <1>4, <1>5 DEF done

LEMMA LateStepInv ==
  ASSUME IInv, SysTick
  PROVE  LateInv'
<1>0. FlowProofs!IInv /\ StimInv /\ DoneInv /\ LateInv /\ CheckTypeInv
  BY DEF IInv, RunInv
<1>s. /\ SyncStages \in 1 .. SyncStages /\ SyncStages - 1 \in 1 .. SyncStages
      /\ SyncStages # 1 /\ SyncStages \in Nat
  BY ControllerAssumption
<1>n. \A k \in 1 .. SyncStages :
        /\ toSys[k].cRd \in Nat /\ toSys[k].cRd <= cRd /\ cRd \in Nat
        /\ toSys'[k].cRd = IF k = 1 THEN cRd ELSE toSys[k - 1].cRd
  BY <1>0, FlowFacts, SyncNext
<1>1. ASSUME checkState' = "CMP_AND_MASK", NEW k \in 1 .. SyncStages
      PROVE  toSys'[k].cRd < cRd'
  <2>1. cRd' = cRd + 1
    BY <1>1, CheckNext
  <2>2. k # 1 => k - 1 \in 1 .. SyncStages
    BY <1>s
  <2> QED
    BY <1>n, <2>1, <2>2
<1>2. ASSUME checkState' = "WRITEBACK", chkStored' = 0, stimState' = "END"
      PROVE  toSys'[SyncStages].cRd < cRd'
  <2>1. ~(checkState = "WRITEBACK" /\ (stim_read \/ ~busy))
    <3> SUFFICES ASSUME checkState = "WRITEBACK" PROVE ~stim_read /\ busy
      OBVIOUS
    <3>1. busy
      BY <1>0 DEF DoneInv
    <3>2. CASE stimState = "END"
      BY <3>1, <3>2 DEF stim_read, ShortStates
    <3>3. CASE stimState # "END"
      <4>1. stimState = "READ_META" /\ stored = 1
        BY <1>0, <1>2, <3>3, StimNext DEF StimInv, RegsInv, StimStates, ShortStates
      <4>2. requested = 3
        BY <1>0, <4>1 DEF StimInv, FetchInv, Fetched
      <4> QED
        BY <1>0, <3>1, <3>3, <4>1, <4>2, ReadFacts
    <3> QED
      BY <3>2, <3>3
  <2>2. checkState = "CMP_AND_MASK" /\ cRd' = cRd
    BY <1>0, <1>2, <2>1, CheckNext DEF CheckTypeInv, ResultWords
  <2>3. toSys[SyncStages - 1].cRd < cRd
    BY <1>0, <1>s, <2>2 DEF LateInv
  <2> QED
    BY <1>s, <1>n, <2>2, <2>3
<1> QED
  BY <1>1, <1>2 DEF LateInv

LEMMA CheckTypeStepInv ==
  ASSUME IInv, SysTick
  PROVE  CheckTypeInv'
<1>0. /\ FlowProofs!IInv /\ StimInv /\ CheckTypeInv /\ RegsInv
      /\ wbAddr \in Seq(Nat) /\ Len(wbAddr) = issued
  BY DEF IInv, RunInv, StimInv, CheckTypeInv
<1>1. wbAddr' \in Seq(Nat) /\ Len(wbAddr') = issued'
  <2>1. CASE stimState # "WR_FIFOS"
    BY <1>0, <2>1, VectorNext
  <2>2. CASE stimState = "WR_FIFOS"
    <3>1. address = Base(prog, Here) + requested /\ requested = 6 /\ Here \in DOMAIN prog
      BY <1>0, <2>2 DEF StimInv, ParseInv, WordsInv, FetchInv, Fetched
    <3>2. Base(prog, Here) \in Nat
      BY <1>0, <3>1, BaseType, ProgramFacts DEF RegsInv
    <3>3. address - 4 \in Nat
      BY <3>1, <3>2
    <3>4. wbAddr' = Append(wbAddr, address - 4) /\ issued' = issued + 1
      BY <1>0, <2>2, VectorNext, IssuedNext
    <3> QED
      BY <1>0, <3>3, <3>4
  <2> QED
    BY <2>1, <2>2
<1>2. checkState \in {"CMP_AND_MASK", "WRITEBACK"} => wbAddr[cRd] \in Nat
  <2>1. checkState \in {"CMP_AND_MASK", "WRITEBACK"} => cRd \in 1 .. Len(wbAddr)
    BY <1>0, FlowFacts
  <2> QED
    BY <1>0, <2>1
<1>3. /\ checkState' \in {"IDLE", "RD_FIFOS", "CMP_AND_MASK", "WRITEBACK"}
      /\ chkAddr' \in Nat /\ chkStored' \in 0 .. ResultWords
      /\ checkState' \in {"RD_FIFOS", "CMP_AND_MASK"} => chkStored' = 0
      /\ checkState' = "WRITEBACK" => chkStored' < ResultWords
  BY <1>0, <1>2, CheckNext DEF CheckTypeInv, ResultWords
<1>4. results' \subseteq [at : Nat, run : 1 .. MaxRuns, vec : Nat, mask : Nat]
  <2>1. CASE UNCHANGED results
    BY <1>0, <2>1 DEF CheckTypeInv
  <2>2. CASE ~UNCHANGED results
    <3>1. /\ busy
          /\ results' = results \cup
               {[at |-> chkAddr, run |-> runs, vec |-> cRd, mask |-> bitmask]}
      BY <2>2, CheckNext
    <3>2. MaxRuns \in Nat
      BY ControllerAssumption
    <3>3. chkAddr \in Nat /\ cRd \in Nat
      BY <1>0, FlowFacts DEF CheckTypeInv
    <3>4. runs \in 1 .. MaxRuns /\ bitmask \in Nat
      BY <1>0, <3>1, <3>2 DEF RegsInv
    <3> QED
      BY <1>0, <3>1, <3>3, <3>4 DEF CheckTypeInv
  <2> QED
    BY <2>1, <2>2
<1> QED
  BY <1>1, <1>3, <1>4 DEF CheckTypeInv

-----------------------------------------------------------------------------
(***************************************************************************)
(* The vectors behind stim and their numbers.                               *)
(***************************************************************************)
LEMMA BetweenFacts ==
  ASSUME NEW p \in Programs, NEW i, NEW r
  PROVE  /\ IsFiniteSet(VectorsBetween(p, i, r))
         /\ Cardinality(VectorsBetween(p, i, r)) \in Nat
<1>1. VectorsBetween(p, i, r) \subseteq 1 .. Len(p) /\ Len(p) \in Nat
  BY ProgramFacts DEF VectorsBetween
<1> QED
  BY <1>1, FiniteRange

LEMMA BetweenNext ==
  ASSUME NEW p \in Programs, NEW i \in DOMAIN p, NEW r \in DOMAIN p
  PROVE  /\ Cardinality(VectorsBetween(p, i, i + 1)) = 0
         /\ i < r => Cardinality(VectorsBetween(p, i, r + 1))
                      = Cardinality(VectorsBetween(p, i, r))
                        + (IF p[r] = "TEST_VECTOR" THEN 1 ELSE 0)
<1>0. i \in Nat /\ r \in Nat /\ \A j \in DOMAIN p : j \in Nat
  BY ProgramFacts
<1>1. VectorsBetween(p, i, i + 1) = {}
  BY <1>0 DEF VectorsBetween
<1>2. IsFiniteSet(VectorsBetween(p, i, r)) /\ Cardinality(VectorsBetween(p, i, r)) \in Nat
  BY BetweenFacts
<1>3. ASSUME i < r, p[r] = "TEST_VECTOR"
      PROVE  Cardinality(VectorsBetween(p, i, r + 1)) = Cardinality(VectorsBetween(p, i, r)) + 1
  <2>1. /\ VectorsBetween(p, i, r + 1) = VectorsBetween(p, i, r) \cup {r}
        /\ r \notin VectorsBetween(p, i, r)
    BY <1>0, <1>3 DEF VectorsBetween
  <2> QED
    BY <1>2, <2>1, FS_AddElement
<1>4. ASSUME p[r] # "TEST_VECTOR"
      PROVE  VectorsBetween(p, i, r + 1) = VectorsBetween(p, i, r)
  BY <1>0, <1>4 DEF VectorsBetween
<1>5. Cardinality(VectorsBetween(p, i, i + 1)) = 0
  BY <1>1, FS_EmptySet
<1> QED
  BY <1>2, <1>3, <1>4, <1>5

LEMMA NumbersDiffer ==
  ASSUME StimInv
  PROVE  /\ \A i \in Behind : VectorNumber(i) \in Int /\ VectorNumber(i) <= issued
         /\ \A i, k \in Behind : VectorNumber(i) = VectorNumber(k) => i = k
<1>0. /\ prog \in Programs /\ issued \in Nat /\ \A j \in DOMAIN prog : j \in Nat
      /\ reached \in Nat
  BY ReachedType, ProgramFacts DEF StimInv, RegsInv, BoundInv
<1> DEFINE count(i) == Cardinality(VectorsBetween(prog, i, reached))
<1>1. \A i : count(i) \in Nat /\ IsFiniteSet(VectorsBetween(prog, i, reached))
  BY <1>0, BetweenFacts
<1>2. \A i \in Behind : VectorNumber(i) = issued - count(i)
  BY DEF VectorNumber
<1>3. ASSUME NEW i \in Behind, NEW k \in Behind, i < k
      PROVE  count(k) < count(i)
  <2> DEFINE shorter == VectorsBetween(prog, k, reached)
             longer  == VectorsBetween(prog, i, reached)
  <2>1. i \in Nat /\ k \in Nat
    BY <1>0 DEF Behind
  <2>2. shorter \cup {k} \subseteq longer /\ k \notin shorter
    BY <1>0, <1>3, <2>1 DEF VectorsBetween, Behind
  <2>3. Cardinality(shorter \cup {k}) = Cardinality(shorter) + 1
    BY <1>1, <2>2, FS_AddElement
  <2>4. Cardinality(shorter \cup {k}) <= Cardinality(longer)
    BY <1>1, <2>2, FS_Subset
  <2>5. Cardinality(shorter) \in Nat /\ Cardinality(longer) \in Nat
    BY <1>1
  <2> HIDE DEF shorter, longer
  <2>6. Cardinality(shorter) < Cardinality(longer)
    BY <2>3, <2>4, <2>5
  <2> QED
    BY <2>6 DEF shorter, longer
<1> HIDE DEF count
<1>4. \A i \in Behind : i \in Nat
  BY <1>0 DEF Behind
<1>5. ASSUME NEW i \in Behind, NEW k \in Behind, VectorNumber(i) = VectorNumber(k)
      PROVE  i = k
  <2>1. count(i) = count(k) /\ count(i) \in Nat /\ count(k) \in Nat
    BY <1>0, <1>1, <1>2, <1>5
  <2>2. ~(i < k) /\ ~(k < i)
    BY <1>3, <2>1
  <2> QED
    BY <1>4, <2>2
<1>6. \A i \in Behind : VectorNumber(i) \in Int /\ VectorNumber(i) <= issued
  BY <1>0, <1>1, <1>2
<1> QED
  BY <1>5, <1>6

(* The records behind stim keep their numbers; WR_FIFOS adds the one it is  *)
(* at, and the start of a run forgets them all.                             *)
LEMMA BehindNext ==
  ASSUME IInv, SysTick
  PROVE  \/ /\ prog' = prog /\ runs' = runs /\ Behind \subseteq Behind'
            /\ \A i \in Behind : VectorNumber(i)' = VectorNumber(i)
            /\ IF stimState = "WR_FIFOS"
               THEN /\ Behind' = Behind \cup {reached} /\ reached = Here
                    /\ \A i \in {reached} : VectorNumber(i)' = issued + 1
               ELSE Behind' = Behind
         \/ /\ prog' \in Programs /\ runs' = runs + 1 /\ ~enable /\ ~busy /\ done
            /\ Behind' = {} /\ reached' = 1
<1>0. /\ StimInv /\ DoneInv /\ prog \in Programs /\ issued \in Nat
      /\ reached \in DOMAIN prog /\ reached \in Nat \ {0}
      /\ \A j \in DOMAIN prog : j \in Nat \ {0}
  BY ReachedType, ProgramFacts DEF IInv, StimInv, RegsInv, BoundInv, RunInv
<1>1. issued' = IF stimState = "WR_FIFOS" THEN issued + 1 ELSE issued
  BY <1>0, IssuedNext
<1>2. CASE prog' = prog /\ runs' = runs /\ reached' = reached /\ stimState # "WR_FIFOS"
  BY <1>1, <1>2 DEF Behind, VectorNumber
<1>3. CASE /\ prog' = prog /\ runs' = runs /\ stimState \notin {"END", "IDLE"}
           /\ stimState' = "IDLE" /\ reached = Here /\ reached' = reached + 1
  <2>1. stimState = "WR_FIFOS" <=> prog[reached] = "TEST_VECTOR"
    BY <1>0, <1>3, RecordEnds DEF StimInv, ParseInv, HandlesInv
  <2>2. ASSUME NEW i \in Behind
        PROVE  VectorNumber(i)' = VectorNumber(i)
    <3>1. i \in DOMAIN prog /\ i < reached
      BY DEF Behind
    <3>2. Cardinality(VectorsBetween(prog, i, reached + 1))
            = Cardinality(VectorsBetween(prog, i, reached))
              + (IF prog[reached] = "TEST_VECTOR" THEN 1 ELSE 0)
      BY <1>0, <3>1, BetweenNext
    <3>3. Cardinality(VectorsBetween(prog, i, reached)) \in Nat
      BY <1>0, BetweenFacts
    <3> QED
      BY <1>0, <1>1, <1>3, <2>1, <3>2, <3>3 DEF VectorNumber
  <2>3. Behind' = IF prog[reached] = "TEST_VECTOR" THEN Behind \cup {reached} ELSE Behind
    BY <1>0, <1>3 DEF Behind
  <2>4. ASSUME stimState = "WR_FIFOS", NEW i \in {reached}
        PROVE  VectorNumber(i)' = issued + 1
    <3>1. Cardinality(VectorsBetween(prog, i, i + 1)) = 0
      BY <1>0, BetweenNext
    <3> QED
      BY <1>0, <1>1, <1>3, <2>4, <3>1 DEF VectorNumber
  <2> QED
    BY <1>3, <2>1, <2>2, <2>3, <2>4
<1>4. CASE enable /\ ~done
  BY <1>0, <1>4 DEF DoneInv, StimInv, RegsInv
<1>5. CASE prog' \in Programs /\ runs' = runs + 1 /\ ~enable /\ ~busy /\ done /\ reached' = 1
  <2>1. Behind' = {}
    BY <1>5, ProgramFacts DEF Behind
  <2> QED
    BY <1>5, <2>1
<1> QED
  BY <1>0, <1>2, <1>3, <1>4, <1>5, ReachedNext

LEMMA PendingNext ==
  ASSUME IInv, SysTick
  PROVE  /\ pending \in Nat \ {0} /\ pending <= issued + 1
         /\ pending' = IF checkState = "WRITEBACK" /\ checkState' = "IDLE"
                       THEN pending + 1 ELSE pending
<1>1. cRd \in Nat /\ cRd <= issued /\ issued \in Nat
      /\ (checkState \in {"CMP_AND_MASK", "WRITEBACK"} => cRd > 0)
  BY FlowFacts DEF IInv
<1>2. pending \in Nat \ {0} /\ pending <= issued + 1
  BY <1>1 DEF pending
<1>3. pending' = IF checkState = "WRITEBACK" /\ checkState' = "IDLE"
                 THEN pending + 1 ELSE pending
  BY <1>1, CheckNext DEF pending
<1> QED
  BY <1>2, <1>3

LEMMA AddressesKept ==
  ASSUME IInv, SysTick
  PROVE  /\ \A n \in 1 .. issued : wbAddr'[n] = wbAddr[n] /\ wbAddr[n] \in Nat
         /\ stimState = "WR_FIFOS" =>
              issued + 1 = issued' /\ wbAddr'[issued + 1] = Base(prog, Here) + 2
<1>0. /\ wbAddr \in Seq(Nat) /\ Len(wbAddr) = issued /\ StimInv /\ issued \in Nat
  BY DEF IInv, RunInv, CheckTypeInv, StimInv, BoundInv
<1>1. \A n \in 1 .. issued : wbAddr[n] \in Nat
  BY <1>0
<1>2. CASE stimState # "WR_FIFOS"
  BY <1>1, <1>2, VectorNext
<1>3. CASE stimState = "WR_FIFOS"
  <2>1. address = Base(prog, Here) + requested /\ requested = 6 /\ Here \in DOMAIN prog
    BY <1>0, <1>3 DEF StimInv, ParseInv, WordsInv, FetchInv, Fetched
  <2>2. Base(prog, Here) \in Nat
    BY <1>0, <2>1, BaseType, ProgramFacts DEF StimInv, RegsInv
  <2>3. wbAddr' = Append(wbAddr, Base(prog, Here) + 2)
    <3>1. wbAddr' = Append(wbAddr, address - 4)
      BY <1>3, VectorNext
    <3>2. address - 4 = Base(prog, Here) + 2
      BY <2>1, <2>2
    <3> QED
      BY <3>1, <3>2
  <2>4. issued' = issued + 1
    BY <1>0, <1>3, IssuedNext
  <2> QED
    BY <1>0, <1>1, <2>3, <2>4
<1> QED
  BY <1>2, <1>3

LEMMA AddressStepInv ==
  ASSUME IInv, SysTick
  PROVE  AddressInv'
<1>0. /\ StimInv /\ DoneInv /\ CheckTypeInv /\ AddressInv /\ issued \in Nat /\ runs \in Nat
      /\ pending \in Nat \ {0} /\ pending' >= pending /\ pending' \in Nat
      /\ FlowProofs!IInv
  <2>1. MaxRuns \in Nat
    BY ControllerAssumption
  <2> QED
    BY <2>1, PendingNext DEF IInv, RunInv, StimInv, BoundInv, RegsInv
<1>1. ASSUME runs' > 0, NEW n \in pending' .. issued'
      PROVE  \E i \in Behind' : VectorNumber(i)' = n /\ wbAddr'[n] = Base(prog', i) + 2
  <2>1. CASE prog' = prog /\ runs' = runs /\ Behind \subseteq Behind'
    <3>1. CASE n \in pending .. issued
      <4>1. PICK i \in Behind : VectorNumber(i) = n /\ wbAddr[n] = Base(prog, i) + 2
        BY <1>0, <1>1, <2>1, <3>1 DEF AddressInv
      <4>2. wbAddr'[n] = wbAddr[n] /\ Base(prog', i) = Base(prog, i)
        BY <1>0, <2>1, <3>1, AddressesKept DEF Base
      <4>3. VectorNumber(i)' = VectorNumber(i)
        BY <1>0, <2>1, <4>1, BehindNext
      <4> QED
        BY <2>1, <4>1, <4>2, <4>3
    <3>2. CASE n \notin pending .. issued
      <4>1. stimState = "WR_FIFOS" /\ issued' = issued + 1 /\ n = issued + 1
        BY <1>0, <1>1, <3>2, IssuedNext
      <4>2. /\ Behind' = Behind \cup {reached} /\ reached = Here
            /\ \A i \in {reached} : VectorNumber(i)' = issued + 1
        BY <1>0, <2>1, <4>1, BehindNext
      <4>3. wbAddr'[issued + 1] = Base(prog, Here) + 2 /\ Base(prog', Here) = Base(prog, Here)
        BY <2>1, <4>1, AddressesKept DEF Base
      <4>4. PICK i \in Behind' : i = reached
        BY <4>2
      <4> QED
        BY <2>1, <4>1, <4>2, <4>3, <4>4 DEF Base
    <3> QED
      BY <3>1, <3>2
  <2>2. CASE ~enable /\ ~busy /\ done /\ runs' = runs + 1
    <3>1. cRd = issued /\ checkState = "IDLE"
      BY <1>0, <2>2, DoneMeansThrough DEF DoneInv
    <3>2. pending = issued + 1
      BY <3>1 DEF pending
    <3>3. issued' = issued
      BY <1>0, <2>2, IssuedNext DEF done
    <3> QED
      BY <1>0, <1>1, <3>2, <3>3
  <2> QED
    BY <1>0, <2>1, <2>2, BehindNext
<1>2. ASSUME checkState' = "WRITEBACK"
      PROVE  chkAddr' = wbAddr'[cRd'] + chkStored'
  <2>1. checkState \in {"CMP_AND_MASK", "WRITEBACK"} /\ cRd' = cRd
    BY <1>2, CheckNext
  <2>2. wbAddr'[cRd] = wbAddr[cRd] /\ wbAddr[cRd] \in Nat /\ chkStored \in Nat
    <3>1. cRd \in 1 .. issued
      BY <1>0, <2>1, FlowFacts
    <3> QED
      BY <1>0, <3>1, AddressesKept DEF CheckTypeInv, ResultWords
  <2>3. CASE checkState = "CMP_AND_MASK"
    <3>1. chkAddr' = wbAddr[cRd] /\ chkStored' = 0
      BY <1>0, <2>3, CheckNext DEF CheckTypeInv
    <3> QED
      BY <2>1, <2>2, <3>1
  <2>4. CASE checkState = "WRITEBACK"
    <3>1. chkAddr = wbAddr[cRd] + chkStored
      BY <1>0, <2>4 DEF AddressInv
    <3>2. \/ UNCHANGED <<chkAddr, chkStored>>
          \/ chkAddr' = chkAddr + 1 /\ chkStored' = chkStored + 1
      BY <2>4, CheckNext
    <3> QED
      BY <2>1, <2>2, <3>1, <3>2
  <2> QED
    BY <2>1, <2>3, <2>4
<1> QED
  BY <1>1, <1>2 DEF AddressInv

(* The place check writes to is in the record of the vector it has popped.  *)
LEMMA WritesInItsRecord ==
  ASSUME IInv, SysTick, checkState = "WRITEBACK", runs > 0
  PROVE  \E i \in Behind :
           /\ VectorNumber(i) = cRd /\ pending = cRd /\ wbAddr[cRd] = Base(prog, i) + 2
           /\ chkStored \in {0, 1} /\ chkAddr = Base(prog, i) + 2 + chkStored
           /\ i \in Nat \ {0} /\ Base(prog, i) \in Nat
<1>0. AddressInv /\ CheckTypeInv /\ FlowProofs!IInv /\ prog \in Programs
  BY DEF IInv, RunInv, StimInv, RegsInv
<1>1. pending = cRd /\ cRd \in pending .. issued
  BY <1>0, FlowFacts DEF pending
<1>2. PICK i \in Behind : VectorNumber(i) = cRd /\ wbAddr[cRd] = Base(prog, i) + 2
  BY <1>0, <1>1 DEF AddressInv
<1>3. chkStored \in {0, 1} /\ chkAddr = Base(prog, i) + 2 + chkStored
  BY <1>0, <1>2 DEF AddressInv, CheckTypeInv, ResultWords
<1>4. i \in Nat \ {0} /\ Base(prog, i) \in Nat
  BY <1>0, <1>2, ProgramFacts, BaseType DEF Behind
<1> QED
  BY <1>1, <1>2, <1>3, <1>4

LEMMA ThroughNext ==
  ASSUME IInv, SysTick, prog' = prog, runs' = runs
  PROVE  /\ Through' = { k \in Behind : VectorNumber(k) < pending' }
         /\ UNION { Fields(i, VectorNumber(i)) : i \in Through }'
              = UNION { Fields(i, VectorNumber(i)) : i \in Through' }
<1>0. /\ StimInv /\ issued \in Nat /\ pending' \in Nat /\ pending' <= issued + 1
      /\ runs \in Nat /\ FlowProofs!IInv
  <2>1. MaxRuns \in Nat
    BY ControllerAssumption
  <2>2. checkState = "WRITEBACK" => pending = cRd /\ cRd <= issued
    BY FlowFacts DEF pending, IInv
  <2> QED
    BY <2>1, <2>2, PendingNext DEF IInv, StimInv, BoundInv, RegsInv
<1>1. /\ Behind \subseteq Behind'
      /\ \A i \in Behind : VectorNumber(i)' = VectorNumber(i)
      /\ \A i \in Behind' \ Behind : VectorNumber(i)' = issued + 1
  BY <1>0, BehindNext
<1>2. Through' = { k \in Behind : VectorNumber(k) < pending' }
  BY <1>0, <1>1 DEF Through
<1>3. \A i \in Through' : Fields(i, VectorNumber(i))' = Fields(i, VectorNumber(i))
  BY <1>1, <1>2 DEF Fields, Base
<1> QED
  BY <1>2, <1>3

LEMMA WrittenStepInv ==
  ASSUME IInv, SysTick
  PROVE  WrittenInv'
<1>0. /\ StimInv /\ DoneInv /\ CheckTypeInv /\ WrittenInv /\ runs \in Nat /\ FlowProofs!IInv
      /\ \A r \in results : r.run \in Nat
  <2>1. MaxRuns \in Nat
    BY ControllerAssumption
  <2>2. CheckTypeInv /\ runs \in 0 .. MaxRuns
    BY DEF IInv, RunInv, StimInv, RegsInv
  <2> QED
    BY <2>1, <2>2 DEF IInv, RunInv, CheckTypeInv
<1>1. \A r \in results' : r.run <= runs
  BY <1>0, CheckNext DEF WrittenInv
<1>2. ASSUME runs' = runs + 1, ~busy, Behind' = {}
      PROVE  Written' = Half' \cup UNION { Fields(i, VectorNumber(i)) : i \in Through }'
  <2>1. results' = results /\ checkState' # "WRITEBACK"
    BY <1>0, <1>2, CheckNext DEF DoneInv
  <2>2. Written' = {}
    BY <1>0, <1>1, <1>2, <2>1 DEF Written
  <2>3. Half' = {} /\ Through' = {}
    BY <1>2, <2>1 DEF Half, Through
  <2> QED
    BY <2>2, <2>3
<1>3. ASSUME prog' = prog, runs' = runs, runs > 0
      PROVE  Written' = Half' \cup UNION { Fields(i, VectorNumber(i)) : i \in Through }'
  <2> DEFINE All(S) == UNION { Fields(i, VectorNumber(i)) : i \in S }
  <2>0. Written = Half \cup All(Through)
    BY <1>0, <1>3 DEF WrittenInv
  <2>1. /\ Through' = { k \in Behind : VectorNumber(k) < pending' }
        /\ All(Through)' = All(Through')
    BY <1>3, ThroughNext
  <2>2. CASE checkState # "WRITEBACK"
    <3>1. results' = results /\ pending' = pending /\ (checkState' = "WRITEBACK" => chkStored' = 0)
      BY <1>0, <2>2, CheckNext, PendingNext DEF CheckTypeInv
    <3>2. Written' = Written /\ Half = {} /\ Half' = {}
      BY <1>3, <2>2, <3>1 DEF Written, Half
    <3>3. Through' = Through
      BY <2>1, <3>1 DEF Through
    <3> QED
      BY <2>0, <2>1, <3>2, <3>3
  <2>3. CASE checkState = "WRITEBACK"
    <3>0. PICK i \in Behind :
            /\ VectorNumber(i) = cRd /\ pending = cRd /\ wbAddr[cRd] = Base(prog, i) + 2
            /\ chkStored \in {0, 1} /\ chkAddr = Base(prog, i) + 2 + chkStored
            /\ i \in Nat \ {0} /\ Base(prog, i) \in Nat
      BY <1>3, <2>3, WritesInItsRecord
    <3>1. wbAddr'[cRd] = wbAddr[cRd]
      <4>1. cRd \in 1 .. issued
        BY <1>0, <2>3, FlowFacts
      <4> QED
        BY <4>1, AddressesKept
    <3>2. CASE UNCHANGED <<checkState, cRd, chkStored, results>>
      <4>1. pending' = pending
        BY <2>3, <3>2, PendingNext
      <4>2. Written' = Written /\ Half' = Half /\ Through' = Through
        BY <1>3, <2>1, <2>3, <3>1, <3>2, <4>1 DEF Written, Half, Through
      <4> QED
        BY <2>0, <2>1, <4>2
    <3>3. CASE /\ checkState' = IF chkStored = 1 THEN "IDLE" ELSE "WRITEBACK"
               /\ chkStored' = chkStored + 1 /\ cRd' = cRd
               /\ results' = results \cup
                    {[at |-> chkAddr, run |-> runs, vec |-> cRd, mask |-> bitmask]}
      <4>1. Written' = Written \cup { <<chkAddr, cRd>> }
        <5> DEFINE new == [at |-> chkAddr, run |-> runs, vec |-> cRd, mask |-> bitmask]
        <5>1. new.at = chkAddr /\ new.run = runs /\ new.vec = cRd
          OBVIOUS
        <5>2. results' = results \cup {new}
          BY <3>3
        <5> HIDE DEF new
        <5> QED
          BY <1>3, <5>1, <5>2 DEF Written
      <4>2. CASE chkStored = 0
        <5>1. Half = {} /\ Half' = { <<chkAddr, cRd>> }
          BY <3>0, <3>1, <3>3, <4>2 DEF Half
        <5>2. pending' = pending
          BY <3>3, <4>2, PendingNext
        <5>3. Through' = Through
          BY <2>1, <5>2 DEF Through
        <5> QED
          BY <2>0, <2>1, <4>1, <5>1, <5>3
      <4>3. CASE chkStored = 1
        <5>1. /\ Half = { <<Base(prog, i) + 2, cRd>> } /\ Half' = {}
              /\ chkAddr = Base(prog, i) + 3
          BY <2>3, <3>0, <3>3, <4>3 DEF Half
        <5>2. pending' = cRd + 1
          BY <2>3, <3>0, <3>3, <4>3, PendingNext
        <5>3. Through' = Through \cup {i}
          <6>1. cRd \in Nat /\ \A k \in Behind : VectorNumber(k) \in Int
            BY <1>0, FlowFacts, NumbersDiffer
          <6>2. \A k \in Behind : VectorNumber(k) = cRd <=> k = i
            BY <1>0, <3>0, NumbersDiffer
          <6>3. \A k \in Behind : VectorNumber(k) < cRd + 1
                                 <=> VectorNumber(k) < cRd \/ k = i
            BY <6>1, <6>2
          <6>4. Through = { k \in Behind : VectorNumber(k) < cRd }
            BY <3>0 DEF Through
          <6> QED
            BY <2>1, <3>0, <5>2, <6>3, <6>4
        <5>4. All(Through') = All(Through) \cup Fields(i, cRd)
          BY <3>0, <5>3
        <5>5. Fields(i, cRd) = Half \cup { <<chkAddr, cRd>> }
          BY <5>1 DEF Fields
        <5>6. Half' \cup All(Through') = All(Through) \cup Fields(i, cRd)
          BY <5>1, <5>4
        <5>7. Written' = Half \cup All(Through) \cup { <<chkAddr, cRd>> }
          BY <2>0, <4>1
        <5> HIDE DEF All
        <5>8. Written' = Half' \cup All(Through')
          BY <5>5, <5>6, <5>7
        <5>9. All(Through') = All(Through)'
          BY <2>1
        <5>10. Written' = Half' \cup All(Through)'
          BY <5>8, <5>9
        <5> QED
          BY <5>10 DEF All
      <4> QED
        BY <3>0, <4>2, <4>3
    <3> QED
      BY <2>3, <3>2, <3>3, CheckNext
  <2> QED
    BY <2>2, <2>3
<1>4. runs' >= runs /\ \A r \in results' : r.run \in Nat
  BY <1>0, CheckNext, BehindNext
<1> QED
  BY <1>0, <1>1, <1>2, <1>3, <1>4, BehindNext DEF WrittenInv

LEMMA MaskStepInv ==
  ASSUME IInv, SysTick
  PROVE  MaskInv'
<1>0. /\ StimInv /\ DoneInv /\ MaskInv /\ WrittenInv /\ prog \in Programs /\ runs \in Nat
      /\ bitmask \in Nat /\ reached \in DOMAIN prog /\ reached \in Nat \ {0}
      /\ \A j \in DOMAIN prog : j \in Nat \ {0}
      /\ \A r \in results : r.run \in Nat
  <2>1. MaxRuns \in Nat
    BY ControllerAssumption
  <2>2. CheckTypeInv /\ StimInv /\ RegsInv
    BY DEF IInv, RunInv, StimInv
  <2> QED
    BY <2>1, <2>2, ReachedType, ProgramFacts DEF IInv, RunInv, CheckTypeInv, RegsInv
<1>1. bitmask' = IF load_bitmask THEN record ELSE bitmask
  BY DEF SysTick, CheckStep
<1>2. load_bitmask => record = reached /\ Here = reached
  <2> SUFFICES ASSUME load_bitmask PROVE record = reached /\ Here = reached
    OBVIOUS
  <2>1. stimState = "SETUP_BITMASK" /\ stored >= 1
    BY DEF load_bitmask, ShortWords
  <2> QED
    BY <1>0, <2>1, RecordIsHere DEF reached
<1>3. ASSUME prog' = prog, runs' = runs, runs > 0, Behind \subseteq Behind'
      PROVE  /\ \A j \in DOMAIN prog : j < reached' /\ prog[j] = "SETUP_BITMASK" => j <= bitmask'
             /\ \A r \in results' : r.run = runs =>
                  \E i \in Behind' :
                    /\ r.at \in {Base(prog, i) + 2, Base(prog, i) + 3}
                    /\ \A j \in 1 .. i - 1 : prog[j] = "SETUP_BITMASK" => j <= r.mask
  <2>0. /\ \A j \in DOMAIN prog : j < reached /\ prog[j] = "SETUP_BITMASK" => j <= bitmask
        /\ \A r \in results : r.run = runs =>
             \E i \in Behind :
               /\ r.at \in {Base(prog, i) + 2, Base(prog, i) + 3}
               /\ \A j \in 1 .. i - 1 : prog[j] = "SETUP_BITMASK" => j <= r.mask
    BY <1>0, <1>3 DEF MaskInv
  <2>1. ASSUME NEW j \in DOMAIN prog, j < reached', prog[j] = "SETUP_BITMASK"
        PROVE  j <= bitmask'
    <3>1. CASE j < reached
      <4>1. j <= bitmask
        BY <2>0, <2>1, <3>1
      <4> QED
        BY <1>0, <1>1, <1>2, <3>1, <4>1
    <3>2. CASE ~(j < reached)
      <4>1. /\ stimState \notin {"END", "IDLE"} /\ stimState' = "IDLE"
            /\ reached = Here /\ j = reached
        <5>1. reached' # reached /\ runs' # runs + 1
          BY <1>0, <1>3, <2>1, <3>2
        <5>2. \/ /\ stimState \notin {"END", "IDLE"} /\ stimState' = "IDLE"
                 /\ reached = Here /\ reached' = reached + 1
              \/ enable /\ ~done
          BY <1>0, <5>1, ReachedNext
        <5>3. ~(enable /\ ~done)
          BY <1>0 DEF DoneInv, StimInv, RegsInv
        <5> QED
          BY <1>0, <2>1, <3>2, <5>2, <5>3
      <4>2. stimState = "SETUP_BITMASK"
        BY <1>0, <2>1, <4>1, RecordEnds DEF StimInv, ParseInv, HandlesInv
      <4>3. load_bitmask
        BY <1>0, <4>1, <4>2, StimNext DEF load_bitmask, ShortWords
      <4> QED
        BY <1>0, <1>1, <1>2, <4>1, <4>3
    <3> QED
      BY <3>1, <3>2
  <2>2. ASSUME NEW r \in results', r.run = runs
        PROVE  \E i \in Behind' :
                 /\ r.at \in {Base(prog, i) + 2, Base(prog, i) + 3}
                 /\ \A j \in 1 .. i - 1 : prog[j] = "SETUP_BITMASK" => j <= r.mask
    <3>1. CASE r \in results
      BY <1>3, <2>0, <2>2, <3>1
    <3>2. CASE r \notin results
      <4>1. checkState = "WRITEBACK" /\ r.at = chkAddr /\ r.mask = bitmask
        BY <3>2, CheckNext
      <4>2. PICK i \in Behind : /\ chkStored \in {0, 1} /\ i \in Nat \ {0}
                                /\ chkAddr = Base(prog, i) + 2 + chkStored
                                /\ Base(prog, i) \in Nat
        BY <1>3, <4>1, WritesInItsRecord
      <4>3. r.at \in {Base(prog, i) + 2, Base(prog, i) + 3}
        BY <4>1, <4>2
      <4>4. ASSUME NEW j \in 1 .. i - 1, prog[j] = "SETUP_BITMASK"
            PROVE  j <= bitmask
        <5>1. j \in DOMAIN prog /\ j < reached
          BY <1>0, <4>2, ProgramFacts DEF Behind
        <5> QED
          BY <2>0, <4>4, <5>1
      <4> QED
        BY <1>3, <4>1, <4>3, <4>4
    <3> QED
      BY <3>1, <3>2
  <2> QED
    BY <2>1, <2>2
<1>4. ASSUME runs' = runs + 1, ~busy, prog' \in Programs, reached' = 1
      PROVE  MaskInv'
  <2>1. results' = results
    BY <1>0, <1>4, CheckNext DEF DoneInv
  <2>2. \A r \in results' : r.run # runs'
    BY <1>0, <1>4, <2>1 DEF WrittenInv
  <2>3. \A j \in DOMAIN prog' : ~(j < reached')
    BY <1>4, ProgramFacts
  <2> QED
    BY <2>2, <2>3 DEF MaskInv
<1>5. CASE prog' = prog /\ runs' = runs /\ Behind \subseteq Behind'
  BY <1>3, <1>5 DEF MaskInv, Base
<1> QED
  BY <1>4, <1>5, BehindNext

-----------------------------------------------------------------------------
LEMMA SysTickRunInv ==
  ASSUME IInv, SysTick
  PROVE  RunInv'
  BY CheckTypeStepInv, DoneStepInv, LateStepInv, AddressStepInv, WrittenStepInv, MaskStepInv,
     ChangesStepInv DEF RunInv

(* An edge of pll_clock leaves check and the results alone.                 *)
LEMMA RunInvKept ==
  ASSUME RunInv, UNCHANGED ctrlVars, UNCHANGED flowSysVars,
         Flow!Quiescent => Flow!Quiescent'
  PROVE  RunInv'
<1> USE DEF ctrlVars, hostVars, stimVars, checkVars, flowSysVars
<1>1. UNCHANGED <<Here, reached>>
  BY DEF Here, reached, RecordAt, Base
<1>2. CheckTypeInv' /\ LateInv' /\ ChangesWhenQuiescent'
  BY DEF RunInv, CheckTypeInv, LateInv, ChangesWhenQuiescent
<1>3. done' = done
  BY DEF done, Flow!sfifo_wrempty, Flow!cfifo_wrempty, Flow!WrEmpty, Flow!seenBySys
<1>4. DoneInv'
  BY <1>3 DEF RunInv, DoneInv
<1>5. UNCHANGED <<Behind, pending, Half, Written>> /\ \A i : VectorNumber(i)' = VectorNumber(i)
  BY <1>1 DEF Behind, pending, Half, Written, VectorNumber
<1>6. AddressInv'
  BY <1>5 DEF RunInv, AddressInv, Base
<1>7. UNCHANGED Through /\ \A i, n : Fields(i, n)' = Fields(i, n)
  BY <1>5 DEF Through, Fields, Base
<1>8. UNION { Fields(i, VectorNumber(i)) : i \in Through }'
        = UNION { Fields(i, VectorNumber(i)) : i \in Through }
  BY <1>5, <1>7, ZenonT(60) DEF Fields, Base
<1>9. WrittenInv'
  BY <1>5, <1>8 DEF RunInv, WrittenInv
<1>10. MaskInv'
  BY <1>1, <1>5 DEF RunInv, MaskInv, Base
<1> QED
  BY <1>2, <1>4, <1>6, <1>9, <1>10 DEF RunInv

LEMMA InitRunInv == Init => RunInv
<1> SUFFICES ASSUME Init PROVE RunInv
  OBVIOUS
<1>0. SyncStages \in 1 .. SyncStages /\ Flow!Stages = 1 .. SyncStages
  BY ControllerAssumption DEF Flow!Stages
<1>1. /\ issued = 0 /\ sLog = <<>> /\ cLog = <<>> /\ cRd = 0
      /\ toSys[SyncStages].sRd = 0 /\ toSys[SyncStages].cRd = 0
  BY <1>0 DEF Init, Flow!Init
<1>2. done
  BY <1>1 DEF Init, done, Flow!sfifo_wrempty, Flow!cfifo_wrempty, Flow!WrEmpty, Flow!seenBySys
<1>3. CheckTypeInv
  BY <1>1 DEF Init, CheckTypeInv, ResultWords
<1> QED
  BY <1>2, <1>3 DEF Init, RunInv, DoneInv, LateInv, AddressInv, WrittenInv, MaskInv,
     ChangesWhenQuiescent

(* All three parts of the invariant hold in every state.                    *)
THEOREM Invariance == Spec => []IInv
<1>1. Init => RunInv
  BY InitRunInv
<1>2. FlowProofs!IInv /\ FlowProofs!IInv' /\ StimInv /\ RunInv /\ [Next]_vars => RunInv'
  <2> SUFFICES ASSUME FlowProofs!IInv, StimInv, RunInv, [Next]_vars PROVE RunInv'
    OBVIOUS
  <2>1. CASE SysTick
    BY <2>1, SysTickRunInv DEF IInv
  <2>2. CASE PllTick
    <3>1. Flow!Next /\ UNCHANGED ctrlVars /\ UNCHANGED flowSysVars
      BY <2>2 DEF PllTick, Flow!Next, Flow!PllTick, Flow!sysVars, flowSysVars
    <3>2. issued' = issued
      BY <3>1 DEF flowSysVars
    <3> QED
      BY <3>1, <3>2, QuiescentKept, RunInvKept
  <2>3. CASE UNCHANGED vars
    <3>1. UNCHANGED Flow!Quiescent
      BY <2>3 DEF vars, flowSysVars, flowPllVars, Flow!Quiescent, Flow!PipelineEmpty
    <3> QED
      BY <2>3, <3>1, RunInvKept DEF vars
  <2> QED
    BY <2>1, <2>2, <2>3 DEF Next
<1> QED
  BY <1>1, <1>2, FlowInvariance, StimInvariance, PTL DEF Spec, IInv

-----------------------------------------------------------------------------
(***************************************************************************)
(* The properties.                                                          *)
(***************************************************************************)

(* stim stays in step with the program: as it goes for a record (the state  *)
(* IDLE of stim.v) its address is that of one, and no word it asked for     *)
(* before is still on its way.                                              *)
THEOREM StimStaysAligned == Spec => []AlignedParse
<1>1. IInv => AlignedParse
  <2> SUFFICES ASSUME IInv PROVE AlignedParse
    OBVIOUS
  <2>0. StimInv /\ RegsInv /\ FetchInv /\ CheckTypeInv /\ stimState \in StimStates
    BY DEF IInv, StimInv, RegsInv, RunInv
  <2>1. requested \in 0 .. VectorWords /\ stored \in 0 .. VectorWords
    BY <2>0 DEF FetchInv, Fetched, StimStates, ShortStates, VectorWords
  <2>2. TypeOK
    BY <2>0, <2>1 DEF TypeOK, RegsInv, CheckTypeInv
  <2>3. ASSUME stimState = "IDLE"
        PROVE  requested = 0 /\ stored = 0 /\ oe = None /\ ready = None /\ RecordAt(address) # 0
    <3>1. Fetched(0, 0, FALSE, FALSE) /\ WordsInv /\ prog \in Programs /\ address \in Nat
      BY <2>0, <2>3 DEF FetchInv, StimInv, ParseInv, RegsInv
    <3>2. Here \in DOMAIN prog /\ address = Base(prog, Here) + 0 /\ Here \in Nat \ {0}
      BY <3>1, ProgramFacts DEF WordsInv, Fetched
    <3>3. RecordAt(address) = Here
      BY <3>1, <3>2, BaseType, RecordAtBase
    <3> QED
      BY <3>1, <3>2, <3>3 DEF Fetched
  <2> QED
    BY <2>2, <2>3 DEF AlignedParse
<1> QED
  BY <1>1, Invariance, PTL

(* Once busy has dropped software finds in SRAM both words of the response  *)
(* to each test vector in the result fields of its record, and nothing else *)
(* written, each masked with the bitmask in force where its vector stands   *)
(* or with a later one of the program, as SETUP_BITMASK does not wait       *)
(* (check.v's WRITEBACK, stim.v's done and test_runner.v's busy).           *)
THEOREM RunsAreComplete == Spec => []RunComplete
<1>1. IInv => RunComplete
  <2> SUFFICES ASSUME IInv, runs > 0, ~enable, ~busy
               PROVE  Written = Expected /\ checkState = "IDLE" /\ MaskNotLate
    BY DEF RunComplete
  <2>0. /\ prog \in Programs /\ StimInv /\ DoneInv /\ WrittenInv /\ MaskInv
        /\ cRd \in Nat /\ issued \in Nat
    BY FlowFacts DEF IInv, StimInv, RegsInv, RunInv
  <2>1. done /\ checkState = "IDLE" /\ stimState = "END"
    BY <2>0 DEF DoneInv, done
  <2>2. pending = issued + 1 /\ Half = {} /\ reached = Len(prog)
    <3>1. cRd = issued
      BY <2>1, DoneMeansThrough
    <3> QED
      BY <2>1, <3>1 DEF pending, Half, reached
  <2>3. Behind = { j \in DOMAIN prog : prog[j] = "TEST_VECTOR" }
    BY <2>0, <2>2, ProgramFacts DEF Behind
  <2>4. Through = Behind
    BY <2>0, <2>2, NumbersDiffer DEF Through
  <2>5. ASSUME NEW i \in Behind
        PROVE  VectorAt(i) = VectorNumber(i)
    <3>1. { j \in DOMAIN prog : j > i /\ prog[j] = "TEST_VECTOR" }
            = VectorsBetween(prog, i, reached)
      BY <2>0, <2>2, ProgramFacts DEF VectorsBetween
    <3> QED
      BY <3>1 DEF VectorAt, VectorNumber
  <2>6. Written = UNION { Fields(i, VectorNumber(i)) : i \in Behind }
    BY <2>0, <2>2, <2>4 DEF WrittenInv
  <2>7. Written = Expected
    BY <2>3, <2>5, <2>6 DEF Expected, Fields
  <2>8. MaskNotLate
    <3> SUFFICES ASSUME NEW r \in results, NEW i \in DOMAIN prog, r.run = runs,
                        r.at \in {Base(prog, i) + 2, Base(prog, i) + 3}
                 PROVE  \A j \in 1 .. i - 1 : prog[j] = "SETUP_BITMASK" => j <= r.mask
      BY DEF MaskNotLate
    <3>1. PICK k \in Behind :
            /\ r.at \in {Base(prog, k) + 2, Base(prog, k) + 3}
            /\ \A j \in 1 .. k - 1 : prog[j] = "SETUP_BITMASK" => j <= r.mask
      BY <2>0 DEF MaskInv
    <3>2. i \in Nat \ {0} /\ k \in Nat \ {0}
      BY <2>0, ProgramFacts DEF Behind
    <3>3. i = k
      BY <3>1, <3>2, FieldsApart
    <3> QED
      BY <3>1, <3>3
  <2> QED
    BY <2>1, <2>7, <2>8
<1> QED
  BY <1>1, Invariance, PTL

(* While a command is on its way to dut_if, and while the target is         *)
(* switched, no vector is under way: both FIFOs that stim.v looks at have   *)
(* been seen empty.                                                         *)
THEOREM ChangesAreQuiescent == Spec => []ChangesWhenQuiescent
<1>1. IInv => ChangesWhenQuiescent
  BY DEF IInv, RunInv
<1> QED
  BY <1>1, Invariance, PTL
=============================================================================
