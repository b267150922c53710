# ChipTester in TLA+

The ChipTester runs test vectors against chips under test (DUTs) plugged into an
Altera DE2-115 board. A Verilog design in the FPGA (`src/hdl/`) plays a *program*
of vectors out of an SRAM, through FIFOs, onto the pins of the DUT and writes the
responses back. A uClinux system on the same FPGA holds the drivers
(`src/overlay/linux-2.6/drivers/misc/`) and the daemon `confrd`
(`src/overlay/uClinux-dist/user/confrd/`) that turns the files on a memory card into
such programs and uploads what comes back to a web server (`src/server/`).

This directory holds TLA+ models of it, the TLC configurations that check them,
and proofs checked by TLAPS. Every definition is translated from the source;
`PROJECT.json` says from which lines.

## The system

| component | state it keeps | operations | what makes it correct | hard behaviour |
|---|---|---|---|---|
| **stim** (`stim.v`) | FSM state, SRAM address, word counters, word buffer, target, settling counter | read a record word by word; write a vector to sfifo and its expectation to cfifo; send a command; switch target; set the bitmask; reconfigure the PLL; END | parse stays aligned; nothing lost in a FIFO; drain where it must | reads in flight across states; guards far from the writes they protect |
| **check** (`check.v`) | FSM state, popped pair, address, bitmask | pop rfifo and cfifo, compare and mask, write two words back | a response meets its own expectation; all is in SRAM when the run is over | pairing by order alone; loses every arbitration to stim |
| **mem_if**, **sram_arb_sync** | read pipeline, current owner | arbitrate stim/check; arbitrate tester/bus/ADC | a read is answered to who asked | answers cycles later; ADC steals the SRAM |
| **dut_if** (`dut_if.v`) | fetch bubble, execute state and counter, result registers, write request, command interpreter | fetch, execute (fixed or triggered), write back, gate the DUT's clock, load muxes and trigger mask | each vector once, in order, for as long as it asks | stalls; three registers that are not held in a stall |
| **dcfifo_custom** | memory, two pointers, synchronisers | read, write | flags never optimistic | each side sees the other late; two pointers late by different amounts |
| **test_runner** | enable, done_d1, busy, interrupt bit | register reads and writes | no pulse, no interrupt lost | read-to-clear against set |
| **trunner driver** (`trunner_dev.c`) | tr_busy, wait queue | enable, poll, interrupt handler, probe, remove | busy when the tester is; no sleeper forgotten | handler between any two steps |
| **adc, fcounter drivers** | the same pattern | the same | the same | fcounter does not ask the hardware |
| **drivers' life cycle** | what was acquired, references, openers | module init, probe, open, release, remove, exit | nothing used that is not there, nothing left behind | a failure at any step, users and old interrupts at any time |
| **LCD driver, tool, library** (`de2lcd_dev.c`) | shift time, timer, file offset; the display's own address and shift | write, clear, cursor, shift | the text asked for is the text shown | a timer in the middle of a call |
| **confrd** | file parser, list of pending vectors, SRAM image, expectations | parse, stage, run a batch, read back, upload | every vector run once and reported with its own expectation | batch boundaries, SRAM exactly full, killed by card removal |
| **ADC sampler** (`adc.v`, `adc_if.v`) | FSM, address, busy, done_d1, interrupt | enable, sample into SRAM | the SRAM has one owner; all samples uploaded | two busy flags that do not know each other |
| **frequency counter** (`fc_control.sv`, `freq_measurement.sv`) | window, input, counters, interrupt | set, enable, count, read | the count is of this window and this pin | stale `done`, an enable that nobody hears |
| **confrd, one start** (`confrd.c` main, `parser_cfg.c`, `log.c`, `http_json.c`) | globaldata, vlog's guard and URL | the directories of a card, their team.cfg, result, chip and files | a team's vectors on its own chip, into its own result | every request may fail, and failing is itself reported by a request |
| **spi_flash** | flash contents, BUSY, WEL | erase, program, read; write a file | the file is in the flash | calls that wait, or do not, on a flash that is busy for as long as it likes |
| **PLL reconfiguration** | the vendor's controllers | reconfigure | handshake complete | stale `stable` |
| **server** (`server.rb`) | database | submit, claim a design, finish, reset | no design twice | check-then-act between requests |
| **scripts, rlog, SRAM tools** | none of interest | | | |

Interaction. confrd writes the program into the SRAM and calls the driver; the
driver writes the enable register of test_runner; the pulse takes stim out of END.
stim fills **sfifo** (vectors, to dut_if), **cfifo** (expectations, to check) and
**dififo** (commands, to dut_if); dut_if fills **rfifo** (results, to check); check
writes into the SRAM through mem_if. dut_if runs on `pll_clock` (1 to 100 MHz, set by
software), everything else in the tester on the system clock. When stim is in END
and its FIFOs have drained, `done` rises, test_runner drops `busy` (which gives the
SRAM back to the bus) and raises an interrupt; the handler clears `tr_busy` and
wakes confrd out of `poll`.

The hazards, each with its line in the code and the properties aimed at it, are
listed in `PROJECT.json`.

## The modules

```
 Dcfifo          a dual-clock FIFO as operators
   |- VectorFlow      stim, check and dut_if as far as they touch the FIFOs,  ==> InOrderTest
   |     |            both clocks, every register between sfifo and rfifo         (abstract)
   |     |- TestController  stim, check, mem_if, SRAM pipeline, runner in full  ==> VectorFlow
   |     |    '- TestControllerProofs
   |     |- DutIf           dut_if in full: counter, modes, gated clock         ==> VectorFlow
   |     |    '- DutIfProofs
   |     '- VectorFlowProofs
   '- CommandPath     dififo and the command interpreter (in both of the above)
 TestRunner      test_runner.v, trunner_dev.c, interrupt handler, confrd processes
   '- TestRunnerProofs
 Confrd          a vector file: batches in the SRAM, and results back out of it
   '- ConfrdProofs
 Session         a card: team.cfg, result, chip, files; logging; a failing network
   '- LinuxProofs (with DriverLife, Lcd and SpiFlash)
 FreqCounter     frequency counter, driver, confrd's measurement, the fcounter tool
   '- FreqCounterProofs
 AdcCapture      ADC sampler, SRAM arbiter, tester as a master, driver, confrd's capture
   '- AdcCaptureProofs
 DriverLife      load, probe, open, interrupt, remove, unload of the four drivers
 Lcd             LCD driver, shift timer, confrd's texts, the de2lcd tool, a stream
 SpiFlash        flash programmer and the flash model with its timer
 MC...           programs, files, team.cfgs and interrupt numbers for TLC
```

`==>` is a refinement that TLC checks as a property, and TLAPS proves. What one
module takes from another without composing with it: TestRunner has of the tester only
running or done, and that it ends (`RunsEnd` of TestController); AdcCapture has of the
tester's driver only the answer TestRunner shows it to give; Session has of a file only
whether it was parsed, run and uploaded (Confrd).

**Dcfifo.** A FIFO is the sequence of all it was ever given and the count of what
was read, so that "the FIFO holds" and "history" are one variable. Each side works
with the other's pointer as it comes out of a chain of `SyncStages` flip-flops. Where a
pointer is captured near an edge of the other clock, the old or the new value may be
taken (`Sampled`), for each pointer separately. cfifo has both sides on one clock; its
pointers go through the same chain.

**VectorFlow.** One step is one edge of one clock; edges interleave freely, which
covers every frequency ratio. The pll_clock side has every register of dut_if that
decides whether a vector moves: `bubble_r` of fetch and execute, the state, the registered
write request. How long a vector executes (`WAIT`), how long stim takes to fetch a record
(`FETCH`, `DRAIN`) and check to write back (`WORK`) is left open, which is what lets the two
detailed modules refine it. `exVec`, `wrVec` and the FIFO contents carry the *number* of
the vector a register's data belongs to; the program has no such tag, which is the
point of `Paired` and `ResultsInOrder`.

**TestController.** One disjunct of `StimState` per state of `stim.v`, one action per state of
`check.v`, the registers beside (`StimRegs`), the two stages of the SRAM read pipeline (`oe`,
`ready`), and `RunnerStep` for test_runner's enable and busy. A program is a sequence of
record kinds; the SRAM is the word addresses they occupy (six words a vector, three the
others), and a word read is its address, so that a misaligned parse shows as a record
that is none. `results` is a history of what check wrote, where, for whom, and with
which mask.

**CommandPath**, **DutIf.** The pipeline again with its 5-bit counter (`CountRange`), fixed
and triggered mode, timeout flag, and `stall_n`, the gate of the DUT's clock. The DUT's
outputs are free on every cycle. `seen` and `finished` are histories of the cycles of each
vector. The system clock side is VectorFlow's.

**TestRunner.** The register accesses of the driver are edges of the clock; between two of
them the handler or more edges may come. There is one CPU and the kernel is built without
preemption (`CONFIG_PREEMPT_NONE`), so a process in the driver is interleaved with the
interrupt handler only, and processes with each other in user mode. The SRAM is two
halves, so that another process can come between. `Kill` is `killall -9 confrd` of
`automount.sh`, which does not happen inside the driver.

**Confrd.** `pi` is `struct parserinfo`; a line of a file is its kind. Each action up to `suspend_emit`
is one call of a line parser by `parse_file`, with the EAGAIN return and the second call
(`goto again`); `Load` and `Run` are `go` and `run_trunner`; the upload goes record by record
through chunks, as `process_sram_results` does. Sizes are in bytes, and `ConfrdAssumption` keeps
the remainders of the real sizes (2 MiB and 256, modulo the record sizes), on which it
depends whether END fits and where a chunk ends. The SRAM starts full of the results of
somebody else's vectors. Failing requests, a refusing driver, failing measurements and
syntax errors are included. Where the tester is started on a program without END, the model
stops (`astray`): the cells behind it have never been written by confrd. It stops likewise
where an expectation goes beyond the end of `pi->output`, whose index only a new file resets
(`OutputFits`): what lies behind the array, the index first, is then overwritten. Nothing is claimed
of confrd from there on.

**FreqCounter.** `fc_control.sv` and `freq_measurement.sv` edge by edge, the driver and its
handler step by step, and two kinds of processes: confrd, which sets the window, the
input, enables, waits, reads and submits, and gives up at the first error; and the
`fcounter` tool, which makes any of these calls in any order and goes on after an error. Edges
of the input are abstracted to the cycles in which the edges of a pin would be counted, so
that a count of another pin, or over another window, differs. A system call starts only
once the counter has `Settled`, as the call itself lasts many cycles. Files are counted,
because `fcounter_if.c` leaks one with every call that fails.

**AdcCapture.** The pipeline of `sram_arb_sync.v` (`access`, `answer`), the sampler of `adc.v`,
the registers of `adc_if.v`; the tester as a master that reads and writes as it likes
while it runs; one confrd that loads the SRAM, runs the tester, captures and reads the
samples back, and may be killed and started. Samples are numbered within their capture, so that
a missing, repeated or older word shows in `got`.

**DriverLife.** A driver is the list of what `probe` and `init` acquire and the lists of what is
released on each way out, translated for each of the four. Each step may fail; interrupts left by an
earlier life of the module, and processes that open and close, come between any two steps.
The rules by which the kernel counts references are external. The shift timer of the LCD's driver is in
Lcd only: remove does not delete it, and what it does to a device that is gone is not modelled.

**Lcd.** A system call is a list of instructions to the display; the timer that shifts may fire between
two of them. The driver's copy of the shift time is 16 bits wide. The display (address counter
through both lines, shift) is external.

**SpiFlash.** A call of `spi.h` is a list of transfers, waits and address checks (`steps`) that ends at
the first that fails; the flash is `spi_flash_model.c`, whose BUSY falls at a timer's signal at any
later time. `main` with its options, or a client that makes any calls. Opening the file, and reading any
sector of it, may fail (`FileFails`).

**Session.** What confrd is at (`pc`), with every return path of `main` and `parse_team_dir`, every
request that fails, and `vlog`, which is entered from everywhere and sends a request itself. The team
number of a team.cfg is any number; what confrd keeps of it is its low bits (`DesignOf`), of which there
are as many as chips. `number`, what was written, is a history variable.

## The runs

| run | instance | states | what it shows |
|---|---|---|---|
| `flow` | 3-deep FIFOs, 2 synchroniser stages, 5 vectors | 63 033 | `Paired`, `ResultsInOrder`, `DrainedBeforeAct`, refinement of InOrderTest |
| `controller` | every kind of record alone and before and behind a vector, three longer programs; two runs; 2-deep FIFOs | 228 516 | `AlignedParse`, `WholeVector`, `RunComplete`, `ChangesWhenQuiescent`, `RunsEnd`, refinement of VectorFlow |
| `dut` | 2 vectors, 1 trigger mask command, counter of 3 values | 724 744 | `ExecutedInFull`, `ResultsOfTheirVectors`, `NoCommandTooEarly`, refinement of VectorFlow |
| `runner` | 2 processes, 3 loads each, 1 kill | 185 044 | `PulseHits`, `PollMeansFinished`, `BusyIsKnown`, `ResultsMine`, `WaitsEnd` |
| `fcounter` | confrd and a tool, 2 pins, 4-valued registers, windows of 0 and 2 cycles, 2 calls each, 2 files, 1 kill | 215 864 | `Handshake`, `OwnMeasurement`, `ParametersHold`, `MeasurementEnds` |
| `adc` | SRAM of 4 words, 3 captures, 2 kills | 2 562 | `SramShared`, `UploadsCapture`, `MeasurementEnds` |
| `drivers` | four drivers, interrupt 7, none, and the wrong error, 2 users, 3 loads | 3 189 | `InUseIsMapped`, `NothingHalfDone` |
| `lcd` | lines of 3 with 2 seen and a gap of 2, texts of 1 to 7, three shift times, 3 calls | 72 901 | `ScreenShowsText`, `DriverKnowsDisplay` |
| `flash` | 2 sectors of 2 pages, files of 0 to 5 pages, an error of the file at any sector, 3 calls of a client | 27 903 | `FileWritten`, `CallsWork`, `ProgramEnds` |
| `session` | 3 directories of 9 kinds of team.cfg, 4 chips, 2 files each | 38 679 | `OwnTeam`, `SessionEnds` |
| `confrd` | 2 files in a row out of 103, SRAM of 56 bytes read in chunks of 16 | 451 277 | `RunsTheFile`, `UploadedOnce`, `SmallFileReported`, `FileEnds` |
| `confrd_expectation` | one file | | `ExpectationOfItsOwn` **violated**, see below |

The type invariant of a module is a property of its own in `flow`; elsewhere it is the first
conjunct of one of the invariants named (`AlignedParse`, `ResultsOfTheirVectors`,
`RunsTheFile`, `Handshake`, `SramShared`, `CallsWork`, `InUseIsMapped`, `DriverKnowsDisplay`), or proved
(TestRunner). `RunComplete` contains that no result is masked with an older bitmask than the
one set before its vector (`MaskNotLate`); a later one of the program it allows, as the code does not wait
for the FIFOs (`stim.v:309`).

What some of them do not say. `ExecutedInFull` is exact for fixed tests; of triggered ones it has what code
and documentation agree on, the time limit and the end at the pins of the mask and no others.
`RunsTheFile` ends where `pi->output` is overrun; its conjunct `BatchFitsOutput` says that this takes more than
one batch. `OwnTeam` says that chip and result belong to one team, which is the team of team.cfg only if
there is a chip of its number. `FileWritten` is about what could be read of the file. `InUseIsMapped` is
about the interrupt handler and the processes, not the LCD's shift timer. `OwnMeasurement` is about a
confrd that is the only process ever to have used the counter. `OffsetFollowsCursor` excepts writes over
the end of the bottom line (24 for 104) and over all that is left of the top line and the gap.

Bounds. The FIFOs of the code hold 16 entries; what matters is that they fill, empty, and hold fewer
than the vectors of the program. `flow` has more vectors than entries, so that rfifo fills; the theorems
of VectorFlowProofs hold for every depth. In `controller` each kind of record comes first, after a
vector and before one, and vectors follow each other up to three times; two runs, of different programs,
show what a run leaves behind. The cycle counter wraps at 32 in the code and at 3 here: a triggered test
is given the largest value, as confrd does. The SRAM of `confrd` takes nine cells, so that files of four
vectors need a second batch, and vectors lie across the ends of chunks; `pi->output` is a quarter of the
SRAM's size, as in the code, and files overrun it in a second batch. In `fcounter` the windows are one
that never ends and one that does, registers wrap at 4, and two files are as many as the leak needs; a
second measurement follows each first. `adc` has room for a capture, a second one after a kill and a
third after that; its theorem holds for every size. `drivers` loads a module again after each way of
failing. In `lcd` the texts are shorter than what is seen, as long as it, as a line, longer than a line,
and longer than the display; 65536 is the shift time that 16 bits cut to zero. In `flash` the files end
before, at and after a sector, and behind the flash. In `session` a third directory follows each pair,
and one of the team numbers is a number past the last chip. `MaxRuns`, `MaxVectors`, `MaxCommands`,
`MaxLoads`, `MaxKills`, `MaxFiles`, `MaxCalls`, `MaxClientCalls`, `MaxCaptures`, `MaxTeams`, `MaxFds`
are the only other bounds.

Deadlock is checked in every run but three, whose programs may stop: `flash` (the
program ends, the client has made its calls), `drivers` (the module is unloaded for good) and
`lcd` (all calls are made and nothing is left to shift). The others tick their clocks on, or
stutter where confrd has ended.

Fairness, where a run needs it:

- TestController: both clocks tick, a vector leaves execute (its counter is bounded,
  `ExecutedInFull`), the PLL locks and settles.
- TestRunner, AdcCapture: the clock ticks and a run of the tester ends (`RunsEnd`); an interrupt is
  taken; the scheduler runs every process that can run.
- FreqCounter: the same, except that a process is owed its next system call only as long as the counter
  has settled, since how long a call lasts is not modelled.
- Confrd, Session: the one process goes on.
- SpiFlash: the process goes on and the timer's signal comes.

### What is violated

`ExpectationOfItsOwn`: the index into the expectations starts again with each batch, the
array does not, so that from the second batch of a file on results are sent with the
expectations of other vectors. The lines and quotations are in `PROJECT.json`.

### Read in the code while modelling

These follow from single lines and are in the models as the code has them; no run is spent on
them. The properties above say what holds nevertheless.

- `stim.v:309`: SETUP_BITMASK does not wait for the FIFOs to drain, though the comment in 308 says it
  does; results of earlier vectors may get the new mask.
- `dut_if.v:197`: with a fast `pll_clock` a vector may reach execute before the trigger mask
  sent ahead of it is loaded.
- `dut_if.v:169`: the DUT's clock is gated whenever sfifo is empty, so also while the last
  vector for the moment counts the cycles it asked for.
- `dut_if.v:307`: `(miso & mask) == miso` ends a triggered test with all outputs low, and does not while a pin
  outside the mask is high. `hardware.tex:635` and `embedded_sw.tex:527`, `532` and `555` say that it ends
  when all pins of the mask are asserted.
- `parser_cfg.c:56`: the team number is cut to five bits before anything uses it, so that team 37 is
  tested on the chip of team 5 and saved as its result, without an error. `embedded_sw.tex:457` has the
  team number saved in the database.
- `parser_vec.c:291`: expectations are copied into a fixed array without a test of its end, at an index that
  is reset for a new file only.
- `confrd.c:377`: END asks for twice the room that is kept for it, and that it did not get it
  is ignored: the tester runs past the program.
- `fcounter_dev.c:181`: a window of zero cycles never ends, and nobody measures again;
  `fcounter_if.c` leaks a file with every refused call.
- `spi.c:102`: the length of the second half of a full duplex transfer is never set, so nothing is
  received from a real flash; `spi.c:555`: the loop over the file never decreases what it
  tests, and ends only by an error, of the file or behind the flash.
- `trunner_dev.c` and its like: probe compares `platform_get_irq` with ENXIO and not
  -ENXIO; when the driver cannot be registered, class and region stay behind.
- `de2lcd_dev.c:364`: remove does not delete the shift timer set up at 191.
- `confrd.c:515`: the base URL is freed while `vlog` still points to it; `http_json.c`: an answer other
  than 200 is not logged, though `confrd.c` relies on it.
- `de2lcd_dev.c:276`: the file offset wraps to another address than the display's own.

## The proofs

`VectorFlowProofs.tla`, for every `Depth`, `SyncStages` and `MaxVectors` (positive, positive,
natural: `FlowAssumption`):

| theorem | statement |
|---|---|
| `Invariance` | `Spec => []IInv` |
| `TypeCorrect`, `PairedResults`, `NoVectorDroppedOrRepeated`, `StallFindsIdlePipeline`, `StimLosesNothing` | `Spec => []` `TypeOK`, `Paired`, `ResultsInOrder`, `StallOnlyWhenIdle` and `NothingLost` |
| `DrainedRequests` | `Spec => DrainedBeforeAct`, an action property |
| `ImplementsInOrderTest` | `Spec => InOrder`, step by step under the refinement mapping |

The argument. None of the properties is inductive: whether a write is lost depends on
what the other side has been told. `IInv` says where each vector is. It has three
parts besides the types: the contents of every FIFO are the numbers 1, 2, 3, ...; the
pointers are ordered (results written <= vectors fetched <= vectors issued, and what has been
compared is at most what was written), and a vector fetched but not yet in rfifo is in exactly one
pipeline register; each stage of a synchroniser chain lies behind the
pointer it follows and not behind the next stage. The key step is the capacity argument: stim
checks that cfifo has room, check pops cfifo and rfifo together, so issued vectors
without comparison never exceed `Depth`, and since a full rfifo then holds them all,
the pipeline is empty when it stalls (`FullMeansIdle`). The three FIFOs must be of one depth
for this; the mutant with a smaller rfifo breaks it.

`TestRunnerProofs.tla`, for every set of processes and every `MaxLoads` and `MaxKills`
(naturals, `None` is no process: `RunnerAssumption`): `TypeCorrect`, `PulseNeverLost`,
`PollTellsTheTruth`, `DriverKnowsBusy` and `OwnResults` prove `TypeOK`, `PulseHits`,
`PollMeansFinished`, `BusyIsKnown` and `ResultsMine`.

The argument. `PulseHits` alone says nothing of the edge before the pulse. `IInv` of
TestRunner says when the hardware is `Quiet` (not running, no pulse, SRAM released, no
interrupt raised or being served): whenever `tr_busy` is clear, and again when a process has set it
and is about to write the register. Two facts keep it so. From the rise of `done` until
the handler has cleared `tr_busy` the tester rests, so the interrupt is the last thing a
run does and the handler clears nothing that belongs to a later run (`ServedResting`). And the
kernel is not preemptible, so between the driver's checks and its write no other process
can start the tester (`EnablingAlone`); the interrupt handler and the clock can come
between, and the lemmas of both say what they leave alone. `ResultsMine` needs a second
invariant on top (`OwnInv`): a process past loading has its vectors in the SRAM, and one
that waits has them run already unless the tester is running or about to; leaving poll with
`tr_busy` clear then means they have been run.

`DutIfProofs.tla`, for every depth, number of synchroniser stages and counter width, and any
lists of commands and masks (`DutIfAssumption`): `ImplementsVectorFlow`, `EachExecutedInFull`,
`EachResultOfItsVector` and `CommandsInTheirPlace` prove `RefinesFlow`, `ExecutedInFull`,
`ResultsOfTheirVectors` and `NoCommandTooEarly`.

The argument. The refinement comes first; it needs only that execute waits in one of two ways, which
VectorFlow sees as one. Through it, everything VectorFlowProofs knows of the vectors holds of DutIf and
is cited (`INSTANCE VectorFlowProofs`), so that its own `IInv` is about what DutIf adds: commands
(`CommandInv`), the range of registers (`RegistersInv`), histories with an entry for every vector
(`LengthsInv`), the counter, which counts the cycles so far, of which none was the last (`ExecuteInv`,
`EndedWhenOver`, with the trigger as the code compares it), and the registers behind execute, which hold
the outcome of the vectors VectorFlow says are there (`OutcomesInv`).

`TestControllerProofs.tla`, for every set of programs in which END is the last record and only the
last, with one program that has the most vectors, any depth, and two or more synchroniser
stages (`ControllerAssumption`): `VectorsAreWhole`, `RunsAreComplete` and `ChangesAreQuiescent` prove
`WholeVector`, `RunComplete` and `ChangesWhenQuiescent`; `StimStaysAligned` proves `AlignedParse` and
`ImplementsVectorFlow` proves `RefinesFlow`.

The argument has three layers. `StimInv` is about the parse: the words asked for, stored and under way
in the read pipeline are known to the cycle in each state (`FetchInv`), because nobody takes the port
from stim while it reads; the words stored are then those of the record (`WordsInv`), and the number of
a vector is within the program (`BoundInv`). From it follows the refinement, and with it VectorFlow's
invariant. `RunInv` is about results: the addresses check writes to are those of the vector it popped
(`AddressInv`, `WrittenInv`, `MaskInv`). What made it hard is `done`: it says only that check has
*popped* its last entry. That all is written when the run ends holds because the read pointer takes
longer through the synchronisers than check takes to its first write (`LateInv`), and the second write
comes at the latest with the edge on which `busy` falls. With a single stage the argument does not go
through, and `ControllerAssumption` says so.

`ConfrdProofs.tla`, for every set of files, every size of SRAM and chunk with the remainders of the real
ones (`ConfrdAssumption`): `RunsEachLine`, `UploadsEachOnce` and
`SmallFilesReported` prove `RunsTheFile`, `UploadedOnce` and `SmallFileReported`. Parts of `IInv`:

- `LayoutInv`: what is staged is records end to end, a vector over two cells, and END only at the end.
- `RoomInv`: staged and free bytes together are the SRAM, and END fits, since the parser keeps room
  for it and for the remainder modulo the largest record.
- `OrderInv`: what was run, followed by what is staged, is what the lines passed ask for and in their
  order, also while a batch is loaded, run and read back; `SuspendInv` knows the line that waits meanwhile.
- `BatchInv`: what is read back is the batch just run, record by record, with the reader at the
  head of a record at each turn of the loop, wherever chunks end.
- `LinesInv`: lines uploaded lie before those ahead, so none is uploaded twice.
- `FirstInv`: in the first batch, the expectations and the vectors staged have the same lines in the same
  order. In later ones they do not, which is the finding of `confrd_expectation`.

`OneBatchFits`, about the conjunct `BatchFitsOutput` of `RunsTheFile`, adds `OutputInv`: in the first batch there are no more expectations than vectors staged,
of which each takes four times the room in the SRAM.

`FreqCounterProofs.tla`, for every set of processes, pins and windows and registers of any width
(`CounterAssumption`): `HandshakeHolds` and `ParametersNeverChange` prove `Handshake` and
`ParametersHold`. The driver asks only its own flag, so what has to be invariant is that the flag is as
good as asking: whenever `fc_busy` is clear the counter rests (`FreeIsResting`); an interrupt, or what
is left of serving one, finds it at rest (`ServedResting`); a process between the check and the enable
is alone in the driver, with no interrupt to come (`EnablingSettled`, `AloneInDriver`); and a pulse
finds nothing counting (`PulseAlone`). One lemma says what an edge of the clock keeps, and the lemmas of
the actions apply it. `SubmitsOwnMeasurement` proves `OwnMeasurement` from a second invariant on top,
`SubmitInv`: a confrd that waits, and is the only process ever to have used the counter, finds the
counter measuring its window and pin, or done with them, or stuck after an enable nobody heard, with a
count of zero (`OwnInv`).

`AdcCaptureProofs.tla`, for an SRAM, a power-up time, captures and kills without bound
(`CaptureAssumption`): `SramSharedWithoutLoss` proves `SramShared`. The invariant has five parts: the
sampler owns the SRAM in every state but its last, and has taken as many samples as its address
says (`SamplerInv`); the driver's flag is clear only when the sampler rests (`DriverInv`); confrd
is at a place where only one of the two masters can be at work, also after it was killed,
since it cannot load the SRAM while either has it (`TurnInv`); captures are counted where they
start (`CapturesInv`); and a reader has at most one word under way and does not let go of
the SRAM before it has come (`AnswerInv`). `UploadsItsCapture` proves `UploadsCapture` with `UploadInv`:
no word is written before the capture is on its way (`BeforeInv`), each sample passed is in the SRAM
or one edge away from it, which the handler's register read gives it before confrd wakes
(`FillInv`), and the words read so far are the first of the capture (`ReadInv`).

`LinuxProofs.tla` has the proofs about Session, DriverLife, Lcd and SpiFlash, which is why these four
name their specifications apart (`SessionSpec`, `LifeSpec`, `LcdSpec`, `FlashSpec`).

- Session, for every set of team.cfgs, directories and files and number of chips: `TestedForOwnTeam` proves
  `OwnTeam`. The place that counts is the one confrd goes on at when a message has been
  logged (`Place`); the invariant says what is known at each: the team once team.cfg is read, its
  server before a result is asked for, the result before the chip is selected, the chip
  while files are run.
- DriverLife, for every set of drivers, of interrupt numbers, finite set of processes and number of
  loads (`DriverAssumption`): `DriversInUseAreMapped` and `NothingIsHalfDone` prove `InUseIsMapped` and
  `NothingHalfDone`. Lemmas about the lists of the four drivers come first (they are in the order of
  `Rank`, each error path and each exit has what may be held then, the interrupt before the mapping);
  the invariant then says what is held by what is left of the list: `ProbeInv` (what is left
  comes after what is held of the device, and together they are the whole of it), `UndoInv` (what
  is held is left to be released, the interrupt before the mapping), `LiveInv` (all of the device
  or nothing), and `InitInv`, which includes a class left by a failed registration.
- Lcd, for every line of the display that is as long as half the address of the bottom line or
  longer and for every text, time and call (`LcdAssumption`): `TextIsShown` and `DisplayIsKnown` prove
  `ScreenShowsText` and `DriverKnowsDisplay`. `JobInv` says what is left of a system call and where it
  has brought the display; `TimerInv` what the timer does meanwhile (the shift can fire between any
  two instructions, but not while the time is being set); `TextInv` follows an undisturbed
  `de2lcd_printf` through its three calls, character by character.
- SpiFlash, for every size of sector and flash (smaller than what 24 bits address: `FlashAssumption`),
  every file and any calls: `FlashHoldsTheFile` and `FlashCallsWork` prove `FileWritten` and `CallsWork`.
  What is left of a call is `Orderly`: WEL is set right before the request that needs it, and
  only a wait comes after; so the flash is busy only when it is waited for (`FlashReady`), and
  what the call is for is either still to come or has been done (`CallInv`, `EraseInv`). In `main` the
  pages up to the one being programmed hold the file or zeros and those behind are erased, to the
  end of the sector or, with `-c`, of the flash (`ErasingInv`, `ProgrammingInv`), so that a
  request can be refused only behind the end of the flash, when every page is written, and an error of
  the file finds written what was read before (`EndInv`).

Every inductive invariant (`IInv`, `SessionInv`, `LifeInv`, `LcdInv`, `FlashInv`) was checked by TLC first.

Only model-checked, since they need fairness: `RunsEnd`, `WaitsEnd`, both `MeasurementEnds`, `FileEnds`,
`ProgramEnds` and `SessionEnds`. `NothingLost` and `StallOnlyWhenIdle` are proved, and not the subject
of a run.

## Not modelled

- Data: pin values are free, comparison results are left out, and pin multiplexers
  (`ddr_o`) with them; so are the counts and voltages of a measurement.
- Reset during a run: nothing in the tester is reset once Linux is up.
- The PLL and its reconfiguration controllers: a vendor megafunction whose behaviour is
  not in the repository. stim's side of the handshake is modelled with its answers free.
- In confrd: the syntax of a line, `frequency` (it stages nothing; the first vector line does),
  the modes that print or save a program, and the layout of JSON. The other HTTP back ends
  (`http_json2*.c`) are not built. jansson is vendored.
- In the drivers: unbinding through sysfs, and the LCD's timer at remove, neither of which the
  references of a process hold back.
- The transfers of `spi_flash` to a real flash (they go to the kernel's spidev).
- rlog, sram, sram_test, umount2: one request, pattern or system call each.
- The server: another program behind a network, with its database. Its races are among the
  hazards.
- Mounting and the start-up script; board wiring, generated IP, bus-functional models.

## Plan

Done: every module above. What could follow:

1. **Server**: the queue of designs and the file store with concurrent requests.
