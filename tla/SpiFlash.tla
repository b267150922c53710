------------------------------ MODULE SpiFlash ------------------------------
(***************************************************************************)
(* The programmer of the slave board's configuration flash (spi.c) and the  *)
(* flash model it talks to in test mode (spi_flash_model.c), whose busy bit *)
(* is cleared by a timer's signal at any later time.  A page is the unit of *)
(* data.  A function of spi.h is the sequence of transfers and checks it    *)
(* makes; it fails at the first that fails.  The process is either the      *)
(* program itself (main) or another client of spi.h that makes any calls.   *)
(*                                                                          *)
(* This is the program with -t.  Without it the transfers go to the kernel, *)
(* and spi_xfer leaves the length of the second half of a full duplex       *)
(* transfer at zero, so that nothing it asks for is ever received.          *)
(***************************************************************************)
EXTENDS Integers, Sequences

CONSTANTS
  SectorPages,   \* SECTOR_SIZE / PAGE_SIZE (16)
  Sectors,       \* sectors of the flash (128*16 in the model, 8 MB)
  AddressSectors,\* sectors an address of 24 bits can name (16 MB)
  MarginPages,   \* how many pages the check addr + len*8 takes a page for (8)
  Files,         \* pages of the file, rounded up (bound of the model)
  MaxClientCalls \* calls of a client other than main (bound of the model)

ASSUME FlashAssumption ==
  /\ {SectorPages, Sectors, AddressSectors} \subseteq Nat \ {0}
  /\ MarginPages \in Nat /\ MaxClientCalls \in Nat /\ Files \subseteq Nat
  /\ Sectors < AddressSectors /\ MarginPages <= SectorPages

VARIABLES
  mode, file,            \* the command line: "-i", "-c", "sectors" or "calls"; pages of the file
  BUSY, WEL, chip,       \* spi_flash_model.c: status bits, contents
  phase, steps, last,    \* where main is, what is left of the call, which call it is
  refused,               \* why the flash refused the last request
  flash_addr, int_off,   \* prog_flash_from_file: sector, page in the sector
  clientCalls

flashVars == <<BUSY, WEL, chip>>
argVars   == <<mode, file>>
allFlashVars == <<argVars, flashVars, phase, steps, last, refused, flash_addr, int_off, clientCalls>>

Pages == 0 .. Sectors * SectorPages - 1

Erased  == <<"erased", 0>>
Zeros   == <<"zeros", 0>>
OfFile(k) == <<"file", k>>

SectorOf(a) == a \div SectorPages
PagesOf(s)  == s * SectorPages .. (s + 1) * SectorPages - 1

-----------------------------------------------------------------------------
(* spi.c: what each function of spi.h does, step by step.                   *)

Do(cmd) == [cmd |-> cmd, a |-> 0, d |-> Erased]
At(cmd, a) == [cmd |-> cmd, a |-> a, d |-> Erased]
WaitBusy == Do("wait_busy")

write_enable  == << Do("WRITE_ENABLE") >>
write_disable == << Do("WRITE_DISABLE") >>
write_sreg    == << WaitBusy, Do("WRITE_STATUS_REGISTER") >>
chip_erase    == << WaitBusy, Do("WRITE_ENABLE"), Do("CHIP_ERASE"), WaitBusy >>
read_id(cmd)  == << WaitBusy, Do(cmd) >>
read_data(a)  == << At("check", a), WaitBusy, At("READ_DATA", a) >>

(* Mutant: the erase functions do not wait for their end.                   *)
eraser_NoWait(cmd, a) == << Do("WRITE_ENABLE"), At("check_addr", a), At(cmd, a) >>

(* sector_eraser, block_32_eraser, block_64_eraser: no wait at first.       *)
eraser(cmd, a) == << Do("WRITE_ENABLE"), At("check_addr", a), At(cmd, a), WaitBusy >>

page_program(a, d) ==
  << At("check", a), WaitBusy, Do("WRITE_ENABLE"), [cmd |-> "PAGE_PROGRAM", a |-> a, d |-> d], WaitBusy >>

-----------------------------------------------------------------------------
(* spi_flash_model.c: model_spi_xfer.                                       *)

NeedsWel == {"CHIP_ERASE", "SECTOR_ERASE", "PAGE_PROGRAM"}

(* Mutant: the sector erase takes the address for the number of a sector.   *)
erased_sector_Number(a) == a

erased_sector(a) == SectorOf(a)

(* Why the model refuses a request.  (Reading the last page whole is taken  *)
(* for reading behind the end.)                                             *)
Refusal(c) ==
  IF BUSY THEN "busy"
  ELSE IF c.cmd \in NeedsWel /\ ~WEL THEN "wel"
  ELSE IF \/ c.cmd = "SECTOR_ERASE" /\ erased_sector(c.a) >= Sectors
          \/ c.cmd = "PAGE_PROGRAM" /\ c.a \notin Pages
          \/ c.cmd = "READ_DATA" /\ c.a + 1 \notin Pages THEN "range"
  ELSE IF c.cmd = "PAGE_PROGRAM" /\ chip[c.a] # Erased THEN "not erased"
  ELSE "no"

(* Nothing ever takes WEL down but WRITE_DISABLE; block erases are unknown. *)
Serve(c) ==
  /\ WEL' = IF c.cmd = "WRITE_ENABLE" THEN TRUE ELSE IF c.cmd = "WRITE_DISABLE" THEN FALSE ELSE WEL
  /\ BUSY' = (c.cmd \in NeedsWel)
  /\ chip' = CASE c.cmd = "CHIP_ERASE"   -> [p \in Pages |-> Erased]
               [] c.cmd = "SECTOR_ERASE" ->
                    [p \in Pages |-> IF p \in PagesOf(erased_sector(c.a)) THEN Erased ELSE chip[p]]
               [] c.cmd = "PAGE_PROGRAM" -> [chip EXCEPT ![c.a] = IF @ = Erased THEN c.d ELSE @]
               [] OTHER -> chip

(* sigalrm_handler: the timer set_busy_timer has started runs out.          *)
Alarm ==
  /\ BUSY
  /\ BUSY' = FALSE
  /\ UNCHANGED <<argVars, WEL, chip, phase, steps, last, refused, flash_addr, int_off, clientCalls>>

-----------------------------------------------------------------------------
(* One step of the call under way.                                          *)

step == Head(steps)

(* The call fails; main ignores it only from test_memory.                   *)
Fail ==
  /\ steps' = <<>>
  /\ phase' = CASE phase = "test" -> "tested" [] phase = "call" -> "calls" [] OTHER -> "failed"
  /\ last' = Do("failed")

GoOn == steps' = Tail(steps) /\ UNCHANGED <<phase, last>>

(* The checks of addresses against 24 bits, made by the programmer.         *)
Check ==
  /\ steps # <<>> /\ step.cmd \in {"check", "check_addr"}
  /\ IF step.a + (IF step.cmd = "check" THEN MarginPages ELSE 0) >= AddressSectors * SectorPages
     THEN Fail ELSE GoOn
  /\ UNCHANGED <<argVars, flashVars, refused, flash_addr, int_off, clientCalls>>

(* Mutant: the wrong bit of the status register is tested.                  *)
status_busy_Wel == WEL

(* read_sreg1: the BUSY bit of the byte the model answers.                  *)
status_busy == BUSY

(* wait_busy: read status register 1 until its BUSY bit is 0.               *)
Wait ==
  /\ steps # <<>> /\ step = WaitBusy
  /\ ~status_busy
  /\ GoOn
  /\ UNCHANGED <<argVars, flashVars, refused, flash_addr, int_off, clientCalls>>

Transfer ==
  /\ steps # <<>> /\ step # WaitBusy /\ step.cmd \notin {"check", "check_addr"}
  /\ refused' = Refusal(step)
  /\ IF Refusal(step) = "no" THEN Serve(step) /\ GoOn ELSE Fail /\ UNCHANGED flashVars
  /\ UNCHANGED <<argVars, flash_addr, int_off, clientCalls>>

-----------------------------------------------------------------------------
(* main                                                                     *)

Call(from, to, op) ==
  /\ steps = <<>> /\ phase = from
  /\ phase' = to /\ steps' = op
  /\ UNCHANGED <<argVars, flashVars, last, refused, flash_addr, int_off, clientCalls>>

(* -i: print information about the flash and exit.                          *)
Info == mode = "-i" /\ Call("start", "info", read_id("READ_MDID") \o read_id("READ_JEDEC") \o read_id("READ_UID"))

TestMemory == mode \in {"-c", "sectors"} /\ Call("start", "test", read_id("READ_JEDEC"))

ChipErase == mode = "-c" /\ \E from \in {"test", "tested"} : Call(from, "erase", chip_erase)

in_sector == int_off # SectorPages

(* prog_flash_from_file is called, or has written a sector.                 *)
AtSector ==
  /\ steps = <<>>
  /\ \/ mode = "-c" /\ phase = "erase"
     \/ mode = "sectors" /\ phase \in {"test", "tested"}
     \/ phase = "pages" /\ ~in_sector

NextAddr == IF phase = "pages" THEN flash_addr + 1 ELSE flash_addr

(* The next sector is read from the file.  The loop tests the size of the   *)
(* file, which it never takes anything from.                                *)
NextSector ==
  /\ AtSector
  /\ int_off' = 0
  /\ flash_addr' = NextAddr
  /\ IF file = 0 THEN phase' = "done" /\ UNCHANGED steps
     ELSE /\ phase' = "pages"
          /\ steps' = IF mode = "-c" THEN <<>> ELSE eraser("SECTOR_ERASE", flash_addr' * SectorPages)
  /\ UNCHANGED <<argVars, flashVars, last, refused, clientCalls>>

(* realpath, stat or open fails, or the read of a sector: the program ends. *)
FileFails ==
  /\ AtSector
  /\ flash_addr' = NextAddr
  /\ phase' = "unread"
  /\ UNCHANGED <<argVars, flashVars, steps, last, refused, int_off, clientCalls>>

(* Behind the end of the file read returns nothing and the buffer is zero.  *)
NextPage ==
  /\ steps = <<>> /\ phase = "pages" /\ in_sector
  /\ LET a == flash_addr * SectorPages + int_off
     IN  steps' = page_program(a, IF a < file THEN OfFile(a) ELSE Zeros)
  /\ int_off' = int_off + 1
  /\ UNCHANGED <<argVars, flashVars, phase, last, refused, flash_addr, clientCalls>>

(* Another client of spi.h; its calls write data of their own.              *)
ClientCall ==
  /\ mode = "calls" /\ phase = "calls" /\ steps = <<>> /\ clientCalls < MaxClientCalls
  /\ clientCalls' = clientCalls + 1
  /\ phase' = "call"
  /\ \E a \in Pages \cup {Sectors * SectorPages} :
     \E call \in { [cmd |-> "page", do |-> page_program(a, <<"call", clientCalls'>>)],
                   [cmd |-> "sector", do |-> eraser("SECTOR_ERASE", a)],
                   [cmd |-> "block", do |-> eraser("BLOCK_ERASE", a)],
                   [cmd |-> "chip", do |-> chip_erase],
                   [cmd |-> "other", do |-> read_data(a)],
                   [cmd |-> "other", do |-> write_enable], [cmd |-> "other", do |-> write_disable],
                   [cmd |-> "other", do |-> write_sreg] } :
       last' = [cmd |-> call.cmd, a |-> a, d |-> <<"call", clientCalls'>>] /\ steps' = call.do
  /\ UNCHANGED <<argVars, flashVars, refused, flash_addr, int_off>>

Return ==
  /\ steps = <<>>
  /\ \/ phase = "call" /\ phase' = "calls"
     \/ phase = "info" /\ phase' = "done"
  /\ UNCHANGED <<argVars, flashVars, steps, last, refused, flash_addr, int_off, clientCalls>>

FlashInit ==
  /\ mode \in {"-i", "-c", "sectors", "calls"} /\ file \in Files
  /\ BUSY = FALSE /\ WEL = FALSE /\ chip = [p \in Pages |-> Erased]
  /\ phase = (IF mode = "calls" THEN "calls" ELSE "start")
  /\ steps = <<>> /\ last = Do("none") /\ refused = "no"
  /\ flash_addr = 0 /\ int_off = 0 /\ clientCalls = 0

Process ==
  \/ Check \/ Wait \/ Transfer
  \/ Info \/ TestMemory \/ ChipErase \/ NextSector \/ FileFails \/ NextPage \/ ClientCall \/ Return

FlashNext == Process \/ Alarm

FlashSpec == FlashInit /\ [][FlashNext]_allFlashVars

(* The process runs, and the timer runs out.                                *)
FairFlashSpec == FlashSpec /\ WF_allFlashVars(Process) /\ WF_allFlashVars(Alarm)

-----------------------------------------------------------------------------

Contents == {Erased, Zeros} \cup { <<"call", n>> : n \in 1 .. MaxClientCalls } \cup { OfFile(k) : k \in Pages }

FlashTypeOK ==
  /\ mode \in {"-i", "-c", "sectors", "calls"} /\ file \in Files
  /\ {BUSY, WEL} \subseteq BOOLEAN /\ chip \in [Pages -> Contents]
  /\ phase \in {"start", "info", "test", "tested", "erase", "pages", "unread", "done", "failed",
               "calls", "call"}
  /\ Len(steps) <= 6
  /\ refused \in {"no", "busy", "wel", "range", "not erased"}
  /\ int_off \in 0 .. SectorPages /\ flash_addr \in 0 .. Sectors
  /\ clientCalls \in 0 .. MaxClientCalls

(* How much of the file has been read and written, sector by sector; the    *)
(* loop knows no other end than an error.                                   *)
PagesRead == IF phase \in {"pages", "unread"} THEN flash_addr * SectorPages ELSE file

(***************************************************************************)
(* What has been written of the file stays in the flash: no sector erased   *)
(* later and no page written later, those behind the end of the file among  *)
(* them, destroys it.  When a file operation fails (spi.c:541-559) this is  *)
(* what was read before; when the program ends otherwise, it is the whole   *)
(* file, as far as the flash reaches.                                       *)
(***************************************************************************)
FileWritten ==
  phase \in {"pages", "unread", "done", "failed"} /\ mode # "-i" =>
    \A k \in Pages : k < file /\ k < PagesRead => chip[k] = OfFile(k)

(***************************************************************************)
(* What one call leaves behind never makes the next one fail: the flash is  *)
(* never busy with the last request when it gets one, and is always enabled *)
(* for the one that needs it, though some calls do not wait before they     *)
(* start and the model never takes WEL down by itself.                      *)
(***************************************************************************)
CallsDoNotInterfere == refused \notin {"busy", "wel"}

(***************************************************************************)
(* A call that has returned success has done what it says, and the flash    *)
(* rests.  (Not block_32_eraser and block_64_eraser: the model takes their  *)
(* commands, unknown to it, for a success.)                                 *)
(***************************************************************************)
SuccessMeansDone ==
  phase = "call" /\ steps = <<>> =>
    /\ ~BUSY
    /\ last.cmd = "page" => chip[last.a] = last.d
    /\ last.cmd = "sector" => \A p \in PagesOf(SectorOf(last.a)) : chip[p] = Erased
    /\ last.cmd = "chip" => \A p \in Pages : chip[p] = Erased

(***************************************************************************)
(* The calls of the library can be made in any order and work.              *)
(***************************************************************************)
CallsWork == FlashTypeOK /\ CallsDoNotInterfere /\ SuccessMeansDone

(***************************************************************************)
(* The program comes to an end, if only because it fails at the end of the  *)
(* flash or at an error of the file: wait_busy always sees the flash come   *)
(* to rest.                                                                 *)
(***************************************************************************)
ProgramEnds == mode # "calls" => <>(phase \in {"unread", "done", "failed"})
=============================================================================
