-------------------------------- MODULE Lcd --------------------------------
(***************************************************************************)
(* The character display: its driver (de2lcd_dev.c), the calls of confrd and *)
(* of the de2lcd program (de2lcd_if.c, de2lcd.c), and a process that keeps   *)
(* the device open and writes to it.  A system call is a sequence of          *)
(* instructions, each followed by a busy wait; no other process runs before  *)
(* it ends (nothing in the driver sleeps and the kernel does not preempt),   *)
(* but the timer that shifts the display fires in the middle of it.          *)
(*                                                                          *)
(* External (the display controller): an address counter that steps through  *)
(* both lines, a shift, and a busy time in which an instruction may be lost. *)
(***************************************************************************)
EXTENDS Integers, Sequences

CONSTANTS
  Line,      \* N_CHARS_EXT: 40 characters of a line
  Visible,   \* N_CHARS: 16 of them are seen
  Bottom,    \* CURSOR_BOTLEFT: the address of the bottom line (64)
  Lengths,   \* lengths of the texts (bound of the model)
  Times,     \* times between shifts that are asked for (bound of the model)
  Width,     \* 2^16: what the driver's copy of such a time can hold
  MaxCalls   \* texts and calls made (bound of the model)

ASSUME LcdAssumption ==
  /\ {Line, Visible, Bottom, Width} \subseteq Nat \ {0} /\ Visible < Line
  /\ Line <= Bottom /\ Bottom <= 2 * Line /\ Width > 150
  /\ Lengths \subseteq Nat /\ Times \subseteq Int /\ MaxCalls \in Nat

VARIABLES
  ddram, ac, shift,      \* the display: characters, address counter, shift
  de_shl_ms, timer,      \* the driver: time between shifts; the timer is pending
  job, caller,           \* instructions left of the system call, and whose it is
  script,                \* the calls confrd's de2lcd_printf has left
  fpos, overrun,         \* offset of the stream's file; it once ran over the end of a line
  text, alone,           \* text of the last de2lcd_printf; nobody else has called since it began
  calls

lcdVars == <<ddram, ac, shift, de_shl_ms, timer, job, caller, script, fpos, overrun, text, alone, calls>>

Top    == 0 .. Line - 1
Bot    == Bottom .. Bottom + Line - 1
Cells  == Top \cup Bot
Blank  == <<0, 0>>
Char(n, k) == <<n, k>>

Instr(op) == [op |-> op, arg |-> <<0, 0>>]

-----------------------------------------------------------------------------
(* The display.                                                             *)

NextCell(a) == IF a = Line - 1 THEN Bottom ELSE IF a = Bottom + Line - 1 THEN 0 ELSE a + 1

Obey(i) ==
  CASE i.op = "CLEAR" -> ddram' = [a \in Cells |-> Blank] /\ ac' = 0 /\ shift' = 0
    [] i.op = "HOME"  -> ac' = 0 /\ shift' = 0 /\ UNCHANGED ddram
    [] i.op = "SET_CURSOR" -> ac' = i.arg[1] /\ UNCHANGED <<ddram, shift>>
    [] i.op = "DATA"  -> ddram' = [ddram EXCEPT ![ac] = i.arg] /\ ac' = NextCell(ac) /\ UNCHANGED shift
    [] OTHER -> UNCHANGED <<ddram, ac, shift>>   \* CURSOR_ON, CURSOR_OFF

-----------------------------------------------------------------------------
(* The driver.                                                              *)

de2lcd_write_at(loc, n, count) ==
  << Instr("HOME"), [op |-> "SET_CURSOR", arg |-> <<loc, 0>>] >>
    \o [k \in 1 .. count |-> [op |-> "DATA", arg |-> Char(n, k)]]

de2lcd_test(n) == de2lcd_write_at(0, n, 2 * Line)   \* a text of its own

(* Mutant: the step from the top line to the bottom line is one short.      *)
NextFpos_Short(p, count) ==
  LET q == p + count
      r == IF q \in Line .. Bottom - 1 THEN q + (Bottom - Line) - 1 ELSE q
  IN  IF r >= Bottom + Line THEN r - 2 * Line ELSE r

(* de2lcd_write: the offset after a write.                                  *)
NextFpos(p, count) ==
  LET q == p + count
      r == IF q \in Line .. Bottom - 1 THEN q + (Bottom - Line) ELSE q
  IN  IF r >= Bottom + Line THEN r - 2 * Line ELSE r

WriteRefused(p, count) == p \notin Cells \/ count > 2 * Line

(* A system call starts.  Any other process than confrd spoils the text     *)
(* that is text.                                                           *)
Enters(who, instrs) ==
  /\ job = <<>>
  /\ job' = instrs /\ caller' = who
  /\ alone' = (alone /\ who = "confrd")

(* Mutant: the shifting is stopped without bringing the display back.       *)
schedule_shl_NoHome == <<>>

stop_timer == IF de_shl_ms # 0 THEN FALSE ELSE timer

schedule_shl == IF de_shl_ms # 0 THEN << Instr("HOME") >> ELSE <<>>

(* de2lcd_schedule_shl: the timer is deleted before the display goes home,  *)
(* and started after it; what the driver keeps of the time is 16 bits wide.  *)
SetShl(who, ms) ==
  /\ Enters(who, schedule_shl \o << [op |-> "SETUP", arg |-> <<ms % Width, 0>>] >>)
  /\ timer' = stop_timer

(* The next instruction of the system call.                                 *)
Instruction ==
  /\ job # <<>>
  /\ Obey(Head(job))
  /\ job' = Tail(job)
  /\ IF Head(job).op = "SETUP"
     THEN /\ de_shl_ms' = Head(job).arg[1]
          /\ timer' = (timer \/ de_shl_ms' # 0)
     ELSE UNCHANGED <<de_shl_ms, timer>>
  /\ UNCHANGED <<caller, script, fpos, overrun, text, alone, calls>>

(* de2lcd_shl_task, which starts the timer again.  In the middle of a system *)
(* call the display may be busy and lose the instruction.                   *)
Shift ==
  /\ timer
  /\ \/ shift' = (shift + 1) % Line
     \/ job # <<>> /\ UNCHANGED shift
  /\ UNCHANGED <<ddram, ac, de_shl_ms, timer, job, caller, script, fpos, overrun, text, alone, calls>>

-----------------------------------------------------------------------------
(* The processes.                                                           *)

shl_ms(n) == IF n > Visible THEN 150 ELSE 0

(* The text that is left of n characters.                                   *)
Kept(n) == IF n > 2 * Line THEN 2 * Line - 1 ELSE n

(* de2lcd_printf: clear, write, set_shl, each a call of its own.            *)
Printf ==
  /\ script = <<>> /\ calls < MaxCalls
  /\ calls' = calls + 1
  /\ \E n \in Lengths : text' = [id |-> calls', n |-> n]
  /\ script' = << "clear", "write", "shl" >> /\ alone' = TRUE
  /\ UNCHANGED <<ddram, ac, shift, de_shl_ms, timer, job, caller, fpos, overrun>>

PrintfClear ==
  /\ script # <<>> /\ Head(script) = "clear"
  /\ Enters("confrd", << Instr("CLEAR") >>)
  /\ script' = Tail(script)
  /\ UNCHANGED <<ddram, ac, shift, de_shl_ms, timer, fpos, overrun, text, calls>>

PrintfWrite ==
  /\ script # <<>> /\ Head(script) = "write"
  /\ Enters("confrd", de2lcd_write_at(0, text.id, Kept(text.n)))
  /\ script' = Tail(script)
  /\ UNCHANGED <<ddram, ac, shift, de_shl_ms, timer, fpos, overrun, text, calls>>

PrintfShl ==
  /\ script # <<>> /\ Head(script) = "shl"
  /\ SetShl("confrd", shl_ms(text.n))
  /\ script' = Tail(script)
  /\ UNCHANGED <<ddram, ac, shift, de_shl_ms, fpos, overrun, text, calls>>

(* One option of the de2lcd program, which opens the device for each.       *)
Option ==
  /\ calls < MaxCalls /\ calls' = calls + 1
  /\ \/ /\ \/ Enters("de2lcd", << Instr("CLEAR") >>)
           \/ Enters("de2lcd", << Instr("CURSOR_ON") >>)
           \/ Enters("de2lcd", << Instr("CURSOR_OFF") >>)
           \/ Enters("de2lcd", de2lcd_test(calls'))
           \/ \E n \in Lengths : ~WriteRefused(0, n) /\ Enters("de2lcd", de2lcd_write_at(0, calls', n))
        /\ UNCHANGED timer
     \/ \E ms \in Times : ms >= 0 /\ SetShl("de2lcd", ms)
  /\ UNCHANGED <<ddram, ac, shift, de_shl_ms, script, fpos, overrun, text>>

(* A process writes to the file it has open, at the file's offset.          *)
StreamWrite ==
  /\ calls < MaxCalls /\ calls' = calls + 1
  /\ \E n \in Lengths :
       /\ ~WriteRefused(fpos, n)
       /\ Enters("stream", de2lcd_write_at(fpos, calls', n))
       /\ fpos' = NextFpos(fpos, n)
       /\ overrun' = (overrun \/ fpos + n >= Bottom + Line \/ (fpos \in Top /\ fpos + n >= Bottom))
  /\ UNCHANGED <<ddram, ac, shift, de_shl_ms, timer, script, text>>

LcdInit ==
  /\ ddram = [a \in Cells |-> Blank] /\ ac = 0 /\ shift = 0
  /\ de_shl_ms = 0 /\ timer = FALSE
  /\ job = <<>> /\ caller = "confrd" /\ script = <<>>
  /\ fpos = 0 /\ overrun = FALSE
  /\ text = [id |-> 0, n |-> 0] /\ alone = FALSE /\ calls = 0

LcdNext ==
  \/ Instruction \/ Shift
  \/ Printf \/ PrintfClear \/ PrintfWrite \/ PrintfShl
  \/ Option \/ StreamWrite

LcdSpec == LcdInit /\ [][LcdNext]_lcdVars

-----------------------------------------------------------------------------

LcdTypeOK ==
  /\ ddram \in [Cells -> {Blank} \cup ((1 .. MaxCalls) \X (1 .. 2 * Line))]
  /\ ac \in Cells /\ shift \in 0 .. Line - 1
  /\ de_shl_ms \in 0 .. Width - 1 /\ timer \in BOOLEAN
  /\ caller \in {"confrd", "de2lcd", "stream"}
  /\ Len(script) <= 3 /\ fpos \in 0 .. Bottom + Line - 1 /\ overrun \in BOOLEAN
  /\ text \in [id : 0 .. MaxCalls, n : Lengths \cup {0}] /\ alone \in BOOLEAN
  /\ calls \in 0 .. MaxCalls

(***************************************************************************)
(* When de2lcd_printf has returned and nobody else has called since it       *)
(* began, the display holds the text and nothing else, whatever was shown    *)
(* and shifted before; and a text that fits stands still where it is seen,   *)
(* while a longer one is being shifted.                                     *)
(***************************************************************************)
CellOf(k) == IF k <= Line THEN k - 1 ELSE Bottom + (k - Line - 1)

ScreenShowsText ==
  job = <<>> /\ script = <<>> /\ alone =>
    /\ \A k \in 1 .. 2 * Line :
         ddram[CellOf(k)] = IF k <= Kept(text.n) THEN Char(text.id, k) ELSE Blank
    /\ text.n <= Visible => shift = 0 /\ ~timer
    /\ text.n > Visible => timer

(***************************************************************************)
(* Between system calls the timer is pending exactly when the driver thinks  *)
(* it shifts, and it is never set up while it is pending: what decides       *)
(* whether to delete the timer is the time kept, not the timer.              *)
(***************************************************************************)
TimerKnown ==
  /\ job = <<>> => (timer <=> de_shl_ms # 0)
  /\ job # <<>> /\ Head(job).op = "SETUP" => ~timer

(***************************************************************************)
(* As long as no write runs over the end of the bottom line, or over all of  *)
(* what is left of the top line and of the gap behind it, the offset of the   *)
(* file is where the display itself would write next, so that a text written *)
(* in pieces is shown in one.                                                *)
(***************************************************************************)
OffsetFollowsCursor ==
  job = <<>> /\ caller = "stream" /\ ~overrun => ac = fpos

(***************************************************************************)
(* What the driver believes of the display between calls is what the        *)
(* display and the timer do.                                                *)
(***************************************************************************)
DriverKnowsDisplay == LcdTypeOK /\ TimerKnown /\ OffsetFollowsCursor
=============================================================================
