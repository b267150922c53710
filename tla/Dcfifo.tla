------------------------------- MODULE Dcfifo -------------------------------
(***************************************************************************)
(* The dual-clock FIFO the tester is built from: the Altera dcfifo          *)
(* megafunction as src/hdl/dcfifo_custom.v instantiates it (no show-ahead,  *)
(* overflow and underflow checking on, a synchroniser of a few flip-flops   *)
(* on each pointer that crosses a clock domain).                            *)
(*                                                                          *)
(* A FIFO is its write history `log' and its read count `rd': what it       *)
(* holds is log[rd + 1 .. Len(log)].  Each side knows its own pointer at    *)
(* once, and the other side's pointer as it was some ticks of its own clock *)
(* ago.                                                                     *)
(***************************************************************************)
EXTENDS Integers, Sequences

(* Status flags.  `Seen' arguments are the other side's pointer as it       *)
(* comes out of the local synchroniser.                                     *)
RdEmpty(wrSeen, rd)        == wrSeen = rd
WrEmpty(wr, rdSeen)        == wr = rdSeen
WrFull(wr, rdSeen, depth)  == wr - rdSeen >= depth

(* overflow_checking ON: a write request while the flag says full is        *)
(* ignored.                                                                 *)
Write(log, v, full) == IF full THEN log ELSE Append(log, v)

(* underflow_checking ON: a read request while the flag says empty is       *)
(* ignored.                                                                 *)
Read(rd, empty) == IF empty THEN rd ELSE rd + 1

(* The output register q: the entry read last, or `none' before any read.   *)
Q(log, rd, none) == IF rd = 0 THEN none ELSE log[rd]

(***************************************************************************)
(* What the first flip-flop of a synchroniser may capture of a Gray-coded   *)
(* pointer: the pointer of now, or, when the writing clock's last edge was  *)
(* too close, the pointer `prev' of before that edge.  Two pointers that    *)
(* move on the same edge may so be captured one new and one old; a capture  *)
(* never goes back behind the one `held'.                                   *)
(***************************************************************************)
Sampled(prev, now, held) == { v \in prev .. now : v >= held }

(* One tick of a synchroniser chain.                                        *)
Shift(chain, captured) ==
  [k \in DOMAIN chain |-> IF k = 1 THEN captured ELSE chain[k - 1]]
=============================================================================
