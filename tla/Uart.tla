-------------------------------- MODULE Uart --------------------------------
(***************************************************************************)
(* The serial port (src/kernel/uart.c) while uartearlyinit announces it:   *)
(* the driver polls the line status before each character, a bounded       *)
(* number of times, and the transmitter empties its holding register at    *)
(* its own pace, or never.  The characters of the announcement are         *)
(* 1 .. ANNOUNCE.                                                          *)
(***************************************************************************)
EXTENDS Naturals, Sequences

CONSTANTS
  ANNOUNCE,  \* characters of the announcement
  POLLS      \* polls before uartputc gives up, 128 in the code

ASSUME UartAssumption == ANNOUNCE \in Nat \ {0} /\ POLLS \in Nat \ {0}

VARIABLES
  uart, tx,   \* is there a port; where the driver is
  p, i,       \* uartearlyinit's next character; uartputc's count of polls
  thr, line,  \* the holding register, 0 if empty; what the line has seen
  lost        \* history: characters sent although the port was not ready

uartvars == <<uart, tx, p, i, thr, line, lost>>

UartInit ==
  /\ uart = 0 /\ tx = "off"
  /\ p = 1 /\ i = 0
  /\ thr = 0 /\ line = <<>>
  /\ lost = 0

\* The registers, the test for a port (its status reads 0xFF without one),
\* and the announcement.
uartearlyinit(port) ==
  /\ uart' = IF port = "none" THEN 0 ELSE 1
  /\ tx' = IF port = "none" THEN "done" ELSE "putc"
  /\ UNCHANGED <<p, i, thr, line, lost>>

\* uartputc's loop finds the holding register full.
Poll ==
  /\ tx = "putc" /\ thr # 0 /\ i < POLLS
  /\ i' = i + 1
  /\ UNCHANGED <<uart, tx, p, thr, line, lost>>

\* outb of the character, over one that has not left yet if there is one.
Send ==
  /\ lost' = IF thr # 0 /\ i = POLLS THEN lost + 1 ELSE lost
  /\ thr' = p
  /\ p' = p + 1
  /\ i' = 0
  /\ tx' = IF p = ANNOUNCE THEN "done" ELSE "putc"
  /\ UNCHANGED <<uart, line>>

\* Slip: the loop goes on until the port is ready.
Putc_unbounded == tx = "putc" /\ thr = 0 /\ Send

\* Slip: the sense of the status bit is inverted.
Putc_busy == tx = "putc" /\ (thr # 0 \/ p = 1 \/ i = POLLS) /\ Send

Putc == tx = "putc" /\ (thr = 0 \/ i = POLLS) /\ Send

\* The transmitter (external); a stuck one never gets rid of a character.
Transmit(port) ==
  /\ port = "ok" /\ thr # 0
  /\ line' = Append(line, thr)
  /\ thr' = 0
  /\ UNCHANGED <<uart, tx, p, i, lost>>

-----------------------------------------------------------------------------
(* Properties *)

UartTypeOK ==
  /\ uart \in {0, 1} /\ tx \in {"off", "putc", "done"}
  /\ p \in 1 .. ANNOUNCE + 1 /\ i \in 0 .. POLLS
  /\ thr \in 0 .. ANNOUNCE /\ lost \in 0 .. ANNOUNCE

\* What uartputc is given reaches the line in order and once, save the
\* characters it overwrites after it has polled in vain.
LineInOrder ==
  LET out == line \o IF thr = 0 THEN <<>> ELSE <<thr>>
  IN  /\ \A j, k \in DOMAIN out : j < k => out[j] < out[k]
      /\ Len(out) + lost = p - 1
=============================================================================
