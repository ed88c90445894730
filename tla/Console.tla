------------------------------ MODULE Console -------------------------------
(***************************************************************************)
(* cprintf (src/kernel/console.c) onto the serial port (src/kernel/uart.c) *)
(* and the screen of Cga.  A call is a format, a sequence of characters,   *)
(* and its arguments.  One thread at a time prints and no interrupt        *)
(* handler does, so a step is a turn of vcprintf's loop or one consputc.   *)
(* What panic itself prints is left out.                                   *)
(***************************************************************************)
EXTENDS Cga, SequencesExt

CONSTANTS
  W,        \* bits of isize, a multiple of 4
  Calls,    \* the calls threads make, [fmt |-> ..., args |-> ...]
  MaxCalls  \* bound: calls in a behaviour

digits == <<"0", "1", "2", "3", "4", "5", "6", "7", "8", "9", "a", "b", "c",
            "d", "e", "f">>

DigitVal(c) == CHOOSE v \in 0 .. 15 : digits[v + 1] = c

isdigit(c) == \E v \in 0 .. 9 : c = digits[v + 1]

BACK == "back"  \* the control character

NULLSTR == <<NUL>>  \* stands for a null char *

VARIABLES
  call, i, ap,    \* vcprintf: the call, its index i, the arguments left
  text, shown,    \* what the current directive prints, how much of it is out
  conv,           \* history: the current directive [kind, width, arg]
  uart, serial,   \* is there a serial port; what has been sent to it
  panicked, calls

convars == <<call, i, ap, text, shown, conv, uart, serial, panicked, calls>>

-----------------------------------------------------------------------------
(* printint, up to its last loop: the text it prints, or an ASSERT fails.  *)

\* x in base, least significant digit first: the do loop.
RECURSIVE DigitsUp(_, _)
DigitsUp(x, base) ==
  <<digits[(x % base) + 1]>> \o
    IF x \div base = 0 THEN <<>> ELSE DigitsUp(x \div base, base)

Padding(n, prefix) == [k \in 1 .. n |-> prefix]

\* Slip: a padded negative number loses its sign.
printint_no_sign(xx, base, sign, len, prefix) ==
  LET neg == sign = 1 /\ xx < 0
      up  == DigitsUp((IF neg THEN -xx ELSE xx) % (2 ^ W), base)
      buf == IF Len(up) < len
               THEN up \o Padding(len - Len(up), prefix)
               ELSE IF neg THEN Append(up, "-") ELSE up
  IN  Reverse(buf)

printint(xx, base, sign, len, prefix) ==
  LET neg == sign = 1 /\ xx < 0
      up  == DigitsUp((IF neg THEN -xx ELSE xx) % (2 ^ W), base)
      buf == IF Len(up) < len
               THEN LET padded == up \o Padding(len - Len(up), prefix)
                    IN  IF neg THEN [padded EXCEPT ![len] = "-"] ELSE padded
               ELSE IF neg THEN Append(up, "-") ELSE up
  IN  Reverse(buf)

\* The digits of the width from position k of the format on: their value, and
\* the position after them.
RECURSIVE Width(_, _, _)
Width(fmt, k, w) ==
  IF k <= Len(fmt) /\ isdigit(fmt[k])
    THEN Width(fmt, k + 1, w * 10 + DigitVal(fmt[k]))
    ELSE [width |-> w, at |-> k]

\* The text of directive c with the argument a.
Directive(c, width, a) ==
  CASE c \in {"d", "l"} -> printint(a, 10, 1, width, BLANK)
    [] c \in {"x", "y"} -> printint(a, 16, 0, width, BLANK)
    [] c = "p" -> printint(a, 16, 0, W \div 4, "0")
    [] c = "s" -> IF a = NULLSTR THEN <<"(", "n", "u", "l", "l", ")">> ELSE a
    [] c = "%" -> <<"%">>
    [] OTHER -> <<"%", c>>

-----------------------------------------------------------------------------
(* Output *)

\* uartputc: without a port nothing is sent.
uartputc(s) == serial' = IF uart = 1 THEN serial \o s ELSE serial

\* After a panic consputc loops for ever.
consputc(c) ==
  /\ panicked = 0
  /\ IF c = BACKSPACE THEN uartputc(<<BACK, BLANK, BACK>>) ELSE uartputc(<<c>>)
  /\ cgaputc(c)

Idle == [fmt |-> <<>>, args |-> <<>>]

Init ==
  /\ CgaInit
  /\ uart \in {0, 1}
  /\ call = Idle /\ i = 1 /\ ap = <<>>
  /\ text = <<>> /\ shown = 0
  /\ conv = [kind |-> "none", width |-> 0, arg |-> 0]
  /\ serial = <<>>
  /\ panicked = 0 /\ calls = 0

InLoop == call # Idle /\ text = <<>> /\ panicked = 0

cprintf(c) ==
  /\ call = Idle /\ panicked = 0
  /\ calls < MaxCalls
  /\ calls' = calls + 1
  /\ call' = c /\ i' = 1 /\ ap' = c.args
  /\ UNCHANGED <<text, shown, conv, uart, serial, panicked, cgavars>>

\* The terminating NUL at the head of the loop.
Finish ==
  /\ InLoop /\ i = Len(call.fmt) + 1
  /\ call' = Idle
  /\ UNCHANGED <<i, ap, text, shown, conv, uart, serial, panicked, calls,
                 cgavars>>

Literal ==
  /\ InLoop /\ i <= Len(call.fmt) /\ call.fmt[i] # "%"
  /\ consputc(call.fmt[i])
  /\ i' = i + 1
  /\ UNCHANGED <<call, ap, text, shown, conv, uart, panicked, calls>>

\* The arguments each directive takes.
Takes(c) == IF c \in {"d", "l", "x", "y", "p", "s"} THEN 1 ELSE 0

\* The switch on the character at position k, after the width w.
Switch(k, w) ==
  LET c == IF k <= Len(call.fmt) THEN call.fmt[k] ELSE NUL
      a == IF Takes(c) = 1 THEN Head(ap) ELSE 0
  IN  /\ text' = Directive(c, w, a)
      /\ conv' = [kind |-> c, width |-> w, arg |-> a]
      /\ ap' = IF Takes(c) = 1 THEN Tail(ap) ELSE ap
      /\ i' = k + 1
      /\ UNCHANGED <<call, panicked>>

\* Slip: any width is accepted.
Convert_no_assert(k, w) == Switch(k, w)

\* printint starts with ASSERT(len <= 33).
Convert(k, w) ==
  IF w > 33 /\ call.fmt[k] \in {"d", "l", "x", "y"}
    THEN panicked' = 1 /\ UNCHANGED <<call, i, ap, text, conv>>
    ELSE Switch(k, w)

\* Slip: a format that ends within a directive is not noticed.
Percent_no_break ==
  /\ InLoop /\ i <= Len(call.fmt) /\ call.fmt[i] = "%"
  /\ LET w == Width(call.fmt, i + 1, 0) IN Switch(w.at, w.width)
  /\ UNCHANGED <<shown, uart, serial, calls, cgavars>>

\* A directive: the width, the break at the NUL, the switch.
Percent ==
  /\ InLoop /\ i <= Len(call.fmt) /\ call.fmt[i] = "%"
  /\ LET w == Width(call.fmt, i + 1, 0)
     IN  IF w.at > Len(call.fmt)
           THEN call' = Idle /\ UNCHANGED <<i, ap, text, conv, panicked>>
           ELSE Convert(w.at, w.width)
  /\ UNCHANGED <<shown, uart, serial, calls, cgavars>>

\* One character of the directive's text.
Emit ==
  /\ text # <<>>
  /\ consputc(text[shown + 1])
  /\ IF shown + 1 = Len(text)
       THEN text' = <<>> /\ shown' = 0
       ELSE shown' = shown + 1 /\ UNCHANGED text
  /\ UNCHANGED <<call, i, ap, conv, uart, panicked, calls>>

Next ==
  \/ \E c \in Calls : cprintf(c)
  \/ Finish
  \/ Literal
  \/ Percent
  \/ Emit

Spec == Init /\ [][Next]_<<convars, cgavars>>

-----------------------------------------------------------------------------
(* Properties *)

TypeOK ==
  /\ call \in Calls \cup {Idle}
  /\ i \in Nat
  /\ shown \in 0 .. Len(text)
  /\ Len(text) <= 34  \* buf of printint, and the longest string printed
  /\ {uart, panicked} \subseteq {0, 1}
  /\ calls \in 0 .. MaxCalls

\* vcprintf never reads a format past its NUL, also when the format ends
\* within a directive.
IndexInFormat == call # Idle => i <= Len(call.fmt) + 1

\* What printint prints reads back as the number it was given, at the width
\* that was asked for or else as short as can be: for %d with its sign, for
\* %x and %p as the bits of it.
ReadsBack ==
  LET isnum(c) == c \notin {BLANK, "-"}
      number == SelectSeq(text, isnum)
      base == IF conv.kind \in {"d", "l"} THEN 10 ELSE 16
      horner(acc, c) == acc * base + DigitVal(c)
      value == FoldLeft(horner, 0, number)
      neg == text[1] = "-"
  IN  text # <<>> /\ conv.kind \in {"d", "l", "x", "y", "p"} =>
        /\ IF base = 10
             THEN conv.arg = IF neg THEN -value ELSE value
             ELSE value = conv.arg % (2 ^ W) /\ ~neg
        /\ IF conv.kind = "p"
             THEN Len(text) = W \div 4
             ELSE /\ number[1] = "0" => Len(number) = 1
                  /\ LET n == Len(number) + IF neg THEN 1 ELSE 0
                     IN  Len(text) = IF conv.width > n THEN conv.width ELSE n
=============================================================================
