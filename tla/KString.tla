------------------------------ MODULE KString ------------------------------
(***************************************************************************)
(* The string library, src/klib/string.c: one call after the other on a    *)
(* memory of bytes, one turn of a loop per step.  d, s and n are the       *)
(* routine's pointers and counter, called dst, src, v1, v2, p, q, t there; *)
(* d0, s0, n0 and mem0 keep the arguments and the memory at the call.      *)
(***************************************************************************)
EXTENDS Integers

CONSTANTS
  MEM,    \* addresses are 0 .. MEM - 1
  BYTE,   \* bytes are 0 .. BYTE - 1, 256
  Fills   \* the values callers pass to memset, ints

ASSUME KStringAssumption ==
  /\ MEM \in Nat /\ BYTE \in Nat /\ BYTE >= 2
  /\ Fills \subseteq Int

Addr == 0 .. MEM - 1
Byte == 0 .. BYTE - 1

Functions == {"none", "memset", "memcmp", "memmove", "strncmp", "strncpy",
              "safestrcpy", "strlen"}

Labels == {"idle", "stosl", "stosb", "memcmp", "down", "up", "strncmp",
           "strncpy", "pad", "safestrcpy", "term", "strlen", "ret"}

VARIABLES
  mem,
  fn,              \* the routine called last
  pc,
  d, s, n,         \* pointers and counter
  c,               \* what memset fills with
  ret,             \* what memcmp, strncmp and strlen return
  mem0, d0, s0, n0 \* history: the call

args == <<mem0, d0, s0, n0, c, fn>>
vars == <<mem, pc, d, s, n, ret, args>>

Init ==
  /\ mem \in [Addr -> Byte] /\ mem0 = mem
  /\ fn = "none" /\ pc = "idle"
  /\ d = 0 /\ s = 0 /\ n = 0 /\ ret = 0 /\ c = 0
  /\ d0 = 0 /\ s0 = 0 /\ n0 = 0

-----------------------------------------------------------------------------
(* Calls, with buffers that lie in memory *)

Call(f, l, dst, src, len, cnt) ==
  /\ fn' = f /\ pc' = l
  /\ d' = dst /\ s' = src /\ n' = cnt
  /\ d0' = dst /\ s0' = src /\ n0' = len /\ mem0' = mem
  /\ UNCHANGED <<mem, ret>>

Buffer(a, len) == len >= 0 /\ a + len <= MEM

\* The bytes of the string at src that a routine limited to len may look at:
\* up to and including the first NUL.
Source(m, src, len) ==
  {a \in Addr : /\ src <= a /\ a < src + len
                /\ \A b \in Addr : src <= b /\ b < a => m[b] # 0}

\* The string at src ends, or has len bytes.
String(src, len) ==
  src + len <= MEM \/ \E a \in Addr : src <= a /\ mem[a] = 0

\* By words if address and length allow it.  n counts words or bytes.
memset(dst, fill, len) ==
  /\ Buffer(dst, len)
  /\ IF dst % 4 = 0 /\ len % 4 = 0
       THEN Call("memset", "stosl", dst, 0, len, len \div 4)
       ELSE Call("memset", "stosb", dst, 0, len, len)
  /\ c' = fill % BYTE

memcmp(v1, v2, len) ==
  /\ Buffer(v1, len) /\ Buffer(v2, len)
  /\ Call("memcmp", "memcmp", v1, v2, len, len)
  /\ UNCHANGED c

\* Slip: always upwards.
memmove_up(dst, src, len) ==
  /\ Buffer(dst, len) /\ Buffer(src, len)
  /\ Call("memmove", "up", dst, src, len, len)
  /\ UNCHANGED c

\* Downwards if the destination starts inside the source.  memcpy calls it.
memmove(dst, src, len) ==
  /\ Buffer(dst, len) /\ Buffer(src, len)
  /\ Call("memmove", IF src < dst /\ src + len > dst THEN "down" ELSE "up",
          dst, src, len, len)
  /\ UNCHANGED c

strncmp(p, q, len) ==
  /\ len >= 0 /\ String(p, len) /\ String(q, len)
  /\ Call("strncmp", "strncmp", p, q, len, len)
  /\ UNCHANGED c

\* What both copies of a string need: the copy does not reach the string it is
\* made from.  An int n < 0 is like 0.
StringCopy(dst, src, len) ==
  /\ dst + len <= MEM
  /\ String(src, len)
  /\ \A a \in Source(mem, src, len) : ~(dst <= a /\ a < dst + len)

strncpy(dst, src, len) ==
  /\ StringCopy(dst, src, len)
  /\ Call("strncpy", "strncpy", dst, src, len, len)
  /\ UNCHANGED c

safestrcpy(dst, src, len) ==
  /\ StringCopy(dst, src, len)
  /\ Call("safestrcpy", IF len <= 0 THEN "ret" ELSE "safestrcpy",
          dst, src, len, len)
  /\ UNCHANGED c

strlen(str) ==
  /\ \E a \in Addr : str <= a /\ mem[a] = 0
  /\ Call("strlen", "strlen", 0, str, 0, 0)
  /\ UNCHANGED c

-----------------------------------------------------------------------------
(* The loops.  n bytes, or words, remain. *)

Return(r) == pc' = "ret" /\ ret' = r /\ UNCHANGED <<mem, d, s, n>>

\* One turn of the loop at l while cond holds; then the routine ends.
Loop(l, cond, Body, End) ==
  /\ pc = l
  /\ IF cond THEN Body /\ UNCHANGED ret ELSE End
  /\ UNCHANGED args

Store(a, b) == mem' = [mem EXCEPT ![a] = b]

\* On to the next byte of both.
Advance == d' = d + 1 /\ s' = s + 1 /\ n' = n - 1

\* rep stosl and rep stosb.
Stos(l, w) ==
  Loop(l, n > 0,
       /\ mem' = [a \in Addr |-> IF d <= a /\ a < d + w THEN c ELSE mem[a]]
       /\ d' = d + w /\ n' = n - 1
       /\ UNCHANGED <<pc, s>>,
       Return(ret))

stosl == Stos("stosl", 4)
stosb == Stos("stosb", 1)

MemcmpTurn ==
  Loop("memcmp", n > 0 /\ mem[d] = mem[s],
       Advance /\ UNCHANGED <<mem, pc>>,
       Return(IF n > 0 THEN mem[d] - mem[s] ELSE 0))

\* d and s are the starts: the pointers come down from d + n and s + n.
MoveDown ==
  Loop("down", n > 0,
       /\ Store(d + n - 1, mem[s + n - 1])
       /\ n' = n - 1
       /\ UNCHANGED <<pc, d, s>>,
       Return(ret))

MoveUp ==
  Loop("up", n > 0,
       Store(d, mem[s]) /\ Advance /\ UNCHANGED pc,
       Return(ret))

\* Slip: the difference of the chars, which are signed.
StrncmpTurn_signed ==
  LET char(b) == IF 2 * b < BYTE THEN b ELSE b - BYTE
  IN  Loop("strncmp", n > 0 /\ mem[d] # 0 /\ mem[d] = mem[s],
           Advance /\ UNCHANGED <<mem, pc>>,
           Return(IF n = 0 THEN 0 ELSE char(mem[d]) - char(mem[s])))

StrncmpTurn ==
  Loop("strncmp", n > 0 /\ mem[d] # 0 /\ mem[d] = mem[s],
       Advance /\ UNCHANGED <<mem, pc>>,
       Return(IF n = 0 THEN 0 ELSE mem[d] - mem[s]))

StrncpyTurn ==
  Loop("strncpy", n > 0,
       /\ Store(d, mem[s]) /\ Advance
       /\ pc' = IF mem[s] = 0 THEN "pad" ELSE "strncpy",
       Return(ret))

\* The second loop: the rest is filled with NULs.
PadTurn ==
  Loop("pad", n > 0,
       Store(d, 0) /\ d' = d + 1 /\ n' = n - 1 /\ UNCHANGED <<pc, s>>,
       Return(ret))

\* Slip: n-- > 0, as in strncpy.
SafestrcpyTurn_post ==
  Loop("safestrcpy", n > 0,
       /\ Store(d, mem[s]) /\ Advance
       /\ pc' = IF mem[s] = 0 THEN "term" ELSE "safestrcpy",
       pc' = "term" /\ UNCHANGED <<mem, d, s, n, ret>>)

\* --n > 0: one byte is kept for the NUL.
SafestrcpyTurn ==
  Loop("safestrcpy", n > 1,
       /\ Store(d, mem[s]) /\ Advance
       /\ pc' = IF mem[s] = 0 THEN "term" ELSE "safestrcpy",
       pc' = "term" /\ UNCHANGED <<mem, d, s, n, ret>>)

SafestrcpyTerm ==
  Loop("term", TRUE,
       Store(d, 0) /\ pc' = "ret" /\ UNCHANGED <<d, s, n>>, FALSE)

StrlenTurn ==
  Loop("strlen", mem[s + n] # 0,
       n' = n + 1 /\ UNCHANGED <<mem, pc, d, s>>,
       Return(n))

\* The caller goes on.
Resume ==
  /\ pc = "ret"
  /\ UNCHANGED mem /\ mem0' = mem
  /\ fn' = "none" /\ pc' = "idle"
  /\ d' = 0 /\ s' = 0 /\ n' = 0 /\ ret' = 0 /\ c' = 0
  /\ d0' = 0 /\ s0' = 0 /\ n0' = 0

-----------------------------------------------------------------------------

Calls ==
  /\ pc = "idle"
  /\ \E dst \in Addr, src \in Addr, len \in -1 .. MEM :
       \/ \E fill \in Fills : src = 0 /\ memset(dst, fill, len)
       \/ memcmp(dst, src, len)
       \/ memmove(dst, src, len)
       \/ strncmp(dst, src, len)
       \/ strncpy(dst, src, len)
       \/ safestrcpy(dst, src, len)
       \/ dst = 0 /\ len = 0 /\ strlen(src)

Turn ==
  \/ stosl \/ stosb
  \/ MemcmpTurn
  \/ MoveDown \/ MoveUp
  \/ StrncmpTurn
  \/ StrncpyTurn \/ PadTurn
  \/ SafestrcpyTurn \/ SafestrcpyTerm
  \/ StrlenTurn

Next == Calls \/ Turn \/ Resume

Spec == Init /\ [][Next]_vars

-----------------------------------------------------------------------------
(* Properties *)

InDst(a) == d0 <= a /\ a < d0 + n0

\* A byte of the destination and of the string at s0 before the call.
Dst(k) == mem[d0 + k]
Src(k) == mem0[s0 + k]

\* No NUL among the first k bytes of the string.
NoNul(k) == \A j \in 0 .. k - 1 : Src(j) # 0

\* When a routine returns it has changed its destination only, and that as its
\* name promises: memmove for any overlap, memset by words or by bytes, strncpy
\* with its padding, and safestrcpy, which "is guaranteed to NUL-terminate".
WritesRight ==
  pc = "ret" =>
    /\ \A a \in Addr :
         fn \in {"memcmp", "strncmp", "strlen"} \/ ~InDst(a) =>
           mem[a] = mem0[a]
    /\ fn = "memset" => \A k \in 0 .. n0 - 1 : Dst(k) = c
    /\ fn = "memmove" => \A k \in 0 .. n0 - 1 : Dst(k) = Src(k)
    /\ fn = "strncpy" =>
         \A k \in 0 .. n0 - 1 : Dst(k) = IF NoNul(k) THEN Src(k) ELSE 0
    /\ fn = "safestrcpy" /\ n0 > 0 =>
         /\ \A k \in 0 .. n0 - 2 : NoNul(k) => Dst(k) = Src(k)
         /\ \E k \in 0 .. n0 - 1 : Dst(k) = 0 /\ NoNul(k)

\* memcmp and strncmp return the difference, as unsigned bytes, at the first
\* place where the arguments differ, 0 if there is none before n bytes or the
\* NUL; strlen returns the place of the first NUL.
ReturnsRight ==
  LET P(k) == mem0[d0 + k]
      Same(k) == \A j \in 0 .. k - 1 : P(j) = Src(j)
  IN  pc = "ret" =>
        /\ fn = "memcmp" =>
             \/ ret = 0 /\ Same(n0)
             \/ \E k \in 0 .. n0 - 1 :
                  Same(k) /\ ret = P(k) - Src(k) /\ ret # 0
        /\ fn = "strncmp" =>
             \E k \in 0 .. n0 :
               /\ Same(k) /\ NoNul(k)
               /\ \/ k = n0 /\ ret = 0
                  \/ k < n0 /\ ret = P(k) - Src(k) /\ (ret # 0 \/ Src(k) = 0)
        /\ fn = "strlen" => ret >= 0 /\ NoNul(ret) /\ Src(ret) = 0

\* The next byte is one of the string, and its place in the other buffer.
AtString == s \in Source(mem0, s0, n0) /\ d - d0 \in 0 .. n0 - 1

\* No routine reads past the NUL of a string or past n bytes of it, and none
\* reads or writes outside its buffers.
InBounds ==
  /\ pc \in {"memcmp", "up"} /\ n > 0 =>
       d - d0 \in 0 .. n0 - 1 /\ s - s0 \in 0 .. n0 - 1
  /\ pc = "down" => n <= n0
  /\ pc = "stosl" /\ n > 0 => InDst(d) /\ InDst(d + 3)
  /\ pc \in {"stosb", "pad"} /\ n > 0 => InDst(d)
  /\ pc \in {"strncmp", "strncpy"} /\ n > 0 => AtString
  /\ pc = "strncmp" /\ n > 0 => d \in Source(mem0, d0, n0)
  /\ pc = "safestrcpy" /\ n > 1 => AtString
  /\ pc = "term" => InDst(d)
  /\ pc = "strlen" => s + n \in Source(mem0, s0, MEM)
=============================================================================
