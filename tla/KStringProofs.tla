--------------------------- MODULE KStringProofs ---------------------------
(***************************************************************************)
(* Proofs about KString for memories and bytes of any size.  IInv holds,   *)
(* for every loop, what the loop has done so far; each routine's lemma     *)
(* shows that one turn keeps it and that the last turn leaves the result.  *)
(***************************************************************************)
EXTENDS KString, TLAPS

\* The call's arguments, as all routines get them.
ArgsOK ==
  /\ mem \in [Addr -> Byte] /\ mem0 \in [Addr -> Byte]
  /\ d0 \in Nat /\ s0 \in Nat /\ n0 \in Int
  /\ d \in Int /\ s \in Int /\ n \in Int /\ ret \in Int
  /\ c \in Byte
  /\ fn \in Functions /\ pc \in Labels

\* The bytes of the destination before d are filled, the others untouched.
StosInv(w) ==
  /\ fn = "memset"
  /\ n >= 0 /\ d >= d0 /\ d + w * n = d0 + n0 /\ d0 + n0 <= MEM
  /\ \A a \in Addr : mem[a] = IF d0 <= a /\ a < d THEN c ELSE mem0[a]

\* Both pointers are n0 - n bytes on.
InStep == d = d0 + n0 - n /\ s = s0 + n0 - n /\ n <= n0

Untouched == \A a \in Addr : mem[a] = mem0[a]

\* The destination below d is copied, the rest is as it was.
CopiedUp ==
  \A a \in Addr :
    mem[a] = IF d0 <= a /\ a < d THEN mem0[s0 + (a - d0)] ELSE mem0[a]

SameUpTo(k) == \A j \in 0 .. k - 1 : mem0[d0 + j] = mem0[s0 + j]

MemcmpInv ==
  /\ fn = "memcmp"
  /\ InStep /\ n >= 0 /\ d0 + n0 <= MEM /\ s0 + n0 <= MEM
  /\ Untouched /\ SameUpTo(n0 - n)

UpInv ==
  /\ fn = "memmove"
  /\ InStep /\ n >= 0 /\ d0 + n0 <= MEM /\ s0 + n0 <= MEM
  /\ d0 <= s0 \/ s0 + n0 <= d0
  /\ CopiedUp

DownInv ==
  /\ fn = "memmove"
  /\ d = d0 /\ s = s0 /\ n >= 0 /\ n <= n0
  /\ d0 + n0 <= MEM /\ s0 + n0 <= MEM /\ s0 < d0
  /\ \A a \in Addr :
       mem[a] = IF d0 + n <= a /\ a < d0 + n0 THEN mem0[s0 + (a - d0)]
                                              ELSE mem0[a]

\* A string that ends, or has n0 bytes.
StringAt(a0) == a0 + n0 <= MEM \/ \E a \in Addr : a0 <= a /\ mem0[a] = 0

StrncmpInv ==
  /\ fn = "strncmp"
  /\ InStep /\ n >= 0 /\ StringAt(d0) /\ StringAt(s0)
  /\ Untouched /\ SameUpTo(n0 - n) /\ NoNul(n0 - n)

\* The string is not in the destination.
Apart == \A a \in Source(mem0, s0, n0) : ~InDst(a)

StrncpyInv ==
  /\ fn = "strncpy"
  /\ InStep /\ (n >= 0 \/ n = n0) /\ d0 + n0 <= MEM /\ StringAt(s0) /\ Apart
  /\ NoNul(n0 - n) /\ CopiedUp

\* The string ended at place z: NULs from there to d.
PadInv ==
  /\ fn = "strncpy"
  /\ n >= 0 /\ d = d0 + n0 - n /\ n <= n0 /\ d0 + n0 <= MEM
  /\ \E z \in 0 .. n0 - n - 1 :
       /\ NoNul(z) /\ Src(z) = 0
       /\ \A a \in Addr :
            mem[a] = IF d0 <= a /\ a < d
                       THEN IF a < d0 + z THEN mem0[s0 + (a - d0)] ELSE 0
                       ELSE mem0[a]

SafeInv ==
  /\ fn = "safestrcpy"
  /\ InStep /\ n >= 1 /\ d0 + n0 <= MEM /\ StringAt(s0) /\ Apart
  /\ NoNul(n0 - n) /\ CopiedUp

\* Before the last NUL is stored: room for it, and all is copied or the string
\* ended just before.
TermInv ==
  /\ fn = "safestrcpy"
  /\ d0 <= d /\ d < d0 + n0 /\ d0 + n0 <= MEM
  /\ CopiedUp
  /\ \/ d = d0 + n0 - 1 /\ NoNul(d - d0)
     \/ d > d0 /\ NoNul(d - d0 - 1) /\ Src(d - d0 - 1) = 0

StrlenInv ==
  /\ fn = "strlen"
  /\ s = s0 /\ n >= 0
  /\ \E a \in Addr : s0 <= a /\ mem0[a] = 0
  /\ Untouched /\ NoNul(n)

LoopInv ==
  /\ pc = "stosl" => StosInv(4)
  /\ pc = "stosb" => StosInv(1)
  /\ pc = "memcmp" => MemcmpInv
  /\ pc = "up" => UpInv
  /\ pc = "down" => DownInv
  /\ pc = "strncmp" => StrncmpInv
  /\ pc = "strncpy" => StrncpyInv
  /\ pc = "pad" => PadInv
  /\ pc = "safestrcpy" => SafeInv
  /\ pc = "term" => TermInv
  /\ pc = "strlen" => StrlenInv

IInv == ArgsOK /\ LoopInv /\ WritesRight /\ ReturnsRight

-----------------------------------------------------------------------------
(* memmove *)

\* One byte upwards: the byte read has not been overwritten.
LEMMA MoveUpIInv == ASSUME IInv, MoveUp PROVE IInv'
<1>0. /\ pc = "up" /\ ArgsOK /\ UpInv
      /\ UNCHANGED <<mem0, d0, s0, n0, c, fn>>
  BY DEF MoveUp, Loop, IInv, LoopInv, args
<1>1. CASE n > 0
  <2>1. /\ pc' = "up" /\ d' = d + 1 /\ s' = s + 1 /\ n' = n - 1
        /\ mem' = [mem EXCEPT ![d] = mem[s]] /\ ret' = ret
    BY <1>0, <1>1 DEF MoveUp, Loop, Store, Advance
  <2>2. d \in Addr /\ s \in Addr /\ mem[s] = mem0[s0 + (d - d0)]
    BY <1>0, <1>1, KStringAssumption DEF UpInv, InStep, CopiedUp, ArgsOK, Addr
  <2>3. ArgsOK'
    BY <1>0, <2>1, <2>2 DEF ArgsOK, Labels
  <2>4. CopiedUp'
    BY <1>0, <2>1, <2>2, KStringAssumption
       DEF UpInv, CopiedUp, ArgsOK, Addr, InStep
  <2>5. UpInv'
    BY <1>0, <1>1, <2>1, <2>4 DEF UpInv, InStep, ArgsOK
  <2> QED BY <2>1, <2>3, <2>5 DEF IInv, LoopInv, WritesRight, ReturnsRight
<1>2. CASE ~(n > 0)
  <2>1. pc' = "ret" /\ UNCHANGED <<mem, d, s, n, ret>>
    BY <1>0, <1>2 DEF MoveUp, Loop, Return
  <2>2. ArgsOK' BY <1>0, <2>1 DEF ArgsOK, Labels
  <2>3. n = 0 /\ d = d0 + n0 BY <1>0, <1>2 DEF UpInv, InStep, ArgsOK
  <2>4. WritesRight'
    BY <1>0, <2>1, <2>3, KStringAssumption
    DEF WritesRight, UpInv, CopiedUp, InDst, Dst, Src, ArgsOK, Addr
  <2>5. ReturnsRight' BY <1>0, <2>1 DEF ReturnsRight, UpInv
  <2> QED BY <2>1, <2>2, <2>4, <2>5 DEF IInv, LoopInv
<1> QED BY <1>1, <1>2

\* One byte downwards.
LEMMA MoveDownIInv == ASSUME IInv, MoveDown PROVE IInv'
<1>0. /\ pc = "down" /\ ArgsOK /\ DownInv
      /\ UNCHANGED <<mem0, d0, s0, n0, c, fn>>
  BY DEF MoveDown, Loop, IInv, LoopInv, args
<1>1. CASE n > 0
  <2>1. /\ pc' = "down" /\ n' = n - 1 /\ UNCHANGED <<d, s, ret>>
        /\ mem' = [mem EXCEPT ![d + n - 1] = mem[s + n - 1]]
    BY <1>0, <1>1 DEF MoveDown, Loop, Store
  <2>2. /\ d + n - 1 \in Addr /\ s + n - 1 \in Addr
        /\ mem[s + n - 1] = mem0[s0 + n - 1]
    BY <1>0, <1>1, KStringAssumption DEF DownInv, ArgsOK, Addr
  <2>3. ArgsOK'
    BY <1>0, <2>1, <2>2 DEF ArgsOK, Labels
  <2>4. DownInv'
    BY <1>0, <1>1, <2>1, <2>2, KStringAssumption DEF DownInv, ArgsOK, Addr
  <2> QED BY <2>1, <2>3, <2>4 DEF IInv, LoopInv, WritesRight, ReturnsRight
<1>2. CASE ~(n > 0)
  <2>1. pc' = "ret" /\ UNCHANGED <<mem, d, s, n, ret>>
    BY <1>0, <1>2 DEF MoveDown, Loop, Return
  <2>2. ArgsOK' BY <1>0, <2>1 DEF ArgsOK, Labels
  <2>3. n = 0 BY <1>0, <1>2 DEF DownInv, ArgsOK
  <2>4. WritesRight'
    BY <1>0, <2>1, <2>3, KStringAssumption
    DEF WritesRight, DownInv, InDst, Dst, Src, ArgsOK, Addr
  <2>5. ReturnsRight' BY <1>0, <2>1 DEF ReturnsRight, DownInv
  <2> QED BY <2>1, <2>2, <2>4, <2>5 DEF IInv, LoopInv
<1> QED BY <1>1, <1>2

-----------------------------------------------------------------------------
(* memset *)

\* w bytes more.
LEMMA StosIInv ==
  ASSUME IInv, NEW l, NEW w \in {1, 4}, Stos(l, w),
         \/ l = "stosl" /\ w = 4
         \/ l = "stosb" /\ w = 1
  PROVE  IInv'
<1>0. /\ pc = l /\ ArgsOK /\ StosInv(w)
      /\ UNCHANGED <<mem0, d0, s0, n0, c, fn>>
  BY DEF Stos, Loop, IInv, LoopInv, args
<1>1. CASE n > 0
  <2>1. /\ pc' = l /\ d' = d + w /\ n' = n - 1 /\ UNCHANGED <<s, ret>>
        /\ mem' = [a \in Addr |-> IF d <= a /\ a < d + w THEN c ELSE mem[a]]
    BY <1>0, <1>1 DEF Stos, Loop
  <2>2. ArgsOK'
    BY <1>0, <2>1 DEF ArgsOK, Labels
  <2>3. \A a \in Addr : mem'[a] = IF d0 <= a /\ a < d' THEN c ELSE mem0[a]
    BY <1>0, <2>1, KStringAssumption DEF StosInv, ArgsOK, Addr
  <2>4. StosInv(w)'
    BY <1>0, <1>1, <2>1, <2>3 DEF StosInv, ArgsOK
  <2> QED BY <2>1, <2>2, <2>4 DEF IInv, LoopInv, WritesRight, ReturnsRight
<1>2. CASE ~(n > 0)
  <2>1. pc' = "ret" /\ UNCHANGED <<mem, d, s, n, ret>>
    BY <1>0, <1>2 DEF Stos, Loop, Return
  <2>2. ArgsOK' BY <1>0, <2>1 DEF ArgsOK, Labels
  <2>3. d = d0 + n0 BY <1>0, <1>2 DEF StosInv, ArgsOK
  <2>4. WritesRight'
    BY <1>0, <2>1, <2>3, KStringAssumption
    DEF WritesRight, StosInv, InDst, Dst, ArgsOK, Addr
  <2>5. ReturnsRight' BY <1>0, <2>1 DEF ReturnsRight, StosInv
  <2> QED BY <2>1, <2>2, <2>4, <2>5 DEF IInv, LoopInv
<1> QED BY <1>1, <1>2

-----------------------------------------------------------------------------
(* memcmp, strncmp and strlen, which write nothing *)

LEMMA MemcmpIInv == ASSUME IInv, MemcmpTurn PROVE IInv'
<1>0. /\ pc = "memcmp" /\ ArgsOK /\ MemcmpInv
      /\ UNCHANGED <<mem0, d0, s0, n0, c, fn>>
  BY DEF MemcmpTurn, Loop, IInv, LoopInv, args
<1>1. n > 0 => /\ d \in Addr /\ s \in Addr
               /\ mem[d] = mem0[d0 + (n0 - n)] /\ mem[s] = mem0[s0 + (n0 - n)]
  BY <1>0, KStringAssumption DEF MemcmpInv, InStep, Untouched, ArgsOK, Addr
<1>2. CASE n > 0 /\ mem[d] = mem[s]
  <2>1. /\ pc' = "memcmp" /\ d' = d + 1 /\ s' = s + 1 /\ n' = n - 1
        /\ UNCHANGED <<mem, ret>>
    BY <1>0, <1>2 DEF MemcmpTurn, Loop, Advance
  <2>2. ArgsOK' BY <1>0, <2>1 DEF ArgsOK, Labels
  <2>3. SameUpTo(n0 - n)'
    BY <1>0, <1>1, <1>2, <2>1 DEF MemcmpInv, SameUpTo, InStep, ArgsOK
  <2>4. MemcmpInv'
    BY <1>0, <1>2, <2>1, <2>3 DEF MemcmpInv, InStep, Untouched, ArgsOK
  <2> QED BY <2>1, <2>2, <2>4 DEF IInv, LoopInv, WritesRight, ReturnsRight
<1>3. CASE ~(n > 0 /\ mem[d] = mem[s])
  <2>1. /\ pc' = "ret" /\ UNCHANGED <<mem, d, s, n>>
        /\ ret' = IF n > 0 THEN mem[d] - mem[s] ELSE 0
    BY <1>0, <1>3 DEF MemcmpTurn, Loop, Return
  <2>2. n > 0 => mem[d] \in Int /\ mem[s] \in Int
    BY <1>0, <1>1, KStringAssumption DEF ArgsOK, Byte
  <2>3. ArgsOK' BY <1>0, <2>1, <2>2 DEF ArgsOK, Labels
  <2>4. WritesRight'
    BY <1>0, <2>1 DEF WritesRight, MemcmpInv, Untouched
  <2>5. ReturnsRight'
    <3>1. CASE n > 0
      <4>1. n0 - n \in 0 .. n0 - 1
        BY <1>0, <3>1 DEF MemcmpInv, InStep, ArgsOK
      <4>2. ret' = mem0[d0 + (n0 - n)] - mem0[s0 + (n0 - n)] /\ ret' # 0
        BY <1>0, <1>1, <1>3, <2>1, <2>2, <3>1
      <4>3. SameUpTo(n0 - n) BY <1>0 DEF MemcmpInv
      <4> QED BY <1>0, <2>1, <4>1, <4>2, <4>3
                DEF ReturnsRight, MemcmpInv, SameUpTo, Src
    <3>2. CASE ~(n > 0)
      <4>1. n = 0 /\ n0 - n = n0 BY <1>0, <3>2 DEF MemcmpInv, ArgsOK
      <4> QED BY <1>0, <2>1, <3>2, <4>1
                DEF ReturnsRight, MemcmpInv, SameUpTo, Src
    <3> QED BY <3>1, <3>2
  <2> QED BY <2>1, <2>3, <2>4, <2>5 DEF IInv, LoopInv
<1> QED BY <1>2, <1>3

\* A string without a NUL in its first n0 - n bytes goes on in memory.
LEMMA StringGoesOn ==
  ASSUME ArgsOK, NEW a0 \in Nat, StringAt(a0), n \in Int, n > 0, n <= n0,
         \A j \in 0 .. n0 - n - 1 : mem0[a0 + j] # 0
  PROVE  /\ a0 + (n0 - n) \in Addr
         /\ a0 + (n0 - n) \in Source(mem0, a0, n0)
<1>1. a0 + (n0 - n) \in Addr
  <2>1. CASE a0 + n0 <= MEM
    BY <2>1, KStringAssumption DEF ArgsOK, Addr
  <2>2. CASE \E a \in Addr : a0 <= a /\ mem0[a] = 0
    <3>1. PICK a \in Addr : a0 <= a /\ mem0[a] = 0 BY <2>2
    <3>2. a \in Int /\ a0 + (a - a0) = a BY <3>1, KStringAssumption DEF Addr
    <3>3. ~(a - a0 \in 0 .. n0 - n - 1) BY <3>1, <3>2
    <3> QED BY <3>1, <3>2, <3>3, KStringAssumption DEF ArgsOK, Addr
  <2> QED BY <2>1, <2>2 DEF StringAt
<1>2. ASSUME NEW b \in Addr, a0 <= b, b < a0 + (n0 - n) PROVE mem0[b] # 0
  <2>1. b - a0 \in 0 .. n0 - n - 1 /\ a0 + (b - a0) = b
    BY <1>2, KStringAssumption DEF ArgsOK, Addr
  <2> QED BY <2>1
<1>3. a0 <= a0 + (n0 - n) /\ a0 + (n0 - n) < a0 + n0 BY DEF ArgsOK
<1> QED BY <1>1, <1>2, <1>3 DEF Source

LEMMA StrncmpIInv == ASSUME IInv, StrncmpTurn PROVE IInv'
<1>0. /\ pc = "strncmp" /\ ArgsOK /\ StrncmpInv
      /\ UNCHANGED <<mem0, d0, s0, n0, c, fn>>
  BY DEF StrncmpTurn, Loop, IInv, LoopInv, args
<1>1. ASSUME n > 0
      PROVE  /\ d \in Addr /\ s \in Addr
             /\ mem[d] = mem0[d0 + (n0 - n)] /\ mem[s] = mem0[s0 + (n0 - n)]
             /\ mem[d] \in Int /\ mem[s] \in Int
  <2>1. \A j \in 0 .. n0 - n - 1 : mem0[s0 + j] # 0 /\ mem0[d0 + j] # 0
    BY <1>0 DEF StrncmpInv, SameUpTo, NoNul, Src
  <2>2. d0 + (n0 - n) \in Addr
    BY <1>0, <1>1, <2>1, StringGoesOn DEF StrncmpInv, InStep, ArgsOK
  <2>3. s0 + (n0 - n) \in Addr
    BY <1>0, <1>1, <2>1, StringGoesOn DEF StrncmpInv, InStep, ArgsOK
  <2>4. d = d0 + (n0 - n) /\ s = s0 + (n0 - n)
    BY <1>0 DEF StrncmpInv, InStep, ArgsOK
  <2> QED BY <1>0, <2>2, <2>3, <2>4, KStringAssumption
            DEF StrncmpInv, Untouched, ArgsOK, Byte
<1>2. CASE n > 0 /\ mem[d] # 0 /\ mem[d] = mem[s]
  <2>1. /\ pc' = "strncmp" /\ d' = d + 1 /\ s' = s + 1 /\ n' = n - 1
        /\ UNCHANGED <<mem, ret>>
    BY <1>0, <1>2 DEF StrncmpTurn, Loop, Advance
  <2>2. ArgsOK' BY <1>0, <2>1 DEF ArgsOK, Labels
  <2>3. SameUpTo(n0 - n)' /\ NoNul(n0 - n)'
    BY <1>0, <1>1, <1>2, <2>1
    DEF StrncmpInv, SameUpTo, NoNul, Src, InStep, ArgsOK
  <2>4. StrncmpInv'
    BY <1>0, <1>2, <2>1, <2>3
    DEF StrncmpInv, InStep, Untouched, StringAt, ArgsOK
  <2> QED BY <2>1, <2>2, <2>4 DEF IInv, LoopInv, WritesRight, ReturnsRight
<1>3. CASE ~(n > 0 /\ mem[d] # 0 /\ mem[d] = mem[s])
  <2>1. /\ pc' = "ret" /\ UNCHANGED <<mem, d, s, n>>
        /\ ret' = IF n = 0 THEN 0 ELSE mem[d] - mem[s]
    BY <1>0, <1>3 DEF StrncmpTurn, Loop, Return
  <2>2. n = 0 \/ n > 0 BY <1>0 DEF StrncmpInv, ArgsOK
  <2>3. ArgsOK' BY <1>0, <1>1, <2>1, <2>2 DEF ArgsOK, Labels
  <2>4. WritesRight'
    BY <1>0, <2>1 DEF WritesRight, StrncmpInv, Untouched
  <2>5. n0 - n \in 0 .. n0 /\ SameUpTo(n0 - n) /\ NoNul(n0 - n)
    BY <1>0 DEF StrncmpInv, InStep, ArgsOK
  <2>6. \/ n0 - n = n0 /\ ret' = 0
        \/ /\ n0 - n < n0
           /\ ret' = mem0[d0 + (n0 - n)] - Src(n0 - n)
           /\ ret' # 0 \/ Src(n0 - n) = 0
    <3>1. CASE n = 0 BY <1>0, <2>1, <3>1 DEF ArgsOK
    <3>2. CASE n > 0 BY <1>0, <1>1, <1>3, <2>1, <3>2 DEF Src, ArgsOK
    <3> QED BY <2>2, <3>1, <3>2
  <2>7. ReturnsRight'
    BY <1>0, <2>1, <2>5, <2>6
       DEF ReturnsRight, StrncmpInv, SameUpTo, NoNul, Src
  <2> QED BY <2>1, <2>3, <2>4, <2>7 DEF IInv, LoopInv
<1> QED BY <1>2, <1>3

LEMMA StrlenIInv == ASSUME IInv, StrlenTurn PROVE IInv'
<1>0. /\ pc = "strlen" /\ ArgsOK /\ StrlenInv
      /\ UNCHANGED <<mem0, d0, s0, n0, c, fn>>
  BY DEF StrlenTurn, Loop, IInv, LoopInv, args
<1>1. mem[s + n] = Src(n)
  <2>1. PICK a \in Addr : s0 <= a /\ mem0[a] = 0 BY <1>0 DEF StrlenInv
  <2>2. ~(a - s0 \in 0 .. n - 1) /\ a \in Int
    <3>1. a \in Int /\ s0 + (a - s0) = a
      BY <1>0, KStringAssumption DEF ArgsOK, Addr
    <3> QED BY <1>0, <2>1, <3>1 DEF StrlenInv, NoNul, Src
  <2>3. s + n \in Addr
    BY <1>0, <2>1, <2>2, KStringAssumption DEF StrlenInv, ArgsOK, Addr
  <2> QED BY <1>0, <2>3 DEF StrlenInv, Untouched, Src
<1>2. CASE mem[s + n] # 0
  <2>1. pc' = "strlen" /\ n' = n + 1 /\ UNCHANGED <<mem, d, s, ret>>
    BY <1>0, <1>2 DEF StrlenTurn, Loop
  <2>2. ArgsOK' BY <1>0, <2>1 DEF ArgsOK, Labels
  <2>3. NoNul(n)'
    BY <1>0, <1>1, <1>2, <2>1 DEF StrlenInv, NoNul, Src, ArgsOK
  <2>4. StrlenInv'
    BY <1>0, <2>1, <2>3 DEF StrlenInv, Untouched, ArgsOK
  <2> QED BY <2>1, <2>2, <2>4 DEF IInv, LoopInv, WritesRight, ReturnsRight
<1>3. CASE mem[s + n] = 0
  <2>1. pc' = "ret" /\ ret' = n /\ UNCHANGED <<mem, d, s, n>>
    BY <1>0, <1>3 DEF StrlenTurn, Loop, Return
  <2>2. ArgsOK' BY <1>0, <2>1 DEF ArgsOK, Labels
  <2>3. WritesRight' BY <1>0, <2>1 DEF WritesRight, StrlenInv, Untouched
  <2>4. ReturnsRight'
    BY <1>0, <1>1, <1>3, <2>1 DEF ReturnsRight, StrlenInv, NoNul, Src
  <2> QED BY <2>1, <2>2, <2>3, <2>4 DEF IInv, LoopInv
<1> QED BY <1>2, <1>3

-----------------------------------------------------------------------------
(* strncpy and safestrcpy *)

\* The byte to copy is still that of the string.
LEMMA NextOfString ==
  ASSUME ArgsOK, InStep, n > 0, d0 + n0 <= MEM, StringAt(s0), Apart,
         NoNul(n0 - n), CopiedUp
  PROVE  d \in Addr /\ s \in Addr /\ mem[s] = Src(n0 - n) /\ mem[s] \in Byte
<1>1. d = d0 + (n0 - n) /\ s = s0 + (n0 - n) /\ n <= n0
  BY DEF InStep, ArgsOK
<1>2. s0 + (n0 - n) \in Addr /\ s0 + (n0 - n) \in Source(mem0, s0, n0)
  BY <1>1, StringGoesOn DEF ArgsOK, NoNul, Src
<1>3. ~InDst(s) BY <1>1, <1>2 DEF Apart
<1>4. mem[s] = mem0[s]
  BY <1>1, <1>2, <1>3, KStringAssumption DEF CopiedUp, InDst, ArgsOK, Addr
<1>5. d \in Addr BY <1>1, KStringAssumption DEF ArgsOK, Addr
<1> QED BY <1>1, <1>2, <1>4, <1>5 DEF Src, ArgsOK

\* Copying it moves the boundary of CopiedUp by one.
LEMMA CopyOne ==
  ASSUME ArgsOK, InStep, n > 0, CopiedUp,
         d \in Addr, mem[s] = Src(n0 - n), mem[s] \in Byte,
         mem' = [mem EXCEPT ![d] = mem[s]],
         d' = d + 1, UNCHANGED <<mem0, d0, s0, n0>>
  PROVE  CopiedUp' /\ mem' \in [Addr -> Byte]
<1>1. mem[s] = mem0[s0 + (d - d0)] /\ d0 <= d
  BY DEF InStep, Src, ArgsOK
<1>2. CopiedUp'
  <2>1. ASSUME NEW a \in Addr
        PROVE  mem'[a] = IF d0 <= a /\ a < d + 1 THEN mem0[s0 + (a - d0)]
                                                 ELSE mem0[a]
    <3>1. a \in Int /\ d \in Int BY KStringAssumption DEF Addr
    <3>2. CASE a = d BY <1>1, <3>1, <3>2 DEF ArgsOK
    <3>3. CASE a # d
      <4>1. mem'[a] = mem[a] BY <3>3 DEF ArgsOK
      <4>2. a < d + 1 <=> a < d BY <3>1, <3>3
      <4> QED BY <4>1, <4>2 DEF CopiedUp
    <3> QED BY <3>2, <3>3
  <2> QED BY <2>1 DEF CopiedUp
<1>3. mem' \in [Addr -> Byte] BY DEF ArgsOK
<1> QED BY <1>2, <1>3

LEMMA StrncpyIInv == ASSUME IInv, StrncpyTurn PROVE IInv'
<1>0. /\ pc = "strncpy" /\ ArgsOK /\ StrncpyInv
      /\ UNCHANGED <<mem0, d0, s0, n0, c, fn>>
  BY DEF StrncpyTurn, Loop, IInv, LoopInv, args
<1>1. CASE n > 0
  <2>1. /\ pc' = IF mem[s] = 0 THEN "pad" ELSE "strncpy"
        /\ d' = d + 1 /\ s' = s + 1 /\ n' = n - 1 /\ ret' = ret
        /\ mem' = [mem EXCEPT ![d] = mem[s]]
    BY <1>0, <1>1 DEF StrncpyTurn, Loop, Store, Advance
  <2>2. d \in Addr /\ s \in Addr /\ mem[s] = Src(n0 - n) /\ mem[s] \in Byte
    BY <1>0, <1>1, NextOfString DEF StrncpyInv
  <2>3. CopiedUp' /\ mem' \in [Addr -> Byte]
    BY <1>0, <1>1, <2>1, <2>2, CopyOne DEF StrncpyInv
  <2>4. ArgsOK' BY <1>0, <2>1, <2>3 DEF ArgsOK, Labels
  <2>5. InStep' /\ n' >= 0 /\ n0 - n \in 0 .. n0 - n' - 1
    BY <1>0, <1>1, <2>1 DEF StrncpyInv, InStep, ArgsOK
  <2>6. CASE mem[s] = 0
    <3>1. \A a \in Addr :
            mem'[a] = IF d0 <= a /\ a < d'
                        THEN IF a < d0 + (n0 - n) THEN mem0[s0 + (a - d0)]
                                                  ELSE 0
                        ELSE mem0[a]
      <4>1. d' = d0 + (n0 - n) + 1 /\ d = d0 + (n0 - n)
        BY <1>0, <2>1 DEF StrncpyInv, InStep, ArgsOK
      <4>2. mem0[s0 + (n0 - n)] = 0 BY <2>2, <2>6 DEF Src
      <4> QED BY <1>0, <2>3, <2>6, <4>1, <4>2, KStringAssumption
                DEF CopiedUp, ArgsOK, Addr
    <3>3. NoNul(n0 - n) /\ Src(n0 - n) = 0
      BY <1>0, <2>2, <2>6 DEF StrncpyInv
    <3>4. PadInv'
      BY <1>0, <2>1, <2>5, <3>1, <3>3
      DEF PadInv, StrncpyInv, InStep, NoNul, Src, ArgsOK
    <3> QED BY <2>1, <2>4, <2>6, <3>4
              DEF IInv, LoopInv, WritesRight, ReturnsRight
  <2>7. CASE mem[s] # 0
    <3>1. NoNul(n0 - n)'
      BY <1>0, <1>1, <2>1, <2>2, <2>7
         DEF StrncpyInv, NoNul, Src, InStep, ArgsOK
    <3>2. StringAt(s0)' /\ Apart'
      BY <1>0 DEF StrncpyInv, StringAt, Apart, InDst, Source
    <3>3. StrncpyInv'
      BY <1>0, <2>3, <2>5, <3>1, <3>2 DEF StrncpyInv
    <3> QED BY <2>1, <2>4, <2>7, <3>3
              DEF IInv, LoopInv, WritesRight, ReturnsRight
  <2> QED BY <2>6, <2>7
<1>2. CASE ~(n > 0)
  <2>1. pc' = "ret" /\ UNCHANGED <<mem, d, s, n, ret>>
    BY <1>0, <1>2 DEF StrncpyTurn, Loop, Return
  <2>2. ArgsOK' BY <1>0, <2>1 DEF ArgsOK, Labels
  <2>3. n0 > 0 => n = 0 /\ d = d0 + n0 /\ n0 - n = n0
    BY <1>0, <1>2 DEF StrncpyInv, InStep, ArgsOK
  <2>4. ASSUME n0 > 0, NEW k \in 0 .. n0 - 1 PROVE NoNul(k) /\ Dst(k) = Src(k)
    <3>1. NoNul(k) BY <1>0, <2>3, <2>4 DEF StrncpyInv, NoNul, ArgsOK
    <3>2. d0 + k \in Addr /\ s0 + ((d0 + k) - d0) = s0 + k
      BY <1>0, <2>4, KStringAssumption DEF StrncpyInv, ArgsOK, Addr
    <3> QED BY <1>0, <2>3, <2>4, <3>1, <3>2
              DEF StrncpyInv, CopiedUp, Dst, Src, ArgsOK
  <2>5. \A a \in Addr : ~InDst(a) => mem[a] = mem0[a]
    BY <1>0, <1>2, <2>3, KStringAssumption
    DEF StrncpyInv, InStep, CopiedUp, InDst, ArgsOK, Addr
  <2>6. n0 > 0 \/ 0 .. n0 - 1 = {} BY <1>0 DEF ArgsOK
  <2>7. WritesRight'
    BY <1>0, <2>1, <2>4, <2>5, <2>6
    DEF WritesRight, StrncpyInv, InDst, Dst, Src, NoNul
  <2>8. ReturnsRight' BY <1>0, <2>1 DEF ReturnsRight, StrncpyInv
  <2> QED BY <2>1, <2>2, <2>7, <2>8 DEF IInv, LoopInv
<1> QED BY <1>1, <1>2

LEMMA PadIInv == ASSUME IInv, PadTurn PROVE IInv'
<1>0. /\ pc = "pad" /\ ArgsOK /\ PadInv
      /\ UNCHANGED <<mem0, d0, s0, n0, c, fn>>
  BY DEF PadTurn, Loop, IInv, LoopInv, args
<1>1. PICK z \in 0 .. n0 - n - 1 :
        /\ NoNul(z) /\ Src(z) = 0
        /\ \A a \in Addr :
             mem[a] = IF d0 <= a /\ a < d
                        THEN IF a < d0 + z THEN mem0[s0 + (a - d0)] ELSE 0
                        ELSE mem0[a]
  BY <1>0 DEF PadInv
<1>2. CASE n > 0
  <2>1. /\ pc' = "pad" /\ d' = d + 1 /\ n' = n - 1 /\ UNCHANGED <<s, ret>>
        /\ mem' = [mem EXCEPT ![d] = 0]
    BY <1>0, <1>2 DEF PadTurn, Loop, Store
  <2>2. d \in Addr /\ 0 \in Byte /\ d0 + z <= d
    BY <1>0, <1>2, KStringAssumption DEF PadInv, ArgsOK, Addr, Byte
  <2>3. ArgsOK' BY <1>0, <2>1, <2>2 DEF ArgsOK, Labels
  <2>4. \A a \in Addr :
          mem'[a] = IF d0 <= a /\ a < d'
                      THEN IF a < d0 + z THEN mem0[s0 + (a - d0)] ELSE 0
                      ELSE mem0[a]
    BY <1>0, <1>1, <2>1, <2>2, KStringAssumption DEF PadInv, ArgsOK, Addr
  <2>5. z \in 0 .. n0 - n' - 1 BY <1>0, <2>1 DEF ArgsOK
  <2>6. PadInv'
    BY <1>0, <1>1, <1>2, <2>1, <2>4, <2>5 DEF PadInv, NoNul, Src, ArgsOK
  <2> QED BY <2>1, <2>3, <2>6 DEF IInv, LoopInv, WritesRight, ReturnsRight
<1>3. CASE ~(n > 0)
  <2>1. pc' = "ret" /\ UNCHANGED <<mem, d, s, n, ret>>
    BY <1>0, <1>3 DEF PadTurn, Loop, Return
  <2>2. ArgsOK' BY <1>0, <2>1 DEF ArgsOK, Labels
  <2>3. n = 0 /\ d = d0 + n0 BY <1>0, <1>3 DEF PadInv, ArgsOK
  <2>4. ASSUME NEW k \in 0 .. n0 - 1
        PROVE  Dst(k) = IF NoNul(k) THEN Src(k) ELSE 0
    <3>1. d0 + k \in Addr /\ (d0 + k) - d0 = k
      BY <1>0, <2>3, KStringAssumption DEF PadInv, ArgsOK, Addr
    <3>2. Dst(k) = IF k < z THEN Src(k) ELSE 0
      BY <1>0, <1>1, <2>3, <3>1 DEF Dst, Src, ArgsOK
    <3>3. CASE k < z
      BY <1>1, <3>2, <3>3 DEF NoNul
    <3>4. CASE k = z
      BY <1>1, <3>2, <3>4
    <3>5. CASE k > z
      <4>1. ~NoNul(k) BY <1>1, <3>5 DEF NoNul
      <4> QED BY <3>2, <3>5, <4>1
    <3> QED BY <1>0, <3>3, <3>4, <3>5 DEF ArgsOK
  <2>5. \A a \in Addr : ~InDst(a) => mem[a] = mem0[a]
    BY <1>0, <1>1, <2>3, KStringAssumption DEF InDst, ArgsOK, Addr
  <2>6. WritesRight'
    BY <1>0, <2>1, <2>4, <2>5 DEF WritesRight, PadInv, InDst, Dst, Src, NoNul
  <2>7. ReturnsRight' BY <1>0, <2>1 DEF ReturnsRight, PadInv
  <2> QED BY <2>1, <2>2, <2>6, <2>7 DEF IInv, LoopInv
<1> QED BY <1>2, <1>3

LEMMA SafestrcpyIInv == ASSUME IInv, SafestrcpyTurn PROVE IInv'
<1>0. /\ pc = "safestrcpy" /\ ArgsOK /\ SafeInv
      /\ UNCHANGED <<mem0, d0, s0, n0, c, fn>>
  BY DEF SafestrcpyTurn, Loop, IInv, LoopInv, args
<1>1. CASE n > 1
  <2>1. /\ pc' = IF mem[s] = 0 THEN "term" ELSE "safestrcpy"
        /\ d' = d + 1 /\ s' = s + 1 /\ n' = n - 1 /\ ret' = ret
        /\ mem' = [mem EXCEPT ![d] = mem[s]]
    BY <1>0, <1>1 DEF SafestrcpyTurn, Loop, Store, Advance
  <2>0. n > 0 BY <1>0, <1>1 DEF ArgsOK
  <2>2. d \in Addr /\ s \in Addr /\ mem[s] = Src(n0 - n) /\ mem[s] \in Byte
    BY <1>0, <2>0, NextOfString DEF SafeInv
  <2>3. CopiedUp' /\ mem' \in [Addr -> Byte]
    BY <1>0, <2>0, <2>1, <2>2, CopyOne DEF SafeInv
  <2>4. ArgsOK' BY <1>0, <2>1, <2>3 DEF ArgsOK, Labels
  <2>5. InStep' /\ n' >= 1 BY <1>0, <1>1, <2>1 DEF SafeInv, InStep, ArgsOK
  <2>6. CASE mem[s] = 0
    <3>1. d' - d0 - 1 = n0 - n /\ d0 <= d' /\ d' > d0 /\ d' < d0 + n0
      BY <1>0, <1>1, <2>1 DEF SafeInv, InStep, ArgsOK
    <3>2. NoNul(n0 - n) /\ Src(n0 - n) = 0
      BY <1>0, <2>2, <2>6 DEF SafeInv
    <3>3. TermInv'
      BY <1>0, <2>3, <3>1, <3>2 DEF TermInv, SafeInv, NoNul, Src
    <3> QED BY <2>1, <2>4, <2>6, <3>3
              DEF IInv, LoopInv, WritesRight, ReturnsRight
  <2>7. CASE mem[s] # 0
    <3>1. NoNul(n0 - n)'
      BY <1>0, <1>1, <2>1, <2>2, <2>7 DEF SafeInv, NoNul, Src, InStep, ArgsOK
    <3>2. StringAt(s0)' /\ Apart'
      BY <1>0 DEF SafeInv, StringAt, Apart, InDst, Source
    <3>3. SafeInv'
      BY <1>0, <2>3, <2>5, <3>1, <3>2 DEF SafeInv
    <3> QED BY <2>1, <2>4, <2>7, <3>3
              DEF IInv, LoopInv, WritesRight, ReturnsRight
  <2> QED BY <2>6, <2>7
<1>2. CASE ~(n > 1)
  <2>1. pc' = "term" /\ UNCHANGED <<mem, d, s, n, ret>>
    BY <1>0, <1>2 DEF SafestrcpyTurn, Loop
  <2>2. ArgsOK' BY <1>0, <2>1 DEF ArgsOK, Labels
  <2>3. d = d0 + n0 - 1 /\ d - d0 = n0 - n /\ d0 <= d /\ d < d0 + n0
    BY <1>0, <1>2 DEF SafeInv, InStep, ArgsOK
  <2>4. TermInv'
    BY <1>0, <2>1, <2>3 DEF TermInv, SafeInv, CopiedUp, NoNul, Src
  <2> QED BY <2>1, <2>2, <2>4 DEF IInv, LoopInv, WritesRight, ReturnsRight
<1> QED BY <1>1, <1>2

\* The NUL at d ends the copy, or the one copied before it does.
LEMMA TermIInv == ASSUME IInv, SafestrcpyTerm PROVE IInv'
<1>0. /\ pc = "term" /\ ArgsOK /\ TermInv
      /\ UNCHANGED <<mem0, d0, s0, n0, c, fn>>
      /\ mem' = [mem EXCEPT ![d] = 0]
      /\ pc' = "ret" /\ UNCHANGED <<d, s, n, ret>>
  BY DEF SafestrcpyTerm, Loop, Store, IInv, LoopInv, args
<1>1. d \in Addr /\ 0 \in Byte
  BY <1>0, KStringAssumption DEF TermInv, ArgsOK, Addr, Byte
<1>2. ArgsOK' BY <1>0, <1>1 DEF ArgsOK, Labels
<1>3. \A a \in Addr : ~InDst(a) => mem'[a] = mem0[a]
  BY <1>0, KStringAssumption DEF TermInv, CopiedUp, InDst, ArgsOK, Addr
<1>4. ASSUME NEW k \in 0 .. n0 - 1, k < d - d0
      PROVE  mem'[d0 + k] = Src(k)
  <2>1. d0 + k \in Addr /\ (d0 + k) - d0 = k /\ d0 + k # d /\ d0 + k < d
    BY <1>0, <1>4, KStringAssumption DEF TermInv, ArgsOK, Addr
  <2> QED BY <1>0, <2>1 DEF TermInv, CopiedUp, Src, ArgsOK
<1>5. ASSUME NEW k \in 0 .. n0 - 2, NoNul(k) PROVE mem'[d0 + k] = Src(k)
  <2>1. k < d - d0
    <3>1. CASE d = d0 + n0 - 1 BY <1>0, <3>1 DEF ArgsOK
    <3>2. CASE d > d0 /\ Src(d - d0 - 1) = 0
      <4>1. ~(d - d0 - 1 \in 0 .. k - 1) BY <1>5, <3>2 DEF NoNul
      <4> QED BY <1>0, <3>2, <4>1 DEF ArgsOK
    <3> QED BY <1>0, <3>1, <3>2 DEF TermInv
  <2>2. k \in 0 .. n0 - 1 BY <1>0 DEF ArgsOK
  <2> QED BY <1>4, <2>1, <2>2
<1>6. \E k \in 0 .. n0 - 1 : mem'[d0 + k] = 0 /\ NoNul(k)
  <2>1. CASE d = d0 + n0 - 1 /\ NoNul(d - d0)
    <3>1. d - d0 \in 0 .. n0 - 1 /\ d0 + (d - d0) = d
      BY <1>0, <2>1 DEF TermInv, ArgsOK
    <3>2. mem'[d0 + (d - d0)] = 0 BY <1>0, <1>1, <3>1 DEF ArgsOK
    <3> QED BY <2>1, <3>1, <3>2
  <2>2. CASE d > d0 /\ NoNul(d - d0 - 1) /\ Src(d - d0 - 1) = 0
    <3>1. d - d0 - 1 \in 0 .. n0 - 1 /\ d - d0 - 1 < d - d0
      BY <1>0, <2>2 DEF TermInv, ArgsOK
    <3>2. mem'[d0 + (d - d0 - 1)] = 0 BY <1>4, <2>2, <3>1
    <3> QED BY <2>2, <3>1, <3>2
  <2> QED BY <1>0, <2>1, <2>2 DEF TermInv
<1>7. WritesRight'
  BY <1>0, <1>3, <1>5, <1>6
  DEF WritesRight, TermInv, InDst, Dst, Src, NoNul
<1>8. ReturnsRight' BY <1>0 DEF ReturnsRight, TermInv
<1> QED BY <1>0, <1>2, <1>7, <1>8 DEF IInv, LoopInv

-----------------------------------------------------------------------------
(* The calls *)

LEMMA CallsIInv == ASSUME IInv, Calls PROVE IInv'
<1>0. ArgsOK BY DEF IInv
<1>1. PICK dst \in Addr, src \in Addr, len \in -1 .. MEM :
        \/ \E fill \in Fills : src = 0 /\ memset(dst, fill, len)
        \/ memcmp(dst, src, len)
        \/ memmove(dst, src, len)
        \/ strncmp(dst, src, len)
        \/ strncpy(dst, src, len)
        \/ safestrcpy(dst, src, len)
        \/ dst = 0 /\ len = 0 /\ strlen(src)
  BY DEF Calls
<1>2. dst \in Nat /\ src \in Nat /\ len \in Int /\ len >= -1
  BY KStringAssumption DEF Addr
<1>3. 0 .. -1 = {} /\ 0 .. 0 - 1 = {} OBVIOUS
<1>4. ASSUME NEW fill \in Fills, src = 0, memset(dst, fill, len) PROVE IInv'
  <2>0. fill % BYTE \in Byte
    <3>1. fill \in Int /\ BYTE \in Int /\ BYTE > 0 BY KStringAssumption
    <3> QED BY <3>1 DEF Byte
  <2>1. c' \in Byte BY <1>4, <2>0 DEF memset
  <2>2. CASE dst % 4 = 0 /\ len % 4 = 0
    <3>1. Call("memset", "stosl", dst, 0, len, len \div 4) /\ len >= 0
      BY <1>4, <2>2 DEF memset, Buffer
    <3>2. /\ len \div 4 \in Int /\ len \div 4 >= 0
          /\ dst + 4 * (len \div 4) = dst + len
      BY <1>2, <2>2, <3>1
    <3>3. /\ ArgsOK' /\ fn' = "memset" /\ pc' = "stosl"
          /\ mem' = mem /\ mem0' = mem
          /\ d' = dst /\ n' = len \div 4 /\ d0' = dst /\ n0' = len
      BY <1>0, <1>2, <1>4, <2>1, <3>1, <3>2 DEF Call, ArgsOK, Functions, Labels
    <3>4. StosInv(4)'
      BY <1>2, <1>4, <3>1, <3>2, <3>3, KStringAssumption
      DEF StosInv, memset, Buffer, Addr
    <3> QED BY <3>3, <3>4 DEF IInv, LoopInv, WritesRight, ReturnsRight
  <2>3. CASE ~(dst % 4 = 0 /\ len % 4 = 0)
    <3>1. Call("memset", "stosb", dst, 0, len, len) /\ len >= 0
      BY <1>4, <2>3 DEF memset, Buffer
    <3>3. /\ ArgsOK' /\ fn' = "memset" /\ pc' = "stosb"
          /\ mem' = mem /\ mem0' = mem
          /\ d' = dst /\ n' = len /\ d0' = dst /\ n0' = len
      BY <1>0, <1>2, <1>4, <2>1, <3>1 DEF Call, ArgsOK, Functions, Labels
    <3>4. StosInv(1)'
      BY <1>2, <1>4, <3>1, <3>3, KStringAssumption
      DEF StosInv, memset, Buffer, Addr
    <3> QED BY <3>3, <3>4 DEF IInv, LoopInv, WritesRight, ReturnsRight
  <2> QED BY <2>2, <2>3
<1>5. ASSUME memcmp(dst, src, len) PROVE IInv'
  <2>1. Call("memcmp", "memcmp", dst, src, len, len) /\ c' \in Byte
    BY <1>0, <1>5 DEF memcmp, ArgsOK
  <2>2. /\ ArgsOK' /\ fn' = "memcmp" /\ pc' = "memcmp"
        /\ mem' = mem /\ mem0' = mem /\ d' = dst /\ s' = src /\ n' = len
        /\ d0' = dst /\ s0' = src /\ n0' = len
    BY <1>0, <1>2, <2>1 DEF Call, ArgsOK, Functions, Labels
  <2>3. MemcmpInv'
    BY <1>2, <1>3, <1>5, <2>2
    DEF MemcmpInv, InStep, Untouched, SameUpTo, memcmp, Buffer
  <2> QED BY <2>2, <2>3 DEF IInv, LoopInv, WritesRight, ReturnsRight
<1>6. ASSUME memmove(dst, src, len) PROVE IInv'
  <2> DEFINE l == IF src < dst /\ src + len > dst THEN "down" ELSE "up"
  <2>1. Call("memmove", l, dst, src, len, len) /\ c' \in Byte
    BY <1>0, <1>6 DEF memmove, ArgsOK
  <2>2. /\ ArgsOK' /\ fn' = "memmove" /\ pc' = l
        /\ mem' = mem /\ mem0' = mem /\ d' = dst /\ s' = src /\ n' = len
        /\ d0' = dst /\ s0' = src /\ n0' = len
    BY <1>0, <1>2, <2>1 DEF Call, ArgsOK, Functions, Labels
  <2>3. len >= 0 /\ dst + len <= MEM /\ src + len <= MEM
    BY <1>6 DEF memmove, Buffer
  <2>4. CASE src < dst /\ src + len > dst
    <3>1. DownInv' BY <1>2, <2>2, <2>3, <2>4, KStringAssumption
                   DEF DownInv, Addr
    <3> QED BY <2>2, <2>4, <3>1 DEF IInv, LoopInv, WritesRight, ReturnsRight
  <2>5. CASE ~(src < dst /\ src + len > dst)
    <3>1. UpInv' BY <1>2, <2>2, <2>3, <2>5, KStringAssumption
                 DEF UpInv, InStep, CopiedUp, Addr
    <3> QED BY <2>2, <2>5, <3>1 DEF IInv, LoopInv, WritesRight, ReturnsRight
  <2> QED BY <2>4, <2>5
<1>7. ASSUME strncmp(dst, src, len) PROVE IInv'
  <2>1. Call("strncmp", "strncmp", dst, src, len, len) /\ c' \in Byte
    BY <1>0, <1>7 DEF strncmp, ArgsOK
  <2>2. /\ ArgsOK' /\ fn' = "strncmp" /\ pc' = "strncmp"
        /\ mem' = mem /\ mem0' = mem /\ d' = dst /\ s' = src /\ n' = len
        /\ d0' = dst /\ s0' = src /\ n0' = len
    BY <1>0, <1>2, <2>1 DEF Call, ArgsOK, Functions, Labels
  <2>3. StringAt(d0)' /\ StringAt(s0)' /\ len >= 0
    BY <1>7, <2>2 DEF strncmp, String, StringAt
  <2>4. StrncmpInv'
    BY <1>2, <1>3, <2>2, <2>3
    DEF StrncmpInv, InStep, Untouched, SameUpTo, NoNul
  <2> QED BY <2>2, <2>4 DEF IInv, LoopInv, WritesRight, ReturnsRight
<1>8. ASSUME strncpy(dst, src, len) PROVE IInv'
  <2>1. Call("strncpy", "strncpy", dst, src, len, len) /\ c' \in Byte
    BY <1>0, <1>8 DEF strncpy, ArgsOK
  <2>2. /\ ArgsOK' /\ fn' = "strncpy" /\ pc' = "strncpy"
        /\ mem' = mem /\ mem0' = mem /\ d' = dst /\ s' = src /\ n' = len
        /\ d0' = dst /\ s0' = src /\ n0' = len
    BY <1>0, <1>2, <2>1 DEF Call, ArgsOK, Functions, Labels
  <2>3. StringAt(s0)' /\ Apart' /\ dst + len <= MEM
    BY <1>8, <2>2 DEF strncpy, StringCopy, String, StringAt, Apart, InDst
  <2>4. InStep' /\ NoNul(n0 - n)' /\ CopiedUp'
    BY <1>2, <1>3, <2>2, KStringAssumption DEF InStep, NoNul, CopiedUp, Addr
  <2>5. StrncpyInv' BY <2>2, <2>3, <2>4 DEF StrncpyInv
  <2> QED BY <2>2, <2>5 DEF IInv, LoopInv, WritesRight, ReturnsRight
<1>9. ASSUME safestrcpy(dst, src, len) PROVE IInv'
  <2> DEFINE l == IF len <= 0 THEN "ret" ELSE "safestrcpy"
  <2>1. Call("safestrcpy", l, dst, src, len, len) /\ c' \in Byte
    BY <1>0, <1>9 DEF safestrcpy, ArgsOK
  <2>2. /\ ArgsOK' /\ fn' = "safestrcpy" /\ pc' = l
        /\ mem' = mem /\ mem0' = mem /\ d' = dst /\ s' = src /\ n' = len
        /\ d0' = dst /\ s0' = src /\ n0' = len
    BY <1>0, <1>2, <2>1 DEF Call, ArgsOK, Functions, Labels
  <2>3. CASE len <= 0
    BY <1>2, <2>2, <2>3 DEF IInv, LoopInv, WritesRight, ReturnsRight
  <2>4. CASE len > 0
    <3>1. StringAt(s0)' /\ Apart' /\ dst + len <= MEM
      BY <1>9, <2>2 DEF safestrcpy, StringCopy, String, StringAt, Apart, InDst
    <3>2. InStep' /\ NoNul(n0 - n)' /\ CopiedUp'
      BY <1>2, <1>3, <2>2, KStringAssumption DEF InStep, NoNul, CopiedUp, Addr
    <3>3. SafeInv' BY <1>2, <2>2, <2>4, <3>1, <3>2 DEF SafeInv
    <3>4. pc' = "safestrcpy" BY <1>2, <2>2, <2>4
    <3> QED BY <2>2, <3>3, <3>4 DEF IInv, LoopInv, WritesRight, ReturnsRight
  <2> QED BY <1>2, <2>3, <2>4
<1>10. ASSUME strlen(src), dst = 0 PROVE IInv'
  <2>1. Call("strlen", "strlen", 0, src, 0, 0) /\ c' \in Byte
    BY <1>0, <1>10 DEF strlen, ArgsOK
  <2>2. /\ ArgsOK' /\ fn' = "strlen" /\ pc' = "strlen"
        /\ mem' = mem /\ mem0' = mem /\ s' = src /\ n' = 0 /\ s0' = src
    BY <1>0, <1>2, <1>10, <2>1 DEF Call, ArgsOK, Functions, Labels
  <2>3. \E a \in Addr : src <= a /\ mem[a] = 0 BY <1>10 DEF strlen
  <2>4. StrlenInv'
    BY <1>2, <1>3, <2>2, <2>3 DEF StrlenInv, Untouched, NoNul
  <2> QED BY <2>2, <2>4 DEF IInv, LoopInv, WritesRight, ReturnsRight
<1> QED BY <1>1, <1>4, <1>5, <1>6, <1>7, <1>8, <1>9, <1>10

-----------------------------------------------------------------------------
(* The theorems *)

LEMMA NextIInv == ASSUME IInv, [Next]_vars PROVE IInv'
<1>1. CASE Calls BY <1>1, CallsIInv
<1>2. CASE stosl BY <1>2, StosIInv DEF stosl
<1>3. CASE stosb BY <1>3, StosIInv DEF stosb
<1>4. CASE MemcmpTurn BY <1>4, MemcmpIInv
<1>5. CASE MoveDown BY <1>5, MoveDownIInv
<1>6. CASE MoveUp BY <1>6, MoveUpIInv
<1>7. CASE StrncmpTurn BY <1>7, StrncmpIInv
<1>8. CASE StrncpyTurn BY <1>8, StrncpyIInv
<1>9. CASE PadTurn BY <1>9, PadIInv
<1>10. CASE SafestrcpyTurn BY <1>10, SafestrcpyIInv
<1>11. CASE SafestrcpyTerm BY <1>11, TermIInv
<1>12. CASE StrlenTurn BY <1>12, StrlenIInv
<1>13. CASE Resume
  <2>1. ArgsOK' /\ pc' = "idle"
    BY <1>13, KStringAssumption
    DEF Resume, IInv, ArgsOK, Byte, Functions, Labels
  <2> QED BY <2>1 DEF IInv, LoopInv, WritesRight, ReturnsRight
<1>14. CASE UNCHANGED vars
  <2>1. UNCHANGED <<mem, pc, d, s, n, ret, mem0, d0, s0, n0, c, fn>>
    BY <1>14 DEF vars, args
  <2>2. ArgsOK' BY <2>1 DEF IInv, ArgsOK
  <2>3. WritesRight' /\ ReturnsRight'
    BY <2>1 DEF IInv, WritesRight, ReturnsRight, InDst, Dst, Src, NoNul
  <2>4. LoopInv'
    BY <2>1 DEF IInv, LoopInv, StosInv, MemcmpInv, UpInv, DownInv, StrncmpInv,
       StrncpyInv, PadInv, SafeInv, TermInv, StrlenInv, InStep, Untouched,
       CopiedUp, SameUpTo, StringAt, Apart, Source, InDst, NoNul, Src
  <2> QED BY <2>2, <2>3, <2>4 DEF IInv
<1> QED BY <1>1, <1>2, <1>3, <1>4, <1>5, <1>6, <1>7, <1>8, <1>9, <1>10,
           <1>11, <1>12, <1>13, <1>14 DEF Next, Turn

LEMMA AlwaysIInv == Spec => []IInv
<1>1. Init => IInv
  <2> SUFFICES ASSUME Init PROVE IInv
    OBVIOUS
  <2>1. 0 \in Byte BY KStringAssumption DEF Byte
  <2>2. ArgsOK /\ pc = "idle" BY <2>1 DEF Init, ArgsOK, Functions, Labels
  <2> QED BY <2>2 DEF IInv, LoopInv, WritesRight, ReturnsRight
<1>2. IInv /\ [Next]_vars => IInv' BY NextIInv
<1> QED BY <1>1, <1>2, PTL DEF Spec

\* Whatever the size of memory and of bytes, memset, memmove for every overlap,
\* strncpy and safestrcpy leave in their destination what they promise and
\* nothing elsewhere.
THEOREM CopiesAreRight == Spec => []WritesRight
<1>1. IInv => WritesRight BY DEF IInv
<1> QED BY <1>1, AlwaysIInv, PTL

\* memcmp, strncmp and strlen return what they promise.
THEOREM ResultsAreRight == Spec => []ReturnsRight
<1>1. IInv => ReturnsRight BY DEF IInv
<1> QED BY <1>1, AlwaysIInv, PTL

\* No routine reads past the NUL or the n bytes of a string, and none reads or
\* writes outside its buffers.
THEOREM AccessesInBounds == Spec => []InBounds
<1>1. ASSUME IInv PROVE InBounds
  <2>0. ArgsOK /\ LoopInv BY <1>1 DEF IInv
  <2>1. ASSUME pc \in {"memcmp", "up"}, n > 0
        PROVE  d - d0 \in 0 .. n0 - 1 /\ s - s0 \in 0 .. n0 - 1
    BY <2>0, <2>1 DEF LoopInv, MemcmpInv, UpInv, InStep, ArgsOK
  <2>2. pc = "down" => n <= n0
    BY <2>0 DEF LoopInv, DownInv
  <2>3. pc = "stosl" /\ n > 0 => InDst(d) /\ InDst(d + 3)
    BY <2>0 DEF LoopInv, StosInv, InDst, ArgsOK
  <2>4. pc = "stosb" /\ n > 0 => InDst(d)
    BY <2>0 DEF LoopInv, StosInv, InDst, ArgsOK
  <2>5. pc = "pad" /\ n > 0 => InDst(d)
    BY <2>0 DEF LoopInv, PadInv, InDst, ArgsOK
  <2>6. ASSUME n > 0, InStep, StringAt(s0), NoNul(n0 - n) PROVE AtString
    <3>1. s = s0 + (n0 - n) /\ n <= n0 /\ d - d0 \in 0 .. n0 - 1
      BY <2>0, <2>6 DEF InStep, ArgsOK
    <3>2. s0 + (n0 - n) \in Source(mem0, s0, n0)
      BY <2>0, <2>6, <3>1, StringGoesOn DEF NoNul, Src, ArgsOK
    <3> QED BY <3>1, <3>2 DEF AtString
  <2>7. pc \in {"strncmp", "strncpy"} /\ n > 0 => AtString
    BY <2>0, <2>6 DEF LoopInv, StrncmpInv, StrncpyInv
  <2>8. ASSUME pc = "strncmp", n > 0 PROVE d \in Source(mem0, d0, n0)
    <3>1. d = d0 + (n0 - n) /\ n <= n0 /\ StringAt(d0)
      BY <2>0, <2>8 DEF LoopInv, StrncmpInv, InStep, ArgsOK
    <3>2. \A j \in 0 .. n0 - n - 1 : mem0[d0 + j] # 0
      BY <2>0, <2>8 DEF LoopInv, StrncmpInv, SameUpTo, NoNul, Src
    <3> QED BY <2>0, <2>8, <3>1, <3>2, StringGoesOn DEF ArgsOK
  <2>9. pc = "safestrcpy" /\ n > 1 => AtString
    BY <2>0, <2>6 DEF LoopInv, SafeInv, ArgsOK
  <2>10. pc = "term" => InDst(d)
    BY <2>0 DEF LoopInv, TermInv, InDst
  <2>11. ASSUME pc = "strlen" PROVE s + n \in Source(mem0, s0, MEM)
    <3>0. StrlenInv BY <2>0, <2>11 DEF LoopInv
    <3>1. PICK a \in Addr : s0 <= a /\ mem0[a] = 0 BY <3>0 DEF StrlenInv
    <3>2. a \in Int /\ s0 + (a - s0) = a
      BY <2>0, KStringAssumption DEF ArgsOK, Addr
    <3>3. ~(a - s0 \in 0 .. n - 1)
      BY <3>0, <3>1, <3>2 DEF StrlenInv, NoNul, Src
    <3>4. s + n \in Addr /\ s0 <= s + n /\ s + n < s0 + MEM
      BY <2>0, <3>0, <3>1, <3>2, <3>3, KStringAssumption
      DEF StrlenInv, ArgsOK, Addr
    <3>5. ASSUME NEW b \in Addr, s0 <= b, b < s + n PROVE mem0[b] # 0
      <4>1. b - s0 \in 0 .. n - 1 /\ s0 + (b - s0) = b
        BY <2>0, <3>0, <3>5, KStringAssumption DEF StrlenInv, ArgsOK, Addr
      <4> QED BY <3>0, <4>1 DEF StrlenInv, NoNul, Src
    <3> QED BY <3>4, <3>5 DEF Source
  <2> QED BY <2>1, <2>2, <2>3, <2>4, <2>5, <2>7, <2>8, <2>9, <2>10, <2>11
            DEF InBounds
<1> QED BY <1>1, AlwaysIInv, PTL
=============================================================================
