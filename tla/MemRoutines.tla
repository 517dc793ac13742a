------------------------------ MODULE MemRoutines ------------------------------
(***************************************************************************)
(* memcpy and memset of tools/crt (memcpy.s, memset.s): words if the       *)
(* addresses allow it, else halfwords, then what is left as bytes.  One    *)
(* step is one pass of a loop.  The CPU takes words and halfwords only     *)
(* from multiples of their size.                                           *)
(***************************************************************************)
EXTENDS Integers

CONSTANTS LAST,     \* the last address
          ByteValues \* what a byte holds, 0 among them

VARIABLES
  routine,          \* "memcpy" or "memset"
  before, dst, src, fill, length,   \* memory and arguments at the call; c as four bytes
  label,               \* "entry", the loop ("byte", "half", "word"), "ret"
  memory,
  r5,               \* passes the halfword or word loop has to make
  r10, r12, r14,
  r13,              \* as memcpy uses it: an address
  r13c              \* as memset uses it: its four bytes

callVars == <<routine, before, dst, src, fill, length>>
memVars  == <<callVars, label, memory, r5, r10, r12, r13, r13c, r14>>

Space == 0 .. LAST
Register  == [0 .. 3 -> ByteValues]

\* The areas lie in memory, and memcpy's do not overlap unless it goes down.
MemInit ==
  /\ routine \in {"memcpy", "memset"}
  /\ before \in [Space -> ByteValues] /\ fill \in Register
  /\ dst \in Space /\ src \in Space
  /\ length \in {k \in 0 .. LAST + 1 : dst + k <= LAST + 1 /\ src + k <= LAST + 1 /\ (dst <= src \/ src + k <= dst)}
  /\ label = "entry" /\ memory = before
  /\ r5 = 0 /\ r10 = 0 /\ r12 = dst /\ r13 = src /\ r13c = fill /\ r14 = length

-----------------------------------------------------------------------------
\* The size of memcpy's and memset's first loop.
Unit(a, b) == IF r14 <= 3 THEN 1 ELSE IF a % 4 = 0 /\ b % 4 = 0 THEN 4 ELSE IF a % 2 = 0 /\ b % 2 = 0 THEN 2 ELSE 1

\* ld.ub, and the byte's copies in the upper bytes by shifts, swap and or.
Spread(u) == [k \in 0 .. 3 |-> IF k < u THEN r13c[0] ELSE 0]

Enter ==
  /\ label = "entry"
  /\ r10' = r12
  /\ LET u == IF routine = "memcpy" THEN Unit(r12, r13) ELSE Unit(r12, r12)
     IN  /\ label' = IF r14 = 0 THEN "ret" ELSE IF u = 4 THEN "word" ELSE IF u = 2 THEN "half" ELSE "byte"
         /\ r5' = IF u = 4 THEN r14 \div 4 ELSE IF u = 2 THEN r14 \div 2 ELSE 0
         /\ r13c' = IF routine = "memset" /\ u > 1 THEN Spread(u) ELSE r13c
  /\ UNCHANGED <<callVars, memory, r12, r13, r14>>

\* u bytes go to r12, from r13 or out of it.
Stored(u) ==
  [a \in Space |->
     IF a \in r12 .. r12 + u - 1
     THEN IF routine = "memcpy" THEN memory[r13 + (a - r12)] ELSE r13c[a - r12]
     ELSE memory[a]]

Advance(u) ==
  /\ memory' = Stored(u)
  /\ r12' = r12 + u /\ r13' = IF routine = "memcpy" THEN r13 + u ELSE r13
  /\ UNCHANGED <<callVars, r10, r13c>>

ByteLoop ==
  /\ label = "byte" /\ Advance(1)
  /\ r14' = r14 - 1
  /\ label' = IF r14' = 0 THEN "ret" ELSE "byte"
  /\ UNCHANGED r5

\* Mutated: what is left is not looked at.
AfterLoop_NoRest(u) == label' = "ret" /\ r14' = r14

\* The counter has run out: the bytes that are left.
AfterLoop(u) == r14' = r14 % u /\ label' = IF r14' = 0 THEN "ret" ELSE "byte"

HalfLoop ==
  /\ label = "half" /\ Advance(2)
  /\ r5' = r5 - 1
  /\ IF r5' = 0 THEN AfterLoop(2) ELSE UNCHANGED <<label, r14>>

WordLoop ==
  /\ label = "word" /\ Advance(4)
  /\ r5' = r5 - 1
  /\ IF r5' = 0 THEN AfterLoop(4) ELSE UNCHANGED <<label, r14>>

MemNext == Enter \/ ByteLoop \/ HalfLoop \/ WordLoop
MemSpec == MemInit /\ [][MemNext]_memVars

-----------------------------------------------------------------------------
\* The first k bytes moved, the rest of the memory as it was.
Moved(k) ==
  [a \in Space |->
     IF a \in dst .. dst + k - 1 THEN IF routine = "memcpy" THEN before[src + (a - dst)] ELSE fill[0]
     ELSE before[a]]

\* Whatever the addresses and the length, that many bytes are moved and no
\* other byte changes, and no word or halfword is taken from an address that is not a
\* multiple of its size: the choice of the loop looks at both addresses, and
\* what the loop leaves is copied too (memcpy.s:46-90, memset.s:46-100).
MovesExactly ==
  /\ label = "ret" => memory = Moved(length) /\ r10 = dst
  /\ label = "half" => r12 % 2 = 0 /\ (routine = "memcpy" => r13 % 2 = 0)
  /\ label = "word" => r12 % 4 = 0 /\ (routine = "memcpy" => r13 % 4 = 0)

\* The loops' invariant: the call's areas, what was moved, and how what is
\* left is counted.
Areas ==
  /\ routine \in {"memcpy", "memset"}
  /\ before \in [Space -> ByteValues] /\ fill \in Register
  /\ dst \in Nat /\ src \in Nat /\ length \in Nat
  /\ dst + length <= LAST + 1 /\ src + length <= LAST + 1 /\ (dst <= src \/ src + length <= dst)

Along == r12 \in Int /\ dst <= r12 /\ r12 <= dst + length /\ r13 \in Int /\ (routine = "memcpy" => r13 = src + (r12 - dst))

Fill ==
  /\ r13c \in Register /\ r13c[0] = fill[0]
  /\ label = "half" /\ routine = "memset" => r13c[1] = fill[0]
  /\ label = "word" /\ routine = "memset" => r13c[1] = fill[0] /\ r13c[2] = fill[0] /\ r13c[3] = fill[0]

Counted ==
  /\ label \in {"entry", "byte", "half", "word", "ret"}
  /\ label = "entry" => r12 = dst /\ r14 = length
  /\ label # "entry" => r10 = dst
  /\ label = "byte" => r14 \in Nat \ {0} /\ r12 + r14 = dst + length
  /\ label = "half" => /\ r5 \in Nat \ {0} /\ r14 = length /\ r12 + 2 * r5 + (length % 2) = dst + length
                    /\ r12 % 2 = 0 /\ (routine = "memcpy" => r13 % 2 = 0)
  /\ label = "word" => /\ r5 \in Nat \ {0} /\ r14 = length /\ r12 + 4 * r5 + (length % 4) = dst + length
                    /\ r12 % 4 = 0 /\ (routine = "memcpy" => r13 % 4 = 0)
  /\ label = "ret" => r12 = dst + length

MemInv == Areas /\ Along /\ Fill /\ Counted /\ memory = Moved(r12 - dst)
=============================================================================
