------------------------------ MODULE SeqLoops ------------------------------
(***************************************************************************)
(* What a loop over a sequence arrives at, as recursive functions, about   *)
(* which the proofs can reason.                                            *)
(***************************************************************************)
EXTENDS Integers, Sequences

\* The elements of s at the positions in keep, in their order.
Selected(s, keep) ==
    LET kept[k \in 0 .. Len(s)] ==
            IF k = 0 THEN <<>>
            ELSE IF k \in keep THEN Append(kept[k - 1], s[k]) ELSE kept[k - 1]
    IN  kept[Len(s)]

\* What acc = acc * base + s[k] arrives at from 0: with base 1 the sum.
Folded(base, s) ==
    LET acc[k \in 0 .. Len(s)] == IF k = 0 THEN 0 ELSE acc[k - 1] * base + s[k]
    IN  acc[Len(s)]

Total(s) == Folded(1, s)

\* The sequences of a sequence one behind the other.
Joined(ss) ==
    LET acc[k \in 0 .. Len(ss)] == IF k = 0 THEN <<>> ELSE acc[k - 1] \o ss[k]
    IN  acc[Len(ss)]
=============================================================================
