----------------------------- MODULE LoopLemmas -----------------------------
(***************************************************************************)
(* Least and greatest elements of sets of numbers, induction stated about  *)
(* a set instead of a predicate, division with remainder, and what the     *)
(* loops of SeqLoops arrive at, for the proofs that need them.             *)
(***************************************************************************)
EXTENDS SeqLoops, FiniteSetsExt, SequenceTheorems, WellFoundedInduction, TLAPS

\* Every set of naturals that is not empty has a least element.
LEMMA LeastNatural ==
    ASSUME NEW S, S \subseteq Nat, S # {}
    PROVE  \E m \in S : \A k \in S : m <= k
<1> DEFINE R == OpToRel(<, Nat)
<1>1. \A k, m \in Nat : k < m => <<k, m>> \in R
      BY DEF OpToRel
<1>2. IsWellFoundedOn(R, Nat)
      BY NatLessThanWellFounded DEF R
<1> HIDE DEF R
<1>3. PICK m \in S : \A k \in S : ~(<<k, m>> \in R)
      BY <1>2, WFMin
<1>4. ASSUME NEW k \in S PROVE m <= k
  <2>1. ~(k < m)
        BY <1>1, <1>3
  <2> QED BY <2>1
<1> QED BY <1>4

\* Min and Max of FiniteSetsExt on sets of naturals.
LEMMA MinIsLeast ==
    ASSUME NEW S, S \subseteq Nat, S # {}
    PROVE  Min(S) \in S /\ \A k \in S : Min(S) <= k
BY LeastNatural DEF Min

\* The same of the greatest, of sets with a bound.
LEMMA MaxIsGreatest ==
    ASSUME NEW S, S \subseteq Nat, S # {}, NEW bound \in Nat, \A k \in S : k <= bound
    PROVE  Max(S) \in S /\ \A k \in S : k <= Max(S)
<1> DEFINE T == {bound - k : k \in S}
<1>1. T \subseteq Nat /\ T # {}
  <2>1. \A k \in S : bound - k \in Nat
        OBVIOUS
  <2>2. PICK k \in S : TRUE
        OBVIOUS
  <2>3. bound - k \in T
        OBVIOUS
  <2> QED BY <2>1, <2>3
<1>2. PICK m \in T : \A k \in T : m <= k
      BY <1>1, LeastNatural
<1>3. PICK top \in S : m = bound - top
      BY <1>2
<1>4. ASSUME NEW k \in S PROVE k <= top
  <2>1. m <= bound - k
        BY <1>2
  <2> QED BY <2>1, <1>3
<1> QED BY <1>4 DEF Max

\* Induction: a set that has 0, and with each of its naturals the next one, has
\* them all.
LEMMA SetInduction ==
    ASSUME NEW S, 0 \in S, \A n \in Nat : n \in S => n + 1 \in S
    PROVE  Nat \subseteq S
<1> SUFFICES ASSUME Nat \ S # {} PROVE FALSE
    OBVIOUS
<1>1. PICK m \in Nat \ S : \A k \in Nat \ S : m <= k
      BY LeastNatural
<1>2. m - 1 \in Nat /\ ~(m <= m - 1)
      OBVIOUS
<1>3. m - 1 \in S
      BY <1>1, <1>2
<1> QED BY <1>2, <1>3

\* Division with remainder.
LEMMA Rem ==
    ASSUME NEW x \in Int, NEW w \in Nat \ {0}
    PROVE  x % w \in 0 .. w - 1 /\ x = w * (x \div w) + (x % w) /\ x \div w \in Int
OBVIOUS

\* Quotient and remainder are the only ones.
LEMMA Unique ==
    ASSUME NEW x \in Int, NEW w \in Nat \ {0}, NEW q \in Int, NEW r \in 0 .. w - 1, x = w * q + r
    PROVE  x % w = r /\ x \div w = q
OBVIOUS

-----------------------------------------------------------------------------
\* f is what Selected calls kept, up to position n.
IsKept(f, s, keep, n) ==
    f = [k \in 0 .. n |-> IF k = 0 THEN <<>>
                          ELSE IF k \in keep THEN Append(f[k - 1], s[k]) ELSE f[k - 1]]

\* The positions of a sequence can be gone through as Selected does.
LEMMA KeptExists ==
    ASSUME NEW s, NEW keep, NEW n \in Nat
    PROVE  \E f : IsKept(f, s, keep, n)
<1> DEFINE Kept(f, m) == f = [k \in 0 .. m |-> IF k = 0 THEN <<>>
                              ELSE IF k \in keep THEN Append(f[k - 1], s[k]) ELSE f[k - 1]]
<1> DEFINE S == {m \in Nat : \E f : Kept(f, m)}
<1>1. 0 \in S
  <2> DEFINE f == [k \in 0 .. 0 |-> <<>>]
  <2>1. \A k \in 0 .. 0 : k = 0
        OBVIOUS
  <2>2. Kept(f, 0)
        BY <2>1
  <2> HIDE DEF Kept
  <2> QED BY <2>2
<1>2. ASSUME NEW m \in Nat, m \in S PROVE m + 1 \in S
  <2>1. PICK f : Kept(f, m)
        BY <1>2
  <2> DEFINE Last(h) == IF m + 1 \in keep THEN Append(h[m], s[m + 1]) ELSE h[m]
  <2> DEFINE g == [k \in 0 .. m + 1 |-> IF k = m + 1 THEN Last(f) ELSE f[k]]
  <2>2. \A k \in 0 .. m + 1 : k # 0 => g[k - 1] = f[k - 1]
        OBVIOUS
  <2>3. \A k \in 0 .. m : f[k] = IF k = 0 THEN <<>>
                                 ELSE IF k \in keep THEN Append(f[k - 1], s[k]) ELSE f[k - 1]
        BY <2>1
  <2>4. \A k \in 0 .. m + 1 : g[k] = IF k = 0 THEN <<>>
                                     ELSE IF k \in keep THEN Append(g[k - 1], s[k]) ELSE g[k - 1]
    <3> SUFFICES ASSUME NEW k \in 0 .. m + 1
                 PROVE  g[k] = IF k = 0 THEN <<>>
                               ELSE IF k \in keep THEN Append(g[k - 1], s[k]) ELSE g[k - 1]
        OBVIOUS
    <3>1. CASE k = m + 1
      <4>1. g[k] = Last(f) /\ k # 0 /\ k - 1 = m /\ g[k - 1] = f[m]
            BY <3>1, <2>2
      <4> HIDE DEF g
      <4> QED BY <3>1, <4>1
    <3>2. CASE k # m + 1
      <4>1. k \in 0 .. m /\ g[k] = f[k]
            BY <3>2
      <4>2. k # 0 => g[k - 1] = f[k - 1]
            BY <2>2
      <4> HIDE DEF g
      <4> QED BY <2>3, <4>1, <4>2
    <3> QED BY <3>1, <3>2
  <2>5. g = [k \in 0 .. m + 1 |-> g[k]]
        OBVIOUS
  <2>6. Kept(g, m + 1)
    <3> HIDE DEF g
    <3> QED BY <2>4, <2>5
  <2> HIDE DEF Kept
  <2> QED BY <2>6
<1>3. n \in S
  <2> HIDE DEF S
  <2> QED BY <1>1, <1>2, SetInduction
<1> QED BY <1>3 DEF IsKept

\* Selected is where that ends.
LEMMA SelectedIsKept ==
    ASSUME NEW s, Len(s) \in Nat, NEW keep
    PROVE  \E f : IsKept(f, s, keep, Len(s)) /\ Selected(s, keep) = f[Len(s)]
<1> DEFINE Kept(f) == f = [k \in 0 .. Len(s) |-> IF k = 0 THEN <<>>
                           ELSE IF k \in keep THEN Append(f[k - 1], s[k]) ELSE f[k - 1]]
<1> DEFINE kept == CHOOSE f : Kept(f)
<1>1. Selected(s, keep) = kept[Len(s)]
      BY DEF Selected
<1>2. \E f : Kept(f)
  <2>1. \E f : IsKept(f, s, keep, Len(s))
        BY KeptExists
  <2> QED BY <2>1 DEF IsKept
<1>3. Kept(kept)
  <2> HIDE DEF Kept
  <2> QED BY <1>2
<1> HIDE DEF kept
<1> QED BY <1>1, <1>3 DEF IsKept

\* Nothing is selected of an empty sequence.
LEMMA SelectedEmpty == \A keep : Selected(<<>>, keep) = <<>>
<1> TAKE keep
<1>1. Len(<<>>) = 0 OBVIOUS
<1>2. PICK f : IsKept(f, <<>>, keep, 0) /\ Selected(<<>>, keep) = f[0]
      BY <1>1, SelectedIsKept
<1>3. f[0] = <<>> BY <1>2 DEF IsKept
<1> QED BY <1>2, <1>3

\* Two ways through sequences that agree so far stand at the same selection.
LEMMA KeptSame ==
    ASSUME NEW s, NEW t, NEW keep, NEW keep2, NEW n \in Nat, NEW p \in Nat, NEW q \in Nat, n <= p, n <= q,
           NEW f, IsKept(f, s, keep, p), NEW g, IsKept(g, t, keep2, q),
           \A k \in 1 .. n : s[k] = t[k] /\ (k \in keep <=> k \in keep2)
    PROVE  f[n] = g[n]
<1>f. \A k \in 0 .. p : f[k] = IF k = 0 THEN <<>>
                               ELSE IF k \in keep THEN Append(f[k - 1], s[k]) ELSE f[k - 1]
      BY DEF IsKept
<1>g. \A k \in 0 .. q : g[k] = IF k = 0 THEN <<>>
                               ELSE IF k \in keep2 THEN Append(g[k - 1], t[k]) ELSE g[k - 1]
      BY DEF IsKept
<1> DEFINE S == {m \in Nat : m <= n => f[m] = g[m]}
<1>1. 0 \in S
      BY <1>f, <1>g
<1>2. ASSUME NEW m \in Nat, m \in S PROVE m + 1 \in S
  <2> SUFFICES ASSUME m + 1 <= n PROVE f[m + 1] = g[m + 1]
      OBVIOUS
  <2>1. f[m] = g[m] /\ m + 1 \in 1 .. n /\ m + 1 \in 0 .. p /\ m + 1 \in 0 .. q /\ m + 1 # 0 /\ (m + 1) - 1 = m
        BY <1>2
  <2>2. f[m + 1] = IF m + 1 \in keep THEN Append(f[m], s[m + 1]) ELSE f[m]
        BY <1>f, <2>1
  <2>3. g[m + 1] = IF m + 1 \in keep2 THEN Append(g[m], t[m + 1]) ELSE g[m]
        BY <1>g, <2>1
  <2> QED BY <2>1, <2>2, <2>3
<1>3. n \in S
  <2> HIDE DEF S
  <2> QED BY <1>1, <1>2, SetInduction
<1> QED BY <1>3

\* Selecting from a sequence that has grown by an element: the selection grows
\* by it or stays.
LEMMA SelectedAppend ==
    ASSUME NEW S, NEW s \in Seq(S), NEW e \in S, NEW keep, NEW keep2,
           \A k \in 1 .. Len(s) : k \in keep <=> k \in keep2
    PROVE  Selected(Append(s, e), keep2)
             = IF Len(s) + 1 \in keep2 THEN Append(Selected(s, keep), e) ELSE Selected(s, keep)
<1> DEFINE n == Len(s)
<1> DEFINE t == Append(s, e)
<1>1. n \in Nat /\ Len(t) = n + 1 /\ t[n + 1] = e /\ \A k \in 1 .. n : t[k] = s[k]
      OBVIOUS
<1> HIDE DEF t
<1>2. PICK f : IsKept(f, s, keep, n) /\ Selected(s, keep) = f[n]
      BY <1>1, SelectedIsKept
<1>3. PICK g : IsKept(g, t, keep2, n + 1) /\ Selected(t, keep2) = g[n + 1]
      BY <1>1, SelectedIsKept
<1>4. f[n] = g[n]
  <2>1. n \in Nat /\ n + 1 \in Nat /\ n <= n /\ n <= n + 1
        BY <1>1
  <2>2. \A k \in 1 .. n : s[k] = t[k] /\ (k \in keep <=> k \in keep2)
        BY <1>1
  <2>3. IsKept(f, s, keep, n) /\ IsKept(g, t, keep2, n + 1)
        BY <1>2, <1>3
  <2> HIDE DEF n
  <2> QED BY <2>1, <2>2, <2>3, KeptSame
<1>5. g[n + 1] = IF n + 1 \in keep2 THEN Append(g[n], t[n + 1]) ELSE g[n]
  <2>1. \A k \in 0 .. n + 1 : g[k] = IF k = 0 THEN <<>>
                                     ELSE IF k \in keep2 THEN Append(g[k - 1], t[k]) ELSE g[k - 1]
        BY <1>3 DEF IsKept
  <2>2. n + 1 \in 0 .. n + 1 /\ n + 1 # 0 /\ (n + 1) - 1 = n
        BY <1>1
  <2> HIDE DEF n
  <2> QED BY <2>1, <2>2
<1> QED BY <1>1, <1>2, <1>3, <1>4, <1>5 DEF t

\* What is selected are elements of the sequence at the positions named.
LEMMA SelectedFrom ==
    ASSUME NEW s, Len(s) \in Nat, NEW keep
    PROVE  Selected(s, keep) \in Seq({s[k] : k \in 1 .. Len(s) \cap keep})
<1> DEFINE T == {s[k] : k \in 1 .. Len(s) \cap keep}
<1>1. PICK f : IsKept(f, s, keep, Len(s)) /\ Selected(s, keep) = f[Len(s)]
      BY SelectedIsKept
<1>f. \A k \in 0 .. Len(s) : f[k] = IF k = 0 THEN <<>>
                                    ELSE IF k \in keep THEN Append(f[k - 1], s[k]) ELSE f[k - 1]
      BY <1>1 DEF IsKept
<1> DEFINE M == {m \in Nat : m <= Len(s) => f[m] \in Seq(T)}
<1>2. 0 \in M
  <2>1. f[0] = <<>>
        BY <1>f
  <2> HIDE DEF T
  <2>2. f[0] \in Seq(T)
        BY <2>1, EmptySeq
  <2> QED BY <2>2
<1>3. ASSUME NEW m \in Nat, m \in M PROVE m + 1 \in M
  <2> SUFFICES ASSUME m + 1 <= Len(s) PROVE f[m + 1] \in Seq(T)
      OBVIOUS
  <2>1. f[m] \in Seq(T) /\ m + 1 \in 0 .. Len(s) /\ m + 1 \in 1 .. Len(s) /\ m + 1 # 0 /\ (m + 1) - 1 = m
        BY <1>3
  <2>2. f[m + 1] = IF m + 1 \in keep THEN Append(f[m], s[m + 1]) ELSE f[m]
        BY <1>f, <2>1
  <2>3. m + 1 \in keep => s[m + 1] \in T
        BY <2>1
  <2> HIDE DEF T
  <2> QED BY <2>1, <2>2, <2>3
<1>4. Len(s) \in M
  <2> HIDE DEF M
  <2> QED BY <1>2, <1>3, SetInduction
<1> QED BY <1>1, <1>4

\* A selection has the type of the sequence.
LEMMA SelectedTyped ==
    ASSUME NEW S, NEW s \in Seq(S), NEW keep
    PROVE  Selected(s, keep) \in Seq(S)
<1> DEFINE T == {s[k] : k \in 1 .. Len(s) \cap keep}
<1>1. Len(s) \in Nat /\ T \subseteq S
      OBVIOUS
<1>2. Selected(s, keep) \in Seq(T)
      BY <1>1, SelectedFrom
<1> HIDE DEF T
<1> QED BY <1>1, <1>2, SeqMonotonic

\* f is what Folded calls acc, up to position n.
IsFolded(f, base, s, n) == f = [k \in 0 .. n |-> IF k = 0 THEN 0 ELSE f[k - 1] * base + s[k]]

\* The numbers of a sequence can be gone through as Folded does.
LEMMA FoldedExists ==
    ASSUME NEW base, NEW s, NEW n \in Nat
    PROVE  \E f : IsFolded(f, base, s, n)
<1> DEFINE Acc(f, m) == f = [k \in 0 .. m |-> IF k = 0 THEN 0 ELSE f[k - 1] * base + s[k]]
<1> DEFINE S == {m \in Nat : \E f : Acc(f, m)}
<1>1. 0 \in S
  <2> DEFINE f == [k \in 0 .. 0 |-> 0]
  <2>1. \A k \in 0 .. 0 : k = 0
        OBVIOUS
  <2>2. Acc(f, 0)
        BY <2>1
  <2> HIDE DEF Acc
  <2> QED BY <2>2
<1>2. ASSUME NEW m \in Nat, m \in S PROVE m + 1 \in S
  <2>1. PICK f : Acc(f, m)
        BY <1>2
  <2> PICK last : last = f[m] * base + s[m + 1]
      OBVIOUS
  <2> DEFINE g == [k \in 0 .. m + 1 |-> IF k = m + 1 THEN last ELSE f[k]]
  <2>2. \A k \in 0 .. m + 1 : k # 0 => g[k - 1] = f[k - 1]
        OBVIOUS
  <2>3. \A k \in 0 .. m : f[k] = IF k = 0 THEN 0 ELSE f[k - 1] * base + s[k]
        BY <2>1
  <2>4. \A k \in 0 .. m + 1 : g[k] = IF k = 0 THEN 0 ELSE g[k - 1] * base + s[k]
    <3> SUFFICES ASSUME NEW k \in 0 .. m + 1
                 PROVE  g[k] = IF k = 0 THEN 0 ELSE g[k - 1] * base + s[k]
        OBVIOUS
    <3>1. CASE k = m + 1
      <4>1. g[k] = last /\ k # 0 /\ k - 1 = m /\ g[k - 1] = f[m]
            BY <3>1, <2>2
      <4> HIDE DEF g
      <4> QED BY <3>1, <4>1
    <3>2. CASE k # m + 1
      <4>1. k \in 0 .. m /\ g[k] = f[k]
            BY <3>2
      <4>2. k # 0 => g[k - 1] = f[k - 1]
            BY <2>2
      <4> HIDE DEF g
      <4> QED BY <2>3, <4>1, <4>2
    <3> QED BY <3>1, <3>2
  <2>5. g = [k \in 0 .. m + 1 |-> g[k]]
        OBVIOUS
  <2>6. Acc(g, m + 1)
    <3> HIDE DEF g
    <3> QED BY <2>4, <2>5
  <2> HIDE DEF Acc
  <2> QED BY <2>6
<1>3. n \in S
  <2> HIDE DEF S
  <2> QED BY <1>1, <1>2, SetInduction
<1> QED BY <1>3 DEF IsFolded

\* The same, as the values f has one after the other.
FoldsTo(f, base, s, n) == f[0] = 0 /\ \A k \in 1 .. n : f[k] = f[k - 1] * base + s[k]

\* Folded is where that ends.
LEMMA FoldedIs ==
    ASSUME NEW base, NEW s, Len(s) \in Nat
    PROVE  \E f : FoldsTo(f, base, s, Len(s)) /\ Folded(base, s) = f[Len(s)]
<1> DEFINE Acc(f) == f = [k \in 0 .. Len(s) |-> IF k = 0 THEN 0 ELSE f[k - 1] * base + s[k]]
<1> DEFINE acc == CHOOSE f : Acc(f)
<1>1. Folded(base, s) = acc[Len(s)]
      BY DEF Folded
<1>2. \E f : Acc(f)
  <2>1. \E f : IsFolded(f, base, s, Len(s))
        BY FoldedExists
  <2> QED BY <2>1 DEF IsFolded
<1>3. Acc(acc)
  <2> HIDE DEF Acc
  <2> QED BY <1>2
<1> HIDE DEF acc
<1>4. \A k \in 0 .. Len(s) : acc[k] = IF k = 0 THEN 0 ELSE acc[k - 1] * base + s[k]
      BY <1>3
<1>5. acc[0] = 0 /\ \A k \in 1 .. Len(s) : acc[k] = acc[k - 1] * base + s[k]
  <2> HIDE DEF Acc
  <2> QED BY <1>4
<1> QED BY <1>1, <1>5 DEF FoldsTo

\* What it makes of up to two numbers.
LEMMA FoldedFew ==
    ASSUME NEW base \in Int, NEW a \in Int, NEW b \in Int
    PROVE  Folded(base, <<>>) = 0 /\ Folded(base, <<a>>) = a /\ Folded(base, <<a, b>>) = a * base + b
<1>1. Folded(base, <<>>) = 0
  <2>1. PICK f : f[0] = 0 /\ Folded(base, <<>>) = f[0]
        BY FoldedIs DEF FoldsTo
  <2> QED BY <2>1
<1>2. Folded(base, <<a>>) = a
  <2> PICK s : s = <<a>>
      OBVIOUS
  <2>1. 1 \in Nat /\ 1 = Len(s) /\ s[1] = a
        OBVIOUS
  <2>2. PICK f : FoldsTo(f, base, s, 1) /\ Folded(base, s) = f[1]
        BY <2>1, FoldedIs
  <2>3. f[0] = 0 /\ f[1] = f[1 - 1] * base + s[1]
        BY <2>2 DEF FoldsTo
  <2> QED BY <2>1, <2>2, <2>3
<1>3. Folded(base, <<a, b>>) = a * base + b
  <2> PICK s : s = <<a, b>>
      OBVIOUS
  <2>1. 2 \in Nat /\ 2 = Len(s) /\ s[1] = a /\ s[2] = b
        OBVIOUS
  <2>2. PICK f : FoldsTo(f, base, s, 2) /\ Folded(base, s) = f[2]
        BY <2>1, FoldedIs
  <2>3. f[0] = 0 /\ f[1] = f[1 - 1] * base + s[1] /\ f[2] = f[2 - 1] * base + s[2]
        BY <2>2 DEF FoldsTo
  <2>4. f[1] = a
        BY <2>1, <2>2, <2>3
  <2> QED BY <2>1, <2>2, <2>3, <2>4
<1> QED BY <1>1, <1>2, <1>3

\* Folding the same numbers gives the same.
LEMMA FoldsAgree ==
    ASSUME NEW base, NEW s, NEW t, NEW n \in Nat, NEW f, NEW g,
           FoldsTo(f, base, s, n), FoldsTo(g, base, t, n), \A k \in 1 .. n : s[k] = t[k]
    PROVE  f[n] = g[n]
<1> DEFINE S == {k \in Nat : k <= n => f[k] = g[k]}
<1>1. 0 \in S
      BY DEF FoldsTo
<1>2. ASSUME NEW k \in Nat, k \in S PROVE k + 1 \in S
  <2> SUFFICES ASSUME k + 1 <= n PROVE f[k + 1] = g[k + 1]
      OBVIOUS
  <2>1. k + 1 \in 1 .. n /\ (k + 1) - 1 = k /\ f[k] = g[k]
        BY <1>2
  <2>2. f[k + 1] = f[(k + 1) - 1] * base + s[k + 1] /\ g[k + 1] = g[(k + 1) - 1] * base + t[k + 1]
        BY <2>1 DEF FoldsTo
  <2> QED BY <2>1, <2>2
<1>3. n \in S
  <2> HIDE DEF S
  <2> QED BY <1>1, <1>2, SetInduction
<1> QED BY <1>3

\* One number more.
LEMMA FoldedAppend ==
    ASSUME NEW base, NEW s, NEW t, NEW n \in Nat, Len(s) = n, Len(t) = n + 1, \A k \in 1 .. n : s[k] = t[k]
    PROVE  Folded(base, t) = Folded(base, s) * base + t[n + 1]
<1>1. PICK f : FoldsTo(f, base, s, n) /\ Folded(base, s) = f[n]
      BY FoldedIs
<1>2. n + 1 \in Nat /\ Len(t) \in Nat
      OBVIOUS
<1>3. PICK g : FoldsTo(g, base, t, n + 1) /\ Folded(base, t) = g[n + 1]
      BY <1>2, FoldedIs
<1>4. FoldsTo(g, base, t, n) /\ g[n + 1] = g[(n + 1) - 1] * base + t[n + 1]
      BY <1>3 DEF FoldsTo
<1>5. f[n] = g[n]
      BY <1>1, <1>4, FoldsAgree
<1>6. (n + 1) - 1 = n
      OBVIOUS
<1> QED BY <1>1, <1>3, <1>4, <1>5, <1>6

\* A sum with one number more.
LEMMA TotalAppend ==
    ASSUME NEW s, NEW t, NEW n \in Nat, Len(s) = n, Len(t) = n + 1, \A k \in 1 .. n : s[k] = t[k], Total(s) \in Nat
    PROVE  Total(t) = Total(s) + t[n + 1]
<1>1. \A base : Folded(base, t) = Folded(base, s) * base + t[n + 1]
      BY FoldedAppend
<1>2. Folded(1, t) = Folded(1, s) * 1 + t[n + 1]
      BY <1>1
<1> QED BY <1>2 DEF Total

\* Even numbers add up to one.
LEMMA EvenSum == ASSUME NEW a \in Nat, NEW b \in Nat, a % 2 = 0, b % 2 = 0 PROVE (a + b) % 2 = 0
OBVIOUS

\* The same of any two.
LEMMA EvenSums == \A a, b \in Nat : a % 2 = 0 /\ b % 2 = 0 => a + b \in Nat /\ (a + b) % 2 = 0
BY EvenSum

\* Sums of naturals, and of even ones.
LEMMA TotalNat ==
    ASSUME NEW s, NEW n \in Nat, Len(s) = n, \A k \in 1 .. n : s[k] \in Nat
    PROVE  Total(s) \in Nat /\ ((\A k \in 1 .. n : s[k] % 2 = 0) => Total(s) % 2 = 0)
<1>1. PICK f : FoldsTo(f, 1, s, n) /\ Folded(1, s) = f[n]
      BY FoldedIs
<1>2. f[0] = 0 /\ \A k \in 1 .. n : f[k] = f[k - 1] * 1 + s[k]
      BY <1>1 DEF FoldsTo
<1> DEFINE Even2 == \A k \in 1 .. n : s[k] % 2 = 0
<1> DEFINE S == {k \in Nat : k <= n => f[k] \in Nat /\ (Even2 => f[k] % 2 = 0)}
<1>3. 0 \in S
      BY <1>2
<1>4. ASSUME NEW k \in Nat, k \in S PROVE k + 1 \in S
  <2> SUFFICES ASSUME k + 1 <= n PROVE f[k + 1] \in Nat /\ (Even2 => f[k + 1] % 2 = 0)
      OBVIOUS
  <2>1. k + 1 \in 1 .. n /\ (k + 1) - 1 = k /\ f[k] \in Nat /\ (Even2 => f[k] % 2 = 0)
        BY <1>4
  <2>2. s[k + 1] \in Nat /\ (Even2 => s[k + 1] % 2 = 0)
        BY <2>1
  <2>3. f[k + 1] = f[k] * 1 + s[k + 1]
        BY <1>2, <2>1
  <2> HIDE DEF Even2
  <2> PICK a \in Nat, b \in Nat : a = f[k] /\ b = s[k + 1] /\ f[k + 1] = a + b
      BY <2>1, <2>2, <2>3
  <2>4. a % 2 = 0 /\ b % 2 = 0 => (a + b) % 2 = 0
        BY EvenSum
  <2> QED BY <2>1, <2>2, <2>4
<1>5. n \in S
  <2> HIDE DEF S
  <2> QED BY <1>3, <1>4, SetInduction
<1> QED BY <1>1, <1>5 DEF Total

\* f is what Joined calls acc, up to position n.
IsJoined(f, ss, n) == f = [k \in 0 .. n |-> IF k = 0 THEN <<>> ELSE f[k - 1] \o ss[k]]

\* Sequences can be gone through as Joined does.
LEMMA JoinedExists ==
    ASSUME NEW ss, NEW n \in Nat
    PROVE  \E f : IsJoined(f, ss, n)
<1> DEFINE Acc(f, m) == f = [k \in 0 .. m |-> IF k = 0 THEN <<>> ELSE f[k - 1] \o ss[k]]
<1> DEFINE S == {m \in Nat : \E f : Acc(f, m)}
<1>1. 0 \in S
  <2> DEFINE f == [k \in 0 .. 0 |-> <<>>]
  <2>1. \A k \in 0 .. 0 : k = 0
        OBVIOUS
  <2>2. Acc(f, 0)
        BY <2>1
  <2> HIDE DEF Acc
  <2> QED BY <2>2
<1>2. ASSUME NEW m \in Nat, m \in S PROVE m + 1 \in S
  <2>1. PICK f : Acc(f, m)
        BY <1>2
  <2> PICK last : last = f[m] \o ss[m + 1]
      OBVIOUS
  <2> DEFINE g == [k \in 0 .. m + 1 |-> IF k = m + 1 THEN last ELSE f[k]]
  <2>2. \A k \in 0 .. m + 1 : k # 0 => g[k - 1] = f[k - 1]
        OBVIOUS
  <2>3. \A k \in 0 .. m : f[k] = IF k = 0 THEN <<>> ELSE f[k - 1] \o ss[k]
        BY <2>1
  <2>4. \A k \in 0 .. m + 1 : g[k] = IF k = 0 THEN <<>> ELSE g[k - 1] \o ss[k]
    <3> SUFFICES ASSUME NEW k \in 0 .. m + 1
                 PROVE  g[k] = IF k = 0 THEN <<>> ELSE g[k - 1] \o ss[k]
        OBVIOUS
    <3>1. CASE k = m + 1
      <4>1. g[k] = last /\ k # 0 /\ k - 1 = m /\ g[k - 1] = f[m]
            BY <3>1, <2>2
      <4> HIDE DEF g
      <4> QED BY <3>1, <4>1
    <3>2. CASE k # m + 1
      <4>1. k \in 0 .. m /\ g[k] = f[k]
            BY <3>2
      <4>2. k # 0 => g[k - 1] = f[k - 1]
            BY <2>2
      <4> HIDE DEF g
      <4> QED BY <2>3, <4>1, <4>2
    <3> QED BY <3>1, <3>2
  <2>5. g = [k \in 0 .. m + 1 |-> g[k]]
        OBVIOUS
  <2>6. Acc(g, m + 1)
    <3> HIDE DEF g
    <3> QED BY <2>4, <2>5
  <2> HIDE DEF Acc
  <2> QED BY <2>6
<1>3. n \in S
  <2> HIDE DEF S
  <2> QED BY <1>1, <1>2, SetInduction
<1> QED BY <1>3 DEF IsJoined

\* The same, as the values f has one after the other.
JoinsTo(f, ss, n) == f[0] = <<>> /\ \A k \in 1 .. n : f[k] = f[k - 1] \o ss[k]

\* Joined is where that ends.
LEMMA JoinedIs ==
    ASSUME NEW ss, Len(ss) \in Nat
    PROVE  \E f : JoinsTo(f, ss, Len(ss)) /\ Joined(ss) = f[Len(ss)]
<1> DEFINE Acc(f) == f = [k \in 0 .. Len(ss) |-> IF k = 0 THEN <<>> ELSE f[k - 1] \o ss[k]]
<1> DEFINE acc == CHOOSE f : Acc(f)
<1>1. Joined(ss) = acc[Len(ss)]
      BY DEF Joined
<1>2. \E f : Acc(f)
  <2>1. \E f : IsJoined(f, ss, Len(ss))
        BY JoinedExists
  <2> QED BY <2>1 DEF IsJoined
<1>3. Acc(acc)
  <2> HIDE DEF Acc
  <2> QED BY <1>2
<1> HIDE DEF acc
<1>4. \A k \in 0 .. Len(ss) : acc[k] = IF k = 0 THEN <<>> ELSE acc[k - 1] \o ss[k]
      BY <1>3
<1>5. acc[0] = <<>> /\ \A k \in 1 .. Len(ss) : acc[k] = acc[k - 1] \o ss[k]
  <2> HIDE DEF Acc
  <2>1. \A k \in 1 .. Len(ss) : k \in 0 .. Len(ss) /\ k # 0
        OBVIOUS
  <2>2. 0 \in 0 .. Len(ss)
        OBVIOUS
  <2> QED BY <1>4, <2>1, <2>2
<1> QED BY <1>1, <1>5 DEF JoinsTo

\* The first numbers of ns, before the one at k.
UpTo(ns, k) == [j \in 1 .. k - 1 |-> ns[j]]

\* Their sum grows by the number that comes next.
LEMMA TotalUpTo ==
    ASSUME NEW m \in Nat, NEW ns \in [1 .. m -> Nat]
    PROVE  /\ Total(UpTo(ns, 1)) = 0
           /\ \A k \in 1 .. m + 1 : Total(UpTo(ns, k)) \in Nat
           /\ \A k \in 1 .. m : Total(UpTo(ns, k + 1)) = Total(UpTo(ns, k)) + ns[k]
           /\ (\A j \in 1 .. m : ns[j] % 2 = 0) => \A k \in 1 .. m + 1 : Total(UpTo(ns, k)) % 2 = 0
<1>1. ASSUME NEW k \in 1 .. m + 1
      PROVE  /\ Len(UpTo(ns, k)) = k - 1 /\ k - 1 \in Nat
             /\ \A j \in 1 .. k - 1 : UpTo(ns, k)[j] = ns[j] /\ j \in 1 .. m /\ ns[j] \in Nat
  <2> PICK u : u = UpTo(ns, k)
      OBVIOUS
  <2>1. u = [j \in 1 .. k - 1 |-> ns[j]] /\ \A j \in 1 .. k - 1 : j \in 1 .. m
        BY DEF UpTo
  <2>2. u \in [1 .. k - 1 -> Nat] /\ k - 1 \in Nat
        BY <2>1
  <2>3. Len(u) = k - 1
        BY <2>2
  <2> QED BY <2>1, <2>2, <2>3
<1>2. ASSUME NEW k \in 1 .. m + 1
      PROVE  /\ Total(UpTo(ns, k)) \in Nat
             /\ (\A j \in 1 .. m : ns[j] % 2 = 0) => Total(UpTo(ns, k)) % 2 = 0
  <2> PICK n \in Nat : n = k - 1
      BY <1>1
  <2> PICK u : u = UpTo(ns, k)
      OBVIOUS
  <2>1. Len(u) = n /\ \A j \in 1 .. n : u[j] = ns[j] /\ j \in 1 .. m /\ u[j] \in Nat
        BY <1>1
  <2>2. Total(u) \in Nat /\ ((\A j \in 1 .. n : u[j] % 2 = 0) => Total(u) % 2 = 0)
        BY <2>1, TotalNat
  <2> QED BY <2>1, <2>2
<1>3. ASSUME NEW k \in 1 .. m PROVE Total(UpTo(ns, k + 1)) = Total(UpTo(ns, k)) + ns[k]
  <2> PICK n \in Nat : n = k - 1
      OBVIOUS
  <2> PICK u, v : u = UpTo(ns, k) /\ v = UpTo(ns, k + 1)
      OBVIOUS
  <2>1. k \in 1 .. m + 1 /\ k + 1 \in 1 .. m + 1 /\ (k + 1) - 1 = n + 1 /\ n + 1 = k
        OBVIOUS
  <2>2. Len(u) = n /\ \A j \in 1 .. n : u[j] = ns[j]
        BY <1>1, <2>1
  <2>3. Len(v) = n + 1 /\ \A j \in 1 .. n + 1 : v[j] = ns[j]
        BY <1>1, <2>1
  <2>4. \A j \in 1 .. n : u[j] = v[j]
        BY <2>2, <2>3
  <2>5. v[n + 1] = ns[k] /\ ns[k] \in Nat /\ Total(u) \in Nat
        BY <1>2, <2>1, <2>3
  <2>6. Total(v) = Total(u) + v[n + 1]
        BY <2>2, <2>3, <2>4, <2>5, TotalAppend
  <2> QED BY <2>5, <2>6
<1>4. Total(UpTo(ns, 1)) = 0
  <2> PICK u : u = UpTo(ns, 1)
      OBVIOUS
  <2>1. Len(u) = 0 /\ Len(u) \in Nat
        BY <1>1
  <2>2. PICK f : FoldsTo(f, 1, u, Len(u)) /\ Folded(1, u) = f[Len(u)]
        BY <2>1, FoldedIs
  <2> QED BY <2>1, <2>2 DEF FoldsTo, Total
<1> QED BY <1>2, <1>3, <1>4

\* Joining the same sequences gives the same.
LEMMA JoinsAgree ==
    ASSUME NEW s, NEW t, NEW n \in Nat, NEW f, NEW g,
           JoinsTo(f, s, n), JoinsTo(g, t, n), \A k \in 1 .. n : s[k] = t[k]
    PROVE  f[n] = g[n]
<1> DEFINE S == {k \in Nat : k <= n => f[k] = g[k]}
<1>1. 0 \in S
      BY DEF JoinsTo
<1>2. ASSUME NEW k \in Nat, k \in S PROVE k + 1 \in S
  <2> SUFFICES ASSUME k + 1 <= n PROVE f[k + 1] = g[k + 1]
      OBVIOUS
  <2>1. k + 1 \in 1 .. n /\ (k + 1) - 1 = k /\ f[k] = g[k]
        BY <1>2
  <2>2. f[k + 1] = f[(k + 1) - 1] \o s[k + 1] /\ g[k + 1] = g[(k + 1) - 1] \o t[k + 1]
        BY <2>1 DEF JoinsTo
  <2> QED BY <2>1, <2>2
<1>3. n \in S
  <2> HIDE DEF S
  <2> QED BY <1>1, <1>2, SetInduction
<1> QED BY <1>3

\* Joining one sequence more.
LEMMA JoinedAppend ==
    ASSUME NEW s, NEW t, NEW n \in Nat, Len(s) = n, Len(t) = n + 1, \A k \in 1 .. n : s[k] = t[k]
    PROVE  Joined(t) = Joined(s) \o t[n + 1]
<1>1. PICK f : JoinsTo(f, s, n) /\ Joined(s) = f[n]
      BY JoinedIs
<1>2. n + 1 \in Nat /\ Len(t) \in Nat
      OBVIOUS
<1>3. PICK g : JoinsTo(g, t, n + 1) /\ Joined(t) = g[n + 1]
      BY <1>2, JoinedIs
<1>4. JoinsTo(g, t, n) /\ g[n + 1] = g[(n + 1) - 1] \o t[n + 1]
  <2>1. g[0] = <<>> /\ \A k \in 1 .. n + 1 : g[k] = g[k - 1] \o t[k]
        BY <1>3 DEF JoinsTo
  <2>2. n + 1 \in 1 .. n + 1 /\ \A k \in 1 .. n : k \in 1 .. n + 1
        OBVIOUS
  <2> QED BY <2>1, <2>2 DEF JoinsTo
<1>5. f[n] = g[n]
      BY <1>1, <1>4, JoinsAgree
<1>6. (n + 1) - 1 = n
      OBVIOUS
<1> QED BY <1>1, <1>3, <1>4, <1>5, <1>6

\* Joining nothing.
LEMMA JoinedEmpty == ASSUME NEW ss, Len(ss) = 0 PROVE Joined(ss) = <<>>
<1>1. Len(ss) \in Nat
      OBVIOUS
<1>2. PICK f : JoinsTo(f, ss, Len(ss)) /\ Joined(ss) = f[Len(ss)]
      BY <1>1, JoinedIs
<1> QED BY <1>2 DEF JoinsTo

\* Places in one of two sequences are places behind one another, too.
LEMMA InSum == ASSUME NEW a \in Nat, NEW b \in Nat, NEW x, x \in 1 .. b PROVE a + x \in 1 .. a + b
OBVIOUS
\* The first of them as they are.
LEMMA InSumToo == ASSUME NEW a \in Nat, NEW b \in Nat, NEW x, x \in 1 .. a PROVE x \in 1 .. a + b
OBVIOUS

\* n sequences over S, and their lengths.
SeqsOver(S, ss, n) == Len(ss) = n /\ \A i \in 1 .. n : ss[i] \in Seq(S)
LengthsOf(ss, n) == [i \in 1 .. n |-> Len(ss[i])]

\* A function on 1 .. n is a sequence.
LEMMA FunctionIsSeq ==
    ASSUME NEW T, NEW n \in Nat, NEW u, u \in [1 .. n -> T]
    PROVE  u \in Seq(T) /\ Len(u) = n /\ DOMAIN u = 1 .. n
<1>1. u \in Seq(T)
      BY SeqDef
<1>2. DOMAIN u = 1 .. n
      OBVIOUS
<1> QED BY <1>1, <1>2, LenProperties

\* The joins are sequences over S as long as their parts together.
JoinsFit(f, S, ls, n) == \A m \in 0 .. n : f[m] \in Seq(S) /\ Len(f[m]) = Total(UpTo(ls, m + 1))

\* Two sequences one behind the other, place by place.
IsConcat(S, u, v, w) ==
    /\ w \in Seq(S) /\ Len(w) = Len(u) + Len(v) /\ Len(u) \in Nat /\ Len(v) \in Nat
    /\ \A y \in 1 .. Len(u) : w[y] = u[y]
    /\ \A y \in 1 .. Len(v) : w[Len(u) + y] = v[y]

\* That is what concatenation gives.
LEMMA ConcatIs ==
    ASSUME NEW S, NEW u \in Seq(S), NEW v \in Seq(S), NEW w, w = u \o v
    PROVE  IsConcat(S, u, v, w)
<1>1. /\ w \in Seq(S) /\ Len(w) = Len(u) + Len(v) /\ Len(u) \in Nat /\ Len(v) \in Nat
      /\ \A y \in 1 .. Len(u) + Len(v) : w[y] = IF y <= Len(u) THEN u[y] ELSE v[y - Len(u)]
      BY ConcatProperties, LenProperties
<1>2. ASSUME NEW y \in 1 .. Len(v) PROVE w[Len(u) + y] = v[y]
  <2>1. Len(u) + y \in 1 .. Len(u) + Len(v) /\ ~(Len(u) + y <= Len(u)) /\ (Len(u) + y) - Len(u) = y
        BY <1>1
  <2> QED BY <1>1, <2>1
<1> QED BY <1>1, <1>2 DEF IsConcat

\* Where the first of the joined sequences end, and what the joins are.
LEMMA JoinsTyped ==
    ASSUME NEW S, NEW n \in Nat, NEW ss, NEW f, JoinsTo(f, ss, n), SeqsOver(S, ss, n),
           NEW ls, ls = LengthsOf(ss, n)
    PROVE  ls \in [1 .. n -> Nat] /\ JoinsFit(f, S, ls, n)
<1>1. ls \in [1 .. n -> Nat] /\ \A i \in 1 .. n : ls[i] = Len(ss[i])
      BY LenProperties DEF SeqsOver, LengthsOf
<1>2. /\ Total(UpTo(ls, 1)) = 0
      /\ \A k \in 1 .. n : Total(UpTo(ls, k + 1)) = Total(UpTo(ls, k)) + ls[k]
      BY <1>1, TotalUpTo
<1> DEFINE M == {m \in Nat : m <= n => f[m] \in Seq(S) /\ Len(f[m]) = Total(UpTo(ls, m + 1))}
<1>3. 0 \in M
  <2>1. 0 + 1 = 1 /\ f[0] = <<>>
        BY DEF JoinsTo
  <2>2. f[0] \in Seq(S) /\ Len(f[0]) = 0
        BY <2>1, EmptySeq
  <2>3. Len(f[0]) = Total(UpTo(ls, 0 + 1))
        BY <1>2, <2>1, <2>2
  <2> QED BY <2>2, <2>3
<1>4. ASSUME NEW m \in Nat, m \in M PROVE m + 1 \in M
  <2> SUFFICES ASSUME m + 1 <= n
               PROVE  f[m + 1] \in Seq(S) /\ Len(f[m + 1]) = Total(UpTo(ls, (m + 1) + 1))
      OBVIOUS
  <2> PICK k \in 1 .. n : k = m + 1
      OBVIOUS
  <2>1. f[m] \in Seq(S) /\ Len(f[m]) = Total(UpTo(ls, k)) /\ ss[k] \in Seq(S) /\ k - 1 = m
        BY <1>4 DEF SeqsOver
  <2> PICK u \in Seq(S) : u = f[m]
      BY <2>1
  <2> PICK v \in Seq(S) : v = ss[k]
      BY <2>1
  <2>2. f[k] = u \o v
    <3>1. f[k] = f[k - 1] \o ss[k]
          BY DEF JoinsTo
    <3> QED BY <2>1, <3>1
  <2>3. f[k] \in Seq(S) /\ Len(f[k]) = Len(u) + Len(v)
        BY <2>2, ConcatProperties
  <2>4. Total(UpTo(ls, k + 1)) = Total(UpTo(ls, k)) + Len(v)
        BY <1>1, <1>2
  <2> QED BY <2>1, <2>3, <2>4
<1>5. \A m \in 0 .. n : m \in M
  <2>1. Nat \subseteq M
    <3> HIDE DEF M
    <3> QED BY <1>3, <1>4, SetInduction
  <2> HIDE DEF M
  <2> QED BY <2>1
<1>6. JoinsFit(f, S, ls, n)
      BY <1>5 DEF JoinsFit
<1> QED BY <1>1, <1>6

\* What is joined is of the same elements.
LEMMA JoinedTyped ==
    ASSUME NEW S, NEW n \in Nat, NEW ss, SeqsOver(S, ss, n)
    PROVE  Joined(ss) \in Seq(S)
<1>1. PICK f : JoinsTo(f, ss, n) /\ Joined(ss) = f[n]
      BY JoinedIs DEF SeqsOver
<1> PICK ls : ls = LengthsOf(ss, n)
    OBVIOUS
<1>2. JoinsFit(f, S, ls, n)
      BY <1>1, JoinsTyped
<1>3. n \in 0 .. n
      OBVIOUS
<1> QED BY <1>1, <1>2, <1>3 DEF JoinsFit

\* An element of one of the sequences is in its place behind those before.
InItsPlace(ss, ls, i, x) == Joined(ss)[Total(UpTo(ls, i)) + x] = ss[i][x]

\* Every element is.
LEMMA JoinedPlaces ==
    ASSUME NEW S, NEW n \in Nat, NEW ss, SeqsOver(S, ss, n),
           NEW ls, ls = LengthsOf(ss, n),
           NEW i \in 1 .. n, NEW x \in 1 .. Len(ss[i])
    PROVE  InItsPlace(ss, ls, i, x)
<1>1. PICK f : JoinsTo(f, ss, n) /\ Joined(ss) = f[n]
      BY JoinedIs DEF SeqsOver
<1>2. ls \in [1 .. n -> Nat] /\ JoinsFit(f, S, ls, n)
      BY <1>1, JoinsTyped
<1> PICK a : a = Total(UpTo(ls, i))
    OBVIOUS
<1> PICK p \in 0 .. n : p = i - 1
    OBVIOUS
<1>3. f[p] \in Seq(S) /\ Len(f[p]) = a /\ a \in Nat /\ p + 1 = i
  <2>1. p + 1 = i /\ i \in 1 .. n + 1
        OBVIOUS
  <2>2. a \in Nat
        BY <1>2, <2>1, TotalUpTo
  <2> QED BY <1>2, <2>1, <2>2 DEF JoinsFit
<1>4. ss[i] \in Seq(S) /\ Len(ss[i]) \in Nat
      BY LenProperties DEF SeqsOver
<1> DEFINE M == {m \in Nat : i <= m /\ m <= n => a + x \in 1 .. Len(f[m]) /\ f[m][a + x] = ss[i][x]}
<1>5. 0 \in M
      OBVIOUS
<1>6. ASSUME NEW m \in Nat, m \in M PROVE m + 1 \in M
  <2> SUFFICES ASSUME i <= m + 1, m + 1 <= n
               PROVE  a + x \in 1 .. Len(f[m + 1]) /\ f[m + 1][a + x] = ss[i][x]
      OBVIOUS
  <2> PICK k \in 1 .. n : k = m + 1
      OBVIOUS
  <2>1. m \in 0 .. n /\ k - 1 = m
        OBVIOUS
  <2> PICK u \in Seq(S) : u = f[m]
      BY <1>2, <2>1 DEF JoinsFit
  <2> PICK v \in Seq(S) : v = ss[k]
      BY DEF SeqsOver
  <2> PICK w : w = f[k]
      OBVIOUS
  <2>2. w = u \o v
    <3>1. f[k] = f[k - 1] \o ss[k]
          BY <1>1 DEF JoinsTo
    <3> QED BY <2>1, <3>1
  <2>3. /\ Len(w) = Len(u) + Len(v) /\ Len(u) \in Nat /\ Len(v) \in Nat
        /\ \A y \in 1 .. Len(u) : w[y] = u[y]
        /\ \A y \in 1 .. Len(v) : w[Len(u) + y] = v[y]
    <3>1. IsConcat(S, u, v, w)
          BY <2>2, ConcatIs
    <3> QED BY <3>1 DEF IsConcat
  <2>4. CASE k = i
    <3>1. u = f[p] /\ Len(u) = a /\ v = ss[i]
          BY <1>3, <2>1, <2>4
    <3>2. x \in 1 .. Len(v) /\ w[a + x] = v[x]
          BY <2>3, <3>1
    <3>3. a + x \in 1 .. Len(w)
      <4> PICK lu \in Nat, lv \in Nat : lu = Len(u) /\ lv = Len(v)
          BY <2>3
      <4>1. lu = a /\ x \in 1 .. lv /\ Len(w) = lu + lv
            BY <2>3, <3>1, <3>2
      <4>2. lu + x \in 1 .. lu + lv
            BY <4>1, InSum
      <4> QED BY <4>1, <4>2
    <3> QED BY <3>1, <3>2, <3>3
  <2>5. CASE k # i
    <3>1. i <= m /\ m <= n
          BY <2>5
    <3>2. a + x \in 1 .. Len(u) /\ u[a + x] = ss[i][x]
          BY <1>6, <3>1
    <3>3. a + x \in 1 .. Len(w) /\ w[a + x] = u[a + x]
      <4> PICK lu \in Nat, lv \in Nat : lu = Len(u) /\ lv = Len(v)
          BY <2>3
      <4>1. a + x \in 1 .. lu /\ Len(w) = lu + lv
            BY <2>3, <3>2
      <4>2. a + x \in 1 .. lu + lv
            BY <4>1, InSumToo
      <4> QED BY <2>3, <3>2, <4>1, <4>2
    <3> QED BY <3>2, <3>3
  <2> QED BY <2>4, <2>5
<1>7. n \in M
  <2> HIDE DEF M
  <2> QED BY <1>5, <1>6, SetInduction
<1> QED BY <1>1, <1>7 DEF InItsPlace

-----------------------------------------------------------------------------
\* A function of every element of a sequence.
Mapped(h, s) == [k \in DOMAIN s |-> h[s[k]]]

\* u is a sequence of the function's values.
IsMapped(T, h, s, u) ==
    /\ u \in Seq(T) /\ Len(u) = Len(s) /\ Len(s) \in Nat
    /\ \A k \in 1 .. Len(s) : u[k] = h[s[k]]

\* And Mapped gives that.
LEMMA MappedTyped ==
    ASSUME NEW S, NEW T, NEW h \in [S -> T], NEW s \in Seq(S)
    PROVE  IsMapped(T, h, s, Mapped(h, s))
<1> PICK n \in Nat : n = Len(s)
    BY LenProperties
<1>1. DOMAIN s = 1 .. n /\ \A k \in 1 .. n : s[k] \in S
      BY LenProperties, ElementOfSeq
<1> PICK u : u = [k \in 1 .. n |-> h[s[k]]]
    OBVIOUS
<1>2. u = Mapped(h, s)
      BY <1>1 DEF Mapped
<1>3. u \in [1 .. n -> T]
      BY <1>1
<1>4. u \in Seq(T) /\ Len(u) = n
      BY <1>3, SeqDef
<1> QED BY <1>1, <1>2, <1>4 DEF IsMapped

\* The parts of a sequence can be mapped one by one.
MapsApart(h, s, t) == Mapped(h, s \o t) = Mapped(h, s) \o Mapped(h, t)

\* All sequences that the function is defined for can.
LEMMA MappedConcat ==
    ASSUME NEW S, NEW T, NEW h \in [S -> T], NEW s \in Seq(S), NEW t \in Seq(S)
    PROVE  MapsApart(h, s, t)
<1> PICK n \in Nat : n = Len(s)
    BY LenProperties
<1> PICK p \in Nat : p = Len(t)
    BY LenProperties
<1> PICK st : st = s \o t
    OBVIOUS
<1>1. /\ st \in Seq(S) /\ Len(st) = n + p
      /\ \A k \in 1 .. n : st[k] = s[k]
      /\ \A k \in 1 .. p : st[n + k] = t[k]
  <2>1. IsConcat(S, s, t, st)
        BY ConcatIs
  <2> QED BY <2>1 DEF IsConcat
<1> PICK u : u = Mapped(h, s)
    OBVIOUS
<1> PICK v : v = Mapped(h, t)
    OBVIOUS
<1> PICK w : w = Mapped(h, st)
    OBVIOUS
<1>2. u \in Seq(T) /\ Len(u) = n /\ \A k \in 1 .. n : u[k] = h[s[k]]
  <2>1. IsMapped(T, h, s, u)
        BY MappedTyped
  <2> QED BY <2>1 DEF IsMapped
<1>3. v \in Seq(T) /\ Len(v) = p /\ \A k \in 1 .. p : v[k] = h[t[k]]
  <2>1. IsMapped(T, h, t, v)
        BY MappedTyped
  <2> QED BY <2>1 DEF IsMapped
<1>4. w \in Seq(T) /\ Len(w) = n + p /\ \A k \in 1 .. n + p : w[k] = h[st[k]]
  <2>1. IsMapped(T, h, st, w)
        BY <1>1, MappedTyped
  <2> QED BY <1>1, <2>1 DEF IsMapped
<1> PICK uv : uv = u \o v
    OBVIOUS
<1>5. /\ uv \in Seq(T) /\ Len(uv) = n + p
      /\ \A k \in 1 .. n : uv[k] = u[k]
      /\ \A k \in 1 .. p : uv[n + k] = v[k]
  <2>1. IsConcat(T, u, v, uv)
        BY <1>2, <1>3, ConcatIs
  <2> QED BY <1>2, <1>3, <2>1 DEF IsConcat
<1>6. ASSUME NEW k \in 1 .. n + p PROVE w[k] = uv[k]
  <2>1. CASE k <= n
    <3>1. k \in 1 .. n
          BY <2>1
    <3> QED BY <1>1, <1>2, <1>4, <1>5, <3>1
  <2>2. CASE ~(k <= n)
    <3> PICK j \in 1 .. p : k = n + j
      <4>1. k - n \in 1 .. p /\ k = n + (k - n)
            BY <2>2
      <4> QED BY <4>1
    <3>1. w[k] = h[t[j]] /\ uv[k] = v[j]
          BY <1>1, <1>4, <1>5
    <3> QED BY <1>3, <3>1
  <2> QED BY <2>1, <2>2
<1>7. w = uv
      BY <1>4, <1>5, <1>6, SeqEqual
<1> QED BY <1>7 DEF MapsApart

\* h maps S to T.
MapFrom(h, S, T) == h \in [S -> T]

\* n sequences that are those of ss with every element mapped.
AreMapped(h, ss, tt, n) == Len(tt) = n /\ \A i \in 1 .. n : tt[i] = Mapped(h, ss[i])

\* Joining and then mapping is mapping and then joining.
LEMMA JoinedMapped ==
    ASSUME NEW S, NEW T, NEW h, MapFrom(h, S, T), NEW n \in Nat, NEW ss, SeqsOver(S, ss, n),
           NEW tt, AreMapped(h, ss, tt, n)
    PROVE  Joined(tt) = Mapped(h, Joined(ss))
<1>0. Len(tt) = n /\ \A i \in 1 .. n : tt[i] = Mapped(h, ss[i])
      BY DEF AreMapped
<1>1. PICK f : JoinsTo(f, ss, n) /\ Joined(ss) = f[n]
      BY JoinedIs DEF SeqsOver
<1>2. PICK g : JoinsTo(g, tt, n) /\ Joined(tt) = g[n]
      BY <1>0, JoinedIs
<1>3. \A m \in 0 .. n : f[m] \in Seq(S)
  <2> PICK ls : ls = LengthsOf(ss, n)
      OBVIOUS
  <2>1. JoinsFit(f, S, ls, n)
        BY <1>1, JoinsTyped
  <2> QED BY <2>1 DEF JoinsFit
<1> DEFINE M == {m \in Nat : m <= n => g[m] = Mapped(h, f[m])}
<1>4. 0 \in M
  <2>1. f[0] = <<>> /\ g[0] = <<>>
        BY <1>1, <1>2 DEF JoinsTo
  <2>2. Mapped(h, <<>>) = <<>>
        BY DEF Mapped
  <2> QED BY <2>1, <2>2
<1>5. ASSUME NEW m \in Nat, m \in M PROVE m + 1 \in M
  <2> SUFFICES ASSUME m + 1 <= n PROVE g[m + 1] = Mapped(h, f[m + 1])
      OBVIOUS
  <2> PICK k \in 1 .. n : k = m + 1
      OBVIOUS
  <2>1. f[m] \in Seq(S) /\ ss[k] \in Seq(S) /\ tt[k] = Mapped(h, ss[k]) /\ g[m] = Mapped(h, f[m]) /\ k - 1 = m
        BY <1>0, <1>3, <1>5 DEF SeqsOver
  <2>2. f[k] = f[k - 1] \o ss[k] /\ g[k] = g[k - 1] \o tt[k]
        BY <1>1, <1>2 DEF JoinsTo
  <2>3. Mapped(h, f[m] \o ss[k]) = Mapped(h, f[m]) \o Mapped(h, ss[k])
    <3> PICK u \in Seq(S) : u = f[m]
        BY <2>1
    <3> PICK v \in Seq(S) : v = ss[k]
        BY <2>1
    <3>1. h \in [S -> T]
          BY DEF MapFrom
    <3>2. MapsApart(h, u, v)
          BY <3>1, MappedConcat
    <3> QED BY <3>2 DEF MapsApart
  <2> QED BY <2>1, <2>2, <2>3
<1>6. n \in M
  <2> HIDE DEF M
  <2> QED BY <1>4, <1>5, SetInduction
<1> QED BY <1>1, <1>2, <1>6

-----------------------------------------------------------------------------
\* The element e occurs in s.
Occurs(e, s) == \E x \in 1 .. Len(s) : s[x] = e

\* What is to be kept is in the selection.
LEMMA SelectedHas ==
    ASSUME NEW S, NEW s \in Seq(S), NEW keep, NEW i \in 1 .. Len(s), i \in keep
    PROVE  Occurs(s[i], Selected(s, keep))
<1> PICK n \in Nat : n = Len(s)
    BY LenProperties
<1>1. PICK f : IsKept(f, s, keep, n) /\ Selected(s, keep) = f[n]
      BY SelectedIsKept
<1>2. \A k \in 0 .. n : f[k] = IF k = 0 THEN <<>>
                               ELSE IF k \in keep THEN Append(f[k - 1], s[k]) ELSE f[k - 1]
      BY <1>1 DEF IsKept
<1> DEFINE M == {m \in Nat : m <= n => /\ f[m] \in Seq(S)
                                       /\ i <= m => \E x \in 1 .. Len(f[m]) : f[m][x] = s[i]}
<1>3. 0 \in M
  <2>1. f[0] = <<>>
        BY <1>2
  <2>2. f[0] \in Seq(S) /\ ~(i <= 0)
        BY <2>1, EmptySeq
  <2> QED BY <2>2
<1>4. ASSUME NEW m \in Nat, m \in M PROVE m + 1 \in M
  <2> SUFFICES ASSUME m + 1 <= n
               PROVE  f[m + 1] \in Seq(S) /\ (i <= m + 1 => \E x \in 1 .. Len(f[m + 1]) : f[m + 1][x] = s[i])
      OBVIOUS
  <2> PICK k \in 1 .. n : k = m + 1
      OBVIOUS
  <2> PICK u \in Seq(S) : u = f[m]
      BY <1>4
  <2>1. s[k] \in S /\ k - 1 = m /\ (i <= m => \E x \in 1 .. Len(u) : u[x] = s[i])
        BY <1>4, ElementOfSeq
  <2>2. f[k] = IF k \in keep THEN Append(u, s[k]) ELSE u
    <3>1. k \in 0 .. n /\ k # 0
          OBVIOUS
    <3> QED BY <1>2, <2>1, <3>1
  <2>3. /\ Append(u, s[k]) \in Seq(S) /\ Len(Append(u, s[k])) = Len(u) + 1 /\ Len(u) \in Nat
        /\ \A x \in 1 .. Len(u) : Append(u, s[k])[x] = u[x]
        /\ Append(u, s[k])[Len(u) + 1] = s[k]
        BY <2>1, AppendProperties
  <2>4. f[k] \in Seq(S)
        BY <2>2, <2>3
  <2>5. CASE i = k
    <3>1. f[k] = Append(u, s[k]) /\ Len(u) + 1 \in 1 .. Len(f[k])
          BY <2>2, <2>3, <2>5
    <3> QED BY <2>3, <2>4, <2>5, <3>1
  <2>6. CASE i # k
    <3>1. SUFFICES ASSUME i <= m PROVE \E x \in 1 .. Len(f[k]) : f[k][x] = s[i]
          BY <2>4, <2>6
    <3>2. PICK x \in 1 .. Len(u) : u[x] = s[i]
          BY <2>1, <3>1
    <3>3. x \in 1 .. Len(f[k]) /\ f[k][x] = s[i]
          BY <2>2, <2>3, <3>2
    <3> QED BY <3>3
  <2> QED BY <2>5, <2>6
<1>5. n \in M
  <2> HIDE DEF M
  <2> QED BY <1>3, <1>4, SetInduction
<1> QED BY <1>1, <1>5 DEF Occurs
=============================================================================
