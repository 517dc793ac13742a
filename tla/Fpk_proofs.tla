------------------------------- MODULE Fpk_proofs -------------------------------
(***************************************************************************)
(* The music player shows what it plays, whatever archive it is given and  *)
(* whatever is pressed, for any size of sectors, ring and buffers.  From   *)
(* the reader (its cache is the sector it is said to be, so as many bytes  *)
(* as are asked for come from where they are asked for) to the decoder (it *)
(* stands at the first byte of an item, and ring and output hold the plain *)
(* bytes so far) to the player: between two buttons the selection is the   *)
(* entry of the index, and what sounds is a file that the buffer begins    *)
(* with.                                                                   *)
(***************************************************************************)
EXTENDS FpkArchive, LoopLemmas

-----------------------------------------------------------------------------
(***************************************************************************)
(* Reading the archive.                                                    *)
(***************************************************************************)
\* A sequence of m elements.
Row(u, m) == u = [x \in 1 .. m |-> u[x]]

\* It is one over some set.
LEMMA RowIsSeq ==
    ASSUME NEW m \in Nat, NEW u, Row(u, m)
    PROVE  \E S : u \in Seq(S) /\ Len(u) = m /\ DOMAIN u = 1 .. m
<1> PICK S : S = {u[x] : x \in 1 .. m}
    OBVIOUS
<1> PICK v : v = [x \in 1 .. m |-> u[x]]
    OBVIOUS
<1>1. v \in [1 .. m -> S]
      OBVIOUS
<1>2. v \in Seq(S) /\ Len(v) = m /\ DOMAIN v = 1 .. m
      BY <1>1, FunctionIsSeq
<1>3. u = v
      BY DEF Row
<1> QED BY <1>2, <1>3

\* And a sequence is such a row.
LEMMA SeqIsRow ==
    ASSUME NEW S, NEW u \in Seq(S)
    PROVE  Len(u) \in Nat /\ DOMAIN u = 1 .. Len(u) /\ Row(u, Len(u))
BY LenProperties DEF Row

\* v is the n elements of c from the one behind a on.
IsStretch(v, c, a, n) == Row(v, n) /\ \A x \in 1 .. n : v[x] = c[a + x]

\* SubSeq gives them.
LEMMA StretchIs ==
    ASSUME NEW q \in Nat, NEW c, Row(c, q), NEW a \in Nat, NEW n \in Nat, a + n <= q,
           NEW v, v = SubSeq(c, a + 1, a + n)
    PROVE  IsStretch(v, c, a, n)
<1>2. PICK T : c \in Seq(T) /\ Len(c) = q
      BY RowIsSeq
<1>3. DOMAIN c = 1 .. q
      BY <1>2, LenProperties
<1>4. \A i \in a + 1 .. a + n : i \in DOMAIN c
      BY <1>3
<1>5. v \in Seq(T) /\ Len(v) = n
  <2>1. \A i \in a + 1 .. a + n : c[i] \in T
        BY <1>2, <1>4, ElementOfSeq
  <2>2. v \in Seq(T) /\ Len(v) = IF a + 1 <= a + n THEN (a + n) - (a + 1) + 1 ELSE 0
        BY <1>2, <2>1, SubSeqProperties
  <2> QED BY <2>2
<1>6. \A x \in 1 .. n : v[x] = c[a + x]
  <2>1. \A x \in 1 .. (a + n) - (a + 1) + 1 : SubSeq(c, a + 1, a + n)[x] = c[(a + 1) + x - 1]
        BY <1>2, <1>4, SubSeqProperties
  <2>2. \A x \in 1 .. n : x \in 1 .. (a + n) - (a + 1) + 1 /\ (a + 1) + x - 1 = a + x
        OBVIOUS
  <2> QED BY <2>1, <2>2
<1>7. Row(v, n)
      BY <1>5, SeqIsRow
<1> QED BY <1>6, <1>7 DEF IsStretch

\* w is u and, behind it, v.
Follows(w, u, m, v, n) == Row(w, m + n) /\ (\A x \in 1 .. m : w[x] = u[x]) /\ (\A x \in 1 .. n : w[m + x] = v[x])

\* Two rows one behind the other.
LEMMA RowsConcat ==
    ASSUME NEW m \in Nat, NEW u, Row(u, m), NEW n \in Nat, NEW v, Row(v, n)
    PROVE  Follows(u \o v, u, m, v, n)
<1>1. PICK S : u \in Seq(S) /\ Len(u) = m
      BY RowIsSeq
<1>2. PICK T : v \in Seq(T) /\ Len(v) = n
      BY RowIsSeq
<1> PICK w : w = u \o v
    OBVIOUS
<1> PICK R : R = S \union T
    OBVIOUS
<1>3. IsConcat(R, u, v, w)
  <2>1. u \in Seq(R) /\ v \in Seq(R)
        BY <1>1, <1>2, SeqMonotonic
  <2> QED BY <2>1, ConcatIs
<1>4. w \in Seq(R) /\ Len(w) = m + n /\ (\A y \in 1 .. m : w[y] = u[y]) /\ (\A y \in 1 .. n : w[m + y] = v[y])
      BY <1>1, <1>2, <1>3 DEF IsConcat
<1>5. Row(w, m + n)
      BY <1>4, SeqIsRow
<1> QED BY <1>4, <1>5 DEF Follows

\* w is u and behind it n elements of c from the one after a on.
Continued(w, u, m, c, a, n) ==
    /\ Row(w, m + n)
    /\ \A x \in 1 .. m : w[x] = u[x]
    /\ \A x \in 1 .. n : w[m + x] = c[a + x]

\* That is what a stretch of another sequence makes of it.
LEMMA StretchAdded ==
    ASSUME NEW m \in Nat, NEW u, Row(u, m), NEW q \in Nat, NEW c, Row(c, q),
           NEW a \in Nat, NEW n \in Nat, a + n <= q
    PROVE  Continued(u \o SubSeq(c, a + 1, a + n), u, m, c, a, n)
<1> PICK v : v = SubSeq(c, a + 1, a + n)
    OBVIOUS
<1>0. IsStretch(v, c, a, n)
      BY StretchIs
<1>1. Row(v, n) /\ \A x \in 1 .. n : v[x] = c[a + x]
      BY <1>0 DEF IsStretch
<1> PICK w : w = u \o v
    OBVIOUS
<1>2. Follows(w, u, m, v, n)
      BY <1>1, RowsConcat
<1> QED BY <1>1, <1>2 DEF Follows, Continued

\* The smaller of two.
LEMMA MinOfTwo ==
    ASSUME NEW a \in Nat, NEW b \in Nat
    PROVE  Min({a, b}) = IF a < b THEN a ELSE b
<1>1. Min({a, b}) \in {a, b} /\ \A k \in {a, b} : Min({a, b}) <= k
      BY MinIsLeast
<1> QED BY <1>1

\* c is sector n of the archive.
Holds(c, n) == \A k \in 1 .. SCT : n * SCT + k \in DOMAIN fpk => c[k] = fpk[n * SCT + k]

\* The cache is the sector it is said to be.
Cached(g, c) == Row(c, SCT) /\ g \in Int /\ (g # -1 => Holds(c, g))

\* Within fpkFileReadPos: as much is read as is not left to be read.
Reading(s, pos, size) ==
    /\ DOMAIN s = {"sct", "pos", "rem", "buf", "g_sct", "cache", "open"} /\ s.open
    /\ s.sct \in Nat /\ s.pos \in 0 .. SCT - 1 /\ s.rem \in 0 .. size
    /\ s.rem > 0 => s.sct * SCT + s.pos = pos + (size - s.rem)
    /\ Row(s.buf, size - s.rem) /\ \A x \in 1 .. size - s.rem : s.buf[x] = fpk[pos + x]
    /\ Cached(s.g_sct, s.cache)

\* The archive has its bytes from 1 to l, and what is to be read is there.
InArchive(pos, size, l) == Row(fpk, l) /\ l \in Nat /\ pos \in Nat /\ size \in Nat /\ pos + size <= l

\* The archive is as long as its bytes are.
LEMMA ArchiveRow ==
    ASSUME NEW l \in Nat, Row(fpk, l)
    PROVE  Len(fpk) = l /\ DOMAIN fpk = 1 .. l
<1>1. PICK S : fpk \in Seq(S) /\ Len(fpk) = l /\ DOMAIN fpk = 1 .. l
      BY RowIsSeq
<1> QED BY <1>1

\* The sector that is read next is in the cache then.
LEMMA SectorRead ==
    ASSUME NEW s, NEW pos, NEW size, NEW l, InArchive(pos, size, l), Reading(s, pos, size), s.rem > 0,
           NEW c, c = IF s.g_sct # s.sct THEN ReadSct(s, s.sct) ELSE s.cache
    PROVE  Cached(s.sct, c) /\ Holds(c, s.sct)
<1>1. /\ l \in Nat /\ Row(fpk, l) /\ pos \in Nat /\ size \in Nat /\ pos + size <= l
      /\ s.sct \in Nat /\ s.pos \in 0 .. SCT - 1 /\ s.rem \in 0 .. size
      /\ s.sct * SCT + s.pos = pos + (size - s.rem) /\ s.open
      BY DEF InArchive, Reading
<1>2. SCT \in Nat \ {0}
      BY FpkAssumption
<1>3. CASE s.g_sct # s.sct
  <2>1. Len(fpk) = l /\ DOMAIN fpk = 1 .. l
        BY <1>1, ArchiveRow
  <2>2. s.sct * SCT < l
    <3> PICK a \in Nat : a = s.sct * SCT
        BY <1>1, <1>2
    <3> QED BY <1>1, <1>2
  <2>3. c = [k \in 1 .. SCT |-> IF s.sct * SCT + k \in DOMAIN fpk THEN fpk[s.sct * SCT + k] ELSE "pad"]
        BY <1>1, <1>3, <2>1, <2>2 DEF ReadSct
  <2>4. Row(c, SCT) /\ Holds(c, s.sct)
        BY <2>3 DEF Row, Holds
  <2> QED BY <1>1, <2>4 DEF Cached
<1>4. CASE s.g_sct = s.sct
  <2>1. c = s.cache /\ Cached(s.g_sct, c) /\ s.g_sct # -1
        BY <1>1, <1>4 DEF Reading
  <2> QED BY <1>4, <2>1 DEF Cached
<1> QED BY <1>3, <1>4

\* A pass of the loop reads on.
LEMMA ReadsOn ==
    ASSUME NEW s, NEW pos, NEW size, NEW l, InArchive(pos, size, l), Reading(s, pos, size), s.rem > 0
    PROVE  Reading(ReadOn(s), pos, size) /\ ReadOn(s).rem < s.rem
<1>c. PICK c : c = IF s.g_sct # s.sct THEN ReadSct(s, s.sct) ELSE s.cache
    OBVIOUS
<1>x. Cached(s.sct, c) /\ Holds(c, s.sct)
      BY <1>c, SectorRead
<1>0. SCT \in Nat \ {0} /\ size \in Nat
      BY FpkAssumption DEF InArchive
<1>sct. PICK sct \in Nat : sct = s.sct
    BY DEF Reading
<1>p. PICK p \in 0 .. SCT - 1 : p = s.pos
    BY DEF Reading
<1>rem. PICK rem \in 1 .. size : rem = s.rem
  <2>1. s.rem \in 1 .. size
        BY <1>0 DEF Reading
  <2> QED BY <2>1
<1>a. PICK a \in Nat : a = sct * SCT
    BY <1>0
<1>2. /\ l \in Nat /\ Row(fpk, l) /\ pos \in Nat /\ pos + size <= l
      /\ a + p = pos + (size - rem)
      BY <1>a, <1>sct, <1>p, <1>rem DEF InArchive, Reading
<1>3. (sct + 1) * SCT = a + SCT
      BY <1>0, <1>a
<1>4. SCT - p \in Nat /\ rem \in Nat
      BY <1>0
<1>len. PICK len \in Nat : len = Min({SCT - p, rem}) /\ len = IF SCT - p < rem THEN SCT - p ELSE rem
    BY <1>4, MinOfTwo
<1>5. len \in 1 .. rem /\ p + len <= SCT /\ (len < rem => p + len = SCT)
      BY <1>0, <1>4, <1>len
<1>1. Cached(sct, c) /\ Holds(c, sct)
      BY <1>x, <1>sct
<1>b. PICK b : b = s.buf
    OBVIOUS
<1>m. PICK m \in Nat : m = size - rem
    BY <1>0
<1>6. Row(b, m) /\ \A x \in 1 .. m : b[x] = fpk[pos + x]
      BY <1>b, <1>m, <1>rem DEF Reading
<1>w. PICK w : w = b \o SubSeq(c, p + 1, p + len)
    OBVIOUS
<1>7. Row(w, m + len) /\ (\A x \in 1 .. m : w[x] = b[x]) /\ (\A x \in 1 .. len : w[m + x] = c[p + x])
  <2>1. Continued(w, b, m, c, p, len)
    <3>1. Row(c, SCT)
          BY <1>1 DEF Cached
    <3>2. SCT \in Nat /\ p \in Nat /\ p + len <= SCT
          BY <1>0, <1>5
    <3> QED BY <1>6, <1>w, <3>1, <3>2, StretchAdded
  <2> QED BY <1>w, <2>1 DEF Continued
<1>8. \A x \in 1 .. m + len : w[x] = fpk[pos + x]
  <2> TAKE x \in 1 .. m + len
  <2>1. CASE x <= m
        BY <1>6, <1>7, <2>1
  <2>2. CASE x > m
    <3> PICK y \in 1 .. len : x = m + y
      <4>1. x - m \in 1 .. len /\ x = m + (x - m)
            BY <1>5, <2>2
      <4> QED BY <4>1
    <3>1. p + y \in 1 .. SCT /\ a + (p + y) = pos + x /\ pos + x \in 1 .. l
          BY <1>0, <1>2, <1>5, <1>m
    <3>2. DOMAIN fpk = 1 .. l
          BY <1>2, ArchiveRow
    <3>3. c[p + y] = fpk[a + (p + y)]
          BY <1>1, <1>a, <3>1, <3>2 DEF Holds
    <3> QED BY <1>7, <3>1, <3>3
  <2> QED BY <1>5, <2>1, <2>2
<1>t. PICK t : t = ReadOn(s)
    OBVIOUS
<1>9. /\ DOMAIN t = {"sct", "pos", "rem", "buf", "g_sct", "cache", "open"} /\ t.open
      /\ t.sct = sct + 1 /\ t.pos = 0 /\ t.rem = rem - len /\ t.buf = w /\ t.g_sct = sct /\ t.cache = c
  <2>1. DOMAIN s = {"sct", "pos", "rem", "buf", "g_sct", "cache", "open"} /\ s.open
        BY DEF Reading
  <2>2. t = [s EXCEPT !.cache = c, !.g_sct = s.sct, !.sct = @ + 1, !.pos = 0, !.rem = @ - len,
                      !.buf = @ \o SubSeq(c, s.pos + 1, s.pos + len)]
    <3>1. s.rem # 0 /\ len = Min({SCT - s.pos, s.rem})
          BY <1>p, <1>rem, <1>len
    <3> QED BY <1>t, <1>c, <3>1 DEF ReadOn
  <2>3. /\ DOMAIN t = {"sct", "pos", "rem", "buf", "g_sct", "cache", "open"} /\ t.open
        /\ t.sct = s.sct + 1 /\ t.pos = 0 /\ t.rem = s.rem - len /\ t.g_sct = s.sct /\ t.cache = c
        /\ t.buf = s.buf \o SubSeq(c, s.pos + 1, s.pos + len)
        BY <2>1, <2>2
  <2> QED BY <1>sct, <1>p, <1>rem, <1>b, <1>w, <2>3
<1>11. rem - len > 0 => (sct + 1) * SCT + 0 = pos + (size - (rem - len))
  <2>1. rem - len > 0 => a + SCT = pos + (size - (rem - len))
        BY <1>0, <1>2, <1>5
  <2> QED BY <1>0, <1>3, <2>1
<1>12. rem - len \in 0 .. size /\ size - (rem - len) = m + len /\ rem - len < rem /\ 0 \in 0 .. SCT - 1 /\ sct + 1 \in Nat
      BY <1>0, <1>5, <1>m
<1>13. Reading(t, pos, size)
  <2>1. Row(t.buf, size - t.rem) /\ \A x \in 1 .. size - t.rem : t.buf[x] = fpk[pos + x]
        BY <1>7, <1>8, <1>9, <1>12
  <2> QED BY <1>1, <1>9, <1>11, <1>12, <2>1 DEF Reading
<1> QED BY <1>t, <1>rem, <1>9, <1>12, <1>13

\* f is what fpkFileReadPos calls loop, up to pass n.
IsReading(f, first, n) == f = [i \in 0 .. n |-> IF i = 0 THEN first ELSE ReadOn(f[i - 1])]

\* Its passes can be gone through.
LEMMA ReadingExists ==
    ASSUME NEW first, NEW n \in Nat
    PROVE  \E f : IsReading(f, first, n)
<1> DEFINE Acc(f, m) == f = [k \in 0 .. m |-> IF k = 0 THEN first ELSE ReadOn(f[k - 1])]
<1> DEFINE S == {m \in Nat : \E f : Acc(f, m)}
<1>1. 0 \in S
  <2> DEFINE f == [k \in 0 .. 0 |-> first]
  <2>1. \A k \in 0 .. 0 : k = 0
        OBVIOUS
  <2>2. Acc(f, 0)
        BY <2>1
  <2> HIDE DEF Acc
  <2> QED BY <2>2
<1>2. ASSUME NEW m \in Nat, m \in S PROVE m + 1 \in S
  <2>1. PICK f : Acc(f, m)
        BY <1>2
  <2> PICK last : last = ReadOn(f[m])
      OBVIOUS
  <2> DEFINE g == [k \in 0 .. m + 1 |-> IF k = m + 1 THEN last ELSE f[k]]
  <2>2. \A k \in 0 .. m + 1 : k # 0 => g[k - 1] = f[k - 1]
        OBVIOUS
  <2>3. \A k \in 0 .. m : f[k] = IF k = 0 THEN first ELSE ReadOn(f[k - 1])
        BY <2>1
  <2>4. \A k \in 0 .. m + 1 : g[k] = IF k = 0 THEN first ELSE ReadOn(g[k - 1])
    <3> SUFFICES ASSUME NEW k \in 0 .. m + 1
                 PROVE  g[k] = IF k = 0 THEN first ELSE ReadOn(g[k - 1])
        OBVIOUS
    <3>1. CASE k = m + 1
      <4>1. g[k] = last /\ k # 0 /\ k - 1 = m /\ g[k - 1] = f[m]
            BY <3>1, <2>2
      <4> HIDE DEF g
      <4> QED BY <3>1, <4>1
    <3>2. CASE k # m + 1
      <4>1. k \in 0 .. m /\ g[k] = f[k]
            BY <3>2
      <4>2. k # 0 => g[k - 1] = f[k - 1]
            BY <2>2
      <4> HIDE DEF g
      <4> QED BY <2>3, <4>1, <4>2
    <3> QED BY <3>1, <3>2
  <2>5. g = [k \in 0 .. m + 1 |-> g[k]]
        OBVIOUS
  <2>6. Acc(g, m + 1)
    <3> HIDE DEF g
    <3> QED BY <2>4, <2>5
  <2> HIDE DEF Acc
  <2> QED BY <2>6
<1>3. n \in S
  <2> HIDE DEF S
  <2> QED BY <1>1, <1>2, SetInduction
<1> QED BY <1>3 DEF IsReading

\* Where they begin.
ReadsFrom(a, pos, size) == [sct |-> pos \div SCT, pos |-> pos % SCT, rem |-> size, buf |-> <<>>,
                            g_sct |-> a.g_sct, cache |-> a.cache, open |-> a.open]

\* What has been read, and that the cache is as it should be.
HasRead(r, pos, size) ==
    /\ Row(r.buf, size) /\ \A x \in 1 .. size : r.buf[x] = fpk[pos + x]
    /\ Cached(r.g_sct, r.cache)

\* The reader's state: it is open and knows what it has in the cache.
Readable(a) == a.open /\ Cached(a.g_sct, a.cache)

\* At first nothing has been read.
LEMMA ReadingBegins ==
    ASSUME NEW a, Readable(a), NEW pos, NEW size, NEW l, InArchive(pos, size, l)
    PROVE  Reading(ReadsFrom(a, pos, size), pos, size)
<1>1. pos \in Nat /\ size \in Nat /\ SCT \in Nat \ {0} /\ a.open /\ Cached(a.g_sct, a.cache)
      BY FpkAssumption DEF InArchive, Readable
<1>q. PICK q : q = pos \div SCT
      OBVIOUS
<1>p. PICK p : p = pos % SCT
      OBVIOUS
<1>2. p \in 0 .. SCT - 1 /\ pos = SCT * q + p /\ q \in Int
      BY <1>1, <1>q, <1>p, Rem
<1>3. q \in Nat
      BY <1>1, <1>2
<1>4. q * SCT + p = pos
      BY <1>1, <1>2
<1>s. PICK s : s = ReadsFrom(a, pos, size)
      OBVIOUS
<1>5. /\ DOMAIN s = {"sct", "pos", "rem", "buf", "g_sct", "cache", "open"} /\ s.open
      /\ s.sct = q /\ s.pos = p /\ s.rem = size /\ s.buf = <<>> /\ s.g_sct = a.g_sct /\ s.cache = a.cache
      BY <1>1, <1>q, <1>p, <1>s DEF ReadsFrom
<1>6. Row(<<>>, 0)
      BY DEF Row
<1>7. size - s.rem = 0 /\ s.rem \in 0 .. size /\ q * SCT + p = pos + (size - s.rem)
      BY <1>1, <1>4, <1>5
<1>8. Row(s.buf, size - s.rem) /\ \A x \in 1 .. size - s.rem : s.buf[x] = fpk[pos + x]
      BY <1>5, <1>6, <1>7
<1> QED BY <1>1, <1>2, <1>3, <1>5, <1>7, <1>8, <1>s DEF Reading

\* All that is wanted is read, when it is in the archive.
LEMMA ReadsAll ==
    ASSUME NEW a, Readable(a), NEW pos, NEW size, NEW l, InArchive(pos, size, l)
    PROVE  HasRead(fpkFileReadPos(a, pos, size), pos, size)
<1> PICK first : first = ReadsFrom(a, pos, size)
    OBVIOUS
<1>0. size \in Nat /\ Reading(first, pos, size)
      BY ReadingBegins DEF InArchive
<1> DEFINE Acc(f) == f = [i \in 0 .. size |-> IF i = 0 THEN first ELSE ReadOn(f[i - 1])]
<1> DEFINE loop == CHOOSE f : Acc(f)
<1>1. fpkFileReadPos(a, pos, size) = loop[size]
      BY DEF fpkFileReadPos, ReadsFrom
<1>2. \E f : Acc(f)
  <2>1. \E f : IsReading(f, first, size)
        BY <1>0, ReadingExists
  <2> QED BY <2>1 DEF IsReading
<1>3. Acc(loop)
  <2> HIDE DEF Acc
  <2> QED BY <1>2
<1> HIDE DEF loop
<1>4. \A i \in 0 .. size : loop[i] = IF i = 0 THEN first ELSE ReadOn(loop[i - 1])
      BY <1>3
<1> HIDE DEF Acc
<1> DEFINE S == {i \in Nat : i <= size => Reading(loop[i], pos, size) /\ loop[i].rem <= size - i}
<1>5. 0 \in S
  <2>1. loop[0] = first
        BY <1>0, <1>4
  <2>2. loop[0].rem \in 0 .. size
        BY <1>0, <2>1 DEF Reading
  <2> QED BY <1>0, <2>1, <2>2
<1>6. ASSUME NEW i \in Nat, i \in S PROVE i + 1 \in S
  <2> SUFFICES ASSUME i + 1 <= size PROVE Reading(loop[i + 1], pos, size) /\ loop[i + 1].rem <= size - (i + 1)
      OBVIOUS
  <2> PICK s : s = loop[i]
      OBVIOUS
  <2>1. Reading(s, pos, size) /\ s.rem <= size - i
        BY <1>0, <1>6
  <2>2. loop[i + 1] = ReadOn(s)
    <3>1. i + 1 \in 0 .. size /\ i + 1 # 0 /\ (i + 1) - 1 = i
          BY <1>0
    <3> QED BY <1>4, <3>1
  <2>r. s.rem \in 0 .. size
        BY <2>1 DEF Reading
  <2>3. CASE s.rem = 0
    <3>1. ReadOn(s) = s
          BY <2>3 DEF ReadOn
    <3> QED BY <1>0, <2>1, <2>2, <2>3, <3>1
  <2>4. CASE s.rem # 0
    <3>1. s.rem > 0
          BY <1>0, <2>r, <2>4
    <3>2. Reading(ReadOn(s), pos, size) /\ ReadOn(s).rem < s.rem
          BY <2>1, <3>1, ReadsOn
    <3>3. ReadOn(s).rem \in 0 .. size
          BY <3>2 DEF Reading
    <3> QED BY <1>0, <2>1, <2>2, <2>r, <3>2, <3>3
  <2> QED BY <2>3, <2>4
<1>7. size \in S
  <2> HIDE DEF S
  <2> QED BY <1>0, <1>5, <1>6, SetInduction
<1> PICK r : r = loop[size]
    OBVIOUS
<1>8. Reading(r, pos, size) /\ r.rem <= size - size
      BY <1>0, <1>7
<1>9. r.rem = 0
  <2>1. r.rem \in 0 .. size
        BY <1>8 DEF Reading
  <2> QED BY <1>0, <1>8, <2>1
<1>10. size - r.rem = size
       BY <1>0, <1>9
<1> QED BY <1>1, <1>8, <1>10 DEF Reading, HasRead

-----------------------------------------------------------------------------
(***************************************************************************)
(* Sequences joined, and what fpack -e makes of a file.                    *)
(***************************************************************************)
\* n rows of the lengths ls.
Rows(ss, ls, n) == ls \in [1 .. n -> Nat] /\ Len(ss) = n /\ \A i \in 1 .. n : Row(ss[i], ls[i])

\* They are joined to t, place by place.
JoinedTo(t, ss, ls, n) ==
    /\ Row(t, Total(UpTo(ls, n + 1)))
    /\ \A i \in 1 .. n : \A x \in 1 .. ls[i] : t[Total(UpTo(ls, i)) + x] = ss[i][x]

\* That is what Joined makes of them.
LEMMA RowsJoined ==
    ASSUME NEW n \in Nat, NEW ss, NEW ls, Rows(ss, ls, n)
    PROVE  JoinedTo(Joined(ss), ss, ls, n)
<1>0. ls \in [1 .. n -> Nat] /\ Len(ss) = n /\ \A i \in 1 .. n : Row(ss[i], ls[i])
      BY DEF Rows
<1> PICK S : S = UNION {{ss[i][x] : x \in 1 .. ls[i]} : i \in 1 .. n}
    OBVIOUS
<1>1. ASSUME NEW i \in 1 .. n PROVE ss[i] \in Seq(S) /\ Len(ss[i]) = ls[i]
  <2> PICK u : u = ss[i]
      OBVIOUS
  <2> PICK m \in Nat : m = ls[i]
      BY <1>0
  <2>1. u = [x \in 1 .. m |-> u[x]]
        BY <1>0 DEF Row
  <2>2. \A x \in 1 .. m : u[x] \in S
        OBVIOUS
  <2>3. u \in [1 .. m -> S]
        BY <2>1, <2>2
  <2> QED BY <2>3, FunctionIsSeq
<1>2. SeqsOver(S, ss, n)
      BY <1>0, <1>1 DEF SeqsOver
<1>3. ls = LengthsOf(ss, n)
  <2>1. ls = [i \in 1 .. n |-> ls[i]]
        BY <1>0
  <2>2. LengthsOf(ss, n) = [i \in 1 .. n |-> ls[i]]
        BY <1>1 DEF LengthsOf
  <2> QED BY <2>1, <2>2
<1> PICK t : t = Joined(ss)
    OBVIOUS
<1>4. Row(t, Total(UpTo(ls, n + 1)))
  <2>1. PICK f : JoinsTo(f, ss, n) /\ t = f[n]
        BY <1>0, JoinedIs
  <2>2. JoinsFit(f, S, ls, n)
        BY <1>2, <1>3, <2>1, JoinsTyped
  <2>3. t \in Seq(S) /\ Len(t) = Total(UpTo(ls, n + 1))
    <3>1. n \in 0 .. n
          OBVIOUS
    <3> QED BY <2>1, <2>2, <3>1 DEF JoinsFit
  <2> QED BY <2>3, SeqIsRow
<1>5. ASSUME NEW i \in 1 .. n, NEW x \in 1 .. ls[i] PROVE t[Total(UpTo(ls, i)) + x] = ss[i][x]
  <2>1. InItsPlace(ss, ls, i, x)
    <3>1. x \in 1 .. Len(ss[i])
          BY <1>1
    <3> QED BY <1>2, <1>3, <3>1, JoinedPlaces
  <2> QED BY <2>1 DEF InItsPlace
<1> QED BY <1>4, <1>5 DEF JoinedTo

\* Where the next row begins, and that all end before the last one does.
StartsAre(ls, n, at) ==
    /\ at = [i \in 1 .. n + 1 |-> Total(UpTo(ls, i))] /\ at \in [1 .. n + 1 -> Nat] /\ at[1] = 0
    /\ \A i \in 1 .. n : at[i + 1] = at[i] + ls[i] /\ at[i] + ls[i] <= at[n + 1]

\* The sums of the lengths are such starts.
LEMMA StartsExist ==
    ASSUME NEW n \in Nat, NEW ls \in [1 .. n -> Nat], NEW at, at = [i \in 1 .. n + 1 |-> Total(UpTo(ls, i))]
    PROVE  StartsAre(ls, n, at)
<1>1. /\ Total(UpTo(ls, 1)) = 0
      /\ \A k \in 1 .. n + 1 : Total(UpTo(ls, k)) \in Nat
      /\ \A k \in 1 .. n : Total(UpTo(ls, k + 1)) = Total(UpTo(ls, k)) + ls[k]
      BY TotalUpTo
<1>2. at \in [1 .. n + 1 -> Nat] /\ at[1] = 0 /\ \A i \in 1 .. n : at[i + 1] = at[i] + ls[i]
  <2>1. 1 \in 1 .. n + 1 /\ \A i \in 1 .. n : i + 1 \in 1 .. n + 1 /\ i \in 1 .. n + 1
        OBVIOUS
  <2> QED BY <1>1, <2>1
<1>3. ASSUME NEW i \in 1 .. n PROVE at[i] + ls[i] <= at[n + 1]
  <2> DEFINE S == {d \in Nat : i + 1 + d <= n + 1 => at[i + 1] <= at[i + 1 + d]}
  <2>1. 0 \in S
    <3>1. at[i + 1] \in Nat /\ i + 1 + 0 = i + 1
          BY <1>2
    <3> QED BY <3>1
  <2>2. ASSUME NEW d \in Nat, d \in S PROVE d + 1 \in S
    <3> SUFFICES ASSUME i + 1 + (d + 1) <= n + 1 PROVE at[i + 1] <= at[i + 1 + (d + 1)]
        OBVIOUS
    <3> PICK k \in 1 .. n : k = i + 1 + d
      <4>1. i + 1 + d \in 1 .. n
            OBVIOUS
      <4> QED BY <4>1
    <3>1. at[i + 1] <= at[k]
          BY <2>2
    <3>2. i + 1 + (d + 1) = k + 1
          OBVIOUS
    <3>3. at[k + 1] = at[k] + ls[k] /\ ls[k] \in Nat
          BY <1>2
    <3>4. at[k] \in Nat /\ at[i + 1] \in Nat
      <4>1. k \in 1 .. n + 1 /\ i + 1 \in 1 .. n + 1
            OBVIOUS
      <4> QED BY <1>2, <4>1
    <3> QED BY <3>1, <3>2, <3>3, <3>4
  <2>3. n - i \in Nat /\ i + 1 + (n - i) = n + 1
        OBVIOUS
  <2>4. n - i \in S
    <3> HIDE DEF S
    <3> QED BY <2>1, <2>2, <2>3, SetInduction
  <2>5. at[i + 1] <= at[n + 1]
        BY <2>3, <2>4
  <2> QED BY <1>2, <2>5
<1> QED BY <1>2, <1>3 DEF StartsAre

\* Rows of the same length: where each begins.
EverySo(at, n, d) == \A i \in 1 .. n + 1 : at[i] = (i - 1) * d

\* That is where the sums say.
LEMMA EqualStarts ==
    ASSUME NEW n \in Nat, NEW d \in Nat, NEW ls, ls = [i \in 1 .. n |-> d], NEW at, StartsAre(ls, n, at)
    PROVE  EverySo(at, n, d)
<1>1. at[1] = 0 /\ \A i \in 1 .. n : at[i + 1] = at[i] + d
      BY DEF StartsAre
<1> DEFINE S == {k \in Nat : k <= n => at[k + 1] = k * d}
<1>2. 0 \in S
      BY <1>1
<1>3. ASSUME NEW k \in Nat, k \in S PROVE k + 1 \in S
  <2> SUFFICES ASSUME k + 1 <= n PROVE at[k + 1 + 1] = (k + 1) * d
      OBVIOUS
  <2> PICK a \in Nat : a = k * d
      OBVIOUS
  <2>1. (k + 1) * d = a + d
        OBVIOUS
  <2>2. k + 1 \in 1 .. n /\ at[k + 1] = a
        BY <1>3
  <2> QED BY <1>1, <2>1, <2>2
<1>4. Nat \subseteq S
  <2> HIDE DEF S
  <2> QED BY <1>2, <1>3, SetInduction
<1>5. ASSUME NEW i \in 1 .. n + 1 PROVE at[i] = (i - 1) * d
  <2>1. i - 1 \in Nat /\ i - 1 <= n /\ (i - 1) + 1 = i
        OBVIOUS
  <2>2. i - 1 \in S
        BY <1>4, <2>1
  <2> QED BY <2>1, <2>2
<1> QED BY <1>5 DEF EverySo

\* The items of a file, one after the other.
HasItems(file, m) == m \in Nat /\ Len(file.items) = m /\ DOMAIN file.items = 1 .. m /\ \A k \in 1 .. m : IsItem(file.items[k])

\* A file has items.
LEMMA ItemsOf == ASSUME NEW file, IsFile(file) PROVE \E m : HasItems(file, m)
<1>1. PICK T : T = {file.items[k] : k \in DOMAIN file.items}
      OBVIOUS
<1>2. file.items \in Seq(T) /\ \A k \in DOMAIN file.items : IsItem(file.items[k])
      BY <1>1 DEF IsFile
<1>3. Len(file.items) \in Nat /\ DOMAIN file.items = 1 .. Len(file.items)
      BY <1>2, LenProperties
<1> QED BY <1>2, <1>3 DEF HasItems

\* Which flag of its byte an item has, whether the byte is put before it, and
\* how many bytes that takes.
Nth(k) == (k - 1) % FLAGS
Starts(k) == Nth(k) = 0
FlagBytes(k) == IF Starts(k) THEN 1 ELSE 0
ItemBytes(item) == IF IsCopy(item) THEN 2 ELSE 1
GroupBytes(items, k) == FlagBytes(k) + ItemBytes(items[k])

\* The bytes of an item and its flags.
GroupIs(items, k) ==
    /\ Row(Group(items, k), GroupBytes(items, k))
    /\ Starts(k) => Group(items, k)[1] = Flags(items, k)
    /\ \A x \in 1 .. ItemBytes(items[k]) : Group(items, k)[FlagBytes(k) + x] = Bytes(items[k])[x]

\* Every item has them.
LEMMA GroupsAre == ASSUME NEW items, NEW k PROVE GroupIs(items, k)
<1> PICK u : u = IF Starts(k) THEN <<Flags(items, k)>> ELSE <<>>
    OBVIOUS
<1> PICK v : v = Bytes(items[k])
    OBVIOUS
<1> PICK m \in Nat : m = FlagBytes(k)
    BY DEF FlagBytes
<1> PICK n \in Nat : n = ItemBytes(items[k])
    BY DEF ItemBytes
<1>1. Row(u, m) /\ (Starts(k) => m = 1 /\ u[1] = Flags(items, k))
      BY DEF Row, FlagBytes
<1>2. Row(v, n)
      BY DEF Row, Bytes, ItemBytes
<1> PICK w : w = u \o v
    OBVIOUS
<1>3. Follows(w, u, m, v, n)
      BY <1>1, <1>2, RowsConcat
<1>4. Row(w, m + n) /\ (\A x \in 1 .. m : w[x] = u[x]) /\ (\A x \in 1 .. n : w[m + x] = v[x])
      BY <1>3 DEF Follows
<1>5. w = Group(items, k)
      BY DEF Group, Starts, Nth
<1>6. Starts(k) => w[1] = Flags(items, k)
      BY <1>1, <1>4
<1> QED BY <1>4, <1>5, <1>6 DEF GroupIs, GroupBytes

\* p is the file's size and, behind it, its items with their flags from the
\* places at on.
PackedAs(p, file, m, gl, at) ==
    /\ gl = [k \in 1 .. m |-> GroupBytes(file.items, k)] /\ StartsAre(gl, m, at)
    /\ Row(p, 1 + at[m + 1]) /\ p[1] = file.size
    /\ \A k \in 1 .. m : \A x \in 1 .. gl[k] : p[1 + at[k] + x] = Group(file.items, k)[x]

\* Such is a packed file.
LEMMA PackedIs ==
    ASSUME NEW file, NEW m, HasItems(file, m)
    PROVE  \E gl, at : PackedAs(Packed(file), file, m, gl, at)
<1>0. m \in Nat /\ DOMAIN file.items = 1 .. m
      BY DEF HasItems
<1> PICK gl : gl = [k \in 1 .. m |-> GroupBytes(file.items, k)]
    OBVIOUS
<1> PICK at : at = [k \in 1 .. m + 1 |-> Total(UpTo(gl, k))]
    OBVIOUS
<1> PICK ss : ss = [k \in 1 .. m |-> Group(file.items, k)]
    OBVIOUS
<1>1. gl \in [1 .. m -> Nat]
      BY DEF GroupBytes, FlagBytes, ItemBytes
<1>2. StartsAre(gl, m, at)
      BY <1>0, <1>1, StartsExist
<1>3. Rows(ss, gl, m)
  <2>1. Len(ss) = m
    <3>1. ss \in [1 .. m -> {ss[k] : k \in 1 .. m}]
          OBVIOUS
    <3> QED BY <1>0, <3>1, FunctionIsSeq
  <2>2. ASSUME NEW k \in 1 .. m PROVE Row(ss[k], gl[k])
    <3>1. GroupIs(file.items, k)
          BY GroupsAre
    <3>2. ss[k] = Group(file.items, k) /\ gl[k] = GroupBytes(file.items, k)
          OBVIOUS
    <3> QED BY <3>1, <3>2 DEF GroupIs
  <2> QED BY <1>1, <2>1, <2>2 DEF Rows
<1> PICK t : t = Joined(ss)
    OBVIOUS
<1> PICK g \in Nat : g = at[m + 1]
  <2>1. m + 1 \in 1 .. m + 1
        BY <1>0
  <2> QED BY <1>2, <2>1 DEF StartsAre
<1>4. Row(t, g) /\ \A i \in 1 .. m : \A x \in 1 .. gl[i] : t[at[i] + x] = ss[i][x]
  <2>1. JoinedTo(t, ss, gl, m)
        BY <1>0, <1>3, RowsJoined
  <2>2. m + 1 \in 1 .. m + 1 /\ \A i \in 1 .. m : i \in 1 .. m + 1
        BY <1>0
  <2> QED BY <2>1, <2>2 DEF JoinedTo
<1> PICK p : p = <<file.size>> \o t
    OBVIOUS
<1>5. p = Packed(file)
      BY <1>0 DEF Packed
<1>6. Row(p, 1 + g) /\ p[1] = file.size /\ \A x \in 1 .. g : p[1 + x] = t[x]
  <2>1. Row(<<file.size>>, 1)
        BY DEF Row
  <2>2. Follows(p, <<file.size>>, 1, t, g)
        BY <1>4, <2>1, RowsConcat
  <2>3. p[1] = file.size
        BY <2>2 DEF Follows
  <2> QED BY <2>2, <2>3 DEF Follows
<1>7. ASSUME NEW k \in 1 .. m, NEW x \in 1 .. gl[k] PROVE p[1 + at[k] + x] = Group(file.items, k)[x]
  <2>1. at[k] \in Nat /\ gl[k] \in Nat /\ at[k] + gl[k] <= g
    <3>1. k \in 1 .. m + 1
          BY <1>0
    <3> QED BY <1>1, <1>2, <3>1 DEF StartsAre
  <2>2. at[k] + x \in 1 .. g /\ 1 + (at[k] + x) = 1 + at[k] + x
        BY <2>1
  <2>3. p[1 + (at[k] + x)] = t[at[k] + x] /\ t[at[k] + x] = ss[k][x]
        BY <1>4, <1>6, <2>2
  <2> QED BY <2>2, <2>3
<1>8. PackedAs(p, file, m, gl, at)
      BY <1>2, <1>6, <1>7 DEF PackedAs
<1> QED BY <1>5, <1>8

\* How many bytes an item stands for.
Stands(item) == IF IsCopy(item) THEN item.len ELSE 1

\* src tells of the bytes of a file where each is from: those of the k-th item
\* behind the first st[k].
SourcesAs(src, file, m, sl, st) ==
    /\ sl = [k \in 1 .. m |-> Stands(file.items[k])] /\ StartsAre(sl, m, st)
    /\ Row(src, st[m + 1])
    /\ \A k \in 1 .. m : \A x \in 1 .. sl[k] : src[st[k] + x] = Sources(file.items[k])[x]

\* The sources that Plain has one behind the other.
AllSources(file) == Joined([k \in DOMAIN file.items |-> Sources(file.items[k])])

\* They tell that, and are enough for the file's size.
LEMMA SourcesAre ==
    ASSUME NEW file, NEW m, HasItems(file, m)
    PROVE  \E sl, st : SourcesAs(AllSources(file), file, m, sl, st)
<1>0. m \in Nat /\ DOMAIN file.items = 1 .. m /\ \A k \in 1 .. m : IsItem(file.items[k])
      BY DEF HasItems
<1> PICK sl : sl = [k \in 1 .. m |-> Stands(file.items[k])]
    OBVIOUS
<1> PICK st : st = [k \in 1 .. m + 1 |-> Total(UpTo(sl, k))]
    OBVIOUS
<1> PICK ss : ss = [k \in 1 .. m |-> Sources(file.items[k])]
    OBVIOUS
<1>1. sl \in [1 .. m -> Nat]
      BY <1>0 DEF Stands, IsItem
<1>2. StartsAre(sl, m, st)
      BY <1>0, <1>1, StartsExist
<1>3. Rows(ss, sl, m)
  <2>1. Len(ss) = m
    <3>1. ss \in [1 .. m -> {ss[k] : k \in 1 .. m}]
          OBVIOUS
    <3> QED BY <1>0, <3>1, FunctionIsSeq
  <2>2. ASSUME NEW k \in 1 .. m PROVE Row(ss[k], sl[k])
    <3> PICK item : item = file.items[k]
        OBVIOUS
    <3>1. ss[k] = Sources(item) /\ sl[k] = Stands(item)
          OBVIOUS
    <3> PICK u : u = Sources(item)
        OBVIOUS
    <3>2. CASE IsCopy(item)
      <4>1. u = [i \in 1 .. item.len |-> [cell |-> (item.off + i - 1) % N]] /\ Stands(item) = item.len
            BY <3>2 DEF Sources, Stands
      <4>2. u = [i \in 1 .. item.len |-> u[i]]
            BY <4>1
      <4> QED BY <3>1, <4>1, <4>2 DEF Row
    <3>3. CASE ~IsCopy(item)
      <4>1. u = <<item>> /\ Stands(item) = 1
            BY <3>3 DEF Sources, Stands
      <4>2. u = [i \in 1 .. 1 |-> u[i]]
            BY <4>1
      <4> QED BY <3>1, <4>1, <4>2 DEF Row
    <3> QED BY <3>2, <3>3
  <2> QED BY <1>1, <2>1, <2>2 DEF Rows
<1> PICK t : t = Joined(ss)
    OBVIOUS
<1>4. Row(t, st[m + 1]) /\ \A i \in 1 .. m : \A x \in 1 .. sl[i] : t[st[i] + x] = ss[i][x]
  <2>1. JoinedTo(t, ss, sl, m)
        BY <1>0, <1>3, RowsJoined
  <2>2. m + 1 \in 1 .. m + 1 /\ \A i \in 1 .. m : i \in 1 .. m + 1
        BY <1>0
  <2> QED BY <2>1, <2>2 DEF JoinedTo
<1>5. t = AllSources(file)
      BY <1>0 DEF AllSources
<1>6. ASSUME NEW k \in 1 .. m, NEW x \in 1 .. sl[k] PROVE t[st[k] + x] = Sources(file.items[k])[x]
  <2>1. ss[k] = Sources(file.items[k])
        OBVIOUS
  <2>2. t[st[k] + x] = ss[k][x]
        BY <1>4
  <2> QED BY <2>1, <2>2
<1>7. SourcesAs(t, file, m, sl, st)
      BY <1>2, <1>4, <1>6 DEF SourcesAs
<1> QED BY <1>5, <1>7

\* A file has no more bytes than its items stand for, and goes into the buffer.
LEMMA SizeFits ==
    ASSUME NEW file, IsFile(file), NEW m, HasItems(file, m), NEW sl, NEW st, SourcesAs(AllSources(file), file, m, sl, st)
    PROVE  file.size \in Nat /\ file.size <= st[m + 1] /\ st[m + 1] \in Nat /\ file.size <= BUFFER
<1>1. file.size \in 0 .. BUFFER /\ file.size <= Len(AllSources(file))
      BY DEF IsFile, AllSources
<1>2. Row(AllSources(file), st[m + 1]) /\ st[m + 1] \in Nat
  <2>1. m + 1 \in 1 .. m + 1
        BY DEF HasItems
  <2> QED BY <2>1 DEF SourcesAs, StartsAre
<1>3. Len(AllSources(file)) = st[m + 1]
  <2>1. PICK S : AllSources(file) \in Seq(S) /\ Len(AllSources(file)) = st[m + 1]
        BY <1>2, RowIsSeq
  <2> QED BY <2>1
<1>4. BUFFER \in Nat
      BY FpkAssumption
<1> QED BY <1>1, <1>2, <1>3, <1>4

-----------------------------------------------------------------------------
(***************************************************************************)
(* What the bytes of a file are: the last place a cell was written.        *)
(***************************************************************************)
\* Counting on modulo w.
LEMMA ModNext ==
    ASSUME NEW x \in Int, NEW w \in Nat \ {0}
    PROVE  x % w \in 0 .. w - 1 /\ (x + 1) % w = (IF x % w = w - 1 THEN 0 ELSE (x % w) + 1)
<1>q. PICK q \in Int, r \in 0 .. w - 1 : r = x % w /\ x = w * q + r
  <2>1. x % w \in 0 .. w - 1 /\ x = w * (x \div w) + (x % w) /\ x \div w \in Int
        BY Rem
  <2> QED BY <2>1
<1>1. CASE r = w - 1
  <2>1. x + 1 = w * (q + 1) + 0
    <3>1. w * (q + 1) = w * q + w
          OBVIOUS
    <3> PICK a \in Int : a = w * q
        OBVIOUS
    <3> QED BY <1>q, <1>1, <3>1
  <2>2. q + 1 \in Int /\ 0 \in 0 .. w - 1 /\ x + 1 \in Int
        OBVIOUS
  <2>3. (x + 1) % w = 0
        BY <2>1, <2>2, Unique
  <2> QED BY <1>q, <1>1, <2>3
<1>2. CASE r # w - 1
  <2>1. x + 1 = w * q + (r + 1) /\ r + 1 \in 0 .. w - 1 /\ x + 1 \in Int
    <3> PICK a \in Int : a = w * q
        OBVIOUS
    <3> QED BY <1>q, <1>2
  <2>2. (x + 1) % w = r + 1
        BY <2>1, Unique
  <2> QED BY <1>q, <1>2, <2>2
<1> QED BY <1>1, <1>2

\* The last byte put into a cell is one of those put at all; one that is put
\* next is the last in its cell.
LEMMA LatestNext ==
    ASSUME NEW n \in Nat, NEW c
    PROVE  /\ Latest(n, c) \in 0 .. n
           /\ Latest(n + 1, c) = IF (N - F + n) % N = c THEN n + 1 ELSE Latest(n, c)
<1> DEFINE Into(m) == {j \in 1 .. m : (N - F + j - 1) % N = c}
<1>0. N \in Nat /\ F \in Int
      BY FpkAssumption
<1>1. ASSUME NEW m \in Nat
      PROVE  /\ Latest(m, c) = IF Into(m) = {} THEN 0 ELSE Max(Into(m))
             /\ Into(m) # {} => Max(Into(m)) \in Into(m) /\ \A k \in Into(m) : k <= Max(Into(m))
  <2>1. Latest(m, c) = IF Into(m) = {} THEN 0 ELSE Max(Into(m))
        BY DEF Latest
  <2>2. Into(m) \subseteq Nat /\ \A k \in Into(m) : k <= m
        OBVIOUS
  <2>3. Into(m) # {} => Max(Into(m)) \in Into(m) /\ \A k \in Into(m) : k <= Max(Into(m))
    <3> HIDE DEF Into
    <3> QED BY <2>2, MaxIsGreatest
  <2> QED BY <2>1, <2>3
<1>2. Into(n) \subseteq 1 .. n /\ Into(n + 1) \subseteq 1 .. n + 1 /\ n + 1 \in Nat
      OBVIOUS
<1>3. N - F + (n + 1) - 1 = N - F + n
      BY <1>0
<1>4. CASE (N - F + n) % N = c
  <2>1. n + 1 \in Into(n + 1)
        BY <1>3, <1>4
  <2> HIDE DEF Into
  <2> QED BY <1>1, <1>2, <1>4, <2>1
<1>5. CASE (N - F + n) % N # c
  <2>1. Into(n + 1) = Into(n)
    <3>1. n + 1 \notin Into(n + 1)
          BY <1>3, <1>5
    <3>2. \A j \in 1 .. n + 1 : j # n + 1 => j \in 1 .. n
          OBVIOUS
    <3>3. \A j \in 1 .. n : j \in 1 .. n + 1
          OBVIOUS
    <3> QED BY <3>1, <3>2, <3>3
  <2> HIDE DEF Into
  <2>2. Latest(n + 1, c) = Latest(n, c)
        BY <1>1, <1>2, <2>1
  <2> QED BY <1>1, <1>2, <1>5, <2>2
<1> QED BY <1>4, <1>5

\* f is what Plain calls byte.
ByteFrom(f, src, j) == IF "ch" \in DOMAIN src[j] THEN src[j].ch ELSE f[Latest(j - 1, src[j].cell)]
IsPlain(f, src, n) == f = [j \in 0 .. n |-> IF j = 0 THEN 0 ELSE ByteFrom(f, src, j)]

\* There is such a function.
LEMMA PlainExists ==
    ASSUME NEW src, NEW n \in Nat
    PROVE  \E f : IsPlain(f, src, n)
<1> DEFINE Acc(f, m) == f = [k \in 0 .. m |-> IF k = 0 THEN 0 ELSE ByteFrom(f, src, k)]
<1> DEFINE S == {m \in Nat : \E f : Acc(f, m)}
<1>1. 0 \in S
  <2> DEFINE f == [k \in 0 .. 0 |-> 0]
  <2>1. \A k \in 0 .. 0 : k = 0
        OBVIOUS
  <2>2. Acc(f, 0)
        BY <2>1
  <2> HIDE DEF Acc
  <2> QED BY <2>2
<1>2. ASSUME NEW m \in Nat, m \in S PROVE m + 1 \in S
  <2>1. PICK f : Acc(f, m)
        BY <1>2
  <2> PICK last : last = ByteFrom(f, src, m + 1)
      OBVIOUS
  <2> DEFINE g == [k \in 0 .. m + 1 |-> IF k = m + 1 THEN last ELSE f[k]]
  <2>2. ASSUME NEW k \in 0 .. m + 1, k # 0 PROVE ByteFrom(g, src, k) = ByteFrom(f, src, k)
    <3> PICK c : c = src[k].cell
        OBVIOUS
    <3>1. k - 1 \in Nat /\ k - 1 <= m
          BY <2>2
    <3>2. Latest(k - 1, c) \in 0 .. k - 1
          BY <3>1, LatestNext
    <3>3. Latest(k - 1, c) \in 0 .. m + 1 /\ Latest(k - 1, c) # m + 1
          BY <3>1, <3>2
    <3>4. g[Latest(k - 1, c)] = f[Latest(k - 1, c)]
          BY <3>3
    <3> HIDE DEF g
    <3> QED BY <3>4 DEF ByteFrom
  <2>3. \A k \in 0 .. m : f[k] = IF k = 0 THEN 0 ELSE ByteFrom(f, src, k)
    <3> HIDE DEF g
    <3> QED BY <2>1
  <2>4. \A k \in 0 .. m + 1 : g[k] = IF k = 0 THEN 0 ELSE ByteFrom(g, src, k)
    <3> SUFFICES ASSUME NEW k \in 0 .. m + 1
                 PROVE  g[k] = IF k = 0 THEN 0 ELSE ByteFrom(g, src, k)
        OBVIOUS
    <3>1. CASE k = m + 1
      <4>1. g[k] = last /\ k # 0
            BY <3>1
      <4> HIDE DEF g
      <4> QED BY <2>2, <3>1, <4>1
    <3>2. CASE k # m + 1
      <4>1. k \in 0 .. m /\ g[k] = f[k]
            BY <3>2
      <4> HIDE DEF g
      <4> QED BY <2>2, <2>3, <4>1
    <3> QED BY <3>1, <3>2
  <2>5. g = [k \in 0 .. m + 1 |-> g[k]]
        OBVIOUS
  <2>6. Acc(g, m + 1)
    <3> HIDE DEF g
    <3> QED BY <2>4, <2>5
  <2> HIDE DEF Acc
  <2> QED BY <2>6
<1>3. n \in S
  <2> HIDE DEF S
  <2> QED BY <1>1, <1>2, SetInduction
<1> QED BY <1>3 DEF IsPlain

\* f has 0 before the first byte and, from there on, what Plain has.
PlainAs(plain, f, src, n) ==
    /\ f[0] = 0 /\ \A j \in 1 .. n : f[j] = ByteFrom(f, src, j)
    /\ Row(plain, n) /\ \A j \in 1 .. n : plain[j] = f[j]

\* Plain is such.
LEMMA PlainIs ==
    ASSUME NEW file, file.size \in Nat
    PROVE  \E f : PlainAs(Plain(file), f, AllSources(file), file.size)
<1> PICK n \in Nat : n = file.size
    OBVIOUS
<1> PICK src : src = AllSources(file)
    OBVIOUS
<1> DEFINE Acc(f) == f = [j \in 0 .. n |-> IF j = 0 THEN 0 ELSE IF "ch" \in DOMAIN src[j] THEN src[j].ch
                                             ELSE f[Latest(j - 1, src[j].cell)]]
<1> DEFINE byte == CHOOSE f : Acc(f)
<1>1. Plain(file) = [j \in 1 .. n |-> byte[j]]
      BY DEF Plain, AllSources
<1>2. \E f : Acc(f)
  <2>1. \E f : IsPlain(f, src, n)
        BY PlainExists
  <2> QED BY <2>1 DEF IsPlain, ByteFrom
<1>3. Acc(byte)
  <2> HIDE DEF Acc
  <2> QED BY <1>2
<1> HIDE DEF byte
<1>4. IsPlain(byte, src, n)
      BY <1>3 DEF IsPlain, ByteFrom
<1> HIDE DEF Acc
<1>5. \A j \in 0 .. n : byte[j] = IF j = 0 THEN 0 ELSE ByteFrom(byte, src, j)
  <2> PICK g : g = [j \in 0 .. n |-> IF j = 0 THEN 0 ELSE ByteFrom(byte, src, j)]
      OBVIOUS
  <2>1. byte = g
        BY <1>4 DEF IsPlain
  <2>2. \A j \in 0 .. n : g[j] = IF j = 0 THEN 0 ELSE ByteFrom(byte, src, j)
        OBVIOUS
  <2> QED BY <2>1, <2>2
<1>6. byte[0] = 0 /\ \A j \in 1 .. n : byte[j] = ByteFrom(byte, src, j)
  <2>1. 0 \in 0 .. n /\ \A j \in 1 .. n : j \in 0 .. n /\ j # 0
        OBVIOUS
  <2> QED BY <1>5, <2>1
<1> PICK plain : plain = Plain(file)
    OBVIOUS
<1>7. Row(plain, n) /\ \A j \in 1 .. n : plain[j] = byte[j]
      BY <1>1 DEF Row
<1>8. PlainAs(plain, byte, src, n)
      BY <1>6, <1>7 DEF PlainAs
<1> QED BY <1>8

-----------------------------------------------------------------------------
(***************************************************************************)
(* The decoder.                                                            *)
(***************************************************************************)
\* w is u and one more element.
Longer(w, u, m, c) == Row(w, m + 1) /\ (\A x \in 1 .. m : w[x] = u[x]) /\ w[m + 1] = c

\* That is what appending makes.
LEMMA RowAppend ==
    ASSUME NEW m \in Nat, NEW u, Row(u, m), NEW c
    PROVE  Longer(Append(u, c), u, m, c) /\ Len(u) = m
<1>1. PICK S : u \in Seq(S) /\ Len(u) = m
      BY RowIsSeq
<1> PICK R : R = S \union {c}
    OBVIOUS
<1>2. u \in Seq(R) /\ c \in R
      BY <1>1, SeqMonotonic
<1> PICK w : w = Append(u, c)
    OBVIOUS
<1>3. w \in Seq(R) /\ Len(w) = m + 1 /\ (\A x \in 1 .. m : w[x] = u[x]) /\ w[m + 1] = c
      BY <1>1, <1>2, AppendProperties
<1>4. Row(w, m + 1)
      BY <1>3, SeqIsRow
<1> QED BY <1>1, <1>3, <1>4 DEF Longer

\* The fields of its state.
StateFields == {"at", "r", "flags", "flagCount", "out", "ring"}

\* The decoder has put out the first n bytes of f, and its ring is what they
\* leave there.
Unpacked(s, f, n) ==
    /\ DOMAIN s = StateFields /\ n \in Nat
    /\ Row(s.out, n) /\ \A j \in 1 .. n : s.out[j] = f[j]
    /\ s.r = (N - F + n) % N
    /\ s.ring = [c \in 0 .. N - 1 |-> f[Latest(n, c)]]

\* Of two states the one has the other's place in the packed bytes.
SamePlace(s, t) == t.at = s.at /\ t.flags = s.flags /\ t.flagCount = s.flagCount

\* The next byte is put.
LEMMA PutUnpacks ==
    ASSUME NEW s, NEW f, NEW n, Unpacked(s, f, n), NEW c, c = f[n + 1]
    PROVE  Unpacked(Put(s, c), f, n + 1) /\ SamePlace(s, Put(s, c))
<1>0. N \in Nat \ {0} /\ F \in Int /\ n \in Nat /\ N - F + n \in Int
      BY FpkAssumption DEF Unpacked
<1>r. PICK r : r = (N - F + n) % N
      OBVIOUS
<1>1. r \in 0 .. N - 1 /\ (r + 1) % N = (N - F + (n + 1)) % N
  <2>1. r \in 0 .. N - 1 /\ (N - F + n + 1) % N = IF r = N - 1 THEN 0 ELSE r + 1
        BY <1>0, <1>r, ModNext
  <2>2. r \in Int /\ r % N = r
    <3>1. r = N * 0 + r
          BY <1>0, <2>1
    <3> QED BY <1>0, <2>1, <3>1, Unique
  <2>3. (r + 1) % N = IF r = N - 1 THEN 0 ELSE r + 1
        BY <1>0, <2>2, ModNext
  <2>4. N - F + (n + 1) = N - F + n + 1
        BY <1>0
  <2> QED BY <2>1, <2>3, <2>4
<1>s. /\ DOMAIN s = StateFields /\ Row(s.out, n) /\ (\A j \in 1 .. n : s.out[j] = f[j]) /\ s.r = r
      /\ s.ring = [d \in 0 .. N - 1 |-> f[Latest(n, d)]]
      BY <1>r DEF Unpacked
<1>t. PICK t : t = Put(s, c)
      OBVIOUS
<1>2. /\ DOMAIN t = StateFields /\ t.out = Append(s.out, c) /\ t.r = (s.r + 1) % N
      /\ t.ring = [s.ring EXCEPT ![s.r] = c] /\ SamePlace(s, t)
      BY <1>s, <1>t DEF Put, StateFields, SamePlace
<1>3. Row(t.out, n + 1) /\ \A j \in 1 .. n + 1 : t.out[j] = f[j]
  <2>1. Longer(t.out, s.out, n, c)
        BY <1>0, <1>s, <1>2, RowAppend
  <2>2. \A j \in 1 .. n + 1 : j \in 1 .. n \/ j = n + 1
        BY <1>0
  <2> QED BY <1>s, <2>1, <2>2 DEF Longer
<1>4. t.ring = [d \in 0 .. N - 1 |-> f[Latest(n + 1, d)]]
  <2>1. t.ring = [d \in 0 .. N - 1 |-> IF d = r THEN c ELSE f[Latest(n, d)]]
        BY <1>s, <1>2
  <2>2. \A d \in 0 .. N - 1 : Latest(n + 1, d) = IF r = d THEN n + 1 ELSE Latest(n, d)
        BY <1>0, <1>r, LatestNext
  <2>3. \A d \in 0 .. N - 1 : f[Latest(n + 1, d)] = IF d = r THEN c ELSE f[Latest(n, d)]
        BY <2>2
  <2> QED BY <2>1, <2>3
<1>5. n + 1 \in Nat /\ t.r = (N - F + (n + 1)) % N
      BY <1>0, <1>1, <1>s, <1>2
<1> QED BY <1>t, <1>2, <1>3, <1>4, <1>5 DEF Unpacked

\* f is what Copy calls loop, up to pass n.
IsCopying(f, s, off, max, n) == f = [i \in 0 .. n |-> IF i = 0 THEN s ELSE CopyOne(f[i - 1], off + i - 1, max)]

\* Its passes can be gone through.
LEMMA CopyingExists ==
    ASSUME NEW s, NEW off, NEW max, NEW n \in Nat
    PROVE  \E f : IsCopying(f, s, off, max, n)
<1> DEFINE Acc(f, m) == f = [k \in 0 .. m |-> IF k = 0 THEN s ELSE CopyOne(f[k - 1], off + k - 1, max)]
<1> DEFINE S == {m \in Nat : \E f : Acc(f, m)}
<1>1. 0 \in S
  <2> DEFINE f == [k \in 0 .. 0 |-> s]
  <2>1. \A k \in 0 .. 0 : k = 0
        OBVIOUS
  <2>2. Acc(f, 0)
        BY <2>1
  <2> HIDE DEF Acc
  <2> QED BY <2>2
<1>2. ASSUME NEW m \in Nat, m \in S PROVE m + 1 \in S
  <2>1. PICK f : Acc(f, m)
        BY <1>2
  <2> PICK last : last = CopyOne(f[m], off + (m + 1) - 1, max)
      OBVIOUS
  <2> DEFINE g == [k \in 0 .. m + 1 |-> IF k = m + 1 THEN last ELSE f[k]]
  <2>2. \A k \in 0 .. m + 1 : k # 0 => g[k - 1] = f[k - 1]
        OBVIOUS
  <2>3. \A k \in 0 .. m : f[k] = IF k = 0 THEN s ELSE CopyOne(f[k - 1], off + k - 1, max)
        BY <2>1
  <2>4. \A k \in 0 .. m + 1 : g[k] = IF k = 0 THEN s ELSE CopyOne(g[k - 1], off + k - 1, max)
    <3> SUFFICES ASSUME NEW k \in 0 .. m + 1
                 PROVE  g[k] = IF k = 0 THEN s ELSE CopyOne(g[k - 1], off + k - 1, max)
        OBVIOUS
    <3>1. CASE k = m + 1
      <4>1. g[k] = last /\ k # 0 /\ k - 1 = m /\ g[k - 1] = f[m]
            BY <3>1, <2>2
      <4> HIDE DEF g
      <4> QED BY <3>1, <4>1
    <3>2. CASE k # m + 1
      <4>1. k \in 0 .. m /\ g[k] = f[k]
            BY <3>2
      <4>2. k # 0 => g[k - 1] = f[k - 1]
            BY <2>2
      <4> HIDE DEF g
      <4> QED BY <2>3, <4>1, <4>2
    <3> QED BY <3>1, <3>2
  <2>5. g = [k \in 0 .. m + 1 |-> g[k]]
        OBVIOUS
  <2>6. Acc(g, m + 1)
    <3> HIDE DEF g
    <3> QED BY <2>4, <2>5
  <2> HIDE DEF Acc
  <2> QED BY <2>6
<1>3. n \in S
  <2> HIDE DEF S
  <2> QED BY <1>1, <1>2, SetInduction
<1> QED BY <1>3 DEF IsCopying

\* The bytes of f behind the first n, up to size, are those a copy of len cells
\* from off on takes.
CopyIs(f, n, size, off, len) ==
    /\ n \in Nat /\ size \in Nat /\ n <= size /\ off \in Nat /\ len \in Nat
    /\ \A i \in 1 .. len : n + i <= size => f[n + i] = f[Latest(n + i - 1, (off + i - 1) % N)]

\* How many bytes of the copy there are then.
Upto(n, len, size) == IF n + len <= size THEN n + len ELSE size

\* A copy puts them out.
LEMMA CopyUnpacks ==
    ASSUME NEW s, NEW f, NEW n, Unpacked(s, f, n), NEW size, NEW off, NEW len, CopyIs(f, n, size, off, len)
    PROVE  Unpacked(Copy(s, off, len, size), f, Upto(n, len, size)) /\ SamePlace(s, Copy(s, off, len, size))
<1>0. /\ n \in Nat /\ size \in Nat /\ n <= size /\ off \in Nat /\ len \in Nat /\ N \in Nat \ {0}
      BY FpkAssumption DEF CopyIs
<1> DEFINE Acc(g) == g = [i \in 0 .. len |-> IF i = 0 THEN s ELSE CopyOne(g[i - 1], off + i - 1, size)]
<1> DEFINE loop == CHOOSE g : Acc(g)
<1>1. Copy(s, off, len, size) = loop[len]
      BY DEF Copy
<1>2. \E g : Acc(g)
  <2>1. \E g : IsCopying(g, s, off, size, len)
        BY <1>0, CopyingExists
  <2> QED BY <2>1 DEF IsCopying
<1>3. Acc(loop)
  <2> HIDE DEF Acc
  <2> QED BY <1>2
<1> HIDE DEF loop
<1>4. \A i \in 0 .. len : loop[i] = IF i = 0 THEN s ELSE CopyOne(loop[i - 1], off + i - 1, size)
      BY <1>3
<1> HIDE DEF Acc
<1> DEFINE S == {i \in Nat : i <= len => Unpacked(loop[i], f, Upto(n, i, size)) /\ SamePlace(s, loop[i])}
<1>5. 0 \in S
  <2>1. loop[0] = s /\ Upto(n, 0, size) = n /\ SamePlace(s, s)
        BY <1>0, <1>4 DEF Upto, SamePlace
  <2> QED BY <2>1
<1>6. ASSUME NEW i \in Nat, i \in S PROVE i + 1 \in S
  <2> SUFFICES ASSUME i + 1 <= len PROVE Unpacked(loop[i + 1], f, Upto(n, i + 1, size)) /\ SamePlace(s, loop[i + 1])
      OBVIOUS
  <2>t. PICK t : t = loop[i]
      OBVIOUS
  <2>m. PICK m : m = Upto(n, i, size)
      OBVIOUS
  <2>1. Unpacked(t, f, m) /\ SamePlace(s, t) /\ m \in Nat
        BY <1>0, <1>6, <2>t, <2>m DEF Upto
  <2>2. loop[i + 1] = CopyOne(t, off + i, size)
    <3>1. i + 1 \in 0 .. len /\ i + 1 # 0 /\ (i + 1) - 1 = i /\ off + (i + 1) - 1 = off + i
          BY <1>0
    <3> QED BY <1>4, <2>t, <3>1
  <2>3. Len(t.out) = m
    <3>1. Row(t.out, m)
          BY <2>1 DEF Unpacked
    <3> QED BY <2>1, <3>1, RowAppend
  <2>4. CASE m < size
    <3>1. m = n + i /\ Upto(n, i + 1, size) = m + 1 /\ n + (i + 1) <= size /\ i + 1 \in 1 .. len
          BY <1>0, <2>4, <2>m DEF Upto
    <3>c. PICK c : c = (off + i) % N
          OBVIOUS
    <3>2. c \in 0 .. N - 1
      <4>1. off + i \in Int
            BY <1>0
      <4> QED BY <1>0, <3>c, <4>1, ModNext
    <3>3. t.ring[c] = f[Latest(m, c)]
          BY <2>1, <3>2 DEF Unpacked
    <3>4. f[m + 1] = f[Latest(m, c)]
      <4>1. n + (i + 1) = m + 1 /\ n + (i + 1) - 1 = m /\ off + (i + 1) - 1 = off + i
            BY <1>0, <3>1
      <4> QED BY <3>1, <3>c, <4>1 DEF CopyIs
    <3>5. loop[i + 1] = Put(t, f[m + 1])
          BY <2>2, <2>3, <2>4, <3>3, <3>4, <3>c DEF CopyOne
    <3>6. Unpacked(Put(t, f[m + 1]), f, m + 1) /\ SamePlace(t, Put(t, f[m + 1]))
          BY <2>1, PutUnpacks
    <3> QED BY <2>1, <3>1, <3>5, <3>6 DEF SamePlace
  <2>5. CASE ~(m < size)
    <3>1. m = size /\ Upto(n, i + 1, size) = size
          BY <1>0, <2>5, <2>m DEF Upto
    <3>2. loop[i + 1] = t
          BY <2>2, <2>3, <2>5 DEF CopyOne
    <3> QED BY <2>1, <3>1, <3>2
  <2> QED BY <2>4, <2>5
<1>7. len \in S
  <2> HIDE DEF S
  <2> QED BY <1>0, <1>5, <1>6, SetInduction
<1> QED BY <1>0, <1>1, <1>7

\* p begins with the packed file, and f has the bytes the file stands for.
Known(p, file, m, gl, at, sl, st, f) ==
    /\ HasItems(file, m) /\ file.size \in Nat /\ file.size <= st[m + 1]
    /\ gl = [k \in 1 .. m |-> GroupBytes(file.items, k)] /\ StartsAre(gl, m, at)
    /\ \A k \in 1 .. m : \A x \in 1 .. gl[k] : p[1 + at[k] + x] = Group(file.items, k)[x]
    /\ SourcesAs(AllSources(file), file, m, sl, st)
    /\ f[0] = 0 /\ \A j \in 1 .. file.size : f[j] = ByteFrom(f, AllSources(file), j)

\* The decoder is before the k-th item.
Before(s, file, k, at, st, f) ==
    /\ Unpacked(s, f, st[k]) /\ s.at = 2 + at[k]
    /\ s.flagCount = (IF Starts(k) THEN 0 ELSE FLAGS - Nth(k))
    /\ ~Starts(k) => s.flags = Flags(file.items, k - Nth(k))

\* It has the item's flag.
Flag(s, file, k, at, st, f) ==
    /\ Unpacked(s, f, st[k]) /\ s.at = 2 + at[k] + FlagBytes(k)
    /\ s.flagCount = FLAGS - Nth(k)
    /\ s.flags = Flags(file.items, k - Nth(k))

\* It has moved on by c, with nothing put out.
LEMMA MovedOn ==
    ASSUME NEW s, NEW f, NEW n, Unpacked(s, f, n), NEW c, NEW t, t = [s EXCEPT !.at = @ + c]
    PROVE  Unpacked(t, f, n) /\ t.at = s.at + c /\ t.flags = s.flags /\ t.flagCount = s.flagCount
<1>1. /\ DOMAIN t = StateFields /\ t.at = s.at + c /\ t.flags = s.flags /\ t.flagCount = s.flagCount
      /\ t.out = s.out /\ t.r = s.r /\ t.ring = s.ring
      BY DEF Unpacked, StateFields
<1> QED BY <1>1 DEF Unpacked

\* A place among the bytes of the k-th item.
LEMMA PlaceIn ==
    ASSUME NEW p, NEW file, NEW m, NEW gl, NEW at, NEW sl, NEW st, NEW f, Known(p, file, m, gl, at, sl, st, f),
           NEW k \in 1 .. m
    PROVE  /\ at[k] \in Nat /\ at[k + 1] = at[k] + FlagBytes(k) + ItemBytes(file.items[k])
           /\ Starts(k) => p[2 + at[k]] = Flags(file.items, k)
           /\ \A x \in 1 .. ItemBytes(file.items[k]) : p[1 + at[k] + FlagBytes(k) + x] = Bytes(file.items[k])[x]
<1>0. m \in Nat
      BY DEF Known, HasItems
<1>i. PICK b \in Nat : b = ItemBytes(file.items[k])
      BY DEF ItemBytes
<1>a. PICK a \in Nat : a = at[k]
  <2>1. k \in 1 .. m + 1
        BY <1>0
  <2> QED BY <2>1 DEF Known, StartsAre
<1>g. PICK g \in Nat : g = FlagBytes(k) /\ (Starts(k) => g = 1)
      BY DEF FlagBytes
<1>1. gl[k] = g + b
      BY <1>g, <1>i DEF Known, GroupBytes
<1>2. at[k + 1] = a + (g + b)
  <2>1. at[k + 1] = at[k] + gl[k]
        BY DEF Known, StartsAre
  <2> QED BY <1>1, <1>a, <2>1
<1>3. GroupIs(file.items, k)
      BY GroupsAre
<1>4. \A x \in 1 .. g + b : p[1 + a + x] = Group(file.items, k)[x]
      BY <1>1, <1>a DEF Known
<1>b. b >= 1
      BY <1>i DEF ItemBytes
<1>5. Starts(k) => p[2 + a] = Flags(file.items, k)
  <2>1. 1 \in 1 .. g + b /\ 1 + a + 1 = 2 + a
        BY <1>b
  <2> QED BY <1>3, <1>4, <2>1 DEF GroupIs
<1>6. ASSUME NEW x \in 1 .. b PROVE p[1 + a + g + x] = Bytes(file.items[k])[x]
  <2>1. g + x \in 1 .. g + b /\ 1 + a + (g + x) = 1 + a + g + x
        OBVIOUS
  <2>2. Group(file.items, k)[g + x] = Bytes(file.items[k])[x]
        BY <1>3, <1>g, <1>i DEF GroupIs
  <2> QED BY <1>4, <2>1, <2>2
<1>7. a + (g + b) = a + g + b
      OBVIOUS
<1> QED BY <1>a, <1>g, <1>i, <1>2, <1>5, <1>6, <1>7

\* The flags are taken when they are due.
LEMMA FlagTaken ==
    ASSUME NEW p, NEW file, NEW m, NEW gl, NEW at, NEW sl, NEW st, NEW f, Known(p, file, m, gl, at, sl, st, f),
           NEW k \in 1 .. m, NEW s, Before(s, file, k, at, st, f)
    PROVE  Flag(Flagged(p, s), file, k, at, st, f)
<1>0. m \in Nat /\ FLAGS \in Nat \ {0} /\ k \in Int /\ k - 1 \in Int
      BY FpkAssumption DEF Known, HasItems
<1>b. PICK b \in 0 .. FLAGS - 1 : b = Nth(k)
      BY <1>0, ModNext DEF Nth
<1>a. PICK a \in Nat : a = at[k] /\ (Starts(k) => p[2 + a] = Flags(file.items, k))
      BY PlaceIn
<1>1. /\ Unpacked(s, f, st[k]) /\ s.at = 2 + a
      /\ s.flagCount = (IF Starts(k) THEN 0 ELSE FLAGS - b) /\ (~Starts(k) => s.flags = Flags(file.items, k - b))
      BY <1>0, <1>a, <1>b DEF Before
<1>t. PICK t : t = Flagged(p, s)
      OBVIOUS
<1>2. CASE Starts(k)
  <2>1. b = 0 /\ k - b = k /\ FLAGS - b = FLAGS
        BY <1>0, <1>2, <1>b DEF Starts
  <2>2. t = [s EXCEPT !.flags = p[s.at], !.flagCount = FLAGS, !.at = @ + 1]
        BY <1>1, <1>2, <1>t DEF Flagged
  <2>3. /\ DOMAIN t = StateFields /\ t.at = s.at + 1 /\ t.flags = p[s.at] /\ t.flagCount = FLAGS
        /\ t.out = s.out /\ t.r = s.r /\ t.ring = s.ring
    <3>1. DOMAIN s = StateFields
          BY <1>1 DEF Unpacked
    <3> QED BY <2>2, <3>1 DEF StateFields
  <2>4. Unpacked(t, f, st[k])
        BY <1>1, <2>3 DEF Unpacked
  <2>5. t.flags = Flags(file.items, k - b) /\ t.at = 2 + a + FlagBytes(k)
        BY <1>0, <1>1, <1>2, <1>a, <2>1, <2>3 DEF FlagBytes
  <2> QED BY <1>0, <1>a, <1>b, <1>t, <2>1, <2>3, <2>4, <2>5 DEF Flag
<1>3. CASE ~Starts(k)
  <2>1. FLAGS - b # 0
        BY <1>0
  <2>2. t = s
        BY <1>1, <1>3, <1>t, <2>1 DEF Flagged
  <2>3. s.at = 2 + a + FlagBytes(k)
        BY <1>1, <1>3 DEF FlagBytes
  <2> QED BY <1>0, <1>1, <1>3, <1>a, <1>b, <1>t, <2>2, <2>3 DEF Flag
<1> QED BY <1>2, <1>3

\* The k-th item has been taken.
Taken(s, file, k, at, sl, st, f) ==
    /\ Unpacked(s, f, Upto(st[k], sl[k], file.size)) /\ s.at = 2 + at[k + 1]
    /\ s.flagCount = FLAGS - Nth(k)
    /\ s.flags = Flags(file.items, k - Nth(k))

\* Low and high part of an offset.
LEMMA OffsetIs ==
    ASSUME NEW off \in Nat
    PROVE  (off % (N \div 2)) + (off \div (N \div 2)) * (N \div 2) = off
<1>1. N \in Nat \ {0} /\ N % 2 = 0
      BY FpkAssumption
<1>h. PICK h \in Nat \ {0} : h = N \div 2
  <2>1. N = 2 * (N \div 2) + 0 /\ N \div 2 \in Int
        BY <1>1, Rem
  <2> PICK h : h = N \div 2
      OBVIOUS
  <2>2. h \in Nat \ {0}
        BY <1>1, <2>1
  <2> QED BY <2>2
<1>q. PICK q \in Int : q = off \div h /\ off = h * q + (off % h) /\ off % h \in Int
  <2>1. off % h \in 0 .. h - 1 /\ off = h * (off \div h) + (off % h) /\ off \div h \in Int
        BY Rem
  <2> QED BY <2>1
<1>r. PICK r \in Int : r = off % h
      BY <1>q
<1>2. off = h * q + r
      BY <1>q, <1>r
<1>3. r + q * h = off
  <2>1. q * h = h * q
        OBVIOUS
  <2> PICK a \in Int : a = h * q
      OBVIOUS
  <2> QED BY <1>2, <2>1
<1> QED BY <1>3, <1>h, <1>q, <1>r

\* Where the bytes of the k-th item come from.
LEMMA BytesFrom ==
    ASSUME NEW p, NEW file, NEW m, NEW gl, NEW at, NEW sl, NEW st, NEW f, Known(p, file, m, gl, at, sl, st, f),
           NEW k \in 1 .. m, NEW x \in 1 .. sl[k], st[k] + x <= file.size
    PROVE  f[st[k] + x] = IF IsCopy(file.items[k]) THEN f[Latest(st[k] + x - 1, (file.items[k].off + x - 1) % N)]
                          ELSE file.items[k].ch
<1>0. m \in Nat /\ file.size \in Nat /\ IsItem(file.items[k])
      BY DEF Known, HasItems
<1>n. PICK n \in Nat : n = st[k]
  <2>1. k \in 1 .. m + 1
        BY <1>0
  <2> QED BY <2>1 DEF Known, SourcesAs, StartsAre
<1>s. PICK src : src = AllSources(file)
      OBVIOUS
<1>i. PICK item : item = file.items[k]
      OBVIOUS
<1>l. PICK l \in Nat : l = sl[k] /\ l = Stands(item)
      BY <1>0, <1>i DEF Known, SourcesAs, Stands, IsItem
<1>1. src[n + x] = Sources(item)[x]
      BY <1>i, <1>n, <1>s DEF Known, SourcesAs
<1>2. f[n + x] = ByteFrom(f, src, n + x)
  <2>1. n + x \in 1 .. file.size
        BY <1>0, <1>l, <1>n
  <2> QED BY <1>s, <2>1 DEF Known
<1>3. CASE IsCopy(item)
  <2>1. src[n + x] = [cell |-> (item.off + x - 1) % N]
    <3>1. x \in 1 .. item.len
          BY <1>3, <1>l DEF Stands
    <3> QED BY <1>1, <1>3, <3>1 DEF Sources
  <2>2. "ch" \notin DOMAIN src[n + x] /\ src[n + x].cell = (item.off + x - 1) % N
        BY <2>1
  <2> QED BY <1>2, <1>3, <1>i, <1>n, <2>2 DEF ByteFrom
<1>4. CASE ~IsCopy(item)
  <2>1. x = 1
        BY <1>4, <1>l DEF Stands
  <2>2. src[n + x] = item
        BY <1>1, <1>4, <2>1 DEF Sources
  <2>3. "ch" \in DOMAIN item
        BY <1>0, <1>4, <1>i DEF IsItem
  <2> QED BY <1>2, <1>4, <1>i, <1>n, <2>2, <2>3 DEF ByteFrom
<1> QED BY <1>3, <1>4, <1>i

\* The flag tells whether it is a copy.
LEMMA FlagTells ==
    ASSUME NEW p, NEW file, NEW m, NEW gl, NEW at, NEW sl, NEW st, NEW f, Known(p, file, m, gl, at, sl, st, f),
           NEW k \in 1 .. m, NEW s, Flag(s, file, k, at, st, f)
    PROVE  s.flags[FLAGS - s.flagCount] <=> ~IsCopy(file.items[k])
<1>0. m \in Nat /\ FLAGS \in Nat \ {0} /\ DOMAIN file.items = 1 .. m /\ k - 1 \in Int
      BY FpkAssumption DEF Known, HasItems
<1>b. PICK b \in 0 .. FLAGS - 1 : b = Nth(k)
      BY <1>0, ModNext DEF Nth
<1>1. s.flagCount = FLAGS - b /\ s.flags = Flags(file.items, k - b)
      BY <1>b DEF Flag
<1>2. FLAGS - s.flagCount = b /\ (k - b) + b = k
      BY <1>0, <1>1
<1>c. PICK c : c = IsCopy(file.items[k])
      OBVIOUS
<1>3. s.flags[b] = (k \in DOMAIN file.items /\ ~IsCopy(file.items[k]))
      BY <1>1, <1>2 DEF Flags
<1>4. k \in DOMAIN file.items
      BY <1>0
<1> QED BY <1>2, <1>3, <1>4

\* An item is taken, unless all has been put out.
LEMMA ItemTaken ==
    ASSUME NEW p, NEW file, NEW m, NEW gl, NEW at, NEW sl, NEW st, NEW f, Known(p, file, m, gl, at, sl, st, f),
           NEW k \in 1 .. m, st[k] < file.size, NEW s, Flag(s, file, k, at, st, f)
    PROVE  Taken(Item(p, s, file.size), file, k, at, sl, st, f)
<1>0. m \in Nat /\ IsItem(file.items[k]) /\ N \in Nat \ {0}
      BY FpkAssumption DEF Known, HasItems
<1>z. PICK size \in Nat : size = file.size
      BY DEF Known
<1>n. PICK n \in Nat : n = st[k]
  <2>1. k \in 1 .. m + 1
        BY <1>0
  <2> QED BY <2>1 DEF Known, SourcesAs, StartsAre
<1>i. PICK item : item = file.items[k]
      OBVIOUS
<1>l. PICK l \in Nat : l = sl[k] /\ l = Stands(item)
      BY <1>0, <1>i DEF Known, SourcesAs, Stands, IsItem
<1>g. PICK g \in Nat : g = FlagBytes(k)
      BY DEF FlagBytes
<1>a. PICK a \in Nat : a = at[k]
      BY PlaceIn
<1>1. /\ at[k + 1] = a + g + ItemBytes(item)
      /\ \A x \in 1 .. ItemBytes(item) : p[1 + a + g + x] = Bytes(item)[x]
      BY <1>a, <1>g, <1>i, PlaceIn
<1>2. /\ Unpacked(s, f, n) /\ s.at = 2 + a + g /\ s.flagCount = FLAGS - Nth(k)
      /\ s.flags = Flags(file.items, k - Nth(k))
      BY <1>a, <1>g, <1>n DEF Flag
<1>t. PICK t : t = Item(p, s, size)
      OBVIOUS
<1>3. CASE ~IsCopy(item)
  <2>1. s.flags[FLAGS - s.flagCount]
        BY <1>3, <1>i, FlagTells
  <2>u. PICK u : u = [s EXCEPT !.at = @ + 1]
        OBVIOUS
  <2>2. Unpacked(u, f, n) /\ u.at = s.at + 1 /\ u.flags = s.flags /\ u.flagCount = s.flagCount
        BY <1>2, <2>u, MovedOn
  <2>3. t = Put(u, p[s.at])
        BY <1>t, <2>1, <2>u DEF Item
  <2>4. p[s.at] = item.ch
    <3>1. ItemBytes(item) = 1 /\ Bytes(item)[1] = item.ch /\ 1 + a + g + 1 = 2 + a + g
          BY <1>3 DEF ItemBytes, Bytes
    <3> QED BY <1>1, <1>2, <3>1
  <2>5. f[n + 1] = item.ch /\ l = 1
    <3>1. l = 1
          BY <1>3, <1>l DEF Stands
    <3>2. n + 1 <= size
          BY <1>n, <1>z
    <3>3. 1 \in 1 .. sl[k] /\ st[k] + 1 <= file.size
          BY <1>l, <1>n, <1>z, <3>1, <3>2
    <3> QED BY <1>3, <1>i, <1>n, <3>1, <3>3, BytesFrom
  <2>6. Unpacked(t, f, n + 1) /\ SamePlace(u, t)
        BY <2>2, <2>3, <2>4, <2>5, PutUnpacks
  <2>7. Upto(n, l, size) = n + 1
        BY <1>n, <1>z, <2>5 DEF Upto
  <2>8. t.at = 2 + at[k + 1]
    <3>1. ItemBytes(item) = 1
          BY <1>3 DEF ItemBytes
    <3> QED BY <1>1, <1>2, <2>2, <2>6, <3>1 DEF SamePlace
  <2> QED BY <1>2, <1>l, <1>n, <1>t, <1>z, <2>2, <2>6, <2>7, <2>8 DEF Taken, SamePlace
<1>4. CASE IsCopy(item)
  <2>1. ~s.flags[FLAGS - s.flagCount]
        BY <1>4, <1>i, FlagTells
  <2>0. item.off \in Nat /\ item.len \in Nat /\ item.len >= 3 /\ l = item.len
        BY <1>0, <1>4, <1>i, <1>l DEF IsItem, Stands
  <2>u. PICK u : u = [s EXCEPT !.at = @ + 2]
        OBVIOUS
  <2>2. Unpacked(u, f, n) /\ u.at = s.at + 2 /\ u.flags = s.flags /\ u.flagCount = s.flagCount
        BY <1>2, <2>u, MovedOn
  <2>3. ItemBytes(item) = 2 /\ p[s.at] = item.off % (N \div 2) /\ p[s.at + 1] = <<item.off \div (N \div 2), item.len - 3>>
    <3>1. ItemBytes(item) = 2
          BY <1>4 DEF ItemBytes
    <3>2. p[1 + a + g + 1] = Bytes(item)[1] /\ p[1 + a + g + 2] = Bytes(item)[2]
          BY <1>1, <3>1
    <3>3. 1 + a + g + 1 = 2 + a + g /\ 1 + a + g + 2 = 2 + a + g + 1
          OBVIOUS
    <3>4. Bytes(item)[1] = item.off % (N \div 2) /\ Bytes(item)[2] = <<item.off \div (N \div 2), item.len - 3>>
          BY <1>4 DEF Bytes
    <3> QED BY <1>2, <3>1, <3>2, <3>3, <3>4
  <2>4. t = Copy(u, item.off, item.len, size)
    <3>1. t = Copy(u, p[s.at] + p[s.at + 1][1] * (N \div 2), p[s.at + 1][2] + 3, size)
          BY <1>t, <2>1, <2>u DEF Item
    <3>2. p[s.at + 1][2] + 3 = item.len
      <4>1. p[s.at + 1][2] = item.len - 3
            BY <2>3
      <4> QED BY <2>0, <4>1
    <3>3. p[s.at] + p[s.at + 1][1] * (N \div 2) = item.off
      <4>1. p[s.at + 1][1] = item.off \div (N \div 2) /\ p[s.at] = item.off % (N \div 2)
            BY <2>3
      <4> QED BY <2>0, <4>1, OffsetIs
    <3> QED BY <3>1, <3>2, <3>3
  <2>5. CopyIs(f, n, size, item.off, item.len)
    <3>1. ASSUME NEW i \in 1 .. item.len, n + i <= size
          PROVE  f[n + i] = f[Latest(n + i - 1, (item.off + i - 1) % N)]
      <4>1. i \in 1 .. sl[k] /\ st[k] + i <= file.size
            BY <1>l, <1>n, <1>z, <2>0, <3>1
      <4> QED BY <1>4, <1>i, <1>n, <4>1, BytesFrom
    <3>2. n <= size
          BY <1>n, <1>z
    <3> QED BY <2>0, <3>1, <3>2 DEF CopyIs
  <2>6. Unpacked(t, f, Upto(n, l, size)) /\ SamePlace(u, t)
        BY <2>0, <2>2, <2>4, <2>5, CopyUnpacks
  <2>7. t.at = 2 + at[k + 1]
        BY <1>1, <1>2, <2>2, <2>3, <2>6 DEF SamePlace
  <2> QED BY <1>2, <1>l, <1>n, <1>t, <1>z, <2>2, <2>6, <2>7 DEF Taken, SamePlace
<1> QED BY <1>3, <1>4

\* After i items: everything has been put out, or the next item is due.
Progress(s, i, file, m, at, st, f) ==
    \/ Unpacked(s, f, file.size)
    \/ i + 1 \in 1 .. m /\ st[i + 1] < file.size /\ Before(s, file, i + 1, at, st, f)

\* How many bytes have been put out is the output's length.
LEMMA OutLength == ASSUME NEW s, NEW f, NEW n, Unpacked(s, f, n) PROVE Len(s.out) = n
<1>1. n \in Nat /\ Row(s.out, n)
      BY DEF Unpacked
<1> QED BY <1>1, RowAppend

\* The flags are counted down.
LEMMA CountedDown ==
    ASSUME NEW s, NEW f, NEW n, Unpacked(s, f, n), NEW t, t = [s EXCEPT !.flagCount = @ - 1]
    PROVE  Unpacked(t, f, n) /\ t.flagCount = s.flagCount - 1 /\ t.flags = s.flags /\ t.at = s.at
<1>1. /\ DOMAIN t = StateFields /\ t.flagCount = s.flagCount - 1 /\ t.flags = s.flags /\ t.at = s.at
      /\ t.out = s.out /\ t.r = s.r /\ t.ring = s.ring
      BY DEF Unpacked, StateFields
<1> QED BY <1>1 DEF Unpacked

\* A pass of the loop makes progress.
LEMMA PassMade ==
    ASSUME NEW p, NEW file, NEW m, NEW gl, NEW at, NEW sl, NEW st, NEW f, Known(p, file, m, gl, at, sl, st, f),
           NEW i \in Nat, NEW s, Progress(s, i, file, m, at, st, f)
    PROVE  Progress(ItemOn(p, 1 + at[m + 1], file.size, s), i + 1, file, m, at, st, f)
<1>0. m \in Nat /\ file.size \in Nat /\ file.size <= st[m + 1] /\ FLAGS \in Nat \ {0}
      BY FpkAssumption DEF Known, HasItems
<1>1. CASE Unpacked(s, f, file.size)
  <2>1. Len(s.out) = file.size
        BY <1>1, OutLength
  <2>2. ItemOn(p, 1 + at[m + 1], file.size, s) = s
        BY <1>0, <2>1 DEF ItemOn
  <2> QED BY <1>1, <2>2 DEF Progress
<1>2. CASE i + 1 \in 1 .. m /\ st[i + 1] < file.size /\ Before(s, file, i + 1, at, st, f)
  <2>k. PICK k \in 1 .. m : k = i + 1
        BY <1>2
  <2>1. st[k] < file.size /\ Before(s, file, k, at, st, f)
        BY <1>2, <2>k
  <2>2. Len(s.out) = st[k] /\ s.at = 2 + at[k]
        BY <2>1, OutLength DEF Before
  <2>3. at[k] \in Nat /\ gl[k] \in Nat /\ gl[k] >= 1 /\ at[k] + gl[k] <= at[m + 1] /\ at[m + 1] \in Nat
    <3>1. k \in 1 .. m + 1 /\ m + 1 \in 1 .. m + 1
          BY <1>0
    <3>2. at[k] \in Nat /\ at[m + 1] \in Nat /\ at[k] + gl[k] <= at[m + 1]
          BY <3>1 DEF Known, StartsAre
    <3>3. gl[k] = FlagBytes(k) + ItemBytes(file.items[k])
          BY DEF Known, GroupBytes
    <3>4. FlagBytes(k) \in 0 .. 1 /\ ItemBytes(file.items[k]) \in 1 .. 2
          BY DEF FlagBytes, ItemBytes
    <3> QED BY <3>2, <3>3, <3>4
  <2>4. s.at <= 1 + at[m + 1]
        BY <2>2, <2>3
  <2>u. PICK u : u = Flagged(p, s)
        OBVIOUS
  <2>t. PICK t : t = Item(p, u, file.size)
        OBVIOUS
  <2>v. PICK v : v = [t EXCEPT !.flagCount = @ - 1]
        OBVIOUS
  <2>5. ItemOn(p, 1 + at[m + 1], file.size, s) = v
        BY <2>1, <2>2, <2>4, <2>u, <2>t, <2>v DEF ItemOn
  <2>6. Taken(t, file, k, at, sl, st, f)
    <3>1. Flag(u, file, k, at, st, f)
          BY <2>1, <2>u, FlagTaken
    <3> QED BY <2>1, <2>t, <3>1, ItemTaken
  <2>7. /\ Unpacked(v, f, Upto(st[k], sl[k], file.size)) /\ v.at = 2 + at[k + 1]
        /\ v.flagCount = FLAGS - Nth(k) - 1 /\ v.flags = Flags(file.items, k - Nth(k))
    <3>1. /\ Unpacked(t, f, Upto(st[k], sl[k], file.size)) /\ t.at = 2 + at[k + 1]
          /\ t.flagCount = FLAGS - Nth(k) /\ t.flags = Flags(file.items, k - Nth(k))
          BY <2>6 DEF Taken
    <3>2. /\ Unpacked(v, f, Upto(st[k], sl[k], file.size))
          /\ v.flagCount = t.flagCount - 1 /\ v.flags = t.flags /\ v.at = t.at
          BY <2>v, <3>1, CountedDown
    <3> QED BY <3>1, <3>2
  <2>8. st[k + 1] = st[k] + sl[k] /\ st[k + 1] \in Nat /\ st[k] \in Nat
    <3>1. k \in 1 .. m + 1 /\ k + 1 \in 1 .. m + 1
          BY <1>0
    <3> QED BY <3>1 DEF Known, SourcesAs, StartsAre
  <2>9. CASE st[k + 1] >= file.size
    <3>1. Upto(st[k], sl[k], file.size) = file.size
          BY <1>0, <2>8, <2>9 DEF Upto
    <3> QED BY <2>5, <2>7, <3>1 DEF Progress
  <2>10. CASE st[k + 1] < file.size
    <3>1. Upto(st[k], sl[k], file.size) = st[k + 1]
          BY <1>0, <2>8, <2>10 DEF Upto
    <3>2. k # m
          BY <1>0, <2>8, <2>10
    <3>3. k + 1 \in 1 .. m /\ (i + 1) + 1 = k + 1
          BY <1>0, <2>k, <3>2
    <3>b. PICK b \in 0 .. FLAGS - 1 : b = Nth(k) /\ Nth(k + 1) = IF b = FLAGS - 1 THEN 0 ELSE b + 1
      <4>1. k - 1 \in Int /\ (k - 1) + 1 = (k + 1) - 1
            OBVIOUS
      <4>2. Nth(k) \in 0 .. FLAGS - 1 /\ ((k - 1) + 1) % FLAGS = IF Nth(k) = FLAGS - 1 THEN 0 ELSE Nth(k) + 1
            BY <1>0, <4>1, ModNext DEF Nth
      <4>3. Nth(k + 1) = ((k - 1) + 1) % FLAGS
            BY <4>1 DEF Nth
      <4> QED BY <4>2, <4>3
    <3>4. v.flagCount = (IF Starts(k + 1) THEN 0 ELSE FLAGS - Nth(k + 1))
      <4>1. v.flagCount = FLAGS - b - 1
            BY <2>7, <3>b
      <4> QED BY <1>0, <3>b, <4>1 DEF Starts
    <3>5. ~Starts(k + 1) => v.flags = Flags(file.items, (k + 1) - Nth(k + 1))
      <4>1. ~Starts(k + 1) => (k + 1) - Nth(k + 1) = k - b
            BY <1>0, <3>b DEF Starts
      <4> QED BY <2>7, <3>b, <4>1
    <3>6. Before(v, file, k + 1, at, st, f)
          BY <2>7, <3>1, <3>4, <3>5 DEF Before
    <3> QED BY <2>5, <2>10, <3>3, <3>6 DEF Progress
  <2> QED BY <1>0, <2>8, <2>9, <2>10
<1> QED BY <1>1, <1>2 DEF Progress

\* f is what Decode calls loop, up to pass n.
IsDecoding(f, first, p, srcSize, max, n) == f = [i \in 0 .. n |-> IF i = 0 THEN first ELSE ItemOn(p, srcSize, max, f[i - 1])]

\* Its passes can be gone through.
LEMMA DecodingExists ==
    ASSUME NEW first, NEW p, NEW srcSize, NEW max, NEW n \in Nat
    PROVE  \E f : IsDecoding(f, first, p, srcSize, max, n)
<1> DEFINE Acc(f, m) == f = [k \in 0 .. m |-> IF k = 0 THEN first ELSE ItemOn(p, srcSize, max, f[k - 1])]
<1> DEFINE S == {m \in Nat : \E f : Acc(f, m)}
<1>1. 0 \in S
  <2> DEFINE f == [k \in 0 .. 0 |-> first]
  <2>1. \A k \in 0 .. 0 : k = 0
        OBVIOUS
  <2>2. Acc(f, 0)
        BY <2>1
  <2> HIDE DEF Acc
  <2> QED BY <2>2
<1>2. ASSUME NEW m \in Nat, m \in S PROVE m + 1 \in S
  <2>1. PICK f : Acc(f, m)
        BY <1>2
  <2> PICK last : last = ItemOn(p, srcSize, max, f[m])
      OBVIOUS
  <2> DEFINE g == [k \in 0 .. m + 1 |-> IF k = m + 1 THEN last ELSE f[k]]
  <2>2. \A k \in 0 .. m + 1 : k # 0 => g[k - 1] = f[k - 1]
        OBVIOUS
  <2>3. \A k \in 0 .. m : f[k] = IF k = 0 THEN first ELSE ItemOn(p, srcSize, max, f[k - 1])
        BY <2>1
  <2>4. \A k \in 0 .. m + 1 : g[k] = IF k = 0 THEN first ELSE ItemOn(p, srcSize, max, g[k - 1])
    <3> SUFFICES ASSUME NEW k \in 0 .. m + 1
                 PROVE  g[k] = IF k = 0 THEN first ELSE ItemOn(p, srcSize, max, g[k - 1])
        OBVIOUS
    <3>1. CASE k = m + 1
      <4>1. g[k] = last /\ k # 0 /\ k - 1 = m /\ g[k - 1] = f[m]
            BY <3>1, <2>2
      <4> HIDE DEF g
      <4> QED BY <3>1, <4>1
    <3>2. CASE k # m + 1
      <4>1. k \in 0 .. m /\ g[k] = f[k]
            BY <3>2
      <4>2. k # 0 => g[k - 1] = f[k - 1]
            BY <2>2
      <4> HIDE DEF g
      <4> QED BY <2>3, <4>1, <4>2
    <3> QED BY <3>1, <3>2
  <2>5. g = [k \in 0 .. m + 1 |-> g[k]]
        OBVIOUS
  <2>6. Acc(g, m + 1)
    <3> HIDE DEF g
    <3> QED BY <2>4, <2>5
  <2> HIDE DEF Acc
  <2> QED BY <2>6
<1>3. n \in S
  <2> HIDE DEF S
  <2> QED BY <1>1, <1>2, SetInduction
<1> QED BY <1>3 DEF IsDecoding

\* Where it begins.
DecodesFrom(r) == [at |-> 2, r |-> r, flags |-> [b \in 0 .. FLAGS - 1 |-> FALSE], flagCount |-> 0,
                   out |-> <<>>, ring |-> [k \in 0 .. N - 1 |-> 0]]

\* At first nothing is put out.
LEMMA DecodingBegins ==
    ASSUME NEW p, NEW file, NEW m, NEW gl, NEW at, NEW sl, NEW st, NEW f, Known(p, file, m, gl, at, sl, st, f)
    PROVE  Progress(DecodesFrom(N - F), 0, file, m, at, st, f)
<1>0. m \in Nat /\ file.size \in Nat /\ file.size <= st[m + 1] /\ st[1] = 0 /\ at[1] = 0 /\ f[0] = 0
      BY DEF Known, HasItems, SourcesAs, StartsAre
<1>1. FLAGS \in Nat \ {0} /\ N \in Nat \ {0} /\ F \in 1 .. N
      BY FpkAssumption
<1>s. PICK s : s = DecodesFrom(N - F)
      OBVIOUS
<1>2. /\ DOMAIN s = StateFields /\ s.at = 2 /\ s.r = N - F /\ s.flagCount = 0 /\ s.out = <<>>
      /\ s.ring = [c \in 0 .. N - 1 |-> 0]
      BY <1>s DEF DecodesFrom, StateFields
<1>3. (N - F + 0) % N = N - F
  <2>r. PICK r \in 0 .. N - 1 : r = N - F
        BY <1>1
  <2>1. r = N * 0 + r /\ r \in Int /\ N - F + 0 = r
        BY <1>1, <2>r
  <2>2. r % N = r
        BY <1>1, <2>1, Unique
  <2> QED BY <2>r, <2>1, <2>2
<1>4. s.ring = [c \in 0 .. N - 1 |-> f[Latest(0, c)]]
  <2>1. \A c : Latest(0, c) = 0
    <3> TAKE c
    <3>1. Latest(0, c) \in 0 .. 0
          BY LatestNext
    <3> QED BY <3>1
  <2> QED BY <1>0, <1>2, <2>1
<1>5. Unpacked(s, f, 0)
  <2>1. Row(s.out, 0)
        BY <1>2 DEF Row
  <2> QED BY <1>2, <1>3, <1>4, <2>1 DEF Unpacked
<1>6. CASE file.size = 0
      BY <1>5, <1>6, <1>s DEF Progress
<1>7. CASE file.size # 0
  <2>1. m # 0
        BY <1>0, <1>7
  <2>2. 0 + 1 \in 1 .. m /\ st[0 + 1] < file.size
        BY <1>0, <1>7, <2>1
  <2>3. Starts(1)
    <3>1. 0 % FLAGS = 0
      <4>1. 0 = FLAGS * 0 + 0
            BY <1>1
      <4> QED BY <1>1, <4>1, Unique
    <3> QED BY <3>1 DEF Starts, Nth
  <2>4. Before(s, file, 0 + 1, at, st, f)
        BY <1>0, <1>2, <1>5, <2>3 DEF Before
  <2> QED BY <1>s, <2>2, <2>4 DEF Progress
<1> QED BY <1>6, <1>7

\* There are no more items than packed bytes.
LEMMA FewItems ==
    ASSUME NEW p, NEW file, NEW m, NEW gl, NEW at, NEW sl, NEW st, NEW f, Known(p, file, m, gl, at, sl, st, f)
    PROVE  at[m + 1] \in Nat /\ m <= at[m + 1]
<1>0. m \in Nat /\ at \in [1 .. m + 1 -> Nat] /\ at[1] = 0
      BY DEF Known, HasItems, StartsAre
<1> DEFINE S == {k \in Nat : k <= m => k <= at[k + 1]}
<1>1. 0 \in S
      BY <1>0
<1>2. ASSUME NEW k \in Nat, k \in S PROVE k + 1 \in S
  <2> SUFFICES ASSUME k + 1 <= m PROVE k + 1 <= at[k + 1 + 1]
      OBVIOUS
  <2>1. k + 1 \in 1 .. m /\ k + 1 \in 1 .. m + 1
        BY <1>0
  <2>2. at[k + 1 + 1] = at[k + 1] + FlagBytes(k + 1) + ItemBytes(file.items[k + 1])
        BY <2>1, PlaceIn
  <2>3. FlagBytes(k + 1) \in 0 .. 1 /\ ItemBytes(file.items[k + 1]) \in 1 .. 2
        BY DEF FlagBytes, ItemBytes
  <2>4. at[k + 1] \in Nat /\ k <= at[k + 1]
        BY <1>0, <1>2, <2>1
  <2> QED BY <2>2, <2>3, <2>4
<1>3. m \in S
  <2> HIDE DEF S
  <2> QED BY <1>0, <1>1, <1>2, SetInduction
<1>4. m + 1 \in 1 .. m + 1
      BY <1>0
<1> QED BY <1>0, <1>3, <1>4

\* What Decode arrives at.
LEMMA DecodeIs ==
    ASSUME NEW p, NEW file, NEW m, NEW gl, NEW at, NEW sl, NEW st, NEW f, Known(p, file, m, gl, at, sl, st, f),
           p[1] = file.size, file.size <= BUFFER
    PROVE  \E s : Unpacked(s, f, file.size) /\ decodeLZSS(p, 1 + at[m + 1], BUFFER) = s.out
<1>0. m \in Nat /\ file.size \in Nat /\ BUFFER \in Nat
      BY FpkAssumption DEF Known, HasItems
<1>n. PICK n \in Nat : n = 1 + at[m + 1] /\ m < n
  <2>1. at[m + 1] \in Nat /\ m <= at[m + 1]
        BY FewItems
  <2>2. 1 + at[m + 1] \in Nat /\ m < 1 + at[m + 1]
        BY <1>0, <2>1
  <2> QED BY <2>2
<1>z. PICK size \in Nat : size = file.size /\ Min({BUFFER, p[1]}) = size
  <2>1. Min({BUFFER, file.size}) = file.size
        BY <1>0, MinOfTwo
  <2> QED BY <1>0, <2>1
<1>s. PICK first : first = DecodesFrom(N - F)
      OBVIOUS
<1> DEFINE Acc(g) == g = [i \in 0 .. n |-> IF i = 0 THEN first ELSE ItemOn(p, n, size, g[i - 1])]
<1> DEFINE loop == CHOOSE g : Acc(g)
<1>1. decodeLZSS(p, n, BUFFER) = loop[n].out
      BY <1>s, <1>z DEF decodeLZSS, Decode, DecodesFrom
<1>2. \E g : Acc(g)
  <2>1. \E g : IsDecoding(g, first, p, n, size, n)
        BY DecodingExists
  <2> QED BY <2>1 DEF IsDecoding
<1>3. Acc(loop)
  <2> HIDE DEF Acc
  <2> QED BY <1>2
<1> HIDE DEF loop
<1>4. \A i \in 0 .. n : loop[i] = IF i = 0 THEN first ELSE ItemOn(p, n, size, loop[i - 1])
      BY <1>3
<1> HIDE DEF Acc
<1> DEFINE S == {i \in Nat : i <= n => Progress(loop[i], i, file, m, at, st, f)}
<1>5. 0 \in S
  <2>1. loop[0] = first
        BY <1>4
  <2> QED BY <1>s, <2>1, DecodingBegins
<1>6. ASSUME NEW i \in Nat, i \in S PROVE i + 1 \in S
  <2> SUFFICES ASSUME i + 1 <= n PROVE Progress(loop[i + 1], i + 1, file, m, at, st, f)
      OBVIOUS
  <2>s. PICK s : s = loop[i]
      OBVIOUS
  <2>1. Progress(s, i, file, m, at, st, f)
        BY <1>6, <2>s
  <2>2. loop[i + 1] = ItemOn(p, n, size, s)
    <3>1. i + 1 \in 0 .. n /\ i + 1 # 0 /\ (i + 1) - 1 = i
          OBVIOUS
    <3> QED BY <1>4, <2>s, <3>1
  <2>3. Progress(ItemOn(p, 1 + at[m + 1], file.size, s), i + 1, file, m, at, st, f)
        BY <2>1, PassMade
  <2> QED BY <1>n, <1>z, <2>2, <2>3
<1>7. n \in S
  <2> HIDE DEF S
  <2> QED BY <1>5, <1>6, SetInduction
<1>8. Unpacked(loop[n], f, file.size)
  <2>1. n + 1 \notin 1 .. m
        BY <1>0, <1>n
  <2> QED BY <1>7, <2>1 DEF Progress
<1>9. PICK s : s = loop[n]
      OBVIOUS
<1> QED BY <1>1, <1>8, <1>9, <1>n

\* The first n elements of p are those of u.
Begins(p, u, n) == \A x \in 1 .. n : p[x] = u[x]

\* Unpacking gives back what was packed.
THEOREM DecodesPlain ==
    ASSUME NEW file, IsFile(file), NEW p, Begins(p, Packed(file), Len(Packed(file)))
    PROVE  decodeLZSS(p, Len(Packed(file)), BUFFER) = Plain(file)
<1>m. PICK m : HasItems(file, m)
      BY ItemsOf
<1>0. m \in Nat
      BY <1>m DEF HasItems
<1>p. PICK gl, at : PackedAs(Packed(file), file, m, gl, at)
      BY <1>m, PackedIs
<1>s. PICK sl, st : SourcesAs(AllSources(file), file, m, sl, st)
      BY <1>m, SourcesAre
<1>1. file.size \in Nat /\ file.size <= st[m + 1] /\ st[m + 1] \in Nat /\ file.size <= BUFFER
      BY <1>m, <1>s, SizeFits
<1>f. PICK f : PlainAs(Plain(file), f, AllSources(file), file.size)
      BY <1>1, PlainIs
<1>g. PICK g \in Nat : g = at[m + 1] /\ at \in [1 .. m + 1 -> Nat] /\ gl \in [1 .. m -> Nat]
      /\ (\A k \in 1 .. m : at[k] + gl[k] <= at[m + 1])
  <2>1. m + 1 \in 1 .. m + 1
        BY <1>0
  <2>2. at \in [1 .. m + 1 -> Nat] /\ \A k \in 1 .. m : at[k] + gl[k] <= at[m + 1]
        BY <1>p DEF PackedAs, StartsAre
  <2>3. gl \in [1 .. m -> Nat]
        BY <1>p DEF PackedAs, GroupBytes, FlagBytes, ItemBytes
  <2> QED BY <2>1, <2>2, <2>3
<1>u. PICK u : u = Packed(file)
      OBVIOUS
<1>2. Row(u, 1 + g) /\ Len(u) = 1 + g /\ u[1] = file.size
  <2>1. Row(u, 1 + g) /\ u[1] = file.size
        BY <1>g, <1>p, <1>u DEF PackedAs
  <2>2. \E S : u \in Seq(S) /\ Len(u) = 1 + g /\ DOMAIN u = 1 .. 1 + g
        BY <2>1, RowIsSeq
  <2> QED BY <2>1, <2>2
<1>3. \A x \in 1 .. 1 + g : p[x] = u[x]
      BY <1>2, <1>u DEF Begins
<1>4. p[1] = file.size
  <2>1. 1 \in 1 .. 1 + g
        OBVIOUS
  <2> QED BY <1>2, <1>3, <2>1
<1>5. ASSUME NEW k \in 1 .. m, NEW x \in 1 .. gl[k] PROVE p[1 + at[k] + x] = Group(file.items, k)[x]
  <2>1. u[1 + at[k] + x] = Group(file.items, k)[x]
        BY <1>p, <1>u DEF PackedAs
  <2>2. 1 + at[k] + x \in 1 .. 1 + g
    <3>1. k \in 1 .. m + 1
          BY <1>0
    <3>2. at[k] \in Nat /\ gl[k] \in Nat /\ at[k] + gl[k] <= g
          BY <1>g, <3>1
    <3> QED BY <3>2
  <2> QED BY <1>3, <2>1, <2>2
<1>6. Known(p, file, m, gl, at, sl, st, f)
      BY <1>m, <1>p, <1>s, <1>f, <1>1, <1>5 DEF Known, PackedAs, PlainAs
<1>7. PICK s : Unpacked(s, f, file.size) /\ decodeLZSS(p, 1 + at[m + 1], BUFFER) = s.out
      BY <1>1, <1>4, <1>6, DecodeIs
<1>8. s.out = Plain(file)
  <2>z. PICK size : size = file.size
        OBVIOUS
  <2>o. PICK out, plain : out = s.out /\ plain = Plain(file)
        OBVIOUS
  <2>1. Row(out, size) /\ Row(plain, size) /\ \A j \in 1 .. size : out[j] = f[j] /\ plain[j] = f[j]
        BY <1>7, <1>f, <2>z, <2>o DEF Unpacked, PlainAs
  <2>2. out = [j \in 1 .. size |-> f[j]] /\ plain = [j \in 1 .. size |-> f[j]]
        BY <2>1 DEF Row
  <2> QED BY <2>2, <2>o
<1> QED BY <1>2, <1>7, <1>8, <1>g, <1>u

\* A packed file is a row of bytes.
LEMMA PackedRow ==
    ASSUME NEW file, IsFile(file)
    PROVE  Len(Packed(file)) \in Nat /\ Row(Packed(file), Len(Packed(file)))
<1>m. PICK m : HasItems(file, m)
      BY ItemsOf
<1>p. PICK gl, at : PackedAs(Packed(file), file, m, gl, at)
      BY <1>m, PackedIs
<1>u. PICK u : u = Packed(file)
      OBVIOUS
<1>g. PICK g \in Nat : g = 1 + at[m + 1]
  <2>1. m + 1 \in 1 .. m + 1 /\ m \in Nat
        BY <1>m DEF HasItems
  <2>2. at[m + 1] \in Nat
        BY <1>p, <2>1 DEF PackedAs, StartsAre
  <2> QED BY <2>2
<1>1. Row(u, g)
      BY <1>g, <1>p, <1>u DEF PackedAs
<1>2. PICK S : u \in Seq(S) /\ Len(u) = g
      BY <1>1, RowIsSeq
<1> QED BY <1>1, <1>2, <1>u

-----------------------------------------------------------------------------
(***************************************************************************)
(* The image of the archive.                                               *)
(***************************************************************************)
\* The archive has n files.
HasFiles(n) == n \in Nat /\ Len(archive) = n /\ DOMAIN archive = 1 .. n /\ \A i \in 1 .. n : IsFile(archive[i])

\* How many it has.
LEMMA FilesOf == ASSUME archive \in Songs PROVE \E n : HasFiles(n)
<1>1. PICK T : T = {archive[i] : i \in DOMAIN archive}
      OBVIOUS
<1>2. archive \in Seq(T) /\ \A i \in DOMAIN archive : IsFile(archive[i])
      BY <1>1, FpkAssumption
<1>3. Len(archive) \in Nat /\ DOMAIN archive = 1 .. Len(archive)
      BY <1>2, LenProperties
<1> QED BY <1>2, <1>3 DEF HasFiles

\* A part of n bytes is a row.
LEMMA PartIs == ASSUME NEW x, NEW n \in Nat
                PROVE  Row(Part(x, n), n) /\ \A k \in 1 .. n : Part(x, n)[k] = [of |-> x, byte |-> k]
BY DEF Row, Part

\* The archive's bytes are the header, the entries and the packed files.
ImageIs(l, n) ==
    /\ HasFiles(n) /\ l \in Nat /\ Row(fpk, l) /\ HDR <= l
    /\ \A x \in 1 .. HDR : fpk[x] = [of |-> [signature |-> "KAPF", files_count |-> n], byte |-> x]
    /\ \A i \in 1 .. n :
          /\ HDR + (i - 1) * ENT + ENT <= l
          /\ \A x \in 1 .. ENT : fpk[HDR + (i - 1) * ENT + x] = [of |-> Entry(i), byte |-> x]
          /\ Entry(i).offset \in Nat /\ Entry(i).size = Len(Packed(archive[i])) /\ Entry(i).offset + Entry(i).size <= l
          /\ \A x \in 1 .. Entry(i).size : fpk[Entry(i).offset + x] = Packed(archive[i])[x]

\* The entries one behind the other.
LEMMA EntriesJoined ==
    ASSUME NEW n, HasFiles(n), NEW t, t = Joined([i \in DOMAIN archive |-> Part(Entry(i), ENT)])
    PROVE  /\ n * ENT \in Nat /\ Row(t, n * ENT)
           /\ \A i \in 1 .. n : /\ (i - 1) * ENT \in Nat /\ (i - 1) * ENT + ENT <= n * ENT
                                /\ \A x \in 1 .. ENT : t[(i - 1) * ENT + x] = [of |-> Entry(i), byte |-> x]
<1>0. n \in Nat /\ DOMAIN archive = 1 .. n /\ ENT \in Nat
      BY FpkAssumption DEF HasFiles
<1>s. PICK ss : ss = [i \in 1 .. n |-> Part(Entry(i), ENT)]
      OBVIOUS
<1>l. PICK ls : ls = [i \in 1 .. n |-> ENT]
      OBVIOUS
<1>a. PICK at : at = [i \in 1 .. n + 1 |-> Total(UpTo(ls, i))]
      OBVIOUS
<1>1. ls \in [1 .. n -> Nat]
      BY <1>0, <1>l
<1>2. StartsAre(ls, n, at)
      BY <1>0, <1>1, <1>a, StartsExist
<1>d. PICK d \in Nat : d = ENT
      BY <1>0
<1>3. \A i \in 1 .. n + 1 : at[i] = (i - 1) * d
  <2>1. ls = [i \in 1 .. n |-> d]
        BY <1>d, <1>l
  <2>2. EverySo(at, n, d)
        BY <1>0, <1>2, <2>1, EqualStarts
  <2> QED BY <2>2 DEF EverySo
<1>4. Rows(ss, ls, n)
  <2>1. Len(ss) = n
    <3>1. ss \in [1 .. n -> {ss[k] : k \in 1 .. n}]
          BY <1>s
    <3> QED BY <1>0, <3>1, FunctionIsSeq
  <2>2. \A i \in 1 .. n : Row(ss[i], ls[i])
    <3>1. \A i \in 1 .. n : ss[i] = Part(Entry(i), ENT) /\ ls[i] = ENT
          BY <1>s, <1>l
    <3> QED BY <1>0, <3>1, PartIs
  <2> QED BY <1>1, <2>1, <2>2 DEF Rows
<1>5. JoinedTo(t, ss, ls, n)
  <2>1. t = Joined(ss)
        BY <1>0, <1>s
  <2> QED BY <1>0, <1>4, <2>1, RowsJoined
<1>e. PICK e \in Nat : e = at[n + 1] /\ e = n * d
  <2>1. n + 1 \in 1 .. n + 1 /\ (n + 1) - 1 = n
        BY <1>0
  <2>2. at[n + 1] \in Nat
        BY <1>2, <2>1 DEF StartsAre
  <2> QED BY <1>3, <2>1, <2>2
<1>6. Row(t, e)
  <2>1. n + 1 \in 1 .. n + 1
        BY <1>0
  <2> QED BY <1>5, <1>a, <1>e, <2>1 DEF JoinedTo
<1>7. ASSUME NEW i \in 1 .. n
      PROVE  /\ (i - 1) * d \in Nat /\ (i - 1) * d + d <= e
             /\ \A x \in 1 .. d : t[(i - 1) * d + x] = [of |-> Entry(i), byte |-> x]
  <2>i. i \in 1 .. n + 1
        BY <1>0
  <2>a. PICK a \in Nat : a = at[i] /\ a = (i - 1) * d
    <3>1. at[i] \in Nat
          BY <1>2, <2>i DEF StartsAre
    <3> QED BY <1>3, <2>i, <3>1
  <2>1. a + d <= e
    <3>1. at[i] + ls[i] <= at[n + 1] /\ ls[i] = d
          BY <1>2, <1>d, <1>l DEF StartsAre
    <3> QED BY <1>e, <2>a, <3>1
  <2>2. \A x \in 1 .. d : t[a + x] = [of |-> Entry(i), byte |-> x]
    <3>1. \A x \in 1 .. ls[i] : t[at[i] + x] = ss[i][x]
          BY <1>5, <1>a, <2>i DEF JoinedTo
    <3>2. ls[i] = d /\ ss[i] = Part(Entry(i), d)
          BY <1>d, <1>l, <1>s
    <3>3. \A x \in 1 .. d : ss[i][x] = [of |-> Entry(i), byte |-> x]
          BY <3>2, PartIs
    <3>4. \A x \in 1 .. d : t[a + x] = ss[i][x]
          BY <2>a, <3>1, <3>2
    <3> QED BY <3>3, <3>4
  <2> QED BY <2>a, <2>1, <2>2
<1> QED BY <1>d, <1>e, <1>6, <1>7

\* The archive is one of fpack -e: what is stored is packed.
LEMMA StoredPacked == ASSUME signature = "KAPF", NEW f PROVE FileBytes(f) = Packed(f)
BY DEF FileBytes

\* t has the packed files, which are from place e of the archive on.
FilesFrom(t, n, e, q) ==
    /\ Row(t, q)
    /\ \A i \in 1 .. n : \E a \in Nat :
          /\ Entry(i).offset = e + a /\ Entry(i).size = Len(Packed(archive[i])) /\ Entry(i).size \in Nat
          /\ a + Entry(i).size <= q
          /\ \A x \in 1 .. Entry(i).size : t[a + x] = Packed(archive[i])[x]

\* Joined they are.
LEMMA FilesJoined ==
    ASSUME signature = "KAPF", NEW n, HasFiles(n),
           NEW t, t = Joined([i \in DOMAIN archive |-> Packed(archive[i])]), NEW e \in Nat, e = HDR + n * ENT
    PROVE  \E q \in Nat : FilesFrom(t, n, e, q)
<1>0. n \in Nat /\ DOMAIN archive = 1 .. n /\ Len(archive) = n /\ \A i \in 1 .. n : IsFile(archive[i])
      BY DEF HasFiles
<1>s. PICK ss : ss = [i \in 1 .. n |-> Packed(archive[i])]
      OBVIOUS
<1>l. PICK ls : ls = [i \in 1 .. n |-> Len(Packed(archive[i]))]
      OBVIOUS
<1>a. PICK at : at = [i \in 1 .. n + 1 |-> Total(UpTo(ls, i))]
      OBVIOUS
<1>1. ls \in [1 .. n -> Nat] /\ \A i \in 1 .. n : Row(ss[i], ls[i])
  <2>1. \A i \in 1 .. n : Len(Packed(archive[i])) \in Nat /\ Row(Packed(archive[i]), Len(Packed(archive[i])))
        BY <1>0, PackedRow
  <2> QED BY <1>l, <1>s, <2>1
<1>2. StartsAre(ls, n, at)
      BY <1>0, <1>1, <1>a, StartsExist
<1>4. Rows(ss, ls, n)
  <2>1. Len(ss) = n
    <3>1. ss \in [1 .. n -> {ss[k] : k \in 1 .. n}]
          BY <1>s
    <3> QED BY <1>0, <3>1, FunctionIsSeq
  <2> QED BY <1>1, <2>1 DEF Rows
<1>5. JoinedTo(t, ss, ls, n)
  <2>1. t = Joined(ss)
        BY <1>0, <1>s
  <2> QED BY <1>0, <1>4, <2>1, RowsJoined
<1>q. PICK q \in Nat : q = at[n + 1]
  <2>1. n + 1 \in 1 .. n + 1
        BY <1>0
  <2> QED BY <1>2, <2>1 DEF StartsAre
<1>6. Row(t, q)
  <2>1. n + 1 \in 1 .. n + 1
        BY <1>0
  <2> QED BY <1>5, <1>a, <1>q, <2>1 DEF JoinedTo
<1>7. ASSUME NEW i \in 1 .. n
      PROVE  \E a \in Nat : /\ Entry(i).offset = e + a /\ Entry(i).size = Len(Packed(archive[i])) /\ Entry(i).size \in Nat
                            /\ a + Entry(i).size <= q
                            /\ \A x \in 1 .. Entry(i).size : t[a + x] = Packed(archive[i])[x]
  <2>i. i \in 1 .. n + 1
        BY <1>0
  <2>a. PICK a \in Nat : a = at[i]
        BY <1>2, <2>i DEF StartsAre
  <2>z. PICK z \in Nat : z = ls[i] /\ z = Len(Packed(archive[i]))
        BY <1>1, <1>l
  <2>1. Entry(i).size = z
        BY <2>z, StoredPacked DEF Entry
  <2>2. Entry(i).offset = e + a
    <3>u. PICK u : u = [k \in 1 .. i - 1 |-> Len(Packed(archive[k]))]
          OBVIOUS
    <3>1. Entry(i).offset = HDR + n * ENT + Total(u)
      <4>1. u = [k \in 1 .. i - 1 |-> Len(FileBytes(archive[k]))]
            BY <3>u, StoredPacked
      <4> QED BY <1>0, <4>1 DEF Entry
    <3>2. u = UpTo(ls, i)
      <4>1. \A k \in 1 .. i - 1 : k \in 1 .. n
            BY <1>0
      <4>2. \A k \in 1 .. i - 1 : ls[k] = Len(Packed(archive[k]))
            BY <1>l, <4>1
      <4> QED BY <3>u, <4>2 DEF UpTo
    <3>3. Total(u) = a
          BY <1>a, <2>a, <2>i, <3>2
    <3> QED BY <3>1, <3>3
  <2>3. a + z <= q
    <3>1. at[i] + ls[i] <= at[n + 1]
          BY <1>2 DEF StartsAre
    <3> QED BY <1>q, <2>a, <2>z, <3>1
  <2>4. \A x \in 1 .. z : t[a + x] = Packed(archive[i])[x]
    <3>1. \A x \in 1 .. ls[i] : t[at[i] + x] = ss[i][x]
          BY <1>5, <1>a, <2>i DEF JoinedTo
    <3>2. ss[i] = Packed(archive[i])
          BY <1>s
    <3> QED BY <2>a, <2>z, <3>1, <3>2
  <2> QED BY <2>z, <2>1, <2>2, <2>3, <2>4
<1> QED BY <1>6, <1>7 DEF FilesFrom

\* All of them in the archive.
LEMMA ImagePlaces == ASSUME archive \in Songs, signature = "KAPF", fpk = Image PROVE \E l, n : ImageIs(l, n)
<1>n. PICK n : HasFiles(n)
      BY FilesOf
<1>0. n \in Nat /\ Len(archive) = n /\ HDR \in Nat /\ ENT \in Nat
      BY <1>n, FpkAssumption DEF HasFiles
<1>h. PICK h : h = Part([signature |-> "KAPF", files_count |-> n], HDR)
      OBVIOUS
<1>t. PICK t : t = Joined([i \in DOMAIN archive |-> Part(Entry(i), ENT)])
      OBVIOUS
<1>u. PICK u : u = Joined([i \in DOMAIN archive |-> Packed(archive[i])])
      OBVIOUS
<1>w. PICK w : w = h \o t
      OBVIOUS
<1>1. fpk = w \o u
  <2>1. [i \in DOMAIN archive |-> FileBytes(archive[i])] = [i \in DOMAIN archive |-> Packed(archive[i])]
        BY StoredPacked
  <2>2. fpk = Part([signature |-> signature, files_count |-> Len(archive)], HDR) \o t \o u
        BY <1>t, <1>u, <2>1 DEF Image
  <2> QED BY <1>0, <1>h, <1>w, <2>2
<1>2. Row(h, HDR) /\ \A k \in 1 .. HDR : h[k] = [of |-> [signature |-> "KAPF", files_count |-> n], byte |-> k]
      BY <1>0, <1>h, PartIs
<1>e. PICK e \in Nat : e = n * ENT /\ Row(t, e)
      /\ \A i \in 1 .. n : /\ (i - 1) * ENT \in Nat /\ (i - 1) * ENT + ENT <= e
                           /\ \A x \in 1 .. ENT : t[(i - 1) * ENT + x] = [of |-> Entry(i), byte |-> x]
      BY <1>n, <1>t, EntriesJoined
<1>b. PICK b \in Nat : b = HDR + e
      BY <1>0
<1>q. PICK q \in Nat : FilesFrom(u, n, b, q)
  <2>1. b = HDR + n * ENT
        BY <1>b, <1>e
  <2> QED BY <1>n, <1>u, <2>1, FilesJoined
<1>r. Row(u, q)
      BY <1>q DEF FilesFrom
<1>3. Row(w, b) /\ (\A x \in 1 .. HDR : w[x] = h[x]) /\ (\A x \in 1 .. e : w[HDR + x] = t[x])
  <2>1. Follows(w, h, HDR, t, e)
        BY <1>0, <1>2, <1>e, <1>w, RowsConcat
  <2> QED BY <1>b, <2>1 DEF Follows
<1>4. Row(fpk, b + q) /\ (\A x \in 1 .. b : fpk[x] = w[x]) /\ (\A x \in 1 .. q : fpk[b + x] = u[x])
  <2>1. Follows(fpk, w, b, u, q)
        BY <1>1, <1>3, <1>r, RowsConcat
  <2> QED BY <2>1 DEF Follows
<1>5. \A x \in 1 .. HDR : fpk[x] = [of |-> [signature |-> "KAPF", files_count |-> n], byte |-> x]
  <2> TAKE x \in 1 .. HDR
  <2>1. x \in 1 .. b
        BY <1>0, <1>b
  <2> QED BY <1>2, <1>3, <1>4, <2>1
<1>6. ASSUME NEW i \in 1 .. n
      PROVE  /\ HDR + (i - 1) * ENT + ENT <= b + q
             /\ \A x \in 1 .. ENT : fpk[HDR + (i - 1) * ENT + x] = [of |-> Entry(i), byte |-> x]
  <2>a. PICK a \in Nat : a = (i - 1) * ENT /\ a + ENT <= e /\ \A x \in 1 .. ENT : t[a + x] = [of |-> Entry(i), byte |-> x]
        BY <1>e
  <2>1. HDR + a + ENT <= b + q
        BY <1>0, <1>b, <2>a
  <2>2. ASSUME NEW x \in 1 .. ENT PROVE fpk[HDR + a + x] = [of |-> Entry(i), byte |-> x]
    <3>1. a + x \in 1 .. e /\ HDR + (a + x) \in 1 .. b /\ HDR + (a + x) = HDR + a + x
          BY <1>0, <1>b, <2>a
    <3>2. fpk[HDR + (a + x)] = t[a + x]
          BY <1>3, <1>4, <3>1
    <3> QED BY <2>a, <3>1, <3>2
  <2> QED BY <2>a, <2>1, <2>2
<1>7. ASSUME NEW i \in 1 .. n
      PROVE  /\ Entry(i).offset \in Nat /\ Entry(i).size = Len(Packed(archive[i])) /\ Entry(i).offset + Entry(i).size <= b + q
             /\ \A x \in 1 .. Entry(i).size : fpk[Entry(i).offset + x] = Packed(archive[i])[x]
  <2>z. PICK z \in Nat : z = Entry(i).size
        BY <1>q DEF FilesFrom
  <2>a. PICK a \in Nat : /\ Entry(i).offset = b + a /\ z = Len(Packed(archive[i])) /\ a + z <= q
                         /\ \A x \in 1 .. z : u[a + x] = Packed(archive[i])[x]
        BY <1>q, <2>z DEF FilesFrom
  <2>1. ASSUME NEW x \in 1 .. z PROVE fpk[b + a + x] = Packed(archive[i])[x]
    <3>1. a + x \in 1 .. q /\ b + (a + x) = b + a + x
          BY <2>a
    <3>2. fpk[b + (a + x)] = u[a + x]
          BY <1>4, <3>1
    <3> QED BY <2>a, <3>1, <3>2
  <2>2. b + a \in Nat /\ b + a + z <= b + q
        BY <2>a
  <2> QED BY <2>z, <2>a, <2>1, <2>2
<1>8. HDR <= b + q /\ b + q \in Nat
      BY <1>0, <1>b
<1>9. ImageIs(b + q, n)
      BY <1>n, <1>4, <1>5, <1>6, <1>7, <1>8 DEF ImageIs
<1> QED BY <1>9

-----------------------------------------------------------------------------
(***************************************************************************)
(* The player's state and what it plays.                                   *)
(***************************************************************************)
\* fpkplay's and fpk.c's static variables.
AppFields == {"callback", "open", "files_count", "g_sct", "cache", "index", "selection", "playing", "sounds",
              "fpk_buffer", "seq_buffer", "screen", "lcd", "g_fDraw", "g_fHold", "error_shown"}

\* Of a's fields b has all but those in some as they were.
Keeps(b, a, some) == DOMAIN b = AppFields /\ \A x \in AppFields \ some : b[x] = a[x]

\* The variables are there, and the display has the screen or is to get it.
Shown(a) ==
    /\ DOMAIN a = AppFields /\ DOMAIN a.screen = {"seek", "playing"}
    /\ a.g_fDraw \in BOOLEAN /\ a.g_fHold \in BOOLEAN
    /\ a.lcd = a.screen \/ a.g_fDraw

\* The archive can be read, and the buffers have their sizes.
Ready(a) ==
    /\ Readable(a) /\ a.files_count = Len(archive)
    /\ Row(a.fpk_buffer, BUFFER) /\ Row(a.seq_buffer, BUFFER)

\* If music sounds, it is a file of the archive, which is in the buffer.
HasSong(a, i) == a.playing.filename = archive[i].filename /\ Begins(a.seq_buffer, Plain(archive[i]), Len(Plain(archive[i])))
Sounds(a) == a.sounds => \E i \in DOMAIN archive : HasSong(a, i)

\* The screen tells its name.
Titled(a) == a.sounds => a.screen.playing = a.playing.filename

\* A file of the archive is chosen, and the screen tells its name.
Offers(a) ==
    /\ a.index \in 0 .. Len(archive) - 1
    /\ a.selection.filename = archive[a.index + 1].filename /\ a.screen.seek = a.selection.filename

\* The archive is there.
Archived == archive \in Songs /\ fpk = Image

\* Writing the beginning of a buffer.
LEMMA OverIs ==
    ASSUME NEW m \in Nat, NEW buffer, Row(buffer, m), NEW z \in Nat, z <= m, NEW bytes, Row(bytes, z)
    PROVE  Row(Over(buffer, bytes), m) /\ Begins(Over(buffer, bytes), bytes, z)
<1>1. DOMAIN buffer = 1 .. m
  <2>1. PICK S : buffer \in Seq(S) /\ DOMAIN buffer = 1 .. m
        BY RowIsSeq
  <2> QED BY <2>1
<1>2. DOMAIN bytes = 1 .. z
  <2>1. PICK S : bytes \in Seq(S) /\ DOMAIN bytes = 1 .. z
        BY RowIsSeq
  <2> QED BY <2>1
<1>o. PICK o : o = Over(buffer, bytes)
      OBVIOUS
<1>3. o = [k \in 1 .. m |-> IF k \in 1 .. z THEN bytes[k] ELSE buffer[k]]
      BY <1>1, <1>2, <1>o DEF Over
<1>4. Row(o, m) /\ \A x \in 1 .. z : o[x] = bytes[x]
  <2>1. \A x \in 1 .. z : x \in 1 .. m
        OBVIOUS
  <2> QED BY <1>3, <2>1 DEF Row
<1> QED BY <1>4, <1>o DEF Begins

\* Reading a file's entry.
GotInfo(g, a, field, entry) == Keeps(g, a, {"g_sct", "cache", field}) /\ g[field] = entry

\* The player has the entry it asks for, and can read on.
LEMMA InfoIs ==
    ASSUME NEW a, DOMAIN a = AppFields, NEW index, NEW field, field \in {"selection", "playing"}, Archived, Supported,
           Readable(a), index \in 0 .. Len(archive) - 1, NEW g, g = fpkGetFileInfoN(a, index, field)
    PROVE  GotInfo(g, a, field, Entry(index + 1)) /\ Readable(g)
<1>n. PICK l, n : ImageIs(l, n)
      BY ImagePlaces DEF Archived, Supported
<1>0. n \in Nat /\ Len(archive) = n /\ DOMAIN archive = 1 .. n /\ l \in Nat /\ Row(fpk, l) /\ ENT \in Nat \ {0} /\ HDR \in Nat
      BY <1>n, FpkAssumption DEF ImageIs, HasFiles
<1>i. PICK i \in 1 .. n : i = index + 1 /\ i - 1 = index
  <2>1. index + 1 \in 1 .. n /\ (index + 1) - 1 = index
        BY <1>0
  <2> QED BY <2>1
<1>p. PICK pos \in Nat : pos = HDR + index * ENT /\ pos = HDR + (i - 1) * ENT
  <2>1. index \in Nat /\ index * ENT \in Nat
        BY <1>0
  <2>2. HDR + index * ENT \in Nat /\ HDR + index * ENT = HDR + (i - 1) * ENT
        BY <1>0, <1>i, <2>1
  <2> QED BY <2>2
<1>1. pos + ENT <= l /\ \A x \in 1 .. ENT : fpk[pos + x] = [of |-> Entry(i), byte |-> x]
      BY <1>n, <1>p DEF ImageIs
<1>r. PICK r : r = fpkFileReadPos(a, pos, ENT)
      OBVIOUS
<1>2. HasRead(r, pos, ENT)
  <2>1. InArchive(pos, ENT, l)
        BY <1>0, <1>1 DEF InArchive
  <2> QED BY <1>r, <2>1, ReadsAll
<1>3. Row(r.buf, ENT) /\ (\A x \in 1 .. ENT : r.buf[x] = [of |-> Entry(i), byte |-> x]) /\ Cached(r.g_sct, r.cache)
      BY <1>1, <1>2 DEF HasRead
<1>4. DOMAIN r.buf = 1 .. ENT
  <2>1. PICK S : r.buf \in Seq(S) /\ DOMAIN r.buf = 1 .. ENT
        BY <1>0, <1>3, RowIsSeq
  <2> QED BY <2>1
<1>5. IsWhole(r.buf) /\ r.buf[1].of = Entry(i)
  <2>1. 1 \in 1 .. ENT
        BY <1>0
  <2>2. r.buf[1] = [of |-> Entry(i), byte |-> 1]
        BY <1>3, <2>1
  <2>3. r.buf[1].of = Entry(i)
        BY <2>2
  <2>4. ASSUME NEW k \in 1 .. ENT PROVE r.buf[k] \in [of : {r.buf[1].of}, byte : {k}]
    <3>1. r.buf[k] = [of |-> r.buf[1].of, byte |-> k]
          BY <1>3, <2>3
    <3> QED BY <3>1
  <2> QED BY <1>4, <2>3, <2>4 DEF IsWhole
<1>6. g = [[a EXCEPT !.g_sct = r.g_sct, !.cache = r.cache] EXCEPT ![field] = Entry(i)]
  <2>1. index + 1 \in DOMAIN archive
        BY <1>0, <1>i
  <2> QED BY <1>i, <1>p, <1>r, <1>5, <2>1 DEF fpkGetFileInfoN, Reads
<1>h. PICK h : h = [a EXCEPT !.g_sct = r.g_sct, !.cache = r.cache]
      OBVIOUS
<1>7. DOMAIN h = AppFields /\ h.g_sct = r.g_sct /\ h.cache = r.cache /\ \A x \in AppFields \ {"g_sct", "cache"} : h[x] = a[x]
      BY <1>h DEF AppFields
<1>8. g = [h EXCEPT ![field] = Entry(i)] /\ field \in AppFields
      BY <1>6, <1>h DEF AppFields
<1>9. Keeps(g, a, {"g_sct", "cache", field}) /\ g[field] = Entry(i)
      BY <1>7, <1>8 DEF Keeps
<1>10. g.open = a.open /\ g.g_sct = r.g_sct /\ g.cache = r.cache
  <2>1. "open" \in AppFields /\ "g_sct" \in AppFields /\ "cache" \in AppFields
        BY DEF AppFields
  <2> QED BY <1>7, <1>8, <2>1
<1> QED BY <1>i, <1>3, <1>9, <1>10 DEF GotInfo, Readable

\* Whatever the archive is, an entry is read and nothing else changes.
LEMMA SomeInfo ==
    ASSUME NEW a, DOMAIN a = AppFields, NEW index, NEW field, field \in {"selection", "playing"},
           NEW g, g = fpkGetFileInfoN(a, index, field)
    PROVE  Keeps(g, a, {"g_sct", "cache", field})
<1>p. PICK pos : pos = HDR + index * ENT
      OBVIOUS
<1>r. PICK r : r = fpkFileReadPos(a, pos, ENT)
      OBVIOUS
<1>e. PICK entry : entry = IF index + 1 \in DOMAIN archive /\ IsWhole(r.buf) THEN r.buf[1].of ELSE NoEntry
      OBVIOUS
<1>h. PICK h : h = [a EXCEPT !.g_sct = r.g_sct, !.cache = r.cache]
      OBVIOUS
<1>1. g = [h EXCEPT ![field] = entry]
      BY <1>p, <1>r, <1>e, <1>h DEF fpkGetFileInfoN, Reads
<1>2. DOMAIN h = AppFields /\ \A x \in AppFields \ {"g_sct", "cache"} : h[x] = a[x]
      BY <1>h DEF AppFields
<1> QED BY <1>1, <1>2 DEF Keeps

\* And bytes of it into fpk_buffer.
LEMMA SomeBytes ==
    ASSUME NEW a, DOMAIN a = AppFields, NEW entry, NEW e, e = fpkExtractToBuffer(a, entry)
    PROVE  Keeps(e, a, {"g_sct", "cache", "fpk_buffer"})
<1>r. PICK r : r = fpkFileReadPos(a, entry.offset, entry.size)
      OBVIOUS
<1>h. PICK h : h = [a EXCEPT !.g_sct = r.g_sct, !.cache = r.cache]
      OBVIOUS
<1>1. e = [h EXCEPT !.fpk_buffer = Over(@, r.buf)]
      BY <1>r, <1>h DEF fpkExtractToBuffer, Reads
<1>2. DOMAIN h = AppFields /\ \A x \in AppFields \ {"g_sct", "cache"} : h[x] = a[x]
      BY <1>h DEF AppFields
<1> QED BY <1>1, <1>2 DEF Keeps

\* A file's packed bytes are read into fpk_buffer.
LEMMA ExtractIs ==
    ASSUME NEW a, DOMAIN a = AppFields, Archived, Supported, Readable(a), Row(a.fpk_buffer, BUFFER),
           NEW i, i \in DOMAIN archive,
           NEW e, e = fpkExtractToBuffer(a, Entry(i))
    PROVE  /\ Keeps(e, a, {"g_sct", "cache", "fpk_buffer"}) /\ Readable(e) /\ Row(e.fpk_buffer, BUFFER)
           /\ Begins(e.fpk_buffer, Packed(archive[i]), Len(Packed(archive[i])))
<1>n. PICK l, n : ImageIs(l, n)
      BY ImagePlaces DEF Archived, Supported
<1>0. n \in Nat /\ DOMAIN archive = 1 .. n /\ l \in Nat /\ Row(fpk, l) /\ i \in 1 .. n /\ IsFile(archive[i]) /\ BUFFER \in Nat
      BY <1>n, FpkAssumption DEF ImageIs, HasFiles
<1>z. PICK z \in Nat : z = Entry(i).size /\ z = Len(Packed(archive[i])) /\ z <= BUFFER
  <2>1. Len(Packed(archive[i])) \in Nat
        BY <1>0, PackedRow
  <2>2. Entry(i).size = Len(Packed(archive[i]))
        BY <1>n, <1>0 DEF ImageIs
  <2>3. Len(Packed(archive[i])) <= BUFFER
        BY <1>0 DEF IsFile
  <2> QED BY <2>1, <2>2, <2>3
<1>p. PICK pos \in Nat : pos = Entry(i).offset /\ pos + z <= l /\ \A x \in 1 .. z : fpk[pos + x] = Packed(archive[i])[x]
  <2>1. /\ Entry(i).offset \in Nat /\ Entry(i).offset + Entry(i).size <= l
        /\ \A x \in 1 .. Entry(i).size : fpk[Entry(i).offset + x] = Packed(archive[i])[x]
        BY <1>n, <1>0 DEF ImageIs
  <2> QED BY <1>z, <2>1
<1>r. PICK r : r = fpkFileReadPos(a, pos, z)
      OBVIOUS
<1>2. HasRead(r, pos, z)
  <2>1. InArchive(pos, z, l)
        BY <1>0, <1>p DEF InArchive
  <2> QED BY <1>r, <2>1, ReadsAll
<1>3. Row(r.buf, z) /\ (\A x \in 1 .. z : r.buf[x] = Packed(archive[i])[x]) /\ Cached(r.g_sct, r.cache)
      BY <1>p, <1>2 DEF HasRead
<1>4. Row(Over(a.fpk_buffer, r.buf), BUFFER) /\ Begins(Over(a.fpk_buffer, r.buf), r.buf, z)
      BY <1>0, <1>z, <1>3, OverIs
<1>5. Begins(Over(a.fpk_buffer, r.buf), Packed(archive[i]), z)
      BY <1>3, <1>4 DEF Begins
<1>h. PICK h : h = [a EXCEPT !.g_sct = r.g_sct, !.cache = r.cache]
      OBVIOUS
<1>6. DOMAIN h = AppFields /\ h.g_sct = r.g_sct /\ h.cache = r.cache /\ \A x \in AppFields \ {"g_sct", "cache"} : h[x] = a[x]
      BY <1>h DEF AppFields
<1>7. e = [h EXCEPT !.fpk_buffer = Over(@, r.buf)]
      BY <1>h, <1>p, <1>r, <1>z DEF fpkExtractToBuffer, Reads
<1>8. h.fpk_buffer = a.fpk_buffer /\ h.open = a.open /\ "fpk_buffer" \in AppFields
      BY <1>6 DEF AppFields
<1>9. Keeps(e, a, {"g_sct", "cache", "fpk_buffer"}) /\ e.fpk_buffer = Over(a.fpk_buffer, r.buf)
      BY <1>6, <1>7, <1>8 DEF Keeps
<1>10. e.open = a.open /\ e.g_sct = r.g_sct /\ e.cache = r.cache
  <2>1. "open" \in AppFields /\ "g_sct" \in AppFields /\ "cache" \in AppFields
        BY DEF AppFields
  <2> QED BY <1>6, <1>7, <1>8, <2>1
<1> QED BY <1>z, <1>3, <1>4, <1>5, <1>9, <1>10 DEF Readable

\* Writing the selection on the screen.
LEMMA SelectionPrinted ==
    ASSUME NEW a, Shown(a), NEW b, b = PrintSelection(a)
    PROVE  /\ Keeps(b, a, {"screen", "g_fDraw"}) /\ Shown(b)
           /\ b.screen.seek = a.selection.filename /\ b.screen.playing = a.screen.playing
<1>1. DOMAIN a = AppFields /\ DOMAIN a.screen = {"seek", "playing"} /\ b = [a EXCEPT !.screen.seek = a.selection.filename, !.g_fDraw = TRUE]
      BY DEF Shown, PrintSelection
<1>h. PICK h : h = [a.screen EXCEPT !.seek = a.selection.filename]
      OBVIOUS
<1>2. h.seek = a.selection.filename /\ h.playing = a.screen.playing /\ DOMAIN h = {"seek", "playing"}
      BY <1>1, <1>h
<1>3. DOMAIN b = AppFields /\ b.screen = h /\ b.g_fDraw = TRUE /\ \A x \in AppFields \ {"screen", "g_fDraw"} : b[x] = a[x]
      BY <1>1, <1>h DEF AppFields
<1>4. b.g_fHold = a.g_fHold
      BY <1>3 DEF AppFields
<1> QED BY <1>2, <1>3, <1>4 DEF Keeps, Shown

\* A cleared screen.
LEMMA ScreenCleared ==
    ASSUME NEW a, Shown(a), NEW b, b = Cls(a)
    PROVE  Keeps(b, a, {"screen", "g_fDraw"}) /\ Shown(b) /\ b.screen = [seek |-> "", playing |-> ""]
<1>1. DOMAIN a = AppFields /\ b = [a EXCEPT !.screen = [seek |-> "", playing |-> ""], !.g_fDraw = TRUE]
      BY DEF Shown, Cls
<1>2. /\ DOMAIN b = AppFields /\ b.screen = [seek |-> "", playing |-> ""] /\ b.g_fDraw = TRUE
      /\ \A x \in AppFields \ {"screen", "g_fDraw"} : b[x] = a[x]
      BY <1>1 DEF AppFields
<1>3. b.g_fHold = a.g_fHold
      BY <1>2 DEF AppFields
<1>4. DOMAIN b.screen = {"seek", "playing"}
      BY <1>2
<1> QED BY <1>2, <1>3, <1>4 DEF Keeps, Shown

\* Fields that are kept twice are kept.
LEMMA KeptTwice ==
    ASSUME NEW a, NEW b, NEW c, NEW some, Keeps(b, a, some), Keeps(c, b, some)
    PROVE  Keeps(c, a, some)
BY DEF Keeps

\* The screen of a song.
LEMMA SongShown ==
    ASSUME NEW a, Shown(a), NEW b, b = ShowNowPlaying(a)
    PROVE  /\ Keeps(b, a, {"screen", "g_fDraw"}) /\ Shown(b)
           /\ b.screen.seek = a.selection.filename /\ b.screen.playing = a.playing.filename
<1>c. PICK c : c = Cls(a)
      OBVIOUS
<1>1. Keeps(c, a, {"screen", "g_fDraw"}) /\ Shown(c) /\ c.screen = [seek |-> "", playing |-> ""]
      BY <1>c, ScreenCleared
<1>d. PICK d : d = [c EXCEPT !.screen.playing = a.playing.filename]
      OBVIOUS
<1>h. PICK h : h = [c.screen EXCEPT !.playing = a.playing.filename]
      OBVIOUS
<1>2. h.playing = a.playing.filename /\ DOMAIN h = {"seek", "playing"}
      BY <1>1, <1>h
<1>3. DOMAIN c = AppFields /\ c.g_fDraw \in BOOLEAN /\ c.g_fHold \in BOOLEAN
      BY <1>1 DEF Shown
<1>4. DOMAIN d = AppFields /\ d.screen = h /\ \A x \in AppFields \ {"screen"} : d[x] = c[x]
      BY <1>3, <1>d, <1>h DEF AppFields
<1>5. c.g_fDraw = TRUE
      BY <1>1, <1>c DEF Cls, Shown, AppFields
<1>6. Keeps(d, c, {"screen", "g_fDraw"}) /\ d.g_fDraw = c.g_fDraw /\ d.g_fHold = c.g_fHold /\ d.selection = c.selection
      BY <1>4 DEF Keeps, AppFields
<1>7. Shown(d)
      BY <1>2, <1>3, <1>4, <1>5, <1>6 DEF Shown
<1>8. b = PrintSelection(d)
      BY <1>c, <1>d DEF ShowNowPlaying
<1>9. Keeps(b, d, {"screen", "g_fDraw"}) /\ Shown(b) /\ b.screen.seek = d.selection.filename /\ b.screen.playing = d.screen.playing
      BY <1>7, <1>8, SelectionPrinted
<1>10. Keeps(b, a, {"screen", "g_fDraw"})
       BY <1>1, <1>6, <1>9, KeptTwice
<1>11. c.selection = a.selection
       BY <1>1 DEF Keeps, AppFields
<1> QED BY <1>2, <1>4, <1>6, <1>9, <1>10, <1>11

\* What matters of the display is kept with its fields.
LEMMA StillShown ==
    ASSUME NEW a, Shown(a), NEW b, DOMAIN b = AppFields, b.screen = a.screen, b.lcd = a.lcd,
           b.g_fDraw = a.g_fDraw, b.g_fHold = a.g_fHold
    PROVE  Shown(b)
BY DEF Shown

\* What matters of the reader and the buffers.
LEMMA StillReady ==
    ASSUME NEW a, Ready(a), NEW b, b.open = a.open, b.g_sct = a.g_sct, b.cache = a.cache, b.files_count = a.files_count,
           b.fpk_buffer = a.fpk_buffer, b.seq_buffer = a.seq_buffer
    PROVE  Ready(b)
BY DEF Ready, Readable

\* Silence.
LEMMA Stopped ==
    ASSUME NEW a, DOMAIN a = AppFields, NEW b, b = musStopImmediately(a)
    PROVE  Keeps(b, a, {"sounds"}) /\ b.sounds = FALSE
BY DEF Keeps, musStopImmediately, AppFields

\* What the player has chosen.
SameChoice(b, a) ==
    b.index = a.index /\ b.selection = a.selection /\ b.callback = a.callback /\ b.g_fHold = a.g_fHold

\* A file of the archive is played and told, unless it is of another kind; then
\* there is silence.
LEMMA MusicPlayed ==
    ASSUME NEW a, Shown(a), Archived, Supported, Ready(a), NEW index, index \in 0 .. Len(archive) - 1,
           NEW b, b = fpkPlayMusic(a, index)
    PROVE  /\ Shown(b) /\ Ready(b) /\ Sounds(b) /\ Titled(b) /\ SameChoice(b, a)
           /\ b.screen.seek = a.screen.seek \/ b.screen.seek = b.selection.filename
<1>n. PICK n : HasFiles(n)
      BY FilesOf DEF Archived
<1>i. PICK i : i = index + 1
      OBVIOUS
<1>0. i \in DOMAIN archive /\ IsFile(archive[i])
  <2>1. n \in Nat /\ Len(archive) = n /\ DOMAIN archive = 1 .. n /\ \A k \in 1 .. n : IsFile(archive[k])
        BY <1>n DEF HasFiles
  <2>2. i \in 1 .. n
        BY <1>i, <2>1
  <2> QED BY <2>1, <2>2
<1>q. PICK q : q = musStopImmediately(a)
      OBVIOUS
<1>1. Keeps(q, a, {"sounds"}) /\ q.sounds = FALSE
      BY <1>q, Stopped DEF Shown
<1>s. PICK s : s = fpkGetFileInfoN(q, index, "playing")
      OBVIOUS
<1>2. DOMAIN q = AppFields /\ Readable(q)
      BY <1>1 DEF Keeps, Readable, Ready, AppFields
<1>3. Keeps(s, q, {"g_sct", "cache", "playing"}) /\ s.playing = Entry(i) /\ Readable(s)
  <2>1. GotInfo(s, q, "playing", Entry(index + 1)) /\ Readable(s)
        BY <1>2, <1>s, InfoIs
  <2> QED BY <1>i, <2>1 DEF GotInfo
<1>4. /\ DOMAIN s = AppFields /\ s.sounds = FALSE /\ s.screen = a.screen /\ s.lcd = a.lcd /\ s.g_fDraw = a.g_fDraw
      /\ s.files_count = a.files_count /\ s.fpk_buffer = a.fpk_buffer /\ s.seq_buffer = a.seq_buffer /\ SameChoice(s, a)
      BY <1>1, <1>3 DEF Keeps, AppFields, SameChoice
<1>5. Shown(s)
      BY <1>4, StillShown DEF SameChoice
<1>6. Ready(s)
      BY <1>3, <1>4 DEF Ready
<1>7. CASE ~s.playing.pmd
  <2>1. b = s
        BY <1>7, <1>q, <1>s DEF fpkPlayMusic
  <2> QED BY <1>4, <1>5, <1>6, <2>1 DEF Sounds, Titled
<1>8. CASE s.playing.pmd
  <2>x. PICK x : x = fpkExtractToBuffer(s, Entry(i))
        OBVIOUS
  <2>1. /\ Keeps(x, s, {"g_sct", "cache", "fpk_buffer"}) /\ Readable(x) /\ Row(x.fpk_buffer, BUFFER)
        /\ Begins(x.fpk_buffer, Packed(archive[i]), Len(Packed(archive[i])))
        BY <1>0, <1>3, <1>4, <1>6, <2>x, ExtractIs DEF Ready
  <2>p. PICK p : p = Plain(archive[i])
        OBVIOUS
  <2>2. SongOf(x) = p
    <3>1. x.playing.size = Len(Packed(archive[i]))
      <4>1. x.playing = Entry(i)
            BY <1>3, <2>1 DEF Keeps, AppFields
      <4>2. FileBytes(archive[i]) = Packed(archive[i])
            BY StoredPacked DEF Supported
      <4> QED BY <4>1, <4>2 DEF Entry
    <3>2. decodeLZSS(x.fpk_buffer, Len(Packed(archive[i])), BUFFER) = Plain(archive[i])
          BY <1>0, <2>1, DecodesPlain
    <3> QED BY <2>p, <3>1, <3>2 DEF SongOf, Supported
  <2>d. PICK d : d = [x EXCEPT !.seq_buffer = Over(@, p), !.sounds = TRUE]
        OBVIOUS
  <2>3. b = ShowNowPlaying(d)
        BY <1>8, <1>q, <1>s, <1>3, <2>x, <2>2, <2>d DEF fpkPlayMusic
  <2>4. /\ DOMAIN d = AppFields /\ d.seq_buffer = Over(x.seq_buffer, p) /\ d.sounds = TRUE
        /\ \A y \in AppFields \ {"seq_buffer", "sounds"} : d[y] = x[y]
        BY <2>1, <2>d DEF Keeps, AppFields
  <2>5. /\ x.seq_buffer = a.seq_buffer /\ d.screen = a.screen /\ d.lcd = a.lcd /\ d.g_fDraw = a.g_fDraw
        /\ d.files_count = a.files_count /\ d.playing = Entry(i) /\ SameChoice(d, a)
        /\ d.open = x.open /\ d.g_sct = x.g_sct /\ d.cache = x.cache /\ d.fpk_buffer = x.fpk_buffer
        BY <1>3, <1>4, <2>1, <2>4 DEF Keeps, AppFields, SameChoice
  <2>6. Shown(d)
        BY <2>4, <2>5, StillShown DEF SameChoice
  <2>z. PICK z \in Nat : z = archive[i].size /\ z <= BUFFER /\ Row(p, z) /\ Len(p) = z
    <3>1. archive[i].size \in 0 .. BUFFER /\ BUFFER \in Nat
          BY <1>0, FpkAssumption DEF IsFile
    <3>2. archive[i].size \in Nat /\ archive[i].size <= BUFFER
          BY <3>1
    <3>3. \E f : PlainAs(p, f, AllSources(archive[i]), archive[i].size)
          BY <2>p, <3>2, PlainIs
    <3>4. Row(p, archive[i].size)
          BY <3>3 DEF PlainAs
    <3>5. Len(p) = archive[i].size
          BY <3>2, <3>4, RowAppend
    <3> QED BY <3>2, <3>4, <3>5
  <2>7. Row(d.seq_buffer, BUFFER) /\ Begins(d.seq_buffer, p, z)
    <3>1. Row(x.seq_buffer, BUFFER) /\ BUFFER \in Nat
          BY <2>5, FpkAssumption DEF Ready
    <3> QED BY <2>4, <2>z, <3>1, OverIs
  <2>8. Ready(d)
        BY <1>6, <1>4, <2>1, <2>5, <2>7 DEF Ready, Readable
  <2>9. HasSong(d, i)
    <3>1. d.playing.filename = archive[i].filename
          BY <2>5 DEF Entry
    <3> QED BY <2>7, <2>p, <2>z, <3>1 DEF HasSong
  <2>10. /\ Keeps(b, d, {"screen", "g_fDraw"}) /\ Shown(b)
         /\ b.screen.seek = d.selection.filename /\ b.screen.playing = d.playing.filename
         BY <2>3, <2>6, SongShown
  <2>11. /\ b.open = d.open /\ b.g_sct = d.g_sct /\ b.cache = d.cache /\ b.files_count = d.files_count
         /\ b.fpk_buffer = d.fpk_buffer /\ b.seq_buffer = d.seq_buffer /\ b.playing = d.playing /\ SameChoice(b, d)
         BY <2>10 DEF Keeps, AppFields, SameChoice
  <2>12. Ready(b)
         BY <2>8, <2>11, StillReady
  <2>13. HasSong(b, i)
         BY <2>9, <2>11 DEF HasSong
  <2>14. SameChoice(b, a)
         BY <2>5, <2>11 DEF SameChoice
  <2> QED BY <1>0, <2>10, <2>11, <2>12, <2>13, <2>14 DEF Sounds, Titled, SameChoice
<1> QED BY <1>7, <1>8

\* Whatever the archive is, the screen tells the name of what is played.
LEMMA AnythingPlayed ==
    ASSUME NEW a, Shown(a), NEW index, NEW b, b = fpkPlayMusic(a, index)
    PROVE  Shown(b) /\ Titled(b) /\ SameChoice(b, a)
<1>q. PICK q : q = musStopImmediately(a)
      OBVIOUS
<1>1. Keeps(q, a, {"sounds"}) /\ q.sounds = FALSE
      BY <1>q, Stopped DEF Shown
<1>s. PICK s : s = fpkGetFileInfoN(q, index, "playing")
      OBVIOUS
<1>2. Keeps(s, q, {"g_sct", "cache", "playing"})
  <2>1. DOMAIN q = AppFields
        BY <1>1 DEF Keeps
  <2> QED BY <1>s, <2>1, SomeInfo
<1>3. /\ DOMAIN s = AppFields /\ s.sounds = FALSE /\ s.screen = a.screen /\ s.lcd = a.lcd /\ s.g_fDraw = a.g_fDraw
      /\ SameChoice(s, a)
      BY <1>1, <1>2 DEF Keeps, AppFields, SameChoice
<1>4. CASE ~s.playing.pmd
  <2>1. b = s
        BY <1>4, <1>q, <1>s DEF fpkPlayMusic
  <2> QED BY <1>3, <2>1, StillShown DEF SameChoice, Titled
<1>5. CASE s.playing.pmd
  <2>x. PICK x : x = fpkExtractToBuffer(s, s.playing)
        OBVIOUS
  <2>1. Keeps(x, s, {"g_sct", "cache", "fpk_buffer"})
        BY <1>3, <2>x, SomeBytes
  <2>u. PICK u : u = SongOf(x)
        OBVIOUS
  <2>d. PICK d : d = [x EXCEPT !.seq_buffer = Over(@, u), !.sounds = TRUE]
        OBVIOUS
  <2>2. b = ShowNowPlaying(d)
        BY <1>5, <1>q, <1>s, <2>x, <2>u, <2>d DEF fpkPlayMusic
  <2>3. DOMAIN d = AppFields /\ \A y \in AppFields \ {"seq_buffer", "sounds"} : d[y] = x[y]
        BY <2>1, <2>d DEF Keeps, AppFields
  <2>4. /\ d.screen = a.screen /\ d.lcd = a.lcd /\ d.g_fDraw = a.g_fDraw /\ SameChoice(d, a)
        BY <1>3, <2>1, <2>3 DEF Keeps, AppFields, SameChoice
  <2>5. Shown(d)
        BY <2>3, <2>4, StillShown DEF SameChoice
  <2>6. Keeps(b, d, {"screen", "g_fDraw"}) /\ Shown(b) /\ b.screen.playing = d.playing.filename
        BY <2>2, <2>5, SongShown
  <2>7. b.playing = d.playing /\ SameChoice(b, d)
        BY <2>6 DEF Keeps, AppFields, SameChoice
  <2> QED BY <2>4, <2>6, <2>7 DEF SameChoice, Titled
<1> QED BY <1>4, <1>5

-----------------------------------------------------------------------------
(***************************************************************************)
(* The player's callbacks and buttons.                                     *)
(***************************************************************************)
\* Between two buttons.
Good(a) ==
    /\ a.callback = "Proc" /\ Shown(a) /\ Titled(a)
    /\ Supported => Ready(a) /\ Sounds(a) /\ Offers(a)

\* A change of these fields leaves the rest of it.
LEMMA StillGood ==
    ASSUME NEW a, Good(a), NEW b, Keeps(b, a, {"g_fDraw", "g_fHold", "lcd", "error_shown"}), Shown(b)
    PROVE  Good(b)
<1>1. /\ b.callback = a.callback /\ b.open = a.open /\ b.files_count = a.files_count /\ b.g_sct = a.g_sct /\ b.cache = a.cache
      /\ b.index = a.index /\ b.selection = a.selection /\ b.playing = a.playing /\ b.sounds = a.sounds
      /\ b.fpk_buffer = a.fpk_buffer /\ b.seq_buffer = a.seq_buffer /\ b.screen = a.screen
      BY DEF Keeps, AppFields
<1>2. Ready(a) => Ready(b)
      BY <1>1, StillReady
<1>3. Sounds(a) => Sounds(b)
      BY <1>1 DEF Sounds, HasSong
<1>4. Titled(a) => Titled(b)
      BY <1>1 DEF Titled
<1>5. Offers(a) => Offers(b)
      BY <1>1 DEF Offers
<1> QED BY <1>1, <1>2, <1>3, <1>4, <1>5 DEF Good

\* START.
LEMMA StartKeepsGood == ASSUME NEW a, Good(a) PROVE Good(StartButton(a))
<1>b. PICK b : b = StartButton(a)
      OBVIOUS
<1>1. /\ DOMAIN a = AppFields /\ DOMAIN a.screen = {"seek", "playing"} /\ a.g_fDraw \in BOOLEAN /\ a.g_fHold \in BOOLEAN
      /\ a.lcd = a.screen \/ a.g_fDraw
      BY DEF Good, Shown
<1>2. b = [a EXCEPT !.g_fDraw = a.g_fDraw \/ a.g_fHold, !.g_fHold = ~a.g_fHold]
      BY <1>1, <1>b DEF StartButton, AppFields
<1>v. PICK v : v = (a.g_fDraw \/ a.g_fHold)
      OBVIOUS
<1>w. PICK w : w = ~a.g_fHold
      OBVIOUS
<1>3. b = [a EXCEPT !.g_fDraw = v, !.g_fHold = w]
      BY <1>2, <1>v, <1>w
<1>4. /\ DOMAIN b = AppFields /\ b.g_fDraw = v /\ b.g_fHold = w
      /\ \A x \in AppFields \ {"g_fDraw", "g_fHold"} : b[x] = a[x]
      BY <1>1, <1>3 DEF AppFields
<1>5. b.screen = a.screen /\ b.lcd = a.lcd
      BY <1>4 DEF AppFields
<1>6. v \in BOOLEAN /\ w \in BOOLEAN /\ (a.g_fDraw => v)
      BY <1>1, <1>v, <1>w
<1>7. Shown(b)
      BY <1>1, <1>4, <1>5, <1>6 DEF Shown
<1>8. Keeps(b, a, {"g_fDraw", "g_fHold", "lcd", "error_shown"})
      BY <1>4 DEF Keeps
<1> QED BY <1>b, <1>7, <1>8, StillGood

\* The display gets the screen.
LEMMA RefreshKeepsGood == ASSUME NEW a, Good(a) PROVE Good(Refresh(a))
<1>b. PICK b : b = [a EXCEPT !.lcd = a.screen, !.g_fDraw = FALSE]
      OBVIOUS
<1>1. DOMAIN a = AppFields /\ DOMAIN a.screen = {"seek", "playing"} /\ a.g_fHold \in BOOLEAN
      BY DEF Good, Shown
<1>2. /\ DOMAIN b = AppFields /\ b.g_fDraw = FALSE /\ b.lcd = a.screen /\ b.screen = a.screen /\ b.g_fHold = a.g_fHold
      /\ \A x \in AppFields \ {"g_fDraw", "lcd"} : b[x] = a[x]
      BY <1>1, <1>b DEF AppFields
<1>3. Shown(b)
      BY <1>1, <1>2 DEF Shown
<1>4. Keeps(b, a, {"g_fDraw", "g_fHold", "lcd", "error_shown"})
      BY <1>2 DEF Keeps
<1>5. Good(b)
      BY <1>3, <1>4, StillGood
<1>6. Refresh(a) = b \/ Refresh(a) = a
      BY <1>b DEF Refresh
<1> QED BY <1>5, <1>6

\* Stopping the music.
LEMMA StopKeepsGood == ASSUME NEW a, Good(a), NEW b, b = musStopImmediately(a) PROVE Good(b) /\ b.sounds = FALSE
<1>1. Keeps(b, a, {"sounds"}) /\ b.sounds = FALSE
      BY Stopped DEF Good, Shown
<1>2. /\ b.callback = a.callback /\ b.open = a.open /\ b.files_count = a.files_count /\ b.g_sct = a.g_sct /\ b.cache = a.cache
      /\ b.index = a.index /\ b.selection = a.selection
      /\ b.fpk_buffer = a.fpk_buffer /\ b.seq_buffer = a.seq_buffer /\ b.screen = a.screen /\ b.lcd = a.lcd
      /\ b.g_fDraw = a.g_fDraw /\ b.g_fHold = a.g_fHold /\ DOMAIN b = AppFields
      BY <1>1 DEF Keeps, AppFields
<1>3. Shown(b)
      BY <1>2, StillShown DEF Good
<1>4. Ready(a) => Ready(b)
      BY <1>2, StillReady
<1>5. Offers(a) => Offers(b)
      BY <1>2 DEF Offers
<1> QED BY <1>1, <1>2, <1>3, <1>4, <1>5 DEF Good, Sounds, Titled

\* A.
LEMMA AKeepsGood == ASSUME NEW a, Good(a), Archived PROVE Good(AButton(a))
<1>q. PICK q : q = musStopImmediately(a)
      OBVIOUS
<1>1. Good(q) /\ q.index = a.index
  <2>1. DOMAIN a = AppFields
        BY DEF Good, Shown
  <2> QED BY <1>q, <2>1, StopKeepsGood DEF musStopImmediately, AppFields
<1>b. PICK b : b = fpkPlayMusic(q, q.index)
      OBVIOUS
<1>2. AButton(a) = b
      BY <1>q, <1>1, <1>b DEF AButton
<1>3. CASE ~Supported
  <2>1. Shown(b) /\ Titled(b) /\ SameChoice(b, q)
        BY <1>1, <1>b, AnythingPlayed DEF Good
  <2> QED BY <1>1, <1>2, <1>3, <2>1 DEF Good, SameChoice
<1>4. CASE Supported
  <2>1. Shown(q) /\ Ready(q) /\ Offers(q) /\ q.index \in 0 .. Len(archive) - 1
        BY <1>1, <1>4 DEF Good, Offers
  <2>2. /\ Shown(b) /\ Ready(b) /\ Sounds(b) /\ Titled(b) /\ SameChoice(b, q)
        /\ b.screen.seek = q.screen.seek \/ b.screen.seek = b.selection.filename
        BY <1>b, <1>4, <2>1, MusicPlayed
  <2>3. Offers(b)
        BY <2>1, <2>2 DEF Offers, SameChoice
  <2> QED BY <1>1, <1>2, <1>4, <2>2, <2>3 DEF Good, SameChoice
<1> QED BY <1>3, <1>4

\* The selection is printed.
LEMMA PrintKeepsGood ==
    ASSUME NEW a, a.callback = "Proc", Shown(a), Titled(a),
           Supported => /\ Ready(a) /\ Sounds(a) /\ a.index \in 0 .. Len(archive) - 1
                       /\ a.selection.filename = archive[a.index + 1].filename,
           NEW b, b = PrintSelection(a)
    PROVE  Good(b)
<1>1. /\ Keeps(b, a, {"screen", "g_fDraw"}) /\ Shown(b)
      /\ b.screen.seek = a.selection.filename /\ b.screen.playing = a.screen.playing
      BY SelectionPrinted
<1>2. /\ b.callback = a.callback /\ b.open = a.open /\ b.files_count = a.files_count /\ b.g_sct = a.g_sct /\ b.cache = a.cache
      /\ b.index = a.index /\ b.selection = a.selection /\ b.playing = a.playing /\ b.sounds = a.sounds
      /\ b.fpk_buffer = a.fpk_buffer /\ b.seq_buffer = a.seq_buffer
      BY <1>1 DEF Keeps, AppFields
<1>3. Supported => Ready(b) /\ Sounds(b) /\ Offers(b)
  <2> SUFFICES ASSUME Supported PROVE Ready(b) /\ Sounds(b) /\ Offers(b)
      OBVIOUS
  <2>1. Ready(b)
        BY <1>2, StillReady
  <2>2. Sounds(b)
        BY <1>2 DEF Sounds, HasSong
  <2>3. Offers(b)
        BY <1>1, <1>2 DEF Offers
  <2> QED BY <2>1, <2>2, <2>3
<1>4. Titled(b)
      BY <1>1, <1>2 DEF Titled
<1> QED BY <1>1, <1>2, <1>3, <1>4 DEF Good

\* B.
LEMMA BKeepsGood == ASSUME NEW a, Good(a) PROVE Good(BButton(a))
<1>q. PICK q : q = musStopImmediately(a)
      OBVIOUS
<1>1. Good(q) /\ q.sounds = FALSE
      BY <1>q, StopKeepsGood
<1>c. PICK c : c = Cls(q)
      OBVIOUS
<1>2. Keeps(c, q, {"screen", "g_fDraw"}) /\ Shown(c)
      BY <1>1, <1>c, ScreenCleared DEF Good
<1>3. /\ c.callback = q.callback /\ c.open = q.open /\ c.files_count = q.files_count /\ c.g_sct = q.g_sct /\ c.cache = q.cache
      /\ c.index = q.index /\ c.selection = q.selection /\ c.sounds = q.sounds
      /\ c.fpk_buffer = q.fpk_buffer /\ c.seq_buffer = q.seq_buffer
      BY <1>2 DEF Keeps, AppFields
<1>4. Supported => Ready(c)
      BY <1>1, <1>3, StillReady DEF Good
<1>5. ~c.sounds
      BY <1>1, <1>3
<1>6. Supported => c.index \in 0 .. Len(archive) - 1 /\ c.selection.filename = archive[c.index + 1].filename
      BY <1>1, <1>3 DEF Good, Offers
<1>7. Sounds(c) /\ Titled(c) /\ c.callback = "Proc"
      BY <1>1, <1>3, <1>5 DEF Good, Sounds, Titled
<1>b. PICK b : b = PrintSelection(c)
      OBVIOUS
<1>8. Good(b)
      BY <1>b, <1>2, <1>4, <1>5, <1>6, <1>7, PrintKeepsGood
<1> QED BY <1>8, <1>b, <1>c, <1>q DEF BButton

\* Another file is chosen.
LEMMA SelectKeepsGood ==
    ASSUME NEW a, Good(a), Archived, NEW index, Supported => index \in 0 .. Len(archive) - 1
    PROVE  Good(Select(a, index))
<1>n. PICK n : HasFiles(n)
      BY FilesOf DEF Archived
<1>c. PICK c : c = [a EXCEPT !.index = index]
      OBVIOUS
<1>1. /\ DOMAIN c = AppFields /\ c.index = index /\ \A x \in AppFields \ {"index"} : c[x] = a[x]
      BY <1>c DEF Good, Shown, AppFields
<1>2. /\ c.callback = a.callback /\ c.open = a.open /\ c.files_count = a.files_count /\ c.g_sct = a.g_sct /\ c.cache = a.cache
      /\ c.playing = a.playing /\ c.sounds = a.sounds /\ c.screen = a.screen /\ c.lcd = a.lcd
      /\ c.g_fDraw = a.g_fDraw /\ c.g_fHold = a.g_fHold
      /\ c.fpk_buffer = a.fpk_buffer /\ c.seq_buffer = a.seq_buffer
      BY <1>1 DEF AppFields
<1>g. PICK g : g = fpkGetFileInfoN(c, index, "selection")
      OBVIOUS
<1>3. Keeps(g, c, {"g_sct", "cache", "selection"})
      BY <1>1, <1>g, SomeInfo
<1>4. Supported => g.selection = Entry(index + 1) /\ Readable(g)
  <2> SUFFICES ASSUME Supported PROVE g.selection = Entry(index + 1) /\ Readable(g)
      OBVIOUS
  <2>1. Readable(c)
        BY <1>2 DEF Good, Ready, Readable
  <2> QED BY <1>1, <1>g, <2>1, InfoIs DEF GotInfo
<1>5. /\ DOMAIN g = AppFields /\ g.callback = a.callback /\ g.files_count = a.files_count /\ g.index = index
      /\ g.playing = a.playing /\ g.sounds = a.sounds /\ g.screen = a.screen /\ g.lcd = a.lcd
      /\ g.g_fDraw = a.g_fDraw /\ g.g_fHold = a.g_fHold
      /\ g.fpk_buffer = a.fpk_buffer /\ g.seq_buffer = a.seq_buffer
      BY <1>1, <1>2, <1>3 DEF Keeps, AppFields
<1>6. Shown(g)
      BY <1>5, StillShown DEF Good
<1>7. ASSUME Supported
      PROVE  /\ Ready(g) /\ Sounds(g) /\ g.index \in 0 .. Len(archive) - 1
             /\ g.selection.filename = archive[g.index + 1].filename
  <2>1. Ready(g)
        BY <1>4, <1>5, <1>7 DEF Good, Ready
  <2>2. Sounds(g)
        BY <1>5, <1>7 DEF Good, Sounds, HasSong
  <2>3. g.selection.filename = archive[g.index + 1].filename
        BY <1>4, <1>5, <1>7 DEF Entry
  <2> QED BY <1>5, <1>7, <2>1, <2>2, <2>3
<1>8. g.callback = "Proc" /\ Titled(g)
      BY <1>5 DEF Good, Titled
<1>b. PICK b : b = PrintSelection(g)
      OBVIOUS
<1>9. Good(b)
      BY <1>b, <1>6, <1>7, <1>8, PrintKeepsGood
<1> QED BY <1>9, <1>b, <1>c, <1>g DEF Select

\* LEFT.
LEMMA LeftKeepsGood == ASSUME NEW a, Good(a), Archived PROVE Good(LeftButton(a))
<1>n. PICK n : HasFiles(n)
      BY FilesOf DEF Archived
<1>0. n \in Nat /\ Len(archive) = n /\ (Supported => n > 0)
  <2>1. n \in Nat /\ Len(archive) = n /\ DOMAIN archive = 1 .. n
        BY <1>n DEF HasFiles
  <2>2. Supported => a.index \in 0 .. n - 1
        BY <2>1 DEF Good, Offers
  <2> QED BY <2>1, <2>2
<1>i. PICK i : i = IF a.index > 0 THEN a.index - 1 ELSE Final(a)
      OBVIOUS
<1>1. Supported => i \in 0 .. Len(archive) - 1
  <2> SUFFICES ASSUME Supported PROVE i \in 0 .. n - 1
      BY <1>0
  <2>1. a.index \in 0 .. n - 1 /\ a.files_count = n
        BY <1>0 DEF Good, Offers, Ready
  <2> QED BY <1>0, <1>i, <2>1 DEF Final
<1>2. Good(Select(a, i))
      BY <1>1, SelectKeepsGood
<1> QED BY <1>2, <1>i DEF LeftButton

\* RIGHT.
LEMMA RightKeepsGood == ASSUME NEW a, Good(a), Archived PROVE Good(RightButton(a))
<1>n. PICK n : HasFiles(n)
      BY FilesOf DEF Archived
<1>0. n \in Nat /\ Len(archive) = n
      BY <1>n DEF HasFiles
<1>i. PICK i : i = IF a.files_count = 0 THEN a.index + 1 ELSE IF a.index < Final(a) THEN a.index + 1 ELSE 0
      OBVIOUS
<1>1. Supported => i \in 0 .. Len(archive) - 1
  <2> SUFFICES ASSUME Supported PROVE i \in 0 .. n - 1
      BY <1>0
  <2>1. a.index \in 0 .. n - 1 /\ a.files_count = n
        BY <1>0 DEF Good, Offers, Ready
  <2> QED BY <1>0, <1>i, <2>1 DEF Final
<1>2. Good(Select(a, i))
      BY <1>1, SelectKeepsGood
<1> QED BY <1>2, <1>i DEF RightButton

\* Whatever is pressed.
LEMMA ButtonsKeepGood == ASSUME NEW a, Good(a), Archived, NEW pad PROVE Good(Buttons(pad, a))
<1>c. PICK c : c = IF "START" \in pad THEN StartButton(a) ELSE a
      OBVIOUS
<1>1. Good(c)
      BY <1>c, StartKeepsGood
<1>d. PICK d : d = IF "A" \in pad THEN AButton(c) ELSE c
      OBVIOUS
<1>2. Good(d)
      BY <1>1, <1>d, AKeepsGood
<1>e. PICK e : e = IF "B" \in pad THEN BButton(d) ELSE d
      OBVIOUS
<1>3. Good(e)
      BY <1>2, <1>e, BKeepsGood
<1>f. PICK f : f = IF "LEFT" \in pad THEN LeftButton(e) ELSE e
      OBVIOUS
<1>4. Good(f)
      BY <1>3, <1>f, LeftKeepsGood
<1>5. Good(RightButton(f))
      BY <1>4, RightKeepsGood
<1>6. Buttons(pad, a) = IF c.g_fHold THEN c ELSE IF "RIGHT" \in pad THEN RightButton(f) ELSE f
      BY <1>c, <1>d, <1>e, <1>f DEF Buttons
<1> QED BY <1>1, <1>4, <1>5, <1>6

\* Opening an archive that is there.
LEMMA OpenedIs ==
    ASSUME Archived, Supported, NEW a, Shown(a), Cached(a.g_sct, a.cache), NEW b, b = Opened(a)
    PROVE  /\ Keeps(b, a, {"g_sct", "cache", "open", "files_count"}) /\ Readable(b) /\ b.files_count = Len(archive)
           /\ Len(archive) > 0
<1>n. PICK l, n : ImageIs(l, n)
      BY ImagePlaces DEF Archived, Supported
<1>0. n \in Nat /\ Len(archive) = n /\ l \in Nat /\ Row(fpk, l) /\ HDR \in Nat \ {0} /\ HDR <= l
      BY <1>n, FpkAssumption DEF ImageIs, HasFiles
<1>l. n > 0
  <2>1. PICK T : T = {archive[i] : i \in DOMAIN archive}
        OBVIOUS
  <2>2. archive \in Seq(T)
        BY <2>1, FpkAssumption DEF Archived
  <2> QED BY <1>0, <2>2, EmptySeq DEF Supported
<1>c. PICK c : c = [a EXCEPT !.open = TRUE]
      OBVIOUS
<1>1. DOMAIN c = AppFields /\ c.open = TRUE /\ \A x \in AppFields \ {"open"} : c[x] = a[x]
      BY <1>c DEF Shown, AppFields
<1>2. c.g_sct = a.g_sct /\ c.cache = a.cache
      BY <1>1 DEF AppFields
<1>r. PICK r : r = fpkFileReadPos(c, 0, HDR)
      OBVIOUS
<1>3. HasRead(r, 0, HDR)
  <2>1. InArchive(0, HDR, l)
        BY <1>0 DEF InArchive
  <2>2. Readable(c)
        BY <1>1, <1>2 DEF Readable
  <2> QED BY <1>r, <2>1, <2>2, ReadsAll
<1>4. /\ r.buf[1].of.files_count = n /\ r.buf[1].of.signature = "KAPF"
      /\ Cached(r.g_sct, r.cache)
  <2>1. 1 \in 1 .. HDR /\ 0 + 1 = 1
        BY <1>0
  <2>2. r.buf[1] = fpk[1] /\ Cached(r.g_sct, r.cache)
        BY <1>3, <2>1 DEF HasRead
  <2>3. fpk[1] = [of |-> [signature |-> "KAPF", files_count |-> n], byte |-> 1]
        BY <1>n, <2>1 DEF ImageIs
  <2> QED BY <2>2, <2>3
<1>h. PICK h : h = [a EXCEPT !.g_sct = r.g_sct, !.cache = r.cache]
      OBVIOUS
<1>5. DOMAIN h = AppFields /\ h.g_sct = r.g_sct /\ h.cache = r.cache /\ \A x \in AppFields \ {"g_sct", "cache"} : h[x] = a[x]
      BY <1>h DEF Shown, AppFields
<1>6. b = [h EXCEPT !.open = TRUE, !.files_count = n]
      BY <1>c, <1>h, <1>r, <1>4 DEF Opened, Reads, Supported
<1>7. /\ DOMAIN b = AppFields /\ b.open = TRUE /\ b.files_count = n /\ b.g_sct = r.g_sct /\ b.cache = r.cache
      /\ \A x \in AppFields \ {"g_sct", "cache", "open", "files_count"} : b[x] = a[x]
      BY <1>5, <1>6 DEF AppFields
<1> QED BY <1>0, <1>l, <1>4, <1>7 DEF Keeps, Readable

\* Opening whatever there is.
LEMMA OpenedKeeps ==
    ASSUME NEW a, Shown(a), NEW b, b = Opened(a)
    PROVE  Keeps(b, a, {"g_sct", "cache", "open", "files_count"})
<1>r. PICK r : r = fpkFileReadPos([a EXCEPT !.open = TRUE], 0, HDR)
      OBVIOUS
<1>o. PICK o, n : o = (r.buf[1].of.signature = "KAPF") /\ n = r.buf[1].of.files_count
      OBVIOUS
<1>h. PICK h : h = [a EXCEPT !.g_sct = r.g_sct, !.cache = r.cache]
      OBVIOUS
<1>1. DOMAIN a = AppFields
      BY DEF Shown
<1>2. DOMAIN h = AppFields /\ \A x \in AppFields \ {"g_sct", "cache"} : h[x] = a[x]
      BY <1>1, <1>h DEF AppFields
<1>3. b = a \/ b = [h EXCEPT !.open = o, !.files_count = n]
      BY <1>r, <1>o, <1>h, Zenon DEF Opened, Reads
<1> QED BY <1>1, <1>2, <1>3 DEF Keeps

\* A variable set to the callback that is next.
LEMMA NextCallback ==
    ASSUME NEW a, Shown(a), NEW b, b = [a EXCEPT !.callback = "Proc"]
    PROVE  Keeps(b, a, {"callback"}) /\ b.callback = "Proc" /\ Shown(b)
<1>1. DOMAIN b = AppFields /\ b.callback = "Proc" /\ \A x \in AppFields \ {"callback"} : b[x] = a[x]
      BY DEF Shown, AppFields
<1>2. b.screen = a.screen /\ b.lcd = a.lcd /\ b.g_fDraw = a.g_fDraw /\ b.g_fHold = a.g_fHold
      BY <1>1 DEF AppFields
<1> QED BY <1>1, <1>2, StillShown DEF Keeps

\* The variables before the first callback.
LEMMA StaticsAre ==
    ASSUME NEW a, a = Statics
    PROVE  /\ Shown(a) /\ Cached(a.g_sct, a.cache) /\ Row(a.fpk_buffer, BUFFER) /\ Row(a.seq_buffer, BUFFER)
           /\ a.sounds = FALSE /\ a.files_count = 0 /\ a.callback = "Init"
<1>1. /\ DOMAIN a = AppFields /\ a.screen = [seek |-> "", playing |-> ""] /\ a.lcd = a.screen /\ a.g_fDraw = FALSE /\ a.g_fHold = FALSE
      /\ a.sounds = FALSE /\ a.files_count = 0 /\ a.callback = "Init"
      /\ a.g_sct = -1 /\ a.cache = [k \in 1 .. SCT |-> 0]
      /\ a.fpk_buffer = [k \in 1 .. BUFFER |-> 0] /\ a.seq_buffer = [k \in 1 .. BUFFER |-> 0]
      BY DEF Statics, AppFields
<1>2. DOMAIN a.screen = {"seek", "playing"}
      BY <1>1
<1>3. Row(a.cache, SCT) /\ Row(a.fpk_buffer, BUFFER) /\ Row(a.seq_buffer, BUFFER)
      BY <1>1 DEF Row
<1>4. Shown(a)
      BY <1>1, <1>2 DEF Shown
<1>5. Cached(a.g_sct, a.cache)
  <2>1. -1 \in Int
        OBVIOUS
  <2>2. a.g_sct = -1
        BY <1>1
  <2>3. a.g_sct \in Int
        BY <2>1, <2>2
  <2> QED BY <1>3, <2>2, <2>3 DEF Cached
<1> QED BY <1>1, <1>3, <1>4, <1>5

\* The first callback opens the archive and plays its first file.
LEMMA InitMakesGood ==
    ASSUME Archived, app = Statics, pceAppInit
    PROVE  Good(app')
<1>c. PICK c : c = Cls(app)
      OBVIOUS
<1>a. PICK a : a = Opened(c)
      OBVIOUS
<1>s. PICK s : s = fpkGetFileInfoN([a EXCEPT !.index = 0], 0, "selection")
      OBVIOUS
<1>p. PICK p : p = fpkPlayMusic([s EXCEPT !.playing = s.selection], 0)
      OBVIOUS
<1>q. PICK q : q = IF a.open /\ a.files_count > 0 THEN PrintSelection(ShowNowPlaying(p)) ELSE a
      OBVIOUS
<1>b. PICK b : b = app' /\ b = [q EXCEPT !.callback = "Proc"]
      BY <1>c, <1>a, <1>s, <1>p, <1>q DEF pceAppInit
<1>0. /\ Shown(app) /\ Cached(app.g_sct, app.cache) /\ Row(app.fpk_buffer, BUFFER) /\ Row(app.seq_buffer, BUFFER)
      /\ app.sounds = FALSE /\ app.files_count = 0
      BY StaticsAre
<1>1. Keeps(c, app, {"screen", "g_fDraw"}) /\ Shown(c)
      BY <1>0, <1>c, ScreenCleared
<1>2. /\ c.g_sct = app.g_sct /\ c.cache = app.cache /\ c.fpk_buffer = app.fpk_buffer /\ c.seq_buffer = app.seq_buffer
      /\ c.sounds = FALSE /\ c.files_count = 0
      BY <1>0, <1>1 DEF Keeps, AppFields
<1>3. CASE ~Supported
  <2>1. Keeps(a, c, {"g_sct", "cache", "open", "files_count"})
        BY <1>1, <1>a, OpenedKeeps
  <2>2. /\ DOMAIN a = AppFields /\ a.sounds = FALSE
        /\ a.screen = c.screen /\ a.lcd = c.lcd /\ a.g_fDraw = c.g_fDraw /\ a.g_fHold = c.g_fHold
        BY <1>2, <2>1 DEF Keeps, AppFields
  <2>3. Shown(a) /\ Titled(a)
        BY <1>1, <2>2, StillShown DEF Titled
  <2>4. Shown(q) /\ Titled(q)
    <3>d. PICK d : d = [a EXCEPT !.index = 0]
          OBVIOUS
    <3>1. DOMAIN d = AppFields /\ \A x \in AppFields \ {"index"} : d[x] = a[x]
          BY <2>2, <3>d DEF AppFields
    <3>2. Keeps(s, d, {"g_sct", "cache", "selection"})
          BY <1>s, <3>d, <3>1, SomeInfo
    <3>t. PICK t : t = [s EXCEPT !.playing = s.selection]
          OBVIOUS
    <3>3. DOMAIN t = AppFields /\ \A x \in AppFields \ {"playing"} : t[x] = s[x]
          BY <3>2, <3>t DEF Keeps, AppFields
    <3>4. t.screen = a.screen /\ t.lcd = a.lcd /\ t.g_fDraw = a.g_fDraw /\ t.g_fHold = a.g_fHold
          BY <3>1, <3>2, <3>3 DEF Keeps, AppFields
    <3>5. Shown(t)
          BY <2>3, <3>3, <3>4, StillShown
    <3>6. Shown(p)
          BY <1>p, <3>t, <3>5, AnythingPlayed
    <3>w. PICK w : w = ShowNowPlaying(p)
          OBVIOUS
    <3>7. Keeps(w, p, {"screen", "g_fDraw"}) /\ Shown(w) /\ w.screen.playing = p.playing.filename
          BY <3>6, <3>w, SongShown
    <3>8. w.playing = p.playing
          BY <3>7 DEF Keeps, AppFields
    <3>v. PICK v : v = PrintSelection(w)
          OBVIOUS
    <3>9. Keeps(v, w, {"screen", "g_fDraw"}) /\ Shown(v) /\ v.screen.playing = w.screen.playing
          BY <3>7, <3>v, SelectionPrinted
    <3>10. v.playing = w.playing
           BY <3>9 DEF Keeps, AppFields
    <3>11. Shown(v) /\ Titled(v)
           BY <3>7, <3>8, <3>9, <3>10 DEF Titled
    <3> QED BY <1>q, <2>3, <3>w, <3>v, <3>11
  <2>5. Keeps(b, q, {"callback"}) /\ b.callback = "Proc" /\ Shown(b)
        BY <1>b, <2>4, NextCallback
  <2>6. b.sounds = q.sounds /\ b.screen = q.screen /\ b.playing = q.playing
        BY <2>5 DEF Keeps, AppFields
  <2> QED BY <1>3, <1>b, <2>4, <2>5, <2>6 DEF Good, Titled
<1>4. CASE Supported
  <2>1. /\ Keeps(a, c, {"g_sct", "cache", "open", "files_count"}) /\ Readable(a) /\ a.files_count = Len(archive)
        /\ Len(archive) > 0
        BY <1>0, <1>1, <1>2, <1>4, <1>a, OpenedIs
  <2>n. PICK n \in Nat : n = Len(archive) /\ n > 0 /\ 0 \in 0 .. n - 1 /\ 0 \in 0 .. Len(archive) - 1
    <3>1. PICK m : HasFiles(m)
          BY FilesOf DEF Archived
    <3>2. m \in Nat /\ Len(archive) = m
          BY <3>1 DEF HasFiles
    <3> QED BY <2>1, <3>2
  <2>2. /\ DOMAIN a = AppFields /\ a.fpk_buffer = c.fpk_buffer /\ a.seq_buffer = c.seq_buffer
        /\ a.screen = c.screen /\ a.lcd = c.lcd /\ a.g_fDraw = c.g_fDraw /\ a.g_fHold = c.g_fHold
        BY <2>1 DEF Keeps, AppFields
  <2>d. PICK d : d = [a EXCEPT !.index = 0]
        OBVIOUS
  <2>3. DOMAIN d = AppFields /\ d.index = 0 /\ \A x \in AppFields \ {"index"} : d[x] = a[x]
        BY <2>2, <2>d DEF AppFields
  <2>4. Readable(d)
        BY <2>1, <2>3 DEF Readable, AppFields
  <2>5. GotInfo(s, d, "selection", Entry(0 + 1)) /\ Readable(s)
        BY <1>s, <1>4, <2>d, <2>3, <2>4, <2>n, InfoIs
  <2>6. Keeps(s, d, {"g_sct", "cache", "selection"}) /\ s.selection = Entry(1)
        BY <2>5 DEF GotInfo
  <2>7. /\ DOMAIN s = AppFields /\ s.index = 0 /\ s.files_count = Len(archive)
        /\ s.fpk_buffer = c.fpk_buffer /\ s.seq_buffer = c.seq_buffer
        /\ s.screen = c.screen /\ s.lcd = c.lcd /\ s.g_fDraw = c.g_fDraw /\ s.g_fHold = c.g_fHold
        BY <2>1, <2>2, <2>3, <2>6 DEF Keeps, AppFields
  <2>t. PICK t : t = [s EXCEPT !.playing = s.selection]
        OBVIOUS
  <2>8. DOMAIN t = AppFields /\ \A x \in AppFields \ {"playing"} : t[x] = s[x]
        BY <2>7, <2>t DEF AppFields
  <2>9. /\ t.index = 0 /\ t.selection = s.selection /\ t.files_count = Len(archive) /\ t.open = s.open
        /\ t.g_sct = s.g_sct /\ t.cache = s.cache /\ t.fpk_buffer = c.fpk_buffer /\ t.seq_buffer = c.seq_buffer
        /\ t.screen = c.screen /\ t.lcd = c.lcd /\ t.g_fDraw = c.g_fDraw /\ t.g_fHold = c.g_fHold
        BY <2>7, <2>8 DEF AppFields
  <2>10. Shown(t)
         BY <1>1, <2>8, <2>9, StillShown
  <2>11. Ready(t)
         BY <1>0, <1>2, <2>5, <2>9 DEF Ready, Readable
  <2>12. Shown(p) /\ Ready(p) /\ Sounds(p) /\ SameChoice(p, t)
         BY <1>p, <1>4, <2>t, <2>10, <2>11, <2>n, MusicPlayed
  <2>w. PICK w : w = ShowNowPlaying(p)
        OBVIOUS
  <2>13. /\ Keeps(w, p, {"screen", "g_fDraw"}) /\ Shown(w) /\ w.screen.playing = p.playing.filename
         BY <2>12, <2>w, SongShown
  <2>14. /\ w.open = p.open /\ w.g_sct = p.g_sct /\ w.cache = p.cache /\ w.files_count = p.files_count
         /\ w.fpk_buffer = p.fpk_buffer /\ w.seq_buffer = p.seq_buffer /\ w.index = p.index
         /\ w.selection = p.selection /\ w.playing = p.playing /\ w.sounds = p.sounds
         BY <2>13 DEF Keeps, AppFields
  <2>15. Ready(w) /\ Sounds(w) /\ Titled(w) /\ w.index = 0 /\ w.selection = Entry(1)
    <3>1. Ready(w)
          BY <2>12, <2>14, StillReady
    <3>2. Sounds(w)
          BY <2>12, <2>14 DEF Sounds, HasSong
    <3>3. Titled(w)
          BY <2>13, <2>14 DEF Titled
    <3> QED BY <2>6, <2>9, <2>12, <2>14, <3>1, <3>2, <3>3 DEF SameChoice
  <2>v. PICK v : v = [w EXCEPT !.callback = "Proc"]
        OBVIOUS
  <2>16. Keeps(v, w, {"callback"}) /\ v.callback = "Proc" /\ Shown(v)
         BY <2>13, <2>v, NextCallback
  <2>17. /\ v.open = w.open /\ v.g_sct = w.g_sct /\ v.cache = w.cache /\ v.files_count = w.files_count
         /\ v.fpk_buffer = w.fpk_buffer /\ v.seq_buffer = w.seq_buffer /\ v.index = w.index
         /\ v.selection = w.selection /\ v.playing = w.playing /\ v.sounds = w.sounds /\ v.screen = w.screen
         BY <2>16 DEF Keeps, AppFields
  <2>18. /\ Ready(v) /\ Sounds(v) /\ Titled(v) /\ v.index \in 0 .. Len(archive) - 1
         /\ v.selection.filename = archive[v.index + 1].filename
    <3>1. Ready(v)
          BY <2>15, <2>17, StillReady
    <3>2. Sounds(v)
          BY <2>15, <2>17 DEF Sounds, HasSong
    <3>3. Titled(v)
          BY <2>15, <2>17 DEF Titled
    <3>4. v.index + 1 = 1
          BY <2>15, <2>17
    <3>5. v.selection.filename = archive[1].filename
          BY <2>15, <2>17 DEF Entry
    <3> QED BY <2>15, <2>17, <2>n, <3>1, <3>2, <3>3, <3>4, <3>5
  <2>u. PICK u : u = PrintSelection(v)
        OBVIOUS
  <2>19. Good(u)
         BY <1>4, <2>u, <2>16, <2>18, PrintKeepsGood
  <2>20. b = u
    <3>1. q = PrintSelection(w)
          BY <1>q, <2>1, <2>n, <2>w DEF Readable
    <3>2. DOMAIN w = AppFields /\ DOMAIN w.screen = {"seek", "playing"}
          BY <2>13 DEF Shown
    <3>3. q = [w EXCEPT !.screen.seek = w.selection.filename, !.g_fDraw = TRUE]
          BY <3>1 DEF PrintSelection
    <3>4. u = [v EXCEPT !.screen.seek = v.selection.filename, !.g_fDraw = TRUE]
          BY <2>u DEF PrintSelection
    <3>h. PICK h : h = [w.screen EXCEPT !.seek = w.selection.filename]
          OBVIOUS
    <3>5. q = [w EXCEPT !.screen = h, !.g_fDraw = TRUE]
          BY <3>2, <3>3, <3>h
    <3>6. u = [v EXCEPT !.screen = h, !.g_fDraw = TRUE]
          BY <2>17, <3>4, <3>h
    <3>7. "callback" # "screen" /\ "callback" # "g_fDraw"
          OBVIOUS
    <3> QED BY <1>b, <2>v, <3>2, <3>5, <3>6, <3>7 DEF AppFields
  <2> QED BY <1>b, <2>19, <2>20
<1> QED BY <1>3, <1>4

\* The invariant of the player: the archive and its bytes stay, and after the
\* first callback music, buffer, selection and screen agree between any two.
Agrees(a) ==
    /\ Shown(a) /\ Titled(a)
    /\ Supported => Sounds(a) /\ Offers(a) /\ Row(a.seq_buffer, BUFFER)
FpkInv ==
    /\ Archived
    /\ app.callback = "Init" => app = Statics
    /\ app.callback = "Proc" => Good(app)
    /\ app.callback # "Init" => Agrees(app)

\* What is good agrees.
LEMMA GoodAgrees == ASSUME NEW a, Good(a) PROVE Agrees(a)
BY DEF Good, Agrees, Ready

\* It holds at first.
LEMMA FpkBegins == ASSUME FpkInit PROVE FpkInv
<1>1. Archived /\ app = Statics
      BY DEF FpkInit, Archived
<1>2. app.callback = "Init"
      BY <1>1, StaticsAre
<1> QED BY <1>1, <1>2 DEF FpkInv

\* While the archive stays, what is said of it says the same.
LEMMA ArchiveStays ==
    ASSUME archive' = archive, signature' = signature, fpk' = fpk
    PROVE  /\ Archived => Archived'
           /\ Good(app') => Good(app)'
           /\ Agrees(app') => Agrees(app)'
<1>0. (\A f : FileBytes(f)' = FileBytes(f)) /\ Supported' = Supported
      BY DEF FileBytes, Supported
<1>1. ASSUME NEW i PROVE Entry(i)' = Entry(i)
      BY <1>0 DEF Entry
<1>2. [i \in DOMAIN archive |-> Part(Entry(i), ENT)]' = [i \in DOMAIN archive |-> Part(Entry(i), ENT)]
      BY <1>1 DEF Part
<1>3. [i \in DOMAIN archive |-> FileBytes(archive[i])]' = [i \in DOMAIN archive |-> FileBytes(archive[i])]
      BY <1>0
<1>4. Image' = Image
      BY <1>2, <1>3 DEF Image
<1>5. Archived => Archived'
      BY <1>4 DEF Archived
<1>6. Shown(app') => Shown(app)'
      BY DEF Shown
<1>7. Ready(app') => Ready(app)'
      BY DEF Ready, Readable, Cached, Holds, Row
<1>8. Sounds(app') => Sounds(app)'
      BY DEF Sounds, HasSong
<1>9. Titled(app') => Titled(app)'
      BY DEF Titled
<1>10. Offers(app') => Offers(app)'
      BY DEF Offers
<1> QED BY <1>0, <1>5, <1>6, <1>7, <1>8, <1>9, <1>10 DEF Good, Agrees

\* What is good after a step keeps the invariant.
LEMMA GoodIsEnough ==
    ASSUME Archived, archive' = archive, signature' = signature, fpk' = fpk, Good(app')
    PROVE  FpkInv'
<1>1. Archived' /\ Good(app)'
      BY ArchiveStays
<1>2. Agrees(app)'
      BY GoodAgrees, ArchiveStays
<1>3. app'.callback = "Proc"
      BY DEF Good
<1> QED BY <1>1, <1>2, <1>3 DEF FpkInv

\* And is kept by every step.
LEMMA FpkKeeps == ASSUME FpkInv, [FpkNext]_fpkVars PROVE FpkInv'
<1>0. Archived
      BY DEF FpkInv
<1>1. CASE UNCHANGED fpkVars
  <2>1. archive' = archive /\ signature' = signature /\ fpk' = fpk /\ app' = app
        BY <1>1 DEF fpkVars
  <2>2. Archived' /\ (app.callback = "Init" => app = Statics)
        BY <2>1, ArchiveStays DEF FpkInv
  <2>3. Good(app) => Good(app')
        BY <2>1
  <2>4. Agrees(app) => Agrees(app')
        BY <2>1
  <2> QED BY <2>1, <2>2, <2>3, <2>4, ArchiveStays DEF FpkInv
<1>2. CASE pceAppInit
  <2>1. archive' = archive /\ signature' = signature /\ fpk' = fpk /\ app = Statics
        BY <1>2 DEF pceAppInit, FpkInv
  <2> QED BY <1>0, <1>2, <2>1, InitMakesGood, GoodIsEnough
<1>3. CASE SaysSo
  <2>r. PICK r : r = Refresh(app)
        OBVIOUS
  <2>1. /\ archive' = archive /\ signature' = signature /\ fpk' = fpk /\ Good(app)
        /\ app' = [r EXCEPT !.error_shown = TRUE]
        BY <1>3, <2>r DEF SaysSo, FpkInv
  <2>2. Good(r)
        BY <2>r, <2>1, RefreshKeepsGood
  <2>b. PICK b : b = [r EXCEPT !.error_shown = TRUE]
        OBVIOUS
  <2>3. DOMAIN b = AppFields /\ \A x \in AppFields \ {"error_shown"} : b[x] = r[x]
        BY <2>b, <2>2 DEF Good, Shown, AppFields
  <2>4. b.screen = r.screen /\ b.lcd = r.lcd /\ b.g_fDraw = r.g_fDraw /\ b.g_fHold = r.g_fHold
        BY <2>3 DEF AppFields
  <2>5. Shown(b)
        BY <2>2, <2>3, <2>4, StillShown DEF Good
  <2>6. Good(b)
        BY <2>2, <2>3, <2>5, StillGood DEF Keeps
  <2> QED BY <1>0, <2>1, <2>b, <2>6, GoodIsEnough
<1>4. CASE Answers
  <2>1. archive' = archive /\ signature' = signature /\ fpk' = fpk /\ Good(app)
        BY <1>4 DEF Answers, FpkInv
  <2>2. PICK pad : app' = Refresh(Buttons(pad, app))
        BY <1>4 DEF Answers
  <2>3. Good(app')
        BY <1>0, <2>1, <2>2, ButtonsKeepGood, RefreshKeepsGood
  <2> QED BY <1>0, <2>1, <2>3, GoodIsEnough
<1>5. CASE pceAppExit
  <2>1. archive' = archive /\ signature' = signature /\ fpk' = fpk /\ Good(app) /\ app' = [musStopImmediately(app) EXCEPT !.open = FALSE, !.callback = "none"]
        BY <1>5 DEF pceAppExit, FpkInv
  <2>b. PICK b : b = musStopImmediately(app)
        OBVIOUS
  <2>2. Good(b) /\ b.sounds = FALSE
        BY <2>1, <2>b, StopKeepsGood
  <2>c. PICK c : c = [b EXCEPT !.open = FALSE, !.callback = "none"]
        OBVIOUS
  <2>3. DOMAIN c = AppFields /\ c.callback = "none" /\ \A x \in AppFields \ {"open", "callback"} : c[x] = b[x]
        BY <2>c, <2>2 DEF Good, Shown, AppFields
  <2>4. /\ c.screen = b.screen /\ c.lcd = b.lcd /\ c.g_fDraw = b.g_fDraw /\ c.g_fHold = b.g_fHold
        /\ c.sounds = FALSE /\ c.index = b.index /\ c.selection = b.selection /\ c.seq_buffer = b.seq_buffer
        BY <2>2, <2>3 DEF AppFields
  <2>5. Shown(c)
        BY <2>2, <2>3, <2>4, StillShown DEF Good
  <2>6. Supported => Offers(c) /\ Row(c.seq_buffer, BUFFER)
        BY <2>2, <2>4 DEF Good, Offers, Ready
  <2>7. Agrees(c) /\ app' = c
        BY <2>1, <2>b, <2>c, <2>4, <2>5, <2>6 DEF Agrees, Sounds, Titled
  <2>8. Agrees(app)' /\ Archived'
        BY <1>0, <2>1, <2>7, ArchiveStays
  <2> QED BY <2>3, <2>7, <2>8 DEF FpkInv
<1> QED BY <1>1, <1>2, <1>3, <1>4, <1>5 DEF FpkNext

\* While music sounds the screen tells what the buffer holds.
LEMMA FpkShows == ASSUME FpkInv PROVE ShowsWhatItPlays
<1>n. PICK n : HasFiles(n)
      BY FilesOf DEF FpkInv, Archived
<1>0. n \in Nat /\ Len(archive) = n /\ DOMAIN archive = 1 .. n
      BY <1>n DEF HasFiles
<1>f. PICK f : f = CHOOSE h : h \in {archive[i] : i \in DOMAIN archive} /\ h.filename = app.playing.filename
      OBVIOUS
<1>s. PICK song : song = Plain(f)
      OBVIOUS
<1>1. app.lcd = app.screen \/ app.g_fDraw
      BY StaticsAre DEF FpkInv, Agrees, Shown
<1>2. Supported /\ app.callback # "Init" => app.screen.seek = archive[app.index + 1].filename
      BY DEF FpkInv, Agrees, Offers
<1>4. app.sounds => app.screen.playing = app.playing.filename
      BY StaticsAre DEF FpkInv, Agrees, Titled
<1>3. ASSUME app.sounds, Supported PROVE SubSeq(app.seq_buffer, 1, Len(song)) = song
  <2>1. Sounds(app) /\ Row(app.seq_buffer, BUFFER)
    <3>1. app.callback # "Init"
          BY <1>3, StaticsAre DEF FpkInv
    <3> QED BY <1>3, <3>1 DEF FpkInv, Agrees
  <2>2. PICK i \in DOMAIN archive : HasSong(app, i)
        BY <1>3, <2>1 DEF Sounds
  <2>3. f \in {archive[k] : k \in DOMAIN archive} /\ f.filename = app.playing.filename
        BY <1>f, <2>2 DEF HasSong
  <2>4. PICK k \in DOMAIN archive : f = archive[k]
        BY <2>3
  <2>5. f = archive[i]
        BY <2>2, <2>3, <2>4, FpkAssumption DEF HasSong, FpkInv, Archived
  <2>6. IsFile(f)
        BY <1>n, <1>0, <2>5 DEF HasFiles
  <2>7. f.size \in 0 .. BUFFER /\ BUFFER \in Nat
        BY <2>6, FpkAssumption DEF IsFile
  <2>8. PICK z : z = f.size /\ z \in Nat /\ z <= BUFFER
        BY <2>7
  <2>9. PICK g : PlainAs(song, g, AllSources(f), z)
        BY <1>s, <2>8, PlainIs
  <2>10. Row(song, z) /\ Len(song) = z
    <3>1. Row(song, z)
          BY <2>9 DEF PlainAs
    <3> QED BY <2>8, <3>1, RowIsSeq
  <2>11. Begins(app.seq_buffer, song, z)
         BY <1>s, <2>2, <2>5, <2>10 DEF HasSong
  <2>v. PICK v : v = SubSeq(app.seq_buffer, 1, z)
        OBVIOUS
  <2>12. IsStretch(v, app.seq_buffer, 0, z)
    <3>1. 0 \in Nat /\ 0 + 1 = 1 /\ 0 + z = z /\ 0 + z <= BUFFER
          BY <2>8
    <3>2. v = SubSeq(app.seq_buffer, 0 + 1, 0 + z)
          BY <2>v, <3>1
    <3> QED BY <2>1, <2>7, <2>8, <3>1, <3>2, StretchIs
  <2>13. v = song
         BY <2>10, <2>11, <2>12 DEF IsStretch, Begins, Row
  <2> QED BY <2>10, <2>13, <2>v
<1> QED BY <1>1, <1>2, <1>3, <1>4, <1>f, <1>s DEF ShowsWhatItPlays

\* Whatever is pressed, of any archive, for buffers, sectors and rings of any
\* size: the screen says what sounds, which is the file as it was before it
\* was packed, if the archive is one of fpack -e.
THEOREM ShownIsPlayed == FpkSpec => []ShowsWhatItPlays
<1>1. FpkInit => FpkInv
      BY FpkBegins
<1>2. FpkInv /\ [FpkNext]_fpkVars => FpkInv'
      BY FpkKeeps
<1>3. FpkInv => ShowsWhatItPlays
      BY FpkShows
<1> QED BY <1>1, <1>2, <1>3, PTL DEF FpkSpec
=============================================================================
