------------------------- MODULE Converters_proofs --------------------------
(***************************************************************************)
(* The converters keep what a program means, for every file and every line *)
(* of assembler.  A relocation of an ELF file means in the srf file what   *)
(* it meant before, wherever the sections and the symbols have gone, and   *)
(* the other way round; the instructions that asm33conv emits for an       *)
(* extended one compute what it says, whatever its number; and in an       *)
(* archive the symbol table's offsets are where the members are.           *)
(***************************************************************************)
EXTENDS ElfToSrf, Asm33conv, ArLibrary, SrfToElf, LoopLemmas, FiniteSetTheorems

\* A symbol without a place in the file.
Outside(i) == Symbols[i].shndx \in {UNDEF, "COMMON"}

\* What an extern list may have for a symbol.  Only the entry of one defined
\* elsewhere changes: its first reference is filled in.
EntriesFor(i) ==
    IF Outside(i)
    THEN {[sym |-> i, e_scnoff |-> n, e_scnndx |-> NoScn, e_extyp |-> "EXTERN"] : n \in Nat}
    ELSE {[sym |-> i, e_scnoff |-> sym_offset_in_section(Symbols[i]),
           e_scnndx |-> shndx_to_scn_id(Symbols[i].shndx), e_extyp |-> "LOCAL"]}
\* All the entries that there can be.
ExternEntries == UNION {EntriesFor(i) : i \in DOMAIN Symbols}

\* A list of externs and the map into it agree.
ListFits(list, map) ==
    /\ list \in Seq(ExternEntries)
    /\ map = [i \in DOMAIN map |-> map[i]] /\ DOMAIN map \subseteq DOMAIN Symbols
    /\ \A i \in DOMAIN map : map[i] \in 1 .. Len(list) /\ list[map[i]].sym = i

\* The list l has grown from list, and some first references may be filled in.
Filled(e, f, n) == f = e \/ (e.e_extyp = "EXTERN" /\ f = [e EXCEPT !.e_scnoff = n])
\* A list of externs that has grown, its entries the same but for first references.
Grown(list, l, n) == Len(list) <= Len(l) /\ \A k \in 1 .. Len(list) : Filled(list[k], l[k], n)

\* What the variables are.
ObjTyped ==
    /\ text_len \in Nat /\ todo \in 1 .. 4
    /\ taken \in [{".text", ".rodata", ".data"} -> Seq(RelocsIn)]
    /\ ext_lists = [scn \in Scns |-> ext_lists[scn]] /\ sym_to_ext = [scn \in Scns |-> sym_to_ext[scn]]
    /\ srf_rels \in [Scns -> Seq([r_rctyp : Nat, r_scnoff : Nat, r_exndx : Nat \ {0},
                                  r_scnndx : Scns \union {NoScn}, r_symoff : Nat])]

\* The invariant: every list of externs and its map fit each other, every
\* relocation names an entry of its list, and what is converted means what was read.
ObjInv ==
    /\ ObjTyped
    /\ todo = 1 => taken[".rodata"] = <<>>
    /\ \A i \in DOMAIN Symbols : /\ Symbols[i].named => i \in sym_name
                                 /\ i \in sym_name => Symbols[i].named \/ shndx_to_scn_id(Symbols[i].shndx) # NoScn
    /\ \A scn \in Scns : ListFits(ext_lists[scn], sym_to_ext[scn])
    /\ \A scn \in Scns : \A k \in DOMAIN srf_rels[scn] : srf_rels[scn][k].r_exndx <= Len(ext_lists[scn])
    /\ SrfMeansElf

\* A remainder may be taken before adding.
LEMMA ModOfSum ==
    ASSUME NEW a \in Int, NEW b \in Int, NEW w \in Nat \ {0}
    PROVE  (a + (b % w)) % w = (b + a) % w
<1>1. PICK q \in Int, s \in 0 .. w - 1 : b = w * q + s /\ b % w = s
      BY Rem
<1>0. a + s \in Int /\ b + a \in Int
      BY <1>1
<1>2. PICK p \in Int, r \in 0 .. w - 1 : a + s = w * p + r /\ (a + s) % w = r
      BY <1>0, Rem
<1>3. w * (p + q) = w * p + w * q /\ w * p \in Int /\ w * q \in Int /\ p + q \in Int
      OBVIOUS
<1>4. b + a = w * (p + q) + r
      BY <1>1, <1>2, <1>3
<1>5. (b + a) % w = r
      BY <1>0, <1>2, <1>3, <1>4, Unique
<1> QED BY <1>1, <1>2, <1>5

\* A new entry is one the list may have, and so is one whose first reference
\* is filled in.
LEMMA NewExternFits ==
    ASSUME text_len \in Nat, NEW i \in DOMAIN Symbols, NEW n \in Nat
    PROVE  NewExtern(i, n) \in EntriesFor(i) /\ NewExtern(i, n).sym = i
BY DEF NewExtern, EntriesFor, Outside, sym_offset_in_section

\* An entry of a list is one that the list may have,
LEMMA EntryFits ==
    ASSUME text_len \in Nat, NEW e \in ExternEntries
    PROVE  e.sym \in DOMAIN Symbols /\ e \in EntriesFor(e.sym)
<1>1. PICK i \in DOMAIN Symbols : e \in EntriesFor(i)
      BY DEF ExternEntries
<1>2. e.sym = i
      BY <1>1 DEF EntriesFor
<1> QED BY <1>1, <1>2

\* also when its first reference is filled in.
LEMMA EntryFilled ==
    ASSUME text_len \in Nat, NEW e \in ExternEntries, e.e_extyp = "EXTERN", NEW n \in Nat
    PROVE  [e EXCEPT !.e_scnoff = n] \in ExternEntries /\ [e EXCEPT !.e_scnoff = n].sym = e.sym
<1>1. e.sym \in DOMAIN Symbols /\ e \in EntriesFor(e.sym)
      BY EntryFits
<1>2. Outside(e.sym)
      BY <1>1 DEF EntriesFor
<1>3. PICK m \in Nat : e = [sym |-> e.sym, e_scnoff |-> m, e_scnndx |-> NoScn, e_extyp |-> "EXTERN"]
      BY <1>1, <1>2 DEF EntriesFor
<1>4. [e EXCEPT !.e_scnoff = n] = [sym |-> e.sym, e_scnoff |-> n, e_scnndx |-> NoScn, e_extyp |-> "EXTERN"]
      BY <1>3
<1>5. [e EXCEPT !.e_scnoff = n] \in EntriesFor(e.sym)
      BY <1>2, <1>4 DEF EntriesFor
<1> QED BY <1>1, <1>4, <1>5 DEF ExternEntries

\* What ensure_extern does to a list: the symbol is in it at the place the map
\* says, and every entry before is what it was but for a first reference.
LEMMA EnsuredFits ==
    ASSUME text_len \in Nat, NEW list, NEW map, ListFits(list, map), NEW i \in DOMAIN Symbols, NEW n \in Nat
    PROVE  /\ ListFits(Ensured(list, map, i, n), EnsuredAt(list, map, i)) /\ i \in DOMAIN EnsuredAt(list, map, i)
           /\ Grown(list, Ensured(list, map, i, n), n)
<1>0. list \in Seq(ExternEntries) /\ Len(list) \in Nat
      BY DEF ListFits
<1>1. CASE i \notin DOMAIN map
  <2> DEFINE e == NewExtern(i, n)
  <2> DEFINE l == Append(list, e)
  <2> DEFINE m == [k \in DOMAIN map \union {i} |-> IF k = i THEN Len(list) + 1 ELSE map[k]]
  <2>1. Ensured(list, map, i, n) = l /\ EnsuredAt(list, map, i) = m
        BY <1>1 DEF Ensured, EnsuredAt
  <2>2. e \in ExternEntries /\ e.sym = i
        BY NewExternFits DEF ExternEntries
  <2> HIDE DEF e
  <2>3. l \in Seq(ExternEntries) /\ Len(l) = Len(list) + 1 /\ l[Len(list) + 1] = e /\ \A k \in 1 .. Len(list) : l[k] = list[k]
        BY <1>0, <2>2
  <2>4. m = [k \in DOMAIN m |-> m[k]] /\ DOMAIN m \subseteq DOMAIN Symbols /\ i \in DOMAIN m
        BY DEF ListFits
  <2>5. \A k \in DOMAIN m : m[k] \in 1 .. Len(l) /\ l[m[k]].sym = k
        BY <1>0, <2>2, <2>3 DEF ListFits
  <2> HIDE DEF l, m
  <2> QED BY <1>0, <2>1, <2>3, <2>4, <2>5 DEF ListFits, Grown, Filled
<1>2. CASE i \in DOMAIN map
  <2> DEFINE at == map[i]
  <2>1. EnsuredAt(list, map, i) = map /\ at \in 1 .. Len(list)
        BY <1>2 DEF EnsuredAt, ListFits
  <2>2. CASE list[at].e_extyp = "EXTERN" /\ list[at].e_scnoff = 0
    <3> DEFINE l == [list EXCEPT ![at].e_scnoff = n]
    <3>1. Ensured(list, map, i, n) = l
          BY <1>2, <2>2 DEF Ensured
    <3>2. list[at] \in ExternEntries
          BY <1>0, <2>1
    <3>3. [list[at] EXCEPT !.e_scnoff = n] \in ExternEntries /\ [list[at] EXCEPT !.e_scnoff = n].sym = list[at].sym
          BY <2>2, <3>2, EntryFilled
    <3>4. l = [list EXCEPT ![at] = [list[at] EXCEPT !.e_scnoff = n]]
          OBVIOUS
    <3> DEFINE e == [list[at] EXCEPT !.e_scnoff = n]
    <3> HIDE DEF at, l, e
    <3>5. l \in Seq(ExternEntries) /\ Len(l) = Len(list) /\ \A k \in 1 .. Len(list) : l[k] = IF k = at THEN e ELSE list[k]
          BY <1>0, <2>1, <3>3, <3>4 DEF e
    <3>6. \A k \in DOMAIN map : map[k] \in 1 .. Len(l) /\ l[map[k]].sym = k
          BY <3>3, <3>5 DEF e, ListFits
    <3>7. \A k \in 1 .. Len(list) :
             l[k] = list[k] \/ (list[k].e_extyp = "EXTERN" /\ l[k] = [list[k] EXCEPT !.e_scnoff = n])
          BY <2>2, <3>5 DEF e
    <3> QED BY <1>0, <1>2, <2>1, <3>1, <3>5, <3>6, <3>7 DEF ListFits, Grown, Filled
  <2>3. CASE ~(list[at].e_extyp = "EXTERN" /\ list[at].e_scnoff = 0)
    <3>1. Ensured(list, map, i, n) = list
          BY <1>2, <2>3 DEF Ensured
    <3> QED BY <1>0, <1>2, <2>1, <3>1 DEF Grown, Filled
  <2> QED BY <2>2, <2>3
<1> QED BY <1>1, <1>2

\* The places entries are for are numbers.
LEMMA PlacesAreNumbers ==
    ASSUME text_len \in Nat, NEW i \in DOMAIN Symbols
    PROVE  sym_offset_in_section(Symbols[i]) \in Nat
BY ElfToSrfAssumption DEF sym_offset_in_section

\* An entry filled in means to a relocation what it did before.
LEMMA EntryKept ==
    ASSUME text_len \in Nat, NEW e \in ExternEntries, NEW f, NEW n, Filled(e, f, n)
    PROVE  /\ f.e_extyp = e.e_extyp /\ f.sym = e.sym /\ f.e_scnndx = e.e_scnndx
           /\ e.e_extyp # "EXTERN" => f.e_scnoff = e.e_scnoff
<1>1. e.sym \in DOMAIN Symbols /\ e \in EntriesFor(e.sym)
      BY EntryFits
<1> QED BY <1>1 DEF EntriesFor, Filled

\* The entry of a relocation's symbol gives it the ELF relocation's meaning.
LEMMA MeaningRight ==
    ASSUME text_len \in Nat, NEW s \in {".text", ".rodata", ".data"}, NEW rel \in RelocsIn,
           NEW e \in ExternEntries, e.sym = rel.sym
    PROVE  [at |-> rel.offset + Adjust(s), type |-> ElfTypes[rel.type],
            to |-> IF e.e_extyp = "EXTERN" THEN <<"extern", e.sym>> ELSE <<"in", e.e_scnndx>>,
            off |-> ((IF e.e_extyp = "EXTERN" THEN 0 ELSE e.e_scnoff) + (Addend(rel) % Width)) % Width]
             = ElfMeaning(s, rel)
<1> DEFINE i == rel.sym
<1>1. i \in DOMAIN Symbols /\ e \in EntriesFor(i)
      BY EntryFits, ElfToSrfAssumption
<1>2. Addend(rel) \in Int /\ Width \in Nat \ {0} /\ (Addend(rel) % Width) \in Nat
      BY ElfToSrfAssumption DEF Addend
<1> DEFINE v == IF Outside(i) THEN 0 ELSE sym_offset_in_section(Symbols[i])
<1>3. v \in Int
      BY <1>1, PlacesAreNumbers
<1>4. (v + (Addend(rel) % Width)) % Width = (Addend(rel) + v) % Width
      BY <1>2, <1>3, ModOfSum
<1>5. v = IF Outside(i) THEN 0 ELSE Symbols[i].value + (IF Symbols[i].shndx = ".rodata" THEN text_len ELSE 0)
      BY <1>1, ElfToSrfAssumption DEF sym_offset_in_section
<1>6. v = IF e.e_extyp = "EXTERN" THEN 0 ELSE e.e_scnoff
      BY <1>1 DEF EntriesFor
<1>7. (IF e.e_extyp = "EXTERN" THEN <<"extern", e.sym>> ELSE <<"in", e.e_scnndx>>)
        = IF Outside(i) THEN <<"extern", i>> ELSE <<"in", shndx_to_scn_id(Symbols[i].shndx)>>
      BY <1>1 DEF EntriesFor
<1>9. ElfMeaning(s, rel)
        = [at |-> rel.offset + Adjust(s), type |-> ElfTypes[rel.type],
           to |-> IF Outside(i) THEN <<"extern", i>> ELSE <<"in", shndx_to_scn_id(Symbols[i].shndx)>>,
           off |-> (Addend(rel) + (IF Outside(i) THEN 0
                                   ELSE Symbols[i].value + (IF Symbols[i].shndx = ".rodata" THEN text_len ELSE 0))) % Width]
      BY DEF ElfMeaning, Outside
<1> HIDE DEF v
<1> QED BY <1>4, <1>5, <1>6, <1>7, <1>9

\* What is read for a section is a sequence.
LEMMA ReadTyped ==
    ASSUME taken \in [{".text", ".rodata", ".data"} -> Seq(RelocsIn)], NEW z \in {".text", ".rodata", ".data"}
    PROVE  ReadOf(z) \in Seq([s : {".text", ".rodata", ".data"}, rel : RelocsIn])
<1> DEFINE U == [s : {".text", ".rodata", ".data"}, rel : RelocsIn]
<1>1. taken[z] \in Seq(RelocsIn) /\ DOMAIN taken[z] = 1 .. Len(taken[z]) /\ Len(taken[z]) \in Nat
      OBVIOUS
<1>2. ReadOf(z) \in [1 .. Len(taken[z]) -> U]
      BY <1>1 DEF ReadOf
<1> HIDE DEF U
<1>3. PICK n \in Nat : ReadOf(z) \in [1 .. n -> U]
      BY <1>1, <1>2
<1>4. Seq(U) = UNION {[1 .. k -> U] : k \in Nat}
      BY SeqDef
<1>5. ReadOf(z) \in Seq(U)
      BY <1>3, <1>4
<1> QED BY <1>5 DEF U

\* Reading a relocation appends it to what has been read for its SRF section.
LEMMA ReadGrows ==
    ASSUME taken \in [{".text", ".rodata", ".data"} -> Seq(RelocsIn)], todo \in 1 .. 3,
           todo = 1 => taken[".rodata"] = <<>>, NEW rel \in RelocsIn, NEW s, s = ElfSections[todo],
           taken' = [taken EXCEPT ![s] = Append(@, rel)], NEW scn \in {"CODE", "DATA"}
    PROVE  ReadFor(scn)' = IF scn = shndx_to_scn_id(s) THEN Append(ReadFor(scn), [s |-> s, rel |-> rel])
                           ELSE ReadFor(scn)
<1> DEFINE U == [s : {".text", ".rodata", ".data"}, rel : RelocsIn]
<1> DEFINE x == [s |-> s, rel |-> rel]
<1>1. /\ todo = 1 => s = ".text" /\ shndx_to_scn_id(s) = "CODE"
      /\ todo = 2 => s = ".rodata" /\ shndx_to_scn_id(s) = "CODE"
      /\ todo = 3 => s = ".data" /\ shndx_to_scn_id(s) = "DATA"
      /\ s \in {".text", ".rodata", ".data"}
      BY DEF ElfSections, shndx_to_scn_id
<1>2. taken'[s] = Append(taken[s], rel) /\ \A z \in {".text", ".rodata", ".data"} : z # s => taken'[z] = taken[z]
      BY <1>1
<1>3. ReadOf(s)' = Append(ReadOf(s), x)
  <2>1. taken[s] \in Seq(RelocsIn)
        BY <1>1
  <2>2. [k \in DOMAIN Append(taken[s], rel) |-> [s |-> s, rel |-> Append(taken[s], rel)[k]]]
          = Append([k \in DOMAIN taken[s] |-> [s |-> s, rel |-> taken[s][k]]], [s |-> s, rel |-> rel])
        BY <2>1
  <2> QED BY <1>2, <2>2 DEF ReadOf
<1>4. \A z \in {".text", ".rodata", ".data"} : z # s => ReadOf(z)' = ReadOf(z)
      BY <1>2 DEF ReadOf
<1>5. \A z \in {".text", ".rodata", ".data"} : ReadOf(z) \in Seq(U)
      BY ReadTyped
<1>6. x \in U /\ (todo = 1 => ReadOf(".rodata") = <<>>)
      BY <1>1 DEF ReadOf
<1> HIDE DEF U, x
<1>7. CASE todo = 1
  <2>1. Append(ReadOf(".text"), x) \o <<>> = Append(ReadOf(".text") \o <<>>, x)
        BY <1>5, <1>6
  <2> QED BY <1>1, <1>3, <1>4, <1>6, <1>7, <2>1 DEF ReadFor, x
<1>8. CASE todo = 2
  <2>1. ReadOf(".text") \o Append(ReadOf(".rodata"), x) = Append(ReadOf(".text") \o ReadOf(".rodata"), x)
        BY <1>5, <1>6
  <2> QED BY <1>1, <1>3, <1>4, <1>8, <2>1 DEF ReadFor, x
<1>9. CASE todo = 3
      BY <1>1, <1>3, <1>4, <1>9 DEF ReadFor, x
<1> QED BY <1>7, <1>8, <1>9

\* What is meant grows by what the relocation read means, if SRF can express it.
LEMMA MeantGrows ==
    ASSUME ObjTyped, todo \in 1 .. 3, todo = 1 => taken[".rodata"] = <<>>, NEW rel \in RelocsIn,
           NEW s, s = ElfSections[todo], text_len' = text_len,
           taken' = [taken EXCEPT ![s] = Append(@, rel)], NEW scn \in {"CODE", "DATA"}
    PROVE  Meant(scn)' = IF scn = shndx_to_scn_id(s) /\ Expressible(rel)
                         THEN Append(Meant(scn), ElfMeaning(s, rel)) ELSE Meant(scn)
<1> DEFINE U == [s : {".text", ".rodata", ".data"}, rel : RelocsIn]
<1> DEFINE x == [s |-> s, rel |-> rel]
<1> DEFINE R == ReadFor(scn)
<1> DEFINE Keep(r) == {k \in DOMAIN r : Expressible(r[k].rel)}
<1>0. s \in {".text", ".rodata", ".data"}
      BY DEF ElfSections
<1>1. R' = IF scn = shndx_to_scn_id(s) THEN Append(R, x) ELSE R
      BY ReadGrows DEF ObjTyped
<1>2. R \in Seq(U) /\ x \in U
  <2>1. \A z \in {".text", ".rodata", ".data"} : ReadOf(z) \in Seq(U)
        BY ReadTyped DEF ObjTyped
  <2>2. x \in U
        BY <1>0
  <2> HIDE DEF U, x
  <2>3. R \in Seq(U)
        BY <2>1 DEF ReadFor
  <2> QED BY <2>2, <2>3
<1> DEFINE K == Selected(R, Keep(R))
<1>3. K \in Seq(U)
  <2> HIDE DEF U, R, Keep
  <2> QED BY <1>2, SelectedTyped
<1>4. \A z, r : ElfMeaning(z, r)' = ElfMeaning(z, r)
      BY DEF ElfMeaning, Adjust
<1> DEFINE M(k) == [i \in DOMAIN k |-> ElfMeaning(k[i].s, k[i].rel)]
<1>5. Meant(scn) = M(K)
      BY DEF Meant
<1>6. Meant(scn)' = M(Selected(R', Keep(R')))
      BY <1>4 DEF Meant, Expressible
<1>7. CASE scn # shndx_to_scn_id(s)
  <2> HIDE DEF M, Keep, R
  <2> QED BY <1>1, <1>5, <1>6, <1>7
<1>8. CASE scn = shndx_to_scn_id(s)
  <2>1. \A k \in 1 .. Len(R) : k \in Keep(R) <=> k \in Keep(Append(R, x))
    <3> HIDE DEF R, x, U
    <3> QED BY <1>2
  <2>2. Len(R) + 1 \in Keep(Append(R, x)) <=> Expressible(rel)
    <3>1. x.rel = rel
          OBVIOUS
    <3> HIDE DEF R, x, U
    <3> QED BY <1>2, <3>1
  <2>3. Selected(Append(R, x), Keep(Append(R, x))) = IF Expressible(rel) THEN Append(K, x) ELSE K
    <3> HIDE DEF R, x, U, Keep
    <3> QED BY <1>2, <2>1, <2>2, SelectedAppend
  <2>4. M(Append(K, x)) = Append(M(K), ElfMeaning(s, rel))
    <3>1. x.rel = rel /\ x.s = s
          OBVIOUS
    <3> HIDE DEF x, U, K
    <3> QED BY <1>2, <1>3, <3>1
  <2> HIDE DEF M, Keep, R, x, K
  <2> QED BY <1>1, <1>5, <1>6, <1>8, <2>3, <2>4
<1> QED BY <1>7, <1>8

-----------------------------------------------------------------------------
\* Nothing has been read at first.
LEMMA ObjInvInit == ObjInit => ObjInv
<1> SUFFICES ASSUME ObjInit PROVE ObjInv OBVIOUS
<1> USE DEF ObjInit
<1>1. text_len \in Nat /\ todo \in 1 .. 4
      BY ElfToSrfAssumption
<1>2. /\ taken \in [{".text", ".rodata", ".data"} -> Seq(RelocsIn)]
      /\ \A s \in {".text", ".rodata", ".data"} : taken[s] = <<>>
      OBVIOUS
<1>3. \A scn \in Scns : srf_rels[scn] = <<>>
      OBVIOUS
<1>4. ObjTyped
  <2>1. srf_rels \in [Scns -> Seq([r_rctyp : Nat, r_scnoff : Nat, r_exndx : Nat \ {0},
                                   r_scnndx : Scns \union {NoScn}, r_symoff : Nat])]
        OBVIOUS
  <2> QED BY <1>1, <1>2, <2>1 DEF ObjTyped
<1>5. \A scn \in Scns : ListFits(ext_lists[scn], sym_to_ext[scn])
  <2> SUFFICES ASSUME NEW scn \in Scns PROVE ListFits(ext_lists[scn], sym_to_ext[scn])
      OBVIOUS
  <2> DEFINE X == Exported(scn)
  <2> DEFINE l == [k \in DOMAIN X |-> NewExtern(X[k], 0)]
  <2> DEFINE m == [i \in {X[k] : k \in DOMAIN X} |-> CHOOSE k \in DOMAIN X : X[k] = i]
  <2>1. ext_lists[scn] = l /\ sym_to_ext[scn] = m
        OBVIOUS
  <2>2. X \in Seq(DOMAIN Symbols)
    <3> DEFINE s == [i \in DOMAIN Symbols |-> i]
    <3>1. DOMAIN Symbols = 1 .. Len(Symbols) /\ Len(Symbols) \in Nat
          BY ElfToSrfAssumption
    <3>2. s \in [1 .. Len(Symbols) -> DOMAIN Symbols]
          BY <3>1
    <3>3. Seq(DOMAIN Symbols) = UNION {[1 .. n -> DOMAIN Symbols] : n \in Nat}
          BY SeqDef
    <3>4. s \in Seq(DOMAIN Symbols)
          BY <3>1, <3>2, <3>3
    <3> HIDE DEF s
    <3>5. \A keep : Selected(s, keep) \in Seq(DOMAIN Symbols)
          BY <3>4, SelectedTyped
    <3> QED BY <3>5 DEF Exported, s
  <2> HIDE DEF X
  <2>3. \A k \in DOMAIN X : NewExtern(X[k], 0) \in ExternEntries /\ NewExtern(X[k], 0).sym = X[k]
        BY <1>1, <2>2, NewExternFits DEF ExternEntries
  <2>4. l \in Seq(ExternEntries) /\ DOMAIN l = DOMAIN X /\ DOMAIN l = 1 .. Len(l)
    <3>1. DOMAIN X = 1 .. Len(X) /\ Len(X) \in Nat
          BY <2>2
    <3>2. l \in [1 .. Len(X) -> ExternEntries]
          BY <2>3, <3>1
    <3>3. Seq(ExternEntries) = UNION {[1 .. n -> ExternEntries] : n \in Nat}
          BY SeqDef
    <3>4. l \in Seq(ExternEntries)
          BY <3>1, <3>2, <3>3
    <3> QED BY <3>4
  <2>5. \A i \in DOMAIN m : m[i] \in DOMAIN X /\ X[m[i]] = i
        OBVIOUS
  <2>6. DOMAIN m \subseteq DOMAIN Symbols
        BY <2>2
  <2>7. \A i \in DOMAIN m : m[i] \in 1 .. Len(l) /\ l[m[i]].sym = i
    <3> SUFFICES ASSUME NEW i \in DOMAIN m PROVE m[i] \in 1 .. Len(l) /\ l[m[i]].sym = i
        OBVIOUS
    <3>1. m[i] \in DOMAIN X /\ X[m[i]] = i
          BY <2>5
    <3> HIDE DEF m
    <3>2. l[m[i]] = NewExtern(X[m[i]], 0)
          BY <3>1
    <3> HIDE DEF l
    <3> QED BY <2>3, <2>4, <3>1, <3>2
  <2>8. m = [i \in DOMAIN m |-> m[i]]
        OBVIOUS
  <2> HIDE DEF l, m
  <2>9. ListFits(l, m)
        BY <2>4, <2>6, <2>7, <2>8 DEF ListFits
  <2> QED BY <2>1, <2>9
<1>6. \A i \in DOMAIN Symbols : i \in sym_name <=> Symbols[i].named
      OBVIOUS
<1>7. SrfMeansElf
  <2> SUFFICES ASSUME NEW scn \in {"CODE", "DATA"}
               PROVE  [k \in DOMAIN srf_rels[scn] |-> SrfMeaning(scn, srf_rels[scn][k])] = Meant(scn)
      BY DEF SrfMeansElf
  <2>1. srf_rels[scn] = <<>>
        BY <1>3 DEF Scns
  <2>2. \A s \in {".text", ".rodata", ".data"} : ReadOf(s) = <<>>
        BY <1>2 DEF ReadOf
  <2>3. ReadFor(scn) = <<>>
    <3>1. <<>> \o <<>> = <<>>
          OBVIOUS
    <3> QED BY <2>2, <3>1 DEF ReadFor
  <2>4. Meant(scn) = <<>>
    <3> DEFINE keep == {k \in DOMAIN <<>> : Expressible(<<>>[k].rel)}
    <3> DEFINE kept == Selected(<<>>, keep)
    <3>1. kept = <<>>
      <4> HIDE DEF keep
      <4> QED BY SelectedEmpty
    <3>2. Meant(scn) = [k \in DOMAIN kept |-> ElfMeaning(kept[k].s, kept[k].rel)]
          BY <2>3 DEF Meant
    <3> HIDE DEF kept
    <3> QED BY <3>1, <3>2
  <2> QED BY <2>1, <2>4
<1>8. \A scn \in Scns : \A k \in DOMAIN srf_rels[scn] : FALSE
      BY <1>3
<1>9. todo = 1 => taken[".rodata"] = <<>>
      BY <1>2
<1> QED BY <1>4, <1>5, <1>6, <1>7, <1>8, <1>9 DEF ObjInv

\* But for REL21 the table leads to the type for the same part of an address.
LEMMA SameType ==
    ASSUME NEW t \in DOMAIN ELF_TO_SRF_RELOC, t # R_S1C33_REL21
    PROVE  SrfTypes[ELF_TO_SRF_RELOC[t]] = ElfTypes[t]
<1>1. t \in 1 .. 9
      BY DEF ELF_TO_SRF_RELOC
<1> QED BY <1>1 DEF ELF_TO_SRF_RELOC, SrfTypes, ElfTypes, R_S1C33_REL21

\* If there is no REL21 after a relocation has been read, it was none, nor were
\* those before it.
LEMMA NoneBefore ==
    ASSUME taken \in [{".text", ".rodata", ".data"} -> Seq(RelocsIn)], NEW rel \in RelocsIn,
           NEW s \in {".text", ".rodata", ".data"}, taken' = [taken EXCEPT ![s] = Append(@, rel)], NoneREL21'
    PROVE  NoneREL21 /\ rel.type # R_S1C33_REL21
<1>1. /\ DOMAIN taken = {".text", ".rodata", ".data"} /\ DOMAIN taken' = {".text", ".rodata", ".data"}
      /\ taken'[s] = Append(taken[s], rel)
      /\ \A z \in {".text", ".rodata", ".data"} : z # s => taken'[z] = taken[z]
      OBVIOUS
<1>2. \A z \in {".text", ".rodata", ".data"} : taken[z] \in Seq(RelocsIn)
      OBVIOUS
<1>3. /\ DOMAIN Append(taken[s], rel) = 1 .. Len(taken[s]) + 1 /\ Len(taken[s]) \in Nat
      /\ DOMAIN taken[s] = 1 .. Len(taken[s])
      /\ Append(taken[s], rel)[Len(taken[s]) + 1] = rel
      /\ \A k \in 1 .. Len(taken[s]) : Append(taken[s], rel)[k] = taken[s][k]
      BY <1>2
<1>4. \A z \in DOMAIN taken' : \A k \in DOMAIN taken'[z] : taken'[z][k].type # R_S1C33_REL21
      BY DEF NoneREL21
<1>5. rel.type # R_S1C33_REL21
  <2>1. s \in DOMAIN taken' /\ taken'[s] = Append(taken[s], rel)
        BY <1>1
  <2>2. Len(taken[s]) + 1 \in DOMAIN taken'[s] /\ taken'[s][Len(taken[s]) + 1] = rel
        BY <1>3, <2>1
  <2> QED BY <1>4, <2>1, <2>2, Zenon
<1>6. ASSUME NEW z \in DOMAIN taken, NEW k \in DOMAIN taken[z]
      PROVE  taken[z][k].type # R_S1C33_REL21
  <2>1. CASE z = s
    <3>1. k \in 1 .. Len(taken[s]) /\ k \in 1 .. Len(taken[s]) + 1
          BY <1>3, <2>1
    <3>2. k \in DOMAIN taken'[s] /\ taken'[s][k] = taken[s][k]
          BY <1>1, <1>3, <3>1
    <3> QED BY <1>1, <1>4, <2>1, <3>2
  <2>2. CASE z # s
        BY <1>1, <1>4, <2>2
  <2> QED BY <2>1, <2>2
<1> QED BY <1>5, <1>6 DEF NoneREL21

\* Nothing of what has been converted is touched.
LEMMA ObjInvRests ==
    ASSUME ObjInv, UNCHANGED <<text_len, sym_name, ext_lists, sym_to_ext, srf_rels>>,
           todo' \in 1 .. 4, taken' \in [{".text", ".rodata", ".data"} -> Seq(RelocsIn)],
           (todo = 1 => taken[".rodata"] = <<>>)', \A scn \in {"CODE", "DATA"} : Meant(scn)' = Meant(scn),
           NoneREL21' => NoneREL21
    PROVE  ObjInv'
<1>1. ObjTyped'
      BY DEF ObjInv, ObjTyped
<1>2. \A list, map : ListFits(list, map)' <=> ListFits(list, map)
  <2>1. \A i : EntriesFor(i)' = EntriesFor(i)
        BY DEF EntriesFor, sym_offset_in_section, Outside
  <2>2. ExternEntries' = ExternEntries
        BY <2>1 DEF ExternEntries
  <2> QED BY <2>2 DEF ListFits
<1>3. (\A scn \in Scns : ListFits(ext_lists[scn], sym_to_ext[scn]))'
      BY <1>2 DEF ObjInv
<1>4. \A scn, r : SrfMeaning(scn, r)' = SrfMeaning(scn, r)
      BY DEF SrfMeaning
<1>5. SrfMeansElf'
      BY <1>4 DEF ObjInv, SrfMeansElf
<1> QED BY <1>1, <1>3, <1>5 DEF ObjInv

\* A relocation that is converted.
LEMMA ObjInvConverts ==
    ASSUME ObjInv, todo \in 1 .. 3, NEW rel \in RelocsIn, Convertible(rel), process_reloc(rel),
           taken' = [taken EXCEPT ![ElfSections[todo]] = Append(@, rel)], UNCHANGED <<text_len, todo>>
    PROVE  ObjInv'
<1> PICK s : s = ElfSections[todo]
    OBVIOUS
<1> PICK scn : scn = shndx_to_scn_id(s)
    OBVIOUS
<1> PICK i, n, list, map : i = rel.sym /\ n = rel.offset + Adjust(s) /\ list = ext_lists[scn] /\ map = sym_to_ext[scn]
    OBVIOUS
<1> DEFINE l == Ensured(list, map, i, n)
<1> DEFINE m == EnsuredAt(list, map, i)
<1> DEFINE r == [r_rctyp |-> ELF_TO_SRF_RELOC[rel.type], r_scnoff |-> n, r_exndx |-> m[i],
                 r_scnndx |-> shndx_to_scn_id(Symbols[i].shndx), r_symoff |-> Addend(rel) % Width]
<1>1. s \in {".text", ".rodata", ".data"} /\ scn \in {"CODE", "DATA"} /\ scn \in Scns
      BY DEF ElfSections, shndx_to_scn_id, Scns
<1>2. i \in DOMAIN Symbols /\ n \in Nat
  <2>1. rel.sym \in DOMAIN Symbols /\ rel.offset \in Nat /\ text_len \in Nat
        BY ElfToSrfAssumption DEF ObjInv, ObjTyped
  <2> QED BY <2>1 DEF Adjust
<1>3. /\ ext_lists' = [ext_lists EXCEPT ![scn] = l] /\ sym_to_ext' = [sym_to_ext EXCEPT ![scn] = m]
      /\ srf_rels' = [srf_rels EXCEPT ![scn] = Append(@, r)] /\ sym_name' = sym_name \union {i}
      BY DEF process_reloc
<1>4. text_len \in Nat /\ ListFits(list, map) /\ text_len' = text_len /\ todo' = todo
      BY <1>1 DEF ObjInv, ObjTyped
<1>5. ListFits(l, m) /\ i \in DOMAIN m /\ Grown(list, l, n)
      BY <1>2, <1>4, EnsuredFits
<1>6. m[i] \in 1 .. Len(l) /\ l[m[i]].sym = i /\ l \in Seq(ExternEntries) /\ list \in Seq(ExternEntries)
      BY <1>4, <1>5 DEF ListFits
<1> DEFINE Rels == [r_rctyp : Nat, r_scnoff : Nat, r_exndx : Nat \ {0}, r_scnndx : Scns \union {NoScn}, r_symoff : Nat]
<1>7. r \in Rels
  <2>1. ELF_TO_SRF_RELOC[rel.type] \in Nat
    <3>1. rel.type \in 1 .. 9
          BY DEF Convertible, ELF_TO_SRF_RELOC
    <3> QED BY <3>1 DEF ELF_TO_SRF_RELOC
  <2>2. m[i] \in Nat \ {0}
        BY <1>6
  <2>3. (Addend(rel) % Width) \in Nat
        BY ElfToSrfAssumption DEF Addend
  <2>4. shndx_to_scn_id(Symbols[i].shndx) \in Scns \union {NoScn}
        BY DEF shndx_to_scn_id, Scns
  <2> HIDE DEF m
  <2> QED BY <1>2, <2>1, <2>2, <2>3, <2>4
<1> HIDE DEF l, m, r, Rels
<1>8. srf_rels \in [Scns -> Seq(Rels)] /\ srf_rels' \in [Scns -> Seq(Rels)]
  <2>1. srf_rels \in [Scns -> Seq(Rels)]
        BY DEF ObjInv, ObjTyped, Rels
  <2> QED BY <1>1, <1>3, <1>7, <2>1
<1>9. /\ ext_lists'[scn] = l /\ sym_to_ext'[scn] = m /\ srf_rels'[scn] = Append(srf_rels[scn], r)
      /\ \A z \in Scns : z # scn => /\ ext_lists'[z] = ext_lists[z] /\ sym_to_ext'[z] = sym_to_ext[z]
                                    /\ srf_rels'[z] = srf_rels[z]
  <2>1. ext_lists = [z \in Scns |-> ext_lists[z]] /\ sym_to_ext = [z \in Scns |-> sym_to_ext[z]]
        BY DEF ObjInv, ObjTyped
  <2> QED BY <1>1, <1>3, <1>8, <2>1
<1>10. ObjTyped'
  <2>1. ext_lists = [z \in Scns |-> ext_lists[z]] /\ sym_to_ext = [z \in Scns |-> sym_to_ext[z]]
        BY DEF ObjInv, ObjTyped
  <2>2. ext_lists' = [z \in Scns |-> ext_lists'[z]] /\ sym_to_ext' = [z \in Scns |-> sym_to_ext'[z]]
        BY <1>3, <2>1
  <2>3. taken' \in [{".text", ".rodata", ".data"} -> Seq(RelocsIn)]
    <3>1. taken \in [{".text", ".rodata", ".data"} -> Seq(RelocsIn)]
          BY DEF ObjInv, ObjTyped
    <3>2. Append(taken[s], rel) \in Seq(RelocsIn)
          BY <1>1, <3>1
    <3> QED BY <1>1, <3>1, <3>2
  <2>4. text_len' \in Nat /\ todo' \in 1 .. 4
        BY <1>4
  <2> QED BY <1>8, <2>2, <2>3, <2>4 DEF ObjTyped, Rels
<1>11. (todo = 1 => taken[".rodata"] = <<>>)'
      BY <1>4 DEF ObjInv, ObjTyped, ElfSections
<1>12. \A k \in DOMAIN Symbols : /\ Symbols[k].named => k \in sym_name'
                                 /\ k \in sym_name' => Symbols[k].named \/ shndx_to_scn_id(Symbols[k].shndx) # NoScn
      BY <1>2, <1>3 DEF ObjInv, Convertible
<1>13. \A a, b : ListFits(a, b)' <=> ListFits(a, b)
  <2>1. \A k : EntriesFor(k)' = EntriesFor(k)
        BY <1>4 DEF EntriesFor, sym_offset_in_section, Outside
  <2>2. ExternEntries' = ExternEntries
        BY <2>1 DEF ExternEntries
  <2> QED BY <2>2 DEF ListFits
<1>14. (\A z \in Scns : ListFits(ext_lists[z], sym_to_ext[z]))'
      BY <1>5, <1>9, <1>13 DEF ObjInv
<1>15. \A z \in Scns : \A k \in DOMAIN srf_rels[z] : srf_rels[z][k].r_exndx \in 1 .. Len(ext_lists[z])
  <2>1. \A z \in Scns : \A k \in DOMAIN srf_rels[z] : srf_rels[z][k] \in Rels
        BY <1>8
  <2>2. \A z \in Scns : \A k \in DOMAIN srf_rels[z] : srf_rels[z][k].r_exndx \in Nat \ {0}
        BY <2>1 DEF Rels
  <2>3. \A z \in Scns : Len(ext_lists[z]) \in Nat
        BY DEF ObjInv, ListFits
  <2> QED BY <2>2, <2>3 DEF ObjInv
<1>16. \A z \in Scns : \A k \in DOMAIN srf_rels'[z] : srf_rels'[z][k].r_exndx <= Len(ext_lists'[z])
  <2> SUFFICES ASSUME NEW z \in Scns, NEW k \in DOMAIN srf_rels'[z]
               PROVE  srf_rels'[z][k].r_exndx <= Len(ext_lists'[z])
      OBVIOUS
  <2>1. CASE z # scn
        BY <1>9, <1>15, <2>1
  <2>2. CASE z = scn
    <3>1. DOMAIN Append(srf_rels[scn], r) = 1 .. Len(srf_rels[scn]) + 1 /\ srf_rels[scn] \in Seq(Rels)
          BY <1>1, <1>8
    <3>2. CASE k = Len(srf_rels[scn]) + 1
      <4>1. srf_rels'[z][k] = r
            BY <1>9, <2>2, <3>1, <3>2
      <4>2. r.r_exndx = m[i]
            BY DEF r
      <4> QED BY <1>6, <1>9, <2>2, <4>1, <4>2
    <3>3. CASE k # Len(srf_rels[scn]) + 1
      <4>1. k \in DOMAIN srf_rels[scn] /\ srf_rels'[z][k] = srf_rels[scn][k]
        <5>1. srf_rels'[z] = Append(srf_rels[scn], r)
              BY <1>9, <2>2
        <5>2. k \in 1 .. Len(srf_rels[scn]) + 1
              BY <3>1, <5>1
        <5> QED BY <3>1, <3>3, <5>1, <5>2
      <4>2. Len(list) \in Nat /\ Len(l) \in Nat
            BY <1>6
      <4> QED BY <1>1, <1>5, <1>9, <1>15, <2>2, <4>1, <4>2 DEF Grown
    <3> QED BY <3>2, <3>3
  <2> QED BY <2>1, <2>2
<1>17. SrfMeansElf'
  <2> SUFFICES ASSUME NoneREL21', NEW z \in {"CODE", "DATA"}
               PROVE  ([k \in DOMAIN srf_rels[z] |-> SrfMeaning(z, srf_rels[z][k])] = Meant(z))'
      BY DEF SrfMeansElf
  <2>9. NoneREL21 /\ rel.type # R_S1C33_REL21
    <3>1. taken \in [{".text", ".rodata", ".data"} -> Seq(RelocsIn)]
          BY DEF ObjInv, ObjTyped
    <3> QED BY <1>1, <3>1, NoneBefore
  <2>0. SrfTypes[ELF_TO_SRF_RELOC[rel.type]] = ElfTypes[rel.type]
        BY <2>9, SameType DEF Convertible
  <2>1. [k \in DOMAIN srf_rels[z] |-> SrfMeaning(z, srf_rels[z][k])] = Meant(z)
        BY <2>9 DEF ObjInv, SrfMeansElf
  <2>2. Expressible(rel)
        BY <1>2 DEF ObjInv, Convertible, Expressible
  <2>3. Meant(z)' = IF z = scn THEN Append(Meant(z), ElfMeaning(s, rel)) ELSE Meant(z)
    <3>1. ObjTyped /\ (todo = 1 => taken[".rodata"] = <<>>) /\ taken' = [taken EXCEPT ![s] = Append(@, rel)]
          BY DEF ObjInv
    <3> QED BY <1>4, <2>2, <3>1, MeantGrows
  <2>4. CASE z # scn
    <3>1. z \in Scns
          BY DEF Scns
    <3>2. \A x : SrfMeaning(z, x)' = SrfMeaning(z, x)
          BY <1>9, <2>4, <3>1 DEF SrfMeaning
    <3> QED BY <1>9, <2>1, <2>3, <2>4, <3>1, <3>2
  <2>5. CASE z = scn
    <3>1. srf_rels[scn] \in Seq(Rels) /\ srf_rels'[scn] = Append(srf_rels[scn], r)
          BY <1>1, <1>8, <1>9
    <3> PICK A : A = srf_rels[scn]
        OBVIOUS
    <3>2. ASSUME NEW k \in DOMAIN A PROVE SrfMeaning(scn, A[k])' = SrfMeaning(scn, A[k])
      <4>1. A[k].r_exndx \in 1 .. Len(list) /\ Len(list) \in Nat
            BY <1>1, <1>6, <1>15
      <4> PICK q, e, f : q = A[k] /\ e = list[q.r_exndx] /\ f = l[q.r_exndx]
          OBVIOUS
      <4>2. e \in ExternEntries /\ e = ext_lists[scn][q.r_exndx] /\ f = ext_lists'[scn][q.r_exndx]
            BY <1>6, <1>9, <4>1
      <4>3. Filled(e, f, n)
            BY <1>5, <4>1 DEF Grown
      <4>4. SrfMeaning(scn, q)' = SrfMeaning(scn, q)
        <5>1. /\ f.e_extyp = e.e_extyp /\ f.sym = e.sym /\ f.e_scnndx = e.e_scnndx
              /\ e.e_extyp # "EXTERN" => f.e_scnoff = e.e_scnoff
              BY <1>4, <4>2, <4>3, EntryKept
        <5> QED BY <4>2, <5>1 DEF SrfMeaning
      <4> QED BY <4>4
    <3>3. SrfMeaning(scn, r)' = ElfMeaning(s, rel)
      <4> PICK e : e = l[m[i]]
          OBVIOUS
      <4>1. e \in ExternEntries /\ e.sym = rel.sym /\ ext_lists'[scn][m[i]] = e
            BY <1>6, <1>9
      <4>2. r.r_scnoff = rel.offset + Adjust(s) /\ r.r_rctyp = ELF_TO_SRF_RELOC[rel.type] /\ r.r_exndx = m[i] /\ r.r_symoff = Addend(rel) % Width
            BY DEF r
      <4>3. SrfMeaning(scn, r)'
              = [at |-> rel.offset + Adjust(s), type |-> ElfTypes[rel.type],
                 to |-> IF e.e_extyp = "EXTERN" THEN <<"extern", e.sym>> ELSE <<"in", e.e_scnndx>>,
                 off |-> ((IF e.e_extyp = "EXTERN" THEN 0 ELSE e.e_scnoff) + (Addend(rel) % Width)) % Width]
            BY <4>1, <4>2, <2>0 DEF SrfMeaning
      <4> QED BY <1>1, <1>4, <4>1, <4>3, MeaningRight
    <3>4. [k \in DOMAIN Append(A, r) |-> SrfMeaning(scn, Append(A, r)[k])']
             = Append([k \in DOMAIN A |-> SrfMeaning(scn, A[k])], ElfMeaning(s, rel))
      <4>1. DOMAIN Append(A, r) = 1 .. Len(A) + 1 /\ DOMAIN A = 1 .. Len(A) /\ Len(A) \in Nat
            BY <3>1
      <4> QED BY <3>1, <3>2, <3>3, <4>1
    <3>5. srf_rels'[z] = Append(A, r) /\ Meant(z)' = Append([k \in DOMAIN A |-> SrfMeaning(scn, A[k])], ElfMeaning(s, rel))
          BY <2>1, <2>3, <2>5, <3>1
    <3> QED BY <2>5, <3>4, <3>5
  <2> QED BY <2>4, <2>5
<1> QED BY <1>10, <1>11, <1>12, <1>14, <1>16, <1>17 DEF ObjInv

\* A step reads a relocation, or goes on to the next section.
LEMMA ObjInvNext == ObjInv /\ [ObjNext]_objVars => ObjInv'
<1> SUFFICES ASSUME ObjInv, [ObjNext]_objVars PROVE ObjInv'
    OBVIOUS
<1> USE DEF ObjInv, ObjTyped
<1>0. Len(ElfSections) = 3
      BY DEF ElfSections
<1>1. CASE TakeReloc
  <2>1. todo \in 1 .. 3 /\ UNCHANGED <<text_len, todo>>
        BY <1>0, <1>1 DEF TakeReloc
  <2> PICK s : s = ElfSections[todo]
      OBVIOUS
  <2>2. s \in {".text", ".rodata", ".data"} /\ (todo = 1 => s = ".text")
        BY <2>1 DEF ElfSections
  <2>3. PICK rel \in RelocsIn :
           /\ taken' = [taken EXCEPT ![s] = Append(@, rel)]
           /\ IF Convertible(rel) THEN process_reloc(rel) ELSE UNCHANGED <<ext_lists, sym_to_ext, srf_rels, sym_name>>
        BY <1>1 DEF TakeReloc
  <2>4. CASE Convertible(rel)
        BY <2>1, <2>3, <2>4, ObjInvConverts
  <2>5. CASE ~Convertible(rel)
    <3>1. ~Expressible(rel)
          BY <2>5, ElfToSrfAssumption DEF Convertible, Expressible
    <3>2. \A scn \in {"CODE", "DATA"} : Meant(scn)' = Meant(scn)
          BY <2>1, <2>3, <3>1, MeantGrows
    <3>3. taken' \in [{".text", ".rodata", ".data"} -> Seq(RelocsIn)]
      <4>1. Append(taken[s], rel) \in Seq(RelocsIn)
            BY <2>2
      <4> QED BY <2>2, <2>3, <4>1
    <3>4. (todo = 1 => taken[".rodata"] = <<>>)'
          BY <2>1, <2>2, <2>3
    <3>5. NoneREL21' => NoneREL21
          BY <2>2, <2>3, NoneBefore
    <3> QED BY <2>1, <2>3, <2>5, <3>2, <3>3, <3>4, <3>5, ObjInvRests
  <2> QED BY <2>4, <2>5
<1>2. CASE NextSection
  <2>1. UNCHANGED <<text_len, taken, sym_name, ext_lists, sym_to_ext, srf_rels>> /\ todo' \in 1 .. 4 /\ todo' # 1
        BY <1>0, <1>2 DEF NextSection
  <2>2. \A scn \in {"CODE", "DATA"} : Meant(scn)' = Meant(scn)
        BY <2>1 DEF Meant, ReadFor, ReadOf, ElfMeaning, Adjust
  <2>3. NoneREL21' => NoneREL21
        BY <2>1 DEF NoneREL21
  <2> QED BY <2>1, <2>2, <2>3, ObjInvRests
<1>3. CASE UNCHANGED objVars
  <2>1. UNCHANGED <<text_len, todo, taken, sym_name, ext_lists, sym_to_ext, srf_rels>>
        BY <1>3 DEF objVars
  <2>2. \A scn \in {"CODE", "DATA"} : Meant(scn)' = Meant(scn)
        BY <2>1 DEF Meant, ReadFor, ReadOf, ElfMeaning, Adjust
  <2>3. NoneREL21' => NoneREL21
        BY <2>1 DEF NoneREL21
  <2> QED BY <2>1, <2>2, <2>3, ObjInvRests
<1> QED BY <1>1, <1>2, <1>3 DEF ObjNext

\* The lists of externs and their maps fit each other, in every file.
THEOREM ObjInductive == ObjSpec => []ObjInv
BY ObjInvInit, ObjInvNext, PTL DEF ObjSpec

\* Every relocation that elf2srf keeps means in the srf file what it meant in the
\* ELF file: the same part of the same address, for the same word. Objects with a
\* REL21 are left out; theirs becomes a REL_AH.
THEOREM RelocationsMeanTheSame == ObjSpec => []SrfMeansElf
<1>1. ObjInv => SrfMeansElf
      BY DEF ObjInv
<1> QED BY <1>1, ObjInductive, PTL

-----------------------------------------------------------------------------
\* Without a remainder, the quotient makes the number.
LEMMA RemNone ==
    ASSUME NEW x \in Int, NEW w \in Nat \ {0}, x % w = 0
    PROVE  x \div w \in Int /\ x = w * (x \div w) + 0
BY Rem

\* A product of numbers that are not zero is one.
LEMMA Product == ASSUME NEW a \in Nat \ {0}, NEW b \in Nat \ {0} PROVE a * b \in Nat \ {0}
OBVIOUS

\* The fields of a number make it up.
LEMMA SplitMod ==
    ASSUME NEW v \in Int, NEW a \in Nat \ {0}, NEW b \in Nat \ {0}
    PROVE  v % (a * b) = ((v \div a) % b) * a + (v % a)
<1>1. PICK q \in Int, r \in 0 .. a - 1 : v = a * q + r /\ v \div a = q /\ v % a = r
      BY Rem
<1>2. PICK p \in Int, t \in 0 .. b - 1 : q = b * p + t /\ q % b = t
      BY Rem
<1>3. a * (b * p + t) = (a * b) * p + t * a /\ (a * b) * p \in Int /\ t * a \in Nat
      OBVIOUS
<1>4. v = (a * b) * p + (t * a + r)
      BY <1>1, <1>2, <1>3
<1>5. t * a + r \in 0 .. a * b - 1
  <2>1. t * a <= (b - 1) * a
        OBVIOUS
  <2>2. (b - 1) * a = a * b - a /\ a * b \in Nat
        OBVIOUS
  <2> QED BY <1>3, <2>1, <2>2
<1>6. v % (a * b) = t * a + r
      BY <1>4, <1>5, Product, Unique
<1> QED BY <1>1, <1>2, <1>6

\* What is small enough is its own remainder.
LEMMA SmallMod == ASSUME NEW w \in Nat \ {0}, NEW v \in 0 .. w - 1 PROVE v % w = v
<1>1. v = w * 0 + v /\ 0 \in Int /\ v \in Int
      OBVIOUS
<1> QED BY <1>1, Unique
\* A remainder is its own remainder.
LEMMA ModMod == ASSUME NEW w \in Nat \ {0}, NEW v \in Int PROVE (v % w) % w = v % w
BY Rem, SmallMod

\* A signed immediate is the number that its bits stand for.
LEMMA SignedBack ==
    ASSUME NEW v \in Int, NEW w \in Nat \ {0}, FitsSigned(v, w)
    PROVE  AsSigned(v, w) = v
<1>1. CASE v >= 0
  <2>1. v \in 0 .. w - 1
        BY <1>1 DEF FitsSigned
  <2>2. v % w = v
        BY <2>1, SmallMod
  <2> QED BY <2>2 DEF AsSigned, FitsSigned
<1>2. CASE v < 0
  <2>1. v + w \in 0 .. w - 1 /\ v = w * (-1) + (v + w) /\ -1 \in Int
        BY <1>2 DEF FitsSigned
  <2>2. v % w = v + w
        BY <2>1, Unique
  <2> QED BY <1>2, <2>2 DEF AsSigned, FitsSigned
<1> QED BY <1>1, <1>2
\* It has the same bits as the number they were taken from.
LEMMA SignedMod ==
    ASSUME NEW v \in Int, NEW w \in Nat \ {0}
    PROVE  AsSigned(v, w) \in Int /\ AsSigned(v, w) % w = v % w /\ AsSigned(v % w, w) = AsSigned(v, w)
<1> PICK m \in 0 .. w - 1 : m = v % w
    BY Rem
<1>1. m % w = m
      BY SmallMod
<1>2. (m - w) % w = m
  <2>1. m - w = w * (-1) + m /\ -1 \in Int /\ m - w \in Int
        OBVIOUS
  <2> QED BY <2>1, Unique
<1> QED BY <1>1, <1>2 DEF AsSigned

-----------------------------------------------------------------------------
\* The sizes of the immediates.
LEMMA Sizes ==
    /\ EXT \in Nat \ {0} /\ IMM \in Nat \ {0} /\ EXT * IMM \in Nat \ {0} /\ EXT * EXT \in Nat \ {0}
    /\ Word \in Nat \ {0} /\ Word = (EXT * IMM) * EXT /\ Word = (EXT * EXT) * IMM
<1>1. EXT \in Nat \ {0} /\ IMM \in Nat \ {0}
      BY Asm33convAssumption
<1>2. EXT * IMM \in Nat \ {0} /\ EXT * EXT \in Nat \ {0}
      BY <1>1, Product
<1>3. Word = (EXT * EXT) * IMM
      BY DEF Word
<1>4. (EXT * EXT) * IMM = (EXT * IMM) * EXT
      BY <1>1
<1> QED BY <1>1, <1>2, <1>3, <1>4, Product

\* The last of a sequence, and what is before it.
LEMMA LastBehind ==
    ASSUME NEW S, NEW s \in Seq(S), NEW i \in S
    PROVE  Last(s \o <<i>>) = i /\ Front(s \o <<i>>) = s
<1>1. s \o <<i>> \in Seq(S) /\ Len(s \o <<i>>) = Len(s) + 1 /\ (s \o <<i>>)[Len(s) + 1] = i
      OBVIOUS
<1>2. \A k \in 1 .. Len(s) : (s \o <<i>>)[k] = s[k]
      OBVIOUS
<1> PICK t : t = s \o <<i>>
    OBVIOUS
<1>3. SubSeq(t, 1, Len(s)) = s
      BY <1>1, <1>2
<1>4. Len(t) - 1 = Len(s)
      BY <1>1
<1> QED BY <1>1, <1>3, <1>4 DEF Last, Front

\* An instruction behind up to two exts.
LEMMA BehindExts ==
    ASSUME NEW ns, NEW i, \E x, y : ns = <<>> \/ ns = <<x>> \/ ns = <<x, y>>
    PROVE  Last(Exts(ns) \o <<i>>) = i /\ Front(Exts(ns) \o <<i>>) = Exts(ns)
<1> PICK x, y : ns = <<>> \/ ns = <<x>> \/ ns = <<x, y>>
    OBVIOUS
<1> PICK e, f : e = [op |-> "ext", n |-> x] /\ f = [op |-> "ext", n |-> y]
    OBVIOUS
<1>1. Exts(ns) = <<>> \/ Exts(ns) = <<e>> \/ Exts(ns) = <<e, f>>
      BY DEF Exts
<1> PICK S : S = {e, f, i}
    OBVIOUS
<1>2. <<>> \in Seq(S) /\ <<e>> \in Seq(S) /\ <<e, f>> \in Seq(S) /\ i \in S
      OBVIOUS
<1>3. Exts(ns) \in Seq(S)
      BY <1>1, <1>2
<1> QED BY <1>2, <1>3, LastBehind

\* What up to two exts make of an immediate.
LEMMA WidenedNone ==
    ASSUME NEW n \in Int, NEW size \in Nat \ {0}
    PROVE  Widened(<<>>, n, size) = n % size
<1>1. n % size \in Int /\ EXT \in Int
      BY Rem, Sizes
<1>2. [k \in DOMAIN <<>> |-> <<>>[k].n] = <<>>
      OBVIOUS
<1>3. Folded(EXT, <<>>) = 0
      BY <1>1, FoldedFew
<1>4. Widened(<<>>, n, size) = 0 * size + (n % size)
      BY <1>2, <1>3 DEF Widened
<1> QED BY <1>1, <1>4
\* One ext is in front of the instruction's own bits,
LEMMA WidenedOne ==
    ASSUME NEW a \in Int, NEW n, NEW size, NEW ns, ns = <<a>>
    PROVE  Widened(Exts(ns), n, size) = a * size + (n % size)
<1>1. [k \in DOMAIN Exts(ns) |-> Exts(ns)[k].n] = <<a>>
      BY DEF Exts
<1>2. Folded(EXT, <<a>>) = a
      BY Sizes, FoldedFew, EXT \in Int
<1> QED BY <1>1, <1>2 DEF Widened
\* and a first ext in front of those.
LEMMA WidenedTwo ==
    ASSUME NEW a \in Int, NEW b \in Int, NEW n, NEW size, NEW ns, ns = <<a, b>>
    PROVE  Widened(Exts(ns), n, size) = (a * EXT + b) * size + (n % size)
<1>1. [k \in DOMAIN Exts(ns) |-> Exts(ns)[k].n] = <<a, b>>
      BY DEF Exts
<1>2. Folded(EXT, <<a, b>>) = a * EXT + b
      BY Sizes, FoldedFew, EXT \in Int
<1> QED BY <1>1, <1>2 DEF Widened

-----------------------------------------------------------------------------
\* What the bits of a number make of it again.
LEMMA OneExtMakes ==
    ASSUME NEW v \in Int, NEW n \in Int, n % IMM = v % IMM
    PROVE  Widened(Exts(OneExt(v)), n, IMM) = v % (EXT * IMM)
<1>1. Field(v, IMM, EXT) \in Int
      BY Rem, Sizes DEF Field
<1>2. Widened(Exts(OneExt(v)), n, IMM) = Field(v, IMM, EXT) * IMM + (n % IMM)
      BY <1>1, WidenedOne DEF OneExt
<1>3. v % (IMM * EXT) = Field(v, IMM, EXT) * IMM + (v % IMM)
      BY Sizes, SplitMod DEF Field
<1>4. IMM * EXT = EXT * IMM
      BY Sizes
<1> QED BY <1>2, <1>3, <1>4

\* Two exts and the instruction's bits make up a word.
LEMMA TwoExtsMake ==
    ASSUME NEW v \in Int, NEW n \in Int, n % IMM = v % IMM
    PROVE  Widened(Exts(TwoExts(v)), n, IMM) = v % Word
<1> PICK a, b : a = Field(v, EXT * IMM, EXT) /\ b = Field(v, IMM, EXT)
    OBVIOUS
<1>1. a \in Int /\ b \in Int
      BY Rem, Sizes DEF Field
<1>8. TwoExts(v) = <<a, b>>
      BY DEF TwoExts
<1>2. Widened(Exts(TwoExts(v)), n, IMM) = (a * EXT + b) * IMM + (n % IMM)
      BY <1>1, <1>8, WidenedTwo
<1>3. v % (IMM * EXT) = b * IMM + (v % IMM)
      BY Sizes, SplitMod DEF Field
<1>4. v % ((EXT * IMM) * EXT) = a * (EXT * IMM) + (v % (EXT * IMM))
      BY Sizes, SplitMod DEF Field
<1>5. IMM * EXT = EXT * IMM /\ v % IMM \in Int
      BY Rem, Sizes
<1>6. v % Word = a * (EXT * IMM) + (b * IMM + (v % IMM))
      BY <1>3, <1>4, <1>5, Sizes
<1>7. (a * EXT + b) * IMM = a * (EXT * IMM) + b * IMM /\ a * (EXT * IMM) \in Int /\ b * IMM \in Int
      BY <1>1, Sizes
<1> QED BY <1>2, <1>8, <1>5, <1>6, <1>7

\* Two exts alone make up the bits that Halves takes apart.
LEMMA HalvesMake ==
    ASSUME NEW v \in Int
    PROVE  Widened(Exts(Halves(v)), 0, 1) = v % (EXT * EXT)
<1> PICK a, b : a = Field(v, EXT, EXT) /\ b = Field(v, 1, EXT)
    OBVIOUS
<1>1. a \in Int /\ b \in Int
      BY Rem, Sizes DEF Field
<1>2. v = 1 * v + 0 /\ 1 \in Nat \ {0} /\ 0 \in 0 .. 1 - 1 /\ 0 = 1 * 0 + 0
      OBVIOUS
<1>3. v \div 1 = v /\ 0 % 1 = 0
      BY <1>2, Unique
<1>8. Halves(v) = <<a, b>>
      BY DEF Halves
<1>4. Widened(Exts(Halves(v)), 0, 1) = (a * EXT + b) * 1 + (0 % 1)
      BY <1>1, <1>8, WidenedTwo
<1>5. v % (EXT * EXT) = a * EXT + (v % EXT)
      BY Sizes, SplitMod DEF Field
<1>6. b = v % EXT
      BY <1>3 DEF Field
<1>7. a * EXT \in Int
      BY <1>1, Sizes
<1> QED BY <1>1, <1>3, <1>4, <1>5, <1>6, <1>7, <1>8

\* The instructions is do what l says, between its register and a place from + by.
Does(is, l, from, by) ==
    Effect(is) = [op |-> l.op, store |-> l.store, rd |-> l.rd, from |-> from, by |-> by % Word]

\* One instruction behind up to two exts does what its operand says.
LEMMA DoesBehind ==
    ASSUME NEW ns, \E x, y : ns = <<>> \/ ns = <<x>> \/ ns = <<x, y>>, NEW kind, NEW l, NEW n, NEW from, NEW by,
           Operand(Exts(ns), Instruction(kind, l, n)) % Word = by % Word,
           from = IF kind \in {"sign6", "imm6"} THEN l.rd ELSE l.rs
    PROVE  Does(Exts(ns) \o Basic(kind, l, n), l, from, by)
<1> PICK i : i = Instruction(kind, l, n)
    OBVIOUS
<1>1. /\ Last(Exts(ns) \o <<i>>) = i /\ Front(Exts(ns) \o <<i>>) = Exts(ns)
      BY BehindExts
<1>2. i.op = l.op /\ i.store = l.store /\ i.rd = l.rd /\ i.rs = l.rs /\ i.kind = kind
      BY DEF Instruction
<1> QED BY <1>1, <1>2 DEF Does, Effect, Basic

\* So does an instruction alone.
LEMMA DoesAlone ==
    ASSUME NEW kind, NEW l, NEW n, NEW from, NEW by,
           Operand(<<>>, Instruction(kind, l, n)) % Word = by % Word,
           from = IF kind \in {"sign6", "imm6"} THEN l.rd ELSE l.rs
    PROVE  Does(Basic(kind, l, n), l, from, by)
<1> PICK i : i = Instruction(kind, l, n)
    OBVIOUS
<1>1. Exts(<<>>) = <<>> /\ <<>> \o <<i>> = <<i>>
      BY DEF Exts
<1>2. Does(Exts(<<>>) \o Basic(kind, l, n), l, from, by)
      BY <1>1, DoesBehind
<1> QED BY <1>1, <1>2 DEF Basic
-----------------------------------------------------------------------------
\* to_signed_32 keeps the value that the register gets.
LEMMA SameWord ==
    ASSUME NEW n \in Int
    PROVE  to_signed_32(n) \in Int /\ to_signed_32(n) % Word = n % Word
<1>1. CASE Word <= 2 * n /\ n < Word
  <2>1. n \in 0 .. Word - 1 /\ n - Word \in Int /\ n - Word = Word * (-1) + n /\ -1 \in Int
        BY <1>1, Sizes
  <2>2. (n - Word) % Word = n
        BY <2>1, Sizes, Unique
  <2>3. n % Word = n
        BY <2>1, Sizes, SmallMod
  <2> QED BY <1>1, <2>1, <2>2, <2>3 DEF to_signed_32
<1>2. CASE ~(Word <= 2 * n /\ n < Word)
      BY <1>2 DEF to_signed_32
<1> QED BY <1>1, <1>2

\* A signed immediate with the exts that ImmExts chooses, and with none.
LEMMA SignedDoes ==
    ASSUME NEW l, l.n \in Int
    PROVE  Does(SignedImm(l), l, l.rd, l.n)
<1> PICK v \in Int : v = to_signed_32(l.n) /\ v % Word = l.n % Word
    BY SameWord
<1>1. CASE FitsSigned(v, IMM)
  <2> PICK i : i = Instruction("sign6", l, v)
      OBVIOUS
  <2>1. i.kind = "sign6" /\ i.n = v /\ Values(<<>>, IMM) = IMM
        BY DEF Instruction, Values
  <2>2. Operand(<<>>, i) = AsSigned(v % IMM, IMM)
        BY <2>1, Sizes, WidenedNone DEF Operand
  <2>3. Operand(<<>>, i) = v
        BY <1>1, <2>2, Sizes, SignedMod, SignedBack
  <2>4. Does(Basic("sign6", l, v), l, l.rd, l.n)
        BY <2>3, DoesAlone
  <2> QED BY <1>1, <2>4 DEF SignedImm
<1>2. CASE ~FitsSigned(v, IMM)
  <2> PICK n : n = sign6(v)
      OBVIOUS
  <2>1. n \in Int /\ n % IMM = v % IMM
        BY Sizes, SignedMod DEF sign6
  <2> PICK i : i = Instruction("sign6", l, n)
      OBVIOUS
  <2>2. i.kind = "sign6" /\ i.n = n
        BY DEF Instruction
  <2>3. \A ns : Operand(Exts(ns), i) = AsSigned(Widened(Exts(ns), n, IMM), Values(Exts(ns), IMM))
        BY <2>2 DEF Operand
  <2>4. CASE FitsSigned(v, EXT * IMM)
    <3> PICK ns : ns = OneExt(v)
        OBVIOUS
    <3>1. \E x : ns = <<x>>
          BY DEF OneExt
    <3>2. Values(Exts(ns), IMM) = EXT * IMM
          BY <3>1 DEF Values, Exts
    <3>3. Operand(Exts(ns), i) = AsSigned(v % (EXT * IMM), EXT * IMM)
          BY <2>1, <2>3, <3>2, OneExtMakes
    <3>4. Operand(Exts(ns), i) = v
          BY <2>4, <3>3, Sizes, SignedMod, SignedBack
    <3>5. Does(Exts(ns) \o Basic("sign6", l, n), l, l.rd, l.n)
          BY <3>1, <3>4, DoesBehind
    <3> QED BY <1>2, <2>4, <3>5 DEF SignedImm, ImmExts
  <2>5. CASE ~FitsSigned(v, EXT * IMM)
    <3> PICK ns : ns = TwoExts(v)
        OBVIOUS
    <3>1. \E x, y : ns = <<x, y>>
          BY DEF TwoExts
    <3>2. Values(Exts(ns), IMM) = Word
          BY <3>1 DEF Values, Exts, Word
    <3>3. Operand(Exts(ns), i) = AsSigned(v % Word, Word)
          BY <2>1, <2>3, <3>2, TwoExtsMake
    <3>4. Operand(Exts(ns), i) % Word = v % Word
          BY <3>3, Sizes, SignedMod
    <3>5. Does(Exts(ns) \o Basic("sign6", l, n), l, l.rd, l.n)
          BY <3>1, <3>4, DoesBehind
    <3> QED BY <1>2, <2>5, <3>5 DEF SignedImm, ImmExts
  <2> QED BY <2>4, <2>5
<1> QED BY <1>1, <1>2

\* An unsigned immediate.
LEMMA UnsignedDoes ==
    ASSUME NEW l, l.n \in Int
    PROVE  UnsignedImm(l) = Raise \/ Does(UnsignedImm(l), l, l.rd, l.n)
<1> SUFFICES ASSUME l.n >= 0 PROVE Does(UnsignedImm(l), l, l.rd, l.n)
    BY DEF UnsignedImm
<1> PICK v \in Nat : v = l.n
    OBVIOUS
<1>1. CASE v < IMM
  <2> PICK i : i = Instruction("imm6", l, v)
      OBVIOUS
  <2>1. i.kind = "imm6" /\ i.n = v
        BY DEF Instruction
  <2>2. Operand(<<>>, i) = v % IMM
        BY <2>1, Sizes, WidenedNone DEF Operand
  <2>3. v % IMM = v
        BY <1>1, Sizes, SmallMod
  <2>4. Does(Basic("imm6", l, v), l, l.rd, l.n)
        BY <2>2, <2>3, DoesAlone
  <2> QED BY <1>1, <2>4 DEF UnsignedImm
<1>2. CASE v >= IMM
  <2> PICK n : n = v % IMM
      OBVIOUS
  <2>1. n \in Int /\ n % IMM = v % IMM
    <3>1. n \in Int
          BY Sizes, Rem
    <3>2. (v % IMM) % IMM = v % IMM
          BY Sizes, ModMod
    <3> QED BY <3>1, <3>2
  <2> PICK i : i = Instruction("imm6", l, n)
      OBVIOUS
  <2>2. i.kind = "imm6" /\ i.n = n
        BY DEF Instruction
  <2>3. \A ns : Operand(Exts(ns), i) = Widened(Exts(ns), n, IMM)
        BY <2>2 DEF Operand
  <2>4. CASE v < EXT * IMM
    <3> PICK ns : ns = OneExt(v)
        OBVIOUS
    <3>1. \E x : ns = <<x>>
          BY DEF OneExt
    <3>2. Operand(Exts(ns), i) = v % (EXT * IMM)
          BY <2>1, <2>3, OneExtMakes
    <3>3. v % (EXT * IMM) = v
          BY <2>4, Sizes, SmallMod
    <3>4. Does(Exts(ns) \o Basic("imm6", l, n), l, l.rd, l.n)
          BY <3>1, <3>2, <3>3, DoesBehind
    <3> QED BY <1>2, <2>4, <3>4, Sizes DEF UnsignedImm
  <2>5. CASE ~(v < EXT * IMM)
    <3> PICK ns : ns = TwoExts(v)
        OBVIOUS
    <3>1. \E x, y : ns = <<x, y>>
          BY DEF TwoExts
    <3>2. Operand(Exts(ns), i) = v % Word
          BY <2>1, <2>3, TwoExtsMake
    <3>3. Operand(Exts(ns), i) % Word = v % Word
          BY <3>2, Sizes, ModMod
    <3>4. Does(Exts(ns) \o Basic("imm6", l, n), l, l.rd, l.n)
          BY <3>1, <3>3, DoesBehind
    <3> QED BY <1>2, <2>5, <3>4, Sizes DEF UnsignedImm
  <2> QED BY <2>4, <2>5
<1> QED BY <1>1, <1>2, Sizes

\* An immediate that the exts alone hold: no ext, one or two.
LEMMA ExtsAlone ==
    ASSUME NEW v \in 0 .. EXT * EXT - 1, NEW ns, NEW kind \in {"class1", "indirect"}, NEW l, NEW by,
           \/ v = 0 /\ ns = <<>>
           \/ v < EXT /\ ns = <<v>>
           \/ ns = Halves(v),
           v % Word = by % Word
    PROVE  Does(Exts(ns) \o Basic(kind, l, 0), l, l.rs, by)
<1>1. 1 \in Nat \ {0} /\ 0 \in 0 .. 1 - 1 /\ 0 = 1 * 0 + 0 /\ 0 \in Int /\ v \in Int
      BY Sizes
<1>2. 0 % 1 = 0
      BY <1>1, Unique
<1>3. \E x, y : ns = <<>> \/ ns = <<x>> \/ ns = <<x, y>>
      BY DEF Halves
<1>4. Widened(Exts(ns), 0, 1) = v
  <2>1. CASE v = 0 /\ ns = <<>>
    <3>1. Exts(ns) = <<>>
          BY <2>1 DEF Exts
    <3> QED BY <1>1, <1>2, <2>1, <3>1, WidenedNone
  <2>2. CASE ns = <<v>>
    <3>1. Widened(Exts(ns), 0, 1) = v * 1 + (0 % 1)
          BY <1>1, <2>2, WidenedOne
    <3> QED BY <1>1, <1>2, <3>1
  <2>3. CASE ns = Halves(v)
    <3>1. Widened(Exts(ns), 0, 1) = v % (EXT * EXT)
          BY <1>1, <2>3, HalvesMake
    <3> QED BY <3>1, Sizes, SmallMod
  <2> QED BY <2>1, <2>2, <2>3
<1> PICK i : i = Instruction(kind, l, 0)
    OBVIOUS
<1>5. Operand(Exts(ns), i) = Widened(Exts(ns), 0, 1)
  <2>1. i.kind = kind
        BY DEF Instruction
  <2> QED BY <2>1 DEF Operand
<1> QED BY <1>3, <1>4, <1>5, DoesBehind

\* An immediate in the place of %rs.
LEMMA ThreeDoes ==
    ASSUME NEW l, l.n \in Int
    PROVE  ThreeOperands(l) = Raise \/ Does(ThreeOperands(l), l, l.rs, l.n)
<1> PICK v \in Int : v = (IF l.op \in {"and", "or"} THEN to_signed_32(l.n) ELSE l.n) /\ v % Word = l.n % Word
    BY SameWord
<1> PICK ns : ns = IF v < EXT THEN <<v>> ELSE Halves(v)
    OBVIOUS
<1>1. CASE v < 0 \/ v >= EXT * EXT
      BY <1>1 DEF ThreeOperands
<1>2. CASE ~(v < 0 \/ v >= EXT * EXT)
  <2>1. v \in 0 .. EXT * EXT - 1
        BY <1>2, Sizes
  <2>2. Does(Exts(ns) \o Basic("class1", l, 0), l, l.rs, l.n)
        BY <2>1, ExtsAlone
  <2> QED BY <1>2, <2>2 DEF ThreeOperands
<1> QED BY <1>1, <1>2

\* A factor is as small as the product is.
LEMMA FactorBelow ==
    ASSUME NEW f \in Nat \ {0}, NEW u \in Nat \ {0}, NEW q \in Int, NEW m \in Int, m = u * q,
           0 <= m, m < f * u
    PROVE  0 <= q /\ q < f
<1>1. CASE q < 0
  <2> PICK d \in Nat : q = -1 - d
      BY <1>1
  <2>1. u * d \in Nat /\ m = -u - u * d
        OBVIOUS
  <2> QED BY <2>1
<1>2. CASE q >= f
  <2> PICK d \in Nat : q = f + d
      BY <1>2
  <2> PICK x \in Int : x = f * u
      OBVIOUS
  <2> PICK y \in Nat : y = u * d
      OBVIOUS
  <2>1. m = x + y
        OBVIOUS
  <2>2. m < x
        OBVIOUS
  <2> QED BY <2>1, <2>2
<1> QED BY <1>1, <1>2

\* A number of words, or of the access's units, from %sp.
LEMMA StackDoes ==
    ASSUME NEW l, NEW field \in Nat \ {0}, field = SpField(l.op), NEW unit \in Nat \ {0}, unit = SpUnit(l.op),
           l.n \in 0 .. field * unit - 1, l.n % unit = 0
    PROVE  Does(Basic("sp", l, l.n \div unit), l, l.rs, l.n)
<1> PICK i : i = Instruction("sp", l, l.n \div unit)
    OBVIOUS
<1>1. i.kind = "sp" /\ i.op = l.op /\ i.n = l.n \div unit
      BY DEF Instruction
<1> PICK m \in Int : m = l.n /\ 0 <= m /\ m < field * unit
  <2>1. field * unit \in Int
        OBVIOUS
  <2> QED BY <2>1
<1>2. l.n \div unit \in Int /\ l.n = unit * (l.n \div unit) + 0
      BY RemNone
<1>5. (l.n \div unit) % field = l.n \div unit
  <2> PICK q \in Int : q = l.n \div unit
      BY <1>2
  <2>1. m = unit * q
        BY <1>2
  <2>2. 0 <= q /\ q < field
        BY <2>1, FactorBelow
  <2> QED BY <2>2
<1>3. Operand(<<>>, i) = (l.n \div unit) * unit
      BY <1>1, <1>5 DEF Operand
<1>4. Operand(<<>>, i) = l.n
      BY <1>2, <1>3
<1> QED BY <1>4, DoesAlone

\* expand_xalu_3op.
LEMMA AluDoes ==
    ASSUME NEW l, l.n \in Int, l.op \in {"add", "sub", "and", "or"},
           l.rd = "sp" /\ l.rs = "sp" => l.n \in 0 .. SPIMM * 4 - 1
    PROVE  expand_xalu_3op(l) = Raise \/ Does(expand_xalu_3op(l), l, l.rs, l.n)
<1>1. CASE l.rd = "sp" /\ l.rs = "sp"
  <2>1. CASE l.op \in {"and", "or"} \/ l.n % 4 # 0
        BY <1>1, <2>1 DEF expand_xalu_3op, StackImm
  <2>2. CASE ~(l.op \in {"and", "or"} \/ l.n % 4 # 0)
    <3>1. SpUnit(l.op) = 4 /\ 4 \in Nat \ {0} /\ SpField(l.op) = SPIMM /\ SPIMM \in Nat \ {0}
          BY <2>2, Asm33convAssumption DEF SpUnit, SpField
    <3>2. Does(Basic("sp", l, l.n \div 4), l, l.rs, l.n)
          BY <1>1, <2>2, <3>1, StackDoes
    <3> QED BY <1>1, <2>2, <3>2 DEF expand_xalu_3op, StackImm
  <2> QED BY <2>1, <2>2
<1>2. CASE l.rd # l.rs
      BY <1>2, ThreeDoes DEF expand_xalu_3op
<1>3. CASE l.rd = l.rs /\ ~(l.rd = "sp" /\ l.rs = "sp")
      BY <1>3, SignedDoes, UnsignedDoes DEF expand_xalu_3op
<1> QED BY <1>1, <1>2, <1>3

\* The converter's unit is the instruction's.
LEMMA SpUnits ==
    ASSUME NEW op \in {"ld.w", "ld.h", "ld.uh", "ld.b", "ld.ub"}
    PROVE  SpUnit(op) \in Nat \ {0} /\ SpUnit(op) = SP_SCALE_FOR_LD[op]
BY DEF SpUnit, SP_SCALE_FOR_LD

\* expand_xld_mem, but for the offsets from a register that are left out.
LEMMA MemDoes ==
    ASSUME NEW l, l.n \in Int, l.op \in {"ld.w", "ld.h", "ld.uh", "ld.b", "ld.ub"},
           l.rs # "sp" => l.n \in 0 .. EXT * EXT - 1,
           l.rs = "sp" => l.n \in 0 .. IMM * SpUnit(l.op) - 1
    PROVE  expand_xld_mem(l) = Raise \/ Does(expand_xld_mem(l), l, l.rs, l.n)
<1>1. CASE l.rs = "sp"
  <2> PICK unit \in Nat \ {0} : unit = SpUnit(l.op) /\ unit = SP_SCALE_FOR_LD[l.op]
      BY SpUnits
  <2>1. CASE l.n % unit # 0
        BY <1>1, <2>1 DEF expand_xld_mem, sp_offset
  <2>2. CASE l.n % unit = 0
    <3>2. SpField(l.op) = IMM /\ IMM \in Nat \ {0} /\ l.n \in 0 .. IMM * unit - 1
          BY <1>1, Asm33convAssumption DEF SpField
    <3>1. Does(Basic("sp", l, l.n \div unit), l, l.rs, l.n)
          BY <2>2, <3>2, StackDoes
    <3> QED BY <1>1, <2>2, <3>1 DEF expand_xld_mem, sp_offset
  <2> QED BY <2>1, <2>2
<1>2. CASE l.rs # "sp"
  <2> PICK v \in 0 .. EXT * EXT - 1 : v = l.n
      BY <1>2
  <2> PICK ns : ns = ext_lines(v)
      OBVIOUS
  <2>1. (v = 0 /\ ns = <<>>) \/ (v < EXT /\ ns = <<v>>) \/ ns = Halves(v)
    <3>1. CASE v = 0
          BY <3>1 DEF ext_lines
    <3>2. CASE v # 0 /\ FitsSigned(v, EXT)
      <4>1. v \in 0 .. EXT - 1 /\ v \in Int /\ v = 1 * v + 0 /\ 1 \in Nat \ {0} /\ 0 \in 0 .. 1 - 1
            BY <3>2, Sizes DEF FitsSigned
      <4>2. v \div 1 = v
            BY <4>1, Unique
      <4>3. Field(v, 1, EXT) = v
            BY <4>1, <4>2, Sizes, SmallMod DEF Field
      <4>4. ext_lines(v) = <<Field(v, 1, EXT)>>
            BY <3>2 DEF ext_lines
      <4>5. ns = <<v>> /\ v < EXT
            BY <4>1, <4>3, <4>4, Sizes
      <4> QED BY <4>5
    <3>3. CASE v # 0 /\ ~FitsSigned(v, EXT)
          BY <3>3 DEF ext_lines
    <3> QED BY <3>1, <3>2, <3>3
  <2>2. Does(Exts(ns) \o Basic("indirect", l, 0), l, l.rs, l.n)
        BY <2>1, ExtsAlone
  <2> QED BY <1>2, <2>2 DEF expand_xld_mem
<1> QED BY <1>1, <1>2

\* expand_xld_label.
LEMMA LabelDoes ==
    ASSUME NEW l, l.n \in 0 .. EXT * EXT - 1
    PROVE  Does(expand_xld_label(l), l, l.rs, l.n)
BY ExtsAlone DEF expand_xld_label

-----------------------------------------------------------------------------
\* What is left behind k - 1 parts of w.
LEMMA LastPart ==
    ASSUME NEW n \in Int, NEW w \in Nat \ {0}, NEW k \in Int, n - (k - 1) * w \in 0 .. w - 1
    PROVE  n % w = n - (k - 1) * w
<1> PICK q \in Int, rest \in 0 .. w - 1 : q = k - 1 /\ rest = n - q * w
    OBVIOUS
<1>1. n = w * q + rest
      OBVIOUS
<1>2. n % w = rest
      BY <1>1, Unique
<1> QED BY <1>2

\* Division that rounds up.
LEMMA RoundedUp ==
    ASSUME NEW n \in Nat, NEW w \in Nat \ {0}
    PROVE  LET q == (n + w - 1) \div w IN q \in Nat /\ q * w >= n /\ q * w <= n + w - 1
<1> PICK x \in Nat : x = n + w - 1
    OBVIOUS
<1>1. x % w \in 0 .. w - 1 /\ x = w * (x \div w) + (x % w) /\ x \div w \in Int
      BY Rem
<1> PICK q \in Int, r \in 0 .. w - 1 : q = x \div w /\ x = w * q + r
    BY <1>1
<1>2. w * q = q * w /\ q * w \in Int
      OBVIOUS
<1>3. q * w >= n /\ q * w <= n + w - 1
      BY <1>2
<1>4. q >= 0
  <2>1. q <= -1 => q * w <= -w
        OBVIOUS
  <2> QED BY <1>3, <2>1
<1> QED BY <1>3, <1>4

\* The steps of a shift add up to its amount, and each is one the CPU has.
ShiftsBy(is, n) == Shifted(is) = n /\ \A k \in DOMAIN is : is[k].n \in 1 .. SHIFT

\* The steps that expand_xshift emits are these.
LEMMA ShiftDoes ==
    ASSUME NEW l, l.n \in Int
    PROVE  expand_xshift(l) = Raise \/ ShiftsBy(expand_xshift(l), l.n)
<1> SUFFICES ASSUME l.n >= 0 PROVE ShiftsBy(expand_xshift(l), l.n)
    BY DEF expand_xshift
<1> PICK n \in Nat : n = l.n
    OBVIOUS
<1> PICK w \in Nat \ {0} : w = SHIFT
    BY Asm33convAssumption
<1> PICK steps : steps = (n + w - 1) \div w
    OBVIOUS
<1>1. steps \in Nat /\ steps * w >= n /\ steps * w <= n + w - 1
      BY RoundedUp
<1> DEFINE At(k) == IF k * w <= n THEN w ELSE n % w
<1> DEFINE s == [k \in 1 .. steps |-> At(k)]
<1>2. \A k \in 1 .. steps :
        \/ k * w <= n
        \/ k = steps /\ k * w > n /\ At(k) = n - (k - 1) * w /\ At(k) \in 1 .. w
  <2> SUFFICES ASSUME NEW k \in 1 .. steps, k * w > n
               PROVE  k = steps /\ At(k) = n - (k - 1) * w /\ At(k) \in 1 .. w
      BY <1>1
  <2>1. k = steps
    <3>1. k < steps => k * w <= (steps - 1) * w
          BY <1>1
    <3>2. (steps - 1) * w = steps * w - w
          BY <1>1
    <3> QED BY <1>1, <3>1, <3>2
  <2>2. (k - 1) * w = k * w - w /\ k * w <= n + w - 1 /\ k - 1 \in Int /\ (k - 1) * w = w * (k - 1)
        BY <1>1, <2>1
  <2>3. n - (k - 1) * w \in 1 .. w - 1 /\ n - (k - 1) * w \in 0 .. w - 1
        BY <2>2
  <2>5. n % w = n - (k - 1) * w
    <3>1. k \in Int /\ n \in Int /\ n - (k - 1) * w \in 0 .. w - 1
          BY <1>1, <2>3
    <3>2. \A j \in Int : n - (j - 1) * w \in 0 .. w - 1 => n % w = n - (j - 1) * w
          BY LastPart
    <3> QED BY <3>1, <3>2
  <2> QED BY <2>1, <2>3, <2>5
<1>3. \A k \in 1 .. steps : At(k) \in 1 .. w
      BY <1>2
<1>4. /\ DOMAIN expand_xshift(l) = 1 .. steps
      /\ \A k \in 1 .. steps : expand_xshift(l)[k].n = At(k)
      BY DEF expand_xshift, Instruction
<1>5. [k \in DOMAIN expand_xshift(l) |-> expand_xshift(l)[k].n] = s
      BY <1>4
<1>6. Len(s) = steps /\ \A k \in 1 .. steps : s[k] = At(k)
  <2>1. s \in [1 .. steps -> Int]
        BY <1>3
  <2> QED BY <1>1, <2>1
<1>7. PICK f : FoldsTo(f, 1, s, Len(s)) /\ Folded(1, s) = f[Len(s)]
  <2> HIDE DEF s
  <2> QED BY <1>1, <1>6, FoldedIs
<1>8. f[0] = 0 /\ \A k \in 1 .. steps : f[k] = f[k - 1] * 1 + At(k)
  <2> HIDE DEF s, At
  <2> QED BY <1>6, <1>7 DEF FoldsTo
<1> DEFINE T == {k \in Nat : k <= steps => f[k] = IF k * w <= n THEN k * w ELSE n}
<1>9. 0 \in T
      BY <1>8
<1>10. ASSUME NEW k \in Nat, k \in T PROVE k + 1 \in T
  <2> SUFFICES ASSUME k + 1 <= steps
               PROVE  f[k + 1] = IF (k + 1) * w <= n THEN (k + 1) * w ELSE n
      OBVIOUS
  <2>1. k + 1 \in 1 .. steps /\ (k + 1) - 1 = k /\ (k + 1) * w = k * w + w
        BY <1>1
  <2>2. k * w <= n
    <3>1. k # steps /\ (k = 0 \/ k \in 1 .. steps) /\ 0 * w <= n
          BY <1>1, <2>1
    <3> QED BY <1>2, <3>1
  <2>3. f[k] = k * w
        BY <1>10, <2>1, <2>2
  <2>4. f[k + 1] = f[k] * 1 + At(k + 1)
        BY <1>8, <2>1
  <2>5. CASE (k + 1) * w <= n
        BY <2>1, <2>3, <2>4, <2>5
  <2>6. CASE ~((k + 1) * w <= n)
    <3>1. At(k + 1) = n - k * w
          BY <1>2, <2>1, <2>6
    <3> HIDE DEF At
    <3> QED BY <2>3, <2>4, <2>6, <3>1
  <2> QED BY <2>5, <2>6
<1>11. steps \in T
  <2>1. Nat \subseteq T
    <3> HIDE DEF T
    <3> QED BY <1>9, <1>10, SetInduction
  <2> HIDE DEF T
  <2> QED BY <1>1, <2>1
<1>12. f[steps] = n
      BY <1>1, <1>11
<1>13. Shifted(expand_xshift(l)) = n
  <2> HIDE DEF s
  <2> QED BY <1>5, <1>6, <1>7, <1>12 DEF Shifted
<1> HIDE DEF At, s, T
<1> QED BY <1>3, <1>4, <1>13 DEF ShiftsBy

-----------------------------------------------------------------------------
\* What the patterns ask of the mnemonic and of the first two operands.
LEMMA Asks ==
    ASSUME NEW l
    PROVE  /\ XLD_IMM(l) => l.mn = "xld.w" /\ Forms(l)[1] = "reg" /\ Forms(l)[2] = "imm"
           /\ XLD_LOAD(l) => l.mn \in DOMAIN XLD_TO_LD /\ Forms(l)[1] = "reg" /\ Forms(l)[2] \in {"mem", "mem_sym"}
           /\ XLD_STORE(l) => l.mn \in DOMAIN XLD_TO_LD /\ Forms(l)[1] \in {"mem", "mem_sym"} /\ Forms(l)[2] = "reg"
           /\ XLD_LOAD_LABEL(l) => l.mn \in DOMAIN XLD_TO_LD /\ Forms(l)[1] = "reg" /\ Forms(l)[2] = "label"
           /\ XLD_STORE_LABEL(l) => l.mn \in DOMAIN XLD_TO_LD /\ Forms(l)[1] = "label" /\ Forms(l)[2] = "reg"
           /\ XSHIFT(l) => l.mn \in DOMAIN XSHIFT_TO_LLVM /\ Forms(l)[2] = "imm"
           /\ XSHIFT_RR(l) => l.mn \in DOMAIN XSHIFT_TO_LLVM /\ Forms(l)[2] = "reg"
           /\ XALU_3OP(l) => l.mn \in DOMAIN XALU_TO_LLVM
           /\ XCMP(l) => l.mn = "xcmp"
<1>1. XLD_IMM(l) => l.mn = "xld.w" /\ Forms(l)[1] = "reg" /\ Forms(l)[2] = "imm"
      BY DEF XLD_IMM, Is
<1>2. XLD_LOAD(l) => l.mn \in DOMAIN XLD_TO_LD /\ Forms(l)[1] = "reg" /\ Forms(l)[2] \in {"mem", "mem_sym"}
  <2> PICK f : f = Forms(l)
      OBVIOUS
  <2>1. f = <<"reg", "mem">> => f[1] = "reg" /\ f[2] = "mem"
        OBVIOUS
  <2>2. f = <<"reg", "mem_sym">> => f[1] = "reg" /\ f[2] = "mem_sym"
        OBVIOUS
  <2>3. XLD_LOAD(l) => l.mn \in DOMAIN XLD_TO_LD /\ (f = <<"reg", "mem">> \/ f = <<"reg", "mem_sym">>)
        BY DEF XLD_LOAD, Is
  <2> QED BY <2>1, <2>2, <2>3
<1>3. XLD_STORE(l) => l.mn \in DOMAIN XLD_TO_LD /\ Forms(l)[1] \in {"mem", "mem_sym"} /\ Forms(l)[2] = "reg"
  <2> PICK f : f = Forms(l)
      OBVIOUS
  <2>1. f = <<"mem", "reg">> => f[1] = "mem" /\ f[2] = "reg"
        OBVIOUS
  <2>2. f = <<"mem_sym", "reg">> => f[1] = "mem_sym" /\ f[2] = "reg"
        OBVIOUS
  <2>3. XLD_STORE(l) => l.mn \in DOMAIN XLD_TO_LD /\ (f = <<"mem", "reg">> \/ f = <<"mem_sym", "reg">>)
        BY DEF XLD_STORE, Is
  <2> QED BY <2>1, <2>2, <2>3
<1>4. XLD_LOAD_LABEL(l) => l.mn \in DOMAIN XLD_TO_LD /\ Forms(l)[1] = "reg" /\ Forms(l)[2] = "label"
      BY DEF XLD_LOAD_LABEL, Is
<1>5. XLD_STORE_LABEL(l) => l.mn \in DOMAIN XLD_TO_LD /\ Forms(l)[1] = "label" /\ Forms(l)[2] = "reg"
      BY DEF XLD_STORE_LABEL, Is
<1>6. XSHIFT(l) => l.mn \in DOMAIN XSHIFT_TO_LLVM /\ Forms(l)[2] = "imm"
      BY DEF XSHIFT, Is
<1>7. XSHIFT_RR(l) => l.mn \in DOMAIN XSHIFT_TO_LLVM /\ Forms(l)[2] = "reg"
      BY DEF XSHIFT_RR, Is
<1>8. (XALU_3OP(l) => l.mn \in DOMAIN XALU_TO_LLVM) /\ (XCMP(l) => l.mn = "xcmp")
      BY DEF XALU_3OP, XCMP, Is
<1> QED BY <1>1, <1>2, <1>3, <1>4, <1>5, <1>6, <1>7, <1>8

\* The patterns that go by the mnemonic alone.
Other(l) == l.mn = ".endfile" \/ l.mn \in DOMAIN DIRECTIVE_MAP \/ COMM(l) \/ l.mn \in DOMAIN XBRANCH
\* What matches a pattern matches none of the others.
LEMMA Apart ==
    ASSUME NEW l
    PROVE  /\ XLD_IMM(l) => ~Other(l) /\ ~XLD_LOAD(l) /\ ~XLD_STORE(l) /\ ~XLD_LOAD_LABEL(l) /\
                 ~XLD_STORE_LABEL(l) /\ ~XSHIFT(l) /\ ~XSHIFT_RR(l) /\ ~XALU_3OP(l) /\ ~XCMP(l)
           /\ XLD_LOAD(l) => ~Other(l) /\ ~XLD_IMM(l) /\ ~XLD_STORE(l) /\ ~XLD_LOAD_LABEL(l) /\
                 ~XLD_STORE_LABEL(l) /\ ~XSHIFT(l) /\ ~XSHIFT_RR(l) /\ ~XALU_3OP(l) /\ ~XCMP(l)
           /\ XLD_STORE(l) => ~Other(l) /\ ~XLD_IMM(l) /\ ~XLD_LOAD(l) /\ ~XLD_LOAD_LABEL(l) /\
                 ~XLD_STORE_LABEL(l) /\ ~XSHIFT(l) /\ ~XSHIFT_RR(l) /\ ~XALU_3OP(l) /\ ~XCMP(l)
           /\ XLD_LOAD_LABEL(l) => ~Other(l) /\ ~XLD_IMM(l) /\ ~XLD_LOAD(l) /\ ~XLD_STORE(l) /\
                 ~XLD_STORE_LABEL(l) /\ ~XSHIFT(l) /\ ~XSHIFT_RR(l) /\ ~XALU_3OP(l) /\ ~XCMP(l)
           /\ XLD_STORE_LABEL(l) => ~Other(l) /\ ~XLD_IMM(l) /\ ~XLD_LOAD(l) /\ ~XLD_STORE(l) /\
                 ~XLD_LOAD_LABEL(l) /\ ~XSHIFT(l) /\ ~XSHIFT_RR(l) /\ ~XALU_3OP(l) /\ ~XCMP(l)
           /\ XSHIFT(l) => ~Other(l) /\ ~XLD_IMM(l) /\ ~XLD_LOAD(l) /\ ~XLD_STORE(l) /\ ~XLD_LOAD_LABEL(l) /\
                 ~XLD_STORE_LABEL(l) /\ ~XSHIFT_RR(l) /\ ~XALU_3OP(l) /\ ~XCMP(l)
           /\ XALU_3OP(l) => ~Other(l) /\ ~XLD_IMM(l) /\ ~XLD_LOAD(l) /\ ~XLD_STORE(l) /\
                 ~XLD_LOAD_LABEL(l) /\ ~XLD_STORE_LABEL(l) /\ ~XSHIFT(l) /\ ~XSHIFT_RR(l) /\ ~XCMP(l)
           /\ XCMP(l) => ~Other(l) /\ ~XLD_IMM(l) /\ ~XLD_LOAD(l) /\ ~XLD_STORE(l) /\ ~XLD_LOAD_LABEL(l) /\
                 ~XLD_STORE_LABEL(l) /\ ~XSHIFT(l) /\ ~XSHIFT_RR(l) /\ ~XALU_3OP(l)
<1>1. Other(l) => l.mn \in {".endfile", ".code", ".half", ".word", ".comm", ".lcomm",
                            "xjp", "xjp.d", "xjreq", "xjreq.d", "xjrult", "xcall"}
      BY DEF Other, COMM, Is, DIRECTIVE_MAP, XBRANCH
<1>2. /\ DOMAIN XLD_TO_LD = {"xld.w", "xld.h", "xld.uh", "xld.b", "xld.ub"}
      /\ DOMAIN XSHIFT_TO_LLVM = {"xsrl", "xsra", "xsla", "xsll"}
      /\ DOMAIN XALU_TO_LLVM = {"xadd", "xsub", "xand", "xoor"}
      BY DEF XLD_TO_LD, XSHIFT_TO_LLVM, XALU_TO_LLVM
<1>3. CASE XLD_IMM(l)
      BY <1>1, <1>2, <1>3, Asks
<1>4. CASE XLD_LOAD(l)
      BY <1>1, <1>2, <1>4, Asks
<1>5. CASE XLD_STORE(l)
      BY <1>1, <1>2, <1>5, Asks
<1>6. CASE XLD_LOAD_LABEL(l)
      BY <1>1, <1>2, <1>6, Asks
<1>7. CASE XLD_STORE_LABEL(l)
      BY <1>1, <1>2, <1>7, Asks
<1>8. CASE XSHIFT(l)
      BY <1>1, <1>2, <1>8, Asks
<1>9. CASE XALU_3OP(l)
      BY <1>1, <1>2, <1>9, Asks
<1>10. CASE XCMP(l)
      BY <1>1, <1>2, <1>10, Asks
<1> QED BY <1>3, <1>4, <1>5, <1>6, <1>7, <1>8, <1>9, <1>10

\* Which expansion a line gets.
LEMMA Takes ==
    ASSUME NEW l
    PROVE  /\ XLD_IMM(l) => translate_line(l) = SignedImm(OnRegister(l, "ld.w", 1, 2))
           /\ XLD_LOAD(l) => translate_line(l) = (IF l.args[2].is = "mem_sym" THEN Raise ELSE expand_xld_mem(Access(l, 2, 1)))
           /\ XLD_STORE(l) => translate_line(l) = (IF l.args[1].is = "mem_sym" THEN Raise ELSE expand_xld_mem(Access(l, 1, 2)))
           /\ XLD_LOAD_LABEL(l) => translate_line(l) = expand_xld_label(Access(l, 2, 1))
           /\ XLD_STORE_LABEL(l) => translate_line(l) = expand_xld_label(Access(l, 1, 2))
           /\ XSHIFT(l) => translate_line(l) = expand_xshift(OnRegister(l, XSHIFT_TO_LLVM[l.mn], 1, 2))
           /\ XALU_3OP(l) => translate_line(l) = expand_xalu_3op(OnRegister(l, XALU_TO_LLVM[l.mn], 2, 3))
           /\ XCMP(l) => translate_line(l) = SignedImm(OnRegister(l, "cmp", 1, 2))
<1>1. ASSUME XLD_IMM(l) PROVE translate_line(l) = SignedImm(OnRegister(l, "ld.w", 1, 2))
      BY <1>1, Apart DEF translate_line, Other, expand_xld_imm
<1>2. ASSUME XLD_LOAD(l) PROVE translate_line(l) = (IF l.args[2].is = "mem_sym" THEN Raise ELSE expand_xld_mem(Access(l, 2, 1)))
      BY <1>2, Apart DEF translate_line, Other
<1>3. ASSUME XLD_STORE(l) PROVE translate_line(l) = (IF l.args[1].is = "mem_sym" THEN Raise ELSE expand_xld_mem(Access(l, 1, 2)))
      BY <1>3, Apart DEF translate_line, Other
<1>4. ASSUME XLD_LOAD_LABEL(l) PROVE translate_line(l) = expand_xld_label(Access(l, 2, 1))
      BY <1>4, Apart DEF translate_line, Other
<1>5. ASSUME XLD_STORE_LABEL(l) PROVE translate_line(l) = expand_xld_label(Access(l, 1, 2))
      BY <1>5, Apart DEF translate_line, Other
<1>6. ASSUME XSHIFT(l) PROVE translate_line(l) = expand_xshift(OnRegister(l, XSHIFT_TO_LLVM[l.mn], 1, 2))
      BY <1>6, Apart DEF translate_line, Other
<1>7. ASSUME XALU_3OP(l) PROVE translate_line(l) = expand_xalu_3op(OnRegister(l, XALU_TO_LLVM[l.mn], 2, 3))
      BY <1>7, Apart DEF translate_line, Other
<1>8. ASSUME XCMP(l) PROVE translate_line(l) = SignedImm(OnRegister(l, "cmp", 1, 2))
      BY <1>8, Apart DEF translate_line, Other, expand_xcmp
<1> QED BY <1>1, <1>2, <1>3, <1>4, <1>5, <1>6, <1>7, <1>8

\* Any other line stays one line, with its operands.
LEMMA KeepsLine ==
    ASSUME NEW l, l = [mn |-> l.mn, args |-> l.args], ~TakesNumber(l), ~XSHIFT(l), l.mn # ".endfile"
    PROVE  \E r : translate_line(l) = <<r>> /\ (r.args = l.args \/ COMM(l))
<1>1. CASE l.mn \in DOMAIN DIRECTIVE_MAP
  <2>1. translate_line(l) = <<[l EXCEPT !.mn = DIRECTIVE_MAP[l.mn]]>>
        BY <1>1 DEF translate_line, Is, COMM, DIRECTIVE_MAP, XLD_IMM, XLD_LOAD, XLD_STORE, XLD_LOAD_LABEL, XLD_STORE_LABEL,
       XSHIFT, XSHIFT_RR, XALU_3OP, XCMP, XBRANCH, XLD_TO_LD, XSHIFT_TO_LLVM, XALU_TO_LLVM
  <2> QED BY <2>1
<1>2. CASE COMM(l)
  <2>1. translate_line(l) = <<[l EXCEPT !.args = l.args[1].parts]>>
        BY <1>2 DEF translate_line, Is, COMM, DIRECTIVE_MAP, XLD_IMM, XLD_LOAD, XLD_STORE, XLD_LOAD_LABEL, XLD_STORE_LABEL,
       XSHIFT, XSHIFT_RR, XALU_3OP, XCMP, XBRANCH, XLD_TO_LD, XSHIFT_TO_LLVM, XALU_TO_LLVM
  <2> QED BY <1>2, <2>1
<1>3. CASE XSHIFT_RR(l)
  <2>1. translate_line(l) = <<[l EXCEPT !.mn = XSHIFT_TO_LLVM[l.mn]]>>
        BY <1>3 DEF translate_line, Is, COMM, DIRECTIVE_MAP, XLD_IMM, XLD_LOAD, XLD_STORE, XLD_LOAD_LABEL, XLD_STORE_LABEL,
       XSHIFT, XSHIFT_RR, XALU_3OP, XCMP, XBRANCH, XLD_TO_LD, XSHIFT_TO_LLVM, XALU_TO_LLVM
  <2> QED BY <2>1
<1>4. CASE l.mn \in DOMAIN XBRANCH
  <2>1. translate_line(l) = <<[l EXCEPT !.mn = XBRANCH[l.mn]]>>
        BY <1>4 DEF translate_line, Is, COMM, DIRECTIVE_MAP, XLD_IMM, XLD_LOAD, XLD_STORE, XLD_LOAD_LABEL, XLD_STORE_LABEL,
       XSHIFT, XSHIFT_RR, XALU_3OP, XCMP, XBRANCH, XLD_TO_LD, XSHIFT_TO_LLVM, XALU_TO_LLVM
  <2> QED BY <2>1
<1>5. CASE l.mn \notin DOMAIN DIRECTIVE_MAP /\ ~COMM(l) /\ ~XSHIFT_RR(l) /\ l.mn \notin DOMAIN XBRANCH
  <2>1. translate_line(l) = <<l>>
        BY <1>5 DEF translate_line, TakesNumber
  <2> QED BY <2>1
<1> QED BY <1>1, <1>2, <1>3, <1>4, <1>5

-----------------------------------------------------------------------------
\* The operands of a line of two operands.
LEMMA TwoOperands ==
    ASSUME NEW l, NEW a, NEW b, Forms(l) = <<a, b>>
    PROVE  DOMAIN l.args = {1, 2} /\ l.args[1].is = a /\ l.args[2].is = b
<1>1. DOMAIN Forms(l) = DOMAIN l.args /\ \A k \in DOMAIN l.args : Forms(l)[k] = l.args[k].is
      BY DEF Forms
<1> PICK f : f = Forms(l)
    OBVIOUS
<1>2. DOMAIN f = {1, 2} /\ f[1] = a /\ f[2] = b
  <2>1. DOMAIN <<a, b>> = 1 .. 2
        OBVIOUS
  <2> QED BY <2>1
<1> QED BY <1>1, <1>2

\* The number and the register of an access.
LEMMA LoadOperands ==
    ASSUME NEW l, NEW b \in {"mem", "label", "imm"}, Forms(l) = <<"reg", b>>
    PROVE  /\ FirstReg(l) = 1 /\ Forms(l) \notin {<<"mem", "reg">>, <<"label", "reg">>}
           /\ b # "imm" => MemOf(l) = l.args[2]
<1>1. DOMAIN l.args = {1, 2} /\ Forms(l)[1] = "reg" /\ Forms(l)[2] = b
      BY TwoOperands
<1>2. Forms(l)[1] = "reg" /\ \A j \in 1 .. 1 - 1 : Forms(l)[j] # "reg"
      BY <1>1
<1>3. \A k \in {1, 2} : (Forms(l)[k] = "reg" /\ \A j \in 1 .. k - 1 : Forms(l)[j] # "reg") => k = 1
      BY <1>1
<1>4. FirstReg(l) = 1
      BY <1>1, <1>2, <1>3 DEF FirstReg
<1>5. Forms(l) # <<"mem", "reg">> /\ Forms(l) # <<"label", "reg">>
  <2>1. \A f : (f = <<"mem", "reg">> => f[1] = "mem") /\ (f = <<"label", "reg">> => f[1] = "label")
        OBVIOUS
  <2> QED BY <1>1, <2>1
<1>6. ASSUME b # "imm" PROVE MemOf(l) = l.args[2]
  <2>1. \A k \in {1, 2} : Forms(l)[k] \in {"mem", "label"} <=> k = 2
        BY <1>1, <1>6
  <2> QED BY <1>1, <2>1 DEF MemOf
<1> QED BY <1>4, <1>5, <1>6

\* The same for a store, whose register comes second.
LEMMA StoreOperands ==
    ASSUME NEW l, NEW a \in {"mem", "label"}, Forms(l) = <<a, "reg">>
    PROVE  FirstReg(l) = 2 /\ Forms(l) \in {<<"mem", "reg">>, <<"label", "reg">>} /\ MemOf(l) = l.args[1]
<1>1. DOMAIN l.args = {1, 2} /\ Forms(l)[1] = a /\ Forms(l)[2] = "reg"
      BY TwoOperands
<1>2. Forms(l)[2] = "reg" /\ \A j \in 1 .. 2 - 1 : Forms(l)[j] # "reg"
      BY <1>1
<1>3. \A k \in {1, 2} : (Forms(l)[k] = "reg" /\ \A j \in 1 .. k - 1 : Forms(l)[j] # "reg") => k = 2
      BY <1>1
<1>4. FirstReg(l) = 2
      BY <1>1, <1>2, <1>3 DEF FirstReg
<1>5. \A k \in {1, 2} : Forms(l)[k] \in {"mem", "label"} <=> k = 1
      BY <1>1
<1>6. MemOf(l) = l.args[1]
      BY <1>1, <1>5 DEF MemOf
<1> QED BY <1>4, <1>6

\* What a load says,
LEMMA SaysLoad ==
    ASSUME NEW l, NEW op, NEW from, NEW by, NEW rd,
           Forms(l) \notin {<<"mem", "reg">>, <<"label", "reg">>}, FirstReg(l) = rd
    PROVE  Says(l, op, from, by) = [op |-> op, store |-> FALSE, rd |-> l.args[rd].reg, from |-> from, by |-> by % Word]
<1>1. (Forms(l) \in {<<"mem", "reg">>, <<"label", "reg">>}) = FALSE
      OBVIOUS
<1> QED BY <1>1 DEF Says
\* and of a store.
LEMMA SaysStore ==
    ASSUME NEW l, NEW op, NEW from, NEW by, NEW rd,
           Forms(l) \in {<<"mem", "reg">>, <<"label", "reg">>}, FirstReg(l) = rd
    PROVE  Says(l, op, from, by) = [op |-> op, store |-> TRUE, rd |-> l.args[rd].reg, from |-> from, by |-> by % Word]
<1>1. (Forms(l) \in {<<"mem", "reg">>, <<"label", "reg">>}) = TRUE
      OBVIOUS
<1> QED BY <1>1 DEF Says

\* The instructions emitted for a line with an immediate do what it says.
LEMMA ImmComputes ==
    ASSUME NEW l \in SourceLines, XLD_IMM(l) \/ XCMP(l)
    PROVE  Effect(translate_line(l)) = Meaning(l)
<1>1. Forms(l) = <<"reg", "imm">>
      BY DEF XLD_IMM, XCMP, Is
<1>2. DOMAIN l.args = {1, 2} /\ l.args[2].is = "imm"
      BY <1>1, TwoOperands
<1>3. l.args[2].n \in Int
      BY <1>2, Asm33convAssumption
<1>4. FirstReg(l) = 1 /\ Forms(l) \notin {<<"mem", "reg">>, <<"label", "reg">>}
      BY <1>1, LoadOperands
<1> PICK op : op = IF l.mn = "xcmp" THEN "cmp" ELSE "ld.w"
    OBVIOUS
<1> PICK r : r = OnRegister(l, op, 1, 2)
    OBVIOUS
<1>5. r.op = op /\ r.store = FALSE /\ r.rd = l.args[1].reg /\ r.n = l.args[2].n
      BY DEF OnRegister
<1>6. translate_line(l) = SignedImm(r)
      BY Takes, Asks
<1>7. Does(SignedImm(r), r, r.rd, r.n)
      BY <1>3, <1>5, SignedDoes
<1>8. Meaning(l) = Says(l, op, l.args[1].reg, l.args[2].n)
      BY Apart DEF Meaning
<1>9. Says(l, op, l.args[1].reg, l.args[2].n)
        = [op |-> op, store |-> FALSE, rd |-> l.args[1].reg, from |-> l.args[1].reg, by |-> l.args[2].n % Word]
      BY <1>4, SaysLoad
<1> QED BY <1>5, <1>6, <1>7, <1>8, <1>9 DEF Does

\* So do those for three operands,
LEMMA AluComputes ==
    ASSUME NEW l \in SourceLines, XALU_3OP(l), translate_line(l) # Raise, InReach(l)
    PROVE  Effect(translate_line(l)) = Meaning(l)
<1>1. Forms(l) = <<"reg", "reg", "imm">> /\ l.mn \in {"xadd", "xsub", "xand", "xoor"}
      BY DEF XALU_3OP, Is, XALU_TO_LLVM
<1>2. DOMAIN l.args = {1, 2, 3} /\ Forms(l)[1] = "reg" /\ l.args[3].is = "imm"
  <2>1. DOMAIN Forms(l) = DOMAIN l.args /\ \A k \in DOMAIN l.args : Forms(l)[k] = l.args[k].is
        BY DEF Forms
  <2> PICK f : f = Forms(l)
      OBVIOUS
  <2>2. DOMAIN f = {1, 2, 3} /\ f[1] = "reg" /\ f[3] = "imm"
    <3>1. DOMAIN <<"reg", "reg", "imm">> = 1 .. 3
          OBVIOUS
    <3> QED BY <1>1, <3>1
  <2> QED BY <2>1, <2>2
<1>3. l.args[3].n \in Int
      BY <1>2, Asm33convAssumption
<1>4. FirstReg(l) = 1
  <2>1. Forms(l)[1] = "reg" /\ \A j \in 1 .. 1 - 1 : Forms(l)[j] # "reg"
        BY <1>2
  <2>2. \A k \in {1, 2, 3} : (Forms(l)[k] = "reg" /\ \A j \in 1 .. k - 1 : Forms(l)[j] # "reg") => k = 1
        BY <1>2
  <2> QED BY <1>2, <2>1, <2>2 DEF FirstReg
<1>5. Forms(l) \notin {<<"mem", "reg">>, <<"label", "reg">>}
  <2>1. \A f : (f = <<"mem", "reg">> => f[1] = "mem") /\ (f = <<"label", "reg">> => f[1] = "label")
        OBVIOUS
  <2> QED BY <1>2, <2>1
<1> PICK op \in {"add", "sub", "and", "or"} : op = XALU_TO_LLVM[l.mn]
    BY <1>1 DEF XALU_TO_LLVM
<1> PICK r : r = OnRegister(l, op, 2, 3)
    OBVIOUS
<1>6. r.op = op /\ r.store = FALSE /\ r.rd = l.args[1].reg /\ r.rs = l.args[2].reg /\ r.n = l.args[3].n
      BY DEF OnRegister
<1>7. translate_line(l) = expand_xalu_3op(r)
      BY Takes
<1>8. Does(expand_xalu_3op(r), r, r.rs, r.n)
  <2>1. r.rd = "sp" /\ r.rs = "sp" => r.n \in 0 .. SPIMM * 4 - 1
        BY <1>6 DEF InReach, SpStep
  <2> QED BY <1>3, <1>6, <1>7, <2>1, AluDoes
<1>9. Meaning(l) = Says(l, op, l.args[2].reg, l.args[3].n)
      BY Apart DEF Meaning
<1>10. Says(l, op, l.args[2].reg, l.args[3].n)
         = [op |-> op, store |-> FALSE, rd |-> l.args[1].reg, from |-> l.args[2].reg, by |-> l.args[3].n % Word]
  <2>1. \A o, from, by : Says(l, o, from, by) = [op |-> o, store |-> FALSE, rd |-> l.args[1].reg, from |-> from, by |-> by % Word]
        BY <1>4, <1>5, SaysLoad
  <2> QED BY <2>1
<1> QED BY <1>6, <1>7, <1>8, <1>9, <1>10 DEF Does

\* and those for the accesses: loads, from a register's address or a label,
LEMMA LoadComputes ==
    ASSUME NEW l \in SourceLines, XLD_LOAD(l) \/ XLD_LOAD_LABEL(l), translate_line(l) # Raise, InReach(l)
    PROVE  Effect(translate_line(l)) = Meaning(l)
<1> PICK b : Forms(l) = <<"reg", b>> /\ b \in {"mem", "mem_sym", "label"} /\ (b = "label" <=> XLD_LOAD_LABEL(l))
  <2>1. CASE XLD_LOAD(l)
    <3>1. Forms(l) = <<"reg", "mem">> \/ Forms(l) = <<"reg", "mem_sym">>
          BY <2>1 DEF XLD_LOAD, Is
    <3> QED BY <2>1, <3>1, Apart
  <2>2. CASE XLD_LOAD_LABEL(l)
    <3>1. Forms(l) = <<"reg", "label">>
          BY <2>2 DEF XLD_LOAD_LABEL, Is
    <3> QED BY <2>2, <3>1
  <2> QED BY <2>1, <2>2
<1>1. DOMAIN l.args = {1, 2} /\ l.args[2].is = b
      BY TwoOperands
<1>2. b # "mem_sym"
      BY <1>1, Takes
<1>3. FirstReg(l) = 1 /\ Forms(l) \notin {<<"mem", "reg">>, <<"label", "reg">>} /\ MemOf(l) = l.args[2]
      BY <1>2, LoadOperands
<1>4. (b = "mem" => l.args[2].n \in Int) /\ (b = "label" => l.args[2].n \in 0 .. EXT * EXT - 1)
      BY <1>1, Asm33convAssumption
<1>5. l.mn \in {"xld.w", "xld.h", "xld.uh", "xld.b", "xld.ub"}
      BY DEF XLD_LOAD, XLD_LOAD_LABEL, Is, XLD_TO_LD
<1> PICK op \in {"ld.w", "ld.h", "ld.uh", "ld.b", "ld.ub"} : op = XLD_TO_LD[l.mn]
    BY <1>5 DEF XLD_TO_LD
<1> PICK r : r = Access(l, 2, 1)
    OBVIOUS
<1>9. r.store = FALSE
  <2>1. (2 = 1) = FALSE
        OBVIOUS
  <2> QED BY <2>1 DEF Access
<1>6. /\ r.op = op /\ r.store = FALSE /\ r.rd = l.args[1].reg /\ r.n = l.args[2].n
      /\ r.rs = IF b = "label" THEN "r8" ELSE l.args[2].reg
      BY <1>1, <1>9 DEF Access
<1>10. \A o, from, by : Says(l, o, from, by)
            = [op |-> o, store |-> FALSE, rd |-> l.args[1].reg, from |-> from, by |-> by % Word]
      BY <1>3, SaysLoad
<1>7. CASE b = "mem"
  <2>1. translate_line(l) = expand_xld_mem(r)
        BY <1>1, <1>7, Takes
  <2>2. r.rs # "sp" => r.n \in 0 .. EXT * EXT - 1
        BY <1>3, <1>6, <1>7 DEF InReach, ByRegister
  <2>6. r.rs = "sp" => r.n \in 0 .. IMM * SpUnit(r.op) - 1
        BY <1>3, <1>6, <1>7 DEF InReach, SpAccess
  <2>3. Does(expand_xld_mem(r), r, r.rs, r.n)
        BY <1>4, <1>6, <1>7, <2>1, <2>2, <2>6, MemDoes
  <2>4. Meaning(l) = Says(l, op, l.args[2].reg, l.args[2].n)
        BY <1>3, <1>7, Apart DEF Meaning
  <2>5. Says(l, op, l.args[2].reg, l.args[2].n)
          = [op |-> op, store |-> FALSE, rd |-> l.args[1].reg, from |-> l.args[2].reg, by |-> l.args[2].n % Word]
        BY <1>10
  <2> QED BY <1>6, <1>7, <2>1, <2>3, <2>4, <2>5 DEF Does
<1>8. CASE b = "label"
  <2>1. translate_line(l) = expand_xld_label(r)
        BY <1>8, Takes
  <2>2. Does(expand_xld_label(r), r, r.rs, r.n)
        BY <1>4, <1>6, <1>8, LabelDoes
  <2>3. Meaning(l) = Says(l, op, "r8", l.args[2].n)
        BY <1>3, <1>8, Apart DEF Meaning
  <2>4. Says(l, op, "r8", l.args[2].n)
          = [op |-> op, store |-> FALSE, rd |-> l.args[1].reg, from |-> "r8", by |-> l.args[2].n % Word]
        BY <1>10
  <2> QED BY <1>6, <1>8, <2>1, <2>2, <2>3, <2>4 DEF Does
<1> QED BY <1>2, <1>7, <1>8

\* and stores do what they say.
LEMMA StoreComputes ==
    ASSUME NEW l \in SourceLines, XLD_STORE(l) \/ XLD_STORE_LABEL(l), translate_line(l) # Raise, InReach(l)
    PROVE  Effect(translate_line(l)) = Meaning(l)
<1> PICK b : Forms(l) = <<b, "reg">> /\ b \in {"mem", "mem_sym", "label"} /\ (b = "label" <=> XLD_STORE_LABEL(l))
  <2>1. CASE XLD_STORE(l)
    <3>1. Forms(l) = <<"mem", "reg">> \/ Forms(l) = <<"mem_sym", "reg">>
          BY <2>1 DEF XLD_STORE, Is
    <3> QED BY <2>1, <3>1, Apart
  <2>2. CASE XLD_STORE_LABEL(l)
    <3>1. Forms(l) = <<"label", "reg">>
          BY <2>2 DEF XLD_STORE_LABEL, Is
    <3> QED BY <2>2, <3>1
  <2> QED BY <2>1, <2>2
<1>1. DOMAIN l.args = {1, 2} /\ l.args[1].is = b
      BY TwoOperands
<1>2. b # "mem_sym"
      BY <1>1, Takes
<1>3. FirstReg(l) = 2 /\ Forms(l) \in {<<"mem", "reg">>, <<"label", "reg">>} /\ MemOf(l) = l.args[1]
      BY <1>2, StoreOperands
<1>4. (b = "mem" => l.args[1].n \in Int) /\ (b = "label" => l.args[1].n \in 0 .. EXT * EXT - 1)
      BY <1>1, Asm33convAssumption
<1>5. l.mn \in {"xld.w", "xld.h", "xld.uh", "xld.b", "xld.ub"}
      BY DEF XLD_STORE, XLD_STORE_LABEL, Is, XLD_TO_LD
<1> PICK op \in {"ld.w", "ld.h", "ld.uh", "ld.b", "ld.ub"} : op = XLD_TO_LD[l.mn]
    BY <1>5 DEF XLD_TO_LD
<1> PICK r : r = Access(l, 1, 2)
    OBVIOUS
<1>6. /\ r.op = op /\ r.store = TRUE /\ r.rd = l.args[2].reg /\ r.n = l.args[1].n
      /\ r.rs = IF b = "label" THEN "r8" ELSE l.args[1].reg
      BY <1>1 DEF Access
<1>10. \A o, from, by : Says(l, o, from, by)
            = [op |-> o, store |-> TRUE, rd |-> l.args[2].reg, from |-> from, by |-> by % Word]
      BY <1>3, SaysStore
<1>7. CASE b = "mem"
  <2>1. translate_line(l) = expand_xld_mem(r)
        BY <1>1, <1>7, Takes
  <2>2. r.rs # "sp" => r.n \in 0 .. EXT * EXT - 1
        BY <1>3, <1>6, <1>7 DEF InReach, ByRegister
  <2>6. r.rs = "sp" => r.n \in 0 .. IMM * SpUnit(r.op) - 1
        BY <1>3, <1>6, <1>7 DEF InReach, SpAccess
  <2>3. Does(expand_xld_mem(r), r, r.rs, r.n)
        BY <1>4, <1>6, <1>7, <2>1, <2>2, <2>6, MemDoes
  <2>4. Meaning(l) = Says(l, op, l.args[1].reg, l.args[1].n)
        BY <1>3, <1>7, Apart DEF Meaning
  <2>5. Says(l, op, l.args[1].reg, l.args[1].n)
          = [op |-> op, store |-> TRUE, rd |-> l.args[2].reg, from |-> l.args[1].reg, by |-> l.args[1].n % Word]
        BY <1>10
  <2> QED BY <1>6, <1>7, <2>1, <2>3, <2>4, <2>5 DEF Does
<1>8. CASE b = "label"
  <2>1. translate_line(l) = expand_xld_label(r)
        BY <1>8, Takes
  <2>2. Does(expand_xld_label(r), r, r.rs, r.n)
        BY <1>4, <1>6, <1>8, LabelDoes
  <2>3. Meaning(l) = Says(l, op, "r8", l.args[1].n)
        BY <1>3, <1>8, Apart DEF Meaning
  <2>4. Says(l, op, "r8", l.args[1].n)
          = [op |-> op, store |-> TRUE, rd |-> l.args[2].reg, from |-> "r8", by |-> l.args[1].n % Word]
        BY <1>10
  <2> QED BY <1>6, <1>8, <2>1, <2>2, <2>3, <2>4 DEF Does
<1> QED BY <1>2, <1>7, <1>8

-----------------------------------------------------------------------------
\* Once the line is converted, what is out and whether there was a warning is
\* what main makes of its translation.
AsmInv ==
    /\ line \in SourceLines
    /\ converted => /\ warned = (translate_line(line) = Raise)
                    /\ out_lines = IF translate_line(line) = Raise THEN <<line>> ELSE translate_line(line)

\* An accepted shift shifts by its amount,
LEMMA ShiftComputes ==
    ASSUME NEW l \in SourceLines, XSHIFT(l), translate_line(l) # Raise
    PROVE  ShiftsBy(translate_line(l), l.args[2].n)
<1>1. Forms(l) = <<"reg", "imm">>
      BY DEF XSHIFT, Is
<1>2. DOMAIN l.args = {1, 2} /\ l.args[2].is = "imm"
      BY <1>1, TwoOperands
<1>3. l.args[2].n \in Int
      BY <1>2, Asm33convAssumption
<1> PICK r : r = OnRegister(l, XSHIFT_TO_LLVM[l.mn], 1, 2)
    OBVIOUS
<1>4. r.n = l.args[2].n /\ translate_line(l) = expand_xshift(r)
      BY Takes DEF OnRegister
<1>5. ShiftsBy(expand_xshift(r), r.n)
      BY <1>3, <1>4, ShiftDoes
<1> QED BY <1>4, <1>5

\* and the invariant is all that the property needs.
LEMMA InvComputes == AsmInv => ComputesTheSame
<1> SUFFICES ASSUME AsmInv PROVE ComputesTheSame
    OBVIOUS
<1> PICK l \in SourceLines : l = line
    BY DEF AsmInv
<1> PICK t : t = translate_line(l)
    OBVIOUS
<1>1. Accepted => t # Raise /\ out_lines = t
      BY DEF AsmInv, Accepted
<1>2. ASSUME Accepted, XSHIFT(line)
      PROVE  /\ Shifted(out_lines) = line.args[2].n
             /\ \A k \in DOMAIN out_lines : out_lines[k].n \in 1 .. SHIFT
  <2>1. ShiftsBy(t, l.args[2].n)
        BY <1>1, <1>2, ShiftComputes
  <2> QED BY <1>1, <1>2, <2>1 DEF ShiftsBy
<1>3. ASSUME Accepted, TakesNumber(line), InReach(line)
      PROVE  Effect(out_lines) = Meaning(line)
  <2>1. InReach(l) /\ t # Raise
        BY <1>1, <1>3
  <2>2. XLD_IMM(l) \/ XCMP(l) \/ XALU_3OP(l) \/ XLD_LOAD(l) \/ XLD_LOAD_LABEL(l) \/ XLD_STORE(l) \/ XLD_STORE_LABEL(l)
        BY <1>3 DEF TakesNumber
  <2>3. Effect(t) = Meaning(l)
        BY <2>1, <2>2, ImmComputes, AluComputes, LoadComputes, StoreComputes
  <2> QED BY <1>1, <1>3, <2>3
<1>4. ASSUME converted, ~TakesNumber(line), ~XSHIFT(line), line.mn # ".endfile"
      PROVE  Len(out_lines) = 1 /\ (out_lines[1].args = line.args \/ COMM(line))
  <2>1. l = [mn |-> l.mn, args |-> l.args]
        BY Asm33convAssumption
  <2>2. PICK r : t = <<r>> /\ (r.args = l.args \/ COMM(l))
        BY <1>4, <2>1, KeepsLine
  <2>3. out_lines = <<l>> \/ out_lines = <<r>>
        BY <1>4, <2>2 DEF AsmInv
  <2> QED BY <2>2, <2>3
<1> QED BY <1>2, <1>3, <1>4 DEF ComputesTheSame

\* The translation of every line whose number is in reach computes what the line
\* says, for every width of the fields.
THEOREM TranslationComputes == AsmSpec => []ComputesTheSame
<1>1. AsmInit => AsmInv
      BY DEF AsmInit, AsmInv
<1>2. AsmInv /\ [Translate]_asmVars => AsmInv'
      BY DEF AsmInv, Translate, asmVars
<1> QED BY <1>1, <1>2, InvComputes, PTL DEF AsmSpec

-----------------------------------------------------------------------------
\* The entries for member k in a symbol table s are the c ones behind a.
EntriesFrom(s, k, a, c) ==
    /\ a \in Nat /\ a + c <= Len(s)
    /\ \A e \in 1 .. Len(s) : s[e].member = k <=> e \in a + 1 .. a + c

\* What is found of a library.
Found(ms) == ms \in Seq([srf : Nat \ {0}, name : Nat \ {0}, elf : Nat \ {0}, globals : Seq(Nat)])

\* The symbols of one member.
Block(ms, k) == [j \in DOMAIN ms[k].globals |-> [sym |-> ms[k].globals[j], member |-> k]]

\* As many symbols as the member has globals, each with the member's number.
LEMMA BlockIs ==
    ASSUME NEW ms, Found(ms), NEW k \in 1 .. Len(ms)
    PROVE  /\ Block(ms, k) \in Seq([sym : Nat, member : {k}]) /\ Len(Block(ms, k)) = Len(ms[k].globals)
           /\ Len(ms[k].globals) \in Nat
           /\ \A e \in 1 .. Len(ms[k].globals) : Block(ms, k)[e] \in [sym : Nat, member : {k}]
<1>0. ms[k] \in [srf : Nat \ {0}, name : Nat \ {0}, elf : Nat \ {0}, globals : Seq(Nat)]
      BY ElementOfSeq DEF Found
<1> PICK g \in Seq(Nat) : g = ms[k].globals
    BY <1>0
<1>1. Len(g) \in Nat /\ DOMAIN g = 1 .. Len(g) /\ \A j \in 1 .. Len(g) : g[j] \in Nat
      OBVIOUS
<1> PICK b : b = [j \in 1 .. Len(g) |-> [sym |-> g[j], member |-> k]]
    OBVIOUS
<1>2. b \in [1 .. Len(g) -> [sym : Nat, member : {k}]]
      BY <1>1
<1>3. b \in Seq([sym : Nat, member : {k}]) /\ Len(b) = Len(g)
      BY <1>1, <1>2
<1>4. Block(ms, k) = b
      BY <1>1 DEF Block
<1> QED BY <1>1, <1>2, <1>3, <1>4

\* A block behind the symbols of the members before.
LEMMA BlockTyped ==
    ASSUME NEW n \in Nat, NEW s \in Seq([sym : Nat, member : 1 .. n]), NEW b \in Seq([sym : Nat, member : {n + 1}])
    PROVE  s \o b \in Seq([sym : Nat, member : 1 .. n + 1])
<1>1. /\ [sym : Nat, member : 1 .. n] \subseteq [sym : Nat, member : 1 .. n + 1]
      /\ [sym : Nat, member : {n + 1}] \subseteq [sym : Nat, member : 1 .. n + 1]
      OBVIOUS
<1>2. s \in Seq([sym : Nat, member : 1 .. n + 1]) /\ b \in Seq([sym : Nat, member : 1 .. n + 1])
      BY <1>1, SeqMonotonic
<1> QED BY <1>2, ConcatProperties

\* A block is appended behind the entries of the members before.
LEMMA BlockAppended ==
    ASSUME NEW s, NEW b, NEW n \in Nat, NEW k \in 1 .. n + 1, NEW a, NEW c \in Nat,
           s \in Seq([sym : Nat, member : 1 .. n]), b \in Seq([sym : Nat, member : {n + 1}]),
           IF k = n + 1 THEN a = Len(s) /\ c = Len(b) ELSE EntriesFrom(s, k, a, c)
    PROVE  EntriesFrom(s \o b, k, a, c)
<1>1. /\ Len(s \o b) = Len(s) + Len(b) /\ Len(s) \in Nat /\ Len(b) \in Nat
      /\ \A e \in 1 .. Len(s) : (s \o b)[e] = s[e] /\ s[e] \in [sym : Nat, member : 1 .. n]
      /\ \A e \in Len(s) + 1 .. Len(s) + Len(b) : (s \o b)[e] = b[e - Len(s)] /\ e - Len(s) \in 1 .. Len(b)
      /\ \A e \in 1 .. Len(b) : b[e] \in [sym : Nat, member : {n + 1}]
  <2>1. s \in Seq([sym : Nat, member : 1 .. n + 1]) /\ b \in Seq([sym : Nat, member : 1 .. n + 1])
    <3>1. /\ [sym : Nat, member : 1 .. n] \subseteq [sym : Nat, member : 1 .. n + 1]
          /\ [sym : Nat, member : {n + 1}] \subseteq [sym : Nat, member : 1 .. n + 1]
          OBVIOUS
    <3> QED BY <3>1, SeqMonotonic
  <2>2. /\ Len(s \o b) = Len(s) + Len(b) /\ Len(s) \in Nat /\ Len(b) \in Nat
        /\ \A i \in 1 .. Len(s) + Len(b) : (s \o b)[i] = IF i <= Len(s) THEN s[i] ELSE b[i - Len(s)]
        BY <2>1, ConcatProperties
  <2>3. \A e \in 1 .. Len(s) : s[e] \in [sym : Nat, member : 1 .. n]
        BY ElementOfSeq
  <2>4. \A e \in 1 .. Len(b) : b[e] \in [sym : Nat, member : {n + 1}]
        BY ElementOfSeq
  <2> QED BY <2>2, <2>3, <2>4
<1> PICK t : t = s \o b
    OBVIOUS
<1>2. \A e \in 1 .. Len(s) : t[e].member = s[e].member /\ t[e].member # n + 1
      BY <1>1
<1>3. \A e \in Len(s) + 1 .. Len(s) + Len(b) : t[e].member = n + 1
      BY <1>1
<1>4. \A e \in 1 .. Len(t) : e \in 1 .. Len(s) \/ e \in Len(s) + 1 .. Len(s) + Len(b)
      BY <1>1
<1>5. Len(t) = Len(s) + Len(b)
      BY <1>1
<1>6. EntriesFrom(t, k, a, c)
  <2>1. CASE k = n + 1
        BY <1>1, <1>2, <1>3, <1>4, <1>5, <2>1 DEF EntriesFrom
  <2>2. CASE k # n + 1
        BY <1>1, <1>2, <1>3, <1>4, <1>5, <2>2 DEF EntriesFrom
  <2> QED BY <2>1, <2>2
<1> QED BY <1>6

\* The table of the first n members.
TableOf(s, ms, n) ==
    /\ s \in Seq([sym : Nat, member : 1 .. n])
    /\ \A k \in 1 .. n : \E a : EntriesFrom(s, k, a, Len(ms[k].globals))

\* Every member's symbols are in the table, in one piece and nowhere else.
LEMMA SymbolsOfMembers ==
    ASSUME NEW ms, Found(ms)
    PROVE  TableOf(Symbols33(ms), ms, Len(ms))
<1> PICK m \in Nat : m = Len(ms)
    BY DEF Found
<1> PICK bs : bs = [k \in DOMAIN ms |-> [j \in DOMAIN elf_global_symbols(ms[k]) |->
                        [sym |-> elf_global_symbols(ms[k])[j], member |-> k]]]
    OBVIOUS
<1>1. DOMAIN ms = 1 .. m /\ Symbols33(ms) = Joined(bs)
      BY DEF Found, Symbols33
<1>2. \A k \in 1 .. m : bs[k] = Block(ms, k)
      BY <1>1 DEF Block, elf_global_symbols
<1>3. Len(bs) = m
      BY <1>1
<1>4. PICK f : JoinsTo(f, bs, m) /\ Joined(bs) = f[m]
      BY <1>3, JoinedIs
<1>5. f[0] = <<>> /\ \A k \in 1 .. m : f[k] = f[k - 1] \o Block(ms, k)
      BY <1>2, <1>4 DEF JoinsTo
<1> DEFINE S == {n \in Nat : n <= m => TableOf(f[n], ms, n)}
<1>6. 0 \in S
  <2>1. <<>> \in Seq([sym : Nat, member : 1 .. 0])
        BY EmptySeq
  <2>2. TableOf(<<>>, ms, 0)
        BY <2>1 DEF TableOf
  <2> QED BY <1>5, <2>2
<1>7. ASSUME NEW n \in Nat, n \in S PROVE n + 1 \in S
  <2> SUFFICES ASSUME n + 1 <= m PROVE TableOf(f[n + 1], ms, n + 1)
      OBVIOUS
  <2>1. n + 1 \in 1 .. m /\ (n + 1) - 1 = n /\ TableOf(f[n], ms, n)
        BY <1>7
  <2> PICK s, b : s = f[n] /\ b = Block(ms, n + 1)
      OBVIOUS
  <2>2. f[n + 1] = s \o b
        BY <1>5, <2>1
  <2>3. /\ s \in Seq([sym : Nat, member : 1 .. n]) /\ b \in Seq([sym : Nat, member : {n + 1}])
        /\ Len(b) = Len(ms[n + 1].globals)
        BY <2>1, BlockIs DEF TableOf
  <2>4. s \o b \in Seq([sym : Nat, member : 1 .. n + 1])
        BY <2>3, BlockTyped
  <2>5. ASSUME NEW k \in 1 .. n + 1 PROVE \E a : EntriesFrom(s \o b, k, a, Len(ms[k].globals))
    <3>1. Len(ms[k].globals) \in Nat
          BY <2>1, BlockIs
    <3>2. CASE k = n + 1
          BY <2>3, <3>1, <3>2, BlockAppended
    <3>3. CASE k # n + 1
      <4>0. k \in 1 .. n /\ TableOf(s, ms, n)
            BY <2>1, <3>3
      <4>1. PICK a : EntriesFrom(s, k, a, Len(ms[k].globals))
            BY <4>0 DEF TableOf
      <4> QED BY <2>3, <3>1, <3>3, <4>1, BlockAppended
    <3> QED BY <3>2, <3>3
  <2> QED BY <2>2, <2>4, <2>5 DEF TableOf
<1>8. m \in S
  <2> HIDE DEF S
  <2> QED BY <1>6, <1>7, SetInduction
<1> QED BY <1>1, <1>4, <1>8

\* So there are as many entries for a member as it has symbols.
LEMMA EntriesCount ==
    ASSUME NEW s, Len(s) \in Nat, NEW k, NEW a, NEW c \in Nat, EntriesFrom(s, k, a, c)
    PROVE  Cardinality({e \in 1 .. Len(s) : s[e].member = k}) = c
<1>1. {e \in 1 .. Len(s) : s[e].member = k} = a + 1 .. a + c
      BY DEF EntriesFrom
<1>2. Cardinality(a + 1 .. a + c) = c
  <2>1. a + 1 \in Int /\ a + c \in Int /\ (a + 1 > a + c => c = 0) /\ (a + c) - (a + 1) + 1 = c
        BY DEF EntriesFrom
  <2> QED BY <2>1, FS_Interval
<1> QED BY <1>1, <1>2

-----------------------------------------------------------------------------
\* A sum put together.
LEMMA AddedUp ==
    ASSUME NEW a \in Nat, NEW b \in Nat, NEW e \in Nat, NEW p \in Nat, NEW o, NEW t, NEW q, NEW z,
           o = a + b, q = a + t, t = b + z, z = 60 + (e + p)
    PROVE  q = o + 60 + e + p
OBVIOUS

\* Even makes a number even.
LEMMA EvenIs == ASSUME NEW n \in Nat PROVE Even(n) \in Nat /\ Even(n) % 2 = 0 /\ Even(n) >= n
BY DEF Even

\* A module is where the library says, and the next one behind it.
InPlace(l, k) ==
    /\ ModuleAt(l, k) \in Nat /\ ModuleSize(l.modules[k]) \in Nat /\ ModuleSize(l.modules[k]) > MOD_HDR
    /\ ModuleAt(l, k + 1) = ModuleAt(l, k) + ModuleSize(l.modules[k])

\* Where the modules of a library are.
LEMMA ModulesInOrder ==
    ASSUME NEW l \in Libraries
    PROVE  /\ Found(l.modules) /\ Len(l.modules) \in Nat /\ DOMAIN l.modules = 1 .. Len(l.modules)
           /\ \A k \in 1 .. Len(l.modules) + 1 : ModuleAt(l, k) \in Nat
           /\ \A k \in 1 .. Len(l.modules) : InPlace(l, k)
           /\ ModuleAt(l, 1) = FirstModule(l)
<1> PICK m \in Nat : m = Len(l.modules)
    BY LibrariesAssumption
<1>1. Found(l.modules) /\ DOMAIN l.modules = 1 .. m
      BY LibrariesAssumption DEF Found
<1>2. \A k \in 1 .. m : l.modules[k] \in [srf : Nat \ {0}, name : Nat \ {0}, elf : Nat \ {0}, globals : Seq(Nat)]
      BY <1>1, ElementOfSeq DEF Found
<1>3. \A k \in 1 .. m : ModuleSize(l.modules[k]) \in Nat /\ ModuleSize(l.modules[k]) > MOD_HDR
      BY <1>2 DEF ModuleSize, MOD_HDR
<1>4. FirstModule(l) \in Nat
  <2>1. l.symnames \in Seq(Nat)
        BY LibrariesAssumption
  <2>2. Len(l.symnames) \in Nat /\ \A k \in 1 .. Len(l.symnames) : l.symnames[k] \in Nat
        BY <2>1, LenProperties, ElementOfSeq
  <2>3. Total(l.symnames) \in Nat
        BY <2>2, TotalNat
  <2> QED BY <2>2, <2>3 DEF FirstModule
<1> PICK sz \in [1 .. m -> Nat] : sz = [j \in 1 .. m |-> ModuleSize(l.modules[j])]
    BY <1>3
<1>5. ASSUME NEW k \in 1 .. m + 1 PROVE ModuleAt(l, k) = FirstModule(l) + Total(UpTo(sz, k))
  <2>1. [j \in 1 .. k - 1 |-> ModuleSize(l.modules[j])] = UpTo(sz, k)
    <3>1. \A j \in 1 .. k - 1 : j \in 1 .. m /\ sz[j] = ModuleSize(l.modules[j])
          OBVIOUS
    <3> QED BY <3>1 DEF UpTo
  <2> QED BY <2>1 DEF ModuleAt
<1>6. /\ Total(UpTo(sz, 1)) = 0
      /\ \A k \in 1 .. m + 1 : Total(UpTo(sz, k)) \in Nat
      /\ \A k \in 1 .. m : Total(UpTo(sz, k + 1)) = Total(UpTo(sz, k)) + sz[k]
      BY TotalUpTo
<1>7. \A k \in 1 .. m : k \in 1 .. m + 1 /\ k + 1 \in 1 .. m + 1 /\ sz[k] = ModuleSize(l.modules[k])
      OBVIOUS
<1>8. 1 \in 1 .. m + 1
      OBVIOUS
<1> HIDE DEF UpTo
<1>9. ASSUME NEW k \in 1 .. m + 1 PROVE ModuleAt(l, k) \in Nat
  <2>1. ModuleAt(l, k) = FirstModule(l) + Total(UpTo(sz, k)) /\ Total(UpTo(sz, k)) \in Nat
        BY <1>5, <1>6
  <2> QED BY <1>4, <2>1
<1>10. ASSUME NEW k \in 1 .. m PROVE InPlace(l, k)
  <2>1. k \in 1 .. m + 1 /\ k + 1 \in 1 .. m + 1 /\ sz[k] = ModuleSize(l.modules[k])
        OBVIOUS
  <2>2. ModuleAt(l, k) = FirstModule(l) + Total(UpTo(sz, k)) /\ Total(UpTo(sz, k)) \in Nat
        BY <1>5, <1>6, <2>1
  <2>3. ModuleAt(l, k + 1) = FirstModule(l) + Total(UpTo(sz, k + 1)) /\ Total(UpTo(sz, k + 1)) = Total(UpTo(sz, k)) + sz[k]
        BY <1>5, <1>6, <2>1
  <2> QED BY <1>3, <1>4, <2>1, <2>2, <2>3 DEF InPlace
<1>11. ModuleAt(l, 1) = FirstModule(l)
      BY <1>4, <1>5, <1>6, <1>8
<1> QED BY <1>1, <1>9, <1>10, <1>11

\* So no two are at the same place, and a later one ends further on.
LEMMA ModulesAscend ==
    ASSUME NEW l \in Libraries, NEW j \in 1 .. Len(l.modules) + 1, NEW k \in 1 .. Len(l.modules) + 1
    PROVE  /\ j <= k => ModuleAt(l, j) <= ModuleAt(l, k)
           /\ j < k => ModuleAt(l, j) < ModuleAt(l, k)
<1> PICK m \in Nat : m = Len(l.modules)
    BY ModulesInOrder
<1>1. \A i \in 1 .. m + 1 : ModuleAt(l, i) \in Nat
      BY ModulesInOrder
<1>2. \A i \in 1 .. m : ModuleAt(l, i) < ModuleAt(l, i + 1)
  <2> TAKE i \in 1 .. m
  <2>1. InPlace(l, i)
        BY ModulesInOrder
  <2> QED BY <2>1 DEF InPlace, MOD_HDR
<1> DEFINE S == {d \in Nat : j + d <= m + 1 => ModuleAt(l, j) <= ModuleAt(l, j + d) /\ (d # 0 => ModuleAt(l, j) < ModuleAt(l, j + d))}
<1>3. 0 \in S
  <2>1. j + 0 = j /\ ModuleAt(l, j) \in Nat
        BY <1>1
  <2> QED BY <2>1
<1>4. ASSUME NEW d \in Nat, d \in S PROVE d + 1 \in S
  <2> SUFFICES ASSUME j + (d + 1) <= m + 1
               PROVE  ModuleAt(l, j) < ModuleAt(l, j + (d + 1)) /\ ModuleAt(l, j) <= ModuleAt(l, j + (d + 1))
      OBVIOUS
  <2>1. j + d \in 1 .. m /\ j + d \in 1 .. m + 1 /\ j + (d + 1) = (j + d) + 1 /\ j + (d + 1) \in 1 .. m + 1
        OBVIOUS
  <2>2. ModuleAt(l, j) <= ModuleAt(l, j + d)
        BY <1>4, <2>1
  <2>3. ModuleAt(l, j + d) < ModuleAt(l, j + (d + 1))
        BY <1>2, <2>1
  <2>4. ModuleAt(l, j) \in Nat /\ ModuleAt(l, j + d) \in Nat /\ ModuleAt(l, j + (d + 1)) \in Nat
        BY <1>1, <2>1
  <2> QED BY <2>2, <2>3, <2>4
<1>5. ASSUME j <= k PROVE k - j \in S
  <2> HIDE DEF S
  <2> QED BY <1>3, <1>4, <1>5, SetInduction
<1>6. j + (k - j) = k
      OBVIOUS
<1> QED BY <1>5, <1>6

-----------------------------------------------------------------------------
\* Where the members begin, and where the archive stands after n of them.
MembersStart(ms) == AR_MAGIC + AR_HDR_SIZE + SymPayload(ms) + TableSize(NameTable(ms))
SofarAt(ms, n) == MembersStart(ms) + Total(UpTo([j \in DOMAIN ms |-> MemberSize(ms[j])], n + 1))
EvenNat(n) == n \in Nat /\ n % 2 = 0

\* The tables have an even size.
LEMMA StartIsEven ==
    ASSUME NEW ms, Found(ms)
    PROVE  EvenNat(MembersStart(ms))
<1>1. SymPayload(ms) \in Nat /\ SymPayload(ms) % 2 = 0
  <2> PICK s : s = Symbols33(ms)
      OBVIOUS
  <2>1. Len(s) \in Nat /\ DOMAIN s = 1 .. Len(s) /\ \A j \in 1 .. Len(s) : s[j] \in [sym : Nat, member : 1 .. Len(ms)]
        BY SymbolsOfMembers, LenProperties, ElementOfSeq DEF TableOf
  <2> PICK t : t = [j \in 1 .. Len(s) |-> s[j].sym + 1]
      OBVIOUS
  <2>2. t \in [1 .. Len(s) -> Nat]
        BY <2>1
  <2>3. Len(t) = Len(s) /\ \A j \in 1 .. Len(s) : t[j] \in Nat
        BY <2>1, <2>2
  <2>4. Total(t) \in Nat
        BY <2>1, <2>3, TotalNat
  <2>5. SymPayload(ms) = Even(4 + 4 * Len(s) + Total(t))
        BY <2>1 DEF SymPayload
  <2>6. 4 + 4 * Len(s) + Total(t) \in Nat
        BY <2>1, <2>4
  <2> QED BY <2>5, <2>6, EvenIs
<1>2. NameTable(ms) \in Nat /\ NameTable(ms) % 2 = 0
  <2>1. Len(ms) \in Nat /\ DOMAIN ms = 1 .. Len(ms) /\ \A j \in 1 .. Len(ms) : ms[j].name \in Nat
    <3>1. \A j \in 1 .. Len(ms) : ms[j] \in [srf : Nat \ {0}, name : Nat \ {0}, elf : Nat \ {0}, globals : Seq(Nat)]
          BY ElementOfSeq DEF Found
    <3> QED BY <3>1, LenProperties DEF Found
  <2> PICK t : t = [k \in 1 .. Len(ms) |-> IF LongName(ms[k]) THEN ms[k].name + 3 ELSE 0]
      OBVIOUS
  <2>2. t \in [1 .. Len(ms) -> Nat]
        BY <2>1
  <2>3. Len(t) = Len(ms) /\ \A j \in 1 .. Len(ms) : t[j] \in Nat
        BY <2>1, <2>2
  <2>4. Total(t) \in Nat
        BY <2>1, <2>3, TotalNat
  <2> QED BY <2>1, <2>4, EvenIs DEF NameTable
<1> PICK a \in Nat, b \in Nat : a = SymPayload(ms) /\ b = TableSize(NameTable(ms)) /\ a % 2 = 0 /\ b % 2 = 0
  <2>1. TableSize(NameTable(ms)) \in Nat /\ TableSize(NameTable(ms)) % 2 = 0
        BY <1>2 DEF TableSize, AR_HDR_SIZE
  <2> QED BY <1>1, <2>1
<1>3. (a + b) % 2 = 0
      BY EvenSum
<1>4. (68 + (a + b)) % 2 = 0
      BY <1>3, EvenSum
<1>5. MembersStart(ms) = 68 + (a + b)
      BY DEF MembersStart, AR_MAGIC, AR_HDR_SIZE
<1> QED BY <1>4, <1>5 DEF EvenNat

\* The offsets worked out for the members are where the archive will stand, and
\* even.
LEMMA OffsetsAreRight ==
    ASSUME NEW ms, Found(ms)
    PROVE  /\ Len(ms) \in Nat /\ DOMAIN MemberOffsets(ms) = 1 .. Len(ms)
           /\ SofarAt(ms, 0) = MembersStart(ms)
           /\ \A n \in 0 .. Len(ms) : EvenNat(SofarAt(ms, n))
           /\ \A n \in 0 .. Len(ms) - 1 :
                 /\ MemberOffsets(ms)[n + 1] = SofarAt(ms, n)
                 /\ SofarAt(ms, n + 1) = SofarAt(ms, n) + AR_HDR_SIZE + ms[n + 1].elf + (ms[n + 1].elf % 2)
<1> PICK m \in Nat : m = Len(ms)
    BY LenProperties DEF Found
<1>1. DOMAIN ms = 1 .. m /\ \A j \in 1 .. m : ms[j].elf \in Nat
  <2>1. \A j \in 1 .. Len(ms) : ms[j] \in [srf : Nat \ {0}, name : Nat \ {0}, elf : Nat \ {0}, globals : Seq(Nat)]
        BY ElementOfSeq DEF Found
  <2> QED BY <2>1, LenProperties DEF Found
<1>2. \A j \in 1 .. m : EvenNat(MemberSize(ms[j]))
  <2> TAKE j \in 1 .. m
  <2>1. Even(ms[j].elf) \in Nat /\ Even(ms[j].elf) % 2 = 0
        BY <1>1, EvenIs
  <2> QED BY <2>1 DEF MemberSize, AR_HDR_SIZE, EvenNat
<1> PICK sz \in [1 .. m -> Nat] : sz = [j \in 1 .. m |-> MemberSize(ms[j])]
    BY <1>2 DEF EvenNat
<1>3. \A n : SofarAt(ms, n) = MembersStart(ms) + Total(UpTo(sz, n + 1))
      BY <1>1 DEF SofarAt
<1>4. EvenNat(MembersStart(ms))
      BY StartIsEven
<1>5. \A j \in 1 .. m : sz[j] % 2 = 0
      BY <1>2 DEF EvenNat
<1>6. /\ Total(UpTo(sz, 1)) = 0
      /\ \A k \in 1 .. m + 1 : Total(UpTo(sz, k)) \in Nat /\ Total(UpTo(sz, k)) % 2 = 0
      /\ \A k \in 1 .. m : Total(UpTo(sz, k + 1)) = Total(UpTo(sz, k)) + sz[k]
      BY <1>5, TotalUpTo
<1>7. SofarAt(ms, 0) = MembersStart(ms)
  <2>1. 0 + 1 = 1
        OBVIOUS
  <2>2. SofarAt(ms, 0) = MembersStart(ms) + Total(UpTo(sz, 1))
        BY <1>3, <2>1
  <2> QED BY <1>4, <1>6, <2>2 DEF EvenNat
<1>8. ASSUME NEW n \in 0 .. m PROVE EvenNat(SofarAt(ms, n))
  <2> PICK a, b : a = MembersStart(ms) /\ b = Total(UpTo(sz, n + 1))
      OBVIOUS
  <2>1. n + 1 \in 1 .. m + 1
        OBVIOUS
  <2>2. b \in Nat /\ b % 2 = 0
        BY <1>6, <2>1
  <2>3. a \in Nat /\ a % 2 = 0
        BY <1>4 DEF EvenNat
  <2>4. (a + b) % 2 = 0 /\ a + b \in Nat
        BY <2>2, <2>3, EvenSums
  <2>5. SofarAt(ms, n) = a + b
        BY <1>3
  <2> QED BY <2>4, <2>5 DEF EvenNat
<1>9. ASSUME NEW n \in 0 .. m - 1
      PROVE  /\ MemberOffsets(ms)[n + 1] = SofarAt(ms, n)
             /\ SofarAt(ms, n + 1) = SofarAt(ms, n) + AR_HDR_SIZE + ms[n + 1].elf + (ms[n + 1].elf % 2)
  <2> PICK k \in 1 .. m : k = n + 1
      OBVIOUS
  <2>1. k \in 1 .. m + 1 /\ k + 1 \in 1 .. m + 1 /\ sz[k] = MemberSize(ms[k])
        OBVIOUS
  <2>2. SofarAt(ms, n) = MembersStart(ms) + Total(UpTo(sz, k)) /\ Total(UpTo(sz, k)) \in Nat
        BY <1>3, <1>6, <2>1
  <2>3. SofarAt(ms, k) = MembersStart(ms) + Total(UpTo(sz, k + 1)) /\ Total(UpTo(sz, k + 1)) = Total(UpTo(sz, k)) + sz[k]
        BY <1>3, <1>6, <2>1
  <2>4. MemberSize(ms[k]) = AR_HDR_SIZE + (ms[k].elf + (ms[k].elf % 2))
        BY DEF MemberSize, Even
  <2>5. ms[k].elf \in Nat /\ ms[k].elf % 2 \in Nat /\ MembersStart(ms) \in Nat
        BY <1>1, <1>4 DEF EvenNat
  <2>6. SofarAt(ms, k) = SofarAt(ms, n) + AR_HDR_SIZE + ms[k].elf + (ms[k].elf % 2)
    <3>1. PICK a, b, e, p, o, t, q, z :
                 /\ a = MembersStart(ms) /\ b = Total(UpTo(sz, k)) /\ e = ms[k].elf /\ p = ms[k].elf % 2
                 /\ o = SofarAt(ms, n) /\ t = Total(UpTo(sz, k + 1)) /\ q = SofarAt(ms, k) /\ z = sz[k]
          OBVIOUS
    <3>2. a \in Nat /\ b \in Nat /\ e \in Nat /\ p \in Nat
          BY <2>2, <2>5, <3>1
    <3>3. o = a + b /\ q = a + t /\ t = b + z
          BY <2>2, <2>3, <3>1
    <3>4. z = 60 + (e + p)
          BY <2>1, <2>4, <3>1 DEF AR_HDR_SIZE
    <3>5. q = o + 60 + e + p
          BY <3>2, <3>3, <3>4, AddedUp
    <3> QED BY <3>1, <3>5 DEF AR_HDR_SIZE
  <2>7. MemberOffsets(ms)[k] = SofarAt(ms, n)
    <3>1. [j \in 1 .. k - 1 |-> MemberSize(ms[j])] = UpTo(sz, k)
      <4>1. \A j \in 1 .. k - 1 : j \in 1 .. m /\ sz[j] = MemberSize(ms[j])
            OBVIOUS
      <4> QED BY <4>1 DEF UpTo
    <3>2. MemberOffsets(ms)[k] = MembersStart(ms) + Total([j \in 1 .. k - 1 |-> MemberSize(ms[j])])
          BY <1>1 DEF MemberOffsets, MembersStart
    <3> QED BY <2>2, <3>1, <3>2
  <2> QED BY <2>6, <2>7
<1>10. DOMAIN MemberOffsets(ms) = 1 .. m
       BY <1>1 DEF MemberOffsets
<1> QED BY <1>7, <1>8, <1>9, <1>10

-----------------------------------------------------------------------------
\* The parser has met a module that is cut off, or their end.
NoMoreModules == Len(modules) < Len(lib.modules) => ModuleAt(lib, Len(modules) + 2) > LibrarySize(lib)

\* How far the archive has got once its tables are there.
TablesWritten ==
    /\ NoMoreModules
    /\ layout = <<[k \in DOMAIN Symbols33(FoundModules) |->
                    [member |-> Symbols33(FoundModules)[k].member,
                     offset |-> MemberOffsets(FoundModules)[Symbols33(FoundModules)[k].member]]]>>
    /\ written \in Seq(Nat) /\ Len(written) <= Len(modules)
    /\ sofar = SofarAt(FoundModules, Len(written))
    /\ \A k \in 1 .. Len(written) : written[k] = MemberOffsets(FoundModules)[k]

\* What holds of the conversion all along: the modules are found in order, up
\* to the first that is not whole; the table's offsets are the ones worked out,
\* and every member is written where it was said to be.
ArInv ==
    /\ lib \in Libraries
    /\ Len(modules) \in 0 .. Len(lib.modules)
    /\ modules = [k \in 1 .. Len(modules) |-> k]
    /\ off = ModuleAt(lib, Len(modules) + 1)
    /\ \A k \in 1 .. Len(modules) : ModuleAt(lib, k + 1) <= LibrarySize(lib)
    /\ IF layout = <<>> THEN written = <<>> ELSE TablesWritten

\* The first modules of a library are modules.
LEMMA FirstModulesFound ==
    ASSUME NEW l \in Libraries, NEW n \in 0 .. Len(l.modules), NEW fm, fm = [k \in 1 .. n |-> l.modules[k]]
    PROVE  Found(fm) /\ Len(fm) = n /\ DOMAIN fm = 1 .. n /\ n \in Nat
<1>1. Len(l.modules) \in Nat /\ Found(l.modules) /\ DOMAIN l.modules = 1 .. Len(l.modules)
      BY ModulesInOrder
<1> PICK M : M = [srf : Nat \ {0}, name : Nat \ {0}, elf : Nat \ {0}, globals : Seq(Nat)]
    OBVIOUS
<1>2. \A k \in 1 .. Len(l.modules) : l.modules[k] \in M
      BY <1>1, ElementOfSeq DEF Found
<1>3. n \in Nat /\ fm \in [1 .. n -> M]
      BY <1>1, <1>2
<1>4. fm \in Seq(M)
      BY <1>3, SeqDef
<1> QED BY <1>3, <1>4 DEF Found

\* build_ar's modules, as long as the invariant holds.
LEMMA FoundAre ==
    ASSUME ArInv
    PROVE  /\ FoundModules = [k \in 1 .. Len(modules) |-> lib.modules[k]]
           /\ Found(FoundModules) /\ Len(FoundModules) = Len(modules)
<1> PICK n \in 0 .. Len(lib.modules) : n = Len(modules)
    BY DEF ArInv
<1>1. modules = [k \in 1 .. n |-> k]
      BY DEF ArInv
<1>2. FoundModules = [k \in 1 .. n |-> lib.modules[k]]
      BY <1>1 DEF FoundModules
<1>3. lib \in Libraries
      BY DEF ArInv
<1> QED BY <1>2, <1>3, FirstModulesFound

\* What lies where the parser stands.
LEMMA HereIs ==
    ASSUME ArInv
    PROVE  /\ Len(modules) \in Nat /\ Len(lib.modules) \in Nat /\ LibrarySize(lib) \in Int
           /\ AtModule => Len(modules) < Len(lib.modules)
           /\ Len(modules) < Len(lib.modules) =>
                 /\ (CHOOSE k \in Here : TRUE) = Len(modules) + 1
                 /\ EndHere = ModuleAt(lib, Len(modules) + 2)
                 /\ AtModule <=> ModuleAt(lib, Len(modules) + 2) <= LibrarySize(lib)
<1> PICK l \in Libraries : l = lib
    BY DEF ArInv
<1> PICK m \in Nat : m = Len(l.modules)
    BY ModulesInOrder
<1> PICK n \in 0 .. m : n = Len(modules)
    BY DEF ArInv
<1>1. n \in Nat /\ n + 1 \in 1 .. m + 1
      OBVIOUS
<1>2. off = ModuleAt(l, n + 1) /\ DOMAIN l.modules = 1 .. m /\ \A k \in 1 .. m + 1 : ModuleAt(l, k) \in Nat
      BY ModulesInOrder DEF ArInv
<1>3. \A k \in 1 .. m : ModuleAt(l, k) = ModuleAt(l, n + 1) => k = n + 1
  <2> TAKE k \in 1 .. m
  <2> PICK j \in 1 .. m + 1 : j = n + 1
      OBVIOUS
  <2>1. k \in 1 .. m + 1
        OBVIOUS
  <2>2. (j < k => ModuleAt(l, j) < ModuleAt(l, k)) /\ (k < j => ModuleAt(l, k) < ModuleAt(l, j))
        BY <2>1, ModulesAscend
  <2>3. ModuleAt(l, j) \in Nat /\ ModuleAt(l, k) \in Nat
        BY <1>2, <2>1
  <2> QED BY <2>2, <2>3
<1>4. \A k \in Here : k = n + 1 /\ n < m
      BY <1>2, <1>3 DEF Here
<1>5. LibrarySize(l) \in Int
  <2>1. l.tail \in Nat /\ l.cut \in Nat
        BY LibrariesAssumption
  <2>2. ModuleAt(l, m + 1) \in Nat
        BY <1>2
  <2> QED BY <2>1, <2>2 DEF LibrarySize
<1>6. AtModule => n < m
      BY <1>4 DEF AtModule
<1>7. ASSUME n < m
      PROVE  /\ (CHOOSE k \in Here : TRUE) = n + 1
             /\ EndHere = ModuleAt(l, n + 2)
             /\ AtModule <=> ModuleAt(l, n + 2) <= LibrarySize(l)
  <2>1. n + 1 \in Here
        BY <1>2, <1>7 DEF Here
  <2>2. (CHOOSE k \in Here : TRUE) = n + 1
        BY <1>4, <2>1
  <2>3. InPlace(l, n + 1) /\ (n + 1) + 1 = n + 2
        BY <1>7, ModulesInOrder
  <2> PICK o, z : o = ModuleAt(l, n + 1) /\ z = ModuleSize(l.modules[n + 1])
      OBVIOUS
  <2>4. o \in Nat /\ z \in Nat /\ z > 5 /\ ModuleAt(l, n + 2) = o + z
        BY <2>3 DEF InPlace, MOD_HDR
  <2>5. EndHere = o + z
        BY <1>2, <2>2 DEF EndHere
  <2>6. AtModule <=> o + 5 <= LibrarySize(l) /\ o + z <= LibrarySize(l)
        BY <1>2, <2>1, <2>5 DEF AtModule, MOD_HDR
  <2>7. AtModule <=> o + z <= LibrarySize(l)
        BY <1>5, <2>4, <2>6
  <2> QED BY <2>2, <2>4, <2>5, <2>7
<1> QED BY <1>1, <1>5, <1>6, <1>7

\* lib33_parse starts at the first module.
LEMMA ArInvInit == ArInit => ArInv
<1> SUFFICES ASSUME ArInit PROVE ArInv
    OBVIOUS
<1>1. lib \in Libraries /\ modules = <<>> /\ Len(modules) = 0 /\ layout = <<>> /\ written = <<>>
      BY DEF ArInit
<1>2. Len(lib.modules) \in Nat /\ off = ModuleAt(lib, 1)
      BY <1>1, ModulesInOrder DEF ArInit
<1>3. modules = [k \in 1 .. 0 |-> k]
      BY <1>1
<1> QED BY <1>1, <1>2, <1>3 DEF ArInv

\* Finding a module keeps the invariant.
LEMMA ArInvParse == ArInv /\ ParseModule => ArInv'
<1> SUFFICES ASSUME ArInv, ParseModule PROVE ArInv'
    OBVIOUS
<1> PICK n : n = Len(modules)
    OBVIOUS
<1>1. n \in Nat /\ Len(lib.modules) \in Nat /\ n < Len(lib.modules)
      BY HereIs DEF ParseModule
<1>2. modules' = Append(modules, n + 1) /\ off' = ModuleAt(lib, n + 2) /\ ModuleAt(lib, n + 2) <= LibrarySize(lib)
      BY <1>1, HereIs DEF ParseModule
<1>3. lib' = lib /\ layout' = <<>> /\ written' = <<>> /\ lib \in Libraries
      BY DEF ParseModule, ArInv
<1>4. modules = [k \in 1 .. n |-> k]
      BY DEF ArInv
<1>5. Len(modules') = n + 1 /\ modules' = [k \in 1 .. n + 1 |-> k]
  <2>1. modules \in Seq(Nat)
        BY <1>1, <1>4
  <2> QED BY <1>1, <1>2, <1>4, <2>1
<1>6. \A k \in 1 .. n + 1 : ModuleAt(lib, k + 1) <= LibrarySize(lib)
  <2> TAKE k \in 1 .. n + 1
  <2>1. CASE k \in 1 .. n
        BY <2>1 DEF ArInv
  <2>2. CASE k = n + 1
    <3>1. k + 1 = n + 2
          BY <1>1, <2>2
    <3> QED BY <1>2, <3>1
  <2> QED BY <1>1, <2>1, <2>2
<1>7. (n + 1) + 1 = n + 2 /\ n + 1 \in 0 .. Len(lib.modules)
      BY <1>1
<1> QED BY <1>2, <1>3, <1>5, <1>6, <1>7 DEF ArInv

\* What the invariant says of a step that changes neither the library nor the
\* modules found.
LEMMA SameModules ==
    ASSUME UNCHANGED <<lib, off, modules>>
    PROVE  FoundModules' = FoundModules /\ (NoMoreModules <=> NoMoreModules')
BY DEF FoundModules, NoMoreModules

\* Writing the tables keeps the invariant.
LEMMA ArInvTables == ArInv /\ WriteTables => ArInv'
<1> SUFFICES ASSUME ArInv, WriteTables PROVE ArInv'
    OBVIOUS
<1>1. UNCHANGED <<lib, off, modules>> /\ written' = <<>>
      BY DEF WriteTables, ArInv
<1>2. FoundModules' = FoundModules
      BY <1>1 DEF FoundModules
<1>3. NoMoreModules'
  <2>1. Len(modules) < Len(lib.modules) => ModuleAt(lib, Len(modules) + 2) > LibrarySize(lib)
    <3> SUFFICES ASSUME Len(modules) < Len(lib.modules) PROVE ModuleAt(lib, Len(modules) + 2) > LibrarySize(lib)
        OBVIOUS
    <3>1. ~ (ModuleAt(lib, Len(modules) + 2) <= LibrarySize(lib)) /\ LibrarySize(lib) \in Int
          BY HereIs DEF WriteTables
    <3>2. Len(modules) \in Nat /\ Len(lib.modules) \in Nat /\ lib \in Libraries
          BY HereIs DEF ArInv
    <3>3. Len(modules) + 2 \in 1 .. Len(lib.modules) + 1
          BY <3>2
    <3>4. ModuleAt(lib, Len(modules) + 2) \in Nat
          BY <3>2, <3>3, ModulesInOrder
    <3> QED BY <3>1, <3>4
  <2> QED BY <1>1, <2>1 DEF NoMoreModules
<1>4. TablesWritten'
  <2>1. written' \in Seq(Nat) /\ Len(written') = 0 /\ Len(modules) \in Nat
        BY <1>1, EmptySeq, HereIs
  <2>2. sofar' = SofarAt(FoundModules, 0)
        BY FoundAre, OffsetsAreRight DEF WriteTables, MembersStart
  <2>3. layout' = <<[k \in DOMAIN Symbols33(FoundModules) |->
                    [member |-> Symbols33(FoundModules)[k].member,
                     offset |-> MemberOffsets(FoundModules)[Symbols33(FoundModules)[k].member]]]>>
        BY DEF WriteTables
  <2> QED BY <1>1, <1>2, <1>3, <2>1, <2>2, <2>3 DEF TablesWritten
<1>5. layout' # <<>>
      BY DEF WriteTables
<1> QED BY <1>1, <1>4, <1>5 DEF ArInv

\* Writing a member keeps the invariant.
LEMMA ArInvMember == ArInv /\ WriteMember => ArInv'
<1> SUFFICES ASSUME ArInv, WriteMember PROVE ArInv'
    OBVIOUS
<1>1. UNCHANGED <<lib, off, modules, layout>> /\ layout # <<>> /\ TablesWritten
      BY DEF WriteMember, ArInv
<1>2. FoundModules' = FoundModules
      BY <1>1 DEF FoundModules
<1> PICK ms : ms = FoundModules
    OBVIOUS
<1> PICK w : w = Len(written)
    OBVIOUS
<1>3. /\ written \in Seq(Nat) /\ w \in Nat /\ w < Len(ms) /\ Len(ms) = Len(modules) /\ Len(ms) \in Nat
      /\ written' = Append(written, sofar) /\ sofar = SofarAt(ms, w)
      BY <1>1, FoundAre, HereIs DEF WriteMember, TablesWritten
<1>4. Found(ms)
      BY FoundAre
<1>5. sofar' = sofar + AR_HDR_SIZE + ms[w + 1].elf + (ms[w + 1].elf % 2)
      BY DEF WriteMember
<1>6. w \in 0 .. Len(ms) - 1 /\ w \in 0 .. Len(ms)
      BY <1>3
<1>7. sofar \in Nat
      BY <1>3, <1>4, <1>6, OffsetsAreRight DEF EvenNat
<1>8. sofar' = SofarAt(ms, w + 1) /\ MemberOffsets(ms)[w + 1] = sofar
      BY <1>3, <1>4, <1>5, <1>6, OffsetsAreRight
<1>9. /\ written' \in Seq(Nat) /\ Len(written') = w + 1
      /\ \A k \in 1 .. w + 1 : written'[k] = IF k = w + 1 THEN sofar ELSE written[k]
      BY <1>3, <1>7
<1>10. \A k \in 1 .. w + 1 : written'[k] = MemberOffsets(ms)[k]
  <2> TAKE k \in 1 .. w + 1
  <2>1. CASE k = w + 1
        BY <1>8, <1>9, <2>1
  <2>2. CASE k # w + 1
    <3>1. k \in 1 .. w
          BY <1>3, <2>2
    <3> QED BY <1>1, <1>9, <2>2, <3>1 DEF TablesWritten
  <2> QED BY <2>1, <2>2
<1>11. TablesWritten'
  <2>1. NoMoreModules'
        BY <1>1 DEF TablesWritten, NoMoreModules
  <2>2. Len(written') <= Len(modules')
        BY <1>1, <1>3, <1>9
  <2>3. layout' = <<[k \in DOMAIN Symbols33(ms) |->
                    [member |-> Symbols33(ms)[k].member,
                     offset |-> MemberOffsets(ms)[Symbols33(ms)[k].member]]]>>
        BY <1>1 DEF TablesWritten
  <2> QED BY <1>2, <1>8, <1>9, <1>10, <2>1, <2>2, <2>3 DEF TablesWritten
<1> QED BY <1>1, <1>11 DEF ArInv

\* No step but those changes anything.
LEMMA ArInvStep == ArInv /\ [ArNext]_arVars => ArInv'
<1> SUFFICES ASSUME ArInv, [ArNext]_arVars PROVE ArInv'
    OBVIOUS
<1>1. CASE ParseModule
      BY <1>1, ArInvParse
<1>2. CASE WriteTables
      BY <1>2, ArInvTables
<1>3. CASE WriteMember
      BY <1>3, ArInvMember
<1>4. CASE UNCHANGED arVars
      BY <1>4 DEF arVars, ArInv, TablesWritten, NoMoreModules, FoundModules
<1> QED BY <1>1, <1>2, <1>3, <1>4 DEF ArNext

\* The entries of an archive whose members are all written.
LEMMA ArchiveFindsMembers == ArInv => ArFindsMembers
<1> SUFFICES ASSUME ArInv, Archived, NEW k \in DOMAIN lib.modules,
                    NEW entries, entries = {e \in DOMAIN layout[1] : modules[layout[1][e].member] = k}
             PROVE  /\ Cardinality(entries) = IF k \in Whole(lib) THEN Len(lib.modules[k].globals) ELSE 0
                    /\ \A e \in entries : /\ layout[1][e].offset % 2 = 0
                                          /\ layout[1][e].offset = written[layout[1][e].member]
    BY DEF ArFindsMembers
<1> PICK l \in Libraries : l = lib
    BY DEF ArInv
<1> PICK n \in Nat : n = Len(modules)
    BY HereIs
<1> PICK m \in Nat : m = Len(l.modules)
    BY HereIs
<1> PICK ms : ms = FoundModules
    OBVIOUS
<1> PICK s : s = Symbols33(ms)
    OBVIOUS
<1>1. TablesWritten /\ Len(written) = n /\ n <= m /\ k \in 1 .. m
      BY ModulesInOrder DEF ArInv, Archived
<1>2. Found(ms) /\ Len(ms) = n /\ ms = [j \in 1 .. n |-> l.modules[j]]
      BY FoundAre
<1>3. TableOf(s, ms, n)
      BY <1>2, SymbolsOfMembers
<1>4. /\ Len(s) \in Nat /\ DOMAIN s = 1 .. Len(s)
      /\ \A e \in 1 .. Len(s) : s[e] \in [sym : Nat, member : 1 .. n]
      BY <1>3, LenProperties, ElementOfSeq DEF TableOf
<1>5. /\ DOMAIN layout[1] = 1 .. Len(s)
      /\ \A e \in 1 .. Len(s) : layout[1][e].member = s[e].member /\ layout[1][e].offset = MemberOffsets(ms)[s[e].member]
  <2> PICK t : t = layout[1]
      OBVIOUS
  <2>1. t = [e \in DOMAIN s |-> [member |-> s[e].member, offset |-> MemberOffsets(ms)[s[e].member]]]
        BY <1>1 DEF TablesWritten
  <2>2. \A e \in 1 .. Len(s) : t[e].member = s[e].member /\ t[e].offset = MemberOffsets(ms)[s[e].member]
        BY <1>4, <2>1
  <2>3. DOMAIN t = 1 .. Len(s)
        BY <1>4, <2>1
  <2> QED BY <2>2, <2>3
<1>6. \A e \in 1 .. Len(s) : s[e].member \in 1 .. n /\ modules[s[e].member] = s[e].member
  <2>1. modules = [j \in 1 .. n |-> j]
        BY DEF ArInv
  <2> QED BY <1>4, <2>1
<1>7. entries = {e \in 1 .. Len(s) : s[e].member = k}
  <2>1. \A e \in 1 .. Len(s) : modules[layout[1][e].member] = s[e].member
        BY <1>5, <1>6
  <2> QED BY <1>5, <2>1
<1>8. Cardinality(entries) = IF k \in Whole(lib) THEN Len(lib.modules[k].globals) ELSE 0
  <2>1. CASE k <= n
    <3>1. k \in 1 .. n /\ ms[k] = l.modules[k]
          BY <1>1, <1>2, <2>1
    <3> PICK c : c = Len(ms[k].globals)
        OBVIOUS
    <3>2. PICK a : EntriesFrom(s, k, a, c)
          BY <1>3, <3>1 DEF TableOf
    <3>3. c \in Nat
          BY <1>2, <3>1, BlockIs
    <3>4. Cardinality(entries) = c
          BY <1>4, <1>7, <3>2, <3>3, EntriesCount
    <3>5. k \in Whole(lib)
          BY <3>1 DEF ArInv, Whole
    <3> QED BY <3>1, <3>4, <3>5
  <2>2. CASE k > n
    <3>1. entries = {}
          BY <1>6, <1>7, <2>2
    <3>2. Cardinality(entries) = 0
          BY <3>1, FS_EmptySet
    <3>3. k \notin Whole(lib)
      <4> PICK i \in 1 .. m + 1, j \in 1 .. m + 1 : i = n + 2 /\ j = k + 1
          BY <1>1, <2>2
      <4>1. i <= j
            BY <2>2
      <4>2. ModuleAt(l, i) <= ModuleAt(l, j)
            BY <4>1, ModulesAscend
      <4>3. ModuleAt(l, i) > LibrarySize(l)
            BY <1>1, <2>2 DEF TablesWritten, NoMoreModules
      <4>4. ModuleAt(l, i) \in Nat /\ ModuleAt(l, j) \in Nat /\ LibrarySize(l) \in Int
            BY ModulesInOrder, HereIs
      <4> QED BY <4>2, <4>3, <4>4 DEF Whole
    <3> QED BY <3>2, <3>3
  <2> QED BY <1>1, <2>1, <2>2
<1>9. ASSUME NEW e \in entries
      PROVE  layout[1][e].offset % 2 = 0 /\ layout[1][e].offset = written[layout[1][e].member]
  <2>1. e \in 1 .. Len(s) /\ k \in 1 .. n /\ layout[1][e].member = k /\ layout[1][e].offset = MemberOffsets(ms)[k]
    <3>1. e \in 1 .. Len(s) /\ s[e].member = k
          BY <1>7
    <3> QED BY <1>5, <1>6, <3>1
  <2>2. written[k] = MemberOffsets(ms)[k]
        BY <1>1, <2>1 DEF TablesWritten
  <2>3. k - 1 \in 0 .. Len(ms) /\ k - 1 \in 0 .. Len(ms) - 1 /\ (k - 1) + 1 = k
        BY <1>2, <2>1
  <2>4. EvenNat(SofarAt(ms, k - 1)) /\ MemberOffsets(ms)[(k - 1) + 1] = SofarAt(ms, k - 1)
        BY <1>2, <2>3, OffsetsAreRight
  <2> QED BY <2>1, <2>2, <2>3, <2>4 DEF EvenNat
<1> QED BY <1>8, <1>9

\* srf2elf's archive lets a linker find every symbol of the whole modules: the
\* offsets that are worked out before anything is written are those at which
\* the members are then written.
THEOREM ArchiveOffsets == ArSpec => []ArFindsMembers
<1>1. ArSpec => []ArInv
      BY ArInvInit, ArInvStep, PTL DEF ArSpec
<1> QED BY <1>1, ArchiveFindsMembers, PTL

-----------------------------------------------------------------------------
\* The sections of an SRF33 file.
LEMMA SectionsAre ==
    ASSUME NEW secs \in SrfObjects
    PROVE  /\ secs \in Seq(Sections33) /\ Len(secs) \in Nat /\ DOMAIN secs = 1 .. Len(secs)
           /\ \A i \in 1 .. Len(secs) : secs[i] \in Sections33
<1>1. secs \in Seq(Sections33)
      BY SrfToElfAssumption
<1> QED BY <1>1, LenProperties, ElementOfSeq

\* The sizes of the sections of a kind, as they are in the merged one.
SizesOf(secs, kind) == [j \in 1 .. Len(secs) |-> IF secs[j].s_scntyp = kind THEN secs[j].s_dsiz ELSE 0]

\* The base of a section is the sum of the sizes of those of its kind before
\* it.
LEMMA BaseIs ==
    ASSUME sections \in SrfObjects, NEW i \in 1 .. Len(sections), sections[i].s_scntyp # "BSS"
    PROVE  /\ elf_section_base(i) = Total(UpTo(SizesOf(sections, sections[i].s_scntyp), i))
           /\ elf_section_base(i) \in Nat
<1> PICK kind : kind = sections[i].s_scntyp
    OBVIOUS
<1> PICK m \in Nat : m = Len(sections)
    BY SectionsAre
<1> PICK ls : ls = SizesOf(sections, kind)
    OBVIOUS
<1>1. ls \in [1 .. m -> Nat]
  <2>1. \A j \in 1 .. m : sections[j].s_dsiz \in Nat
    <3>1. \A j \in 1 .. m : sections[j] \in Sections33
          BY SectionsAre
    <3> QED BY <3>1 DEF Sections33
  <2>2. ls = [j \in 1 .. m |-> IF sections[j].s_scntyp = kind THEN sections[j].s_dsiz ELSE 0]
        BY DEF SizesOf
  <2> QED BY <2>1, <2>2
<1>2. UpTo(ls, i) = [j \in 1 .. i - 1 |-> IF sections[j].s_scntyp = sections[i].s_scntyp THEN sections[j].s_dsiz ELSE 0]
  <2>1. \A j \in 1 .. i - 1 : j \in 1 .. m
        OBVIOUS
  <2>2. \A j \in 1 .. i - 1 : ls[j] = IF sections[j].s_scntyp = sections[i].s_scntyp THEN sections[j].s_dsiz ELSE 0
        BY <2>1 DEF SizesOf
  <2> QED BY <2>2 DEF UpTo
<1>3. elf_section_base(i) = Total(UpTo(ls, i))
      BY <1>2 DEF elf_section_base
<1>4. Total(UpTo(ls, i)) \in Nat
  <2>1. i \in 1 .. m + 1
        OBVIOUS
  <2> QED BY <1>1, <2>1, TotalUpTo
<1> QED BY <1>3, <1>4

\* A word of a section is in the merged section where the section's base says.
LEMMA WordsInPlace ==
    ASSUME sections \in SrfObjects, NEW i \in 1 .. Len(sections), sections[i].s_scntyp # "BSS",
           NEW o \in Nat, o < sections[i].s_dsiz
    PROVE  Words33(sections[i].s_scntyp)[(o + elf_section_base(i)) + 1] = <<i, o>>
<1> PICK kind : kind = sections[i].s_scntyp
    OBVIOUS
<1> PICK m \in Nat : m = Len(sections)
    BY SectionsAre
<1>1. DOMAIN sections = 1 .. m /\ \A j \in 1 .. m : sections[j].s_dsiz \in Nat
  <2>1. \A j \in 1 .. m : sections[j] \in Sections33
        BY SectionsAre
  <2> QED BY <2>1, SectionsAre DEF Sections33
<1> PICK ss : ss = [j \in DOMAIN sections |-> IF sections[j].s_scntyp = kind
                                              THEN [k \in 1 .. sections[j].s_dsiz |-> <<j, k - 1>>] ELSE <<>>]
    OBVIOUS
<1>2. Len(ss) = m /\ \A j \in 1 .. m : ss[j] = IF sections[j].s_scntyp = kind
                                              THEN [k \in 1 .. sections[j].s_dsiz |-> <<j, k - 1>>] ELSE <<>>
      BY <1>1
<1> PICK W : W = Nat \X Nat
    OBVIOUS
<1>3. \A j \in 1 .. m : ss[j] \in Seq(W) /\ Len(ss[j]) = IF sections[j].s_scntyp = kind THEN sections[j].s_dsiz ELSE 0
  <2> TAKE j \in 1 .. m
  <2>1. CASE sections[j].s_scntyp = kind
    <3> PICK d \in Nat : d = sections[j].s_dsiz
        BY <1>1
    <3> PICK u : u = [k \in 1 .. d |-> <<j, k - 1>>]
        OBVIOUS
    <3>1. u \in [1 .. d -> W]
          OBVIOUS
    <3>2. u \in Seq(W) /\ Len(u) = d
          BY <3>1, FunctionIsSeq
    <3> QED BY <1>2, <2>1, <3>2
  <2>2. CASE sections[j].s_scntyp # kind
        BY <1>2, <2>2, EmptySeq
  <2> QED BY <2>1, <2>2
<1> PICK ls : ls = LengthsOf(ss, m)
    OBVIOUS
<1>4. ls = SizesOf(sections, kind)
      BY <1>3 DEF SizesOf, LengthsOf
<1> PICK x \in Nat : x = o + 1
    OBVIOUS
<1>5. x \in 1 .. Len(ss[i]) /\ ss[i][x] = <<i, o>>
  <2>1. x \in 1 .. sections[i].s_dsiz /\ x - 1 = o
        BY <1>1
  <2>2. ss[i] = [k \in 1 .. sections[i].s_dsiz |-> <<i, k - 1>>] /\ Len(ss[i]) = sections[i].s_dsiz
        BY <1>2, <1>3
  <2> QED BY <2>1, <2>2
<1>6. SeqsOver(W, ss, m)
      BY <1>2, <1>3 DEF SeqsOver
<1>7. Joined(ss)[Total(UpTo(ls, i)) + x] = ss[i][x]
  <2>1. InItsPlace(ss, ls, i, x)
        BY <1>5, <1>6, JoinedPlaces
  <2> QED BY <2>1 DEF InItsPlace
<1> PICK b \in Nat : b = elf_section_base(i)
    BY BaseIs
<1>8. b = Total(UpTo(ls, i))
      BY <1>4, BaseIs
<1>9. (o + b) + 1 = b + x
      OBVIOUS
<1>10. Words33(kind) = Joined(ss)
       BY DEF Words33
<1> QED BY <1>5, <1>7, <1>8, <1>9, <1>10

-----------------------------------------------------------------------------
\* The symbols of the first n sections.
SymSet(n) == UNION {{SymbolOf(i, k) : k \in DOMAIN sections[i].externs} : i \in 1 .. n}

\* The two lists hold these symbols and no others.
SymbolsUpTo(n) ==
    /\ local_syms \in Seq(SymSet(n)) /\ global_syms \in Seq(SymSet(n))
    /\ \A i \in 1 .. n : \A k \in DOMAIN sections[i].externs :
          Occurs(SymbolOf(i, k), local_syms) \/ Occurs(SymbolOf(i, k), global_syms)

\* They are the same as long as the sections are.
LEMMA SymbolsStay ==
    ASSUME sections' = sections
    PROVE  (\A j, k : SymbolOf(j, k)' = SymbolOf(j, k)) /\ \A n : SymSet(n)' = SymSet(n)
<1>1. \A j, k : SymbolOf(j, k)' = SymbolOf(j, k)
      BY DEF SymbolOf, elf_section_base
<1>2. \A n : SymSet(n)' = SymSet(n)
      BY <1>1 DEF SymSet
<1> QED BY <1>1, <1>2

\* What occurs in a sequence occurs in it with more behind or before it.
LEMMA OccursConcat ==
    ASSUME NEW S, NEW u \in Seq(S), NEW v \in Seq(S), NEW w, w = u \o v, NEW e
    PROVE  (Occurs(e, u) => Occurs(e, w)) /\ (Occurs(e, v) => Occurs(e, w))
<1>1. IsConcat(S, u, v, w)
      BY ConcatIs
<1>2. ASSUME Occurs(e, u) PROVE Occurs(e, w)
  <2>1. PICK x \in 1 .. Len(u) : u[x] = e
        BY <1>2 DEF Occurs
  <2>2. x \in 1 .. Len(u) + Len(v) /\ w[x] = e
        BY <1>1, <2>1, InSumToo DEF IsConcat
  <2> QED BY <1>1, <2>2 DEF IsConcat, Occurs
<1>3. ASSUME Occurs(e, v) PROVE Occurs(e, w)
  <2>1. PICK x \in 1 .. Len(v) : v[x] = e
        BY <1>3 DEF Occurs
  <2>2. Len(u) + x \in 1 .. Len(u) + Len(v)
        BY <1>1, <2>1, InSum DEF IsConcat
  <2>3. w[Len(u) + x] = e /\ Len(u) + x \in 1 .. Len(w)
        BY <1>1, <2>1, <2>2 DEF IsConcat
  <2> QED BY <2>3 DEF Occurs
<1> QED BY <1>2, <1>3

\* A section more, and its symbols are in the lists, too.
LEMMA CollectKeeps ==
    ASSUME sections \in SrfObjects, NEW n \in Nat, srf_sec_idx = n + 1, SymbolsUpTo(n), CollectExterns
    PROVE  SymbolsUpTo(n + 1)'
<1> PICK i \in Nat : i = n + 1
    OBVIOUS
<1> PICK exts : exts = sections[i].externs
    OBVIOUS
<1> PICK syms : syms = [k \in DOMAIN exts |-> SymbolOf(i, k)]
    OBVIOUS
<1> PICK locals : locals = {k \in DOMAIN exts : exts[k].e_extyp = "LOCAL"}
    OBVIOUS
<1> PICK S : S = SymSet(i)
    OBVIOUS
<1>1. /\ local_syms' = local_syms \o Selected(syms, locals)
      /\ global_syms' = global_syms \o Selected(syms, DOMAIN exts \ locals)
      /\ sections' = sections /\ i \in 1 .. Len(sections)
      BY SectionsAre DEF CollectExterns
<1>2. exts \in Seq(Externs33)
  <2>1. sections[i] \in Sections33
        BY <1>1, SectionsAre
  <2> QED BY <2>1 DEF Sections33
<1> PICK m \in Nat : m = Len(exts)
    BY <1>2, LenProperties
<1>3. DOMAIN exts = 1 .. m
      BY <1>2, LenProperties
<1>4. \A k \in 1 .. m : SymbolOf(i, k) \in S
      BY <1>3 DEF SymSet
<1>5. syms \in Seq(S) /\ Len(syms) = m
  <2>1. syms \in [1 .. m -> S]
        BY <1>3, <1>4
  <2> QED BY <2>1, FunctionIsSeq
<1> PICK l : l = Selected(syms, locals)
    OBVIOUS
<1> PICK others : others = DOMAIN exts \ locals
    OBVIOUS
<1> PICK g : g = Selected(syms, others)
    OBVIOUS
<1>6. l \in Seq(S) /\ g \in Seq(S)
      BY <1>5, SelectedTyped
<1>7. \A k \in 1 .. m : Occurs(SymbolOf(i, k), l) \/ Occurs(SymbolOf(i, k), g)
  <2> TAKE k \in 1 .. m
  <2>1. syms[k] = SymbolOf(i, k) /\ k \in 1 .. Len(syms)
        BY <1>3, <1>5
  <2>k. \A keep : k \in keep => Occurs(syms[k], Selected(syms, keep))
       BY <1>5, <2>1, SelectedHas
  <2>2. CASE k \in locals
    <3>1. Occurs(syms[k], l)
          BY <2>2, <2>k
    <3> QED BY <2>1, <3>1
  <2>3. CASE k \notin locals
    <3>1. k \in others
          BY <1>3, <2>3
    <3>2. Occurs(syms[k], g)
          BY <3>1, <2>k
    <3> QED BY <2>1, <3>2
  <2> QED BY <2>2, <2>3
<1>8. SymSet(n) \subseteq S
  <2>1. \A j \in 1 .. n : j \in 1 .. i
        OBVIOUS
  <2> QED BY <2>1 DEF SymSet
<1>9. local_syms \in Seq(S) /\ global_syms \in Seq(S)
      BY <1>8, SeqMonotonic DEF SymbolsUpTo
<1>10. local_syms' \in Seq(S) /\ global_syms' \in Seq(S)
       BY <1>1, <1>6, <1>9, ConcatProperties
<1>11. \A j \in 1 .. i : \A k \in DOMAIN sections[j].externs :
          Occurs(SymbolOf(j, k), local_syms') \/ Occurs(SymbolOf(j, k), global_syms')
  <2> TAKE j \in 1 .. i
  <2> TAKE k \in DOMAIN sections[j].externs
  <2> PICK e : e = SymbolOf(j, k)
      OBVIOUS
  <2>1. \/ Occurs(e, local_syms) \/ Occurs(e, global_syms)
        \/ Occurs(e, l) \/ Occurs(e, g)
    <3>1. CASE j = i
          BY <1>3, <1>7, <3>1
    <3>2. CASE j # i
      <4>1. j \in 1 .. n
            BY <3>2
      <4> QED BY <4>1 DEF SymbolsUpTo
    <3> QED BY <3>1, <3>2
  <2>2. local_syms' = local_syms \o l /\ global_syms' = global_syms \o g
        BY <1>1
  <2>3. ASSUME NEW u \in Seq(S), NEW v \in Seq(S), NEW w, w = u \o v
        PROVE  Occurs(e, u) \/ Occurs(e, v) => Occurs(e, w)
    <3>1. (Occurs(e, u) => Occurs(e, w)) /\ (Occurs(e, v) => Occurs(e, w))
          BY <2>3, OccursConcat
    <3> QED BY <3>1
  <2>4. Occurs(e, local_syms) \/ Occurs(e, l) => Occurs(e, local_syms')
        BY <1>6, <1>9, <2>2, <2>3
  <2>5. Occurs(e, global_syms) \/ Occurs(e, g) => Occurs(e, global_syms')
        BY <1>6, <1>9, <2>2, <2>3
  <2> QED BY <2>1, <2>4, <2>5
<1>12. (\A j, k : SymbolOf(j, k)' = SymbolOf(j, k)) /\ S = SymSet(n + 1)'
       BY <1>1, SymbolsStay
<1> QED BY <1>1, <1>10, <1>11, <1>12 DEF SymbolsUpTo

\* The index has a section's externs and no others, each at its symbol's entry.
IndexedAt(i, k) ==
    /\ <<i, k>> \in DOMAIN srf_sym_index <=> k \in DOMAIN sections[i].externs
    /\ k \in DOMAIN sections[i].externs => symtab[srf_sym_index[<<i, k>>] + 1] = SymbolOf(i, k)
Indexed == \A i \in 1 .. Len(sections) : \A k \in Nat : IndexedAt(i, k)

\* The symbols behind the null symbol are found where the index says.
LEMMA AddIndexes ==
    ASSUME sections \in SrfObjects, SymbolsUpTo(Len(sections)), AddSymbols
    PROVE  Indexed'
<1> PICK m \in Nat : m = Len(sections)
    BY SectionsAre
<1> PICK S : S = SymSet(m)
    OBVIOUS
<1> PICK syms : syms = local_syms \o global_syms
    OBVIOUS
<1>1. symtab' = <<NullSym>> \o syms /\ srf_sym_index' = Indices(syms) /\ sections' = sections
      BY DEF AddSymbols
<1>2. /\ local_syms \in Seq(S) /\ global_syms \in Seq(S)
      /\ \A i \in 1 .. m : \A k \in DOMAIN sections[i].externs :
            Occurs(SymbolOf(i, k), local_syms) \/ Occurs(SymbolOf(i, k), global_syms)
      BY DEF SymbolsUpTo
<1>3. syms \in Seq(S)
      BY <1>2, ConcatProperties
<1> PICK n \in Nat : n = Len(syms)
    BY <1>3, LenProperties
<1>4. DOMAIN syms = 1 .. n /\ \A x \in 1 .. n : syms[x] \in S
      BY <1>3, LenProperties, ElementOfSeq
<1>5. ASSUME NEW i \in 1 .. m, NEW k \in DOMAIN sections[i].externs
      PROVE  \E x \in 1 .. n : syms[x] = SymbolOf(i, k)
  <2> PICK e : e = SymbolOf(i, k)
      OBVIOUS
  <2>1. (Occurs(e, local_syms) => Occurs(e, syms)) /\ (Occurs(e, global_syms) => Occurs(e, syms))
        BY <1>2, OccursConcat
  <2>2. Occurs(e, syms)
        BY <1>2, <2>1
  <2> QED BY <2>2 DEF Occurs
<1>6. \A x \in 1 .. n : \E i \in 1 .. m : \E k \in DOMAIN sections[i].externs :
          syms[x] = SymbolOf(i, k) /\ syms[x].sec = i /\ syms[x].ext = k
  <2> TAKE x \in 1 .. n
  <2>1. PICK i \in 1 .. m : \E k \in DOMAIN sections[i].externs : syms[x] = SymbolOf(i, k)
    <3>1. syms[x] \in SymSet(m)
          BY <1>4
    <3> QED BY <3>1 DEF SymSet
  <2>2. PICK k \in DOMAIN sections[i].externs : syms[x] = SymbolOf(i, k)
        BY <2>1
  <2>3. SymbolOf(i, k).sec = i /\ SymbolOf(i, k).ext = k
        BY DEF SymbolOf
  <2> QED BY <2>2, <2>3
<1> PICK index : index = Indices(syms)
    OBVIOUS
<1>7. /\ DOMAIN index = {<<syms[x].sec, syms[x].ext>> : x \in 1 .. n}
      /\ \A key \in DOMAIN index : index[key] = CHOOSE x \in 1 .. n : <<syms[x].sec, syms[x].ext>> = key
      BY <1>4 DEF Indices
<1>8. \A x \in 1 .. n : symtab'[x + 1] = syms[x]
  <2> PICK T : T = S \cup {NullSym}
      OBVIOUS
  <2>1. syms \in Seq(T)
    <3>1. S \subseteq T
          OBVIOUS
    <3> QED BY <1>3, <3>1, SeqMonotonic
  <2> PICK u : u = <<NullSym>>
      OBVIOUS
  <2>2. u \in Seq(T) /\ Len(u) = 1
    <3>1. NullSym \in T
          OBVIOUS
    <3> QED BY <3>1
  <2> PICK w : w = u \o syms
      OBVIOUS
  <2>3. IsConcat(T, u, syms, w)
        BY <2>1, <2>2, ConcatIs
  <2>4. \A x \in 1 .. n : w[1 + x] = syms[x] /\ 1 + x = x + 1
        BY <2>2, <2>3 DEF IsConcat
  <2> QED BY <1>1, <2>4
<1>9. ASSUME NEW i \in 1 .. m, NEW k \in DOMAIN sections[i].externs
      PROVE  <<i, k>> \in DOMAIN index /\ symtab'[index[<<i, k>>] + 1] = SymbolOf(i, k)
  <2>1. PICK x \in 1 .. n : syms[x].sec = i /\ syms[x].ext = k
    <3>1. PICK x \in 1 .. n : syms[x] = SymbolOf(i, k)
          BY <1>5
    <3>2. SymbolOf(i, k).sec = i /\ SymbolOf(i, k).ext = k
          BY DEF SymbolOf
    <3> QED BY <3>1, <3>2
  <2> PICK key : key = <<i, k>>
      OBVIOUS
  <2>2. key \in DOMAIN index
        BY <1>7, <2>1
  <2>3. index[key] \in 1 .. n /\ <<syms[index[key]].sec, syms[index[key]].ext>> = key
    <3>1. index[key] = CHOOSE z \in 1 .. n : <<syms[z].sec, syms[z].ext>> = key
          BY <1>7, <2>2
    <3>2. \E z \in 1 .. n : <<syms[z].sec, syms[z].ext>> = key
          BY <2>1
    <3> QED BY <3>1, <3>2
  <2>4. PICK y \in 1 .. n : y = index[key] /\ syms[y].sec = i /\ syms[y].ext = k
        BY <2>3
  <2>5. syms[y] = SymbolOf(i, k)
        BY <1>6, <2>4
  <2> QED BY <1>8, <2>2, <2>4, <2>5
<1>10. ASSUME NEW i \in 1 .. m, NEW k, <<i, k>> \in DOMAIN index
       PROVE  k \in DOMAIN sections[i].externs
  <2>1. PICK x \in 1 .. n : syms[x].sec = i /\ syms[x].ext = k
        BY <1>7, <1>10
  <2> QED BY <1>6, <2>1
<1>11. \A i, k : SymbolOf(i, k)' = SymbolOf(i, k)
       BY <1>1 DEF SymbolOf, elf_section_base
<1>12. ASSUME NEW i \in 1 .. m, NEW k \in Nat
       PROVE  IndexedAt(i, k)'
       BY <1>1, <1>9, <1>10, <1>11 DEF IndexedAt
<1> QED BY <1>1, <1>12 DEF Indexed

-----------------------------------------------------------------------------
\* The relocations that are kept are relocations of the section.
LEMMA KnownAre ==
    ASSUME sections \in SrfObjects, NEW i \in 1 .. Len(sections)
    PROVE  /\ known(i) \in Seq(Relocations33) /\ Len(known(i)) \in Nat /\ DOMAIN known(i) = 1 .. Len(known(i))
           /\ \A k \in 1 .. Len(known(i)) : \E m \in DOMAIN sections[i].relocations :
                 known(i)[k] = sections[i].relocations[m]
           /\ \A k \in 1 .. Len(known(i)) : known(i)[k].r_rctyp \in DOMAIN SRF_RELOC_TO_ELF
<1> PICK rs : rs = sections[i].relocations
    OBVIOUS
<1> PICK keep : keep = {k \in DOMAIN rs : rs[k].r_rctyp \in DOMAIN SRF_RELOC_TO_ELF}
    OBVIOUS
<1>1. known(i) = Selected(rs, keep)
      BY DEF known
<1>2. rs \in Seq(Relocations33)
  <2>1. sections[i] \in Sections33
        BY SectionsAre
  <2> QED BY <2>1 DEF Sections33
<1>3. Selected(rs, keep) \in Seq(Relocations33)
      BY <1>2, SelectedTyped
<1> PICK T : T = {rs[k] : k \in 1 .. Len(rs) \cap keep}
    OBVIOUS
<1>4. Selected(rs, keep) \in Seq(T)
  <2>1. Len(rs) \in Nat
        BY <1>2, LenProperties
  <2> QED BY <2>1, SelectedFrom
<1>5. \A k \in 1 .. Len(known(i)) : known(i)[k] \in T
      BY <1>1, <1>4, ElementOfSeq
<1>6. DOMAIN rs = 1 .. Len(rs)
      BY <1>2, LenProperties
<1>7. \A k \in 1 .. Len(known(i)) : \E m \in DOMAIN rs : known(i)[k] = rs[m]
      BY <1>5, <1>6
<1>8. \A k \in 1 .. Len(known(i)) : known(i)[k].r_rctyp \in DOMAIN SRF_RELOC_TO_ELF
  <2>1. \A e \in T : e.r_rctyp \in DOMAIN SRF_RELOC_TO_ELF
        OBVIOUS
  <2> QED BY <1>5, <2>1
<1> QED BY <1>1, <1>3, <1>7, <1>8, LenProperties

\* What is known of a relocation and of the extern it names.
GoodReloc(i, rel, j) ==
    /\ rel \in Relocations33 /\ sections[i].s_scntyp \in {"CODE", "DATA"}
    /\ rel.r_scnoff \in Nat /\ rel.r_scnoff < sections[i].s_dsiz
    /\ j \in 1 .. Len(sections) /\ rel.r_exndx \in DOMAIN sections[j].externs /\ rel.r_exndx \in Nat
    /\ j = find_section_by_id(rel.r_scnndx)
    /\ \/ sections[j].externs[rel.r_exndx].e_extyp = "EXTERN"
       \/ /\ sections[j].externs[rel.r_exndx].e_scnoff \in Nat
          /\ sections[j].externs[rel.r_exndx].e_scnoff < sections[j].s_dsiz

\* The files' relocations are like that.
LEMMA RelocsAreGood ==
    ASSUME sections \in SrfObjects, NEW i \in 1 .. Len(sections), NEW p \in DOMAIN sections[i].relocations,
           NEW rel, rel = sections[i].relocations[p]
    PROVE  GoodReloc(i, rel, ListOf(sections, rel))
<1>1. /\ DOMAIN sections = 1 .. Len(sections) /\ Len(sections) \in Nat
      /\ \A j \in 1 .. Len(sections) : sections[j] \in Sections33
      BY SectionsAre
<1>2. rel \in Relocations33
  <2>1. sections[i].relocations \in Seq(Relocations33)
        BY <1>1 DEF Sections33
  <2> QED BY <2>1, LenProperties, ElementOfSeq
<1>3. /\ \A a, b \in DOMAIN sections : sections[a].s_scnndx = sections[b].s_scnndx => a = b
      /\ sections[i].s_scntyp # "BSS" /\ rel.r_scnoff < sections[i].s_dsiz
      /\ \E j \in DOMAIN sections :
           /\ sections[j].s_scnndx = rel.r_scnndx /\ rel.r_exndx \in DOMAIN sections[j].externs
           /\ \/ sections[j].externs[rel.r_exndx].e_extyp = "EXTERN"
              \/ sections[j].externs[rel.r_exndx].e_scnoff < sections[j].s_dsiz
  <2>1. WellFormed(sections)
        BY SrfToElfAssumption
  <2> QED BY <1>1, <2>1 DEF WellFormed
<1> PICK j \in DOMAIN sections :
        /\ sections[j].s_scnndx = rel.r_scnndx /\ rel.r_exndx \in DOMAIN sections[j].externs
        /\ \/ sections[j].externs[rel.r_exndx].e_extyp = "EXTERN"
           \/ sections[j].externs[rel.r_exndx].e_scnoff < sections[j].s_dsiz
    BY <1>3
<1>4. ListOf(sections, rel) = j
  <2>1. \A n \in DOMAIN sections : sections[n].s_scnndx = rel.r_scnndx => n = j
        BY <1>3
  <2> QED BY <2>1 DEF ListOf
<1>5. rel.r_scnoff \in Nat /\ rel.r_exndx \in Nat /\ sections[i].s_scntyp \in {"CODE", "DATA"}
      BY <1>1, <1>2, <1>3 DEF Relocations33, Sections33
<1>6. sections[j].externs[rel.r_exndx].e_scnoff \in Nat
  <2>1. sections[j].externs \in Seq(Externs33)
        BY <1>1 DEF Sections33
  <2>2. sections[j].externs[rel.r_exndx] \in Externs33
        BY <2>1, LenProperties, ElementOfSeq
  <2> QED BY <2>2 DEF Externs33
<1>7. j = find_section_by_id(rel.r_scnndx)
  <2> PICK found : found = {a \in DOMAIN sections : sections[a].s_scnndx = rel.r_scnndx}
      OBVIOUS
  <2>1. found = {j} /\ found \subseteq Nat
        BY <1>1, <1>3
  <2>2. Min(found) = j
        BY <2>1, MinIsLeast
  <2>3. find_section_by_id(rel.r_scnndx) = IF found = {} THEN 1 ELSE Min(found)
        BY DEF find_section_by_id
  <2> QED BY <2>1, <2>2, <2>3
<1>8. GoodReloc(i, rel, j)
      BY <1>1, <1>2, <1>3, <1>5, <1>6, <1>7 DEF GoodReloc
<1> QED BY <1>4, <1>8

\* The symbol a relocation gets is that of the extern it names, if converter and
\* document agree in it.
LEMMA SymbolFound ==
    ASSUME Indexed, NEW i \in 1 .. Len(sections), NEW rel, NEW j, GoodReloc(i, rel, j),
           rel.r_exndx \in DOMAIN sections[i].externs => j = i
    PROVE  symtab[elf_sym_idx(i, rel) + 1] = SymbolOf(j, rel.r_exndx)
<1> PICK k \in Nat : k = rel.r_exndx
    BY DEF GoodReloc
<1>1. /\ j \in 1 .. Len(sections) /\ k \in DOMAIN sections[j].externs
      /\ \/ k \in DOMAIN sections[i].externs /\ j = i
         \/ k \notin DOMAIN sections[i].externs /\ j = find_section_by_id(rel.r_scnndx)
      BY DEF GoodReloc
<1>2. IndexedAt(i, k) /\ IndexedAt(j, k)
      BY <1>1 DEF Indexed
<1>3. /\ <<i, k>> \in DOMAIN srf_sym_index <=> k \in DOMAIN sections[i].externs
      /\ <<j, k>> \in DOMAIN srf_sym_index
      /\ symtab[srf_sym_index[<<j, k>>] + 1] = SymbolOf(j, k)
      BY <1>1, <1>2 DEF IndexedAt
<1>4. elf_sym_idx(i, rel) = srf_sym_index[<<j, k>>]
  <2>1. CASE k \in DOMAIN sections[i].externs
        BY <1>1, <1>3, <2>1 DEF elf_sym_idx
  <2>2. CASE k \notin DOMAIN sections[i].externs
        BY <1>1, <1>3, <2>2 DEF elf_sym_idx
  <2> QED BY <2>1, <2>2
<1> QED BY <1>3, <1>4

\* Where a symbol with a place is.
PlaceOf(shndx, value) ==
    IF shndx = "BSS" THEN <<Min({n \in DOMAIN sections : sections[n].s_scntyp = "BSS"}), value>>
    ELSE Words33(shndx)[value + 1]

\* The label of a word of a section is found at its symbol's place.
LEMMA PlaceFound ==
    ASSUME sections \in SrfObjects, NEW j \in 1 .. Len(sections), Placed(j),
           NEW o \in Nat, o < sections[j].s_dsiz, NEW shndx, shndx = sections[j].s_scntyp
    PROVE  PlaceOf(shndx, o + elf_section_base(j)) = <<j, o>>
<1>1. CASE shndx # "BSS"
  <2>1. Words33(shndx)[(o + elf_section_base(j)) + 1] = <<j, o>>
        BY <1>1, WordsInPlace
  <2> QED BY <1>1, <2>1 DEF PlaceOf
<1>2. CASE shndx = "BSS"
  <2> PICK bss : bss = {n \in DOMAIN sections : sections[n].s_scntyp = "BSS"}
      OBVIOUS
  <2> PICK m \in Nat : m = Len(sections)
      BY SectionsAre
  <2>1. DOMAIN sections = 1 .. m /\ j \in 1 .. m
        BY SectionsAre
  <2>2. bss \subseteq Nat /\ j \in bss
    <3>1. sections[j].s_scntyp = "BSS"
          BY <1>2
    <3> QED BY <2>1, <3>1
  <2>3. \A n \in bss : j <= n
        BY <1>2, <2>1 DEF Placed
  <2>4. Min(bss) = j
    <3>1. Min(bss) \in bss /\ \A n \in bss : Min(bss) <= n
          BY <2>2, MinIsLeast
    <3>2. Min(bss) <= j /\ j <= Min(bss) /\ Min(bss) \in Nat /\ j \in Nat
          BY <2>2, <2>3, <3>1
    <3> QED BY <3>2
  <2>5. elf_section_base(j) = 0
        BY <1>2 DEF elf_section_base
  <2>6. o + elf_section_base(j) = o
        BY <2>5
  <2> QED BY <1>2, <2>4, <2>6 DEF PlaceOf
<1> QED BY <1>1, <1>2

\* A symbol of the table, field by field.
SymHas(sym, e, j) ==
    /\ sym.name = e.e_exnam
    /\ sym.shndx = IF e.e_extyp = "EXTERN" THEN SHN_UNDEF ELSE sections[j].s_scntyp
    /\ sym.value = IF e.e_extyp = "EXTERN" THEN 0 ELSE e.e_scnoff + elf_section_base(j)

\* The table's symbols are like that.
LEMMA SymbolHas ==
    ASSUME NEW j, NEW k, NEW e, e = sections[j].externs[k]
    PROVE  SymHas(SymbolOf(j, k), e, j)
<1> PICK b : b = e.e_scnoff + elf_section_base(j)
    OBVIOUS
<1> PICK t : t = sections[j].s_scntyp
    OBVIOUS
<1> PICK u : u = SHN_UNDEF
    OBVIOUS
<1>1. CASE e.e_extyp = "EXTERN"
  <2>1. SymbolOf(j, k) = [sec |-> j, ext |-> k, name |-> e.e_exnam, value |-> 0, shndx |-> u]
        BY <1>1 DEF SymbolOf
  <2> QED BY <1>1, <2>1 DEF SymHas
<1>2. CASE e.e_extyp # "EXTERN"
  <2>1. SymbolOf(j, k) = [sec |-> j, ext |-> k, name |-> e.e_exnam, value |-> b, shndx |-> t]
        BY <1>2 DEF SymbolOf
  <2> QED BY <1>2, <2>1 DEF SymHas
<1> QED BY <1>1, <1>2

\* Each SRF type goes to the ELF type for the same part of an address.
LEMMA SameTypeBack ==
    ASSUME NEW t \in DOMAIN SRF_RELOC_TO_ELF
    PROVE  ElfTypes[SRF_RELOC_TO_ELF[t]] = SrfTypes[t]
<1>1. t \in 1 .. 10
      BY DEF SRF_RELOC_TO_ELF
<1> QED BY <1>1 DEF SRF_RELOC_TO_ELF, SrfTypes, ElfTypes

\* What becomes of a relocation means what the relocation means.
LEMMA MeansSame ==
    ASSUME sections \in SrfObjects, Indexed, \A n \in DOMAIN sections : Placed(n),
           NEW i \in 1 .. Len(sections), NEW p \in DOMAIN sections[i].relocations,
           NEW rel, rel = sections[i].relocations[p], Agreed(sections, i, rel),
           rel.r_rctyp \in DOMAIN SRF_RELOC_TO_ELF
    PROVE  ElfRefers(sections[i].s_scntyp, pack_rela(i, rel)) = SrfRefers(i, rel)
<1> PICK kind : kind = sections[i].s_scntyp
    OBVIOUS
<1> PICK j : j = ListOf(sections, rel)
    OBVIOUS
<1> PICK k : k = rel.r_exndx
    OBVIOUS
<1> PICK ext : ext = sections[j].externs[k]
    OBVIOUS
<1> PICK add : add = r_addend(rel)
    OBVIOUS
<1> PICK r : r = pack_rela(i, rel)
    OBVIOUS
<1> PICK sym : sym = SymbolOf(j, k)
    OBVIOUS
<1>1. GoodReloc(i, rel, j)
      BY RelocsAreGood
<1>2. /\ j \in 1 .. Len(sections)
      /\ ext.e_extyp = "EXTERN" \/ (ext.e_scnoff \in Nat /\ ext.e_scnoff < sections[j].s_dsiz)
      BY <1>1 DEF GoodReloc
<1>3. /\ r.r_offset = rel.r_scnoff + elf_section_base(i) /\ r.r_sym = elf_sym_idx(i, rel) /\ r.r_addend = add
      /\ r.r_type = SRF_RELOC_TO_ELF[rel.r_rctyp]
      BY DEF pack_rela
<1> PICK type : type = SrfTypes[rel.r_rctyp]
    OBVIOUS
<1>11. ElfTypes[r.r_type] = type
       BY <1>3, SameTypeBack
<1>4. Words33(kind)[r.r_offset + 1] = <<i, rel.r_scnoff>>
  <2>1. sections[i].s_scntyp # "BSS" /\ rel.r_scnoff \in Nat /\ rel.r_scnoff < sections[i].s_dsiz
        BY <1>1 DEF GoodReloc
  <2> QED BY <1>3, <2>1, WordsInPlace
<1>5. symtab[r.r_sym + 1] = sym
  <2>1. k \in DOMAIN sections[i].externs => j = i
        BY DEF Agreed
  <2> QED BY <1>1, <1>3, <2>1, SymbolFound
<1> PICK def : def = PlaceOf(sym.shndx, sym.value)
    OBVIOUS
<1>6. ElfRefers(kind, r) = [word |-> <<i, rel.r_scnoff>>, type |-> type,
         to |-> IF sym.shndx = SHN_UNDEF THEN <<"extern", sym.name, add>> ELSE <<sym.name, def, add>>]
      BY <1>3, <1>4, <1>5, <1>11 DEF ElfRefers, PlaceOf
<1>7. SrfRefers(i, rel) = [word |-> <<i, rel.r_scnoff>>, type |-> type,
         to |-> IF ext.e_extyp = "EXTERN" THEN <<"extern", ext.e_exnam, add>>
                ELSE <<ext.e_exnam, <<j, ext.e_scnoff>>, add>>]
      BY DEF SrfRefers, r_addend
<1>8. /\ sym.name = ext.e_exnam
      /\ sym.shndx = IF ext.e_extyp = "EXTERN" THEN SHN_UNDEF ELSE sections[j].s_scntyp
      /\ sym.value = IF ext.e_extyp = "EXTERN" THEN 0 ELSE ext.e_scnoff + elf_section_base(j)
  <2>1. SymHas(sym, ext, j)
        BY SymbolHas
  <2> QED BY <2>1 DEF SymHas
<1>9. CASE ext.e_extyp = "EXTERN"
      BY <1>6, <1>7, <1>8, <1>9
<1>10. CASE ext.e_extyp # "EXTERN"
  <2>1. sym.shndx = sections[j].s_scntyp /\ sym.value = ext.e_scnoff + elf_section_base(j)
        BY <1>8, <1>10
  <2>2. sym.shndx # SHN_UNDEF
    <3>1. sections[j].s_scntyp \in {"CODE", "DATA", "BSS"}
          BY <1>2, SectionsAre DEF Sections33
    <3> QED BY <2>1, <3>1 DEF SHN_UNDEF
  <2>3. def = <<j, ext.e_scnoff>>
    <3> PICK o \in Nat : o = ext.e_scnoff /\ o < sections[j].s_dsiz
        BY <1>2, <1>10
    <3>1. Placed(j)
          BY <1>2, SectionsAre
    <3>2. PlaceOf(sym.shndx, o + elf_section_base(j)) = <<j, o>>
          BY <1>2, <2>1, <3>1, PlaceFound
    <3> QED BY <2>1, <3>2
  <2> QED BY <1>6, <1>7, <1>8, <1>10, <2>2, <2>3
<1> QED BY <1>9, <1>10

-----------------------------------------------------------------------------
\* What has become of the relocations of a section, and of the first n.
PartOf(kind, i) == IF sections[i].s_scntyp = kind
                   THEN [k \in DOMAIN known(i) |-> pack_rela(i, known(i)[k])] ELSE <<>>
PartsUpTo(kind, n) == [i \in 1 .. n |-> PartOf(kind, i)]

\* What holds of the conversion all along: the lists hold the symbols of the
\* sections seen so far; the index, once it is there, has every extern at its
\* entry; and the relocations written are those of the sections seen since.
ElfInv ==
    /\ sections \in SrfObjects
    /\ srf_sec_idx \in 1 .. Len(sections) + 1
    /\ \/ stage = "externs" /\ SymbolsUpTo(srf_sec_idx - 1) /\ rels = [t \in {"CODE", "DATA"} |-> <<>>]
       \/ /\ stage = "relocations" /\ Indexed
          /\ rels = [t \in {"CODE", "DATA"} |-> Joined(PartsUpTo(t, srf_sec_idx - 1))]

\* What becomes of the relocations of a kind.
RelSet(kind) == UNION {{pack_rela(i, known(i)[k]) : k \in DOMAIN known(i)} :
                          i \in {i \in 1 .. Len(sections) : sections[i].s_scntyp = kind}}

\* They are what the parts consist of.
LEMMA PartsTyped ==
    ASSUME sections \in SrfObjects, NEW kind, NEW n \in Nat, n <= Len(sections)
    PROVE  SeqsOver(RelSet(kind), PartsUpTo(kind, n), n)
<1> PICK S : S = RelSet(kind)
    OBVIOUS
<1> PICK ps : ps = PartsUpTo(kind, n)
    OBVIOUS
<1>1. Len(ps) = n /\ \A i \in 1 .. n : ps[i] = PartOf(kind, i)
      BY DEF PartsUpTo
<1>2. ASSUME NEW i \in 1 .. n PROVE PartOf(kind, i) \in Seq(S)
  <2>1. i \in 1 .. Len(sections)
        BY SectionsAre
  <2>2. CASE sections[i].s_scntyp = kind
    <3> PICK m \in Nat : m = Len(known(i))
        BY <2>1, KnownAre
    <3>1. DOMAIN known(i) = 1 .. m
          BY <2>1, KnownAre
    <3> PICK u : u = [k \in 1 .. m |-> pack_rela(i, known(i)[k])]
        OBVIOUS
    <3>2. \A k \in 1 .. m : pack_rela(i, known(i)[k]) \in S
          BY <2>1, <2>2, <3>1 DEF RelSet
    <3>3. u \in [1 .. m -> S]
          BY <3>2
    <3>4. u \in Seq(S)
          BY <3>3, FunctionIsSeq
    <3>5. PartOf(kind, i) = u
          BY <2>2, <3>1 DEF PartOf
    <3> QED BY <3>4, <3>5
  <2>3. CASE sections[i].s_scntyp # kind
        BY <2>3, EmptySeq DEF PartOf
  <2> QED BY <2>2, <2>3
<1>3. \A i \in 1 .. n : ps[i] \in Seq(S)
      BY <1>1, <1>2
<1> QED BY <1>1, <1>3 DEF SeqsOver

\* A section more, and what has become of its relocations is behind the others.
LEMMA OnePartMore ==
    ASSUME sections \in SrfObjects, NEW kind, NEW n \in Nat, n + 1 <= Len(sections)
    PROVE  Joined(PartsUpTo(kind, n + 1))
             = IF sections[n + 1].s_scntyp = kind
               THEN Joined(PartsUpTo(kind, n)) \o [k \in DOMAIN known(n + 1) |-> pack_rela(n + 1, known(n + 1)[k])]
               ELSE Joined(PartsUpTo(kind, n))
<1> PICK i \in Nat : i = n + 1
    OBVIOUS
<1> PICK s : s = PartsUpTo(kind, n)
    OBVIOUS
<1> PICK t : t = PartsUpTo(kind, i)
    OBVIOUS
<1>1. /\ Len(s) = n /\ \A k \in 1 .. n : s[k] = PartOf(kind, k)
      /\ Len(t) = i /\ \A k \in 1 .. i : t[k] = PartOf(kind, k)
      BY DEF PartsUpTo
<1>2. \A k \in 1 .. n : s[k] = t[k]
  <2>1. \A k \in 1 .. n : k \in 1 .. i
        OBVIOUS
  <2> QED BY <1>1, <2>1
<1>3. Joined(t) = Joined(s) \o t[n + 1]
  <2>1. Len(t) = n + 1
        BY <1>1
  <2> QED BY <1>1, <1>2, <2>1, JoinedAppend
<1>4. t[n + 1] = PartOf(kind, i)
      BY <1>1
<1> PICK S : S = RelSet(kind)
    OBVIOUS
<1>5. Joined(s) \in Seq(S)
  <2>1. n <= Len(sections)
        BY SectionsAre
  <2>2. SeqsOver(S, s, n)
        BY <2>1, PartsTyped
  <2> QED BY <2>2, JoinedTyped
<1>6. Joined(s) \o <<>> = Joined(s)
  <2> PICK w : w = Joined(s)
      OBVIOUS
  <2>1. w \in Seq(S)
        BY <1>5
  <2>2. w \o <<>> = w
        BY <2>1
  <2> QED BY <2>2
<1>7. CASE sections[i].s_scntyp = kind
      BY <1>3, <1>4, <1>7 DEF PartOf
<1>8. CASE sections[i].s_scntyp # kind
      BY <1>3, <1>4, <1>6, <1>8 DEF PartOf
<1> QED BY <1>7, <1>8

\* At the start no section has been seen.
LEMMA ElfInvInit == SrfToElfInit => ElfInv
<1> SUFFICES ASSUME SrfToElfInit PROVE ElfInv
    OBVIOUS
<1>1. /\ sections \in SrfObjects /\ stage = "externs" /\ srf_sec_idx = 1
      /\ local_syms = <<>> /\ global_syms = <<>> /\ rels = [t \in {"CODE", "DATA"} |-> <<>>]
      BY DEF SrfToElfInit
<1>2. 1 \in 1 .. Len(sections) + 1
      BY <1>1, SectionsAre
<1>3. SymbolsUpTo(0)
      BY <1>1, EmptySeq DEF SymbolsUpTo
<1>4. srf_sec_idx - 1 = 0
      BY <1>1
<1> QED BY <1>1, <1>2, <1>3, <1>4 DEF ElfInv

\* Each section adds its symbols.
LEMMA ElfInvCollect == ElfInv /\ CollectExterns => ElfInv'
<1> SUFFICES ASSUME ElfInv, CollectExterns PROVE ElfInv'
    OBVIOUS
<1>1. /\ stage = "externs" /\ sections \in SrfObjects /\ srf_sec_idx \in 1 .. Len(sections) + 1
      /\ srf_sec_idx <= Len(sections) /\ srf_sec_idx' = srf_sec_idx + 1
      /\ sections' = sections /\ stage' = stage /\ rels' = rels
      BY DEF ElfInv, CollectExterns
<1>2. SymbolsUpTo(srf_sec_idx - 1) /\ rels = [t \in {"CODE", "DATA"} |-> <<>>]
      BY <1>1 DEF ElfInv
<1> PICK len \in Nat : len = Len(sections)
    BY <1>1, SectionsAre
<1> PICK n \in Nat : srf_sec_idx = n + 1 /\ srf_sec_idx - 1 = n /\ srf_sec_idx + 1 \in 1 .. len + 1 /\ (srf_sec_idx + 1) - 1 = n + 1
  <2>1. \E n \in Nat : n = srf_sec_idx - 1
        BY <1>1
  <2> QED BY <1>1, <2>1
<1>3. SymbolsUpTo(n + 1)'
      BY <1>1, <1>2, CollectKeeps
<1>4. SymbolsUpTo(srf_sec_idx - 1)'
  <2>1. (srf_sec_idx - 1)' = n + 1
        BY <1>1
  <2> QED BY <1>3, <2>1 DEF SymbolsUpTo, SymSet
<1> QED BY <1>1, <1>2, <1>4 DEF ElfInv

\* When all have, the index is made, and no relocation has been written.
LEMMA ElfInvAdd == ElfInv /\ AddSymbols => ElfInv'
<1> SUFFICES ASSUME ElfInv, AddSymbols PROVE ElfInv'
    OBVIOUS
<1>1. /\ stage = "externs" /\ sections \in SrfObjects /\ srf_sec_idx = Len(sections) + 1
      /\ srf_sec_idx' = 1 /\ stage' = "relocations" /\ sections' = sections /\ rels' = rels
      BY DEF ElfInv, AddSymbols
<1>2. SymbolsUpTo(srf_sec_idx - 1) /\ rels = [t \in {"CODE", "DATA"} |-> <<>>]
      BY <1>1 DEF ElfInv
<1> PICK len \in Nat : len = Len(sections)
    BY <1>1, SectionsAre
<1>3. SymbolsUpTo(Len(sections))
  <2>1. srf_sec_idx - 1 = Len(sections)
        BY <1>1
  <2> QED BY <1>2, <2>1
<1>4. Indexed'
      BY <1>1, <1>3, AddIndexes
<1>5. \A t \in {"CODE", "DATA"} : Joined(PartsUpTo(t, srf_sec_idx - 1))' = <<>>
  <2> TAKE t \in {"CODE", "DATA"}
  <2> PICK ps : ps = PartsUpTo(t, srf_sec_idx - 1)'
      OBVIOUS
  <2>1. Len(ps) = 0
    <3>1. srf_sec_idx' - 1 = 0
          BY <1>1
    <3>2. ps = [i \in 1 .. 0 |-> PartOf(t, i)']
          BY <3>1 DEF PartsUpTo
    <3> QED BY <3>2
  <2>2. Joined(ps) = <<>>
        BY <2>1, JoinedEmpty
  <2> QED BY <2>2
<1>6. srf_sec_idx' \in 1 .. Len(sections') + 1
      BY <1>1
<1>7. rels' = [t \in {"CODE", "DATA"} |-> Joined(PartsUpTo(t, srf_sec_idx - 1))]'
      BY <1>1, <1>2, <1>5
<1> QED BY <1>1, <1>4, <1>6, <1>7 DEF ElfInv

\* As long as the sections and the index stay, all that is made of them does.
LEMMA SectionsStay ==
    ASSUME sections' = sections, srf_sym_index' = srf_sym_index, symtab' = symtab
    PROVE  (Indexed => Indexed') /\ \A t, i : PartOf(t, i)' = PartOf(t, i)
<1>1. \A i : known(i)' = known(i) /\ elf_section_base(i)' = elf_section_base(i)
      BY DEF known, elf_section_base
<1>2. \A i, rel : elf_sym_idx(i, rel)' = elf_sym_idx(i, rel)
      BY DEF elf_sym_idx, find_section_by_id
<1>3. \A i, rel : pack_rela(i, rel)' = pack_rela(i, rel)
      BY <1>1, <1>2 DEF pack_rela
<1>4. \A t, i : PartOf(t, i)' = PartOf(t, i)
      BY <1>1, <1>3 DEF PartOf
<1>5. \A i, k : SymbolOf(i, k)' = SymbolOf(i, k)
      BY <1>1 DEF SymbolOf
<1>6. \A i, k : IndexedAt(i, k) => IndexedAt(i, k)'
      BY <1>5 DEF IndexedAt
<1>7. Indexed => Indexed'
      BY <1>6 DEF Indexed
<1> QED BY <1>4, <1>7

\* Each section adds what becomes of its relocations to those of its kind.
LEMMA ElfInvConvert == ElfInv /\ ConvertRelocs => ElfInv'
<1> SUFFICES ASSUME ElfInv, ConvertRelocs PROVE ElfInv'
    OBVIOUS
<1>1. /\ stage = "relocations" /\ sections \in SrfObjects /\ srf_sec_idx \in 1 .. Len(sections) + 1
      /\ srf_sec_idx <= Len(sections) /\ srf_sec_idx' = srf_sec_idx + 1
      /\ sections' = sections /\ stage' = stage /\ symtab' = symtab /\ srf_sym_index' = srf_sym_index
      BY DEF ElfInv, ConvertRelocs
<1>2. Indexed /\ rels = [t \in {"CODE", "DATA"} |-> Joined(PartsUpTo(t, srf_sec_idx - 1))]
      BY <1>1 DEF ElfInv
<1> PICK len \in Nat : len = Len(sections)
    BY <1>1, SectionsAre
<1> PICK i : i = srf_sec_idx
    OBVIOUS
<1> PICK n \in Nat : i = n + 1 /\ i - 1 = n /\ i + 1 \in 1 .. len + 1 /\ (i + 1) - 1 = n + 1 /\ n + 1 <= len
  <2>1. \E n \in Nat : n = i - 1
        BY <1>1
  <2> QED BY <1>1, <2>1
<1> PICK new : new = [k \in DOMAIN known(i) |-> pack_rela(i, known(i)[k])]
    OBVIOUS
<1> PICK of : of = IF sections[i].s_scntyp = "CODE" THEN "CODE" ELSE "DATA"
    OBVIOUS
<1>3. rels' = [rels EXCEPT ![of] = @ \o new]
      BY DEF ConvertRelocs
<1>4. \A t \in {"CODE", "DATA"} : rels[t] = Joined(PartsUpTo(t, n))
      BY <1>2
<1>5. \A t \in {"CODE", "DATA"} : Joined(PartsUpTo(t, n + 1)) = IF sections[i].s_scntyp = t THEN rels[t] \o new ELSE rels[t]
  <2> TAKE t \in {"CODE", "DATA"}
  <2>1. Joined(PartsUpTo(t, n + 1))
          = IF sections[n + 1].s_scntyp = t
            THEN Joined(PartsUpTo(t, n)) \o [k \in DOMAIN known(n + 1) |-> pack_rela(n + 1, known(n + 1)[k])]
            ELSE Joined(PartsUpTo(t, n))
        BY <1>1, OnePartMore
  <2>2. new = [k \in DOMAIN known(n + 1) |-> pack_rela(n + 1, known(n + 1)[k])]
        OBVIOUS
  <2>3. rels[t] = Joined(PartsUpTo(t, n))
        BY <1>4
  <2> QED BY <2>1, <2>2, <2>3
<1>6. sections[i].s_scntyp \in {"CODE", "DATA", "BSS"} /\ (sections[i].s_scntyp = "BSS" => new = <<>>)
  <2>1. i \in 1 .. Len(sections)
        BY <1>1
  <2>2. sections[i].s_scntyp \in {"CODE", "DATA", "BSS"}
        BY <1>1, <2>1, SectionsAre DEF Sections33
  <2>3. ASSUME sections[i].s_scntyp = "BSS" PROVE new = <<>>
    <3>1. \A p : p \notin DOMAIN sections[i].relocations
      <4>1. \A p \in DOMAIN sections[i].relocations : sections[i].s_scntyp # "BSS"
        <5>1. WellFormed(sections)
              BY <1>1, SrfToElfAssumption
        <5>2. i \in DOMAIN sections
              BY <1>1, <2>1, SectionsAre
        <5> QED BY <5>1, <5>2 DEF WellFormed
      <4> QED BY <2>3, <4>1
    <3>2. Len(known(i)) \in Nat /\ DOMAIN known(i) = 1 .. Len(known(i))
          BY <1>1, <2>1, KnownAre
    <3>3. \A k \in 1 .. Len(known(i)) : FALSE
      <4>1. \A k \in 1 .. Len(known(i)) : \E p \in DOMAIN sections[i].relocations : known(i)[k] = sections[i].relocations[p]
            BY <1>1, <2>1, KnownAre
      <4> QED BY <3>1, <4>1
    <3>4. DOMAIN known(i) = {}
          BY <3>2, <3>3
    <3> QED BY <3>4
  <2> QED BY <2>2, <2>3
<1>7. \A t \in {"CODE", "DATA"} : rels'[t] = Joined(PartsUpTo(t, n + 1))
  <2>1. DOMAIN rels = {"CODE", "DATA"} /\ of \in {"CODE", "DATA"}
        BY <1>2
  <2>2. \A t \in {"CODE", "DATA"} : rels'[t] = IF t = of THEN rels[t] \o new ELSE rels[t]
        BY <1>3, <2>1
  <2>3. CASE sections[i].s_scntyp = "CODE"
        BY <1>5, <2>2, <2>3
  <2>4. CASE sections[i].s_scntyp = "DATA"
        BY <1>5, <2>2, <2>4
  <2>5. CASE sections[i].s_scntyp = "BSS"
    <3> PICK w : w = Joined(PartsUpTo("DATA", n))
        OBVIOUS
    <3>1. w \in Seq(RelSet("DATA"))
      <4> PICK ps : ps = PartsUpTo("DATA", n)
          OBVIOUS
      <4> PICK S : S = RelSet("DATA")
          OBVIOUS
      <4>0. n <= Len(sections)
            OBVIOUS
      <4>1. SeqsOver(S, ps, n)
            BY <1>1, <4>0, PartsTyped
      <4>2. Joined(ps) \in Seq(S)
            BY <4>1, JoinedTyped
      <4> QED BY <4>2
    <3>2. w \o <<>> = w
          BY <3>1
    <3>3. rels["DATA"] \o new = rels["DATA"] /\ of = "DATA"
          BY <1>4, <1>6, <2>5, <3>2
    <3> QED BY <1>5, <2>2, <2>5, <3>3
  <2> QED BY <1>6, <2>3, <2>4, <2>5
<1>8. rels' = [t \in {"CODE", "DATA"} |-> rels'[t]]
      BY <1>2, <1>3
<1>9. \A t : Joined(PartsUpTo(t, srf_sec_idx - 1))' = Joined(PartsUpTo(t, n + 1))
  <2> TAKE t
  <2>1. \A j : PartOf(t, j)' = PartOf(t, j)
        BY <1>1, SectionsStay
  <2>2. srf_sec_idx' - 1 = n + 1
        BY <1>1
  <2>3. PartsUpTo(t, srf_sec_idx - 1)' = PartsUpTo(t, n + 1)
        BY <2>1, <2>2 DEF PartsUpTo
  <2> QED BY <2>3
<1>10. rels' = [t \in {"CODE", "DATA"} |-> Joined(PartsUpTo(t, srf_sec_idx - 1))]'
       BY <1>7, <1>8, <1>9
<1>11. Indexed'
       BY <1>1, <1>2, SectionsStay
<1>12. srf_sec_idx' \in 1 .. Len(sections') + 1
       BY <1>1
<1> QED BY <1>1, <1>10, <1>11, <1>12 DEF ElfInv

\* And every step keeps it.
LEMMA ElfInvStep == ElfInv /\ [SrfToElfNext]_elfVars => ElfInv'
<1> SUFFICES ASSUME ElfInv, [SrfToElfNext]_elfVars PROVE ElfInv'
    OBVIOUS
<1>1. CASE CollectExterns
      BY <1>1, ElfInvCollect
<1>2. CASE AddSymbols
      BY <1>2, ElfInvAdd
<1>3. CASE ConvertRelocs
      BY <1>3, ElfInvConvert
<1>4. CASE UNCHANGED elfVars
  <2>1. /\ sections' = sections /\ srf_sym_index' = srf_sym_index /\ symtab' = symtab /\ stage' = stage
        /\ srf_sec_idx' = srf_sec_idx /\ local_syms' = local_syms /\ global_syms' = global_syms /\ rels' = rels
        BY <1>4 DEF elfVars
  <2>2. (Indexed => Indexed') /\ \A t, i : PartOf(t, i)' = PartOf(t, i)
        BY <2>1, SectionsStay
  <2>3. (\A i, k : SymbolOf(i, k)' = SymbolOf(i, k)) /\ \A n : SymSet(n)' = SymSet(n)
        BY <2>1, SymbolsStay
  <2>4. \A n : SymbolsUpTo(n) => SymbolsUpTo(n)'
    <3> TAKE n
    <3>1. SymSet(n)' = SymSet(n)
          BY <2>3
    <3> QED BY <2>1, <2>3, <3>1 DEF SymbolsUpTo
  <2>5. \A t, n : PartsUpTo(t, n)' = PartsUpTo(t, n)
        BY <2>2 DEF PartsUpTo
  <2>6. \A t : Joined(PartsUpTo(t, srf_sec_idx - 1))' = Joined(PartsUpTo(t, srf_sec_idx - 1))
        BY <2>1, <2>5 DEF PartsUpTo
  <2>7. SymbolsUpTo(srf_sec_idx - 1) => SymbolsUpTo(srf_sec_idx - 1)'
        BY <2>1, <2>4 DEF SymbolsUpTo, SymSet
  <2>8. /\ sections \in SrfObjects /\ srf_sec_idx \in 1 .. Len(sections) + 1
        /\ \/ stage = "externs" /\ SymbolsUpTo(srf_sec_idx - 1) /\ rels = [t \in {"CODE", "DATA"} |-> <<>>]
           \/ /\ stage = "relocations" /\ Indexed
              /\ rels = [t \in {"CODE", "DATA"} |-> Joined(PartsUpTo(t, srf_sec_idx - 1))]
        BY DEF ElfInv
  <2>9. CASE stage = "externs" /\ SymbolsUpTo(srf_sec_idx - 1) /\ rels = [t \in {"CODE", "DATA"} |-> <<>>]
        BY <2>1, <2>7, <2>8, <2>9 DEF ElfInv
  <2>10. CASE /\ stage = "relocations" /\ Indexed
              /\ rels = [t \in {"CODE", "DATA"} |-> Joined(PartsUpTo(t, srf_sec_idx - 1))]
    <3>1. rels' = [t \in {"CODE", "DATA"} |-> Joined(PartsUpTo(t, srf_sec_idx - 1))]'
          BY <2>1, <2>6, <2>10
    <3> QED BY <2>1, <2>2, <2>8, <2>10, <3>1 DEF ElfInv
  <2> QED BY <2>8, <2>9, <2>10
<1> QED BY <1>1, <1>2, <1>3, <1>4 DEF SrfToElfNext

\* The relocations of a section with its number, if it is of the kind; and all
\* those of the kind.
SourcesOf(kind, i) == IF sections[i].s_scntyp = kind
                      THEN [k \in DOMAIN known(i) |-> <<i, known(i)[k]>>] ELSE <<>>
\* Which these can be.
SourceSet(kind) == UNION {{<<i, known(i)[k]>> : k \in DOMAIN known(i)} :
                             i \in {j \in 1 .. Len(sections) : sections[j].s_scntyp = kind}}

\* A relocation of a known type of a section of the kind.
IsSource(kind, i, rel) ==
    /\ i \in 1 .. Len(sections) /\ sections[i].s_scntyp = kind
    /\ \E p \in DOMAIN sections[i].relocations : rel = sections[i].relocations[p]
    /\ rel.r_rctyp \in DOMAIN SRF_RELOC_TO_ELF

\* The sources are such relocations.
LEMMA SourceIs ==
    ASSUME sections \in SrfObjects, NEW kind, NEW x, x \in SourceSet(kind)
    PROVE  IsSource(kind, x[1], x[2])
<1> PICK i \in 1 .. Len(sections) : sections[i].s_scntyp = kind /\ \E k \in DOMAIN known(i) : x = <<i, known(i)[k]>>
    BY DEF SourceSet
<1> PICK k \in DOMAIN known(i) : x = <<i, known(i)[k]>>
    OBVIOUS
<1>1. x[1] = i /\ x[2] = known(i)[k]
      OBVIOUS
<1>2. k \in 1 .. Len(known(i)) /\ \E p \in DOMAIN sections[i].relocations : known(i)[k] = sections[i].relocations[p]
      BY KnownAre
<1>3. known(i)[k].r_rctyp \in DOMAIN SRF_RELOC_TO_ELF
      BY <1>2, KnownAre
<1>4. IsSource(kind, i, known(i)[k])
      BY <1>2, <1>3 DEF IsSource
<1> QED BY <1>1, <1>4

\* Relocation by relocation, what has become of a section's is made from them.
LEMMA PartIsPacked ==
    ASSUME sections \in SrfObjects, NEW kind, NEW i \in 1 .. Len(sections),
           NEW h, h = [x \in SourceSet(kind) |-> pack_rela(x[1], x[2])]
    PROVE  /\ PartOf(kind, i) = Mapped(h, SourcesOf(kind, i))
           /\ SourcesOf(kind, i) \in Seq(SourceSet(kind))
<1>1. CASE sections[i].s_scntyp = kind
  <2> PICK rs : rs = known(i)
      OBVIOUS
  <2> PICK m \in Nat : m = Len(rs)
      BY KnownAre
  <2>1. DOMAIN rs = 1 .. m
        BY KnownAre
  <2> PICK X : X = SourceSet(kind)
      OBVIOUS
  <2> PICK u : u = [k \in 1 .. m |-> <<i, rs[k]>>]
      OBVIOUS
  <2>2. SourcesOf(kind, i) = u
        BY <1>1, <2>1 DEF SourcesOf
  <2>3. \A k \in 1 .. m : u[k] \in X
        BY <1>1, <2>1 DEF SourceSet
  <2>4. \A k \in 1 .. m : h[u[k]] = pack_rela(i, rs[k])
    <3> TAKE k \in 1 .. m
    <3> PICK x \in X : x = u[k]
        BY <2>3
    <3>1. h[x] = pack_rela(x[1], x[2])
          OBVIOUS
    <3>2. x[1] = i /\ x[2] = rs[k]
          OBVIOUS
    <3> QED BY <3>1, <3>2
  <2>5. Mapped(h, u) = [k \in 1 .. m |-> pack_rela(i, rs[k])]
        BY <2>4 DEF Mapped
  <2>6. PartOf(kind, i) = [k \in 1 .. m |-> pack_rela(i, rs[k])]
        BY <1>1, <2>1 DEF PartOf
  <2>7. u \in Seq(X)
    <3>1. u \in [1 .. m -> X]
          BY <2>3
    <3>2. Seq(X) = UNION {[1 .. k -> X] : k \in Nat}
          BY SeqDef
    <3> QED BY <3>1, <3>2
  <2> QED BY <2>2, <2>5, <2>6, <2>7
<1>2. CASE sections[i].s_scntyp # kind
  <2>1. SourcesOf(kind, i) = <<>> /\ PartOf(kind, i) = <<>>
        BY <1>2 DEF SourcesOf, PartOf
  <2>2. Mapped(h, <<>>) = <<>>
        BY DEF Mapped
  <2> QED BY <2>1, <2>2
<1> QED BY <1>1, <1>2

\* When all sections have been converted, every relocation means the same.
LEMMA ElfInvMeans == ElfInv => ElfMeansSrf
<1> SUFFICES ASSUME ElfInv, stage = "relocations", srf_sec_idx > Len(sections), NEW kind \in {"CODE", "DATA"}
             PROVE  /\ Len(rels[kind]) = Len(RelocsFor(kind))
                    /\ (\A i \in DOMAIN sections : Placed(i)) =>
                         \A k \in DOMAIN rels[kind] :
                             Agreed(sections, RelocsFor(kind)[k][1], RelocsFor(kind)[k][2])
                               => ElfRefers(kind, rels[kind][k])
                                    = SrfRefers(RelocsFor(kind)[k][1], RelocsFor(kind)[k][2])
    BY DEF ElfMeansSrf
<1>1. /\ sections \in SrfObjects /\ Indexed /\ srf_sec_idx \in 1 .. Len(sections) + 1
      /\ rels[kind] = Joined(PartsUpTo(kind, srf_sec_idx - 1))
      BY DEF ElfInv
<1> PICK n \in Nat : n = Len(sections)
    BY <1>1, SectionsAre
<1>2. DOMAIN sections = 1 .. n /\ srf_sec_idx - 1 = n
      BY <1>1, SectionsAre
<1> PICK X : X = SourceSet(kind)
    OBVIOUS
<1> PICK T : T = {pack_rela(x[1], x[2]) : x \in X}
    OBVIOUS
<1> PICK h : h = [x \in X |-> pack_rela(x[1], x[2])]
    OBVIOUS
<1> PICK ps : ps = [i \in 1 .. n |-> SourcesOf(kind, i)]
    OBVIOUS
<1> PICK tt : tt = PartsUpTo(kind, n)
    OBVIOUS
<1>3. h \in [X -> T]
      OBVIOUS
<1>4. \A i \in 1 .. n : PartOf(kind, i) = Mapped(h, SourcesOf(kind, i)) /\ SourcesOf(kind, i) \in Seq(X)
      BY <1>1, PartIsPacked
<1>5. SeqsOver(X, ps, n)
  <2>1. Len(ps) = n
        OBVIOUS
  <2>2. \A i \in 1 .. n : ps[i] = SourcesOf(kind, i)
        OBVIOUS
  <2>3. \A i \in 1 .. n : ps[i] \in Seq(X)
        BY <1>4, <2>2
  <2> QED BY <2>1, <2>3 DEF SeqsOver
<1>6. AreMapped(h, ps, tt, n)
  <2>1. Len(tt) = n /\ \A i \in 1 .. n : tt[i] = Mapped(h, ps[i])
        BY <1>4 DEF PartsUpTo
  <2> QED BY <2>1 DEF AreMapped
<1> PICK w : w = Joined(ps)
    OBVIOUS
<1>7. rels[kind] = Mapped(h, w)
  <2>1. MapFrom(h, X, T)
        BY <1>3 DEF MapFrom
  <2> QED BY <1>1, <1>2, <1>5, <1>6, <2>1, JoinedMapped
<1>8. w \in Seq(X) /\ RelocsFor(kind) = w
  <2>1. w \in Seq(X)
        BY <1>5, JoinedTyped
  <2>2. RelocsFor(kind) = w
        BY <1>2 DEF RelocsFor, SourcesOf
  <2> QED BY <2>1, <2>2
<1>9. /\ DOMAIN rels[kind] = DOMAIN w /\ Len(rels[kind]) = Len(w)
      /\ \A k \in DOMAIN w : rels[kind][k] = h[w[k]]
  <2>1. rels[kind] = [k \in 1 .. Len(w) |-> h[w[k]]] /\ Len(w) \in Nat /\ DOMAIN w = 1 .. Len(w)
        BY <1>7, <1>8 DEF Mapped
  <2> QED BY <2>1
<1>10. ASSUME \A i \in DOMAIN sections : Placed(i), NEW k \in DOMAIN w, Agreed(sections, w[k][1], w[k][2])
       PROVE  ElfRefers(kind, rels[kind][k]) = SrfRefers(w[k][1], w[k][2])
  <2> PICK x \in X : x = w[k]
      BY <1>8, LenProperties, ElementOfSeq
  <2> PICK i, rel : i = x[1] /\ rel = x[2]
      OBVIOUS
  <2>1. /\ i \in 1 .. Len(sections) /\ sections[i].s_scntyp = kind
        /\ \E p \in DOMAIN sections[i].relocations : rel = sections[i].relocations[p]
        /\ rel.r_rctyp \in DOMAIN SRF_RELOC_TO_ELF
    <3>1. x \in SourceSet(kind)
          OBVIOUS
    <3>2. IsSource(kind, x[1], x[2])
          BY <1>1, <3>1, SourceIs
    <3>3. IsSource(kind, i, rel)
          BY <3>2
    <3> QED BY <3>3 DEF IsSource
  <2>2. rels[kind][k] = pack_rela(i, rel)
        BY <1>9
  <2>3. ElfRefers(sections[i].s_scntyp, pack_rela(i, rel)) = SrfRefers(i, rel)
    <3>1. Agreed(sections, i, rel) /\ Indexed /\ sections \in SrfObjects
          BY <1>1, <1>10
    <3> PICK p \in DOMAIN sections[i].relocations : rel = sections[i].relocations[p]
        BY <2>1
    <3> QED BY <1>10, <2>1, <3>1, MeansSame
  <2> QED BY <2>1, <2>2, <2>3
<1> QED BY <1>8, <1>9, <1>10

\* srf2elf's output means what its input meant: every relocation of a type that
\* ELF has is kept, and is for the same part of the address of the same extern at
\* the same distance, though the externs are sorted into locals and globals and
\* the sections of a kind merged. Left out are the externs of relocations for
\* which the converter's rule and the document's name different lists.
THEOREM ElfRelocationsMeanTheSame == SrfToElfSpec => []ElfMeansSrf
<1>1. SrfToElfSpec => []ElfInv
      BY ElfInvInit, ElfInvStep, PTL DEF SrfToElfSpec
<1> QED BY <1>1, ElfInvMeans, PTL
=============================================================================
