------------------------------- MODULE SrfToElf -------------------------------
(***************************************************************************)
(* srf_to_elf of tools/srf2elf/srf2elf.py: the SRF33 sections of a kind    *)
(* become one ELF section, their externs one symbol table with the locals  *)
(* before the globals, and their relocations entries that name a symbol by *)
(* its place in that table.  The sections of a file are taken in order,    *)
(* first for their externs, then for their relocations.                    *)
(***************************************************************************)
EXTENDS Integers, FiniteSetsExt, SeqLoops, RelocTypes

CONSTANTS SrfObjects,    \* the files
          Signed         \* r_symoff counts modulo 2 * Signed, 2^32 in the files

Externs33     == [e_exnam : STRING, e_extyp : {"EXTERN", "LOCAL", "GLOBAL"}, e_scnoff : Nat]
Relocations33 == [r_rctyp : Nat, r_scnoff : Nat, r_exndx : Nat, r_scnndx : Nat, r_symoff : 0 .. 2 * Signed - 1]
Sections33    == [s_scntyp : {"CODE", "DATA", "BSS"}, s_scnndx : Nat, s_dsiz : Nat,
                  externs : Seq(Externs33), relocations : Seq(Relocations33)]

\* The list a relocation's extern is in, by the format document: that of the
\* section with r_scnndx's number.
ListOf(secs, rel) == CHOOSE j \in DOMAIN secs : secs[j].s_scnndx = rel.r_scnndx

\* By its own rule the converter looks in the list of the relocation's section
\* first. Where it finds an extern there, the two agree if the section is the
\* one with that number.
Agreed(secs, i, rel) == rel.r_exndx \in DOMAIN secs[i].externs => ListOf(secs, rel) = i

\* The sections' numbers differ.  Relocations are for words of their section,
\* and none are for the zeroes of a BSS section; each names an extern, and if
\* that is defined it is the label of a word of its section.
WellFormed(obj) ==
    /\ \A i, j \in DOMAIN obj : obj[i].s_scnndx = obj[j].s_scnndx => i = j
    /\ \A i \in DOMAIN obj : \A k \in DOMAIN obj[i].relocations :
        LET rel == obj[i].relocations[k]
        IN  /\ obj[i].s_scntyp # "BSS" /\ rel.r_scnoff < obj[i].s_dsiz
            /\ \E j \in DOMAIN obj :
                 /\ obj[j].s_scnndx = rel.r_scnndx /\ rel.r_exndx \in DOMAIN obj[j].externs
                 /\ \/ obj[j].externs[rel.r_exndx].e_extyp = "EXTERN"
                    \/ obj[j].externs[rel.r_exndx].e_scnoff < obj[j].s_dsiz

ASSUME SrfToElfAssumption ==
    /\ Signed \in Nat \ {0}
    /\ SrfObjects \subseteq Seq(Sections33)
    /\ \A obj \in SrfObjects : WellFormed(obj)

VARIABLES sections,
          stage, srf_sec_idx,           \* the loop the conversion is in, and its section
          local_syms, global_syms,
          symtab, srf_sym_index,
          rels                          \* text_rels and data_rels

elfVars == <<sections, stage, srf_sec_idx, local_syms, global_syms, symtab, srf_sym_index, rels>>

\* SRF_RELOC_TO_ELF; types it lacks are dropped with a warning.
SRF_RELOC_TO_ELF == <<1, 7, 8, 9, 10, 11, 3, 4, 5, 2>>

SHN_UNDEF == "undef"
NullSym == [name |-> "", value |-> 0, shndx |-> SHN_UNDEF]

SrfToElfInit ==
    /\ sections \in SrfObjects
    /\ stage = "externs" /\ srf_sec_idx = 1
    /\ local_syms = <<>> /\ global_syms = <<>>
    /\ symtab = <<NullSym>>
    /\ srf_sym_index = [key \in {} |-> 0]
    /\ rels = [t \in {"CODE", "DATA"} |-> <<>>]

\* Mutated: the base of every section but the first is that of its neighbour.
elf_section_base_LastOnly(i) ==
    IF sections[i].s_scntyp = "BSS" \/ i = 1 THEN 0
    ELSE IF sections[i - 1].s_scntyp = sections[i].s_scntyp THEN sections[i - 1].s_dsiz ELSE 0

\* _elf_section_base: the code or data sections of a kind lie one behind the
\* other, sections of the kind BSS all at 0.
elf_section_base(i) ==
    IF sections[i].s_scntyp = "BSS" THEN 0
    ELSE Total([j \in 1 .. i - 1 |->
                   IF sections[j].s_scntyp = sections[i].s_scntyp THEN sections[j].s_dsiz ELSE 0])

SymbolOf(i, k) ==
    LET ext == sections[i].externs[k]
        undefined == ext.e_extyp = "EXTERN"
    IN  [sec |-> i, ext |-> k, name |-> ext.e_exnam,
         value |-> IF undefined THEN 0 ELSE ext.e_scnoff + elf_section_base(i),
         shndx |-> IF undefined THEN SHN_UNDEF ELSE sections[i].s_scntyp]

\* One section's externs, in its order, to the two lists.
CollectExterns ==
    /\ stage = "externs" /\ srf_sec_idx <= Len(sections)
    /\ LET exts == sections[srf_sec_idx].externs
           syms == [k \in DOMAIN exts |-> SymbolOf(srf_sec_idx, k)]
           locals == {k \in DOMAIN exts : exts[k].e_extyp = "LOCAL"}
       IN  /\ local_syms' = local_syms \o Selected(syms, locals)
           /\ global_syms' = global_syms \o Selected(syms, DOMAIN exts \ locals)
    /\ srf_sec_idx' = srf_sec_idx + 1
    /\ UNCHANGED <<sections, stage, symtab, srf_sym_index, rels>>

\* Mutated: a symbol's index is its place in its own list.
Indices_PerList(syms) ==
    [key \in {<<syms[k].sec, syms[k].ext>> : k \in DOMAIN syms} |->
        CHOOSE k \in 1 .. Len(syms) :
            \/ k <= Len(local_syms) /\ <<local_syms[k].sec, local_syms[k].ext>> = key
            \/ k <= Len(global_syms) /\ <<global_syms[k].sec, global_syms[k].ext>> = key]

\* Where each extern is in the table, whose entry 0 is the null symbol.
Indices(syms) ==
    [key \in {<<syms[k].sec, syms[k].ext>> : k \in DOMAIN syms} |->
        CHOOSE k \in DOMAIN syms : <<syms[k].sec, syms[k].ext>> = key]

AddSymbols ==
    /\ stage = "externs" /\ srf_sec_idx = Len(sections) + 1
    /\ LET syms == local_syms \o global_syms
       IN  /\ symtab' = <<NullSym>> \o syms
           /\ srf_sym_index' = Indices(syms)
    /\ stage' = "relocations" /\ srf_sec_idx' = 1
    /\ UNCHANGED <<sections, local_syms, global_syms, rels>>

\* _find_section_by_id: the first section, if none has the number.
find_section_by_id(scnndx) ==
    LET found == {i \in DOMAIN sections : sections[i].s_scnndx = scnndx}
    IN  IF found = {} THEN 1 ELSE Min(found)

\* r_symoff read as a signed word.
r_addend(rel) == IF rel.r_symoff < Signed THEN rel.r_symoff ELSE rel.r_symoff - 2 * Signed

\* The symbol's number: by the section's own list, else by r_scnndx's, else 0.
elf_sym_idx(i, rel) ==
    LET key == IF <<i, rel.r_exndx>> \in DOMAIN srf_sym_index THEN <<i, rel.r_exndx>>
               ELSE <<find_section_by_id(rel.r_scnndx), rel.r_exndx>>
    IN  IF key \in DOMAIN srf_sym_index THEN srf_sym_index[key] ELSE 0

\* The relocations of a section that have a type ELF knows.
known(i) == Selected(sections[i].relocations,
                     {k \in DOMAIN sections[i].relocations :
                         sections[i].relocations[k].r_rctyp \in DOMAIN SRF_RELOC_TO_ELF})

\* pack_rela of one of them.
pack_rela(i, rel) ==
    [r_offset |-> rel.r_scnoff + elf_section_base(i), r_type |-> SRF_RELOC_TO_ELF[rel.r_rctyp],
     r_sym |-> elf_sym_idx(i, rel), r_addend |-> r_addend(rel)]

ConvertRelocs ==
    /\ stage = "relocations" /\ srf_sec_idx <= Len(sections)
    /\ LET i == srf_sec_idx
           of == IF sections[i].s_scntyp = "CODE" THEN "CODE" ELSE "DATA"
       IN  rels' = [rels EXCEPT ![of] = @ \o [k \in DOMAIN known(i) |-> pack_rela(i, known(i)[k])]]
    /\ srf_sec_idx' = srf_sec_idx + 1
    /\ UNCHANGED <<sections, stage, local_syms, global_syms, symtab, srf_sym_index>>

SrfToElfNext == CollectExterns \/ AddSymbols \/ ConvertRelocs
SrfToElfSpec == SrfToElfInit /\ [][SrfToElfNext]_elfVars

-----------------------------------------------------------------------------
\* Words of the sections of one kind, one behind the other.
Words33(kind) == Joined([j \in DOMAIN sections |->
                     IF sections[j].s_scntyp = kind
                     THEN [k \in 1 .. sections[j].s_dsiz |-> <<j, k - 1>>] ELSE <<>>])

\* The symbols of a BSS section after the first have no place of their own.
Placed(i) == sections[i].s_scntyp = "BSS" =>
                \A j \in 1 .. i - 1 : sections[j].s_scntyp # "BSS"

\* What a relocation of section i means: which part of which address goes to
\* which word, the address being an extern's and a distance from it.
SrfRefers(i, rel) ==
    LET j   == ListOf(sections, rel)
        ext == sections[j].externs[rel.r_exndx]
        add == IF rel.r_symoff < Signed THEN rel.r_symoff ELSE rel.r_symoff - 2 * Signed
    IN  [word |-> <<i, rel.r_scnoff>>, type |-> SrfTypes[rel.r_rctyp],
         to |-> IF ext.e_extyp = "EXTERN" THEN <<"extern", ext.e_exnam, add>>
                ELSE <<ext.e_exnam, <<j, ext.e_scnoff>>, add>>]

\* The same of an ELF relocation, by the symbol table and the merged sections.
ElfRefers(kind, r) ==
    LET sym == symtab[r.r_sym + 1]
    IN  [word |-> Words33(kind)[r.r_offset + 1], type |-> ElfTypes[r.r_type],
         to |-> IF sym.shndx = SHN_UNDEF THEN <<"extern", sym.name, r.r_addend>>
                ELSE <<sym.name,
                       IF sym.shndx = "BSS"
                       THEN <<Min({j \in DOMAIN sections : sections[j].s_scntyp = "BSS"}), sym.value>>
                       ELSE Words33(sym.shndx)[sym.value + 1], r.r_addend>>]

\* The relocations of known types for the words of a kind, with their sections.
RelocsFor(kind) ==
    Joined([i \in DOMAIN sections |->
               IF sections[i].s_scntyp = kind
               THEN [k \in DOMAIN known(i) |-> <<i, known(i)[k]>>] ELSE <<>>])

\* Every relocation of a known type is kept, in its order, and one in whose
\* extern the document and the converter agree is for the same part of the
\* address of the same extern at the same place, wherever the merging and the
\* sorting of the symbols have moved them.  (Objects with a second BSS section
\* are left out: see Placed.)
ElfMeansSrf ==
    (stage = "relocations" /\ srf_sec_idx > Len(sections)) =>
        \A kind \in {"CODE", "DATA"} :
            /\ Len(rels[kind]) = Len(RelocsFor(kind))
            /\ (\A i \in DOMAIN sections : Placed(i)) =>
                 \A k \in DOMAIN rels[kind] :
                     LET i == RelocsFor(kind)[k][1]
                         rel == RelocsFor(kind)[k][2]
                     IN  Agreed(sections, i, rel) => ElfRefers(kind, rels[kind][k]) = SrfRefers(i, rel)
=============================================================================
