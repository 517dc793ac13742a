------------------------------- MODULE ElfToSrf -------------------------------
(***************************************************************************)
(* elf_to_srf of tools/elf2srf/elf2srf.py: an ELF object's relocations     *)
(* become relocations of the SRF sections CODE (.text followed by          *)
(* .rodata), DATA and BSS.  Each section has a list of externs, which      *)
(* grows as relocations need them, and a relocation names its symbol by    *)
(* its place in the list of its own section.  The object's relocations are *)
(* its input, taken one after the other in the order process_relocs is     *)
(* called: .text, .rodata, .data.                                          *)
(***************************************************************************)
EXTENDS SeqLoops, RelocTypes

CONSTANTS Symbols,      \* the ELF symbol table, from index 0
          TextSizes,    \* lengths of .text, hence values of rodata_base
          RelocsIn,     \* the relocations a section may have
          RELOCS,       \* bound on the relocations of an object
          Width         \* addresses and addends count modulo Width, 2^32 in the files

ASSUME ElfToSrfAssumption ==
    /\ RELOCS \in Nat /\ Width \in Nat \ {0} /\ TextSizes \subseteq Nat
    /\ Symbols \in Seq({Symbols[i] : i \in DOMAIN Symbols}) /\ \A i \in DOMAIN Symbols : Symbols[i].value \in Nat
    /\ \A r \in RelocsIn : /\ r.sym \in DOMAIN Symbols /\ r.type \in DOMAIN ElfTypes
                           /\ r.offset \in Nat /\ r.r_addend \in Int /\ r.word \in Nat

ElfSections == <<".text", ".rodata", ".data">>

VARIABLES text_len,     \* len(text_data)
          todo,         \* number of ELF sections whose relocations are read
          taken,        \* history: the relocations read, per ELF section
          sym_name,     \* symbols that have a name, their own or the section's
          ext_lists, sym_to_ext, srf_rels

objVars == <<text_len, todo, taken, sym_name, ext_lists, sym_to_ext, srf_rels>>

Scns == {"CODE", "DATA", "BSS"}
UNDEF == "undef"
NoScn == "0"

shndx_to_scn_id(shndx) ==
    CASE shndx \in {".text", ".rodata"} -> "CODE"
      [] shndx = ".data" -> "DATA"
      [] shndx = ".bss" -> "BSS"
      [] OTHER -> NoScn

\* The SRF types of the ELF types 1 to 9.
ELF_TO_SRF_RELOC == <<1, 10, 7, 8, 9, 5, 2, 3, 4>>
R_S1C33_32 == 2
R_S1C33_REL21 == 6

\* find_rels_for: the addend of an entry without one is the word at the place
\* it relocates, if the entry fills a whole word.
Addend(rel) == IF rel.rela THEN rel.r_addend ELSE IF rel.type = R_S1C33_32 THEN rel.word ELSE 0

\* Mutated: the symbol's place in .rodata is not moved behind .text.
sym_offset_in_section_Unmoved(sym) == sym.value

sym_offset_in_section(sym) ==
    IF sym.shndx = ".rodata" THEN sym.value + text_len ELSE sym.value

\* The entry ensure_extern makes for a symbol first met at first_ref.
NewExtern(i, first_ref) ==
    LET sym == Symbols[i] IN
    IF sym.shndx \in {UNDEF, "COMMON"}
    THEN [sym |-> i, e_scnoff |-> first_ref, e_scnndx |-> NoScn, e_extyp |-> "EXTERN"]
    ELSE [sym |-> i, e_scnoff |-> sym_offset_in_section(sym),
          e_scnndx |-> shndx_to_scn_id(sym.shndx), e_extyp |-> "LOCAL"]

\* ensure_extern for a list of entries: the list with the symbol in it.
Ensured(list, map, i, first_ref) ==
    IF i \notin DOMAIN map THEN Append(list, NewExtern(i, first_ref))
    ELSE IF list[map[i]].e_extyp = "EXTERN" /\ list[map[i]].e_scnoff = 0
         THEN [list EXCEPT ![map[i]].e_scnoff = first_ref]
         ELSE list
EnsuredAt(list, map, i) ==
    IF i \in DOMAIN map THEN map
    ELSE [k \in DOMAIN map \union {i} |-> IF k = i THEN Len(list) + 1 ELSE map[k]]

\* Pass 1: the globals defined in a section open its list.
Exported(scn) ==
    Selected([i \in DOMAIN Symbols |-> i],
             {i \in 2 .. Len(Symbols) :
                 /\ Symbols[i].named /\ Symbols[i].type # "FILE"
                 /\ Symbols[i].bind \in {"GLOBAL", "WEAK"}
                 /\ Symbols[i].shndx \notin {UNDEF, "COMMON", "ABS"}
                 /\ shndx_to_scn_id(Symbols[i].shndx) = scn})

ObjInit ==
    /\ text_len \in TextSizes
    /\ todo = 1
    /\ taken = [s \in {".text", ".rodata", ".data"} |-> <<>>]
    /\ sym_name = {i \in DOMAIN Symbols : Symbols[i].named}
    /\ ext_lists = [scn \in Scns |-> [k \in DOMAIN Exported(scn) |-> NewExtern(Exported(scn)[k], 0)]]
    /\ sym_to_ext = [scn \in Scns |-> [i \in {Exported(scn)[k] : k \in DOMAIN Exported(scn)} |->
                        CHOOSE k \in DOMAIN Exported(scn) : Exported(scn)[k] = i]]
    /\ srf_rels = [scn \in Scns |-> <<>>]

Taken == Len(taken[".text"]) + Len(taken[".rodata"]) + Len(taken[".data"])

\* scn_offset_adj and scn_id of the section being read.
Adjust(s) == IF s = ".rodata" THEN text_len ELSE 0

\* An unnamed symbol gets its section's name; one of a section that SRF does
\* not have stays unnamed, and the relocation is dropped, as is one of a type
\* SRF does not have.
Convertible(rel) ==
    /\ rel.type \in DOMAIN ELF_TO_SRF_RELOC
    /\ rel.sym \in sym_name \/ shndx_to_scn_id(Symbols[rel.sym].shndx) # NoScn

\* process_relocs for one relocation that is not dropped.
process_reloc(rel) ==
    LET s == ElfSections[todo]
        scn == shndx_to_scn_id(s)
        r_scnoff == rel.offset + Adjust(s)
        list == Ensured(ext_lists[scn], sym_to_ext[scn], rel.sym, r_scnoff)
        map == EnsuredAt(ext_lists[scn], sym_to_ext[scn], rel.sym)
    IN  /\ ext_lists' = [ext_lists EXCEPT ![scn] = list]
        /\ sym_to_ext' = [sym_to_ext EXCEPT ![scn] = map]
        /\ srf_rels' = [srf_rels EXCEPT ![scn] = Append(@,
               [r_rctyp |-> ELF_TO_SRF_RELOC[rel.type], r_scnoff |-> r_scnoff, r_exndx |-> map[rel.sym],
                r_scnndx |-> shndx_to_scn_id(Symbols[rel.sym].shndx),
                r_symoff |-> Addend(rel) % Width])]
        /\ sym_name' = sym_name \union {rel.sym}

TakeReloc ==
    /\ todo <= Len(ElfSections) /\ Taken < RELOCS
    /\ \E rel \in RelocsIn :
          /\ taken' = [taken EXCEPT ![ElfSections[todo]] = Append(@, rel)]
          /\ IF Convertible(rel) THEN process_reloc(rel)
             ELSE UNCHANGED <<ext_lists, sym_to_ext, srf_rels, sym_name>>
    /\ UNCHANGED <<text_len, todo>>

NextSection ==
    /\ todo <= Len(ElfSections)
    /\ todo' = todo + 1
    /\ UNCHANGED <<text_len, taken, sym_name, ext_lists, sym_to_ext, srf_rels>>

ObjNext == TakeReloc \/ NextSection
ObjSpec == ObjInit /\ [][ObjNext]_objVars

-----------------------------------------------------------------------------
\* What a relocation of the object means: which part of which address goes
\* where, in the SRF sections.
ElfMeaning(s, rel) ==
    LET sym == Symbols[rel.sym] IN
    [at |-> rel.offset + Adjust(s), type |-> ElfTypes[rel.type],
     to |-> IF sym.shndx \in {UNDEF, "COMMON"} THEN <<"extern", rel.sym>>
            ELSE <<"in", shndx_to_scn_id(sym.shndx)>>,
     off |-> (Addend(rel)
              + (IF sym.shndx \in {UNDEF, "COMMON"} THEN 0
                 ELSE sym.value + (IF sym.shndx = ".rodata" THEN text_len ELSE 0))) % Width]

\* What the linker makes of an SRF relocation: its type by the format document,
\* its address, by the comment of process_relocs, section base + e_scnoff +
\* r_symoff of the extern in the list of the relocation's own section.
SrfMeaning(scn, r) ==
    LET ext == ext_lists[scn][r.r_exndx] IN
    [at |-> r.r_scnoff, type |-> SrfTypes[r.r_rctyp],
     to |-> IF ext.e_extyp = "EXTERN" THEN <<"extern", ext.sym>> ELSE <<"in", ext.e_scnndx>>,
     off |-> ((IF ext.e_extyp = "EXTERN" THEN 0 ELSE ext.e_scnoff) + r.r_symoff) % Width]

\* A relocation that is not dropped with a warning: one of a type in the table,
\* and not against a section SRF does not have.
Expressible(rel) ==
    /\ rel.type \in DOMAIN ELF_TO_SRF_RELOC
    /\ Symbols[rel.sym].named \/ shndx_to_scn_id(Symbols[rel.sym].shndx) # NoScn

\* The relocations read for a section of the SRF file, and what is meant by
\* those that are not dropped.
ReadOf(s) == [k \in DOMAIN taken[s] |-> [s |-> s, rel |-> taken[s][k]]]
ReadFor(scn) == IF scn = "CODE" THEN ReadOf(".text") \o ReadOf(".rodata") ELSE ReadOf(".data")
Meant(scn) ==
    LET kept == Selected(ReadFor(scn), {k \in DOMAIN ReadFor(scn) : Expressible(ReadFor(scn)[k].rel)})
    IN  [k \in DOMAIN kept |-> ElfMeaning(kept[k].s, kept[k].rel)]

\* No relocation read so far is of the type REL21, for which SRF has no type
\* and the table has the number of REL_AH.
NoneREL21 == \A s \in DOMAIN taken : \A k \in DOMAIN taken[s] : taken[s][k].type # R_S1C33_REL21

\* At every moment the SRF relocations, read with the extern lists as they are
\* by then, mean what the ELF relocations read so far mean, in their order and
\* none missing but those dropped with a warning: neither the growing lists nor
\* the placing of .rodata behind .text moves a reference, and each type goes to
\* the type that takes the same bits of the address. REL21 is left out: see
\* BackToTheSameType.
SrfMeansElf ==
    NoneREL21 =>
        \A scn \in {"CODE", "DATA"} :
            [k \in DOMAIN srf_rels[scn] |-> SrfMeaning(scn, srf_rels[scn][k])] = Meant(scn)
=============================================================================
