------------------------------ MODULE ObjectFiles ------------------------------
(***************************************************************************)
(* The files the object converters exchange.  An object is written as an   *)
(* SRF33 file (tools/elf2srf/elf2srf.py), read, written as an ELF file     *)
(* (tools/srf2elf/srf2elf.py) and read again by elf2srf.py.  What a        *)
(* relocation or a symbol says is ElfToSrf's and SrfToElf's subject; here  *)
(* they are entries that fill bytes, found by offsets, counts and links.   *)
(*                                                                         *)
(* A file is a sequence of bytes, each of which knows of what it is which  *)
(* byte; unpacking succeeds where all the bytes of one thing are in order. *)
(***************************************************************************)
EXTENDS Integers, Sequences, SequencesExt, FiniteSetsExt

CONSTANTS
  CTRL_HDR_SIZE, SCN_HDR_SIZE, SRF_RELOC_SIZE, SRF_EXTERN_FIXED,
  EHDR_SIZE, SHDR_SIZE, SYM_SIZE, RELA_SIZE,
  ALIGN,       \* sh_addralign of .text, the tables and the headers (4)
  Names,       \* symbol name -> its length
  NAMSIZ_MAX,  \* the longest name e_namsiz can count (255)
  Contents     \* [exec, scns]: per SRF section its relocs, names of externs and bytes

VARIABLES
  object, file, stage,
  ptr,         \* the section header srf_parse is at
  got          \* what was read of the file

fileVars == <<object, file, stage, ptr, got>>

Scns33 == <<"CODE", "DATA", "BSS">>

\* struct.pack and struct.unpack_from.
Pack(x, n) == [k \in 1 .. n |-> [of |-> x, byte |-> k]]
Garbage == [is |-> "garbage"]
Unpack(off, n) ==
  IF off >= 0 /\ off + n <= Len(file) /\ \A k \in 1 .. n : file[off + k] = [of |-> file[off + 1].of, byte |-> k]
  THEN file[off + 1].of ELSE Garbage
Zeros(n) == [k \in 1 .. n |-> [of |-> [is |-> "zero"], byte |-> 1]]
Bytes(off, n) == SubSeq(file, off + 1, off + n)

-----------------------------------------------------------------------------
(***************************************************************************)
(* Writing SRF33.                                                          *)
(***************************************************************************)
Extern(scn, k) == [is |-> "extern", scn |-> scn, e_exnam |-> object.scns[scn].externs[k]]
RelocsOf(scn)  == [k \in 1 .. object.scns[scn].relocs |-> [is |-> "reloc", scn |-> scn, nr |-> k]]
ExternsOf(scn) == [k \in DOMAIN object.scns[scn].externs |-> Extern(scn, k)]
RawOf(scn)     == [k \in 1 .. object.scns[scn].dsiz |-> [of |-> [is |-> "raw", scn |-> scn, nr |-> k], byte |-> 1]]

pack_reloc(r)  == Pack(r, SRF_RELOC_SIZE)
pack_extern(e) == Pack(e, SRF_EXTERN_FIXED + Names[e.e_exnam])

\* The payload of a section: relocations, externs and raw data.
Parts(scn) ==
  <<FlattenSeq([k \in DOMAIN RelocsOf(scn) |-> pack_reloc(RelocsOf(scn)[k])]),
    FlattenSeq([k \in DOMAIN ExternsOf(scn) |-> pack_extern(ExternsOf(scn)[k])]),
    IF scn = "BSS" THEN <<>> ELSE RawOf(scn)>>
Payload == FlattenSeq([i \in 1 .. 3 |-> Parts(Scns33[i])])

\* Where part p of section i begins; 0 if it is empty.
PartPtr(i, p) ==
  IF Parts(Scns33[i])[p] = <<>> THEN 0
  ELSE CTRL_HDR_SIZE + 3 * SCN_HDR_SIZE + Len(FlattenSeq(SubSeq(Payload, 1, 3 * (i - 1) + p - 1)))

pack_scn_hdr(i) ==
  LET scn == Scns33[i]
  IN  Pack([is |-> "scn", s_nxptr |-> IF i = 3 THEN 0 ELSE CTRL_HDR_SIZE + i * SCN_HDR_SIZE,
            s_scntyp |-> scn, s_rcptr |-> PartPtr(i, 1), s_rcsiz |-> Len(Parts(scn)[1]),
            s_exptr |-> PartPtr(i, 2), s_exsiz |-> Len(Parts(scn)[2]),
            s_excnt |-> Len(ExternsOf(scn)), s_rdptr |-> PartPtr(i, 3),
            s_dsiz |-> object.scns[scn].dsiz], SCN_HDR_SIZE)

pack_ctrl_hdr(c_fatt) == Pack([is |-> "ctrl", c_fatt |-> c_fatt, c_scnptr |-> CTRL_HDR_SIZE], CTRL_HDR_SIZE)

SrfFile(c_fatt) == pack_ctrl_hdr(c_fatt) \o pack_scn_hdr(1) \o pack_scn_hdr(2) \o pack_scn_hdr(3) \o FlattenSeq(Payload)

NamesFit == \A i \in 1 .. 3 : \A k \in DOMAIN ExternsOf(Scns33[i]) : Names[ExternsOf(Scns33[i])[k].e_exnam] <= NAMSIZ_MAX

\* A name that is too long makes the conversion fail, and no file is written.
WriteFails == stage = "write" /\ ~NamesFit /\ stage' = "failed" /\ UNCHANGED <<object, file, ptr, got>>

\* The end of elf_to_srf and its file, for an object ...
WriteObject ==
  /\ stage = "write" /\ NamesFit /\ ~object.exec
  /\ file' = SrfFile({"RELOC"})
  /\ stage' = "open" /\ UNCHANGED <<object, ptr, got>>

\* ... and the end of exec_elf_to_srf, for a linked program, which has no relocations.
WriteExec ==
  /\ stage = "write" /\ NamesFit /\ object.exec
  /\ file' = SrfFile({"EXEC", "ABS"})
  /\ stage' = "open" /\ UNCHANGED <<object, ptr, got>>

-----------------------------------------------------------------------------
(***************************************************************************)
(* Reading SRF33: srf_parse, one section header after the other.           *)
(***************************************************************************)
\* _parse_relocs; srf_dump.py reads the entries in the same way.
RelocAt(rcptr, k) == Unpack(rcptr + (k - 1) * SRF_RELOC_SIZE, SRF_RELOC_SIZE)
parse_relocs(rcptr, rcsiz) ==
  IF rcptr = 0 \/ rcsiz = 0 THEN <<>> ELSE [k \in 1 .. rcsiz \div SRF_RELOC_SIZE |-> RelocAt(rcptr, k)]

\* The entry at an offset: its fixed part tells the length of its name.
ExternAt(off) ==
  LET namsiz == IF off + 1 \in DOMAIN file /\ file[off + 1].of.is = "extern"
                THEN Names[file[off + 1].of.e_exnam] ELSE 0
  IN  [e |-> Unpack(off, SRF_EXTERN_FIXED + namsiz), size |-> SRF_EXTERN_FIXED + namsiz]

\* Mutated: as the format's manual says, e_scnndx has two bytes more.
parse_externs_ByManual(exptr, excnt) ==
  LET next(acc, k) == [externs |-> Append(acc.externs, ExternAt(acc.off).e), off |-> acc.off + ExternAt(acc.off).size + 2]
  IN  IF exptr = 0 THEN <<>> ELSE FoldLeft(next, [externs |-> <<>>, off |-> exptr], [k \in 1 .. excnt |-> k]).externs

\* _parse_externs
parse_externs(exptr, excnt) ==
  LET next(acc, k) == [externs |-> Append(acc.externs, ExternAt(acc.off).e), off |-> acc.off + ExternAt(acc.off).size]
  IN  IF exptr = 0 THEN <<>> ELSE FoldLeft(next, [externs |-> <<>>, off |-> exptr], [k \in 1 .. excnt |-> k]).externs

\* _read_rawdata
read_rawdata(h) == IF h.s_rdptr # 0 /\ h.s_scntyp # "BSS" THEN Bytes(h.s_rdptr, h.s_dsiz) ELSE <<>>

CtrlHeader == Unpack(0, CTRL_HDR_SIZE)
HeaderAt(p) == Unpack(p, SCN_HDR_SIZE)

OpenSrf ==
  /\ stage = "open"
  /\ ptr' = CtrlHeader.c_scnptr /\ got' = <<>>
  /\ stage' = "read" /\ UNCHANGED <<object, file>>

ReadSection ==
  /\ stage = "read" /\ ptr # 0
  /\ LET h == HeaderAt(ptr)
     IN  /\ got' = Append(got, [s_scntyp |-> h.s_scntyp, s_dsiz |-> h.s_dsiz,
                                relocs |-> parse_relocs(h.s_rcptr, h.s_rcsiz),
                                externs |-> parse_externs(h.s_exptr, h.s_excnt), raw |-> read_rawdata(h)])
         /\ ptr' = h.s_nxptr
  /\ UNCHANGED <<object, file, stage>>

-----------------------------------------------------------------------------
(***************************************************************************)
(* Looking into an SRF file that elf2srf.py has written.                   *)
(***************************************************************************)
\* The headers from p on, by their links.
HeadersFrom[p \in 0 .. Len(file)] == IF p = 0 THEN <<>> ELSE <<HeaderAt(p)>> \o HeadersFrom[HeaderAt(p).s_nxptr]
parse_all_sections == HeadersFrom[CtrlHeader.c_scnptr]

\* srf_dump.py shows the entries of every section.
DumpSrf ==
  /\ stage = "open" /\ stage' = "dumped"
  /\ got' = [i \in DOMAIN parse_all_sections |->
               LET h == parse_all_sections[i]
               IN  [s_scntyp |-> h.s_scntyp, s_dsiz |-> h.s_dsiz,
                    relocs |-> parse_relocs(h.s_rcptr, h.s_rcsiz), externs |-> parse_externs(h.s_exptr, h.s_excnt)]]
  /\ UNCHANGED <<object, file, ptr>>

\* elf2srf.py --check of an object: the global names that the extern lists lack.
RoundTripCheck ==
  /\ stage = "open" /\ ~object.exec /\ stage' = "checked"
  /\ LET globals == UNION {Range(object.scns[scn].externs) : scn \in Range(Scns33)}
         externs(h) == parse_externs(h.s_exptr, h.s_excnt)
         srf_names == UNION {{externs(h)[k].e_exnam : k \in DOMAIN externs(h)} : h \in Range(parse_all_sections)}
     IN  got' = [missing |-> globals \ srf_names]
  /\ UNCHANGED <<object, file, ptr>>

-----------------------------------------------------------------------------
(***************************************************************************)
(* Writing ELF: srf_to_elf from its section table on.                      *)
(***************************************************************************)
\* Strings are as long as their names, a section's name two bytes.
NUL == [of |-> [is |-> "zero"], byte |-> 1]
Str(s) == Append(Pack([is |-> "chars", s |-> s], IF s \in DOMAIN Names THEN Names[s] ELSE 2), NUL)

\* StringTable: each string once, behind an empty one.
StringTable(strings) ==
  LET add(t, s) == IF s \in DOMAIN t.index THEN t
                   ELSE [data |-> t.data \o Str(s),
                         index |-> [x \in DOMAIN t.index \union {s} |-> IF x = s THEN Len(t.data) ELSE t.index[x]]]
  IN  FoldLeft(add, [data |-> <<NUL>>, index |-> [x \in {} |-> 0]], strings)

OfType(typ) == SelectSeq(got, LAMBDA s : s.s_scntyp = typ)
All(seqs)   == FlattenSeq(seqs)
Raw(typ)    == All([k \in DOMAIN OfType(typ) |-> OfType(typ)[k].raw])
Relas(typ)  == All([k \in DOMAIN OfType(typ) |-> OfType(typ)[k].relocs])
Syms        == All([k \in DOMAIN got |-> got[k].externs])
BssTotal    == FoldSeq(+, 0, [k \in DOMAIN OfType("BSS") |-> OfType("BSS")[k].s_dsiz])

pack_ehdr(e_type, e_shoff, e_shnum, e_shstrndx) ==
  Pack([is |-> "ehdr", e_type |-> e_type, e_shoff |-> e_shoff, e_shnum |-> e_shnum, e_shstrndx |-> e_shstrndx], EHDR_SIZE)
pack_shdr(sh_name, sh_type, sh_offset, sh_size, sh_link, sh_info, sh_addralign) ==
  Pack([is |-> "shdr", sh_name |-> sh_name, sh_type |-> sh_type, sh_offset |-> sh_offset, sh_size |-> sh_size,
        sh_link |-> sh_link, sh_info |-> sh_info, sh_addralign |-> sh_addralign], SHDR_SIZE)
pack_sym(st_name, e) == Pack([is |-> "sym", st_name |-> st_name, e |-> e], SYM_SIZE)
pack_rela(r) == Pack(r, RELA_SIZE)

Section(name, type, data, link, info, align) ==
  [name |-> name, type |-> type, data |-> data, link |-> link, info |-> info, align |-> align]
Rela(name, typ, symtab, info) ==
  IF Relas(typ) = <<>> THEN <<>>
  ELSE <<Section(name, "RELA", All([k \in DOMAIN Relas(typ) |-> pack_rela(Relas(typ)[k])]), symtab, info, ALIGN)>>

\* NULL, .text, .data, .bss, [.rela.text], [.rela.data], .symtab, .strtab, .shstrtab
elf_sections ==
  LET symtab_idx == 4 + (IF Relas("CODE") = <<>> THEN 0 ELSE 1) + (IF Relas("DATA") = <<>> THEN 0 ELSE 1)
      strings == StringTable([k \in DOMAIN Syms |-> Syms[k].e_exnam])
      symbol(k) == pack_sym(strings.index[Syms[k].e_exnam], Syms[k])
      body == <<Section("", "NULL", <<>>, 0, 0, 0), Section(".text", "PROGBITS", Raw("CODE"), 0, 0, ALIGN),
                Section(".data", "PROGBITS", Raw("DATA"), 0, 0, 1), Section(".bss", "NOBITS", <<>>, 0, 0, 1)>>
              \o Rela(".rela.text", "CODE", symtab_idx, 1) \o Rela(".rela.data", "DATA", symtab_idx, 2)
              \o <<Section(".symtab", "SYMTAB",
                           pack_sym(0, [is |-> "null"])
                           \o All([k \in DOMAIN Syms |-> symbol(k)]), symtab_idx + 1, 1, ALIGN),
                   Section(".strtab", "STRTAB", strings.data, 0, 0, 1)>>
      names == StringTable(<<"", ".text", ".data", ".bss">>
                           \o SelectSeq([k \in 1 .. Len(body) - 4 |-> body[k + 4].name], LAMBDA s : TRUE)
                           \o <<".shstrtab">>)
  IN  [secs |-> Append(body, Section(".shstrtab", "STRTAB", names.data, 0, 0, 1)), names |-> names.index]

Aligned(cur, aln) == IF aln > 1 /\ cur % aln # 0 THEN cur + aln - (cur % aln) ELSE cur

\* Each section at its alignment; one without bits takes no room.
Offsets(secs) ==
  LET place(acc, s) == LET at == Aligned(acc.cur, s.align)
                       IN  [at |-> Append(acc.at, at), cur |-> at + (IF s.type = "NOBITS" THEN 0 ELSE Len(s.data))]
  IN  FoldLeft(place, [at |-> <<>>, cur |-> EHDR_SIZE], secs)

srf_to_elf ==
  /\ stage = "read" /\ ptr = 0
  /\ LET tables == elf_sections
         secs == tables.secs
         offs == Offsets(secs)
         shoff == Aligned(offs.cur, ALIGN)
         ehdr == pack_ehdr(IF object.exec THEN "EXEC" ELSE "REL", shoff, Len(secs), Len(secs) - 1)
         write(out, k) == out \o Zeros(offs.at[k] - Len(out)) \o (IF secs[k].type = "NOBITS" THEN <<>> ELSE secs[k].data)
         body == FoldLeft(write, ehdr, [k \in DOMAIN secs |-> k])
         shdr(k) == pack_shdr(IF k = 1 THEN 0 ELSE tables.names[secs[k].name], secs[k].type, offs.at[k],
                              IF secs[k].name = ".bss" THEN BssTotal ELSE Len(secs[k].data),
                              secs[k].link, secs[k].info, secs[k].align)
     IN  file' = body \o Zeros(shoff - Len(body)) \o All([k \in DOMAIN secs |-> shdr(k)])
  /\ stage' = "elf" /\ UNCHANGED <<object, ptr, got>>

-----------------------------------------------------------------------------
(***************************************************************************)
(* Reading ELF: parse_elf.                                                 *)
(***************************************************************************)
\* A linked program is not for parse_elf.
RefuseExec ==
  /\ stage = "elf" /\ Unpack(0, EHDR_SIZE).e_type # "REL"
  /\ stage' = "refused" /\ UNCHANGED <<object, file, ptr, got>>

CString(table, off) ==
  LET c == table[off + 1]
  IN  IF c = NUL THEN "" ELSE IF c.of.is = "chars" /\ c.byte = 1 THEN c.of.s ELSE "garbage"

parse_elf ==
  /\ stage = "elf" /\ Unpack(0, EHDR_SIZE).e_type = "REL"
  /\ LET ehdr == Unpack(0, EHDR_SIZE)
         shdr == [i \in 0 .. ehdr.e_shnum - 1 |-> Unpack(ehdr.e_shoff + i * SHDR_SIZE, SHDR_SIZE)]
         data(i) == IF shdr[i].sh_type = "NOBITS" THEN <<>> ELSE Bytes(shdr[i].sh_offset, shdr[i].sh_size)
         shstrtab == data(ehdr.e_shstrndx)
         name == [i \in DOMAIN shdr |-> CString(shstrtab, shdr[i].sh_name)]
         find(s) == Min({i \in DOMAIN shdr : name[i] = s})
         symtab == Min({i \in DOMAIN shdr : shdr[i].sh_type = "SYMTAB"})
         entries(i, size) == [k \in 1 .. shdr[i].sh_size \div size |-> Unpack(shdr[i].sh_offset + (k - 1) * size, size)]
         rels(target) == All([i \in 1 .. ehdr.e_shnum - 1 |->
                            IF shdr[i].sh_info = target /\ shdr[i].sh_type = "RELA" THEN entries(i, RELA_SIZE) ELSE <<>>])
         syms == entries(symtab, SYM_SIZE)
         strtab == data(shdr[symtab].sh_link)
     IN  got' = [text |-> data(find(".text")), data |-> data(find(".data")), bss |-> shdr[find(".bss")].sh_size,
                 text_rels |-> rels(find(".text")), data_rels |-> rels(find(".data")),
                 symbols |-> [k \in DOMAIN syms |-> <<syms[k].e, CString(strtab, syms[k].st_name)>>],
                 placed |-> \A i \in 1 .. ehdr.e_shnum - 1 : shdr[i].sh_offset % Max({shdr[i].sh_addralign, 1}) = 0]
  /\ stage' = "done" /\ UNCHANGED <<object, file, ptr>>

FilesInit ==
  /\ object \in Contents /\ (object.exec => \A scn \in DOMAIN object.scns : object.scns[scn].relocs = 0)
  /\ file = <<>> /\ stage = "write" /\ ptr = 0 /\ got = <<>>

FilesNext ==
  \/ WriteFails \/ WriteObject \/ WriteExec \/ DumpSrf \/ RoundTripCheck
  \/ OpenSrf \/ ReadSection \/ srf_to_elf \/ RefuseExec \/ parse_elf

-----------------------------------------------------------------------------
\* What is read of an SRF file is what was written into it, section by section
\* and entry by entry, and so it is with the ELF file made of it, where the
\* sections also lie at their alignment: no part overlaps another, and no
\* pointer, count, link or length leads beside its entry.  A dump shows the
\* same entries, and the round-trip check misses no name.
FilesKeepObject ==
  /\ (stage = "read" /\ ptr = 0) =>
        got = [i \in 1 .. 3 |->
                 [s_scntyp |-> Scns33[i], s_dsiz |-> object.scns[Scns33[i]].dsiz,
                  relocs |-> RelocsOf(Scns33[i]), externs |-> ExternsOf(Scns33[i]),
                  raw |-> IF Scns33[i] = "BSS" THEN <<>> ELSE RawOf(Scns33[i])]]
  /\ stage = "dumped" =>
        got = [i \in 1 .. 3 |-> [s_scntyp |-> Scns33[i], s_dsiz |-> object.scns[Scns33[i]].dsiz,
                                 relocs |-> RelocsOf(Scns33[i]), externs |-> ExternsOf(Scns33[i])]]
  /\ stage = "checked" => got = [missing |-> {}]
  /\ stage = "done" =>
        LET all == ExternsOf("CODE") \o ExternsOf("DATA") \o ExternsOf("BSS")
        IN  got = [text |-> RawOf("CODE"), data |-> RawOf("DATA"), bss |-> object.scns["BSS"].dsiz,
                   text_rels |-> RelocsOf("CODE"), data_rels |-> RelocsOf("DATA"),
                   symbols |-> <<<<[is |-> "null"], "">>>> \o [k \in DOMAIN all |-> <<all[k], all[k].e_exnam>>],
                   placed |-> TRUE]
=============================================================================
