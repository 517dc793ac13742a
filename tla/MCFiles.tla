-------------------------------- MODULE MCFiles --------------------------------
(***************************************************************************)
(* The files of the object converters, the listings objdump2asm takes, the *)
(* archives of the music player and the calls of memcpy and memset, for    *)
(* TLC: a part of MCTools.                                                 *)
(***************************************************************************)
EXTENDS TLC, SequencesExt, FiniteSetsExt, MemRoutines, FpkArchive

VARIABLES
  srf_object, srf_file, file_stage, file_ptr, file_got,
  dump_listing, dump_lineno, dump_items, dump_last, dump_modules, dump_shared, dump_at, dump_func, dump_out

fileVars == <<srf_object, srf_file, file_stage, file_ptr, file_got>>
dumpVars == <<dump_listing, dump_lineno, dump_items, dump_last, dump_modules, dump_shared, dump_at, dump_func, dump_out>>

\* Objects and programs with relocations, names of several lengths and raw
\* data of sizes that are no multiples of four, or without; one with a name
\* that is too long.
NameLengths == ("f" :> 1) @@ ("gg" :> 2) @@ ("long" :> 4)
Scn(rs, xs, ds) == [relocs : rs, externs : xs, dsiz : ds]
NameLists == {<<>>, <<"f">>, <<"gg", "f">>}
MCContents ==
  [exec : BOOLEAN, scns : [CODE : Scn({0, 2}, NameLists, {0, 1, 6}), DATA : Scn({0, 1}, {<<>>, <<"gg", "f">>}, {0, 3}),
                           BSS : Scn({0}, {<<>>, <<"gg">>}, {4})]]
  \union [exec : {FALSE}, scns : [CODE : Scn({0}, {<<"f", "long">>}, {1}), DATA : Scn({0}, {<<>>}, {0}),
                                  BSS : Scn({0}, {<<>>}, {4})]]

O == INSTANCE ObjectFiles WITH
       CTRL_HDR_SIZE <- 2, SCN_HDR_SIZE <- 3, SRF_RELOC_SIZE <- 2, SRF_EXTERN_FIXED <- 2,
       EHDR_SIZE <- 5, SHDR_SIZE <- 3, SYM_SIZE <- 2, RELA_SIZE <- 3, ALIGN <- 4,
       Names <- NameLengths, NAMSIZ_MAX <- 3, Contents <- MCContents,
       object <- srf_object, file <- srf_file, stage <- file_stage, ptr <- file_ptr, got <- file_got

-----------------------------------------------------------------------------
\* Two modules.  Their functions are made of pieces with branches to labels
\* that objdump has made up, the same in each function, and relocations
\* against names of the own module, of the other, of both and of neither.
RealLabel(n)   == [is |-> "label", name |-> n]
Synth(n)       == [is |-> "synth", name |-> n]
Instr(op, ref) == [is |-> "instr", op |-> op, ref |-> ref, addr |-> 0]
RelocLine(t, s) == [is |-> "reloc", rtype |-> t, symbol |-> s]
Loop(s)  == <<Synth("L0"), Instr("ld", ""), Instr("jr", "L0")>>
Skip(s)  == <<Instr("jr", "L1"), Synth("L0"), Instr("call", "L0"), RelocLine("REL8", s), Synth("L1"), Instr("ld", "")>>
Far(s)   == <<Instr("ext", ""), RelocLine("REL_H", s), Instr("ext", ""), RelocLine("REL_M", s),
              Synth("L0"), Instr("call", "L0"), RelocLine("REL_L", s), Instr("jr", "L0")>>
Near(s)  == <<Instr("ext", ""), Instr("jr", s), [is |-> "blank"]>>
Stray(s) == <<RelocLine("REL8", "z")>> \o Far(s)
Addressed(ls) ==
  [k \in DOMAIN ls |-> CASE ls[k].is = "instr" -> [ls[k] EXCEPT !.addr = k]
                         [] ls[k].is = "reloc" -> [addr |-> k - 1] @@ ls[k]
                         [] OTHER -> ls[k]]
ModuleLines(n) == <<[is |-> "module", name |-> n], [is |-> "section"]>>
MCListings ==
  {Addressed(head \o ModuleLines("a") \o <<RealLabel("__add")>> \o x \o <<RealLabel("count")>> \o y
             \o ModuleLines("b") \o <<RealLabel("shift")>> \o z \o <<RealLabel("count")>> \o w) :
     head \in {<<>>, <<[is |-> "section"]>>},
     x \in {Loop("count"), Skip("count"), Far("shift"), Near("count")},
     y \in {Loop(""), Skip("__add"), Far("shift")}, z \in {Skip("count"), Far("__add"), Near("count")},
     w \in {Near("shift"), Skip("memcpy"), Stray("count"), <<Instr("ld", ""), RelocLine("ABS_H", "t")>>}}

D == INSTANCE Objdump2asm WITH
       Listings <- MCListings, ABI <- {"__add"},
       listing <- dump_listing, lineno <- dump_lineno, items <- dump_items, last_instr <- dump_last,
       modules <- dump_modules, shared <- dump_shared, at <- dump_at, func <- dump_func, out <- dump_out

-----------------------------------------------------------------------------
\* Archives of one song, packed in every way up to three items, of several
\* files, and no archive; the latter also as archives of another kind.
FpkItems == {[ch |-> 1], [ch |-> 2]} \union [off : {0, 4, 6}, len : {3, 4}]
ItemSize(item) == IF "ch" \in DOMAIN item THEN 1 ELSE item.len
FpkFile(n, pmd, items, cut) ==
  [filename |-> n, pmd |-> pmd, items |-> items, size |-> FoldSeq(+, 0, [k \in DOMAIN items |-> ItemSize(items[k])]) - cut]
FpkItemLists ==
  {<<a, b, c>> : a \in FpkItems, b \in FpkItems, c \in FpkItems}
  \union {<<[ch |-> 1], [ch |-> 2], a, [ch |-> 1], b>> : a \in FpkItems, b \in FpkItems}
SongOne == FpkFile("1", TRUE, <<[ch |-> 1], [ch |-> 2], [off |-> 4, len |-> 4], [ch |-> 1]>>, 0)
SongTwo == FpkFile("2", TRUE, <<[ch |-> 2], [off |-> 3, len |-> 3]>>, 1)
TextFile == FpkFile("t", FALSE, <<[ch |-> 1]>>, 0)
SeveralFiles == {<<>>, <<SongOne, SongTwo>>, <<SongTwo, TextFile, SongOne>>, <<TextFile, SongOne>>}
MCSongs ==
  {<<FpkFile("1", TRUE, items, cut)>> : items \in FpkItemLists, cut \in {0, 1}}
  \union SeveralFiles
FpkStart == FpkInit /\ (signature = "other" => archive \in SeveralFiles)

MCPadSets == {{}, {"START"}, {"A"}, {"B"}, {"LEFT"}, {"RIGHT"}, {"A", "RIGHT"}, {"START", "A"}, {"B", "LEFT"}}

-----------------------------------------------------------------------------
\* Every address and length in a memory where all bytes differ.
MCBytes == 0 .. LAST + 5
MoveCalls == before = [a \in 0 .. LAST |-> a + 1] /\ fill = [k \in 0 .. 3 |-> LAST + 2 + k]

-----------------------------------------------------------------------------
\* A converter or a player at rest has no input.
FilesRest ==
  srf_object = <<>> /\ srf_file = <<>> /\ file_stage = "rest" /\ file_ptr = 0 /\ file_got = <<>>
DumpRest ==
  /\ dump_listing = <<>> /\ dump_lineno = 1 /\ dump_items = <<>> /\ dump_last = 0 /\ dump_modules = <<>>
  /\ dump_shared = {} /\ dump_at = <<1, 1>> /\ dump_func = "" /\ dump_out = <<>>
FpkRest == archive = <<>> /\ signature = "KAPF" /\ fpk = <<>> /\ app = Statics
MoveRest ==
  /\ routine = "none" /\ before = <<>> /\ dst = 0 /\ src = 0 /\ fill = <<>> /\ length = 0 /\ label = "rest"
  /\ memory = <<>> /\ r5 = 0 /\ r10 = 0 /\ r12 = 0 /\ r13 = 0 /\ r13c = <<>> /\ r14 = 0

\* What is read of an object file is what was written (ObjectFiles).
FilesKeepObject == O!FilesKeepObject

\* The recovered assembly is the listing's program (Objdump2asm).
SameProgram == D!SameProgram
=============================================================================
