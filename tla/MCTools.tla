-------------------------------- MODULE MCTools --------------------------------
(***************************************************************************)
(* The build tools, the start of a program, the launcher, the player's     *)
(* archive, the memory routines and the sprite library, for TLC: each mode *)
(* is one of them with its inputs, the others at rest.                     *)
(***************************************************************************)
EXTENDS AppStart, SrfExec, ElfToSrf, SrfToElf, ArLibrary, Asm33conv, Menu, MCFiles, MCSprites

VARIABLE mode

AppMode == {"start", "exec"}
Modes == AppMode \union {"elf2srf", "srf2elf", "archive", "asm33conv", "menu", "files", "objdump2asm", "fpkplay", "memory", "sprites"}

\* Programs with and without each optional section.
MCPrograms ==
    [text : {2}, init_array : {0, 2}, data : {0, 1, 2}, fastdata : {0, 1},
     fastbss : {0, 1}, fastrun : {0, 2}, bss : {1, 2, 9}]

\* An object with a symbol of every sort.
Sym(n, v, s, b, t) == [named |-> n, value |-> v, shndx |-> s, bind |-> b, type |-> t]
MCSymbols == <<
    Sym(FALSE, 0, UNDEF, "LOCAL", "NOTYPE"),
    Sym(TRUE, 0, "ABS", "LOCAL", "FILE"),
    Sym(FALSE, 0, ".text", "LOCAL", "SECTION"),
    Sym(FALSE, 0, ".rodata", "LOCAL", "SECTION"),
    Sym(FALSE, 0, ".bss", "LOCAL", "SECTION"),
    Sym(FALSE, 0, ".rodata.str1.1", "LOCAL", "SECTION"),
    Sym(TRUE, 1, ".data", "LOCAL", "NOTYPE"),
    Sym(TRUE, 1, ".text", "GLOBAL", "NOTYPE"),
    Sym(TRUE, 1, ".rodata", "WEAK", "NOTYPE"),
    Sym(TRUE, 1, ".bss", "GLOBAL", "NOTYPE"),
    Sym(TRUE, 0, UNDEF, "GLOBAL", "NOTYPE"),
    Sym(TRUE, 2, "COMMON", "GLOBAL", "NOTYPE") >>
MCRelocs ==
    [offset : {0, 1}, sym : 3 .. 12, type : {R_S1C33_32}, rela : {TRUE}, r_addend : {-1, 1}, word : {0}]
    \union [offset : {0}, sym : {4, 7, 9}, type : {2, 3, 6, 10},  \* with REL21 and the unknown REL_AH
            rela : {FALSE}, r_addend : {0}, word : {2}]

\* SRF files of three sections, with all ways to share out three extern lists
\* and four lists of relocations among them.
Ext(n, t, o) == [e_exnam |-> n, e_extyp |-> t, e_scnoff |-> o]
Rel(t, o, x, s, y) ==
    [r_rctyp |-> t, r_scnoff |-> o, r_exndx |-> x, r_scnndx |-> s, r_symoff |-> y]
ExternLists == {<<>>, <<Ext("x", "EXTERN", 0), Ext("l", "LOCAL", 1)>>,
                <<Ext("g", "GLOBAL", 0), Ext("l", "LOCAL", 1), Ext("h", "GLOBAL", 1)>>}
RelocLists(i) ==
    {<<>>, <<Rel(7, 0, 1, i, 6)>>, <<Rel(10, 1, 3, 3, 0)>>,
     <<Rel(10, 1, 2, i, 1), Rel(11, 0, 1, 3, 0), Rel(1, 0, 1, 3, 5)>>}
SectionKinds == {<<"CODE", "CODE", "DATA">>, <<"DATA", "CODE", "BSS">>, <<"CODE", "DATA", "DATA">>,
                 <<"CODE", "BSS", "CODE">>, <<"CODE", "BSS", "BSS">>}
SrfObject(kinds, ls, rs) ==
    [i \in 1 .. 3 |-> [s_scntyp |-> kinds[i], s_scnndx |-> i, s_dsiz |-> 2, externs |-> ls[i],
                       relocations |-> IF kinds[i] = "BSS" THEN <<>> ELSE rs[i]]]
MCSrfObjects ==
    {obj \in {SrfObject(kinds, ls, <<rs1, rs2, rs3>>) : kinds \in SectionKinds, ls \in [1 .. 3 -> ExternLists],
                                         rs1 \in RelocLists(1), rs2 \in RelocLists(2), rs3 \in RelocLists(3)} : WellFormed(obj)}

\* Libraries of up to three modules, with names as long as an archive's header
\* holds and longer, ended by zeroes or cut off in the middle of a module.
MCModules ==
    {[srf |-> 2, name |-> n, elf |-> e, globals |-> gs] :
        n \in {3, 14, 15}, e \in {4, 7}, gs \in {<<>>, <<2, 5>>}}
MCLibraries ==
    {[modules |-> <<m, n, m>>, symnames |-> <<2, 5>>, tail |-> t, cut |-> 0] :
        m \in MCModules, n \in MCModules, t \in {0, 5}}
    \union {[modules |-> <<m, m>>, symnames |-> <<>>, tail |-> 0, cut |-> c] :
                m \in MCModules, c \in {1, 2, 9}}
    \union {[modules |-> <<>>, symnames |-> <<>>, tail |-> 0, cut |-> 0]}

\* Every instruction with every immediate of a register's width, and lines of
\* the other sorts, with operands that a pattern takes and that none does.
Immediates == (-(Word \div 2)) .. Word - 1
R(r) == [is |-> "reg", reg |-> r]
Imms(ns) == [is : {"imm"}, n : ns]
Mems == [is : {"mem"}, reg : {"r2"}, n : (-9) .. 70] \union [is : {"mem"}, reg : {"sp"}, n : (-1) .. 36]
        \union [is : {"label"}, n : 0 .. EXT * EXT - 1] \union {[is |-> "mem_sym", reg |-> "r2"]}
LinesOf(mns, argss) == [mn : mns, args : argss]
Other == [is |-> "other"]
SymSize == [is |-> "sym_size", parts |-> <<Other, [is |-> "imm", n |-> 4]>>]
MCLines ==
    LinesOf({"xld.w", "xcmp"}, {<<R("r1"), i>> : i \in Imms(Immediates)})
    \union LinesOf(DOMAIN XLD_TO_LD, {<<R("r1"), m>> : m \in Mems} \union {<<m, R("r1")>> : m \in Mems})
    \union LinesOf(DOMAIN XSHIFT_TO_LLVM, {<<R("r1"), i>> : i \in Imms((-1) .. 13)})
    \union LinesOf(DOMAIN XALU_TO_LLVM, {<<R("r1"), R(r), i>> : r \in {"r1", "r2"}, i \in Imms(Immediates)})
    \union LinesOf(DOMAIN XALU_TO_LLVM, {<<R("sp"), R("sp"), i>> : i \in Imms((-4) .. 70)})
    \union LinesOf({"xld.w", "xld.h", "xsra", "xcmp", "xadd", "add", "mov"},
                 {<<R("r1"), R("r2")>>, <<R("r1"), Other>>, <<R("r1"), [is |-> "imm", n |-> 1]>>})
    \union LinesOf(DOMAIN XBRANCH \union DOMAIN DIRECTIVE_MAP \union {".endfile", ".align", "jp"}, {<<Other>>})
    \union LinesOf({".comm", ".lcomm"}, {<<SymSize>>, SymSize.parts})

\* Directories with up to eight programs, with the menu itself and a file too short
\* to be a program among them, from which files are missing, where one stands
\* before the others and where one has lost its icon.
File(n, kind) == [name |-> n, kind |-> kind]
Pex == [k \in 1 .. 8 |-> File(<<"a", "b", "c", "d", "e", "f", "g", "h">>[k], IF k = 3 THEN "plain" ELSE "pex")]
MenuItself == <<File("menu", "startup")>>
MCDisks ==
    {MenuItself \o SubSeq(Pex, 1, k) : k \in {1, 8}}
    \union {MenuItself \o SubSeq(Pex, 2, 3) \o <<File("s", "short")>> \o SubSeq(Pex, 4, 5),
            <<Pex[8]>> \o MenuItself \o SubSeq(Pex, 1, 3),
            <<File("a", "plain")>> \o SubSeq(Pex, 2, 4)}

\* A tool at rest has some input that it never reads.
IdleSize == CHOOSE p \in MCPrograms : Fits(p)
IdleSections == CHOOSE obj \in MCSrfObjects : TRUE
IdleLibrary == CHOOSE l \in MCLibraries : TRUE
IdleLine == CHOOSE l \in MCLines : TRUE
IdleDisk == CHOOSE d \in MCDisks : TRUE

MCInit ==
    /\ mode \in Modes
    /\ IF mode \in AppMode THEN TRUE ELSE size = IdleSize
    /\ IF mode = "start" THEN TRUE ELSE bios = "new" /\ icon = "none"
    /\ IF mode = "srf2elf" THEN TRUE ELSE sections = IdleSections
    /\ IF mode = "archive" THEN TRUE ELSE lib = IdleLibrary
    /\ IF mode = "asm33conv" THEN TRUE ELSE line = IdleLine
    /\ IF mode = "menu" THEN TRUE ELSE disk = IdleDisk
    /\ ObjInit /\ SrfToElfInit /\ ArInit /\ AsmInit /\ MenuInit
    /\ StartInit /\ SrfInit({size})
    /\ IF mode = "files" THEN O!FilesInit ELSE FilesRest
    /\ IF mode = "objdump2asm" THEN D!DumpInit ELSE DumpRest
    /\ IF mode = "fpkplay" THEN FpkStart ELSE FpkRest
    /\ IF mode = "memory" THEN MoveCalls /\ MemInit ELSE MoveRest
    /\ IF mode = "sprites" THEN SpritesInit ELSE SpritesRest

\* In each mode the variables of all the others rest.
appVars == <<programVars, srfVars>>
converterVars == <<objVars, elfVars, arVars, asmVars>>
readerVars == <<fileVars, dumpVars, fpkVars, memVars>>
drawVars == <<spriteVars, rasterVars>>
toolVars == <<appVars, converterVars, menuVars, readerVars>>

Starts    == mode = "start" /\ StartNext /\ UNCHANGED <<srfVars, converterVars, menuVars, readerVars, drawVars>>
ToSrfExec == mode = "exec" /\ SrfNext /\ UNCHANGED <<programVars, converterVars, menuVars, readerVars, drawVars>>
ToSrf     == mode = "elf2srf" /\ ObjNext /\ UNCHANGED <<appVars, elfVars, arVars, asmVars, menuVars, readerVars, drawVars>>
ToElf     == mode = "srf2elf" /\ SrfToElfNext /\ UNCHANGED <<appVars, objVars, arVars, asmVars, menuVars, readerVars, drawVars>>
Archives  == mode = "archive" /\ ArNext /\ UNCHANGED <<appVars, objVars, elfVars, asmVars, menuVars, readerVars, drawVars>>
Converts  == mode = "asm33conv" /\ Translate /\ UNCHANGED <<appVars, objVars, elfVars, arVars, menuVars, readerVars, drawVars>>
Launches  == mode = "menu" /\ MenuNext /\ UNCHANGED <<appVars, converterVars, readerVars, drawVars>>
Files     == mode = "files" /\ O!FilesNext /\ UNCHANGED <<appVars, converterVars, menuVars, dumpVars, fpkVars, memVars, drawVars>>
Recovers  == mode = "objdump2asm" /\ D!DumpNext /\ UNCHANGED <<appVars, converterVars, menuVars, fileVars, fpkVars, memVars, drawVars>>
Selects   == mode = "fpkplay" /\ FpkNext /\ UNCHANGED <<appVars, converterVars, menuVars, fileVars, dumpVars, memVars, drawVars>>
Moves     == mode = "memory" /\ MemNext /\ UNCHANGED <<appVars, converterVars, menuVars, fileVars, dumpVars, fpkVars, drawVars>>
Draws     == mode = "sprites" /\ SpritesNext /\ UNCHANGED toolVars

MCNext ==
    /\ \/ Starts \/ ToSrfExec \/ ToSrf \/ ToElf \/ Archives \/ Converts \/ Launches
       \/ Files \/ Recovers \/ Selects \/ Moves \/ Draws
    /\ UNCHANGED mode
MCSpec == MCInit /\ [][MCNext]_<<mode, toolVars, drawVars>>

-----------------------------------------------------------------------------
\* srf2elf's table leads from the type that elf2srf has given a relocation back
\* to the type that the ELF relocation had, as elf2srf's comment on its own
\* table has it: "Inverse of SRF_RELOC_TO_ELF in srf2elf.py".
BackToTheSameType ==
    \A scn \in {"CODE", "DATA"} :
        LET kept == Selected(ReadFor(scn), {k \in DOMAIN ReadFor(scn) : Expressible(ReadFor(scn)[k].rel)})
        IN  \A k \in DOMAIN srf_rels[scn] :
                SRF_RELOC_TO_ELF[srf_rels[scn][k].r_rctyp] = kept[k].rel.type
=============================================================================
