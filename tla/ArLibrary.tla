------------------------------ MODULE ArLibrary ------------------------------
(***************************************************************************)
(* The library conversion of tools/srf2elf/srf2elf.py: lib33_parse walks   *)
(* the modules of a lib33 library and build_ar writes their converted      *)
(* objects as an ar archive.  Names and contents are their lengths; the    *)
(* archive's symbol table gives offsets that are worked out before         *)
(* anything is written.  A module that cannot be converted ends the tool   *)
(* with nothing written, and is left out.                                  *)
(***************************************************************************)
EXTENDS Integers, FiniteSets, SeqLoops

CONSTANT Libraries      \* the lib33 files: their modules and what follows those

ASSUME LibrariesAssumption ==
    \A l \in Libraries :
        /\ l.modules \in Seq([srf : Nat \ {0}, name : Nat \ {0}, elf : Nat \ {0}, globals : Seq(Nat)])
        /\ l.symnames \in Seq(Nat) /\ l.tail \in Nat /\ l.cut \in Nat

VARIABLES lib,       \* the library converted
          off,       \* where lib33_parse stands
          modules,   \* the modules it has found
          layout,    \* build_ar's sizes and offsets, once worked out
          sofar,       \* how much has been written
          written    \* where each member has been written

arVars == <<lib, off, modules, layout, sofar, written>>

Even(n) == n + (n % 2)

\* A module is srf_size (4), the name's length (1), the name and the object.
MOD_HDR == 5
ModuleSize(m) == MOD_HDR + m.name + m.srf
\* Before the first module: the magic, the sizes, "SYMDEF" and the symbol table.
FirstModule(l) == 9 + 4 + 1 + 6 + 4 + 8 * Len(l.symnames) + 4 + Total(l.symnames)
ModuleAt(l, k) == FirstModule(l) + Total([j \in 1 .. k - 1 |-> ModuleSize(l.modules[j])])
LibrarySize(l) == ModuleAt(l, Len(l.modules) + 1) + l.tail - l.cut

ArInit ==
    /\ lib \in Libraries
    /\ off = FirstModule(lib)
    /\ modules = <<>>
    /\ layout = <<>> /\ sofar = 0 /\ written = <<>>

\* What lies at an offset: a module, or zeroes where the modules end.
Here == {k \in DOMAIN lib.modules : ModuleAt(lib, k) = off}
EndHere == off + ModuleSize(lib.modules[CHOOSE k \in Here : TRUE])
AtModule == off + MOD_HDR <= LibrarySize(lib) /\ Here # {} /\ EndHere <= LibrarySize(lib)

ParseModule ==
    /\ layout = <<>> /\ AtModule
    /\ modules' = Append(modules, CHOOSE k \in Here : TRUE)
    /\ off' = EndHere
    /\ UNCHANGED <<lib, layout, sofar, written>>

\* _elf_global_symbols: the defined globals; an ELF file's locals come first.
elf_global_symbols(m) == m.globals

AR_MAGIC == 8
AR_HDR_SIZE == 60
LongName(m) == m.name + 1 > 15
Symbols33(ms) == Joined([k \in DOMAIN ms |->
                    [j \in DOMAIN elf_global_symbols(ms[k]) |->
                        [sym |-> elf_global_symbols(ms[k])[j], member |-> k]]])
SymPayload(ms) == Even(4 + 4 * Len(Symbols33(ms)) + Total([j \in DOMAIN Symbols33(ms) |->
                                                           Symbols33(ms)[j].sym + 1]))
\* A name in the table is followed by a slash, another slash and a newline.
NameTable(ms) == Even(Total([k \in DOMAIN ms |-> IF LongName(ms[k]) THEN ms[k].name + 3 ELSE 0]))
TableSize(n) == IF n = 0 THEN 0 ELSE AR_HDR_SIZE + n
MemberSize(m) == AR_HDR_SIZE + Even(m.elf)

\* Mutated: the newline that makes a member's size even is not counted.
MemberOffsets_NoPad(ms) ==
    [k \in DOMAIN ms |->
        AR_MAGIC + AR_HDR_SIZE + SymPayload(ms) + TableSize(NameTable(ms))
            + Total([j \in 1 .. k - 1 |-> AR_HDR_SIZE + ms[j].elf])]
\* Mutated: the long names' table is forgotten.
MemberOffsets_NoNames(ms) ==
    [k \in DOMAIN ms |->
        AR_MAGIC + AR_HDR_SIZE + SymPayload(ms) + Total([j \in 1 .. k - 1 |-> MemberSize(ms[j])])]

MemberOffsets(ms) ==
    [k \in DOMAIN ms |->
        AR_MAGIC + AR_HDR_SIZE + SymPayload(ms) + TableSize(NameTable(ms))
            + Total([j \in 1 .. k - 1 |-> MemberSize(ms[j])])]

FoundModules == [k \in DOMAIN modules |-> lib.modules[modules[k]]]

\* build_ar: the offsets, then the magic, the symbols and the long names.
WriteTables ==
    /\ layout = <<>> /\ ~AtModule
    /\ layout' = <<[k \in DOMAIN Symbols33(FoundModules) |->
                      [member |-> Symbols33(FoundModules)[k].member,
                       offset |-> MemberOffsets(FoundModules)[Symbols33(FoundModules)[k].member]]]>>
    /\ sofar' = AR_MAGIC + AR_HDR_SIZE + SymPayload(FoundModules) + TableSize(NameTable(FoundModules))
    /\ UNCHANGED <<lib, off, modules, written>>

WriteMember ==
    /\ layout # <<>> /\ Len(written) < Len(modules)
    /\ LET m == FoundModules[Len(written) + 1]
       IN  /\ written' = Append(written, sofar)
           /\ sofar' = sofar + AR_HDR_SIZE + m.elf + (m.elf % 2)
    /\ UNCHANGED <<lib, off, modules, layout>>

ArNext == ParseModule \/ WriteTables \/ WriteMember
ArSpec == ArInit /\ [][ArNext]_arVars

---------------------------------------------------------------------------
Archived == layout # <<>> /\ Len(written) = Len(modules)
\* The modules that are in the library with all their bytes.
Whole(l) == {k \in DOMAIN l.modules : ModuleAt(l, k + 1) <= LibrarySize(l)}

\* A linker finds every global symbol of the library's whole modules: the
\* archive's table has it once for every module that defines it, and the
\* offset beside it is the (even) place where that module's object has been
\* written.
ArFindsMembers ==
    Archived =>
        \A k \in DOMAIN lib.modules :
            LET entries == {e \in DOMAIN layout[1] : modules[layout[1][e].member] = k}
            IN  /\ Cardinality(entries) = IF k \in Whole(lib) THEN Len(lib.modules[k].globals) ELSE 0
                /\ \A e \in entries : /\ layout[1][e].offset % 2 = 0
                                      /\ layout[1][e].offset = written[layout[1][e].member]
=============================================================================
