------------------------------- MODULE Asm33conv -------------------------------
(***************************************************************************)
(* tools/asm33conv/asm33conv.py: a line of the extended syntax becomes     *)
(* basic instructions, with ext instructions that widen the next one's     *)
(* immediate.  What the basic instructions do is the CPU's, after          *)
(* docs/s1c33000_quick_reference.md.                                       *)
(*                                                                         *)
(* A line is a mnemonic and its operands: a register, a number (modulo the *)
(* width of a register), [%rb+n], [%rb+something else], [label] with the   *)
(* label's address, or other text.  Labels, comments and white space are   *)
(* left out, and so is upper case.                                         *)
(***************************************************************************)
EXTENDS SequencesExt, SeqLoops

CONSTANTS EXT,        \* values of an ext's immediate, 2^13 in the CPU
          IMM,        \* values of an instruction's immediate, 2^6 in the CPU
          SPIMM,      \* values of the one that add and sub have for %sp, 2^10
          SHIFT,      \* the most one instruction shifts, 8 in the CPU
          SourceLines \* lines to translate: [mn, args]

Word == EXT * EXT * IMM     \* values of a register

\* A line's operands that have a number; a label's address has the 26 bits that
\* @ah and @al give.
ASSUME Asm33convAssumption ==
    /\ EXT \in Nat \ {0} /\ EXT % 2 = 0 /\ IMM \in Nat \ {0} /\ IMM % 2 = 0 /\ SHIFT \in Nat \ {0} /\ SPIMM \in Nat \ {0}
    /\ \A l \in SourceLines :
          /\ l = [mn |-> l.mn, args |-> l.args] /\ l.args \in Seq({l.args[k] : k \in DOMAIN l.args})
          /\ \A k \in DOMAIN l.args : LET arg == l.args[k] IN
                /\ arg.is \in {"imm", "mem"} => arg.n \in Int
                /\ arg.is = "label" => arg.n \in 0 .. EXT * EXT - 1

VARIABLES line, converted, warned, out_lines

asmVars == <<line, converted, warned, out_lines>>

\* The bits of v from the value at on that have size values, as & and >> give them.
Field(v, at, size) == (v \div at) % size
AsSigned(v, size) == LET m == v % size IN IF 2 * m < size THEN m ELSE m - size
FitsSigned(v, size) == -size <= 2 * v /\ 2 * v < size

sign6(v) == AsSigned(v, IMM)
to_signed_32(imm) == IF Word <= 2 * imm /\ imm < Word THEN imm - Word ELSE imm

Exts(ns) == [k \in DOMAIN ns |-> [op |-> "ext", n |-> ns[k]]]
Instruction(kind, l, n) == [op |-> l.op, store |-> l.store, kind |-> kind, rd |-> l.rd, rs |-> l.rs, n |-> n]
Basic(kind, l, n) == <<Instruction(kind, l, n)>>
Raise == <<[kind |-> "exception"]>>

\* The ext values that go with an instruction's own immediate.
OneExt(v) == <<Field(v, IMM, EXT)>>
TwoExts(v) == <<Field(v, EXT * IMM, EXT), Field(v, IMM, EXT)>>

\* Mutated: one ext is taken for enough up to the largest unsigned value.
ImmExts_Unsigned(v) ==
    IF v < EXT * IMM /\ -(EXT * IMM) <= 2 * v THEN OneExt(v) ELSE TwoExts(v)

\* The ext values for a signed immediate that the instruction cannot hold.
ImmExts(v) == IF FitsSigned(v, EXT * IMM) THEN OneExt(v) ELSE TwoExts(v)

\* The immediate of ld.w, cmp, and of and and or on one register.
SignedImm(l) ==
    LET v == to_signed_32(l.n)
    IN  IF FitsSigned(v, IMM) THEN Basic("sign6", l, v)
        ELSE Exts(ImmExts(v)) \o Basic("sign6", l, sign6(v))

\* expand_xalu_3op for xadd and xsub on one register.
UnsignedImm(l) ==
    IF l.n < 0 THEN Raise
    ELSE IF l.n < IMM THEN Basic("imm6", l, l.n)
    ELSE Exts(IF l.n < EXT * IMM THEN OneExt(l.n) ELSE TwoExts(l.n)) \o Basic("imm6", l, l.n % IMM)

\* The ext values that make up an immediate alone, @ah and @al of an address.
Halves(v) == <<Field(v, EXT, EXT), Field(v, 1, EXT)>>

\* expand_xalu_3op for two registers: the immediate takes the place of %rs.
ThreeOperands(l) ==
    LET v == IF l.op \in {"and", "or"} THEN to_signed_32(l.n) ELSE l.n
    IN  IF v < 0 \/ v >= EXT * EXT THEN Raise
        ELSE Exts(IF v < EXT THEN <<v>> ELSE Halves(v)) \o Basic("class1", l, 0)

\* add and sub on %sp count words; and and or on it are refused.
StackImm(l) ==
    IF l.op \in {"and", "or"} \/ l.n % 4 # 0 THEN Raise ELSE Basic("sp", l, l.n \div 4)

expand_xalu_3op(l) ==
    IF l.rd = "sp" /\ l.rs = "sp" THEN StackImm(l)
    ELSE IF l.rd # l.rs THEN ThreeOperands(l)
    ELSE IF l.op \in {"and", "or"} THEN SignedImm(l) ELSE UnsignedImm(l)

expand_xld_imm(l) == SignedImm(l)
expand_xcmp(l)    == SignedImm(l)

\* _ext_lines: a displacement of a register-indirect access.
ext_lines(offset) ==
    IF offset = 0 THEN <<>>
    ELSE IF FitsSigned(offset, EXT) THEN <<Field(offset, 1, EXT)>> ELSE Halves(offset)

\* The offset from %sp counts units of the access.
SP_SCALE_FOR_LD == [op \in {"ld.w", "ld.h", "ld.uh", "ld.b", "ld.ub"} |->
                       IF op = "ld.w" THEN 4 ELSE IF op \in {"ld.h", "ld.uh"} THEN 2 ELSE 1]
sp_offset(l) == LET scale == SP_SCALE_FOR_LD[l.op]
                IN  IF l.n % scale # 0 THEN Raise ELSE Basic("sp", l, l.n \div scale)

\* expand_xld_load and expand_xld_store.
expand_xld_mem(l) ==
    IF l.rs = "sp" THEN sp_offset(l) ELSE Exts(ext_lines(l.n)) \o Basic("indirect", l, 0)

\* The form for a label: @ah and @al of its address, from %r8.
expand_xld_label(l) == Exts(Halves(l.n)) \o Basic("indirect", l, 0)

\* expand_xshift: full steps, then the rest; a negative amount fails.
expand_xshift(l) ==
    LET steps == (l.n + SHIFT - 1) \div SHIFT
    IN  IF l.n < 0 THEN Raise
        ELSE [k \in 1 .. steps |-> Instruction("shift", l, IF k * SHIFT <= l.n THEN SHIFT ELSE l.n % SHIFT)]

-----------------------------------------------------------------------------
\* The patterns, by mnemonic and by the form of the operands.
XLD_TO_LD == [mn \in {"xld.w", "xld.h", "xld.uh", "xld.b", "xld.ub"} |->
    CASE mn = "xld.w" -> "ld.w" [] mn = "xld.h" -> "ld.h" [] mn = "xld.uh" -> "ld.uh"
      [] mn = "xld.b" -> "ld.b" [] mn = "xld.ub" -> "ld.ub"]
XSHIFT_TO_LLVM == [mn \in {"xsrl", "xsra", "xsla", "xsll"} |->
    CASE mn = "xsrl" -> "srl" [] mn = "xsra" -> "sra" [] mn \in {"xsla", "xsll"} -> "sll"]
XALU_TO_LLVM == [mn \in {"xadd", "xsub", "xand", "xoor"} |->
    CASE mn = "xadd" -> "add" [] mn = "xsub" -> "sub" [] mn = "xand" -> "and" [] mn = "xoor" -> "or"]
DIRECTIVE_MAP == [mn \in {".code", ".half", ".word"} |->
    CASE mn = ".code" -> ".text" [] mn = ".half" -> ".short" [] mn = ".word" -> ".long"]
\* Two of the ten conditions.
XBRANCH == [mn \in {"xjp", "xjp.d", "xjreq", "xjreq.d", "xjrult", "xcall"} |->
    CASE mn = "xjp" -> "jp" [] mn = "xjp.d" -> "jp.d" [] mn = "xjreq" -> "jreq" [] mn = "xjreq.d" -> "jreq.d"
      [] mn = "xjrult" -> "jrult" [] mn = "xcall" -> "call"]

Forms(l) == [k \in DOMAIN l.args |-> l.args[k].is]
Is(l, mnemonics, forms) == l.mn \in mnemonics /\ Forms(l) \in forms

XLD_IMM(l)         == Is(l, {"xld.w"}, {<<"reg", "imm">>})
XLD_LOAD(l)        == Is(l, DOMAIN XLD_TO_LD, {<<"reg", "mem">>, <<"reg", "mem_sym">>})
XLD_STORE(l)       == Is(l, DOMAIN XLD_TO_LD, {<<"mem", "reg">>, <<"mem_sym", "reg">>})
XLD_LOAD_LABEL(l)  == Is(l, DOMAIN XLD_TO_LD, {<<"reg", "label">>})
XLD_STORE_LABEL(l) == Is(l, DOMAIN XLD_TO_LD, {<<"label", "reg">>})
XSHIFT(l)          == Is(l, DOMAIN XSHIFT_TO_LLVM, {<<"reg", "imm">>})
XSHIFT_RR(l)       == Is(l, DOMAIN XSHIFT_TO_LLVM, {<<"reg", "reg">>})
XALU_3OP(l)        == Is(l, DOMAIN XALU_TO_LLVM, {<<"reg", "reg", "imm">>})
XCMP(l)            == Is(l, {"xcmp"}, {<<"reg", "imm">>})
COMM(l)            == Is(l, {".comm", ".lcomm"}, {<<"sym_size">>})  \* no comma between them

Access(l, mem, reg) ==
    [op |-> XLD_TO_LD[l.mn], store |-> mem = 1, rd |-> l.args[reg].reg,
     rs |-> IF l.args[mem].is = "label" THEN "r8" ELSE l.args[mem].reg, n |-> l.args[mem].n]
OnRegister(l, op, rs, n) == [op |-> op, store |-> FALSE, rd |-> l.args[1].reg, rs |-> l.args[rs].reg, n |-> l.args[n].n]

translate_line(l) ==
    CASE l.mn = ".endfile" -> <<>>
      [] l.mn \in DOMAIN DIRECTIVE_MAP -> <<[l EXCEPT !.mn = DIRECTIVE_MAP[l.mn]]>>
      [] COMM(l) -> <<[l EXCEPT !.args = l.args[1].parts]>>
      [] XLD_IMM(l) -> expand_xld_imm(OnRegister(l, "ld.w", 1, 2))
      [] XLD_LOAD(l) -> IF l.args[2].is = "mem_sym" THEN Raise ELSE expand_xld_mem(Access(l, 2, 1))
      [] XLD_STORE(l) -> IF l.args[1].is = "mem_sym" THEN Raise ELSE expand_xld_mem(Access(l, 1, 2))
      [] XLD_LOAD_LABEL(l) -> expand_xld_label(Access(l, 2, 1))
      [] XLD_STORE_LABEL(l) -> expand_xld_label(Access(l, 1, 2))
      [] XSHIFT(l) -> expand_xshift(OnRegister(l, XSHIFT_TO_LLVM[l.mn], 1, 2))
      [] XSHIFT_RR(l) -> <<[l EXCEPT !.mn = XSHIFT_TO_LLVM[l.mn]]>>
      [] XALU_3OP(l) -> expand_xalu_3op(OnRegister(l, XALU_TO_LLVM[l.mn], 2, 3))
      [] XCMP(l) -> expand_xcmp(OnRegister(l, "cmp", 1, 2))
      [] l.mn \in DOMAIN XBRANCH -> <<[l EXCEPT !.mn = XBRANCH[l.mn]]>>
      [] OTHER -> <<l>>

AsmInit == line \in SourceLines /\ converted = FALSE /\ warned = FALSE /\ out_lines = <<>>

\* main, for one line: one that cannot be translated stays, after a warning.
Translate ==
    /\ ~converted /\ converted' = TRUE
    /\ LET expanded == translate_line(line)
       IN  /\ warned' = (expanded = Raise)
           /\ out_lines' = IF expanded = Raise THEN <<line>> ELSE expanded
    /\ UNCHANGED line

AsmSpec == AsmInit /\ [][Translate]_asmVars

-----------------------------------------------------------------------------
\* The CPU: what the exts before an instruction make of its immediate.
Widened(exts, n, size) == Folded(EXT, [k \in DOMAIN exts |-> exts[k].n]) * size + (n % size)
\* An instruction takes up to two exts.
Values(exts, size) == IF Len(exts) = 0 THEN size ELSE IF Len(exts) = 1 THEN EXT * size ELSE EXT * EXT * size

\* One unit of the immediate that goes with %sp, and the values it has: it takes
\* what fits of a larger one.
SpUnit(op) == IF op \in {"ld.b", "ld.ub"} THEN 1 ELSE IF op \in {"ld.h", "ld.uh"} THEN 2 ELSE 4
SpField(op) == IF op \in {"add", "sub"} THEN SPIMM ELSE IMM

Operand(exts, i) ==
    CASE i.kind = "sign6" -> AsSigned(Widened(exts, i.n, IMM), Values(exts, IMM))
      [] i.kind = "imm6" -> Widened(exts, i.n, IMM)
      [] i.kind \in {"class1", "indirect"} -> Widened(exts, 0, 1)
      [] i.kind = "sp" -> (i.n % SpField(i.op)) * SpUnit(i.op)

\* What the instructions do: op, between rd and a place from + by.
Effect(is) ==
    LET i == Last(is)
    IN  [op |-> i.op, store |-> i.store, rd |-> i.rd,
         from |-> IF i.kind \in {"sign6", "imm6"} THEN i.rd ELSE i.rs,
         by |-> Operand(Front(is), i) % Word]

Shifted(is) == Folded(1, [k \in DOMAIN is |-> is[k].n])

\* What the extended instruction says, for those that take a number or an address.
FirstReg(l) == CHOOSE k \in DOMAIN l.args : Forms(l)[k] = "reg" /\ \A j \in 1 .. k - 1 : Forms(l)[j] # "reg"
MemOf(l) == l.args[CHOOSE k \in DOMAIN l.args : Forms(l)[k] \in {"mem", "label"}]
Says(l, op, from, by) ==
    [op |-> op, store |-> Forms(l) \in {<<"mem", "reg">>, <<"label", "reg">>},
     rd |-> l.args[FirstReg(l)].reg, from |-> from, by |-> by % Word]
Meaning(l) ==
    CASE XLD_LOAD(l) \/ XLD_STORE(l) -> Says(l, XLD_TO_LD[l.mn], MemOf(l).reg, MemOf(l).n)
      [] XLD_LOAD_LABEL(l) \/ XLD_STORE_LABEL(l) -> Says(l, XLD_TO_LD[l.mn], "r8", MemOf(l).n)
      [] XALU_3OP(l) -> Says(l, XALU_TO_LLVM[l.mn], l.args[2].reg, l.args[3].n)
      [] OTHER -> Says(l, IF l.mn = "xcmp" THEN "cmp" ELSE "ld.w", l.args[1].reg, l.args[2].n)

Accepted == converted /\ ~warned
TakesNumber(l) == XLD_IMM(l) \/ XLD_LOAD(l) \/ XLD_STORE(l) \/ XLD_LOAD_LABEL(l) \/ XLD_STORE_LABEL(l) \/ XALU_3OP(l) \/ XCMP(l)
ByRegister(l) == (XLD_LOAD(l) \/ XLD_STORE(l)) /\ MemOf(l).reg # "sp"

\* The numbers for which something is promised: all, but for displacements from a
\* register, which two exts have to hold, and for offsets from %sp and steps of
\* it, for which the converter emits no ext however large they are, nor looks
\* whether the field of the instruction can hold them.
SpAccess(l) == (XLD_LOAD(l) \/ XLD_STORE(l)) /\ MemOf(l).reg = "sp"
SpStep(l)   == XALU_3OP(l) /\ l.args[1].reg = "sp" /\ l.args[2].reg = "sp"
InReach(l) ==
    /\ ByRegister(l) => MemOf(l).n \in 0 .. EXT * EXT - 1
    /\ SpAccess(l) => MemOf(l).n \in 0 .. IMM * SpUnit(XLD_TO_LD[l.mn]) - 1
    /\ SpStep(l) => l.args[3].n \in 0 .. SPIMM * 4 - 1

\* For every immediate in reach the instructions emitted do what the extended
\* one says: shifts add up to the amount, and operands come out of the exts as
\* they were written, at every boundary between no, one and two of them.
\* Every other line keeps its operands, and only .endfile goes.
ComputesTheSame ==
    /\ Accepted /\ XSHIFT(line) =>
          /\ Shifted(out_lines) = line.args[2].n
          /\ \A k \in DOMAIN out_lines : out_lines[k].n \in 1 .. SHIFT
    /\ Accepted /\ TakesNumber(line) /\ InReach(line) =>
          Effect(out_lines) = Meaning(line)
    /\ converted /\ ~TakesNumber(line) /\ ~XSHIFT(line) /\ line.mn # ".endfile" =>
          Len(out_lines) = 1 /\ (out_lines[1].args = line.args \/ COMM(line))

\* The access goes to the register's address plus the offset written: one ext
\* gives rb + imm13 by the quick reference, the docstring of _ext_lines says
\* the displacement is sign-extended.
AccessesItsOffset ==
    Accepted /\ ByRegister(line) /\ (FitsSigned(MemOf(line).n, EXT) \/ MemOf(line).n \in 0 .. EXT * EXT - 1)
        => Effect(out_lines) = Meaning(line)
=============================================================================
