------------------------------ MODULE Objdump2asm ------------------------------
(***************************************************************************)
(* tools/objdump2asm/objdump2asm.py: the listing llvm-objdump -d -r        *)
(* --symbolize-operands makes of an archive, turned back into one assembly *)
(* file per module.  A line of the listing is what its regular expression  *)
(* takes it for; an operand is the name between its <>, or "" if it has    *)
(* none.  A reference to a label is all that is kept of an instruction.    *)
(***************************************************************************)
EXTENDS Integers, Sequences, FiniteSets, SequencesExt, FiniteSetsExt

CONSTANTS Listings,   \* the listings
          ABI         \* names that begin with two underscores

VARIABLES
  listing, lineno,
  items, last_instr,            \* parse: the items, the index of the instruction before
  modules, shared,              \* split_modules, collect_externally_referenced
  at, func, out                 \* emit_module: <<module, item>>, its function, the files

dumpVars == <<listing, lineno, items, last_instr, modules, shared, at, func, out>>

DumpInit ==
  /\ listing \in Listings /\ lineno = 1
  /\ items = <<>> /\ last_instr = 0
  /\ modules = <<>> /\ shared = {}
  /\ at = <<1, 1>> /\ func = "" /\ out = <<>>

\* A relocation belongs to the instruction before it if it is for its address.
Attach(line) ==
  IF last_instr # 0 /\ items[last_instr].addr = line.addr
  THEN [items EXCEPT ![last_instr].reloc = <<line.rtype, line.symbol>>] ELSE items

\* parse, for one line.
ParseLine ==
  /\ lineno <= Len(listing)
  /\ LET line == listing[lineno]
     IN  /\ items' = CASE line.is = "reloc" -> Attach(line)
                       [] line.is = "blank" -> items
                       [] line.is = "instr" -> Append(items, [is |-> "instr", addr |-> line.addr, op |-> line.op,
                                                              ref |-> line.ref, reloc |-> <<>>])
                       [] OTHER             -> Append(items, line)
         /\ last_instr' = CASE line.is = "instr" -> Len(items) + 1
                            [] line.is \in {"module", "label"} -> 0
                            [] OTHER -> last_instr
  /\ lineno' = lineno + 1
  /\ UNCHANGED <<listing, modules, shared, at, func, out>>

Starts(s) == {k \in DOMAIN s : k = 1 \/ s[k].is = "module"}
split_modules(s) ==
  LET firsts == SetToSortSeq(Starts(s), <)
  IN  [m \in DOMAIN firsts |->
         SubSeq(s, firsts[m], IF m = Len(firsts) THEN Len(s) ELSE firsts[m + 1] - 1)]

Labels(m)     == {m[k].name : k \in {i \in DOMAIN m : m[i].is = "label"}}
Referenced(m) == {m[k].reloc[2] : k \in {i \in DOMAIN m : m[i].is = "instr" /\ m[i].reloc # <<>>}}

\* Mutated: every module that refers to a symbol counts, its own too.
collect_externally_referenced_All(ms) ==
  {s \in UNION {Labels(ms[i]) : i \in DOMAIN ms} : \E i \in DOMAIN ms : s \in Referenced(ms[i])}

\* Defined in a module, and referenced in one that does not define it.
collect_externally_referenced(ms) ==
  {s \in UNION {Labels(ms[i]) : i \in DOMAIN ms} :
     \E i \in DOMAIN ms : s \in Referenced(ms[i]) /\ s \notin Labels(ms[i])}

\* _is_global_symbol
Global(name) == name \in ABI \/ name \in shared'

Parsed ==
  /\ lineno = Len(listing) + 1
  /\ modules' = split_modules(items)
  /\ shared' = collect_externally_referenced(modules')
  /\ out' = [m \in DOMAIN modules' |->
               [global |-> IF modules'[m][1].is # "module" THEN {}
                           ELSE {s \in Labels(modules'[m]) : Global(s)},
                lines |-> <<>>]]
  /\ lineno' = lineno + 1
  /\ UNCHANGED <<listing, items, last_instr, at, func>>

-----------------------------------------------------------------------------
\* A function is what lies between two real labels.
Function(m, k) ==
  LET label(i) == m[i].is = "label"
  IN  {i \in DOMAIN m : ~label(i) /\ \A j \in DOMAIN m : label(j) => ((j < i) <=> (j < k \/ j = k))}

\* _build_label_info: the synthesized labels an instruction without a
\* relocation refers to; the others are spurious.
Real(m, k) ==
  LET body == Function(m, k)
      refs == {m[i].ref : i \in {j \in body : m[j].is = "instr" /\ m[j].reloc = <<>>}}
  IN  {m[i].name : i \in {j \in body : m[j].is = "synth"}} \intersect refs

\* _rename_synth_refs: a label gets its function's name; before the first
\* function there is no map.
Renamed(m, k, name) ==
  IF func # "" /\ name \in Real(m, k) THEN <<func, name>> ELSE <<"", name>>

\* The label a position belongs to.
FuncLabel(m, k) == LET ls == {j \in 1 .. k : m[j].is = "label"} IN IF ls = {} THEN 0 ELSE Max(ls)

Line(is, name) == <<[is |-> is, name |-> name]>>

\* emit_module for one item of module m.
Emitted(m, k) ==
  LET it   == m[k]
      here == FuncLabel(m, k)
  IN  CASE it.is = "label" -> Line("label", <<"", it.name>>)
        [] it.is = "synth" -> IF func = "" \/ it.name \in Real(m, here) THEN Line("label", Renamed(m, here, it.name)) ELSE <<>>
        [] it.is = "instr" ->
             IF it.reloc = <<>> THEN Line(it.op, Renamed(m, here, it.ref))
             ELSE CASE it.reloc[1] \in {"REL_H", "REL_M"} -> <<>>
                    [] it.reloc[1] \in {"REL_L", "REL8"}  -> Line(it.op, <<"", it.reloc[2]>>)
                    [] OTHER                              -> Line(it.op, Renamed(m, here, it.ref))
        [] OTHER -> <<>>

Emitting == lineno = Len(listing) + 2 /\ at[1] <= Len(modules)

EmitItem ==
  /\ Emitting /\ at[2] <= Len(modules[at[1]])
  /\ LET m == modules[at[1]]
     IN  /\ out' = IF m[1].is # "module" THEN out ELSE [out EXCEPT ![at[1]].lines = @ \o Emitted(m, at[2])]
         /\ func' = IF m[at[2]].is = "label" THEN m[at[2]].name ELSE func
  /\ at' = <<at[1], at[2] + 1>>
  /\ UNCHANGED <<listing, lineno, items, last_instr, modules, shared>>

NextModule ==
  /\ Emitting /\ at[2] > Len(modules[at[1]])
  /\ at' = <<at[1] + 1, 1>> /\ func' = ""
  /\ UNCHANGED <<listing, lineno, items, last_instr, modules, shared, out>>

DumpNext == ParseLine \/ Parsed \/ EmitItem \/ NextModule

-----------------------------------------------------------------------------
(***************************************************************************)
(* The program of the listing and the program of the files: instructions   *)
(* in their order, and where each one's operand leads.                     *)
(***************************************************************************)
\* Instructions that stand for themselves: an ext with a relocation only makes
\* room in the instruction behind it.
Stands(it) == it.is = "instr" /\ (it.reloc = <<>> \/ it.reloc[1] \notin {"REL_H", "REL_M"})
Place(m, k) == Cardinality({i \in 1 .. k : Stands(m[i])})

\* A real symbol leads to its own module's label or else to another module's.
Leads(i, name) ==
  LET Has(j) == name \in Labels(modules[j])
      owner == IF Has(i) THEN i ELSE CHOOSE j \in DOMAIN modules : Has(j)
  IN  IF ~\E j \in DOMAIN modules : Has(j) THEN <<"extern", name>>
      ELSE <<owner, Place(modules[owner], CHOOSE k \in DOMAIN modules[owner] :
                                            modules[owner][k].is = "label" /\ modules[owner][k].name = name)>>

Means(i, k) ==
  LET it == modules[i][k]
      here == {j \in Function(modules[i], FuncLabel(modules[i], k)) : modules[i][j].is = "synth" /\ modules[i][j].name = it.ref}
  IN  IF it.reloc # <<>> THEN Leads(i, it.reloc[2])
      ELSE IF it.ref = "" THEN <<>>
      ELSE IF here # {} THEN <<i, Place(modules[i], Min(here))>> ELSE Leads(i, it.ref)

\* The assembler and the linker: a name is the file's own label, or the label
\* another file exports.
OutLabels(i) == {k \in DOMAIN out[i].lines : out[i].lines[k].is = "label"}
OutPlace(i, k) == Cardinality({j \in 1 .. k : j \notin OutLabels(i)})
Linked(i, name) ==
  LET own == {<<i, k>> : k \in {j \in OutLabels(i) : out[i].lines[j].name = name}}
      all == UNION {{<<j, k>> : k \in {l \in OutLabels(j) : out[j].lines[l].name = name}} :
                      j \in {n \in DOMAIN out : name[2] \in out[n].global /\ name[1] = ""}}
      place(s) == LET x == CHOOSE y \in s : TRUE IN <<x[1], OutPlace(x[1], x[2])>>
  IN  IF own # {} THEN place(own) ELSE IF all # {} THEN place(all) ELSE <<"extern", name[2]>>

IsInstr(l) == l.is # "label"

\* The relocations the tool knows.
Known == \A k \in DOMAIN items : items[k].is = "instr" /\ items[k].reloc # <<>> =>
                                   items[k].reloc[1] \in {"REL_H", "REL_M", "REL_L", "REL8"}

\* When all files are written, no label is defined twice in a file and none is
\* exported by two, and assembled and linked they are the listing's program:
\* the same instructions, each leading where it led.  (For relocations the
\* tool knows; it warns of others.)
SameProgram ==
  (lineno = Len(listing) + 2 /\ at[1] > Len(modules) /\ Known) =>
     /\ \A i \in DOMAIN out : \A k, l \in OutLabels(i) : out[i].lines[k].name = out[i].lines[l].name => k = l
     /\ \A i, j \in DOMAIN out : i # j => out[i].global \intersect out[j].global = {}
     /\ \A i \in {n \in DOMAIN modules : modules[n][1].is = "module"} :
          LET kept == SelectSeq([k \in DOMAIN modules[i] |-> [k |-> k, stands |-> Stands(modules[i][k])]],
                                LAMBDA x : x.stands)
              code == SelectSeq(out[i].lines, IsInstr)
          IN  [n \in DOMAIN kept |-> <<modules[i][kept[n].k].op, Means(i, kept[n].k)>>]
              = [n \in DOMAIN code |-> <<code[n].is, IF code[n].name[2] = "" THEN <<>> ELSE Linked(i, code[n].name)>>]
=============================================================================
