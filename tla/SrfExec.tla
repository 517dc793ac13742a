------------------------------- MODULE SrfExec -------------------------------
(***************************************************************************)
(* exec_elf_to_srf of tools/elf2srf/elf2srf.py: the sections of a linked   *)
(* program are sorted into the three groups of an SRF33 executable, and    *)
(* each group becomes one section, loaded at one address.  Symbols, which  *)
(* are passed on as they are, are left out.                                *)
(***************************************************************************)
EXTENDS PieceLink, FiniteSetsExt

VARIABLES sz,          \* the program's section sizes
          index,       \* the section header being read
          groups,      \* code_shdrs, data_shdrs and bss_shdrs
          srf          \* the SRF sections: where they load and what they hold

srfVars == <<sz, index, groups, srf>>

Filler == <<"filler", 0>>
NoSrf == [code |-> <<>>, data |-> <<>>, bss |-> <<>>]

\* sh_type and sh_flags as ld.lld gives them.
EXECINSTR == {"text", "fastrun"}
PROGBITS == {"text", "data", "fastdata", "fastrun"}      \* .init_array has a type of its own

SrfInit(progs) ==
    /\ sz \in {p \in progs : Fits(p)}
    /\ index = 1
    /\ groups = [code |-> {}, data |-> {}, bss |-> {}]
    /\ srf = NoSrf

\* The program headers vma_to_lma looks at: all are PT_LOAD here.
load_segments == {k \in DOMAIN Segments(sz) : Segments(sz)[k].p_memsz > 0}

\* vma_to_lma: by the first of them that covers the address.
load_addr(s) ==
    LET vma == Vma(sz)[s]
        covering == {k \in load_segments :
                        vma \in Words(Segments(sz)[k].p_vaddr, Segments(sz)[k].p_memsz)}
        ph == Segments(sz)[Min(covering)]
    IN  IF covering = {} THEN vma ELSE ph.p_paddr + (vma - ph.p_vaddr)

ReadHeader ==
    /\ index <= Len(Order)
    /\ LET s == Order[index]
           group == IF s \in EXECINSTR THEN {"code"} ELSE IF s \in PROGBITS THEN {"data"}
                    ELSE IF s \in NoBits THEN {"bss"} ELSE {}
       IN groups' = [g \in DOMAIN groups |->
                        IF sz[s] > 0 /\ g \in group THEN groups[g] \union {s} ELSE groups[g]]
    /\ index' = index + 1
    /\ UNCHANGED <<sz, srf>>

\* Mutated: sections are merged by the address they run at.
merge_sections_ByVma(hdrs) ==
    LET base == Min({Vma(sz)[s] : s \in hdrs})
        end == Max({Vma(sz)[s] + sz[s] : s \in hdrs})
    IN  IF hdrs = {} THEN [s_off |-> 0, raw |-> <<>>]
        ELSE [s_off |-> base,
              raw |-> [k \in 0 .. end - base - 1 |->
                 IF \E s \in hdrs : base + k \in RunsAt(sz, s)
                 THEN LET s == CHOOSE t \in hdrs : base + k \in RunsAt(sz, t)
                      IN <<s, base + k - Vma(sz)[s]>>
                 ELSE Filler]]

\* From the lowest load address to the highest end, zero-filled between.
merge_sections(hdrs) ==
    LET base == Min({load_addr(s) : s \in hdrs})
        end == Max({load_addr(s) + sz[s] : s \in hdrs})
        Holders(a) == {s \in hdrs : a \in Words(load_addr(s), sz[s])}
    IN  IF hdrs = {} THEN [s_off |-> 0, raw |-> <<>>]
        ELSE [s_off |-> base,
              raw |-> [k \in 0 .. end - base - 1 |->
                 IF Holders(base + k) = {} THEN Filler
                 ELSE LET s == CHOOSE t \in Holders(base + k) : TRUE
                      IN <<s, base + k - load_addr(s)>>]]

\* From the lowest address in use to the highest.
bss_extent(hdrs) ==
    LET base == Min({Vma(sz)[s] : s \in hdrs})
        end == Max({Vma(sz)[s] + sz[s] : s \in hdrs})
    IN  IF hdrs = {} THEN {} ELSE base .. end - 1

exec_elf_to_srf ==
    /\ index = Len(Order) + 1
    /\ srf' = [code |-> merge_sections(groups.code), data |-> merge_sections(groups.data),
               bss |-> bss_extent(groups.bss)]
    /\ index' = index + 1
    /\ UNCHANGED <<sz, groups>>

SrfNext == ReadHeader \/ exec_elf_to_srf
Converted == index > Len(Order) + 1

-----------------------------------------------------------------------------
\* Every word of the code and data sections is in the SRF section of its
\* group, at the address where the program's start-up code expects it stored:
\* also for sections that run in the internal RAM.
StoredBytesKept ==
    Converted =>
        \A s \in PROGBITS : \A k \in 0 .. sz[s] - 1 :
            LET scn == IF s \in EXECINSTR THEN srf.code ELSE srf.data
            IN  /\ Lma(sz)[s] + k - scn.s_off \in DOMAIN scn.raw
                /\ scn.raw[Lma(sz)[s] + k - scn.s_off] = <<s, k>>
=============================================================================
