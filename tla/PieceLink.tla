------------------------------ MODULE PieceLink ------------------------------
(***************************************************************************)
(* Where the linker script tools/piece.ld puts a program: its sections, in *)
(* the script's order, with the address each runs at (VMA) and the address *)
(* its bytes are stored at (LMA).  Sizes and addresses count words of four *)
(* bytes, to which the script aligns every section; sz gives a program's   *)
(* section sizes.                                                          *)
(***************************************************************************)
EXTENDS Integers, Sequences

CONSTANTS IRAM, IRAM_END,   \* the user area of the internal RAM
          SRAM, SRAM_END    \* the external RAM a program is loaded into

ASSUME LinkAssumption ==
    /\ {IRAM, IRAM_END, SRAM, SRAM_END} \subseteq Nat
    /\ 0 < IRAM /\ IRAM < IRAM_END /\ IRAM_END < SRAM /\ SRAM < SRAM_END

Addresses == IRAM .. SRAM_END - 1

Order == <<"text", "init_array", "data", "fastdata", "fastbss", "fastrun", "bss">>
Sections == {"text", "init_array", "data", "fastdata", "fastbss", "fastrun", "bss"}
NoBits == {"fastbss", "bss"}

\* Mutated: .bss lies below the stored bytes of .fastdata and .fastrun.
Lma_BssFirst(sz) ==
    LET data == SRAM + sz.text + sz.init_array
        bss == data + sz.data
    IN  [text |-> SRAM, init_array |-> SRAM + sz.text, data |-> data, bss |-> bss,
         fastdata |-> bss + sz.bss, fastbss |-> IRAM + sz.fastdata,
         fastrun |-> bss + sz.bss + sz.fastdata]

Lma(sz) ==
    LET data == SRAM + sz.text + sz.init_array
        fastdata == data + sz.data
        fastrun == fastdata + sz.fastdata
    IN  [text |-> SRAM, init_array |-> SRAM + sz.text, data |-> data,
         fastdata |-> fastdata, fastbss |-> IRAM + sz.fastdata,
         fastrun |-> fastrun, bss |-> fastrun + sz.fastrun]

Vma(sz) == [Lma(sz) EXCEPT !.fastdata = IRAM,
                           !.fastbss = IRAM + sz.fastdata,
                           !.fastrun = IRAM + sz.fastdata + sz.fastbss]

\* The sizes a program's sections may have: .bss holds at least crt_initialized.
Sizes == [text : Nat, init_array : Nat, data : Nat, fastdata : Nat, fastbss : Nat,
          fastrun : Nat, bss : Nat \ {0}]

\* The words of a section of size n at address a.
Words(a, n) == a .. a + n - 1
RunsAt(sz, s) == Words(Vma(sz)[s], sz[s])

_pceheapstart(sz) == Vma(sz).bss + sz.bss

\* The script's ASSERT, and its memory regions.
Fits(sz) ==
    /\ Vma(sz).fastrun + sz.fastrun <= IRAM_END
    /\ _pceheapstart(sz) <= SRAM_END

\* A PT_LOAD entry for each section; the readers pass over one of no size.
Segment(sz, s) ==
    [sec |-> s, p_paddr |-> Lma(sz)[s], p_vaddr |-> Vma(sz)[s], p_memsz |-> sz[s],
     p_filesz |-> IF s \in NoBits THEN 0 ELSE sz[s]]
Segments(sz) == [k \in DOMAIN Order |-> Segment(sz, Order[k])]
=============================================================================
