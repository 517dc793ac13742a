-------------------------------- MODULE Ppack --------------------------------
(***************************************************************************)
(* tools/ppack/ppack.c: the stored bytes of a linked program become the    *)
(* payload of a .pex file.  A word of an image is named by the section it  *)
(* comes from and its place in it; compression and checksums are external  *)
(* and stand for the payload they are taken of.                            *)
(***************************************************************************)
EXTENDS PieceLink, FiniteSetsExt

CONSTANTS Programs,   \* section sizes of the programs packed
          BUFF,       \* words of databuff
          HEADER,     \* size of pffsFileHEADER and of the padded name
          ICON        \* size of an icon

ASSUME ProgramsAssumption == BUFF \in Nat /\ Programs \subseteq Sizes

VARIABLES size,       \* the program being packed
          icon,       \* the icon ppack was told to add: "none", "given" or "missing"
          pc,
          seg,        \* the program header being read
          topadrs, endadrs,
          databuff,
          pex         \* the output file; Empty while nothing is written to it

packVars == <<size, icon, seg, topadrs, endadrs, databuff, pex>>

Empty == [ofs_data |-> 0, at |-> 0, top_adrs |-> 0, length |-> 0, data |-> <<>>]
Unwritten == <<"unwritten", 0>>
InImage(s, k) == <<s, k>>

PpackInit ==
    /\ size \in {sz \in Programs : Fits(sz)}
    /\ icon \in {"none", "given", "missing"}
    /\ pc = "open"
    /\ seg = 0
    /\ topadrs = 0 /\ endadrs = 0
    /\ databuff = [k \in 0 .. BUFF - 1 |-> Unwritten]
    /\ pex = Empty                              \* fopen truncates it

Loaded == {k \in DOMAIN Segments(size) : Segments(size)[k].p_filesz > 0}

\* readfile_elf's first pass: the lowest stored address.
FirstPass ==
    /\ pc = "open"
    /\ IF Loaded = {}
       THEN pc' = "failed" /\ UNCHANGED <<seg, topadrs>>
       ELSE /\ topadrs' = Min({Segments(size)[k].p_paddr : k \in Loaded})
            /\ seg' = 1
            /\ pc' = "copy"
    /\ UNCHANGED <<size, icon, endadrs, databuff, pex>>

\* The input is missing, or not an S1C33 program.
Unreadable ==
    /\ pc = "open"
    /\ pc' = "failed"
    /\ UNCHANGED packVars

\* readfile_elf's second pass: one segment.
CopySegment ==
    /\ pc = "copy" /\ seg <= Len(Segments(size))
    /\ LET ph == Segments(size)[seg]
           adr == ph.p_paddr
           at == adr - topadrs
       IN \/ /\ ph.p_filesz = 0
             /\ seg' = seg + 1
             /\ UNCHANGED <<pc, endadrs, databuff>>
          \/ /\ ph.p_filesz > 0 /\ at + ph.p_filesz >= BUFF
             /\ pc' = "failed"
             /\ UNCHANGED <<seg, endadrs, databuff>>
          \/ /\ ph.p_filesz > 0 /\ at + ph.p_filesz < BUFF
             /\ databuff' = [k \in DOMAIN databuff |->
                   IF k \in Words(at, ph.p_filesz) THEN InImage(ph.sec, k - at) ELSE databuff[k]]
             /\ endadrs' = Max({endadrs, adr + ph.p_filesz})
             /\ seg' = seg + 1
             /\ UNCHANGED pc
    /\ UNCHANGED <<size, icon, topadrs, pex>>

\* arcs: length, checksum and compressed bytes stand for the payload they are of.
arcs == [k \in 0 .. endadrs - topadrs - 1 |-> databuff[k]]

\* How much copyicon writes: nothing for an icon it cannot open.
copyicon == IF icon = "given" THEN ICON ELSE 0

\* ofs_data counts an icon whether or not copyicon finds it.
EncodePack ==
    /\ pc = "copy" /\ seg > Len(Segments(size))
    /\ pex' = [ofs_data |-> HEADER + (IF icon = "none" THEN 0 ELSE ICON),
               at |-> HEADER + copyicon,
               top_adrs |-> topadrs,
               length |-> endadrs - topadrs,
               data |-> arcs]
    /\ pc' = "packed"
    /\ UNCHANGED <<size, icon, seg, topadrs, endadrs, databuff>>

Pack == FirstPass \/ Unreadable \/ CopySegment \/ EncodePack
=============================================================================
