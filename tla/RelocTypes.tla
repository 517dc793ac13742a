------------------------------ MODULE RelocTypes ------------------------------
(***************************************************************************)
(* The relocation types of the two kinds of object file, by their numbers: *)
(* what a converter's table of numbers has to be held against.             *)
(***************************************************************************)

\* r_rctyp of an SRF file, by the table of docs/SRF33_FORMAT_SPEC.md.
SrfTypes == <<"REL8", "REL_H", "REL_M", "REL_L", "REL_AH", "REL_AL", "ABS_H", "ABS_M", "ABS_L", "ABS32">>

\* R_S1C33_* of an ELF file, by the names the two converters give the numbers.
ElfTypes == <<"REL8", "ABS32", "ABS_H", "ABS_M", "ABS_L", "REL21", "REL_H", "REL_M", "REL_L", "REL_AH", "REL_AL">>
=============================================================================
