----------------------------- MODULE MemoryMap ------------------------------
(***************************************************************************)
(* What the platform's memory map promises, address by address: a range is *)
(* laid over the map if every address under it has one of the requested    *)
(* flags and none is reserved, and is dropped as a whole otherwise.        *)
(* MmapRanges.tla, the list of ranges kept by LittleKernelMem.c,           *)
(* implements this module.                                                 *)
(***************************************************************************)
EXTENDS Naturals

CONSTANTS
  Last,     \* the highest address, (UINTN)-1 in the code
  Cells,    \* what a range says of its addresses: [flags, attr, type]
  Blank     \* the cell of an address nobody has described yet

VARIABLE map

Addr == 0 .. Last

(* A cell may be replaced by a range that asks for the flags in.           *)
Usable(cell, in) == "RESERVED" \notin cell.flags /\ cell.flags \cap in # {}

Overlay(lo, hi, cell) == [a \in Addr |-> IF a \in lo .. hi THEN cell ELSE map[a]]

Init == map = [a \in Addr |-> Blank]

Insert(lo, hi, cell, in) ==
  /\ lo .. hi \subseteq Addr
  /\ \A a \in lo .. hi : Usable(map[a], in)
  /\ map' = Overlay(lo, hi, cell)

Next ==
  \E lo, hi \in Addr, cell \in Cells, in \in SUBSET {"UNUSED", "DRAM"} :
    lo <= hi /\ Insert(lo, hi, cell, in)

Spec == Init /\ [][Next]_map

TypeOK == map \in [Addr -> Cells \cup {Blank}]
=============================================================================
