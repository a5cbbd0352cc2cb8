---------------------------- MODULE MCMmapRanges ----------------------------
(* Instances of MmapRanges and PrePi for TLC.                              *)
EXTENDS PrePi

Cell(flags, attr, type) == [flags |-> flags, attr |-> attr, type |-> type]

(* Free DRAM, DRAM with a fixed use, and a peripheral's registers.         *)
MCCells == {Cell({"DRAM"}, "WRITE_BACK", "CONVENTIONAL"),
            Cell({"DRAM", "RESERVED"}, "WRITE_BACK", "RUNTIMESERVICES_DATA"),
            Cell({"RESERVED"}, "DEVICE", "RESERVED")}

(* mmap_needs_identity_map() decides how the rest is mapped.               *)
Unmapped       == Cell({"UNUSED"}, "DONT_MAP", "RESERVED")
IdentityMapped == Cell({"UNUSED"}, "DEVICE", "RESERVED")

MCRequests == {{"UNUSED"}, {"DRAM"}, {"UNUSED", "DRAM"}}
MCSystem   == [lo |-> 2, hi |-> 3]
=============================================================================
