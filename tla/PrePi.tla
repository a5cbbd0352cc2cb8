------------------------------- MODULE PrePi --------------------------------
(***************************************************************************)
(* PrePi on its memory: the region that _ModuleEntryPoint chose            *)
(* (PrePiMemory.tla) against the memory map, the MMU table and the HOBs    *)
(* that MemoryPeim has LittleKernelLib build while PrePi runs in that      *)
(* region (MmapRanges.tla).  An address of the map is a page of it.        *)
(***************************************************************************)
EXTENDS MmapRanges, PrePiMemory

ASSUME PrePiAssumption == SystemMemory.hi <= Last /\ Words = (Last + 1) * Page

(* The placements of FD and sizes that a build with this system memory may *)
(* have.                                                                   *)
Bytes == 0 .. Words - 1

Placements ==
  {p \in [base : {SystemMemory.lo * Page}, end : {(SystemMemory.hi + 1) * Page - 1},
          fdBase : Bytes, fdSize : Bytes, region : Bytes, primary : 1 .. Page, secondary : {0, 1}] :
     Sensible(p)}

(* PrePi's own memory is safe from what is built in it: if LittleKernel    *)
(* left the system memory to UEFI, every page of the UEFI region is mapped *)
(* WRITE_BACK by one entry of the MMU table, no HOB of LittleKernel's      *)
(* reports or allocates it, and the firmware that runs keeps its bytes but *)
(* for the first (the region's last, when the FD is at the memory's top).  *)
UefiRegionKept ==
  phase \in {"hobs", "done"} /\ MmapRange(SystemMemory.lo, SystemMemory.hi, SystemCell) \in Items(mappings) =>
    \A p \in Placements :
      LET r == UefiRegion(p)  pages == r.lo \div Page .. r.hi \div Page IN
      /\ \E i \in DOMAIN table : /\ table[i].attr = "WRITE_BACK"
                                 /\ \A a \in pages : a \in table[i].base .. table[i].base + table[i].length - 1
      /\ \A h \in resource \cup allocated : pages \cap h.base .. h.base + h.length - 1 = {}
      /\ r.hi <= p.fdBase \/ FdTop(p) < r.lo
=============================================================================
