----------------------------- MODULE MmapRanges -----------------------------
(***************************************************************************)
(* The memory map of LittleKernelLib (LittleKernelMem.c): a doubly linked  *)
(* list of ranges, here a sequence, into which LittleKernel's ranges and   *)
(* the system memory are inserted, and from which the MMU table and the    *)
(* memory HOBs are built.  It runs once, single-threaded, in PrePi.        *)
(***************************************************************************)
EXTENDS Naturals, Sequences, FiniteSets

CONSTANTS
  Last,            \* the highest address, (UINTN)-1 in the code
  Cells,           \* flags, attribute and type a caller may give to a range
  Blank,           \* those of the initial range
  Requests,        \* flag sets callers pass as InsertInRangeFlags
  SystemMemory,    \* [lo, hi] from PcdSystemMemoryBase and -Size
  EntriesPerPage,  \* MMU table entries in one page
  MaxAdds          \* bound: ranges LittleKernel reports

(* What the list says of the system memory; MemoryInitPei makes its HOB.    *)
SystemCell == [flags |-> {"RESERVED"}, attr |-> "WRITE_BACK", type |-> "RESERVED"]
Flags      == {"UNUSED", "DRAM", "RESERVED"}

ASSUME MapAssumption ==
  /\ Last \in Nat /\ MaxAdds \in Nat
  /\ Blank \notin Cells /\ SystemCell \notin Cells
  /\ \A c \in Cells \cup {Blank} : c.flags \subseteq Flags
  /\ "RESERVED" \notin Blank.flags
  /\ Requests \subseteq SUBSET {"UNUSED", "DRAM"}
ASSUME SystemAssumption ==
  /\ SystemMemory.lo \in Nat /\ SystemMemory.hi \in Nat
  /\ SystemMemory.lo <= SystemMemory.hi
ASSUME PageAssumption == EntriesPerPage \in Nat \ {0}

VARIABLES
  mappings,   \* mMappings
  adds,       \* ranges added so far
  phase,      \* "collect", "table", "hobs", "done"; without a table "failed", "untabled"
  table,      \* VirtualMemoryTable without its terminator
  resource,   \* DRAM resource descriptor HOBs
  allocated   \* memory allocation HOBs

vars == <<mappings, adds, phase, table, resource, allocated>>

MmapRange(lo, hi, cell) == [lo |-> lo, hi |-> hi, cell |-> cell]

-----------------------------------------------------------------------------
(* MmapInsertRange.                                                        *)

(* Mutant: reserved items are not passed over.                             *)
EligibleReserved(item, in) == item.cell.flags \cap in # {}

(* An item that may give up addresses: never a reserved one.               *)
Eligible(item, in) == "RESERVED" \notin item.cell.flags /\ item.cell.flags \cap in # {}
Contains(item, new) == item.lo <= new.lo /\ item.hi >= new.hi
Overlaps(item, new) == item.lo <= new.hi /\ new.lo <= item.hi

(* What is left of an item to either side of the new range.                *)
Before(item, new) ==
  IF item.lo < new.lo THEN <<MmapRange(item.lo, new.lo - 1, item.cell)>> ELSE <<>>
(* Mutant: a split forgets the right end of the item.                      *)
AfterLost(item, new) == <<>>

After(item, new) ==
  IF new.hi < item.hi THEN <<MmapRange(new.hi + 1, item.hi, item.cell)>> ELSE <<>>

(* The new range takes the place of the items h to t: what lies between    *)
(* them goes, h and t are trimmed or deleted.                              *)
Splice(m, h, t, new) ==
  SubSeq(m, 1, h - 1) \o Before(m[h], new) \o <<new>> \o After(m[t], new)
    \o SubSeq(m, t + 1, Len(m))

(* The loop stops at the first eligible item that contains the new range.  *)
Container(m, new, in) == {i \in DOMAIN m : Eligible(m[i], in) /\ Contains(m[i], new)}

(* Otherwise it has collected CombinationList.                             *)
Combination(m, new, in) == {i \in DOMAIN m : Eligible(m[i], in) /\ Overlaps(m[i], new)}

(* Mutant: the items found need not be adjacent.                           *)
CoherentSkipped(m, comb) == TRUE

(* Each item of the list starts where the one before it ends.              *)
Coherent(m, comb) ==
  \A i, j \in comb :
    (i < j /\ \A k \in comb : k <= i \/ j <= k) => m[j].lo = m[i].hi + 1

First(s) == CHOOSE i \in s : \A j \in s : i <= j
Final(s) == CHOOSE i \in s : \A j \in s : j <= i

InsertFits(m, new, in) ==
  LET comb == Combination(m, new, in) IN
    /\ comb # {}
    /\ Coherent(m, comb)
    /\ m[First(comb)].lo <= new.lo /\ new.hi <= m[Final(comb)].hi

(* The mappings after the call; those before it if nothing fits.           *)
MmapInsertRange(m, new, in) ==
  CASE Container(m, new, in) # {} ->
         LET i == First(Container(m, new, in)) IN Splice(m, i, i, new)
    [] Container(m, new, in) = {} /\ InsertFits(m, new, in) ->
         LET comb == Combination(m, new, in) IN Splice(m, First(comb), Final(comb), new)
    [] OTHER -> m

-----------------------------------------------------------------------------
Init ==
  /\ mappings = <<MmapRange(0, Last, Blank)>>
  /\ adds = 0 /\ phase = "collect"
  /\ table = <<>> /\ resource = {} /\ allocated = {}

(* LKApiMmapAdd, called back by mmap_get_all: nobody looks at the status.  *)
(* LittleKernel reports no empty range.                                    *)
LKApiMmapAdd(lo, size, cell, in) ==
  /\ phase = "collect" /\ adds < MaxAdds
  /\ mappings' = MmapInsertRange(mappings, MmapRange(lo, lo + (size - 1), cell), in)
  /\ adds' = adds + 1
  /\ UNCHANGED <<phase, table, resource, allocated>>

AddSystemMemory ==
  /\ phase = "collect"
  /\ mappings' = MmapInsertRange(mappings, MmapRange(SystemMemory.lo, SystemMemory.hi, SystemCell),
                                 {"DRAM"})
  /\ phase' = "table"
  /\ UNCHANGED <<adds, table, resource, allocated>>

Mapped(item) == item.cell.attr # "DONT_MAP"

(* Mutant: the length of a range is its End minus its Start.               *)
EntryShort(item) == [base |-> item.lo, length |-> item.hi - item.lo, attr |-> item.cell.attr]

Entry(item) == [base |-> item.lo, length |-> (item.hi - item.lo) + 1, attr |-> item.cell.attr]

Hob(item) == [base |-> item.lo, length |-> (item.hi - item.lo) + 1]

Items(m)      == {m[i] : i \in DOMAIN m}
Flagged(flag) == {item \in Items(mappings) : flag \in item.cell.flags}

(* The items the loop does not pass over, and the entry it has reached     *)
(* with the i-th of the list.                                              *)
MappedItems == {i \in DOMAIN mappings : Mapped(mappings[i])}
Index(i)    == Cardinality({k \in MappedItems : k <= i})

MmuTable ==
  [n \in 1 .. Cardinality(MappedItems) |->
     Entry(mappings[CHOOSE i \in MappedItems : Index(i) = n])]

(* Mutant: the table is built before the system memory is added.           *)
BuildTableEarly ==
  /\ phase = "collect"
  /\ table' = MmuTable
  /\ resource' = {Hob(r) : r \in Flagged("DRAM")}
  /\ phase' = "table"
  /\ UNCHANGED <<mappings, adds, allocated>>

(* The MMU table and the DRAM HOBs, at the end of                          *)
(* ArmPlatformGetVirtualMemoryMap.                                         *)
BuildTable ==
  /\ phase = "table"
  /\ table' = MmuTable
  /\ resource' = {Hob(r) : r \in Flagged("DRAM")}
  /\ phase' = "hobs"
  /\ UNCHANGED <<mappings, adds, allocated>>

(* Without pages for the table nothing is returned and no DRAM HOB built;  *)
(* the caller is not told, and if it survives what it takes for the table, *)
(* PrePiMain goes on.                                                      *)
TableAllocationFails ==
  /\ phase = "table"
  /\ phase' = "failed"
  /\ UNCHANGED <<mappings, adds, table, resource, allocated>>

(* Mutant: HOBs for every reserved range, DRAM or not.                     *)
AllocateAllReserved ==
  /\ phase = "hobs"
  /\ allocated' = {Hob(r) : r \in Flagged("RESERVED")}
  /\ phase' = "done"
  /\ UNCHANGED <<mappings, adds, table, resource>>

ArmPlatformBuildMemoryAllocationHobs ==
  /\ phase \in {"hobs", "failed"}
  /\ allocated' = {Hob(r) : r \in Flagged("DRAM") \cap Flagged("RESERVED")}
  /\ phase' = IF phase = "hobs" THEN "done" ELSE "untabled"
  /\ UNCHANGED <<mappings, adds, table, resource>>

Next ==
  \/ \E lo \in 0 .. Last, size \in 1 .. Last + 1, cell \in Cells, in \in Requests :
       LKApiMmapAdd(lo, size, cell, in)
  \/ AddSystemMemory
  \/ BuildTable \/ TableAllocationFails
  \/ ArmPlatformBuildMemoryAllocationHobs

Spec == Init /\ [][Next]_vars

-----------------------------------------------------------------------------
(* Properties.                                                             *)

AllCells == Cells \cup {Blank, SystemCell}
Ranges   == [lo : Nat, hi : Nat, cell : AllCells]

(* The list, the table and the HOBs have their types, and the table and    *)
(* the HOBs exist only once the phase that builds them is over.            *)
TypeOK ==
  /\ mappings \in Seq(Ranges)
  /\ adds \in 0 .. MaxAdds
  /\ phase \in {"collect", "table", "hobs", "done", "failed", "untabled"}
  /\ phase \notin {"hobs", "done"} => table = <<>> /\ resource = {}
  /\ phase \notin {"done", "untabled"} => allocated = {}

(* A list that goes from address a up to, not including, b: no gap, no     *)
(* overlap, no empty item.                                                 *)
Chain(m, a, b) ==
  IF m = <<>> THEN a = b ELSE
    /\ m[1].lo = a /\ m[Len(m)].hi + 1 = b
    /\ \A i \in 1 .. Len(m) : m[i].lo <= m[i].hi
    /\ \A i \in 1 .. Len(m) - 1 : m[i + 1].lo = m[i].hi + 1

(* Whatever is inserted, and however often that splits, trims or merges    *)
(* items, the list describes every address exactly once, in order          *)
(* (MmapInsertRange relinks items and edits their ends by hand).           *)
Partition == Chain(mappings, 0, Last + 1)

CellAt(m, a) == (CHOOSE item \in Items(m) : a \in item.lo .. item.hi).cell
MM == INSTANCE MemoryMap WITH
        Cells <- Cells \cup {SystemCell},
        map   <- [a \in 0 .. Last |-> CellAt(mappings, a)]

(* Each call of MmapInsertRange overlays exactly the addresses of the new  *)
(* range, and only if all of them may be given up, or changes nothing.     *)
Overlays == MM!Spec

(* MmapInsertRange finds a place for a range exactly when every address of *)
(* it may be given up: a run of items of different kinds is as good as one *)
(* item, and an address of the wrong kind anywhere refuses it.             *)
InsertExact ==
  phase = "collect" =>
  \A lo \in 0 .. Last, hi \in 0 .. Last + 1, in \in Requests :
    LET new == MmapRange(lo, hi, Blank) IN
    lo <= hi =>
      ((Container(mappings, new, in) # {} \/ InsertFits(mappings, new, in))
         <=> \A a \in lo .. hi : a <= Last /\ MM!Usable(CellAt(mappings, a), in))

(* "never allow using reserved memory" (LittleKernelMem.c:142): an item    *)
(* once reserved is never trimmed, split, deleted or redescribed, by       *)
(* whatever later ranges ask for.                                          *)
ReservedKept ==
  [][\A item \in Items(mappings) :
       "RESERVED" \in item.cell.flags => item \in Items(mappings')]_vars

Within(hob, lo, hi) == lo <= hob.base /\ hob.base + hob.length - 1 <= hi
Disjoint(p, q) == p.base + p.length <= q.base \/ q.base + q.length <= p.base

(* The HOBs PrePi hands to DXE agree with each other: no DRAM is reported  *)
(* twice, system memory is not reported again if its range was accepted,   *)
(* and what is allocated was reported as DRAM, unless no DRAM was reported *)
(* for want of a table.                                                    *)
HobsSound ==
  /\ \A p, q \in resource : p = q \/ Disjoint(p, q)
  /\ (phase # "collect" /\ MmapRange(SystemMemory.lo, SystemMemory.hi, SystemCell) \in Items(mappings))
       => \A p \in resource :
            SystemMemory.hi < p.base \/ p.base + p.length - 1 < SystemMemory.lo
  /\ phase # "untabled" => allocated \subseteq resource

(* The MMU table maps every address that is not DONT_MAP once, with the    *)
(* attribute of the range that was inserted there last, and no entry has   *)
(* length 0, which would end the table early.                              *)
TableMatchesMap ==
  phase \in {"hobs", "done"} =>
    /\ \A i \in DOMAIN table : table[i].length # 0
    /\ \A a \in 0 .. Last :
         LET hits == {i \in DOMAIN table : Within([base |-> a, length |-> 1], table[i].base,
                                                  table[i].base + table[i].length - 1)}
             attr == CellAt(mappings, a).attr
         IN IF attr = "DONT_MAP" THEN hits = {}
            ELSE \E i \in hits : hits = {i} /\ table[i].attr = attr

(* "This array must be ended by a zero-filled entry"                       *)
(* (LittleKernelMem.c:361): the entry after the last mapping lies in the   *)
(* pages allocated for the table, which were counted for the list alone.   *)
PagesFor(n) == (n + EntriesPerPage - 1) \div EntriesPerPage
TerminatorFits ==
  phase \in {"hobs", "done"} =>
    Len(table) + 1 <= PagesFor(Len(mappings)) * EntriesPerPage
=============================================================================
