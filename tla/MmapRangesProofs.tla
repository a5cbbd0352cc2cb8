-------------------------- MODULE MmapRangesProofs --------------------------
(***************************************************************************)
(* Proofs about MmapRanges, for every address range, every set of cells    *)
(* and every number of insertions: the list always partitions the          *)
(* addresses, an insertion is refused exactly when it has to be, the list  *)
(* implements the map of MemoryMap.tla, reserved items never change, and   *)
(* the MMU table and the HOBs say what the list says.  And about PrePi,    *)
(* for registers and pages of any size: nothing that is built in the UEFI  *)
(* region which _ModuleEntryPoint chooses takes it away.                   *)
(***************************************************************************)
EXTENDS PrePi, FiniteSetTheorems, SequenceTheorems, WellFoundedInduction, TLAPS

(* The ends of a range are numbers.                                        *)
LEMMA RangeEnds == \A r \in Ranges : r.lo \in Nat /\ r.hi \in Nat
BY DEF Ranges

(* Two lists that meet make one.                                           *)
LEMMA ChainJoin ==
  ASSUME NEW s \in Seq(Ranges), NEW t \in Seq(Ranges),
         NEW a \in Nat, NEW b \in Nat, NEW c \in Nat,
         Chain(s, a, b), Chain(t, b, c)
  PROVE  /\ s \o t \in Seq(Ranges)
         /\ Chain(s \o t, a, c)
<1> DEFINE u == s \o t
<1>1. /\ u \in Seq(Ranges)
      /\ Len(u) = Len(s) + Len(t)
      /\ \A i \in 1 .. Len(u) : u[i] = IF i <= Len(s) THEN s[i] ELSE t[i - Len(s)]
  BY ConcatProperties
<1>2. CASE s = <<>> \/ t = <<>>
  BY <1>2, ConcatEmptySeq DEF Chain
<1>3. CASE s # <<>> /\ t # <<>>
  <2>1. Len(s) \in Nat \ {0} /\ Len(t) \in Nat \ {0}
    BY <1>3, EmptySeq
  <2>2. u # <<>>
    BY <1>1, <2>1, EmptySeq
  <2>3. u[1].lo = a /\ u[Len(u)].hi + 1 = c
    BY <1>1, <1>3, <2>1 DEF Chain
  <2>4. \A i \in 1 .. Len(u) : u[i].lo <= u[i].hi
    BY <1>1, <1>3, <2>1 DEF Chain
  <2>5. \A i \in 1 .. Len(u) - 1 : u[i + 1].lo = u[i].hi + 1
    <3> SUFFICES ASSUME NEW i \in 1 .. Len(u) - 1 PROVE u[i + 1].lo = u[i].hi + 1
      OBVIOUS
    <3>1. CASE i < Len(s)
      BY <1>1, <1>3, <2>1, <3>1 DEF Chain
    <3>2. CASE i = Len(s)
      BY <1>1, <1>3, <2>1, <3>2 DEF Chain
    <3>3. CASE i > Len(s)
      <4>1. i - Len(s) \in 1 .. Len(t) - 1 /\ (i + 1) - Len(s) = (i - Len(s)) + 1
        BY <1>1, <2>1, <3>3
      <4>2. t[(i - Len(s)) + 1].lo = t[i - Len(s)].hi + 1
        BY <1>3, <4>1 DEF Chain
      <4>3. u[i] = t[i - Len(s)] /\ u[i + 1] = t[(i + 1) - Len(s)]
        BY <1>1, <2>1, <3>3
      <4> QED
        BY <4>1, <4>2, <4>3
    <3> QED
      BY <2>1, <3>1, <3>2, <3>3
  <2> QED
    BY <1>1, <2>2, <2>3, <2>4, <2>5 DEF Chain
<1> QED
  BY <1>2, <1>3

(* The items before the h-th, and those after the t-th.                    *)
LEMMA ChainPrefix ==
  ASSUME NEW m \in Seq(Ranges), NEW a \in Nat, NEW b \in Nat, Chain(m, a, b),
         NEW h \in 1 .. Len(m)
  PROVE  /\ SubSeq(m, 1, h - 1) \in Seq(Ranges)
         /\ Chain(SubSeq(m, 1, h - 1), a, m[h].lo)
<1> DEFINE p == SubSeq(m, 1, h - 1)
<1>0. Len(m) \in Nat /\ \A i \in 1 .. Len(m) : m[i] \in Ranges
  BY ElementOfSeq, LenProperties
<1>1. /\ p \in Seq(Ranges)
      /\ Len(p) = h - 1
      /\ \A i \in 1 .. h - 1 : p[i] = m[i]
  BY <1>0, SubSeqProperties
<1>2. CASE h = 1
  BY <1>1, <1>2, EmptySeq DEF Chain
<1>3. CASE h > 1
  <2>1. p # <<>> /\ m # <<>>
    BY <1>1, <1>3, EmptySeq
  <2>2. m[h].lo = m[h - 1].hi + 1
    <3>1. h - 1 \in 1 .. Len(m) - 1 /\ (h - 1) + 1 = h
      BY <1>3
    <3> QED
      BY <2>1, <3>1 DEF Chain
  <2> HIDE DEF p
  <2>3. p[1].lo = a /\ p[Len(p)].hi + 1 = m[h].lo
    <3>1. 1 \in 1 .. h - 1 /\ h - 1 \in 1 .. h - 1
      BY <1>3
    <3>2. p[1] = m[1] /\ p[Len(p)] = m[h - 1]
      BY <1>1, <3>1
    <3> QED
      BY <2>1, <2>2, <3>2 DEF Chain
  <2>4. /\ \A i \in 1 .. Len(p) : p[i].lo <= p[i].hi
        /\ \A i \in 1 .. Len(p) - 1 : p[i + 1].lo = p[i].hi + 1
    <3>1. \A i \in 1 .. h - 1 : i \in 1 .. Len(m)
      BY <1>0
    <3>2. \A i \in 1 .. (h - 1) - 1 :
            /\ i \in 1 .. h - 1 /\ i + 1 \in 1 .. h - 1
            /\ i \in 1 .. Len(m) - 1
      BY <1>0
    <3>3. \A i \in 1 .. h - 1 : p[i].lo <= p[i].hi
      BY <1>1, <2>1, <3>1 DEF Chain
    <3>4. \A i \in 1 .. (h - 1) - 1 : p[i + 1].lo = p[i].hi + 1
      BY <1>1, <2>1, <3>2 DEF Chain
    <3> QED
      BY <1>1, <3>3, <3>4
  <2>5. Chain(p, a, m[h].lo)
    BY <2>1, <2>3, <2>4 DEF Chain
  <2> QED
    BY <1>1, <2>5 DEF p
<1> QED
  BY <1>1, <1>2, <1>3

(* What follows item t in a chain is a chain from where t ends.            *)
LEMMA ChainSuffix ==
  ASSUME NEW m \in Seq(Ranges), NEW a \in Nat, NEW b \in Nat, Chain(m, a, b),
         NEW t \in 1 .. Len(m)
  PROVE  /\ SubSeq(m, t + 1, Len(m)) \in Seq(Ranges)
         /\ Chain(SubSeq(m, t + 1, Len(m)), m[t].hi + 1, b)
<1> DEFINE p == SubSeq(m, t + 1, Len(m))
<1>0. Len(m) \in Nat /\ \A i \in 1 .. Len(m) : m[i] \in Ranges
  BY ElementOfSeq, LenProperties
<1>1. /\ p \in Seq(Ranges)
      /\ Len(p) = Len(m) - t
      /\ \A i \in 1 .. Len(m) - t : p[i] = m[t + i]
  BY <1>0, SubSeqProperties
<1>2. CASE t = Len(m)
  BY <1>0, <1>1, <1>2, EmptySeq DEF Chain, Ranges
<1>3. CASE t < Len(m)
  <2> HIDE DEF p
  <2>1. p # <<>> /\ m # <<>>
    BY <1>1, <1>3, EmptySeq
  <2>2. p[1] = m[t + 1] /\ p[Len(p)] = m[Len(m)]
    <3>1. 1 \in 1 .. Len(m) - t /\ Len(m) - t \in 1 .. Len(m) - t /\ t + (Len(m) - t) = Len(m)
      BY <1>0, <1>3
    <3>2. p[1] = m[t + 1] /\ p[Len(m) - t] = m[t + (Len(m) - t)]
      BY <1>1, <3>1
    <3> QED
      BY <1>1, <3>1, <3>2
  <2>3. p[1].lo = m[t].hi + 1 /\ p[Len(p)].hi + 1 = b
    BY <1>3, <2>1, <2>2 DEF Chain
  <2>4. \A i \in 1 .. Len(p) : p[i] = m[t + i] /\ t + i \in 1 .. Len(m)
    <3> SUFFICES ASSUME NEW i \in 1 .. Len(p) PROVE p[i] = m[t + i] /\ t + i \in 1 .. Len(m)
      OBVIOUS
    <3>1. i \in 1 .. Len(m) - t /\ t + i \in 1 .. Len(m)
      BY <1>0, <1>1
    <3> QED
      BY <1>1, <3>1
  <2>5. \A i \in 1 .. Len(p) : p[i].lo <= p[i].hi
    BY <2>1, <2>4 DEF Chain
  <2>6. \A i \in 1 .. Len(p) - 1 : p[i + 1].lo = p[i].hi + 1
    <3> SUFFICES ASSUME NEW i \in 1 .. Len(p) - 1 PROVE p[i + 1].lo = p[i].hi + 1
      OBVIOUS
    <3>1. /\ i \in 1 .. Len(p) /\ i + 1 \in 1 .. Len(p)
          /\ t + i \in 1 .. Len(m) - 1 /\ t + (i + 1) = (t + i) + 1
      BY <1>0, <1>1
    <3>2. p[i] = m[t + i]
      BY <2>4, <3>1
    <3>3. p[i + 1] = m[(t + i) + 1]
      <4>1. p[i + 1] = m[t + (i + 1)]
        BY <2>4, <3>1
      <4> QED
        BY <3>1, <4>1
    <3> QED
      BY <2>1, <3>1, <3>2, <3>3 DEF Chain
  <2>7. Chain(p, m[t].hi + 1, b)
    BY <2>1, <2>3, <2>5, <2>6 DEF Chain
  <2> QED
    BY <1>1, <2>7 DEF p
<1> QED
  BY <1>1, <1>2, <1>3

(* A set of positions has a first and a last one.                          *)
LEMMA Smallest ==
  ASSUME NEW s \in SUBSET Nat, s # {}
  PROVE  \E i \in s : \A j \in s : i <= j
<1>1. PICK i \in s : \A j \in s : ~ (<<j, i>> \in OpToRel(<, Nat))
  BY WFMin, NatLessThanWellFounded
<1>2. \A j \in s : ~ (j < i)
  BY <1>1 DEF OpToRel
<1> QED
  BY <1>2

(* First and Final are the least and the greatest of a set of indices.     *)
LEMMA FirstFinal ==
  ASSUME NEW n \in Nat, NEW s \in SUBSET (1 .. n), s # {}
  PROVE  /\ First(s) \in s /\ \A j \in s : First(s) <= j
         /\ Final(s) \in s /\ \A j \in s : j <= Final(s)
<1>1. \E i \in s : \A j \in s : i <= j
  BY Smallest
<1>2. \E i \in s : \A j \in s : j <= i
  <2> DEFINE down == {n - j : j \in s}
  <2>1. down \in SUBSET Nat /\ down # {}
    <3>1. \A j \in s : n - j \in Nat
      OBVIOUS
    <3> QED
      BY <3>1
  <2>2. PICK d \in down : \A e \in down : d <= e
    BY <2>1, Smallest
  <2>3. PICK i \in s : d = n - i
    BY <2>2
  <2>4. \A j \in s : n - j \in down
    OBVIOUS
  <2>5. \A j \in s : n - i <= n - j
    BY <2>2, <2>3, <2>4
  <2> QED
    BY <2>3, <2>5
<1> QED
  BY <1>1, <1>2 DEF First, Final

(* A new range within the items h to t of a list.                          *)
FitsAt(m, h, t, new) ==
  /\ h \in 1 .. Len(m) /\ t \in h .. Len(m)
  /\ m[h].lo <= new.lo /\ new.hi <= m[t].hi

(* A range that is not empty is a chain of one item.                       *)
LEMMA SingleChain ==
  ASSUME NEW r \in Ranges, r.lo <= r.hi
  PROVE  <<r>> \in Seq(Ranges) /\ Chain(<<r>>, r.lo, r.hi + 1)
BY DEF Chain

(* What is left to the sides of a new range, nothing included.             *)
LEMMA BeforeChain ==
  ASSUME NEW item \in Ranges, NEW new \in Ranges, item.lo <= new.lo
  PROVE  /\ Before(item, new) \in Seq(Ranges)
         /\ Chain(Before(item, new), item.lo, new.lo)
<1>1. CASE item.lo < new.lo
  <2> DEFINE r == MmapRange(item.lo, new.lo - 1, item.cell)
  <2>1. r.lo = item.lo /\ r.hi = new.lo - 1 /\ r.cell = item.cell
    BY DEF MmapRange
  <2>2. r \in Ranges
    BY <1>1 DEF Ranges, MmapRange
  <2>3. Before(item, new) = <<r>>
    BY <1>1 DEF Before
  <2>4. r.lo <= r.hi /\ r.hi + 1 = new.lo
    BY <1>1, <2>1, RangeEnds
  <2> HIDE DEF r
  <2> QED
    BY <2>1, <2>2, <2>3, <2>4, SingleChain
<1>2. CASE item.lo = new.lo
  <2>1. ~ (item.lo < new.lo)
    BY <1>2, RangeEnds
  <2>2. Before(item, new) = <<>>
    BY <2>1 DEF Before
  <2> QED
    BY <1>2, <2>2, EmptySeq DEF Chain
<1> QED
  BY <1>1, <1>2, RangeEnds

(* What is left of the last item touched, after the new range.             *)
LEMMA AfterChain ==
  ASSUME NEW item \in Ranges, NEW new \in Ranges, new.hi <= item.hi
  PROVE  /\ After(item, new) \in Seq(Ranges)
         /\ Chain(After(item, new), new.hi + 1, item.hi + 1)
<1>1. CASE new.hi < item.hi
  <2> DEFINE r == MmapRange(new.hi + 1, item.hi, item.cell)
  <2>1. r.lo = new.hi + 1 /\ r.hi = item.hi /\ r.cell = item.cell
    BY DEF MmapRange
  <2>2. r \in Ranges
    BY <1>1 DEF Ranges, MmapRange
  <2>3. After(item, new) = <<r>>
    BY <1>1 DEF After
  <2>4. r.lo <= r.hi
    BY <1>1, <2>1, RangeEnds
  <2> HIDE DEF r
  <2> QED
    BY <2>1, <2>2, <2>3, <2>4, SingleChain
<1>2. CASE item.hi = new.hi
  <2>1. ~ (new.hi < item.hi)
    BY <1>2, RangeEnds
  <2>2. After(item, new) = <<>>
    BY <2>1 DEF After
  <2> QED
    BY <1>2, <2>2, EmptySeq DEF Chain
<1> QED
  BY <1>1, <1>2, RangeEnds

(* Splicing a range into the items it spans leaves no gap and no overlap.  *)
LEMMA SpliceChain ==
  ASSUME NEW m \in Seq(Ranges), NEW b \in Nat, Chain(m, 0, b),
         NEW new \in Ranges, new.lo <= new.hi,
         NEW h, NEW t, FitsAt(m, h, t, new)
  PROVE  /\ Splice(m, h, t, new) \in Seq(Ranges)
         /\ Chain(Splice(m, h, t, new), 0, b)
<1>0. h \in 1 .. Len(m) /\ t \in 1 .. Len(m) /\ m[h] \in Ranges /\ m[t] \in Ranges
  BY ElementOfSeq DEF FitsAt
<1>1. /\ SubSeq(m, 1, h - 1) \in Seq(Ranges)
      /\ Chain(SubSeq(m, 1, h - 1), 0, m[h].lo)
  BY <1>0, ChainPrefix
<1>2. /\ SubSeq(m, t + 1, Len(m)) \in Seq(Ranges)
      /\ Chain(SubSeq(m, t + 1, Len(m)), m[t].hi + 1, b)
  BY <1>0, ChainSuffix
<1>3. <<new>> \in Seq(Ranges) /\ Chain(<<new>>, new.lo, new.hi + 1)
  BY SingleChain
<1>4. Before(m[h], new) \in Seq(Ranges) /\ Chain(Before(m[h], new), m[h].lo, new.lo)
  BY <1>0, BeforeChain DEF FitsAt
<1>5. After(m[t], new) \in Seq(Ranges) /\ Chain(After(m[t], new), new.hi + 1, m[t].hi + 1)
  BY <1>0, AfterChain DEF FitsAt
<1>6. new.lo \in Nat /\ new.hi + 1 \in Nat /\ m[h].lo \in Nat /\ m[t].hi + 1 \in Nat
  BY <1>0, RangeEnds
<1> DEFINE s1 == SubSeq(m, 1, h - 1) \o Before(m[h], new)
           s2 == s1 \o <<new>>
           s3 == s2 \o After(m[t], new)
<1>7. s1 \in Seq(Ranges) /\ Chain(s1, 0, new.lo)
  BY <1>1, <1>4, <1>6, ChainJoin
<1>8. s2 \in Seq(Ranges) /\ Chain(s2, 0, new.hi + 1)
  <2> HIDE DEF s1
  <2> QED
    BY <1>3, <1>6, <1>7, ChainJoin
<1>9. s3 \in Seq(Ranges) /\ Chain(s3, 0, m[t].hi + 1)
  <2> HIDE DEF s2
  <2> QED
    BY <1>5, <1>6, <1>8, ChainJoin
<1>10. LET s == s3 \o SubSeq(m, t + 1, Len(m)) IN s \in Seq(Ranges) /\ Chain(s, 0, b)
  <2> HIDE DEF s3
  <2> QED
    BY <1>2, <1>6, <1>9, ChainJoin
<1> QED
  BY <1>10 DEF Splice

(* Whatever fits is inserted where it lies within the items it replaces.   *)
LEMMA InsertChain ==
  ASSUME NEW m \in Seq(Ranges), NEW b \in Nat, Chain(m, 0, b),
         NEW new \in Ranges, new.lo <= new.hi, NEW in
  PROVE  /\ MmapInsertRange(m, new, in) \in Seq(Ranges)
         /\ Chain(MmapInsertRange(m, new, in), 0, b)
<1>0. Len(m) \in Nat /\ DOMAIN m = 1 .. Len(m)
  BY LenProperties
<1>1. CASE Container(m, new, in) # {}
  <2> DEFINE i == First(Container(m, new, in))
  <2>1. i \in Container(m, new, in)
    BY <1>0, <1>1, FirstFinal DEF Container
  <2>2. FitsAt(m, i, i, new)
    BY <1>0, <2>1 DEF FitsAt, Container, Contains
  <2>3. MmapInsertRange(m, new, in) = Splice(m, i, i, new)
    BY <1>1 DEF MmapInsertRange
  <2> QED
    BY <2>2, <2>3, SpliceChain
<1>2. CASE Container(m, new, in) = {} /\ InsertFits(m, new, in)
  <2> DEFINE comb == Combination(m, new, in)
             h == First(comb)
             t == Final(comb)
  <2>1. comb \in SUBSET (1 .. Len(m)) /\ comb # {}
    BY <1>0, <1>2 DEF InsertFits, Combination
  <2>2. h \in comb /\ t \in comb /\ h <= t
    BY <1>0, <2>1, FirstFinal
  <2>3. FitsAt(m, h, t, new)
    BY <1>0, <1>2, <2>1, <2>2 DEF FitsAt, InsertFits
  <2>4. MmapInsertRange(m, new, in) = Splice(m, h, t, new)
    BY <1>2 DEF MmapInsertRange
  <2> QED
    BY <2>3, <2>4, SpliceChain
<1>3. CASE Container(m, new, in) = {} /\ ~ InsertFits(m, new, in)
  BY <1>3 DEF MmapInsertRange
<1> QED
  BY <1>1, <1>2, <1>3

(* The list is well formed and partitions the addresses.                   *)
ListInv == mappings \in Seq(Ranges) /\ Partition

(* The initial list, one item of nothing, is a partition.                  *)
LEMMA InitList == Init => ListInv
<1> SUFFICES ASSUME Init PROVE ListInv
  OBVIOUS
<1> DEFINE r == MmapRange(0, Last, Blank)
<1>1. r \in Ranges /\ r.lo = 0 /\ r.hi = Last /\ Last \in Nat
  BY MapAssumption DEF Ranges, MmapRange, AllCells
<1>2. mappings = <<r>>
  BY DEF Init
<1> HIDE DEF r
<1> QED
  BY <1>1, <1>2 DEF ListInv, Partition, Chain

(* Every step keeps the list a partition.                                  *)
LEMMA NextList == ListInv /\ [Next]_vars => ListInv'
<1> SUFFICES ASSUME ListInv, [Next]_vars PROVE ListInv'
  OBVIOUS
<1>0. Last + 1 \in Nat /\ mappings \in Seq(Ranges) /\ Chain(mappings, 0, Last + 1)
  BY MapAssumption DEF ListInv, Partition
<1>1. ASSUME NEW lo \in 0 .. Last, NEW size \in 1 .. Last + 1,
             NEW cell \in Cells, NEW in \in Requests,
             LKApiMmapAdd(lo, size, cell, in)
      PROVE  ListInv'
  <2> DEFINE new == MmapRange(lo, lo + (size - 1), cell)
  <2>1. new \in Ranges /\ new.lo <= new.hi
    BY MapAssumption DEF Ranges, MmapRange, AllCells
  <2>2. mappings' = MmapInsertRange(mappings, new, in)
    BY <1>1 DEF LKApiMmapAdd
  <2> QED
    BY <1>0, <2>1, <2>2, InsertChain DEF ListInv, Partition
<1>2. CASE AddSystemMemory
  <2> DEFINE new == MmapRange(SystemMemory.lo, SystemMemory.hi, SystemCell)
  <2>1. new \in Ranges /\ new.lo <= new.hi
    BY SystemAssumption DEF Ranges, MmapRange, AllCells
  <2>2. mappings' = MmapInsertRange(mappings, new, {"DRAM"})
    BY <1>2 DEF AddSystemMemory
  <2> QED
    BY <1>0, <2>1, <2>2, InsertChain DEF ListInv, Partition
<1>3. CASE UNCHANGED mappings
  BY <1>3 DEF ListInv, Partition
<1> QED
  BY <1>1, <1>2, <1>3 DEF Next, BuildTable, TableAllocationFails,
                               ArmPlatformBuildMemoryAllocationHobs, vars

(* After any number of insertions of any ranges, accepted or refused, the  *)
(* list describes every address exactly once and in order                  *)
(* (MmapInsertRange).                                                      *)
THEOREM PartitionAlways == Spec => []Partition
<1>1. ListInv => Partition
  BY DEF ListInv
<1> QED
  BY InitList, NextList, <1>1, PTL DEF Spec

-----------------------------------------------------------------------------
(* Reserved items.                                                         *)

(* The items of a list are in the order of their addresses.                *)
LEMMA ChainSorted ==
  ASSUME NEW m \in Seq(Ranges), NEW a, NEW b, Chain(m, a, b),
         NEW i \in 1 .. Len(m), NEW j \in i + 1 .. Len(m)
  PROVE  m[i].hi < m[j].lo
<1>0. Len(m) \in Nat /\ m # <<>> /\ \A k \in 1 .. Len(m) : m[k].lo \in Nat /\ m[k].hi \in Nat
  BY LenProperties, ElementOfSeq, RangeEnds, EmptySeq
<1> DEFINE bad == {k \in i + 1 .. Len(m) : ~ (m[i].hi < m[k].lo)}
<1> SUFFICES ASSUME bad # {} PROVE FALSE
  BY <1>0
<1>1. bad \in SUBSET Nat
  BY <1>0
<1>2. PICK k \in bad : \A l \in bad : k <= l
  BY <1>1, Smallest
<1>3. /\ k \in i + 1 .. Len(m) /\ k - 1 \in 1 .. Len(m) - 1 /\ (k - 1) + 1 = k
      /\ k - 1 \notin bad
  BY <1>0, <1>1, <1>2
<1>4. m[k].lo = m[k - 1].hi + 1 /\ m[k - 1].lo <= m[k - 1].hi
  BY <1>0, <1>3 DEF Chain
<1>5. CASE k - 1 = i
  BY <1>0, <1>2, <1>3, <1>4, <1>5
<1>6. CASE k - 1 \in i + 1 .. Len(m)
  <2>1. m[i].hi < m[k - 1].lo
    BY <1>3, <1>6
  <2>2. /\ m[i].hi \in Nat /\ m[k].lo \in Nat
        /\ m[k - 1].lo \in Nat /\ m[k - 1].hi \in Nat
    BY <1>0, <1>3
  <2>3. ~ (m[i].hi < m[k].lo)
    BY <1>2
  <2>4. \A w, x, y, z \in Nat : w < x /\ x <= y /\ z = y + 1 => w < z
    OBVIOUS
  <2>5. m[i].hi < m[k].lo
    BY <1>4, <2>1, <2>2, <2>4
  <2> QED
    BY <2>3, <2>5
<1> QED
  BY <1>0, <1>3, <1>5, <1>6

(* Items that cohere leave no other item between them.                     *)
LEMMA CoherentDense ==
  ASSUME NEW m \in Seq(Ranges), NEW a, NEW b, Chain(m, a, b),
         NEW comb \in SUBSET (1 .. Len(m)), Coherent(m, comb),
         NEW h \in comb, NEW t \in comb, NEW k \in h .. t
  PROVE  k \in comb
<1> SUFFICES ASSUME k \notin comb PROVE FALSE
  OBVIOUS
<1>0. /\ Len(m) \in Nat /\ m # <<>> /\ k \in 1 .. Len(m)
      /\ \A i \in 1 .. Len(m) : m[i] \in Ranges /\ m[i].lo \in Nat /\ m[i].hi \in Nat
  BY LenProperties, ElementOfSeq, RangeEnds, EmptySeq
<1> DEFINE left  == {i \in comb : i < k}
           right == {i \in comb : k < i}
<1>1. h \in left /\ t \in right
  BY <1>0
<1>2. PICK i \in left : \A l \in left : l <= i
  <2>1. left \in SUBSET (1 .. Len(m)) /\ left # {}
    BY <1>1
  <2> HIDE DEF left
  <2> QED
    BY <1>0, <2>1, FirstFinal
<1>3. PICK j \in right : \A l \in right : j <= l
  <2>1. right \in SUBSET (1 .. Len(m)) /\ right # {}
    BY <1>1
  <2> HIDE DEF right
  <2> QED
    BY <1>0, <2>1, FirstFinal
<1>4. /\ i \in comb /\ j \in comb /\ i < k /\ k < j
      /\ \A l \in comb : l <= i \/ j <= l
  BY <1>0, <1>2, <1>3
<1>5. m[j].lo = m[i].hi + 1
  BY <1>0, <1>4 DEF Coherent
<1>6. m[i].hi < m[k].lo /\ m[k].hi < m[j].lo
  BY <1>0, <1>4, ChainSorted
<1>7. m[k].lo <= m[k].hi
  BY <1>0 DEF Chain
<1> QED
  BY <1>0, <1>4, <1>5, <1>6, <1>7

(* What a splice leaves alone is still there.                              *)
LEMMA JoinItems ==
  ASSUME NEW S, NEW s \in Seq(S), NEW t \in Seq(S)
  PROVE  Items(s) \cup Items(t) \subseteq Items(s \o t)
<1>1. /\ s \o t \in Seq(S) /\ Len(s \o t) = Len(s) + Len(t)
      /\ \A i \in 1 .. Len(s) + Len(t) :
           (s \o t)[i] = IF i <= Len(s) THEN s[i] ELSE t[i - Len(s)]
      /\ DOMAIN s = 1 .. Len(s) /\ DOMAIN t = 1 .. Len(t)
      /\ DOMAIN (s \o t) = 1 .. Len(s \o t) /\ Len(s) \in Nat /\ Len(t) \in Nat
  BY ConcatProperties, LenProperties
<1>2. ASSUME NEW i \in 1 .. Len(s) PROVE s[i] \in Items(s \o t)
  <2>1. i \in DOMAIN (s \o t) /\ (s \o t)[i] = s[i]
    BY <1>1
  <2> QED
    BY <2>1 DEF Items
<1>3. ASSUME NEW i \in 1 .. Len(t) PROVE t[i] \in Items(s \o t)
  <2>1. /\ Len(s) + i \in 1 .. Len(s) + Len(t) /\ ~ (Len(s) + i <= Len(s))
        /\ (Len(s) + i) - Len(s) = i
    BY <1>1
  <2>2. (s \o t)[Len(s) + i] = t[i]
    BY <1>1, <2>1
  <2> QED
    BY <1>1, <2>1, <2>2 DEF Items
<1> QED
  BY <1>1, <1>2, <1>3 DEF Items

(* Items before the first and after the last item spanned stay.            *)
LEMMA SpliceKeeps ==
  ASSUME NEW m \in Seq(Ranges), NEW new \in Ranges,
         NEW h \in 1 .. Len(m), NEW t \in 1 .. Len(m),
         Before(m[h], new) \in Seq(Ranges), After(m[t], new) \in Seq(Ranges),
         NEW k \in 1 .. Len(m), k < h \/ t < k
  PROVE  m[k] \in Items(Splice(m, h, t, new))
<1> DEFINE p == SubSeq(m, 1, h - 1)
           q == SubSeq(m, t + 1, Len(m))
           s1 == p \o Before(m[h], new)
           s2 == s1 \o <<new>>
           s3 == s2 \o After(m[t], new)
<1>0. Len(m) \in Nat /\ \A i \in 1 .. Len(m) : m[i] \in Ranges
  BY LenProperties, ElementOfSeq
<1>1. /\ p \in Seq(Ranges) /\ Len(p) = h - 1 /\ DOMAIN p = 1 .. Len(p)
      /\ \A i \in 1 .. h - 1 : p[i] = m[i]
  BY <1>0, SubSeqProperties, LenProperties
<1>2. /\ q \in Seq(Ranges) /\ Len(q) = Len(m) - t /\ DOMAIN q = 1 .. Len(q)
      /\ \A i \in 1 .. Len(m) - t : q[i] = m[t + i]
  BY <1>0, SubSeqProperties, LenProperties
<1>3. <<new>> \in Seq(Ranges)
  OBVIOUS
<1> HIDE DEF p, q
<1>4. s1 \in Seq(Ranges) /\ Items(p) \subseteq Items(s1)
  BY <1>1, ConcatProperties, JoinItems
<1> HIDE DEF s1
<1>5. s2 \in Seq(Ranges) /\ Items(s1) \subseteq Items(s2)
  BY <1>3, <1>4, ConcatProperties, JoinItems
<1> HIDE DEF s2
<1>6. s3 \in Seq(Ranges) /\ Items(s2) \subseteq Items(s3)
  BY <1>5, ConcatProperties, JoinItems
<1> HIDE DEF s3
<1>7. Items(s3) \cup Items(q) \subseteq Items(s3 \o q)
  BY <1>2, <1>6, JoinItems
<1>8. m[k] \in Items(p) \cup Items(q)
  <2>1. CASE k < h
    <3>1. k \in DOMAIN p /\ p[k] = m[k]
      BY <1>0, <1>1, <2>1
    <3> QED
      BY <3>1 DEF Items
  <2>2. CASE t < k
    <3>1. k - t \in 1 .. Len(m) - t /\ t + (k - t) = k
      BY <1>0, <2>2
    <3>2. k - t \in DOMAIN q /\ q[k - t] = m[k]
      BY <1>2, <3>1
    <3> QED
      BY <3>2 DEF Items
  <2> QED
    BY <2>1, <2>2
<1>9. Splice(m, h, t, new) = s3 \o q
  BY DEF Splice, s3, s2, s1, p, q
<1> QED
  BY <1>4, <1>5, <1>6, <1>7, <1>8, <1>9

(* What is left of an item on either side is a list of at most one range.  *)
LEMMA TrimTypes ==
  ASSUME NEW item \in Ranges, NEW new \in Ranges
  PROVE  Before(item, new) \in Seq(Ranges) /\ After(item, new) \in Seq(Ranges)
<1>1. item.lo < new.lo => MmapRange(item.lo, new.lo - 1, item.cell) \in Ranges
  BY DEF Ranges, MmapRange
<1>2. new.hi < item.hi => MmapRange(new.hi + 1, item.hi, item.cell) \in Ranges
  BY DEF Ranges, MmapRange
<1> QED
  BY <1>1, <1>2, EmptySeq DEF Before, After

(* MmapInsertRange keeps every reserved item as it is.                     *)
LEMMA InsertKeeps ==
  ASSUME NEW m \in Seq(Ranges), NEW a, NEW b, Chain(m, a, b), NEW new \in Ranges, NEW in,
         NEW k \in 1 .. Len(m), "RESERVED" \in m[k].cell.flags
  PROVE  m[k] \in Items(MmapInsertRange(m, new, in))
<1>0. /\ Len(m) \in Nat /\ DOMAIN m = 1 .. Len(m)
      /\ \A i \in 1 .. Len(m) : m[i] \in Ranges
  BY LenProperties, ElementOfSeq
<1>1. ASSUME NEW h \in 1 .. Len(m), NEW t \in 1 .. Len(m), k < h \/ t < k
      PROVE  m[k] \in Items(Splice(m, h, t, new))
  BY <1>0, <1>1, TrimTypes, SpliceKeeps
<1>2. CASE Container(m, new, in) # {}
  <2> DEFINE i == First(Container(m, new, in))
  <2>1. i \in Container(m, new, in)
    BY <1>0, <1>2, FirstFinal DEF Container
  <2>2. i \in 1 .. Len(m) /\ k # i
    BY <1>0, <2>1 DEF Container, Eligible
  <2>3. MmapInsertRange(m, new, in) = Splice(m, i, i, new)
    BY <1>2 DEF MmapInsertRange
  <2>4. k < i \/ i < k
    BY <1>0, <2>2
  <2> QED
    BY <1>1, <2>2, <2>3, <2>4
<1>3. CASE Container(m, new, in) = {} /\ InsertFits(m, new, in)
  <2> DEFINE comb == Combination(m, new, in)
             h == First(comb)
             t == Final(comb)
  <2>1. comb \in SUBSET (1 .. Len(m)) /\ comb # {} /\ Coherent(m, comb)
    BY <1>0, <1>3 DEF InsertFits, Combination
  <2>2. h \in comb /\ t \in comb
    BY <1>0, <2>1, FirstFinal
  <2>3. k \notin comb
    BY DEF Combination, Eligible
  <2>4. k \notin h .. t
    <3> HIDE DEF comb, h, t
    <3> QED
      BY <2>1, <2>2, <2>3, CoherentDense
  <2>5. k < h \/ t < k
    BY <1>0, <2>1, <2>2, <2>4
  <2>6. MmapInsertRange(m, new, in) = Splice(m, h, t, new)
    BY <1>3 DEF MmapInsertRange
  <2> QED
    BY <1>1, <2>1, <2>2, <2>5, <2>6
<1>4. CASE Container(m, new, in) = {} /\ ~ InsertFits(m, new, in)
  BY <1>0, <1>4 DEF MmapInsertRange, Items
<1> QED
  BY <1>2, <1>3, <1>4

(* A range once reserved keeps its place and its description for good: no  *)
(* later range trims, splits, deletes or redescribes it, alone or as one   *)
(* of several items it would replace ("never allow using reserved memory").*)
THEOREM ReservedNeverGiven == Spec => ReservedKept
<1> DEFINE Kept ==
             \A item \in Items(mappings) :
               "RESERVED" \in item.cell.flags => item \in Items(mappings')
<1>1. ListInv /\ [Next]_vars => Kept
  <2> SUFFICES ASSUME ListInv, [Next]_vars,
                      NEW item \in Items(mappings), "RESERVED" \in item.cell.flags
               PROVE  item \in Items(mappings')
    OBVIOUS
  <2>0. mappings \in Seq(Ranges) /\ Chain(mappings, 0, Last + 1)
    BY DEF ListInv, Partition
  <2>1. PICK k \in 1 .. Len(mappings) : item = mappings[k]
    BY <2>0, LenProperties DEF Items
  <2>2. ASSUME NEW lo \in 0 .. Last, NEW size \in 1 .. Last + 1,
               NEW cell \in Cells, NEW in \in Requests,
               LKApiMmapAdd(lo, size, cell, in)
        PROVE  item \in Items(mappings')
    <3> DEFINE new == MmapRange(lo, lo + (size - 1), cell)
    <3>1. new \in Ranges
      BY MapAssumption DEF Ranges, MmapRange, AllCells
    <3>2. mappings' = MmapInsertRange(mappings, new, in)
      BY <2>2 DEF LKApiMmapAdd
    <3> QED
      BY <2>0, <2>1, <3>1, <3>2, InsertKeeps
  <2>3. CASE AddSystemMemory
    <3> DEFINE new == MmapRange(SystemMemory.lo, SystemMemory.hi, SystemCell)
    <3>1. new \in Ranges
      BY SystemAssumption DEF Ranges, MmapRange, AllCells
    <3>2. mappings' = MmapInsertRange(mappings, new, {"DRAM"})
      BY <2>3 DEF AddSystemMemory
    <3> QED
      BY <2>0, <2>1, <3>1, <3>2, InsertKeeps
  <2>4. CASE UNCHANGED mappings
    BY <2>4
  <2> QED
    BY <2>2, <2>3, <2>4 DEF Next, BuildTable, TableAllocationFails,
                               ArmPlatformBuildMemoryAllocationHobs, vars
<1>2. Spec => [][Kept]_vars
  <2>1. Spec => []ListInv
    BY InitList, NextList, PTL DEF Spec
  <2> QED
    BY <1>1, <2>1, PTL DEF Spec
<1> QED
  BY <1>2 DEF ReservedKept

-----------------------------------------------------------------------------
(* Order of numbers, for terms the arithmetic does not look into.          *)
LEMMA NatOrder ==
  /\ \A x, y, z \in Nat : x <= y /\ y <= z => x <= z
  /\ \A x, y, z \in Nat : x <= y /\ y < z => x < z
  /\ \A x, y, z \in Nat : x < y /\ y <= z => x < z
  /\ \A x, y \in Nat : ~ (x < y) <=> y <= x
  /\ \A x, y, z \in Nat : x \in y .. z <=> y <= x /\ x <= z
  /\ \A x, y \in Nat : x < y => x <= y
  /\ \A x, y \in Nat : x < y \/ x = y \/ y < x
OBVIOUS

(* The list as a function of addresses.                                    *)

(* Where a chain ends is where its last item ends.                         *)
LEMMA ChainEnds ==
  ASSUME NEW m \in Seq(Ranges), NEW b \in Nat, Chain(m, 0, b + 1)
  PROVE  /\ Len(m) \in Nat \ {0} /\ m # <<>> /\ DOMAIN m = 1 .. Len(m)
         /\ \A i \in 1 .. Len(m) : /\ m[i] \in Ranges /\ m[i].lo \in Nat /\ m[i].hi \in Nat
                                   /\ m[i].lo <= m[i].hi
         /\ m[1].lo = 0 /\ m[Len(m)].hi = b
<1>1. m # <<>>
  <2>1. 0 # b + 1
    OBVIOUS
  <2> QED
    BY <2>1 DEF Chain
<1>2. Len(m) \in Nat \ {0} /\ DOMAIN m = 1 .. Len(m)
  BY <1>1, LenProperties, EmptySeq
<1>3. \A i \in 1 .. Len(m) : m[i] \in Ranges /\ m[i].lo \in Nat /\ m[i].hi \in Nat
  BY <1>2, ElementOfSeq, RangeEnds
<1>4. \A i \in 1 .. Len(m) : m[i].lo <= m[i].hi
  BY <1>1 DEF Chain
<1>5. m[1].lo = 0 /\ m[Len(m)].hi + 1 = b + 1
  BY <1>1 DEF Chain
<1>6. m[Len(m)].hi = b
  <2>1. m[Len(m)].hi \in Nat
    BY <1>2, <1>3
  <2> QED
    BY <1>5, <2>1
<1> QED
  BY <1>1, <1>2, <1>3, <1>4, <1>5, <1>6

(* Every address has one item.                                             *)
LEMMA Located ==
  ASSUME NEW m \in Seq(Ranges), NEW b \in Nat, Chain(m, 0, b + 1), NEW a \in 0 .. b
  PROVE  \E i \in 1 .. Len(m) : a \in m[i].lo .. m[i].hi
<1> DEFINE over == {i \in 1 .. Len(m) : a <= m[i].hi}
<1>0. /\ Len(m) \in Nat \ {0} /\ m # <<>>
      /\ \A i \in 1 .. Len(m) : /\ m[i].lo \in Nat /\ m[i].hi \in Nat /\ m[i].lo <= m[i].hi
      /\ m[1].lo = 0 /\ m[Len(m)].hi = b
  BY ChainEnds
<1>1. over \in SUBSET Nat /\ over # {}
  <2>1. Len(m) \in over
    BY <1>0
  <2> QED
    BY <1>0, <2>1
<1>2. PICK i \in over : \A j \in over : i <= j
  BY <1>1, Smallest
<1>3. i \in 1 .. Len(m) /\ a <= m[i].hi
  BY <1>2
<1>4. m[i].lo <= a
  <2>1. CASE i = 1
    BY <1>0, <2>1
  <2>2. CASE i # 1
    <3>1. /\ i - 1 \in 1 .. Len(m) - 1 /\ i - 1 \in 1 .. Len(m) /\ (i - 1) + 1 = i
          /\ i - 1 \notin over
      BY <1>0, <1>2, <1>3, <2>2
    <3>2. m[i].lo = m[i - 1].hi + 1
      BY <1>0, <3>1 DEF Chain
    <3>3. ~ (a <= m[i - 1].hi) /\ m[i - 1].hi \in Nat
      BY <1>0, <3>1
    <3> QED
      BY <3>2, <3>3
  <2> QED
    BY <2>1, <2>2
<1> QED
  BY <1>0, <1>3, <1>4

(* .. and no second one.                                                   *)
LEMMA LocatedOnce ==
  ASSUME NEW m \in Seq(Ranges), NEW b \in Nat, Chain(m, 0, b + 1), NEW a \in Nat,
         NEW i \in 1 .. Len(m), a \in m[i].lo .. m[i].hi,
         NEW j \in 1 .. Len(m), a \in m[j].lo .. m[j].hi
  PROVE  i = j
<1>0. Len(m) \in Nat /\ \A k \in 1 .. Len(m) : m[k].lo \in Nat /\ m[k].hi \in Nat
  BY ChainEnds
<1>1. ASSUME NEW k \in 1 .. Len(m), NEW l \in 1 .. Len(m), k < l,
             a \in m[k].lo .. m[k].hi, a \in m[l].lo .. m[l].hi
      PROVE  FALSE
  <2>1. m[k].hi < m[l].lo
    <3>1. l \in k + 1 .. Len(m)
      BY <1>0, <1>1
    <3> QED
      BY <3>1, ChainSorted
  <2>2. a <= m[k].hi /\ m[l].lo <= a /\ m[k].hi \in Nat /\ m[l].lo \in Nat
    BY <1>0, <1>1
  <2> QED
    BY <2>1, <2>2, NatOrder
<1>2. i \in Nat /\ j \in Nat
  BY <1>0
<1> QED
  BY <1>1, <1>2, NatOrder

(* The cell of an address is that of its item.                             *)
LEMMA CellOf ==
  ASSUME NEW m \in Seq(Ranges), NEW b \in Nat, Chain(m, 0, b + 1), NEW a \in Nat,
         NEW item \in Items(m), a \in item.lo .. item.hi
  PROVE  CellAt(m, a) = item.cell
<1>0. DOMAIN m = 1 .. Len(m)
  BY ChainEnds
<1>1. \A other \in Items(m) : a \in other.lo .. other.hi => other = item
  BY <1>0, LocatedOnce DEF Items
<1> QED
  BY <1>1 DEF CellAt

-----------------------------------------------------------------------------
(* Which insertions fit.                                                   *)

Fits(m, new, in) == Container(m, new, in) # {} \/ InsertFits(m, new, in)

(* If a range fits, every address of it is of a kind that was asked for.   *)
LEMMA FitsUsable ==
  ASSUME NEW m \in Seq(Ranges), NEW b \in Nat, Chain(m, 0, b + 1),
         NEW new \in Ranges, new.lo <= new.hi, NEW in, Fits(m, new, in),
         NEW a \in new.lo .. new.hi
  PROVE  a <= b /\ MM!Usable(CellAt(m, a), in)
<1>0. /\ Len(m) \in Nat \ {0} /\ DOMAIN m = 1 .. Len(m)
      /\ \A i \in 1 .. Len(m) : /\ m[i] \in Ranges /\ m[i].lo \in Nat /\ m[i].hi \in Nat
                                /\ m[i].lo <= m[i].hi
      /\ m[Len(m)].hi = b
  BY ChainEnds
<1>1. new.lo \in Nat /\ new.hi \in Nat /\ a \in Nat /\ new.lo <= a /\ a <= new.hi
  <2>1. new.lo \in Nat /\ new.hi \in Nat
    BY RangeEnds
  <2> QED
    BY <2>1
<1>2. \A i \in 1 .. Len(m) : m[i].hi <= b
  <2> SUFFICES ASSUME NEW i \in 1 .. Len(m)  PROVE m[i].hi <= b
    OBVIOUS
  <2>1. CASE i = Len(m)
    BY <1>0, <2>1
  <2>2. CASE i < Len(m)
    <3>1. Len(m) \in i + 1 .. Len(m)
      BY <1>0, <2>2
    <3>2. m[i].hi < m[Len(m)].lo
      BY <3>1, ChainSorted
    <3>3. Len(m) \in 1 .. Len(m)
      BY <1>0
    <3>4. /\ m[i].hi \in Nat /\ m[Len(m)].lo \in Nat /\ m[Len(m)].hi = b
          /\ m[Len(m)].lo <= m[Len(m)].hi
      BY <1>0, <3>3
    <3> QED
      BY <3>2, <3>4, NatOrder
  <2>3. i = Len(m) \/ i < Len(m)
    <3>1. Len(m) \in Nat
      BY <1>0
    <3> QED
      BY <3>1
  <2> QED
    BY <2>1, <2>2, <2>3
<1>3. \E k \in 1 .. Len(m) : Eligible(m[k], in) /\ a \in m[k].lo .. m[k].hi
  <2>1. CASE Container(m, new, in) # {}
    <3>1. PICK k \in 1 .. Len(m) : Eligible(m[k], in) /\ m[k].lo <= new.lo /\ m[k].hi >= new.hi
      BY <1>0, <2>1 DEF Container, Contains
    <3>2. a \in m[k].lo .. m[k].hi
      <4>1. m[k].lo \in Nat /\ m[k].hi \in Nat /\ new.hi <= m[k].hi
        BY <1>0, <1>1, <3>1
      <4> QED
        BY <1>1, <3>1, <4>1, NatOrder
    <3> QED
      BY <3>1, <3>2
  <2>2. CASE InsertFits(m, new, in)
    <3> DEFINE comb == Combination(m, new, in)
               h == First(comb)
               t == Final(comb)
    <3>1. comb \in SUBSET (1 .. Len(m)) /\ comb # {} /\ Coherent(m, comb)
      BY <1>0, <2>2 DEF InsertFits, Combination
    <3>2. h \in comb /\ t \in comb /\ h \in 1 .. Len(m) /\ t \in 1 .. Len(m)
      BY <1>0, <3>1, FirstFinal
    <3>3. m[h].lo <= new.lo /\ new.hi <= m[t].hi
      BY <2>2 DEF InsertFits
    <3> HIDE DEF comb, h, t
    <3>4. a \in 0 .. b /\ m[h].lo <= a /\ a <= m[t].hi
      <4>1. m[h].lo \in Nat /\ m[t].hi \in Nat /\ m[t].hi <= b /\ 0 <= a /\ 0 \in Nat
        BY <1>0, <1>1, <1>2, <3>2
      <4> QED
        BY <1>1, <3>3, <4>1, NatOrder
    <3>5. PICK k \in 1 .. Len(m) : a \in m[k].lo .. m[k].hi
      BY <3>4, Located
    <3>6. ~ (k < h)
      <4> SUFFICES ASSUME k < h  PROVE FALSE
        OBVIOUS
      <4>1. h \in k + 1 .. Len(m)
        BY <1>0, <3>2
      <4>2. m[k].hi < m[h].lo
        BY <4>1, ChainSorted
      <4>3. m[k].hi \in Nat /\ m[h].lo \in Nat /\ a <= m[k].hi
        BY <1>0, <3>2, <3>5
      <4> QED
        BY <1>1, <3>4, <4>2, <4>3, NatOrder
    <3>7. ~ (t < k)
      <4> SUFFICES ASSUME t < k  PROVE FALSE
        OBVIOUS
      <4>1. k \in t + 1 .. Len(m)
        BY <1>0, <3>2
      <4>2. m[t].hi < m[k].lo
        BY <3>2, <4>1, ChainSorted
      <4>3. m[t].hi \in Nat /\ m[k].lo \in Nat /\ m[k].lo <= a
        BY <1>0, <3>2, <3>5
      <4> QED
        BY <1>1, <3>4, <4>2, <4>3, NatOrder
    <3>8. k \in h .. t
      BY <1>0, <3>2, <3>6, <3>7
    <3>9. k \in comb
      BY <3>1, <3>2, <3>8, CoherentDense
    <3> QED
      BY <3>5, <3>9 DEF comb, Combination
  <2> QED
    BY <2>1, <2>2 DEF Fits
<1>4. PICK k \in 1 .. Len(m) : Eligible(m[k], in) /\ a \in m[k].lo .. m[k].hi
  BY <1>3
<1>5. CellAt(m, a) = m[k].cell
  <2>1. m[k] \in Items(m)
    BY <1>0 DEF Items
  <2> QED
    BY <1>1, <1>4, <2>1, CellOf
<1>6. MM!Usable(CellAt(m, a), in)
  BY <1>4, <1>5 DEF MM!Usable, Eligible
<1> QED
  BY <1>0, <1>1, <1>2, <1>4, <1>6

(* If every address of a range is of a kind that was asked for, it fits:   *)
(* the items it spans are neighbours.                                      *)
LEMMA UsableFits ==
  ASSUME NEW m \in Seq(Ranges), NEW b \in Nat, Chain(m, 0, b + 1),
         NEW new \in Ranges, new.lo <= new.hi, NEW in,
         \A a \in new.lo .. new.hi : a <= b /\ MM!Usable(CellAt(m, a), in)
  PROVE  InsertFits(m, new, in)
<1> DEFINE comb == Combination(m, new, in)
<1>0. /\ Len(m) \in Nat \ {0} /\ DOMAIN m = 1 .. Len(m) /\ m # <<>>
      /\ \A i \in 1 .. Len(m) : /\ m[i] \in Ranges /\ m[i].lo \in Nat /\ m[i].hi \in Nat
                                /\ m[i].lo <= m[i].hi
  BY ChainEnds
<1>1. /\ new.lo \in Nat /\ new.hi \in Nat
      /\ new.lo \in new.lo .. new.hi /\ new.hi \in new.lo .. new.hi
  BY RangeEnds, NatOrder
<1>2. new.lo \in 0 .. b /\ new.hi \in 0 .. b
  BY <1>1
<1>3. PICK i \in 1 .. Len(m) : new.lo \in m[i].lo .. m[i].hi
  BY <1>2, Located
<1>4. PICK j \in 1 .. Len(m) : new.hi \in m[j].lo .. m[j].hi
  BY <1>2, Located
<1>5. /\ m[i].lo <= new.lo /\ new.lo <= m[i].hi /\ m[j].lo <= new.hi /\ new.hi <= m[j].hi
      /\ m[i].lo \in Nat /\ m[i].hi \in Nat /\ m[j].lo \in Nat /\ m[j].hi \in Nat
  BY <1>0, <1>1, <1>3, <1>4, NatOrder
<1>6. \A k, l \in 1 .. Len(m) : k < l => m[k].hi < m[l].lo
  <2> SUFFICES ASSUME NEW k \in 1 .. Len(m), NEW l \in 1 .. Len(m), k < l
               PROVE  m[k].hi < m[l].lo
    OBVIOUS
  <2>1. l \in k + 1 .. Len(m)
    BY <1>0
  <2> QED
    BY <2>1, ChainSorted
<1>7. i <= j
  <2> SUFFICES ASSUME j < i  PROVE FALSE
    BY <1>0
  <2>1. m[j].hi < m[i].lo
    BY <1>6
  <2> QED
    BY <1>1, <1>5, <2>1, NatOrder
<1>8. ASSUME NEW k \in i .. j  PROVE k \in comb
  <2>0. k \in 1 .. Len(m)
    BY <1>0
  <2>1. m[k].lo \in Nat /\ m[k].hi \in Nat /\ m[k].lo <= m[k].hi /\ m[k] \in Items(m)
    BY <1>0, <2>0 DEF Items
  <2>2. m[k].lo <= new.hi
    <3>1. CASE k = j
      BY <1>5, <3>1
    <3>2. CASE k < j
      <4>1. m[k].hi < m[j].lo
        BY <1>6, <2>0, <3>2
      <4> QED
        BY <1>1, <1>5, <2>1, <4>1, NatOrder, SMTT(30)
    <3> QED
      BY <1>0, <3>1, <3>2
  <2>3. new.lo <= m[k].hi
    <3>1. CASE k = i
      BY <1>5, <3>1
    <3>2. CASE i < k
      <4>1. m[i].hi < m[k].lo
        BY <1>6, <2>0, <3>2
      <4> QED
        BY <1>1, <1>5, <2>1, <4>1, NatOrder, SMTT(30)
    <3> QED
      BY <1>0, <3>1, <3>2
  <2>4. PICK x \in Nat : x \in new.lo .. new.hi /\ x \in m[k].lo .. m[k].hi
    <3>1. CASE new.lo <= m[k].lo
      <4>1. m[k].lo \in new.lo .. new.hi /\ m[k].lo \in m[k].lo .. m[k].hi
        BY <1>1, <2>1, <2>2, <3>1, NatOrder
      <4> QED
        BY <2>1, <4>1
    <3>2. CASE m[k].lo < new.lo
      <4>1. new.lo \in m[k].lo .. m[k].hi
        BY <1>1, <2>1, <2>3, <3>2, NatOrder
      <4> QED
        BY <1>1, <4>1
    <3> QED
      BY <1>1, <2>1, <3>1, <3>2, NatOrder
  <2>5. CellAt(m, x) = m[k].cell
    BY <2>1, <2>4, CellOf
  <2>6. Eligible(m[k], in)
    BY <2>4, <2>5 DEF Eligible, MM!Usable
  <2> QED
    BY <1>0, <2>0, <2>2, <2>3, <2>6 DEF Combination, Overlaps
<1>9. ASSUME NEW k \in comb  PROVE k \in i .. j
  <2>1. k \in 1 .. Len(m) /\ m[k].lo <= new.hi /\ new.lo <= m[k].hi
    BY <1>0 DEF Combination, Overlaps
  <2>2. m[k].lo \in Nat /\ m[k].hi \in Nat
    BY <1>0, <2>1
  <2>3. ~ (k < i)
    <3> SUFFICES ASSUME k < i  PROVE FALSE
      OBVIOUS
    <3>1. m[k].hi < m[i].lo
      BY <1>6, <2>1
    <3> QED
      BY <1>1, <1>5, <2>1, <2>2, <3>1, NatOrder, SMTT(30)
  <2>4. ~ (j < k)
    <3> SUFFICES ASSUME j < k  PROVE FALSE
      OBVIOUS
    <3>1. m[j].hi < m[k].lo
      BY <1>6, <2>1
    <3> QED
      BY <1>1, <1>5, <2>1, <2>2, <3>1, NatOrder, SMTT(30)
  <2> QED
    BY <1>0, <2>1, <2>3, <2>4
<1>10. comb = i .. j
  BY <1>8, <1>9
<1> HIDE DEF comb
<1>11. comb \in SUBSET (1 .. Len(m)) /\ comb # {} /\ i \in comb /\ j \in comb
  <2>1. i \in i .. j /\ j \in i .. j /\ \A k \in i .. j : k \in 1 .. Len(m)
    BY <1>0, <1>7
  <2> QED
    BY <1>10, <2>1
<1>12. First(comb) = i /\ Final(comb) = j
  <2>1. /\ First(comb) \in comb /\ First(comb) <= i
        /\ Final(comb) \in comb /\ j <= Final(comb)
    BY <1>0, <1>11, FirstFinal
  <2> QED
    BY <1>0, <1>10, <2>1
<1>13. Coherent(m, comb)
  <2> SUFFICES ASSUME NEW p \in comb, NEW q \in comb, p < q,
                      \A k \in comb : k <= p \/ q <= k
               PROVE  m[q].lo = m[p].hi + 1
    BY DEF Coherent
  <2>1. p \in 1 .. Len(m) - 1 /\ q = p + 1
    <3>1. p \in Nat /\ q \in Nat /\ p + 1 \in comb
      BY <1>0, <1>10, <1>11
    <3> QED
      BY <1>0, <1>11, <3>1
  <2> QED
    BY <1>0, <2>1 DEF Chain
<1> QED
  BY <1>5, <1>11, <1>12, <1>13 DEF InsertFits, comb

(* MmapInsertRange accepts a range exactly when each of its addresses may  *)
(* be given up, wherever the ends of the list's items are.                 *)
THEOREM InsertionExact == Spec => []InsertExact
<1>1. ASSUME ListInv  PROVE InsertExact
  <2> SUFFICES ASSUME NEW lo \in 0 .. Last, NEW hi \in 0 .. Last + 1, NEW in \in Requests, lo <= hi
               PROVE  Fits(mappings, MmapRange(lo, hi, Blank), in)
                        <=> \A a \in lo .. hi : a <= Last /\ MM!Usable(CellAt(mappings, a), in)
    BY DEF InsertExact, Fits
  <2> DEFINE new == MmapRange(lo, hi, Blank)
  <2>1. new \in Ranges /\ new.lo = lo /\ new.hi = hi
    BY MapAssumption DEF Ranges, MmapRange, AllCells
  <2>2. mappings \in Seq(Ranges) /\ Last \in Nat /\ Chain(mappings, 0, Last + 1)
    BY <1>1, MapAssumption DEF ListInv, Partition
  <2> HIDE DEF new
  <2>3. Fits(mappings, new, in) =>
          \A a \in lo .. hi : a <= Last /\ MM!Usable(CellAt(mappings, a), in)
    BY <2>1, <2>2, FitsUsable
  <2>4. (\A a \in lo .. hi : a <= Last /\ MM!Usable(CellAt(mappings, a), in)) =>
          Fits(mappings, new, in)
    BY <2>1, <2>2, UsableFits DEF Fits
  <2> QED
    BY <2>3, <2>4 DEF new
<1>2. Spec => []ListInv
  BY InitList, NextList, PTL DEF Spec
<1> QED
  BY <1>1, <1>2, PTL

-----------------------------------------------------------------------------
(* What an insertion does to the addresses.                                *)

(* The items a splice adds are in the list.                                *)
LEMMA SpliceAdds ==
  ASSUME NEW m \in Seq(Ranges), NEW new \in Ranges,
         NEW h \in 1 .. Len(m), NEW t \in 1 .. Len(m)
  PROVE  Items(Before(m[h], new)) \cup {new} \cup Items(After(m[t], new))
           \subseteq Items(Splice(m, h, t, new))
<1> DEFINE p == SubSeq(m, 1, h - 1)
           q == SubSeq(m, t + 1, Len(m))
           l == Before(m[h], new)
           r == After(m[t], new)
           s1 == p \o l
           s2 == s1 \o <<new>>
           s3 == s2 \o r
<1>0. Len(m) \in Nat /\ \A i \in 1 .. Len(m) : m[i] \in Ranges
  BY LenProperties, ElementOfSeq
<1>1. p \in Seq(Ranges) /\ q \in Seq(Ranges)
  BY <1>0, SubSeqProperties
<1>2. <<new>> \in Seq(Ranges) /\ new \in Items(<<new>>)
  <2>1. 1 \in DOMAIN <<new>> /\ <<new>>[1] = new
    OBVIOUS
  <2> QED
    BY <2>1 DEF Items
<1>3. l \in Seq(Ranges) /\ r \in Seq(Ranges)
  BY <1>0, TrimTypes
<1>9. Splice(m, h, t, new) = s3 \o q
  BY DEF Splice
<1> HIDE DEF p, q, l, r
<1>4. s1 \in Seq(Ranges) /\ Items(l) \subseteq Items(s1)
  BY <1>1, <1>3, ConcatProperties, JoinItems
<1> HIDE DEF s1
<1>5. s2 \in Seq(Ranges) /\ Items(s1) \cup Items(<<new>>) \subseteq Items(s2)
  BY <1>2, <1>4, ConcatProperties, JoinItems
<1> HIDE DEF s2
<1>6. s3 \in Seq(Ranges) /\ Items(s2) \cup Items(r) \subseteq Items(s3)
  BY <1>3, <1>5, ConcatProperties, JoinItems
<1> HIDE DEF s3
<1>7. Items(s3) \subseteq Items(s3 \o q)
  BY <1>1, <1>6, JoinItems
<1> QED
  BY <1>2, <1>4, <1>5, <1>6, <1>7, <1>9 DEF l, r

(* The new range begins in the h-th item and ends in the t-th.             *)
SpansAt(m, h, t, new) ==
  /\ FitsAt(m, h, t, new)
  /\ new.lo <= m[h].hi /\ m[t].lo <= new.hi

(* A splice redescribes the addresses of the new range and no others: what *)
(* is trimmed keeps its description.                                       *)
LEMMA SpliceOverlays ==
  ASSUME NEW m \in Seq(Ranges), NEW b \in Nat, Chain(m, 0, b + 1),
         NEW new \in Ranges, new.lo <= new.hi,
         NEW h, NEW t, SpansAt(m, h, t, new), NEW a \in 0 .. b
  PROVE  CellAt(Splice(m, h, t, new), a)
           = IF a \in new.lo .. new.hi THEN new.cell ELSE CellAt(m, a)
<1> DEFINE s == Splice(m, h, t, new)
<1>0. /\ Len(m) \in Nat \ {0} /\ DOMAIN m = 1 .. Len(m)
      /\ \A i \in 1 .. Len(m) : /\ m[i] \in Ranges /\ m[i].lo \in Nat /\ m[i].hi \in Nat
                                /\ m[i].lo <= m[i].hi
  BY ChainEnds
<1>1. h \in 1 .. Len(m) /\ t \in 1 .. Len(m) /\ FitsAt(m, h, t, new)
  BY <1>0 DEF SpansAt, FitsAt
<1>2. /\ m[h].lo \in Nat /\ m[h].hi \in Nat /\ m[t].lo \in Nat /\ m[t].hi \in Nat
      /\ m[h].lo <= new.lo /\ new.lo <= m[h].hi /\ m[t].lo <= new.hi /\ new.hi <= m[t].hi
      /\ m[h] \in Ranges /\ m[t] \in Ranges
  BY <1>0, <1>1 DEF SpansAt, FitsAt
<1>3. new.lo \in Nat /\ new.hi \in Nat /\ a \in Nat
  BY RangeEnds
<1>4. s \in Seq(Ranges) /\ Chain(s, 0, b + 1)
  BY <1>1, SpliceChain
<1>5. Items(Before(m[h], new)) \cup {new} \cup Items(After(m[t], new)) \subseteq Items(s)
  BY <1>1, SpliceAdds
<1>6. \A k \in 1 .. Len(m) : k < h \/ t < k => m[k] \in Items(s)
  BY <1>1, <1>2, TrimTypes, SpliceKeeps
<1>7. \A k, l \in 1 .. Len(m) : k < l => m[k].hi < m[l].lo
  <2> SUFFICES ASSUME NEW k \in 1 .. Len(m), NEW l \in 1 .. Len(m), k < l
               PROVE  m[k].hi < m[l].lo
    OBVIOUS
  <2>1. l \in k + 1 .. Len(m)
    BY <1>0
  <2> QED
    BY <2>1, ChainSorted
<1> HIDE DEF s
<1>8. CASE a \in new.lo .. new.hi
  BY <1>3, <1>4, <1>5, <1>8, CellOf DEF s
<1>9. PICK k \in 1 .. Len(m) : a \in m[k].lo .. m[k].hi
  BY Located
<1>10. CellAt(m, a) = m[k].cell
  <2>1. m[k] \in Items(m)
    BY <1>0 DEF Items
  <2> QED
    BY <1>3, <1>9, <2>1, CellOf
<1>11. m[k].lo \in Nat /\ m[k].hi \in Nat /\ m[k].lo <= a /\ a <= m[k].hi
  BY <1>0, <1>3, <1>9, NatOrder
<1>12. ASSUME a \notin new.lo .. new.hi, NEW item \in Items(s), a \in item.lo .. item.hi,
              item.cell = m[k].cell
       PROVE  CellAt(s, a) = CellAt(m, a)
  BY <1>3, <1>4, <1>10, <1>12, CellOf
<1>13. CASE a < new.lo
  <2>0. a \notin new.lo .. new.hi
    BY <1>3, <1>13, NatOrder
  <2>1. CASE k < h
    BY <1>6, <1>9, <1>12, <2>0, <2>1 DEF s
  <2>2. CASE k = h
    <3> DEFINE x == m[h]
               item == MmapRange(x.lo, new.lo - 1, x.cell)
    <3>1. x.lo <= a /\ x.lo \in Nat /\ x.lo < new.lo
      BY <1>2, <1>3, <1>11, <1>13, <2>2, NatOrder
    <3>2. item.lo = x.lo /\ item.hi = new.lo - 1 /\ item.cell = m[k].cell
      BY <2>2 DEF MmapRange
    <3>3. Before(m[h], new) = <<item>>
      BY <3>1 DEF Before
    <3> HIDE DEF item
    <3>4. item \in Items(s)
      <4>1. 1 \in DOMAIN <<item>> /\ <<item>>[1] = item
        OBVIOUS
      <4> QED
        BY <1>5, <3>3, <4>1 DEF Items
    <3>5. a \in item.lo .. item.hi
      <4> HIDE DEF x
      <4> QED
        BY <1>3, <1>13, <3>1, <3>2
    <3> QED
      BY <1>12, <2>0, <3>2, <3>4, <3>5 DEF s
  <2>3. CASE h < k
    <3>1. m[h].hi < m[k].lo
      BY <1>1, <1>7, <2>3
    <3> QED
      BY <1>2, <1>3, <1>11, <1>13, <3>1, NatOrder, SMTT(30)
  <2> QED
    BY <1>0, <1>1, <2>1, <2>2, <2>3
<1>14. CASE new.hi < a
  <2>0. a \notin new.lo .. new.hi
    BY <1>3, <1>14, NatOrder
  <2>1. CASE t < k
    BY <1>6, <1>9, <1>12, <2>0, <2>1 DEF s
  <2>2. CASE k = t
    <3> DEFINE x == m[t]
               item == MmapRange(new.hi + 1, x.hi, x.cell)
    <3>1. a <= x.hi /\ x.hi \in Nat /\ new.hi < x.hi
      BY <1>2, <1>3, <1>11, <1>14, <2>2, NatOrder
    <3>2. item.lo = new.hi + 1 /\ item.hi = x.hi /\ item.cell = m[k].cell
      BY <2>2 DEF MmapRange
    <3>3. After(m[t], new) = <<item>>
      BY <3>1 DEF After
    <3> HIDE DEF item
    <3>4. item \in Items(s)
      <4>1. 1 \in DOMAIN <<item>> /\ <<item>>[1] = item
        OBVIOUS
      <4> QED
        BY <1>5, <3>3, <4>1 DEF Items
    <3>5. a \in item.lo .. item.hi
      <4> HIDE DEF x
      <4> QED
        BY <1>3, <1>14, <3>1, <3>2
    <3> QED
      BY <1>12, <2>0, <3>2, <3>4, <3>5 DEF s
  <2>3. CASE k < t
    <3>1. m[k].hi < m[t].lo
      BY <1>1, <1>7, <2>3
    <3> QED
      BY <1>2, <1>3, <1>11, <1>14, <3>1, NatOrder, SMTT(30)
  <2> QED
    BY <1>0, <1>1, <2>1, <2>2, <2>3
<1> QED
  BY <1>3, <1>8, <1>13, <1>14, NatOrder

(* An insertion lays the new range over the addresses, or changes nothing. *)
LEMMA InsertOverlays ==
  ASSUME NEW m \in Seq(Ranges), NEW b \in Nat, Chain(m, 0, b + 1),
         NEW new \in Ranges, new.lo <= new.hi, NEW in
  PROVE  IF Fits(m, new, in)
         THEN \A a \in 0 .. b :
                CellAt(MmapInsertRange(m, new, in), a)
                  = IF a \in new.lo .. new.hi THEN new.cell ELSE CellAt(m, a)
         ELSE MmapInsertRange(m, new, in) = m
<1>0. /\ Len(m) \in Nat /\ DOMAIN m = 1 .. Len(m)
      /\ \A i \in 1 .. Len(m) : m[i].lo \in Nat /\ m[i].hi \in Nat
      /\ new.lo \in Nat /\ new.hi \in Nat
  BY ChainEnds, RangeEnds
<1>1. CASE Container(m, new, in) # {}
  <2> DEFINE i == First(Container(m, new, in))
  <2>1. i \in Container(m, new, in)
    BY <1>0, <1>1, FirstFinal DEF Container
  <2>2. i \in 1 .. Len(m) /\ m[i].lo <= new.lo /\ new.hi <= m[i].hi
    BY <1>0, <2>1 DEF Container, Contains
  <2>3. FitsAt(m, i, i, new)
    BY <1>0, <2>2 DEF FitsAt
  <2>4. new.lo <= m[i].hi /\ m[i].lo <= new.hi
    <3> HIDE DEF i
    <3>1. m[i].lo \in Nat /\ m[i].hi \in Nat
      BY <1>0, <2>2
    <3> QED
      BY <1>0, <2>2, <3>1, NatOrder
  <2>5. SpansAt(m, i, i, new)
    BY <2>3, <2>4 DEF SpansAt
  <2>6. MmapInsertRange(m, new, in) = Splice(m, i, i, new)
    BY <1>1 DEF MmapInsertRange
  <2> QED
    BY <1>1, <2>5, <2>6, SpliceOverlays DEF Fits
<1>2. CASE Container(m, new, in) = {} /\ InsertFits(m, new, in)
  <2> DEFINE comb == Combination(m, new, in)
             h == First(comb)
             t == Final(comb)
  <2>1. comb \in SUBSET (1 .. Len(m)) /\ comb # {}
    BY <1>0, <1>2 DEF InsertFits, Combination
  <2>2. h \in comb /\ t \in comb /\ h <= t
    BY <1>0, <2>1, FirstFinal
  <2>3. FitsAt(m, h, t, new)
    BY <1>0, <1>2, <2>1, <2>2 DEF FitsAt, InsertFits
  <2>4. \A k \in comb : new.lo <= m[k].hi /\ m[k].lo <= new.hi
    BY DEF Combination, Overlaps
  <2>5. SpansAt(m, h, t, new)
    BY <2>2, <2>3, <2>4 DEF SpansAt
  <2>6. MmapInsertRange(m, new, in) = Splice(m, h, t, new)
    BY <1>2 DEF MmapInsertRange
  <2> QED
    BY <1>2, <2>5, <2>6, SpliceOverlays DEF Fits
<1>3. CASE Container(m, new, in) = {} /\ ~ InsertFits(m, new, in)
  BY <1>3 DEF Fits, MmapInsertRange
<1> QED
  BY <1>1, <1>2, <1>3

(* What MmapRanges says of each address.                                   *)
CellMap == [a \in 0 .. Last |-> CellAt(mappings, a)]

(* One call of MmapInsertRange is one step of MemoryMap, or none.          *)
LEMMA InsertStep ==
  ASSUME ListInv, NEW new \in Ranges, new.lo <= new.hi,
         new.cell \in Cells \cup {SystemCell},
         NEW in \in SUBSET {"UNUSED", "DRAM"},
         mappings' = MmapInsertRange(mappings, new, in)
  PROVE  MM!Next \/ UNCHANGED CellMap
<1>0. mappings \in Seq(Ranges) /\ Last \in Nat /\ Chain(mappings, 0, Last + 1)
  BY MapAssumption DEF ListInv, Partition
<1>1. CASE Fits(mappings, new, in)
  <2>1. \A a \in new.lo .. new.hi : a <= Last /\ MM!Usable(CellAt(mappings, a), in)
    BY <1>0, <1>1, FitsUsable
  <2>2. \A a \in 0 .. Last :
          CellAt(mappings', a) = IF a \in new.lo .. new.hi THEN new.cell ELSE CellAt(mappings, a)
    BY <1>0, <1>1, InsertOverlays
  <2>3. new.lo \in Nat /\ new.hi \in Nat
    BY RangeEnds
  <2> DEFINE lo == new.lo
             hi == new.hi
  <2>4. lo .. hi \subseteq 0 .. Last /\ lo \in 0 .. Last /\ hi \in 0 .. Last
    <3> HIDE DEF lo, hi
    <3>1. lo \in Nat /\ hi \in Nat /\ lo <= hi /\ \A a \in lo .. hi : a <= Last
      BY <2>1, <2>3 DEF lo, hi
    <3> QED
      BY <3>1
  <2>5. \A a \in lo .. hi : MM!Usable(CellMap[a], in)
    BY <2>1, <2>4 DEF CellMap
  <2>6. CellMap' = [a \in 0 .. Last |-> IF a \in lo .. hi THEN new.cell ELSE CellMap[a]]
    BY <2>2 DEF CellMap
  <2>7. MM!Insert(lo, hi, new.cell, in)
    BY <2>4, <2>5, <2>6 DEF MM!Insert, MM!Overlay, MM!Addr, CellMap
  <2> QED
    BY <2>4, <2>7 DEF MM!Next, MM!Addr
<1>2. CASE ~ Fits(mappings, new, in)
  <2>1. mappings' = mappings
    BY <1>0, <1>2, InsertOverlays
  <2> QED
    BY <2>1 DEF CellMap
<1> QED
  BY <1>1, <1>2

(* The list of ranges implements the address-by-address memory map:        *)
(* MmapInsertRange, with its splits, trims and merges, overlays the whole  *)
(* new range or leaves every address as it was.                            *)
THEOREM ImplementsMemoryMap == Spec => Overlays
<1>1. Init => MM!Init
  <2> SUFFICES ASSUME Init  PROVE MM!Init
    OBVIOUS
  <2> DEFINE r == MmapRange(0, Last, Blank)
  <2>1. r.lo = 0 /\ r.hi = Last /\ r.cell = Blank
    BY DEF MmapRange
  <2>2. mappings = <<r>>
    BY DEF Init
  <2>3. mappings \in Seq(Ranges) /\ Last \in Nat /\ Chain(mappings, 0, Last + 1)
    BY InitList, MapAssumption DEF ListInv, Partition
  <2> HIDE DEF r
  <2>4. r \in Items(mappings)
    <3>1. 1 \in DOMAIN <<r>> /\ <<r>>[1] = r
      OBVIOUS
    <3> QED
      BY <2>2, <3>1 DEF Items
  <2>5. \A a \in 0 .. Last : CellAt(mappings, a) = Blank
    BY <2>1, <2>3, <2>4, CellOf
  <2> QED
    BY <2>5 DEF MM!Init, MM!Addr
<1>2. ListInv /\ [Next]_vars => [MM!Next]_CellMap
  <2> SUFFICES ASSUME ListInv, [Next]_vars  PROVE MM!Next \/ UNCHANGED CellMap
    OBVIOUS
  <2>1. ASSUME NEW lo \in 0 .. Last, NEW size \in 1 .. Last + 1,
               NEW cell \in Cells, NEW in \in Requests,
               LKApiMmapAdd(lo, size, cell, in)
        PROVE  MM!Next \/ UNCHANGED CellMap
    <3> DEFINE new == MmapRange(lo, lo + (size - 1), cell)
    <3>1. new \in Ranges /\ new.lo <= new.hi /\ new.cell \in Cells \cup {SystemCell}
      BY MapAssumption DEF Ranges, MmapRange, AllCells
    <3>2. in \in SUBSET {"UNUSED", "DRAM"}
      BY MapAssumption
    <3>3. mappings' = MmapInsertRange(mappings, new, in)
      BY <2>1 DEF LKApiMmapAdd
    <3> QED
      BY <3>1, <3>2, <3>3, InsertStep
  <2>2. CASE AddSystemMemory
    <3> DEFINE new == MmapRange(SystemMemory.lo, SystemMemory.hi, SystemCell)
    <3>1. new \in Ranges /\ new.lo <= new.hi /\ new.cell \in Cells \cup {SystemCell}
      BY SystemAssumption DEF Ranges, MmapRange, AllCells
    <3>2. mappings' = MmapInsertRange(mappings, new, {"DRAM"})
      BY <2>2 DEF AddSystemMemory
    <3> QED
      BY <3>1, <3>2, InsertStep
  <2>3. CASE UNCHANGED mappings
    BY <2>3 DEF CellMap
  <2> QED
    BY <2>1, <2>2, <2>3 DEF Next, BuildTable, TableAllocationFails,
                               ArmPlatformBuildMemoryAllocationHobs, vars
<1>3. Spec => []ListInv
  BY InitList, NextList, PTL DEF Spec
<1>4. Spec => MM!Spec
  BY <1>1, <1>2, <1>3, PTL DEF Spec, MM!Spec, CellMap
<1> QED
  BY <1>4 DEF Overlays

-----------------------------------------------------------------------------
(* The phases.                                                             *)

(* What exists in which phase.                                             *)
PhaseInv ==
  /\ adds \in 0 .. MaxAdds
  /\ phase \in {"collect", "table", "hobs", "done", "failed", "untabled"}
  /\ phase \notin {"hobs", "done"} => table = <<>> /\ resource = {}
  /\ phase \notin {"done", "untabled"} => allocated = {}

(* The MMU table and the DRAM HOBs are built after the last insertion, the *)
(* allocation HOBs after them, and everything has its type.                *)
THEOREM TypeCorrect == Spec => []TypeOK
<1>1. Init => PhaseInv
  BY MapAssumption DEF Init, PhaseInv
<1>2. PhaseInv /\ [Next]_vars => PhaseInv'
  <2> SUFFICES ASSUME PhaseInv, [Next]_vars  PROVE PhaseInv'
    OBVIOUS
  <2>1. ASSUME NEW lo \in 0 .. Last, NEW size \in 1 .. Last + 1,
               NEW cell \in Cells, NEW in \in Requests,
               LKApiMmapAdd(lo, size, cell, in)
        PROVE  PhaseInv'
    BY <2>1, MapAssumption DEF PhaseInv, LKApiMmapAdd
  <2>2. CASE AddSystemMemory
    BY <2>2 DEF PhaseInv, AddSystemMemory
  <2>3. CASE BuildTable
    BY <2>3 DEF PhaseInv, BuildTable
  <2>4. CASE TableAllocationFails
    BY <2>4 DEF PhaseInv, TableAllocationFails
  <2>5. CASE ArmPlatformBuildMemoryAllocationHobs
    BY <2>5 DEF PhaseInv, ArmPlatformBuildMemoryAllocationHobs
  <2>6. CASE UNCHANGED vars
    BY <2>6 DEF PhaseInv, vars
  <2> QED
    BY <2>1, <2>2, <2>3, <2>4, <2>5, <2>6 DEF Next
<1>3. ListInv /\ PhaseInv => TypeOK
  BY DEF ListInv, PhaseInv, TypeOK
<1> QED
  BY <1>1, <1>2, <1>3, InitList, NextList, PTL DEF Spec

-----------------------------------------------------------------------------
(* The MMU table and the HOBs.                                             *)

(* Index numbers the items that are mapped from 1 without a gap, in the    *)
(* order of the list.                                                      *)
LEMMA IndexCounts ==
  ASSUME mappings \in Seq(Ranges)
  PROVE  /\ Cardinality(MappedItems) \in Nat
         /\ \A i \in MappedItems : Index(i) \in 1 .. Cardinality(MappedItems)
         /\ \A i, j \in MappedItems : i < j => Index(i) < Index(j)
         /\ \A n \in 1 .. Cardinality(MappedItems) : \E i \in MappedItems : Index(i) = n
<1> DEFINE L == Len(mappings)
           I == MappedItems
           upto(i) == {k \in I : k <= i}
<1>0. L \in Nat /\ DOMAIN mappings = 1 .. L
  BY LenProperties
<1>1. I \in SUBSET (1 .. L) /\ \A k \in I : k \in Nat /\ 0 < k /\ k <= L
  BY <1>0 DEF MappedItems
<1>2. IsFiniteSet(I) /\ Cardinality(I) \in Nat
  <2>1. 1 \in Int /\ L \in Int
    BY <1>0
  <2>2. IsFiniteSet(1 .. L)
    BY <2>1, FS_Interval
  <2>3. IsFiniteSet(I)
    BY <1>1, <2>2, FS_Subset
  <2> QED
    BY <2>3, FS_CardinalityType
<1>3. \A i : upto(i) \in SUBSET I /\ Index(i) = Cardinality(upto(i))
  BY DEF Index
<1> HIDE DEF L, I, upto
<1>4. \A i : /\ IsFiniteSet(upto(i)) /\ Index(i) \in Nat
             /\ Index(i) <= Cardinality(I)
  BY <1>2, <1>3, FS_Subset, FS_CardinalityType
<1>5. ASSUME NEW i \in I
      PROVE  Index(i) \in 1 .. Cardinality(I)
  <2>1. i \in upto(i)
    BY <1>1, <1>0 DEF upto, I
  <2>2. Cardinality(upto(i)) # 0
    BY <1>4, <2>1, FS_EmptySet
  <2> QED
    BY <1>2, <1>3, <1>4, <2>2
<1>6. ASSUME NEW i \in I, NEW j \in I, i < j
      PROVE  Index(i) < Index(j)
  <2>0. i \in Nat /\ j \in Nat
    BY <1>0, <1>1
  <2>1. \A k \in I : k <= i => k <= j
    BY <1>1, <1>6, <2>0
  <2>2. j <= j /\ ~ (j <= i)
    BY <1>6, <2>0
  <2>3. upto(i) \in SUBSET upto(j) /\ j \in upto(j) /\ j \notin upto(i)
    BY <2>1, <2>2 DEF upto
  <2>4. Cardinality(upto(i)) <= Cardinality(upto(j)) /\ Cardinality(upto(i)) # Cardinality(upto(j))
    BY <1>4, <2>3, FS_Subset
  <2> QED
    BY <1>3, <1>4, <2>4
<1>7. ASSUME NEW n \in 1 .. Cardinality(I)
      PROVE  \E i \in I : Index(i) = n
  <2> DEFINE reached == {i \in 0 .. L : n <= Index(i)}
  <2>1. reached \in SUBSET Nat /\ L \in reached
    <3>1. upto(L) = I
      BY <1>1 DEF upto
    <3>2. n <= Index(L)
      BY <1>2, <1>3, <3>1
    <3> QED
      BY <1>0, <3>2
  <2>2. PICK i \in reached : \A j \in reached : i <= j
    BY <2>1, Smallest
  <2>3. i \in 0 .. L /\ n <= Index(i)
    BY <2>2
  <2>4. i # 0
    <3> SUFFICES ASSUME i = 0  PROVE FALSE
      OBVIOUS
    <3>0. \A k \in I : ~ (k <= 0)
      BY <1>1
    <3>1. upto(0) = {}
      BY <3>0 DEF upto
    <3>2. Index(0) = 0
      BY <1>3, <3>1, FS_EmptySet
    <3> QED
      BY <1>2, <2>3, <3>2
  <2>5. i - 1 \in 0 .. L /\ i - 1 \notin reached /\ i \in Nat
    BY <1>0, <2>2, <2>3, <2>4
  <2>6. Index(i - 1) < n
    BY <1>2, <1>4, <2>5
  <2>7. CASE i \in I
    <3>0. (\A k \in I : k <= i <=> k <= i - 1 \/ k = i) /\ ~ (i <= i - 1)
      BY <1>1, <2>5
    <3>1. upto(i) = upto(i - 1) \cup {i} /\ i \notin upto(i - 1)
      BY <2>7, <3>0 DEF upto
    <3>2. Cardinality(upto(i)) = Cardinality(upto(i - 1)) + 1
      BY <1>4, <3>1, FS_AddElement
    <3>3. Index(i) = n
      BY <1>2, <1>3, <1>4, <2>3, <2>6, <3>2
    <3> QED
      BY <2>7, <3>3
  <2>8. CASE i \notin I
    <3>0. \A k \in I : k <= i <=> k <= i - 1
      BY <1>1, <2>5, <2>8
    <3>1. upto(i) = upto(i - 1)
      BY <3>0 DEF upto
    <3>2. Index(i) = Index(i - 1)
      BY <1>3, <3>1
    <3> QED
      BY <1>2, <1>4, <2>3, <2>6, <3>2
  <2> QED
    BY <2>7, <2>8
<1> QED
  BY <1>2, <1>5, <1>6, <1>7 DEF I

(* What BuildTable builds is there, and nothing else, once it is over.     *)
BuiltInv ==
  /\ phase \in {"hobs", "done"} => table = MmuTable /\ resource = {Hob(r) : r \in Flagged("DRAM")}
  /\ phase \notin {"hobs", "done"} => resource = {}
  /\ phase # "untabled" => allocated \subseteq resource

(* BuildTable sees the list that is final.                                 *)
LEMMA BuiltAlways == Spec => []BuiltInv
<1>1. Init => BuiltInv
  BY DEF Init, BuiltInv
<1>2. BuiltInv /\ [Next]_vars => BuiltInv'
  <2> SUFFICES ASSUME BuiltInv, [Next]_vars  PROVE BuiltInv'
    OBVIOUS
  <2>1. ASSUME UNCHANGED mappings
        PROVE  MmuTable' = MmuTable /\ \A flag : Flagged(flag)' = Flagged(flag)
    BY <2>1 DEF MmuTable, MappedItems, Index, Flagged
  <2>2. ASSUME NEW lo \in 0 .. Last, NEW size \in 1 .. Last + 1,
               NEW cell \in Cells, NEW in \in Requests,
               LKApiMmapAdd(lo, size, cell, in)
        PROVE  BuiltInv'
    BY <2>2 DEF BuiltInv, LKApiMmapAdd
  <2>3. CASE AddSystemMemory
    BY <2>3 DEF BuiltInv, AddSystemMemory
  <2>4. CASE BuildTable
    <3>1. /\ UNCHANGED <<mappings, allocated>> /\ phase = "table" /\ phase' = "hobs"
          /\ table' = MmuTable /\ resource' = {Hob(r) : r \in Flagged("DRAM")}
      BY <2>4 DEF BuildTable
    <3>2. allocated = {}
      BY <3>1 DEF BuiltInv
    <3>3. MmuTable' = MmuTable /\ Flagged("DRAM")' = Flagged("DRAM")
      BY <2>1, <3>1
    <3> QED
      BY <3>1, <3>2, <3>3 DEF BuiltInv
  <2>5. CASE TableAllocationFails
    BY <2>5 DEF BuiltInv, TableAllocationFails
  <2>6. CASE ArmPlatformBuildMemoryAllocationHobs
    <3>1. /\ UNCHANGED <<mappings, table, resource>>
          /\ allocated' = {Hob(r) : r \in Flagged("DRAM") \cap Flagged("RESERVED")}
      BY <2>6 DEF ArmPlatformBuildMemoryAllocationHobs
    <3>2. MmuTable' = MmuTable /\ Flagged("DRAM")' = Flagged("DRAM")
      BY <2>1, <3>1
    <3>3. CASE phase = "hobs"
      <4>1. phase' = "done"
        BY <2>6, <3>3 DEF ArmPlatformBuildMemoryAllocationHobs
      <4>2. table = MmuTable /\ resource = {Hob(r) : r \in Flagged("DRAM")}
        BY <3>3 DEF BuiltInv
      <4>3. allocated' \subseteq resource
        BY <3>1, <4>2
      <4> QED
        BY <3>1, <3>2, <4>1, <4>2, <4>3 DEF BuiltInv
    <3>4. CASE phase # "hobs"
      <4>1. phase = "failed" /\ phase' = "untabled"
        BY <2>6, <3>4 DEF ArmPlatformBuildMemoryAllocationHobs
      <4>2. resource = {}
        BY <4>1 DEF BuiltInv
      <4> QED
        BY <3>1, <4>1, <4>2 DEF BuiltInv
    <3> QED
      BY <3>3, <3>4
  <2>7. CASE UNCHANGED vars
    <3>1. MmuTable' = MmuTable /\ Flagged("DRAM")' = Flagged("DRAM")
      BY <2>1, <2>7 DEF vars
    <3> QED
      BY <2>7, <3>1 DEF BuiltInv, vars
  <2> QED
    BY <2>2, <2>3, <2>4, <2>5, <2>6, <2>7 DEF Next
<1> QED
  BY <1>1, <1>2, PTL DEF Spec

(* What the list says of itself, item by item.                             *)
LEMMA ListFacts ==
  ASSUME ListInv
  PROVE  /\ Last \in Nat /\ mappings \in Seq(Ranges) /\ Chain(mappings, 0, Last + 1)
         /\ Len(mappings) \in Nat /\ DOMAIN mappings = 1 .. Len(mappings)
         /\ \A i \in 1 .. Len(mappings) :
              /\ mappings[i].lo \in Nat /\ mappings[i].hi \in Nat
              /\ mappings[i].lo <= mappings[i].hi
         /\ \A i, j \in 1 .. Len(mappings) : i < j => mappings[i].hi < mappings[j].lo
<1>1. Last \in Nat /\ mappings \in Seq(Ranges) /\ Chain(mappings, 0, Last + 1)
  BY MapAssumption DEF ListInv, Partition
<1>2. /\ Len(mappings) \in Nat /\ DOMAIN mappings = 1 .. Len(mappings)
      /\ \A i \in 1 .. Len(mappings) :
           /\ mappings[i].lo \in Nat /\ mappings[i].hi \in Nat
           /\ mappings[i].lo <= mappings[i].hi
  BY <1>1, ChainEnds
<1>3. ASSUME NEW i \in 1 .. Len(mappings), NEW j \in 1 .. Len(mappings), i < j
      PROVE  mappings[i].hi < mappings[j].lo
  <2>1. j \in i + 1 .. Len(mappings)
    BY <1>2, <1>3
  <2> QED
    BY <1>1, <2>1, ChainSorted
<1> QED
  BY <1>1, <1>2, <1>3

(* An entry or a HOB of a range covers the addresses of the range.         *)
LEMMA Covers ==
  ASSUME NEW item, item.lo \in Nat, item.hi \in Nat, item.lo <= item.hi
  PROVE  /\ Hob(item).base = item.lo /\ Hob(item).base + Hob(item).length = item.hi + 1
         /\ Hob(item).base + Hob(item).length - 1 = item.hi
         /\ Entry(item).base = item.lo /\ Entry(item).length # 0
         /\ Entry(item).base + Entry(item).length - 1 = item.hi
         /\ Entry(item).attr = item.cell.attr
<1>1. \A x, y \in Nat : x <= y => /\ x + ((y - x) + 1) = y + 1
                                  /\ x + ((y - x) + 1) - 1 = y
                                  /\ (y - x) + 1 # 0
  OBVIOUS
<1> QED
  BY <1>1 DEF Hob, Entry

(* The HOBs for DXE agree: no memory is reported twice, not even with the  *)
(* system memory's own HOB, and only reported memory is allocated, unless  *)
(* none was reported for want of a table                                   *)
(* (ArmPlatformGetVirtualMemoryMap, ArmPlatformBuildMemoryAllocationHobs). *)
THEOREM HobsAgree == Spec => []HobsSound
<1>1. ASSUME ListInv, BuiltInv  PROVE HobsSound
  <2>0. /\ Len(mappings) \in Nat /\ DOMAIN mappings = 1 .. Len(mappings)
        /\ \A i \in 1 .. Len(mappings) :
             /\ mappings[i].lo \in Nat /\ mappings[i].hi \in Nat
             /\ mappings[i].lo <= mappings[i].hi
        /\ \A i, j \in 1 .. Len(mappings) : i < j => mappings[i].hi < mappings[j].lo
    BY <1>1, ListFacts
  <2>1. \A p \in resource : \E i \in 1 .. Len(mappings) :
          p = Hob(mappings[i]) /\ "DRAM" \in mappings[i].cell.flags
    <3>1. \A p \in resource : \E r \in Flagged("DRAM") : p = Hob(r)
      BY <1>1 DEF BuiltInv
    <3> QED
      BY <2>0, <3>1 DEF Flagged, Items
  <2>2. ASSUME NEW p \in resource, NEW q \in resource, p # q
        PROVE  Disjoint(p, q)
    <3>1. PICK i \in 1 .. Len(mappings) : p = Hob(mappings[i])
      BY <2>1
    <3>2. PICK j \in 1 .. Len(mappings) : q = Hob(mappings[j])
      BY <2>1
    <3> DEFINE x == mappings[i]
               y == mappings[j]
    <3>3. /\ x.lo \in Nat /\ x.hi \in Nat /\ y.lo \in Nat /\ y.hi \in Nat
          /\ p.base = x.lo /\ p.base + p.length = x.hi + 1
          /\ q.base = y.lo /\ q.base + q.length = y.hi + 1
      BY <2>0, <3>1, <3>2, Covers
    <3>4. x.hi < y.lo \/ y.hi < x.lo
      <4>1. i < j \/ j < i
        BY <2>0, <2>2, <3>1, <3>2
      <4> QED
        BY <2>0, <4>1
    <3> HIDE DEF x, y
    <3>5. \A k, l \in Nat : k < l => k + 1 <= l
      OBVIOUS
    <3> QED
      BY <3>3, <3>4, <3>5 DEF Disjoint
  <2>3. ASSUME MmapRange(SystemMemory.lo, SystemMemory.hi, SystemCell) \in Items(mappings),
               NEW p \in resource
        PROVE  SystemMemory.hi < p.base \/ p.base + p.length - 1 < SystemMemory.lo
    <3>1. PICK i \in 1 .. Len(mappings) : p = Hob(mappings[i]) /\ "DRAM" \in mappings[i].cell.flags
      BY <2>1
    <3>2. PICK j \in 1 .. Len(mappings) :
            mappings[j] = MmapRange(SystemMemory.lo, SystemMemory.hi, SystemCell)
      BY <2>0, <2>3 DEF Items
    <3>3. /\ mappings[j].lo = SystemMemory.lo /\ mappings[j].hi = SystemMemory.hi
          /\ mappings[j].cell.flags = {"RESERVED"}
      BY <3>2 DEF MmapRange, SystemCell
    <3>4. i < j \/ j < i
      <4>1. i # j
        BY <3>1, <3>3
      <4> QED
        BY <2>0, <4>1
    <3>5. mappings[i].hi < SystemMemory.lo \/ SystemMemory.hi < mappings[i].lo
      BY <2>0, <3>3, <3>4
    <3>6. p.base = mappings[i].lo /\ p.base + p.length - 1 = mappings[i].hi
      BY <2>0, <3>1, Covers
    <3> QED
      BY <3>5, <3>6
  <2>4. phase # "untabled" => allocated \subseteq resource
    BY <1>1 DEF BuiltInv
  <2> QED
    BY <2>2, <2>3, <2>4 DEF HobsSound
<1>2. Spec => []ListInv
  BY InitList, NextList, PTL DEF Spec
<1> QED
  BY <1>1, <1>2, BuiltAlways, PTL

(* The n-th entry of the table is that of the n-th item that is mapped.    *)
LEMMA TableEntries ==
  ASSUME ListInv, BuiltInv, phase \in {"hobs", "done"}
  PROVE  /\ Cardinality(MappedItems) \in Nat /\ DOMAIN table = 1 .. Cardinality(MappedItems)
         /\ \A n \in DOMAIN table : \E i \in MappedItems :
              Index(i) = n /\ table[n] = Entry(mappings[i])
         /\ \A i \in MappedItems : Index(i) \in DOMAIN table /\ table[Index(i)] = Entry(mappings[i])
<1> DEFINE I == MappedItems
           item(n) == CHOOSE i \in I : Index(i) = n
<1>1. /\ Cardinality(I) \in Nat
      /\ \A i \in I : Index(i) \in 1 .. Cardinality(I)
      /\ \A i, j \in I : i < j => Index(i) < Index(j)
      /\ \A n \in 1 .. Cardinality(I) : \E i \in I : Index(i) = n
  BY IndexCounts DEF ListInv
<1>2. table = [n \in 1 .. Cardinality(I) |-> Entry(mappings[item(n)])]
  BY DEF BuiltInv, MmuTable
<1>3. I \in SUBSET Nat
  BY ListFacts DEF MappedItems
<1> HIDE DEF I
<1>4. \A n \in 1 .. Cardinality(I) : item(n) \in I /\ Index(item(n)) = n
  BY <1>1
<1>5. ASSUME NEW i \in I  PROVE item(Index(i)) = i
  <2> DEFINE j == item(Index(i))
  <2>1. j \in I /\ Index(j) = Index(i) /\ Index(i) \in Nat
    BY <1>1, <1>4
  <2> HIDE DEF j
  <2>2. ~ (i < j) /\ ~ (j < i)
    <3>1. \A x \in Nat : ~ (x < x)
      OBVIOUS
    <3> QED
      BY <1>1, <2>1, <3>1
  <2>3. i \in Nat /\ j \in Nat
    BY <1>3, <2>1
  <2>4. i = j
    BY <2>2, <2>3, NatOrder
  <2> QED
    BY <2>4 DEF j
<1>6. \A n \in 1 .. Cardinality(I) : table[n] = Entry(mappings[item(n)])
  BY <1>2
<1>7. DOMAIN table = 1 .. Cardinality(I)
  BY <1>2
<1> HIDE DEF item
<1> QED
  BY <1>1, <1>4, <1>5, <1>6, <1>7 DEF I

(* Once built, the MMU table maps every address that is not DONT_MAP once  *)
(* and with the attribute of its range, and the others not at all; no      *)
(* entry before the last ends the table (ArmPlatformGetVirtualMemoryMap).  *)
THEOREM TableMatches == Spec => []TableMatchesMap
<1>1. ASSUME ListInv, BuiltInv, phase \in {"hobs", "done"}
      PROVE  TableMatchesMap
  <2>0. /\ Last \in Nat /\ mappings \in Seq(Ranges) /\ Chain(mappings, 0, Last + 1)
        /\ Len(mappings) \in Nat /\ DOMAIN mappings = 1 .. Len(mappings)
        /\ \A i \in 1 .. Len(mappings) :
             /\ mappings[i].lo \in Nat /\ mappings[i].hi \in Nat
             /\ mappings[i].lo <= mappings[i].hi
    BY <1>1, ListFacts
  <2>1. MappedItems = {i \in 1 .. Len(mappings) : mappings[i].cell.attr # "DONT_MAP"}
    BY <2>0 DEF MappedItems, Mapped
  <2>2. /\ \A n \in DOMAIN table : \E i \in MappedItems :
             Index(i) = n /\ table[n] = Entry(mappings[i])
        /\ \A i \in MappedItems : Index(i) \in DOMAIN table /\ table[Index(i)] = Entry(mappings[i])
    BY <1>1, TableEntries
  <2>3. \A n \in DOMAIN table : table[n].length # 0
    BY <2>0, <2>1, <2>2, Covers
  <2>4. ASSUME NEW a \in 0 .. Last
        PROVE  LET hits == {i \in DOMAIN table :
                              Within([base |-> a, length |-> 1], table[i].base,
                                     table[i].base + table[i].length - 1)}
                   attr == CellAt(mappings, a).attr
               IN IF attr = "DONT_MAP" THEN hits = {}
                  ELSE \E i \in hits : hits = {i} /\ table[i].attr = attr
    <3> DEFINE hits == {i \in DOMAIN table :
                          Within([base |-> a, length |-> 1], table[i].base,
                                 table[i].base + table[i].length - 1)}
    <3>0. a \in Nat /\ a + 1 - 1 = a
      OBVIOUS
    <3>1. PICK k \in 1 .. Len(mappings) : a \in mappings[k].lo .. mappings[k].hi
      BY <2>0, Located
    <3>2. CellAt(mappings, a) = mappings[k].cell
      <4>1. mappings[k] \in Items(mappings)
        BY <2>0 DEF Items
      <4> QED
        BY <2>0, <3>0, <3>1, <4>1, CellOf
    <3>3. ASSUME NEW i \in MappedItems, table[Index(i)] = Entry(mappings[i]),
                 Index(i) \in DOMAIN table
          PROVE  Index(i) \in hits <=> i = k
      <4>1. i \in 1 .. Len(mappings) /\ mappings[i].lo \in Nat /\ mappings[i].hi \in Nat
        BY <2>0, <2>1
      <4>2. /\ table[Index(i)].base = mappings[i].lo
            /\ table[Index(i)].base + table[Index(i)].length - 1 = mappings[i].hi
        BY <2>0, <3>3, <4>1, Covers
      <4>3. Index(i) \in hits <=> mappings[i].lo <= a /\ a + 1 - 1 <= mappings[i].hi
        BY <3>3, <4>2 DEF Within
      <4>4. Index(i) \in hits <=> a \in mappings[i].lo .. mappings[i].hi
        BY <3>0, <4>1, <4>3, NatOrder
      <4>5. a \in mappings[i].lo .. mappings[i].hi => i = k
        BY <2>0, <3>0, <3>1, <4>1, LocatedOnce
      <4> QED
        BY <3>1, <4>4, <4>5
    <3>4. \A n \in hits : k \in MappedItems /\ n = Index(k)
      <4> SUFFICES ASSUME NEW n \in hits  PROVE k \in MappedItems /\ n = Index(k)
        OBVIOUS
      <4>1. PICK i \in MappedItems : Index(i) = n /\ table[n] = Entry(mappings[i])
        BY <2>2
      <4> QED
        BY <3>3, <4>1
    <3>5. k \in MappedItems => Index(k) \in hits /\ table[Index(k)].attr = mappings[k].cell.attr
      BY <2>0, <2>2, <3>3, Covers
    <3>6. k \in MappedItems <=> mappings[k].cell.attr # "DONT_MAP"
      BY <2>1
    <3> HIDE DEF hits
    <3>7. IF CellAt(mappings, a).attr = "DONT_MAP" THEN hits = {}
          ELSE \E i \in hits : hits = {i} /\ table[i].attr = CellAt(mappings, a).attr
      BY <3>2, <3>4, <3>5, <3>6
    <3> QED
      BY <3>7 DEF hits
  <2> QED
    BY <2>3, <2>4 DEF TableMatchesMap
<1>2. phase \notin {"hobs", "done"} => TableMatchesMap
  BY DEF TableMatchesMap
<1>3. Spec => []ListInv
  BY InitList, NextList, PTL DEF Spec
<1>4. ListInv /\ BuiltInv => TableMatchesMap
  BY <1>1, <1>2
<1> QED
  BY <1>3, <1>4, BuiltAlways, PTL

-----------------------------------------------------------------------------
(* The UEFI memory region of PrePi.                                        *)
(* A register that is computed from an address or a difference of two.     *)
LEMMA Wrapping ==
  ASSUME NEW x \in Int, -Words <= x, x < Words
  PROVE  Wrap(x) = IF x < 0 THEN x + Words ELSE x
  BY WordsAssumption, SMT DEF Wrap

(* The last address with its page offset masked off.                       *)
LEMMA LastPage ==
  (Words - 1) - ((Words - 1) % Page) = Words - Page
<1> DEFINE k == Words \div Page
<1>1. k \in Nat /\ Words = Page * k
  BY WordsAssumption, SMT
<1>2. k >= 1
  BY <1>1, WordsAssumption, SMT
<1>3. Words - 1 = Page * (k - 1) + (Page - 1)
  BY <1>1, <1>2, WordsAssumption, SMT
<1>4. ASSUME NEW q \in Int, NEW r \in 0 .. Page - 1
      PROVE  (Page * q + r) % Page = r
  BY WordsAssumption, SMT
<1>5. (Words - 1) % Page = Page - 1
  BY <1>2, <1>1, <1>3, <1>4, WordsAssumption, SMTT(30)
<1> QED
  BY <1>5, WordsAssumption

(* The flags of subs and cmp, read as the comparison of integers.          *)
LEMMA Comparison ==
  ASSUME NEW p, Sensible(p)
  PROVE  /\ FdTop(p) = p.fdBase + (p.fdSize - 1)
         /\ SystemMemoryTop(p) \in Nat /\ SystemMemoryTop(p) < Words
         /\ SystemMemoryTop(p) <= p.end
         /\ AboveFd(p) <=> \/ p.end < p.fdBase
                           \/ SystemMemoryTop(p) - FdTop(p) >= p.region
<1> DEFINE t == SystemMemoryTop(p)
           f == p.fdBase + (p.fdSize - 1)
<1>1. /\ p.base \in Nat /\ p.end \in Nat /\ p.fdBase \in Nat /\ p.fdSize \in Nat /\ p.region \in Nat
      /\ 0 < p.region /\ 2 * p.region < Words
  BY DEF Sensible, Placement
<1>2. f \in Nat /\ f < Words /\ FdTop(p) = f /\ p.fdBase <= f
  BY <1>1, Wrapping, WordsAssumption DEF Sensible, FdTop
<1>3. t \in Nat /\ t < Words /\ t <= p.end /\ (t < p.end => t = Words - 1)
  BY <1>1, WordsAssumption DEF SystemMemoryTop
<1>4. Room(p) = IF t - f < 0 THEN t - f + Words ELSE t - f
  BY <1>2, <1>3, Wrapping, WordsAssumption DEF Room
<1>5. AboveFd(p) <=> 2 * Room(p) >= Words \/ Room(p) >= p.region
  BY <1>1, <1>2, <1>3, <1>4, WordsAssumption DEF AboveFd, Negative, Signed
<1>6. \/ p.end < p.fdBase
      \/ t - f >= p.region
      \/ t - f \in 0 .. p.region - 1
  BY <1>1, <1>2, <1>3, WordsAssumption DEF Sensible, Lost
<1>7. p.region <= t + 1
  BY <1>1, <1>3, WordsAssumption DEF Sensible, Lost
<1>8. CASE p.end < p.fdBase
  BY <1>1, <1>2, <1>3, <1>4, <1>5, <1>7, <1>8, WordsAssumption
<1>9. CASE t - f >= 0 /\ p.fdBase <= p.end
  BY <1>1, <1>2, <1>3, <1>4, <1>5, <1>9, WordsAssumption
<1> QED
  BY <1>1, <1>2, <1>3, <1>6, <1>8, <1>9

(* The region lies in the system memory, free memory below and the primary *)
(* core's stack above without a gap between them, and shares no byte with  *)
(* the FD, but for the FD's first one, which is the region's last exactly  *)
(* when the region was put below the FD (_SetupStackPosition).             *)
THEOREM RegionPlaced ==
  ASSUME NEW p, Sensible(p)
  PROVE  /\ UefiRegion(p).lo \in Nat /\ UefiRegion(p).hi \in Nat
         /\ p.base <= UefiRegion(p).lo /\ UefiRegion(p).hi <= p.end
         /\ UefiRegion(p).hi <= p.fdBase \/ FdTop(p) < UefiRegion(p).lo
         /\ UefiRegion(p).hi = p.fdBase <=> ~AboveFd(p)
         /\ UefiRegion(p).lo <= FreeMemory(p).hi /\ FreeMemory(p).hi + 1 = StackHob(p).lo
         /\ StackHob(p).hi <= UefiRegion(p).hi
<1> DEFINE t == SystemMemoryTop(p)
           r1 == IF AboveFd(p) THEN t ELSE p.fdBase
<1>1. /\ p.base \in Nat /\ p.end \in Nat /\ p.fdBase \in Nat /\ p.fdSize \in Nat /\ p.region \in Nat
      /\ p.primary \in Nat /\ p.secondary \in Nat
      /\ 1 < p.fdSize /\ 0 < p.primary /\ p.primary + p.secondary < p.region
      /\ p.fdBase + p.fdSize <= Words
  BY DEF Sensible, Placement
<1>2. /\ t \in Nat /\ t < Words /\ t <= p.end /\ FdTop(p) = p.fdBase + (p.fdSize - 1)
      /\ AboveFd(p) <=> p.end < p.fdBase \/ t - FdTop(p) >= p.region
  BY Comparison
<1>3. Lost(p) \in Nat /\ Lost(p) = (IF p.end + 1 < Words THEN 0 ELSE Page)
  BY WordsAssumption DEF Lost
<1>4. Top(p) = IF r1 + 1 < Words THEN r1 + 1 ELSE r1 - (r1 % Page)
  BY DEF Top
<1>6. /\ Top(p) = IF AboveFd(p) THEN (t + 1) - Lost(p) ELSE p.fdBase + 1
      /\ ~AboveFd(p) => p.fdBase <= p.end /\ p.base + p.region <= p.fdBase + 1
      /\ AboveFd(p) => p.end < p.fdBase \/ p.region + Lost(p) <= t - FdTop(p)
      /\ p.base + p.region + Lost(p) <= t + 1
  <2>1. p.base + p.region + Lost(p) <= t + 1
    BY DEF Sensible
  <2>2. AboveFd(p) => p.end < p.fdBase \/ p.region + Lost(p) <= t - FdTop(p)
    BY <1>1, <1>2, <1>3, WordsAssumption DEF Sensible
  <2>3. ~AboveFd(p) => p.fdBase <= p.end /\ p.base + p.region <= p.fdBase + 1
    BY <1>1, <1>2, <1>3, WordsAssumption DEF Sensible
  <2>4. ASSUME AboveFd(p)
        PROVE  Top(p) = (t + 1) - Lost(p)
    <3>1. t + 1 < Words <=> p.end + 1 < Words
      BY <1>1, WordsAssumption DEF SystemMemoryTop
    <3>2. r1 = t
      BY <2>4
    <3>3. CASE t + 1 < Words
      BY <1>2, <1>3, <1>4, <3>1, <3>2, <3>3
    <3>4. CASE t = Words - 1
      BY <1>3, <1>4, <3>1, <3>2, <3>4, LastPage, WordsAssumption
    <3> QED
      BY <1>2, <3>3, <3>4, WordsAssumption
  <2>5. ASSUME ~AboveFd(p)
        PROVE  Top(p) = p.fdBase + 1
    <3>1. r1 = p.fdBase
      BY <2>5
    <3> QED
      BY <1>1, <1>4, <3>1, WordsAssumption
  <2> QED
    BY <2>1, <2>2, <2>3, <2>4, <2>5
<1>7. Top(p) \in Nat /\ Top(p) <= Words /\ p.base + p.region <= Top(p)
  BY <1>1, <1>2, <1>3, <1>6, WordsAssumption
<1>8. UefiMemoryBase(p) = Top(p) - p.region
  BY <1>1, <1>7, Wrapping, WordsAssumption DEF UefiMemoryBase
<1>9. StacksBase(p) = Top(p) - p.primary - p.secondary
  <2>1. Wrap(Top(p) - p.primary) = Top(p) - p.primary
    BY <1>1, <1>7, Wrapping, WordsAssumption
  <2> QED
    BY <1>1, <1>7, <2>1, Wrapping, WordsAssumption DEF StacksBase
<1>10. /\ UefiRegion(p).lo = Top(p) - p.region /\ UefiRegion(p).hi = Top(p) - 1
       /\ FreeMemory(p).hi = Top(p) - p.primary - p.secondary - 1
       /\ StackHob(p).lo = Top(p) - p.primary - p.secondary
       /\ StackHob(p).hi = Top(p) - p.secondary - 1
  BY <1>1, <1>7, <1>8, <1>9 DEF UefiRegion, FreeMemory, StackHob
<1> QED
  BY <1>1, <1>2, <1>3, <1>6, <1>7, <1>10, WordsAssumption

-----------------------------------------------------------------------------
(* The page of an address.                                                 *)
LEMMA PageOf ==
  ASSUME NEW x \in Nat
  PROVE  /\ x \div Page \in Nat
         /\ \A k \in Nat : k * Page <= x => k <= x \div Page
         /\ \A k \in Nat : x <= (k + 1) * Page - 1 => x \div Page <= k
<1> DEFINE q == x \div Page
           r == x % Page
<1>1. q \in Nat /\ r \in Nat /\ r < Page /\ x = Page * q + r
  BY WordsAssumption, SMT
<1>2. ASSUME NEW i \in Nat, NEW j \in Nat, i < j  PROVE Page * i + Page <= Page * j
  <2>1. PICK d \in Nat : j = (i + 1) + d
    <3>1. j - (i + 1) \in Nat /\ j = (i + 1) + (j - (i + 1))
      BY <1>2
    <3> QED
      BY <3>1
  <2>2. Page * j = (Page * i + Page) + Page * d /\ Page * d \in Nat /\ Page * i \in Nat
    BY <2>1, WordsAssumption, SMT
  <2> QED
    BY <2>2, WordsAssumption
<1> HIDE DEF q, r
<1>3. ASSUME NEW k \in Nat, k * Page <= x  PROVE k <= q
  <2> SUFFICES ASSUME q < k  PROVE FALSE
    BY <1>1
  <2>1. Page * q + Page <= Page * k
    BY <1>1, <1>2
  <2>2. Page * k = k * Page
    BY WordsAssumption
  <2> QED
    BY <1>1, <1>3, <2>1, <2>2, WordsAssumption
<1>4. ASSUME NEW k \in Nat, x <= (k + 1) * Page - 1  PROVE q <= k
  <2> SUFFICES ASSUME k < q  PROVE FALSE
    BY <1>1
  <2>1. Page * k + Page <= Page * q
    BY <1>1, <1>2
  <2>2. (k + 1) * Page = Page * k + Page /\ Page * q \in Nat
    BY <1>1, WordsAssumption
  <2> QED
    BY <1>1, <1>4, <2>1, <2>2, WordsAssumption
<1> QED
  BY <1>1, <1>3, <1>4 DEF q

(* PrePi runs in memory that stays its own: wherever the build put the FD, *)
(* if LittleKernel left the system memory to UEFI, the pages of the UEFI   *)
(* region are mapped WRITE_BACK by one entry of the MMU table, no HOB of   *)
(* LittleKernel's covers them, and the FD keeps all bytes but one.         *)
THEOREM RegionKept == Spec => []UefiRegionKept
<1> DEFINE sys == MmapRange(SystemMemory.lo, SystemMemory.hi, SystemCell)
<1>1. ASSUME ListInv, BuiltInv, HobsSound, phase \in {"hobs", "done"}, sys \in Items(mappings)
      PROVE  UefiRegionKept
  <2>1. /\ sys.lo = SystemMemory.lo /\ sys.hi = SystemMemory.hi
        /\ sys.cell.attr = "WRITE_BACK"
    BY DEF MmapRange, SystemCell
  <2>2. PICK k \in MappedItems : mappings[k] = sys
    <3>1. "WRITE_BACK" # "DONT_MAP"
      OBVIOUS
    <3> QED
      BY <1>1, <2>1, <3>1 DEF Items, MappedItems, Mapped
  <2> HIDE DEF sys
  <2>3. /\ Index(k) \in DOMAIN table
        /\ table[Index(k)].base = SystemMemory.lo
        /\ table[Index(k)].base + table[Index(k)].length - 1 = SystemMemory.hi
        /\ table[Index(k)].attr = "WRITE_BACK"
    BY <1>1, <2>1, <2>2, TableEntries, Covers, SystemAssumption
  <2>4. ASSUME NEW h \in resource \cup allocated
        PROVE  /\ h.base \in Nat /\ h.base + h.length - 1 \in Nat
               /\ SystemMemory.hi < h.base \/ h.base + h.length - 1 < SystemMemory.lo
    <3>1. h \in resource
      BY <1>1 DEF BuiltInv
    <3>2. PICK i \in 1 .. Len(mappings) : h = Hob(mappings[i])
      BY <1>1, <3>1, ListFacts DEF BuiltInv, Flagged, Items
    <3>3. h.base \in Nat /\ h.base + h.length - 1 \in Nat
      BY <1>1, <3>2, ListFacts, Covers
    <3>4. phase # "collect"
      BY <1>1
    <3> QED
      BY <1>1, <3>1, <3>3, <3>4 DEF HobsSound, sys
  <2>5. ASSUME NEW p \in Placements
        PROVE  LET r == UefiRegion(p)  pages == r.lo \div Page .. r.hi \div Page IN
               /\ \E i \in DOMAIN table :
                    /\ table[i].attr = "WRITE_BACK"
                    /\ \A a \in pages : a \in table[i].base .. table[i].base + table[i].length - 1
               /\ \A h \in resource \cup allocated :
                    pages \cap h.base .. h.base + h.length - 1 = {}
               /\ r.hi <= p.fdBase \/ FdTop(p) < r.lo
    <3> DEFINE r == UefiRegion(p)
               first == r.lo \div Page
               last == r.hi \div Page
    <3>1. /\ Sensible(p) /\ p.base = SystemMemory.lo * Page
          /\ p.end = (SystemMemory.hi + 1) * Page - 1
      BY DEF Placements
    <3>2. /\ r.lo \in Nat /\ r.hi \in Nat /\ p.base <= r.lo /\ r.hi <= p.end
          /\ r.hi <= p.fdBase \/ FdTop(p) < r.lo
      BY <3>1, RegionPlaced
    <3> HIDE DEF r
    <3>3. /\ first \in Nat /\ last \in Nat
          /\ SystemMemory.lo <= first /\ last <= SystemMemory.hi
      BY <3>1, <3>2, PageOf, SystemAssumption
    <3> HIDE DEF first, last
    <3>4. \A a \in first .. last : a \in SystemMemory.lo .. SystemMemory.hi
      BY <3>3, SystemAssumption
    <3>5. ASSUME NEW h \in resource \cup allocated
          PROVE  (first .. last) \cap (h.base .. h.base + h.length - 1) = {}
      <4> DEFINE x == h.base
                 y == h.base + h.length - 1
      <4>1. x \in Nat /\ y \in Nat /\ (SystemMemory.hi < x \/ y < SystemMemory.lo)
        BY <2>4
      <4> HIDE DEF x, y
      <4>2. (first .. last) \cap (x .. y) = {}
        BY <3>3, <4>1, SystemAssumption
      <4> QED
        BY <4>2 DEF x, y
    <3> QED
      BY <2>3, <3>2, <3>4, <3>5 DEF r, first, last
  <2> QED
    BY <2>5 DEF UefiRegionKept
<1>2. ListInv /\ BuiltInv /\ HobsSound => UefiRegionKept
  BY <1>1 DEF UefiRegionKept
<1>3. Spec => []ListInv
  BY InitList, NextList, PTL DEF Spec
<1> QED
  BY <1>2, <1>3, BuiltAlways, HobsAgree, PTL
=============================================================================
