---------------------------- MODULE EmuFvbProofs ----------------------------
(***************************************************************************)
(* Proofs about EmuFvb, for every block size, base address, word size and  *)
(* set of calls: the header protocol across resets, and that the pointer   *)
(* arithmetic implements two separate blocks (FlashBlocks).                *)
(***************************************************************************)
EXTENDS EmuFvb, TLAPS

-----------------------------------------------------------------------------
(* Addresses.                                                              *)

(* The product in a pointer, for the two blocks there are.                 *)
LEMMA Product == \A l \in 0 .. 1 : l * BlockSize = IF l = 0 THEN 0 ELSE BlockSize
<1>1. 0 * BlockSize = 0 /\ 1 * BlockSize = BlockSize
  BY VolumeAssumption
<1> QED
  BY <1>1

(* Cell i of block l is an address of the volume, and headers are in       *)
(* block 0.                                                                *)
LEMMA CellAddress ==
  ASSUME NEW l \in 0 .. 1, NEW i \in 0 .. BlockSize - 1
  PROVE  /\ Base + l * BlockSize + i \in Volume
         /\ Base + l * BlockSize + i \in Addr
  BY Product, VolumeAssumption DEF Volume, Addr

(* The bytes at offset o of block k, as cells.                             *)
LEMMA CellsOfRange ==
  ASSUME NEW l \in 0 .. 1, NEW i \in 0 .. BlockSize - 1,
         NEW k \in 0 .. 1, NEW o \in 0 .. BlockSize, NEW n \in Nat, o + n <= BlockSize
  PROVE  /\ Base + l * BlockSize + i \in Pointer(k, o) .. Pointer(k, o) + n - 1
              <=> l = k /\ i \in o .. o + n - 1
         /\ l = k => (Base + l * BlockSize + i) - Pointer(k, o) = i - o
<1>1. /\ l * BlockSize = IF l = 0 THEN 0 ELSE BlockSize
      /\ k * BlockSize = IF k = 0 THEN 0 ELSE BlockSize
  BY Product
<1> QED
  BY <1>1, VolumeAssumption DEF Pointer

(* The bytes that a call may move in a block are bytes of the volume.      *)
LEMMA RangeInVolume ==
  ASSUME NEW k \in 0 .. 1, NEW o \in 0 .. BlockSize, NEW n \in Nat, o + n <= BlockSize
  PROVE  Pointer(k, o) .. Pointer(k, o) + n - 1 \subseteq Volume
<1>1. k * BlockSize = IF k = 0 THEN 0 ELSE BlockSize
  BY Product
<1> QED
  BY <1>1, VolumeAssumption DEF Pointer, Volume

(* A buffer that is memory and does not overlap the volume is so small     *)
(* that the sum in the clients' calls does not wrap around.                *)
LEMMA NoWrap ==
  ASSUME NEW b \in Buffers, NEW off \in 0 .. BlockSize
  PROVE  Word(off + b.size) = off + b.size
<1>1. b.at \in Addr /\ b.size \in Nat /\ b.at .. (b.at + b.size - 1) \subseteq Addr \ Volume
  BY ClientsAssumption DEF User
<1>2. CASE b.size = 0
  BY <1>2, VolumeAssumption DEF Word
<1>3. CASE b.size > 0
  <2>1. b.at + b.size - 1 < Space
    BY <1>1, <1>3, VolumeAssumption DEF Addr
  <2>2. b.at \notin Volume
    BY <1>1, <1>3, VolumeAssumption DEF Addr
  <2>3. Base \in Volume
    BY VolumeAssumption DEF Volume
  <2>4. ~(b.at <= Base /\ Base <= b.at + b.size - 1)
    BY <1>1, <2>3, VolumeAssumption DEF Addr
  <2>5. b.size <= Space - 2 * BlockSize
    BY <1>1, <2>1, <2>2, <2>4, VolumeAssumption DEF Addr, Volume
  <2> QED
    BY <1>1, <2>5, VolumeAssumption DEF Word
<1> QED
  BY <1>1, <1>2, <1>3

(* So the number of bytes moved ends at the end of the block.              *)
LEMMA NumBytesMoved ==
  ASSUME NEW b \in Buffers, NEW off \in 0 .. BlockSize
  PROVE  /\ NumBytes(off, b.size) \in Nat
         /\ off + NumBytes(off, b.size) <= BlockSize
         /\ NumBytes(off, b.size) <= b.size
         /\ \A i \in 0 .. BlockSize - 1 :
              i \in off .. off + NumBytes(off, b.size) - 1 <=> i \in off .. off + b.size - 1
<1>1. b.size \in Nat
  BY ClientsAssumption
<1>2. NumBytes(off, b.size) = IF off + b.size > BlockSize THEN BlockSize - off ELSE b.size
  BY NoWrap DEF NumBytes
<1> QED
  BY <1>1, <1>2, VolumeAssumption

-----------------------------------------------------------------------------
(* The header protocol.                                                    *)

(* What each step of FvbInitialize has achieved: a volume is cleared only  *)
(* if its header is not valid, it has no checksum while the template is    *)
(* copied, and the checksum comes after all of the template.               *)
Prepared ==
  /\ step = "clear" /\ Reserved => ~ValidateFvHeader
  /\ step \in {"copy", "sum"} => ~rewritten /\ mem[Base + 1] # Sum
  /\ step = "sum" => mem[Base] = Fields /\ mem[Base + 2] = Store
  /\ step = "install" /\ ~rewritten => ValidateFvHeader

IInv == TypeOK /\ FormattedIfValid /\ Prepared

(* The three cells of the header lie in the volume, the volume in memory.  *)
LEMMA HeaderAddresses ==
  /\ {Base, Base + 1, Base + 2} \subseteq Volume
  /\ Volume \subseteq Addr
  BY VolumeAssumption DEF Volume, Addr

(* Memory after a copy is memory, if the bytes copied are.                 *)
LEMMA CopyType ==
  ASSUME mem \in [Addr -> Byte], NEW dst \in Int, NEW src \in Int, NEW n \in Nat,
         \A j \in 0 .. n - 1 : src + j \in Addr
  PROVE  CopyMem(dst, src, n) \in [Addr -> Byte]
<1> SUFFICES ASSUME NEW a \in Addr, a \in dst .. dst + n - 1
             PROVE  mem[src + (a - dst)] \in Byte
  BY DEF CopyMem
<1>1. a - dst \in 0 .. n - 1
  BY VolumeAssumption DEF Addr
<1> QED
  BY <1>1

(* What Becomes does to a part of memory that target leaves alone.         *)
LEMMA BecomesType ==
  ASSUME mem \in [Addr -> Byte], NEW target \in [Addr -> Byte], NEW next, Becomes(target, next)
  PROVE  /\ mem' \in [Addr -> Byte]
         /\ \A a \in Addr : mem'[a] \in {mem[a], target[a]}
         /\ step' # "validate" => mem' = target /\ step' = next
         /\ step' \in {next, "validate"}
<1>1. CASE mem' = target /\ step' = next
  BY <1>1
<1>2. ASSUME NEW S \in SUBSET {a \in Volume : mem[a] # target[a]}, step' = "validate",
             mem' = [a \in Addr |-> IF a \in S THEN target[a] ELSE mem[a]]
      PROVE  /\ mem' \in [Addr -> Byte]
             /\ \A a \in Addr : mem'[a] \in {mem[a], target[a]}
             /\ step' \in {next, "validate"}
  BY <1>2
<1> QED
  BY <1>1, <1>2 DEF Becomes

(* Where a write and a read move bytes from and to.                        *)
LEMMA Moved ==
  ASSUME NEW lba \in Nat, lba <= 1, NEW off \in Addr, off <= BlockSize, NEW b \in Buffers
  PROVE  /\ Pointer(lba, off) \in Int /\ b.at \in Int
         /\ NumBytes(off, b.size) \in Nat
         /\ Pointer(lba, off) .. Pointer(lba, off) + NumBytes(off, b.size) - 1 \subseteq Volume
         /\ b.at .. b.at + NumBytes(off, b.size) - 1 \subseteq User
         /\ \A j \in 0 .. NumBytes(off, b.size) - 1 :
              b.at + j \in Addr /\ Pointer(lba, off) + j \in Addr
<1> DEFINE n == NumBytes(off, b.size)
<1>1. lba \in 0 .. 1 /\ off \in 0 .. BlockSize
  BY VolumeAssumption DEF Addr
<1>2. n \in Nat /\ off + n <= BlockSize /\ n <= b.size
  BY <1>1, NumBytesMoved
<1>3. b.at \in Addr /\ b.size \in Nat /\ b.at .. (b.at + b.size - 1) \subseteq User
  BY ClientsAssumption
<1>4. Pointer(lba, off) \in Int
  BY <1>1, Product, VolumeAssumption DEF Pointer
<1>5. Pointer(lba, off) .. Pointer(lba, off) + n - 1 \subseteq Volume
  BY <1>1, <1>2, RangeInVolume
<1>6. b.at .. b.at + n - 1 \subseteq User
  BY <1>2, <1>3, VolumeAssumption DEF Addr
<1>7. ASSUME NEW j \in 0 .. n - 1
      PROVE  b.at + j \in Addr /\ Pointer(lba, off) + j \in Addr
  <2>1. b.at + j \in b.at .. b.at + n - 1
    BY <1>2, <1>3, VolumeAssumption DEF Addr
  <2>2. Pointer(lba, off) + j \in Pointer(lba, off) .. Pointer(lba, off) + n - 1
    BY <1>2, <1>4
  <2> QED
    BY <2>1, <2>2, <1>5, <1>6, HeaderAddresses DEF User
<1> HIDE DEF n
<1>8. b.at \in Int
  BY <1>3, VolumeAssumption DEF Addr
<1> QED
  BY <1>2, <1>4, <1>5, <1>6, <1>7, <1>8 DEF n

(* The memory found at power-on holds no valid header.                     *)
LEMMA InitInvariant == Init => IInv
<1> SUFFICES ASSUME Init PROVE IInv
  OBVIOUS
<1>1. PICK v \in Data \cup {Erased} : mem = [a \in Addr |-> v]
  BY DEF Init
<1>2. mem[Base] = mem[Base + 1]
  BY <1>1, HeaderAddresses
<1>3. ~ValidateFvHeader
  BY <1>2 DEF ValidateFvHeader, Fields, Sum
<1>4. mem \in [Addr -> Byte]
  BY <1>1 DEF Byte
<1>5. calls \in 0 .. MaxCalls
  BY ClientsAssumption DEF Init
<1>6. call.op \in Ops
  BY DEF Init, NoCall, Ops
<1> QED
  BY <1>3, <1>4, <1>5, <1>6 DEF Init, IInv, TypeOK, FormattedIfValid, Prepared

(* One step per action of FvbInitialize.                                   *)
LEMMA InitializeInvariant ==
  ASSUME IInv, FindVolume \/ Clear \/ CopyTemplate \/ UpdateChecksum \/ Install
  PROVE  IInv'
<1> USE HeaderAddresses DEF IInv
<1>1. CASE FindVolume
  BY <1>1 DEF FindVolume, NoCall, Ops, TypeOK, FormattedIfValid, Prepared, ValidateFvHeader
<1>2. CASE Clear
  <2> DEFINE erased == SetMem(Base, 2 * BlockSize)
  <2>1. mem \in [Addr -> Byte] /\ erased \in [Addr -> Byte]
    BY DEF TypeOK, SetMem, Byte
  <2>2. /\ Becomes(erased, "copy") /\ rewritten' = (rewritten /\ step' # "copy")
        /\ UNCHANGED <<calls, call>>
    BY <1>2 DEF Clear
  <2>3. \A a \in Volume : erased[a] = Erased
    BY VolumeAssumption DEF SetMem, Volume
  <2> HIDE DEF erased
  <2>4. /\ mem' \in [Addr -> Byte]
        /\ \A a \in Addr : mem'[a] \in {mem[a], erased[a]}
        /\ step' # "validate" => mem' = erased /\ step' = "copy"
        /\ step' \in {"copy", "validate"}
    BY <2>1, <2>2, BecomesType
  <2>5. CASE step' = "copy"
    BY <2>2, <2>3, <2>4, <2>5
       DEF TypeOK, FormattedIfValid, Prepared, ValidateFvHeader, Erased, Fields, Sum
  <2>6. CASE step' = "validate"
    <3>1. Reserved /\ ~ValidateFvHeader
      BY <1>2, <2>2, <2>6 DEF Becomes, Clear, Prepared
    <3>2. ~ValidateFvHeader'
      BY <2>3, <2>4, <3>1 DEF ValidateFvHeader, Erased, Fields, Sum
    <3> QED
      BY <2>2, <2>4, <2>6, <3>2 DEF TypeOK, FormattedIfValid, Prepared
  <2> QED
    BY <2>4, <2>5, <2>6
<1>3. CASE CopyTemplate
  <2>1. mem \in [Addr -> Byte] /\ Template \in [Addr -> Byte]
    <3>1. {Fields, Zero, Store} \subseteq Byte
      BY DEF Byte
    <3> QED
      BY <3>1 DEF TypeOK, Template
  <2>2. Becomes(Template, "sum") /\ UNCHANGED <<rewritten, calls, call>> /\ step = "copy"
    BY <1>3 DEF CopyTemplate
  <2>3. Template[Base] = Fields /\ Template[Base + 1] = Zero /\ Template[Base + 2] = Store
    BY VolumeAssumption DEF Template, TypeOK
  <2>4. /\ mem' \in [Addr -> Byte]
        /\ \A a \in Addr : mem'[a] \in {mem[a], Template[a]}
        /\ step' # "validate" => mem' = Template /\ step' = "sum"
        /\ step' \in {"sum", "validate"}
    BY <2>1, <2>2, BecomesType
  <2>5. ~rewritten' /\ mem'[Base + 1] # Sum
    BY <2>2, <2>3, <2>4 DEF Prepared, Zero, Sum
  <2> QED
    BY <2>2, <2>3, <2>4, <2>5 DEF TypeOK, FormattedIfValid, Prepared, ValidateFvHeader
<1>4. CASE UpdateChecksum
  <2>1. mem' \in [Addr -> Byte] /\ mem'[Base + 1] = Sum
    BY <1>4 DEF UpdateChecksum, TypeOK, Byte
  <2>2. mem'[Base] = Fields /\ mem'[Base + 2] = Store
    BY <1>4, VolumeAssumption DEF UpdateChecksum, TypeOK, Prepared
  <2> QED
    BY <1>4, <2>1, <2>2
       DEF UpdateChecksum, TypeOK, FormattedIfValid, Prepared, ValidateFvHeader
<1>5. CASE Install
  BY <1>5 DEF Install, TypeOK, FormattedIfValid, Prepared, ValidateFvHeader
<1> QED
  BY <1>1, <1>2, <1>3, <1>4, <1>5

(* A reset keeps the invariant, with memory kept and with memory lost.     *)
LEMMA ResetInvariant == IInv /\ Reset => IInv'
<1> SUFFICES ASSUME IInv, Reset PROVE IInv'
  OBVIOUS
<1> USE HeaderAddresses DEF IInv
<1>1. CASE UNCHANGED <<mem, rewritten>>
  BY <1>1 DEF Reset, TypeOK, FormattedIfValid, Prepared, ValidateFvHeader
<1>2. ASSUME NEW v \in Data \cup {Erased},
             mem' = [a \in Addr |-> IF a \in Volume THEN v ELSE mem[a]], rewritten' = FALSE
      PROVE  IInv'
  <2>1. mem' \in [Addr -> Byte] /\ mem'[Base] = mem'[Base + 1]
    BY <1>2, ClientsAssumption DEF TypeOK, Byte
  <2>2. ~ValidateFvHeader'
    BY <2>1 DEF ValidateFvHeader, Fields, Sum
  <2> QED
    BY <1>2, <2>1, <2>2 DEF Reset, TypeOK, FormattedIfValid, Prepared
<1> QED
  BY <1>1, <1>2 DEF Reset

(* A call that leaves the headers alone, or owns up to changing them.      *)
LEMMA HeadersOwned ==
  ASSUME IInv, step = "run", mem' \in [Addr -> Byte], step' \in {"run", "validate"},
         rewritten \in BOOLEAN, rewritten' \in BOOLEAN, calls' \in 0 .. MaxCalls,
         call'.op \in Ops,
         ~rewritten' => ~rewritten /\ \A a \in Base .. Base + 2 : mem'[a] = mem[a]
  PROVE  IInv'
<1>1. {Base, Base + 1, Base + 2} \subseteq Base .. Base + 2
  BY VolumeAssumption
<1> QED
  BY <1>1 DEF IInv, TypeOK, FormattedIfValid, Prepared, ValidateFvHeader

(* The history of a call.                                                  *)
LEMMA Called ==
  ASSUME IInv, NEW c, Call(c), c.op \in Ops
  PROVE  /\ step = "run" /\ calls' \in 0 .. MaxCalls
         /\ call'.op \in Ops
  BY ClientsAssumption DEF IInv, TypeOK, Call

(* A call that is refused.                                                 *)
LEMMA RefusedInvariant ==
  ASSUME IInv, NEW c, Call(c), c.op \in Ops, Refused
  PROVE  IInv'
<1>1. /\ step = "run" /\ calls' \in 0 .. MaxCalls
      /\ call'.op \in Ops
  BY Called
<1> QED
  BY <1>1 DEF Refused, IInv, TypeOK, FormattedIfValid, Prepared, ValidateFvHeader

(* FvbProtocolWrite.                                                       *)
LEMMA WriteInvariant ==
  ASSUME IInv, NEW lba \in Lbas, NEW off \in Offsets, NEW b \in Buffers,
         FvbProtocolWrite(lba, off, b)
  PROVE  IInv'
<1> DEFINE c == [op |-> "write", lba |-> lba, off |-> off, buf |-> b]
<1>a. Call(c) /\ c.op \in Ops
  BY DEF FvbProtocolWrite, Ops
<1> HIDE DEF c
<1>b. step = "run" /\ calls' \in 0 .. MaxCalls /\ call'.op \in Ops
  BY <1>a, Called
<1> SUFFICES ASSUME Exists(lba, off) PROVE IInv'
  BY <1>a, RefusedInvariant DEF FvbProtocolWrite
<1> DEFINE n == NumBytes(off, b.size)
           dst == Pointer(lba, off)
           target == CopyMem(dst, b.at, n)
<1>1. lba \in Nat /\ lba <= 1 /\ off \in Addr /\ off <= BlockSize
  BY ClientsAssumption DEF Exists
<1>2. mem \in [Addr -> Byte] /\ rewritten \in BOOLEAN /\ calls \in 0 .. MaxCalls
  BY DEF IInv, TypeOK
<1>3. target \in [Addr -> Byte]
  BY <1>1, <1>2, Moved, CopyType
<1>4. /\ Becomes(target, "run") /\ rewritten' = (rewritten \/ Headers(dst, n))
  BY DEF FvbProtocolWrite
<1>5. \A a \in Addr : a \notin dst .. dst + n - 1 => target[a] = mem[a]
  BY DEF CopyMem
<1>6. ~Headers(dst, n) => \A a \in Base .. Base + 2 : a \in Addr /\ target[a] = mem[a]
  <2>1. \A a \in Base .. Base + 2 : a \in Addr
    BY VolumeAssumption DEF Addr
  <2> QED
    BY <1>5, <2>1 DEF Headers
<1> HIDE DEF n, dst, target
<1>7. /\ mem' \in [Addr -> Byte] /\ step' \in {"run", "validate"}
      /\ \A a \in Addr : mem'[a] \in {mem[a], target[a]}
  BY <1>2, <1>3, <1>4, BecomesType
<1>8. rewritten' \in BOOLEAN
  BY <1>2, <1>4 DEF Headers
<1>9. ~rewritten' => ~rewritten /\ \A a \in Base .. Base + 2 : mem'[a] = mem[a]
  BY <1>4, <1>6, <1>7
<1> QED
  BY <1>b, <1>2, <1>7, <1>8, <1>9, HeadersOwned

(* FvbProtocolRead, which may copy into a buffer anywhere in memory.       *)
LEMMA ReadInvariant ==
  ASSUME IInv, NEW lba \in Lbas, NEW off \in Offsets, NEW b \in Buffers,
         FvbProtocolRead(lba, off, b)
  PROVE  IInv'
<1> DEFINE c == [op |-> "read", lba |-> lba, off |-> off, buf |-> b]
<1>a. Call(c) /\ c.op \in Ops
  BY DEF FvbProtocolRead, Ops
<1> HIDE DEF c
<1>b. step = "run" /\ calls' \in 0 .. MaxCalls /\ call'.op \in Ops
  BY <1>a, Called
<1> SUFFICES ASSUME Exists(lba, off) PROVE IInv'
  BY <1>a, RefusedInvariant DEF FvbProtocolRead
<1> DEFINE n == NumBytes(off, b.size)
           src == Pointer(lba, off)
<1>1. lba \in Nat /\ lba <= 1 /\ off \in Addr /\ off <= BlockSize
  BY ClientsAssumption DEF Exists
<1>2. mem \in [Addr -> Byte] /\ rewritten \in BOOLEAN /\ calls \in 0 .. MaxCalls
  BY DEF IInv, TypeOK
<1>3. mem' = CopyMem(b.at, src, n) /\ mem' \in [Addr -> Byte]
  <2>1. CopyMem(b.at, src, n) \in [Addr -> Byte]
    BY <1>1, <1>2, Moved, CopyType
  <2> QED
    BY <2>1 DEF FvbProtocolRead
<1>4. b.at .. b.at + n - 1 \subseteq User
  BY <1>1, Moved
<1>5. \A a \in Base .. Base + 2 : a \in Addr /\ a \notin User
  BY VolumeAssumption DEF Addr, User, Volume
<1> HIDE DEF n, src
<1>6. \A a \in Base .. Base + 2 : mem'[a] = mem[a]
  BY <1>3, <1>4, <1>5 DEF CopyMem
<1>7. step' = step /\ rewritten' = rewritten
  BY DEF FvbProtocolRead
<1> QED
  BY <1>b, <1>2, <1>3, <1>6, <1>7, HeadersOwned

(* What an erase clears: both blocks, or one of them.                      *)
LEMMA Erasing ==
  ASSUME NEW list \in EraseLists, \A r \in list : ~Invalid(r),
         NEW l \in 0 .. 1, NEW i \in 0 .. BlockSize - 1
  PROVE  LET first  == \E r \in list : r.lba = 0
             second == \E r \in list : r.lba + r.num = 2
             start  == IF first THEN Base ELSE Base + BlockSize
             size   == (IF first THEN BlockSize ELSE 0) + (IF second THEN BlockSize ELSE 0)
         IN  Base + l * BlockSize + i \in start .. start + size - 1
               <=> (l = 0 /\ first) \/ (l = 1 /\ second)
<1> DEFINE first  == \E r \in list : r.lba = 0
           second == \E r \in list : r.lba + r.num = 2
<1>1. l * BlockSize = IF l = 0 THEN 0 ELSE BlockSize
  BY Product
<1>2. first \in BOOLEAN /\ second \in BOOLEAN
  OBVIOUS
<1> HIDE DEF first, second
<1>3. LET start  == IF first THEN Base ELSE Base + BlockSize
          size   == (IF first THEN BlockSize ELSE 0) + (IF second THEN BlockSize ELSE 0)
      IN  Base + l * BlockSize + i \in start .. start + size - 1
            <=> (l = 0 /\ first) \/ (l = 1 /\ second)
  BY <1>1, <1>2, VolumeAssumption
<1> QED
  BY <1>3 DEF first, second

(* FvbProtocolEraseBlocks.                                                 *)
LEMMA EraseInvariant ==
  ASSUME IInv, NEW list \in EraseLists, FvbProtocolEraseBlocks(list)
  PROVE  IInv'
<1> DEFINE c == [op |-> "erase", list |-> list]
<1>a. Call(c) /\ c.op \in Ops
  BY DEF FvbProtocolEraseBlocks, Ops
<1> HIDE DEF c
<1>b. step = "run" /\ calls' \in 0 .. MaxCalls /\ call'.op \in Ops
  BY <1>a, Called
<1> SUFFICES ASSUME \A r \in list : ~Invalid(r) PROVE IInv'
  BY <1>a, RefusedInvariant DEF FvbProtocolEraseBlocks
<1> DEFINE first  == \E r \in list : r.lba = 0
           second == \E r \in list : r.lba + r.num = 2
           start  == IF first THEN Base ELSE Base + BlockSize
           size   == (IF first THEN BlockSize ELSE 0) + (IF second THEN BlockSize ELSE 0)
           target == SetMem(start, size)
<1>1. mem \in [Addr -> Byte] /\ rewritten \in BOOLEAN /\ calls \in 0 .. MaxCalls
  BY DEF IInv, TypeOK
<1>2. target \in [Addr -> Byte]
  BY <1>1 DEF SetMem, Byte
<1>3. /\ Becomes(target, "run") /\ rewritten' = (rewritten \/ first)
  BY DEF FvbProtocolEraseBlocks
<1>4. ~first => \A a \in Base .. Base + 2 : a \in Addr /\ target[a] = mem[a]
  BY VolumeAssumption DEF SetMem, Addr
<1>5. first \in BOOLEAN
  OBVIOUS
<1> HIDE DEF first, second, start, size, target
<1>6. /\ mem' \in [Addr -> Byte] /\ step' \in {"run", "validate"}
      /\ \A a \in Addr : mem'[a] \in {mem[a], target[a]}
  BY <1>1, <1>2, <1>3, BecomesType
<1>7. ~rewritten' => ~rewritten /\ \A a \in Base .. Base + 2 : mem'[a] = mem[a]
  BY <1>3, <1>4, <1>6
<1> QED
  BY <1>b, <1>1, <1>3, <1>5, <1>6, <1>7, HeadersOwned

(* Whoever owns the rest of memory writes there.                           *)
LEMMA StoreInvariant ==
  ASSUME IInv, NEW a \in User, NEW v \in Data, ClientStores(a, v)
  PROVE  IInv'
<1> DEFINE c == [op |-> "store", at |-> a, byte |-> v]
<1>a. Call(c) /\ c.op \in Ops
  BY DEF ClientStores, Ops
<1> HIDE DEF c
<1>b. step = "run" /\ calls' \in 0 .. MaxCalls /\ call'.op \in Ops
  BY <1>a, Called
<1>1. mem \in [Addr -> Byte] /\ rewritten \in BOOLEAN /\ calls \in 0 .. MaxCalls
  BY DEF IInv, TypeOK
<1>2. mem' \in [Addr -> Byte] /\ \A h \in Base .. Base + 2 : mem'[h] = mem[h]
  BY <1>1, VolumeAssumption DEF ClientStores, User, Volume, Addr, Byte
<1>3. step' = step /\ rewritten' = rewritten
  BY DEF ClientStores
<1> QED
  BY <1>b, <1>1, <1>2, <1>3, HeadersOwned

(* Every step preserves the invariant.                                     *)
LEMMA NextInvariant == IInv /\ [Next]_vars => IInv'
<1> SUFFICES ASSUME IInv, [Next]_vars PROVE IInv'
  OBVIOUS
<1>1. CASE UNCHANGED vars
  BY <1>1 DEF vars, IInv, TypeOK, FormattedIfValid, Prepared, ValidateFvHeader
<1>2. CASE FindVolume \/ Clear \/ CopyTemplate \/ UpdateChecksum \/ Install
  BY <1>2, InitializeInvariant
<1>3. CASE Reset
  BY <1>3, ResetInvariant
<1>4. ASSUME NEW lba \in Lbas, NEW off \in Offsets, NEW b \in Buffers,
             FvbProtocolWrite(lba, off, b) \/ FvbProtocolRead(lba, off, b)
      PROVE  IInv'
  BY <1>4, WriteInvariant, ReadInvariant
<1>5. ASSUME NEW list \in EraseLists, FvbProtocolEraseBlocks(list)
      PROVE  IInv'
  BY <1>5, EraseInvariant
<1>6. ASSUME NEW a \in User, NEW v \in Data, ClientStores(a, v)
      PROVE  IInv'
  BY <1>6, StoreInvariant
<1> QED
  BY <1>1, <1>2, <1>3, <1>4, <1>5, <1>6 DEF Next

(* The inductive invariant holds in every state: the types, a valid header *)
(* only on a volume that was formatted to the end (FvbInitialize), and what*)
(* each step of the formatting has prepared for the next.                  *)
THEOREM Invariance == Spec => []IInv
  BY InitInvariant, NextInvariant, PTL DEF Spec

(* Types, and a volume is offered with a valid header (FvbInitialize).     *)
THEOREM TypeCorrect == Spec => []TypeOK
<1>1. IInv => TypeOK
  BY DEF IInv
<1> QED
  BY <1>1, Invariance, PTL

(* A header that FvbInitialize accepts after a reset belongs to a volume   *)
(* whose formatting was completed, wherever resets interrupted others.     *)
THEOREM FormattedAlways == Spec => []FormattedIfValid
<1>1. IInv => FormattedIfValid
  BY DEF IInv
<1> QED
  BY <1>1, Invariance, PTL

(* FvbInitialize writes nothing into a volume that it finds valid.         *)
THEOREM FoundKept == Spec => FoundVolumeKept
<1>1. ASSUME IInv, [Next]_vars, Reserved, ValidateFvHeader, step # "run", step' # "validate"
      PROVE  mem' = mem
  <2>1. step \notin {"clear", "copy", "sum"}
    BY <1>1 DEF IInv, Prepared, ValidateFvHeader
  <2>2. \A c : ~Call(c)
    BY <1>1 DEF Call
  <2> QED
    BY <1>1, <2>1, <2>2
       DEF Next, vars, FindVolume, Clear, CopyTemplate, UpdateChecksum, Install, Reset,
           FvbProtocolWrite, FvbProtocolRead, FvbProtocolEraseBlocks, ClientStores
<1>2. IInv /\ [Next]_vars =>
        [Reserved /\ ValidateFvHeader /\ step # "run" /\ step' # "validate" => mem' = mem]_vars
  BY <1>1
<1> QED
  BY <1>2, Invariance, PTL DEF Spec, FoundVolumeKept

-----------------------------------------------------------------------------
(* Two blocks.                                                             *)

(* The refinement mapping gives two blocks of bytes and memory beside them.*)
LEMMA MappedType ==
  ASSUME mem \in [Addr -> Byte]
  PROVE  block \in Flash!Contents /\ user \in [User -> Byte]
<1>1. \A l \in 0 .. 1, i \in 0 .. BlockSize - 1 : mem[Base + l * BlockSize + i] \in Byte
  BY CellAddress
<1>2. \A a \in User : mem[a] \in Byte
  BY DEF User
<1> QED
  BY <1>1, <1>2 DEF block, user, Flash!Contents, Flash!Blocks, Flash!Cells

(* Two memories that agree on the volume, or outside it.                   *)
LEMMA SameUser ==
  ASSUME \A a \in User : mem'[a] = mem[a]
  PROVE  user' = user
  BY DEF user

(* A step that leaves the volume alone leaves the mapped blocks alone.     *)
LEMMA SameBlock ==
  ASSUME \A a \in Volume : mem'[a] = mem[a]
  PROVE  block' = block
<1>1. \A l \in 0 .. 1, i \in 0 .. BlockSize - 1 :
        mem'[Base + l * BlockSize + i] = mem[Base + l * BlockSize + i]
  BY CellAddress
<1> QED
  BY <1>1 DEF block

(* Steps of FvbInitialize, resets and interrupted calls change the volume  *)
(* only, and lose or keep the protocols.                                   *)
LEMMA VolumeOnly ==
  ASSUME IInv, IInv', \A a \in User : mem'[a] = mem[a], step # "run" \/ step' # "run"
  PROVE  Flash!Prepare \/ Flash!PowerLoss
<1>1. user' = user
  BY SameUser
<1>2. block' \in Flash!Contents
  <2>1. mem' \in [Addr -> Byte]
    BY DEF IInv, TypeOK
  <2>2. \A l \in 0 .. 1, i \in 0 .. BlockSize - 1 : mem'[Base + l * BlockSize + i] \in Byte
    BY <2>1, CellAddress
  <2> QED
    BY <2>2 DEF block, Flash!Contents, Flash!Blocks, Flash!Cells
<1> QED
  BY <1>1, <1>2 DEF Flash!Prepare, Flash!PowerLoss

(* FvbInitialize, clear, copy and checksum included, prepares the blocks.  *)
LEMMA InitializeMapped ==
  ASSUME IInv, IInv', FindVolume \/ Clear \/ CopyTemplate \/ UpdateChecksum \/ Install \/ Reset
  PROVE  Flash!Prepare \/ Flash!PowerLoss
<1>1. step # "run" \/ step' # "run"
  BY DEF FindVolume, Clear, CopyTemplate, UpdateChecksum, Install, Reset
<1>2. \A a \in User : mem'[a] = mem[a]
  <2>1. \A a \in User : a \in Addr /\ a \notin Volume
    BY DEF User
  <2>2. mem \in [Addr -> Byte]
    BY DEF IInv, TypeOK
  <2>3. ASSUME NEW target \in [Addr -> Byte], NEW next, Becomes(target, next),
               \A a \in User : target[a] = mem[a]
        PROVE  \A a \in User : mem'[a] = mem[a]
    BY <2>1, <2>2, <2>3, BecomesType
  <2>4. CASE Clear
    <3>1. SetMem(Base, 2 * BlockSize) \in [Addr -> Byte]
      BY <2>2 DEF SetMem, Byte
    <3>2. \A a \in User : SetMem(Base, 2 * BlockSize)[a] = mem[a]
      BY <2>1 DEF SetMem, Volume
    <3> QED
      BY <2>3, <2>4, <3>1, <3>2 DEF Clear
  <2>5. CASE CopyTemplate
    <3>1. Template \in [Addr -> Byte]
      <4>1. {Fields, Zero, Store} \subseteq Byte
        BY DEF Byte
      <4> QED
        BY <2>2, <4>1 DEF Template
    <3>2. \A a \in User : Template[a] = mem[a]
      BY <2>1, <2>2, HeaderAddresses DEF Template
    <3> QED
      BY <2>3, <2>5, <3>1, <3>2 DEF CopyTemplate
  <2>6. CASE UpdateChecksum
    BY <2>1, <2>2, <2>6, HeaderAddresses DEF UpdateChecksum
  <2>7. CASE FindVolume \/ Install \/ Reset
    BY <2>1, <2>7 DEF FindVolume, Install, Reset
  <2> QED
    BY <2>4, <2>5, <2>6, <2>7
<1> QED
  BY <1>1, <1>2, VolumeOnly

(* FvbProtocolWrite changes the bytes of one block that its arguments name.*)
LEMMA WriteMapped ==
  ASSUME IInv, IInv', NEW lba \in Lbas, NEW off \in Offsets, NEW b \in Buffers,
         FvbProtocolWrite(lba, off, b)
  PROVE  Flash!Write(lba, off, b) \/ Flash!PowerLoss \/ Flash!Prepare
<1>a. step = "run" /\ call' = [op |-> "write", lba |-> lba, off |-> off, buf |-> b]
  BY DEF FvbProtocolWrite, Call
<1>b. CASE ~Exists(lba, off)
  <2>1. mem' = mem /\ step' = step
    BY <1>b DEF FvbProtocolWrite, Refused
  <2>2. block' = block /\ user' = user
    BY <2>1 DEF block, user
  <2>3. ~Flash!There(lba, off)
    BY <1>b, ClientsAssumption, VolumeAssumption
       DEF Exists, Flash!There, Flash!Blocks, Addr
  <2> QED
    BY <1>a, <2>1, <2>2, <2>3 DEF Flash!Write
<1> SUFFICES ASSUME Exists(lba, off)
             PROVE  Flash!Write(lba, off, b) \/ Flash!PowerLoss \/ Flash!Prepare
  BY <1>b
<1> DEFINE n == NumBytes(off, b.size)
           dst == Pointer(lba, off)
           target == CopyMem(dst, b.at, n)
<1>1. /\ lba \in Nat /\ lba <= 1 /\ off \in Addr /\ off <= BlockSize
      /\ lba \in 0 .. 1 /\ off \in 0 .. BlockSize
  BY ClientsAssumption, VolumeAssumption DEF Exists, Addr
<1>2. mem \in [Addr -> Byte]
  BY DEF IInv, TypeOK
<1>3. target \in [Addr -> Byte]
  BY <1>1, <1>2, Moved, CopyType
<1>4. Becomes(target, "run")
  BY DEF FvbProtocolWrite
<1>5. dst .. dst + n - 1 \subseteq Volume /\ b.at .. b.at + n - 1 \subseteq User
  BY <1>1, Moved
<1>6. \A a \in User : a \in Addr /\ target[a] = mem[a]
  BY <1>5 DEF CopyMem, User
<1>7. /\ \A a \in Addr : mem'[a] \in {mem[a], target[a]}
      /\ step' # "validate" => mem' = target /\ step' = "run"
  <2> HIDE DEF target
  <2> QED
    BY <1>2, <1>3, <1>4, BecomesType
<1>8. \A a \in User : mem'[a] = mem[a]
  BY <1>6, <1>7
<1>9. CASE step' = "validate"
  BY <1>8, <1>9, VolumeOnly
<1>10. CASE step' # "validate"
  <2>1. mem' = target /\ step' = "run"
    BY <1>7, <1>10
  <2>2. ASSUME NEW l \in 0 .. 1, NEW i \in 0 .. BlockSize - 1
        PROVE  mem'[Base + l * BlockSize + i] =
                 IF l = lba /\ i \in off .. (off + b.size - 1)
                 THEN user[b.at + (i - off)] ELSE block[l][i]
    <3> DEFINE a == Base + l * BlockSize + i
    <3>1. a \in Addr
      BY CellAddress
    <3>2. n \in Nat /\ off + n <= BlockSize
      BY <1>1, NumBytesMoved
    <3>3. a \in dst .. dst + n - 1 <=> l = lba /\ i \in off .. off + n - 1
      BY <1>1, <3>2, CellsOfRange
    <3>4. l = lba => a - dst = i - off
      <4>1. lba * BlockSize \in Int
        BY <1>1, Product, VolumeAssumption
      <4> QED
        BY <1>1, <4>1, VolumeAssumption DEF Pointer
    <3>5. i \in off .. off + n - 1 <=> i \in off .. off + b.size - 1
      BY <1>1, NumBytesMoved
    <3>6. block[l][i] = mem[a]
      BY DEF block
    <3>7. i \in off .. off + n - 1 => user[b.at + (i - off)] = mem[b.at + (i - off)]
      <4>1. b.at \in Int
        BY <1>1, Moved
      <4>2. i \in off .. off + n - 1 => b.at + (i - off) \in b.at .. b.at + n - 1
        BY <1>1, <3>2, <4>1
      <4> QED
        BY <1>5, <4>2 DEF user
    <3>8. target[a] = IF a \in dst .. dst + n - 1 THEN mem[b.at + (a - dst)] ELSE mem[a]
      BY <3>1 DEF CopyMem
    <3> HIDE DEF a, n, dst
    <3>9. mem'[a] = IF l = lba /\ i \in off .. (off + b.size - 1)
                    THEN user[b.at + (i - off)] ELSE block[l][i]
      BY <2>1, <3>3, <3>4, <3>5, <3>6, <3>7, <3>8
    <3> QED
      BY <3>9 DEF a
  <2>3. block' = [block EXCEPT ![lba] =
                    [i \in 0 .. BlockSize - 1 |->
                       IF i \in off .. (off + b.size - 1) THEN user[b.at + (i - off)]
                                                          ELSE block[lba][i]]]
    <3>1. block' = [l \in 0 .. 1 |-> [i \in 0 .. BlockSize - 1 |->
                      IF l = lba /\ i \in off .. (off + b.size - 1)
                      THEN user[b.at + (i - off)] ELSE block[l][i]]]
      BY <2>2 DEF block
    <3>2. block = [l \in 0 .. 1 |-> [i \in 0 .. BlockSize - 1 |-> block[l][i]]]
      BY DEF block
    <3> QED
      BY <1>1, <3>1, <3>2
  <2>4. user' = user
    BY <1>8, SameUser
  <2> QED
    BY <1>a, <1>1, <2>1, <2>3, <2>4 DEF Flash!Write, Flash!There, Flash!Blocks, Flash!Cells
<1> QED
  BY <1>9, <1>10

(* FvbProtocolRead changes no block.                                       *)
LEMMA ReadMapped ==
  ASSUME IInv, IInv', NEW lba \in Lbas, NEW off \in Offsets, NEW b \in Buffers,
         FvbProtocolRead(lba, off, b)
  PROVE  Flash!Read(lba, off, b)
<1>a. step = "run" /\ call' = [op |-> "read", lba |-> lba, off |-> off, buf |-> b]
  BY DEF FvbProtocolRead, Call
<1>b. CASE ~Exists(lba, off)
  <2>1. mem' = mem /\ step' = step
    BY <1>b DEF FvbProtocolRead, Refused
  <2>2. block' = block /\ user' = user
    BY <2>1 DEF block, user
  <2>3. ~Flash!There(lba, off)
    BY <1>b, ClientsAssumption, VolumeAssumption
       DEF Exists, Flash!There, Flash!Blocks, Addr
  <2> QED
    BY <1>a, <2>1, <2>2, <2>3 DEF Flash!Read
<1> SUFFICES ASSUME Exists(lba, off) PROVE Flash!Read(lba, off, b)
  BY <1>b
<1> DEFINE n == NumBytes(off, b.size)
           src == Pointer(lba, off)
<1>1. /\ lba \in Nat /\ lba <= 1 /\ off \in Addr /\ off <= BlockSize
      /\ lba \in 0 .. 1 /\ off \in 0 .. BlockSize
  BY ClientsAssumption, VolumeAssumption DEF Exists, Addr
<1>2. mem' = CopyMem(b.at, src, n) /\ step' = step
  BY DEF FvbProtocolRead
<1>3. /\ b.at .. b.at + n - 1 \subseteq User /\ b.at \in Int /\ src \in Int
      /\ src = Base + lba * BlockSize + off
  BY <1>1, Moved DEF Pointer
<1>4. /\ n \in Nat /\ off + n <= BlockSize /\ n <= b.size
      /\ \A i \in 0 .. BlockSize - 1 :
           i \in off .. off + n - 1 <=> i \in off .. off + b.size - 1
  BY <1>1, NumBytesMoved
<1> HIDE DEF n, src
<1>5. block' = block
  <2>1. \A a \in Volume : a \in Addr /\ a \notin User
    BY HeaderAddresses DEF User
  <2> QED
    BY <1>2, <1>3, <2>1, SameBlock DEF CopyMem
<1>6. ASSUME NEW a \in User
      PROVE  mem'[a] = IF a \in b.at .. (b.at + b.size - 1) /\ off + (a - b.at) \in 0 .. BlockSize - 1
                       THEN block[lba][off + (a - b.at)] ELSE user[a]
  <2>1. a \in Int /\ a \in Addr /\ user[a] = mem[a]
    BY VolumeAssumption DEF User, Addr, user
  <2>2. b.size \in Nat
    BY ClientsAssumption
  <2>3. a \in b.at .. b.at + n - 1
          <=> a \in b.at .. (b.at + b.size - 1) /\ off + (a - b.at) \in 0 .. BlockSize - 1
    <3> DEFINE i == off + (a - b.at)
    <3>1. i \in Int /\ (a \in b.at .. b.at + n - 1 <=> i \in off .. off + n - 1)
                    /\ (a \in b.at .. b.at + b.size - 1 <=> i \in off .. off + b.size - 1)
      BY <1>1, <1>3, <1>4, <2>1, <2>2
    <3>2. i \in off .. off + n - 1 => i \in 0 .. BlockSize - 1
      BY <1>1, <1>4, <3>1, VolumeAssumption
    <3> HIDE DEF i
    <3>3. a \in b.at .. b.at + n - 1
            <=> a \in b.at .. (b.at + b.size - 1) /\ i \in 0 .. BlockSize - 1
      BY <1>4, <3>1, <3>2
    <3> QED
      BY <3>3 DEF i
  <2>4. a \in b.at .. b.at + n - 1 => mem[src + (a - b.at)] = block[lba][off + (a - b.at)]
    <3>1. off + (a - b.at) \in 0 .. BlockSize - 1 =>
            block[lba][off + (a - b.at)] = mem[Base + lba * BlockSize + (off + (a - b.at))]
      BY <1>1 DEF block
    <3>2. lba * BlockSize \in Int
      BY <1>1, Product, VolumeAssumption
    <3>3. Base + lba * BlockSize + (off + (a - b.at)) = src + (a - b.at)
      BY <1>1, <1>3, <2>1, <3>2, VolumeAssumption
    <3> QED
      BY <2>3, <3>1, <3>3
  <2>5. mem'[a] = IF a \in b.at .. b.at + n - 1 THEN mem[src + (a - b.at)] ELSE mem[a]
    BY <1>2, <2>1 DEF CopyMem
  <2> QED
    BY <2>1, <2>3, <2>4, <2>5
<1>7. user' = [a \in User |->
                 IF a \in b.at .. (b.at + b.size - 1) /\ off + (a - b.at) \in 0 .. BlockSize - 1
                 THEN block[lba][off + (a - b.at)] ELSE user[a]]
  BY <1>6 DEF user
<1> QED
  BY <1>a, <1>1, <1>2, <1>5, <1>7
     DEF Flash!Read, Flash!Bytes, Flash!There, Flash!Blocks, Flash!Cells

(* The ranges refused are those that name no block, or one there is not.   *)
LEMMA ListValid ==
  ASSUME NEW list \in EraseLists
  PROVE  Flash!AllThere(list) <=> \A r \in list : ~Invalid(r)
<1>1. \A r \in list : r.lba \in Nat /\ r.num \in Nat
  BY ClientsAssumption DEF Ranges
<1>2. ASSUME NEW r \in list
      PROVE  (Flash!Range(r) # {} /\ Flash!Range(r) \subseteq Flash!Blocks) <=> ~Invalid(r)
  <2>1. CASE Invalid(r)
    <3>1. CASE r.num = 0
      BY <1>1, <2>1, <3>1 DEF Flash!Range
    <3>2. CASE r.num # 0
      <4>1. /\ r.lba \in Flash!Range(r) /\ r.lba + r.num - 1 \in Flash!Range(r)
            /\ r.lba \notin 0 .. 1 \/ r.lba + r.num - 1 \notin 0 .. 1
        BY <1>1, <2>1, <3>2 DEF Flash!Range, Invalid
      <4> QED
        BY <2>1, <4>1 DEF Flash!Blocks
    <3> QED
      BY <3>1, <3>2
  <2>2. CASE ~Invalid(r)
    <3>1. r.lba \in Flash!Range(r)
      BY <1>1, <2>2 DEF Flash!Range, Invalid
    <3>2. Flash!Range(r) \subseteq 0 .. 1
      BY <1>1, <2>2 DEF Flash!Range, Invalid
    <3> QED
      BY <2>2, <3>1, <3>2 DEF Flash!Blocks
  <2> QED
    BY <2>1, <2>2
<1> QED
  BY <1>2 DEF Flash!AllThere

(* The two bits of an erase say which blocks the ranges name.              *)
LEMMA NamedBlocks ==
  ASSUME NEW list \in EraseLists, \A r \in list : ~Invalid(r)
  PROVE  \A l \in 0 .. 1 :
           ((l = 0 /\ \E r \in list : r.lba = 0) \/ (l = 1 /\ \E r \in list : r.lba + r.num = 2))
             <=> \E r \in list : l \in Flash!Range(r)
<1>1. \A r \in list : r.lba \in Nat /\ r.num \in Nat
  BY ClientsAssumption DEF Ranges
<1>2. \A r \in list : (0 \in Flash!Range(r)) = (r.lba = 0)
  BY <1>1 DEF Flash!Range, Invalid
<1>3. \A r \in list : (1 \in Flash!Range(r)) = (r.lba + r.num = 2)
  BY <1>1 DEF Flash!Range, Invalid
<1>4. (\E r \in list : r.lba = 0) <=> (\E r \in list : 0 \in Flash!Range(r))
  BY ONLY <1>2, Zenon
<1>5. (\E r \in list : r.lba + r.num = 2) <=> (\E r \in list : 1 \in Flash!Range(r))
  BY ONLY <1>3, Zenon
<1> QED
  BY <1>4, <1>5

(* FvbProtocolEraseBlocks erases whole blocks, or none if it refuses.      *)
LEMMA EraseMapped ==
  ASSUME IInv, IInv', NEW list \in EraseLists, FvbProtocolEraseBlocks(list)
  PROVE  Flash!Erase(list) \/ Flash!PowerLoss \/ Flash!Prepare
<1>a. step = "run" /\ call' = [op |-> "erase", list |-> list]
  BY DEF FvbProtocolEraseBlocks, Call
<1>b. CASE ~Flash!AllThere(list)
  <2>1. mem' = mem /\ step' = step
    BY <1>b, ListValid DEF FvbProtocolEraseBlocks, Refused
  <2>2. /\ block' = block /\ user' = user
        /\ block = [l \in 0 .. 1 |-> block[l]]
    BY <2>1 DEF block, user
  <2> QED
    BY <1>a, <1>b, <2>1, <2>2 DEF Flash!Erase, Flash!Blocks
<1> SUFFICES ASSUME Flash!AllThere(list)
             PROVE  Flash!Erase(list) \/ Flash!PowerLoss \/ Flash!Prepare
  BY <1>b
<1>c. \A r \in list : ~Invalid(r)
  BY ListValid
<1> DEFINE first  == \E r \in list : r.lba = 0
           second == \E r \in list : r.lba + r.num = 2
           start  == IF first THEN Base ELSE Base + BlockSize
           size   == (IF first THEN BlockSize ELSE 0) + (IF second THEN BlockSize ELSE 0)
           target == SetMem(start, size)
           L      == {l \in 0 .. 1 : (l = 0 /\ first) \/ (l = 1 /\ second)}
<1>1. mem \in [Addr -> Byte] /\ target \in [Addr -> Byte]
  BY DEF IInv, TypeOK, SetMem, Byte
<1>2. Becomes(target, "run")
  BY <1>c DEF FvbProtocolEraseBlocks
<1>3. \A l \in 0 .. 1, i \in 0 .. BlockSize - 1 :
        Base + l * BlockSize + i \in start .. start + size - 1 <=> l \in L
  BY <1>c, Erasing
<1>4. \A a \in User : a \in Addr /\ target[a] = mem[a]
  BY VolumeAssumption DEF SetMem, User, Volume, Addr
<1>d. \A l \in 0 .. 1 : l \in L <=> \E r \in list : l \in Flash!Range(r)
  BY <1>c, NamedBlocks
<1> HIDE DEF first, second
<1>5. /\ \A a \in Addr : mem'[a] \in {mem[a], target[a]}
      /\ step' # "validate" => mem' = target /\ step' = "run"
  <2> HIDE DEF target
  <2> QED
    BY <1>1, <1>2, BecomesType
<1>6. \A a \in User : mem'[a] = mem[a]
  BY <1>4, <1>5
<1>7. CASE step' = "validate"
  BY <1>6, <1>7, VolumeOnly
<1>8. CASE step' # "validate"
  <2>1. mem' = target /\ step' = "run"
    BY <1>5, <1>8
  <2> HIDE DEF start, size, L
  <2>2. \A l \in 0 .. 1, i \in 0 .. BlockSize - 1 :
          mem'[Base + l * BlockSize + i] = IF l \in L THEN Erased ELSE block[l][i]
    BY <1>3, <2>1, CellAddress DEF SetMem, block
  <2>3. block' = [l \in 0 .. 1 |-> IF l \in L THEN [i \in 0 .. BlockSize - 1 |-> Erased]
                                             ELSE block[l]]
    BY <2>2 DEF block
  <2>4. user' = user
    BY <1>6, SameUser
  <2>5. block' = [l \in 0 .. 1 |-> IF \E r \in list : l \in Flash!Range(r)
                                  THEN [i \in 0 .. BlockSize - 1 |-> Erased] ELSE block[l]]
    BY <1>d, <2>3
  <2> QED
    BY <1>a, <2>1, <2>4, <2>5 DEF Flash!Erase, Flash!Blocks, Flash!Cells
<1> QED
  BY <1>7, <1>8

(* A store of somebody else's changes no block.                            *)
LEMMA StoreMapped ==
  ASSUME IInv, NEW a \in User, NEW v \in Data, ClientStores(a, v)
  PROVE  v \in Byte /\ Flash!Store(a, v)
<1>1. mem \in [Addr -> Byte]
  BY DEF IInv, TypeOK
<1>2. block' = block
  <2>1. \A c \in Volume : c \in Addr /\ c # a
    BY HeaderAddresses DEF User
  <2> QED
    BY <1>1, <2>1, SameBlock DEF ClientStores
<1>3. user' = [user EXCEPT ![a] = v]
  BY <1>1 DEF ClientStores, user, User
<1> QED
  BY <1>2, <1>3 DEF ClientStores, Flash!Store, Byte, Call

(* The driver implements two separate blocks of flash and touches no other *)
(* memory, for every word size: its sums do not wrap around for a buffer   *)
(* that does not overlap the volume.                                       *)
THEOREM BlocksApart == Spec => KeepsBlocksApart
<1>1. ASSUME Init, IInv
      PROVE  Flash!Init
  BY <1>1, MappedType DEF Init, Flash!Init, IInv, TypeOK
<1>2. ASSUME IInv, IInv', [Next]_vars
      PROVE  [Flash!Next]_<<block, user, step = "run", call>>
  <2>1. CASE UNCHANGED vars
    BY <2>1 DEF vars, block, user
  <2>2. CASE FindVolume \/ Clear \/ CopyTemplate \/ UpdateChecksum \/ Install \/ Reset
    BY <1>2, <2>2, InitializeMapped DEF Flash!Next
  <2>3. ASSUME NEW lba \in Lbas, NEW off \in Offsets, NEW b \in Buffers,
               FvbProtocolWrite(lba, off, b) \/ FvbProtocolRead(lba, off, b)
        PROVE  Flash!Next
    BY <1>2, <2>3, WriteMapped, ReadMapped DEF Flash!Next
  <2>4. ASSUME NEW list \in EraseLists, FvbProtocolEraseBlocks(list)
        PROVE  Flash!Next
    BY <1>2, <2>4, EraseMapped DEF Flash!Next
  <2>5. ASSUME NEW a \in User, NEW v \in Data, ClientStores(a, v)
        PROVE  Flash!Next
    BY <1>2, <2>5, StoreMapped DEF Flash!Next
  <2> QED
    BY <1>2, <2>1, <2>2, <2>3, <2>4, <2>5 DEF Next
<1> QED
  BY <1>1, <1>2, InitInvariant, Invariance, PTL DEF Spec, KeepsBlocksApart, Flash!Spec
=============================================================================
