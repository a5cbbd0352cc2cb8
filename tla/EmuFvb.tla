------------------------------- MODULE EmuFvb -------------------------------
(***************************************************************************)
(* EmuVariableFvbRuntimeDxe: a buffer in RAM that plays the part of flash  *)
(* of two blocks.  FvbInitialize formats it, unless it finds a valid       *)
(* header in reserved memory; then clients (the variable and the           *)
(* fault-tolerant-write drivers) read, write and erase it.  A reset may    *)
(* come at any time and leaves any part of a copy undone; reserved memory  *)
(* survives a warm one.                                                    *)
(***************************************************************************)
EXTENDS Integers, FiniteSets

CONSTANTS
  BlockSize,  \* PcdFlashNvStorageFtwSpareSize
  Base,       \* address of the buffer
  Space,      \* 2^w: sizes of the address space and of UINTN
  Data,       \* bytes of no meaning to the driver
  Reserved,   \* PcdEmuVariableNvStoreReserved # 0
  Lbas, Offsets, Buffers, EraseLists, \* arguments of the clients' calls
  MaxCalls    \* bound: calls of clients

Fields == "fields"  \* what ValidateFvHeader compares in the volume header
Sum    == "sum"     \* its checksum,
Zero   == "zero"    \* and the template's checksum
Store  == "store"   \* the variable store header
Erased == "ff"
Byte   == Data \cup {Fields, Sum, Zero, Store, Erased}

Addr   == 0 .. Space - 1
Volume == Base .. Base + 2 * BlockSize - 1
User   == Addr \ Volume
Ranges == [lba : Nat, num : Nat]

ASSUME VolumeAssumption ==
  /\ BlockSize \in Nat /\ BlockSize > 3 /\ Base \in Nat /\ Space \in Nat
  /\ Base + 2 * BlockSize <= Space
ASSUME ClientsAssumption ==    \* a buffer is memory, and not the volume's
  /\ Lbas \subseteq Nat /\ Offsets \subseteq Addr
  /\ \A b \in Buffers : /\ b.at \in Addr /\ b.size \in Nat
                        /\ b.at .. (b.at + b.size - 1) \subseteq User
  /\ \A list \in EraseLists : list \subseteq Ranges
  /\ Reserved \in BOOLEAN /\ MaxCalls \in Nat

VARIABLES
  mem,       \* memory
  step,      \* of FvbInitialize; "run" once the protocols are installed
  rewritten, \* history: a client changed the headers
  calls,     \* calls of clients so far
  call       \* history: the last of them in this boot, with its arguments

vars == <<mem, step, rewritten, calls, call>>

NoCall == [op |-> "none"]
Ops    == {"none", "write", "read", "erase", "store"}

(* A sum of two words, and one that wraps around at most once.             *)
Word(x) == IF x < Space THEN x ELSE x - Space

CopyMem(dst, src, n) ==
  [a \in Addr |-> IF a \in dst .. dst + n - 1 THEN mem[src + (a - dst)] ELSE mem[a]]

SetMem(dst, n) == [a \in Addr |-> IF a \in dst .. dst + n - 1 THEN Erased ELSE mem[a]]

(* Memory becomes target and step is next, or a reset comes meanwhile.     *)
Becomes(target, next) ==
  \/ mem' = target /\ step' = next
  \/ /\ Reserved /\ step' = "validate"
     /\ \E S \in SUBSET {a \in Volume : mem[a] # target[a]} :
          mem' = [a \in Addr |-> IF a \in S THEN target[a] ELSE mem[a]]

Init ==
  /\ \E v \in Data \cup {Erased} : mem = [a \in Addr |-> v]
  /\ step = "validate" /\ rewritten = FALSE /\ calls = 0 /\ call = NoCall

-----------------------------------------------------------------------------
(* FvbInitialize.                                                          *)
ValidateFvHeader == mem[Base] = Fields /\ mem[Base + 1] = Sum

(* Mutant of FindVolume: the volume is initialised all the same.           *)
FindVolumeInitializes ==
  /\ step = "validate"
  /\ step' = "clear"
  /\ call' = NoCall
  /\ UNCHANGED <<mem, rewritten, calls>>

FindVolume ==
  /\ step = "validate"
  /\ step' = IF Reserved /\ ValidateFvHeader THEN "install" ELSE "clear"
  /\ call' = NoCall
  /\ UNCHANGED <<mem, rewritten, calls>>

Clear ==
  /\ step = "clear"
  /\ Becomes(SetMem(Base, 2 * BlockSize), "copy")
  /\ rewritten' = (rewritten /\ step' # "copy")
  /\ UNCHANGED <<calls, call>>

(* Mutant of Template: the checksum is part of it.                         *)
TemplateSummed ==
  [mem EXCEPT ![Base] = Fields, ![Base + 1] = Sum, ![Base + 2] = Store]

(* FvAndVarTemplate in place.                                              *)
Template ==
  [mem EXCEPT ![Base] = Fields, ![Base + 1] = Zero, ![Base + 2] = Store]

(* InitializeFvAndVariableStoreHeaders copies the template, then computes  *)
(* the header's checksum.                                                  *)
CopyTemplate ==
  /\ step = "copy"
  /\ Becomes(Template, "sum")
  /\ UNCHANGED <<rewritten, calls, call>>

(* Mutant of UpdateChecksum: it is forgotten.                              *)
UpdateChecksumNot ==
  /\ step = "sum"
  /\ step' = "install"
  /\ UNCHANGED <<mem, rewritten, calls, call>>

UpdateChecksum ==
  /\ step = "sum"
  /\ mem' = [mem EXCEPT ![Base + 1] = Sum] /\ step' = "install"
  /\ UNCHANGED <<rewritten, calls, call>>

Install ==
  /\ step = "install"
  /\ step' = "run"
  /\ UNCHANGED <<mem, rewritten, calls, call>>

-----------------------------------------------------------------------------
(* The clients' calls.  One that returns EFI_INVALID_PARAMETER changes     *)
(* nothing.                                                                *)
Call(c) == step = "run" /\ calls < MaxCalls /\ calls' = calls + 1 /\ call' = c

Refused == UNCHANGED <<mem, step, rewritten>>

Pointer(lba, off) == Base + lba * BlockSize + off
Headers(dst, n)   == \E a \in Base .. Base + 2 : a \in dst .. dst + n - 1
Exists(lba, off)  == lba <= 1 /\ off <= BlockSize

(* Mutant of NumBytes: the size of the buffer decides alone.               *)
NumBytesWhole(off, n) == n

NumBytes(off, n) == IF Word(off + n) > BlockSize THEN BlockSize - off ELSE n

FvbProtocolWrite(lba, off, b) ==
  /\ Call([op |-> "write", lba |-> lba, off |-> off, buf |-> b])
  /\ \/ ~Exists(lba, off) /\ Refused
     \/ /\ Exists(lba, off)
        /\ LET n == NumBytes(off, b.size)
           IN /\ rewritten' = (rewritten \/ Headers(Pointer(lba, off), n))
              /\ Becomes(CopyMem(Pointer(lba, off), b.at, n), "run")

FvbProtocolRead(lba, off, b) ==
  /\ Call([op |-> "read", lba |-> lba, off |-> off, buf |-> b])
  /\ \/ ~Exists(lba, off) /\ Refused
     \/ /\ Exists(lba, off)
        /\ mem' = CopyMem(b.at, Pointer(lba, off), NumBytes(off, b.size))
        /\ UNCHANGED <<step, rewritten>>

(* A list of ranges: one invalid range and nothing is erased.              *)
Invalid(r) == r.num = 0 \/ r.lba > 1 \/ r.lba + r.num > 2

FvbProtocolEraseBlocks(list) ==
  /\ Call([op |-> "erase", list |-> list])
  /\ \/ (\E r \in list : Invalid(r)) /\ Refused
     \/ /\ \A r \in list : ~Invalid(r)
        /\ LET first  == \E r \in list : r.lba = 0
               second == \E r \in list : r.lba + r.num = 2
               start  == IF first THEN Base ELSE Base + BlockSize
               size   == (IF first THEN BlockSize ELSE 0) + (IF second THEN BlockSize ELSE 0)
           IN /\ rewritten' = (rewritten \/ first)
              /\ Becomes(SetMem(start, size), "run")

ClientStores(a, v) ==
  /\ Call([op |-> "store", at |-> a, byte |-> v])
  /\ mem' = [mem EXCEPT ![a] = v]
  /\ UNCHANGED <<step, rewritten>>

(* A warm reset, or a cold one: memory holds anything.                     *)
Reset ==
  /\ step # "validate" /\ step' = "validate"
  /\ \/ Reserved /\ UNCHANGED <<mem, rewritten>>
     \/ /\ \E v \in Data \cup {Erased} :
             mem' = [a \in Addr |-> IF a \in Volume THEN v ELSE mem[a]]
        /\ rewritten' = FALSE
  /\ UNCHANGED <<calls, call>>

-----------------------------------------------------------------------------
Next ==
  \/ FindVolume \/ Clear \/ CopyTemplate \/ UpdateChecksum \/ Install \/ Reset
  \/ \E lba \in Lbas, off \in Offsets, b \in Buffers :
       FvbProtocolWrite(lba, off, b) \/ FvbProtocolRead(lba, off, b)
  \/ \E list \in EraseLists : FvbProtocolEraseBlocks(list)
  \/ \E a \in User, v \in Data : ClientStores(a, v)

Spec == Init /\ [][Next]_vars

-----------------------------------------------------------------------------
(* Properties.                                                             *)

(* Types, and a volume is offered with a valid header, which stays valid   *)
(* as long as the clients leave it alone.                                  *)
TypeOK ==
  /\ mem \in [Addr -> Byte]
  /\ step \in {"validate", "clear", "copy", "sum", "install", "run"}
  /\ rewritten \in BOOLEAN /\ calls \in 0 .. MaxCalls
  /\ call.op \in Ops
  /\ step = "run" /\ ~rewritten => ValidateFvHeader

(* FvbInitialize tells a formatted volume from one whose formatting a      *)
(* reset interrupted: a header that it accepts has a variable store after  *)
(* it.                                                                     *)
FormattedIfValid == ValidateFvHeader /\ ~rewritten => mem[Base + 2] = Store

(* What it finds valid after a reset it leaves as it is.                   *)
FoundVolumeKept ==
  [][Reserved /\ ValidateFvHeader /\ step # "run" /\ step' # "validate" => mem' = mem]_vars

(* The pointers, sizes and bits that the calls compute implement two       *)
(* separate blocks: a write or a read moves just the bytes it names, of    *)
(* the block and at the offset it names, as far as the block goes; an      *)
(* erase clears just the blocks of its list; a call that names a block or  *)
(* an offset there is not changes nothing, an erase with one such range    *)
(* among others included; and nobody else's memory is touched.             *)
block == [l \in 0 .. 1 |-> [i \in 0 .. BlockSize - 1 |-> mem[Base + l * BlockSize + i]]]
user  == [a \in User |-> mem[a]]

Flash == INSTANCE FlashBlocks WITH ready <- step = "run"

KeepsBlocksApart == Flash!Spec
=============================================================================
