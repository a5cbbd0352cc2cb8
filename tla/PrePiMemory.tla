---------------------------- MODULE PrePiMemory -----------------------------
(***************************************************************************)
(* Where PrePi puts the UEFI memory region, with the stacks at its top,    *)
(* before there is any memory to compute in: _ModuleEntryPoint in          *)
(* registers of 32 bits, then the HOB list that PrePiMain makes of it.     *)
(***************************************************************************)
EXTENDS Integers

CONSTANTS
  Words,  \* 2^32, the values of a register
  Page    \* EFI_PAGE_SIZE

ASSUME WordsAssumption ==
  /\ Words \in Nat /\ Page \in Nat \ {0}
  /\ Page < Words /\ Words % 2 = 0 /\ Words % Page = 0

Wrap(x)     == x % Words
Negative(x) == 2 * x >= Words   \* the N flag
Signed(x)   == IF Negative(x) THEN x - Words ELSE x

(* A placement: where the build put the system memory and the firmware     *)
(* device (FD), and the sizes of the region and of its stacks.             *)
Placement == [base : Nat, end : Nat, fdBase : Nat, fdSize : Nat,
              region : Nat, primary : Nat, secondary : Nat]

(* Memory that ends beyond 32 bits ends at the last address of them.       *)
SystemMemoryTop(p) == IF p.end < Words THEN p.end ELSE Words - 1

FdTop(p) == Wrap(p.fdBase + (p.fdSize - 1))
Room(p)  == Wrap(SystemMemoryTop(p) - FdTop(p))

(* Mutant of AboveFd: the room above the FD is not looked at.              *)
AboveFdUnchecked(p) == TRUE

(* bmi, then bge: above the FD if there is room, and if the FD is outside. *)
AboveFd(p) == Negative(Room(p)) \/ Signed(Room(p)) >= Signed(p.region)

(* r1 = r1 + 1, or its page if that overflows.                             *)
Top(p) == LET r1 == IF AboveFd(p) THEN SystemMemoryTop(p) ELSE p.fdBase IN
          IF r1 + 1 < Words THEN r1 + 1 ELSE r1 - (r1 % Page)

UefiMemoryBase(p) == Wrap(Top(p) - p.region)
StacksBase(p)     == Wrap(Wrap(Top(p) - p.primary) - p.secondary)

(* What PrePiMain declares: the region, the memory in it that HOBs and     *)
(* pages are taken from, and the primary core's stack above that.          *)
UefiRegion(p) == [lo |-> UefiMemoryBase(p), hi |-> UefiMemoryBase(p) + p.region - 1]
FreeMemory(p) == [lo |-> UefiMemoryBase(p), hi |-> StacksBase(p) - 1]
StackHob(p)   == [lo |-> StacksBase(p), hi |-> StacksBase(p) + p.primary - 1]

-----------------------------------------------------------------------------
(* What the build must see to.                                             *)

(* Addresses given up by the alignment of a top that overflows.            *)
Lost(p) == IF p.end + 1 < Words THEN 0 ELSE Page

(* The stacks fit into the region, the region into the memory, and it is   *)
(* less than half of the address space.  The FD lies above the memory, or  *)
(* leaves room above itself, or is at the memory's top with room below.    *)
Sensible(p) ==
  /\ p \in Placement
  /\ 1 < p.fdSize /\ p.fdBase + p.fdSize <= Words
  /\ 0 < p.primary /\ p.primary + p.secondary < p.region /\ 2 * p.region < Words
  /\ p.base + p.region + Lost(p) <= SystemMemoryTop(p) + 1
  /\ \/ p.end < p.fdBase
     \/ p.region + Lost(p) <= SystemMemoryTop(p) - FdTop(p)
     \/ /\ SystemMemoryTop(p) - FdTop(p) \in 0 .. p.region - 1
        /\ p.base + p.region <= p.fdBase + 1
=============================================================================
