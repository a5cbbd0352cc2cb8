------------------------------ MODULE MmcBlocks ------------------------------
(***************************************************************************)
(* The block I/O protocol of MMCHSDxe on one device: which transfers it    *)
(* lets through to LittleKernel's driver.  Sums are taken in EFI_LBA, an   *)
(* unsigned number of 64 bits.                                             *)
(***************************************************************************)
EXTENDS Integers

CONSTANTS
  BlockSize, NumBlocks,   \* lkapi_biodev_t's block_size and num_blocks
  LbaSpace,               \* 2^64
  SizeSpace               \* 2^32, the sizes of buffers

ASSUME BlockAssumption ==
  /\ BlockSize \in Nat \ {0} /\ NumBlocks \in Nat \ {0}
  /\ LbaSpace \in Nat /\ SizeSpace \in Nat /\ NumBlocks + SizeSpace < LbaSpace

LastBlock == NumBlocks - 1

(* Lba + BufferSize / BlockSize - 1 wraps around for nothing at block 0.   *)
InRange(lba, size) ==
  /\ lba <= LastBlock
  /\ (lba + (size \div BlockSize) - 1) % LbaSpace <= LastBlock

(* MMCHSReadBlocks and MMCHSWriteBlocks: the device's driver is called.    *)
Accepted(lba, size) == InRange(lba, size) /\ size % BlockSize = 0 /\ size # 0

Transferred(lba, size) == lba .. lba + (size \div BlockSize) - 1
=============================================================================
