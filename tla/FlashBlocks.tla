----------------------------- MODULE FlashBlocks -----------------------------
(***************************************************************************)
(* What a firmware volume of two blocks promises to its clients: a write   *)
(* or a read moves the bytes it names, of the block it names, an erase     *)
(* erases the blocks of its list, a call that names what does not exist    *)
(* does nothing, and a client's memory changes only where it asked for a   *)
(* read.  While the volume is not ready its contents are its driver's      *)
(* business.                                                               *)
(***************************************************************************)
EXTENDS Integers

CONSTANTS BlockSize, Byte, Erased,
          User,       \* the addresses of the clients' memory
          Lbas, Offsets, Buffers, EraseLists \* arguments; buffers lie in User

VARIABLES
  block, user, ready,
  call     \* the last call and its arguments

Blocks   == 0 .. 1
Cells    == 0 .. BlockSize - 1
Contents == [Blocks -> [Cells -> Byte]]

Init == block \in Contents /\ user \in [User -> Byte] /\ ready = FALSE

Bytes(b)    == b.at .. (b.at + b.size - 1)
There(l, o) == l \in Blocks /\ o \in 0 .. BlockSize

(* Buffer b, to or from offset o of block l, up to the end of the block.   *)
Write(l, o, b) ==
  /\ ready /\ call' = [op |-> "write", lba |-> l, off |-> o, buf |-> b]
  /\ block' = IF There(l, o)
              THEN [block EXCEPT ![l] =
                      [i \in Cells |-> IF i \in o .. (o + b.size - 1)
                                       THEN user[b.at + (i - o)] ELSE block[l][i]]]
              ELSE block
  /\ UNCHANGED <<user, ready>>

Read(l, o, b) ==
  /\ ready /\ call' = [op |-> "read", lba |-> l, off |-> o, buf |-> b]
  /\ user' = IF There(l, o)
             THEN [a \in User |-> IF a \in Bytes(b) /\ o + (a - b.at) \in Cells
                                  THEN block[l][o + (a - b.at)] ELSE user[a]]
             ELSE user
  /\ UNCHANGED <<block, ready>>

(* The blocks a range names, and the list of ranges that all exist.        *)
Range(r)       == r.lba .. (r.lba + r.num - 1)
AllThere(list) == \A r \in list : Range(r) # {} /\ Range(r) \subseteq Blocks

Erase(list) ==
  /\ ready /\ call' = [op |-> "erase", list |-> list]
  /\ block' = [l \in Blocks |-> IF AllThere(list) /\ \E r \in list : l \in Range(r)
                                THEN [i \in Cells |-> Erased] ELSE block[l]]
  /\ UNCHANGED <<user, ready>>

Store(a, v) ==
  /\ call' = [op |-> "store", at |-> a, byte |-> v]
  /\ user' = [user EXCEPT ![a] = v]
  /\ UNCHANGED <<block, ready>>

Prepare   == ~ready /\ block' \in Contents /\ ready' \in BOOLEAN /\ UNCHANGED user
PowerLoss == block' \in Contents /\ ready' = FALSE /\ UNCHANGED user

Next ==
  \/ Prepare \/ PowerLoss
  \/ \E list \in EraseLists : Erase(list)
  \/ \E a \in User, v \in Byte : Store(a, v)
  \/ \E l \in Lbas, o \in Offsets, b \in Buffers : Write(l, o, b) \/ Read(l, o, b)

Spec == Init /\ [][Next]_<<block, user, ready, call>>
=============================================================================
