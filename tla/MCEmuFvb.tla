------------------------------ MODULE MCEmuFvb ------------------------------
(* Instances of EmuFvb for TLC.                                            *)
EXTENDS EmuFvb

(* All blocks, offsets and buffers of a small address space, one block and *)
(* many offsets that do not exist among them, and all lists of two ranges; *)
(* of the empty buffers, one.                                              *)
AllLbas    == 0 .. 2
AllOffsets == 0 .. BlockSize + 1 \cup {Space - 1}
AllBuffers == {b \in [at : User, size : 0 .. 3] :
                 /\ b.at .. (b.at + b.size - 1) \subseteq User
                 /\ b.size = 0 => b.at = 0}
AllLists   == {{r, s} : r, s \in [lba : 0 .. 2, num : 0 .. 2]} \cup {{}}
=============================================================================
