------------------------------ MODULE MCNvVars ------------------------------
(* Instances of NvVars for TLC.                                            *)
EXTENDS NvVars

Bounds(set, fault, reset, signal) ==
  [k \in Kinds |-> CASE k = "set" -> set [] k = "fault" -> fault
                     [] k = "reset" -> reset [] OTHER -> signal]

(* A store that is saved, torn and saved again, with anything going wrong. *)
MirrorBudget == Bounds(2, 1, 2, 1)

(* A save that a reset cuts short; a change during the load of a next boot. *)
TornBudget   == Bounds(1, 0, 1, 0)
NewerBudget  == Bounds(2, 0, 1, 0)
=============================================================================
