---------------------------- MODULE MCBootPolicy ----------------------------
(* Instances of BootPolicy for TLC.                                        *)
EXTENDS BootPolicy

(* Two modes of which the second is larger, a query that fails in between, *)
(* and a console whose queries all fail.                                   *)
TextModes == {<<2000, 0, 3100>>, <<0, 0>>}

(* The two options of the VNOR device are alike.                           *)
Alike == Permutations(VnorOptions)

MCBudget == [k \in {"reset", "fault", "user"} |->
               CASE k = "reset" -> 2 [] k = "fault" -> 1 [] k = "user" -> 1]
=============================================================================
