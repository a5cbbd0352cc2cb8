----------------------------- MODULE ImageStore -----------------------------
(***************************************************************************)
(* What saving and loading the variables promise.  The device claims to    *)
(* hold an image of them, or nothing, and the claim is kept or not.  A     *)
(* save that reports success leaves the image of what there is to save; a  *)
(* save that fails or is cut short leaves a claim that can be told from a  *)
(* whole image.  A load is a time of its own: it begins only with a whole  *)
(* image and variables that nobody has loaded yet, and until it ends       *)
(* nothing is set to anything but what that image says.                    *)
(***************************************************************************)
CONSTANTS
  Keys, Variable, None,
  NvVars, Loaded,  \* the variable that says that the others were loaded
  Saved(_, _),   \* what is saved of a variable: itself, or None
  Says(_)        \* what an image says of the variables

VARIABLES
  store, claim, whole, status,
  activity       \* "idle", "saving" or "loading"

Empty == [k \in Keys |-> None]
Image == [k \in Keys |-> Saved(k, store[k])]

From(a, b) == activity = a /\ activity' = b

Init ==
  /\ store = Empty /\ Says(claim) = Empty /\ ~whole /\ status = "none" /\ activity = "idle"

(* What ends a save or a load well; that it can fail is not said.          *)
Mark == store' \in {store, [store EXCEPT ![NvVars] = Loaded]}

SaveBegins == From("idle", "saving") /\ UNCHANGED <<store, claim, whole, status>>

SaveOk ==
  /\ From("saving", "idle") /\ status' = "saved" /\ Mark
  /\ whole' /\ Says(claim') = Image

CutShort == whole' \in BOOLEAN /\ (claim' = claim \/ Says(claim') = Image)

SaveFails == From("saving", "idle") /\ status' = "error" /\ UNCHANGED store /\ CutShort

(* There is nothing to load, or it cannot be read.  An image that is not   *)
(* whole may pass for one of no variables, but for no other.               *)
NothingLoaded ==
  /\ From("idle", "idle")
  /\ \/ status' = "error" /\ UNCHANGED store
     \/ ~whole /\ status' = "loaded" /\ Mark
  /\ UNCHANGED <<claim, whole>>

LoadBegins ==
  /\ From("idle", "loading") /\ whole /\ store[NvVars] = None
  /\ UNCHANGED <<store, claim, whole, status>>

LoadVariable(k) ==
  /\ From("loading", "loading") /\ whole /\ Says(claim)[k] # None
  /\ store' = [store EXCEPT ![k] = Says(claim)[k]]
  /\ UNCHANGED <<claim, whole, status>>

LoadEnds ==
  /\ From("loading", "idle")
  /\ \/ status' = "loaded" /\ Mark
     \/ status' = "error" /\ UNCHANGED store
  /\ UNCHANGED <<claim, whole>>

(* Clients, who leave NvVars alone.                                        *)
SetVariable(k) ==
  /\ From("idle", "idle") /\ k # NvVars
  /\ \E v \in Variable \cup {None} : store' = [store EXCEPT ![k] = v]
  /\ UNCHANGED <<claim, whole, status>>

(* Power is lost, in the middle of a save perhaps.                         *)
Reset ==
  /\ activity' = "idle" /\ store' = Empty /\ status' = "none"
  /\ IF activity = "saving" THEN CutShort ELSE UNCHANGED <<claim, whole>>

Next ==
  \/ SaveBegins \/ SaveOk \/ SaveFails
  \/ NothingLoaded \/ LoadBegins \/ LoadEnds \/ Reset
  \/ \E k \in Keys : LoadVariable(k) \/ SetVariable(k)

Spec == Init /\ [][Next]_<<store, claim, whole, status, activity>>
=============================================================================
