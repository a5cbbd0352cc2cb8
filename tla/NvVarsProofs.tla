---------------------------- MODULE NvVarsProofs ----------------------------
(***************************************************************************)
(* Proofs about NvVars, for every set of variables, values and bounds.     *)
(***************************************************************************)
EXTENDS NvVars, TLAPS

USE NamesAssumption, ValuesAssumption, BoundsAssumption
    DEF Names, Values, Cell, Kinds

(* Every image the actions build is an image.                              *)
LEMMA ImageTypes ==
  /\ Empty \in Image
  /\ \A f \in Image : Persistent(f) \in Image
  /\ \A f \in Image : Present(f) \subseteq Names
  /\ \A f \in Image, n \in Names, v \in Cell : [f EXCEPT ![n] = v] \in Image
BY DEF Empty, Image, Persistent, Present

(* A budget that is spent stays a number.                                  *)
LEMMA SpendType ==
  ASSUME budget \in [Kinds -> Nat], NEW k \in Kinds, Spend(k)
  PROVE  budget' \in [Kinds -> Nat]
BY DEF Spend

(* SetNvVarsVariable writes an image, and signals only an armed event.     *)
LEMMA FlagType ==
  ASSUME TypeOK, SetNvVarsVariable
  PROVE  /\ fvb' \in Image
         /\ pending' \in BOOLEAN
         /\ pending' => pending \/ bds = "armed"
         /\ missed' \in BOOLEAN
         /\ budget' \in [Kinds -> Nat]
<1>1. [fvb EXCEPT ![NvFlag] = FlagValue] \in Image
  BY ImageTypes DEF TypeOK
<1>2. CASE PutFvb([fvb EXCEPT ![NvFlag] = FlagValue]) /\ UNCHANGED budget
  BY <1>1, <1>2 DEF PutFvb, TypeOK
<1>3. CASE Spend("fault") /\ UNCHANGED <<fvb, pending, missed>>
  BY <1>3, SpendType DEF TypeOK
<1> QED
  BY <1>2, <1>3 DEF SetNvVarsVariable

(* The load hands over to the save of the connection.                      *)
LEMMA ThenSaveType ==
  ASSUME TypeOK, bds \in {"start", "load"}, NEW s \in {"ok", "error", "already"},
         fvb' \in Image, ThenSave(s)
  PROVE  /\ bds' = "save" /\ saver' = "connect" /\ step' = "collect"
         /\ loaded' = s /\ left' \subseteq Names /\ snap' \in Image
BY ImageTypes DEF ThenSave, StartSave, TypeOK

(* A save returns to the caller it had.                                    *)
LEMMA SaveReturnsType ==
  ASSUME TypeOK, saver # "none", NEW ok \in BOOLEAN, SaveReturns(ok)
  PROVE  /\ saver' = "none" /\ step' = "idle" /\ left' = {} /\ snap' \in Image
         /\ saveErr' \in BOOLEAN
         /\ saver = "connect" => bds' \in {"connected", "unconnected"}
         /\ saver = "event" => bds' = bds
BY ImageTypes DEF SaveReturns, TypeOK

(***************************************************************************)
(* The type invariant, action by action.  The interesting part is who runs *)
(* when: the handler's save and BDS's save never meet.                     *)
(***************************************************************************)
LEMMA TypeLoad == TypeOK /\ Load => TypeOK'
<1> SUFFICES ASSUME TypeOK, Load PROVE TypeOK'
  OBVIOUS
<1> USE DEF device, history, Phase
<1>1. CASE ConnectFails
  BY <1>1, SpendType DEF ConnectFails, TypeOK
<1>2. CASE LoadSkipped
  BY <1>2, ThenSaveType DEF LoadSkipped, TypeOK
<1>3. CASE ReadFails
  BY <1>3, ThenSaveType, SpendType DEF ReadFails, TypeOK
<1>4. CASE ReadCrcMismatch
  BY <1>4, ThenSaveType, FlagType DEF ReadCrcMismatch, TypeOK
<1>5. CASE ReadImage
  BY <1>5, ImageTypes DEF ReadImage, TypeOK, Allowed
<1>6. CASE LoadDone
  BY <1>6, ThenSaveType, FlagType DEF LoadDone, TypeOK
<1>7. ASSUME NEW n \in Names, LoadVariable(n)
      PROVE  TypeOK'
  <2>1. [fvb EXCEPT ![n] = blk[n]] \in Image
    BY <1>7, ImageTypes DEF TypeOK, Image
  <2> QED
    BY <1>7, <2>1 DEF LoadVariable, TypeOK, PutFvb
<1>8. ASSUME NEW n \in Names, LoadVariableFails(n)
      PROVE  TypeOK'
  <2>1. budget' \in [Kinds -> Nat]
    BY <1>8, SpendType DEF LoadVariableFails, TypeOK
  <2>2. [fvb EXCEPT ![NvFlag] = FlagValue] \in Image
    BY ImageTypes DEF TypeOK
  <2>3. CASE left = {n}
    BY <1>8, <2>1, <2>2, <2>3, ThenSaveType DEF LoadVariableFails, TypeOK, PutFvb
  <2>4. CASE left # {n}
    BY <1>8, <2>1, <2>4, ThenSaveType DEF LoadVariableFails, TypeOK
  <2> QED
    BY <2>3, <2>4
<1>9. ASSUME NEW n \in Names, LoadVariableIgnored(n)
      PROVE  TypeOK'
  BY <1>9, SpendType DEF LoadVariableIgnored, TypeOK
<1> QED
  BY <1>1, <1>2, <1>3, <1>4, <1>5, <1>6, <1>7, <1>8, <1>9 DEF Load

(* The steps of a save preserve the types.                                 *)
LEMMA TypeSave == TypeOK /\ Save => TypeOK'
<1> SUFFICES ASSUME TypeOK, Save PROVE TypeOK'
  OBVIOUS
<1> USE DEF device, history, Phase
<1>1. CASE CollectFails
  BY <1>1, SaveReturnsType, SpendType, ZenonT(40) DEF CollectFails, TypeOK
<1>2. CASE Serialized
  BY <1>2 DEF Serialized, TypeOK, Allowed
<1>3. CASE WriteFails
  BY <1>3, SaveReturnsType, SpendType DEF WriteFails, TypeOK
<1>4. CASE WriteDone
  BY <1>4, SaveReturnsType, FlagType DEF WriteDone, TypeOK
<1>5. ASSUME NEW n \in Names, Collect(n)
      PROVE  TypeOK'
  <2>1. snap' \in Image
    BY <1>5, ImageTypes DEF Collect, TypeOK, Image
  <2> QED
    BY <1>5, <2>1 DEF Collect, TypeOK
<1>6. ASSUME NEW b \in Names \cup {Header}, WriteBlock(b)
      PROVE  TypeOK'
  <2>1. hdr' \in Image \cup {NoHeader} /\ blk' \in Image
    BY <1>6, ImageTypes DEF WriteBlock, TypeOK, Image
  <2> QED
    BY <1>6, <2>1 DEF WriteBlock, TypeOK
<1> QED
  BY <1>1, <1>2, <1>3, <1>4, <1>5, <1>6 DEF Save

(* So do the event's, the clients' and the resets'.                        *)
LEMMA TypeRest ==
  TypeOK /\ (Event \/ Client \/ ExitBootServices \/ Reset \/ UNCHANGED vars) => TypeOK'
<1> SUFFICES ASSUME TypeOK,
                    Event \/ Client \/ ExitBootServices \/ Reset \/ UNCHANGED vars
             PROVE  TypeOK'
  OBVIOUS
<1> USE DEF device, history, Phase
<1>1. CASE CreateEvent
  BY <1>1 DEF CreateEvent, TypeOK
<1>2. CASE EmuVariablesUpdatedCallback
  BY <1>2, ImageTypes DEF EmuVariablesUpdatedCallback, StartSave, TypeOK
<1>3. CASE ArmEvent
  BY <1>3 DEF ArmEvent, TypeOK
<1>4. CASE DevicePathInstalled
  BY <1>4, SpendType DEF DevicePathInstalled, TypeOK
<1>5. ASSUME NEW n \in Names, NEW v \in Vals \cup {None}, SetVariable(n, v)
      PROVE  TypeOK'
  <2>1. [fvb EXCEPT ![n] = v] \in Image
    BY ImageTypes DEF TypeOK
  <2> QED
    BY <1>5, <2>1, SpendType DEF SetVariable, PutFvb, IterationDisturbed, TypeOK
<1>6. ASSUME NEW n \in Names, SetVolatileVariable(n)
      PROVE  TypeOK'
  BY <1>6, SpendType DEF SetVolatileVariable, IterationDisturbed, TypeOK
<1>7. CASE ExitBootServices
  BY <1>7 DEF ExitBootServices, TypeOK
<1>8. CASE Reset
  BY <1>8, SpendType, ImageTypes, ZenonT(40) DEF Reset, TypeOK
<1>9. CASE UNCHANGED vars
  BY <1>9 DEF vars, TypeOK
<1> QED
  BY <1>1, <1>2, <1>3, <1>4, <1>5, <1>6, <1>7, <1>8, <1>9 DEF Event, Client

(* The variables keep their types, and the saver of the moment is the one  *)
(* the boot phase allows: SaveNvVarsToBlockIo is never entered twice.      *)
THEOREM TypeCorrect == Spec => []TypeOK
<1>1. Init => TypeOK
  BY ImageTypes DEF Init, TypeOK, Phase
<1>2. TypeOK /\ [Next]_vars => TypeOK'
  BY TypeLoad, TypeSave, TypeRest DEF Next
<1> QED
  BY <1>1, <1>2, PTL DEF Spec

-----------------------------------------------------------------------------
(***************************************************************************)
(* The inductive invariant behind QuietImpliesClean.  While the handler    *)
(* writes, each block is the old one or the snapshot's, and the snapshot   *)
(* is what the variables still are; between saves the device is clean      *)
(* unless something says it may not be.                                    *)
(***************************************************************************)
FilteredAbsent ==
  \A n \in Filtered : blk[n] = None /\ snap[n] = None

EventCollecting ==
  saver = "event" /\ step = "collect" => \A n \in Allowed : snap[n] \in {None, fvb[n]}

EventWriting ==
  saver = "event" /\ step = "write" =>
    /\ Header \notin left => hdr = snap
    /\ \A n \in Allowed \ left : blk[n] = snap[n]

CleanOrFlagged ==
  bds \in {"arming", "armed"} /\ saver = "none" /\ ~pending /\ ~saveErr /\ ~missed => Clean

IInv ==
  FilteredAbsent /\ EventSnapshotExact /\ EventCollecting /\ EventWriting /\ CleanOrFlagged

(* Two images that agree on every name are equal.                          *)
LEMMA ImageEq ==
  ASSUME NEW f \in Image, NEW g \in Image, \A n \in Names : f[n] = g[n]
  PROVE  f = g
BY DEF Image

(* The flag's write changes nothing, or leaves a mark behind.              *)
LEMMA FlagMarks ==
  ASSUME TypeOK, SetNvVarsVariable, bds \in {"arming", "armed"}
  PROVE  fvb' = fvb \/ pending' \/ missed'
BY DEF SetNvVarsVariable, PutFvb

(* The steps of a load preserve the invariant.                             *)
LEMMA IInvLoad == TypeOK /\ IInv /\ Load => IInv'
<1> SUFFICES ASSUME TypeOK, IInv, Load PROVE IInv'
  OBVIOUS
<1>1. bds' \in {"start", "load", "save", "unconnected"} /\ saver' \in {"none", "connect"}
  BY DEF Load, ConnectFails, LoadSkipped, ReadFails, ReadCrcMismatch, ReadImage, LoadDone,
         LoadVariable, LoadVariableIgnored, LoadVariableFails, ThenSave, StartSave, TypeOK
<1>2. blk' = blk /\ (snap' = snap \/ snap' = Empty)
  BY DEF Load, ConnectFails, LoadSkipped, ReadFails, ReadCrcMismatch, ReadImage, LoadDone,
         LoadVariable, LoadVariableIgnored, LoadVariableFails, ThenSave, StartSave, device
<1>3. FilteredAbsent'
  BY <1>2 DEF IInv, FilteredAbsent, Empty
<1> QED
  BY <1>1, <1>3 DEF IInv, EventSnapshotExact, EventCollecting, EventWriting, CleanOrFlagged

(* The steps of a save preserve the invariant.                             *)
LEMMA IInvSave == TypeOK /\ IInv /\ Save => IInv'
<1> SUFFICES ASSUME TypeOK, IInv, Save PROVE IInv'
  OBVIOUS
<1> USE DEF IInv, device, history
<1>1. CASE CollectFails \/ WriteFails
  <2>1. saver # "none" /\ SaveReturns(FALSE) /\ UNCHANGED <<blk, hdr, fvb, pending, missed>>
    BY <1>1 DEF CollectFails, WriteFails, TypeOK
  <2>2. saver' = "none" /\ snap' = Empty
    BY <2>1 DEF SaveReturns
  <2>3. saver = "event" => saveErr'
    BY <2>1 DEF SaveReturns
  <2>4. saver = "connect" => bds' = "unconnected"
    BY <2>1 DEF SaveReturns
  <2>5. FilteredAbsent'
    BY <2>1, <2>2 DEF FilteredAbsent, Empty
  <2> QED
    BY <2>1, <2>2, <2>3, <2>4, <2>5 DEF EventSnapshotExact, EventCollecting, EventWriting, CleanOrFlagged, TypeOK
<1>2. CASE Serialized
  <2>1. snap \in Image /\ Persistent(fvb) \in Image
    BY ImageTypes DEF TypeOK
  <2>2. saver = "event" => snap = Persistent(fvb)
    <3> SUFFICES ASSUME saver = "event" PROVE \A n \in Names : snap[n] = Persistent(fvb)[n]
      BY <2>1, ImageEq
    <3> QED
      BY <1>2 DEF Serialized, EventSnapshotExact, FilteredAbsent, Persistent, Allowed
  <2>3. FilteredAbsent'
    BY <1>2 DEF Serialized, FilteredAbsent
  <2> QED
    BY <1>2, <2>2, <2>3
    DEF Serialized, EventSnapshotExact, EventCollecting, EventWriting, CleanOrFlagged, TypeOK, Persistent
<1>3. CASE WriteDone
  <2>1. saver' = "none" /\ snap' = Empty /\ blk' = blk /\ hdr' = hdr /\ SetNvVarsVariable
    BY <1>3 DEF WriteDone, SaveReturns
  <2>2. FilteredAbsent'
    BY <2>1 DEF FilteredAbsent, Empty
  <2>3. CASE saver = "event"
    <3>1. bds \in {"arming", "armed"} /\ blk \in Image /\ snap \in Image
      BY <2>3 DEF TypeOK
    <3>2. hdr = snap /\ snap = Persistent(fvb)
      BY <1>3, <2>3 DEF WriteDone, EventWriting, EventSnapshotExact
    <3>3. \A n \in Names : blk[n] = snap[n]
      BY <1>3, <2>3 DEF WriteDone, EventWriting, FilteredAbsent, Allowed
    <3>4. Clean
      BY <3>1, <3>2, <3>3, ImageEq DEF Clean, CrcOk
    <3>5. fvb' = fvb \/ pending' \/ missed'
      BY <2>1, <3>1, FlagMarks
    <3>6. fvb' = fvb => Clean'
      BY <3>4, <2>1 DEF Clean, CrcOk, Persistent
    <3> QED
      BY <2>1, <2>2, <3>5, <3>6 DEF EventSnapshotExact, EventCollecting, EventWriting, CleanOrFlagged
  <2>4. CASE saver = "connect"
    <3>1. bds' = "connected"
      BY <1>3, <2>4 DEF WriteDone, SaveReturns
    <3> QED
      BY <2>1, <2>2, <3>1 DEF EventSnapshotExact, EventCollecting, EventWriting, CleanOrFlagged
  <2> QED
    BY <1>3, <2>3, <2>4 DEF WriteDone, TypeOK
<1>4. ASSUME NEW n \in Names, Collect(n)
      PROVE  IInv'
  <2>1. snap \in Image /\ fvb \in Image
    BY DEF TypeOK
  <2>2. FilteredAbsent'
    BY <1>4, <2>1 DEF Collect, FilteredAbsent, Allowed, Image
  <2>3. EventSnapshotExact'
    <3> SUFFICES ASSUME saver = "event" PROVE \A m \in Allowed \ left' : snap'[m] = fvb[m]
      BY <1>4 DEF Collect, EventSnapshotExact
    <3>1. snap[n] = fvb[n] \/ n \in left
      BY <1>4 DEF Collect
    <3>2. \A m \in Allowed \ left : snap[m] = fvb[m]
      BY <1>4 DEF Collect, EventSnapshotExact
    <3>3. CASE n \in Allowed /\ fvb[n] # None
      BY <1>4, <2>1, <3>2, <3>3 DEF Collect, Allowed, Image
    <3>4. CASE n \in Allowed /\ fvb[n] = None
      BY <1>4, <3>2, <3>4 DEF Collect, EventCollecting
    <3>5. CASE n \notin Allowed
      BY <1>4, <3>2, <3>5 DEF Collect
    <3> QED
      BY <3>3, <3>4, <3>5
  <2>4. EventCollecting'
    BY <1>4, <2>1 DEF Collect, EventCollecting, Allowed, Image
  <2> QED
    BY <1>4, <2>2, <2>3, <2>4 DEF Collect, EventWriting, CleanOrFlagged, TypeOK
<1>5. ASSUME NEW b \in Names \cup {Header}, WriteBlock(b)
      PROVE  IInv'
  <2>1. blk \in Image /\ snap \in Image
    BY DEF TypeOK
  <2>2. FilteredAbsent'
    BY <1>5, <2>1 DEF WriteBlock, FilteredAbsent, Image
  <2>3. EventWriting'
    BY <1>5, <2>1 DEF WriteBlock, EventWriting, Allowed, Image
  <2> QED
    BY <1>5, <2>2, <2>3 DEF WriteBlock, EventSnapshotExact, EventCollecting, CleanOrFlagged, TypeOK, Persistent
<1> QED
  BY <1>1, <1>2, <1>3, <1>4, <1>5 DEF Save

(* So do the event's, the clients' and the resets' steps.                  *)
LEMMA IInvRest ==
  TypeOK /\ IInv /\ (Event \/ Client \/ ExitBootServices \/ Reset \/ UNCHANGED vars) => IInv'
<1> SUFFICES ASSUME TypeOK, IInv,
                    Event \/ Client \/ ExitBootServices \/ Reset \/ UNCHANGED vars
             PROVE  IInv'
  OBVIOUS
<1> USE DEF IInv, device, history, FilteredAbsent
<1>1. CASE CreateEvent
  BY <1>1 DEF CreateEvent, EventSnapshotExact, EventCollecting, EventWriting, CleanOrFlagged, TypeOK
<1>2. CASE EmuVariablesUpdatedCallback
  <2>1. saver' = "event" /\ step' = "collect" /\ snap' = Empty /\ left' = Present(fvb) \cup vol
        /\ fvb' = fvb /\ blk' = blk
    BY <1>2 DEF EmuVariablesUpdatedCallback, StartSave
  <2>2. \A n \in Allowed \ left' : snap'[n] = fvb[n]
    BY <2>1 DEF Empty, Present, Allowed
  <2>3. \A n \in Allowed : snap'[n] = None
    BY <2>1 DEF Empty, Allowed
  <2>4. FilteredAbsent'
    BY <2>1 DEF Empty
  <2> QED
    BY <2>1, <2>2, <2>3, <2>4 DEF EventSnapshotExact, EventCollecting, EventWriting, CleanOrFlagged
<1>3. CASE ArmEvent
  BY <1>3 DEF ArmEvent, EventSnapshotExact, EventCollecting, EventWriting, CleanOrFlagged, Clean,
              CrcOk, Persistent
<1>4. CASE DevicePathInstalled
  BY <1>4 DEF DevicePathInstalled, EventSnapshotExact, EventCollecting, EventWriting, CleanOrFlagged
<1>5. ASSUME NEW n \in Names, NEW v \in Vals \cup {None}, SetVariable(n, v)
      PROVE  IInv'
  <2>1. [fvb EXCEPT ![n] = v] # fvb
    BY <1>5 DEF SetVariable, TypeOK, Image
  <2>2. bds' \in {"arming", "armed"} => pending' \/ missed'
    BY <1>5, <2>1 DEF SetVariable, PutFvb
  <2> QED
    BY <1>5, <2>2 DEF SetVariable, EventSnapshotExact, EventCollecting, EventWriting, CleanOrFlagged
<1>6. ASSUME NEW n \in Names, SetVolatileVariable(n)
      PROVE  IInv'
  BY <1>6 DEF SetVolatileVariable, EventSnapshotExact, EventCollecting, EventWriting,
              CleanOrFlagged, Clean, CrcOk, Persistent
<1>7. CASE ExitBootServices
  BY <1>7 DEF ExitBootServices, EventSnapshotExact, EventCollecting, EventWriting, CleanOrFlagged,
              TypeOK
<1>8. CASE Reset
  BY <1>8 DEF Reset, Empty, EventSnapshotExact, EventCollecting, EventWriting, CleanOrFlagged
<1>9. CASE UNCHANGED vars
  BY <1>9 DEF vars, EventSnapshotExact, EventCollecting, EventWriting, CleanOrFlagged, Clean, CrcOk,
              Persistent
<1> QED
  BY <1>1, <1>2, <1>3, <1>4, <1>5, <1>6, <1>7, <1>8, <1>9 DEF Event, Client

(* The invariant holds in every state.                                     *)
LEMMA Inductive == Spec => []IInv
<1>1. Init => IInv
  BY DEF Init, IInv, FilteredAbsent, EventSnapshotExact, EventCollecting, EventWriting,
         CleanOrFlagged, Empty
<1>2. TypeOK /\ IInv /\ [Next]_vars => IInv'
  BY IInvLoad, IInvSave, IInvRest DEF Next
<1> QED
  BY <1>1, <1>2, TypeCorrect, PTL DEF Spec

(* In every quiet state the device holds the savable variables under a     *)
(* matching CRC, unless the last save failed or a change fell into the     *)
(* window before PcdEmuVariableEvent is set: no other change can escape    *)
(* the event and its handler.                                              *)
THEOREM QuietClean == Spec => []QuietImpliesClean
<1>1. IInv => QuietImpliesClean
  BY DEF IInv, CleanOrFlagged, QuietImpliesClean, Quiet
<1> QED
  BY <1>1, Inductive, PTL

(* The handler always writes one moment's variables.                       *)
THEOREM EventSnapshot == Spec => []EventSnapshotExact
<1>1. IInv => EventSnapshotExact
  BY DEF IInv
<1> QED
  BY <1>1, Inductive, PTL

-----------------------------------------------------------------------------
(***************************************************************************)
(* The inductive invariant behind UntouchedFromImage.  Before the load the *)
(* store is empty but for what clients wrote; while it runs, the device is *)
(* the image it started from and a variable is still to come, as in the    *)
(* image, or changed by a client; and what is on the device was allowed.   *)
(***************************************************************************)
Untouched == Names \ (touched \cup {NvFlag})

StartsEmpty    == bds = "start" => \A n \in Untouched : fvb[n] = None
Loading        == bds = "load" => /\ hdr = base /\ blk = base
                                  /\ \A n \in Untouched :
                                       n \in left \/ fvb[n] = base[n] \/ ~complete
HeaderFiltered == hdr # NoHeader => \A n \in Filtered : hdr[n] = None

StoreInv ==
  StartsEmpty /\ Loading /\ HeaderFiltered /\ UntouchedFromImage

(* A step that changes no variable but the flag and those it marks as      *)
(* touched, and does not begin or advance a load, nor end one well.        *)
LEMMA StoreKept ==
  ASSUME TypeOK, StoreInv,
         base' = base, complete' => complete /\ (bds' = "load" \/ bds # "load"),
         touched \subseteq touched',
         \A n \in Names : \/ fvb'[n] = fvb[n] \/ n \in touched'
                          \/ n = NvFlag /\ fvb'[n] # None,
         bds' \in {"start", "load"} => /\ bds' = bds /\ hdr' = hdr /\ blk' = blk
                                       /\ left' = left /\ complete' = complete,
         hdr' = hdr \/ HeaderFiltered'
  PROVE  StoreInv'
<1>1. \A n \in Untouched' : n \in Untouched /\ fvb'[n] = fvb[n]
  BY DEF Untouched
<1>2. StartsEmpty' /\ Loading'
  BY <1>1 DEF StoreInv, StartsEmpty, Loading
<1>3. HeaderFiltered'
  BY DEF StoreInv, HeaderFiltered
<1>4. UntouchedFromImage'
  BY <1>1 DEF StoreInv, UntouchedFromImage, Untouched
<1> QED
  BY <1>2, <1>3, <1>4 DEF StoreInv

(* SetNvVarsVariable sets the flag and no other variable.                  *)
LEMMA FlagOnly ==
  ASSUME NEW f \in Image, NEW g, g = [f EXCEPT ![NvFlag] = FlagValue] \/ g = f
  PROVE  \A n \in Names : g[n] = f[n] \/ (n = NvFlag /\ g[n] # None)
<1>1. DOMAIN f = Names /\ FlagValue # None
  BY DEF Image
<1> HIDE NamesAssumption, ValuesAssumption, BoundsAssumption DEF Names, Values, Cell, Kinds
<1>2. CASE g = f
  BY <1>2
<1>3. CASE g = [f EXCEPT ![NvFlag] = FlagValue]
  <2>1. \A n \in Names : g[n] = IF n = NvFlag THEN FlagValue ELSE f[n]
    BY <1>1, <1>3
  <2> QED
    BY <1>1, <2>1
<1> QED
  BY <1>2, <1>3

(* A load keeps the invariant: it takes each variable from the image.      *)
LEMMA StoreLoad == TypeOK /\ IInv /\ StoreInv /\ Load => StoreInv'
<1> SUFFICES ASSUME TypeOK, IInv, StoreInv, Load PROVE StoreInv'
  OBVIOUS
<1> USE DEF device, history
<1>1. CASE ConnectFails
  BY <1>1, StoreKept DEF ConnectFails
<1>2. CASE LoadSkipped
  BY <1>2, StoreKept DEF LoadSkipped, ThenSave
<1>3. CASE ReadFails
  BY <1>3, StoreKept DEF ReadFails, ThenSave
<1>4. CASE ReadCrcMismatch
  <2>1. \A n \in Names : fvb'[n] = fvb[n] \/ (n = NvFlag /\ fvb'[n] # None)
    BY <1>4, FlagOnly DEF ReadCrcMismatch, SetNvVarsVariable, PutFvb, TypeOK
  <2> QED
    BY <1>4, <2>1, StoreKept DEF ReadCrcMismatch, ThenSave
<1>5. CASE ReadImage
  <2>1. /\ bds = "start" /\ bds' = "load" /\ fvb[NvFlag] = None /\ hdr = blk /\ base' = hdr
        /\ left' = Present(blk) \cap Allowed
        /\ fvb' = fvb /\ hdr' = hdr /\ blk' = blk /\ touched' = touched
    BY <1>5 DEF ReadImage, CrcOk
  <2>2. \A n \in Untouched : fvb[n] = None
    BY <2>1 DEF StoreInv, StartsEmpty
  <2>3. \A n \in Names : n \in left' \/ blk[n] = None
    BY <2>1 DEF Present, Allowed, IInv, FilteredAbsent
  <2>4. Untouched' = Untouched
    BY <2>1 DEF Untouched
  <2>5. StartsEmpty' /\ HeaderFiltered'
    BY <2>1 DEF StoreInv, StartsEmpty, HeaderFiltered
  <2>6. Loading'
    BY <2>1, <2>2, <2>3, <2>4 DEF Loading, Untouched
  <2>7. UntouchedFromImage'
    BY <2>1, <2>2 DEF UntouchedFromImage, Untouched
  <2> QED
    BY <2>5, <2>6, <2>7 DEF StoreInv
<1>6. CASE LoadDone
  <2>1. /\ bds = "load" /\ left = {} /\ bds' = "save" /\ SetNvVarsVariable
        /\ hdr' = hdr /\ base' = base /\ touched' = touched /\ complete' = complete
    BY <1>6 DEF LoadDone, ThenSave
  <2>2. \A n \in Names : fvb'[n] = fvb[n] \/ (n = NvFlag /\ fvb'[n] # None)
    BY <2>1, FlagOnly DEF SetNvVarsVariable, PutFvb, TypeOK
  <2>3. complete => \A n \in Untouched : fvb[n] = base[n]
    BY <2>1 DEF StoreInv, Loading
  <2>4. StartsEmpty' /\ Loading' /\ HeaderFiltered'
    BY <2>1 DEF StoreInv, StartsEmpty, Loading, HeaderFiltered
  <2>5. UntouchedFromImage'
    BY <2>1, <2>2, <2>3 DEF StoreInv, UntouchedFromImage, Untouched
  <2> QED
    BY <2>4, <2>5 DEF StoreInv
<1>7. ASSUME NEW m \in Names, LoadVariable(m)
      PROVE  StoreInv'
  <2>1. /\ bds = "load" /\ bds' = "load" /\ left' = left \ {m}
        /\ fvb' = [fvb EXCEPT ![m] = blk[m]]
        /\ hdr' = hdr /\ blk' = blk /\ base' = base /\ complete' = complete
        /\ touched' = touched
    BY <1>7 DEF LoadVariable, PutFvb
  <2>2. hdr = base /\ blk = base
    BY <2>1 DEF StoreInv, Loading
  <2>3. \A n \in Names : fvb'[n] = IF n = m THEN base[n] ELSE fvb[n]
    BY <2>1, <2>2 DEF TypeOK, Image
  <2>4. Untouched' = Untouched
    BY <2>1 DEF Untouched
  <2>5. StartsEmpty' /\ HeaderFiltered'
    BY <2>1, <2>2 DEF StoreInv, StartsEmpty, HeaderFiltered
  <2>6. Loading'
    BY <2>1, <2>2, <2>3, <2>4 DEF StoreInv, Loading, Untouched
  <2>7. UntouchedFromImage'
    BY <2>1, <2>3 DEF StoreInv, UntouchedFromImage
  <2> QED
    BY <2>5, <2>6, <2>7 DEF StoreInv
<1>8. ASSUME NEW m \in Names, LoadVariableFails(m)
      PROVE  StoreInv'
  <2>1. \A n \in Names : fvb'[n] = fvb[n] \/ (n = NvFlag /\ fvb'[n] # None)
    BY <1>8, FlagOnly DEF LoadVariableFails, PutFvb, TypeOK
  <2>2. bds' = "save"
    BY <1>8 DEF LoadVariableFails, ThenSave
  <2> QED
    BY <1>8, <2>1, <2>2, StoreKept DEF LoadVariableFails
<1>9. ASSUME NEW m \in Names, LoadVariableIgnored(m)
      PROVE  StoreInv'
  <2>1. /\ bds = "load" /\ bds' = "load" /\ complete' = FALSE
        /\ UNCHANGED <<fvb, hdr, blk, base, touched>>
    BY <1>9 DEF LoadVariableIgnored
  <2> QED
    BY <2>1 DEF StoreInv, StartsEmpty, Loading, HeaderFiltered, UntouchedFromImage, Untouched
<1> QED
  BY <1>1, <1>2, <1>3, <1>4, <1>5, <1>6, <1>7, <1>8, <1>9 DEF Load

(* A save never runs while variables are loaded, and writes allowed ones.  *)
LEMMA StoreSave == TypeOK /\ IInv /\ StoreInv /\ Save => StoreInv'
<1> SUFFICES ASSUME TypeOK, IInv, StoreInv, Save PROVE StoreInv'
  OBVIOUS
<1> USE DEF device, history
<1>1. step # "idle" => bds \notin {"start", "load"}
  BY DEF TypeOK
<1>2. ASSUME NEW ok, SaveReturns(ok), step # "idle"
      PROVE  bds \notin {"start", "load"} /\ bds' \notin {"start", "load"}
  BY <1>1, <1>2 DEF SaveReturns
<1>3. CASE CollectFails
  BY <1>2, <1>3, StoreKept DEF CollectFails
<1>4. CASE Serialized
  BY <1>1, <1>4, StoreKept DEF Serialized
<1>5. CASE WriteFails
  BY <1>2, <1>5, StoreKept DEF WriteFails
<1>6. CASE WriteDone
  <2>1. \A n \in Names : fvb'[n] = fvb[n] \/ (n = NvFlag /\ fvb'[n] # None)
    BY <1>6, FlagOnly DEF WriteDone, SetNvVarsVariable, PutFvb, TypeOK
  <2> QED
    BY <1>2, <1>6, <2>1, StoreKept DEF WriteDone
<1>7. ASSUME NEW n \in Names, Collect(n)
      PROVE  StoreInv'
  BY <1>1, <1>7, StoreKept DEF Collect
<1>8. ASSUME NEW b \in Names \cup {Header}, WriteBlock(b)
      PROVE  StoreInv'
  <2>1. hdr' = hdr \/ hdr' = snap
    BY <1>8 DEF WriteBlock
  <2>2. hdr' = hdr \/ HeaderFiltered'
    BY <2>1 DEF HeaderFiltered, IInv, FilteredAbsent
  <2> QED
    BY <1>1, <1>8, <2>2, StoreKept DEF WriteBlock
<1> QED
  BY <1>3, <1>4, <1>5, <1>6, <1>7, <1>8 DEF Save

(* A client marks what it changes, and a reset empties the store or leaves *)
(* everything in it marked as changed.                                     *)
LEMMA StoreRest ==
  TypeOK /\ StoreInv /\ (Event \/ Client \/ ExitBootServices \/ Reset \/ UNCHANGED vars)
    => StoreInv'
<1> SUFFICES ASSUME TypeOK, StoreInv,
                    Event \/ Client \/ ExitBootServices \/ Reset \/ UNCHANGED vars
             PROVE  StoreInv'
  OBVIOUS
<1> USE DEF device, history
<1>1. CASE CreateEvent
  BY <1>1, StoreKept DEF CreateEvent
<1>2. CASE EmuVariablesUpdatedCallback
  BY <1>2, StoreKept DEF EmuVariablesUpdatedCallback
<1>3. CASE ArmEvent
  BY <1>3, StoreKept DEF ArmEvent
<1>4. CASE DevicePathInstalled
  BY <1>4, StoreKept DEF DevicePathInstalled
<1>5. ASSUME NEW n \in Names, NEW v \in Vals \cup {None}, SetVariable(n, v)
      PROVE  StoreInv'
  <2>1. /\ n # NvFlag /\ fvb' = [fvb EXCEPT ![n] = v] /\ touched' = touched \cup {n}
        /\ base' = base /\ complete' = complete /\ bds' = bds /\ hdr' = hdr /\ blk' = blk
    BY <1>5 DEF SetVariable, PutFvb
  <2>2. \A m \in Names : fvb'[m] = fvb[m] \/ m \in touched'
    BY <2>1 DEF TypeOK, Image
  <2>3. bds' \in {"start", "load"} => left' = left
    BY <1>5, <2>1 DEF SetVariable, IterationDisturbed, TypeOK
  <2> QED
    BY <2>1, <2>2, <2>3, StoreKept
<1>6. ASSUME NEW n \in Names, SetVolatileVariable(n)
      PROVE  StoreInv'
  <2>1. bds' \in {"start", "load"} => left' = left
    BY <1>6 DEF SetVolatileVariable, IterationDisturbed, TypeOK
  <2> QED
    BY <1>6, <2>1, StoreKept DEF SetVolatileVariable
<1>7. CASE ExitBootServices
  BY <1>7, StoreKept DEF ExitBootServices
<1>8. CASE Reset
  <2>1. bds' = "start" /\ hdr' = hdr
    BY <1>8 DEF Reset
  <2>2. CASE fvb' = Empty /\ base' = Empty /\ touched' = {}
    BY <2>1, <2>2 DEF StoreInv, StartsEmpty, Loading, HeaderFiltered,
                      UntouchedFromImage, Untouched, Empty
  <2>3. CASE touched' = Names /\ fvb' = fvb
    <3>1. Untouched' = {}
      BY <2>3 DEF Untouched
    <3>2. StartsEmpty' /\ Loading' /\ HeaderFiltered'
      BY <2>1, <2>3, <3>1
      DEF StoreInv, StartsEmpty, Loading, HeaderFiltered
    <3>3. UntouchedFromImage'
      BY <2>3 DEF UntouchedFromImage
    <3> QED
      BY <3>2, <3>3 DEF StoreInv
  <2> QED
    BY <1>8, <2>2, <2>3 DEF Reset
<1>9. CASE UNCHANGED vars
  BY <1>9, StoreKept DEF vars
<1> QED
  BY <1>1, <1>2, <1>3, <1>4, <1>5, <1>6, <1>7, <1>8, <1>9 DEF Event, Client

(* The store agrees with the image it was loaded from.                     *)
LEMMA StoreInductive == Spec => []StoreInv
<1>1. Init => StoreInv
  BY DEF Init, StoreInv, StartsEmpty, Loading, HeaderFiltered,
         UntouchedFromImage, Untouched, Empty
<1>2. TypeOK /\ IInv /\ StoreInv /\ [Next]_vars => StoreInv'
  BY StoreLoad, StoreSave, StoreRest DEF Next
<1> QED
  BY <1>1, <1>2, TypeCorrect, Inductive, PTL DEF Spec

(* Whatever crashed before, at whichever block: a variable nobody changed  *)
(* in this boot is that of the image the boot loaded, or not there, and    *)
(* after a complete load it is there (LoadNvVarsFromBlockIo, ReadNvVars).  *)
THEOREM ImageOrNothing == Spec => []UntouchedFromImage
<1>1. StoreInv => UntouchedFromImage
  BY DEF StoreInv
<1> QED
  BY <1>1, StoreInductive, PTL
=============================================================================
