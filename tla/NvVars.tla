------------------------------- MODULE NvVars -------------------------------
(***************************************************************************)
(* Persistence of the UEFI non-volatile variables.                         *)
(*                                                                         *)
(* The variables live in RAM (the EMU variable firmware volume).  BDS      *)
(* connects the library to the "VNOR" block device once per boot: it loads *)
(* the image found there, saves the variables back and arms an event.      *)
(* From then on every write to the firmware volume signals the event,      *)
(* whose TPL_CALLBACK handler saves all the variables again.  The image is *)
(* one CRC-protected blob that is overwritten in place, block by block.    *)
(*                                                                         *)
(* Sources: NvVarsBlockIoLib (BlockIoAccess.c, NvVarsBlockIoLib.c),        *)
(* EmuVariableFvbLib.c and the NV variable part of PlatformBm.c.  The      *)
(* variable driver, the event dispatcher and the block device are external *)
(* and modelled from how this code uses them.                              *)
(***************************************************************************)
EXTENDS Naturals

CONSTANTS
  Ordinary,      \* variables that may be saved
  Filtered,      \* Boot####, ConIn, ConOut, ErrOut: never serialized
  NvFlag,        \* the variable L"NvVars" that says "already loaded"
  Vals,          \* values the clients give to variables
  FlagValue,     \* the value of NvFlag
  None,          \* no such variable
  NoHeader,      \* block 0 of the device without the "nvio" signature
  Header,        \* block 0 as a member of the set of blocks to write
  ReservedStore, \* PcdEmuVariableNvStoreReserved # 0: RAM may survive a reset
  Budget         \* bounds of the environment: sets, faults, resets, signals

Kinds  == {"set", "fault", "reset", "signal"}
Names  == Ordinary \cup Filtered \cup {NvFlag}
Values == Vals \cup {FlagValue}
Cell   == Values \cup {None}
Image  == [Names -> Cell]

ASSUME NamesAssumption ==
  /\ Ordinary \cap Filtered = {}
  /\ NvFlag \notin Ordinary \cup Filtered
  /\ Header \notin Names
ASSUME ValuesAssumption ==
  /\ None \notin Values
  /\ NoHeader \notin Image
ASSUME BoundsAssumption ==
  /\ ReservedStore \in BOOLEAN
  /\ Budget \in [Kinds -> Nat]

VARIABLES
  fvb,        \* the non-volatile variables in the EMU firmware volume
  vol,        \* names of the volatile variables that exist
  hdr,        \* device block 0: the image its CRC was computed over
  blk,        \* device data blocks, one per variable
  bds,        \* where the boot is: see Phase
  saver,      \* who runs SaveNvVarsToBlockIo
  step,       \* where the saver is
  left,       \* variables still to load or collect, or blocks to write
  snap,       \* the variables the saver collected
  pending,    \* mEmuVariableEvent is signalled and not yet dispatched
  loaded,     \* what LoadNvVarsFromBlockIo returned this boot
  budget,     \* what is left of Budget
  base,       \* history: the image this boot loaded from (all None if none)
  complete,   \* history: there is a base, and none of its variables was refused
  touched,    \* history: names clients changed, or an earlier boot may have changed
  newer,      \* history: those changed after NvFlag was in the store
  saveErr,    \* history: the last save of the event handler failed
  missed      \* history: a change was not signalled and not collected since

device  == <<hdr, blk>>
history == <<base, complete, touched, newer, saveErr, missed>>
vars    == <<fvb, vol, hdr, blk, bds, saver, step, left, snap, pending, loaded,
             budget, history>>

Phase == {"start", "load", "save", "connected", "arming", "armed", "unconnected", "runtime"}

Empty   == [n \in Names |-> None]
Allowed == Names \ Filtered

(* What a save of the variables f puts on the device.                      *)
Persistent(f) == [n \in Names |-> IF n \in Allowed THEN f[n] ELSE None]

Present(f) == {n \in Names : f[n] # None}
Spend(k)   == budget[k] > 0 /\ budget' = [budget EXCEPT ![k] = @ - 1]
CrcOk      == hdr = blk

(* Mutants of PutFvb.                                                      *)
PutFvbUnsignalled(f) ==
  /\ fvb' = f
  /\ missed' = (missed \/ (f # fvb /\ bds = "arming" /\ ~pending))
  /\ UNCHANGED pending

PutFvbAlwaysSignals(f) ==
  /\ fvb' = f
  /\ pending' = (pending \/ bds = "armed")
  /\ missed' = (missed \/ (f # fvb /\ bds = "arming" /\ ~pending))

(***************************************************************************)
(* A write of the firmware volume: PlatformFvbDataWritten signals the      *)
(* event only before ExitBootServices and once PcdEmuVariableEvent is set. *)
(* The variable driver does not write when nothing changes.  A change is   *)
(* missed when the event exists but the PCD does not name it yet.          *)
(***************************************************************************)
PutFvb(f) ==
  /\ fvb' = f
  /\ pending' = (pending \/ (f # fvb /\ bds = "armed"))
  /\ missed' = (missed \/ (f # fvb /\ bds = "arming" /\ ~pending))

(* SetNvVarsVariable: its SetVariable may fail, and nobody looks.          *)
SetNvVarsVariable ==
  \/ PutFvb([fvb EXCEPT ![NvFlag] = FlagValue]) /\ UNCHANGED budget
  \/ Spend("fault") /\ UNCHANGED <<fvb, pending, missed>>

StartSave(who, f) ==
  /\ saver' = who
  /\ step' = "collect"
  /\ left' = Present(f) \cup vol
  /\ snap' = Empty

(* ConnectNvVarsToBlockIo ignores what the load returned and saves.        *)
ThenSave(status) ==
  /\ bds' = "save"
  /\ loaded' = status
  /\ StartSave("connect", fvb')

Init ==
  /\ fvb = Empty /\ vol = {}
  /\ hdr = NoHeader /\ blk = Empty
  /\ bds = "start" /\ saver = "none" /\ step = "idle"
  /\ left = {} /\ snap = Empty /\ pending = FALSE /\ loaded = "none"
  /\ budget = Budget
  /\ base = Empty /\ complete = FALSE /\ touched = {} /\ newer = {}
  /\ saveErr = FALSE /\ missed = FALSE

-----------------------------------------------------------------------------
(* Connect and load, run by BDS at TPL_APPLICATION.                        *)

ConnectFails ==
  /\ bds = "start"
  /\ Spend("fault")
  /\ bds' = "unconnected"
  /\ UNCHANGED <<fvb, vol, device, saver, step, left, snap, pending, loaded, history>>

LoadSkipped ==
  /\ bds = "start"
  /\ fvb[NvFlag] # None
  /\ UNCHANGED fvb
  /\ ThenSave("already")
  /\ UNCHANGED <<vol, device, pending, budget, history>>

(* A read error, a failed allocation, or a device without the signature.   *)
ReadFails ==
  /\ bds = "start"
  /\ fvb[NvFlag] = None
  /\ \/ hdr = NoHeader /\ UNCHANGED budget
     \/ Spend("fault")
  /\ UNCHANGED fvb
  /\ ThenSave("error")
  /\ UNCHANGED <<vol, device, pending, history>>

(* On a CRC mismatch ReadNvVars returns the status of CalculateCrc32, that *)
(* is EFI_SUCCESS, and the load goes on as if it had read the variables.   *)
ReadCrcMismatch ==
  /\ bds = "start"
  /\ fvb[NvFlag] = None
  /\ hdr # NoHeader /\ ~CrcOk
  /\ SetNvVarsVariable
  /\ ThenSave("ok")
  /\ UNCHANGED <<vol, device, base, complete, touched, newer, saveErr>>

(* Mutant of ReadImage: no CRC check.                                      *)
ReadImageUnverified ==
  /\ bds = "start"
  /\ fvb[NvFlag] = None
  /\ hdr # NoHeader
  /\ bds' = "load"
  /\ left' = Present(blk) \cap Allowed
  /\ base' = hdr
  /\ complete' = TRUE
  /\ UNCHANGED <<fvb, vol, device, saver, step, snap, pending, loaded, budget, touched,
                 newer, saveErr, missed>>

ReadImage ==
  /\ bds = "start"
  /\ fvb[NvFlag] = None
  /\ hdr # NoHeader /\ CrcOk
  /\ bds' = "load"
  /\ left' = Present(blk) \cap Allowed
  /\ base' = hdr
  /\ complete' = TRUE
  /\ UNCHANGED <<fvb, vol, device, saver, step, snap, pending, loaded, budget, touched,
                 newer, saveErr, missed>>

LoadVariable(n) ==
  /\ bds = "load" /\ n \in left
  /\ n \notin vol
  /\ PutFvb([fvb EXCEPT ![n] = blk[n]])
  /\ left' = left \ {n}
  /\ UNCHANGED <<vol, device, bds, saver, step, snap, loaded, budget, base, complete,
                 touched, newer, saveErr>>

(* SetVariable refuses an authenticated or write protected variable: the   *)
(* status is ignored and the load goes on.                                 *)
LoadVariableIgnored(n) ==
  /\ bds = "load" /\ n \in left
  /\ Spend("fault")
  /\ left' = left \ {n}
  /\ complete' = FALSE
  /\ UNCHANGED <<fvb, vol, device, bds, saver, step, snap, pending, loaded, base, touched,
                 newer, saveErr, missed>>

(* SetVariable fails: a volatile variable has the name, or no resources.   *)
(* IterateVariablesInBuffer stops, and reports it unless n was the last.   *)
LoadVariableFails(n) ==
  /\ bds = "load" /\ n \in left
  /\ \/ n \in vol /\ UNCHANGED budget
     \/ Spend("fault")
  /\ IF left = {n}
       THEN PutFvb([fvb EXCEPT ![NvFlag] = FlagValue]) /\ ThenSave("ok")
       ELSE UNCHANGED <<fvb, pending, missed>> /\ ThenSave("error")
  /\ complete' = FALSE
  /\ UNCHANGED <<vol, device, base, touched, newer, saveErr>>

LoadDone ==
  /\ bds = "load" /\ left = {}
  /\ SetNvVarsVariable
  /\ ThenSave("ok")
  /\ UNCHANGED <<vol, device, base, complete, touched, newer, saveErr>>

-----------------------------------------------------------------------------
(* SaveNvVarsToBlockIo, run by BDS during connect and by the event handler. *)

SaveReturns(ok) ==
  /\ saver' = "none" /\ step' = "idle" /\ left' = {} /\ snap' = Empty
  /\ IF saver = "connect"
       THEN /\ bds' = (IF ok THEN "connected" ELSE "unconnected")
            /\ UNCHANGED saveErr
       ELSE saveErr' = ~ok /\ UNCHANGED bds

(* Mutant of Collect: without IsVariableAllowed.                           *)
CollectUnfiltered(n) ==
  /\ step = "collect" /\ n \in left
  /\ left' = left \ {n}
  /\ snap' = [snap EXCEPT ![n] = fvb[n]]
  /\ UNCHANGED <<fvb, vol, device, bds, saver, step, pending, loaded, budget, history>>

Collect(n) ==
  /\ step = "collect" /\ n \in left
  /\ left' = left \ {n}
  /\ snap' = IF n \in Allowed /\ fvb[n] # None THEN [snap EXCEPT ![n] = fvb[n]] ELSE snap
  /\ UNCHANGED <<fvb, vol, device, bds, saver, step, pending, loaded, budget, history>>

(* Nothing to save is an error: SerializeVariablesToBuffer refuses NULL.   *)
CollectFails ==
  /\ step = "collect"
  /\ \/ left = {} /\ snap = Empty /\ UNCHANGED budget
     \/ Spend("fault")
  /\ SaveReturns(FALSE)
  /\ UNCHANGED <<fvb, vol, device, pending, loaded, base, complete, touched, newer, missed>>

Serialized ==
  /\ step = "collect" /\ left = {} /\ snap # Empty
  /\ step' = "write"
  /\ left' = Allowed \cup {Header}
  /\ UNCHANGED <<fvb, vol, device, bds, saver, snap, pending, loaded, budget, history>>

WriteBlock(b) ==
  /\ step = "write" /\ b \in left
  /\ left' = left \ {b}
  /\ IF b = Header THEN hdr' = snap /\ UNCHANGED blk
                   ELSE blk' = [blk EXCEPT ![b] = snap[b]] /\ UNCHANGED hdr
  /\ UNCHANGED <<fvb, vol, bds, saver, step, snap, pending, loaded, budget, history>>

WriteFails ==
  /\ step = "write"
  /\ Spend("fault")
  /\ SaveReturns(FALSE)
  /\ UNCHANGED <<fvb, vol, device, pending, loaded, base, complete, touched, newer, missed>>

WriteDone ==
  /\ step = "write" /\ left = {}
  /\ SetNvVarsVariable
  /\ SaveReturns(TRUE)
  /\ UNCHANGED <<vol, device, loaded, base, complete, touched, newer>>

-----------------------------------------------------------------------------
(* The event and its handler at TPL_CALLBACK.                              *)

(* Mutant of CreateEvent: a new event is not signalled.                    *)
CreateEventSilent ==
  /\ bds = "connected"
  /\ bds' = "arming"
  /\ UNCHANGED <<fvb, vol, device, saver, step, left, snap, pending, loaded, budget, history>>

(* VisitingBlockIoInstance, once connected: EfiCreateProtocolNotifyEvent   *)
(* signals the event it creates, which runs the handler once.              *)
CreateEvent ==
  /\ bds = "connected"
  /\ bds' = "arming"
  /\ pending' = TRUE
  /\ UNCHANGED <<fvb, vol, device, saver, step, left, snap, loaded, budget, history>>

EmuVariablesUpdatedCallback ==
  /\ pending /\ saver = "none" /\ bds \in {"arming", "armed"}
  /\ pending' = FALSE
  /\ missed' = FALSE
  /\ StartSave("event", fvb)
  /\ UNCHANGED <<fvb, vol, device, bds, loaded, budget, base, complete, touched, newer, saveErr>>

(* PcdSet64S (PcdEmuVariableEvent): BDS runs again once nothing is pending. *)
ArmEvent ==
  /\ bds = "arming" /\ ~pending /\ saver = "none"
  /\ bds' = "armed"
  /\ UNCHANGED <<fvb, vol, device, saver, step, left, snap, pending, loaded, budget, history>>

(* The event is registered on the device path protocol.                    *)
DevicePathInstalled ==
  /\ bds \in {"arming", "armed"} /\ saver # "event" /\ ~pending
  /\ Spend("signal")
  /\ pending' = TRUE
  /\ UNCHANGED <<fvb, vol, device, bds, saver, step, left, snap, loaded, history>>

-----------------------------------------------------------------------------
(* The environment: clients of the variable services, the OS, resets.      *)

(* GetNextVariableName is not stable under updates: a running iteration    *)
(* may see n again, or, when n was the last name it returned, end early.   *)
IterationDisturbed(n) ==
  left' \in (IF step = "collect" THEN {left, left \cup {n}, {}} ELSE {left})

(* Clients run at TPL_APPLICATION or TPL_CALLBACK, so they interrupt BDS   *)
(* but not the event handler.                                              *)
SetVariable(n, v) ==
  /\ saver # "event"
  /\ n \in Ordinary \cup Filtered /\ n \notin vol
  /\ fvb[n] # v
  /\ Spend("set")
  /\ PutFvb([fvb EXCEPT ![n] = v])
  /\ touched' = touched \cup {n}
  /\ newer' = IF fvb[NvFlag] # None THEN newer \cup {n} ELSE newer
  /\ IterationDisturbed(n)
  /\ UNCHANGED <<vol, device, bds, saver, step, snap, loaded, base, complete, saveErr>>

SetVolatileVariable(n) ==
  /\ saver # "event"
  /\ n \in Ordinary \cup Filtered /\ fvb[n] = None
  /\ Spend("set")
  /\ vol' = (vol \ {n}) \cup ({n} \ vol)
  /\ IterationDisturbed(n)
  /\ UNCHANGED <<fvb, device, bds, saver, step, snap, pending, loaded, history>>

(* Mutant of ExitBootServices: it does not wait for the event.             *)
ExitBootServicesEarly ==
  /\ bds \in {"armed", "unconnected"} /\ saver = "none"
  /\ bds' = "runtime"
  /\ UNCHANGED <<fvb, vol, device, saver, step, left, snap, pending, loaded, budget, history>>

ExitBootServices ==
  /\ bds \in {"armed", "unconnected"} /\ ~pending /\ saver = "none"
  /\ bds' = "runtime"
  /\ UNCHANGED <<fvb, vol, device, saver, step, left, snap, pending, loaded, budget, history>>

(* Power loss or reset between any two steps.  Only the device survives,   *)
(* and the firmware volume if its memory is reserved and the reset is warm. *)
Reset ==
  /\ Spend("reset")
  /\ \/ /\ fvb' = Empty /\ base' = Empty /\ complete' = FALSE
        /\ touched' = {} /\ newer' = {}
     \/ /\ ReservedStore
        /\ touched' = Names
        /\ UNCHANGED <<fvb, base, complete, newer>>
  /\ vol' = {}
  /\ bds' = "start" /\ saver' = "none" /\ step' = "idle"
  /\ left' = {} /\ snap' = Empty /\ pending' = FALSE /\ loaded' = "none"
  /\ saveErr' = FALSE /\ missed' = FALSE
  /\ UNCHANGED device

-----------------------------------------------------------------------------
Load ==
  \/ ConnectFails \/ LoadSkipped \/ ReadFails \/ ReadCrcMismatch \/ ReadImage \/ LoadDone
  \/ \E n \in Names : LoadVariable(n) \/ LoadVariableIgnored(n) \/ LoadVariableFails(n)

Save ==
  \/ CollectFails \/ Serialized \/ WriteFails \/ WriteDone
  \/ \E n \in Names : Collect(n)
  \/ \E b \in Names \cup {Header} : WriteBlock(b)

Event == CreateEvent \/ EmuVariablesUpdatedCallback \/ ArmEvent \/ DevicePathInstalled

Client ==
  \E n \in Names :
    \/ \E v \in Vals \cup {None} : SetVariable(n, v)
    \/ SetVolatileVariable(n)

Next == Load \/ Save \/ Event \/ Client \/ ExitBootServices \/ Reset

Spec == Init /\ [][Next]_vars

(***************************************************************************)
(* The boot thread runs until it is idle and the dispatcher runs what is   *)
(* signalled; nobody promises that clients, faults, resets or              *)
(* ExitBootServices happen.                                                *)
(***************************************************************************)
Progress ==
  \/ LoadSkipped \/ ReadFails \/ ReadCrcMismatch \/ ReadImage \/ LoadDone
  \/ \E n \in Names : LoadVariable(n) \/ LoadVariableFails(n) \/ Collect(n)
  \/ CollectFails \/ Serialized \/ WriteDone
  \/ \E b \in Names \cup {Header} : WriteBlock(b)
  \/ CreateEvent \/ EmuVariablesUpdatedCallback \/ ArmEvent

FairSpec == Spec /\ WF_vars(Progress)

-----------------------------------------------------------------------------
(* Properties.                                                             *)

Quiet == bds = "armed" /\ ~pending /\ saver = "none"
Clean == CrcOk /\ blk = Persistent(fvb)

(* Types, and who runs when: connect saves only inside "save", the event   *)
(* and its handler exist only between its creation and ExitBootServices.   *)
TypeOK ==
  /\ fvb \in Image /\ vol \subseteq Names
  /\ hdr \in Image \cup {NoHeader} /\ blk \in Image
  /\ bds \in Phase
  /\ saver \in {"none", "connect", "event"} /\ step \in {"idle", "collect", "write"}
  /\ left \subseteq Names \cup {Header}
  /\ snap \in Image
  /\ pending \in BOOLEAN
  /\ loaded \in {"none", "ok", "error", "already"}
  /\ budget \in [Kinds -> Nat]
  /\ base \in Image /\ complete \in BOOLEAN /\ touched \subseteq Names /\ newer \subseteq Names
  /\ saveErr \in BOOLEAN /\ missed \in BOOLEAN
  /\ (saver = "connect") = (bds = "save")
  /\ saver = "event" \/ pending => bds \in {"arming", "armed"}
  /\ (saver = "none") = (step = "idle")
  /\ Header \in left => step = "write"

(* Once the event is armed and its handler has nothing to do, the device   *)
(* holds exactly the variables that may be saved, under a matching CRC:    *)
(* no write of the firmware volume escapes the event, the flag written     *)
(* after the blocks included.  The two ways the code can fail at it are    *)
(* named: the last save returned an error that the handler dropped, or the *)
(* change fell between the creation of the event and PcdSet64S.            *)
QuietImpliesClean == Quiet /\ ~saveErr /\ ~missed => Clean

(* In a store created by this boot, a variable that no client changed is   *)
(* the one in the image this boot loaded, and if none of it was refused    *)
(* all of that image is there: no torn image contributes a variable,       *)
(* whatever the crashes before it.                                         *)
UntouchedFromImage ==
  \A n \in Names \ (touched \cup {NvFlag}) :
    /\ fvb[n] \in {None, base[n]}
    /\ complete /\ bds # "load" => fvb[n] = base[n]

(* What the comment of LoadNvVarsFromBlockIo says of the NvVars variable:  *)
(* once it is found nothing is loaded, as that would overwrite newer       *)
(* changes.  A change made while the variable is there is loaded over by   *)
(* no step of a load.                                                      *)
LoadKeepsNewerChanges ==
  [][bds = "load" => \A n \in newer : fvb'[n] = fvb[n] \/ bds' = "start"]_vars

(* The handler's snapshot is one state of the variables: what it writes is *)
(* what the variables are while it writes, so that a save which completes  *)
(* leaves an image of a single moment.                                     *)
EventSnapshotExact ==
  saver = "event" =>
    /\ step = "collect" => \A n \in Allowed \ left : snap[n] = fvb[n]
    /\ step = "write" => snap = Persistent(fvb)

(* What the documentation of LoadNvVarsFromBlockIo says: it returns the    *)
(* success or failure of the load, so after a success the variables are    *)
(* those of an image, and in particular an image was read.                 *)
LoadSuccessMeansRead == loaded = "ok" => base # Empty

(* A change of the variables reaches the device or a stated failure.       *)
ChangeReachesDevice ==
  bds = "armed" /\ ~Clean ~> (Clean \/ saveErr \/ missed \/ bds # "armed")

(* The save writes a variable itself, which signals the event that saves:  *)
(* the chain ends.                                                         *)
EventSettles == []<>(~pending /\ saver = "none")

=============================================================================
