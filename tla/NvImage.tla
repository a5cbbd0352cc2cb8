------------------------------- MODULE NvImage -------------------------------
(***************************************************************************)
(* The data path of the variables, from the store to the device and back:  *)
(* BlockIoAccess.c puts the buffer of SerializeVariablesLib behind a       *)
(* header into a file of whole blocks, MMCHSDxe checks the transfer, and   *)
(* the next boot unpacks what it reads.  NvVars.tla has the concurrency;   *)
(* here one call runs after the other, and the sizes are real.             *)
(***************************************************************************)
EXTENDS VariableRecords, MmcBlocks

CONSTANTS
  NonVolatile,  \* the attributes with EFI_VARIABLE_NON_VOLATILE
  None,         \* no such variable
  Signature,    \* NVVARS_SIGNATURE
  Blank,        \* a cell of a device or of a file that nobody has written
  NvVars, Loaded,    \* the variable that says they were loaded, and its value
  Devices, Vnor,\* devices, by their index in bio_list; the variables' one
  MaxSets, MaxFaults, MaxResets   \* bounds of the environment

HeaderSize == 3 * Word

ASSUME ImageAssumption ==
  /\ HeaderSize <= BlockSize /\ BlockSize % Word = 0
  /\ NonVolatile \subseteq Attrs
  /\ NvVars \in Keys /\ Loaded \in Variable /\ Loaded.attr \in NonVolatile
  /\ None \notin Variable /\ Blank \notin Nat \union Seq(Nat) /\ Signature \in Nat
  /\ Devices \in Nat /\ Vnor \in 1 .. Devices
  /\ MaxSets \in Nat /\ MaxFaults \in Nat /\ MaxResets \in Nat

VARIABLES
  store,      \* the variables
  device,     \* the blocks of Vnor
  published,  \* devices seen by MMCHSInitialize: is there a protocol?
  pc,         \* what runs: see TypeOK
  todo,       \* names still to be visited by GetNextVariableName
  instance,   \* SV_INSTANCE
  file,       \* VariableData, the file to write
  records,    \* records still to be set by a load
  status,     \* what the last save or load returned
  packed,     \* history: what was added to the instance
  refused,    \* history: names the load could not set, or that were set since
  budget      \* what is left of the environment's bounds

vars == <<store, device, published, pc, todo, instance, file, records, status, packed,
          refused, budget>>
sv   == <<todo, instance, file, packed>>

Spend(k)   == budget[k] > 0 /\ budget' = [budget EXCEPT ![k] = @ - 1]
Present    == {k \in Keys : store[k] # None}
Saved(k, v) == IF v # None /\ v.attr \in NonVolatile /\ IsVariableAllowed(k) THEN v ELSE None

Init ==
  /\ store = [k \in Keys |-> None]
  /\ device = [b \in 0 .. LastBlock |-> [i \in 1 .. BlockSize |-> Blank]]
  /\ published = <<>> /\ pc = "probe"
  /\ todo = {} /\ instance = NewInstance /\ file = <<>> /\ records = <<>>
  /\ status = "none" /\ packed = {} /\ refused = {}
  /\ budget = [set |-> MaxSets, fault |-> MaxFaults, reset |-> MaxResets]

-----------------------------------------------------------------------------
(* MMCHSInitialize: one device after the other, until one cannot be        *)
(* initialised; the failure to publish one is not looked at.               *)
Probed  == Len(published)
Offered == pc = "idle" /\ Vnor <= Probed /\ published[Vnor]

Publish ==
  /\ pc = "probe" /\ Probed < Devices
  /\ \/ published' = Append(published, TRUE) /\ UNCHANGED budget
     \/ published' = Append(published, FALSE) /\ Spend("fault")
  /\ UNCHANGED <<store, device, pc, sv, records, status, refused>>

MMCHSInitializeReturns ==
  /\ pc = "probe"
  /\ \/ Probed = Devices /\ UNCHANGED budget
     \/ Probed < Devices /\ Spend("fault")
  /\ pc' = "idle"
  /\ UNCHANGED <<store, device, published, sv, records, status, refused>>

-----------------------------------------------------------------------------
(* SaveNvVarsToBlockIo.                                                    *)

(* Its status is not looked at.                                            *)
SetNvVarsVariable ==
  \/ store' = [store EXCEPT ![NvVars] = Loaded] /\ UNCHANGED budget
  \/ Spend("fault") /\ UNCHANGED store

Returns(s) ==
  /\ pc' = "idle" /\ status' = s
  /\ todo' = {} /\ instance' = NewInstance /\ file' = <<>> /\ records' = <<>> /\ packed' = {}

SaveNvVarsToBlockIo ==
  /\ Offered
  /\ pc' = "collect" /\ todo' = Present /\ instance' = NewInstance /\ packed' = {}
  /\ UNCHANGED <<store, device, published, file, records, status, refused, budget>>

(* IterateVariablesCallbackAddAllNvVariables.                              *)
AddNvVariable(k) ==
  /\ pc = "collect" /\ k \in todo
  /\ todo' = todo \ {k}
  /\ IF store[k].attr \in NonVolatile
       THEN /\ instance' = SerializeVariablesAddVariable(instance, k, store[k])
            /\ packed' = packed \cup {k}
       ELSE UNCHANGED <<instance, packed>>
  /\ UNCHANGED <<store, device, published, pc, file, records, status, refused, budget>>

(* The header, with the CRC for which the data itself stands, the data,    *)
(* and what AllocatePool leaves in the rest of the last block.             *)
ImageFile(data) ==
  LET used == HeaderSize + Len(data)
      head == UINT32(Signature) \o UINT32(Len(data)) \o <<data>> \o [i \in 1 .. Word - 1 |-> Blank]
  IN head \o data \o [i \in 1 .. ALIGN_VALUE(used, BlockSize) - used |-> Blank]

(* SerializeVariablesToBuffer refuses to copy nothing, and AllocatePool    *)
(* has no room for a file larger than the address space.                   *)
Copied == instance.data # <<>> /\ Len(ImageFile(instance.data)) < SizeSpace

SerializeVariablesToBuffer ==
  /\ pc = "collect" /\ todo = {} /\ Copied
  /\ pc' = "write" /\ file' = ImageFile(instance.data)
  /\ UNCHANGED <<store, device, published, todo, instance, records, status, packed, refused,
                 budget>>

(* An allocation fails, a name or a variable cannot be read, or there is   *)
(* nothing to save.                                                        *)
CollectFails ==
  /\ pc = "collect"
  /\ \/ todo = {} /\ ~Copied /\ UNCHANGED budget
     \/ Spend("fault")
  /\ Returns("error")
  /\ UNCHANGED <<store, device, published, refused>>

Block(b)   == SubSeq(file, b * BlockSize + 1, (b + 1) * BlockSize)
Written(B) == [b \in 0 .. LastBlock |-> IF b \in B THEN Block(b) ELSE device[b]]

(* WriteBlocks at block 0: refused, done, or stopped half-way by an error. *)
WriteFile ==
  /\ pc = "write"
  /\ \/ ~Accepted(0, Len(file)) /\ Returns("error") /\ UNCHANGED <<store, device, budget>>
     \/ /\ Accepted(0, Len(file)) /\ Returns("saved") /\ SetNvVarsVariable
        /\ device' = Written(Transferred(0, Len(file)))
     \/ /\ Accepted(0, Len(file)) /\ Returns("error") /\ Spend("fault") /\ UNCHANGED store
        /\ \E B \in SUBSET Transferred(0, Len(file)) : device' = Written(B)
  /\ UNCHANGED <<published, refused>>

-----------------------------------------------------------------------------
(* LoadNvVarsFromBlockIo and ReadNvVars.                                   *)
Cell(i)      == device[i \div BlockSize][(i % BlockSize) + 1]
DataSize     == Cell(Word)
Claimed      == Cell(2 * Word)
ReadSize     == ALIGN_VALUE(HeaderSize + DataSize, BlockSize)
FileContents == [i \in 1 .. DataSize |-> Cell(HeaderSize + i - 1)]

Signed == Cell(0) = Signature
CrcOk  == FileContents = Claimed

Reading == Offered /\ store[NvVars] = None /\ Signed /\ Accepted(0, ReadSize)

(* Variables that were loaded already, no signature, or no memory, or a    *)
(* read error.                                                             *)
ReadFails ==
  /\ Offered
  /\ \/ store[NvVars] # None /\ UNCHANGED budget
     \/ (Signed => ~Accepted(0, ReadSize)) /\ UNCHANGED budget
     \/ Spend("fault")
  /\ Returns("error")
  /\ UNCHANGED <<store, device, published, refused>>

(* A CRC that does not match is no error (NvVars.tla).                     *)
ReadCrcMismatch ==
  /\ Reading /\ ~CrcOk
  /\ Returns("loaded") /\ SetNvVarsVariable
  /\ UNCHANGED <<device, published, refused>>

(* Mutant of NewInstanceFromBuffer: the CRC is not compared.               *)
NewInstanceFromBufferUnverified ==
  /\ Reading /\ (\A i \in 1 .. DataSize : FileContents[i] # Blank)
  /\ AllValid(Records(FileContents))
  /\ pc' = "set" /\ records' = Visited(Records(FileContents)) /\ refused' = {}
  /\ UNCHANGED <<store, device, published, sv, status, budget>>

(* SerializeVariablesNewInstanceFromBuffer: a walk through the buffer, and *)
(* one that adds each record to an instance; its error at the last record  *)
(* is lost.                                                                *)
NewInstanceFromBuffer ==
  /\ Reading /\ CrcOk
  /\ LET recs == Records(FileContents)
         all  == Visited(recs)
     IN IF ~AllValid(recs) THEN Returns("error") /\ UNCHANGED <<refused, budget>>
        ELSE /\ pc' = "set"
             /\ \/ records' = all /\ refused' = {} /\ UNCHANGED budget
                \/ /\ Spend("fault") /\ all # <<>>
                   /\ records' = SubSeq(all, 1, Len(all) - 1)
                   /\ refused' = {all[Len(all)].key}
             /\ UNCHANGED <<sv, status>>
  /\ UNCHANGED <<store, device, published>>

(* IterateVariablesCallbackSetSystemVariable.                              *)
SetSystemVariable ==
  /\ pc = "set" /\ records # <<>>
  /\ store' = [store EXCEPT ![Head(records).key] = Head(records).var]
  /\ records' = Tail(records)
  /\ UNCHANGED <<device, published, pc, sv, status, refused, budget>>

(* Mutant of SetSystemVariableFails: an error ends the load and is lost.   *)
SetSystemVariableFailsLost ==
  /\ pc = "set" /\ records # <<>> /\ Spend("fault")
  /\ refused' = refused \cup {Head(records).key}
  /\ Returns("loaded")
  /\ UNCHANGED <<store, device, published>>

(* SetVariable fails: the load ends, or goes on after a status that is     *)
(* ignored, as every status of the last record is.                         *)
SetSystemVariableFails ==
  /\ pc = "set" /\ records # <<>> /\ Spend("fault")
  /\ refused' = refused \cup {Head(records).key}
  /\ \/ records' = Tail(records) /\ UNCHANGED <<pc, sv, status>>
     \/ Returns("error")
  /\ UNCHANGED <<store, device, published>>

ReadDone ==
  /\ pc = "set" /\ records = <<>>
  /\ Returns("loaded") /\ SetNvVarsVariable
  /\ UNCHANGED <<device, published, refused>>

-----------------------------------------------------------------------------
(* Clients, while nothing runs, and resets.                                *)
SetVariable(k, v) ==
  /\ pc = "idle" /\ Spend("set") /\ k # NvVars /\ store[k] # v
  /\ store' = [store EXCEPT ![k] = v]
  /\ refused' = refused \cup {k}
  /\ UNCHANGED <<device, published, pc, sv, records, status>>

(* At any time; in the middle of a write any part of it may be done.       *)
Reset ==
  /\ pc # "probe" /\ Spend("reset")
  /\ store' = [k \in Keys |-> None]
  /\ published' = <<>> /\ pc' = "probe" /\ status' = "none" /\ refused' = {}
  /\ todo' = {} /\ instance' = NewInstance /\ file' = <<>> /\ records' = <<>> /\ packed' = {}
  /\ IF pc = "write" /\ Accepted(0, Len(file))
       THEN \E B \in SUBSET Transferred(0, Len(file)) : device' = Written(B)
       ELSE UNCHANGED device

-----------------------------------------------------------------------------
Save ==
  \/ SaveNvVarsToBlockIo \/ SerializeVariablesToBuffer \/ CollectFails \/ WriteFile
  \/ \E k \in Keys : AddNvVariable(k)

Load ==
  \/ ReadFails \/ ReadCrcMismatch \/ NewInstanceFromBuffer
  \/ SetSystemVariable \/ SetSystemVariableFails \/ ReadDone

Next ==
  \/ Publish \/ MMCHSInitializeReturns
  \/ Save \/ Load \/ Reset
  \/ \E k \in Keys, v \in Variable \cup {None} : SetVariable(k, v)

Spec == Init /\ [][Next]_vars

-----------------------------------------------------------------------------
(* Properties.                                                             *)

(* Types, and the buffer of records lies inside its allocation, however it *)
(* grew.                                                                   *)
TypeOK ==
  /\ store \in [Keys -> Variable \cup {None}]
  /\ DOMAIN device = 0 .. LastBlock /\ \A b \in 0 .. LastBlock : Len(device[b]) = BlockSize
  /\ published \in Seq(BOOLEAN) /\ Probed <= Devices
  /\ pc \in {"probe", "idle", "collect", "write", "set"}
  /\ todo \subseteq Keys /\ packed \subseteq Keys /\ refused \subseteq Keys
  /\ status \in {"none", "saved", "loaded", "error"}
  /\ Len(instance.data) <= instance.size /\ Len(instance.data) % Word = 0

(* What a buffer of records says of the variables, or a device without.    *)
Says(buf) ==
  LET recs == IF buf = Blank THEN <<>> ELSE Records(buf)
      ks   == {recs[i].key : i \in {j \in DOMAIN recs : recs[j].valid}}
  IN [k \in Keys |-> IF k \in ks THEN recs[CHOOSE i \in DOMAIN recs : recs[i].key = k].var
                                 ELSE None]

(* Unpacking undoes packing at every moment of a save: the buffer says     *)
(* what was added to it and nothing else, with every name and every data   *)
(* padded or not.                                                          *)
PackedIsUnpacked ==
  /\ AllValid(Records(instance.data))
  /\ Says(instance.data) = [k \in Keys |-> IF k \in packed THEN Saved(k, store[k]) ELSE None]

Activity ==
  CASE pc \in {"collect", "write"} -> "saving" [] pc = "set" -> "loading" [] OTHER -> "idle"

(* Through blocks, header and records the device implements ImageStore:    *)
(* a save that reports success left the whole image of the variables, a    *)
(* load begins only with an image that is whole and that some save packed, *)
(* and sets nothing that this image does not say.                          *)
Images == INSTANCE ImageStore WITH
            claim <- Claimed,
            whole <- Signed /\ Accepted(0, ReadSize) /\ CrcOk,
            activity <- Activity

KeepsImages == Images!Spec

(* A load of a whole image that reports success has set every variable of  *)
(* the image, but for those whose errors SerializeVariablesLib ignores,    *)
(* the error at the last record among them.                                *)
LoadedIsComplete ==
  status = "loaded" /\ pc = "idle" /\ CrcOk =>
    LET image == Says(Claimed)
    IN \A k \in Keys \ refused : image[k] # None => store[k] = image[k]
=============================================================================
