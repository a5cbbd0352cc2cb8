--------------------------- MODULE VariableRecords ---------------------------
(***************************************************************************)
(* SerializeVariablesLib: variables packed one after the other into a      *)
(* buffer that grows, and unpacked again.  A cell of a buffer is a byte, a *)
(* CHAR16 is one cell and the GUID, of four UINT32, is one.  Sizes are     *)
(* those of buffers this library has packed, far from overflow.            *)
(***************************************************************************)
EXTENDS Naturals, Sequences

CONSTANTS
  Word,     \* sizeof (UINT32)
  Keys,     \* names with their terminating 0, and GUIDs, of variables
  Global,   \* gEfiGlobalVariableGuid
  Consoles, \* the names ConIn, ConOut and ErrOut
  Boot,     \* the characters of L"Boot"
  Attrs,    \* attributes of variables, as numbers
  Values    \* their data, sequences of cells

ASSUME RecordAssumption ==
  /\ Word \in Nat \ {0}
  /\ Keys \subseteq [name : Seq(Nat), guid : Nat]
  /\ Attrs \subseteq Nat /\ Values \subseteq Seq(Nat) \ {<<>>}

Variable == [attr : Attrs, data : Values]

IsVariableAllowed(k) ==
  ~(k.guid = Global /\ (k.name \in Consoles \/ SubSeq(k.name, 1, Len(Boot)) = Boot))

-----------------------------------------------------------------------------
(* Packing.                                                                *)

ALIGN_VALUE(n, unit) == n + ((unit - (n % unit)) % unit)

UINT32(v) == [i \in 1 .. Word |-> IF i = 1 THEN v ELSE 0]

(* Mutant: the next field begins where this one ends.                      *)
AppendToBufferUnpadded(buf, field) == buf \o field

AppendToBuffer(buf, field) ==
  buf \o field \o [i \in 1 .. ALIGN_VALUE(Len(field), Word) - Len(field) |-> 0]

SerializedSize(k, v) == 4 * Word + ALIGN_VALUE(Len(k.name), Word) + ALIGN_VALUE(Len(v.data), Word)

(* An instance: the size allocated for the buffer, and what is in use.     *)
NewInstance == [size |-> 0, data |-> <<>>]

(* Mutant: the space is checked without what is in the buffer.             *)
EnsureExtraBufferSpaceAlone(inst, size) ==
  IF size <= inst.size THEN inst ELSE [inst EXCEPT !.size = 2 * size]

EnsureExtraBufferSpace(inst, size) ==
  LET need == Len(inst.data) + size
  IN IF need <= inst.size THEN inst ELSE [inst EXCEPT !.size = 2 * need]

SerializeVariablesAddVariable(inst, k, v) ==
  IF ~IsVariableAllowed(k) THEN inst
  ELSE LET grown == EnsureExtraBufferSpace(inst, SerializedSize(k, v))
           name  == AppendToBuffer(AppendToBuffer(grown.data, UINT32(Len(k.name))), k.name)
           head  == AppendToBuffer(AppendToBuffer(name, UINT32(k.guid)), UINT32(v.attr))
       IN [grown EXCEPT !.data =
             AppendToBuffer(AppendToBuffer(head, UINT32(Len(v.data))), v.data)]

-----------------------------------------------------------------------------
(* Unpacking.                                                              *)

(* The cell at offset o, the number if a UINT32 is there; what lies behind *)
(* the buffer is not known.                                                *)
ReadUINT32(buf, o) == IF o < Len(buf) THEN buf[o + 1] ELSE 0

Bytes(buf, o, n) == [i \in 1 .. n |-> ReadUINT32(buf, o + i - 1)]

(* The record at offset o.                                                 *)
UnpackVariableFromBuffer(buf, o) ==
  LET nameSize == ReadUINT32(buf, o)
      guid     == o + Word + ALIGN_VALUE(nameSize, Word)
      attr     == guid + Word
      size     == attr + Word
      dataSize == ReadUINT32(buf, size)
      data     == size + Word
  IN [valid |-> data + ALIGN_VALUE(dataSize, Word) <= Len(buf),
      key   |-> [name |-> Bytes(buf, o + Word, nameSize), guid |-> ReadUINT32(buf, guid)],
      var   |-> [attr |-> ReadUINT32(buf, attr), data |-> Bytes(buf, data, dataSize)],
      next  |-> data + ALIGN_VALUE(dataSize, Word)]

(* The records that IterateVariablesInBuffer comes upon; the last one is   *)
(* not valid if the buffer ends inside it.                                 *)
Records(buf) ==
  LET from[o \in 0 .. Len(buf)] ==
        IF o = Len(buf) THEN <<>>
        ELSE LET r == UnpackVariableFromBuffer(buf, o)
             IN IF r.valid THEN <<r>> \o from[r.next] ELSE <<r>>
  IN from[0]

AllValid(recs) == \A i \in DOMAIN recs : recs[i].valid

(* The names that are handed to the callback.                              *)
Visited(recs) ==
  LET upTo[n \in 0 .. Len(recs)] ==
        IF n = 0 THEN <<>>
        ELSE IF IsVariableAllowed(recs[n].key) THEN Append(upTo[n - 1], recs[n])
        ELSE upTo[n - 1]
  IN upTo[Len(recs)]
=============================================================================
