---------------------------- MODULE NvImageProofs ----------------------------
(***************************************************************************)
(* Proofs about NvImage, for every set of names, attributes and values,    *)
(* every size of words and blocks and all bounds: that unpacking undoes    *)
(* packing, that what the device's header claims is an image which a save  *)
(* has packed, that a load which reports success is complete, and that the *)
(* range check of MMCHSDxe lets through the transfers that exist.          *)
(***************************************************************************)
EXTENDS NvImage, FiniteSetTheorems, SequenceTheorems, WellFoundedInduction, TLAPS

-----------------------------------------------------------------------------
(* Numbers.                                                                *)

(* The quotient and the remainder make up the number.                      *)
LEMMA DivMod ==
  ASSUME NEW n \in Nat, NEW u \in Nat \ {0}
  PROVE  n \div u \in Nat /\ n % u \in 0 .. u - 1 /\ n = u * (n \div u) + (n % u)
OBVIOUS

(* There is one quotient and one remainder.                                *)
LEMMA DivModUnique ==
  ASSUME NEW u \in Nat \ {0}, NEW q \in Nat, NEW r \in 0 .. u - 1, NEW n, n = u * q + r
  PROVE  n \in Nat /\ n \div u = q /\ n % u = r
<1>1. n \in Nat
  OBVIOUS
<1> QED
  BY <1>1, DivMod

(* n is a multiple of u.                                                   *)
Multiple(n, u) == n \in Nat /\ n % u = 0

(* Multiples are what is left nothing of.                                  *)
LEMMA MultipleIs ==
  ASSUME NEW u \in Nat \ {0}
  PROVE  /\ \A q \in Nat : Multiple(u * q, u)
         /\ \A n : Multiple(n, u) => n = u * (n \div u) /\ n \div u \in Nat
<1>1. ASSUME NEW q \in Nat
      PROVE  Multiple(u * q, u)
  <2>1. 0 \in 0 .. u - 1 /\ u * q = u * q + 0 /\ u * q \in Nat
    OBVIOUS
  <2> QED
    BY <2>1, DivModUnique DEF Multiple
<1>2. ASSUME NEW n, Multiple(n, u)
      PROVE  n = u * (n \div u) /\ n \div u \in Nat
  BY <1>2, DivMod DEF Multiple
<1> QED
  BY <1>1, <1>2

(* Sums of multiples are multiples.                                        *)
LEMMA SumOfMultiples ==
  ASSUME NEW u \in Nat \ {0}, NEW m, NEW n, Multiple(m, u), Multiple(n, u)
  PROVE  Multiple(m + n, u)
<1>1. /\ m = u * (m \div u) /\ m \div u \in Nat
      /\ n = u * (n \div u) /\ n \div u \in Nat
  BY MultipleIs
<1> DEFINE p == m \div u
           q == n \div u
<1> HIDE DEF p, q
<1>2. m = u * p /\ n = u * q /\ p \in Nat /\ q \in Nat
  BY <1>1 DEF p, q
<1>3. m + n = u * (p + q) /\ p + q \in Nat
  BY <1>2
<1> QED
  BY <1>3, MultipleIs

(* ALIGN_VALUE goes up to the next multiple.                               *)
LEMMA Aligned ==
  ASSUME NEW u \in Nat \ {0}, NEW n \in Nat
  PROVE  /\ ALIGN_VALUE(n, u) \in Nat /\ ALIGN_VALUE(n, u) >= n
         /\ Multiple(ALIGN_VALUE(n, u), u)
         /\ n % u = 0 => ALIGN_VALUE(n, u) = n
<1> DEFINE q == n \div u
           r == n % u
           a == ALIGN_VALUE(n, u)
<1>1. q \in Nat /\ r \in 0 .. u - 1 /\ n = u * q + r
  BY DivMod
<1>2. a = n + ((u - r) % u)
  BY DEF ALIGN_VALUE
<1>3. u % u = 0
  <2>1. u = u * 1 + 0 /\ 1 \in Nat /\ 0 \in 0 .. u - 1
    OBVIOUS
  <2> QED
    BY <2>1, DivModUnique
<1>4. r # 0 => (u - r) % u = u - r
  <2> DEFINE d == u - r
  <2>1. r # 0 => d = u * 0 + d /\ d \in 0 .. u - 1
    BY <1>1
  <2> HIDE DEF d, r
  <2>2. r # 0 => d % u = d
    BY <2>1, DivModUnique
  <2> QED
    BY <2>2 DEF d
<1> HIDE DEF q, r, a
<1>5. CASE r = 0
  <2>1. a = n
    BY <1>1, <1>2, <1>3, <1>5
  <2> QED
    BY <2>1, <1>5 DEF a, r, Multiple
<1>6. CASE r # 0
  <2>1. a = u * (q + 1) /\ q + 1 \in Nat /\ a >= n
    BY <1>1, <1>2, <1>4, <1>6
  <2>2. Multiple(a, u)
    BY <2>1, MultipleIs
  <2> QED
    BY <2>1, <2>2, <1>6 DEF a, r, Multiple
<1> QED
  BY <1>5, <1>6

(* A set of natural numbers has a least element.                           *)
LEMMA Smallest ==
  ASSUME NEW s \in SUBSET Nat, s # {}
  PROVE  \E i \in s : \A j \in s : i <= j
<1>1. PICK i \in s : \A j \in s : ~ (<<j, i>> \in OpToRel(<, Nat))
  BY WFMin, NatLessThanWellFounded
<1>2. \A j \in s : ~ (j < i)
  BY <1>1 DEF OpToRel
<1> QED
  BY <1>2

-----------------------------------------------------------------------------
(* Cells of buffers.                                                       *)

(* A word has its number in its first cell, and fills it.                  *)
LEMMA WordCells ==
  ASSUME NEW v \in Nat
  PROVE  /\ UINT32(v) \in Seq(Nat) /\ Len(UINT32(v)) = Word /\ UINT32(v)[1] = v
         /\ ALIGN_VALUE(Word, Word) = Word
<1> DEFINE w == UINT32(v)
<1>1. Word \in Nat \ {0}
  BY RecordAssumption
<1>2. w = [i \in 1 .. Word |-> IF i = 1 THEN v ELSE 0]
  BY DEF UINT32
<1>3. w \in [1 .. Word -> Nat] /\ 1 \in 1 .. Word
  BY <1>1, <1>2
<1>4. w \in Seq(Nat) /\ Len(w) = Word
  BY <1>1, <1>3
<1>5. Word % Word = 0
  <2>1. Word = Word * 1 + 0 /\ 1 \in Nat /\ 0 \in 0 .. Word - 1
    BY <1>1
  <2> QED
    BY <1>1, <2>1, DivModUnique
<1> QED
  BY <1>1, <1>2, <1>3, <1>4, <1>5, Aligned

(* The cells of buf are those of old, and then those of field.             *)
Follows(buf, old, field) ==
  /\ buf \in Seq(Nat)
  /\ Len(buf) = Len(old) + ALIGN_VALUE(Len(field), Word)
  /\ \A i \in 1 .. Len(old) : buf[i] = old[i]
  /\ \A i \in 1 .. Len(field) : buf[Len(old) + i] = field[i]

(* AppendToBuffer leaves what is there alone, and pads what it adds.       *)
LEMMA AppendFollows ==
  ASSUME NEW old \in Seq(Nat), NEW field \in Seq(Nat)
  PROVE  Follows(AppendToBuffer(old, field), old, field)
<1> DEFINE n == ALIGN_VALUE(Len(field), Word) - Len(field)
           zeros == [i \in 1 .. n |-> 0]
           both  == old \o field
<1>1. Len(old) \in Nat /\ Len(field) \in Nat /\ n \in Nat
      /\ ALIGN_VALUE(Len(field), Word) = Len(field) + n
  BY RecordAssumption, Aligned, LenProperties
<1> HIDE DEF n
<1>2. zeros \in Seq(Nat) /\ Len(zeros) = n
  BY <1>1
<1>3. /\ both \in Seq(Nat) /\ Len(both) = Len(old) + Len(field)
      /\ \A i \in 1 .. Len(old) + Len(field) :
           both[i] = IF i <= Len(old) THEN old[i] ELSE field[i - Len(old)]
  BY ConcatProperties
<1> HIDE DEF both, zeros
<1>4. /\ both \o zeros \in Seq(Nat) /\ Len(both \o zeros) = Len(both) + n
      /\ \A i \in 1 .. Len(both) + n :
           (both \o zeros)[i] = IF i <= Len(both) THEN both[i] ELSE zeros[i - Len(both)]
  BY <1>2, <1>3, ConcatProperties, SMTT(30)
<1>5. AppendToBuffer(old, field) = both \o zeros
  BY DEF AppendToBuffer, both, zeros, n
<1> DEFINE all == both \o zeros
<1> HIDE DEF all
<1>6. /\ all \in Seq(Nat) /\ Len(all) = Len(both) + n
      /\ \A i \in 1 .. Len(both) + n : i <= Len(both) => all[i] = both[i]
  BY <1>4 DEF all
<1>7. \A i \in 1 .. Len(old) + Len(field) : all[i] = both[i]
  BY <1>1, <1>3, <1>6
<1>8. \A i \in 1 .. Len(old) : all[i] = old[i]
  <2> TAKE i \in 1 .. Len(old)
  <2>1. i \in 1 .. Len(old) + Len(field) /\ i <= Len(old)
    BY <1>1
  <2> QED
    BY <1>3, <1>7, <2>1
<1>9. \A i \in 1 .. Len(field) : all[Len(old) + i] = field[i]
  <2> TAKE i \in 1 .. Len(field)
  <2>1. Len(old) + i \in 1 .. Len(old) + Len(field) /\ ~ (Len(old) + i <= Len(old))
        /\ (Len(old) + i) - Len(old) = i
    BY <1>1
  <2> QED
    BY <1>3, <1>7, <2>1
<1>10. Len(all) = Len(old) + ALIGN_VALUE(Len(field), Word)
  BY <1>1, <1>3, <1>6
<1> QED
  BY <1>5, <1>6, <1>8, <1>9, <1>10 DEF Follows, all

(* A word that is appended is read back where the buffer ended.            *)
LEMMA AppendWord ==
  ASSUME NEW old \in Seq(Nat), NEW v \in Nat
  PROVE  LET buf == AppendToBuffer(old, UINT32(v))
         IN /\ buf \in Seq(Nat) /\ Len(buf) = Len(old) + Word
            /\ \A i \in 1 .. Len(old) : buf[i] = old[i]
            /\ buf[Len(old) + 1] = v
<1> DEFINE buf == AppendToBuffer(old, UINT32(v))
<1>1. UINT32(v) \in Seq(Nat) /\ Len(UINT32(v)) = Word /\ UINT32(v)[1] = v
      /\ ALIGN_VALUE(Word, Word) = Word
  BY WordCells
<1>2. Follows(buf, old, UINT32(v))
  BY <1>1, AppendFollows
<1>3. 1 \in 1 .. Word
  BY RecordAssumption
<1> HIDE DEF buf
<1>4. buf \in Seq(Nat) /\ Len(buf) = Len(old) + Word
      /\ \A i \in 1 .. Len(old) : buf[i] = old[i]
  BY <1>1, <1>2 DEF Follows
<1>5. buf[Len(old) + 1] = v
  BY <1>1, <1>2, <1>3 DEF Follows
<1> QED
  BY <1>4, <1>5 DEF buf

(* buf is old with cells behind it.                                        *)
Extends(buf, old) ==
  /\ buf \in Seq(Nat) /\ Len(old) <= Len(buf)
  /\ \A i \in 1 .. Len(old) : buf[i] = old[i]

(* What is appended extends, and what extends that extends.                *)
LEMMA ExtendsFacts ==
  /\ \A a, b \in Seq(Nat) : \A f \in Seq(Nat) : Follows(b, a, f) => Extends(b, a)
  /\ \A a, b, c \in Seq(Nat) : Extends(b, a) /\ Extends(c, b) => Extends(c, a)
  /\ \A a \in Seq(Nat) : Extends(a, a)
<1>1. ASSUME NEW a \in Seq(Nat), NEW b \in Seq(Nat), NEW f \in Seq(Nat), Follows(b, a, f)
      PROVE  Extends(b, a)
  <2>1. ALIGN_VALUE(Len(f), Word) \in Nat /\ Len(a) \in Nat
    BY RecordAssumption, Aligned, LenProperties
  <2> QED
    BY <1>1, <2>1 DEF Follows, Extends
<1>2. ASSUME NEW a \in Seq(Nat), NEW b \in Seq(Nat), NEW c \in Seq(Nat),
             Extends(b, a), Extends(c, b)
      PROVE  Extends(c, a)
  <2>1. Len(a) \in Nat /\ Len(b) \in Nat /\ Len(c) \in Nat
    BY LenProperties
  <2>2. \A i \in 1 .. Len(a) : i \in 1 .. Len(b)
    BY <1>2, <2>1 DEF Extends
  <2> QED
    BY <1>2, <2>1, <2>2 DEF Extends
<1>3. ASSUME NEW a \in Seq(Nat)
      PROVE  Extends(a, a)
  BY LenProperties DEF Extends
<1> QED
  BY <1>1, <1>2, <1>3

(* The record of a variable is in the buffer, n cells after its beginning. *)
Name(k)  == Word + ALIGN_VALUE(Len(k.name), Word)
HasRecord(buf, n, k, v) ==
  /\ n + SerializedSize(k, v) <= Len(buf)
  /\ buf[n + 1] = Len(k.name)
  /\ \A i \in 1 .. Len(k.name) : buf[n + Word + i] = k.name[i]
  /\ buf[n + Name(k) + 1] = k.guid
  /\ buf[n + Name(k) + Word + 1] = v.attr
  /\ buf[n + Name(k) + 2 * Word + 1] = Len(v.data)
  /\ \A i \in 1 .. Len(v.data) : buf[n + Name(k) + 3 * Word + i] = v.data[i]

(* The constants, unfolded.                                                *)
LEMMA KeyAndVariable ==
  /\ Word \in Nat \ {0}
  /\ \A k \in Keys : /\ k.name \in Seq(Nat) /\ Len(k.name) \in Nat /\ k.guid \in Nat
                     /\ k = [name |-> k.name, guid |-> k.guid]
  /\ \A v \in Variable : /\ v.data \in Seq(Nat) /\ Len(v.data) \in Nat /\ v.attr \in Nat
                         /\ v = [attr |-> v.attr, data |-> v.data]
<1>1. \A k \in Keys : k \in [name : Seq(Nat), guid : Nat]
  BY RecordAssumption
<1>2. \A v \in Variable : v.data \in Seq(Nat) /\ v.attr \in Nat /\ v = [attr |-> v.attr, data |-> v.data]
  <2> TAKE v \in Variable
  <2>1. v \in [attr : Attrs, data : Values]
    BY DEF Variable
  <2>2. v = [attr |-> v.attr, data |-> v.data] /\ v.attr \in Attrs /\ v.data \in Values
    BY <2>1
  <2>3. Attrs \subseteq Nat /\ Values \subseteq Seq(Nat)
    BY RecordAssumption
  <2> QED
    BY <2>2, <2>3
<1>3. \A k \in Keys : k.name \in Seq(Nat) /\ k.guid \in Nat /\ k = [name |-> k.name, guid |-> k.guid]
  BY <1>1
<1>4. \A s \in Seq(Nat) : Len(s) \in Nat
  BY LenProperties
<1> QED
  BY <1>2, <1>3, <1>4, RecordAssumption

(* The sizes of a variable's fields.                                       *)
LEMMA Sizes ==
  ASSUME NEW k \in Keys, NEW v \in Variable
  PROVE  LET a == ALIGN_VALUE(Len(k.name), Word)
             d == ALIGN_VALUE(Len(v.data), Word)
         IN /\ a \in Nat /\ a >= Len(k.name) /\ Multiple(a, Word)
            /\ d \in Nat /\ d >= Len(v.data) /\ Multiple(d, Word)
            /\ Name(k) = Word + a /\ SerializedSize(k, v) = 4 * Word + a + d
            /\ SerializedSize(k, v) \in Nat \ {0}
<1>1. Len(k.name) \in Nat /\ Len(v.data) \in Nat /\ Word \in Nat \ {0}
  BY KeyAndVariable
<1> DEFINE a == ALIGN_VALUE(Len(k.name), Word)
           d == ALIGN_VALUE(Len(v.data), Word)
<1>2. a \in Nat /\ a >= Len(k.name) /\ Multiple(a, Word)
  BY <1>1, Aligned
<1>3. d \in Nat /\ d >= Len(v.data) /\ Multiple(d, Word)
  BY <1>1, Aligned
<1>4. Name(k) = Word + a /\ SerializedSize(k, v) = 4 * Word + a + d
  BY DEF Name, SerializedSize
<1> HIDE DEF a, d
<1>5. SerializedSize(k, v) \in Nat \ {0}
  BY <1>1, <1>2, <1>3, <1>4
<1> QED
  BY <1>2, <1>3, <1>4, <1>5 DEF a, d

(* A record is unpacked as what it is of.                                  *)
LEMMA Unpacks ==
  ASSUME NEW buf \in Seq(Nat), NEW n \in Nat, NEW k \in Keys, NEW v \in Variable,
         HasRecord(buf, n, k, v)
  PROVE  UnpackVariableFromBuffer(buf, n) =
           [valid |-> TRUE, key |-> k, var |-> v, next |-> n + SerializedSize(k, v)]
<1> DEFINE L == Len(buf)
           a == ALIGN_VALUE(Len(k.name), Word)
           d == ALIGN_VALUE(Len(v.data), Word)
           w == Word
           ln == Len(k.name)
           ld == Len(v.data)
           guid == n + w + a
           attr == guid + w
           size == attr + w
           data == size + w
<1>1. /\ L \in Nat /\ w \in Nat /\ w # 0 /\ a \in Nat /\ d \in Nat /\ ln \in Nat /\ ld \in Nat
      /\ ln <= a /\ ld <= d /\ n + 4 * w + a + d <= L
      /\ Name(k) = w + a /\ SerializedSize(k, v) = 4 * w + a + d
  BY KeyAndVariable, Sizes, LenProperties, SMTT(30) DEF HasRecord
<1>2. /\ buf[n + 1] = ln /\ buf[guid + 1] = k.guid /\ buf[attr + 1] = v.attr
      /\ buf[size + 1] = ld
      /\ \A i \in 1 .. ln : buf[n + w + i] = k.name[i]
      /\ \A i \in 1 .. ld : buf[data + i] = v.data[i]
  <2> HIDE DEF w, a, d, ln, ld, L
  <2>1. /\ guid + 1 = n + Name(k) + 1 /\ attr + 1 = n + Name(k) + w + 1
        /\ size + 1 = n + Name(k) + 2 * w + 1
        /\ \A i \in 1 .. ld : data + i = n + Name(k) + 3 * w + i
    BY <1>1
  <2>2. /\ buf[n + 1] = ln /\ buf[n + Name(k) + 1] = k.guid /\ buf[n + Name(k) + w + 1] = v.attr
        /\ buf[n + Name(k) + 2 * w + 1] = ld
        /\ \A i \in 1 .. ln : buf[n + w + i] = k.name[i]
        /\ \A i \in 1 .. ld : buf[n + Name(k) + 3 * w + i] = v.data[i]
    BY DEF HasRecord, w, ln, ld
  <2> HIDE DEF guid, attr, size, data
  <2> QED
    BY <2>1, <2>2
<1> HIDE DEF w, a, d, ln, ld, L
<1>3. /\ n \in Nat /\ guid \in Nat /\ attr \in Nat /\ size \in Nat /\ data \in Nat
      /\ n < L /\ guid < L /\ attr < L /\ size < L /\ data + d <= L
      /\ \A i \in 1 .. ln : n + w + i - 1 < L /\ (n + w + i - 1) + 1 = n + w + i
      /\ \A i \in 1 .. ld : data + i - 1 < L /\ (data + i - 1) + 1 = data + i
      /\ data + d = n + SerializedSize(k, v)
  BY <1>1
<1> HIDE DEF guid, attr, size, data
<1>4. \A o \in Nat : o < L => ReadUINT32(buf, o) = buf[o + 1]
  BY DEF ReadUINT32, L
<1>5. /\ ReadUINT32(buf, n) = ln /\ ReadUINT32(buf, guid) = k.guid
      /\ ReadUINT32(buf, attr) = v.attr /\ ReadUINT32(buf, size) = ld
  BY <1>2, <1>3, <1>4
<1>6. Bytes(buf, n + w, ln) = k.name
  <2>1. k.name = [i \in 1 .. ln |-> k.name[i]]
    BY KeyAndVariable, LenProperties DEF ln
  <2>2. \A i \in 1 .. ln : ReadUINT32(buf, n + w + i - 1) = k.name[i]
    <3> TAKE i \in 1 .. ln
    <3>1. n + w + i - 1 < L /\ (n + w + i - 1) + 1 = n + w + i /\ n + w + i - 1 \in Nat
      BY <1>1, <1>3
    <3> QED
      BY <1>2, <3>1 DEF ReadUINT32, L
  <2> QED
    BY <2>1, <2>2 DEF Bytes
<1>7. Bytes(buf, data, ld) = v.data
  <2>1. v.data = [i \in 1 .. ld |-> v.data[i]]
    BY KeyAndVariable, LenProperties DEF ld
  <2>2. \A i \in 1 .. ld : ReadUINT32(buf, data + i - 1) = v.data[i]
    <3> TAKE i \in 1 .. ld
    <3>1. data + i - 1 < L /\ (data + i - 1) + 1 = data + i /\ data + i - 1 \in Nat
      BY <1>1, <1>3
    <3> QED
      BY <1>2, <3>1 DEF ReadUINT32, L
  <2> QED
    BY <2>1, <2>2 DEF Bytes
<1>8. UnpackVariableFromBuffer(buf, n) =
        [valid |-> data + d <= L,
         key   |-> [name |-> Bytes(buf, n + w, ln), guid |-> ReadUINT32(buf, guid)],
         var   |-> [attr |-> ReadUINT32(buf, attr), data |-> Bytes(buf, data, ld)],
         next  |-> data + d]
  BY <1>5 DEF UnpackVariableFromBuffer, guid, attr, size, data, w, a, d, L, ln, ld
<1>9. [name |-> k.name, guid |-> k.guid] = k /\ [attr |-> v.attr, data |-> v.data] = v
  BY KeyAndVariable
<1>10. (data + d <= L) = TRUE
  BY <1>3
<1> QED
  BY <1>3, <1>5, <1>6, <1>7, <1>8, <1>9, <1>10

(* A variable is packed into as many cells as its size says, behind those  *)
(* of the others.                                                          *)
LEMMA Packs ==
  ASSUME NEW inst, inst.data \in Seq(Nat), NEW k \in Keys, NEW v \in Variable,
         IsVariableAllowed(k)
  PROVE  LET buf == SerializeVariablesAddVariable(inst, k, v).data
         IN /\ Extends(buf, inst.data)
            /\ Len(buf) = Len(inst.data) + SerializedSize(k, v)
            /\ HasRecord(buf, Len(inst.data), k, v)
<1> DEFINE b0 == inst.data
           b1 == AppendToBuffer(b0, UINT32(Len(k.name)))
           b2 == AppendToBuffer(b1, k.name)
           b3 == AppendToBuffer(b2, UINT32(k.guid))
           b4 == AppendToBuffer(b3, UINT32(v.attr))
           b5 == AppendToBuffer(b4, UINT32(Len(v.data)))
           b6 == AppendToBuffer(b5, v.data)
           n == Len(b0)
           a == ALIGN_VALUE(Len(k.name), Word)
           d == ALIGN_VALUE(Len(v.data), Word)
<1>1. SerializeVariablesAddVariable(inst, k, v).data = b6
  <2>1. EnsureExtraBufferSpace(inst, SerializedSize(k, v)).data = b0
    BY DEF EnsureExtraBufferSpace
  <2>2. LET grown == EnsureExtraBufferSpace(inst, SerializedSize(k, v))
        IN SerializeVariablesAddVariable(inst, k, v) =
             [grown EXCEPT !.data =
               AppendToBuffer(AppendToBuffer(AppendToBuffer(AppendToBuffer(AppendToBuffer(
                 AppendToBuffer(grown.data, UINT32(Len(k.name))), k.name), UINT32(k.guid)),
                 UINT32(v.attr)), UINT32(Len(v.data))), v.data)]
    BY DEF SerializeVariablesAddVariable
  <2> DEFINE grown == EnsureExtraBufferSpace(inst, SerializedSize(k, v))
  <2>3. \A b : [grown EXCEPT !.data = b].data = b
    BY DEF EnsureExtraBufferSpace
  <2> QED
    BY <2>1, <2>2, <2>3
<1>2. /\ k.name \in Seq(Nat) /\ v.data \in Seq(Nat) /\ Len(k.name) \in Nat /\ Len(v.data) \in Nat
      /\ k.guid \in Nat /\ v.attr \in Nat /\ Word \in Nat \ {0} /\ a \in Nat /\ d \in Nat
      /\ Name(k) = Word + a /\ SerializedSize(k, v) = 4 * Word + a + d
      /\ Len(k.name) <= a /\ Len(v.data) <= d
  BY KeyAndVariable, Sizes
<1>3. b0 \in Seq(Nat) /\ n \in Nat
  BY LenProperties
<1>4. /\ b1 \in Seq(Nat) /\ Len(b1) = n + Word /\ b1[n + 1] = Len(k.name)
      /\ \A i \in 1 .. n : b1[i] = b0[i]
  BY <1>2, <1>3, AppendWord
<1> HIDE DEF b1
<1>5. Follows(b2, b1, k.name)
  BY <1>2, <1>4, AppendFollows
<1>6. b2 \in Seq(Nat) /\ Len(b2) = n + Word + a
  BY <1>4, <1>5 DEF Follows
<1> HIDE DEF b2
<1>7. /\ b3 \in Seq(Nat) /\ Len(b3) = Len(b2) + Word /\ b3[Len(b2) + 1] = k.guid
      /\ \A i \in 1 .. Len(b2) : b3[i] = b2[i]
  BY <1>2, <1>6, AppendWord
<1> HIDE DEF b3
<1>8. /\ b4 \in Seq(Nat) /\ Len(b4) = Len(b3) + Word /\ b4[Len(b3) + 1] = v.attr
      /\ \A i \in 1 .. Len(b3) : b4[i] = b3[i]
  BY <1>2, <1>7, AppendWord
<1> HIDE DEF b4
<1>9. /\ b5 \in Seq(Nat) /\ Len(b5) = Len(b4) + Word /\ b5[Len(b4) + 1] = Len(v.data)
      /\ \A i \in 1 .. Len(b4) : b5[i] = b4[i]
  BY <1>2, <1>8, AppendWord
<1> HIDE DEF b5
<1>10. Follows(b6, b5, v.data)
  BY <1>2, <1>9, AppendFollows
<1>11. b6 \in Seq(Nat) /\ Len(b6) = Len(b5) + d
  BY <1>10 DEF Follows
<1> HIDE DEF b6, b0, a, d, n
<1>12. /\ Len(b2) = n + Word + a /\ Len(b3) = n + 2 * Word + a /\ Len(b4) = n + 3 * Word + a
       /\ Len(b5) = n + 4 * Word + a /\ Len(b6) = n + 4 * Word + a + d
  BY <1>2, <1>3, <1>6, <1>7, <1>8, <1>9, <1>11
<1>13. /\ Extends(b1, b0) /\ Extends(b2, b1) /\ Extends(b3, b2) /\ Extends(b4, b3)
       /\ Extends(b5, b4) /\ Extends(b6, b5)
  <2>1. Extends(b2, b1) /\ Extends(b6, b5)
    BY <1>2, <1>4, <1>5, <1>6, <1>9, <1>10, <1>11, ExtendsFacts
  <2>2. Extends(b1, b0)
    BY <1>2, <1>3, <1>4 DEF Extends, n
  <2>3. Extends(b3, b2) /\ Extends(b4, b3) /\ Extends(b5, b4)
    BY <1>2, <1>3, <1>7, <1>8, <1>9, <1>12 DEF Extends
  <2> QED
    BY <2>1, <2>2, <2>3
<1>14. /\ Extends(b6, b0) /\ Extends(b6, b1) /\ Extends(b6, b2) /\ Extends(b6, b3)
       /\ Extends(b6, b4) /\ Extends(b6, b5)
  BY <1>3, <1>4, <1>6, <1>7, <1>8, <1>9, <1>11, <1>13, ExtendsFacts
<1>15. /\ b6[n + 1] = Len(k.name)
       /\ b6[n + Word + a + 1] = k.guid
       /\ b6[n + 2 * Word + a + 1] = v.attr
       /\ b6[n + 3 * Word + a + 1] = Len(v.data)
  <2>1. n + 1 \in 1 .. Len(b1) /\ n + Word + a + 1 \in 1 .. Len(b3)
        /\ n + 2 * Word + a + 1 \in 1 .. Len(b4) /\ n + 3 * Word + a + 1 \in 1 .. Len(b5)
    <3>1. /\ n + 1 \in 1 .. n + Word /\ n + Word + a + 1 \in 1 .. n + 2 * Word + a
          /\ n + 2 * Word + a + 1 \in 1 .. n + 3 * Word + a
          /\ n + 3 * Word + a + 1 \in 1 .. n + 4 * Word + a
      BY <1>2, <1>3
    <3> QED
      BY <3>1, <1>4, <1>12
  <2>2. /\ b1[n + 1] = Len(k.name) /\ b3[n + Word + a + 1] = k.guid
        /\ b4[n + 2 * Word + a + 1] = v.attr /\ b5[n + 3 * Word + a + 1] = Len(v.data)
    BY <1>4, <1>7, <1>8, <1>9, <1>12
  <2> QED
    BY <1>14, <2>1, <2>2 DEF Extends
<1>16. \A i \in 1 .. Len(k.name) : b6[n + Word + i] = k.name[i]
  <2> TAKE i \in 1 .. Len(k.name)
  <2>1. n + Word + i \in 1 .. Len(b2)
    BY <1>2, <1>3, <1>12
  <2>2. b2[n + Word + i] = k.name[i]
    BY <1>4, <1>5 DEF Follows
  <2> QED
    BY <1>14, <2>1, <2>2 DEF Extends
<1>17. \A i \in 1 .. Len(v.data) : b6[n + Name(k) + 3 * Word + i] = v.data[i]
  <2> TAKE i \in 1 .. Len(v.data)
  <2>1. n + Name(k) + 3 * Word + i = Len(b5) + i
    BY <1>2, <1>3, <1>12
  <2> QED
    BY <1>10, <2>1 DEF Follows
<1>18. /\ n + Name(k) + 1 = n + Word + a + 1
       /\ n + Name(k) + Word + 1 = n + 2 * Word + a + 1
       /\ n + Name(k) + 2 * Word + 1 = n + 3 * Word + a + 1
       /\ Len(b6) = n + SerializedSize(k, v)
       /\ n + SerializedSize(k, v) <= Len(b6)
  BY <1>2, <1>3, <1>12
<1>19. HasRecord(b6, n, k, v)
  BY <1>15, <1>16, <1>17, <1>18 DEF HasRecord
<1> QED
  BY <1>1, <1>14, <1>18, <1>19 DEF n, b0

-----------------------------------------------------------------------------
(* Unpacking a buffer.                                                     *)

(* A record that is valid ends behind its beginning, inside the buffer,    *)
(* and is the same in a buffer that goes on behind it.                     *)
LEMMA RecordEnds ==
  ASSUME NEW buf \in Seq(Nat), NEW o \in Nat
  PROVE  LET r == UnpackVariableFromBuffer(buf, o)
         IN /\ r.next \in Nat /\ r.next > o
            /\ r.valid = (r.next <= Len(buf))
            /\ \A more : Extends(more, buf) /\ r.valid =>
                 UnpackVariableFromBuffer(more, o) = r
<1> DEFINE Read(i) == ReadUINT32(buf, i)
           nameSize == Read(o)
           a        == ALIGN_VALUE(nameSize, Word)
           guid     == o + Word + a
           attr     == guid + Word
           size     == attr + Word
           dataSize == Read(size)
           data     == size + Word
           d        == ALIGN_VALUE(dataSize, Word)
           L        == Len(buf)
           r        == UnpackVariableFromBuffer(buf, o)
<1>1. Word \in Nat \ {0} /\ L \in Nat
  BY KeyAndVariable, LenProperties
<1>2. \A i \in Nat : Read(i) \in Nat
  <2> TAKE i \in Nat
  <2>1. CASE i < L
    <3>1. i + 1 \in 1 .. Len(buf)
      BY <1>1, <2>1
    <3> QED
      BY <2>1, <3>1, ElementOfSeq DEF ReadUINT32
  <2>2. CASE ~ (i < L)
    BY <2>2 DEF ReadUINT32
  <2> QED
    BY <2>1, <2>2
<1>3. nameSize \in Nat /\ a \in Nat /\ nameSize <= a
  BY <1>1, <1>2, Aligned
<1>4. guid \in Nat /\ attr \in Nat /\ size \in Nat /\ data \in Nat
  <2> HIDE DEF a
  <2> QED
    BY <1>1, <1>3
<1>5. dataSize \in Nat /\ d \in Nat /\ dataSize <= d
  BY <1>1, <1>2, <1>4, Aligned
<1>6. r = [valid |-> data + d <= L,
           key   |-> [name |-> Bytes(buf, o + Word, nameSize), guid |-> Read(guid)],
           var   |-> [attr |-> Read(attr), data |-> Bytes(buf, data, dataSize)],
           next  |-> data + d]
  BY DEF UnpackVariableFromBuffer
<1>7. r.next = data + d /\ r.valid = (data + d <= L)
  BY <1>6
<1>8. data + d \in Nat /\ data + d > o
  <2> HIDE DEF a, d, nameSize
  <2> QED
    BY <1>1, <1>3, <1>5
<1>9. ASSUME NEW more, Extends(more, buf), data + d <= L
      PROVE  UnpackVariableFromBuffer(more, o) = r
  <2>1. \A i \in Nat : i < L => ReadUINT32(more, i) = Read(i)
    <3> TAKE i \in Nat
    <3> HAVE i < L
    <3>1. i + 1 \in 1 .. L /\ Len(more) \in Nat
      BY <1>1, <1>9, LenProperties DEF Extends
    <3>2. i < Len(more) /\ more[i + 1] = buf[i + 1]
      BY <1>1, <1>9, <3>1 DEF Extends
    <3> QED
      BY <3>2 DEF ReadUINT32
  <2>2. /\ o < L /\ guid < L /\ attr < L /\ size < L
        /\ \A i \in 1 .. nameSize : o + Word + i - 1 < L /\ o + Word + i - 1 \in Nat
        /\ \A i \in 1 .. dataSize : data + i - 1 < L /\ data + i - 1 \in Nat
    <3> HIDE DEF a, d, nameSize, dataSize, L
    <3> QED
      BY <1>1, <1>3, <1>5, <1>9
  <2> HIDE DEF Read
  <2>3. ReadUINT32(more, o) = nameSize /\ ReadUINT32(more, guid) = Read(guid)
        /\ ReadUINT32(more, attr) = Read(attr) /\ ReadUINT32(more, size) = dataSize
    <3> HIDE DEF a
    <3> QED
      BY <1>4, <2>1, <2>2
  <2>4. Bytes(more, o + Word, nameSize) = Bytes(buf, o + Word, nameSize)
    BY <2>1, <2>2 DEF Bytes, Read
  <2>5. Bytes(more, data, dataSize) = Bytes(buf, data, dataSize)
    <3> HIDE DEF data, dataSize
    <3> QED
      BY <2>1, <2>2 DEF Bytes, Read
  <2>6. data + d <= Len(more) /\ data + d <= L
    <3>1. Len(more) \in Nat /\ L <= Len(more)
      BY <1>9, LenProperties DEF Extends
    <3> HIDE DEF data, d, L
    <3> QED
      BY <1>1, <1>8, <1>9, <3>1
  <2>7. UnpackVariableFromBuffer(more, o) =
          [valid |-> data + d <= Len(more),
           key   |-> [name |-> Bytes(more, o + Word, nameSize), guid |-> Read(guid)],
           var   |-> [attr |-> Read(attr), data |-> Bytes(more, data, dataSize)],
           next  |-> data + d]
    BY <2>3 DEF UnpackVariableFromBuffer
  <2>8. (data + d <= Len(more)) = TRUE /\ (data + d <= L) = TRUE
    BY <2>6
  <2> QED
    BY <1>6, <2>4, <2>5, <2>7, <2>8
<1> HIDE DEF r, data, d, L
<1>10. \A more : Extends(more, buf) /\ r.valid => UnpackVariableFromBuffer(more, o) = r
  BY <1>7, <1>9
<1>11. r.next \in Nat /\ r.next > o
  BY <1>7, <1>8
<1>12. r.valid = (r.next <= L)
  BY <1>7
<1> QED
  BY <1>10, <1>11, <1>12 DEF r, L

(* What IterateVariablesInBuffer comes upon from o on.                     *)
Walked(buf, o, f) ==
  IF o = Len(buf) THEN <<>>
  ELSE IF UnpackVariableFromBuffer(buf, o).valid
         THEN <<UnpackVariableFromBuffer(buf, o)>> \o f[UnpackVariableFromBuffer(buf, o).next]
  ELSE <<UnpackVariableFromBuffer(buf, o)>>

Walk(buf, m, f) == f = [o \in m .. Len(buf) |-> Walked(buf, o, f)]

(* A walk from one cell before.                                            *)
LEMMA WalkLonger ==
  ASSUME NEW buf \in Seq(Nat), NEW m \in Nat, m < Len(buf), NEW f, Walk(buf, m + 1, f)
  PROVE  \E g : Walk(buf, m, g)
<1> DEFINE L == Len(buf)
           g == [o \in m .. L |-> IF o = m THEN Walked(buf, m, f) ELSE f[o]]
<1>1. /\ L \in Nat /\ m + 1 \in Nat
      /\ \A o \in m .. L : o # m => o \in m + 1 .. L
      /\ \A o \in m + 1 .. L : o \in m .. L /\ o # m
  BY LenProperties
<1>2. \A o \in m + 1 .. L : g[o] = f[o]
  BY <1>1
<1>3. g[m] = Walked(buf, m, f) /\ \A o \in m .. L : o \in Nat
  BY <1>1
<1>4. \A o \in m .. L : o # L /\ UnpackVariableFromBuffer(buf, o).valid =>
        UnpackVariableFromBuffer(buf, o).next \in m + 1 .. L
  <2> TAKE o \in m .. L
  <2> DEFINE r == UnpackVariableFromBuffer(buf, o)
  <2>1. o \in Nat /\ r.next \in Nat /\ r.next > o /\ (r.valid <=> r.next <= L)
    BY <1>3, RecordEnds
  <2> HIDE DEF r
  <2>2. r.valid => r.next \in m + 1 .. L
    BY <1>1, <2>1
  <2> QED
    BY <2>2 DEF r
<1>5. \A o \in m .. L : Walked(buf, o, g) = Walked(buf, o, f)
  <2> HIDE DEF g
  <2> QED
    BY <1>2, <1>4 DEF Walked
<1>6. \A o \in m + 1 .. L : f[o] = Walked(buf, o, f)
  BY DEF Walk
<1>7. \A o \in m .. L : g[o] = Walked(buf, o, g)
  <2> TAKE o \in m .. L
  <2>1. CASE o = m
    BY <1>3, <1>5, <2>1
  <2>2. CASE o # m
    BY <1>1, <1>2, <1>5, <1>6, <2>2
  <2> QED
    BY <2>1, <2>2
<1>8. g = [o \in m .. L |-> g[o]]
  OBVIOUS
<1> HIDE DEF g
<1>9. Walk(buf, m, g)
  BY <1>7, <1>8 DEF Walk
<1> QED
  BY <1>9

(* The walk ends, whatever is in the buffer.                               *)
LEMMA WalkEnds ==
  ASSUME NEW buf \in Seq(Nat)
  PROVE  \E f : Walk(buf, 0, f)
<1> DEFINE L == Len(buf)
           fails == {n \in 0 .. L : ~ \E f : Walk(buf, L - n, f)}
<1>1. L \in Nat
  BY LenProperties
<1>2. SUFFICES ASSUME fails # {}  PROVE FALSE
  <2>1. L \in 0 .. L /\ L - L = 0
    BY <1>1
  <2> QED
    BY <2>1
<1>3. PICK n \in fails : \A j \in fails : n <= j
  <2>1. fails \in SUBSET Nat
    BY <1>1
  <2> QED
    BY <1>2, <2>1, Smallest
<1>4. n # 0
  <2> DEFINE f == [o \in L .. L |-> <<>>]
  <2>1. \A o \in L .. L : o = L
    BY <1>1
  <2>2. \A o \in L .. L : Walked(buf, o, f) = <<>>
    BY <2>1 DEF Walked
  <2>3. f = [o \in L .. L |-> Walked(buf, o, f)]
    <3>1. \A o \in L .. L : f[o] = Walked(buf, o, f)
      BY <2>2
    <3>2. f = [o \in L .. L |-> f[o]]
      OBVIOUS
    <3> HIDE DEF f
    <3> QED
      BY <3>1, <3>2
  <2> HIDE DEF f
  <2>4. \E h : Walk(buf, L, h)
    BY <2>3 DEF Walk
  <2>5. L - 0 = L
    BY <1>1
  <2> QED
    BY <1>3, <2>4, <2>5
<1>5. n \in 0 .. L /\ ~ \E f : Walk(buf, L - n, f)
  BY <1>3
<1>6. n - 1 \in 0 .. L /\ ~ (n <= n - 1) /\ L - n \in Nat /\ L - n < L /\ L - (n - 1) = (L - n) + 1
  BY <1>1, <1>4, <1>5
<1>7. PICK f : Walk(buf, L - (n - 1), f)
  BY <1>3, <1>6
<1>8. \E g : Walk(buf, L - n, g)
  BY <1>6, <1>7, WalkLonger
<1> QED
  BY <1>5, <1>8

(* buf is what packing makes of variables whose names are all different:   *)
(* recs are its records, one behind the other.                             *)
Entries == [valid : {TRUE}, key : Keys, var : Variable, next : Nat]

At(recs, i) == IF i = 1 THEN 0 ELSE recs[i - 1].next

Packed(buf, recs) ==
  /\ buf \in Seq(Nat) /\ recs \in Seq(Entries)
  /\ \A i \in 1 .. Len(recs) : recs[i] = UnpackVariableFromBuffer(buf, At(recs, i))
  /\ At(recs, Len(recs) + 1) = Len(buf)
  /\ \A i \in 1 .. Len(recs) : IsVariableAllowed(recs[i].key)
  /\ \A i, j \in 1 .. Len(recs) : recs[i].key = recs[j].key => i = j

(* Its entries.                                                            *)
LEMMA EntryFacts ==
  ASSUME NEW buf, NEW recs, Packed(buf, recs), NEW i \in 1 .. Len(recs)
  PROVE  /\ recs[i] \in Entries /\ recs[i].valid = TRUE /\ recs[i].key \in Keys
         /\ recs[i].var \in Variable /\ recs[i].next \in Nat
<1>1. recs[i] \in Entries
  BY ElementOfSeq DEF Packed
<1> QED
  BY <1>1 DEF Entries

(* Each record begins before the end of the buffer, and ends before the    *)
(* end of it or at it.                                                     *)
LEMMA EntriesInside ==
  ASSUME NEW buf, NEW recs, Packed(buf, recs)
  PROVE  /\ Len(recs) \in Nat /\ Len(buf) \in Nat
         /\ \A i \in 1 .. Len(recs) :
              At(recs, i) \in Nat /\ At(recs, i) < Len(buf) /\ At(recs, i + 1) = recs[i].next
         /\ At(recs, Len(recs) + 1) = Len(buf)
<1>1. Len(recs) \in Nat /\ Len(buf) \in Nat
  BY LenProperties DEF Packed
<1>2. ASSUME NEW i \in 1 .. Len(recs)
      PROVE  At(recs, i) \in Nat /\ At(recs, i) < Len(buf) /\ At(recs, i + 1) = recs[i].next
  <2>1. At(recs, i + 1) = recs[i].next
    <3>1. i + 1 # 1 /\ (i + 1) - 1 = i
      BY <1>1
    <3> QED
      BY <3>1 DEF At
  <2>2. At(recs, i) \in Nat
    <3>1. CASE i = 1
      BY <3>1 DEF At
    <3>2. CASE i # 1
      <4>1. i - 1 \in 1 .. Len(recs)
        BY <1>1, <3>2
      <4> QED
        BY <3>2, <4>1, EntryFacts DEF At
    <3> QED
      BY <3>1, <3>2
  <2> DEFINE r == UnpackVariableFromBuffer(buf, At(recs, i))
  <2>3. buf \in Seq(Nat) /\ recs[i] = r /\ r.valid = TRUE
    BY EntryFacts, ZenonT(40) DEF Packed
  <2>4. r.next \in Nat /\ r.next > At(recs, i) /\ r.valid = (r.next <= Len(buf))
    BY <2>2, <2>3, RecordEnds
  <2> HIDE DEF r
  <2>5. At(recs, i) < Len(buf)
    <3>1. r.next <= Len(buf)
      BY <2>3, <2>4, Zenon
    <3> QED
      BY <1>1, <2>2, <2>4, <3>1
  <2> QED
    BY <2>1, <2>2, <2>5
<1> QED
  BY <1>1, <1>2 DEF Packed

(* IterateVariablesInBuffer comes upon the records, and on nothing else.   *)
LEMMA RecordsRead ==
  ASSUME NEW buf, NEW recs, Packed(buf, recs)
  PROVE  Records(buf) = recs
<1> DEFINE n == Len(recs)
           L == Len(buf)
<1>1. /\ n \in Nat /\ L \in Nat /\ buf \in Seq(Nat) /\ recs \in Seq(Entries)
      /\ \A i \in 1 .. n :
           At(recs, i) \in Nat /\ At(recs, i) < L /\ At(recs, i + 1) = recs[i].next
      /\ At(recs, n + 1) = L
  BY EntriesInside DEF Packed
<1>2. PICK f : Walk(buf, 0, f) /\ Records(buf) = f[0]
  <2> DEFINE from == CHOOSE f : Walk(buf, 0, f)
  <2>1. Walk(buf, 0, from)
    BY <1>1, WalkEnds
  <2>2. Records(buf) = from[0]
    BY DEF Records, Walk, Walked
  <2> QED
    BY <2>1, <2>2
<1>3. \A i \in 1 .. n : f[At(recs, i)] = <<recs[i]>> \o f[At(recs, i + 1)]
  <2> TAKE i \in 1 .. n
  <2>1. At(recs, i) \in 0 .. L /\ At(recs, i) # L /\ At(recs, i + 1) = recs[i].next
    BY <1>1
  <2>2. recs[i] = UnpackVariableFromBuffer(buf, At(recs, i)) /\ recs[i].valid
    BY EntryFacts DEF Packed
  <2>3. f[At(recs, i)] = Walked(buf, At(recs, i), f)
    BY <1>2, <2>1 DEF Walk
  <2> QED
    BY <2>1, <2>2, <2>3 DEF Walked
<1>4. f[L] = <<>>
  <2>1. L \in 0 .. L
    BY <1>1
  <2> QED
    BY <1>2, <2>1 DEF Walk, Walked
<1> HIDE DEF n, L
<1> DEFINE bad == {m \in 0 .. n : f[At(recs, n + 1 - m)] # SubSeq(recs, n + 1 - m, n)}
<1>5. bad = {}
  <2>1. SUFFICES ASSUME bad # {}  PROVE FALSE
    OBVIOUS
  <2>2. bad \in SUBSET Nat
    BY <1>1
  <2>3. PICK m \in bad : \A j \in bad : m <= j
    BY <2>1, <2>2, Smallest
  <2>4. m \in 0 .. n /\ f[At(recs, n + 1 - m)] # SubSeq(recs, n + 1 - m, n)
    BY <2>3
  <2>5. m # 0
    <3>1. n + 1 - 0 = n + 1 /\ n < n + 1 /\ n + 1 \in Int /\ n \in Int
      BY <1>1
    <3>2. SubSeq(recs, n + 1, n) = <<>>
      BY <3>1, SubSeqEmpty
    <3> QED
      BY <1>1, <1>4, <2>4, <3>1, <3>2
  <2> DEFINE i == n + 1 - m
  <2>6. m - 1 \in 0 .. n /\ ~ (m <= m - 1) /\ i \in 1 .. n /\ n + 1 - (m - 1) = i + 1 /\ n \in i .. n
    BY <1>1, <2>4, <2>5
  <2>7. f[At(recs, i + 1)] = SubSeq(recs, i + 1, n)
    BY <2>3, <2>6
  <2> HIDE DEF i
  <2>8. SubSeq(recs, i, n) = <<recs[i]>> \o SubSeq(recs, i + 1, n)
    BY <1>1, <2>6, SubSeqRecursiveFirst DEF n
  <2>9. f[At(recs, i)] = SubSeq(recs, i, n)
    BY <1>3, <2>6, <2>7, <2>8
  <2> QED
    BY <2>4, <2>9 DEF i
<1>6. f[At(recs, 1)] = SubSeq(recs, 1, n)
  <2>1. n \in 0 .. n /\ n + 1 - n = 1
    BY <1>1
  <2> QED
    BY <1>5, <2>1
<1> QED
  BY <1>1, <1>2, <1>6, SubSeqFull DEF n, At

(* No record of such a buffer is left out, and none cut off.               *)
LEMMA AllVisited ==
  ASSUME NEW buf, NEW recs, Packed(buf, recs)
  PROVE  AllValid(Records(buf)) /\ Visited(Records(buf)) = recs
<1> DEFINE n == Len(recs)
           Kept(f) == f = [m \in 0 .. n |->
                             IF m = 0 THEN <<>>
                             ELSE IF IsVariableAllowed(recs[m].key) THEN Append(f[m - 1], recs[m])
                             ELSE f[m - 1]]
<1>1. Records(buf) = recs /\ recs \in Seq(Entries) /\ n \in Nat /\ DOMAIN recs = 1 .. n
      /\ \A i \in 1 .. n : IsVariableAllowed(recs[i].key)
  BY RecordsRead, EntriesInside, LenProperties DEF Packed
<1>2. AllValid(recs)
  BY <1>1, EntryFacts DEF AllValid
<1>3. Kept([m \in 0 .. n |-> SubSeq(recs, 1, m)])
  <2> DEFINE f == [m \in 0 .. n |-> SubSeq(recs, 1, m)]
             W(m) == IF m = 0 THEN <<>>
                     ELSE IF IsVariableAllowed(recs[m].key) THEN Append(f[m - 1], recs[m])
                     ELSE f[m - 1]
  <2> HIDE DEF n
  <2>1. ASSUME NEW m \in 0 .. n
        PROVE  f[m] = W(m)
    <3>1. CASE m = 0
      <4>1. 0 < 1 /\ 0 \in Int /\ 1 \in Int
        OBVIOUS
      <4> QED
        BY <3>1, <4>1, SubSeqEmpty
    <3>2. CASE m # 0
      <4>1. m \in 1 .. n /\ m - 1 \in 0 .. n /\ m \in 1 .. m /\ m - 1 \in 0 .. Len(recs)
            /\ 1 \in 1 .. Len(recs) /\ m \in 1 .. Len(recs)
        BY <1>1, <2>1, <3>2 DEF n
      <4>2. SubSeq(recs, 1, m) = SubSeq(recs, 1, m - 1) \o <<recs[m]>>
        BY <1>1, <4>1, SubSeqRecursiveSecond
      <4>3. SubSeq(recs, 1, m - 1) \in Seq(Entries) /\ recs[m] \in Entries
        <5>1. \A i \in 1 .. m - 1 : recs[i] \in Entries
          BY <1>1, <4>1, ElementOfSeq
        <5>2. m - 1 \in Int /\ 1 \in Int
          BY <4>1
        <5> QED
          BY <1>1, <4>1, <5>1, <5>2, SubSeqProperties, ElementOfSeq
      <4>4. Append(SubSeq(recs, 1, m - 1), recs[m]) = SubSeq(recs, 1, m - 1) \o <<recs[m]>>
        BY <4>3, AppendIsConcat
      <4> QED
        BY <1>1, <3>2, <4>1, <4>2, <4>4
    <3> QED
      BY <3>1, <3>2
  <2>2. f = [m \in 0 .. n |-> f[m]]
    OBVIOUS
  <2> HIDE DEF f, W
  <2>3. f = [m \in 0 .. n |-> W(m)]
    BY ONLY <2>1, <2>2, Zenon
  <2> QED
    BY <2>3 DEF W, f
<1> HIDE DEF n
<1>4. PICK g : Kept(g) /\ Visited(recs) = g[n]
  <2> DEFINE upTo == CHOOSE f : Kept(f)
  <2>1. Kept(upTo)
    BY <1>3
  <2>2. Visited(recs) = upTo[n]
    BY DEF Visited, n
  <2> QED
    BY <2>1, <2>2, ZenonT(40)
<1>5. g[0] = <<>> /\ \A m \in 1 .. n : g[m] = Append(g[m - 1], recs[m])
  <2>1. 0 \in 0 .. n /\ \A m \in 1 .. n : m \in 0 .. n /\ m # 0
    BY <1>1
  <2> QED
    BY <1>1, <1>4, <2>1
<1> DEFINE f == [m \in 0 .. n |-> SubSeq(recs, 1, m)]
<1>6. f[0] = <<>> /\ \A m \in 1 .. n : f[m] = Append(f[m - 1], recs[m])
  <2>1. 0 \in 0 .. n /\ \A m \in 1 .. n : m \in 0 .. n /\ m # 0
    BY <1>1
  <2>2. Kept(f)
    BY <1>3
  <2> HIDE DEF f
  <2> QED
    BY <1>1, <2>1, <2>2
<1> HIDE DEF f, Kept
<1> DEFINE bad == {m \in 0 .. n : g[m] # f[m]}
<1>7. bad = {}
  <2>1. SUFFICES ASSUME bad # {}  PROVE FALSE
    OBVIOUS
  <2>2. bad \in SUBSET Nat
    BY <1>1
  <2>3. PICK m \in bad : \A j \in bad : m <= j
    BY <2>1, <2>2, Smallest
  <2>4. m \in 0 .. n /\ g[m] # f[m] /\ m # 0
    BY <1>5, <1>6, <2>3
  <2>5. m \in 1 .. n /\ m - 1 \in 0 .. n /\ ~ (m <= m - 1)
    BY <1>1, <2>4
  <2>6. g[m - 1] = f[m - 1]
    BY <2>3, <2>5
  <2> QED
    BY <1>5, <1>6, <2>4, <2>5, <2>6
<1>8. g[n] = f[n] /\ f[n] = SubSeq(recs, 1, n)
  <2>1. n \in 0 .. n
    BY <1>1
  <2> QED
    BY <1>7, <2>1 DEF f
<1> QED
  BY <1>1, <1>2, <1>4, <1>8, SubSeqFull DEF n

(* Nothing is packed into an empty buffer.                                 *)
LEMMA NothingPacked == Packed(<<>>, <<>>)
<1>1. <<>> \in Seq(Nat) /\ <<>> \in Seq(Entries) /\ Len(<<>>) = 0
  BY EmptySeq
<1>2. At(<<>>, 0 + 1) = 0
  BY DEF At
<1>3. 1 .. 0 = {}
  OBVIOUS
<1> QED
  BY <1>1, <1>2, <1>3 DEF Packed

(* SerializeVariablesAddVariable packs one more.                           *)
LEMMA OneMorePacked ==
  ASSUME NEW inst, NEW recs, Packed(inst.data, recs), NEW k \in Keys, NEW v \in Variable,
         IsVariableAllowed(k), \A i \in 1 .. Len(recs) : recs[i].key # k
  PROVE  LET new == SerializeVariablesAddVariable(inst, k, v).data
             r   == [valid |-> TRUE, key |-> k, var |-> v, next |-> Len(new)]
         IN Packed(new, Append(recs, r))
<1> DEFINE old == inst.data
           new == SerializeVariablesAddVariable(inst, k, v).data
           r   == [valid |-> TRUE, key |-> k, var |-> v, next |-> Len(new)]
           all == Append(recs, r)
           n   == Len(recs)
<1>1. /\ old \in Seq(Nat) /\ recs \in Seq(Entries) /\ n \in Nat /\ Len(old) \in Nat
      /\ \A i \in 1 .. n :
           At(recs, i) \in Nat /\ At(recs, i) < Len(old) /\ At(recs, i + 1) = recs[i].next
      /\ At(recs, n + 1) = Len(old)
  BY EntriesInside DEF Packed
<1>2. /\ Extends(new, old) /\ HasRecord(new, Len(old), k, v)
      /\ Len(new) = Len(old) + SerializedSize(k, v)
  BY <1>1, Packs
<1>3. new \in Seq(Nat) /\ Len(new) \in Nat
  BY <1>2, LenProperties DEF Extends
<1>4. UnpackVariableFromBuffer(new, Len(old)) = r
  <2> HIDE DEF new, old
  <2>1. UnpackVariableFromBuffer(new, Len(old)) =
          [valid |-> TRUE, key |-> k, var |-> v, next |-> Len(old) + SerializedSize(k, v)]
    BY <1>1, <1>2, <1>3, Unpacks
  <2> QED
    BY <1>2, <2>1
<1>5. r \in Entries /\ r.next = Len(new) /\ r.key = k
  BY <1>3 DEF Entries
<1> HIDE DEF new, r, old
<1>6. /\ all \in Seq(Entries) /\ Len(all) = n + 1 /\ all[n + 1] = r
      /\ \A i \in 1 .. n : all[i] = recs[i]
  BY <1>1, <1>5, AppendProperties
<1> HIDE DEF all, n
<1>7. \A i \in 1 .. n + 1 : At(all, i) = At(recs, i)
  <2> TAKE i \in 1 .. n + 1
  <2>1. i # 1 => i - 1 \in 1 .. n
    BY <1>1
  <2> QED
    BY <1>6, <2>1 DEF At
<1>8. At(all, (n + 1) + 1) = Len(new)
  <2>1. (n + 1) + 1 # 1 /\ ((n + 1) + 1) - 1 = n + 1
    BY <1>1
  <2> QED
    BY <1>5, <1>6, <2>1 DEF At
<1>9. \A i \in 1 .. n + 1 : i \in 1 .. n \/ i = n + 1
  BY <1>1
<1>10. n + 1 \in 1 .. n + 1
  BY <1>1
<1>11. ASSUME NEW i \in 1 .. n
       PROVE  recs[i] = UnpackVariableFromBuffer(new, At(recs, i))
  <2>1. /\ recs[i] = UnpackVariableFromBuffer(old, At(recs, i)) /\ recs[i].valid
        /\ At(recs, i) \in Nat
    BY <1>1, EntryFacts DEF Packed, old, n
  <2> QED
    BY <1>1, <1>2, <2>1, RecordEnds
<1>12. \A i \in 1 .. n + 1 : all[i] = UnpackVariableFromBuffer(new, At(all, i))
  <2> TAKE i \in 1 .. n + 1
  <2>1. CASE i \in 1 .. n
    BY <1>6, <1>7, <1>11, <2>1
  <2>2. CASE i = n + 1
    BY <1>1, <1>4, <1>6, <1>7, <2>2
  <2> QED
    BY <1>9, <2>1, <2>2
<1>13. \A i \in 1 .. n + 1 : IsVariableAllowed(all[i].key)
  <2>1. \A i \in 1 .. n : IsVariableAllowed(recs[i].key)
    BY DEF Packed, n
  <2> QED
    BY <1>5, <1>6, <1>9, <2>1
<1>14. \A i, j \in 1 .. n + 1 : all[i].key = all[j].key => i = j
  <2>1. \A i, j \in 1 .. n : recs[i].key = recs[j].key => i = j
    BY DEF Packed, n
  <2>2. \A i \in 1 .. n : recs[i].key # k
    BY DEF n
  <2> QED
    BY <1>5, <1>6, <1>9, <2>1, <2>2
<1>15. Packed(new, all)
  BY <1>3, <1>6, <1>8, <1>12, <1>13, <1>14 DEF Packed
<1> QED
  BY <1>15 DEF all, new, r

-----------------------------------------------------------------------------
(* Images.                                                                 *)

(* The buffer holds the variables f and no others.                         *)
Holds(buf, f) ==
  /\ Packed(buf, Records(buf))
  /\ LET recs == Records(buf)
     IN /\ \A i \in DOMAIN recs : f[recs[i].key] = recs[i].var
        /\ \A k \in Keys : f[k] # None => \E i \in DOMAIN recs : recs[i].key = k

(* It says so.                                                             *)
LEMMA HoldsSays ==
  ASSUME NEW buf, NEW f, f = [k \in Keys |-> f[k]], Holds(buf, f)
  PROVE  Says(buf) = f /\ AllValid(Records(buf)) /\ buf \in Seq(Nat)
<1> DEFINE recs == Records(buf)
           ks   == {recs[i].key : i \in {j \in DOMAIN recs : recs[j].valid}}
<1>1. /\ Packed(buf, recs) /\ buf # Blank /\ buf \in Seq(Nat)
      /\ \A i \in DOMAIN recs : f[recs[i].key] = recs[i].var
      /\ \A k \in Keys : f[k] # None => \E i \in DOMAIN recs : recs[i].key = k
  BY ImageAssumption DEF Holds, Packed
<1>2. AllValid(recs)
  BY <1>1, AllVisited
<1>3. DOMAIN recs = 1 .. Len(recs)
  BY <1>1, LenProperties DEF Packed
<1>4. Says(buf) = [k \in Keys |-> IF k \in ks
                                    THEN recs[CHOOSE i \in DOMAIN recs : recs[i].key = k].var
                                  ELSE None]
  BY <1>1 DEF Says
<1>5. ASSUME NEW k \in Keys
      PROVE  (IF k \in ks THEN recs[CHOOSE i \in DOMAIN recs : recs[i].key = k].var ELSE None)
               = f[k]
  <2>1. CASE k \in ks
    <3>1. \E i \in DOMAIN recs : recs[i].key = k
      BY <2>1
    <3> DEFINE c == CHOOSE i \in DOMAIN recs : recs[i].key = k
    <3>2. c \in DOMAIN recs /\ recs[c].key = k
      BY <3>1
    <3> QED
      BY <1>1, <2>1, <3>2
  <2>2. CASE k \notin ks
    <3>1. \A i \in DOMAIN recs : recs[i].valid
      BY <1>2 DEF AllValid
    <3>2. ~ \E i \in DOMAIN recs : recs[i].key = k
      BY <2>2, <3>1
    <3> QED
      BY <1>1, <2>2, <3>2
  <2> QED
    BY <2>1, <2>2
<1> HIDE DEF ks
<1>6. Says(buf) = [k \in Keys |-> f[k]]
  <2> HIDE DEF recs
  <2> QED
    BY <1>4, <1>5
<1> QED
  BY <1>1, <1>2, <1>6

-----------------------------------------------------------------------------
(* The file and the device.                                                *)

Cells == Nat \union Seq(Nat) \union {Blank}

(* What the file has where.                                                *)
LEMMA FileFacts ==
  ASSUME NEW data \in Seq(Nat)
  PROVE  LET f == ImageFile(data)
         IN /\ f \in Seq(Cells)
            /\ Len(f) = ALIGN_VALUE(HeaderSize + Len(data), BlockSize)
            /\ Multiple(Len(f), BlockSize) /\ HeaderSize + Len(data) <= Len(f)
            /\ f[1] = Signature /\ f[Word + 1] = Len(data) /\ f[2 * Word + 1] = data
            /\ \A i \in 1 .. Len(data) : f[HeaderSize + i] = data[i]
<1> DEFINE n    == Len(data)
           used == HeaderSize + n
           rest == ALIGN_VALUE(used, BlockSize) - used
           sig  == UINT32(Signature)
           size == UINT32(n)
           crc  == <<data>>
           tail == [i \in 1 .. Word - 1 |-> Blank]
           fill == [i \in 1 .. rest |-> Blank]
           h2   == sig \o size
           h3   == h2 \o crc
           head == h3 \o tail
           both == head \o data
           f    == both \o fill
<1>0. ImageFile(data) = f
  BY DEF ImageFile
<1>1. Word \in Nat \ {0} /\ BlockSize \in Nat \ {0} /\ n \in Nat /\ HeaderSize = 3 * Word
      /\ HeaderSize \in Nat /\ used \in Nat
  BY RecordAssumption, BlockAssumption, LenProperties DEF HeaderSize
<1>2. /\ rest \in Nat /\ ALIGN_VALUE(used, BlockSize) = used + rest
      /\ Multiple(ALIGN_VALUE(used, BlockSize), BlockSize)
  <2> DEFINE up == ALIGN_VALUE(used, BlockSize)
  <2> HIDE DEF used
  <2>1. up \in Nat /\ up >= used /\ Multiple(up, BlockSize)
    BY <1>1, Aligned
  <2> HIDE DEF up
  <2>2. up - used \in Nat /\ up = used + (up - used)
    BY <1>1, <2>1
  <2> QED
    BY <2>1, <2>2 DEF up
<1> HIDE DEF rest
<1>3. /\ sig \in Seq(Cells) /\ Len(sig) = Word /\ sig[1] = Signature
      /\ size \in Seq(Cells) /\ Len(size) = Word /\ size[1] = n
  <2>1. Signature \in Nat
    BY ImageAssumption
  <2>2. /\ sig \in Seq(Nat) /\ Len(sig) = Word /\ sig[1] = Signature
        /\ size \in Seq(Nat) /\ Len(size) = Word /\ size[1] = n
    BY <1>1, <2>1, WordCells
  <2>3. Nat \subseteq Cells
    BY DEF Cells
  <2> HIDE DEF sig, size
  <2> QED
    BY <2>2, <2>3, SeqMonotonic
<1>4. crc \in Seq(Cells) /\ Len(crc) = 1 /\ crc[1] = data
  <2>1. data \in Cells
    BY DEF Cells
  <2> QED
    BY <2>1
<1>5. tail \in Seq(Cells) /\ Len(tail) = Word - 1 /\ fill \in Seq(Cells) /\ Len(fill) = rest
  <2>1. Blank \in Cells /\ Word - 1 \in Nat
    BY <1>1 DEF Cells
  <2> QED
    BY <1>2, <2>1
<1>6. data \in Seq(Cells)
  <2>1. Nat \subseteq Cells
    BY DEF Cells
  <2> QED
    BY <2>1, SeqMonotonic
<1> HIDE DEF sig, size, crc, tail, fill, used
<1>7. /\ h2 \in Seq(Cells) /\ Len(h2) = 2 * Word
      /\ \A i \in 1 .. Word + Word : h2[i] = IF i <= Word THEN sig[i] ELSE size[i - Word]
  <2>1. /\ h2 \in Seq(Cells) /\ Len(h2) = Len(sig) + Len(size)
        /\ \A i \in 1 .. Len(sig) + Len(size) :
             h2[i] = IF i <= Len(sig) THEN sig[i] ELSE size[i - Len(sig)]
    <3>1. sig \in Seq(Cells) /\ size \in Seq(Cells)
      BY <1>3
    <3> QED
      BY ONLY <3>1, ConcatProperties
  <2>2. Word + Word = 2 * Word
    BY <1>1
  <2> HIDE DEF h2
  <2> QED
    BY <1>3, <2>1, <2>2
<1> HIDE DEF h2
<1>8. /\ h3 \in Seq(Cells) /\ Len(h3) = 2 * Word + 1
      /\ \A i \in 1 .. 2 * Word + 1 : h3[i] = IF i <= 2 * Word THEN h2[i] ELSE crc[i - 2 * Word]
  <2>1. /\ h3 \in Seq(Cells) /\ Len(h3) = Len(h2) + Len(crc)
        /\ \A i \in 1 .. Len(h2) + Len(crc) :
             h3[i] = IF i <= Len(h2) THEN h2[i] ELSE crc[i - Len(h2)]
    BY <1>4, <1>7, ConcatProperties
  <2> HIDE DEF h3
  <2> QED
    BY <1>4, <1>7, <2>1
<1> HIDE DEF h3
<1>9. /\ head \in Seq(Cells) /\ Len(head) = HeaderSize
      /\ \A i \in 1 .. HeaderSize : i <= 2 * Word + 1 => head[i] = h3[i]
  <2>1. /\ head \in Seq(Cells) /\ Len(head) = Len(h3) + Len(tail)
        /\ \A i \in 1 .. Len(h3) + Len(tail) :
             head[i] = IF i <= Len(h3) THEN h3[i] ELSE tail[i - Len(h3)]
    BY <1>5, <1>8, ConcatProperties
  <2>2. Len(h3) + Len(tail) = HeaderSize /\ Len(h3) = 2 * Word + 1
    BY <1>1, <1>5, <1>8
  <2> HIDE DEF head
  <2> QED
    BY <2>1, <2>2
<1> HIDE DEF head
<1>10. /\ both \in Seq(Cells) /\ Len(both) = HeaderSize + n
       /\ \A i \in 1 .. HeaderSize + n :
            both[i] = IF i <= HeaderSize THEN head[i] ELSE data[i - HeaderSize]
  BY <1>6, <1>9, ConcatProperties
<1> HIDE DEF both
<1>11. /\ f \in Seq(Cells) /\ Len(f) = HeaderSize + n + rest
       /\ \A i \in 1 .. HeaderSize + n : f[i] = both[i]
  <2>1. /\ f \in Seq(Cells) /\ Len(f) = Len(both) + Len(fill)
        /\ \A i \in 1 .. Len(both) + Len(fill) :
             f[i] = IF i <= Len(both) THEN both[i] ELSE fill[i - Len(both)]
    BY <1>5, <1>10, ConcatProperties
  <2>2. Len(both) + Len(fill) = HeaderSize + n + rest /\ Len(both) = HeaderSize + n
    BY <1>5, <1>10
  <2>3. \A i \in 1 .. HeaderSize + n : i \in 1 .. HeaderSize + n + rest /\ i <= HeaderSize + n
    BY <1>1, <1>2
  <2> HIDE DEF f
  <2> QED
    BY <2>1, <2>2, <2>3
<1> HIDE DEF f, n
<1>12. Len(f) = used + rest /\ used <= used + rest
  BY <1>1, <1>2, <1>11 DEF used, n
<1>13. \A i \in 1 .. 2 * Word + 1 : f[i] = h3[i]
  <2>1. \A i \in 1 .. 2 * Word + 1 :
          i \in 1 .. HeaderSize + n /\ i \in 1 .. HeaderSize /\ i <= HeaderSize /\ i <= 2 * Word + 1
    BY <1>1
  <2> QED
    BY <1>9, <1>10, <1>11, <2>1
<1>14. f[1] = Signature /\ f[Word + 1] = n /\ f[2 * Word + 1] = data
  <2>1. /\ 1 \in 1 .. 2 * Word + 1 /\ 1 <= 2 * Word /\ 1 \in 1 .. Word + Word /\ 1 <= Word
        /\ Word + 1 \in 1 .. 2 * Word + 1 /\ Word + 1 <= 2 * Word /\ Word + 1 \in 1 .. Word + Word
        /\ ~ (Word + 1 <= Word) /\ (Word + 1) - Word = 1
        /\ 2 * Word + 1 \in 1 .. 2 * Word + 1 /\ ~ (2 * Word + 1 <= 2 * Word)
        /\ (2 * Word + 1) - 2 * Word = 1
    BY <1>1
  <2>2. f[1] = sig[1] /\ f[Word + 1] = size[1] /\ f[2 * Word + 1] = crc[1]
    BY <1>7, <1>8, <1>13, <2>1
  <2> QED
    BY <1>3, <1>4, <2>2
<1>15. \A i \in 1 .. n : f[HeaderSize + i] = data[i]
  <2> TAKE i \in 1 .. n
  <2>1. HeaderSize + i \in 1 .. HeaderSize + n /\ ~ (HeaderSize + i <= HeaderSize)
        /\ (HeaderSize + i) - HeaderSize = i
    BY <1>1
  <2> QED
    BY <1>10, <1>11, <2>1
<1> QED
  BY <1>0, <1>2, <1>11, <1>12, <1>14, <1>15 DEF n, used

-----------------------------------------------------------------------------
(* The range check of MMCHSDxe.                                            *)

(* The number of blocks in a buffer.                                       *)
LEMMA Quotient ==
  ASSUME NEW size \in Nat
  PROVE  size \div BlockSize \in 0 .. size
BY BlockAssumption

(* A sum below 2^64 is not changed by taking it in an EFI_LBA, and one     *)
(* below 0 becomes larger than every block.                                *)
LEMMA Wrap ==
  /\ \A x \in 0 .. LbaSpace - 1 : x % LbaSpace = x
  /\ -1 % LbaSpace = LbaSpace - 1
BY BlockAssumption

(* MMCHSReadBlocks and MMCHSWriteBlocks hand to LittleKernel's driver the  *)
(* transfers of whole blocks that exist, all of them and no other, though  *)
(* the last block is computed with a subtraction that may wrap around.     *)
THEOREM TransfersInside ==
  \A lba \in 0 .. LbaSpace - 1, size \in 0 .. SizeSpace - 1 :
    Accepted(lba, size) <=> /\ size % BlockSize = 0 /\ size # 0
                            /\ Transferred(lba, size) \subseteq 0 .. NumBlocks - 1
<1> SUFFICES ASSUME NEW lba \in 0 .. LbaSpace - 1, NEW size \in 0 .. SizeSpace - 1,
                    size % BlockSize = 0, size # 0
             PROVE  InRange(lba, size) <=> Transferred(lba, size) \subseteq 0 .. NumBlocks - 1
  BY DEF Accepted
<1> DEFINE n == size \div BlockSize
<1>1. n \in 0 .. size
  BY Quotient, BlockAssumption
<1>2. n # 0
  BY BlockAssumption
<1> HIDE DEF n
<1>3. CASE lba < NumBlocks
  <2>1. lba + n - 1 \in 0 .. LbaSpace - 1
    BY <1>1, <1>2, <1>3, BlockAssumption
  <2>2. InRange(lba, size) <=> lba + n - 1 <= NumBlocks - 1
    BY <2>1, <1>3, Wrap, BlockAssumption DEF InRange, LastBlock, n
  <2> QED
    BY <2>2, <1>1, <1>2, <1>3, BlockAssumption DEF Transferred, n
<1>4. CASE lba >= NumBlocks
  <2>1. lba \in Transferred(lba, size)
    BY <1>1, <1>2 DEF Transferred, n
  <2> QED
    BY <2>1, <1>4, BlockAssumption DEF InRange, LastBlock
<1> QED
  BY <1>3, <1>4, BlockAssumption

(* A file that is accepted is whole blocks, all of which exist.            *)
LEMMA AcceptedFile ==
  ASSUME NEW size \in Nat, size < SizeSpace, Accepted(0, size)
  PROVE  LET q == size \div BlockSize
         IN /\ q \in Nat \ {0} /\ size = BlockSize * q /\ q <= NumBlocks
            /\ Transferred(0, size) = 0 .. q - 1
            /\ 0 .. q - 1 \subseteq 0 .. LastBlock /\ 0 \in 0 .. q - 1
<1> DEFINE q == size \div BlockSize
<1>1. BlockSize \in Nat \ {0} /\ NumBlocks \in Nat \ {0} /\ SizeSpace \in Nat /\ LbaSpace \in Nat
      /\ SizeSpace < LbaSpace
  BY BlockAssumption
<1>2. size \in 0 .. SizeSpace - 1 /\ 0 \in 0 .. LbaSpace - 1 /\ size % BlockSize = 0 /\ size # 0
  BY <1>1 DEF Accepted
<1>3. Transferred(0, size) \subseteq 0 .. NumBlocks - 1
  BY <1>2, TransfersInside
<1>4. q \in Nat /\ size = BlockSize * q
  BY <1>1, <1>2, DivMod
<1>5. q # 0
  <2>1. BlockSize * 0 = 0
    BY <1>1
  <2> QED
    BY <1>2, <1>4, <2>1
<1> HIDE DEF q
<1>6. Transferred(0, size) = 0 .. q - 1
  <2>1. 0 + q - 1 = q - 1
    BY <1>4
  <2> QED
    BY <2>1 DEF Transferred, q
<1>7. q - 1 \in 0 .. q - 1
  BY <1>4, <1>5
<1>8. q <= NumBlocks /\ 0 \in 0 .. q - 1
  <2>1. q - 1 \in 0 .. NumBlocks - 1
    BY <1>3, <1>6, <1>7
  <2> QED
    BY <1>1, <1>4, <1>5, <2>1
<1> QED
  BY <1>3, <1>4, <1>5, <1>6, <1>8 DEF q, LastBlock

-----------------------------------------------------------------------------
(* Blocks.                                                                 *)

(* What DOMAIN and Len say of a device in TypeOK.                          *)
Shape(d) == DOMAIN d = 0 .. LastBlock /\ \A b \in 0 .. LastBlock : Len(d[b]) = BlockSize

(* A block of the file.                                                    *)
LEMMA BlockCells ==
  ASSUME file \in Seq(Cells), NEW b \in Nat, (b + 1) * BlockSize <= Len(file)
  PROVE  /\ Len(Block(b)) = BlockSize
         /\ \A j \in 1 .. BlockSize : Block(b)[j] = file[b * BlockSize + j]
<1> DEFINE m == b * BlockSize + 1
           n == (b + 1) * BlockSize
<1>1. BlockSize \in Nat \ {0} /\ Len(file) \in Nat
  BY BlockAssumption, LenProperties
<1>2. m \in Nat /\ n \in Nat /\ n = b * BlockSize + BlockSize
  BY <1>1
<1>3. m \in Int /\ n \in Int /\ m >= 1 /\ m <= n /\ n - m + 1 = BlockSize
      /\ \A j \in 1 .. BlockSize : m + j - 1 = b * BlockSize + j
  <2> DEFINE p == b * BlockSize
  <2>1. p \in Nat /\ m = p + 1 /\ n = p + BlockSize
    BY <1>1, <1>2
  <2> HIDE DEF m, n, p
  <2>2. p + 1 >= 1 /\ p + 1 <= p + BlockSize /\ p + BlockSize - (p + 1) + 1 = BlockSize
        /\ \A j \in 1 .. BlockSize : (p + 1) + j - 1 = p + j
    BY <1>1, <2>1
  <2>3. m \in Int /\ n \in Int /\ m >= 1 /\ m <= n /\ n - m + 1 = BlockSize
    BY <1>1, <2>1, <2>2
  <2>4. \A j \in 1 .. BlockSize : m + j - 1 = p + j
    BY <2>1, <2>2
  <2> QED
    BY <2>3, <2>4 DEF p
<1>4. Block(b) = SubSeq(file, m, n)
  BY DEF Block
<1> HIDE DEF m, n
<1>5. \A i \in m .. n : file[i] \in Cells
  <2> TAKE i \in m .. n
  <2>1. i \in 1 .. Len(file)
    BY <1>1, <1>3 DEF n
  <2> QED
    BY <2>1, ElementOfSeq
<1>6. /\ Len(SubSeq(file, m, n)) = n - m + 1
      /\ \A i \in 1 .. n - m + 1 : SubSeq(file, m, n)[i] = file[m + i - 1]
  BY <1>3, <1>5, SubSeqProperties
<1> QED
  BY <1>3, <1>4, <1>6

(* The address of a cell: its block, and where it is there.                *)
LEMMA CellAddress ==
  ASSUME NEW i \in Nat
  PROVE  /\ i \div BlockSize \in Nat /\ (i % BlockSize) + 1 \in 1 .. BlockSize
         /\ i + 1 = (i \div BlockSize) * BlockSize + ((i % BlockSize) + 1)
         /\ i < BlockSize => i \div BlockSize = 0
         /\ \A q \in Nat : i < BlockSize * q =>
              i \div BlockSize < q /\ ((i \div BlockSize) + 1) * BlockSize <= BlockSize * q
<1> DEFINE b == i \div BlockSize
           r == i % BlockSize
<1>1. BlockSize \in Nat \ {0}
  BY BlockAssumption
<1>2. b \in Nat /\ r \in 0 .. BlockSize - 1 /\ i = BlockSize * b + r
  BY <1>1, DivMod
<1> HIDE DEF b, r
<1>3. r + 1 \in 1 .. BlockSize /\ i + 1 = b * BlockSize + (r + 1)
  BY <1>1, <1>2
<1>4. ASSUME NEW q \in Nat, i < BlockSize * q
      PROVE  b < q /\ (b + 1) * BlockSize <= BlockSize * q
  <2>1. BlockSize * b < BlockSize * q
    BY <1>1, <1>2, <1>4
  <2>2. b < q
    <3>1. SUFFICES ASSUME q <= b  PROVE FALSE
      BY <1>2
    <3>2. PICK c \in Nat : b = q + c
      BY <1>2, <3>1
    <3>3. BlockSize * b = BlockSize * q + BlockSize * c /\ BlockSize * c \in Nat
          /\ BlockSize * q \in Nat
      BY <1>1, <3>2
    <3> QED
      BY <2>1, <3>3
  <2>3. PICK c \in Nat : q = (b + 1) + c
    <3>1. q - (b + 1) \in Nat /\ q = (b + 1) + (q - (b + 1))
      BY <1>2, <2>2
    <3> QED
      BY <3>1
  <2>4. BlockSize * q = (b + 1) * BlockSize + BlockSize * c /\ BlockSize * c \in Nat
        /\ (b + 1) * BlockSize \in Nat
    BY <1>1, <1>2, <2>3
  <2> QED
    BY <2>2, <2>4
<1>5. i < BlockSize => b = 0
  <2>1. ASSUME i < BlockSize
        PROVE  b = 0
    <3>1. i < BlockSize * 1 /\ 1 \in Nat
      BY <1>1, <2>1
    <3>2. b < 1
      BY <1>4, <3>1
    <3> QED
      BY <1>2, <3>2
  <2> QED
    BY <2>1
<1> QED
  BY <1>2, <1>3, <1>4, <1>5 DEF b, r

(* A transfer, done or stopped, leaves whole blocks: those of the file and *)
(* those that were there.                                                  *)
LEMMA WrittenCells ==
  ASSUME Shape(device), file \in Seq(Cells), NEW q \in Nat, Len(file) = BlockSize * q,
         0 .. q - 1 \subseteq 0 .. LastBlock, NEW B \in SUBSET (0 .. q - 1)
  PROVE  /\ Shape(Written(B))
         /\ \A i \in Nat : i < Len(file) =>
              Written(B)[i \div BlockSize][(i % BlockSize) + 1]
                = IF i \div BlockSize \in B THEN file[i + 1] ELSE Cell(i)
<1>1. BlockSize \in Nat \ {0} /\ q \in Nat
  BY BlockAssumption
<1>2. \A b \in B : b \in Nat /\ b \in 0 .. LastBlock
  OBVIOUS
<1>3. \A b \in B : (b + 1) * BlockSize <= Len(file)
  <2> TAKE b \in B
  <2>1. q - (b + 1) \in Nat /\ q = (b + 1) + (q - (b + 1))
    BY <1>1
  <2> DEFINE c == q - (b + 1)
  <2>2. c \in Nat /\ q = (b + 1) + c
    BY <2>1
  <2> HIDE DEF c
  <2>3. BlockSize * q = (b + 1) * BlockSize + BlockSize * c /\ BlockSize * c \in Nat
        /\ (b + 1) * BlockSize \in Nat
    BY <1>1, <1>2, <2>2
  <2> QED
    BY <2>3
<1>4. \A b \in B : /\ Len(Block(b)) = BlockSize
                   /\ \A j \in 1 .. BlockSize : Block(b)[j] = file[b * BlockSize + j]
  BY <1>2, <1>3, BlockCells
<1>5. Shape(Written(B))
  <2>1. DOMAIN Written(B) = 0 .. LastBlock
    BY DEF Written
  <2>2. ASSUME NEW b \in 0 .. LastBlock
        PROVE  Len(Written(B)[b]) = BlockSize
    <3>1. Written(B)[b] = IF b \in B THEN Block(b) ELSE device[b]
      BY DEF Written
    <3> QED
      BY <1>4, <3>1 DEF Shape
  <2> QED
    BY <2>1, <2>2 DEF Shape
<1>6. ASSUME NEW i \in Nat, i < Len(file)
      PROVE  Written(B)[i \div BlockSize][(i % BlockSize) + 1]
               = IF i \div BlockSize \in B THEN file[i + 1] ELSE Cell(i)
  <2> DEFINE b == i \div BlockSize
             j == (i % BlockSize) + 1
  <2>1. /\ b \in Nat /\ j \in 1 .. BlockSize /\ i + 1 = b * BlockSize + j
        /\ b < q
    BY <1>6, CellAddress
  <2>2. Cell(i) = device[b][j]
    BY DEF Cell
  <2> HIDE DEF b, j
  <2>3. b \in 0 .. LastBlock
    <3>1. b \in 0 .. q - 1
      BY <1>1, <2>1
    <3> QED
      BY <3>1
  <2>4. Written(B)[b] = IF b \in B THEN Block(b) ELSE device[b]
    BY <2>3 DEF Written
  <2>5. b \in B => Block(b)[j] = file[i + 1]
    BY <1>4, <2>1
  <2>6. Written(B)[b][j] = IF b \in B THEN file[i + 1] ELSE Cell(i)
    BY <2>2, <2>4, <2>5
  <2> QED
    BY <2>6 DEF b, j
<1> QED
  BY <1>5, <1>6

-----------------------------------------------------------------------------
(* The inductive invariant.                                                *)

(* What is in the instance, and what an empty one holds.                   *)
Collected == [k \in Keys |-> IF k \in packed THEN Saved(k, store[k]) ELSE None]
Whole     == Signed /\ Accepted(0, ReadSize) /\ CrcOk

(* The variable that says that the others were loaded has no other value.  *)
Marks(f) == f[NvVars] \in {None, Loaded}

(* A save has yet to visit what is not in the instance, and writes all.    *)
SaveInv ==
  /\ instance.size \in Nat /\ Holds(instance.data, Collected)
  /\ pc \notin {"collect", "write"} => packed = {} /\ instance = NewInstance
  /\ pc = "collect" =>
       /\ todo \subseteq Present /\ todo \intersect packed = {}
       /\ \A k \in Keys : Saved(k, store[k]) # None => k \in todo \union packed
  /\ pc = "write" =>
       /\ file = ImageFile(instance.data) /\ Len(file) < SizeSpace
       /\ Collected = Images!Image

(* The header of the device is blank, or that of an image which was packed *)
(* once; of what follows nothing is known.                                 *)
DeviceInv ==
  \/ Cell(0) = Blank /\ Claimed = Blank
  \/ /\ Cell(0) = Signature /\ Holds(Claimed, Says(Claimed)) /\ DataSize = Len(Claimed)
     /\ Says(Claimed) \in [Keys -> Variable \union {None}] /\ Marks(Says(Claimed))

(* A load sets what a whole image says, and leaves out only names that     *)
(* were refused.                                                           *)
LoadInv ==
  pc = "set" =>
    /\ Whole /\ records \in Seq(Entries)
    /\ \A i \in DOMAIN records : Says(Claimed)[records[i].key] = records[i].var
    /\ \A k \in Keys \ refused : Says(Claimed)[k] # None =>
         store[k] = Says(Claimed)[k] \/ \E i \in DOMAIN records : records[i].key = k

IInv == /\ TypeOK /\ Marks(store) /\ SaveInv /\ DeviceInv /\ LoadInv /\ LoadedIsComplete
        /\ pc = "probe" => status = "none"

(* The header lies in the first block.                                     *)
LEMMA HeaderCells ==
  /\ HeaderSize = 3 * Word /\ HeaderSize \in Nat
  /\ \A i \in {0, Word, 2 * Word} : i \in Nat /\ i < HeaderSize /\ i \div BlockSize = 0
<1>1. Word \in Nat \ {0} /\ BlockSize \in Nat /\ HeaderSize = 3 * Word /\ HeaderSize <= BlockSize
  BY RecordAssumption, BlockAssumption, ImageAssumption DEF HeaderSize
<1>2. \A i \in {0, Word, 2 * Word} : i \in Nat /\ i < HeaderSize /\ i < BlockSize
  BY <1>1
<1>3. \A i \in Nat : i < BlockSize => i \div BlockSize = 0
  BY CellAddress
<1> QED
  BY <1>1, <1>2, <1>3

(* Whatever part of a transfer is done, the device has the header of what  *)
(* was there or of what is written, and all of it if all is done.          *)
LEMMA DeviceWritten ==
  ASSUME Shape(device), DeviceInv, NEW data, NEW f, Holds(data, f),
         f \in [Keys -> Variable \union {None}], Marks(f),
         file = ImageFile(data), Len(file) < SizeSpace, Accepted(0, Len(file)),
         NEW B \in SUBSET Transferred(0, Len(file)), device' = Written(B)
  PROVE  /\ Shape(device') /\ DeviceInv'
         /\ Says(Claimed') = f \/ Claimed' = Claimed
         /\ B = Transferred(0, Len(file)) => Whole' /\ Says(Claimed') = f
<1> DEFINE n == Len(data)
           q == Len(file) \div BlockSize
<1>1. data \in Seq(Nat) /\ n \in Nat /\ Says(data) = f
  BY HoldsSays, LenProperties
<1>2. /\ file \in Seq(Cells) /\ Len(file) \in Nat /\ HeaderSize + n <= Len(file)
      /\ Len(file) = ALIGN_VALUE(HeaderSize + n, BlockSize)
      /\ file[1] = Signature /\ file[Word + 1] = n /\ file[2 * Word + 1] = data
      /\ \A i \in 1 .. n : file[HeaderSize + i] = data[i]
  BY <1>1, FileFacts, LenProperties
<1>3. /\ q \in Nat \ {0} /\ Len(file) = BlockSize * q
      /\ Transferred(0, Len(file)) = 0 .. q - 1
      /\ 0 .. q - 1 \subseteq 0 .. LastBlock /\ 0 \in 0 .. q - 1
  BY <1>2, AcceptedFile
<1> HIDE DEF n, q
<1>4. /\ Shape(device')
      /\ \A i \in Nat : i < Len(file) =>
           Cell(i)' = IF i \div BlockSize \in B THEN file[i + 1] ELSE Cell(i)
  <2>1. B \in SUBSET (0 .. q - 1)
    BY <1>3
  <2> DEFINE d == Written(B)
  <2>2. /\ Shape(d)
        /\ \A i \in Nat : i < Len(file) =>
             d[i \div BlockSize][(i % BlockSize) + 1]
               = IF i \div BlockSize \in B THEN file[i + 1] ELSE Cell(i)
    BY <1>2, <1>3, <2>1, WrittenCells
  <2>3. \A i : Cell(i)' = device'[i \div BlockSize][(i % BlockSize) + 1]
    BY DEF Cell
  <2>4. device' = d
    OBVIOUS
  <2> HIDE DEF d
  <2> QED
    BY <2>2, <2>3, <2>4
<1>5. HeaderSize = 3 * Word /\ HeaderSize \in Nat /\ Word \in Nat \ {0}
  BY HeaderCells, RecordAssumption
<1>6. \A i \in {0, Word, 2 * Word} : Cell(i)' = IF 0 \in B THEN file[i + 1] ELSE Cell(i)
  <2> TAKE i \in {0, Word, 2 * Word}
  <2>1. i \in Nat /\ i < HeaderSize /\ i \div BlockSize = 0
    BY HeaderCells
  <2>2. i < Len(file)
    BY <1>1, <1>2, <1>5, <2>1 DEF n
  <2> QED
    BY <1>4, <2>1, <2>2
<1>7. CASE 0 \in B
  <2>1. Cell(0)' = Signature /\ DataSize' = n /\ Claimed' = data
    <3>1. Cell(0)' = file[0 + 1] /\ Cell(Word)' = file[Word + 1] /\ Cell(2 * Word)' = file[2 * Word + 1]
      BY <1>6, <1>7
    <3>2. 0 + 1 = 1
      OBVIOUS
    <3> QED
      BY <1>2, <3>1, <3>2 DEF DataSize, Claimed
  <2>2. DeviceInv'
    BY <1>1, <2>1 DEF DeviceInv, n
  <2>3. ASSUME B = Transferred(0, Len(file))
        PROVE  Whole'
    <3>1. Signed'
      BY <2>1 DEF Signed
    <3>2. ReadSize' = Len(file)
      BY <1>2, <2>1 DEF ReadSize
    <3>3. ASSUME NEW i \in 1 .. n
          PROVE  Cell(HeaderSize + i - 1)' = data[i]
      <4> DEFINE c == HeaderSize + i - 1
      <4>1. c \in Nat /\ c < HeaderSize + n /\ c + 1 = HeaderSize + i
        BY <1>1, <1>5 DEF n
      <4>2. c < Len(file)
        BY <1>1, <1>2, <1>5, <4>1, SMTT(20) DEF n
      <4> HIDE DEF c
      <4>3. c \div BlockSize < q /\ c \div BlockSize \in Nat
        BY <1>3, <4>1, <4>2, CellAddress
      <4>4. c \div BlockSize \in B
        BY <1>3, <2>3, <4>3
      <4>5. Cell(c)' = file[c + 1]
        BY <1>4, <4>1, <4>2, <4>4
      <4> QED
        BY <1>2, <4>1, <4>5 DEF c
    <3>4. FileContents' = [i \in 1 .. n |-> Cell(HeaderSize + i - 1)']
      BY <2>1 DEF FileContents
    <3>5. data = [i \in 1 .. n |-> data[i]]
      BY <1>1, LenProperties DEF n
    <3>6. CrcOk'
      BY <2>1, <3>3, <3>4, <3>5 DEF CrcOk
    <3> QED
      BY <3>1, <3>2, <3>6 DEF Whole
  <2> QED
    BY <1>1, <1>4, <2>1, <2>2, <2>3
<1>8. CASE 0 \notin B
  <2>1. Cell(0)' = Cell(0) /\ DataSize' = DataSize /\ Claimed' = Claimed
    BY <1>6, <1>8 DEF DataSize, Claimed
  <2>2. DeviceInv'
    BY <2>1 DEF DeviceInv
  <2> QED
    BY <1>3, <1>4, <1>8, <2>1, <2>2
<1> QED
  BY <1>7, <1>8

-----------------------------------------------------------------------------
(* What steps have in common.                                              *)

(* A device that is not written.                                           *)
LEMMA DeviceSame ==
  ASSUME UNCHANGED device
  PROVE  /\ Shape(device') = Shape(device) /\ DeviceInv' = DeviceInv /\ Claimed' = Claimed
         /\ CrcOk' = CrcOk /\ Whole' = Whole
<1>1. \A i : Cell(i)' = Cell(i)
  BY DEF Cell
<1>2. DataSize' = DataSize /\ Claimed' = Claimed
  BY <1>1 DEF DataSize, Claimed
<1>3. FileContents' = FileContents /\ ReadSize' = ReadSize
  BY <1>1, <1>2 DEF FileContents, ReadSize
<1>4. CrcOk' = CrcOk /\ Signed' = Signed
  BY <1>1, <1>2, <1>3 DEF CrcOk, Signed
<1>5. Whole' = Whole
  BY <1>3, <1>4 DEF Whole
<1>6. DeviceInv' = DeviceInv
  BY <1>1, <1>2 DEF DeviceInv
<1> QED
  BY <1>2, <1>4, <1>5, <1>6 DEF Shape

(* A new instance holds nothing.                                           *)
LEMMA NewHoldsNothing ==
  /\ NewInstance.size = 0 /\ NewInstance.data = <<>>
  /\ Holds(NewInstance.data, [k \in Keys |-> None])
  /\ Len(NewInstance.data) <= NewInstance.size /\ Len(NewInstance.data) % Word = 0
<1>1. NewInstance.size = 0 /\ NewInstance.data = <<>>
  BY DEF NewInstance
<1>2. Packed(<<>>, <<>>) /\ Records(<<>>) = <<>>
  BY NothingPacked, RecordsRead
<1>3. Holds(<<>>, [k \in Keys |-> None])
  BY <1>2 DEF Holds
<1>4. Len(<<>>) = 0 /\ 0 % Word = 0
  <2>1. 0 = Word * 0 + 0 /\ 0 \in 0 .. Word - 1 /\ 0 \in Nat
    BY RecordAssumption
  <2>2. 0 % Word = 0
    BY <2>1, RecordAssumption, DivModUnique
  <2> QED
    BY <2>2
<1> QED
  BY <1>1, <1>3, <1>4

(* A save that is not under way.                                           *)
LEMMA NotSaving ==
  ASSUME pc' \notin {"collect", "write"}, packed' = {}, instance' = NewInstance
  PROVE  SaveInv'
<1>1. Collected' = [k \in Keys |-> None]
  BY DEF Collected
<1>2. instance'.size \in Nat /\ Holds(instance'.data, Collected')
  BY <1>1, NewHoldsNothing
<1> QED
  BY <1>2 DEF SaveInv

(* Variables that are set.                                                 *)
LEMMA StoreSet ==
  ASSUME store \in [Keys -> Variable \union {None}], Marks(store),
         store' \in {store, [store EXCEPT ![NvVars] = Loaded]}
  PROVE  /\ store' \in [Keys -> Variable \union {None}] /\ Marks(store')
         /\ \A k \in Keys : store'[k] = store[k] \/ (k = NvVars /\ store'[k] = Loaded)
<1>1. NvVars \in Keys /\ Loaded \in Variable
  BY ImageAssumption
<1>2. CASE store' = store
  BY <1>2
<1>3. CASE store' = [store EXCEPT ![NvVars] = Loaded]
  <2>1. /\ store' \in [Keys -> Variable \union {None}] /\ store'[NvVars] = Loaded
        /\ \A k \in Keys : k # NvVars => store'[k] = store[k]
    BY <1>1, <1>3
  <2> QED
    BY <2>1 DEF Marks
<1> QED
  BY <1>2, <1>3

(* What a save or a load that returns leaves.                              *)
LEMMA ReturnKeeps ==
  ASSUME IInv, NEW s \in {"saved", "loaded", "error"}, Returns(s),
         store' \in {store, [store EXCEPT ![NvVars] = Loaded]},
         Shape(device'), DeviceInv', LoadedIsComplete', UNCHANGED <<published, refused>>
  PROVE  IInv'
<1>1. /\ pc' = "idle" /\ status' = s /\ todo' = {} /\ instance' = NewInstance /\ packed' = {}
  BY DEF Returns
<1>2. store' \in [Keys -> Variable \union {None}] /\ Marks(store')
  BY StoreSet DEF IInv, TypeOK
<1>3. SaveInv'
  BY <1>1, NotSaving
<1>4. LoadInv'
  BY <1>1 DEF LoadInv
<1>5. TypeOK'
  BY <1>1, <1>2, NewHoldsNothing DEF IInv, TypeOK, Probed, Shape
<1> QED
  BY <1>1, <1>2, <1>3, <1>4, <1>5 DEF IInv

(* The same, for one that fails and leaves the device alone.               *)
LEMMA FailureKeeps ==
  ASSUME IInv, Returns("error"), UNCHANGED <<store, device, published, refused>>
  PROVE  IInv'
<1>1. Shape(device') /\ DeviceInv'
  BY DeviceSame DEF IInv, TypeOK, Shape
<1>2. LoadedIsComplete'
  BY DEF LoadedIsComplete, Returns
<1> QED
  BY <1>1, <1>2, ReturnKeeps

-----------------------------------------------------------------------------
(* The invariant, action by action.                                        *)

(* An empty device claims nothing.                                         *)
LEMMA InitClaims == Init => Cell(0) = Blank /\ Claimed = Blank
<1> SUFFICES ASSUME Init  PROVE Cell(0) = Blank /\ Claimed = Blank
  OBVIOUS
<1>1. BlockSize \in Nat \ {0} /\ NumBlocks \in Nat \ {0}
  BY BlockAssumption
<1>2. device = [b \in 0 .. LastBlock |-> [i \in 1 .. BlockSize |-> Blank]]
  BY DEF Init
<1>3. 0 \in 0 .. LastBlock
  BY <1>1 DEF LastBlock
<1>4. \A i \in {0, Word, 2 * Word} : Cell(i) = Blank
  <2> TAKE i \in {0, Word, 2 * Word}
  <2>1. i \in Nat /\ i \div BlockSize = 0
    BY HeaderCells
  <2>2. (i % BlockSize) + 1 \in 1 .. BlockSize
    BY <2>1, CellAddress
  <2> QED
    BY <1>2, <1>3, <2>1, <2>2 DEF Cell
<1> QED
  BY <1>4 DEF Claimed

(* A blank device, no variables and no instance.                           *)
LEMMA InitInv == Init => IInv
<1> SUFFICES ASSUME Init  PROVE IInv
  OBVIOUS
<1>1. BlockSize \in Nat \ {0} /\ Devices \in Nat /\ NvVars \in Keys
  BY BlockAssumption, ImageAssumption
<1>2. /\ DOMAIN device = 0 .. LastBlock /\ \A b \in 0 .. LastBlock : Len(device[b]) = BlockSize
  <2>1. Len([i \in 1 .. BlockSize |-> Blank]) = BlockSize
    BY <1>1
  <2> QED
    BY <2>1 DEF Init
<1>3. published \in Seq(BOOLEAN) /\ Probed <= Devices
  <2>1. <<>> \in Seq(BOOLEAN) /\ Len(<<>>) = 0
    BY EmptySeq
  <2> QED
    BY <1>1, <2>1 DEF Init, Probed
<1>4. TypeOK
  BY <1>2, <1>3, NewHoldsNothing DEF Init, TypeOK
<1>5. Marks(store)
  BY <1>1 DEF Init, Marks
<1>6. SaveInv
  <2>1. Collected = [k \in Keys |-> None]
    BY DEF Collected, Init
  <2> QED
    BY <2>1, NewHoldsNothing DEF SaveInv, Init
<1>7. DeviceInv
  BY InitClaims DEF DeviceInv
<1> QED
  BY <1>4, <1>5, <1>6, <1>7 DEF IInv, LoadInv, LoadedIsComplete, Init

(* MMCHSInitialize.                                                        *)
LEMMA ProbeKeeps == IInv /\ (Publish \/ MMCHSInitializeReturns) => IInv'
<1> SUFFICES ASSUME IInv, Publish \/ MMCHSInitializeReturns  PROVE IInv'
  OBVIOUS
<1>1. /\ UNCHANGED <<store, device, sv, records, status, refused>> /\ pc = "probe"
      /\ pc' \in {"probe", "idle"}
  BY DEF Publish, MMCHSInitializeReturns
<1>2. published' \in Seq(BOOLEAN) /\ Probed' <= Devices
  <2>1. CASE Publish
    <3>1. PICK p \in BOOLEAN : published' = Append(published, p)
      BY <2>1 DEF Publish
    <3>2. published \in Seq(BOOLEAN) /\ Len(published) \in Nat /\ Len(published) < Devices
      BY <2>1, LenProperties DEF IInv, TypeOK, Publish, Probed
    <3>3. Append(published, p) \in Seq(BOOLEAN) /\ Len(Append(published, p)) = Len(published) + 1
      BY <3>2, AppendProperties
    <3>4. Devices \in Nat
      BY ImageAssumption
    <3> QED
      BY <3>1, <3>2, <3>3, <3>4 DEF Probed
  <2>2. CASE MMCHSInitializeReturns
    BY <2>2 DEF MMCHSInitializeReturns, IInv, TypeOK, Probed
  <2> QED
    BY <2>1, <2>2
<1>3. TypeOK'
  BY <1>1, <1>2 DEF IInv, TypeOK, sv
<1>4. DeviceInv'
  BY <1>1, DeviceSame DEF IInv
<1>5. SaveInv'
  BY <1>1, NotSaving DEF IInv, SaveInv, sv
<1>6. LoadInv' /\ LoadedIsComplete' /\ (pc' = "probe" => status' = "none")
  BY <1>1 DEF IInv, LoadInv, LoadedIsComplete
<1> QED
  BY <1>1, <1>3, <1>4, <1>5, <1>6 DEF IInv, Marks

(* The beginning of a save.                                                *)
LEMMA SaveStarts == IInv /\ SaveNvVarsToBlockIo => IInv'
<1> SUFFICES ASSUME IInv, SaveNvVarsToBlockIo  PROVE IInv'
  OBVIOUS
<1>1. /\ pc' = "collect" /\ todo' = Present /\ instance' = NewInstance /\ packed' = {}
      /\ UNCHANGED <<store, device, published, file, records, status, refused>>
  BY DEF SaveNvVarsToBlockIo
<1>2. TypeOK'
  BY <1>1, NewHoldsNothing DEF IInv, TypeOK, Probed, Present
<1>3. DeviceInv'
  BY <1>1, DeviceSame DEF IInv
<1>4. SaveInv'
  <2>1. Collected' = [k \in Keys |-> None]
    BY <1>1 DEF Collected
  <2>2. \A k \in Keys : Saved(k, store[k]) # None => k \in Present
    BY DEF Saved, Present
  <2>3. Present' = Present
    BY <1>1 DEF Present
  <2> QED
    BY <1>1, <2>1, <2>2, <2>3, NewHoldsNothing DEF SaveInv
<1>5. LoadInv' /\ LoadedIsComplete'
  BY <1>1 DEF LoadInv, LoadedIsComplete
<1> QED
  BY <1>1, <1>2, <1>3, <1>4, <1>5 DEF IInv, Marks

(* What is packed fits into what is allocated for it.                      *)
LEMMA InstanceGrows ==
  ASSUME NEW inst, inst.size \in Nat, inst.data \in Seq(Nat), Len(inst.data) <= inst.size,
         Len(inst.data) % Word = 0, NEW k \in Keys, NEW v \in Variable, IsVariableAllowed(k)
  PROVE  LET new == SerializeVariablesAddVariable(inst, k, v)
         IN new.size \in Nat /\ Len(new.data) <= new.size /\ Len(new.data) % Word = 0
<1> DEFINE new   == SerializeVariablesAddVariable(inst, k, v)
           grown == EnsureExtraBufferSpace(inst, SerializedSize(k, v))
           n     == SerializedSize(k, v)
           L     == Len(inst.data)
<1>1. Word \in Nat \ {0} /\ L \in Nat /\ n \in Nat
  BY KeyAndVariable, LenProperties, Sizes
<1>2. Len(new.data) = L + n
  BY Packs
<1>3. new.size = grown.size
  BY DEF SerializeVariablesAddVariable, EnsureExtraBufferSpace
<1>4. grown.size = IF L + n <= inst.size THEN inst.size ELSE 2 * (L + n)
  BY DEF EnsureExtraBufferSpace
<1>5. Multiple(n, Word)
  <2> DEFINE a == ALIGN_VALUE(Len(k.name), Word)
             d == ALIGN_VALUE(Len(v.data), Word)
  <2>1. Multiple(a, Word) /\ Multiple(d, Word) /\ a \in Nat /\ d \in Nat /\ n = 4 * Word + a + d
    BY Sizes
  <2> HIDE DEF a, d, n
  <2>2. Multiple(Word * 4, Word) /\ 4 * Word = Word * 4
    BY <1>1, MultipleIs
  <2>3. Multiple(4 * Word + a, Word)
    BY <1>1, <2>1, <2>2, SumOfMultiples
  <2> QED
    BY <1>1, <2>1, <2>3, SumOfMultiples
<1>6. Multiple(L + n, Word)
  <2> HIDE DEF n
  <2>1. Multiple(L, Word)
    BY <1>1 DEF Multiple
  <2> HIDE DEF L
  <2> QED
    BY <1>1, <1>5, <2>1, SumOfMultiples
<1> HIDE DEF new, grown, n, L
<1>7. new.size \in Nat /\ Len(new.data) <= new.size
  BY <1>1, <1>2, <1>3, <1>4
<1>8. Len(new.data) % Word = 0
  BY <1>2, <1>6 DEF Multiple
<1> QED
  BY <1>7, <1>8 DEF new

(* IterateVariablesCallbackAddAllNvVariables: another variable is in the   *)
(* instance, or the name is left out on purpose.                           *)
LEMMA HoldsOneMore ==
  ASSUME NEW inst, NEW f, NEW g, Holds(inst.data, f), NEW k \in Keys, NEW v \in Variable,
         IsVariableAllowed(k), f[k] = None, g[k] = v, \A j \in Keys : j # k => g[j] = f[j]
  PROVE  Holds(SerializeVariablesAddVariable(inst, k, v).data, g)
<1> DEFINE recs == Records(inst.data)
           new  == SerializeVariablesAddVariable(inst, k, v).data
           r    == [valid |-> TRUE, key |-> k, var |-> v, next |-> Len(new)]
           all  == Append(recs, r)
           n    == Len(recs)
<1>1. /\ Packed(inst.data, recs) /\ recs \in Seq(Entries) /\ n \in Nat /\ DOMAIN recs = 1 .. n
      /\ \A i \in 1 .. n : f[recs[i].key] = recs[i].var
      /\ \A j \in Keys : f[j] # None => \E i \in 1 .. n : recs[i].key = j
  <2>1. Packed(inst.data, recs)
    BY DEF Holds
  <2>2. recs \in Seq(Entries) /\ n \in Nat /\ DOMAIN recs = 1 .. n
    BY <2>1, LenProperties DEF Packed
  <2> HIDE DEF n
  <2> QED
    BY <2>1, <2>2 DEF Holds
<1>2. \A i \in 1 .. n : recs[i].key \in Keys /\ recs[i].var \in Variable /\ recs[i].key # k
  <2> TAKE i \in 1 .. n
  <2>1. recs[i].key \in Keys /\ recs[i].var \in Variable
    BY <1>1, EntryFacts
  <2>2. None \notin Variable
    BY ImageAssumption
  <2> QED
    BY <1>1, <2>1, <2>2
<1>3. Packed(new, all)
  <2> HIDE DEF recs
  <2> QED
    BY <1>1, <1>2, OneMorePacked
<1>4. Records(new) = all
  <2> HIDE DEF new, all
  <2> QED
    BY <1>3, RecordsRead
<1>5. r \in Entries /\ r.key = k /\ r.var = v
  <2>1. Len(new) \in Nat
    <3> HIDE DEF all, new
    <3> QED
      BY <1>3, LenProperties DEF Packed
  <2> HIDE DEF new
  <2> QED
    BY <2>1 DEF Entries
<1> HIDE DEF recs, new, r
<1>6. /\ all \in Seq(Entries) /\ Len(all) = n + 1 /\ all[n + 1] = r
      /\ \A i \in 1 .. n : all[i] = recs[i]
  BY <1>1, <1>5, AppendProperties
<1> HIDE DEF all, n
<1>7. /\ DOMAIN all = 1 .. n + 1 /\ n + 1 \in 1 .. n + 1
      /\ \A i \in 1 .. n : i \in 1 .. n + 1
      /\ \A i \in 1 .. n + 1 : i \in 1 .. n \/ i = n + 1
  BY <1>1, <1>6, LenProperties
<1>8. \A i \in 1 .. n + 1 : g[all[i].key] = all[i].var
  <2> TAKE i \in 1 .. n + 1
  <2>1. CASE i \in 1 .. n
    BY <1>1, <1>2, <1>6, <2>1
  <2>2. CASE i = n + 1
    BY <1>5, <1>6, <2>2
  <2> QED
    BY <1>1, <2>1, <2>2
<1>9. \A j \in Keys : g[j] # None => \E i \in 1 .. n + 1 : all[i].key = j
  <2> TAKE j \in Keys
  <2> HAVE g[j] # None
  <2>1. CASE j = k
    BY <1>5, <1>6, <1>7, <2>1
  <2>2. CASE j # k
    <3>1. PICK i \in 1 .. n : recs[i].key = j
      BY <1>1, <2>2
    <3>2. i \in 1 .. n + 1
      BY <1>1
    <3> QED
      BY <1>6, <3>1, <3>2
  <2> QED
    BY <2>1, <2>2
<1> QED
  BY <1>3, <1>4, <1>7, <1>8, <1>9 DEF Holds, new

(* Another variable is added to the instance.                              *)
LEMMA AddNvVariableKeeps ==
  ASSUME IInv, NEW k \in Keys, AddNvVariable(k)
  PROVE  IInv'
<1> DEFINE v == store[k]
<1>1. /\ pc = "collect" /\ k \in todo /\ todo' = todo \ {k} /\ pc' = pc
      /\ UNCHANGED <<store, device, published, file, records, status, refused, budget>>
  BY DEF AddNvVariable
<1>2. /\ store \in [Keys -> Variable \union {None}] /\ instance.size \in Nat
      /\ Holds(instance.data, Collected) /\ todo \subseteq Present /\ k \notin packed
      /\ packed \subseteq Keys /\ todo \intersect packed = {}
      /\ Len(instance.data) <= instance.size /\ Len(instance.data) % Word = 0
      /\ \A j \in Keys : Saved(j, store[j]) # None => j \in todo \union packed
  BY <1>1 DEF IInv, TypeOK, SaveInv
<1>3. v \in Variable
  BY <1>1, <1>2 DEF Present
<1>4. instance.data \in Seq(Nat)
  BY <1>2, HoldsSays DEF Collected
<1>5. packed' = packed \cup {k} =>
         /\ packed' \subseteq Keys /\ todo' \intersect packed' = {}
         /\ \A j \in Keys : Saved(j, store[j]) # None => j \in todo' \union packed'
  BY <1>1, <1>2
<1>6. packed' = packed /\ Saved(k, v) = None =>
         /\ packed' \subseteq Keys /\ todo' \intersect packed' = {}
         /\ \A j \in Keys : Saved(j, store[j]) # None => j \in todo' \union packed'
  BY <1>1, <1>2
<1>7. /\ instance'.size \in Nat /\ Len(instance'.data) <= instance'.size
      /\ Len(instance'.data) % Word = 0 /\ packed' \subseteq Keys
      /\ Holds(instance'.data, Collected')
      /\ todo' \intersect packed' = {}
      /\ \A j \in Keys : Saved(j, store[j]) # None => j \in todo' \union packed'
  <2>1. CASE v.attr \in NonVolatile /\ IsVariableAllowed(k)
    <3>1. /\ instance' = SerializeVariablesAddVariable(instance, k, v)
          /\ packed' = packed \cup {k}
      BY <2>1 DEF AddNvVariable
    <3>2. /\ instance'.size \in Nat /\ Len(instance'.data) <= instance'.size
          /\ Len(instance'.data) % Word = 0
      BY <1>2, <1>3, <1>4, <2>1, <3>1, InstanceGrows
    <3>3. /\ Collected[k] = None /\ Collected'[k] = v
          /\ \A j \in Keys : j # k => Collected'[j] = Collected[j]
      <4>1. Saved(k, v) = v
        BY <1>3, <2>1, ImageAssumption DEF Saved
      <4> QED
        BY <1>1, <1>2, <3>1, <4>1 DEF Collected
    <3>4. Holds(instance'.data, Collected')
      BY <1>2, <1>3, <2>1, <3>1, <3>3, HoldsOneMore
    <3> QED
      BY <3>1, <3>2, <3>4, <1>5
  <2>2. CASE v.attr \in NonVolatile /\ ~IsVariableAllowed(k)
    <3>1. instance' = instance /\ packed' = packed \cup {k}
      BY <2>2 DEF AddNvVariable, SerializeVariablesAddVariable
    <3>2. Collected' = Collected
      <4>1. Saved(k, v) = None
        BY <2>2 DEF Saved
      <4> QED
        BY <1>1, <1>2, <3>1, <4>1 DEF Collected
    <3> QED
      <4>1. /\ instance'.size \in Nat /\ Len(instance'.data) <= instance'.size
            /\ Len(instance'.data) % Word = 0 /\ Holds(instance'.data, Collected')
        BY <1>2, <3>1, <3>2
      <4> QED
        BY <3>1, <4>1, <1>5
  <2>3. CASE v.attr \notin NonVolatile
    <3>1. instance' = instance /\ packed' = packed
      BY <2>3 DEF AddNvVariable
    <3>2. Collected' = Collected
      BY <1>1, <3>1 DEF Collected
    <3>3. Saved(k, v) = None
      BY <2>3 DEF Saved
    <3> QED
      <4>1. /\ instance'.size \in Nat /\ Len(instance'.data) <= instance'.size
            /\ Len(instance'.data) % Word = 0 /\ Holds(instance'.data, Collected')
        BY <1>2, <3>1, <3>2
      <4> QED
        BY <3>1, <3>3, <4>1, <1>6
  <2> QED
    BY <2>1, <2>2, <2>3
<1>8. TypeOK'
  BY <1>1, <1>7 DEF IInv, TypeOK, Probed
<1>9. SaveInv'
  <2>1. Present' = Present
    BY <1>1 DEF Present
  <2> QED
    BY <1>1, <1>2, <1>7, <2>1 DEF SaveInv
<1>10. DeviceInv'
  BY <1>1, DeviceSame DEF IInv
<1>11. LoadInv' /\ LoadedIsComplete'
  BY <1>1 DEF LoadInv, LoadedIsComplete
<1> QED
  BY <1>1, <1>8, <1>9, <1>10, <1>11 DEF IInv, Marks

(* All names have been visited.                                            *)
LEMMA CopyKeeps == IInv /\ SerializeVariablesToBuffer => IInv'
<1> SUFFICES ASSUME IInv, SerializeVariablesToBuffer  PROVE IInv'
  OBVIOUS
<1>1. /\ pc = "collect" /\ todo = {} /\ Copied /\ pc' = "write" /\ file' = ImageFile(instance.data)
      /\ UNCHANGED <<store, device, published, todo, instance, records, status, packed, refused>>
  BY DEF SerializeVariablesToBuffer
<1>2. TypeOK'
  BY <1>1 DEF IInv, TypeOK, Probed
<1>3. Collected' = Collected
  BY <1>1 DEF Collected
<1>4. Images!Image' = Images!Image
  BY <1>1 DEF Images!Image
<1>5. Collected = Images!Image
  <2>1. \A k \in Keys : Saved(k, store[k]) # None => k \in packed
    BY <1>1 DEF IInv, SaveInv
  <2> QED
    BY <2>1 DEF Collected, Images!Image
<1>6. SaveInv'
  BY <1>1, <1>3, <1>4, <1>5 DEF IInv, SaveInv, Copied
<1>7. DeviceInv'
  BY <1>1, DeviceSame DEF IInv
<1>8. LoadInv' /\ LoadedIsComplete'
  BY <1>1 DEF LoadInv, LoadedIsComplete
<1> QED
  BY <1>1, <1>2, <1>6, <1>7, <1>8 DEF IInv, Marks

(* What a write or a reset in the middle of one leaves.                    *)
LEMMA WriteLeaves ==
  ASSUME IInv, pc = "write", Accepted(0, Len(file)),
         NEW B \in SUBSET Transferred(0, Len(file)), device' = Written(B)
  PROVE  /\ Shape(device') /\ DeviceInv'
         /\ Says(Claimed') = Images!Image \/ Claimed' = Claimed
         /\ B = Transferred(0, Len(file)) => Whole' /\ Says(Claimed') = Images!Image
<1>1. /\ Shape(device) /\ DeviceInv /\ Holds(instance.data, Collected)
      /\ file = ImageFile(instance.data) /\ Len(file) < SizeSpace
      /\ Collected = Images!Image
  BY DEF IInv, TypeOK, Shape, SaveInv
<1>2. Collected \in [Keys -> Variable \union {None}] /\ Marks(Collected)
  <2>1. store \in [Keys -> Variable \union {None}] /\ store[NvVars] \in {None, Loaded}
    BY DEF IInv, TypeOK, Marks
  <2>2. \A k \in Keys : Saved(k, store[k]) \in {store[k], None}
    BY DEF Saved
  <2>3. NvVars \in Keys
    BY ImageAssumption
  <2> QED
    BY <2>1, <2>2, <2>3 DEF Collected, Marks
<1> QED
  BY <1>1, <1>2, DeviceWritten

(* The write of the file, which may stop after any of its blocks.          *)
LEMMA WriteKeeps == IInv /\ WriteFile => IInv'
<1> SUFFICES ASSUME IInv, WriteFile  PROVE IInv'
  OBVIOUS
<1>1. pc = "write" /\ UNCHANGED <<published, refused>>
  BY DEF WriteFile
<1>2. CASE ~Accepted(0, Len(file)) /\ Returns("error") /\ UNCHANGED <<store, device, budget>>
  BY <1>1, <1>2, FailureKeeps
<1>3. CASE /\ Accepted(0, Len(file)) /\ Returns("saved") /\ SetNvVarsVariable
           /\ device' = Written(Transferred(0, Len(file)))
  <2>1. Shape(device') /\ DeviceInv'
    BY <1>1, <1>3, WriteLeaves
  <2>2. store' \in {store, [store EXCEPT ![NvVars] = Loaded]}
    BY <1>3 DEF SetNvVarsVariable
  <2>3. LoadedIsComplete'
    BY <1>3 DEF LoadedIsComplete, Returns
  <2> QED
    BY <1>1, <1>3, <2>1, <2>2, <2>3, ReturnKeeps
<1>4. CASE /\ Accepted(0, Len(file)) /\ Returns("error") /\ Spend("fault") /\ UNCHANGED store
           /\ \E B \in SUBSET Transferred(0, Len(file)) : device' = Written(B)
  <2>1. Shape(device') /\ DeviceInv'
    BY <1>1, <1>4, WriteLeaves
  <2>2. LoadedIsComplete'
    BY <1>4 DEF LoadedIsComplete, Returns
  <2> QED
    BY <1>1, <1>4, <2>1, <2>2, ReturnKeeps
<1> QED
  BY <1>2, <1>3, <1>4 DEF WriteFile

(* What a signed device says.                                              *)
LEMMA SignedClaims ==
  ASSUME DeviceInv, Signed
  PROVE  /\ Holds(Claimed, Says(Claimed)) /\ Marks(Says(Claimed))
         /\ Says(Claimed) \in [Keys -> Variable \union {None}]
<1>1. Cell(0) # Blank
  BY ImageAssumption DEF Signed
<1> QED
  BY <1>1 DEF DeviceInv

(* A device whose CRC does not match is as good as an empty one.           *)
LEMMA MismatchKeeps == IInv /\ ReadCrcMismatch => IInv'
<1> SUFFICES ASSUME IInv, ReadCrcMismatch  PROVE IInv'
  OBVIOUS
<1>1. /\ ~CrcOk /\ Returns("loaded") /\ UNCHANGED <<device, published, refused>>
      /\ store' \in {store, [store EXCEPT ![NvVars] = Loaded]}
  BY DEF ReadCrcMismatch, SetNvVarsVariable
<1>2. Shape(device') /\ DeviceInv' /\ ~CrcOk'
  BY <1>1, DeviceSame DEF IInv, TypeOK, Shape
<1>3. LoadedIsComplete'
  BY <1>2 DEF LoadedIsComplete
<1> QED
  BY <1>1, <1>2, <1>3, ReturnKeeps

(* The records of the image, one of which may have been lost.              *)
LEMMA UnpackKeeps == IInv /\ NewInstanceFromBuffer => IInv'
<1> SUFFICES ASSUME IInv, NewInstanceFromBuffer  PROVE IInv'
  OBVIOUS
<1> DEFINE image == Says(Claimed)
           recs  == Records(Claimed)
           n     == Len(recs)
<1>1. /\ pc = "idle" /\ Signed /\ Accepted(0, ReadSize) /\ CrcOk /\ FileContents = Claimed
      /\ UNCHANGED <<store, device, published>>
  BY DEF NewInstanceFromBuffer, Reading, Offered, CrcOk
<1>2. /\ Packed(Claimed, recs) /\ image \in [Keys -> Variable \union {None}]
      /\ \A i \in DOMAIN recs : image[recs[i].key] = recs[i].var
      /\ \A k \in Keys : image[k] # None => \E i \in DOMAIN recs : recs[i].key = k
  BY <1>1, SignedClaims DEF Holds, IInv
<1>3. AllValid(recs) /\ Visited(recs) = recs
  BY <1>2, AllVisited
<1>4. /\ recs \in Seq(Entries) /\ n \in Nat /\ DOMAIN recs = 1 .. n
      /\ \A i \in 1 .. n : recs[i].key \in Keys /\ recs[i] \in Entries
  BY <1>2, EntryFacts, LenProperties DEF Packed
<1> HIDE DEF n
<1>5. /\ pc' = "set" /\ UNCHANGED <<sv, status>>
      /\ \/ records' = recs /\ refused' = {}
         \/ /\ recs # <<>> /\ records' = SubSeq(recs, 1, n - 1)
            /\ refused' = {recs[n].key}
  <2> HIDE DEF recs, image
  <2> QED
    BY <1>1, <1>3 DEF NewInstanceFromBuffer, n, recs
<1> HIDE DEF recs, image
<1>6. /\ records' \in Seq(Entries) /\ refused' \subseteq Keys
      /\ DOMAIN records' \subseteq 1 .. n /\ \A i \in DOMAIN records' : records'[i] = recs[i]
      /\ \A i \in 1 .. n : i \in DOMAIN records' \/ recs[i].key \in refused'
  <2>1. CASE records' = recs /\ refused' = {}
    BY <1>4, <2>1
  <2>2. CASE /\ recs # <<>> /\ records' = SubSeq(recs, 1, n - 1)
             /\ refused' = {recs[n].key}
    <3>1. n \in 1 .. n /\ n - 1 \in Nat
      BY <1>4, <2>2, EmptySeq DEF n
    <3>2. \A i \in 1 .. n - 1 : recs[i] \in Entries /\ i \in 1 .. n
      BY <1>4, <3>1
    <3> DEFINE t == SubSeq(recs, 1, n - 1)
    <3>3. /\ t \in Seq(Entries) /\ Len(t) = IF 1 <= n - 1 THEN (n - 1) - 1 + 1 ELSE 0
          /\ \A i \in 1 .. (n - 1) - 1 + 1 : t[i] = recs[1 + i - 1]
      <4>1. 1 \in Int /\ n - 1 \in Int
        BY <3>1
      <4> QED
        BY <3>2, <4>1, SubSeqProperties
    <3> HIDE DEF t
    <3>4. Len(t) = n - 1
      BY <3>1, <3>3
    <3>5. DOMAIN t = 1 .. n - 1
      BY <3>3, <3>4, LenProperties
    <3>6. \A i \in 1 .. n - 1 : t[i] = recs[i]
      <4> TAKE i \in 1 .. n - 1
      <4>1. i \in 1 .. (n - 1) - 1 + 1 /\ 1 + i - 1 = i
        BY <3>1
      <4> QED
        BY <3>3, <4>1
    <3>7. \A i \in 1 .. n : i \in 1 .. n - 1 \/ i = n
      BY <3>1
    <3>8. records' = t
      BY <2>2 DEF t
    <3> QED
      BY <1>4, <2>2, <3>1, <3>2, <3>3, <3>5, <3>6, <3>7, <3>8
  <2> QED
    BY <1>5, <2>1, <2>2
<1>7. Shape(device') /\ DeviceInv' /\ Claimed' = Claimed /\ Whole'
  BY <1>1, DeviceSame DEF IInv, TypeOK, Shape, Whole
<1>8. TypeOK'
  BY <1>1, <1>5, <1>6 DEF IInv, TypeOK, Probed, sv
<1>9. SaveInv'
  BY <1>1, <1>5, NotSaving DEF IInv, SaveInv, sv
<1>10. LoadInv'
  <2>1. Says(Claimed') = image
    BY <1>7 DEF image
  <2>2. \A i \in DOMAIN records' : image[records'[i].key] = records'[i].var
    BY <1>2, <1>4, <1>6
  <2>3. ASSUME NEW k \in Keys \ refused', image[k] # None
        PROVE  \E i \in DOMAIN records' : records'[i].key = k
    <3>1. PICK i \in 1 .. n : recs[i].key = k
      BY <1>2, <1>4, <2>3
    <3> QED
      BY <1>6, <2>3, <3>1
  <2> QED
    BY <1>6, <1>7, <2>1, <2>2, <2>3 DEF LoadInv
<1>11. LoadedIsComplete' /\ Marks(store')
  BY <1>1, <1>5 DEF LoadedIsComplete, IInv
<1> QED
  BY <1>5, <1>7, <1>8, <1>9, <1>10, <1>11 DEF IInv

(* The first record.                                                       *)
LEMMA FirstRecord ==
  ASSUME LoadInv, pc = "set", records # <<>>
  PROVE  /\ Head(records) = records[1] /\ 1 \in DOMAIN records
         /\ Head(records).key \in Keys /\ Head(records).var \in Variable
         /\ Says(Claimed)[Head(records).key] = Head(records).var
         /\ Tail(records) \in Seq(Entries)
         /\ \A i \in DOMAIN Tail(records) :
              i + 1 \in DOMAIN records /\ Tail(records)[i] = records[i + 1]
         /\ \A i \in DOMAIN records : i # 1 =>
              i - 1 \in DOMAIN Tail(records) /\ Tail(records)[i - 1] = records[i]
<1> DEFINE n == Len(records)
           t == Tail(records)
<1>1. records \in Seq(Entries) /\ n \in Nat /\ n # 0 /\ DOMAIN records = 1 .. n
  BY EmptySeq, LenProperties DEF LoadInv
<1>2. /\ t \in Seq(Entries) /\ Len(t) = n - 1 /\ DOMAIN t = 1 .. Len(t)
      /\ \A i \in 1 .. Len(t) : t[i] = records[i + 1]
  BY <1>1, HeadTailProperties, LenProperties
<1>3. Head(records) = records[1]
  BY DEF Head
<1> HIDE DEF n, t
<1>4. 1 \in 1 .. n
  BY <1>1
<1>5. records[1] \in Entries
  BY <1>1, <1>4, ElementOfSeq DEF n
<1>6. DOMAIN t = 1 .. n - 1
  BY <1>2
<1>7. \A i \in 1 .. n - 1 : i + 1 \in 1 .. n /\ t[i] = records[i + 1]
  BY <1>1, <1>2
<1>8. ASSUME NEW i \in 1 .. n, i # 1
      PROVE  i - 1 \in 1 .. n - 1 /\ t[i - 1] = records[i]
  <2>1. i - 1 \in 1 .. n - 1 /\ (i - 1) + 1 = i
    BY <1>1, <1>8
  <2> QED
    BY <1>7, <2>1
<1>9. Says(Claimed)[records[1].key] = records[1].var
  BY <1>1, <1>4 DEF LoadInv
<1>10. records[1].key \in Keys /\ records[1].var \in Variable
  BY <1>5 DEF Entries
<1> QED
  BY <1>1, <1>2, <1>3, <1>4, <1>6, <1>7, <1>8, <1>9, <1>10 DEF t

(* The next record is set, or its name is refused.                         *)
LEMMA RecordKeeps ==
  ASSUME IInv, pc = "set", records # <<>>, records' = Tail(records),
         UNCHANGED <<device, published, pc, sv, status>>,
         \/ /\ store' = [store EXCEPT ![Head(records).key] = Head(records).var]
            /\ refused' = refused
         \/ /\ store' = store
            /\ refused' = refused \cup {Head(records).key}
  PROVE  IInv'
<1> DEFINE image == Says(Claimed)
           r     == Head(records)
<1>1. /\ r.key \in Keys /\ r.var \in Variable /\ image[r.key] = r.var /\ r = records[1]
      /\ Tail(records) \in Seq(Entries)
      /\ \A i \in DOMAIN Tail(records) :
           i + 1 \in DOMAIN records /\ Tail(records)[i] = records[i + 1]
      /\ \A i \in DOMAIN records : i # 1 =>
           i - 1 \in DOMAIN Tail(records) /\ Tail(records)[i - 1] = records[i]
  BY FirstRecord DEF IInv
<1>2. /\ Whole /\ \A i \in DOMAIN records : image[records[i].key] = records[i].var
      /\ \A k \in Keys \ refused : image[k] # None =>
           store[k] = image[k] \/ \E i \in DOMAIN records : records[i].key = k
  BY DEF IInv, LoadInv
<1>3. /\ Shape(device') /\ DeviceInv' /\ Claimed' = Claimed /\ Whole'
  BY <1>2, DeviceSame DEF IInv, TypeOK, Shape
<1>4. Marks(image)
  BY <1>2, SignedClaims DEF IInv, Whole
<1>5. Says(Claimed') = image
  BY <1>3
<1> HIDE DEF image, r
<1>6. /\ store' \in [Keys -> Variable \union {None}]
      /\ Marks(store')
      /\ refused' \subseteq Keys
      /\ \A k \in Keys : store'[k] = store[k] \/ store'[k] = image[k]
      /\ r.key \in refused' \/ store'[r.key] = image[r.key]
      /\ refused \subseteq refused'
  <2>1. store \in [Keys -> Variable \union {None}] /\ Marks(store) /\ refused \subseteq Keys
    BY DEF IInv, TypeOK
  <2>2. CASE store' = [store EXCEPT ![r.key] = r.var] /\ refused' = refused
    <3>1. /\ store' \in [Keys -> Variable \union {None}] /\ store'[r.key] = image[r.key]
          /\ \A k \in Keys : k # r.key => store'[k] = store[k]
      BY <1>1, <2>1, <2>2
    <3>2. NvVars \in Keys
      BY ImageAssumption
    <3>3. Marks(store')
      BY <1>4, <2>1, <3>1, <3>2 DEF Marks
    <3> QED
      BY <2>1, <2>2, <3>1, <3>3
  <2>3. CASE store' = store /\ refused' = refused \cup {r.key}
    BY <1>1, <2>1, <2>3
  <2> QED
    BY <2>2, <2>3 DEF r
<1>7. LoadInv'
  <2>1. ASSUME NEW i \in DOMAIN records'
        PROVE  image[records'[i].key] = records'[i].var
    BY <1>1, <1>2, <2>1
  <2>2. ASSUME NEW k \in Keys \ refused', image[k] # None
        PROVE  store'[k] = image[k] \/ \E i \in DOMAIN records' : records'[i].key = k
    <3>1. CASE store[k] = image[k]
      <4>1. store'[k] = store[k] \/ store'[k] = image[k]
        <5>1. \A j \in Keys : store'[j] = store[j] \/ store'[j] = image[j]
          BY <1>6
        <5>2. k \in Keys
          OBVIOUS
        <5> QED
          BY ONLY <5>1, <5>2
      <4> QED
        BY ONLY <3>1, <4>1
    <3>2. CASE store[k] # image[k]
      <4>1. PICK i \in DOMAIN records : records[i].key = k
        BY <1>2, <1>6, <2>2, <3>2
      <4>2. CASE i = 1
        BY <1>1, <1>6, <2>2, <4>1, <4>2
      <4>3. CASE i # 1
        BY <1>1, <4>1, <4>3
      <4> QED
        BY <4>2, <4>3
    <3> QED
      BY <3>1, <3>2
  <2>3. records' \in Seq(Entries)
    BY <1>1
  <2> QED
    BY <1>3, <1>5, <2>1, <2>2, <2>3 DEF LoadInv
<1>8. TypeOK'
  BY <1>3, <1>6 DEF IInv, TypeOK, Probed, sv, Shape
<1>9. SaveInv'
  BY NotSaving DEF IInv, SaveInv, sv
<1>10. LoadedIsComplete'
  BY DEF LoadedIsComplete
<1> QED
  BY <1>3, <1>6, <1>7, <1>8, <1>9, <1>10 DEF IInv

(* The end of a load: all records are done.                                *)
LEMMA LoadDoneKeeps == IInv /\ ReadDone => IInv'
<1> SUFFICES ASSUME IInv, ReadDone  PROVE IInv'
  OBVIOUS
<1>1. /\ pc = "set" /\ records = <<>> /\ Returns("loaded") /\ UNCHANGED <<device, published, refused>>
      /\ store' \in {store, [store EXCEPT ![NvVars] = Loaded]}
  BY DEF ReadDone, SetNvVarsVariable
<1>2. Shape(device') /\ DeviceInv' /\ Claimed' = Claimed
  BY <1>1, DeviceSame DEF IInv, TypeOK, Shape
<1>3. Whole /\ \A k \in Keys \ refused : Says(Claimed)[k] # None => store[k] = Says(Claimed)[k]
  BY <1>1 DEF IInv, LoadInv
<1>4. Marks(Says(Claimed))
  BY <1>3, SignedClaims DEF IInv, Whole
<1>5. \A k \in Keys : store'[k] = store[k] \/ (k = NvVars /\ store'[k] = Loaded)
  BY <1>1, StoreSet DEF IInv, TypeOK
<1>6. \A k \in Keys \ refused : Says(Claimed)[k] # None => store'[k] = Says(Claimed)[k]
  BY <1>3, <1>4, <1>5 DEF Marks
<1>7. LoadedIsComplete'
  BY <1>1, <1>2, <1>6 DEF LoadedIsComplete
<1> QED
  BY <1>1, <1>2, <1>7, ReturnKeeps

(* All steps of a load.                                                    *)
LEMMA LoadKeeps == IInv /\ Load => IInv'
<1> SUFFICES ASSUME IInv, Load  PROVE IInv'
  OBVIOUS
<1>1. CASE ReadFails
  BY <1>1, FailureKeeps DEF ReadFails
<1>2. CASE ReadCrcMismatch
  BY <1>2, MismatchKeeps
<1>3. CASE NewInstanceFromBuffer
  BY <1>3, UnpackKeeps
<1>4. CASE SetSystemVariable
  BY <1>4, RecordKeeps DEF SetSystemVariable
<1>5. CASE SetSystemVariableFails
  <2>1. CASE Returns("error")
    <3>1. Shape(device') /\ DeviceInv' /\ UNCHANGED <<store, published>>
      BY <1>5, DeviceSame DEF SetSystemVariableFails, IInv, TypeOK, Shape
    <3>2. LoadedIsComplete'
      BY <2>1 DEF LoadedIsComplete, Returns
    <3>3. pc' = "idle" /\ status' = "error" /\ todo' = {} /\ instance' = NewInstance /\ packed' = {}
      BY <2>1 DEF Returns
    <3>4. refused' \subseteq Keys
      BY <1>5, FirstRecord DEF SetSystemVariableFails, IInv, TypeOK
    <3>5. TypeOK'
      BY <3>1, <3>3, <3>4, NewHoldsNothing DEF IInv, TypeOK, Probed, Shape
    <3>6. SaveInv' /\ LoadInv'
      BY <3>3, NotSaving DEF LoadInv
    <3> QED
      BY <3>1, <3>2, <3>3, <3>5, <3>6 DEF IInv, Marks
  <2>2. CASE records' = Tail(records) /\ UNCHANGED <<pc, sv, status>>
    BY <1>5, <2>2, RecordKeeps DEF SetSystemVariableFails
  <2> QED
    BY <1>5, <2>1, <2>2 DEF SetSystemVariableFails
<1>6. CASE ReadDone
  BY <1>6, LoadDoneKeeps
<1> QED
  BY <1>1, <1>2, <1>3, <1>4, <1>5, <1>6 DEF Load

(* A client.                                                               *)
LEMMA ClientKeeps ==
  ASSUME IInv, NEW k \in Keys, NEW v \in Variable \union {None}, SetVariable(k, v)
  PROVE  IInv'
<1>1. /\ pc = "idle" /\ k # NvVars /\ store' = [store EXCEPT ![k] = v]
      /\ refused' = refused \cup {k}
      /\ UNCHANGED <<device, published, pc, sv, records, status>>
  BY DEF SetVariable
<1>2. /\ store' \in [Keys -> Variable \union {None}] /\ Marks(store') /\ refused' \subseteq Keys
      /\ \A j \in Keys \ refused' : j \in Keys \ refused /\ store'[j] = store[j]
  <2>1. NvVars \in Keys /\ store \in [Keys -> Variable \union {None}] /\ refused \subseteq Keys
    BY ImageAssumption DEF IInv, TypeOK
  <2> QED
    BY <1>1, <2>1 DEF IInv, Marks
<1>3. /\ Shape(device') /\ DeviceInv' /\ Claimed' = Claimed /\ CrcOk' = CrcOk
  BY <1>1, DeviceSame DEF IInv, TypeOK, Shape
<1>4. TypeOK'
  BY <1>1, <1>2, <1>3 DEF IInv, TypeOK, Probed, Shape, sv
<1>5. SaveInv' /\ LoadInv'
  BY <1>1, NotSaving DEF IInv, SaveInv, LoadInv, sv
<1>6. LoadedIsComplete'
  <2>1. Says(Claimed') = Says(Claimed)
    BY <1>3
  <2> QED
    BY <1>1, <1>2, <1>3, <2>1 DEF IInv, LoadedIsComplete
<1> QED
  BY <1>1, <1>2, <1>3, <1>4, <1>5, <1>6 DEF IInv

(* A reset, which may be in the middle of a write.                         *)
LEMMA ResetKeeps == IInv /\ Reset => IInv'
<1> SUFFICES ASSUME IInv, Reset  PROVE IInv'
  OBVIOUS
<1>1. /\ store' = [k \in Keys |-> None]
      /\ published' = <<>> /\ pc' = "probe" /\ status' = "none" /\ refused' = {}
      /\ todo' = {} /\ instance' = NewInstance /\ packed' = {}
  BY DEF Reset
<1>2. Shape(device') /\ DeviceInv'
  <2>1. CASE pc = "write" /\ Accepted(0, Len(file))
    BY <2>1, WriteLeaves DEF Reset
  <2>2. CASE ~ (pc = "write" /\ Accepted(0, Len(file)))
    BY <2>2, DeviceSame DEF Reset, IInv, TypeOK, Shape
  <2> QED
    BY <2>1, <2>2
<1>3. Marks(store') /\ store' \in [Keys -> Variable \union {None}]
  BY <1>1, ImageAssumption DEF Marks
<1>4. published' \in Seq(BOOLEAN) /\ Probed' <= Devices
  <2>1. <<>> \in Seq(BOOLEAN) /\ Len(<<>>) = 0 /\ Devices \in Nat
    BY EmptySeq, ImageAssumption
  <2> QED
    BY <1>1, <2>1 DEF Probed
<1>5. TypeOK'
  BY <1>1, <1>2, <1>3, <1>4, NewHoldsNothing DEF TypeOK, Shape
<1>6. SaveInv' /\ LoadInv' /\ LoadedIsComplete'
  BY <1>1, NotSaving DEF LoadInv, LoadedIsComplete
<1> QED
  BY <1>1, <1>2, <1>3, <1>5, <1>6 DEF IInv

(* All steps of a save.                                                    *)
LEMMA SaveKeeps == IInv /\ Save => IInv'
<1> SUFFICES ASSUME IInv, Save  PROVE IInv'
  OBVIOUS
<1>1. CASE SaveNvVarsToBlockIo
  BY <1>1, SaveStarts
<1>2. CASE SerializeVariablesToBuffer
  BY <1>2, CopyKeeps
<1>3. CASE CollectFails
  BY <1>3, FailureKeeps DEF CollectFails
<1>4. CASE WriteFile
  BY <1>4, WriteKeeps
<1>5. CASE \E k \in Keys : AddNvVariable(k)
  BY <1>5, AddNvVariableKeeps
<1> QED
  BY <1>1, <1>2, <1>3, <1>4, <1>5 DEF Save

(* A step that changes nothing.                                            *)
LEMMA StutterKeeps == IInv /\ UNCHANGED vars => IInv'
<1> SUFFICES ASSUME IInv, UNCHANGED vars  PROVE IInv'
  OBVIOUS
<1>1. UNCHANGED <<store, device, published, pc, todo, instance, file, records, status, packed,
                  refused>>
  BY DEF vars
<1>2. Shape(device') /\ DeviceInv' /\ Claimed' = Claimed /\ CrcOk' = CrcOk /\ Whole' = Whole
  BY <1>1, DeviceSame DEF IInv, TypeOK, Shape
<1>3. TypeOK'
  BY <1>1, <1>2 DEF IInv, TypeOK, Probed, Shape
<1>4. SaveInv'
  <2>1. Collected' = Collected /\ Images!Image' = Images!Image /\ Present' = Present
    BY <1>1 DEF Collected, Images!Image, Present
  <2> QED
    BY <1>1, <2>1 DEF IInv, SaveInv
<1>5. LoadInv' /\ LoadedIsComplete'
  <2>1. Says(Claimed') = Says(Claimed)
    BY <1>2
  <2>2. LoadInv'
    BY <1>1, <1>2, <2>1 DEF IInv, LoadInv
  <2>3. LoadedIsComplete'
    BY <1>1, <1>2, <2>1 DEF IInv, LoadedIsComplete
  <2> QED
    BY <2>2, <2>3
<1> QED
  BY <1>1, <1>2, <1>3, <1>4, <1>5 DEF IInv, Marks

(* All steps.                                                              *)
LEMMA NextKeeps == IInv /\ [Next]_vars => IInv'
<1> SUFFICES ASSUME IInv, [Next]_vars  PROVE IInv'
  OBVIOUS
<1>1. CASE Publish \/ MMCHSInitializeReturns
  BY <1>1, ProbeKeeps
<1>2. CASE Save
  BY <1>2, SaveKeeps
<1>3. CASE Load
  BY <1>3, LoadKeeps
<1>4. CASE Reset
  BY <1>4, ResetKeeps
<1>5. CASE \E k \in Keys, v \in Variable \cup {None} : SetVariable(k, v)
  BY <1>5, ClientKeeps
<1>6. CASE UNCHANGED vars
  BY <1>6, StutterKeeps
<1> QED
  BY <1>1, <1>2, <1>3, <1>4, <1>5, <1>6 DEF Next

(* IInv is an invariant.                                                   *)
LEMMA Invariance == Spec => []IInv
BY InitInv, NextKeeps, PTL DEF Spec

-----------------------------------------------------------------------------
(* The theorems.                                                           *)

(* All variables have their types, and the buffer that records are         *)
(* appended to never ends before them, however often it has grown.         *)
THEOREM TypeCorrect == Spec => []TypeOK
<1>1. IInv => TypeOK
  BY DEF IInv
<1> QED
  BY <1>1, Invariance, PTL

(* At every moment of a save, unpacking the buffer gives what was added to *)
(* it and nothing else, for names and data of any length.                  *)
THEOREM UnpackingUndoesPacking == Spec => []PackedIsUnpacked
<1>1. IInv => PackedIsUnpacked
  <2> SUFFICES ASSUME IInv  PROVE PackedIsUnpacked
    OBVIOUS
  <2>1. Holds(instance.data, Collected)
    BY DEF IInv, SaveInv
  <2>2. AllValid(Records(instance.data)) /\ Says(instance.data) = Collected
    BY <2>1, HoldsSays DEF Collected
  <2> QED
    BY <2>2 DEF PackedIsUnpacked, Collected
<1> QED
  BY <1>1, Invariance, PTL

(* A load of a whole image that reports success has set every variable of  *)
(* the image, but those whose errors are ignored.                          *)
THEOREM CompleteLoads == Spec => []LoadedIsComplete
<1>1. IInv => LoadedIsComplete
  BY DEF IInv
<1> QED
  BY <1>1, Invariance, PTL

(* The first state claims nothing.                                         *)
LEMMA InitImplements == Init => Images!Init
<1> SUFFICES ASSUME Init  PROVE Images!Init
  OBVIOUS
<1>1. Cell(0) = Blank /\ Claimed = Blank
  BY InitClaims
<1>2. Says(Claimed) = [k \in Keys |-> None]
  BY <1>1 DEF Says
<1>3. ~Signed
  BY <1>1, ImageAssumption DEF Signed
<1>4. Activity = "idle"
  BY DEF Init, Activity
<1> QED
  BY <1>2, <1>3, <1>4 DEF Images!Init, Images!Empty, Init

(* Steps that leave the device alone, and what a load may set.             *)
LEMMA MarkImplements ==
  ASSUME SetNvVarsVariable
  PROVE  Images!Mark
BY DEF SetNvVarsVariable, Images!Mark

(* What runs, from what pc says.                                           *)
LEMMA ActivityOf ==
  /\ pc \in {"probe", "idle"} => Activity = "idle"
  /\ pc \in {"collect", "write"} => Activity = "saving"
  /\ pc = "set" => Activity = "loading"
BY DEF Activity

(* The same of the next state.                                             *)
LEMMA ActivityNext ==
  /\ pc' \in {"probe", "idle"} => Activity' = "idle"
  /\ pc' \in {"collect", "write"} => Activity' = "saving"
  /\ pc' = "set" => Activity' = "loading"
BY DEF Activity

(* Every step of a save is one of the abstract store, or none.             *)
LEMMA SaveImplements ==
  ASSUME IInv, Save
  PROVE  [Images!Next]_<<store, Claimed, Whole, status, Activity>>
<1>1. CASE SerializeVariablesToBuffer \/ \E k \in Keys : AddNvVariable(k)
  <2>1. UNCHANGED <<store, device, status>> /\ pc = "collect" /\ pc' \in {"collect", "write"}
    BY <1>1 DEF SerializeVariablesToBuffer, AddNvVariable
  <2>2. Activity' = Activity
    BY <2>1, ActivityOf, ActivityNext
  <2> QED
    BY <2>1, <2>2, DeviceSame
<1>2. CASE SaveNvVarsToBlockIo
  <2>1. UNCHANGED <<store, device, status>> /\ pc = "idle" /\ pc' = "collect"
    BY <1>2 DEF SaveNvVarsToBlockIo, Offered
  <2>2. Claimed' = Claimed /\ Whole' = Whole
    BY <2>1, DeviceSame
  <2>3. Images!From("idle", "saving")
    BY <2>1, ActivityOf, ActivityNext DEF Images!From
  <2> QED
    BY <2>1, <2>2, <2>3 DEF Images!Next, Images!SaveBegins, Whole
<1>3. CASE CollectFails
  <2>1. UNCHANGED <<store, device>> /\ status' = "error" /\ pc = "collect" /\ pc' = "idle"
    BY <1>3 DEF CollectFails, Returns
  <2>2. Claimed' = Claimed /\ Whole' \in BOOLEAN
    BY <2>1, DeviceSame DEF Whole
  <2>3. Images!From("saving", "idle")
    BY <2>1, ActivityOf, ActivityNext DEF Images!From
  <2> QED
    BY <2>1, <2>2, <2>3 DEF Images!Next, Images!SaveFails, Images!CutShort, Whole
<1>4. CASE WriteFile
  <2>1. pc = "write" /\ pc' = "idle"
    BY <1>4 DEF WriteFile, Returns
  <2>2. Images!From("saving", "idle")
    BY <2>1, ActivityOf, ActivityNext DEF Images!From
  <2>3. CASE ~Accepted(0, Len(file)) /\ Returns("error") /\ UNCHANGED <<store, device, budget>>
    <3>1. Claimed' = Claimed /\ Whole' \in BOOLEAN /\ status' = "error" /\ UNCHANGED store
      BY <2>3, DeviceSame DEF Whole, Returns
    <3> QED
      BY <2>2, <3>1 DEF Images!Next, Images!SaveFails, Images!CutShort, Whole
  <2>4. CASE /\ Accepted(0, Len(file)) /\ Returns("saved") /\ SetNvVarsVariable
             /\ device' = Written(Transferred(0, Len(file)))
    <3>1. Whole' /\ Says(Claimed') = Images!Image /\ status' = "saved" /\ Images!Mark
      BY <2>1, <2>4, WriteLeaves, MarkImplements DEF Returns
    <3> QED
      BY <2>2, <3>1 DEF Images!Next, Images!SaveOk, Whole
  <2>5. CASE /\ Accepted(0, Len(file)) /\ Returns("error") /\ Spend("fault") /\ UNCHANGED store
             /\ \E B \in SUBSET Transferred(0, Len(file)) : device' = Written(B)
    <3>1. Says(Claimed') = Images!Image \/ Claimed' = Claimed
      BY <2>1, <2>5, WriteLeaves
    <3>2. Whole' \in BOOLEAN /\ status' = "error" /\ UNCHANGED store
      BY <2>5 DEF Whole, Returns
    <3> QED
      BY <2>2, <3>1, <3>2 DEF Images!Next, Images!SaveFails, Images!CutShort, Whole
  <2> QED
    BY <1>4, <2>3, <2>4, <2>5 DEF WriteFile
<1> QED
  BY <1>1, <1>2, <1>3, <1>4 DEF Save

(* So is every step of a load: it begins with a whole image, sets what the *)
(* image says, and ends.                                                   *)
LEMMA LoadImplements ==
  ASSUME IInv, Load
  PROVE  [Images!Next]_<<store, Claimed, Whole, status, Activity>>
<1>1. UNCHANGED device
  BY DEF Load, ReadFails, ReadCrcMismatch, NewInstanceFromBuffer, SetSystemVariable,
         SetSystemVariableFails, ReadDone
<1>2. Claimed' = Claimed /\ Whole' = Whole
  BY <1>1, DeviceSame
<1>3. ASSUME status' = "error", UNCHANGED store, pc \in {"idle", "set"}, pc' = "idle"
      PROVE  Images!Next
  <2>1. Images!From("idle", "idle") \/ Images!From("loading", "idle")
    BY <1>3, ActivityOf, ActivityNext DEF Images!From
  <2> QED
    BY <1>2, <1>3, <2>1 DEF Images!Next, Images!LoadEnds, Images!NothingLoaded, Whole
<1>4. CASE ReadFails
  BY <1>3, <1>4 DEF ReadFails, Returns, Offered
<1>5. CASE ReadCrcMismatch
  <2>1. /\ status' = "loaded" /\ SetNvVarsVariable /\ ~Whole /\ pc = "idle" /\ pc' = "idle"
    BY <1>5 DEF ReadCrcMismatch, Returns, Reading, Offered, Whole
  <2>2. Images!From("idle", "idle")
    BY <2>1, ActivityOf, ActivityNext DEF Images!From
  <2> QED
    BY <1>2, <2>1, <2>2, MarkImplements DEF Images!Next, Images!NothingLoaded, Whole
<1>6. CASE NewInstanceFromBuffer
  <2>1. Whole /\ store[NvVars] = None /\ pc = "idle" /\ UNCHANGED store
    BY <1>6 DEF NewInstanceFromBuffer, Reading, Offered, Whole
  <2>2. CASE Returns("error")
    BY <1>3, <2>1, <2>2 DEF Returns
  <2>3. CASE pc' = "set" /\ UNCHANGED status
    <3>1. Images!From("idle", "loading")
      BY <2>1, <2>3, ActivityOf, ActivityNext DEF Images!From
    <3> QED
      BY <1>2, <2>1, <2>3, <3>1 DEF Images!Next, Images!LoadBegins, Whole
  <2> QED
    BY <1>6, <2>2, <2>3 DEF NewInstanceFromBuffer
<1>7. CASE SetSystemVariable
  <2> DEFINE k == Head(records).key
  <2>1. /\ store' = [store EXCEPT ![k] = Head(records).var] /\ UNCHANGED status
        /\ pc = "set" /\ pc' = "set" /\ records # <<>>
    BY <1>7 DEF SetSystemVariable
  <2>2. k \in Keys /\ Says(Claimed)[k] = Head(records).var /\ Head(records).var \in Variable
    BY <2>1, FirstRecord DEF IInv
  <2>3. Whole /\ None \notin Variable
    BY <2>1, ImageAssumption DEF IInv, LoadInv
  <2> HIDE DEF k
  <2>4. Images!From("loading", "loading")
    BY <2>1, ActivityOf, ActivityNext DEF Images!From
  <2>5. Images!LoadVariable(k)
    BY <1>2, <2>1, <2>2, <2>3, <2>4 DEF Images!LoadVariable, Whole
  <2> QED
    BY <2>2, <2>5 DEF Images!Next
<1>8. CASE SetSystemVariableFails
  <2>1. UNCHANGED store /\ pc = "set"
    BY <1>8 DEF SetSystemVariableFails
  <2>2. CASE Returns("error")
    BY <1>3, <2>1, <2>2 DEF Returns
  <2>3. CASE UNCHANGED <<pc, sv, status>>
    <3>1. Activity' = Activity
      BY <2>3 DEF Activity
    <3> QED
      BY <1>2, <2>1, <2>3, <3>1
  <2> QED
    BY <1>8, <2>2, <2>3 DEF SetSystemVariableFails
<1>9. CASE ReadDone
  <2>1. status' = "loaded" /\ SetNvVarsVariable /\ pc = "set" /\ pc' = "idle"
    BY <1>9 DEF ReadDone, Returns
  <2>2. Images!From("loading", "idle")
    BY <2>1, ActivityOf, ActivityNext DEF Images!From
  <2> QED
    BY <1>2, <2>1, <2>2, MarkImplements DEF Images!Next, Images!LoadEnds, Whole
<1> QED
  BY <1>4, <1>5, <1>6, <1>7, <1>8, <1>9 DEF Load

(* And every other step.                                                   *)
LEMMA NextImplements ==
  IInv /\ [Next]_vars => [Images!Next]_<<store, Claimed, Whole, status, Activity>>
<1> SUFFICES ASSUME IInv, [Next]_vars
             PROVE  [Images!Next]_<<store, Claimed, Whole, status, Activity>>
  OBVIOUS
<1>1. CASE Publish \/ MMCHSInitializeReturns \/ UNCHANGED vars
  <2>1. /\ UNCHANGED <<store, device, status>>
        /\ pc' = pc \/ (pc = "probe" /\ pc' = "idle")
    BY <1>1 DEF Publish, MMCHSInitializeReturns, vars
  <2>2. Activity' = Activity
    BY <2>1, ActivityOf, ActivityNext DEF Activity
  <2> QED
    BY <2>1, <2>2, DeviceSame
<1>2. CASE Reset
  <2>1. /\ store' = [k \in Keys |-> None] /\ status' = "none" /\ Whole' \in BOOLEAN
        /\ pc' = "probe"
    BY <1>2 DEF Reset, Whole
  <2>2. Activity' = "idle"
    BY <2>1, ActivityNext
  <2>3. CASE pc = "write" /\ Accepted(0, Len(file))
    <3>1. Says(Claimed') = Images!Image \/ Claimed' = Claimed
      BY <1>2, <2>3, WriteLeaves DEF Reset
    <3>2. Activity = "saving"
      BY <2>3, ActivityOf
    <3> QED
      BY <2>1, <2>2, <3>1, <3>2
      DEF Images!Next, Images!Reset, Images!Empty, Images!CutShort, Whole
  <2>4. CASE ~ (pc = "write" /\ Accepted(0, Len(file)))
    <3>1. Claimed' = Claimed /\ Whole' = Whole
      BY <1>2, <2>4, DeviceSame DEF Reset
    <3> QED
      BY <2>1, <2>2, <3>1 DEF Images!Next, Images!Reset, Images!Empty, Images!CutShort, Whole
  <2> QED
    BY <2>3, <2>4
<1>3. ASSUME NEW k \in Keys, NEW v \in Variable \cup {None}, SetVariable(k, v)
      PROVE  Images!Next
  <2>1. /\ store' = [store EXCEPT ![k] = v] /\ UNCHANGED <<device, status>>
        /\ k # NvVars /\ pc = "idle" /\ pc' = "idle"
    BY <1>3 DEF SetVariable
  <2>2. Claimed' = Claimed /\ Whole' = Whole
    BY <2>1, DeviceSame
  <2>3. Images!From("idle", "idle")
    BY <2>1, ActivityOf, ActivityNext DEF Images!From
  <2>4. Images!SetVariable(k)
    BY <2>1, <2>2, <2>3 DEF Images!SetVariable, Whole
  <2> QED
    BY <2>4 DEF Images!Next
<1> QED
  BY <1>1, <1>2, <1>3, SaveImplements, LoadImplements DEF Next

(* Through header, records and blocks the device keeps the promises of     *)
(* ImageStore: what its header claims is an image that a save has packed,  *)
(* a save that reports success leaves all of it there, and from the moment *)
(* a load begins, which it does only with a whole image, until it ends, no *)
(* variable is set but to what the image says of it.                       *)
THEOREM ImplementsImageStore == Spec => KeepsImages
<1>1. IInv /\ [Next]_vars =>
        [Images!Next]_<<store, Claimed, Signed /\ Accepted(0, ReadSize) /\ CrcOk, status, Activity>>
  BY NextImplements DEF Whole
<1> QED
  BY <1>1, InitImplements, Invariance, PTL DEF Spec, KeepsImages, Images!Spec
=============================================================================
