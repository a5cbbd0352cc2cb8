-------------------------- MODULE BootPolicyProofs --------------------------
(***************************************************************************)
(* Proofs about BootPolicy, for every set of options, devices, displays    *)
(* and lists of text modes, and all bounds: types, what is offered, and    *)
(* that BDS leaves the user's options alone.                               *)
(*                                                                         *)
(* All follow from one inductive invariant, IInv, that says what each step *)
(* of BDS can rely on although a reset may have come after any write of an *)
(* earlier boot: whose variables are unique, what a number in BootOrder    *)
(* without its option can be, where keys are, and what the loop that       *)
(* removes the VNOR device's options has yet to look at.                   *)
(***************************************************************************)
EXTENDS BootPolicy, FiniteSetTheorems, SequenceTheorems, WellFoundedInduction, TLAPS

(* The lists the loops of BDS run over.                                    *)
TodoInv ==
  /\ step = "outputs" => todo \in Seq(Displays)
  /\ step = "restore" => todo \in Seq({"other", "vnor"})
  /\ step \in {"withdraw", "enumerate"} => todo \in Seq(AutoCreated)
  /\ step = "vnor" => todo \in Seq(Numbers)

(* The UI and the menu are never deleted, and no second one is added: what *)
(* a boot has once registered stays, and is found by its number.  The UI   *)
(* may be one that this boot could not register.                           *)
UntilUi   == {"connect", "outputs", "consoles", "restore", "ui"}
UntilMenu == UntilUi \union {"menu"}
OwnInv ==
  /\ \A o \in {UI, Menu}, m, n \in Numbers : Boot[m] = o /\ Boot[n] = o => m = n
  /\ \A n \in Numbers : Boot[n] \in {UI, Menu} => n \in Range(BootOrder)
  /\ step \notin UntilUi => UI \in missing \/ \E n \in Numbers : Boot[n] = UI
  /\ step \notin UntilMenu => \E n \in Numbers : Boot[n] = Menu

(* Who adds an option when: the number is in BootOrder, the variable is    *)
(* not that of the UI or the menu, of which none is there if it is added.  *)
AddsAt(s, o, next) ==
  \/ s = "ui" /\ o = UI /\ next = "menu"
  \/ s = "menu" /\ o = Menu /\ next = "f2"
  \/ s = "enumerate" /\ o \in AutoCreated /\ next = "enumerate"
  \/ s = "shell" /\ o = Shell /\ next = "mode"
  \/ s \in {"offer", "changed"} /\ o \in UserOptions /\ next = "changed"
AddInv ==
  adding # None =>
    /\ adding.num \in Range(BootOrder) /\ Boot[adding.num] \notin {UI, Menu}
    /\ adding.opt \in {UI, Menu} => \A n \in Numbers : Boot[n] # adding.opt
    /\ AddsAt(step, adding.opt, adding.next)

(* The keys this code makes are F2's first and then that of Esc.           *)
Made(key) == [key : {key}, num : Numbers, opt : {Menu}] \union {None}
KeyPlaces(keys) == keys[0] \in Made(F2) /\ keys[1] \in Made(Esc) /\ keys[2] = None
KeyInv ==
  /\ KeyPlaces(Key) /\ KeyPlaces(image)
  /\ step \notin UntilMenu \union {"f2"} => 0 \in Valid
  /\ step \notin UntilMenu \union {"f2", "esc"} => 1 \in Valid

(* An option of the VNOR device is on the list of what is to be removed,   *)
(* and after that gone, but for the old variable of a number just taken.   *)
VnorInv ==
  \A n \in Range(BootOrder) : Boot[n] \in VnorOptions =>
    /\ step = "vnor" => n \in Range(todo)
    /\ step \in {"shell", "mode", "offer", "changed"} => adding # None /\ adding.num = n

ShellInv == step \in {"mode", "offer"} => FindLoadOption(Shell) \/ Shell \in missing

IInv == /\ TypeOK /\ TodoInv /\ OwnInv /\ AddInv
        /\ KeyInv /\ VnorInv /\ ShellInv /\ BestModeIsSet

-----------------------------------------------------------------------------
(* Lists that lose or gain one element.                                    *)

(* t is s without its i-th element.                                        *)
Omits(t, s, i) ==
  /\ Len(s) = Len(t) + 1
  /\ \A j \in 1 .. Len(t) : t[j] = s[IF j < i THEN j ELSE j + 1]

(* What the two have in common, and that the order of the rest is kept.    *)
LEMMA OmitFacts ==
  ASSUME NEW S, NEW s \in Seq(S), NEW t \in Seq(S), NEW i \in 1 .. Len(s), Omits(t, s, i)
  PROVE  /\ Range(s) = Range(t) \union {s[i]}
         /\ \A m, n : m # s[i] /\ n # s[i] => (Precedes(s, m, n) <=> Precedes(t, m, n))
         /\ IsInjective(s) <=> IsInjective(t) /\ s[i] \notin Range(t)
<1> DEFINE L == Len(t)
           at(j)   == IF j < i THEN j ELSE j + 1
           back(j) == IF j < i THEN j ELSE j - 1
<1>1. L \in Nat /\ DOMAIN t = 1 .. L /\ DOMAIN s = 1 .. L + 1 /\ i \in 1 .. L + 1
  BY LenProperties DEF Omits
<1>2. \A j \in 1 .. L : at(j) \in 1 .. L + 1 /\ at(j) # i /\ t[j] = s[at(j)]
  BY <1>1 DEF Omits
<1>3. \A j \in 1 .. L + 1 : j # i => back(j) \in 1 .. L /\ at(back(j)) = j
  BY <1>1
<1>4. \A j, k \in 1 .. L : (j < k <=> at(j) < at(k)) /\ (at(j) = at(k) <=> j = k)
  BY <1>1
<1> HIDE DEF at, back, L
<1>5. \A j \in 1 .. L + 1 : j # i => \E k \in 1 .. L : at(k) = j /\ t[k] = s[j]
  BY <1>2, <1>3
<1>6. Range(s) = Range(t) \union {s[i]}
  <2>1. Range(s) = {s[j] : j \in 1 .. L + 1} /\ Range(t) = {t[j] : j \in 1 .. L}
    BY <1>1 DEF Range
  <2>2. \A j \in 1 .. L + 1 : s[j] \in {t[k] : k \in 1 .. L} \union {s[i]}
    BY <1>5
  <2>3. \A j \in 1 .. L : t[j] \in {s[k] : k \in 1 .. L + 1}
    BY <1>2
  <2>4. s[i] \in {s[k] : k \in 1 .. L + 1}
    BY <1>1
  <2> QED
    BY <2>1, <2>2, <2>3, <2>4
<1>7. ASSUME NEW m, NEW n, m # s[i], n # s[i]
      PROVE  Precedes(s, m, n) <=> Precedes(t, m, n)
  <2>1. ASSUME Precedes(s, m, n)
        PROVE  Precedes(t, m, n)
    <3>1. PICK j \in 1 .. L + 1, k \in 1 .. L + 1 : j < k /\ s[j] = m /\ s[k] = n
      BY <1>1, <2>1 DEF Precedes
    <3>2. PICK a \in 1 .. L, b \in 1 .. L : at(a) = j /\ t[a] = m /\ at(b) = k /\ t[b] = n
      BY <1>5, <1>7, <3>1
    <3> QED
      BY <1>1, <1>4, <3>1, <3>2 DEF Precedes
  <2>2. ASSUME Precedes(t, m, n)
        PROVE  Precedes(s, m, n)
    <3>1. PICK j \in 1 .. L, k \in 1 .. L : j < k /\ t[j] = m /\ t[k] = n
      BY <1>1, <2>2 DEF Precedes
    <3> QED
      BY <1>1, <1>2, <1>4, <3>1 DEF Precedes
  <2> QED
    BY <2>1, <2>2
<1>8. IsInjective(s) => IsInjective(t) /\ s[i] \notin Range(t)
  BY <1>1, <1>2, <1>4 DEF IsInjective, Range
<1>9. ASSUME IsInjective(t), s[i] \notin Range(t)
      PROVE  IsInjective(s)
  <2>1. \A k \in 1 .. L : t[k] # s[i]
    BY <1>1, <1>9 DEF Range
  <2>2. \A j \in 1 .. L + 1 : s[j] = s[i] => j = i
    BY <1>5, <2>1
  <2>3. ASSUME NEW j \in 1 .. L + 1, NEW k \in 1 .. L + 1, s[j] = s[k], j # i, k # i
        PROVE  j = k
    <3>1. PICK a \in 1 .. L, b \in 1 .. L : at(a) = j /\ t[a] = s[j] /\ at(b) = k /\ t[b] = s[k]
      BY <1>5, <2>3
    <3>2. a = b
      BY <1>1, <1>9, <2>3, <3>1 DEF IsInjective
    <3> QED
      BY <3>1, <3>2
  <2> QED
    BY <1>1, <2>2, <2>3 DEF IsInjective
<1> QED
  BY <1>6, <1>7, <1>8, <1>9

(* The three changes of BootOrder: RemoveAt, Append, a new first number.   *)
LEMMA RemoveAtOmits ==
  ASSUME NEW S, NEW s \in Seq(S), NEW i \in 1 .. Len(s)
  PROVE  RemoveAt(s, i) \in Seq(S) /\ Omits(RemoveAt(s, i), s, i)
<1> DEFINE p == SubSeq(s, 1, i - 1)
           q == SubSeq(s, i + 1, Len(s))
<1>1. Len(s) \in Nat /\ \A j \in 1 .. Len(s) : s[j] \in S
  BY LenProperties, ElementOfSeq
<1>2. p \in Seq(S) /\ Len(p) = i - 1 /\ \A j \in 1 .. i - 1 : p[j] = s[j]
  BY <1>1, SubSeqProperties
<1>3. q \in Seq(S) /\ Len(q) = Len(s) - i /\ \A j \in 1 .. Len(s) - i : q[j] = s[i + j]
  BY <1>1, SubSeqProperties
<1>4. RemoveAt(s, i) = p \o q
  BY DEF RemoveAt
<1> HIDE DEF p, q
<1>5. /\ p \o q \in Seq(S) /\ Len(p \o q) = Len(p) + Len(q)
      /\ \A j \in 1 .. Len(p) + Len(q) : (p \o q)[j] = IF j <= Len(p) THEN p[j] ELSE q[j - Len(p)]
  BY <1>2, <1>3, ConcatProperties
<1> DEFINE r == p \o q
<1>6. r \in Seq(S) /\ Len(r) = Len(s) - 1
      /\ \A j \in 1 .. Len(s) - 1 : r[j] = IF j <= i - 1 THEN p[j] ELSE q[j - (i - 1)]
  BY <1>1, <1>2, <1>3, <1>5
<1> HIDE DEF r
<1>7. ASSUME NEW j \in 1 .. Len(s) - 1, j < i
      PROVE  r[j] = s[j]
  BY <1>1, <1>2, <1>6, <1>7
<1>8. ASSUME NEW j \in 1 .. Len(s) - 1, ~ (j < i)
      PROVE  r[j] = s[j + 1]
  <2>1. j - (i - 1) \in 1 .. Len(s) - i /\ i + (j - (i - 1)) = j + 1
    BY <1>1, <1>8
  <2>2. q[j - (i - 1)] = s[j + 1]
    BY <1>3, <2>1
  <2> QED
    BY <1>1, <1>6, <1>8, <2>2
<1>9. r \in Seq(S) /\ Omits(r, s, i)
  BY <1>1, <1>6, <1>7, <1>8 DEF Omits
<1> QED
  BY <1>4, <1>9 DEF r

(* A number that is appended.                                              *)
LEMMA AppendOmits ==
  ASSUME NEW S, NEW s \in Seq(S), NEW n \in S
  PROVE  /\ Append(s, n) \in Seq(S) /\ Len(s) + 1 \in 1 .. Len(Append(s, n))
         /\ Append(s, n)[Len(s) + 1] = n /\ Omits(s, Append(s, n), Len(s) + 1)
<1>1. /\ Append(s, n) \in Seq(S) /\ Len(Append(s, n)) = Len(s) + 1 /\ Len(s) \in Nat
      /\ \A j \in 1 .. Len(s) : Append(s, n)[j] = s[j]
      /\ Append(s, n)[Len(s) + 1] = n
  BY AppendProperties, LenProperties
<1> QED
  BY <1>1 DEF Omits

(* A number that becomes the first.                                        *)
LEMMA FirstOmits ==
  ASSUME NEW S, NEW s \in Seq(S), NEW n \in S
  PROVE  /\ <<n>> \o s \in Seq(S) /\ 1 \in 1 .. Len(<<n>> \o s)
         /\ (<<n>> \o s)[1] = n /\ Omits(s, <<n>> \o s, 1)
<1> DEFINE r == <<n>> \o s
<1>1. <<n>> \in Seq(S) /\ Len(<<n>>) = 1 /\ <<n>>[1] = n /\ Len(s) \in Nat
  BY LenProperties
<1>2. /\ r \in Seq(S) /\ Len(r) = 1 + Len(s)
      /\ \A j \in 1 .. 1 + Len(s) : r[j] = IF j <= 1 THEN <<n>>[j] ELSE s[j - 1]
  BY <1>1, ConcatProperties
<1> HIDE DEF r
<1>3. r \in Seq(S) /\ 1 \in 1 .. Len(r) /\ r[1] = n
  BY <1>1, <1>2
<1>4. \A j \in 1 .. Len(s) : j + 1 \in 1 .. 1 + Len(s) /\ ~ (j + 1 <= 1) /\ (j + 1) - 1 = j /\ ~ (j < 1)
  BY <1>1
<1>5. \A j \in 1 .. Len(s) : s[j] = r[j + 1]
  BY <1>2, <1>4
<1>6. Omits(s, r, 1)
  BY <1>1, <1>2, <1>4, <1>5 DEF Omits
<1> QED
  BY <1>3, <1>6 DEF r

-----------------------------------------------------------------------------
(* Least elements, and the loop of ConsoleSetBestMode.                     *)

(* A set of natural numbers has a least element.                           *)
LEMMA Smallest ==
  ASSUME NEW s \in SUBSET Nat, s # {}
  PROVE  \E i \in s : \A j \in s : i <= j
<1>1. PICK i \in s : \A j \in s : ~ (<<j, i>> \in OpToRel(<, Nat))
  BY WFMin, NatLessThanWellFounded
<1>2. \A j \in s : ~ (j < i)
  BY <1>1 DEF OpToRel
<1> QED
  BY <1>2

(* Min is it.                                                              *)
LEMMA MinIsLeast ==
  ASSUME NEW s \in SUBSET Nat, s # {}
  PROVE  Min(s) \in s /\ \A j \in s : Min(s) <= j
BY Smallest DEF Min

(* What the loop has found after each of the first n modes.                *)
After(l, n, f) ==
  f = [m \in 0 .. n |->
         IF m = 0 THEN [mode |-> 1, cells |-> 0]
         ELSE IF l[m] > f[m - 1].cells THEN [mode |-> m, cells |-> l[m]]
         ELSE f[m - 1]]

(* After one mode more it is what it was, or that mode.                    *)
LEMMA OneModeMore ==
  ASSUME NEW l, NEW n \in Nat, n # 0, NEW f, After(l, n - 1, f)
  PROVE  \E g : After(l, n, g)
<1> DEFINE next == IF l[n] > f[n - 1].cells THEN [mode |-> n, cells |-> l[n]] ELSE f[n - 1]
           g    == [m \in 0 .. n |-> IF m = n THEN next ELSE f[m]]
           Want(m) == IF m = 0 THEN [mode |-> 1, cells |-> 0]
                      ELSE IF l[m] > g[m - 1].cells THEN [mode |-> m, cells |-> l[m]]
                      ELSE g[m - 1]
<1>1. n - 1 \in Nat /\ \A m \in 0 .. n : m # n => m \in 0 .. n - 1
  OBVIOUS
<1>2. \A m \in 0 .. n : m # 0 => m - 1 \in 0 .. n - 1 /\ m - 1 \in 0 .. n /\ m - 1 # n
  OBVIOUS
<1>3. \A m \in 0 .. n - 1 : f[m] = IF m = 0 THEN [mode |-> 1, cells |-> 0]
                                   ELSE IF l[m] > f[m - 1].cells THEN [mode |-> m, cells |-> l[m]]
                                   ELSE f[m - 1]
  BY <1>1 DEF After
<1>4. \A m \in 0 .. n : g[m] = IF m = n THEN next ELSE f[m]
  OBVIOUS
<1>5. \A m \in 0 .. n : m # 0 => g[m - 1] = f[m - 1]
  BY <1>2, <1>4
<1>6. ASSUME NEW m \in 0 .. n
      PROVE  g[m] = Want(m)
  <2>1. CASE m = n
    BY <1>4, <1>5, <2>1
  <2>2. CASE m # n
    BY <1>1, <1>3, <1>4, <1>5, <2>2
  <2> QED
    BY <2>1, <2>2
<1>7. g = [m \in 0 .. n |-> Want(m)]
  <2> HIDE DEF next, Want
  <2> QED
    BY <1>6, SMTT(30)
<1>8. After(l, n, g)
  BY <1>7 DEF After
<1> QED
  BY <1>8

(* What the loop has found is defined, however many modes there are.       *)
LEMMA LoopRuns ==
  ASSUME NEW l, NEW n \in Nat
  PROVE  \E f : After(l, n, f)
<1> DEFINE fails == {k \in Nat : ~ \E f : After(l, k, f)}
<1>1. SUFFICES ASSUME fails # {}  PROVE FALSE
  OBVIOUS
<1>2. PICK k \in fails : \A j \in fails : k <= j
  BY <1>1, Smallest
<1>3. k # 0
  <2> DEFINE f == [m \in 0 .. 0 |-> [mode |-> 1, cells |-> 0]]
  <2>1. \A m \in 0 .. 0 : m = 0
    OBVIOUS
  <2>2. After(l, 0, f)
    BY <2>1 DEF After
  <2> QED
    BY <2>2
<1>4. k - 1 \in Nat /\ k \in Nat /\ ~ (k <= k - 1)
  BY <1>2, <1>3
<1>5. PICK f : After(l, k - 1, f)
  BY <1>2, <1>4
<1>6. \E g : After(l, k, g)
  BY <1>3, <1>4, <1>5, OneModeMore
<1> QED
  BY <1>2, <1>6

(* The mode it keeps is the largest so far; its cells are 0 if none has    *)
(* any.                                                                    *)
Best(l, b, m) ==
  /\ b.mode \in 1 .. Len(l) /\ b.cells \in Nat
  /\ \A j \in 1 .. m : l[j] <= b.cells
  /\ b.cells = 0 \/ b.cells = l[b.mode]

(* ConsoleSetBestMode sets a mode that exists, and none has more cells.    *)
LEMMA BestModeIsLargest ==
  ASSUME NEW l \in Seq(Nat), l # << >>
  PROVE  /\ BestMode(l) \in 1 .. Len(l)
         /\ \A m \in 1 .. Len(l) : l[m] <= l[BestMode(l)]
<1> DEFINE L == Len(l)
<1>0. L \in Nat /\ L # 0 /\ \A m \in 1 .. L : l[m] \in Nat
  BY EmptySeq, LenProperties, ElementOfSeq
<1>1. PICK f : After(l, L, f) /\ BestMode(l) = f[L].mode
  <2> DEFINE best == CHOOSE f : After(l, L, f)
  <2>1. After(l, L, best)
    BY <1>0, LoopRuns
  <2>2. BestMode(l) = best[L].mode
    BY DEF BestMode, After
  <2> QED
    BY <2>1, <2>2
<1>2. /\ f[0] = [mode |-> 1, cells |-> 0]
      /\ \A m \in 1 .. L : f[m] = IF l[m] > f[m - 1].cells THEN [mode |-> m, cells |-> l[m]]
                                  ELSE f[m - 1]
  <2>1. 0 \in 0 .. L /\ \A m \in 1 .. L : m \in 0 .. L /\ m # 0
    BY <1>0
  <2> QED
    BY <1>1, <2>1 DEF After
<1> HIDE DEF L
<1> DEFINE bad == {m \in 0 .. L : ~ Best(l, f[m], m)}
<1>3. bad = {}
  <2>1. SUFFICES ASSUME bad # {}  PROVE FALSE
    OBVIOUS
  <2>2. bad \in SUBSET Nat
    BY <1>0
  <2>3. PICK m \in bad : \A j \in bad : m <= j
    BY <2>1, <2>2, Smallest
  <2>4. m \in 0 .. L
    BY <2>3
  <2>5. Best(l, f[0], 0)
    BY <1>0, <1>2 DEF Best, L
  <2>6. m \in 1 .. L /\ m - 1 \in 0 .. L /\ ~ (m <= m - 1)
    BY <1>0, <2>3, <2>4, <2>5
  <2>7. Best(l, f[m - 1], m - 1)
    BY <2>3, <2>6
  <2> DEFINE b == f[m - 1]
  <2>8. /\ b.mode \in 1 .. L /\ b.cells \in Nat
        /\ \A j \in 1 .. m - 1 : l[j] <= b.cells
        /\ b.cells = 0 \/ b.cells = l[b.mode]
    BY <2>7 DEF Best, L
  <2>9. f[m] = IF l[m] > b.cells THEN [mode |-> m, cells |-> l[m]] ELSE b
    BY <1>2, <2>6
  <2> HIDE DEF b
  <2>10. l[m] \in Nat /\ \A j \in 1 .. m : j \in 1 .. m - 1 \/ j = m
    BY <1>0, <2>6
  <2>11. \A j \in 1 .. m - 1 : l[j] \in Nat
    BY <1>0, <2>6
  <2>12. CASE l[m] > b.cells
    <3>1. f[m].mode = m /\ f[m].cells = l[m]
      BY <2>9, <2>12
    <3>2. ASSUME NEW j \in 1 .. m
          PROVE  l[j] <= l[m]
      <4>1. CASE j = m
        BY <2>10, <4>1
      <4>2. CASE j # m
        <5>1. l[j] \in Nat /\ l[j] <= b.cells /\ b.cells \in Nat
          BY <2>8, <2>10, <2>11, <4>2
        <5> QED
          BY <2>10, <2>12, <5>1
      <4> QED
        BY <4>1, <4>2
    <3>3. Best(l, f[m], m)
      BY <2>6, <2>10, <3>1, <3>2 DEF Best, L
    <3> QED
      BY <2>3, <3>3
  <2>13. CASE ~ (l[m] > b.cells)
    <3>1. f[m] = b /\ \A j \in 1 .. m : l[j] <= b.cells
      BY <2>8, <2>9, <2>10, <2>13
    <3>2. Best(l, f[m], m)
      BY <2>8, <3>1 DEF Best, L
    <3> QED
      BY <2>3, <3>2
  <2> QED
    BY <2>12, <2>13
<1>4. Best(l, f[L], L)
  BY <1>0, <1>3
<1>5. \A m \in 1 .. L : l[m] <= f[L].cells
  BY <1>4 DEF Best
<1>6. f[L].mode \in 1 .. L /\ (f[L].cells = 0 \/ f[L].cells = l[f[L].mode])
  BY <1>4 DEF Best, L
<1>7. ASSUME NEW m \in 1 .. L
      PROVE  l[m] <= l[f[L].mode]
  <2>1. l[m] \in Nat /\ l[f[L].mode] \in Nat /\ l[m] <= f[L].cells
    BY <1>0, <1>5, <1>6
  <2> QED
    BY <1>6, <2>1
<1> QED
  BY <1>1, <1>6, <1>7 DEF L

-----------------------------------------------------------------------------
(* The invariant, action by action.                                        *)

USE OptionsAssumption, BoundAssumption
    DEF Options, AutoCreated, Numbers, KeyNumbers, Consoles, Steps

(* A list of numbers: what changing it does to what is in it.              *)
LEMMA RangeOf ==
  ASSUME NEW S, NEW s \in Seq(S)
  PROVE  /\ Range(s) \in SUBSET S
         /\ s # << >> => Range(s) = {Head(s)} \union Range(Tail(s)) /\ Tail(s) \in Seq(S) /\ Head(s) \in S
         /\ Range(<< >>) = {}
<1>1. DOMAIN s = 1 .. Len(s) /\ Len(s) \in Nat /\ \A i \in 1 .. Len(s) : s[i] \in S
  BY LenProperties, ElementOfSeq
<1>2. Range(s) \in SUBSET S
  BY <1>1 DEF Range
<1>3. ASSUME s # << >>
      PROVE  Range(s) = {Head(s)} \union Range(Tail(s)) /\ Tail(s) \in Seq(S) /\ Head(s) \in S
  <2>1. /\ Head(s) \in S /\ Tail(s) \in Seq(S) /\ Len(Tail(s)) = Len(s) - 1
        /\ \A i \in 1 .. Len(Tail(s)) : Tail(s)[i] = s[i + 1]
    BY <1>3, HeadTailProperties
  <2>2. Head(s) = s[1] /\ Len(s) # 0
    BY <1>3, EmptySeq
  <2> DEFINE t == Tail(s)
  <2> HIDE DEF t
  <2>3. Omits(t, s, 1)
    <3>1. Len(s) = Len(t) + 1
      BY <1>1, <2>1, <2>2 DEF t
    <3>2. ASSUME NEW j \in 1 .. Len(t)
          PROVE  t[j] = s[IF j < 1 THEN j ELSE j + 1]
      <4>1. ~ (j < 1) /\ t[j] = s[j + 1]
        BY <1>1, <2>1, <3>1 DEF t
      <4> QED
        BY <4>1
    <3> QED
      BY <3>1, <3>2 DEF Omits
  <2>4. 1 \in 1 .. Len(s) /\ t \in Seq(S)
    BY <1>1, <2>1, <2>2 DEF t
  <2>5. Range(s) = Range(t) \union {s[1]}
    BY <2>3, <2>4, OmitFacts
  <2> QED
    BY <2>1, <2>2, <2>5 DEF t
<1>4. Range(<< >>) = {}
  <2>1. DOMAIN << >> = {}
    OBVIOUS
  <2> QED
    BY <2>1 DEF Range
<1> QED
  BY <1>2, <1>3, <1>4

(* A budget that is spent stays a number.                                  *)
LEMMA SpendType ==
  ASSUME TypeOK, NEW k \in {"reset", "fault", "user"}, Spend(k)
  PROVE  budget' \in [{"reset", "fault", "user"} -> Nat]
BY DEF Spend, TypeOK

(* Listed, for options; who is found has a number.                         *)
LEMMA Found ==
  ASSUME TypeOK, OwnInv, NEW o \in Options
  PROVE  /\ Listed(o) = {n \in Range(BootOrder) : Boot[n] = o}
         /\ Listed(o) \in SUBSET Numbers
         /\ FindLoadOption(o) => \E n \in Numbers : n \in Range(BootOrder) /\ Boot[n] = o
         /\ o \in {UI, Menu} /\ ~ FindLoadOption(o) => \A n \in Numbers : Boot[n] # o
<1>1. Range(BootOrder) \in SUBSET Numbers
  BY RangeOf DEF TypeOK
<1>2. o # None
  BY DEF Options
<1>3. Listed(o) = {n \in Range(BootOrder) : Boot[n] = o}
  BY <1>2 DEF Listed, GetLoadOptions
<1> QED
  BY <1>1, <1>3 DEF FindLoadOption, OwnInv

(* A step that leaves options, numbers and what is being added alone.      *)
Late == {"shell", "mode", "offer", "changed"}

(* Only where it goes counts: past the UI and the menu if they are there,  *)
(* past the removal if the list is empty, past the shell if it is there;   *)
(* past the UI and the shell also if they cannot be added.                 *)
LEMMA OptionsAlone ==
  ASSUME IInv, step' \in Steps, UNCHANGED <<BootOrder, Boot, adding>>,
         step' = step \/ adding = None, missing \subseteq missing',
         step' \notin UntilUi => step \notin UntilUi \/ FindLoadOption(UI) \/ UI \in missing',
         step' \notin UntilMenu => step \notin UntilMenu \/ FindLoadOption(Menu),
         step' = "vnor" => todo' = BootOrder \/ (step = "vnor" /\ todo' = todo),
         step' \in Late => step \in Late \/ (step = "vnor" /\ todo = << >>),
         step' \in {"mode", "offer"} =>
           step \in {"mode", "offer"} \/ FindLoadOption(Shell) \/ Shell \in missing'
  PROVE  OwnInv' /\ AddInv' /\ VnorInv' /\ ShellInv'
<1>1. OwnInv'
  <2>1. /\ FindLoadOption(UI) => \E n \in Numbers : Boot[n] = UI
        /\ FindLoadOption(Menu) => \E n \in Numbers : Boot[n] = Menu
    BY Found DEF IInv
  <2>2. /\ step' \notin UntilUi => UI \in missing' \/ \E n \in Numbers : Boot[n] = UI
        /\ step' \notin UntilMenu => \E n \in Numbers : Boot[n] = Menu
    BY <2>1 DEF IInv, OwnInv
  <2> QED
    BY <2>2 DEF IInv, OwnInv
<1>2. AddInv'
  BY DEF IInv, AddInv
<1>3. VnorInv'
  <2> SUFFICES ASSUME NEW n \in Range(BootOrder), Boot[n] \in VnorOptions
               PROVE  /\ step' = "vnor" => n \in Range(todo')
                      /\ step' \in Late => adding # None /\ adding.num = n
    BY DEF VnorInv, Late
  <2>1. /\ step = "vnor" => n \in Range(todo)
        /\ step \in Late => adding # None /\ adding.num = n
    BY DEF IInv, VnorInv, Late
  <2>2. Range(<< >>) = {}
    BY RangeOf, EmptySeq
  <2> QED
    BY <2>1, <2>2
<1>4. ShellInv'
  BY DEF IInv, ShellInv, FindLoadOption, Listed, GetLoadOptions
<1> QED
  BY <1>1, <1>2, <1>3, <1>4

(* The order of the handles: each of a finite set once.                    *)
LEMMA HandleLists ==
  ASSUME NEW S, NEW d \in SUBSET S, IsFiniteSet(S), NEW s \in SetToSeqs(d)
  PROVE  s \in Seq(S)
<1>1. IsFiniteSet(d)
  BY ONLY IsFiniteSet(S), d \in SUBSET S, FS_Subset, Zenon
<1>2. Cardinality(d) \in Nat
  BY ONLY <1>1, FS_CardinalityType, Zenon
<1>3. s \in [1 .. Cardinality(d) -> S]
  BY DEF SetToSeqs
<1> QED
  BY <1>2, <1>3

(* The parts of the invariant, for steps that leave the keys alone.        *)
LEMMA KeysAlone ==
  ASSUME IInv, UNCHANGED <<Boot, Key, image>>, step' \in Steps,
         step' \notin UntilMenu \union {"f2"} => step \notin UntilMenu \union {"f2"},
         step' \notin UntilMenu \union {"f2", "esc"} => step \notin UntilMenu \union {"f2", "esc"}
  PROVE  KeyInv'
BY DEF IInv, KeyInv, Valid, KeyPlaces

(* The text mode, for steps that leave it alone.                           *)
LEMMA ModesAlone ==
  ASSUME IInv, UNCHANGED text
  PROVE  BestModeIsSet'
BY DEF IInv, BestModeIsSet

(* The list of handles is one of displays.                                 *)
LEMMA ConnectDisplaysKept == IInv /\ ConnectDisplays => IInv'
<1> SUFFICES ASSUME IInv, ConnectDisplays  PROVE IInv'
  OBVIOUS
<1>0. todo' \in Seq(Displays)
  BY HandleLists DEF ConnectDisplays
<1>1. TypeOK'
  BY <1>0 DEF ConnectDisplays, IInv, TypeOK, store
<1>2. TodoInv'
  BY <1>0 DEF ConnectDisplays, IInv, TypeOK, TodoInv, store
<1>3. OwnInv' /\ AddInv' /\ VnorInv' /\ ShellInv'
  BY OptionsAlone DEF ConnectDisplays, IInv, AddInv, AddsAt, UntilUi, UntilMenu, Late, store
<1>4. KeyInv' /\ BestModeIsSet'
  BY KeysAlone, ModesAlone DEF ConnectDisplays, UntilUi, UntilMenu, store
<1> QED
  BY <1>1, <1>2, <1>3, <1>4 DEF IInv

(* A display is in ErrOut only if it is in ConOut.                         *)
LEMMA AddOutputKept == IInv /\ AddOutput => IInv'
<1> SUFFICES ASSUME IInv, AddOutput  PROVE IInv'
  OBVIOUS
<1>0. Tail(todo) \in Seq(Displays) /\ Head(todo) \in Displays /\ budget' \in [{"reset", "fault", "user"} -> Nat]
  BY HeadTailProperties, SpendType DEF AddOutput, IInv, TodoInv, TypeOK
<1>1. TypeOK'
  BY <1>0, SMTT(30) DEF AddOutput, UpdateConsoles, IInv, TypeOK, store
<1>2. TodoInv'
  BY <1>0 DEF AddOutput, UpdateConsoles, IInv, TypeOK, TodoInv, store
<1>3. OwnInv' /\ AddInv' /\ VnorInv' /\ ShellInv'
  BY OptionsAlone DEF AddOutput, IInv, AddInv, AddsAt, UntilUi, UntilMenu, Late, store
<1>4. KeyInv' /\ BestModeIsSet'
  BY KeysAlone, ModesAlone DEF AddOutput, UntilUi, UntilMenu, store
<1> QED
  BY <1>1, <1>2, <1>3, <1>4 DEF IInv

(* The loop over the displays ends.                                        *)
LEMMA FilterAndProcessKept == IInv /\ FilterAndProcess => IInv'
<1> SUFFICES ASSUME IInv, FilterAndProcess  PROVE IInv'
  OBVIOUS
<1>1. TypeOK'
  BY DEF FilterAndProcess, IInv, TypeOK, store
<1>2. TodoInv'
  BY DEF FilterAndProcess, IInv, TypeOK, TodoInv, store
<1>3. OwnInv' /\ AddInv' /\ VnorInv' /\ ShellInv'
  BY OptionsAlone DEF FilterAndProcess, IInv, AddInv, AddsAt, UntilUi, UntilMenu, Late,
     store
<1>4. KeyInv' /\ BestModeIsSet'
  BY KeysAlone, ModesAlone DEF FilterAndProcess, UntilUi, UntilMenu, store
<1> QED
  BY <1>1, <1>2, <1>3, <1>4 DEF IInv

(* The serial console may be in ErrOut alone.                              *)
LEMMA AddFixedConsolesKept == IInv /\ AddFixedConsoles => IInv'
<1> SUFFICES ASSUME IInv, AddFixedConsoles  PROVE IInv'
  OBVIOUS
<1>0. budget' \in [{"reset", "fault", "user"} -> Nat]
  BY SpendType DEF AddFixedConsoles, IInv, TypeOK
<1>1. TypeOK'
  BY <1>0 DEF AddFixedConsoles, IInv, TypeOK, store
<1>2. TodoInv'
  <2>1. \A a, b \in {"other", "vnor"} : <<a, b>> \in Seq({"other", "vnor"})
    OBVIOUS
  <2>2. << >> \in Seq({"other", "vnor"})
    OBVIOUS
  <2>3. todo' \in Seq({"other", "vnor"}) /\ step' = "restore"
    BY <2>1, <2>2 DEF AddFixedConsoles
  <2> QED
    BY <2>3 DEF TodoInv
<1>3. OwnInv' /\ AddInv' /\ VnorInv' /\ ShellInv'
  BY OptionsAlone DEF AddFixedConsoles, IInv, AddInv, AddsAt, UntilUi, UntilMenu, Late,
     store
<1>4. KeyInv' /\ BestModeIsSet'
  BY KeysAlone, ModesAlone DEF AddFixedConsoles, UntilUi, UntilMenu, store
<1> QED
  BY <1>1, <1>2, <1>3, <1>4 DEF IInv

(* The loop over the block devices ends.                                   *)
LEMMA VisitAllInstancesOfProtocolKept == IInv /\ VisitAllInstancesOfProtocol => IInv'
<1> SUFFICES ASSUME IInv, VisitAllInstancesOfProtocol  PROVE IInv'
  OBVIOUS
<1>1. TypeOK'
  BY DEF VisitAllInstancesOfProtocol, IInv, TypeOK, store
<1>2. TodoInv'
  BY DEF VisitAllInstancesOfProtocol, IInv, TypeOK, TodoInv, store
<1>3. OwnInv' /\ AddInv' /\ VnorInv' /\ ShellInv'
  BY OptionsAlone DEF VisitAllInstancesOfProtocol, IInv, AddInv, AddsAt, UntilUi,
     UntilMenu, Late, store
<1>4. KeyInv' /\ BestModeIsSet'
  BY KeysAlone, ModesAlone DEF VisitAllInstancesOfProtocol, UntilUi, UntilMenu, store
<1> QED
  BY <1>1, <1>2, <1>3, <1>4 DEF IInv

(* The devices that are there, in any order.                               *)
LEMMA RefreshAllBootOptionKept == IInv /\ RefreshAllBootOption => IInv'
<1> SUFFICES ASSUME IInv, RefreshAllBootOption  PROVE IInv'
  OBVIOUS
<1>0. todo' \in Seq(VnorOptions \union Disks)
  <2>1. PICK d \in SUBSET Disks : \E s \in SetToSeqs(VnorOptions \union d) : todo' = s
    BY DEF RefreshAllBootOption
  <2>2. IsFiniteSet(VnorOptions \union Disks)
    <3>1. IsFiniteSet(VnorOptions) /\ IsFiniteSet(Disks)
      BY OptionsAssumption
    <3> QED
      BY ONLY <3>1, FS_Union, Zenon
  <2>3. VnorOptions \union d \in SUBSET (VnorOptions \union Disks)
    OBVIOUS
  <2> QED
    BY <2>1, <2>2, <2>3, HandleLists
<1>1. TypeOK'
  BY <1>0 DEF RefreshAllBootOption, IInv, TypeOK, store
<1>2. TodoInv'
  BY <1>0 DEF RefreshAllBootOption, IInv, TypeOK, TodoInv, store
<1>3. OwnInv' /\ AddInv' /\ VnorInv' /\ ShellInv'
  BY OptionsAlone DEF RefreshAllBootOption, IInv, AddInv, AddsAt, UntilUi, UntilMenu, Late,
     store
<1>4. KeyInv' /\ BestModeIsSet'
  BY KeysAlone, ModesAlone DEF RefreshAllBootOption, UntilUi, UntilMenu, store
<1> QED
  BY <1>1, <1>2, <1>3, <1>4 DEF IInv

(* All of BootOrder is on the list of what is looked at.                   *)
LEMMA LoadOptionsForRemovalKept == IInv /\ LoadOptionsForRemoval => IInv'
<1> SUFFICES ASSUME IInv, LoadOptionsForRemoval  PROVE IInv'
  OBVIOUS
<1>1. TypeOK'
  BY DEF LoadOptionsForRemoval, IInv, TypeOK, store
<1>2. TodoInv'
  BY DEF LoadOptionsForRemoval, IInv, TypeOK, TodoInv, store
<1>3. OwnInv' /\ AddInv' /\ VnorInv' /\ ShellInv'
  BY OptionsAlone DEF LoadOptionsForRemoval, IInv, AddInv, AddsAt, UntilUi, UntilMenu,
     Late, store
<1>4. KeyInv' /\ BestModeIsSet'
  BY KeysAlone, ModesAlone DEF LoadOptionsForRemoval, UntilUi, UntilMenu, store
<1> QED
  BY <1>1, <1>2, <1>3, <1>4 DEF IInv

(* The list is empty: nothing of the VNOR device is left.                  *)
LEMMA NoneLeftToRemoveKept == IInv /\ NoneLeftToRemove => IInv'
<1> SUFFICES ASSUME IInv, NoneLeftToRemove  PROVE IInv'
  OBVIOUS
<1>1. TypeOK'
  BY DEF NoneLeftToRemove, IInv, TypeOK, store
<1>2. TodoInv'
  BY DEF NoneLeftToRemove, IInv, TypeOK, TodoInv, store
<1>3. OwnInv' /\ AddInv' /\ VnorInv' /\ ShellInv'
  BY OptionsAlone DEF NoneLeftToRemove, IInv, AddInv, AddsAt, UntilUi, UntilMenu, Late,
     store
<1>4. KeyInv' /\ BestModeIsSet'
  BY KeysAlone, ModesAlone DEF NoneLeftToRemove, UntilUi, UntilMenu, store
<1> QED
  BY <1>1, <1>2, <1>3, <1>4 DEF IInv

(* The text mode is the largest.                                           *)
LEMMA ConsoleSetBestModeKept == IInv /\ ConsoleSetBestMode => IInv'
<1> SUFFICES ASSUME IInv, ConsoleSetBestMode  PROVE IInv'
  OBVIOUS
<1>0. PICK l \in ModeLists : text' = [modes |-> l, mode |-> BestMode(l)]
  BY DEF ConsoleSetBestMode
<1>1. /\ BestMode(l) \in 1 .. Len(l) /\ DOMAIN l = 1 .. Len(l)
      /\ \A m \in 1 .. Len(l) : l[m] <= l[BestMode(l)]
  <2>1. l \in Seq(Nat) /\ l # << >>
    BY BoundAssumption
  <2> QED
    BY <2>1, BestModeIsLargest, LenProperties
<1>2. text'.modes = l /\ text'.mode = BestMode(l)
  BY <1>0
<1>3. BestModeIsSet' /\ text'.mode \in DOMAIN text'.modes
  BY <1>1, <1>2 DEF BestModeIsSet
<1>4. TypeOK'
  BY <1>3, ZenonT(40) DEF ConsoleSetBestMode, IInv, TypeOK, store
<1>5. TodoInv'
  BY DEF ConsoleSetBestMode, IInv, TypeOK, TodoInv, store
<1>6. OwnInv' /\ AddInv' /\ VnorInv' /\ ShellInv'
  BY OptionsAlone DEF ConsoleSetBestMode, IInv, AddInv, AddsAt, ShellInv, UntilUi,
     UntilMenu, Late, store
<1>7. KeyInv'
  BY KeysAlone DEF ConsoleSetBestMode, UntilUi, UntilMenu, store
<1> QED
  BY <1>3, <1>4, <1>5, <1>6, <1>7 DEF IInv

-----------------------------------------------------------------------------
(* The steps that change keys.                                             *)

KeySets == [KeyNumbers -> KeyOptions \union {None}]

(* Keys that are restored are in the places where they were saved.         *)
LEMMA KeysMerged ==
  ASSUME NEW a \in KeySets, NEW b \in KeySets, KeyPlaces(a), KeyPlaces(b)
  PROVE  /\ [k \in KeyNumbers |-> IF b[k] = None THEN a[k] ELSE b[k]] \in KeySets
         /\ KeyPlaces([k \in KeyNumbers |-> IF b[k] = None THEN a[k] ELSE b[k]])
         /\ NoKeys \in KeySets /\ KeyPlaces(NoKeys)
<1>1. 0 \in KeyNumbers /\ 1 \in KeyNumbers /\ 2 \in KeyNumbers
  OBVIOUS
<1> QED
  BY <1>1 DEF KeyPlaces, KeySets, NoKeys, Made

(* Keys are restored and saved in their places, or not at all.             *)
LEMMA ConnectKeeps ==
  ASSUME TypeOK, KeyPlaces(Key), KeyPlaces(image), ConnectNvVarsToBlockIo
  PROVE  /\ Key' \in KeySets /\ image' \in KeySets /\ KeyPlaces(Key') /\ KeyPlaces(image')
         /\ connected' \in BOOLEAN /\ loaded' \in BOOLEAN
         /\ budget' \in [{"reset", "fault", "user"} -> Nat]
<1>0. Key \in KeySets /\ image \in KeySets
  BY DEF TypeOK, KeySets
<1>1. PICK failed \in SUBSET {"load", "save"} :
        /\ IF failed = {} THEN UNCHANGED budget ELSE Spend("fault")
        /\ Key' = IF loaded \/ "load" \in failed THEN Key
                  ELSE [k \in KeyNumbers |-> IF image[k] = None THEN Key[k] ELSE image[k]]
        /\ connected' = ("save" \notin failed)
        /\ loaded' = (loaded \/ failed # {"load", "save"})
        /\ image' \in IF "save" \in failed THEN {image, NoKeys} ELSE {Key'}
  BY DEF ConnectNvVarsToBlockIo
<1>2. Key' \in KeySets /\ KeyPlaces(Key')
  BY <1>0, <1>1, KeysMerged
<1>3. image' \in KeySets /\ KeyPlaces(image')
  BY <1>0, <1>1, <1>2, KeysMerged
<1>4. connected' \in BOOLEAN /\ loaded' \in BOOLEAN
  BY <1>1 DEF TypeOK
<1>5. budget' \in [{"reset", "fault", "user"} -> Nat]
  BY <1>1, SpendType DEF TypeOK
<1> QED
  BY <1>2, <1>3, <1>4, <1>5

(* Keys change before any of them counts.                                  *)
LEMMA VisitingBlockIoInstanceKept == IInv /\ VisitingBlockIoInstance => IInv'
<1> SUFFICES ASSUME IInv, VisitingBlockIoInstance  PROVE IInv'
  OBVIOUS
<1>1. /\ step = "restore" /\ step' = step /\ Tail(todo) \in Seq({"other", "vnor"}) /\ todo' = Tail(todo)
      /\ UNCHANGED <<BootOrder, Boot, console, adding, text, missing>>
  BY HeadTailProperties DEF VisitingBlockIoInstance, IInv, TodoInv
<1>2. /\ Key' \in KeySets /\ image' \in KeySets /\ KeyPlaces(Key') /\ KeyPlaces(image')
      /\ connected' \in BOOLEAN /\ loaded' \in BOOLEAN
      /\ budget' \in [{"reset", "fault", "user"} -> Nat]
  <2>1. CASE ConnectNvVarsToBlockIo
    BY <2>1, ConnectKeeps DEF IInv, KeyInv
  <2>2. CASE UNCHANGED <<connected, loaded, Key, image, budget>>
    BY <2>2 DEF IInv, KeyInv, TypeOK, KeySets
  <2> QED
    BY <2>1, <2>2 DEF VisitingBlockIoInstance
<1>3. TypeOK'
  BY <1>1, <1>2, SMTT(30) DEF IInv, TypeOK, KeySets
<1>4. TodoInv'
  BY <1>1 DEF TodoInv
<1>5. OwnInv' /\ AddInv' /\ VnorInv' /\ ShellInv'
  BY <1>1, OptionsAlone DEF Late, UntilUi, UntilMenu
<1>6. KeyInv' /\ BestModeIsSet'
  BY <1>1, <1>2, ModesAlone DEF KeyInv, UntilMenu, UntilUi
<1> QED
  BY <1>3, <1>4, <1>5, <1>6 DEF IInv

(* The image gets the keys as they are, or is lost.                        *)
LEMMA CallbackKept == IInv /\ EmuVariablesUpdatedCallback => IInv'
<1> SUFFICES ASSUME IInv, EmuVariablesUpdatedCallback  PROVE IInv'
  OBVIOUS
<1>1. UNCHANGED <<BootOrder, Boot, Key, console, loaded, connected, step, todo, adding, text, missing>>
  BY DEF EmuVariablesUpdatedCallback, store
<1>2. image' \in KeySets /\ KeyPlaces(image') /\ budget' \in [{"reset", "fault", "user"} -> Nat]
  BY KeysMerged, SpendType DEF EmuVariablesUpdatedCallback, IInv, KeyInv, TypeOK, KeySets
<1>3. TypeOK'
  BY <1>1, <1>2 DEF IInv, TypeOK, KeySets
<1>4. TodoInv'
  BY <1>1 DEF IInv, TodoInv
<1>5. OwnInv' /\ AddInv' /\ VnorInv' /\ ShellInv'
  <2>1. step' \in Steps
    BY <1>1 DEF IInv, TypeOK
  <2> QED
    BY <1>1, <2>1, OptionsAlone DEF IInv, ShellInv
<1>6. KeyInv' /\ BestModeIsSet'
  BY <1>1, <1>2, ModesAlone DEF IInv, KeyInv, Valid
<1> QED
  BY <1>3, <1>4, <1>5, <1>6 DEF IInv

(* A key that is made takes place k, where all before k are valid and of   *)
(* other keys, and is valid then.                                          *)
LEMMA KeyMade ==
  ASSUME IInv, step \notin UntilMenu, NEW key \in {F2, Esc}, NEW here, NEW next,
         PlatformRegisterKey(here, key, next),
         NEW k \in {0, 1}, k = IF key = F2 THEN 0 ELSE 1,
         k = 1 => 0 \in Valid
  PROVE  Key' \in KeySets /\ KeyPlaces(Key') /\ k \in Valid' /\ (0 \in Valid => 0 \in Valid')
<1> DEFINE m   == Min(Listed(Menu))
           new == [key |-> key, num |-> m, opt |-> Menu]
<1>0. /\ Key \in KeySets /\ KeyPlaces(Key) /\ F2 # Esc /\ Boot' = Boot
      /\ 0 \in KeyNumbers /\ 1 \in KeyNumbers /\ 2 \in KeyNumbers
  BY DEF IInv, KeyInv, TypeOK, KeySets, PlatformRegisterKey
<1>1. m \in Numbers /\ Boot[m] = Menu
  <2>1. Listed(Menu) # {} /\ Listed(Menu) \in SUBSET Numbers
    BY Found DEF IInv, OwnInv
  <2>2. Listed(Menu) \in SUBSET Nat
    BY <2>1
  <2>3. m \in Listed(Menu)
    BY <2>1, <2>2, MinIsLeast
  <2> QED
    BY <2>1, <2>3 DEF Listed
<1>2. new \in KeyOptions /\ new \in Made(key) /\ new # None
  BY <1>1 DEF KeyOptions, Made
<1> HIDE DEF m, new
<1>3. \A j \in Valid : j \in KeyNumbers /\ Key[j] # None /\ j \in {0, 1} /\ (Key[j].key = key <=> j = k)
  BY <1>0 DEF Valid, KeyPlaces, Made
<1>4. CASE \E j \in Valid : Key[j].key = key
  <2>1. Key' = Key
    BY <1>4 DEF PlatformRegisterKey
  <2> QED
    BY <1>0, <1>3, <1>4, <2>1 DEF Valid
<1>5. CASE ~ \E j \in Valid : Key[j].key = key
  <2>1. k \notin Valid /\ k \in KeyNumbers
    BY <1>3, <1>5
  <2>2. \A j \in KeyNumbers \ Valid : k <= j
    BY <2>1
  <2>3. (KeyNumbers \ Valid) \in SUBSET Nat /\ (KeyNumbers \ Valid) # {}
    BY <2>1
  <2>4. Min(KeyNumbers \ Valid) \in KeyNumbers \ Valid /\ Min(KeyNumbers \ Valid) <= k
    BY <2>1, <2>3, MinIsLeast
  <2>5. Min(KeyNumbers \ Valid) = k
    BY <2>2, <2>4
  <2>6. Key' = [Key EXCEPT ![k] = new]
    BY <1>5, <2>5 DEF PlatformRegisterKey, new, m
  <2>7. Key' \in KeySets /\ Key'[k] = new /\ \A j \in KeyNumbers : j # k => Key'[j] = Key[j]
    BY <1>0, <1>2, <2>1, <2>6 DEF KeySets
  <2>8. KeyPlaces(Key')
    <3>1. CASE key = F2
      BY <1>0, <1>2, <2>7, <3>1 DEF KeyPlaces
    <3>2. CASE key = Esc
      BY <1>0, <1>2, <2>7, <3>2 DEF KeyPlaces
    <3> QED
      BY <3>1, <3>2
  <2>9. k \in Valid'
    BY <1>0, <1>1, <1>2, <2>1, <2>7 DEF Valid, new
  <2>10. 0 \in Valid => 0 \in Valid'
    BY <1>0, <2>1, <2>7 DEF Valid
  <2> QED
    BY <2>7, <2>8, <2>9, <2>10
<1> QED
  BY <1>4, <1>5

(* F2's key is made first, then that of Esc.                               *)
LEMMA PlatformRegisterKeyKept ==
  IInv /\ (PlatformRegisterKey("f2", F2, "esc") \/ PlatformRegisterKey("esc", Esc, "refresh")) => IInv'
<1> SUFFICES ASSUME IInv,
                    PlatformRegisterKey("f2", F2, "esc") \/ PlatformRegisterKey("esc", Esc, "refresh")
             PROVE  IInv'
  OBVIOUS
<1>1. /\ UNCHANGED <<BootOrder, Boot, console, loaded, image, connected, todo, adding, text, missing, budget>>
      /\ (step = "f2" /\ step' = "esc") \/ (step = "esc" /\ step' = "refresh")
  <2>1. ASSUME NEW here, NEW key, NEW next, PlatformRegisterKey(here, key, next)
        PROVE  /\ UNCHANGED <<BootOrder, Boot, console, loaded, image, connected, todo, adding, text, missing,
                             budget>>
               /\ step = here /\ step' = next
    BY <2>1 DEF PlatformRegisterKey
  <2> QED
    BY <2>1
<1>2. Key' \in KeySets /\ KeyPlaces(Key') /\ 0 \in Valid' /\ (step' = "refresh" => 1 \in Valid')
  <2>1. CASE PlatformRegisterKey("f2", F2, "esc")
    <3>1. step = "f2" /\ step' = "esc" /\ step \notin UntilMenu
      BY <2>1 DEF PlatformRegisterKey, UntilMenu, UntilUi
    <3> QED
      BY <2>1, <3>1, KeyMade
  <2>2. CASE PlatformRegisterKey("esc", Esc, "refresh")
    <3>1. step = "esc" /\ step \notin UntilMenu /\ step \notin UntilMenu \union {"f2"}
      BY <2>2 DEF PlatformRegisterKey, UntilMenu, UntilUi
    <3>2. 0 \in Valid
      BY <3>1 DEF IInv, KeyInv
    <3> QED
      BY <2>2, <3>1, <3>2, KeyMade
  <2> QED
    BY <2>1, <2>2
<1>3. TypeOK'
  BY <1>1, <1>2 DEF IInv, TypeOK, KeySets
<1>4. TodoInv'
  BY <1>1 DEF TodoInv
<1>5. OwnInv' /\ AddInv' /\ VnorInv' /\ ShellInv'
  BY <1>1, OptionsAlone DEF IInv, AddInv, AddsAt, Late, UntilUi, UntilMenu
<1>6. KeyInv' /\ BestModeIsSet'
  BY <1>1, <1>2, ModesAlone DEF IInv, KeyInv, UntilMenu, UntilUi
<1> QED
  BY <1>3, <1>4, <1>5, <1>6 DEF IInv

-----------------------------------------------------------------------------
(* Options that are added.                                                 *)

(* The number is new, and stands where it is first or last.                *)
LEMMA NumberTaken ==
  ASSUME TypeOK, NEW o, NEW first \in BOOLEAN, NEW next, AddLoadOptionVariable(o, first, next)
  PROVE  /\ BootOrder' \in Seq(Numbers) /\ IsInjective(BootOrder')
         /\ adding' = [num |-> adding'.num, opt |-> o, next |-> next]
         /\ adding'.num \in Numbers \ Range(BootOrder)
         /\ Range(BootOrder') = Range(BootOrder) \union {adding'.num}
         /\ \A m, n : m # adding'.num /\ n # adding'.num =>
              (Precedes(BootOrder', m, n) <=> Precedes(BootOrder, m, n))
         /\ UNCHANGED <<Boot, Key, console, loaded>>
<1> DEFINE n == Min(Free)
<1>1. n \in Numbers \ Range(BootOrder)
  <2>1. Free # {} /\ Free \in SUBSET Nat
    BY DEF AddLoadOptionVariable, Free
  <2>2. n \in Free
    BY <2>1, MinIsLeast
  <2> QED
    BY <2>2 DEF Free
<1>2. /\ BootOrder' = IF first THEN <<n>> \o BootOrder ELSE Append(BootOrder, n)
      /\ adding' = [num |-> n, opt |-> o, next |-> next]
      /\ UNCHANGED <<Boot, Key, console, loaded>>
  BY DEF AddLoadOptionVariable
<1> HIDE DEF n
<1>3. BootOrder \in Seq(Numbers) /\ IsInjective(BootOrder) /\ n \in Numbers
  BY <1>1 DEF TypeOK
<1>4. \E i \in 1 .. Len(BootOrder') :
        BootOrder' \in Seq(Numbers) /\ BootOrder'[i] = n /\ Omits(BootOrder, BootOrder', i)
  <2>1. CASE first
    BY <1>2, <1>3, <2>1, FirstOmits
  <2>2. CASE ~ first
    <3>1. BootOrder' = Append(BootOrder, n)
      BY <1>2, <2>2
    <3> QED
      BY <1>3, <3>1, AppendOmits, SMTT(30)
  <2> QED
    BY <2>1, <2>2
<1>5. /\ BootOrder' \in Seq(Numbers)
      /\ Range(BootOrder') = Range(BootOrder) \union {n}
      /\ \A j, k : j # n /\ k # n => (Precedes(BootOrder', j, k) <=> Precedes(BootOrder, j, k))
      /\ IsInjective(BootOrder')
  BY <1>1, <1>3, <1>4, OmitFacts
<1> QED
  BY <1>1, <1>2, <1>5

(* An option that is missing gets a number.                                *)
LEMMA AdditionKeeps ==
  ASSUME IInv, adding = None, NEW o \in Options, NEW first \in BOOLEAN, NEW next \in Steps,
         AddsAt(step, o, next), ~ FindLoadOption(o), AddLoadOptionVariable(o, first, next),
         UNCHANGED <<image, connected, step, text, missing>>,
         budget' \in [{"reset", "fault", "user"} -> Nat],
         todo' = todo \/ (step = "enumerate" /\ todo' \in Seq(AutoCreated))
  PROVE  IInv'
<1> DEFINE n == adding'.num
<1>1. /\ BootOrder' \in Seq(Numbers) /\ IsInjective(BootOrder')
      /\ adding' = [num |-> n, opt |-> o, next |-> next]
      /\ n \in Numbers \ Range(BootOrder)
      /\ Range(BootOrder') = Range(BootOrder) \union {n}
      /\ UNCHANGED <<Boot, Key, console, loaded>>
  <2>1. TypeOK /\ first \in BOOLEAN /\ AddLoadOptionVariable(o, first, next)
    BY DEF IInv
  <2>2. /\ BootOrder' \in Seq(Numbers) /\ IsInjective(BootOrder')
        /\ adding' = [num |-> adding'.num, opt |-> o, next |-> next]
        /\ adding'.num \in Numbers \ Range(BootOrder)
        /\ Range(BootOrder') = Range(BootOrder) \union {adding'.num}
        /\ UNCHANGED <<Boot, Key, console, loaded>>
    BY ONLY <2>1, NumberTaken, ZenonT(30)
  <2> QED
    BY ONLY <2>2
<1> HIDE DEF n
<1>2. adding' \in [num : Numbers, opt : Options, next : Steps] /\ adding' # None
  BY <1>1
<1>3. TypeOK'
  BY <1>1, <1>2 DEF IInv, TypeOK
<1>4. TodoInv'
  BY DEF IInv, TodoInv
<1>5. OwnInv'
  BY <1>1 DEF IInv, OwnInv
<1>6. AddInv'
  <2>1. Boot[n] \notin {UI, Menu}
    BY <1>1 DEF IInv, OwnInv
  <2>2. o \in {UI, Menu} => \A m \in Numbers : Boot[m] # o
    BY Found DEF IInv
  <2> QED
    BY <1>1, <2>1, <2>2 DEF AddInv
<1>7. VnorInv'
  <2>1. step # "vnor"
    BY DEF AddsAt
  <2> QED
    BY <1>1, <1>2, <2>1 DEF IInv, VnorInv, n
<1>8. ShellInv'
  <2>1. CASE step = "offer"
    <3>1. FindLoadOption(Shell) \/ Shell \in missing'
      BY <2>1 DEF IInv, ShellInv
    <3>2. \A m : m \in GetLoadOptions => m \in GetLoadOptions'
      BY <1>1 DEF GetLoadOptions
    <3> QED
      BY <1>1, <3>1, <3>2 DEF ShellInv, FindLoadOption, Listed
  <2>2. CASE step # "offer"
    BY <2>2 DEF ShellInv, AddsAt
  <2> QED
    BY <2>1, <2>2
<1>9. KeyInv' /\ BestModeIsSet'
  BY <1>1, KeysAlone, ModesAlone DEF IInv, TypeOK
<1> QED
  BY <1>3, <1>4, <1>5, <1>6, <1>7, <1>8, <1>9 DEF IInv

(* The UI and the shell.                                                   *)
LEMMA RegisterFvBootOptionKept ==
  ASSUME IInv, NEW here, NEW o \in Options, NEW next \in Steps,
         PlatformRegisterFvBootOption(here, o, next),
         \/ here = "ui" /\ o = UI /\ next = "menu"
         \/ here = "shell" /\ o = Shell /\ next = "mode"
  PROVE  IInv'
<1>1. /\ step = here /\ adding = None /\ UNCHANGED <<image, connected, todo, text>>
      /\ \/ FindLoadOption(o) /\ step' = next /\ UNCHANGED <<store, adding, missing, budget>>
         \/ /\ ~ FindLoadOption(o) /\ AddLoadOptionVariable(o, FALSE, next)
            /\ UNCHANGED <<step, missing, budget>>
         \/ /\ Spend("fault") /\ step' = next /\ missing' = missing \union {o}
            /\ UNCHANGED <<store, adding>>
  BY DEF PlatformRegisterFvBootOption
<1>2. AddsAt(step, o, next)
  BY <1>1 DEF AddsAt
<1>3. ASSUME step' = next, UNCHANGED <<store, adding>>, missing \subseteq missing',
             missing' \subseteq {UI, Shell}, FindLoadOption(o) \/ o \in missing',
             budget' \in [{"reset", "fault", "user"} -> Nat]
      PROVE  IInv'
  <2>1. TypeOK'
    BY <1>1, <1>3 DEF IInv, TypeOK, store
  <2>2. TodoInv'
    BY <1>1, <1>3 DEF TodoInv
  <2>3. OwnInv' /\ AddInv' /\ VnorInv' /\ ShellInv'
    BY <1>1, <1>3, OptionsAlone DEF UntilUi, UntilMenu, Late, store
  <2>4. KeyInv' /\ BestModeIsSet'
    BY <1>1, <1>3, KeysAlone, ModesAlone DEF UntilUi, UntilMenu, store
  <2> QED
    BY <2>1, <2>2, <2>3, <2>4 DEF IInv
<1>4. missing \subseteq {UI, Shell} /\ budget \in [{"reset", "fault", "user"} -> Nat] /\ TypeOK
  BY DEF IInv, TypeOK
<1>5. CASE FindLoadOption(o) /\ step' = next /\ UNCHANGED <<store, adding, missing, budget>>
  BY <1>3, <1>4, <1>5
<1>6. CASE /\ Spend("fault") /\ step' = next /\ missing' = missing \union {o}
           /\ UNCHANGED <<store, adding>>
  <2>1. budget' \in [{"reset", "fault", "user"} -> Nat]
    BY <1>4, <1>6, SpendType
  <2> QED
    BY <1>3, <1>4, <1>6, <2>1
<1>7. CASE /\ ~ FindLoadOption(o) /\ AddLoadOptionVariable(o, FALSE, next)
           /\ UNCHANGED <<step, missing, budget>>
  BY <1>1, <1>2, <1>4, <1>7, AdditionKeeps
<1> QED
  BY <1>1, <1>5, <1>6, <1>7

(* The menu, which becomes the first.                                      *)
LEMMA GetBootManagerMenuKept == IInv /\ GetBootManagerMenu => IInv'
<1> SUFFICES ASSUME IInv, GetBootManagerMenu  PROVE IInv'
  OBVIOUS
<1>1. /\ step = "menu" /\ adding = None /\ UNCHANGED <<image, connected, todo, text, missing, budget>>
      /\ \/ FindLoadOption(Menu) /\ step' = "f2" /\ UNCHANGED <<store, adding>>
         \/ ~ FindLoadOption(Menu) /\ AddLoadOptionVariable(Menu, TRUE, "f2") /\ UNCHANGED step
  BY DEF GetBootManagerMenu
<1>2. AddsAt(step, Menu, "f2")
  BY <1>1 DEF AddsAt
<1>3. CASE FindLoadOption(Menu) /\ step' = "f2" /\ UNCHANGED <<store, adding>>
  <2>1. TypeOK'
    BY <1>1, <1>3 DEF IInv, TypeOK, store
  <2>2. TodoInv'
    BY <1>1, <1>3 DEF TodoInv
  <2>3. OwnInv' /\ AddInv' /\ VnorInv' /\ ShellInv'
    BY <1>1, <1>3, OptionsAlone DEF UntilUi, UntilMenu, Late, store
  <2>4. KeyInv' /\ BestModeIsSet'
    BY <1>1, <1>3, KeysAlone, ModesAlone DEF UntilUi, UntilMenu, store
  <2> QED
    BY <2>1, <2>2, <2>3, <2>4 DEF IInv
<1>4. CASE ~ FindLoadOption(Menu) /\ AddLoadOptionVariable(Menu, TRUE, "f2") /\ UNCHANGED step
  BY <1>1, <1>2, <1>4, AdditionKeeps DEF IInv, TypeOK
<1> QED
  BY <1>1, <1>3, <1>4

(* An option of a device.                                                  *)
LEMMA EnumerateKept == IInv /\ Enumerate => IInv'
<1> SUFFICES ASSUME IInv, Enumerate  PROVE IInv'
  OBVIOUS
<1> DEFINE o == Head(todo)
<1>1. /\ step = "enumerate" /\ adding = None /\ todo # << >> /\ todo' = Tail(todo)
      /\ UNCHANGED <<image, connected, step, text, missing, budget>>
      /\ \/ FindLoadOption(o) /\ UNCHANGED <<store, adding>>
         \/ ~ FindLoadOption(o) /\ AddLoadOptionVariable(o, FALSE, "enumerate")
  BY DEF Enumerate
<1>2. o \in AutoCreated /\ o \in Options /\ Tail(todo) \in Seq(AutoCreated)
  BY <1>1, HeadTailProperties DEF IInv, TodoInv
<1> HIDE DEF o
<1>3. AddsAt(step, o, "enumerate")
  BY <1>1, <1>2 DEF AddsAt
<1>4. CASE FindLoadOption(o) /\ UNCHANGED <<store, adding>>
  <2>1. TypeOK'
    BY <1>1, <1>4 DEF IInv, TypeOK, store
  <2>2. TodoInv'
    BY <1>1, <1>2 DEF TodoInv
  <2>3. OwnInv' /\ AddInv' /\ VnorInv' /\ ShellInv'
    BY <1>1, <1>4, OptionsAlone DEF UntilUi, UntilMenu, Late, store
  <2>4. KeyInv' /\ BestModeIsSet'
    BY <1>1, <1>4, KeysAlone, ModesAlone DEF store
  <2> QED
    BY <2>1, <2>2, <2>3, <2>4 DEF IInv
<1>5. CASE ~ FindLoadOption(o) /\ AddLoadOptionVariable(o, FALSE, "enumerate")
  BY <1>1, <1>2, <1>3, <1>5, AdditionKeeps DEF IInv, TypeOK
<1> QED
  BY <1>1, <1>4, <1>5

(* An option of the user.                                                  *)
LEMMA UserAddsKept ==
  ASSUME IInv, NEW o \in UserOptions, UserAdds(o)
  PROVE  IInv'
<1>1. /\ step \in {"offer", "changed"} /\ adding = None /\ ~ FindLoadOption(o)
      /\ AddLoadOptionVariable(o, FALSE, "changed")
      /\ UNCHANGED <<image, connected, step, todo, text, missing>>
  BY DEF UserAdds, Offering
<1>2. budget' \in [{"reset", "fault", "user"} -> Nat]
  BY SpendType DEF UserAdds, IInv
<1>3. AddsAt(step, o, "changed") /\ o \in Options
  BY <1>1 DEF AddsAt
<1> QED
  BY <1>1, <1>2, <1>3, AdditionKeeps

(* The variable is written, and the option is there.                       *)
LEMMA StoreOptionKept == IInv /\ StoreOption => IInv'
<1> SUFFICES ASSUME IInv, StoreOption  PROVE IInv'
  OBVIOUS
<1> DEFINE n == adding.num
           o == adding.opt
<1>1. /\ adding # None /\ adding' = None /\ step' = adding.next
      /\ Boot' = [Boot EXCEPT ![n] = o]
      /\ UNCHANGED <<BootOrder, Key, console, loaded, image, connected, todo, text, missing, budget>>
  BY DEF StoreOption
<1>2. /\ n \in Numbers /\ o \in Options /\ n \in Range(BootOrder) /\ Boot[n] \notin {UI, Menu}
      /\ o \in {UI, Menu} => \A m \in Numbers : Boot[m] # o
      /\ AddsAt(step, o, step')
      /\ step' \in Steps
  BY <1>1 DEF IInv, AddInv, TypeOK
<1>3. /\ Boot \in [Numbers -> Options \union {None}] /\ o # None
      /\ Boot' \in [Numbers -> Options \union {None}]
      /\ Boot'[n] = o /\ \A m \in Numbers : m # n => Boot'[m] = Boot[m]
      /\ Range(BootOrder) \in SUBSET Numbers
  BY <1>1, <1>2, RangeOf DEF IInv, TypeOK
<1> HIDE DEF n, o
<1>4. TypeOK'
  BY <1>1, <1>2, <1>3 DEF IInv, TypeOK
<1>5. TodoInv'
  BY <1>1, <1>2 DEF IInv, TodoInv, AddsAt
<1>6. OwnInv'
  <2>1. \A p \in {UI, Menu}, m, k \in Numbers : Boot'[m] = p /\ Boot'[k] = p => m = k
    BY <1>2, <1>3 DEF IInv, OwnInv
  <2>2. \A k \in Numbers : Boot'[k] \in {UI, Menu} => k \in Range(BootOrder')
    BY <1>1, <1>2, <1>3 DEF IInv, OwnInv
  <2>3. \A p \in {UI, Menu} : (\E k \in Numbers : Boot[k] = p) => \E k \in Numbers : Boot'[k] = p
    BY <1>2, <1>3
  <2>4. step' \notin UntilUi => UI \in missing' \/ \E k \in Numbers : Boot'[k] = UI
    BY <1>1, <1>2, <1>3, <2>3 DEF IInv, OwnInv, AddsAt, UntilUi
  <2>5. step' \notin UntilMenu => \E k \in Numbers : Boot'[k] = Menu
    BY <1>2, <1>3, <2>3 DEF IInv, OwnInv, AddsAt, UntilMenu, UntilUi
  <2> QED
    BY <2>1, <2>2, <2>4, <2>5 DEF OwnInv
<1>7. AddInv'
  BY <1>1 DEF AddInv
<1>8. VnorInv'
  <2>1. step' # "vnor" /\ (step' \in Late => step \in {"shell", "offer", "changed"} /\ o \notin VnorOptions)
    BY <1>2 DEF AddsAt, Late
  <2>2. ASSUME NEW k \in Range(BootOrder), Boot'[k] \in VnorOptions, step' \in Late
        PROVE  FALSE
    <3>1. k # n /\ Boot[k] \in VnorOptions
      BY <1>3, <2>1, <2>2
    <3> QED
      BY <2>1, <2>2, <3>1 DEF IInv, VnorInv, n
  <2> QED
    BY <1>1, <2>1, <2>2 DEF VnorInv, Late
<1>9. ShellInv'
  <2> SUFFICES ASSUME step' \in {"mode", "offer"}  PROVE Listed(Shell)' # {}
    BY DEF ShellInv, FindLoadOption
  <2>1. o = Shell
    BY <1>2 DEF AddsAt
  <2>2. n \in Range(BootOrder') /\ Boot'[n] = Shell /\ Shell # None
    BY <1>1, <1>2, <1>3, <2>1
  <2> QED
    BY <2>2 DEF Listed, GetLoadOptions
<1>10. KeyInv'
  <2>1. \A k \in Valid : k \in {0, 1} => k \in Valid'
    <3>1. \A k \in {0, 1} : k \in KeyNumbers /\ (Key[k] # None => Key[k].opt = Menu /\ Key[k].num \in Numbers)
      BY DEF IInv, KeyInv, KeyPlaces, Made
    <3>2. \A k \in Valid : k \in {0, 1} => Key[k].num # n
      BY <1>2, <3>1 DEF Valid
    <3> QED
      BY <1>1, <1>3, <3>1, <3>2 DEF Valid
  <2>2. /\ step' \notin UntilMenu \union {"f2"} => step \notin UntilMenu \union {"f2"}
        /\ step' \notin UntilMenu \union {"f2", "esc"} => step \notin UntilMenu \union {"f2", "esc"}
    BY <1>2 DEF AddsAt, UntilMenu, UntilUi
  <2>3. KeyPlaces(Key') /\ KeyPlaces(image')
    BY <1>1 DEF IInv, KeyInv
  <2> QED
    BY <2>1, <2>2, <2>3 DEF IInv, KeyInv
<1>11. BestModeIsSet'
  BY <1>1, ModesAlone
<1> QED
  BY <1>4, <1>5, <1>6, <1>7, <1>8, <1>9, <1>10, <1>11 DEF IInv

-----------------------------------------------------------------------------
(* Options that are taken out, and the user's order.                       *)

(* The number n goes, the order of the others is kept.                     *)
LEMMA NumberGone ==
  ASSUME TypeOK, NEW n, DeleteLoadOptionVariable(n)
  PROVE  /\ BootOrder' \in Seq(Numbers) /\ IsInjective(BootOrder')
         /\ Range(BootOrder') = Range(BootOrder) \ {n}
         /\ \A m, k : m # n /\ k # n => (Precedes(BootOrder', m, k) <=> Precedes(BootOrder, m, k))
<1>0. BootOrder \in Seq(Numbers) /\ IsInjective(BootOrder) /\ DOMAIN BootOrder = 1 .. Len(BootOrder)
  BY LenProperties DEF TypeOK
<1>1. CASE n \in Range(BootOrder)
  <2>1. PICK i \in 1 .. Len(BootOrder) : BootOrder[i] = n /\ BootOrder' = RemoveAt(BootOrder, i)
    BY <1>0, <1>1 DEF DeleteLoadOptionVariable
  <2>2. BootOrder' \in Seq(Numbers) /\ Omits(BootOrder', BootOrder, i)
    BY <1>0, <2>1, RemoveAtOmits
  <2>3. /\ Range(BootOrder) = Range(BootOrder') \union {n}
        /\ \A m, k : m # n /\ k # n => (Precedes(BootOrder, m, k) <=> Precedes(BootOrder', m, k))
        /\ IsInjective(BootOrder') /\ n \notin Range(BootOrder')
    <3>1. BootOrder \in Seq(Numbers) /\ i \in 1 .. Len(BootOrder)
      BY <1>0
    <3>2. /\ Range(BootOrder) = Range(BootOrder') \union {BootOrder[i]}
          /\ \A m, k : m # BootOrder[i] /\ k # BootOrder[i] =>
               (Precedes(BootOrder, m, k) <=> Precedes(BootOrder', m, k))
          /\ IsInjective(BootOrder) <=> IsInjective(BootOrder') /\ BootOrder[i] \notin Range(BootOrder')
      BY ONLY <2>2, <3>1, OmitFacts, Zenon
    <3>3. BootOrder[i] = n
      BY <2>1
    <3> QED
      BY ONLY <1>0, <3>2, <3>3, Zenon
  <2> QED
    BY <2>2, <2>3
<1>2. CASE n \notin Range(BootOrder)
  <2>1. BootOrder' = BootOrder
    BY <1>2 DEF DeleteLoadOptionVariable
  <2> QED
    BY <1>0, <1>2, <2>1
<1> QED
  BY <1>1, <1>2

(* Numbers only ever leave: neither the UI's nor the menu's.               *)
LEMMA RemovalKeeps ==
  ASSUME IInv, NEW n, Boot[n] \notin {UI, Menu}, adding = None,
         BootOrder' \in Seq(Numbers), IsInjective(BootOrder'),
         Range(BootOrder') \in SUBSET Range(BootOrder),
         Range(BootOrder) \in SUBSET (Range(BootOrder') \union {n}),
         UNCHANGED <<Boot, Key, console, loaded, image, connected, adding, text, missing>>,
         budget' \in [{"reset", "fault", "user"} -> Nat],
         \/ step \in {"withdraw", "vnor"} /\ step' = step
         \/ step \in {"offer", "changed"} /\ step' = "changed",
         todo' = todo \/ (step = "vnor" /\ todo' \in Seq(Numbers)),
         step = "vnor" => Range(todo) \in SUBSET (Range(todo') \union {n}),
         step = "vnor" => n \notin Range(BootOrder') \/ Boot[n] \notin VnorOptions
  PROVE  IInv'
<1>1. TypeOK'
  BY DEF IInv, TypeOK
<1>2. TodoInv'
  BY DEF IInv, TodoInv
<1>3. OwnInv'
  <2>1. \A m \in Numbers : Boot[m] \in {UI, Menu} => m \in Range(BootOrder')
    BY DEF IInv, OwnInv
  <2>2. /\ step' \notin UntilUi => step \notin UntilUi
        /\ step' \notin UntilMenu => step \notin UntilMenu
    BY DEF UntilUi, UntilMenu
  <2>3. OwnInv
    BY DEF IInv
  <2> QED
    BY <2>1, <2>2, <2>3 DEF OwnInv
<1>4. AddInv'
  BY DEF AddInv
<1>5. VnorInv'
  <2>1. ASSUME NEW m \in Range(BootOrder'), Boot[m] \in VnorOptions
        PROVE  (step = "vnor" => m \in Range(todo')) /\ step' \notin Late
    BY <2>1 DEF IInv, VnorInv, Late
  <2> QED
    BY <2>1 DEF VnorInv, Late
<1>6. ShellInv'
  BY DEF ShellInv
<1>7. KeyInv' /\ BestModeIsSet'
  BY <1>1, KeysAlone, ModesAlone DEF TypeOK, UntilMenu, UntilUi
<1> QED
  BY <1>1, <1>2, <1>3, <1>4, <1>5, <1>6, <1>7 DEF IInv

(* What BDS and the user delete is neither the UI nor the menu.            *)
LEMMA Numbered ==
  ASSUME TypeOK
  PROVE  /\ GetLoadOptions \in SUBSET Range(BootOrder) /\ Range(BootOrder) \in SUBSET Numbers
         /\ UI \notin AutoCreated \union {None} /\ Menu \notin AutoCreated \union {None}
         /\ Shell \notin AutoCreated
BY RangeOf DEF TypeOK, GetLoadOptions

(* Options of devices that are gone.                                       *)
LEMMA WithdrawKept == IInv /\ Withdraw => IInv'
<1> SUFFICES ASSUME IInv, Withdraw  PROVE IInv'
  OBVIOUS
<1>0. TypeOK
  BY DEF IInv
<1>1. /\ step = "withdraw"
      /\ UNCHANGED <<Boot, Key, console, loaded, image, connected, todo, adding, text, missing, budget>>
  BY DEF Withdraw
<1>2. adding = None
  BY <1>1 DEF IInv, AddInv, AddsAt
<1>3. ASSUME NEW n \in GetLoadOptions, Boot[n] \in AutoCreated,
             DeleteLoadOptionVariable(n), UNCHANGED step
      PROVE  IInv'
  <2>1. /\ BootOrder' \in Seq(Numbers) /\ IsInjective(BootOrder')
        /\ Range(BootOrder') = Range(BootOrder) \ {n}
    BY <1>0, <1>3, NumberGone, Zenon
  <2>2. Boot[n] \notin {UI, Menu}
    BY <1>0, <1>3, Numbered
  <2>3. budget' \in [{"reset", "fault", "user"} -> Nat]
    BY <1>0, <1>1 DEF TypeOK
  <2> QED
    BY <1>1, <1>2, <1>3, <2>1, <2>2, <2>3, RemovalKeeps
<1>4. ASSUME step' = "enumerate", UNCHANGED BootOrder
      PROVE  IInv'
  <2>1. TypeOK'
    BY <1>0, <1>1, <1>4 DEF TypeOK
  <2>2. TodoInv'
    BY <1>1, <1>4 DEF IInv, TodoInv
  <2>3. OwnInv' /\ AddInv' /\ VnorInv' /\ ShellInv'
    BY <1>1, <1>2, <1>4, OptionsAlone DEF Late, UntilUi, UntilMenu
  <2>4. KeyInv' /\ BestModeIsSet'
    BY <1>1, <1>4, KeysAlone, ModesAlone DEF UntilUi, UntilMenu
  <2> QED
    BY <2>1, <2>2, <2>3, <2>4 DEF IInv
<1> QED
  BY <1>3, <1>4 DEF Withdraw

(* The VNOR device's options: those not yet looked at are on the list.     *)
LEMMA RemoveVNOROptionKept == IInv /\ PlatformRemoveVNOROption => IInv'
<1> SUFFICES ASSUME IInv, PlatformRemoveVNOROption  PROVE IInv'
  OBVIOUS
<1>0. TypeOK
  BY DEF IInv
<1> DEFINE n == Head(todo)
<1>1. /\ step = "vnor" /\ todo # << >> /\ todo' = Tail(todo)
      /\ IF Boot[n] \in VnorOptions THEN DeleteLoadOptionVariable(n) ELSE UNCHANGED BootOrder
      /\ UNCHANGED <<Boot, Key, console, loaded, image, connected, step, adding, text, missing, budget>>
  BY DEF PlatformRemoveVNOROption
<1>2. adding = None
  BY <1>1 DEF IInv, AddInv, AddsAt
<1>3. /\ Tail(todo) \in Seq(Numbers) /\ n \in Numbers
      /\ Range(todo) = {n} \union Range(Tail(todo))
  <2>1. todo \in Seq(Numbers)
    BY <1>1 DEF IInv, TodoInv
  <2> QED
    BY <1>1, <2>1, RangeOf
<1> HIDE DEF n
<1>4. budget' \in [{"reset", "fault", "user"} -> Nat]
  BY <1>0, <1>1 DEF TypeOK
<1>5. CASE Boot[n] \in VnorOptions
  <2>1. /\ BootOrder' \in Seq(Numbers) /\ IsInjective(BootOrder')
        /\ Range(BootOrder') = Range(BootOrder) \ {n}
    <3>1. DeleteLoadOptionVariable(n)
      BY <1>1, <1>5
    <3> QED
      BY <1>0, <3>1, NumberGone, Zenon
  <2>2. Boot[n] \notin {UI, Menu}
    BY <1>0, <1>5, Numbered
  <2> QED
    BY <1>1, <1>2, <1>3, <1>4, <2>1, <2>2, RemovalKeeps
<1>6. CASE Boot[n] \notin VnorOptions
  <2>1. BootOrder' = BootOrder
    BY <1>1, <1>6
  <2>2. TypeOK'
    BY <1>0, <1>1, <2>1 DEF TypeOK
  <2>3. TodoInv'
    BY <1>1, <1>3 DEF TodoInv
  <2>4. OwnInv' /\ AddInv' /\ ShellInv'
    BY <1>1, <1>2, <2>1 DEF IInv, OwnInv, AddInv, ShellInv
  <2>5. VnorInv'
    BY <1>1, <1>3, <1>6, <2>1 DEF IInv, VnorInv
  <2>6. KeyInv' /\ BestModeIsSet'
    BY <1>1, <2>2, KeysAlone, ModesAlone DEF TypeOK
  <2> QED
    BY <2>2, <2>3, <2>4, <2>5, <2>6 DEF IInv
<1> QED
  BY <1>5, <1>6

(* The user does not delete the UI or the menu.                            *)
LEMMA UserDeletesKept ==
  ASSUME IInv, NEW n, UserDeletes(n)
  PROVE  IInv'
<1>0. TypeOK
  BY DEF IInv
<1>1. /\ step \in {"offer", "changed"} /\ adding = None /\ Spend("user")
      /\ Boot[n] \notin {UI, Menu} /\ DeleteLoadOptionVariable(n) /\ step' = "changed"
      /\ UNCHANGED <<Boot, Key, console, loaded, image, connected, todo, adding, text, missing>>
  BY DEF UserDeletes, Offering
<1>2. /\ BootOrder' \in Seq(Numbers) /\ IsInjective(BootOrder')
      /\ Range(BootOrder') = Range(BootOrder) \ {n}
  BY <1>0, <1>1, NumberGone, Zenon
<1>3. budget' \in [{"reset", "fault", "user"} -> Nat]
  BY <1>0, <1>1, SpendType
<1> QED
  BY <1>1, <1>2, <1>3, RemovalKeeps

(* A change of the order keeps the numbers.                                *)
LEMMA UserPutsFirstKept ==
  ASSUME IInv, NEW n, UserPutsFirst(n)
  PROVE  IInv'
<1>0. TypeOK /\ DOMAIN BootOrder = 1 .. Len(BootOrder)
  BY LenProperties DEF IInv, TypeOK
<1>1. /\ step \in {"offer", "changed"} /\ adding = None /\ Spend("user") /\ step' = "changed"
      /\ UNCHANGED <<Boot, Key, console, loaded, image, connected, todo, adding, text, missing>>
  BY DEF UserPutsFirst, Offering
<1>2. PICK i \in 1 .. Len(BootOrder) :
        BootOrder[i] = n /\ BootOrder' = <<n>> \o RemoveAt(BootOrder, i)
  BY <1>0 DEF UserPutsFirst
<1> DEFINE rest == RemoveAt(BootOrder, i)
<1>3. rest \in Seq(Numbers) /\ Omits(rest, BootOrder, i)
  BY <1>0, <1>2, RemoveAtOmits DEF TypeOK
<1>4. /\ Range(BootOrder) = Range(rest) \union {n}
      /\ IsInjective(rest) /\ n \notin Range(rest)
  BY <1>0, <1>2, <1>3, OmitFacts, SMTT(30) DEF TypeOK
<1>5. n \in Numbers
  BY <1>0, <1>2, ElementOfSeq DEF TypeOK
<1>6. /\ BootOrder' \in Seq(Numbers) /\ 1 \in 1 .. Len(BootOrder')
      /\ BootOrder'[1] = n /\ Omits(rest, BootOrder', 1)
  BY <1>2, <1>3, <1>5, FirstOmits
<1>7. Range(BootOrder') = Range(rest) \union {n} /\ IsInjective(BootOrder')
  BY <1>3, <1>4, <1>6, OmitFacts
<1> HIDE DEF rest
<1>8. Range(BootOrder') = Range(BootOrder)
  BY <1>4, <1>7
<1>9. budget' \in [{"reset", "fault", "user"} -> Nat]
  BY <1>0, <1>1, SpendType
<1>11. TypeOK'
  BY <1>0, <1>1, <1>6, <1>7, <1>9 DEF TypeOK
<1>12. TodoInv' /\ AddInv' /\ ShellInv'
  BY <1>1 DEF TodoInv, AddInv, ShellInv
<1>13. OwnInv'
  BY <1>1, <1>8 DEF IInv, OwnInv, UntilUi, UntilMenu
<1>14. VnorInv'
  BY <1>1, <1>8 DEF IInv, VnorInv
<1>15. KeyInv' /\ BestModeIsSet'
  BY <1>1, KeysAlone, ModesAlone DEF UntilUi, UntilMenu
<1> QED
  BY <1>11, <1>12, <1>13, <1>14, <1>15 DEF IInv

(* A reset keeps the store or empties it; nothing is being added then.     *)
LEMMA ResetKept == IInv /\ Reset => IInv'
<1> SUFFICES ASSUME IInv, Reset  PROVE IInv'
  OBVIOUS
<1>1. /\ step' = "connect" /\ connected' = FALSE /\ todo' = << >> /\ adding' = None
      /\ text' = NoText /\ missing' = {} /\ image' = image /\ Spend("reset")
  BY DEF Reset
<1>2. budget' \in [{"reset", "fault", "user"} -> Nat]
  BY <1>1, SpendType DEF IInv
<1>3. text'.mode = 0 /\ text'.modes = << >>
  BY <1>1 DEF NoText
<1>4. TodoInv' /\ AddInv' /\ ShellInv' /\ VnorInv'
  BY <1>1 DEF TodoInv, AddInv, ShellInv, VnorInv
<1>5. BestModeIsSet'
  BY <1>3 DEF BestModeIsSet
<1>6. CASE UNCHANGED store
  <2>1. UNCHANGED <<BootOrder, Boot, Key, console, loaded>>
    BY <1>6 DEF store
  <2>2. TypeOK'
    BY <1>1, <1>2, <1>3, <2>1 DEF IInv, TypeOK
  <2>3. OwnInv' /\ KeyInv'
    BY <1>1, <2>1 DEF IInv, OwnInv, KeyInv, UntilUi, UntilMenu
  <2> QED
    BY <1>4, <1>5, <2>2, <2>3 DEF IInv
<1>7. CASE /\ BootOrder' = << >> /\ Boot' = [n \in Numbers |-> None] /\ Key' = NoKeys
           /\ console' = [v \in Consoles |-> {}] /\ loaded' = FALSE
  <2>1. BootOrder' \in Seq(Numbers) /\ IsInjective(BootOrder')
    BY <1>7 DEF IsInjective
  <2>2. Key' \in KeySets /\ KeyPlaces(Key')
    BY <1>7, KeysMerged DEF IInv, TypeOK, KeySets, KeyInv
  <2>3. TypeOK'
    BY <1>1, <1>2, <1>3, <1>7, <2>1, <2>2 DEF IInv, TypeOK, KeySets
  <2>4. OwnInv'
    BY <1>1, <1>7 DEF OwnInv, UntilUi, UntilMenu
  <2>5. KeyInv'
    BY <1>1, <2>2 DEF IInv, KeyInv, UntilUi, UntilMenu
  <2> QED
    BY <1>4, <1>5, <2>3, <2>4, <2>5 DEF IInv
<1> QED
  BY <1>6, <1>7 DEF Reset

-----------------------------------------------------------------------------
(* The theorems.                                                           *)

(* The first boot, with an empty store.                                    *)
LEMMA InitInv == Init => IInv
<1> SUFFICES ASSUME Init  PROVE IInv
  OBVIOUS
<1>1. BootOrder \in Seq(Numbers) /\ IsInjective(BootOrder) /\ Range(BootOrder) = {}
  BY RangeOf, EmptySeq DEF Init, IsInjective
<1>2. NoKeys \in KeySets /\ KeyPlaces(NoKeys)
  BY DEF KeySets, KeyPlaces, NoKeys, Made
<1>3. TypeOK
  BY <1>1, <1>2, BoundAssumption DEF Init, TypeOK, KeySets, NoText
<1>4. TodoInv /\ AddInv /\ ShellInv /\ BestModeIsSet
  BY DEF Init, TodoInv, AddInv, ShellInv, BestModeIsSet, NoText
<1>5. OwnInv /\ VnorInv
  BY <1>1 DEF Init, OwnInv, VnorInv, UntilUi, UntilMenu
<1>6. KeyInv
  BY <1>2 DEF Init, KeyInv, UntilUi, UntilMenu
<1> QED
  BY <1>3, <1>4, <1>5, <1>6 DEF IInv

(* Nothing happens.                                                        *)
LEMMA StutterInv == IInv /\ UNCHANGED vars => IInv'
<1> SUFFICES ASSUME IInv, UNCHANGED vars  PROVE IInv'
  OBVIOUS
<1>1. UNCHANGED <<BootOrder, Boot, Key, console, loaded, image, connected, step, todo, adding,
                  text, missing, budget>>
  BY DEF vars, store
<1>2. TypeOK' /\ TodoInv'
  BY <1>1 DEF IInv, TypeOK, TodoInv
<1>3. step' \in Steps
  BY <1>1 DEF IInv, TypeOK
<1>4. OwnInv' /\ AddInv' /\ VnorInv' /\ ShellInv'
  BY <1>1, <1>3, OptionsAlone
<1>5. KeyInv' /\ BestModeIsSet'
  BY <1>1, <1>3, KeysAlone, ModesAlone
<1> QED
  BY <1>2, <1>4, <1>5 DEF IInv

(* Every step keeps the invariant,                                         *)
LEMMA NextInv == IInv /\ [Next]_vars => IInv'
<1> SUFFICES ASSUME IInv, [Next]_vars  PROVE IInv'
  OBVIOUS
<1>1. CASE PlatformBootManagerBeforeConsole
  <2>1. CASE PlatformRegisterFvBootOption("ui", UI, "menu")
    BY <2>1, RegisterFvBootOptionKept
  <2>2. CASE PlatformRegisterOptionsAndKeys
    BY <2>2, GetBootManagerMenuKept, PlatformRegisterKeyKept
       DEF PlatformRegisterOptionsAndKeys
  <2> QED
    BY <1>1, <2>1, <2>2, ConnectDisplaysKept, AddOutputKept, FilterAndProcessKept,
       AddFixedConsolesKept, VisitingBlockIoInstanceKept, VisitAllInstancesOfProtocolKept
       DEF PlatformBootManagerBeforeConsole
<1>2. CASE PlatformBootManagerAfterConsole
  <2>1. CASE PlatformRegisterFvBootOption("shell", Shell, "mode")
    BY <2>1, RegisterFvBootOptionKept
  <2> QED
    BY <1>2, <2>1, RefreshAllBootOptionKept, WithdrawKept, EnumerateKept,
       LoadOptionsForRemovalKept, RemoveVNOROptionKept, NoneLeftToRemoveKept,
       ConsoleSetBestModeKept DEF PlatformBootManagerAfterConsole
<1>3. CASE User
  BY <1>3, UserAddsKept, UserDeletesKept, UserPutsFirstKept DEF User
<1> QED
  BY <1>1, <1>2, <1>3, StoreOptionKept, CallbackKept, ResetKept, StutterInv DEF Next

(* so it always holds.                                                     *)
LEMMA Invariance == Spec => []IInv
BY InitInv, NextInv, PTL DEF Spec

(* No number is twice in BootOrder, every key is one this code made, and   *)
(* a display in ErrOut is in ConOut.                                       *)
THEOREM TypeCorrect == Spec => []TypeOK
<1>1. IInv => TypeOK
  BY DEF IInv
<1> QED
  BY <1>1, Invariance, PTL

(* Whatever resets and failed writes left behind, what is offered has      *)
(* nothing of the VNOR device, the UI and the menu once, the shell until   *)
(* the user deletes it (UI and shell unless this boot failed to add them), *)
(* keys that lead to the menu, the largest mode.                           *)
THEOREM Settled == Spec => []OffersSettled
<1>1. ASSUME IInv, Offering
      PROVE  /\ VnorGone /\ OwnOnce /\ KeysReachMenu /\ BestModeIsSet
             /\ step = "offer" => FindLoadOption(Shell) \/ Shell \in missing
  <2>0. /\ step \in {"offer", "changed"} /\ adding = None /\ TypeOK /\ OwnInv
        /\ step \notin UntilUi /\ step \notin UntilMenu
        /\ step \notin UntilMenu \union {"f2"} /\ step \notin UntilMenu \union {"f2", "esc"}
    BY <1>1 DEF IInv, Offering, UntilUi, UntilMenu
  <2>1. VnorGone
    <3>1. ASSUME NEW o \in VnorOptions
          PROVE  ~ FindLoadOption(o)
      <4>1. FindLoadOption(o) => \E n \in Range(BootOrder) : Boot[n] = o
        BY DEF FindLoadOption, Listed, GetLoadOptions
      <4>2. \A n \in Range(BootOrder) : Boot[n] # o
        BY <1>1, <2>0 DEF IInv, VnorInv
      <4> QED
        BY <4>1, <4>2
    <3> QED
      BY <3>1 DEF VnorGone
  <2>2. OwnOnce
    <3>1. ASSUME NEW o \in {UI, Menu}
          PROVE  Cardinality(Listed(o)) = 1 \/ (o \in missing /\ Listed(o) = {})
      <4>0. SUFFICES ASSUME ~ (o \in missing /\ Listed(o) = {})
                     PROVE  Cardinality(Listed(o)) = 1
        OBVIOUS
      <4>1. PICK n \in Numbers : Boot[n] = o
        <5>1. Listed(o) # {} => \E n \in Numbers : Boot[n] = o
          BY <2>0, Found DEF Options
        <5> QED
          BY <2>0, <4>0, <5>1 DEF OwnInv
      <4>2. \A m \in Numbers : Boot[m] = o => m = n
        BY <2>0, <4>1 DEF OwnInv
      <4>3. n \in Range(BootOrder)
        BY <2>0, <4>1 DEF OwnInv
      <4>4. o \in Options
        OBVIOUS
      <4>5. Listed(o) = {m \in Range(BootOrder) : Boot[m] = o} /\ Listed(o) \in SUBSET Numbers
        BY <2>0, <4>4, Found
      <4>6. Listed(o) = {n}
        BY <4>1, <4>2, <4>3, <4>5
      <4> QED
        BY <4>6, FS_Singleton
    <3> QED
      BY <3>1 DEF OwnOnce
  <2>3. KeysReachMenu
    <3>1. 0 \in Valid /\ 1 \in Valid /\ KeyPlaces(Key)
      BY <1>1, <2>0 DEF IInv, KeyInv
    <3>2. Key[0].key = F2 /\ Key[1].key = Esc
      BY <3>1 DEF Valid, KeyPlaces, Made
    <3>3. \A k \in Valid : Key[k].opt = Menu
      BY <3>1 DEF Valid, KeyPlaces, Made
    <3> QED
      BY <3>1, <3>2, <3>3 DEF KeysReachMenu
  <2>4. BestModeIsSet /\ (step = "offer" => FindLoadOption(Shell) \/ Shell \in missing)
    BY <1>1 DEF IInv, ShellInv
  <2> QED
    BY <2>1, <2>2, <2>3, <2>4
<1>2. IInv => OffersSettled
  BY <1>1 DEF OffersSettled
<1> QED
  BY <1>2, Invariance, PTL

-----------------------------------------------------------------------------
(* What the user chose.                                                    *)

(* Same options under the same numbers in the same order.                  *)
LEMMA SameChoice ==
  ASSUME OfUser' = OfUser, \A n \in OfUser : Boot'[n] = Boot[n],
         \A m, n \in OfUser : Precedes(BootOrder', m, n) <=> Precedes(BootOrder, m, n)
  PROVE  Chosen' = Chosen
<1>1. [n \in OfUser' |-> Boot'[n]] = [n \in OfUser |-> Boot[n]]
  OBVIOUS
<1>2. \A p \in OfUser \X OfUser :
        Precedes(BootOrder', p[1], p[2]) <=> Precedes(BootOrder, p[1], p[2])
  OBVIOUS
<1>3. {p \in OfUser' \X OfUser' : Precedes(BootOrder', p[1], p[2])}
        = {p \in OfUser \X OfUser : Precedes(BootOrder, p[1], p[2])}
  BY <1>2
<1> QED
  BY <1>1, <1>3 DEF Chosen

(* A step that leaves the options alone.                                   *)
LEMMA ChoiceAlone ==
  ASSUME UNCHANGED <<BootOrder, Boot, adding>>
  PROVE  Chosen' = Chosen
<1>1. OfUser' = OfUser
  BY DEF OfUser
<1> QED
  BY <1>1, SameChoice

(* An option that is added has a number of its own, and until it is stored *)
(* it does not count.                                                      *)
LEMMA ChoiceAddition ==
  ASSUME TypeOK, adding = None, NEW o \in Options, NEW first \in BOOLEAN, NEW next \in Steps,
         AddLoadOptionVariable(o, first, next)
  PROVE  Chosen' = Chosen
<1> DEFINE n == adding'.num
<1>1. /\ adding' = [num |-> n, opt |-> o, next |-> next]
      /\ n \in Numbers \ Range(BootOrder)
      /\ Range(BootOrder') = Range(BootOrder) \union {n}
      /\ \A m, k : m # n /\ k # n => (Precedes(BootOrder', m, k) <=> Precedes(BootOrder, m, k))
      /\ UNCHANGED Boot
  BY NumberTaken, ZenonT(40)
<1> HIDE DEF n
<1>2. adding' # None
  BY <1>1
<1>3. OfUser' = OfUser /\ n \notin OfUser
  BY <1>1, <1>2 DEF OfUser, n
<1> QED
  BY <1>1, <1>3, SameChoice

(* What BDS takes out is not of the user.                                  *)
LEMMA ChoiceRemoval ==
  ASSUME TypeOK, NEW n, Boot[n] \notin UserOptions, DeleteLoadOptionVariable(n),
         UNCHANGED <<Boot, adding>>
  PROVE  Chosen' = Chosen
<1>1. /\ Range(BootOrder') = Range(BootOrder) \ {n}
      /\ \A m, k : m # n /\ k # n => (Precedes(BootOrder', m, k) <=> Precedes(BootOrder, m, k))
  BY ONLY TypeOK, DeleteLoadOptionVariable(n), NumberGone, Zenon
<1>2. OfUser' = OfUser /\ n \notin OfUser
  BY <1>1 DEF OfUser
<1> QED
  BY <1>1, <1>2, SameChoice

(* What BDS stores is not of the user.                                     *)
LEMMA ChoiceStored ==
  ASSUME IInv, step \notin {"offer", "changed"}, StoreOption
  PROVE  Chosen' = Chosen
<1> DEFINE n == adding.num
<1>1. /\ adding # None /\ adding' = None /\ BootOrder' = BootOrder
      /\ Boot' = [Boot EXCEPT ![n] = adding.opt]
      /\ Boot \in [Numbers -> Options \union {None}] /\ Range(BootOrder) \in SUBSET Numbers
  BY RangeOf DEF StoreOption, IInv, TypeOK
<1>2. adding.opt \notin UserOptions /\ n \in Numbers
  BY <1>1 DEF IInv, AddInv, AddsAt, TypeOK
<1>3. Boot'[n] = adding.opt /\ \A m \in Numbers : m # n => Boot'[m] = Boot[m]
  BY <1>1, <1>2
<1>4. OfUser' = OfUser /\ \A m \in OfUser : Boot'[m] = Boot[m]
  <2>1. OfUser = {m \in Range(BootOrder) : Boot[m] \in UserOptions /\ n # m}
    BY <1>1 DEF OfUser
  <2>2. OfUser' = {m \in Range(BootOrder) : Boot'[m] \in UserOptions}
    BY <1>1 DEF OfUser
  <2> QED
    BY <1>1, <1>2, <1>3, <2>1, <2>2
<1> QED
  BY <1>1, <1>4, SameChoice

(* No step of BDS before the offer changes the choice.                     *)
LEMMA ChoiceKept ==
  ASSUME IInv, Next, step \notin {"offer", "changed"}, step' # "connect"
  PROVE  Chosen' = Chosen
<1>0. TypeOK /\ (\A n : Boot[n] \in AutoCreated => Boot[n] \notin UserOptions)
  BY DEF IInv
<1>1. CASE PlatformBootManagerBeforeConsole
  <2>1. CASE ConnectDisplays \/ FilterAndProcess \/ VisitAllInstancesOfProtocol
    BY <2>1, ChoiceAlone DEF ConnectDisplays, FilterAndProcess,
       VisitAllInstancesOfProtocol, store
  <2>2. CASE AddOutput \/ AddFixedConsoles \/ VisitingBlockIoInstance
    BY <2>2, ChoiceAlone DEF AddOutput, AddFixedConsoles, VisitingBlockIoInstance
  <2>3. CASE PlatformRegisterFvBootOption("ui", UI, "menu")
    BY <1>0, <2>3, ChoiceAlone, ChoiceAddition DEF PlatformRegisterFvBootOption, store
  <2>4. CASE GetBootManagerMenu
    BY <1>0, <2>4, ChoiceAlone, ChoiceAddition DEF GetBootManagerMenu, store
  <2>5. CASE PlatformRegisterKey("f2", F2, "esc") \/ PlatformRegisterKey("esc", Esc, "refresh")
    <3>1. UNCHANGED <<BootOrder, Boot, adding>>
      BY <2>5 DEF PlatformRegisterKey
    <3> QED
      BY <3>1, ChoiceAlone
  <2> QED
    BY <1>1, <2>1, <2>2, <2>3, <2>4, <2>5
       DEF PlatformBootManagerBeforeConsole, PlatformRegisterOptionsAndKeys
<1>2. CASE PlatformBootManagerAfterConsole
  <2>1. CASE RefreshAllBootOption \/ LoadOptionsForRemoval \/ NoneLeftToRemove \/ ConsoleSetBestMode
    <3>1. UNCHANGED <<BootOrder, Boot, adding>>
      BY <2>1 DEF RefreshAllBootOption, LoadOptionsForRemoval, NoneLeftToRemove,
         ConsoleSetBestMode,
                  store
    <3> QED
      BY <3>1, ChoiceAlone
  <2>2. CASE Withdraw
    <3>1. UNCHANGED <<Boot, adding>>
      BY <2>2 DEF Withdraw
    <3>2. \/ UNCHANGED BootOrder
          \/ \E n : Boot[n] \in AutoCreated /\ DeleteLoadOptionVariable(n)
      BY <2>2 DEF Withdraw
    <3> QED
      BY <1>0, <3>1, <3>2, ChoiceAlone, ChoiceRemoval
  <2>3. CASE Enumerate
    <3>1. /\ step = "enumerate" /\ adding = None /\ todo # << >> /\ UNCHANGED step
          /\ \/ UNCHANGED <<store, adding>>
             \/ AddLoadOptionVariable(Head(todo), FALSE, "enumerate")
      BY <2>3 DEF Enumerate
    <3>2. Head(todo) \in Options
      BY <3>1, HeadTailProperties DEF IInv, TodoInv
    <3>3. CASE UNCHANGED <<store, adding>>
      BY <3>3, ChoiceAlone DEF store
    <3> QED
      BY <1>0, <3>1, <3>2, <3>3, ChoiceAddition
  <2>4. CASE PlatformRemoveVNOROption
    <3>1. UNCHANGED <<Boot, adding>>
      BY <2>4 DEF PlatformRemoveVNOROption
    <3>2. \/ UNCHANGED BootOrder
          \/ Boot[Head(todo)] \in AutoCreated /\ DeleteLoadOptionVariable(Head(todo))
      BY <2>4 DEF PlatformRemoveVNOROption
    <3> QED
      BY <1>0, <3>1, <3>2, ChoiceAlone, ChoiceRemoval
  <2>5. CASE PlatformRegisterFvBootOption("shell", Shell, "mode")
    BY <1>0, <2>5, ChoiceAlone, ChoiceAddition DEF PlatformRegisterFvBootOption, store
  <2> QED
    BY <1>2, <2>1, <2>2, <2>3, <2>4, <2>5 DEF PlatformBootManagerAfterConsole
<1>3. CASE StoreOption
  BY <1>3, ChoiceStored
<1>4. CASE EmuVariablesUpdatedCallback
  BY <1>4, ChoiceAlone DEF EmuVariablesUpdatedCallback, store
<1>5. ~ User /\ ~ Reset
  <2>1. ASSUME NEW n
        PROVE  ~ UserDeletes(n) /\ ~ UserPutsFirst(n) /\ ~ UserAdds(n)
    BY DEF UserDeletes, UserPutsFirst, UserAdds, Offering
  <2> QED
    BY <2>1 DEF User, Reset
<1> QED
  BY <1>1, <1>2, <1>3, <1>4, <1>5 DEF Next

(* Until it offers them, BDS neither takes out nor overwrites nor reorders *)
(* an option of the user: it adds under new numbers and removes by number. *)
THEOREM UserKept == Spec => UserOptionsKept
<1>1. IInv /\ [Next]_vars =>
        [step \notin {"offer", "changed"} /\ step' # "connect" => Chosen' = Chosen]_vars
  BY ChoiceKept
<1> QED
  BY <1>1, Invariance, PTL DEF Spec, UserOptionsKept

=============================================================================
