-------------------------- MODULE InterruptsProofs --------------------------
(***************************************************************************)
(* Proofs about Interrupts: the types of its variables and the depth of    *)
(* its stack, that handlers do not nest, that TPLs are kept and that       *)
(* LittleKernel's handlers are called as they were registered.             *)
(*                                                                         *)
(* The four follow from one inductive invariant, IInv.  Its centre is what *)
(* the stack of frames can look like: the application at the bottom, TPLs  *)
(* that never fall on the way up and rise under a notification, and under  *)
(* each frame one that can be interrupted by it.                           *)
(***************************************************************************)
EXTENDS Interrupts, FiniteSetTheorems, SequenceTheorems, TLAPS

AppSteps    == {"run", "func", "arg", "source", "init", "period", "wait", "restore", "off",
                "exit"}
IrqSteps    == {"call", "tick", "restore", "eoi", "return"}
NotifySteps == {"run", "restore", "last"}
Tpls        == APPLICATION .. HIGH_LEVEL

AppFrames ==
  {f \in [kind : {"app"}, src : Sources \union {None}, step : AppSteps, level : Tpls] :
     f.step = "source" => f.src \in Drivers}
IrqFrames == [kind : {"irq"}, src : Sources, step : IrqSteps, level : Tpls]
NotifyFrames ==
  {f \in [kind : {"notify"}, src : Levels, step : NotifySteps, level : Tpls] : f.src <= f.level}
Frames == AppFrames \union IrqFrames \union NotifyFrames

(* Frame g runs on top of frame f: a notification only inside RestoreTPL,  *)
(* an interrupt at the TPL it found, which RestoreTPL may have raised.     *)
Under(f, g) ==
  /\ f.step \notin {"call", "tick"}
  /\ g.kind = "notify" => f.step = "restore"
  /\ g.kind = "irq" /\ f.step # "restore" => f.level = g.level

Bottom(s) == \A i \in 1 .. Len(s) : s[i].kind = "app" <=> i = 1
Rising(s) ==
  \A i, j \in 1 .. Len(s) :
    i < j => /\ s[i].level <= s[j].level
             /\ s[j].kind = "notify" => s[i].level < s[j].src
Piled(s)  == \A i \in 1 .. Len(s) - 1 : Under(s[i], s[i + 1])

StackOK(s) == s \in Seq(Frames) /\ s # <<>> /\ Bottom(s) /\ Rising(s) /\ Piled(s)

VarsOK ==
  /\ enabled \subseteq Sources /\ pending \subseteq Sources /\ active \subseteq Sources
  /\ gRegisteredInterruptHandlers \in [Sources -> {"none", "LK", "driver"}]
  /\ gRegisteredInterruptHandlersLK \in [func : Regs \union {None}, arg : Regs \union {None}]
  /\ mTimerNotifyFunction \in BOOLEAN
  /\ mTimerPeriod \in Periods /\ hwPeriod \in Periods
  /\ event \in BOOLEAN /\ busy \in BOOLEAN /\ irqOn \in BOOLEAN
  /\ tpl \in Tpls /\ queue \subseteq Levels /\ phase \in {"boot", "os"}

CpuOK ==
  /\ Top.level <= tpl
  /\ Top.step \notin {"restore", "tick"} => tpl = Top.level
  /\ Top.step = "tick" => tpl = HIGH_LEVEL
  /\ Top.step \in {"call", "tick"} => ~irqOn

(* At most one frame is a handler's, and the GIC has its source active.    *)
HandlersOK ==
  /\ \A i, j \in 1 .. Len(stack) : InHandler(stack[i]) /\ InHandler(stack[j]) => i = j
  /\ \A i \in 1 .. Len(stack) : InHandler(stack[i]) => active = {stack[i].src}
  /\ (\A i \in 1 .. Len(stack) : ~InHandler(stack[i])) => active = {}

OsOK == phase = "os" => Top.step = "exit" /\ enabled = {}

(* A function goes with its argument but between the first store of a      *)
(* registration and the second, and neither is missing on a vector that    *)
(* LittleKernel handles.                                                   *)
LK == gRegisteredInterruptHandlersLK
BlockOK ==
  /\ gRegisteredInterruptHandlers[Block] \in {"none", "LK"}
  /\ stack[1].step = "func" => LK.func # None
  /\ stack[1].step = "arg" => LK.func # None /\ LK.arg = LK.func
  /\ gRegisteredInterruptHandlers[Block] = "LK" =>
       /\ LK.func # None /\ LK.arg # None
       /\ stack[1].step # "func" => LK.arg = LK.func

Irqs(s) == {i \in 1 .. Len(s) : s[i].kind = "irq"}
IrqsOK  == Cardinality(Irqs(stack)) <= MaxIrqs

IInv == VarsOK /\ StackOK(stack) /\ CpuOK /\ HandlersOK /\ OsOK /\ BlockOK /\ IrqsOK

-----------------------------------------------------------------------------
(* What the steps do to the stack: the top frame changes, one is pushed,   *)
(* or one is popped.                                                       *)

Changes(s, t, f) == t = [s EXCEPT ![Len(s)] = f]
Pushes(s, t, f)  == t = Append(s, f)
Pops(s, t)       == t = SubSeq(s, 1, Len(s) - 1)

(* The TPLs of notifications.                                              *)
LEMMA LevelsType == \A l \in Levels : l \in Nat /\ l \in Tpls
BY IntAssumption DEF Tpls, APPLICATION, HIGH_LEVEL

(* .. and of all code.                                                     *)
LEMMA TplsType == \A l \in Tpls : l \in Nat
BY DEF Tpls, APPLICATION, HIGH_LEVEL

(* A frame's steps tell its kind.                                          *)
LEMMA FrameFacts ==
  ASSUME NEW f \in Frames
  PROVE  /\ f = Frame(f.kind, f.src, f.step, f.level)
         /\ f.kind \in {"app", "irq", "notify"}
         /\ f.level \in Tpls
         /\ f.kind = "app" => f.step \in AppSteps /\ (f.step = "source" => f.src \in Drivers)
         /\ f.kind = "irq" => f.step \in IrqSteps /\ f.src \in Sources
         /\ f.kind = "notify" => f.step \in NotifySteps /\ f.src \in Levels /\ f.src <= f.level
<1>0. \A l \in Levels : l \in Tpls
  BY IntAssumption DEF Tpls, APPLICATION, HIGH_LEVEL
<1>1. CASE f \in AppFrames
  BY <1>1 DEF AppFrames, Frame
<1>2. CASE f \in IrqFrames
  BY <1>2 DEF IrqFrames, Frame
<1>3. CASE f \in NotifyFrames
  BY <1>0, <1>3 DEF NotifyFrames, Frame
<1>4. QED
  BY <1>1, <1>2, <1>3 DEF Frames

(* Frames of a kind's steps are frames.                                    *)
LEMMA FrameIn ==
  ASSUME NEW k, NEW s, NEW st, NEW l,
         \/ /\ k = "app" /\ s \in Sources \union {None} /\ st \in AppSteps /\ l \in Tpls
            /\ st = "source" => s \in Drivers
         \/ k = "irq" /\ s \in Sources /\ st \in IrqSteps /\ l \in Tpls
         \/ k = "notify" /\ s \in Levels /\ st \in NotifySteps /\ l \in Tpls /\ s <= l
  PROVE  /\ Frame(k, s, st, l) \in Frames
         /\ Frame(k, s, st, l).kind = k /\ Frame(k, s, st, l).src = s
         /\ Frame(k, s, st, l).step = st /\ Frame(k, s, st, l).level = l
BY DEF Frames, AppFrames, IrqFrames, NotifyFrames, Frame

(* The stack is not empty, and the application is its bottom alone.        *)
LEMMA StackFacts ==
  ASSUME NEW s, StackOK(s)
  PROVE  /\ Len(s) \in Nat \ {0} /\ DOMAIN s = 1 .. Len(s)
         /\ \A i \in 1 .. Len(s) : s[i] \in Frames
         /\ s[Len(s)].kind = "app" => Len(s) = 1
         /\ s[1].kind = "app"
<1>1. Len(s) \in Nat \ {0} /\ DOMAIN s = 1 .. Len(s) /\ \A i \in 1 .. Len(s) : s[i] \in Frames
  BY DEF StackOK
<1>2. \A i \in 1 .. Len(s) : s[i].kind = "app" <=> i = 1
  BY DEF StackOK, Bottom
<1>3. QED
  BY <1>1, <1>2

(* Levels are numbers.                                                     *)
LEMMA LevelFacts ==
  ASSUME NEW s, StackOK(s), NEW i \in 1 .. Len(s)
  PROVE  /\ s[i].level \in Nat
         /\ s[i].kind = "notify" => s[i].src \in Nat /\ s[i].src <= s[i].level
<1>1. s[i] \in Frames
  BY StackFacts
<1>2. QED
  BY <1>1, FrameFacts, LevelsType, TplsType

(* The top frame changes its step, or its level if it is not an            *)
(* interrupt's.                                                            *)
LEMMA TopChanged ==
  ASSUME NEW s, StackOK(s), NEW f \in Frames, f.kind = s[Len(s)].kind,
         f.level = s[Len(s)].level \/ f.kind # "irq",
         f.kind = "notify" => f.src = s[Len(s)].src,
         NEW t, Changes(s, t, f)
  PROVE  /\ StackOK(t) /\ Len(t) = Len(s) /\ t[Len(t)] = f
         /\ \A i \in 1 .. Len(s) - 1 : t[i] = s[i]
         /\ Irqs(t) = Irqs(s)
<1>0. s \in Seq(Frames) /\ s # <<>> /\ Bottom(s) /\ Rising(s) /\ Piled(s)
  BY DEF StackOK
<1>1. /\ t \in Seq(Frames) /\ t # <<>> /\ Len(t) = Len(s) /\ t[Len(s)] = f
      /\ \A i \in 1 .. Len(s) - 1 : t[i] = s[i]
  BY <1>0, StackFacts DEF Changes
<1>2. \A i \in 1 .. Len(s) : t[i].kind = s[i].kind
  BY <1>1, StackFacts
<1>3. Bottom(t)
  BY <1>0, <1>1, <1>2 DEF Bottom
<1>4. f.kind = "app" => Len(s) = 1
  BY StackFacts
<1>5. Rising(t)
  <2> SUFFICES ASSUME NEW i \in 1 .. Len(t), NEW j \in 1 .. Len(t), i < j
               PROVE  /\ t[i].level <= t[j].level
                      /\ t[j].kind = "notify" => t[i].level < t[j].src
    BY DEF Rising
  <2>1. i \in 1 .. Len(s) - 1 /\ t[i] = s[i] /\ Len(s) # 1
    BY <1>1, StackFacts
  <2>2. /\ s[i].level <= s[j].level
        /\ s[j].kind = "notify" => s[i].level < s[j].src
    BY <1>0, <1>1, <2>1 DEF Rising
  <2>3. CASE j \in 1 .. Len(s) - 1
    BY <1>1, <2>1, <2>2, <2>3
  <2>4. CASE j = Len(s)
    <3>1. t[j] = f /\ f.kind = s[j].kind /\ f.kind # "app"
      BY <1>1, <1>4, <2>1, <2>4
    <3>2. CASE f.kind = "irq"
      BY <2>1, <2>2, <2>4, <3>1, <3>2
    <3>3. CASE f.kind = "notify"
      <4>1. f.src = s[j].src /\ s[i].level < f.src
        BY <2>2, <2>4, <3>1, <3>3
      <4>2. f.src \in Nat /\ f.level \in Nat /\ f.src <= f.level /\ s[i].level \in Nat
        BY <2>1, <3>3, FrameFacts, LevelFacts, LevelsType, TplsType
      <4>3. s[i].level <= f.level
        BY <4>1, <4>2
      <4>4. QED
        BY <2>1, <3>1, <4>1, <4>3
    <3>4. QED
      BY <3>1, <3>2, <3>3, FrameFacts
  <2>5. QED
    BY <1>1, <2>3, <2>4, StackFacts
<1>6. Piled(t)
  <2> SUFFICES ASSUME NEW i \in 1 .. Len(t) - 1  PROVE Under(t[i], t[i + 1])
    BY DEF Piled
  <2>1. i \in 1 .. Len(s) - 1 /\ i + 1 \in 1 .. Len(s) /\ Len(s) # 1
    BY <1>1, StackFacts
  <2>2. t[i] = s[i] /\ Under(s[i], s[i + 1])
    BY <1>0, <1>1, <2>1 DEF Piled
  <2>3. /\ t[i + 1].kind = s[i + 1].kind
        /\ t[i + 1].kind = "irq" => t[i + 1].level = s[i + 1].level
    BY <1>1, <1>2, <2>1, StackFacts
  <2>4. QED
    BY <2>2, <2>3 DEF Under
<1>7. Irqs(t) = Irqs(s)
  BY <1>1, <1>2 DEF Irqs
<1>8. QED
  BY <1>1, <1>3, <1>5, <1>6, <1>7 DEF StackOK

(* A frame comes on top of one that it can run on.                         *)
LEMMA Pushed ==
  ASSUME NEW s, StackOK(s), NEW f \in Frames, f.kind # "app",
         s[Len(s)].level <= f.level, f.kind = "notify" => s[Len(s)].level < f.src,
         Under(s[Len(s)], f), NEW t, Pushes(s, t, f)
  PROVE  /\ StackOK(t) /\ Len(t) = Len(s) + 1 /\ t[Len(t)] = f
         /\ \A i \in 1 .. Len(s) : t[i] = s[i]
<1>0. s \in Seq(Frames) /\ s # <<>> /\ Bottom(s) /\ Rising(s) /\ Piled(s)
  BY DEF StackOK
<1>1. /\ t \in Seq(Frames) /\ t # <<>> /\ Len(t) = Len(s) + 1 /\ t[Len(t)] = f
      /\ \A i \in 1 .. Len(s) : t[i] = s[i]
  BY <1>0, StackFacts DEF Pushes
<1>2. Bottom(t)
  BY <1>0, <1>1, StackFacts DEF Bottom
<1>3. Rising(t)
  <2> SUFFICES ASSUME NEW i \in 1 .. Len(t), NEW j \in 1 .. Len(t), i < j
               PROVE  /\ t[i].level <= t[j].level
                      /\ t[j].kind = "notify" => t[i].level < t[j].src
    BY DEF Rising
  <2>1. CASE j \in 1 .. Len(s)
    BY <1>0, <1>1, <2>1, StackFacts DEF Rising
  <2>2. CASE j = Len(t)
    <3>1. i \in 1 .. Len(s) /\ t[i] = s[i] /\ t[j] = f
      BY <1>1, <2>2, StackFacts
    <3>2. s[i].level <= s[Len(s)].level
      BY <1>0, <3>1, StackFacts, LevelFacts DEF Rising
    <3>3. /\ s[i].level \in Nat /\ s[Len(s)].level \in Nat /\ f.level \in Nat
          /\ f.kind = "notify" => f.src \in Nat
      BY <3>1, FrameFacts, StackFacts, LevelFacts, LevelsType, TplsType
    <3>4. s[i].level <= f.level /\ (f.kind = "notify" => s[i].level < f.src)
      <4> DEFINE a == s[i].level
                 b == s[Len(s)].level
                 c == f.level
                 d == f.src
      <4>1. /\ a \in Nat /\ b \in Nat /\ c \in Nat /\ a <= b /\ b <= c
            /\ f.kind = "notify" => d \in Nat /\ b < d
        BY <3>2, <3>3
      <4> HIDE DEF a, b, c, d
      <4>2. a <= c /\ (f.kind = "notify" => a < d)
        BY <4>1
      <4>3. QED
        BY <4>2 DEF a, c, d
    <3>5. QED
      BY <3>1, <3>4
  <2>3. QED
    BY <1>1, <2>1, <2>2, StackFacts
<1>4. Piled(t)
  BY <1>0, <1>1, StackFacts DEF Piled
<1>5. QED
  BY <1>1, <1>2, <1>3, <1>4 DEF StackOK

(* The top frame goes, and uncovers one that it could run on.              *)
LEMMA Popped ==
  ASSUME NEW s, StackOK(s), s[Len(s)].kind # "app", NEW t, Pops(s, t)
  PROVE  /\ StackOK(t) /\ Len(t) = Len(s) - 1 /\ Len(t) >= 1
         /\ \A i \in 1 .. Len(s) - 1 : t[i] = s[i]
         /\ t[Len(t)] = s[Len(s) - 1] /\ Under(t[Len(t)], s[Len(s)])
         /\ t[Len(t)].level <= s[Len(s)].level
<1>0. s \in Seq(Frames) /\ s # <<>> /\ Bottom(s) /\ Rising(s) /\ Piled(s)
  BY DEF StackOK
<1>1. Len(s) - 1 \in Nat \ {0} /\ \A i \in 1 .. Len(s) : s[i] \in Frames
  <2>1. Len(s) # 1
    BY StackFacts
  <2>2. QED
    BY <2>1, StackFacts
<1>2. t \in Seq(Frames) /\ Len(t) = Len(s) - 1 /\ \A i \in 1 .. Len(s) - 1 : t[i] = s[i]
  <2>1. /\ t \in Seq(Frames)
        /\ Len(t) = IF 1 <= Len(s) - 1 THEN (Len(s) - 1) - 1 + 1 ELSE 0
        /\ \A i \in 1 .. (Len(s) - 1) - 1 + 1 : t[i] = s[1 + i - 1]
    <3>1. 1 \in Int /\ Len(s) - 1 \in Int /\ \A i \in 1 .. Len(s) - 1 : s[i] \in Frames
      BY <1>1
    <3>2. QED
      BY <3>1, SubSeqProperties DEF Pops
  <2>2. 1 <= Len(s) - 1 /\ (Len(s) - 1) - 1 + 1 = Len(s) - 1
    BY <1>1
  <2>3. \A i \in 1 .. Len(s) - 1 : 1 + i - 1 = i
    BY <1>1
  <2>4. QED
    BY <2>1, <2>2, <2>3
<1>3. t # <<>>
  BY <1>1, <1>2
<1>4. Bottom(t) /\ Rising(t) /\ Piled(t)
  BY <1>0, <1>1, <1>2, SMTT(30) DEF Bottom, Rising, Piled
<1>5. t[Len(t)] = s[Len(s) - 1] /\ Under(t[Len(t)], s[Len(s)])
  BY <1>0, <1>1, <1>2 DEF Piled
<1>6. t[Len(t)].level <= s[Len(s)].level
  BY <1>0, <1>1, <1>2 DEF Rising
<1>7. QED
  BY <1>1, <1>2, <1>3, <1>4, <1>5, <1>6 DEF StackOK

-----------------------------------------------------------------------------
(* What they do to the invariant.                                          *)

(* The top of the stack is a frame.                                        *)
LEMMA TopFacts ==
  ASSUME IInv
  PROVE  /\ Len(stack) \in Nat \ {0} /\ Len(stack) \in 1 .. Len(stack)
         /\ Top \in Frames /\ stack[1].kind = "app"
         /\ Top = Frame(Top.kind, Top.src, Top.step, Top.level)
         /\ Top.kind = "app" <=> Len(stack) = 1
<1>1. StackOK(stack)
  BY DEF IInv
<1>2. /\ Len(stack) \in Nat \ {0} /\ Len(stack) \in 1 .. Len(stack)
      /\ Top \in Frames /\ stack[1].kind = "app"
      /\ Top.kind = "app" => Len(stack) = 1
  BY <1>1, StackFacts DEF Top
<1>3. Len(stack) = 1 => Top.kind = "app"
  BY <1>2 DEF Top
<1>4. QED
  BY <1>2, <1>3, FrameFacts

(* The frames' fields, at the top of the stack.                            *)
LEMMA TopKinds ==
  ASSUME IInv
  PROVE  /\ Top.kind \in {"app", "irq", "notify"}
         /\ Top.level \in Tpls
         /\ Top.kind = "app" =>
              Top.step \in AppSteps /\ (Top.step = "source" => Top.src \in Drivers)
         /\ Top.kind = "irq" => Top.step \in IrqSteps /\ Top.src \in Sources
         /\ Top.kind = "notify" =>
              Top.step \in NotifySteps /\ Top.src \in Levels /\ Top.src <= Top.level
BY TopFacts, FrameFacts

(* A frame goes on, and is as much a handler as it was.                    *)
LEMMA FrameChanged ==
  ASSUME IInv, NEW f \in Frames, Changes(stack, stack', f), f.kind = Top.kind,
         f.kind # "app" => f.src = Top.src, f.kind = "irq" => f.level = Top.level,
         InHandler(f) <=> InHandler(Top), active' = active
  PROVE  /\ StackOK(stack)' /\ Top' = f /\ HandlersOK' /\ IrqsOK'
         /\ Len(stack') = Len(stack) /\ stack'[Len(stack)] = f
         /\ \A i \in 1 .. Len(stack) - 1 : stack'[i] = stack[i]
         /\ \A i \in 1 .. Len(stack) :
              stack'[i].kind = "irq" => stack[i].kind = "irq" /\ stack'[i].src = stack[i].src
<1>1. /\ StackOK(stack') /\ Len(stack') = Len(stack) /\ stack'[Len(stack')] = f
      /\ \A i \in 1 .. Len(stack) - 1 : stack'[i] = stack[i]
      /\ Irqs(stack') = Irqs(stack)
  <2>1. StackOK(stack)
    BY DEF IInv
  <2>2. /\ f.level = stack[Len(stack)].level \/ f.kind # "irq"
        /\ f.kind = "notify" => f.src = stack[Len(stack)].src
    BY DEF Top
  <2>3. QED
    BY <2>1, <2>2, TopChanged DEF Top
<1>2. Top' = f
  BY <1>1 DEF Top
<1>3. \A i \in 1 .. Len(stack) :
        /\ InHandler(stack'[i]) <=> InHandler(stack[i])
        /\ stack'[i].kind = stack[i].kind
        /\ stack'[i].kind # "app" => stack'[i].src = stack[i].src
  BY <1>1, TopFacts DEF Top
<1>4. HandlersOK'
  <2>1. HandlersOK
    BY DEF IInv
  <2>2. \A i \in 1 .. Len(stack) : InHandler(stack'[i]) => stack'[i].src = stack[i].src
    BY <1>3 DEF InHandler
  <2>3. QED
    BY <1>1, <1>3, <2>1, <2>2 DEF HandlersOK
<1>5. IrqsOK'
  BY <1>1 DEF IInv, IrqsOK
<1>6. QED
  BY <1>1, <1>2, <1>3, <1>4, <1>5

(* .. and the code is not inside lkapi_int_register_handler.               *)
LEMMA StepInside ==
  ASSUME IInv, NEW f \in Frames, Changes(stack, stack', f), f.kind = Top.kind,
         f.kind # "app" => f.src = Top.src, f.kind = "irq" => f.level = Top.level,
         InHandler(f) <=> InHandler(Top), active' = active,
         gRegisteredInterruptHandlers'[Block] = gRegisteredInterruptHandlers[Block],
         gRegisteredInterruptHandlersLK' = gRegisteredInterruptHandlersLK,
         f.kind = "app" => f.step \notin {"func", "arg"} /\ Top.step \notin {"func", "arg"}
  PROVE  StackOK(stack)' /\ Top' = f /\ HandlersOK' /\ BlockOK' /\ IrqsOK'
<1>1. /\ StackOK(stack)' /\ Top' = f /\ HandlersOK' /\ IrqsOK'
      /\ Len(stack') = Len(stack) /\ stack'[Len(stack)] = f
      /\ \A i \in 1 .. Len(stack) - 1 : stack'[i] = stack[i]
      /\ \A i \in 1 .. Len(stack) :
           stack'[i].kind = "irq" => stack[i].kind = "irq" /\ stack'[i].src = stack[i].src
  BY FrameChanged
<1>2. \/ stack'[1].step = stack[1].step
      \/ stack'[1].step \notin {"func", "arg"} /\ stack[1].step \notin {"func", "arg"}
  <2>1. CASE Len(stack) = 1
    BY <1>1, <2>1, TopFacts DEF Top
  <2>2. CASE Len(stack) # 1
    BY <1>1, <2>2, TopFacts
  <2>3. QED
    BY <2>1, <2>2
<1>3. BlockOK'
  <2>1. BlockOK
    BY DEF IInv
  <2>2. QED
    BY <1>1, <1>2, <2>1 DEF BlockOK, LK
<1>4. QED
  BY <1>1, <1>3

(* Nothing happens to the stack.                                           *)
LEMMA StackKept ==
  ASSUME IInv, stack' = stack, active' = active,
         gRegisteredInterruptHandlers'[Block] = gRegisteredInterruptHandlers[Block],
         gRegisteredInterruptHandlersLK' = gRegisteredInterruptHandlersLK
  PROVE  StackOK(stack)' /\ Top' = Top /\ HandlersOK' /\ BlockOK' /\ IrqsOK'
BY DEF IInv, Top, HandlersOK, BlockOK, IrqsOK, LK

(* GoStep changes the top frame's step alone.                              *)
LEMMA GoStepChanges ==
  ASSUME IInv, NEW st, GoStep(st)
  PROVE  Changes(stack, stack', Frame(Top.kind, Top.src, st, Top.level))
<1>1. [stack[Len(stack)] EXCEPT !.step = st] = Frame(Top.kind, Top.src, st, Top.level)
  BY TopFacts DEF Top, Frame
<1>2. QED
  BY <1>1 DEF GoStep, Changes

(* .. and its steps are those of its kind.                                 *)
LEMMA GoStepIn ==
  ASSUME IInv, NEW st,
         \/ Top.kind = "app" /\ st \in AppSteps \ {"source"}
         \/ Top.kind = "irq" /\ st \in IrqSteps
         \/ Top.kind = "notify" /\ st \in NotifySteps,
         NEW f, f = Frame(Top.kind, Top.src, st, Top.level)
  PROVE  /\ f \in Frames /\ f.kind = Top.kind /\ f.src = Top.src
         /\ f.step = st /\ f.level = Top.level
<1>1. Top.kind = "app" => Top.src \in Sources \union {None}
  BY TopFacts DEF Frames, AppFrames, IrqFrames, NotifyFrames
<1>2. QED
  BY <1>1, TopKinds, FrameIn
(* GoStep, by code or a handler that does not end its interrupt.           *)
LEMMA GoStepInside ==
  ASSUME IInv, NEW st, GoStep(st),
         \/ Top.kind = "app" /\ st \in AppSteps \ {"source", "func", "arg"}
                             /\ Top.step \notin {"func", "arg"}
         \/ Top.kind = "irq" /\ st \in IrqSteps \ {"return"} /\ Top.step # "return"
         \/ Top.kind = "notify" /\ st \in NotifySteps,
         active' = active,
         gRegisteredInterruptHandlers'[Block] = gRegisteredInterruptHandlers[Block],
         gRegisteredInterruptHandlersLK' = gRegisteredInterruptHandlersLK
  PROVE  /\ StackOK(stack)' /\ HandlersOK' /\ BlockOK' /\ IrqsOK'
         /\ Top'.kind = Top.kind /\ Top'.src = Top.src
         /\ Top'.step = st /\ Top'.level = Top.level
<1> DEFINE f == Frame(Top.kind, Top.src, st, Top.level)
<1>1. f \in Frames /\ f.kind = Top.kind /\ f.src = Top.src /\ f.step = st /\ f.level = Top.level
  BY GoStepIn
<1>2. Changes(stack, stack', f)
  BY GoStepChanges
<1> HIDE DEF f
<1>3. StackOK(stack)' /\ Top' = f /\ HandlersOK' /\ BlockOK' /\ IrqsOK'
  BY <1>1, <1>2, StepInside DEF InHandler
<1>4. QED
  BY <1>1, <1>3

-----------------------------------------------------------------------------
(* One lemma for every action, or a group of alike ones.                   *)

(* A frame with one field changed.                                         *)
LEMMA StepSet ==
  ASSUME NEW k, NEW r, NEW st, NEW l, NEW x, x = Frame(k, r, st, l), NEW b
  PROVE  [x EXCEPT !.step = b] = Frame(k, r, b, l)
BY DEF Frame

(* Likewise its source.                                                    *)
LEMMA SrcSet ==
  ASSUME NEW k, NEW r, NEW st, NEW l, NEW x, x = Frame(k, r, st, l), NEW b
  PROVE  [x EXCEPT !.src = b] = Frame(k, b, st, l)
BY DEF Frame

(* Likewise its level.                                                     *)
LEMMA LevelSet ==
  ASSUME NEW k, NEW r, NEW st, NEW l, NEW x, x = Frame(k, r, st, l), NEW b
  PROVE  [x EXCEPT !.level = b] = Frame(k, r, st, b)
BY DEF Frame

(* LittleKernel registers the tick.                                        *)
LEMMA TimerInitializeIInv ==
  ASSUME IInv, TimerInitialize
  PROVE  IInv'
<1>1. Top.kind = "app"
  BY TopKinds DEF TimerInitialize, AppSteps, IrqSteps, NotifySteps, Running, Sources
<1>2. /\ StackOK(stack)' /\ HandlersOK' /\ BlockOK' /\ IrqsOK'
      /\ Top'.kind = Top.kind /\ Top'.src = Top.src
      /\ Top'.step = "init" /\ Top'.level = Top.level
  BY <1>1, GoStepInside, IntAssumption DEF TimerInitialize, AppSteps, IrqSteps,
     NotifySteps, gic, tables, Running, Sources
<1>3. VarsOK'
  BY IntAssumption DEF IInv, VarsOK, TimerInitialize, gic, tables, timer, waits, cpu, Tpls,
     APPLICATION, CALLBACK, NOTIFY, HIGH_LEVEL, Running, Sources
<1>4. CpuOK' /\ OsOK'
  BY <1>1, <1>2, TopKinds DEF IInv, VarsOK, CpuOK, OsOK, TimerInitialize, cpu, Tpls,
     APPLICATION, CALLBACK, NOTIFY, HIGH_LEVEL, Running, Sources
<1>5. QED
  BY <1>2, <1>3, <1>4 DEF IInv

(* The default period goes to LittleKernel.                                *)
LEMMA TimerDefaultPeriodIInv ==
  ASSUME IInv, TimerDefaultPeriod
  PROVE  IInv'
<1>1. Top.kind = "app"
  BY TopKinds DEF TimerDefaultPeriod, AppSteps, IrqSteps, NotifySteps
<1>2. /\ StackOK(stack)' /\ HandlersOK' /\ BlockOK' /\ IrqsOK'
      /\ Top'.kind = Top.kind /\ Top'.src = Top.src
      /\ Top'.step = "period" /\ Top'.level = Top.level
  BY <1>1, GoStepInside DEF TimerDefaultPeriod, AppSteps, IrqSteps, NotifySteps, gic, tables
<1>3. VarsOK'
  BY IntAssumption DEF IInv, VarsOK, TimerDefaultPeriod, gic, tables, timer, waits, cpu,
     Tpls, APPLICATION, CALLBACK, NOTIFY, HIGH_LEVEL
<1>4. CpuOK' /\ OsOK'
  BY <1>1, <1>2, TopKinds DEF IInv, VarsOK, CpuOK, OsOK, TimerDefaultPeriod, cpu, Tpls,
     APPLICATION, CALLBACK, NOTIFY, HIGH_LEVEL
<1>5. QED
  BY <1>2, <1>3, <1>4 DEF IInv

(* A new period goes to LittleKernel.                                      *)
LEMMA TimerDriverSetTimerPeriodIInv ==
  ASSUME IInv, TimerDriverSetTimerPeriod
  PROVE  IInv'
<1>1. Top.kind = "app"
  BY TopKinds DEF TimerDriverSetTimerPeriod, AppSteps, IrqSteps, NotifySteps, Running
<1>2. /\ StackOK(stack)' /\ HandlersOK' /\ BlockOK' /\ IrqsOK'
      /\ Top'.kind = Top.kind /\ Top'.src = Top.src
      /\ Top'.step = "period" /\ Top'.level = Top.level
  BY <1>1, GoStepInside DEF TimerDriverSetTimerPeriod, AppSteps, IrqSteps, NotifySteps,
     gic, tables, Running
<1>3. VarsOK'
  BY IntAssumption DEF IInv, VarsOK, TimerDriverSetTimerPeriod, gic, tables, timer, waits,
     cpu, Tpls, APPLICATION, CALLBACK, NOTIFY, HIGH_LEVEL, Running
<1>4. CpuOK' /\ OsOK'
  BY <1>1, <1>2, TopKinds DEF IInv, VarsOK, CpuOK, OsOK, TimerDriverSetTimerPeriod, cpu,
     Tpls, APPLICATION, CALLBACK, NOTIFY, HIGH_LEVEL, Running
<1>5. QED
  BY <1>2, <1>3, <1>4 DEF IInv

(* A notification is queued; SignalEvent ends like RestoreTPL.             *)
LEMMA SignalEventIInv ==
  ASSUME IInv, NEW l \in Levels, SignalEvent(l)
  PROVE  IInv'
<1>1. Top.kind \in {"app", "notify"} /\ Top.step = "run" /\ phase = "boot"
  BY TopKinds DEF SignalEvent, AppSteps, IrqSteps, NotifySteps, Running, Code
<1>2. /\ StackOK(stack)' /\ HandlersOK' /\ BlockOK' /\ IrqsOK'
      /\ Top'.kind = Top.kind /\ Top'.src = Top.src
      /\ Top'.step = "restore" /\ Top'.level = Top.level
  BY <1>1, GoStepInside DEF SignalEvent, AppSteps, IrqSteps, NotifySteps, gic, tables,
     Running, Code
<1>3. VarsOK'
  BY IntAssumption DEF IInv, VarsOK, SignalEvent, gic, tables, timer, waits, cpu, Tpls,
     APPLICATION, CALLBACK, NOTIFY, HIGH_LEVEL, Running, Code
<1>4. CpuOK' /\ OsOK'
  BY <1>1, <1>2, TopKinds DEF IInv, VarsOK, CpuOK, OsOK, SignalEvent, cpu, Tpls,
     APPLICATION, CALLBACK, NOTIFY, HIGH_LEVEL, Running, Code
<1>5. QED
  BY <1>2, <1>3, <1>4 DEF IInv

(* LittleKernel's block driver starts to wait.                             *)
LEMMA lkapi_event_waitIInv ==
  ASSUME IInv, lkapi_event_wait
  PROVE  IInv'
<1>1. Top.kind = "app"
  BY TopKinds DEF lkapi_event_wait, AppSteps, IrqSteps, NotifySteps, Running
<1>2. /\ StackOK(stack)' /\ HandlersOK' /\ BlockOK' /\ IrqsOK'
      /\ Top'.kind = Top.kind /\ Top'.src = Top.src
      /\ Top'.step = "wait" /\ Top'.level = Top.level
  BY <1>1, GoStepInside DEF lkapi_event_wait, AppSteps, IrqSteps, NotifySteps, gic, tables,
     Running
<1>3. VarsOK'
  BY IntAssumption DEF IInv, VarsOK, lkapi_event_wait, gic, tables, timer, waits, cpu,
     Tpls, APPLICATION, CALLBACK, NOTIFY, HIGH_LEVEL, Running
<1>4. CpuOK' /\ OsOK'
  BY <1>1, <1>2, TopKinds DEF IInv, VarsOK, CpuOK, OsOK, lkapi_event_wait, cpu, Tpls,
     APPLICATION, CALLBACK, NOTIFY, HIGH_LEVEL, Running
<1>5. QED
  BY <1>2, <1>3, <1>4 DEF IInv

(* The wait ends.                                                          *)
LEMMA SignalledIInv ==
  ASSUME IInv, Signalled
  PROVE  IInv'
<1>1. Top.kind = "app"
  BY TopKinds DEF Signalled, AppSteps, IrqSteps, NotifySteps
<1>2. /\ StackOK(stack)' /\ HandlersOK' /\ BlockOK' /\ IrqsOK'
      /\ Top'.kind = Top.kind /\ Top'.src = Top.src
      /\ Top'.step = "run" /\ Top'.level = Top.level
  BY <1>1, GoStepInside DEF Signalled, AppSteps, IrqSteps, NotifySteps, gic, tables
<1>3. VarsOK'
  BY IntAssumption DEF IInv, VarsOK, Signalled, gic, tables, timer, waits, cpu, Tpls,
     APPLICATION, CALLBACK, NOTIFY, HIGH_LEVEL
<1>4. CpuOK' /\ OsOK'
  BY <1>1, <1>2, TopKinds DEF IInv, VarsOK, CpuOK, OsOK, Signalled, cpu, Tpls, APPLICATION,
     CALLBACK, NOTIFY, HIGH_LEVEL
<1>5. QED
  BY <1>2, <1>3, <1>4 DEF IInv

(* Nobody handles the interrupt, or a driver does.                         *)
LEMMA SpuriousInterruptIInv ==
  ASSUME IInv, SpuriousInterrupt
  PROVE  IInv'
<1>1. Top.kind = "irq" /\ Top.step = "call"
  BY TopKinds DEF SpuriousInterrupt, AppSteps, IrqSteps, NotifySteps, Calling
<1>2. /\ StackOK(stack)' /\ HandlersOK' /\ BlockOK' /\ IrqsOK'
      /\ Top'.kind = Top.kind /\ Top'.src = Top.src
      /\ Top'.step = "eoi" /\ Top'.level = Top.level
  BY <1>1, GoStepInside DEF SpuriousInterrupt, AppSteps, IrqSteps, NotifySteps, gic,
     tables, Calling
<1>3. VarsOK'
  BY IntAssumption DEF IInv, VarsOK, SpuriousInterrupt, gic, tables, timer, waits, cpu,
     Tpls, APPLICATION, CALLBACK, NOTIFY, HIGH_LEVEL, Calling
<1>4. CpuOK' /\ OsOK'
  BY <1>1, <1>2, TopKinds DEF IInv, VarsOK, CpuOK, OsOK, SpuriousInterrupt, cpu, Tpls,
     APPLICATION, CALLBACK, NOTIFY, HIGH_LEVEL, Calling
<1>5. QED
  BY <1>2, <1>3, <1>4 DEF IInv

(* The tick raises the TPL, with the CPU's interrupts off.                 *)
LEMMA TimerInterruptHandlerIInv ==
  ASSUME IInv, TimerInterruptHandler
  PROVE  IInv'
<1>1. Top.kind = "irq" /\ Top.step = "call"
  BY TopKinds DEF TimerInterruptHandler, AppSteps, IrqSteps, NotifySteps, Calling
<1>2. /\ StackOK(stack)' /\ HandlersOK' /\ BlockOK' /\ IrqsOK'
      /\ Top'.kind = Top.kind /\ Top'.src = Top.src
      /\ Top'.step = "tick" /\ Top'.level = Top.level
  BY <1>1, GoStepInside DEF TimerInterruptHandler, AppSteps, IrqSteps, NotifySteps, gic,
     tables, Calling
<1>3. VarsOK'
  BY IntAssumption DEF IInv, VarsOK, TimerInterruptHandler, gic, tables, timer, waits, cpu,
     Tpls, APPLICATION, CALLBACK, NOTIFY, HIGH_LEVEL, Calling
<1>4. CpuOK' /\ OsOK'
  BY <1>1, <1>2, TopKinds DEF IInv, VarsOK, CpuOK, OsOK, TimerInterruptHandler, cpu, Tpls,
     APPLICATION, CALLBACK, NOTIFY, HIGH_LEVEL, Calling
<1>5. QED
  BY <1>2, <1>3, <1>4 DEF IInv

(* The tick restores the TPL.                                              *)
LEMMA TimerNotifyIInv ==
  ASSUME IInv, TimerNotify
  PROVE  IInv'
<1>1. Top.kind = "irq" /\ Top.step = "tick"
  BY TopKinds DEF TimerNotify, AppSteps, IrqSteps, NotifySteps
<1>2. /\ StackOK(stack)' /\ HandlersOK' /\ BlockOK' /\ IrqsOK'
      /\ Top'.kind = Top.kind /\ Top'.src = Top.src
      /\ Top'.step = "restore" /\ Top'.level = Top.level
  BY <1>1, GoStepInside DEF TimerNotify, AppSteps, IrqSteps, NotifySteps, gic, tables
<1>3. VarsOK'
  BY IntAssumption DEF IInv, VarsOK, TimerNotify, gic, tables, timer, waits, cpu, Tpls,
     APPLICATION, CALLBACK, NOTIFY, HIGH_LEVEL
<1>4. CpuOK' /\ OsOK'
  BY <1>1, <1>2, TopKinds DEF IInv, VarsOK, CpuOK, OsOK, TimerNotify, cpu, Tpls,
     APPLICATION, CALLBACK, NOTIFY, HIGH_LEVEL
<1>5. QED
  BY <1>2, <1>3, <1>4 DEF IInv

(* The block device's handler signals the event.                           *)
LEMMA BlockInterruptHandlerIInv ==
  ASSUME IInv, BlockInterruptHandler
  PROVE  IInv'
<1>1. Top.kind = "irq" /\ Top.step = "call"
  BY TopKinds DEF BlockInterruptHandler, AppSteps, IrqSteps, NotifySteps, Calling
<1>2. /\ StackOK(stack)' /\ HandlersOK' /\ BlockOK' /\ IrqsOK'
      /\ Top'.kind = Top.kind /\ Top'.src = Top.src
      /\ Top'.step = "restore" /\ Top'.level = Top.level
  BY <1>1, GoStepInside DEF BlockInterruptHandler, AppSteps, IrqSteps, NotifySteps, gic,
     tables, Calling
<1>3. VarsOK'
  BY IntAssumption DEF IInv, VarsOK, BlockInterruptHandler, gic, tables, timer, waits, cpu,
     Tpls, APPLICATION, CALLBACK, NOTIFY, HIGH_LEVEL, Calling
<1>4. CpuOK' /\ OsOK'
  BY <1>1, <1>2, TopKinds DEF IInv, VarsOK, CpuOK, OsOK, BlockInterruptHandler, cpu, Tpls,
     APPLICATION, CALLBACK, NOTIFY, HIGH_LEVEL, Calling
<1>5. QED
  BY <1>2, <1>3, <1>4 DEF IInv

(* Block is unmasked by the application, outside its registration.         *)
LEMMA UnmaskIInv ==
  ASSUME IInv, NEW s \in Sources, Unmask(s)
  PROVE  IInv'
<1>1. Top.step = "run" /\ phase = "boot" /\ (s = Block => stack[1].step = "run")
  BY TopKinds, TopFacts DEF Unmask, AppSteps, IrqSteps, NotifySteps, Running, Masks, Top
<1>2. StackOK(stack)' /\ Top' = Top /\ HandlersOK' /\ BlockOK' /\ IrqsOK'
  BY <1>1, StackKept DEF Unmask, Top, gic, tables, Running, Masks, Top
<1>3. VarsOK'
  BY IntAssumption DEF IInv, VarsOK, Unmask, gic, tables, timer, waits, cpu, Sources,
     Running, Masks, Top
<1>4. CpuOK' /\ OsOK'
  BY <1>1, <1>2 DEF IInv, CpuOK, OsOK, Unmask, gic, cpu, Running, Masks, Top
<1>5. QED
  BY <1>2, <1>3, <1>4 DEF IInv

(* Masking takes a source away.                                            *)
LEMMA MaskIInv ==
  ASSUME IInv, NEW s \in Sources, Mask(s)
  PROVE  IInv'
<1>1. Top.step = "run" /\ phase = "boot"
  BY TopKinds, TopFacts DEF Mask, AppSteps, IrqSteps, NotifySteps, Running, Masks
<1>2. StackOK(stack)' /\ Top' = Top /\ HandlersOK' /\ BlockOK' /\ IrqsOK'
  BY <1>1, StackKept DEF Mask, Top, gic, tables, Running, Masks
<1>3. VarsOK'
  BY IntAssumption DEF IInv, VarsOK, Mask, gic, tables, timer, waits, cpu, Sources,
     Running, Masks
<1>4. CpuOK' /\ OsOK'
  BY <1>1, <1>2 DEF IInv, CpuOK, OsOK, Mask, gic, cpu, Running, Masks
<1>5. QED
  BY <1>2, <1>3, <1>4 DEF IInv

(* The DXE core registers with the timer.                                  *)
LEMMA TimerDriverRegisterHandlerIInv ==
  ASSUME IInv, TimerDriverRegisterHandler
  PROVE  IInv'
<1>1. Top.step = "run" /\ phase = "boot"
  BY TopKinds, TopFacts DEF TimerDriverRegisterHandler, AppSteps, IrqSteps, NotifySteps,
     Running
<1>2. StackOK(stack)' /\ Top' = Top /\ HandlersOK' /\ BlockOK' /\ IrqsOK'
  BY <1>1, StackKept DEF TimerDriverRegisterHandler, Top, gic, tables, Running
<1>3. VarsOK'
  BY IntAssumption DEF IInv, VarsOK, TimerDriverRegisterHandler, gic, tables, timer, waits,
     cpu, Sources, Running
<1>4. CpuOK' /\ OsOK'
  BY <1>1, <1>2 DEF IInv, CpuOK, OsOK, TimerDriverRegisterHandler, gic, cpu, Running
<1>5. QED
  BY <1>2, <1>3, <1>4 DEF IInv

(* The timer's interrupt becomes pending.                                  *)
LEMMA TimerRaisesIInv ==
  ASSUME IInv, TimerRaises
  PROVE  IInv'
<1>1. phase = "boot"
  BY TopKinds, TopFacts DEF TimerRaises, AppSteps, IrqSteps, NotifySteps
<1>2. StackOK(stack)' /\ Top' = Top /\ HandlersOK' /\ BlockOK' /\ IrqsOK'
  BY <1>1, StackKept DEF TimerRaises, Top, gic, tables
<1>3. VarsOK'
  BY IntAssumption DEF IInv, VarsOK, TimerRaises, gic, tables, timer, waits, cpu, Sources
<1>4. CpuOK' /\ OsOK'
  BY <1>1, <1>2 DEF IInv, CpuOK, OsOK, TimerRaises, gic, cpu
<1>5. QED
  BY <1>2, <1>3, <1>4 DEF IInv

(* The block device's becomes pending.                                     *)
LEMMA BlockRaisesIInv ==
  ASSUME IInv, BlockRaises
  PROVE  IInv'
<1>1. phase = "boot"
  BY TopKinds, TopFacts DEF BlockRaises, AppSteps, IrqSteps, NotifySteps
<1>2. StackOK(stack)' /\ Top' = Top /\ HandlersOK' /\ BlockOK' /\ IrqsOK'
  BY <1>1, StackKept DEF BlockRaises, Top, gic, tables
<1>3. VarsOK'
  BY IntAssumption DEF IInv, VarsOK, BlockRaises, gic, tables, timer, waits, cpu, Sources
<1>4. CpuOK' /\ OsOK'
  BY <1>1, <1>2 DEF IInv, CpuOK, OsOK, BlockRaises, gic, cpu
<1>5. QED
  BY <1>2, <1>3, <1>4 DEF IInv

(* Another device's becomes pending.                                       *)
LEMMA DeviceRaisesIInv ==
  ASSUME IInv, NEW s \in Drivers, DeviceRaises(s)
  PROVE  IInv'
<1>1. phase = "boot"
  BY TopKinds, TopFacts DEF DeviceRaises, AppSteps, IrqSteps, NotifySteps
<1>2. StackOK(stack)' /\ Top' = Top /\ HandlersOK' /\ BlockOK' /\ IrqsOK'
  BY <1>1, StackKept DEF DeviceRaises, Top, gic, tables
<1>3. VarsOK'
  BY IntAssumption DEF IInv, VarsOK, DeviceRaises, gic, tables, timer, waits, cpu, Sources
<1>4. CpuOK' /\ OsOK'
  BY <1>1, <1>2 DEF IInv, CpuOK, OsOK, DeviceRaises, gic, cpu
<1>5. QED
  BY <1>2, <1>3, <1>4 DEF IInv

(* At ExitBootServices one source more is masked.                          *)
LEMMA MaskNextIInv ==
  ASSUME IInv, MaskNext
  PROVE  IInv'
<1>1. enabled # {}
  BY TopKinds, TopFacts DEF MaskNext, AppSteps, IrqSteps, NotifySteps
<1>2. StackOK(stack)' /\ Top' = Top /\ HandlersOK' /\ BlockOK' /\ IrqsOK'
  BY <1>1, StackKept DEF MaskNext, Top, gic, tables
<1>3. VarsOK'
  BY IntAssumption DEF IInv, VarsOK, MaskNext, gic, tables, timer, waits, cpu, Sources
<1>4. CpuOK' /\ OsOK'
  BY <1>1, <1>2 DEF IInv, CpuOK, OsOK, MaskNext, gic, cpu
<1>5. QED
  BY <1>2, <1>3, <1>4 DEF IInv

(* GICv2 has nothing to forward once every source is masked.               *)
LEMMA GicV2ExitBootServicesEventIInv ==
  ASSUME IInv, GicV2ExitBootServicesEvent
  PROVE  IInv'
<1>1. Top.step = "exit" /\ enabled = {}
  BY TopKinds, TopFacts DEF GicV2ExitBootServicesEvent, AppSteps, IrqSteps, NotifySteps,
     Forwarded
<1>2. StackOK(stack)' /\ Top' = Top /\ HandlersOK' /\ BlockOK' /\ IrqsOK'
  BY <1>1, StackKept DEF GicV2ExitBootServicesEvent, Top, gic, tables, Forwarded
<1>3. VarsOK'
  BY IntAssumption DEF IInv, VarsOK, GicV2ExitBootServicesEvent, gic, tables, timer, waits,
     cpu, Sources, Forwarded
<1>4. CpuOK' /\ OsOK'
  BY <1>1, <1>2 DEF IInv, CpuOK, OsOK, GicV2ExitBootServicesEvent, gic, cpu, Forwarded
<1>5. QED
  BY <1>2, <1>3, <1>4 DEF IInv

(* GICv3 ends what is active: nothing is, for the application runs.        *)
LEMMA GicV3ExitBootServicesEventIInv ==
  ASSUME IInv, GicV3ExitBootServicesEvent
  PROVE  IInv'
<1>1. Top.step = "exit" /\ enabled = {} /\ Top.kind = "app" /\ Len(stack) = 1
  BY TopKinds, TopFacts DEF GicV3ExitBootServicesEvent, AppSteps, IrqSteps, NotifySteps
<1>0. active = {}
  BY <1>1, TopFacts DEF IInv, HandlersOK, InHandler, Top
<1>2. StackOK(stack)' /\ Top' = Top /\ HandlersOK' /\ BlockOK' /\ IrqsOK'
  BY <1>1, <1>0, StackKept DEF GicV3ExitBootServicesEvent, Top, gic, tables
<1>3. VarsOK'
  BY IntAssumption DEF IInv, VarsOK, GicV3ExitBootServicesEvent, gic, tables, timer, waits,
     cpu, Sources
<1>4. CpuOK' /\ OsOK'
  BY <1>1, <1>2 DEF IInv, CpuOK, OsOK, GicV3ExitBootServicesEvent, gic, cpu
<1>5. QED
  BY <1>2, <1>3, <1>4 DEF IInv

(* The driver notes the period.                                            *)
LEMMA SavePeriodIInv ==
  ASSUME IInv, SavePeriod
  PROVE  IInv'
<1>1. CASE Top.step = "period"
  <2>1. GoStep("run") /\ Top.kind = "app"
    BY <1>1, TopKinds DEF SavePeriod, AppSteps, IrqSteps, NotifySteps
  <2>2. /\ StackOK(stack)' /\ HandlersOK' /\ BlockOK' /\ IrqsOK'
        /\ Top'.kind = Top.kind /\ Top'.src = Top.src
        /\ Top'.step = "run" /\ Top'.level = Top.level
    BY <1>1, <2>1, GoStepInside DEF SavePeriod, AppSteps, IrqSteps, NotifySteps, gic, tables
  <2>3. VarsOK'
    BY TopKinds, IntAssumption DEF IInv, VarsOK, SavePeriod, gic, tables, timer, waits, cpu
  <2>4. CpuOK' /\ OsOK'
    BY <1>1, <2>1, <2>2, TopKinds DEF IInv, CpuOK, OsOK, SavePeriod, cpu, Tpls,
       APPLICATION, CALLBACK, NOTIFY, HIGH_LEVEL
  <2>5. QED
    BY <2>2, <2>3, <2>4 DEF IInv
<1>2. CASE Top.step = "off"
  <2>1. GoStep("exit") /\ Top.kind = "app"
    BY <1>2, TopKinds DEF SavePeriod, AppSteps, IrqSteps, NotifySteps
  <2>2. /\ StackOK(stack)' /\ HandlersOK' /\ BlockOK' /\ IrqsOK'
        /\ Top'.kind = Top.kind /\ Top'.src = Top.src
        /\ Top'.step = "exit" /\ Top'.level = Top.level
    BY <1>2, <2>1, GoStepInside DEF SavePeriod, AppSteps, IrqSteps, NotifySteps, gic, tables
  <2>3. VarsOK'
    BY TopKinds, IntAssumption DEF IInv, VarsOK, SavePeriod, gic, tables, timer, waits, cpu
  <2>4. CpuOK' /\ OsOK'
    BY <1>2, <2>1, <2>2, TopKinds DEF IInv, CpuOK, OsOK, SavePeriod, cpu, Tpls,
       APPLICATION, CALLBACK, NOTIFY, HIGH_LEVEL
  <2>5. QED
    BY <2>2, <2>3, <2>4 DEF IInv
<1>3. QED
  BY <1>1, <1>2, TopKinds DEF SavePeriod

(* RestoreTPL has run every notification above the frame's TPL.            *)
LEMMA RestoredIInv ==
  ASSUME IInv, Restored
  PROVE  IInv'
<1>1. CASE Top.kind = "app"
  <2>1. GoStep("run")
    BY <1>1, TopKinds DEF Restored, AppSteps, IrqSteps, NotifySteps
  <2>2. /\ StackOK(stack)' /\ HandlersOK' /\ BlockOK' /\ IrqsOK'
        /\ Top'.kind = Top.kind /\ Top'.src = Top.src
        /\ Top'.step = "run" /\ Top'.level = Top.level
    BY <1>1, <2>1, GoStepInside DEF Restored, AppSteps, IrqSteps, NotifySteps, gic, tables
  <2>3. VarsOK'
    BY TopKinds, IntAssumption DEF IInv, VarsOK, Restored, gic, tables, timer, waits, cpu
  <2>4. CpuOK' /\ OsOK'
    BY <1>1, <2>1, <2>2, TopKinds DEF IInv, CpuOK, OsOK, Restored, cpu, Tpls, APPLICATION,
       CALLBACK, NOTIFY, HIGH_LEVEL
  <2>5. QED
    BY <2>2, <2>3, <2>4 DEF IInv
<1>2. CASE Top.kind = "notify"
  <2>1. GoStep("last")
    BY <1>2, TopKinds DEF Restored, AppSteps, IrqSteps, NotifySteps
  <2>2. /\ StackOK(stack)' /\ HandlersOK' /\ BlockOK' /\ IrqsOK'
        /\ Top'.kind = Top.kind /\ Top'.src = Top.src
        /\ Top'.step = "last" /\ Top'.level = Top.level
    BY <1>2, <2>1, GoStepInside DEF Restored, AppSteps, IrqSteps, NotifySteps, gic, tables
  <2>3. VarsOK'
    BY TopKinds, IntAssumption DEF IInv, VarsOK, Restored, gic, tables, timer, waits, cpu
  <2>4. CpuOK' /\ OsOK'
    BY <1>2, <2>1, <2>2, TopKinds DEF IInv, CpuOK, OsOK, Restored, cpu, Tpls, APPLICATION,
       CALLBACK, NOTIFY, HIGH_LEVEL
  <2>5. QED
    BY <2>2, <2>3, <2>4 DEF IInv
<1>3. CASE Top.kind = "irq"
  <2>1. GoStep("eoi")
    BY <1>3, TopKinds DEF Restored, AppSteps, IrqSteps, NotifySteps
  <2>2. /\ StackOK(stack)' /\ HandlersOK' /\ BlockOK' /\ IrqsOK'
        /\ Top'.kind = Top.kind /\ Top'.src = Top.src
        /\ Top'.step = "eoi" /\ Top'.level = Top.level
    BY <1>3, <2>1, GoStepInside DEF Restored, AppSteps, IrqSteps, NotifySteps, gic, tables
  <2>3. VarsOK'
    BY TopKinds, IntAssumption DEF IInv, VarsOK, Restored, gic, tables, timer, waits, cpu
  <2>4. CpuOK' /\ OsOK'
    BY <1>3, <2>1, <2>2, TopKinds DEF IInv, CpuOK, OsOK, Restored, cpu, Tpls, APPLICATION,
       CALLBACK, NOTIFY, HIGH_LEVEL
  <2>5. QED
    BY <2>2, <2>3, <2>4 DEF IInv
<1>4. QED
  BY <1>1, <1>2, <1>3, TopKinds DEF Restored

(* A driver's handler is stored or cleared, never Block's.                 *)
LEMMA RegisterInterruptSourceIInv ==
  ASSUME IInv, NEW s \in Drivers, RegisterInterruptSource(s)
  PROVE  IInv'
<1> DEFINE f == Frame("app", s, "source", Top.level)
<1>1. Top.kind = "app" /\ Top.step = "run" /\ phase = "boot"
  BY TopKinds DEF RegisterInterruptSource, AppSteps, IrqSteps, NotifySteps, Running
<1>2. Len(stack) = 1 /\ Top.src \in Sources \union {None} /\ Top = stack[1]
  BY <1>1, TopFacts DEF Frames, AppFrames, IrqFrames, NotifyFrames, Top
<1>3. /\ f \in Frames /\ f.kind = "app" /\ f = Frame(f.kind, f.src, f.step, f.level)
      /\ f.step \notin {"func", "arg"}
  BY <1>1, <1>2, TopKinds, FrameIn, IntAssumption DEF AppSteps, Tpls, Sources, Frame,
     APPLICATION, CALLBACK, NOTIFY, HIGH_LEVEL, Running
<1>4. Changes(stack, stack', f)
  <2>a. PICK x, r, st, v : x = Top /\ r = Top.src /\ st = Top.step /\ v = Top.level
    OBVIOUS
  <2>b. x = Frame("app", r, st, v)
    BY <1>1, <2>a, TopFacts
  <2>c. PICK y : y = [x EXCEPT !.step = "source"]
    OBVIOUS
  <2>d. y = Frame("app", r, "source", v)
    BY <2>b, <2>c, StepSet
  <2>e. [y EXCEPT !.src = s] = Frame("app", s, "source", v)
    BY <2>d, SrcSet
  <2>0. [x EXCEPT !.step = "source", !.src = s] = Frame("app", s, "source", v)
    BY <2>c, <2>e
  <2>1. [stack[Len(stack)] EXCEPT !.step = "source", !.src = s] = f
    BY <1>1, <2>a, <2>0 DEF Top
  <2>2. stack' = [stack EXCEPT ![Len(stack)] =
                           [stack[Len(stack)] EXCEPT !.step = "source", !.src = s]]
    BY <1>2, TopFacts DEF RegisterInterruptSource
  <2>3. QED
    BY <2>1, <2>2 DEF Changes
<1>5. f.step = "source" /\ f.level = Top.level
  BY DEF Frame
<1> HIDE DEF f
<1>6. StackOK(stack)' /\ Top' = f /\ HandlersOK' /\ BlockOK' /\ IrqsOK'
  BY <1>1, <1>2, <1>3, <1>4, StepInside, IntAssumption DEF IInv, VarsOK, InHandler,
     RegisterInterruptSource, gic, tables, Sources, Running
<1>7. VarsOK'
  BY <1>1, <1>2, TopKinds, IntAssumption DEF IInv, VarsOK, RegisterInterruptSource, gic,
     tables, timer, waits, cpu, Tpls, Sources, APPLICATION, CALLBACK, NOTIFY, HIGH_LEVEL,
     Running
<1>8. CpuOK' /\ OsOK'
  BY <1>1, <1>5, <1>6, TopKinds, IntAssumption DEF IInv, VarsOK, CpuOK, OsOK,
     RegisterInterruptSource, cpu, Tpls, APPLICATION, CALLBACK, NOTIFY, HIGH_LEVEL, Running
<1>9. QED
  BY <1>6, <1>7, <1>8 DEF IInv

(* Then its source is unmasked or masked, never Block.                     *)
LEMMA RegisteredSourceIInv ==
  ASSUME IInv, RegisteredSource
  PROVE  IInv'
<1> DEFINE f == Frame("app", None, "run", Top.level)
<1>1. Top.kind = "app" /\ Top.step = "source" /\ Top.src \in Drivers
  BY TopKinds DEF RegisteredSource, AppSteps, IrqSteps, NotifySteps
<1>2. Len(stack) = 1 /\ Top.src \in Sources \union {None} /\ Top = stack[1]
  BY <1>1, TopFacts DEF Frames, AppFrames, IrqFrames, NotifyFrames, Top
<1>3. /\ f \in Frames /\ f.kind = "app" /\ f = Frame(f.kind, f.src, f.step, f.level)
      /\ f.step \notin {"func", "arg"}
  BY <1>1, <1>2, TopKinds, FrameIn, IntAssumption DEF AppSteps, Tpls, Sources, Frame,
     APPLICATION, CALLBACK, NOTIFY, HIGH_LEVEL
<1>4. Changes(stack, stack', f)
  <2>a. PICK x, r, st, v : x = Top /\ r = Top.src /\ st = Top.step /\ v = Top.level
    OBVIOUS
  <2>b. x = Frame("app", r, st, v)
    BY <1>1, <2>a, TopFacts
  <2>c. PICK y : y = [x EXCEPT !.step = "run"]
    OBVIOUS
  <2>d. y = Frame("app", r, "run", v)
    BY <2>b, <2>c, StepSet
  <2>e. [y EXCEPT !.src = None] = Frame("app", None, "run", v)
    BY <2>d, SrcSet
  <2>0. [x EXCEPT !.step = "run", !.src = None] = Frame("app", None, "run", v)
    BY <2>c, <2>e
  <2>1. [stack[Len(stack)] EXCEPT !.step = "run", !.src = None] = f
    BY <1>1, <2>a, <2>0 DEF Top
  <2>2. stack' = [stack EXCEPT ![Len(stack)] =
                           [stack[Len(stack)] EXCEPT !.step = "run", !.src = None]]
    BY <1>2, TopFacts DEF RegisteredSource
  <2>3. QED
    BY <2>1, <2>2 DEF Changes
<1>5. f.step = "run" /\ f.level = Top.level
  BY DEF Frame
<1> HIDE DEF f
<1>6. StackOK(stack)' /\ Top' = f /\ HandlersOK' /\ BlockOK' /\ IrqsOK'
  BY <1>1, <1>2, <1>3, <1>4, StepInside, IntAssumption DEF IInv, VarsOK, InHandler,
     RegisteredSource, gic, tables, Sources
<1>7. VarsOK'
  BY <1>1, <1>2, TopKinds, IntAssumption DEF IInv, VarsOK, RegisteredSource, gic, tables,
     timer, waits, cpu, Tpls, Sources, APPLICATION, CALLBACK, NOTIFY, HIGH_LEVEL
<1>8. CpuOK' /\ OsOK'
  BY <1>1, <1>5, <1>6, TopKinds, IntAssumption DEF IInv, VarsOK, CpuOK, OsOK,
     RegisteredSource, cpu, Tpls, APPLICATION, CALLBACK, NOTIFY, HIGH_LEVEL
<1>9. QED
  BY <1>6, <1>7, <1>8 DEF IInv

(* The application or a notification raises its TPL.                       *)
LEMMA RaiseTPLIInv ==
  ASSUME IInv, NEW l \in Levels \union {HIGH_LEVEL}, RaiseTPL(l)
  PROVE  IInv'
<1> DEFINE f == Frame(Top.kind, Top.src, Top.step, l)
<1>1. Top.kind \in Code /\ Top.step = "run" /\ phase = "boot" /\ Top.level < l
  BY DEF RaiseTPL, Running
<1>2. Top.kind = "app" => Top.src \in Sources \union {None}
  BY <1>1, TopFacts DEF Frames, AppFrames, IrqFrames, NotifyFrames
<1>0. l \in Tpls /\ (Top.kind = "notify" => Top.src <= l)
  <2>1. l \in Tpls
    BY LevelsType DEF Tpls, APPLICATION, HIGH_LEVEL
  <2>2. CASE Top.kind = "notify"
    <3>1. Top.src \in Nat /\ Top.level \in Nat /\ l \in Nat /\ Top.src <= Top.level
      BY <2>1, <2>2, TopKinds, LevelsType, TplsType
    <3>2. QED
      BY <1>1, <2>1, <3>1
  <2>3. QED
    BY <2>1, <2>2
<1>3. /\ f \in Frames /\ f.kind = Top.kind /\ f.src = Top.src /\ f.step = "run"
      /\ f.kind # "irq"
  BY <1>1, <1>2, <1>0, TopKinds, FrameIn DEF AppSteps, NotifySteps, Code
<1>4. Changes(stack, stack', f)
  <2>a. PICK x, k, r, st, v :
          x = Top /\ k = Top.kind /\ r = Top.src /\ st = Top.step /\ v = Top.level
    OBVIOUS
  <2>b. x = Frame(k, r, st, v)
    BY <2>a, TopFacts
  <2>0. [x EXCEPT !.level = l] = Frame(k, r, st, l)
    BY <2>b, LevelSet
  <2>1. [stack[Len(stack)] EXCEPT !.level = l] = f
    BY <2>a, <2>0 DEF Top
  <2>2. stack' = [stack EXCEPT ![Len(stack)] =
                           [stack[Len(stack)] EXCEPT !.level = l]]
    BY TopFacts DEF RaiseTPL
  <2>3. QED
    BY <2>1, <2>2 DEF Changes
<1>5. f.step = Top.step /\ f.level = l
  BY DEF Frame
<1> HIDE DEF f
<1>6. StackOK(stack)' /\ Top' = f /\ HandlersOK' /\ BlockOK' /\ IrqsOK'
  BY <1>1, <1>2, <1>3, <1>4, <1>0, StepInside, IntAssumption DEF IInv, VarsOK, InHandler,
     RaiseTPL, gic, tables, Sources, Running
<1>7. VarsOK'
  BY <1>1, <1>2, <1>0, TopKinds, IntAssumption DEF IInv, VarsOK, RaiseTPL, gic, tables,
     timer, waits, cpu, Tpls, Sources, APPLICATION, CALLBACK, NOTIFY, HIGH_LEVEL, Running
<1>8. CpuOK' /\ OsOK'
  BY <1>1, <1>5, <1>6, <1>0, TopKinds, IntAssumption DEF IInv, VarsOK, CpuOK, OsOK,
     RaiseTPL, cpu, Tpls, APPLICATION, CALLBACK, NOTIFY, HIGH_LEVEL, Running
<1>9. QED
  BY <1>6, <1>7, <1>8 DEF IInv

(* It restores it, to a TPL above that of everything below.                *)
LEMMA RestoreTPLIInv ==
  ASSUME IInv, RestoreTPL
  PROVE  IInv'
<1> DEFINE f == Frame(Top.kind, Top.src, "restore", OwnTPL)
<1>1. Top.kind \in Code /\ Top.step \in {"run", "last"} /\ phase = "boot" /\ OwnTPL < Top.level
  BY TopKinds, IntAssumption DEF RestoreTPL, Raised, OwnTPL, Tpls, APPLICATION, HIGH_LEVEL
<1>2. Top.kind = "app" => Top.src \in Sources \union {None}
  BY <1>1, TopFacts DEF Frames, AppFrames, IrqFrames, NotifyFrames
<1>0. OwnTPL \in Tpls /\ (Top.kind = "notify" => OwnTPL = Top.src)
  <2>1. CASE Top.kind = "notify"
    BY <2>1, TopKinds, LevelsType DEF OwnTPL
  <2>2. CASE Top.kind # "notify"
    BY <2>2 DEF OwnTPL, Tpls, APPLICATION, HIGH_LEVEL
  <2>3. QED
    BY <2>1, <2>2
<1>3. /\ f \in Frames /\ f.kind = Top.kind /\ f.src = Top.src /\ f.step = "restore"
      /\ f.kind # "irq"
  <2>1. Top.kind = "notify" => Top.src \in Levels /\ Top.src <= OwnTPL
    BY <1>0, TopKinds, LevelsType
  <2>2. QED
    BY <1>1, <1>2, <1>0, <2>1, TopKinds, FrameIn DEF AppSteps, NotifySteps, Code
<1>4. Changes(stack, stack', f)
  <2>a. PICK x, k, r, st, v, w : /\ x = Top /\ k = Top.kind /\ r = Top.src /\ st = Top.step
                                 /\ v = Top.level /\ w = OwnTPL
    OBVIOUS
  <2>b. x = Frame(k, r, st, v)
    BY <2>a, TopFacts
  <2>c. PICK y : y = [x EXCEPT !.level = w]
    OBVIOUS
  <2>d. y = Frame(k, r, st, w)
    BY <2>b, <2>c, LevelSet
  <2>e. [y EXCEPT !.step = "restore"] = Frame(k, r, "restore", w)
    BY <2>d, StepSet
  <2>0. [x EXCEPT !.level = w, !.step = "restore"] = Frame(k, r, "restore", w)
    BY <2>c, <2>e
  <2>1. [stack[Len(stack)] EXCEPT !.level = OwnTPL, !.step = "restore"] = f
    BY <2>a, <2>0 DEF Top
  <2>2. stack' = [stack EXCEPT ![Len(stack)] =
                           [stack[Len(stack)] EXCEPT !.level = OwnTPL, !.step = "restore"]]
    BY TopFacts DEF RestoreTPL
  <2>3. QED
    BY <2>1, <2>2 DEF Changes
<1>5. f.step = "restore" /\ f.level = OwnTPL
  BY DEF Frame
<1> HIDE DEF f
<1>6. StackOK(stack)' /\ Top' = f /\ HandlersOK' /\ BlockOK' /\ IrqsOK'
  BY <1>1, <1>2, <1>3, <1>4, <1>0, StepInside, IntAssumption DEF IInv, VarsOK, InHandler,
     RestoreTPL, gic, tables, Sources, Running
<1>7. VarsOK'
  BY <1>1, <1>2, TopKinds, IntAssumption DEF IInv, VarsOK, RestoreTPL, gic, tables, timer,
     waits, cpu, Tpls, Sources, APPLICATION, CALLBACK, NOTIFY, HIGH_LEVEL, Running
<1>8. CpuOK' /\ OsOK'
  BY <1>1, <1>0, <1>5, <1>6, TopKinds, IntAssumption DEF IInv, VarsOK, CpuOK, OsOK, RestoreTPL,
     cpu, Tpls, APPLICATION, CALLBACK, NOTIFY, HIGH_LEVEL, Running
<1>9. QED
  BY <1>6, <1>7, <1>8 DEF IInv

(* The application is at TPL_NOTIFY when the timer is stopped.             *)
LEMMA ExitBootServicesTimerIInv ==
  ASSUME IInv, ExitBootServicesTimer
  PROVE  IInv'
<1> DEFINE f == Frame("app", Top.src, "off", NOTIFY)
<1>1. Top.kind = "app" /\ Top.step = "run" /\ phase = "boot"
  BY TopKinds DEF ExitBootServicesTimer, AppSteps, IrqSteps, NotifySteps, Running
<1>2. Len(stack) = 1 /\ Top.src \in Sources \union {None} /\ Top = stack[1]
  BY <1>1, TopFacts DEF Frames, AppFrames, IrqFrames, NotifyFrames, Top
<1>3. /\ f \in Frames /\ f.kind = "app" /\ f = Frame(f.kind, f.src, f.step, f.level)
      /\ f.step \notin {"func", "arg"}
  BY <1>1, <1>2, TopKinds, FrameIn, IntAssumption DEF AppSteps, Tpls, Sources, Frame,
     APPLICATION, CALLBACK, NOTIFY, HIGH_LEVEL, Running
<1>4. Changes(stack, stack', f)
  <2>a. PICK x, r, st, v : x = Top /\ r = Top.src /\ st = Top.step /\ v = Top.level
    OBVIOUS
  <2>b. x = Frame("app", r, st, v)
    BY <1>1, <2>a, TopFacts
  <2>c. PICK y : y = [x EXCEPT !.level = NOTIFY]
    OBVIOUS
  <2>d. y = Frame("app", r, st, NOTIFY)
    BY <2>b, <2>c, LevelSet
  <2>e. [y EXCEPT !.step = "off"] = Frame("app", r, "off", NOTIFY)
    BY <2>d, StepSet
  <2>0. [x EXCEPT !.level = NOTIFY, !.step = "off"] = Frame("app", r, "off", NOTIFY)
    BY <2>c, <2>e
  <2>1. [stack[Len(stack)] EXCEPT !.level = NOTIFY, !.step = "off"] = f
    BY <1>1, <2>a, <2>0 DEF Top
  <2>2. stack' = [stack EXCEPT ![Len(stack)] =
                           [stack[Len(stack)] EXCEPT !.level = NOTIFY, !.step = "off"]]
    BY <1>2, TopFacts DEF ExitBootServicesTimer
  <2>3. QED
    BY <2>1, <2>2 DEF Changes
<1>5. f.step = "off" /\ f.level = NOTIFY
  BY DEF Frame
<1> HIDE DEF f
<1>6. StackOK(stack)' /\ Top' = f /\ HandlersOK' /\ BlockOK' /\ IrqsOK'
  BY <1>1, <1>2, <1>3, <1>4, StepInside, IntAssumption DEF IInv, VarsOK, InHandler,
     ExitBootServicesTimer, gic, tables, Sources, Running
<1>7. VarsOK'
  BY <1>1, <1>2, TopKinds, IntAssumption DEF IInv, VarsOK, ExitBootServicesTimer, gic,
     tables, timer, waits, cpu, Tpls, Sources, APPLICATION, CALLBACK, NOTIFY, HIGH_LEVEL,
     Running
<1>8. CpuOK' /\ OsOK'
  BY <1>1, <1>5, <1>6, TopKinds, IntAssumption DEF IInv, VarsOK, CpuOK, OsOK,
     ExitBootServicesTimer, cpu, Tpls, APPLICATION, CALLBACK, NOTIFY, HIGH_LEVEL, Running
<1>9. QED
  BY <1>6, <1>7, <1>8 DEF IInv

(* The first store of a registration: the argument is still another's.     *)
LEMMA StoreFuncIInv ==
  ASSUME IInv, StoreFunc
  PROVE  IInv'
<1> DEFINE f == Frame(Top.kind, Top.src, "func", Top.level)
<1>1. Top.kind = "app" /\ Top.step = "run" /\ phase = "boot" /\ GoStep("func")
  BY TopKinds DEF StoreFunc, AppSteps, IrqSteps, NotifySteps, Running
<1>2. Len(stack) = 1 /\ Top = stack[1]
  BY <1>1, TopFacts DEF Top
<1>3. /\ f \in Frames /\ f.kind = Top.kind /\ f.src = Top.src
      /\ f.step = "func" /\ f.level = Top.level
  BY <1>1, GoStepIn DEF AppSteps
<1>4. Changes(stack, stack', f)
  BY <1>1, GoStepChanges
<1> HIDE DEF f
<1>5. /\ StackOK(stack)' /\ Top' = f /\ HandlersOK' /\ IrqsOK'
      /\ Len(stack') = 1 /\ stack'[1] = f
  BY <1>1, <1>2, <1>3, <1>4, FrameChanged DEF StoreFunc, InHandler, gic
<1>6. VarsOK'
  BY IntAssumption DEF IInv, VarsOK, StoreFunc, gic, timer, waits, cpu, Sources
<1>7. CpuOK' /\ OsOK'
  BY <1>1, <1>3, <1>5 DEF IInv, CpuOK, OsOK, StoreFunc, cpu, Running
<1>8. BlockOK'
  <2>1. BlockOK /\ VarsOK
    BY DEF IInv
  <2>2. /\ gRegisteredInterruptHandlersLK'.func \in Regs
        /\ gRegisteredInterruptHandlersLK'.arg = LK.arg
        /\ gRegisteredInterruptHandlers' = gRegisteredInterruptHandlers /\ enabled' = enabled
    BY <2>1 DEF StoreFunc, gic, VarsOK, LK
  <2>3. QED
    BY <1>1, <1>2, <1>3, <1>5, <2>1, <2>2, IntAssumption DEF BlockOK, LK
<1>9. QED
  BY <1>5, <1>6, <1>7, <1>8 DEF IInv

(* The second: the argument belongs to the function.                       *)
LEMMA StoreArgIInv ==
  ASSUME IInv, StoreArg
  PROVE  IInv'
<1> DEFINE f == Frame(Top.kind, Top.src, "arg", Top.level)
<1>1. Top.kind = "app" /\ Top.step = "func" /\ GoStep("arg")
  BY TopKinds DEF StoreArg, AppSteps, IrqSteps, NotifySteps
<1>2. Len(stack) = 1 /\ Top = stack[1]
  BY <1>1, TopFacts DEF Top
<1>3. /\ f \in Frames /\ f.kind = Top.kind /\ f.src = Top.src
      /\ f.step = "arg" /\ f.level = Top.level
  BY <1>1, GoStepIn DEF AppSteps
<1>4. Changes(stack, stack', f)
  BY <1>1, GoStepChanges
<1> HIDE DEF f
<1>5. /\ StackOK(stack)' /\ Top' = f /\ HandlersOK' /\ IrqsOK'
      /\ Len(stack') = 1 /\ stack'[1] = f
  BY <1>1, <1>2, <1>3, <1>4, FrameChanged DEF StoreArg, InHandler, gic
<1>6. VarsOK'
  BY IntAssumption DEF IInv, VarsOK, StoreArg, gic, timer, waits, cpu, Sources
<1>7. CpuOK' /\ OsOK'
  BY <1>1, <1>3, <1>5 DEF IInv, CpuOK, OsOK, StoreArg, cpu
<1>8. BlockOK'
  <2>1. BlockOK /\ VarsOK
    BY DEF IInv
  <2>2. /\ gRegisteredInterruptHandlersLK'.func = LK.func
        /\ gRegisteredInterruptHandlersLK'.arg = LK.func
        /\ gRegisteredInterruptHandlers' = gRegisteredInterruptHandlers /\ enabled' = enabled
    BY <2>1 DEF StoreArg, gic, VarsOK, LK
  <2>3. QED
    BY <1>1, <1>2, <1>3, <1>5, <2>1, <2>2 DEF BlockOK, LK
<1>9. QED
  BY <1>5, <1>6, <1>7, <1>8 DEF IInv

(* The third: now both do.                                                 *)
LEMMA StoreHandlerIInv ==
  ASSUME IInv, StoreHandler
  PROVE  IInv'
<1> DEFINE f == Frame(Top.kind, Top.src, "run", Top.level)
<1>1. Top.kind = "app" /\ Top.step = "arg" /\ GoStep("run")
  BY TopKinds DEF StoreHandler, AppSteps, IrqSteps, NotifySteps
<1>2. Len(stack) = 1 /\ Top = stack[1]
  BY <1>1, TopFacts DEF Top
<1>3. /\ f \in Frames /\ f.kind = Top.kind /\ f.src = Top.src
      /\ f.step = "run" /\ f.level = Top.level
  BY <1>1, GoStepIn DEF AppSteps
<1>4. Changes(stack, stack', f)
  BY <1>1, GoStepChanges
<1> HIDE DEF f
<1>5. /\ StackOK(stack)' /\ Top' = f /\ HandlersOK' /\ IrqsOK'
      /\ Len(stack') = 1 /\ stack'[1] = f
  BY <1>1, <1>2, <1>3, <1>4, FrameChanged DEF StoreHandler, InHandler, gic
<1>6. VarsOK'
  BY IntAssumption DEF IInv, VarsOK, StoreHandler, gic, timer, waits, cpu, Sources
<1>7. CpuOK' /\ OsOK'
  BY <1>1, <1>3, <1>5 DEF IInv, CpuOK, OsOK, StoreHandler, cpu
<1>8. BlockOK'
  <2>1. BlockOK /\ VarsOK
    BY DEF IInv
  <2>2. /\ gRegisteredInterruptHandlersLK' = gRegisteredInterruptHandlersLK
        /\ gRegisteredInterruptHandlers'[Block] = "LK"
    BY <2>1 DEF StoreHandler, VarsOK, Sources
  <2>3. QED
    BY <1>1, <1>2, <1>3, <1>5, <2>1, <2>2 DEF BlockOK, LK
<1>9. QED
  BY <1>5, <1>6, <1>7, <1>8 DEF IInv

(* The handler's interrupt is ended: its frame is no handler any more.     *)
LEMMA EndOfInterruptIInv ==
  ASSUME IInv, EndOfInterrupt
  PROVE  IInv'
<1> DEFINE f == Frame(Top.kind, Top.src, "return", Top.level)
<1>1. Top.kind = "irq" /\ Top.step = "eoi" /\ InHandler(Top)
  BY TopKinds DEF EndOfInterrupt, AppSteps, NotifySteps, InHandler
<1>2. /\ f \in Frames /\ f.kind = "irq" /\ f.src = Top.src
      /\ f.step = "return" /\ f.level = Top.level
  BY <1>1, GoStepIn DEF IrqSteps
<1>3. Changes(stack, stack', f)
  BY GoStepChanges DEF EndOfInterrupt
<1> HIDE DEF f
<1>4. /\ StackOK(stack') /\ Len(stack') = Len(stack) /\ stack'[Len(stack')] = f
      /\ \A i \in 1 .. Len(stack) - 1 : stack'[i] = stack[i]
      /\ Irqs(stack') = Irqs(stack)
  BY <1>1, <1>2, <1>3, TopChanged DEF IInv, Top
<1>5. Top' = f /\ IrqsOK'
  BY <1>4 DEF IInv, IrqsOK, Top
<1>6. HandlersOK'
  <2>1. active = {Top.src} /\ \A i \in 1 .. Len(stack) - 1 : ~InHandler(stack[i])
    BY <1>1, TopFacts DEF IInv, HandlersOK, Top
  <2>2. active' = {}
    BY <2>1 DEF EndOfInterrupt
  <2>3. \A i \in 1 .. Len(stack') : ~InHandler(stack'[i])
    BY <1>2, <1>4, <2>1, TopFacts DEF InHandler
  <2>4. QED
    BY <2>2, <2>3 DEF HandlersOK
<1>7. VarsOK'
  BY DEF IInv, VarsOK, EndOfInterrupt, tables, timer, waits, cpu
<1>8. CpuOK' /\ OsOK'
  BY <1>1, <1>2, <1>5 DEF IInv, CpuOK, OsOK, EndOfInterrupt, cpu
<1>9. BlockOK'
  <2>1. BlockOK /\ Len(stack) # 1
    BY <1>1, TopFacts DEF IInv
  <2>2. stack'[1] = stack[1]
    BY <1>4, <2>1, TopFacts
  <2>3. \A i \in 1 .. Len(stack') :
          stack'[i].kind = "irq" => stack[i].kind = "irq" /\ stack'[i].src = stack[i].src
    BY <1>1, <1>2, <1>4, TopFacts DEF Top
  <2>4. QED
    BY <1>4, <2>1, <2>2, <2>3 DEF EndOfInterrupt, BlockOK, LK, tables
<1>10. QED
  BY <1>4, <1>5, <1>6, <1>7, <1>8, <1>9 DEF IInv

-----------------------------------------------------------------------------
(* Frames that come and go.                                                *)

(* The interrupts on the stack are finitely many.                          *)
LEMMA IrqsFinite ==
  ASSUME IInv
  PROVE  IsFiniteSet(Irqs(stack))
<1>1. IsFiniteSet(1 .. Len(stack))
  BY TopFacts, FS_Interval
<1>2. Irqs(stack) \subseteq 1 .. Len(stack)
  BY DEF Irqs
<1>3. QED
  BY <1>1, <1>2, FS_Subset

(* The frames under a pushed one stay as they are.                         *)
LEMMA FramePushed ==
  ASSUME IInv, NEW f \in Frames, f.kind # "app", stack' = Append(stack, f),
         Top.level <= f.level, f.kind = "notify" => Top.level < f.src, Under(Top, f),
         gRegisteredInterruptHandlers' = gRegisteredInterruptHandlers,
         gRegisteredInterruptHandlersLK' = gRegisteredInterruptHandlersLK
  PROVE  /\ StackOK(stack)' /\ Top' = f /\ BlockOK'
         /\ Len(stack') = Len(stack) + 1 /\ stack'[Len(stack')] = f
         /\ \A i \in 1 .. Len(stack) : stack'[i] = stack[i]
<1>1. /\ StackOK(stack') /\ Len(stack') = Len(stack) + 1 /\ stack'[Len(stack')] = f
      /\ \A i \in 1 .. Len(stack) : stack'[i] = stack[i]
  <2>1. StackOK(stack) /\ Pushes(stack, stack', f)
    BY DEF IInv, Pushes
  <2>2. QED
    BY <2>1, Pushed DEF Top
<1>2. BlockOK'
  <2>1. BlockOK /\ stack'[1] = stack[1]
    BY <1>1, TopFacts DEF IInv
  <2>2. QED
    BY <2>1 DEF BlockOK, LK
<1>3. QED
  BY <1>1, <1>2 DEF Top

(* A frame that is no handler's returns.                                   *)
LEMMA FramePopped ==
  ASSUME IInv, Top.kind # "app", ~InHandler(Top), Pop, UNCHANGED <<gic, tables>>
  PROVE  /\ StackOK(stack)' /\ HandlersOK' /\ BlockOK' /\ IrqsOK'
         /\ Top' \in Frames /\ Under(Top', Top) /\ Top'.level <= Top.level
<1>1. /\ StackOK(stack') /\ Len(stack') = Len(stack) - 1 /\ Len(stack') >= 1
      /\ \A i \in 1 .. Len(stack) - 1 : stack'[i] = stack[i]
      /\ stack'[Len(stack')] = stack[Len(stack) - 1]
      /\ Under(stack'[Len(stack')], stack[Len(stack)])
      /\ stack'[Len(stack')].level <= stack[Len(stack)].level
  BY Popped DEF IInv, Top, Pop, Pops
<1>2. Top' \in Frames /\ Under(Top', Top) /\ Top'.level <= Top.level
  BY <1>1, StackFacts DEF Top
<1>3. HandlersOK'
  <2>1. HandlersOK /\ ~InHandler(stack[Len(stack)])
    BY DEF IInv, Top
  <2>2. \A i \in 1 .. Len(stack) : i \in 1 .. Len(stack') \/ i = Len(stack)
    BY <1>1, TopFacts
  <2>3. \A i \in 1 .. Len(stack') : i \in 1 .. Len(stack) /\ stack'[i] = stack[i]
    BY <1>1, TopFacts
  <2>4. QED
    BY <2>1, <2>2, <2>3 DEF HandlersOK, gic
<1>4. BlockOK'
  <2>1. BlockOK /\ stack'[1] = stack[1]
    BY <1>1, TopFacts DEF IInv
  <2>2. QED
    BY <2>1 DEF BlockOK, LK, gic, tables
<1>5. IrqsOK'
  <2>1. Irqs(stack') \subseteq Irqs(stack)
    BY <1>1, TopFacts DEF Irqs
  <2>2. IsFiniteSet(Irqs(stack))
    BY IrqsFinite
  <2>3. Cardinality(Irqs(stack')) <= Cardinality(Irqs(stack))
    BY <2>1, <2>2, FS_Subset
  <2>4. Cardinality(Irqs(stack')) \in Nat /\ Cardinality(Irqs(stack)) \in Nat /\ MaxIrqs \in Nat
    BY <2>1, <2>2, FS_Subset, FS_CardinalityType, IntAssumption
  <2>5. QED
    BY <2>3, <2>4 DEF IInv, IrqsOK
<1>6. QED
  BY <1>1, <1>2, <1>3, <1>4, <1>5

(* A notification starts, above the TPL of everything on the stack.        *)
LEMMA DispatchIInv ==
  ASSUME IInv, Dispatch
  PROVE  IInv'
<1>1. PICK l \in Above : /\ stack' = Append(stack, Frame("notify", l, "run", l))
                         /\ tpl' = l /\ queue' = queue \ {l}
  BY DEF Dispatch
<1> DEFINE f == Frame("notify", l, "run", l)
<1>2. l \in Levels /\ l \in Tpls /\ Top.level < l /\ Top.step = "restore"
  BY <1>1, TopKinds, IntAssumption DEF IInv, VarsOK, Above, Dispatch, Tpls, APPLICATION,
     HIGH_LEVEL
<1>3. f \in Frames /\ f.kind = "notify" /\ f.step = "run" /\ f.level = l /\ f.src = l
  BY <1>2, FrameIn DEF NotifySteps, Tpls, APPLICATION, HIGH_LEVEL
<1>4. stack' = Append(stack, f)
  BY <1>1
<1> HIDE DEF f
<1>5. /\ StackOK(stack)' /\ Top' = f /\ BlockOK'
      /\ Len(stack') = Len(stack) + 1 /\ stack'[Len(stack')] = f
      /\ \A i \in 1 .. Len(stack) : stack'[i] = stack[i]
  <2>1. Top.level <= f.level /\ Top.level < f.src /\ Under(Top, f)
    BY <1>2, <1>3, TopKinds DEF Under, Tpls, APPLICATION, HIGH_LEVEL
  <2>2. QED
    BY <1>3, <1>4, <2>1, FramePushed DEF Dispatch, gic, tables
<1>6. \A i \in 1 .. Len(stack') : \/ i \in 1 .. Len(stack) /\ stack'[i] = stack[i]
                                  \/ i = Len(stack) + 1 /\ stack'[i] = f
  BY <1>5, TopFacts
<1>7. HandlersOK'
  <2>1. HandlersOK /\ active' = active /\ ~InHandler(f)
    BY <1>3 DEF IInv, Dispatch, gic, InHandler
  <2>2. \A i \in 1 .. Len(stack) : i \in 1 .. Len(stack')
    BY <1>5, TopFacts
  <2>3. QED
    BY <1>5, <1>6, <2>1, <2>2 DEF HandlersOK
<1>8. IrqsOK'
  <2>1. Irqs(stack') = Irqs(stack)
    BY <1>3, <1>5, <1>6, TopFacts DEF Irqs
  <2>2. QED
    BY <2>1 DEF IInv, IrqsOK
<1>9. VarsOK'
  BY <1>1, <1>2 DEF IInv, VarsOK, Dispatch, gic, tables, timer, waits
<1>10. CpuOK' /\ OsOK'
  BY <1>1, <1>2, <1>3, <1>5 DEF IInv, CpuOK, OsOK, Dispatch, Tpls, APPLICATION, HIGH_LEVEL
<1>11. QED
  BY <1>5, <1>7, <1>8, <1>9, <1>10 DEF IInv

(* Whoever is interrupted has the CPU's interrupts on: no handler is on    *)
(* the stack, for nothing is active.                                       *)
LEMMA AcknowledgeIInv ==
  ASSUME IInv, NEW s \in Sources, Acknowledge(s)
  PROVE  IInv'
<1> DEFINE f == Frame("irq", s, "call", tpl)
<1>1. /\ active = {} /\ s \in enabled /\ active' = {s} /\ enabled' = enabled /\ phase = "boot"
      /\ Top.step \notin {"call", "tick"} /\ tpl' = tpl /\ irqOn' = FALSE
  BY DEF Acknowledge, Forwarded, IInv, CpuOK
<1>2. f \in Frames /\ f.kind = "irq" /\ f.step = "call" /\ f.level = tpl /\ f.src = s
  BY FrameIn DEF IInv, VarsOK, IrqSteps
<1>3. stack' = Append(stack, f)
  BY DEF Acknowledge
<1> HIDE DEF f
<1>4. /\ StackOK(stack)' /\ Top' = f /\ BlockOK'
      /\ Len(stack') = Len(stack) + 1 /\ stack'[Len(stack')] = f
      /\ \A i \in 1 .. Len(stack) : stack'[i] = stack[i]
  <2>1. Top.level <= f.level /\ Under(Top, f)
    BY <1>1, <1>2, TopKinds DEF Under, IInv, CpuOK
  <2>2. QED
    BY <1>1, <1>2, <1>3, <2>1, FramePushed DEF Acknowledge, tables
<1>5. \A i \in 1 .. Len(stack') : \/ i \in 1 .. Len(stack) /\ stack'[i] = stack[i]
                                  \/ i = Len(stack) + 1 /\ stack'[i] = f
  BY <1>4, TopFacts
<1>6. HandlersOK'
  <2>1. \A i \in 1 .. Len(stack) : ~InHandler(stack[i])
    BY <1>1 DEF IInv, HandlersOK
  <2>2. \A i \in 1 .. Len(stack') : InHandler(stack'[i]) => i = Len(stack) + 1 /\ stack'[i] = f
    BY <1>5, <2>1
  <2>3. Len(stack) + 1 \in 1 .. Len(stack') /\ InHandler(stack'[Len(stack) + 1])
    BY <1>2, <1>4, TopFacts DEF InHandler
  <2>4. QED
    BY <1>1, <1>2, <2>2, <2>3 DEF HandlersOK
<1>7. IrqsOK'
  <2>1. Irqs(stack') = Irqs(stack) \union {Len(stack) + 1}
    BY <1>2, <1>4, <1>5, TopFacts DEF Irqs
  <2>2. IsFiniteSet(Irqs(stack))
    BY IrqsFinite
  <2>3. Len(stack) + 1 \notin Irqs(stack)
    BY TopFacts DEF Irqs
  <2>4. Cardinality(Irqs(stack')) = Cardinality(Irqs(stack)) + 1
    BY <2>1, <2>2, <2>3, FS_AddElement
  <2>5. Cardinality(Irqs(stack)) < MaxIrqs
    BY DEF Acknowledge, Irqs
  <2>6. QED
    BY <2>2, <2>4, <2>5, FS_CardinalityType, IntAssumption DEF IrqsOK
<1>8. VarsOK'
  BY <1>1 DEF IInv, VarsOK, Acknowledge, tables, timer, waits
<1>9. CpuOK' /\ OsOK'
  BY <1>1, <1>2, <1>4 DEF IInv, VarsOK, CpuOK, OsOK, Acknowledge, Tpls, APPLICATION,
     HIGH_LEVEL
<1>10. QED
  BY <1>4, <1>6, <1>7, <1>8, <1>9 DEF IInv

(* A notification ends inside the RestoreTPL that started it.              *)
LEMMA NotifyReturnsIInv ==
  ASSUME IInv, NotifyReturns
  PROVE  IInv'
<1>1. Top.kind = "notify" /\ Top.step \in {"run", "last"} /\ tpl = Top.level
  BY TopKinds DEF NotifyReturns, Running, AppSteps, IrqSteps, IInv, CpuOK
<1>2. /\ StackOK(stack)' /\ HandlersOK' /\ BlockOK' /\ IrqsOK'
      /\ Top' \in Frames /\ Under(Top', Top) /\ Top'.level <= Top.level
  BY <1>1, FramePopped DEF NotifyReturns, InHandler
<1>3. VarsOK'
  BY DEF IInv, VarsOK, NotifyReturns, gic, tables, timer, waits, cpu
<1>4. CpuOK' /\ OsOK'
  BY <1>1, <1>2 DEF IInv, CpuOK, OsOK, NotifyReturns, cpu, Under
<1>5. QED
  BY <1>2, <1>3, <1>4 DEF IInv

(* An exception returns to the TPL it was taken at.                        *)
LEMMA InterruptReturnsIInv ==
  ASSUME IInv, InterruptReturns
  PROVE  IInv'
<1>1. Top.kind = "irq" /\ Top.step = "return" /\ tpl = Top.level
  BY TopKinds DEF InterruptReturns, AppSteps, NotifySteps, IInv, CpuOK
<1>2. /\ StackOK(stack)' /\ HandlersOK' /\ BlockOK' /\ IrqsOK'
      /\ Top' \in Frames /\ Under(Top', Top) /\ Top'.level <= Top.level
  BY <1>1, FramePopped DEF InterruptReturns, InHandler
<1>3. VarsOK'
  BY DEF IInv, VarsOK, InterruptReturns, gic, tables, timer, waits
<1>4. CpuOK' /\ OsOK'
  BY <1>1, <1>2 DEF IInv, CpuOK, OsOK, InterruptReturns, Under
<1>5. QED
  BY <1>2, <1>3, <1>4 DEF IInv

-----------------------------------------------------------------------------
(* Initially the invariant holds.                                          *)
LEMMA InitIInv == Init => IInv
<1> SUFFICES ASSUME Init  PROVE IInv
  OBVIOUS
<1> DEFINE f == Frame("app", None, "run", APPLICATION)
<1>1. f \in Frames /\ f.kind = "app" /\ f.step = "run" /\ f.level = APPLICATION
  BY FrameIn DEF AppSteps, Tpls, APPLICATION, HIGH_LEVEL
<1>2. stack = <<f>>
  BY DEF Init
<1> HIDE DEF f
<1>3. StackOK(stack) /\ Len(stack) = 1 /\ stack[1] = f /\ Top = f
  BY <1>1, <1>2 DEF StackOK, Bottom, Rising, Piled, Top
<1>4. VarsOK
  <2>1. /\ gRegisteredInterruptHandlers \in [Sources -> {"none", "LK", "driver"}]
        /\ gRegisteredInterruptHandlersLK \in [func : Regs \union {None}, arg : Regs \union {None}]
    BY DEF Init, InterruptDxeInitialize, InstallAndRegisterInterruptService
  <2>2. enabled = {} /\ active = {} /\ pending \subseteq Sources
    BY DEF Init, InterruptDxeInitialize, GicV2DxeInitialize, GicV3DxeInitialize, Sources
  <2>3. QED
    <3>1. mTimerPeriod \in Periods /\ hwPeriod \in Periods
      BY IntAssumption DEF Init
    <3>2. tpl \in Tpls
      BY DEF Init, Tpls, APPLICATION, HIGH_LEVEL
    <3>3. /\ mTimerNotifyFunction \in BOOLEAN /\ event \in BOOLEAN /\ busy \in BOOLEAN
          /\ irqOn \in BOOLEAN /\ queue \subseteq Levels /\ phase \in {"boot", "os"}
      BY DEF Init
    <3>4. QED
      BY <2>1, <2>2, <3>1, <3>2, <3>3 DEF VarsOK
<1>5. CpuOK /\ OsOK
  BY <1>1, <1>3 DEF Init, CpuOK, OsOK, APPLICATION
<1>6. HandlersOK
  BY <1>1, <1>3 DEF Init, InterruptDxeInitialize, GicV2DxeInitialize, GicV3DxeInitialize,
     HandlersOK, InHandler
<1>7. BlockOK
  BY <1>1, <1>3 DEF Init, InterruptDxeInitialize, InstallAndRegisterInterruptService,
     BlockOK,
     Sources
<1>8. IrqsOK
  <2>1. Irqs(stack) = {}
    BY <1>1, <1>3 DEF Irqs
  <2>2. QED
    BY <2>1, FS_EmptySet, IntAssumption DEF IrqsOK
<1>9. QED
  BY <1>3, <1>4, <1>5, <1>6, <1>7, <1>8 DEF IInv

(* Every step keeps it.                                                    *)
LEMMA NextIInv == IInv /\ [Next]_vars => IInv'
<1> SUFFICES ASSUME IInv, [Next]_vars  PROVE IInv'
  OBVIOUS
<1>1. CASE Registration
  BY <1>1, StoreFuncIInv, StoreArgIInv, StoreHandlerIInv, RegisteredSourceIInv,
     RegisterInterruptSourceIInv, TimerInitializeIInv, TimerDriverRegisterHandlerIInv, UnmaskIInv,
     MaskIInv DEF Registration, GicV2EnableInterruptSource, GicV3EnableInterruptSource,
     GicV2DisableInterruptSource, GicV3DisableInterruptSource
<1>2. CASE Started
  BY <1>2, StoreArgIInv, StoreHandlerIInv, RegisteredSourceIInv, TimerDefaultPeriodIInv,
     SavePeriodIInv, MaskNextIInv, GicV2ExitBootServicesEventIInv,
     GicV3ExitBootServicesEventIInv, RestoreTPLIInv, SignalledIInv, NotifyReturnsIInv,
     DispatchIInv, RestoredIInv, SpuriousInterruptIInv, TimerInterruptHandlerIInv,
     TimerNotifyIInv, BlockInterruptHandlerIInv, EndOfInterruptIInv, InterruptReturnsIInv
     DEF Started, GicV2MasksAll, GicV3MasksAll
<1>3. CASE \/ TimerDriverSetTimerPeriod \/ lkapi_event_wait \/ ExitBootServicesTimer
           \/ \E l \in Levels : SignalEvent(l) \/ RaiseTPL(l)
           \/ RaiseTPL(HIGH_LEVEL)
  BY <1>3, TimerDriverSetTimerPeriodIInv, lkapi_event_waitIInv, ExitBootServicesTimerIInv,
     SignalEventIInv, RaiseTPLIInv
<1>4. CASE \/ TimerRaises \/ BlockRaises \/ \E s \in Drivers : DeviceRaises(s)
           \/ \E s \in Sources : GicV2IrqInterruptHandler(s) \/ GicV3IrqInterruptHandler(s)
  BY <1>4, TimerRaisesIInv, BlockRaisesIInv, DeviceRaisesIInv, AcknowledgeIInv
     DEF GicV2IrqInterruptHandler, GicV3IrqInterruptHandler
<1>5. CASE UNCHANGED vars
  BY <1>5 DEF vars, IInv, VarsOK, CpuOK, HandlersOK, OsOK, BlockOK, IrqsOK, Top, LK
<1>6. QED
  BY <1>1, <1>2, <1>3, <1>4, <1>5 DEF Next

(* The invariant holds in every reachable state.                           *)
THEOREM Invariance == Spec => []IInv
<1>1. QED
  BY InitIInv, NextIInv, PTL DEF Spec

-----------------------------------------------------------------------------
(* What follows from it.                                                   *)

(* Every frame but the application's is an interrupt's, of which there are *)
(* no more than MaxIrqs, or a notification's; of these no two were queued  *)
(* for the same level, since levels rise below each.                       *)
LEMMA StackDepth ==
  ASSUME IInv
  PROVE  Len(stack) \in 1 .. Deepest
<1> DEFINE N == {i \in 1 .. Len(stack) : stack[i].kind = "notify"}
           L == {stack[i].src : i \in N}
<1>1. IsFiniteSet(1 .. Len(stack)) /\ Cardinality(1 .. Len(stack)) = Len(stack)
  BY TopFacts, FS_Interval
<1>2. IsFiniteSet(N) /\ IsFiniteSet(Irqs(stack)) /\ IsFiniteSet({1})
  <2>1. N \subseteq 1 .. Len(stack)
    OBVIOUS
  <2>2. QED
    BY <1>1, <2>1, IrqsFinite, FS_Subset, FS_Singleton
<1>3. 1 .. Len(stack) = (N \union Irqs(stack)) \union {1}
  BY TopFacts, StackFacts, FrameFacts DEF Irqs, IInv, StackOK, Bottom
<1>4. Len(stack) <= Cardinality(N) + Cardinality(Irqs(stack)) + 1
  <2>1. /\ IsFiniteSet(N \union Irqs(stack))
        /\ Cardinality(N \union Irqs(stack))
             = Cardinality(N) + Cardinality(Irqs(stack)) - Cardinality(N \intersect Irqs(stack))
    BY <1>2, FS_Union
  <2>2. Cardinality(1 .. Len(stack)) = Cardinality(N \union Irqs(stack)) + Cardinality({1})
                                       - Cardinality((N \union Irqs(stack)) \intersect {1})
    BY <1>2, <1>3, <2>1, FS_Union
  <2>3. Cardinality({1}) = 1
    BY FS_Singleton
  <2>4. /\ Cardinality(N \intersect Irqs(stack)) \in Nat
        /\ Cardinality((N \union Irqs(stack)) \intersect {1}) \in Nat
        /\ Cardinality(N) \in Nat /\ Cardinality(Irqs(stack)) \in Nat
    BY <1>2, <2>1, FS_Intersection, FS_CardinalityType
  <2>5. QED
    <3> DEFINE n == Cardinality(N)
               q == Cardinality(Irqs(stack))
               u == Cardinality(N \union Irqs(stack))
               x == Cardinality(N \intersect Irqs(stack))
               y == Cardinality((N \union Irqs(stack)) \intersect {1})
               z == Len(stack)
    <3>1. /\ n \in Nat /\ q \in Nat /\ x \in Nat /\ y \in Nat /\ z \in Nat
          /\ u = n + q - x /\ z = u + 1 - y
      BY <1>1, <2>1, <2>2, <2>3, <2>4, TopFacts
    <3> HIDE DEF n, q, u, x, y, z
    <3>2. z <= n + q + 1
      BY <3>1
    <3>3. QED
      BY <3>2 DEF n, q, z
<1>5. Cardinality(N) <= Cardinality(Levels) /\ Cardinality(Levels) \in Nat
  <2>1. IsFiniteSet(Levels)
    <3>0. 2 \in Int /\ 3 \in Int
      OBVIOUS
    <3>1. IsFiniteSet(2 .. 3)
      BY <3>0, FS_Interval
    <3>2. QED
      BY <3>1, IntAssumption, FS_Subset
  <2>2. DEFINE g == [i \in N |-> stack[i].src]
  <2>3. g \in Injection(N, Levels)
    <3>1. \A i \in N : /\ stack[i].src \in Levels /\ stack[i].src \in Nat
                      /\ stack[i].level \in Nat /\ stack[i].src <= stack[i].level
      BY StackFacts, FrameFacts, LevelFacts DEF IInv
    <3>2. \A i, j \in N : i < j => stack[i].src < stack[j].src
      <4>1. \A i, j \in N : i < j => stack[i].level < stack[j].src
        BY DEF IInv, StackOK, Rising
      <4>2. QED
        BY <3>1, <4>1
    <3>3. \A i, j \in N : stack[i].src = stack[j].src => i = j
      BY <3>1, <3>2, TopFacts
    <3>4. QED
      BY <3>1, <3>3 DEF Injection, IsInjective
  <2>4. QED
    BY <2>1, <2>3, FS_Injection, FS_CardinalityType
<1>6. Cardinality(Irqs(stack)) <= MaxIrqs /\ Cardinality(Irqs(stack)) \in Nat
  BY <1>2, FS_CardinalityType DEF IInv, IrqsOK
<1>7. Cardinality(N) \in Nat
  BY <1>2, FS_CardinalityType
<1>8. QED
  BY <1>4, <1>5, <1>6, <1>7, TopFacts, IntAssumption DEF Deepest

(* The types, and a depth of the stack that does not depend on how often   *)
(* interrupts come: at most one notification per level, whatever restores  *)
(* the TPL.                                                                *)
THEOREM TypeCorrect == Spec => []TypeOK
<1>1. IInv => TypeOK
  BY StackDepth DEF IInv, VarsOK, TypeOK, Tpls
<1>2. QED
  BY <1>1, Invariance, PTL

(* No handler interrupts another one, though both of TimerInterruptHandler *)
(* and the block device's turn the CPU's interrupts on; what the GIC has   *)
(* active is what the handler on the stack works on, and nothing is left   *)
(* active or unmasked for the OS.                                          *)
THEOREM NoNestedHandlers == Spec => []HandlersNotNested
<1>1. ASSUME IInv  PROVE HandlersNotNested
  <2>1. HandlersOK
    BY <1>1 DEF IInv
  <2>2. active = {stack[i].src : i \in {j \in 1 .. Len(stack) : InHandler(stack[j])}}
    <3>1. CASE \A i \in 1 .. Len(stack) : ~InHandler(stack[i])
      BY <2>1, <3>1 DEF HandlersOK
    <3>2. CASE \E i \in 1 .. Len(stack) : InHandler(stack[i])
      <4>1. PICK i \in 1 .. Len(stack) : InHandler(stack[i])
        BY <3>2
      <4>2. active = {stack[i].src}
        BY <2>1, <4>1 DEF HandlersOK
      <4>3. {j \in 1 .. Len(stack) : InHandler(stack[j])} = {i}
        BY <2>1, <4>1 DEF HandlersOK
      <4>4. QED
        BY <4>2, <4>3
    <3>3. QED
      BY <3>1, <3>2
  <2>3. phase = "os" => active = {} /\ enabled = {} /\ Len(stack) = 1
    <3>1. phase = "os" => Top.step = "exit" /\ enabled = {} /\ Top.kind = "app" /\ Len(stack) = 1
      BY <1>1, TopKinds, TopFacts DEF IInv, OsOK, IrqSteps, NotifySteps
    <3>2. phase = "os" => \A i \in 1 .. Len(stack) : ~InHandler(stack[i])
      <4>1. Top.kind = "app" /\ Len(stack) = 1 => ~InHandler(stack[1])
        BY DEF InHandler, Top
      <4>2. Len(stack) = 1 => \A i \in 1 .. Len(stack) : i = 1
        OBVIOUS
      <4>3. QED
        BY <3>1, <4>1, <4>2
    <3>3. QED
      BY <2>1, <3>1, <3>2 DEF HandlersOK
  <2>4. QED
    BY <2>1, <2>2, <2>3 DEF HandlersNotNested, HandlersOK
<1>2. QED
  BY <1>1, Invariance, PTL

(* A notification runs above the TPL of everything below it, and whoever   *)
(* is interrupted finds the TPL it had.                                    *)
THEOREM TplKept == Spec => []TplDiscipline
<1>1. IInv => TplDiscipline
  BY DEF IInv, StackOK, Rising, CpuOK, TplDiscipline
<1>2. QED
  BY <1>1, Invariance, PTL

(* LKInterruptHandler finds a function for Block and the argument that     *)
(* belongs to it, in the middle of another registration too; only between  *)
(* the first store and the second of one that replaces a handler is the    *)
(* argument still that of the function before.                             *)
THEOREM HandlersRegisteredWhole == Spec => []RegisteredWhole
<1>1. ASSUME IInv, Calling("LK"), Top.src = Block
      PROVE  /\ LK.func # None /\ LK.arg # None
             /\ stack[1].step # "func" => LK.arg = LK.func
  <2>1. gRegisteredInterruptHandlers[Block] = "LK"
    BY <1>1 DEF Calling
  <2>2. QED
    BY <1>1, <2>1 DEF IInv, BlockOK
<1>2. IInv => RegisteredWhole
  BY <1>1 DEF RegisteredWhole, LK
<1>3. QED
  BY <1>2, Invariance, PTL
=============================================================================
