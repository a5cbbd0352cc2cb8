----------------------------- MODULE Interrupts -----------------------------
(***************************************************************************)
(* Interrupts: the GIC drivers of ArmGic, the handlers LittleKernel        *)
(* registers through lkapi_t, TimerDxe's tick and the waits of DxeInit, on *)
(* one CPU.                                                                *)
(*                                                                         *)
(* The CPU runs a stack of frames: the application, and on top of it       *)
(* interrupts and notifications.  The DXE core's RestoreTPL (external)     *)
(* runs the notifications queued above the TPL it goes back to, and turns  *)
(* the CPU's interrupts on -- also when an interrupt handler calls it.     *)
(***************************************************************************)
EXTENDS Naturals, Sequences, FiniteSets

CONSTANTS
  Timer, Block, \* vectors LittleKernel handles: the tick, a block device
  Drivers,      \* vectors of other drivers (RegisterInterruptSource)
  Regs,         \* pairs of function and argument LittleKernel registers
  Periods,      \* timer periods, 0 for off
  Levels,       \* TPLs of the notifications, CALLBACK and NOTIFY
  None,
  Revision,     \* of the GIC: the driver for GICv2 or the one for GICv3 runs
  MaxIrqs       \* bound: interrupts on the stack, returning ones included

ASSUME IntAssumption ==
  /\ Periods \subseteq Nat /\ 0 \in Periods /\ MaxIrqs \in Nat \ {0}
  /\ Levels \subseteq 2 .. 3
  /\ IsFiniteSet(Drivers) /\ Timer # Block /\ Timer \notin Drivers /\ Block \notin Drivers
  /\ None \notin Regs /\ Revision \in {2, 3}

Sources     == {Timer, Block} \union Drivers
APPLICATION == 1
CALLBACK    == 2
NOTIFY      == 3
HIGH_LEVEL  == 4

VARIABLES
  enabled, pending,             \* sources, in the GIC's distributor
  active,                       \* sources acknowledged and not yet ended
  gRegisteredInterruptHandlers, \* per source: "none", "LK" or "driver"
  gRegisteredInterruptHandlersLK,
  mTimerNotifyFunction,         \* registered by the DXE core
  mTimerPeriod, hwPeriod,       \* TimerDxe's period and LittleKernel's
  event,                        \* the event_wait event is signalled
  busy,                         \* the block device works on a request
  stack, tpl, irqOn,            \* the CPU: frames, TPL, interrupts enabled
  queue,                        \* levels with notifications queued
  phase                         \* "boot" or "os"

vars == <<enabled, pending, active, gRegisteredInterruptHandlers,
          gRegisteredInterruptHandlersLK, mTimerNotifyFunction, mTimerPeriod, hwPeriod,
          event, busy, stack, tpl, irqOn, queue, phase>>
gic    == <<enabled, pending, active>>
tables == <<gRegisteredInterruptHandlers, gRegisteredInterruptHandlersLK>>
timer  == <<mTimerNotifyFunction, mTimerPeriod, hwPeriod>>
waits  == <<event, busy>>
cpu    == <<tpl, irqOn>>

(* A frame comes from a source: a vector, or the TPL a notification was    *)
(* queued for.  It runs at its level, between RaiseTPL and RestoreTPL too; *)
(* step "restore" is inside RestoreTPL (or SignalEvent, which ends with    *)
(* it), and "last" after it, when a notification is about to return.       *)
Frame(k, s, st, l) == [kind |-> k, src |-> s, step |-> st, level |-> l]

Top        == stack[Len(stack)]
Running(k) == phase = "boot" /\ Top.kind \in k /\ Top.step = "run"
GoStep(st) == stack' = [stack EXCEPT ![Len(stack)].step = st]
Pop        == stack' = SubSeq(stack, 1, Len(stack) - 1)
Code       == {"app", "notify"}
Deepest    == 1 + Cardinality(Levels) + MaxIrqs

(* Either driver masks every source, gives all of them one priority and    *)
(* routes them to this CPU before it installs its handler.                 *)
GicV2DxeInitialize == Revision = 2 /\ enabled = {} /\ active = {}
GicV3DxeInitialize == Revision = 3 /\ enabled = {} /\ active = {}

InstallAndRegisterInterruptService ==
  /\ gRegisteredInterruptHandlers = [s \in Sources |-> "none"]
  /\ gRegisteredInterruptHandlersLK = [func |-> None, arg |-> None]

InterruptDxeInitialize ==
  /\ GicV2DxeInitialize \/ GicV3DxeInitialize
  /\ InstallAndRegisterInterruptService

Init ==
  /\ InterruptDxeInitialize
  /\ pending \in {{}, {Block}}   \* LittleKernel used the device before
  /\ mTimerNotifyFunction = FALSE /\ mTimerPeriod = 0 /\ hwPeriod = 0
  /\ event = FALSE /\ busy = FALSE
  /\ stack = <<Frame("app", None, "run", APPLICATION)>>
  /\ tpl = APPLICATION /\ irqOn = TRUE
  /\ queue = {} /\ phase = "boot"

-----------------------------------------------------------------------------
(* Registration, before the vector is unmasked or after.                   *)

(* Mutant of StoreFunc: the vector is handed over before its handler.      *)
StoreFuncLast ==
  /\ Running({"app"})
  /\ \E r \in Regs : gRegisteredInterruptHandlersLK' =
                       [gRegisteredInterruptHandlersLK EXCEPT !.func = r]
  /\ gRegisteredInterruptHandlers' = [gRegisteredInterruptHandlers EXCEPT ![Block] = "LK"]
  /\ GoStep("func")
  /\ UNCHANGED <<gic, timer, waits, cpu, queue, phase>>

(* lkapi_int_register_handler (Block, ..) in its three assignments.        *)
StoreFunc ==
  /\ Running({"app"})
  /\ \E r \in Regs : gRegisteredInterruptHandlersLK' =
                       [gRegisteredInterruptHandlersLK EXCEPT !.func = r]
  /\ GoStep("func")
  /\ UNCHANGED <<gic, gRegisteredInterruptHandlers, timer, waits, cpu, queue, phase>>

StoreArg ==
  /\ Top.step = "func"
  /\ gRegisteredInterruptHandlersLK' =
       [gRegisteredInterruptHandlersLK EXCEPT !.arg = gRegisteredInterruptHandlersLK.func]
  /\ GoStep("arg")
  /\ UNCHANGED <<gic, gRegisteredInterruptHandlers, timer, waits, cpu, queue, phase>>

StoreHandler ==
  /\ Top.step = "arg"
  /\ gRegisteredInterruptHandlers' = [gRegisteredInterruptHandlers EXCEPT ![Block] = "LK"]
  /\ GoStep("run")
  /\ UNCHANGED <<gic, gRegisteredInterruptHandlersLK, timer, waits, cpu, queue, phase>>

(* lkapi_int_mask, lkapi_int_unmask, and a driver's direct calls; Block's  *)
(* driver is the application.                                              *)
Masks(s) == IF s = Block THEN {"app"} ELSE Code

Unmask(s) ==
  /\ Running(Masks(s))
  /\ enabled' = enabled \union {s}
  /\ UNCHANGED <<pending, active, tables, timer, waits, stack, cpu, queue, phase>>

Mask(s) ==
  /\ Running(Masks(s))
  /\ enabled' = enabled \ {s}
  /\ UNCHANGED <<pending, active, tables, timer, waits, stack, cpu, queue, phase>>

GicV2EnableInterruptSource(s)  == Revision = 2 /\ Unmask(s)
GicV3EnableInterruptSource(s)  == Revision = 3 /\ Unmask(s)
GicV2DisableInterruptSource(s) == Revision = 2 /\ Mask(s)
GicV3DisableInterruptSource(s) == Revision = 3 /\ Mask(s)

(* RegisterInterruptSource stores or clears the handler, then unmasks or   *)
(* masks the vector.  It refuses to do either twice.                       *)
RegisterInterruptSource(s) ==
  /\ Running({"app"})
  /\ gRegisteredInterruptHandlers' =
       [gRegisteredInterruptHandlers EXCEPT ![s] = IF @ = "none" THEN "driver" ELSE "none"]
  /\ stack' = [stack EXCEPT ![Len(stack)].step = "source", ![Len(stack)].src = s]
  /\ UNCHANGED <<gic, gRegisteredInterruptHandlersLK, timer, waits, cpu, queue, phase>>

RegisteredSource ==
  /\ Top.step = "source"
  /\ enabled' = IF gRegisteredInterruptHandlers[Top.src] = "none" THEN enabled \ {Top.src}
                                                                 ELSE enabled \union {Top.src}
  /\ stack' = [stack EXCEPT ![Len(stack)].step = "run", ![Len(stack)].src = None]
  /\ UNCHANGED <<pending, active, tables, timer, waits, cpu, queue, phase>>

-----------------------------------------------------------------------------
(* The timer.                                                              *)

(* TimerInitialize: LittleKernel registers the vector and unmasks it; then *)
(* the default period is set.                                              *)
TimerInitialize ==
  /\ Running({"app"}) /\ gRegisteredInterruptHandlers[Timer] = "none"
  /\ gRegisteredInterruptHandlers' = [gRegisteredInterruptHandlers EXCEPT ![Timer] = "LK"]
  /\ enabled' = enabled \union {Timer}
  /\ GoStep("init")
  /\ UNCHANGED <<pending, active, gRegisteredInterruptHandlersLK, timer, waits, cpu, queue,
                 phase>>

TimerDefaultPeriod ==
  /\ Top.step = "init"
  /\ \E p \in Periods \ {0} : hwPeriod' = p
  /\ GoStep("period")
  /\ UNCHANGED <<gic, tables, mTimerNotifyFunction, mTimerPeriod, waits, cpu, queue,
                 phase>>

(* Refused if it would register or unregister twice.                       *)
TimerDriverRegisterHandler ==
  /\ Running({"app"}) /\ gRegisteredInterruptHandlers[Timer] = "LK"
  /\ mTimerNotifyFunction' = ~mTimerNotifyFunction
  /\ UNCHANGED <<gic, tables, mTimerPeriod, hwPeriod, waits, stack, cpu, queue, phase>>

(* LKApi->timer_set_period, then the assignment.                           *)
TimerDriverSetTimerPeriod ==
  /\ Running({"app"}) /\ gRegisteredInterruptHandlers[Timer] = "LK"
  /\ \E p \in Periods : hwPeriod' = p
  /\ GoStep("period")
  /\ UNCHANGED <<gic, tables, mTimerNotifyFunction, mTimerPeriod, waits, cpu, queue,
                 phase>>

SavePeriod ==
  /\ Top.step \in {"period", "off"}
  /\ mTimerPeriod' = hwPeriod
  /\ GoStep(IF Top.step = "off" THEN "exit" ELSE "run")
  /\ UNCHANGED <<gic, tables, mTimerNotifyFunction, hwPeriod, waits, cpu, queue, phase>>

-----------------------------------------------------------------------------
(* What code does: events, TPLs, a request to the block device.  Chains of *)
(* notifications end: one signals upwards only, and at most once.          *)
SignalEvent(l) ==
  /\ Running(Code) /\ (Top.kind = "notify" => Top.src < l)
  /\ queue' = queue \union {l} /\ GoStep("restore")
  /\ UNCHANGED <<gic, tables, timer, waits, cpu, phase>>

(* Where the code that runs began.                                         *)
OwnTPL == IF Top.kind = "notify" THEN Top.src ELSE APPLICATION
Raised == Top.level > OwnTPL

RaiseTPL(l) ==
  /\ Running(Code) /\ Top.level < l
  /\ stack' = [stack EXCEPT ![Len(stack)].level = l]
  /\ tpl' = l /\ irqOn' = (l < HIGH_LEVEL)
  /\ UNCHANGED <<gic, tables, timer, waits, queue, phase>>

RestoreTPL ==
  /\ phase = "boot" /\ Top.kind \in Code /\ Top.step \in {"run", "last"} /\ Raised
  /\ stack' = [stack EXCEPT ![Len(stack)].level = OwnTPL, ![Len(stack)].step = "restore"]
  /\ UNCHANGED <<gic, tables, timer, waits, cpu, queue, phase>>

(* LittleKernel starts a request on a ready device and calls event_wait.   *)
(* A signal from before is still there: the wait ends at once then.        *)
lkapi_event_wait ==
  /\ Running({"app"}) /\ Top.level = APPLICATION
  /\ gRegisteredInterruptHandlers[Block] = "LK" /\ Block \in enabled
  /\ busy' = TRUE /\ GoStep("wait")
  /\ UNCHANGED <<gic, tables, timer, event, cpu, queue, phase>>

Signalled ==
  /\ Top.step = "wait" /\ event
  /\ event' = FALSE /\ GoStep("run")
  /\ UNCHANGED <<gic, tables, timer, busy, cpu, queue, phase>>

NotifyReturns ==
  /\ Running({"notify"}) \/ Top.step = "last"
  /\ ~Raised
  /\ Pop
  /\ UNCHANGED <<gic, tables, timer, waits, cpu, queue, phase>>

(* Inside RestoreTPL: the highest queued level above the frame's runs.     *)
Above == {l \in queue : l > Top.level}

Dispatch ==
  /\ Top.step = "restore"
  /\ \E l \in Above :
       /\ \A k \in Above : k <= l
       /\ stack' = Append(stack, Frame("notify", l, "run", l))
       /\ tpl' = l /\ queue' = queue \ {l}
  /\ irqOn' = TRUE
  /\ UNCHANGED <<gic, tables, timer, waits, phase>>

Restored ==
  /\ Top.step = "restore" /\ Above = {}
  /\ tpl' = Top.level /\ irqOn' = (Top.level < HIGH_LEVEL)
  /\ GoStep(CASE Top.kind = "app"    -> "run"
              [] Top.kind = "notify" -> "last"
              [] Top.kind = "irq"    -> "eoi")
  /\ UNCHANGED <<gic, tables, timer, waits, queue, phase>>

-----------------------------------------------------------------------------
(* An interrupt.                                                           *)

(* The devices.                                                            *)
TimerRaises ==
  /\ phase = "boot" /\ hwPeriod # 0 /\ Timer \notin pending
  /\ pending' = pending \union {Timer}
  /\ UNCHANGED <<enabled, active, tables, timer, waits, stack, cpu, queue, phase>>

BlockRaises ==
  /\ phase = "boot" /\ busy
  /\ pending' = pending \union {Block} /\ busy' = FALSE
  /\ UNCHANGED <<enabled, active, tables, timer, event, stack, cpu, queue, phase>>

DeviceRaises(s) ==
  /\ phase = "boot" /\ s \notin pending
  /\ pending' = pending \union {s}
  /\ UNCHANGED <<enabled, active, tables, timer, waits, stack, cpu, queue, phase>>

(* The GIC signals nothing while an interrupt is active: all have the same *)
(* priority, and the binary point allows no preemption.                    *)
Forwarded == IF active = {} THEN pending \intersect enabled ELSE {}

(* The handler acknowledges what the GIC has signalled ..                  *)
Acknowledge(s) ==
  /\ phase = "boot" /\ irqOn /\ s \in Forwarded
  /\ Cardinality({i \in 1 .. Len(stack) : stack[i].kind = "irq"}) < MaxIrqs
  /\ pending' = pending \ {s} /\ active' = {s}
  /\ stack' = Append(stack, Frame("irq", s, "call", tpl))
  /\ irqOn' = FALSE
  /\ UNCHANGED <<enabled, tables, timer, waits, tpl, queue, phase>>

GicV2IrqInterruptHandler(s) == Revision = 2 /\ Acknowledge(s)
GicV3IrqInterruptHandler(s) == Revision = 3 /\ Acknowledge(s)

(* .. and calls the handler registered for it.                             *)
Calling(h) == Top.step = "call" /\ gRegisteredInterruptHandlers[Top.src] = h

(* Mutant of SpuriousInterrupt: the interrupt is not ended.                *)
SpuriousInterruptKept ==
  /\ Calling("none")
  /\ GoStep("return")
  /\ UNCHANGED <<gic, tables, timer, waits, cpu, queue, phase>>

(* Nobody handles it: it is ended.  A driver's handler ends it too.        *)
SpuriousInterrupt ==
  /\ Calling("none") \/ Calling("driver")
  /\ GoStep("eoi")
  /\ UNCHANGED <<gic, tables, timer, waits, cpu, queue, phase>>

(* Mutant of EndOfInterrupt's place: ended before the handler runs.        *)
TimerInterruptHandlerEndsFirst ==
  /\ Calling("LK") /\ Top.src = Timer
  /\ tpl' = HIGH_LEVEL /\ active' = {}
  /\ GoStep("tick")
  /\ UNCHANGED <<enabled, pending, tables, timer, waits, irqOn, queue, phase>>

(* Mutant of TimerInterruptHandler: the TPL is not raised.                 *)
TimerInterruptHandlerLow ==
  /\ Calling("LK") /\ Top.src = Timer
  /\ GoStep("tick")
  /\ UNCHANGED <<gic, tables, timer, waits, cpu, queue, phase>>

(* LKInterruptHandler calls the function LittleKernel registered: for the  *)
(* tick it is TimerInterruptHandler, which raises the TPL ..               *)
TimerInterruptHandler ==
  /\ Calling("LK") /\ Top.src = Timer
  /\ tpl' = HIGH_LEVEL
  /\ GoStep("tick")
  /\ UNCHANGED <<gic, tables, timer, waits, irqOn, queue, phase>>

(* Mutant of TimerNotify: the TPL is not restored.                         *)
TimerNotifyUnrestored ==
  /\ Top.step = "tick"
  /\ IF mTimerNotifyFunction THEN \E L \in SUBSET Levels : queue' = queue \union L
                             ELSE UNCHANGED queue
  /\ GoStep("eoi")
  /\ UNCHANGED <<gic, tables, timer, waits, cpu, phase>>

(* Mutant of TimerNotify: it restores TPL_APPLICATION, not OriginalTPL.    *)
TimerNotifyToApplication ==
  /\ Top.step = "tick"
  /\ IF mTimerNotifyFunction THEN \E L \in SUBSET Levels : queue' = queue \union L
                             ELSE UNCHANGED queue
  /\ stack' = [stack EXCEPT ![Len(stack)].step = "restore", ![Len(stack)].level = APPLICATION]
  /\ UNCHANGED <<gic, tables, timer, waits, cpu, phase>>

(* .. calls the DXE core, which queues what is due, and restores the TPL.  *)
TimerNotify ==
  /\ Top.step = "tick"
  /\ IF mTimerNotifyFunction THEN \E L \in SUBSET Levels : queue' = queue \union L
                             ELSE UNCHANGED queue
  /\ GoStep("restore")
  /\ UNCHANGED <<gic, tables, timer, waits, cpu, phase>>

(* The block device's signals the event that its driver waits for.         *)
BlockInterruptHandler ==
  /\ Calling("LK") /\ Top.src = Block
  /\ event' = TRUE /\ GoStep("restore")
  /\ UNCHANGED <<gic, tables, timer, busy, cpu, queue, phase>>

(* LKInterruptHandler ends the interrupt after the function has returned.  *)
EndOfInterrupt ==
  /\ Top.step = "eoi"
  /\ active' = active \ {Top.src}
  /\ GoStep("return")
  /\ UNCHANGED <<enabled, pending, tables, timer, waits, cpu, queue, phase>>

(* The exception returns; the interrupted code had interrupts enabled.     *)
InterruptReturns ==
  /\ Top.step = "return"
  /\ Pop /\ irqOn' = TRUE
  /\ UNCHANGED <<gic, tables, timer, waits, tpl, queue, phase>>

-----------------------------------------------------------------------------
(* ExitBootServices, at TPL_NOTIFY: TimerDxe stops the timer, then the GIC *)
(* driver masks one source after another.  The CPU's interrupts are on: a  *)
(* source that is not masked yet still interrupts.                         *)
ExitBootServicesTimer ==
  /\ Running({"app"}) /\ Top.level = APPLICATION
  /\ stack' = [stack EXCEPT ![1].level = NOTIFY, ![1].step = "off"]
  /\ tpl' = NOTIFY /\ hwPeriod' = 0
  /\ UNCHANGED <<gic, tables, mTimerNotifyFunction, mTimerPeriod, waits, irqOn, queue,
                 phase>>

MaskNext ==
  /\ Top.step = "exit"
  /\ \E s \in enabled : enabled' = enabled \ {s}
  /\ UNCHANGED <<pending, active, tables, timer, waits, stack, cpu, queue, phase>>

GicV2MasksAll == Revision = 2 /\ MaskNext
GicV3MasksAll == Revision = 3 /\ MaskNext

(* GICv2: acknowledge and end what is signalled, until nothing is; then    *)
(* the GIC is off.                                                         *)
GicV2ExitBootServicesEvent ==
  /\ Revision = 2 /\ Top.step = "exit" /\ enabled = {}
  /\ pending' = pending \ Forwarded
  /\ phase' = "os"
  /\ UNCHANGED <<enabled, active, tables, timer, waits, stack, cpu, queue>>

(* GICv3: nothing is acknowledged, every source is ended.                  *)
GicV3ExitBootServicesEvent ==
  /\ Revision = 3 /\ Top.step = "exit" /\ enabled = {}
  /\ active' = {}
  /\ phase' = "os"
  /\ UNCHANGED <<enabled, pending, tables, timer, waits, stack, cpu, queue>>

-----------------------------------------------------------------------------
Registration ==
  \/ StoreFunc \/ StoreArg \/ StoreHandler
  \/ RegisteredSource \/ \E s \in Drivers : RegisterInterruptSource(s)
  \/ TimerInitialize \/ TimerDriverRegisterHandler
  \/ \E s \in Sources : \/ GicV2EnableInterruptSource(s) \/ GicV2DisableInterruptSource(s)
                         \/ GicV3EnableInterruptSource(s) \/ GicV3DisableInterruptSource(s)

Started ==    \* what goes on once it has begun
  \/ StoreArg \/ StoreHandler \/ RegisteredSource \/ TimerDefaultPeriod \/ SavePeriod
  \/ GicV2MasksAll \/ GicV3MasksAll \/ GicV2ExitBootServicesEvent \/ GicV3ExitBootServicesEvent
  \/ RestoreTPL \/ Signalled \/ NotifyReturns \/ Dispatch \/ Restored
  \/ SpuriousInterrupt \/ TimerInterruptHandler \/ TimerNotify \/ BlockInterruptHandler
  \/ EndOfInterrupt \/ InterruptReturns

Next ==
  \/ Registration \/ Started
  \/ TimerDriverSetTimerPeriod \/ lkapi_event_wait \/ ExitBootServicesTimer
  \/ \E l \in Levels : SignalEvent(l) \/ RaiseTPL(l)
  \/ RaiseTPL(HIGH_LEVEL)
  \/ TimerRaises \/ BlockRaises \/ \E s \in Drivers : DeviceRaises(s)
  \/ \E s \in Sources : GicV2IrqInterruptHandler(s) \/ GicV3IrqInterruptHandler(s)

Spec == Init /\ [][Next]_vars

(***************************************************************************)
(* Every frame goes on, however often it is interrupted (interrupts are    *)
(* rare against the code's speed), code that raised the TPL restores it,   *)
(* the block device finishes its requests, and the GIC does not pass over  *)
(* its interrupt for ever.                                                 *)
(***************************************************************************)
FairSpec ==
  /\ Spec
  /\ \A d \in 1 .. Deepest : SF_vars(Len(stack) = d /\ Started)
  /\ SF_vars(RestoreTPL) /\ WF_vars(BlockRaises)
  /\ SF_vars(Acknowledge(Block))

-----------------------------------------------------------------------------
(* Properties.                                                             *)
InHandler(f) == f.kind = "irq" /\ f.step # "return"

(* Types, and the depth of the stack: interrupts and notifications on top  *)
(* of each other do not exhaust it, for a handler restores the TPL that it *)
(* raised from.                                                            *)
TypeOK ==
  /\ enabled \subseteq Sources /\ pending \subseteq Sources /\ active \subseteq Sources
  /\ gRegisteredInterruptHandlers \in [Sources -> {"none", "LK", "driver"}]
  /\ gRegisteredInterruptHandlersLK \in [func : Regs \union {None}, arg : Regs \union {None}]
  /\ mTimerNotifyFunction \in BOOLEAN
  /\ mTimerPeriod \in Periods /\ hwPeriod \in Periods
  /\ event \in BOOLEAN /\ busy \in BOOLEAN /\ irqOn \in BOOLEAN
  /\ Len(stack) \in 1 .. Deepest /\ tpl \in APPLICATION .. HIGH_LEVEL
  /\ queue \subseteq Levels /\ phase \in {"boot", "os"}

(* Though RestoreTPL turns interrupts on inside a handler, no handler is   *)
(* interrupted by another one before it is done: LKInterruptHandler ends   *)
(* the interrupt last.  And none is left active, when the application runs *)
(* alone or for the OS, which gets every source masked.                    *)
HandlersNotNested ==
  /\ \A i, j \in 1 .. Len(stack) : InHandler(stack[i]) /\ InHandler(stack[j]) => i = j
  /\ active = {stack[i].src : i \in {j \in 1 .. Len(stack) : InHandler(stack[j])}}
  /\ phase = "os" => active = {} /\ enabled = {} /\ Len(stack) = 1

(* No notification runs on top of code at its own TPL or above, of another *)
(* notification of its level in particular, and every interrupt returns to *)
(* the TPL it came from; the tick is notified at TPL_HIGH_LEVEL.           *)
TplDiscipline ==
  /\ \A i, j \in 1 .. Len(stack) :
       i < j /\ stack[j].kind = "notify" => stack[i].level < stack[j].src
  /\ Top.step \notin {"restore", "tick"} => tpl = Top.level
  /\ Top.step = "tick" => tpl = HIGH_LEVEL /\ ~irqOn

(* LKInterruptHandler's assertion: it finds a function; and it calls it    *)
(* with the argument registered with it, or with that of the function      *)
(* before while one is being replaced on a vector that is not masked.      *)
RegisteredWhole ==
  Calling("LK") /\ Top.src = Block =>
    /\ gRegisteredInterruptHandlersLK.func # None
    /\ gRegisteredInterruptHandlersLK.arg # None
    /\ stack[1].step # "func" =>
         gRegisteredInterruptHandlersLK.arg = gRegisteredInterruptHandlersLK.func

(* A driver that waits for its device is woken.                            *)
WaitEnds == (Top.step = "wait" /\ busy) ~> (Len(stack) = 1 /\ Top.step = "run")

(* What is queued runs, once the application has restored its TPL.         *)
QueuedRuns == \A l \in Levels : l \in queue ~> l \notin queue \/ phase = "os"
=============================================================================
