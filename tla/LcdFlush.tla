------------------------------ MODULE LcdFlush ------------------------------
(***************************************************************************)
(* When what was drawn reaches the panel: Blt, the LKDisplay protocol and  *)
(* the 30 Hz timer of LcdGraphicsOutputDxe, on a display that needs        *)
(* flushes (lcd_needs_flush) and draws straight into its VRAM.             *)
(*                                                                         *)
(* Code runs at TPL_APPLICATION ("app") or, interrupting it, at            *)
(* TPL_CALLBACK ("callback": the timer's handler, or another driver's);    *)
(* RaiseTPL (TPL_NOTIFY) keeps the other one out.  Times are kept relative *)
(* to now: how long ago the last flush ended, how long ago a call read the *)
(* clock.  The driver's entry point runs at TPL_APPLICATION: callbacks may *)
(* find the protocols before it is done.                                   *)
(***************************************************************************)
EXTENDS Naturals

CONSTANTS
  FixedVram,   \* LittleKernel names the VRAM (lcd_get_vram_address # 0)
  MaxRender,   \* bound: how long lcd_flush takes
  MaxVram,     \* bound: how often a frame buffer is allocated
  MaxDelay     \* bound: how long a call waits between two of its steps

ASSUME LcdAssumption ==
  /\ FixedVram \in BOOLEAN
  /\ MaxRender \in Nat \ {0} /\ MaxVram \in Nat \ {0} /\ MaxDelay \in Nat

Contexts  == {"app", "callback"}
(* RenderTime is at most Long, unless Now was never read: then it is the   *)
(* time since power-on, which Long stands for; Never is later than both.   *)
Long  == MaxDelay + MaxRender
Never == Long + MaxDelay

VARIABLES
  driver,               \* entry point: "entry", "installed", "running", "failed", or
                        \* "untimed": it runs without its timer
  gLCDFlushMode,        \* "AUTO" or "MANUAL"
  gLcdNeedsSync,
  mDisplayInitialized,
  vram,                 \* allocations made for the frame buffer
  sinceFlush,           \* time since mLastFlush, Never if it is longer
  RenderTime,
  pc,                   \* where each context is
  age,                  \* time since the context read Now
  timer,                \* mTimerEvent is signalled
  phase,                \* "boot" or "os"
  dirty,                \* the frame buffer differs from the panel
  manual                \* history: some of that was drawn in MANUAL mode, or before
                        \* the driver knew that the display needs flushes

vars == <<driver, gLCDFlushMode, gLcdNeedsSync, mDisplayInitialized, vram, sinceFlush, RenderTime,
          pc, age, timer, phase, dirty, manual>>
display == <<driver, gLCDFlushMode, mDisplayInitialized, vram>>
clock   == <<sinceFlush, RenderTime>>
screen  == <<dirty, manual>>

AtLeast(a, b) == IF a <= b THEN a ELSE b

(* Mutant: Blt does not raise the TPL.                                     *)
AtNotifyNever(c) == FALSE

(* Inside Blt the context is at TPL_NOTIFY.                                *)
AtNotify(c) == pc[c] \in {"draw", "drawn"}

(* Only boot code runs; a callback waits for TPL_NOTIFY to end, and TPL    *)
(* APPLICATION for the callbacks, those signalled and not begun included.  *)
Runs(c) ==
  /\ phase = "boot"
  /\ c = "callback" => ~AtNotify("app")
  /\ c = "app" => pc["callback"] = "idle" /\ (timer => AtNotify("app"))

Goto(c, l) == pc' = [pc EXCEPT ![c] = l]

gDisplayNeedsFlush == driver \in {"running", "untimed"}

Init ==
  /\ driver = "entry"
  /\ gLCDFlushMode = "AUTO" /\ gLcdNeedsSync = FALSE
  /\ mDisplayInitialized = FALSE /\ vram = 0
  /\ sinceFlush = Never /\ RenderTime = 0
  /\ pc = [c \in Contexts |-> "idle"] /\ age = [c \in Contexts |-> 0]
  /\ timer = FALSE /\ phase = "boot"
  /\ dirty = FALSE /\ manual = FALSE

-----------------------------------------------------------------------------
(* LcdGraphicsOutputDxeInitialize: the instance and its protocols, then    *)
(* the exit event, gDisplayNeedsFlush and the timer.  Without the exit     *)
(* event the protocols are uninstalled; a timer that cannot be created or  *)
(* set is only asserted: a release build goes on without it.               *)
InstallProtocols ==
  /\ Runs("app") /\ driver = "entry"
  /\ driver' \in {"installed", "failed"}
  /\ UNCHANGED <<gLCDFlushMode, mDisplayInitialized, vram, gLcdNeedsSync, clock, pc, age, timer,
                 phase, screen>>

CreateEvents ==
  /\ Runs("app") /\ driver = "installed"
  /\ driver' \in {"running", "untimed", "failed"}
  /\ UNCHANGED <<gLCDFlushMode, mDisplayInitialized, vram, gLcdNeedsSync, clock, pc, age, timer,
                 phase, screen>>

-----------------------------------------------------------------------------
(* QueryMode, SetMode and Blt initialise the display on first use.         *)

(* Mutant of VramAvailable: a named address is never refused.              *)
VramAvailableAlways == vram < MaxVram

(* AllocatePages refuses a named address that is taken.                    *)
VramAvailable == vram < MaxVram /\ (FixedVram => vram = 0)

(* The call fails without pages, and also if the pages' attributes cannot  *)
(* be set: the pages are lost then.                                        *)
InitializeDisplay(c) ==
  /\ Runs(c) /\ pc[c] = "idle" /\ ~mDisplayInitialized
  /\ \/ /\ VramAvailable
        /\ vram' = vram + 1
        /\ Goto(c, "init") \/ UNCHANGED pc
     \/ UNCHANGED <<vram, pc>>
  /\ UNCHANGED <<driver, gLCDFlushMode, mDisplayInitialized, gLcdNeedsSync, clock, age, timer,
                 phase, screen>>

(* QueryMode ends here; SetMode clears the screen with Blt.                *)
Initialized(c) ==
  /\ Runs(c) /\ pc[c] = "init"
  /\ mDisplayInitialized' = TRUE
  /\ Goto(c, "idle") \/ Goto(c, "draw")
  /\ UNCHANGED <<driver, gLCDFlushMode, vram, gLcdNeedsSync, clock, age, timer, phase, screen>>

(* Blt, and SetMode at its end.                                            *)
LcdGraphicsBlt(c) ==
  /\ Runs(c) /\ pc[c] = "idle" /\ mDisplayInitialized
  /\ Goto(c, "draw")
  /\ UNCHANGED <<display, gLcdNeedsSync, clock, age, timer, phase, screen>>

(* BltLibGopBlt changes the screen, unless it reads from it or fails.      *)
BltLibGopBlt(c) ==
  /\ Runs(c) /\ pc[c] = "draw"
  /\ \/ /\ dirty' = TRUE
        /\ manual' = (manual \/ gLCDFlushMode = "MANUAL" \/ ~gDisplayNeedsFlush)
        /\ Goto(c, "drawn")
     \/ Goto(c, "idle") /\ UNCHANGED screen
  /\ UNCHANGED <<display, gLcdNeedsSync, clock, age, timer, phase>>

-----------------------------------------------------------------------------
(* LKDisplayFlushScreen.                                                   *)

(* Now - mLastFlush < RenderTime, on unsigned numbers: if the last flush   *)
(* ended after Now was read, the difference wraps and is not small.        *)
TooSoon(a) == a <= sinceFlush /\ sinceFlush - a < RenderTime

(* Mutant of FlushTooSoon: the flush is dropped instead of deferred.       *)
FlushTooSoonForgotten(c) ==
  /\ gLCDFlushMode = "AUTO" /\ pc[c] = "drawn" /\ TooSoon(0)
  /\ Goto(c, "idle")
  /\ UNCHANGED <<gLcdNeedsSync, clock, age, screen>>

(* Mutant of FlushTooSoon: a refused call counts as the last flush.        *)
FlushTooSoonRestarts(c) ==
  /\ gLCDFlushMode = "AUTO" /\ pc[c] = "drawn" /\ TooSoon(0)
  /\ gLcdNeedsSync' = TRUE /\ sinceFlush' = 0
  /\ Goto(c, "idle")
  /\ UNCHANGED <<RenderTime, age, screen>>

(* Blt's own call: all of it at TPL_NOTIFY.                                *)
FlushTooSoon(c) ==
  /\ gLCDFlushMode = "AUTO" /\ pc[c] = "drawn" /\ TooSoon(0)
  /\ gLcdNeedsSync' = TRUE
  /\ Goto(c, "idle")
  /\ UNCHANGED <<clock, age, screen>>

(* lcd_flush takes a while; Now was read read ago, Long if it never was.   *)
HwFlush(read) ==
  /\ dirty' = FALSE /\ manual' = FALSE
  /\ IF gLCDFlushMode = "AUTO"
       THEN /\ \E d \in 1 .. MaxRender : RenderTime' = AtLeast(read + d, Long)
            /\ sinceFlush' = 0 /\ gLcdNeedsSync' = FALSE
       ELSE UNCHANGED <<gLcdNeedsSync, clock>>

BltFlush(c) ==
  /\ Runs(c) /\ pc[c] = "drawn"
  /\ \/ gDisplayNeedsFlush /\ FlushTooSoon(c)
     \/ /\ gDisplayNeedsFlush /\ gLCDFlushMode = "AUTO" /\ ~TooSoon(0)
        /\ HwFlush(0) /\ Goto(c, "idle") /\ UNCHANGED age
     \/ /\ gLCDFlushMode = "MANUAL" \/ ~gDisplayNeedsFlush
        /\ Goto(c, "idle") /\ UNCHANGED <<gLcdNeedsSync, clock, age, screen>>
  /\ UNCHANGED <<display, timer, phase>>

(* Now = GetTimeMs ().                                                     *)
ReadNow(c) ==
  IF gLCDFlushMode = "AUTO" THEN Goto(c, "compare") /\ age' = [age EXCEPT ![c] = 0]
                            ELSE Goto(c, "raise") /\ age' = [age EXCEPT ![c] = Long]

LKDisplayFlushScreen(c) ==
  /\ Runs(c) /\ pc[c] = "idle" /\ gDisplayNeedsFlush
  /\ ReadNow(c)
  /\ UNCHANGED <<display, gLcdNeedsSync, clock, timer, phase, screen>>

(* The timer's handler calls it if a flush was deferred.                   *)
TimerCallback ==
  /\ Runs("callback") /\ pc["callback"] = "idle" /\ timer
  /\ timer' = FALSE
  /\ IF gLcdNeedsSync /\ gLCDFlushMode = "AUTO"
       THEN ReadNow("callback") ELSE UNCHANGED <<pc, age>>
  /\ UNCHANGED <<display, gLcdNeedsSync, clock, phase, screen>>

Compare(c) ==
  /\ Runs(c) /\ pc[c] = "compare"
  /\ IF TooSoon(age[c])
       THEN gLcdNeedsSync' = TRUE /\ Goto(c, "idle") /\ age' = [age EXCEPT ![c] = 0]
       ELSE Goto(c, "raise") /\ UNCHANGED <<gLcdNeedsSync, age>>
  /\ UNCHANGED <<display, clock, timer, phase, screen>>

(* From RaiseTPL to RestoreTPL.                                            *)
Flush(c) ==
  /\ Runs(c) /\ pc[c] = "raise"
  /\ HwFlush(age[c])
  /\ Goto(c, "idle") /\ age' = [age EXCEPT ![c] = 0]
  /\ UNCHANGED <<display, timer, phase>>

(* Mutant of LKDisplaySetFlushMode: it clears the deferred flush.          *)
LKDisplaySetFlushModeClears(c) ==
  /\ Runs(c) /\ pc[c] = "idle"
  /\ gLCDFlushMode' \in {"AUTO", "MANUAL"}
  /\ gLcdNeedsSync' = FALSE
  /\ UNCHANGED <<driver, mDisplayInitialized, vram, clock, pc, age, timer, phase, screen>>

LKDisplaySetFlushMode(c) ==
  /\ Runs(c) /\ pc[c] = "idle"
  /\ gLCDFlushMode' \in {"AUTO", "MANUAL"}
  /\ UNCHANGED <<driver, mDisplayInitialized, vram, gLcdNeedsSync, clock, pc, age, timer, phase,
                 screen>>

-----------------------------------------------------------------------------
(* A millisecond passes; the periodic timer signals its event.             *)
Tick ==
  /\ phase = "boot"
  /\ \A c \in Contexts : pc[c] \in {"compare", "raise"} /\ age[c] # Long => age[c] < MaxDelay
  /\ sinceFlush' = AtLeast(sinceFlush + 1, Never)
  /\ age' = [c \in Contexts |->
               IF pc[c] \in {"compare", "raise"} /\ age[c] # Long THEN age[c] + 1 ELSE age[c]]
  /\ UNCHANGED <<display, gLcdNeedsSync, RenderTime, pc, timer, phase, screen>>

(* While a callback runs an expiry only queues the handler behind it.      *)
TimerExpires ==
  /\ phase = "boot" /\ driver = "running" /\ ~timer /\ pc["callback"] = "idle"
  /\ timer' = TRUE
  /\ UNCHANGED <<display, gLcdNeedsSync, clock, pc, age, phase, screen>>

(* LcdShutdown; the boot services, and with them the events, are gone.     *)
LcdGraphicsExitBootServicesEvent ==
  /\ Runs("app") /\ pc["app"] = "idle" /\ gDisplayNeedsFlush /\ ~timer
  /\ phase' = "os"
  /\ UNCHANGED <<display, gLcdNeedsSync, clock, pc, age, timer, screen>>

-----------------------------------------------------------------------------
Inside(c) ==
  Initialized(c) \/ BltLibGopBlt(c) \/ BltFlush(c) \/ Compare(c) \/ Flush(c)

(* Notifications run in the order in which they were queued: once the      *)
(* timer's is, nothing else begins before it.                              *)
Call(c) ==
  /\ ~timer
  /\ gDisplayNeedsFlush \/ (driver = "installed" /\ c = "callback")
  /\ \/ InitializeDisplay(c) \/ LcdGraphicsBlt(c)
     \/ LKDisplayFlushScreen(c) \/ LKDisplaySetFlushMode(c)

Next ==
  \/ \E c \in Contexts : Inside(c) \/ Call(c)
  \/ InstallProtocols \/ CreateEvents
  \/ TimerCallback \/ Tick \/ TimerExpires
  \/ LcdGraphicsExitBootServicesEvent

Spec == Init /\ [][Next]_vars

(***************************************************************************)
(* A call that has begun runs to its end (at TPL_APPLICATION it may be     *)
(* interrupted again and again, but a handler takes less than the timer's  *)
(* period), the periodic timer goes on whatever is running, its handler is *)
(* dispatched and time passes.                                             *)
(***************************************************************************)
FairSpec ==
  /\ Spec
  /\ SF_vars(Inside("app")) /\ WF_vars(Inside("callback"))
  /\ WF_vars(TimerCallback) /\ SF_vars(TimerExpires) /\ WF_vars(Tick)

-----------------------------------------------------------------------------
(* Properties.                                                             *)

(* Types; nobody is inside Blt before the display is initialised, and the  *)
(* frame buffer is allocated once if its address is fixed, however many    *)
(* initialisations run at once.                                            *)
TypeOK ==
  /\ driver \in {"entry", "installed", "running", "untimed", "failed"}
  /\ gLCDFlushMode \in {"AUTO", "MANUAL"} /\ gLcdNeedsSync \in BOOLEAN
  /\ mDisplayInitialized \in BOOLEAN /\ vram \in Nat
  /\ sinceFlush \in 0 .. Never /\ RenderTime \in 0 .. Long
  /\ pc \in [Contexts -> {"idle", "init", "draw", "drawn", "compare", "raise"}]
  /\ age \in [Contexts -> 0 .. Long]
  /\ timer \in BOOLEAN /\ phase \in {"boot", "os"}
  /\ dirty \in BOOLEAN /\ manual \in BOOLEAN
  /\ \A c \in Contexts : AtNotify(c) => mDisplayInitialized
  /\ vram <= IF FixedVram THEN 1 ELSE MaxVram

(* In AUTO mode nothing drawn by Blt is forgotten: when no Blt is under    *)
(* way, the panel shows it or the deferred flush is noted, through every   *)
(* change of the mode; what was drawn in MANUAL mode is its client's.      *)
NothingForgotten ==
  (dirty /\ ~manual /\ \A c \in Contexts : ~AtNotify(c)) => gLcdNeedsSync

(* The panel never gets half a Blt: nobody flushes while one is drawing.   *)
WholeFrames ==
  [][(\E c \in Contexts : pc[c] = "draw" /\ pc'[c] = "draw") =>
       dirty' = dirty /\ sinceFlush' >= sinceFlush]_vars

(* A deferred flush happens, in AUTO mode, however often others draw, if   *)
(* the driver got its timer (without it the screen waits for a client).    *)
DeferredFlushHappens ==
  driver = "running" /\ dirty /\ gLcdNeedsSync /\ gLCDFlushMode = "AUTO"
    ~> ~dirty \/ gLCDFlushMode = "MANUAL" \/ phase = "os"
=============================================================================
