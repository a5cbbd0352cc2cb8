--------------------------- MODULE LcdFlushProofs ---------------------------
(***************************************************************************)
(* Proofs about LcdFlush, for every length of a flush and of a delay.      *)
(*                                                                         *)
(* NothingForgotten is not inductive: a Blt that fails ends without a      *)
(* flush, so it has to find in order what it leaves; and a Blt that drew   *)
(* leaves without a flush if the mode is MANUAL, which must then have been *)
(* the mode when it drew (or the driver did not know yet that it has to    *)
(* flush).  The second needs that nobody changes the mode in between:      *)
(* inside Blt a context is alone.                                          *)
(***************************************************************************)
EXTENDS LcdFlush, TLAPS

(* Types alone.                                                            *)
Types ==
  /\ driver \in {"entry", "installed", "running", "untimed", "failed"}
  /\ gLCDFlushMode \in {"AUTO", "MANUAL"} /\ gLcdNeedsSync \in BOOLEAN
  /\ mDisplayInitialized \in BOOLEAN /\ vram \in Nat
  /\ sinceFlush \in 0 .. Never /\ RenderTime \in 0 .. Long
  /\ pc \in [Contexts -> {"idle", "init", "draw", "drawn", "compare", "raise"}]
  /\ age \in [Contexts -> 0 .. Long]
  /\ timer \in BOOLEAN /\ phase \in {"boot", "os"}
  /\ dirty \in BOOLEAN /\ manual \in BOOLEAN

(* Whoever is inside Blt is alone: a callback waits for TPL_NOTIFY to end, *)
(* and a callback inside Blt has interrupted nobody who is.                *)
Alone == AtNotify("app") => pc["callback"] = "idle"

(* Between Blts, and inside one that has not drawn yet, what the panel     *)
(* lacks is noted.                                                         *)
Noted ==
  (dirty /\ ~manual /\ \A c \in Contexts : pc[c] # "drawn") => gLcdNeedsSync

(* The mode a Blt drew in is the mode it ends in, and what the driver does *)
(* not flush yet it did not flush then.                                    *)
DrawnManual ==
  \A c \in Contexts :
    pc[c] = "drawn" /\ (gLCDFlushMode = "MANUAL" \/ ~gDisplayNeedsFlush) => manual

Ready == \A c \in Contexts : AtNotify(c) => mDisplayInitialized

Once == vram <= IF FixedVram THEN 1 ELSE MaxVram

IInv == Types /\ Alone /\ Noted /\ DrawnManual /\ Ready /\ Once

USE LcdAssumption

-----------------------------------------------------------------------------
(* A context that runs has nobody inside Blt beside it.                    *)
LEMMA RunsAlone ==
  ASSUME IInv, NEW c \in Contexts, Runs(c), NEW d \in Contexts, d # c
  PROVE  ~AtNotify(d)
  BY DEF IInv, Types, Alone, Runs, AtNotify, Contexts

(* The two distances in time are ordered numbers.                          *)
LEMMA Bounds == Long \in Nat /\ Never \in Nat /\ 0 <= Long /\ Long <= Never
  BY DEF Long, Never

(* Initially the invariant holds.                                          *)
LEMMA InitIInv == Init => IInv
  <1> SUFFICES ASSUME Init PROVE IInv
    OBVIOUS
  <1>1. /\ sinceFlush \in 0 .. Never /\ RenderTime \in 0 .. Long
        /\ age \in [Contexts -> 0 .. Long] /\ vram \in Nat
    BY Bounds DEF Init
  <1>2. Types
    BY <1>1 DEF Init, Types
  <1>3. Once
    BY DEF Init, Once
  <1>4. Alone /\ Ready
    BY DEF Init, Alone, Ready, AtNotify, Contexts
  <1>5. Noted /\ DrawnManual
    BY DEF Init, Noted, DrawnManual
  <1> QED
    BY <1>2, <1>3, <1>4, <1>5 DEF IInv

(* What HwFlush leaves of the clock is in its range.                       *)
LEMMA HwFlushTypes ==
  ASSUME Types, NEW read \in 0 .. Long, HwFlush(read)
  PROVE  /\ sinceFlush' \in 0 .. Never /\ RenderTime' \in 0 .. Long
         /\ gLcdNeedsSync' \in BOOLEAN
  <1>1. \A d \in 1 .. MaxRender : AtLeast(read + d, Long) \in 0 .. Long
    BY Bounds DEF AtLeast
  <1>2. CASE gLCDFlushMode = "AUTO"
    <2>1. sinceFlush' = 0 /\ RenderTime' \in 0 .. Long
      BY <1>1, <1>2 DEF HwFlush
    <2>2. gLcdNeedsSync' = FALSE
      BY <1>2 DEF HwFlush
    <2>3. sinceFlush' \in 0 .. Never
      BY <2>1, Bounds
    <2>4. gLcdNeedsSync' \in BOOLEAN
      BY <2>2
    <2> QED
      BY <2>1, <2>3, <2>4
  <1>3. CASE gLCDFlushMode # "AUTO"
    BY <1>3 DEF HwFlush, Types, clock
  <1> QED
    BY <1>2, <1>3

(* Every step preserves the types.                                         *)
LEMMA NextTypes == ASSUME IInv, [Next]_vars PROVE Types'
  <1> USE Bounds DEF Types
  <1>0. Types
    BY DEF IInv
  <1>1. ASSUME NEW c \in Contexts, InitializeDisplay(c) PROVE Types'
    BY <1>0, <1>1 DEF InitializeDisplay, VramAvailable, Goto, clock, screen
  <1>2. ASSUME NEW c \in Contexts, Initialized(c) PROVE Types'
    BY <1>0, <1>2 DEF Initialized, Goto, clock, screen
  <1>3. ASSUME NEW c \in Contexts, LcdGraphicsBlt(c) PROVE Types'
    BY <1>0, <1>3 DEF LcdGraphicsBlt, Goto, display, clock, screen
  <1>4. ASSUME NEW c \in Contexts, BltLibGopBlt(c) PROVE Types'
    BY <1>0, <1>4 DEF BltLibGopBlt, Goto, display, clock, screen
  <1>5. ASSUME NEW c \in Contexts, BltFlush(c) PROVE Types'
    <2>1. /\ sinceFlush' \in 0 .. Never /\ RenderTime' \in 0 .. Long
          /\ gLcdNeedsSync' \in BOOLEAN
      <3>1. CASE HwFlush(0)
        BY <1>0, <3>1, HwFlushTypes
      <3>2. CASE ~HwFlush(0)
        <4>1. clock' = clock /\ (gLcdNeedsSync' = TRUE \/ gLcdNeedsSync' = gLcdNeedsSync)
          BY <1>5, <3>2 DEF BltFlush, FlushTooSoon
        <4> QED
          BY <1>0, <4>1 DEF clock
      <3> QED BY <3>1, <3>2
    <2>2. dirty' \in BOOLEAN /\ manual' \in BOOLEAN
      BY <1>0, <1>5 DEF BltFlush, FlushTooSoon, HwFlush, screen
    <2>3. age' = age /\ Goto(c, "idle")
      BY <1>5 DEF BltFlush, FlushTooSoon
    <2>4. UNCHANGED <<display, timer, phase>>
      BY <1>5 DEF BltFlush
    <2>5. pc' \in [Contexts -> {"idle", "init", "draw", "drawn", "compare", "raise"}]
      BY <1>0, <2>3 DEF Goto
    <2>6. age' \in [Contexts -> 0 .. Long]
      BY <1>0, <2>3
    <2>7. UNCHANGED <<driver, gLCDFlushMode, mDisplayInitialized, vram, timer, phase>>
      BY <2>4 DEF display
    <2>8. /\ driver' \in {"entry", "installed", "running", "untimed", "failed"}
          /\ gLCDFlushMode' \in {"AUTO", "MANUAL"} /\ mDisplayInitialized' \in BOOLEAN
          /\ vram' \in Nat /\ timer' \in BOOLEAN /\ phase' \in {"boot", "os"}
      BY <1>0, <2>7
    <2> QED
      BY <2>1, <2>2, <2>5, <2>6, <2>8, Zenon
  <1>6. ASSUME NEW c \in Contexts, LKDisplayFlushScreen(c) PROVE Types'
    BY <1>0, <1>6 DEF LKDisplayFlushScreen, ReadNow, Goto, display, clock, screen
  <1>7. ASSUME NEW c \in Contexts, Compare(c) PROVE Types'
    <2>1. CASE TooSoon(age[c])
      <3>1. /\ gLcdNeedsSync' = TRUE
            /\ pc' = [pc EXCEPT ![c] = "idle"] /\ age' = [age EXCEPT ![c] = 0]
            /\ UNCHANGED <<display, clock, timer, phase, screen>>
        BY <1>7, <2>1 DEF Compare, Goto
      <3> QED
        BY <1>0, <3>1 DEF display, clock, screen
    <2>2. CASE ~TooSoon(age[c])
      <3>1. /\ pc' = [pc EXCEPT ![c] = "raise"]
            /\ UNCHANGED <<display, gLcdNeedsSync, clock, age, timer, phase, screen>>
        BY <1>7, <2>2 DEF Compare, Goto
      <3> QED
        BY <1>0, <3>1 DEF display, clock, screen
    <2> QED
      BY <2>1, <2>2
  <1>8. ASSUME NEW c \in Contexts, Flush(c) PROVE Types'
    <2>1. age[c] \in 0 .. Long
      BY <1>0
    <2>2. /\ sinceFlush' \in 0 .. Never /\ RenderTime' \in 0 .. Long
          /\ gLcdNeedsSync' \in BOOLEAN
      BY <1>0, <1>8, <2>1, HwFlushTypes DEF Flush
    <2>3. dirty' = FALSE /\ manual' = FALSE
      BY <1>8 DEF Flush, HwFlush
    <2>4. /\ pc' \in [Contexts -> {"idle", "init", "draw", "drawn", "compare", "raise"}]
          /\ age' \in [Contexts -> 0 .. Long]
      BY <1>0, <1>8 DEF Flush, Goto
    <2>5. UNCHANGED <<display, timer, phase>>
      BY <1>8 DEF Flush
    <2> QED
      BY <1>0, <2>2, <2>3, <2>4, <2>5 DEF display
  <1>9. ASSUME NEW c \in Contexts, LKDisplaySetFlushMode(c) PROVE Types'
    BY <1>0, <1>9 DEF LKDisplaySetFlushMode, clock, screen
  <1>10. CASE TimerCallback
    <2>1. /\ pc' \in [Contexts -> {"idle", "init", "draw", "drawn", "compare", "raise"}]
          /\ age' \in [Contexts -> 0 .. Long]
      BY <1>0, <1>10 DEF TimerCallback, ReadNow, Goto
    <2>2. /\ timer' = FALSE
          /\ UNCHANGED <<display, gLcdNeedsSync, clock, phase, screen>>
      BY <1>10 DEF TimerCallback
    <2> QED
      BY <1>0, <2>1, <2>2 DEF display, clock, screen
  <1>11. CASE Tick
    <2>1. sinceFlush' \in 0 .. Never
      BY <1>0, <1>11 DEF Tick, AtLeast
    <2>2. \A c \in Contexts :
            pc[c] \in {"compare", "raise"} /\ age[c] # Long => age[c] + 1 \in 0 .. Long
      BY <1>0, <1>11 DEF Tick
    <2>3. age' \in [Contexts -> 0 .. Long]
      BY <1>0, <1>11, <2>2 DEF Tick
    <2> QED
      BY <1>0, <1>11, <2>1, <2>3 DEF Tick, display, screen
  <1>12. CASE TimerExpires
    BY <1>0, <1>12 DEF TimerExpires, display, clock, screen
  <1>13. CASE LcdGraphicsExitBootServicesEvent
    BY <1>0, <1>13 DEF LcdGraphicsExitBootServicesEvent, display, clock, screen
  <1>14. CASE UNCHANGED vars
    BY <1>0, <1>14 DEF vars
  <1>15. CASE InstallProtocols
    BY <1>0, <1>15 DEF InstallProtocols, clock, screen
  <1>16. CASE CreateEvents
    BY <1>0, <1>16 DEF CreateEvents, clock, screen
  <1> QED
    BY <1>1, <1>2, <1>3, <1>4, <1>5, <1>6, <1>7, <1>8, <1>9, <1>10, <1>11, <1>12, <1>13,
       <1>14, <1>15, <1>16 DEF Next, Inside, Call

-----------------------------------------------------------------------------
(* Every step preserves the rest.                                          *)
LEMMA NextIInv == IInv /\ [Next]_vars => IInv'
  <1> SUFFICES ASSUME IInv, [Next]_vars PROVE IInv'
    OBVIOUS
  <1>0. Types'
    BY NextTypes
  <1> USE DEF IInv, Types, Alone, Noted, DrawnManual, Ready, Once, AtNotify, Contexts,
              gDisplayNeedsFlush
  <1>1. ASSUME NEW c \in Contexts, InitializeDisplay(c) PROVE IInv'
    BY <1>0, <1>1 DEF InitializeDisplay, VramAvailable, Runs, Goto, clock, screen
  <1>2. ASSUME NEW c \in Contexts, Initialized(c) PROVE IInv'
    BY <1>0, <1>2 DEF Initialized, Runs, Goto, clock, screen
  <1>3. ASSUME NEW c \in Contexts, LcdGraphicsBlt(c) PROVE IInv'
    BY <1>0, <1>3 DEF LcdGraphicsBlt, Runs, Goto, display, clock, screen
  <1>4. ASSUME NEW c \in Contexts, BltLibGopBlt(c) PROVE IInv'
    BY <1>0, <1>4 DEF BltLibGopBlt, Runs, Goto, display, clock, screen
  <1>5. ASSUME NEW c \in Contexts, BltFlush(c) PROVE IInv'
    BY <1>0, <1>5 DEF BltFlush, FlushTooSoon, HwFlush, Runs, Goto, display, clock, screen
  <1>6. ASSUME NEW c \in Contexts, LKDisplayFlushScreen(c) PROVE IInv'
    BY <1>0, <1>6 DEF LKDisplayFlushScreen, ReadNow, Runs, Goto, display, clock, screen
  <1>7. ASSUME NEW c \in Contexts, Compare(c) PROVE IInv'
    BY <1>0, <1>7 DEF Compare, Runs, Goto, display, clock, screen
  <1>8. ASSUME NEW c \in Contexts, Flush(c) PROVE IInv'
    BY <1>0, <1>8 DEF Flush, HwFlush, Runs, Goto, display
  <1>9. ASSUME NEW c \in Contexts, LKDisplaySetFlushMode(c) PROVE IInv'
    BY <1>0, <1>9, RunsAlone DEF LKDisplaySetFlushMode, Runs, clock, screen
  <1>10. CASE TimerCallback
    BY <1>0, <1>10 DEF TimerCallback, ReadNow, Runs, Goto, display, clock, screen
  <1>11. CASE Tick
    BY <1>0, <1>11 DEF Tick, display, screen
  <1>12. CASE TimerExpires
    BY <1>0, <1>12 DEF TimerExpires, display, clock, screen
  <1>13. CASE LcdGraphicsExitBootServicesEvent
    BY <1>0, <1>13 DEF LcdGraphicsExitBootServicesEvent, display, clock, screen
  <1>14. CASE UNCHANGED vars
    BY <1>0, <1>14 DEF vars
  <1>15. CASE InstallProtocols
    BY <1>0, <1>15 DEF InstallProtocols, clock, screen
  <1>16. CASE CreateEvents
    BY <1>0, <1>16 DEF CreateEvents, clock, screen
  <1> QED
    BY <1>1, <1>2, <1>3, <1>4, <1>5, <1>6, <1>7, <1>8, <1>9, <1>10, <1>11, <1>12, <1>13,
       <1>14, <1>15, <1>16 DEF Next, Inside, Call

(* The inductive invariant holds in every state.                           *)
LEMMA Inductive == Spec => []IInv
  BY InitIInv, NextIInv, PTL DEF Spec

-----------------------------------------------------------------------------
(* LcdFlush keeps its types, and never allocates a named frame buffer      *)
(* twice, whoever initialises the display and whenever.                    *)
THEOREM TypeCorrect == Spec => []TypeOK
  <1>1. IInv => TypeOK
    BY DEF IInv, Types, Ready, Once, TypeOK
  <1> QED
    BY <1>1, Inductive, PTL

(* What Blt drew in AUTO mode is on the panel or noted, whenever the timer *)
(* and other drivers' callbacks come in, and through changes of the mode.  *)
THEOREM ForgetsNothing == Spec => []NothingForgotten
  <1>1. IInv => NothingForgotten
    BY DEF IInv, Noted, NothingForgotten, AtNotify
  <1> QED
    BY <1>1, Inductive, PTL

(* While one context draws, nobody's flush shows the half-drawn frame.     *)
THEOREM FramesAreWhole == Spec => WholeFrames
  <1> DEFINE Drawing(c) == pc[c] = "draw" /\ pc'[c] = "draw"
  <1>1. ASSUME IInv, Next, NEW c \in Contexts, Drawing(c)
        PROVE  dirty' = dirty /\ sinceFlush' >= sinceFlush
    <2>0. /\ sinceFlush \in Nat /\ sinceFlush <= Never
          /\ pc \in [Contexts -> {"idle", "init", "draw", "drawn", "compare", "raise"}]
      BY <1>1, Bounds DEF IInv, Types
    <2>1. ASSUME NEW d \in Contexts, Runs(d) PROVE d = c
      BY <1>1, <2>1, RunsAlone DEF AtNotify
    <2>2. ASSUME NEW d \in Contexts, Inside(d) PROVE pc'[c] # "draw"
      <3>1. d = c
        BY <2>1, <2>2 DEF Inside, Initialized, BltLibGopBlt, BltFlush, Compare, Flush
      <3> QED
        BY <1>1, <2>0, <2>2, <3>1
          DEF Inside, Initialized, BltLibGopBlt, BltFlush, FlushTooSoon, Compare, Flush, Goto
    <2>3. ASSUME NEW d \in Contexts, Call(d) PROVE FALSE
      <3>1. d = c
        BY <2>1, <2>3 DEF Call, InitializeDisplay, LcdGraphicsBlt, LKDisplayFlushScreen,
                          LKDisplaySetFlushMode
      <3> QED
        BY <1>1, <2>3, <3>1 DEF Call, InitializeDisplay, LcdGraphicsBlt,
                                LKDisplayFlushScreen, LKDisplaySetFlushMode
    <2>4. CASE TimerCallback
      BY <2>0, <2>4 DEF TimerCallback, clock, screen
    <2>5. CASE Tick
      BY <2>0, <2>5, Bounds DEF Tick, AtLeast, screen
    <2>6. CASE TimerExpires
      BY <2>0, <2>6 DEF TimerExpires, clock, screen
    <2>7. CASE LcdGraphicsExitBootServicesEvent
      BY <2>0, <2>7 DEF LcdGraphicsExitBootServicesEvent, clock, screen
    <2>8. CASE InstallProtocols \/ CreateEvents
      BY <2>0, <2>8 DEF InstallProtocols, CreateEvents, clock, screen
    <2> QED
      BY <1>1, <2>2, <2>3, <2>4, <2>5, <2>6, <2>7, <2>8 DEF Next
  <1>2. IInv /\ [Next]_vars =>
          [(\E c \in Contexts : pc[c] = "draw" /\ pc'[c] = "draw") =>
             dirty' = dirty /\ sinceFlush' >= sinceFlush]_vars
    BY <1>1
  <1> QED
    BY <1>2, Inductive, PTL DEF Spec, WholeFrames
=============================================================================
