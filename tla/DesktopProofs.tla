--------------------------- MODULE DesktopProofs ---------------------------
(***************************************************************************)
(* Theorems about the main loop of test_os/kernel.c and the handlers that  *)
(* cut in on it, for every word size, every length of a beep and of the    *)
(* notification, and any number of inputs.                                 *)
(***************************************************************************)
EXTENDS Desktop, TLAPS

\* Where a beep of the loop may return to, and the steps of the loop.
Return == {"hlt", "cursor", "toastOn", "snakeMode", "calcMode", "prev"}
Drawing == {"snakeDraw", "calcDraw"}
Steps == {"top", "sound", "soundOff", "soundFlag", "soundClear", "toast", "toastOff",
          "toastErase", "mode", "beep", "beepFlag", "beepStop", "gui", "calc",
          "toastExpire", "toastDraw"} \cup Return \cup Drawing

\* Every step of the loop is known, and so is where a beep returns to.
LoopInv ==
  /\ pc \in Steps /\ ret \in Return /\ inputs \in Nat
  /\ pc \in {"beep", "beepFlag", "beepStop"} => ret # "hlt"

\* The screen is that of the mode at every step but the two at which the loop
\* has set a mode whose screen it has not drawn yet.
ScreenInv == pc \notin Drawing /\ ~strayed => screen = mode

\* The button has acted, and the loop has not yet noted that it is down.
Owed ==
  \/ pc \in {"beep", "beepFlag", "beepStop"} /\ ret # "cursor"
  \/ pc \in {"toastOn", "toastExpire", "toastDraw", "snakeMode", "calcMode", "prev"}

\* A button that has acted is still down, and the loop knows it or is on its
\* way to the step that notes it.
ActInv ==
  /\ acts \in Nat
  /\ acts > 0 => button
  /\ acts > 0 /\ ~left => prev \/ Owed
  /\ acts <= 1 \/ left

DesktopInv == TypeOK /\ LoopInv /\ ScreenInv /\ ActInv

LEMMA TickType ==
  /\ 0 \in 0 .. WordSize - 1
  /\ \A i \in 0 .. WordSize - 1, n \in {1, BeepTicks, ToastTicks} :
       (i + n) % WordSize \in 0 .. WordSize - 1
  <1> WordSize \in Nat \ {0} /\ BeepTicks \in Nat /\ ToastTicks \in Nat
    BY DesktopAssumption
  <1>1. ASSUME NEW k \in Nat PROVE k % WordSize \in 0 .. WordSize - 1
    OBVIOUS
  <1>2. \A i \in 0 .. WordSize - 1, n \in {1, BeepTicks, ToastTicks} : i + n \in Nat
    OBVIOUS
  <1> QED BY <1>1, <1>2

LEMMA DesktopInit == Init => DesktopInv
  <1> SUFFICES ASSUME Init PROVE DesktopInv
    OBVIOUS
  <1> USE DEF Init
  <1>1. TypeOK
    BY TickType DEF TypeOK, Mode, Place
  <1>2. LoopInv
    BY DEF LoopInv, Steps, Return
  <1>3. ScreenInv /\ ActInv
    BY DEF ScreenInv, ActInv
  <1> QED BY <1>1, <1>2, <1>3 DEF DesktopInv

\* Counters and deadlines wrap into their range, booleans stay booleans.
LEMMA TypeStep ==
  ASSUME TypeOK, LoopInv, [Next]_vars
  PROVE  TypeOK'
  <1> USE DesktopAssumption DEF TypeOK, LoopInv, Mode, Place, Return, Steps, Drawing,
          At, Goto, Quiet, sound, note, mouse, loop, display
  <1>1. CASE Top
    BY <1>1 DEF Top
  <1>2. CASE SoundCheck
    BY <1>2 DEF SoundCheck, SoundDue
  <1>3. CASE SoundOff
    BY <1>3 DEF SoundOff
  <1>4. CASE SoundFlag
    BY <1>4 DEF SoundFlag
  <1>5. CASE SoundClear
    BY <1>5, TickType DEF SoundClear
  <1>6. CASE ToastCheck
    BY <1>6 DEF ToastCheck, ToastDue
  <1>7. CASE ToastOff
    BY <1>7 DEF ToastOff
  <1>8. CASE ToastErase
    BY <1>8 DEF ToastErase
  <1>9. CASE Snake
    BY ZenonT(60), <1>9, TickType DEF Snake, CallBeep
  <1>10. CASE Beep
    BY <1>10 DEF Beep
  <1>11. CASE BeepFlag
    BY <1>11 DEF BeepFlag
  <1>12. CASE BeepStop
    BY ZenonT(60), <1>12, TickType DEF BeepStop
  <1>13. CASE Cursor
    BY <1>13 DEF Cursor
  <1>14. CASE Click
    BY <1>14 DEF Click, CallBeep, Pressed, OverCalc, OverKey
  <1>15. CASE NoClick
    BY <1>15 DEF NoClick, Pressed, OverCalc, OverKey
  <1>16. CASE ToastOn
    BY <1>16 DEF ToastOn
  <1>17. CASE ToastExpire
    BY <1>17, TickType DEF ToastExpire, After
  <1>18. CASE ToastDraw
    BY <1>18 DEF ToastDraw
  <1>19. CASE SnakeMode
    BY ZenonT(60), <1>19 DEF SnakeMode, NewMode
  <1>20. CASE SnakeDraw
    BY ZenonT(60), <1>20 DEF SnakeDraw, LoopDraws
  <1>21. CASE CalcMode
    BY ZenonT(60), <1>21 DEF CalcMode, NewMode
  <1>22. CASE CalcDraw
    BY <1>22 DEF CalcDraw, LoopDraws
  <1>23. CASE SetPrev
    BY <1>23 DEF SetPrev
  <1>24. CASE Tick
    BY <1>24, TickType DEF Tick, Interrupt
  <1>25. CASE Toggle
    BY ZenonT(60), <1>25 DEF Toggle, Handler, Input, Interrupt, Enters, NewMode, Silent
  <1>26. CASE Command
    BY <1>26, TickType
    DEF Command, Handler, Input, Interrupt, Enters, NewMode, Silent, HandlerBeeps, After
  <1>27. CASE Quit
    BY <1>27 DEF Quit, Handler, Input, Interrupt, Enters, NewMode, Silent
  <1>28. CASE Typed
    BY <1>28, TickType
    DEF Typed, Handler, Input, Interrupt, Enters, NewMode, Silent, HandlerBeeps, After,
        Stays
  <1>29. CASE Packet
    BY ZenonT(60), <1>29 DEF Packet, Input, Interrupt
  <1>30. CASE UNCHANGED vars
    BY <1>30 DEF vars
  <1> QED
    BY <1>1, <1>2, <1>3, <1>4, <1>5, <1>6, <1>7, <1>8, <1>9, <1>10, <1>11, <1>12, <1>13,
       <1>14, <1>15, <1>16, <1>17, <1>18, <1>19, <1>20, <1>21, <1>22, <1>23, <1>24,
       <1>25, <1>26, <1>27, <1>28, <1>29, <1>30
    DEF Next, Loop

\* The loop goes on to a step it has, and a handler leaves it where it was.
LEMMA LoopStep ==
  ASSUME TypeOK, LoopInv, [Next]_vars
  PROVE  LoopInv'
  <1> USE DEF TypeOK, LoopInv, Return, Steps, Drawing,
          At, Goto, Quiet, sound, note, mouse, loop, display
  <1>1. CASE Top
    BY <1>1 DEF Top
  <1>2. CASE SoundCheck
    BY <1>2 DEF SoundCheck, SoundDue
  <1>3. CASE SoundOff
    BY <1>3 DEF SoundOff
  <1>4. CASE SoundFlag
    BY <1>4 DEF SoundFlag
  <1>5. CASE SoundClear
    BY <1>5 DEF SoundClear
  <1>6. CASE ToastCheck
    BY <1>6 DEF ToastCheck, ToastDue
  <1>7. CASE ToastOff
    BY <1>7 DEF ToastOff
  <1>8. CASE ToastErase
    BY <1>8 DEF ToastErase
  <1>9. CASE Snake
    BY <1>9 DEF Snake, CallBeep
  <1>10. CASE Beep
    BY <1>10 DEF Beep
  <1>11. CASE BeepFlag
    BY <1>11 DEF BeepFlag
  <1>12. CASE BeepStop
    BY <1>12 DEF BeepStop
  <1>13. CASE Cursor
    BY <1>13 DEF Cursor
  <1>14. CASE Click
    BY <1>14 DEF Click, CallBeep, Pressed, OverCalc, OverKey
  <1>15. CASE NoClick
    BY <1>15 DEF NoClick, Pressed, OverCalc, OverKey
  <1>16. CASE ToastOn
    BY <1>16 DEF ToastOn
  <1>17. CASE ToastExpire
    BY <1>17 DEF ToastExpire, After
  <1>18. CASE ToastDraw
    BY <1>18 DEF ToastDraw
  <1>19. CASE SnakeMode
    BY <1>19 DEF SnakeMode, NewMode
  <1>20. CASE SnakeDraw
    BY <1>20 DEF SnakeDraw, LoopDraws
  <1>21. CASE CalcMode
    BY <1>21 DEF CalcMode, NewMode
  <1>22. CASE CalcDraw
    BY <1>22 DEF CalcDraw, LoopDraws
  <1>23. CASE SetPrev
    BY <1>23 DEF SetPrev
  <1>24. CASE Tick
    BY <1>24 DEF Tick, Interrupt
  <1>25. CASE Toggle
    BY <1>25 DEF Toggle, Handler, Input, Interrupt, Enters, NewMode, Silent
  <1>26. CASE Command
    BY <1>26
    DEF Command, Handler, Input, Interrupt, Enters, NewMode, Silent, HandlerBeeps, After
  <1>27. CASE Quit
    BY <1>27 DEF Quit, Handler, Input, Interrupt, Enters, NewMode, Silent
  <1>28. CASE Typed
    BY <1>28
    DEF Typed, Handler, Input, Interrupt, Enters, NewMode, Silent, HandlerBeeps, After,
        Stays
  <1>29. CASE Packet
    BY <1>29 DEF Packet, Input, Interrupt
  <1>30. CASE UNCHANGED vars
    BY <1>30 DEF vars
  <1> QED
    BY <1>1, <1>2, <1>3, <1>4, <1>5, <1>6, <1>7, <1>8, <1>9, <1>10, <1>11, <1>12, <1>13,
       <1>14, <1>15, <1>16, <1>17, <1>18, <1>19, <1>20, <1>21, <1>22, <1>23, <1>24,
       <1>25, <1>26, <1>27, <1>28, <1>29, <1>30
    DEF Next, Loop

\* A handler draws what it enters; the loop may draw over it, and then strays.
LEMMA ScreenStep ==
  ASSUME TypeOK, LoopInv, ScreenInv, [Next]_vars
  PROVE  ScreenInv'
  <1> USE DEF TypeOK, LoopInv, Return, ScreenInv, Drawing,
          At, Goto, Quiet, sound, note, mouse, loop, display
  <1>1. CASE Top
    BY <1>1 DEF Top
  <1>2. CASE SoundCheck
    BY <1>2 DEF SoundCheck, SoundDue
  <1>3. CASE SoundOff
    BY <1>3 DEF SoundOff
  <1>4. CASE SoundFlag
    BY <1>4 DEF SoundFlag
  <1>5. CASE SoundClear
    BY <1>5 DEF SoundClear
  <1>6. CASE ToastCheck
    BY <1>6 DEF ToastCheck, ToastDue
  <1>7. CASE ToastOff
    BY <1>7 DEF ToastOff
  <1>8. CASE ToastErase
    BY <1>8 DEF ToastErase
  <1>9. CASE Snake
    BY <1>9 DEF Snake, CallBeep
  <1>10. CASE Beep
    BY <1>10 DEF Beep
  <1>11. CASE BeepFlag
    BY <1>11 DEF BeepFlag
  <1>12. CASE BeepStop
    BY <1>12 DEF BeepStop
  <1>13. CASE Cursor
    BY <1>13 DEF Cursor
  <1>14. CASE Click
    BY <1>14 DEF Click, CallBeep, Pressed, OverCalc, OverKey
  <1>15. CASE NoClick
    BY <1>15 DEF NoClick, Pressed, OverCalc, OverKey
  <1>16. CASE ToastOn
    BY <1>16 DEF ToastOn
  <1>17. CASE ToastExpire
    BY <1>17 DEF ToastExpire, After
  <1>18. CASE ToastDraw
    BY <1>18 DEF ToastDraw
  <1>19. CASE SnakeMode
    BY <1>19 DEF SnakeMode, NewMode
  <1>20. CASE SnakeDraw
    BY <1>20 DEF SnakeDraw, LoopDraws
  <1>21. CASE CalcMode
    BY <1>21 DEF CalcMode, NewMode
  <1>22. CASE CalcDraw
    BY <1>22 DEF CalcDraw, LoopDraws
  <1>23. CASE SetPrev
    BY <1>23 DEF SetPrev
  <1>24. CASE Tick
    BY <1>24 DEF Tick, Interrupt
  <1>25. CASE Toggle
    BY <1>25 DEF Toggle, Handler, Input, Interrupt, Enters, NewMode, Silent
  <1>26. CASE Command
    BY <1>26
    DEF Command, Handler, Input, Interrupt, Enters, NewMode, Silent, HandlerBeeps, After
  <1>27. CASE Quit
    BY <1>27 DEF Quit, Handler, Input, Interrupt, Enters, NewMode, Silent
  <1>28. CASE Typed
    BY <1>28
    DEF Typed, Handler, Input, Interrupt, Enters, NewMode, Silent, HandlerBeeps, After,
        Stays
  <1>29. CASE Packet
    BY <1>29 DEF Packet, Input, Interrupt
  <1>30. CASE UNCHANGED vars
    BY <1>30 DEF vars
  <1> QED
    BY <1>1, <1>2, <1>3, <1>4, <1>5, <1>6, <1>7, <1>8, <1>9, <1>10, <1>11, <1>12, <1>13,
       <1>14, <1>15, <1>16, <1>17, <1>18, <1>19, <1>20, <1>21, <1>22, <1>23, <1>24,
       <1>25, <1>26, <1>27, <1>28, <1>29, <1>30
    DEF Next, Loop

\* Only a release ends a press, and only the step that notes it looks at it again.
LEMMA ActStep ==
  ASSUME TypeOK, LoopInv, ActInv, [Next]_vars
  PROVE  ActInv'
  <1> USE DEF TypeOK, LoopInv, Return, ActInv, Owed,
          At, Goto, Quiet, sound, note, mouse, loop, display
  <1>1. CASE Top
    BY <1>1 DEF Top
  <1>2. CASE SoundCheck
    BY <1>2 DEF SoundCheck, SoundDue
  <1>3. CASE SoundOff
    BY <1>3 DEF SoundOff
  <1>4. CASE SoundFlag
    BY <1>4 DEF SoundFlag
  <1>5. CASE SoundClear
    BY <1>5 DEF SoundClear
  <1>6. CASE ToastCheck
    BY <1>6 DEF ToastCheck, ToastDue
  <1>7. CASE ToastOff
    BY <1>7 DEF ToastOff
  <1>8. CASE ToastErase
    BY <1>8 DEF ToastErase
  <1>9. CASE Snake
    BY <1>9 DEF Snake, CallBeep
  <1>10. CASE Beep
    BY <1>10 DEF Beep
  <1>11. CASE BeepFlag
    BY <1>11 DEF BeepFlag
  <1>12. CASE BeepStop
    BY <1>12 DEF BeepStop
  <1>13. CASE Cursor
    BY <1>13 DEF Cursor
  <1>14. CASE Click
    <2>1. ~prev /\ button /\ pc \in {"gui", "calc"}
      BY <1>14 DEF Click, Pressed
    <2>2. acts = 0 \/ left
      BY <2>1
    <2>3. acts' = acts + 1 /\ button' = button /\ left' = left /\ pc' = "beep" /\ ret' # "cursor"
      BY <1>14 DEF Click, CallBeep
    <2>4. acts' \in Nat /\ (acts' <= 1 \/ left') /\ Owed'
      BY <2>2, <2>3
    <2> QED BY <2>1, <2>3, <2>4
  <1>15. CASE NoClick
    BY <1>15 DEF NoClick, Pressed, OverCalc, OverKey
  <1>16. CASE ToastOn
    BY <1>16 DEF ToastOn
  <1>17. CASE ToastExpire
    BY <1>17 DEF ToastExpire, After
  <1>18. CASE ToastDraw
    BY <1>18 DEF ToastDraw
  <1>19. CASE SnakeMode
    BY <1>19 DEF SnakeMode, NewMode
  <1>20. CASE SnakeDraw
    BY <1>20 DEF SnakeDraw, LoopDraws
  <1>21. CASE CalcMode
    BY <1>21 DEF CalcMode, NewMode
  <1>22. CASE CalcDraw
    BY <1>22 DEF CalcDraw, LoopDraws
  <1>23. CASE SetPrev
    BY <1>23 DEF SetPrev
  <1>24. CASE Tick
    BY <1>24 DEF Tick, Interrupt
  <1>25. CASE Toggle
    BY <1>25 DEF Toggle, Handler, Input, Interrupt, Enters, NewMode, Silent
  <1>26. CASE Command
    BY <1>26
    DEF Command, Handler, Input, Interrupt, Enters, NewMode, Silent, HandlerBeeps, After
  <1>27. CASE Quit
    BY <1>27 DEF Quit, Handler, Input, Interrupt, Enters, NewMode, Silent
  <1>28. CASE Typed
    BY <1>28
    DEF Typed, Handler, Input, Interrupt, Enters, NewMode, Silent, HandlerBeeps, After,
        Stays
  <1>29. CASE Packet
    BY <1>29 DEF Packet, Input, Interrupt
  <1>30. CASE UNCHANGED vars
    BY <1>30 DEF vars
  <1> QED
    BY <1>1, <1>2, <1>3, <1>4, <1>5, <1>6, <1>7, <1>8, <1>9, <1>10, <1>11, <1>12, <1>13,
       <1>14, <1>15, <1>16, <1>17, <1>18, <1>19, <1>20, <1>21, <1>22, <1>23, <1>24,
       <1>25, <1>26, <1>27, <1>28, <1>29, <1>30
    DEF Next, Loop

LEMMA DesktopNext == DesktopInv /\ [Next]_vars => DesktopInv'
  BY TypeStep, LoopStep, ScreenStep, ActStep DEF DesktopInv

\* Whenever the processor sleeps, the screen is that of the mode, whatever
\* interrupts cut in on the loop and wherever, unless a handler entered a mode
\* between the loop's setting its own and drawing it; every tick counter and
\* deadline stays a 32-bit one, for every word size.
THEOREM DesktopScreen == Spec => []ScreenSound
  <1>1. DesktopInv => ScreenSound
    BY DEF DesktopInv, ScreenInv, ScreenSound, ScreenAgrees, Drawing
  <1> QED BY <1>1, DesktopInit, DesktopNext, PTL DEF Spec

\* os_draw_mouse_cursor acts once on a press, however often the loop runs while
\* the button is down, unless a mode was entered meanwhile.
THEOREM DesktopOneAct == Spec => []OneActPerPress
  <1>1. DesktopInv => OneActPerPress
    BY DEF DesktopInv, ActInv, OneActPerPress
  <1> QED BY <1>1, DesktopInit, DesktopNext, PTL DEF Spec
=============================================================================
