------------------------------ MODULE Desktop -------------------------------
(***************************************************************************)
(* The kernel of test_os: the main loop of kernel_main, which the timer,   *)
(* keyboard and mouse interrupts of idt.c and ps2.c cut in on, the PC      *)
(* speaker (freestanding/ksound.c), the notification of the demo button    *)
(* and the screens of the seven modes.                                     *)
(*                                                                         *)
(* The gates are interrupt gates, so a handler, with the shell command it  *)
(* may run, is one step; between two steps of the main loop any handler    *)
(* may run.  Ticks count modulo WordSize, as uint32_t does.  What is on    *)
(* the screen is the mode whose screen was drawn last, and whether the     *)
(* notification shows; the cursor, the clock and the text are left out.    *)
(***************************************************************************)
EXTENDS Naturals

CONSTANTS
  WordSize,   \* 2^32 in the code
  BeepTicks,  \* how long a beep is
  ToastTicks, \* how long the notification stays
  MaxInputs   \* bound on key, button and food events

ASSUME DesktopAssumption ==
  /\ WordSize \in Nat \ {0} /\ MaxInputs \in Nat
  /\ BeepTicks \in 1 .. WordSize - 1 /\ ToastTicks \in 1 .. WordSize - 1

VARIABLES
  mode, screen,  \* os_mode, and the mode whose screen was drawn last
  gameover,      \* snake_gameover
  speaker,       \* the two low bits of port 0x61
  playing, stopTick,  \* sound_playing, sound_stop_tick
  toast, expire, \* toast_active, toast_expire_tick
  shown,         \* the notification is on the screen
  button, over,  \* the left mouse button, and what the pointer is over
  prev,          \* btn_pressed_prev
  ticks,         \* timer_ticks
  pc, cur, at, ret,   \* the main loop: next step, cur_ticks, and of a beep
                      \* the tick it started at and the step after it
  late,          \* no tick comes before the next hlt
  inputs,        \* how many inputs there were
  clash,    \* history variable: a beep came while an old one was being stopped
  strayed,  \* history variable: a screen was drawn over that of a later mode
  acts,     \* history variable: what the button, held down, has done so far
  left      \* history variable: a mode was entered since it is held down

sound == <<speaker, playing, stopTick>>
note == <<toast, expire, shown>>
mouse == <<button, over, prev>>
loop == <<pc, cur, at, ret, late>>
display == <<mode, screen, strayed, left>>
vars == <<display, gameover, sound, note, mouse, ticks, loop, inputs, clash, acts>>

Mode == {"gui", "cli", "edit", "top", "snake", "calc", "bmp"}

\* demo_btn, game_btn and calc_btn of the desktop, the keys of the calculator,
\* and the place where calc_btn and the key "/" overlap.
Place == {"nothing", "demo", "game", "calc", "key", "calc and key"}
OverCalc == over \in {"calc", "calc and key"}
OverKey == over \in {"key", "calc and key"}

After(n) == (ticks + n) % WordSize

Init ==
  /\ mode = "gui" /\ screen = "gui"
  /\ gameover = FALSE
  /\ speaker = FALSE /\ playing = FALSE /\ stopTick = 0
  /\ toast = FALSE /\ expire = 0 /\ shown = FALSE
  /\ button = FALSE /\ over = "nothing" /\ prev = FALSE
  /\ ticks = 0
  /\ pc = "top" /\ cur = 0 /\ at = 0 /\ ret = "hlt" /\ late = FALSE
  /\ inputs = 0
  /\ clash = FALSE /\ strayed = FALSE /\ acts = 0 /\ left = FALSE

-----------------------------------------------------------------------------
(* The main loop.                                                           *)

At(p) == pc = p
Goto(p) == pc' = p
\* A step that only moves the loop's own locals, or not even those.
Quiet == UNCHANGED <<display, gameover, sound, note, mouse, ticks, inputs,
                     clash, acts>>

Top ==
  /\ At("top") /\ Goto("sound")
  /\ cur' = ticks
  /\ UNCHANGED <<at, ret, late>> /\ Quiet

\* ksound_update: port, flag and deadline are cleared one after the other.
SoundDue == playing /\ stopTick > 0 /\ cur >= stopTick

SoundCheck ==
  /\ At("sound") /\ Goto(IF SoundDue THEN "soundOff" ELSE "toast")
  /\ UNCHANGED <<cur, at, ret, late>> /\ Quiet

SoundOff ==
  /\ At("soundOff") /\ Goto("soundFlag")
  /\ speaker' = FALSE
  /\ UNCHANGED <<display, gameover, playing, stopTick, note, mouse, ticks,
                 cur, at, ret, late, inputs, clash, acts>>

SoundFlag ==
  /\ At("soundFlag") /\ Goto("soundClear")
  /\ playing' = FALSE
  /\ UNCHANGED <<display, gameover, speaker, stopTick, note, mouse, ticks,
                 cur, at, ret, late, inputs, clash, acts>>

SoundClear ==
  /\ At("soundClear") /\ Goto("toast")
  /\ stopTick' = 0
  /\ UNCHANGED <<display, gameover, speaker, playing, note, mouse, ticks,
                 cur, at, ret, late, inputs, clash, acts>>

ToastDue == mode = "gui" /\ toast /\ cur >= expire

ToastCheck ==
  /\ At("toast") /\ Goto(IF ToastDue THEN "toastOff" ELSE "mode")
  /\ UNCHANGED <<cur, at, ret, late>> /\ Quiet

ToastOff ==
  /\ At("toastOff") /\ Goto("toastErase")
  /\ toast' = FALSE
  /\ UNCHANGED <<display, gameover, sound, expire, shown, mouse, ticks, cur,
                 at, ret, late, inputs, clash, acts>>

ToastErase ==
  /\ At("toastErase") /\ Goto("mode")
  /\ shown' = FALSE
  /\ UNCHANGED <<display, gameover, sound, toast, expire, mouse, ticks, cur,
                 at, ret, late, inputs, clash, acts>>

\* update_snake_game: it moves on, eats (the food lies ahead), or dies.  The
\* loop does not need cur_ticks again in this pass.
Snake ==
  /\ At("mode")
  /\ IF mode = "snake" /\ ~gameover
     THEN \/ Goto("cursor") /\ UNCHANGED <<gameover, ret, inputs>>
          \/ /\ inputs < MaxInputs /\ inputs' = inputs + 1
             /\ Goto("beep") /\ ret' = "cursor" /\ UNCHANGED gameover
          \/ /\ gameover' = TRUE
             /\ Goto("beep") /\ ret' = "cursor" /\ UNCHANGED inputs
     ELSE Goto("cursor") /\ UNCHANGED <<gameover, ret, inputs>>
  /\ cur' = 0
  /\ UNCHANGED <<display, sound, note, mouse, ticks, at, late, clash, acts>>

\* ksound_beep called by the loop; p is what is called after it.
CallBeep(p) == Goto("beep") /\ ret' = p

Beep ==
  /\ At("beep") /\ Goto("beepFlag")
  /\ at' = ticks
  /\ speaker' = TRUE
  /\ clash' = FALSE
  /\ UNCHANGED <<display, gameover, playing, stopTick, note, mouse, ticks, cur,
                 ret, late, inputs, acts>>

BeepFlag ==
  /\ At("beepFlag") /\ Goto("beepStop")
  /\ playing' = TRUE
  /\ UNCHANGED <<display, gameover, speaker, stopTick, note, mouse, ticks, cur,
                 at, ret, late, inputs, clash, acts>>

BeepForever ==
  /\ At("beepStop") /\ Goto(ret)
  /\ UNCHANGED <<cur, at, ret, late>> /\ Quiet

\* When the sum wraps to 0, ksound_update takes it for no deadline.
BeepStop ==
  /\ At("beepStop") /\ Goto(ret)
  /\ stopTick' = (at + BeepTicks) % WordSize
  /\ clash' = (stopTick' = 0)
  /\ at' = 0 /\ ret' = "hlt"
  /\ UNCHANGED <<display, gameover, speaker, playing, note, mouse, ticks, cur,
                 late, inputs, acts>>

\* os_draw_mouse_cursor: a button that is down now and was not at the last
\* call acts on what the pointer is over.
Cursor ==
  /\ At("cursor")
  /\ Goto(IF mode \in {"gui", "calc"} THEN mode ELSE "hlt")
  /\ UNCHANGED <<cur, at, ret, late>> /\ Quiet

Pressed == button /\ ~prev

Click ==
  /\ Pressed
  /\ \/ At("gui") /\ over = "demo" /\ CallBeep("toastOn")
     \/ At("gui") /\ over = "game" /\ CallBeep("snakeMode")
     \/ At("gui") /\ OverCalc /\ CallBeep("calcMode")
     \/ At("calc") /\ OverKey /\ CallBeep("prev")
  /\ acts' = acts + 1
  /\ UNCHANGED <<display, gameover, sound, note, mouse, ticks, cur, at, late,
                 inputs, clash>>

NoClick ==
  /\ \/ At("gui") /\ ~(Pressed /\ (over \in {"demo", "game"} \/ OverCalc))
     \/ At("calc") /\ ~(Pressed /\ OverKey)
  /\ Goto("prev")
  /\ UNCHANGED <<cur, at, ret, late>> /\ Quiet

ToastOn ==
  /\ At("toastOn") /\ Goto("toastExpire")
  /\ toast' = TRUE
  /\ UNCHANGED <<display, gameover, sound, expire, shown, mouse, ticks, cur, at,
                 ret, late, inputs, clash, acts>>

ToastExpire ==
  /\ At("toastExpire") /\ Goto("toastDraw")
  /\ expire' = After(ToastTicks)
  /\ UNCHANGED <<display, gameover, sound, toast, shown, mouse, ticks, cur, at,
                 ret, late, inputs, clash, acts>>

ToastDraw ==
  /\ At("toastDraw") /\ Goto("prev")
  /\ shown' = TRUE
  /\ UNCHANGED <<display, gameover, sound, toast, expire, mouse, ticks, cur, at,
                 ret, late, inputs, clash, acts>>

\* start_snake_game and the opening of the calculator: first the mode, then
\* the screen, over whatever a handler has drawn in between.
NewMode(m) == mode' = m /\ left' = (left \/ button)
LoopDraws(m) == screen' = m /\ shown' = FALSE /\ strayed' = (mode # m)

SnakeMode ==
  /\ At("snakeMode") /\ Goto("snakeDraw")
  /\ NewMode("snake")
  /\ gameover' = FALSE
  /\ UNCHANGED <<screen, strayed, sound, note, mouse, ticks, cur, at, ret, late,
                 inputs, clash, acts>>

SnakeDraw ==
  /\ At("snakeDraw") /\ Goto("hlt")
  /\ LoopDraws("snake")
  /\ UNCHANGED <<mode, left, gameover, sound, toast, expire, mouse, ticks, cur, at,
                 ret, late, inputs, clash, acts>>

CalcMode ==
  /\ At("calcMode") /\ Goto("calcDraw")
  /\ NewMode("calc")
  /\ UNCHANGED <<screen, strayed, gameover, sound, note, mouse, ticks, cur, at,
                 ret, late, inputs, clash, acts>>

CalcDraw ==
  /\ At("calcDraw") /\ Goto("hlt")
  /\ LoopDraws("calc")
  /\ UNCHANGED <<mode, left, gameover, sound, toast, expire, mouse, ticks, cur, at,
                 ret, late, inputs, clash, acts>>

\* Those two return before this last step of os_draw_mouse_cursor.
KeepPrev ==
  /\ At("prev") /\ Goto("hlt")
  /\ UNCHANGED <<cur, at, ret, late>> /\ Quiet

SetPrev ==
  /\ At("prev") /\ Goto("hlt")
  /\ prev' = button
  /\ UNCHANGED <<display, gameover, sound, note, button, over, ticks, cur, at,
                 ret, late, inputs, clash, acts>>

Loop ==
  \/ Top \/ SoundCheck \/ SoundOff \/ SoundFlag \/ SoundClear
  \/ ToastCheck \/ ToastOff \/ ToastErase
  \/ Snake \/ Beep \/ BeepFlag \/ BeepStop
  \/ Cursor \/ Click \/ NoClick \/ ToastOn \/ ToastExpire \/ ToastDraw
  \/ SnakeMode \/ SnakeDraw \/ CalcMode \/ CalcDraw \/ SetPrev

-----------------------------------------------------------------------------
(* The interrupt handlers.  Each of them ends a hlt.                        *)

Interrupt == Goto(IF pc = "hlt" THEN "top" ELSE pc)
Input == inputs < MaxInputs /\ inputs' = inputs + 1

\* A pass of the loop takes less than the 10 ms between two ticks, unless it
\* was another interrupt that started it or one has cut in on it.
Tick ==
  /\ pc = "hlt" \/ ~late
  /\ late' = TRUE
  /\ ticks' = (ticks + 1) % WordSize
  /\ Interrupt
  /\ UNCHANGED <<display, gameover, sound, note, mouse, cur, at, ret, inputs,
                 clash, acts>>

\* ksound_beep called by a handler.
Stopping == pc \in {"soundOff", "soundFlag", "soundClear"}
HandlerBeeps ==
  /\ speaker' = TRUE /\ playing' = TRUE
  /\ stopTick' = After(BeepTicks)
  /\ clash' = (Stopping \/ stopTick' = 0)
Silent == UNCHANGED <<sound, clash>>

\* A handler changes the mode and draws its screen; the desktop's has the
\* notification when it is active.
Enters(m) ==
  /\ NewMode(m)
  /\ screen' = m /\ strayed' = FALSE
  /\ shown' = (m = "gui" /\ toast)
Stays == UNCHANGED <<display, shown>>

Handler ==
  /\ Input /\ Interrupt /\ late' = FALSE
  /\ UNCHANGED <<toast, expire, mouse, ticks, cur, at, ret, acts>>

\* os_toggle_cli_mode, on Esc, F1, Tab and Ctrl+V.
Toggle ==
  /\ Handler /\ Silent
  /\ Enters(IF mode = "gui" THEN "cli" ELSE "gui")
  /\ UNCHANGED gameover

\* execute_cli_command: what changes the mode, what beeps, and the rest, whose
\* output covers the notification.
Command ==
  /\ Handler /\ mode = "cli"
  /\ \/ /\ \E m \in {"edit", "top", "calc", "bmp", "gui"} : Enters(m)
        /\ Silent /\ UNCHANGED gameover
     \/ Enters("snake") /\ gameover' = FALSE /\ Silent
     \/ HandlerBeeps /\ shown' = FALSE /\ UNCHANGED <<display, gameover>>
     \/ Silent /\ shown' = FALSE /\ UNCHANGED <<display, gameover>>

\* q in the process monitor, the image viewer and the game.
QuitNoDraw ==
  /\ Handler /\ Silent
  /\ \/ mode \in {"top", "bmp"} /\ NewMode("cli")
     \/ mode = "snake" /\ NewMode("gui")
  /\ UNCHANGED <<gameover, screen, strayed, shown>>

Quit ==
  /\ Handler /\ Silent
  /\ \/ mode \in {"top", "bmp"} /\ Enters("cli")
     \/ mode = "snake" /\ Enters("gui")
  /\ UNCHANGED gameover

\* A character in the editor, space in the game, a key of the calculator.
Typed ==
  /\ Handler
  /\ \/ mode = "edit" /\ Enters("edit") /\ Silent /\ UNCHANGED gameover
     \/ mode = "snake" /\ gameover /\ Enters("snake") /\ gameover' = FALSE /\ Silent
     \/ mode = "calc" /\ HandlerBeeps /\ Stays /\ UNCHANGED gameover

\* ps2_mouse_handler with a complete packet: the pointer moves, the button
\* goes down or up.
Packet ==
  \E b \in BOOLEAN, p \in Place :
    /\ Input /\ Interrupt /\ late' = FALSE
    /\ button' = b /\ over' = p
    /\ acts' = IF b /\ button THEN acts ELSE 0
    /\ left' = (left /\ b /\ button)
    /\ UNCHANGED <<mode, screen, strayed, gameover, sound, note, prev, ticks, cur,
                   at, ret, clash>>

Next == Loop \/ Tick \/ Toggle \/ Command \/ Quit \/ Typed \/ Packet

\* The processor keeps executing the loop and the timer keeps ticking.
Spec == Init /\ [][Next]_vars /\ WF_vars(Loop) /\ WF_vars(Tick)

-----------------------------------------------------------------------------
(* Properties.                                                             *)

TypeOK ==
  /\ mode \in Mode /\ screen \in Mode
  /\ {gameover, speaker, playing, toast, shown, button, prev, late, clash,
      strayed, left} \subseteq BOOLEAN
  /\ {stopTick, expire, ticks, cur, at} \subseteq 0 .. WordSize - 1
  /\ over \in Place

\* When the processor sleeps, the screen is that of the mode, except after a
\* handler changed the mode between the loop's setting it and drawing it.
ScreenAgrees == pc = "hlt" /\ ~strayed => screen = mode

\* A press of the mouse button does one thing, however long it is held and
\* wherever it is dragged, unless a mode was entered meanwhile: starting a
\* game or the calculator forgets that the button was down (kernel.c:321, 327).
OneActPerPress == acts <= 1 \/ left

\* Every tone ends (kernel.c:1254 calls ksound_update in each pass), unless a
\* handler beeped while ksound_update was stopping the last tone, or the
\* deadline wrapped to 0.
ToneEnds == (speaker /\ ~clash) ~> (~speaker \/ clash)

\* The notification goes away ("Mensagem sumira em 5s", kernel.c:209), while
\* the desktop stays in front, whatever was done on other screens meanwhile.
ToastGoes == (shown /\ mode = "gui" /\ pc = "hlt") ~> (~shown \/ mode # "gui")

\* The screen follows the mode, with every counter and deadline in its range.
ScreenSound == TypeOK /\ ScreenAgrees

\* Whatever the loop has started it also ends: tones and the notification.
EverythingEnds == ToneEnds /\ ToastGoes
=============================================================================
