-------------------------------- MODULE KPlay --------------------------------
(***************************************************************************)
(* The snake and the calculator of test_os (test_os/kernel.c).  The main   *)
(* loop moves the snake and draws the pointer; keys come as interrupts,    *)
(* between any two reads of the loop.                                      *)
(***************************************************************************)
EXTENDS Integers, Sequences, SequencesExt, FiniteSetsExt

CONSTANTS
  SnakeW, SnakeH,  \* SNAKE_GRID_W, SNAKE_GRID_H
  SnakeHead,       \* where the head starts; the body lies to its left
  SnakeStart,      \* the length it starts with
  SnakeMoves,      \* bound on the moves
  KcDigits,        \* the digits of the calculator
  KcRoom,          \* the display holds numbers below this
  KcTop,           \* the first bit sqrt_bitshift tries: 2^30 of a word of 32 bits
  KcExp,           \* bound on exponents, for TLC's integers
  KcPresses        \* bound on the keys of the calculator

VARIABLE play

PlayOff == [kind |-> "off"]

----------------------------------------------------------------------------
(* The snake.                                                              *)

Cells == SnakeW * SnakeH

\* start_snake_game: what lies in snake_body behind the length is left over
\* from an earlier game.
Started(body, food) ==
  [kind |-> "snake", pc |-> "loop",
   body |-> [i \in 1 .. Cells |->
               IF i <= SnakeStart THEN <<SnakeHead[1] - i + 1, SnakeHead[2]>> ELSE body[i]],
   len |-> SnakeStart, dir |-> <<1, 0>>, food |-> food, over |-> FALSE, head |-> <<0, 0>>,
   moves |-> 0, grown |-> FALSE]  \* grown: history variable, it ate in the last move

\* spawn_snake_food: the ticks decide, the body is not looked at.
Food == (1 .. SnakeW - 2) \X (1 .. SnakeH - 2)

SnakeStarts == {Started([i \in 1 .. Cells |-> <<0, 0>>], f) : f \in Food}

Running == play.kind = "snake" /\ ~play.over

\* The two coordinates of new_head are computed in the order the compiler
\* chooses, from a direction a key may change in between.
SnakeReadFirst ==
  \E i \in {1, 2} :
    /\ Running /\ play.pc = "loop" /\ play.moves < SnakeMoves
    /\ play' = [play EXCEPT !.pc = IF i = 1 THEN "y" ELSE "x", !.moves = @ + 1,
                            !.head[i] = play.body[1][i] + play.dir[i]]

SnakeReadSecond ==
  /\ Running /\ play.pc \in {"x", "y"}
  /\ LET i == IF play.pc = "x" THEN 1 ELSE 2
     IN  play' = [play EXCEPT !.pc = "move", !.head[i] = play.body[1][i] + play.dir[i]]

OffGrid(h) == h[1] < 0 \/ h[1] >= SnakeW \/ h[2] < 0 \/ h[2] >= SnakeH
HitsBehindNeck(p, h) == \E i \in 3 .. p.len : p.body[i] = h
HitsSelf(p, h) == \E i \in 1 .. p.len : p.body[i] = h

\* The rest of update_snake_game.  A snake that eats grows by what the array
\* holds behind its tail, which the next move overwrites.
SnakeMove ==
  /\ Running /\ play.pc = "move"
  /\ LET h == play.head
         moved == [play EXCEPT !.pc = "loop", !.grown = FALSE,
                               !.body = <<h>> \o SubSeq(@, 1, play.len - 1) \o SubSeq(@, play.len + 1, Cells)]
     IN  IF OffGrid(h) \/ HitsSelf(play, h)
         THEN play' = [play EXCEPT !.pc = "loop", !.over = TRUE]
         ELSE IF h # play.food THEN play' = moved
         ELSE \E f \in Food :
                play' = [moved EXCEPT !.food = f, !.grown = play.len < Cells - 1,
                                      !.len = IF play.len < Cells - 1 THEN @ + 1 ELSE @]

\* The keys w, s, a, d turn it, unless it already moves along that axis.
SnakeTurn ==
  \E d \in {<<0, 0 - 1>>, <<0, 1>>, <<0 - 1, 0>>, <<1, 0>>} :
    /\ play.kind = "snake"
    /\ IF d[1] = 0 THEN play.dir[2] = 0 ELSE play.dir[1] = 0
    /\ play' = [play EXCEPT !.dir = d]

\* Space starts again once the game is over.
SnakeRestart ==
  \E f \in Food :
    /\ play.kind = "snake" /\ play.over
    /\ play' = [Started(play.body, f) EXCEPT !.moves = play.moves]

----------------------------------------------------------------------------
(* The calculator.                                                         *)

RECURSIVE SqrtStep(_, _, _)
SqrtStep(n, res, bit) ==
  IF bit = 0 THEN res
  ELSE IF n >= res + bit THEN SqrtStep(n - (res + bit), (res \div 2) + bit, bit \div 4)
  ELSE SqrtStep(n, res \div 2, bit \div 4)

RECURSIVE TopBit(_, _)
TopBit(n, bit) == IF bit > n THEN TopBit(n, bit \div 4) ELSE bit

SqrtBitshift(n) == IF n = 0 THEN 0 ELSE SqrtStep(n, 0, TopBit(n, KcTop))

\* sqrt_newton_raphson, rounded: fifteen rounds are enough up to 10^6.
SqrtNewton(s) == IF s <= 0 THEN 0 ELSE CHOOSE r \in 0 .. s : (2 * r - 1) * (2 * r - 1) <= 4 * s /\ 4 * s < (2 * r + 1) * (2 * r + 1)

RECURSIVE PowStep(_, _, _)
PowStep(res, base, exp) ==
  IF exp = 0 THEN res
  ELSE PowStep(IF exp % 2 = 1 THEN res * base ELSE res, base * base, exp \div 2)

IntPow(base, exp) == IF exp < 0 THEN 0 ELSE PowStep(1, base, exp)

Size(n) == IF n < 0 THEN 0 - n ELSE n

\* Division as in C: towards zero.
Quotient(a, b) == LET q == Size(a) \div Size(b) IN IF (a < 0) # (b < 0) THEN 0 - q ELSE q

Equals(op, a, b) ==
  CASE op = "+" -> a + b
    [] op = "-" -> a - b
    [] op = "*" -> a * b
    [] op = "/" -> IF b = 0 THEN 0 ELSE Quotient(a, b)
    [] op = "^" -> IntPow(a, b)
    [] OTHER -> b

\* The mouse pointer over the display, and what is saved from under it.
NotSaved == [saved |-> FALSE]
Under(v) == [saved |-> TRUE, value |-> v]
Spot == {"display", "keys"}

KcStart ==
  [kind |-> "calc", display |-> 0, op |-> "none", operand |-> 0, newNum |-> TRUE,
   spot |-> "keys", under |-> NotSaved, shown |-> 0, n |-> 0,
   did |-> <<"none", 0, 0>>,  \* history variable: the last result asked for
   behind |-> FALSE]          \* history variable: the display changed under the pointer

\* update_calc_display_only at the end of handle_calc_click.
Displayed(p) == play' = [p EXCEPT !.shown = p.display, !.n = @ + 1, !.behind = (p.spot = "display")]

Pressing == play.kind = "calc" /\ play.n < KcPresses

KcClear ==
  /\ Pressing
  /\ Displayed([play EXCEPT !.display = 0, !.op = "none", !.operand = 0, !.newNum = TRUE, !.did = <<"none", 0, 0>>])

KcRoot ==
  /\ Pressing
  /\ \/ LET val == play.display % (4 * KcTop)
        IN  Displayed([play EXCEPT !.display = SqrtBitshift(val), !.newNum = TRUE, !.did = <<"bit", val, 0>>])
     \/ Displayed([play EXCEPT !.display = SqrtNewton(@), !.newNum = TRUE, !.did = <<"newton", play.display, 0>>])

KcOp ==
  \E op \in {"+", "-", "*", "/", "^"} :
    /\ Pressing
    /\ Displayed([play EXCEPT !.operand = play.display, !.op = op, !.newNum = TRUE, !.did = <<"none", 0, 0>>])

KcEquals ==
  /\ Pressing
  /\ play.op = "^" => play.display <= KcExp
  /\ Displayed([play EXCEPT !.display = Equals(play.op, play.operand, @), !.op = "none", !.newNum = TRUE,
                            !.did = <<play.op, play.operand, play.display>>])

KcDigit ==
  \E d \in KcDigits :
    LET fresh == play.newNum \/ play.display = 0
        longer == IF play.display < 0 THEN 10 * play.display - d ELSE 10 * play.display + d
    IN  /\ Pressing
        /\ Displayed([play EXCEPT !.newNum = IF fresh THEN FALSE ELSE @, !.did = <<"none", 0, 0>>,
                                  !.display = IF fresh THEN d ELSE IF Size(longer) < KcRoom THEN longer ELSE @])

\* os_draw_mouse_cursor: what was saved is put back where the pointer was,
\* and what is under its new place is saved.
KcPointer ==
  \E to \in Spot :
    /\ play.kind = "calc" /\ to # play.spot
    /\ LET back == IF play.under.saved /\ play.spot = "display" THEN play.under.value ELSE play.shown
       IN  play' = [play EXCEPT !.spot = to, !.shown = back,
                                !.under = IF to = "display" THEN Under(back) ELSE NotSaved]

PlayNext ==
  play.kind # "off" /\
    (\/ SnakeReadFirst \/ SnakeReadSecond \/ SnakeMove \/ SnakeTurn \/ SnakeRestart
     \/ KcClear \/ KcRoot \/ KcOp \/ KcEquals \/ KcDigit \/ KcPointer)

----------------------------------------------------------------------------
\* Whatever keys come between the reads of update_snake_game, and whatever
\* an earlier game left in the array, the snake is a chain of different
\* cells of the grid, each beside or diagonal to the last; only the cell it
\* has just grown may lie elsewhere, until the next move.
SnakeWhole ==
  LET n == IF play.grown THEN play.len - 1 ELSE play.len
  IN  /\ \A i \in 1 .. n : ~OffGrid(play.body[i])
      /\ \A i, j \in 1 .. n : i # j => play.body[i] # play.body[j]
      /\ \A i \in 1 .. n - 1 : \A k \in {1, 2} : Size(play.body[i][k] - play.body[i + 1][k]) <= 1

\* The results of the calculator are those of arithmetic: the integer root,
\* the quotient towards zero, the power.
Computed ==
  LET a == play.did[2]
      b == play.did[3]
      r == play.display
  IN  CASE play.did[1] = "bit" -> r * r <= a /\ a < (r + 1) * (r + 1)
        [] play.did[1] = "/" -> b = 0 \/ (Size(b * r) <= Size(a) /\ Size(a - b * r) < Size(b))
        [] play.did[1] = "^" -> b < 0 \/ r = FoldLeft(LAMBDA x, y : x * y, 1, [i \in 1 .. b |-> a])
        [] OTHER -> TRUE

\* What is on the screen is calc_display, unless the display changed while
\* the pointer lay on it: moving the pointer puts the old picture back
\* (kernel.c:182).
DisplayShows == ~play.behind => play.shown = play.display

PlayAgrees ==
  /\ play.kind = "snake" => SnakeWhole
  /\ play.kind = "calc" => Computed /\ DisplayShows
=============================================================================
