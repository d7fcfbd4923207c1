-------------------------------- MODULE Chip8 --------------------------------
(***************************************************************************)
(* The virtual machine of chip8 (src/chip8/chip8.c): ten cycles, then the  *)
(* timers if a sixtieth of a second has passed, the screen, and the keys   *)
(* that were waiting.                                                      *)
(***************************************************************************)
EXTENDS Integers, Sequences, SequencesExt, FiniteSetsExt, Bitwise

CONSTANTS
  C8Roms,        \* programs: name, bytes, and the first values of V0, V1, V2
  C8Start,       \* PROGRAM_START
  C8Memory,      \* MEMORY_SIZE
  C8Width, C8Height,  \* GFX_WIDTH, GFX_HEIGHT
  C8Stack,       \* STACK_SIZE
  C8Burst,       \* cycles between two looks at the clock and the keys
  C8Key          \* keys that are pressed

VARIABLE cpu

C8Off == [pc |-> "off"]

\* chip8_init and chip8_load_rom.  Registers are V[0] to V[15] at 1 to 16.
Loaded(rom) ==
  [pc |-> "run", rom |-> rom.name,
   mem |-> [a \in 1 .. C8Memory |-> IF a > C8Start /\ a <= C8Start + Len(rom.bytes) THEN rom.bytes[a - C8Start] ELSE 0],
   V |-> [i \in 1 .. 16 |-> IF i <= Len(rom.V) THEN rom.V[i] ELSE 0], first |-> rom.V,
   I |-> 0, at |-> C8Start, gfx |-> {}, delay |-> 0, sound |-> 0, stack |-> <<>>,
   key |-> {}, burst |-> 0]
C8Starts == {Loaded(rom) : rom \in C8Roms}

----------------------------------------------------------------------------
(* chip8_cycle.  An opcode is its four nibbles.                            *)

Fetched(c) == <<c.mem[c.at + 1] \div 16, c.mem[c.at + 1] % 16, c.mem[c.at + 2] \div 16, c.mem[c.at + 2] % 16>>
Nnn(op) == 256 * op[2] + 16 * op[3] + op[4]
Kk(op) == 16 * op[3] + op[4]
Vx(c, op) == c.V[op[2] + 1]
Vy(c, op) == c.V[op[3] + 1]
SetV(c, i, v) == [c EXCEPT !.V[i + 1] = v % 256]
SkipIf(c, cond) == IF cond THEN [c EXCEPT !.at = @ + 2] ELSE c

Return(c) == IF c.stack = <<>> THEN c ELSE [c EXCEPT !.at = Last(c.stack), !.stack = Front(@)]
\* A call that finds the stack full is left out.
Call(c, nnn) == IF Len(c.stack) < C8Stack THEN [c EXCEPT !.stack = Append(@, c.at), !.at = nnn] ELSE c

\* The flag is written before the result, and before Vy is read.
Flagged(c, flag) == SetV(c, 15, IF flag THEN 1 ELSE 0)
Arithmetic(c, op) ==
  LET x == op[2]
      a == Vx(c, op)
      b == Vy(c, op)
      sub == Flagged(c, a >= b)
      rsub == Flagged(c, b >= a)
      low == Flagged(c, a % 2 = 1)
      high == Flagged(c, a \div 128 = 1)
  IN  CASE op[4] = 0 -> SetV(c, x, b)
        [] op[4] = 1 -> SetV(c, x, a | b)
        [] op[4] = 2 -> SetV(c, x, a & b)
        [] op[4] = 3 -> SetV(c, x, a ^^ b)
        [] op[4] = 4 -> SetV(Flagged(c, a + b > 255), x, a + b)
        [] op[4] = 5 -> SetV(sub, x, Vx(sub, op) - Vy(sub, op))
        [] op[4] = 6 -> SetV(low, x, Vx(low, op) \div 2)
        [] op[4] = 7 -> SetV(rsub, x, Vy(rsub, op) - Vx(rsub, op))
        [] op[4] = 14 -> SetV(high, x, 2 * Vx(high, op))
        [] OTHER -> c

\* Sprites are clipped at the right and at the bottom.
Draw(c, op) ==
  LET x == Vx(c, op) % C8Width
      y == Vy(c, op) % C8Height
      dots == {d \in (0 .. 7) \X (0 .. op[4] - 1) :
                 x + d[1] < C8Width /\ y + d[2] < C8Height /\ (c.mem[c.I + d[2] + 1] \div 2^(7 - d[1])) % 2 = 1}
      lit == {<<x + d[1], y + d[2]>> : d \in dots}
  IN  [Flagged(c, lit \cap c.gfx # {}) EXCEPT !.gfx = (@ \cup lit) \ (@ \cap lit)]

Misc(c, op) ==
  LET x == op[2]
      v == Vx(c, op)
      kk == Kk(op)
  IN  CASE kk = 7 -> SetV(c, x, c.delay)
        [] kk = 10 -> IF c.key = {} THEN [c EXCEPT !.at = @ - 2] ELSE SetV(c, x, Min(c.key))
        [] kk = 21 -> [c EXCEPT !.delay = v]
        [] kk = 24 -> [c EXCEPT !.sound = v]
        [] kk = 30 -> [c EXCEPT !.I = @ + v]
        [] kk = 41 -> [c EXCEPT !.I = 80 + 5 * v]
        [] kk = 51 -> [c EXCEPT !.mem = [@ EXCEPT ![c.I + 1] = v \div 100, ![c.I + 2] = (v \div 10) % 10, ![c.I + 3] = v % 10]]
        [] kk = 85 -> [c EXCEPT !.mem = [a \in 1 .. C8Memory |-> IF a \in c.I + 1 .. c.I + x + 1 THEN c.V[a - c.I] ELSE c.mem[a]]]
        [] kk = 101 -> [c EXCEPT !.V = [i \in 1 .. 16 |-> IF i <= x + 1 THEN c.mem[c.I + i] ELSE c.V[i]]]
        [] OTHER -> c

\* What one opcode may do: only rand leaves a choice.
Cycled(old) ==
  LET op == Fetched(old)
      c == [old EXCEPT !.at = @ + 2]
      k == op[1]
      kk == Kk(op)
  IN  CASE k = 0 -> {IF op = <<0, 0, 14, 0>> THEN [c EXCEPT !.gfx = {}]
                     ELSE IF op = <<0, 0, 14, 14>> THEN Return(c) ELSE c}
        [] k = 1 -> {[c EXCEPT !.at = Nnn(op)]}
        [] k = 2 -> {Call(c, Nnn(op))}
        [] k = 3 -> {SkipIf(c, Vx(c, op) = kk)}
        [] k = 4 -> {SkipIf(c, Vx(c, op) # kk)}
        [] k = 5 -> {SkipIf(c, Vx(c, op) = Vy(c, op))}
        [] k = 6 -> {SetV(c, op[2], kk)}
        [] k = 7 -> {SetV(c, op[2], Vx(c, op) + kk)}
        [] k = 8 -> {Arithmetic(c, op)}
        [] k = 9 -> {SkipIf(c, Vx(c, op) # Vy(c, op))}
        [] k = 10 -> {[c EXCEPT !.I = Nnn(op)]}
        [] k = 11 -> {[c EXCEPT !.at = Nnn(op) + c.V[1]]}
        [] k = 12 -> {SetV(c, op[2], r) : r \in {r & kk : r \in 0 .. kk}}
        [] k = 13 -> {Draw(c, op)}
        [] k = 14 -> {SkipIf(c, \/ kk = 158 /\ (Vx(c, op) % 16) \in c.key
                                \/ kk = 161 /\ (Vx(c, op) % 16) \notin c.key)}
        [] k = 15 -> {Misc(c, op)}

C8Cycle ==
  /\ cpu.pc = "run" /\ cpu.burst < C8Burst
  /\ \E c \in Cycled(cpu) : cpu' = [c EXCEPT !.burst = @ + 1]

TurnedDelayHeld(keys, by) ==
  /\ cpu.pc = "run" /\ cpu.burst = C8Burst
  /\ cpu' = [cpu EXCEPT !.burst = 0, !.key = keys, !.sound = IF @ > 0 THEN @ - by ELSE @]

\* The end of a turn of main's loop: the clock has moved by a sixtieth of a
\* second or not, and the keys of this turn replace those of the last.
Turned(keys, by) ==
  /\ cpu.pc = "run" /\ cpu.burst = C8Burst
  /\ cpu' = [cpu EXCEPT !.burst = 0, !.key = keys,
                        !.delay = IF @ > 0 THEN @ - by ELSE @, !.sound = IF @ > 0 THEN @ - by ELSE @]
C8Tick == \E keys \in SUBSET C8Key : Turned(keys, 1)
C8Turn == \E keys \in SUBSET C8Key : Turned(keys, 0)

C8Quit == cpu.pc = "run" /\ cpu.burst = C8Burst /\ cpu' = [cpu EXCEPT !.pc = "left"]

C8Next == cpu.pc # "off" /\ (C8Cycle \/ C8Tick \/ C8Turn \/ C8Quit)

\* The loop goes on, and the clock with it.
C8Fair == WF_cpu(cpu.pc # "off" /\ (C8Cycle \/ C8Turn)) /\ SF_cpu(cpu.pc # "off" /\ C8Tick)

----------------------------------------------------------------------------
\* The maze of default_maze_rom covers the screen: every tile before the
\* one being drawn holds one of its two pictures, drawn once.
Tile(x, y) == {d \in cpu.gfx : d[1] \in x .. x + 3 /\ d[2] \in y .. y + 3}
Pictures(x, y) ==
  {{<<x, y + 2>>, <<x + 1, y + 1>>, <<x + 2, y>>, <<x + 3, y + 3>>},
   {<<x, y>>, <<x + 1, y + 1>>, <<x + 2, y + 2>>, <<x + 3, y + 3>>}}
MazeCovers ==
  \A x \in 0 .. C8Width - 1, y \in 0 .. C8Height - 1 :
    x % 4 = 0 /\ y % 4 = 0 =>
      Tile(x, y) \in Pictures(x, y) \/ (Tile(x, y) = {} /\ (y > cpu.V[2] \/ (y = cpu.V[2] /\ x >= cpu.V[1])))

\* A program is at its end when it jumps to itself.
AtEnd == Fetched(cpu)[1] = 1 /\ Nnn(Fetched(cpu)) = cpu.at

\* Sum, differences and shifts of two bytes, each with its flag, and the
\* decimal digits, taken through memory and back.
ArithmeticAgrees ==
  LET a == cpu.first[2]
      b == cpu.first[3]
      Flag(cond) == IF cond THEN 1 ELSE 0
  IN  AtEnd =>
        SubSeq(cpu.V, 4, 13) =
          <<(a + b) % 256, Flag(a + b > 255), (a - b) % 256, Flag(a >= b), (b - a) % 256, Flag(b >= a),
            a \div 2, a % 2, (2 * a) % 256, Flag(a >= 128)>>
        /\ 100 * cpu.V[1] + 10 * cpu.V[2] + cpu.V[3] = b

\* Calls nest up to the depth of the stack and unwind completely: every call
\* that was entered returns once.
CallsUnwind ==
  AtEnd => cpu.stack = <<>> /\ cpu.V[1] = cpu.V[3]
           /\ cpu.V[1] = IF cpu.first[2] < C8Stack THEN cpu.first[2] ELSE C8Stack

\* A program that waits for a key gets one that was pressed.
KeyArrives == AtEnd => cpu.V[1] \in C8Key

Chip8Plays ==
  cpu.pc # "off" =>
    CASE cpu.rom = "maze" -> MazeCovers
      [] cpu.rom = "arithmetic" -> ArithmeticAgrees
      [] cpu.rom = "calls" -> CallsUnwind
      [] cpu.rom = "key" -> KeyArrives
      [] OTHER -> TRUE

\* A program that waits for the delay timer goes on, unless the user leaves.
DelayEnds == (cpu.pc = "run" /\ cpu.rom = "delay") ~> (cpu.pc = "left" \/ (cpu.pc = "run" /\ AtEnd))
=============================================================================
