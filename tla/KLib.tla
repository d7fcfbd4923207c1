-------------------------------- MODULE KLib --------------------------------
(***************************************************************************)
(* The library of the freestanding part: spinlock, list, 64-bit division,  *)
(* numbers as text, formatted text, overlapping moves, shapes and          *)
(* pictures, the double buffer with its list of changed areas, and the     *)
(* clock of the CMOS.  What only computes is done in one step on an input  *)
(* chosen at the start; the lock, the buffers and the clock are steps of   *)
(* several actors.                                                         *)
(***************************************************************************)
EXTENDS Integers, Sequences, SequencesExt, FiniteSetsExt

CONSTANTS
  LibCpu,        \* processors that share a spinlock
  LibNode,       \* nodes that are put on two lists
  LibWidth,      \* bits of an integer: 64 in the code
  LibBase,       \* bases numbers are written in
  LibFormat,     \* formats: sequences of directives
  LibRoom,       \* sizes of a buffer of kvsnprintf
  LibMem,        \* bytes of memory for kmemmove
  RtcSecs, RtcMins, RtcHours,  \* seconds of a minute, minutes of an hour, hours of a day
  GfxW, GfxH,    \* width and height of a frame buffer
  GfxShape,      \* shapes to draw
  GfxArea,       \* areas <<x, y, w, h>> that are painted and reported as changed
  GfxDirty,      \* KGFX_MAX_DIRTY_RECTS
  GfxPaints,     \* how often something is painted
  FpShift,       \* FP32_SHIFT
  FpMost,        \* the largest fixed-point number considered
  RtcTries       \* how often krtc_get_time asks whether the clock is updating

VARIABLE lib

LibOff == [kind |-> "off"]

----------------------------------------------------------------------------
(* kspinlock.c: an exchange until the old value is 0, and counters that    *)
(* are added to in one instruction.                                        *)

LockStart == [kind |-> "lock", lock |-> 0, at |-> [c \in LibCpu |-> "out"], count |-> 0, rounds |-> 0]

LockSpin ==
  \E c \in LibCpu :
    /\ lib.kind = "lock" /\ lib.at[c] \in {"out", "spin"} /\ lib.rounds < 2 * Cardinality(LibCpu)
    /\ lib' = [lib EXCEPT !.lock = 1, !.at[c] = IF lib.lock = 0 THEN "in" ELSE "spin",
                          !.rounds = IF lib.lock = 0 THEN @ + 1 ELSE @]

TryLock ==
  \E c \in LibCpu :
    /\ lib.kind = "lock" /\ lib.at[c] = "out" /\ lib.rounds < 2 * Cardinality(LibCpu)
    /\ lib' = [lib EXCEPT !.lock = 1, !.at[c] = IF lib.lock = 0 THEN "in" ELSE "out",
                          !.rounds = IF lib.lock = 0 THEN @ + 1 ELSE @]

AtomicAdd == \E c \in LibCpu : lib.kind = "lock" /\ lib.at[c] = "in" /\ lib' = [lib EXCEPT !.count = @ + 1, !.at[c] = "added"]

Unlock ==
  \E c \in LibCpu : lib.kind = "lock" /\ lib.at[c] = "added" /\ lib' = [lib EXCEPT !.lock = 0, !.at[c] = "out"]

----------------------------------------------------------------------------
(* klist.c: two lists with the heads 1 and 2.                              *)

ListHead == {"h1", "h2"}
ListStart ==
  [kind |-> "list", next |-> [n \in ListHead \cup LibNode |-> n], prev |-> [n \in ListHead \cup LibNode |-> n],
   want |-> [h \in ListHead |-> <<>>]]  \* history variable: what was added to each list

\* list_add between two neighbours.
Between(l, n, p, q) == [l EXCEPT !.next = [@ EXCEPT ![p] = n, ![n] = q], !.prev = [@ EXCEPT ![q] = n, ![n] = p]]

OnList(n) == \E h \in ListHead : n \in ToSet(lib.want[h])

AddHead ==
  \E h \in ListHead, n \in LibNode :
    /\ lib.kind = "list" /\ ~OnList(n)
    /\ lib' = [Between(lib, n, h, lib.next[h]) EXCEPT !.want[h] = <<n>> \o @]

AddTail ==
  \E h \in ListHead, n \in LibNode :
    /\ lib.kind = "list" /\ ~OnList(n)
    /\ lib' = [Between(lib, n, lib.prev[h], h) EXCEPT !.want[h] = Append(@, n)]

\* A node that was removed points to itself, so removing it again is harmless.
UnlinkedOneWay(l, n) == [l EXCEPT !.next = [@ EXCEPT ![l.prev[n]] = l.next[n], ![n] = n]]
Unlinked(l, n) ==
  [l EXCEPT !.next = [@ EXCEPT ![l.prev[n]] = l.next[n], ![n] = n],
            !.prev = [@ EXCEPT ![l.next[n]] = l.prev[n], ![n] = n]]
ListRemove ==
  \E n \in LibNode :
    /\ lib.kind = "list"
    /\ lib' = [Unlinked(lib, n) EXCEPT !.want = [h \in ListHead |-> SelectSeq(@[h], LAMBDA m : m # n)]]

----------------------------------------------------------------------------
(* What only computes.  Integers have LibWidth bits.                       *)

Pow2(n) == 2^n
Least == 0 - Pow2(LibWidth - 1)
Integer == Least .. Pow2(LibWidth - 1) - 1
Unsigned(n) == n % Pow2(LibWidth)
Signed(n) == LET u == Unsigned(n) IN IF u >= Pow2(LibWidth - 1) THEN u - Pow2(LibWidth) ELSE u

\* __udivmoddi4: the bits of num from the top, as <<quotient, remainder>>.
UdivMod(num, den) ==
  LET Turn(qr, k) ==
        LET i == LibWidth - k
            rem == Unsigned(2 * qr[2] + ((num \div Pow2(i)) % 2))
        IN  IF rem >= den THEN <<qr[1] + Pow2(i), rem - den>> ELSE <<qr[1], rem>>
  IN  IF den = 0 THEN <<0, 0>> ELSE FoldLeft(Turn, <<0, 0>>, [k \in 1 .. LibWidth |-> k])

SizeOf(a) == IF a < 0 THEN Unsigned(0 - (a + 1)) + 1 ELSE a
Divdi3(a, b) ==
  LET res == Signed(UdivMod(SizeOf(a), SizeOf(b))[1])
  IN  IF (a < 0) # (b < 0) THEN Signed(0 - res) ELSE res
Moddi3(a, b) ==
  LET rem == Signed(UdivMod(SizeOf(a), SizeOf(b))[2])
  IN  IF a < 0 THEN Signed(0 - rem) ELSE rem

\* kitoa and fmt_number: digits from the last to the first.
RECURSIVE DigitsOf(_, _)
DigitsOf(n, base) == IF n < base THEN <<n>> ELSE Append(DigitsOf(n \div base, base), n % base)
Kitoa(val, base) ==
  LET neg == val < 0 /\ base = 10
      uval == Unsigned(IF neg THEN Signed(0 - val) ELSE val)
  IN  [minus |-> neg, digits |-> DigitsOf(uval, base)]

\* katoi and kstrtoul: digits from the first to the last.
Katoi(s) == LET n == FoldLeft(LAMBDA r, d : Signed(10 * r + d), 0, s.digits)
            IN  IF s.minus THEN Signed(0 - n) ELSE n
Kstrtoul(s, base) == FoldLeft(LAMBDA r, d : Unsigned(base * r + d), 0, s.digits)

\* kvsnprintf: directives until the buffer is full; a pointer's "0x" is left
\* out when it does not fit.
Blanks(n) == [i \in 1 .. (IF n > 0 THEN n ELSE 0) |-> "blank"]
Wide(d) == LET fill == Blanks(d.width - Len(d.text))
           IN  IF d.left THEN d.text \o fill ELSE fill \o d.text
FirstOf(s, n) == SubSeq(s, 1, IF Len(s) < n THEN Len(s) ELSE n)
Directive(out, d, room) ==
  IF Len(out) >= room - 1 THEN out
  ELSE LET start == IF d.pointer /\ Len(out) < room - 2 THEN <<"0", "x">> ELSE <<>>
       IN  FirstOf(out \o start \o Wide(d), room - 1)
Kvsnprintf(format, room) == FoldLeft(LAMBDA out, d : Directive(out, d, room), <<>>, format)

\* kmemmove: upwards when the target lies below the source, else downwards.
MoveByte(mem, to, from) == [mem EXCEPT ![to] = mem[from]]
Kmemmove(mem, d, s, n) ==
  FoldLeft(LAMBDA m, i : MoveByte(m, d + i, s + i), mem,
           [k \in 1 .. n |-> IF d < s THEN k - 1 ELSE n - k])

\* The hour of the clock as krtc_get_time converts it: in binary or decimal
\* digits, of 24 hours or of 12 with a bit for the afternoon.
HourRegister(h, bcd, twelve) ==
  LET h12 == IF h % 12 = 0 THEN 12 ELSE h % 12
      shown == IF twelve THEN h12 ELSE h
  IN  [pm |-> twelve /\ h >= 12, bits |-> IF bcd THEN 16 * (shown \div 10) + (shown % 10) ELSE shown]
HourRead(reg, bcd, twelve) ==
  LET n == IF bcd THEN (reg.bits % 16) + 10 * (reg.bits \div 16) ELSE reg.bits
  IN  IF twelve /\ reg.pm THEN (n + 12) % 24 ELSE n

(* kgfx.c: the points a shape covers; kgfx_draw_pixel keeps those on the   *)
(* screen.                                                                 *)

Screen == (0 .. GfxW - 1) \X (0 .. GfxH - 1)
Dist(a, b) == IF a < b THEN b - a ELSE a - b

DrawLine(p, q) ==
  LET dx == Dist(p[1], q[1])
      dy == 0 - Dist(p[2], q[2])
      sx == IF p[1] < q[1] THEN 1 ELSE -1
      sy == IF p[2] < q[2] THEN 1 ELSE -1
      RECURSIVE From(_, _, _)
      From(x, y, err) ==
        {<<x, y>>} \cup
          IF <<x, y>> = q THEN {}
          ELSE LET right == 2 * err >= dy
                   down == 2 * err <= dx
               IN  From(IF right THEN x + sx ELSE x, IF down THEN y + sy ELSE y,
                        err + (IF right THEN dy ELSE 0) + (IF down THEN dx ELSE 0))
  IN  From(p[1], p[2], dx + dy)

DrawRect(x, y, w, h, fill) ==
  IF w <= 0 \/ h <= 0 THEN {}
  ELSE IF fill THEN (x .. x + w - 1) \X (y .. y + h - 1)
  ELSE DrawLine(<<x, y>>, <<x + w - 1, y>>) \cup DrawLine(<<x, y + h - 1>>, <<x + w - 1, y + h - 1>>)
         \cup DrawLine(<<x, y>>, <<x, y + h - 1>>) \cup DrawLine(<<x + w - 1, y>>, <<x + w - 1, y + h - 1>>)

Eightfold(cx, cy, x, y) == {<<cx + i * a, cy + j * b>> : i, j \in {-1, 1}, <<a, b>> \in {<<x, y>>, <<y, x>>}}
DrawCircle(cx, cy, r) ==
  LET RECURSIVE From(_, _, _)
      From(x, y, d) ==
        IF y < x THEN {}
        ELSE Eightfold(cx, cy, x, y) \cup
               IF d > 0 THEN From(x + 1, y - 1, d + 4 * (x + 1 - (y - 1)) + 10) ELSE From(x + 1, y, d + 4 * (x + 1) + 6)
  IN  From(0, r, 3 - 2 * r)

DrawFilledCircle(cx, cy, r) == {<<cx + x, cy + y>> : <<x, y>> \in {<<a, b>> \in (0 - r .. r) \X (0 - r .. r) : a * a + b * b <= r * r}}

DrawRoundedRect(x, y, w, h, r, fill) ==
  IF r <= 0 THEN DrawRect(x, y, w, h, fill)
  ELSE IF fill
  THEN DrawRect(x + r, y, w - 2 * r, h, TRUE) \cup DrawRect(x, y + r, r, h - 2 * r, TRUE) \cup DrawRect(x + w - r, y + r, r, h - 2 * r, TRUE)
         \cup UNION {DrawFilledCircle(cx, cy, r) : cx \in {x + r, x + w - r - 1}, cy \in {y + r, y + h - r - 1}}
  ELSE DrawLine(<<x + r, y>>, <<x + w - r, y>>) \cup DrawLine(<<x + r, y + h - 1>>, <<x + w - r, y + h - 1>>)
         \cup DrawLine(<<x, y + r>>, <<x, y + h - r>>) \cup DrawLine(<<x + w - 1, y + r>>, <<x + w - 1, y + h - r>>)

DrawTriangle(a, b, c, fill) ==
  LET side(p, q, t) == (q[1] - p[1]) * (t[2] - p[2]) - (q[2] - p[2]) * (t[1] - p[1])
      across == {a[1], b[1], c[1]}
      down == {a[2], b[2], c[2]}
  IN  IF ~fill THEN DrawLine(a, b) \cup DrawLine(b, c) \cup DrawLine(c, a)
      ELSE {t \in (Min(across) .. Max(across)) \X (Min(down) .. Max(down)) :
              \/ side(a, b, t) >= 0 /\ side(b, c, t) >= 0 /\ side(c, a, t) >= 0
              \/ side(a, b, t) <= 0 /\ side(b, c, t) <= 0 /\ side(c, a, t) <= 0}

Pixels(s) ==
  CASE s.kind = "line" -> DrawLine(s.p, s.q)
    [] s.kind = "rect" -> DrawRect(s.p[1], s.p[2], s.w, s.h, s.fill)
    [] s.kind = "circle" -> IF s.fill THEN DrawFilledCircle(s.p[1], s.p[2], s.r) ELSE DrawCircle(s.p[1], s.p[2], s.r)
    [] s.kind = "rounded" -> DrawRoundedRect(s.p[1], s.p[2], s.w, s.h, s.r, s.fill)
    [] s.kind = "triangle" -> DrawTriangle(s.p, s.q, s.t, s.fill)

\* kbmp_render: rows of whole words, the last one first unless h is negative.
RowStride(w, bytes) == 4 * ((w * bytes + 3) \div 4)
KbmpRender(data, w, h, bytes) ==
  LET rows == IF h < 0 THEN 0 - h ELSE h
  IN  [x \in 0 .. w - 1, y \in 0 .. rows - 1 |->
         LET src == IF h > 0 THEN rows - 1 - y ELSE y
         IN  [k \in 1 .. bytes |-> data[src * RowStride(w, bytes) + x * bytes + k]]]

\* fp32_to_str: the digits of the whole part and the decimals, one by one.
FpOne == Pow2(FpShift)
Fp32ToStr(fp, decimals) ==
  LET v == IF fp < 0 THEN 0 - fp ELSE fp
      RECURSIVE Decimals(_, _)
      Decimals(frac, n) == IF n = 0 THEN <<>> ELSE <<(frac * 10) \div FpOne>> \o Decimals((frac * 10) % FpOne, n - 1)
  IN  [minus |-> fp < 0, whole |-> DigitsOf(v \div FpOne, 10), decimals |-> Decimals(v % FpOne, decimals)]

----------------------------------------------------------------------------
(* The double buffer: what is painted in the back buffer is reported as    *)
(* changed; kgfx_flush_dirty brings those areas, and kgfx_swap_buffers     *)
(* everything, to the front.                                               *)

GfxStart ==
  [kind |-> "gfx", back |-> [p \in Screen |-> 0], front |-> [p \in Screen |-> 0], rects |-> <<>>, paints |-> 0,
   lost |-> {}]  \* history variable: points of areas that found the list full

\* Cut to the screen: a start left of it moves to the edge and the width stays.
Flushed(r) ==
  LET x == IF r[1] < 0 THEN 0 ELSE r[1]
      y == IF r[2] < 0 THEN 0 ELSE r[2]
      w == IF x + r[3] > GfxW THEN GfxW - x ELSE r[3]
      h == IF y + r[4] > GfxH THEN GfxH - y ELSE r[4]
  IN  (x .. x + w - 1) \X (y .. y + h - 1)

GfxPaint ==
  \E r \in GfxArea :
    LET points == DrawRect(r[1], r[2], r[3], r[4], TRUE)
        full == Len(lib.rects) >= GfxDirty
    IN  /\ lib.kind = "gfx" /\ lib.paints < GfxPaints
        /\ lib' = [lib EXCEPT !.back = [p \in Screen |-> IF p \in points THEN lib.paints + 1 ELSE @[p]], !.paints = @ + 1,
                              !.rects = IF full THEN @ ELSE Append(@, r), !.lost = IF full THEN @ \cup points ELSE @]

GfxFlush ==
  /\ lib.kind = "gfx" /\ lib.rects # <<>>
  /\ LET points == UNION {Flushed(lib.rects[i]) : i \in DOMAIN lib.rects}
     IN  lib' = [lib EXCEPT !.front = [p \in Screen |-> IF p \in points THEN lib.back[p] ELSE @[p]], !.rects = <<>>, !.lost = @ \ points]

GfxSwap ==
  /\ lib.kind = "gfx" /\ lib.front # lib.back
  /\ lib' = [lib EXCEPT !.front = lib.back, !.lost = {}]

----------------------------------------------------------------------------
PureStart == [kind |-> "pure", did |-> "nothing"]
Ready == lib.kind = "pure" /\ lib.did = "nothing"

LibDivide == Ready /\ \E a, b \in Integer : lib' = [kind |-> "pure", did |-> "divide", a |-> a, b |-> b, q |-> Divdi3(a, b), r |-> Moddi3(a, b)]
LibWrite == Ready /\ \E v \in Integer, base \in LibBase : lib' = [kind |-> "pure", did |-> "write", v |-> v, base |-> base, s |-> Kitoa(v, base)]
LibPrint == Ready /\ \E f \in LibFormat, room \in LibRoom : lib' = [kind |-> "pure", did |-> "print", format |-> f, room |-> room, out |-> Kvsnprintf(f, room)]
LibMove ==
  Ready /\ \E d, s \in 1 .. LibMem, n \in 0 .. LibMem :
    /\ d + n <= LibMem + 1 /\ s + n <= LibMem + 1
    /\ lib' = [kind |-> "pure", did |-> "move", d |-> d, s |-> s, n |-> n, mem |-> Kmemmove([i \in 1 .. LibMem |-> i], d, s, n)]
LibDraw == Ready /\ \E s \in GfxShape : lib' = [kind |-> "pure", did |-> "draw", shape |-> s, points |-> Pixels(s)]
LibBmp ==
  Ready /\ \E w \in 1 .. GfxW, h \in 1 .. GfxH, up \in BOOLEAN, bytes \in {3, 4} :
    lib' = [kind |-> "pure", did |-> "bmp", w |-> w, h |-> IF up THEN h ELSE 0 - h, bytes |-> bytes]
LibFixed ==
  Ready /\ \E v \in 0 - FpMost .. FpMost, n \in 0 .. 3 :
    lib' = [kind |-> "pure", did |-> "fixed", v |-> v, n |-> n, s |-> Fp32ToStr(v, n)]
LibHour == Ready /\ \E h \in 0 .. 23, bcd, twelve \in BOOLEAN :
  lib' = [kind |-> "pure", did |-> "hour", h |-> h, twelve |-> twelve, read |-> HourRead(HourRegister(h, bcd, twelve), bcd, twelve)]

----------------------------------------------------------------------------
(* krtc_get_time against the clock.  The chip announces an update some     *)
(* time before it makes it: who sees no announcement can read everything   *)
(* before the update, unless an interrupt holds him up.                    *)

Clock(t) == <<t % RtcSecs, (t \div RtcSecs) % RtcMins, (t \div (RtcSecs * RtcMins)) % RtcHours>>
RtcStart == [kind |-> "rtc", pc |-> "wait", t |-> 0, updating |-> FALSE, tries |-> 0, got |-> <<>>,
             from |-> 0, held |-> FALSE, blind |-> FALSE]  \* history variables: t when reading began,
                                                          \* an interrupt came, the wait ran out

RtcAsks ==
  /\ lib.kind = "rtc" /\ lib.pc = "wait"
  /\ lib' = IF lib.updating /\ lib.tries < RtcTries THEN [lib EXCEPT !.tries = @ + 1]
            ELSE [lib EXCEPT !.pc = "read", !.from = lib.t, !.blind = lib.updating]

RtcReads ==
  /\ lib.kind = "rtc" /\ lib.pc = "read"
  /\ lib' = [lib EXCEPT !.got = Append(@, Clock(lib.t)[Len(@) + 1]), !.pc = IF Len(lib.got) = 2 THEN "done" ELSE "read"]

RtcAgain ==
  /\ lib.kind = "rtc" /\ lib.pc = "done"
  /\ lib' = [lib EXCEPT !.pc = "wait", !.tries = 0, !.got = <<>>, !.held = FALSE, !.blind = FALSE, !.from = 0]

RtcHeld == lib.kind = "rtc" /\ lib.pc = "read" /\ ~lib.held /\ lib' = [lib EXCEPT !.held = TRUE]

RtcAnnounces == lib.kind = "rtc" /\ ~lib.updating /\ lib' = [lib EXCEPT !.updating = TRUE]
RtcUpdates ==
  /\ lib.kind = "rtc" /\ lib.updating /\ (lib.pc = "read" => lib.held \/ lib.blind)
  /\ lib' = [lib EXCEPT !.updating = FALSE, !.t = (@ + 1) % (RtcSecs * RtcMins * RtcHours)]

LibNext ==
  lib.kind # "off" /\
    (\/ LockSpin \/ TryLock \/ AtomicAdd \/ Unlock \/ AddHead \/ AddTail \/ ListRemove
     \/ LibDivide \/ LibWrite \/ LibPrint \/ LibMove \/ LibHour
     \/ LibDraw \/ LibBmp \/ LibFixed \/ GfxPaint \/ GfxFlush \/ GfxSwap
     \/ RtcAsks \/ RtcReads \/ RtcAgain \/ RtcHeld \/ RtcAnnounces \/ RtcUpdates)

----------------------------------------------------------------------------
\* One processor at a time is between lock and unlock, with lock and trylock
\* mixed.
LockHolds == Cardinality({c \in LibCpu : lib.at[c] \in {"in", "added"}}) <= 1

\* Each list holds, forwards and backwards, what was added to it and not
\* removed since, in that order, whatever nodes go from one list to the other
\* and are removed twice.
RECURSIVE Walk(_, _, _, _)
Walk(f, n, h, left) == IF n = h \/ left = 0 THEN <<>> ELSE <<n>> \o Walk(f, f[n], h, left - 1)
ListsAgree ==
  \A h \in ListHead :
    LET most == Cardinality(LibNode) + 1
    IN  Walk(lib.next, lib.next[h], h, most) = lib.want[h] /\ Walk(lib.prev, lib.prev[h], h, most) = Reverse(lib.want[h])

\* Division is that of C, of the least integer too; what does not fit wraps.
DividesAgree ==
  LET a == lib.a
      b == lib.b
  IN  b # 0 => /\ lib.q = Least \/ a = b * lib.q + lib.r
               /\ SizeOf(lib.r) < SizeOf(b) /\ (lib.r = 0 \/ (lib.r < 0) = (a < 0))
               /\ lib.q = Least => (a = Least /\ b \in {1, 0 - 1})

\* A number written in a base is read back, the least one too.
WrittenReads ==
  /\ lib.base = 10 => Katoi(lib.s) = lib.v
  /\ lib.base # 10 => Kstrtoul(lib.s, lib.base) = Unsigned(lib.v)

\* Formatted text stays in its buffer, and is the beginning of the text that
\* a larger buffer would hold; only "0x" may be missing at the end.
PrintFits ==
  /\ Len(lib.out) <= lib.room - 1
  /\ (\A i \in 1 .. Len(lib.format) : ~lib.format[i].pointer) => IsPrefix(lib.out, Kvsnprintf(lib.format, 100))

\* Overlapping or not, the bytes arrive as they were.
MovesWhole ==
  \A i \in 1 .. LibMem : lib.mem[i] = IF i \in lib.d .. lib.d + lib.n - 1 THEN lib.s + (i - lib.d) ELSE i

\* The hour is right, except at noon and midnight in the 12-hour format
\* (krtc.c:59 makes 0 of 12 pm and leaves 12 am at 12).
HourAgrees == lib.read = lib.h \/ (lib.twelve /\ lib.h \in {0, 12})

\* The time read is one the clock showed: no second, minute and hour of
\* different times, unless an interrupt came between the reads.
TimeWhole == lib.pc = "done" /\ ~lib.held /\ ~lib.blind => lib.got = Clock(lib.from)

\* A line has its ends and one point for each step along its longer side,
\* none more than half a point away from it.
LineAgrees(p, q, points) ==
  LET dx == Dist(p[1], q[1])
      dy == Dist(p[2], q[2])
      off(t) == 2 * Dist((q[1] - p[1]) * (t[2] - p[2]), (q[2] - p[2]) * (t[1] - p[1]))
      most == IF dx > dy THEN dx ELSE dy
  IN  {p, q} \subseteq points /\ Cardinality(points) = most + 1 /\ \A t \in points : off(t) <= most

\* Lines are straight; a circle keeps its radius to less than a point, and is
\* the edge of the filled one; a filled triangle is the same from any corner
\* and either way round; a filled rounded rectangle is the rectangle without
\* its corners, as long as there is a point between its circles.
ShapeAgrees(s, points) ==
  /\ s.kind = "line" => LineAgrees(s.p, s.q, points)
  /\ s.kind = "circle" /\ ~s.fill /\ s.r > 0 =>
       \A t \in points : LET d == (t[1] - s.p[1]) ^ 2 + (t[2] - s.p[2]) ^ 2 IN (s.r - 1) ^ 2 < d /\ d < (s.r + 1) ^ 2
  /\ s.kind = "triangle" /\ s.fill =>
       /\ {s.p, s.q, s.t} \subseteq points
       /\ points = DrawTriangle(s.q, s.t, s.p, TRUE) /\ points = DrawTriangle(s.t, s.q, s.p, TRUE)
  /\ s.kind = "rounded" /\ s.fill /\ 2 * s.r < s.w /\ 2 * s.r < s.h =>
       LET box == DrawRect(s.p[1], s.p[2], s.w, s.h, TRUE)
       IN  /\ points \subseteq box
           /\ \A t \in box \ points : /\ ~(t[1] - s.p[1] \in s.r .. s.w - s.r - 1)
                                      /\ ~(t[2] - s.p[2] \in s.r .. s.h - s.r - 1)

\* A picture written row by row, each filled up to a word, is shown with every
\* point in its place; byte k of a point is the triple <<x, y, k>>.
BmpShows ==
  LET rows == IF lib.h < 0 THEN 0 - lib.h ELSE lib.h
      Row(y) == LET line == FlattenSeq([x \in 1 .. lib.w |-> [k \in 1 .. lib.bytes |-> <<x - 1, y, k>>]])
                IN  line \o [k \in 1 .. (4 - (Len(line) % 4)) % 4 |-> <<-1, -1, -1>>]
      file == FlattenSeq([i \in 1 .. rows |-> Row(IF lib.h > 0 THEN rows - i ELSE i - 1)])
      shown == KbmpRender(file, lib.w, lib.h, lib.bytes)
  IN  \A x \in 0 .. lib.w - 1, y \in 0 .. rows - 1 : shown[x, y] = [k \in 1 .. lib.bytes |-> <<x, y, k>>]

\* The decimals are those of the number, cut off.
FixedReads ==
  LET number == FoldLeft(LAMBDA r, d : 10 * r + d, 0, lib.s.whole \o lib.s.decimals)
  IN  number = ((IF lib.v < 0 THEN 0 - lib.v ELSE lib.v) * 10 ^ lib.n) \div FpOne

\* The front shows the back buffer, except in areas still on the list and in
\* those the full list dropped without a word.
FrontShows ==
  \A p \in Screen :
    lib.front[p] # lib.back[p] => p \in lib.lost \cup UNION {Flushed(lib.rects[i]) : i \in DOMAIN lib.rects}

LibraryAgrees ==
  CASE lib.kind = "lock" -> LockHolds
    [] lib.kind = "list" -> ListsAgree
    [] lib.kind = "rtc" -> TimeWhole
    [] lib.kind = "gfx" -> FrontShows
    [] lib.kind = "pure" -> /\ lib.did = "divide" => DividesAgree
                            /\ lib.did = "write" => WrittenReads
                            /\ lib.did = "print" => PrintFits
                            /\ lib.did = "move" => MovesWhole
                            /\ lib.did = "hour" => HourAgrees
                            /\ lib.did = "draw" => ShapeAgrees(lib.shape, lib.points)
                            /\ lib.did = "bmp" => BmpShows
                            /\ lib.did = "fixed" => FixedReads
    [] OTHER -> TRUE
=============================================================================
