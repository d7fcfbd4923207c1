--------------------------- MODULE ProgramsProofs ---------------------------
(***************************************************************************)
(* Theorems about the programs that work for one user.  Of the editor      *)
(* (src/tedit): for every size of its arrays, of the ring of undo states   *)
(* and of the window, and for all texts, characters and terms, it keeps    *)
(* the user's text.  Of the kernel's terminal and shell                    *)
(* (test_os/kernel.c): for every terminal, tree and word, the screen shows *)
(* what was printed and typed, and who was added can log in.  Of the menu  *)
(* (src/sysbox): for all tabs, descriptions and windows, the selection is  *)
(* on the screen and a tool finds the terminal as it was.                  *)
(***************************************************************************)
EXTENDS TEdit, KShell, SysBox, SequenceTheorems, WellFoundedInduction, TLAPS

-----------------------------------------------------------------------------
(* Numbers and sequences.                                                   *)

\* What Min and Max of a bounded set of numbers are.
LEMMA LeastIs ==
  ASSUME NEW S \in SUBSET Nat, S # {}
  PROVE  Min(S) \in S /\ \A j \in S : Min(S) <= j
  <1> DEFINE R == OpToRel(<, Nat)
  <1>1. IsWellFoundedOn(R, Nat)
    BY NatLessThanWellFounded
  <1>2. PICK i \in S : \A j \in S : ~(<<j, i>> \in R)
    <2> HIDE DEF R
    <2> QED BY <1>1, WFMin
  <1>3. R = {ss \in Nat \X Nat : ss[1] < ss[2]}
    BY Zenon DEF OpToRel
  <1>4. ASSUME NEW j \in S PROVE i <= j
    <2> HIDE DEF R
    <2>1. <<j, i>> \in Nat \X Nat /\ <<j, i>>[1] = j /\ <<j, i>>[2] = i
      OBVIOUS
    <2>2. ~(j < i)
      BY <1>2, <1>3, <2>1
    <2> QED BY <2>2
  <1>5. \E x \in S : \A y \in S : x =< y
    BY <1>4
  <1> QED BY <1>5 DEF Min

\* The greatest, likewise.
LEMMA GreatestIs ==
  ASSUME NEW n \in Nat, NEW S \in SUBSET (0 .. n), S # {}
  PROVE  Max(S) \in S /\ \A j \in S : Max(S) >= j
  <1> DEFINE T == {n - i : i \in S}
  <1>1. T \in SUBSET Nat /\ T # {}
    <2>1. \A i \in S : i \in Int /\ n - i \in Nat
      OBVIOUS
    <2>2. \A j \in T : j \in Nat
      BY <2>1
    <2>3. PICK i \in S : TRUE
      OBVIOUS
    <2>4. n - i \in T
      OBVIOUS
    <2> QED BY <2>2, <2>4
  <1>2. Min(T) \in T /\ \A j \in T : Min(T) <= j
    BY <1>1, LeastIs
  <1>3. PICK i \in S : Min(T) = n - i
    BY <1>2
  <1>4. ASSUME NEW j \in S PROVE i >= j
    <2>1. n - j \in T
      OBVIOUS
    <2>2. n - i <= n - j
      BY <1>2, <1>3, <2>1
    <2> QED BY <2>2
  <1>5. \E x \in S : \A y \in S : x >= y
    BY <1>4
  <1> QED BY <1>5 DEF Max

\* Min and Max of two numbers, as the code compares them.
LEMMA OfTwo ==
  ASSUME NEW a \in Nat, NEW b \in Nat
  PROVE  /\ Min({a, b}) = IF a <= b THEN a ELSE b
         /\ Max({a, b}) = IF a >= b THEN a ELSE b
  <1>1. Min({a, b}) \in {a, b} /\ \A j \in {a, b} : Min({a, b}) <= j
    <2>1. {a, b} \in SUBSET Nat /\ {a, b} # {}
      OBVIOUS
    <2> QED BY <2>1, LeastIs
  <1>2. Max({a, b}) \in {a, b} /\ \A j \in {a, b} : Max({a, b}) >= j
    <2>1. {a, b} \in SUBSET (0 .. a + b) /\ a + b \in Nat /\ {a, b} # {}
      OBVIOUS
    <2> QED BY <2>1, GreatestIs
  <1> QED BY <1>1, <1>2

\* A line of a text is replaced, inserted or taken out.
LEMMA PartOf ==
  ASSUME NEW S, NEW s \in Seq(S), NEW i \in 1 .. Len(s) + 1, NEW j \in 0 .. Len(s)
  PROVE  /\ SubSeq(s, i, j) \in Seq(S)
         /\ Len(SubSeq(s, i, j)) = IF i <= j THEN j - i + 1 ELSE 0
         /\ \A k \in 1 .. j - i + 1 : SubSeq(s, i, j)[k] = s[i + k - 1]
  <1>1. \A k \in i .. j : s[k] \in S
    BY ElementOfSeq
  <1> QED BY <1>1, SubSeqProperties

\* An element put before the i-th (the memmove of insert_char, and of lines).
LEMMA Inserted ==
  ASSUME NEW S, NEW s \in Seq(S), NEW i \in 1 .. Len(s) + 1, NEW x \in S
  PROVE  /\ InsertAt(s, i, x) \in Seq(S)
         /\ Len(InsertAt(s, i, x)) = Len(s) + 1
         /\ InsertAt(s, i, x)[i] = x
  <1> DEFINE a == SubSeq(s, 1, i - 1)
             b == SubSeq(s, i, Len(s))
  <1>1. Len(s) \in Nat
    BY LenProperties
  <1>2. a \in Seq(S) /\ Len(a) = i - 1
    BY <1>1, PartOf
  <1>3. b \in Seq(S) /\ Len(b) = Len(s) - i + 1
    BY <1>1, PartOf
  <1>4. InsertAt(s, i, x) = a \o <<x>> \o b
    BY DEF InsertAt
  <1>5. <<x>> \in Seq(S) /\ Len(<<x>>) = 1 /\ <<x>>[1] = x
    OBVIOUS
  <1> HIDE DEF a, b
  <1>6. /\ a \o <<x>> \in Seq(S) /\ Len(a \o <<x>>) = i
        /\ (a \o <<x>>)[i] = x
    <2>1. /\ a \o <<x>> \in Seq(S) /\ Len(a \o <<x>>) = Len(a) + 1
          /\ \A k \in 1 .. Len(a) + 1 : (a \o <<x>>)[k] = IF k <= Len(a) THEN a[k] ELSE <<x>>[k - Len(a)]
      BY <1>2, <1>5, ConcatProperties
    <2> QED BY <1>2, <1>5, <2>1
  <1> DEFINE c == a \o <<x>>
  <1> HIDE DEF c
  <1>7. /\ c \o b \in Seq(S) /\ Len(c \o b) = Len(c) + Len(b)
        /\ \A k \in 1 .. Len(c) + Len(b) : (c \o b)[k] = IF k <= Len(c) THEN c[k] ELSE b[k - Len(c)]
    <2>1. c \in Seq(S) /\ b \in Seq(S)
      BY <1>3, <1>6 DEF c
    <2> QED BY <2>1, ConcatProperties
  <1>8. Len(c) = i /\ c[i] = x /\ InsertAt(s, i, x) = c \o b
    BY <1>4, <1>6 DEF c
  <1> QED BY <1>1, <1>3, <1>7, <1>8

\* The i-th element taken out (the memmove of delete_char, and of lines).
LEMMA Removed ==
  ASSUME NEW S, NEW s \in Seq(S), NEW i \in 1 .. Len(s)
  PROVE  /\ RemoveAt(s, i) \in Seq(S)
         /\ Len(RemoveAt(s, i)) = Len(s) - 1
         /\ \A k \in 1 .. i - 1 : RemoveAt(s, i)[k] = s[k]
  <1> DEFINE a == SubSeq(s, 1, i - 1)
             b == SubSeq(s, i + 1, Len(s))
  <1>1. Len(s) \in Nat
    BY LenProperties
  <1>2. a \in Seq(S) /\ Len(a) = i - 1 /\ \A k \in 1 .. i - 1 : a[k] = s[k]
    BY <1>1, PartOf
  <1>3. b \in Seq(S) /\ Len(b) = Len(s) - i
    BY <1>1, PartOf
  <1>4. RemoveAt(s, i) = a \o b
    BY DEF RemoveAt
  <1> HIDE DEF a, b
  <1>5. /\ a \o b \in Seq(S) /\ Len(a \o b) = Len(a) + Len(b)
        /\ \A k \in 1 .. Len(a) + Len(b) : (a \o b)[k] = IF k <= Len(a) THEN a[k] ELSE b[k - Len(a)]
    BY <1>2, <1>3, ConcatProperties
  <1> QED BY <1>1, <1>2, <1>3, <1>4, <1>5

-----------------------------------------------------------------------------
(* What is always true of the editor.                                       *)

EdLine == {l \in Seq(EdLetter) : Len(l) < EdMaxLen}
EdText == {t \in Seq(EdLine) : Len(t) \in 1 .. EdMaxLines}

EdState == [text : EdText \cup {<<>>}, line : Nat, col : Nat]
EdWeb ==
  [pc : {"off", "accept"}] \cup [pc : {"sized"}, length : Nat, alone : BOOLEAN]
    \cup [pc : {"page"}, length : Nat, body : Seq(EdLine), alone : BOOLEAN]

Editor ==
  [pc : {"keys", "writing", "serve", "leaving", "left", "lost"}, after : {"keys", "serve", "leaving"},
   text : EdText, line : Nat, col : Nat, top : Int, left : Int, modified : BOOLEAN,
   ring : [0 .. EdMaxUndo - 1 -> EdState], head : 0 .. EdMaxUndo - 1, count : 0 .. EdMaxUndo,
   file : Seq(EdLine), web : EdWeb, keys : Nat,
   past : Seq(EdText), undone : BOOLEAN, replaced : BOOLEAN, full : BOOLEAN]

\* The slot of the i-th state back, and the text then; the text of now is the
\* zeroth.
Slot(h, i) == IF i <= h THEN h - i ELSE h - i + EdMaxUndo
Version(e, i) == IF i = 0 THEN e.text ELSE e.ring[Slot(e.head, i)].text

AtPlace(text, line, col, anywhere) ==
  line \in 0 .. Len(text) - 1 /\ (anywhere \/ col <= Len(text[line + 1]))

RingKept(e) ==
  \A i \in 1 .. e.count :
    LET s == e.ring[Slot(e.head, i)]
    IN  s.text \in EdText /\ AtPlace(s.text, s.line, s.col, e.replaced)

\* Going back through the ring is going back through what the user saw: d is
\* how much of the past is left at each state.
Remembered(e) ==
  \E d \in [0 .. e.count -> 0 .. Len(e.past)] :
    /\ d[0] = Len(e.past)
    /\ \A i, j \in 0 .. e.count : i <= j => d[j] <= d[i]
    /\ \A i \in 1 .. e.count :
         IF Version(e, i) = Version(e, i - 1) THEN d[i] = d[i - 1]
         ELSE d[i - 1] >= 1 /\ e.past[d[i - 1]] = Version(e, i) /\ d[i] = d[i - 1] - 1

Filed(e) ==
  e.pc # "writing" /\ ~e.modified /\ ~e.full /\ Len(e.file) <= EdMaxLines =>
    e.file = e.text \/ (e.file = <<>> /\ e.text = <<(<<>>)>>)

Kept(e) ==
  /\ e \in Editor
  /\ AtPlace(e.text, e.line, e.col, e.replaced)
  /\ RingKept(e) /\ Remembered(e) /\ e.undone
  /\ Filed(e)

InWindow(e) == e.line \in e.top .. e.top + EdRows - 1 /\ e.col \in e.left .. e.left + EdCols - 1

Served(e) ==
  /\ e.web.pc = "sized" /\ e.web.alone => e.web.length = Len(e.file)
  /\ e.web.pc = "page" /\ e.web.alone => e.web.length = Len(e.web.body)

EdInv == ed # EdOff => Kept(ed) /\ Served(ed) /\ (ed.pc # "lost" => InWindow(ed))

EdNat ==
  /\ EdMaxLines \in Nat /\ EdMaxLen \in Nat /\ EdMaxUndo \in Nat /\ EdIndent \in Nat
  /\ EdMaxIndent \in Nat /\ EdRows \in Nat /\ EdCols \in Nat /\ EdKeys \in Nat
  /\ EdMaxLines >= 1 /\ EdMaxUndo >= 1 /\ EdRows >= 1 /\ EdCols >= 1
  /\ EdMaxIndent + EdIndent < EdMaxLen

\* The sizes are numbers; an indentation fits in a line.
LEMMA EdNats == EdNat
  BY EdSizes, EdRoomForIndent DEF EdNat

\* The lines of a text are bounded, and so is their number.
LEMMA TextIs ==
  ASSUME NEW t \in EdText
  PROVE  /\ t \in Seq(EdLine) /\ Len(t) \in 1 .. EdMaxLines /\ Len(t) \in Nat /\ Len(t) >= 1
         /\ Len(t) <= EdMaxLines
         /\ \A i \in 1 .. Len(t) : /\ t[i] \in EdLine /\ t[i] \in Seq(EdLetter) /\ Len(t[i]) \in Nat
                                   /\ Len(t[i]) < EdMaxLen
  <1>1. t \in Seq(EdLine) /\ Len(t) \in 1 .. EdMaxLines
    BY DEF EdText
  <1>2. \A i \in 1 .. Len(t) : t[i] \in EdLine
    BY <1>1, ElementOfSeq
  <1>3. \A l \in EdLine : l \in Seq(EdLetter) /\ Len(l) \in Nat /\ Len(l) < EdMaxLen
    BY LenProperties DEF EdLine
  <1> QED BY <1>1, <1>2, <1>3, EdNats DEF EdNat

\* The slots of undo_history are in the array, one forward and any number back.
LEMMA Slots ==
  ASSUME NEW h \in 0 .. EdMaxUndo - 1
  PROVE  /\ (h + 1) % EdMaxUndo = IF h + 1 = EdMaxUndo THEN 0 ELSE h + 1
         /\ (h - 1 + EdMaxUndo) % EdMaxUndo = Slot(h, 1)
         /\ \A i \in 1 .. EdMaxUndo : Slot(h, i) \in 0 .. EdMaxUndo - 1
  <1> EdMaxUndo \in Nat \ {0}
    BY EdNats DEF EdNat
  <1>1. (h + 1) % EdMaxUndo = IF h + 1 = EdMaxUndo THEN 0 ELSE h + 1
    <2>1. CASE h + 1 = EdMaxUndo
      BY <2>1
    <2>2. CASE h + 1 < EdMaxUndo
      BY <2>2
    <2> QED BY <2>1, <2>2
  <1>2. (h - 1 + EdMaxUndo) % EdMaxUndo = Slot(h, 1)
    <2>1. CASE h = 0
      BY <2>1 DEF Slot
    <2>2. CASE h > 0
      <3>1. (h - 1 + EdMaxUndo) % EdMaxUndo = (h - 1) % EdMaxUndo
        BY <2>2
      <3> QED BY <2>2, <3>1 DEF Slot
    <2> QED BY <2>1, <2>2
  <1> QED BY <1>1, <1>2 DEF Slot

\* What is a slot back before the head moves is one more, or one less, after.
LEMMA SlotsMove ==
  ASSUME NEW h \in 0 .. EdMaxUndo - 1, NEW g \in 0 .. EdMaxUndo - 1,
         g = (IF h + 1 = EdMaxUndo THEN 0 ELSE h + 1)
  PROVE  /\ Slot(g, 1) = h
         /\ \A i \in 2 .. EdMaxUndo : Slot(g, i) = Slot(h, i - 1) /\ Slot(h, i - 1) # h
  <1>1. EdMaxUndo \in Nat
    BY EdNats DEF EdNat
  <1> QED BY <1>1 DEF Slot

\* The state before an edit goes into the ring.
LEMMA RingGrows ==
  ASSUME NEW e \in Editor, NEW f \in Editor, RingKept(e), Remembered(e),
         AtPlace(e.text, e.line, e.col, e.replaced),
         f.ring = [e.ring EXCEPT ![e.head] = Before(e)], f.head = (IF e.head + 1 = EdMaxUndo THEN 0 ELSE e.head + 1),
         f.count = (IF e.count + 1 <= EdMaxUndo THEN e.count + 1 ELSE EdMaxUndo),
         f.past = IF f.text = e.text THEN e.past ELSE Append(e.past, e.text),
         e.replaced => f.replaced
  PROVE  RingKept(f) /\ Remembered(f)
  <1>1. /\ EdMaxUndo \in Nat /\ EdMaxUndo >= 1
        /\ e.head \in 0 .. EdMaxUndo - 1 /\ f.head \in 0 .. EdMaxUndo - 1
        /\ e.count \in 0 .. EdMaxUndo /\ e.text \in EdText /\ f.text \in EdText
        /\ e.line \in Nat /\ e.col \in Nat /\ e.replaced \in BOOLEAN /\ f.replaced \in BOOLEAN
        /\ e.past \in Seq(EdText) /\ f.past \in Seq(EdText)
        /\ e.ring \in [0 .. EdMaxUndo - 1 -> EdState]
    BY EdNats DEF EdNat, Editor
  <1>2. f.head = IF e.head + 1 = EdMaxUndo THEN 0 ELSE e.head + 1
    OBVIOUS
  <1>3. f.count \in 1 .. EdMaxUndo /\ f.count <= e.count + 1
    BY <1>1
  <1>4. /\ Slot(f.head, 1) = e.head
        /\ \A i \in 2 .. EdMaxUndo : Slot(f.head, i) = Slot(e.head, i - 1) /\ Slot(e.head, i - 1) # e.head
    BY <1>1, SlotsMove
  <1>5. ASSUME NEW i \in 2 .. f.count
        PROVE  /\ i - 1 \in 1 .. e.count /\ Slot(f.head, i) = Slot(e.head, i - 1)
               /\ Slot(e.head, i - 1) \in 0 .. EdMaxUndo - 1 /\ Slot(e.head, i - 1) # e.head
    <2>1. i \in 2 .. EdMaxUndo /\ i - 1 \in 1 .. EdMaxUndo /\ i - 1 \in 1 .. e.count
      BY SMTT(20), <1>1, <1>3
    <2>2. Slot(e.head, i - 1) \in 0 .. EdMaxUndo - 1
      BY <1>1, <2>1, Slots
    <2> QED BY <1>4, <2>1, <2>2
  <1>6. f.ring[e.head] = Before(e)
    BY <1>1
  <1>7. ASSUME NEW i \in 2 .. f.count
        PROVE  f.ring[Slot(f.head, i)] = e.ring[Slot(e.head, i - 1)]
    <2> DEFINE k == Slot(e.head, i - 1)
    <2>1. k \in 0 .. EdMaxUndo - 1 /\ k # e.head /\ Slot(f.head, i) = k
      BY <1>5
    <2> HIDE DEF k
    <2>2. f.ring[k] = e.ring[k]
      BY <1>1, <2>1
    <2> QED BY <2>1, <2>2 DEF k
  <1>8. RingKept(f)
    <2> SUFFICES ASSUME NEW i \in 1 .. f.count
                 PROVE  /\ f.ring[Slot(f.head, i)].text \in EdText
                        /\ AtPlace(f.ring[Slot(f.head, i)].text, f.ring[Slot(f.head, i)].line, f.ring[Slot(f.head, i)].col, f.replaced)
      BY DEF RingKept
    <2>1. CASE i = 1
      BY <1>1, <1>4, <1>6, <2>1 DEF Before, AtPlace
    <2>2. CASE i # 1
      <3>1. i \in 2 .. f.count
        BY <1>1, <1>3, <2>2
      <3>2. i - 1 \in 1 .. e.count /\ f.ring[Slot(f.head, i)] = e.ring[Slot(e.head, i - 1)]
        BY <1>5, <1>7, <3>1
      <3> DEFINE s == e.ring[Slot(e.head, i - 1)]
      <3>3. s.text \in EdText /\ AtPlace(s.text, s.line, s.col, e.replaced)
        BY <3>2 DEF RingKept
      <3> QED BY <1>1, <3>2, <3>3 DEF AtPlace
    <2> QED BY <2>1, <2>2
  <1>9. /\ Version(f, 0) = f.text /\ Version(f, 1) = e.text
        /\ \A i \in 1 .. f.count : Version(f, i) = Version(e, i - 1)
    <2>1. Version(f, 0) = f.text
      BY DEF Version
    <2>2. Version(f, 1) = e.text
      BY <1>4, <1>6 DEF Version, Before
    <2>3. ASSUME NEW i \in 1 .. f.count
          PROVE  Version(f, i) = Version(e, i - 1)
      <3>1. CASE i = 1
        BY <2>2, <3>1 DEF Version
      <3>2. CASE i # 1
        <4>1. i \in 2 .. f.count /\ i - 1 # 0 /\ i # 0
          BY <1>1, <1>3, <3>2
        <4> QED BY <1>7, <4>1 DEF Version
      <3> QED BY <3>1, <3>2
    <2> QED BY <2>1, <2>2, <2>3
  <1>10. Remembered(f)
    <2>1. PICK d \in [0 .. e.count -> 0 .. Len(e.past)] :
            /\ d[0] = Len(e.past)
            /\ \A i, j \in 0 .. e.count : i <= j => d[j] <= d[i]
            /\ \A i \in 1 .. e.count :
                 IF Version(e, i) = Version(e, i - 1) THEN d[i] = d[i - 1]
                 ELSE d[i - 1] >= 1 /\ e.past[d[i - 1]] = Version(e, i) /\ d[i] = d[i - 1] - 1
      BY DEF Remembered
    <2> DEFINE c == [i \in 0 .. f.count |-> IF i = 0 THEN Len(f.past) ELSE d[i - 1]]
    <2>2. /\ Len(e.past) \in Nat /\ Len(f.past) \in Nat
          /\ Len(f.past) = IF f.text = e.text THEN Len(e.past) ELSE Len(e.past) + 1
          /\ \A k \in 1 .. Len(e.past) : f.past[k] = e.past[k]
          /\ f.text # e.text => f.past[Len(f.past)] = e.text
      <3>1. Len(e.past) \in Nat /\ Len(f.past) \in Nat
        BY <1>1, LenProperties
      <3>2. CASE f.text = e.text
        BY <3>1, <3>2
      <3>3. CASE f.text # e.text
        <4>1. f.past = Append(e.past, e.text)
          BY <3>3
        <4>2. /\ Len(Append(e.past, e.text)) = Len(e.past) + 1
              /\ \A k \in 1 .. Len(e.past) : Append(e.past, e.text)[k] = e.past[k]
              /\ Append(e.past, e.text)[Len(e.past) + 1] = e.text
          BY <1>1, AppendProperties
        <4> QED BY <3>1, <3>3, <4>1, <4>2
      <3> QED BY <3>2, <3>3
    <2>3. ASSUME NEW i \in 1 .. f.count PROVE i - 1 \in 0 .. e.count /\ d[i - 1] \in 0 .. Len(e.past)
      <3>1. i - 1 \in 0 .. e.count
        BY <1>1, <1>3
      <3> QED BY <2>1, <3>1
    <2>4. /\ c \in [0 .. f.count -> 0 .. Len(f.past)] /\ c[0] = Len(f.past)
          /\ \A i \in 1 .. f.count : c[i] = d[i - 1]
      <3>1. 0 \in 0 .. f.count /\ Len(f.past) \in 0 .. Len(f.past)
        BY <1>3, <2>2
      <3>2. ASSUME NEW i \in 1 .. f.count PROVE i \in 0 .. f.count /\ i # 0 /\ d[i - 1] \in 0 .. Len(f.past)
        BY <1>3, <2>2, <2>3
      <3>3. ASSUME NEW i \in 0 .. f.count PROVE c[i] \in 0 .. Len(f.past)
        <4>1. i = 0 \/ i \in 1 .. f.count
          BY <1>3
        <4> QED BY <3>1, <3>2, <4>1
      <3> QED BY <3>1, <3>2, <3>3
    <2> HIDE DEF c
    <2>5. ASSUME NEW i \in 0 .. f.count, NEW j \in 0 .. f.count, i <= j PROVE c[j] <= c[i]
      <3>1. CASE i = 0
        BY <1>3, <2>2, <2>4, <3>1
      <3>2. CASE i # 0
        <4>1. i \in 1 .. f.count /\ j \in 1 .. f.count /\ i - 1 <= j - 1
          BY <1>1, <1>3, <2>5, <3>2
        <4>2. d[j - 1] <= d[i - 1]
          BY <2>1, <2>3, <4>1
        <4> QED BY <2>4, <4>1, <4>2
      <3> QED BY <3>1, <3>2
    <2>6. ASSUME NEW i \in 1 .. f.count
          PROVE  IF Version(f, i) = Version(f, i - 1) THEN c[i] = c[i - 1]
                 ELSE c[i - 1] >= 1 /\ f.past[c[i - 1]] = Version(f, i) /\ c[i] = c[i - 1] - 1
      <3>1. CASE i = 1
        <4>1. c[1] = Len(e.past) /\ c[0] = Len(f.past) /\ i - 1 = 0
          BY <1>3, <2>1, <2>4, <3>1
        <4> QED BY <1>9, <2>2, <3>1, <4>1
      <3>2. CASE i # 1
        <4> DEFINE k == i - 1
        <4>0. i \in Int /\ i >= 2 /\ i <= f.count /\ f.count \in Int /\ e.count \in Int
          BY <1>1, <1>3, <3>2
        <4>1. k \in 1 .. f.count /\ k \in 1 .. e.count /\ k - 1 \in 0 .. e.count
          BY <1>3, <4>0
        <4>2. c[i] = d[k] /\ c[k] = d[k - 1] /\ d[k - 1] \in 0 .. Len(e.past)
          BY <2>1, <2>4, <4>1
        <4>3. Version(f, i) = Version(e, k) /\ Version(f, k) = Version(e, k - 1)
          BY <1>9, <4>1
        <4> HIDE DEF k
        <4>4. IF Version(e, k) = Version(e, k - 1) THEN d[k] = d[k - 1]
              ELSE d[k - 1] >= 1 /\ e.past[d[k - 1]] = Version(e, k) /\ d[k] = d[k - 1] - 1
          BY <2>1, <4>1
        <4>5. d[k - 1] >= 1 => f.past[d[k - 1]] = e.past[d[k - 1]]
          BY <2>2, <4>2
        <4>6. i - 1 = k
          BY DEF k
        <4> QED BY <4>2, <4>3, <4>4, <4>5, <4>6
      <3> QED BY <3>1, <3>2
    <2> QED BY <2>4, <2>5, <2>6 DEF Remembered
  <1> QED BY <1>8, <1>10

\* The state that an undo takes out of the ring.
LEMMA RingShrinks ==
  ASSUME NEW e \in Editor, NEW f \in Editor, RingKept(e), Remembered(e), e.count >= 1,
         f.ring = e.ring, f.head = Slot(e.head, 1), f.count = e.count - 1,
         f.text = e.ring[f.head].text,
         f.past = (IF f.text = e.text \/ e.past = <<>> THEN e.past ELSE Front(e.past)),
         f.replaced = e.replaced
  PROVE  /\ RingKept(f) /\ Remembered(f)
         /\ f.text = e.text \/ (e.past # <<>> /\ f.text = Last(e.past))
  <1>1. /\ EdMaxUndo \in Nat /\ EdMaxUndo >= 1
        /\ e.head \in 0 .. EdMaxUndo - 1 /\ f.head \in 0 .. EdMaxUndo - 1
        /\ e.count \in 1 .. EdMaxUndo /\ f.count \in 0 .. EdMaxUndo - 1 /\ f.count = e.count - 1
        /\ e.past \in Seq(EdText) /\ f.past \in Seq(EdText) /\ Len(e.past) \in Nat
    <2>1. EdMaxUndo \in Nat /\ EdMaxUndo >= 1
      BY EdNats DEF EdNat
    <2>2. /\ e.head \in 0 .. EdMaxUndo - 1 /\ f.head \in 0 .. EdMaxUndo - 1
          /\ e.count \in 0 .. EdMaxUndo /\ e.past \in Seq(EdText) /\ f.past \in Seq(EdText)
      BY DEF Editor
    <2>3. Len(e.past) \in Nat
      BY <2>2, LenProperties
    <2> QED BY <2>1, <2>2, <2>3
  <1>2. \A i \in 1 .. EdMaxUndo - 1 : Slot(f.head, i) = Slot(e.head, i + 1)
    BY SMTT(20), <1>1 DEF Slot
  <1>3. ASSUME NEW i \in 1 .. f.count
        PROVE  i + 1 \in 1 .. e.count /\ f.ring[Slot(f.head, i)] = e.ring[Slot(e.head, i + 1)]
    <2>1. i \in 1 .. EdMaxUndo - 1 /\ i + 1 \in 1 .. e.count
      BY <1>1
    <2> QED BY <1>2, <2>1
  <1>4. RingKept(f)
    <2> SUFFICES ASSUME NEW i \in 1 .. f.count
                 PROVE  /\ f.ring[Slot(f.head, i)].text \in EdText
                        /\ AtPlace(f.ring[Slot(f.head, i)].text, f.ring[Slot(f.head, i)].line, f.ring[Slot(f.head, i)].col, f.replaced)
      BY DEF RingKept
    <2> DEFINE s == e.ring[Slot(e.head, i + 1)]
    <2>1. s.text \in EdText /\ AtPlace(s.text, s.line, s.col, e.replaced)
      BY <1>3 DEF RingKept
    <2> QED BY <1>3, <2>1
  <1>5. /\ Version(e, 1) = f.text
        /\ \A i \in 0 .. f.count : Version(f, i) = Version(e, i + 1)
    <2>1. Version(e, 1) = f.text
      BY DEF Version
    <2>2. ASSUME NEW i \in 0 .. f.count PROVE Version(f, i) = Version(e, i + 1)
      <3>1. CASE i = 0
        BY <2>1, <3>1 DEF Version
      <3>2. CASE i # 0
        <4>1. i \in 1 .. f.count /\ i + 1 # 0
          BY <1>1, <3>2
        <4> QED BY <1>3, <3>2, <4>1 DEF Version
      <3> QED BY <3>1, <3>2
    <2> QED BY <2>1, <2>2
  <1>6. PICK d \in [0 .. e.count -> 0 .. Len(e.past)] :
          /\ d[0] = Len(e.past)
          /\ \A i, j \in 0 .. e.count : i <= j => d[j] <= d[i]
          /\ \A i \in 1 .. e.count :
               IF Version(e, i) = Version(e, i - 1) THEN d[i] = d[i - 1]
               ELSE d[i - 1] >= 1 /\ e.past[d[i - 1]] = Version(e, i) /\ d[i] = d[i - 1] - 1
    BY DEF Remembered
  <1>7. /\ 1 \in 0 .. e.count /\ d[1] \in 0 .. Len(e.past)
        /\ IF f.text = e.text THEN d[1] = Len(e.past)
           ELSE Len(e.past) >= 1 /\ e.past[Len(e.past)] = f.text /\ d[1] = Len(e.past) - 1
    <2>1. 1 \in 1 .. e.count /\ 1 \in 0 .. e.count /\ 1 - 1 = 0
      BY <1>1
    <2>2. Version(e, 0) = e.text
      BY DEF Version
    <2>3. d[1] \in 0 .. Len(e.past)
      BY <1>6, <2>1
    <2>4. IF Version(e, 1) = Version(e, 0) THEN d[1] = d[0]
          ELSE d[0] >= 1 /\ e.past[d[0]] = Version(e, 1) /\ d[1] = d[0] - 1
      BY <1>6, <2>1
    <2>5. d[0] = Len(e.past)
      BY <1>6
    <2> QED BY <1>5, <2>1, <2>2, <2>3, <2>4, <2>5
  <1>8. /\ Len(f.past) \in Nat /\ Len(f.past) = d[1]
        /\ \A k \in 1 .. d[1] : f.past[k] = e.past[k]
    <2>1. CASE f.text = e.text
      BY <1>1, <1>7, <2>1
    <2>2. CASE f.text # e.text
      <3>1. e.past # <<>>
        BY <1>7, <2>2
      <3>2. f.past = Front(e.past)
        BY <2>2, <3>1
      <3>3. Len(Front(e.past)) = Len(e.past) - 1 /\ \A k \in 1 .. Len(e.past) - 1 : Front(e.past)[k] = e.past[k]
        <4>1. Front(e.past) = SubSeq(e.past, 1, Len(e.past) - 1)
          BY DEF Front
        <4>2. 1 \in 1 .. Len(e.past) + 1 /\ Len(e.past) - 1 \in 0 .. Len(e.past)
          <5>1. Len(e.past) \in Nat /\ Len(e.past) # 0
            BY <1>1, <3>1, EmptySeq
          <5> QED BY <5>1
        <4>3. /\ Len(SubSeq(e.past, 1, Len(e.past) - 1)) = Len(e.past) - 1
              /\ \A k \in 1 .. Len(e.past) - 1 : SubSeq(e.past, 1, Len(e.past) - 1)[k] = e.past[k]
          <5> DEFINE n == Len(e.past) - 1
          <5>1. n \in 0 .. Len(e.past)
            BY <4>2
          <5> HIDE DEF n
          <5>2. /\ Len(SubSeq(e.past, 1, n)) = IF 1 <= n THEN n - 1 + 1 ELSE 0
                /\ \A k \in 1 .. n - 1 + 1 : SubSeq(e.past, 1, n)[k] = e.past[1 + k - 1]
            BY <1>1, <4>2, <5>1, PartOf
          <5>3. /\ Len(SubSeq(e.past, 1, n)) = n
                /\ \A k \in 1 .. n : SubSeq(e.past, 1, n)[k] = e.past[k]
            BY <1>1, <5>1, <5>2
          <5> QED BY <5>3 DEF n
        <4> QED BY <4>1, <4>3
      <3> QED BY <1>1, <1>7, <2>2, <3>2, <3>3
    <2> QED BY <2>1, <2>2
  <1>9. Remembered(f)
    <2> DEFINE c == [i \in 0 .. f.count |-> d[i + 1]]
    <2>1. ASSUME NEW i \in 0 .. f.count
          PROVE  i + 1 \in 0 .. e.count /\ 1 <= i + 1 /\ d[i + 1] \in 0 .. Len(f.past)
      <3>1. i + 1 \in 0 .. e.count /\ 1 <= i + 1
        BY <1>1
      <3>2. d[i + 1] <= d[1]
        BY <1>6, <1>7, <3>1
      <3>3. d[i + 1] \in 0 .. Len(e.past)
        BY <1>6, <3>1
      <3> QED BY <1>8, <3>1, <3>2, <3>3
    <2>2. /\ c \in [0 .. f.count -> 0 .. Len(f.past)]
          /\ \A i \in 0 .. f.count : c[i] = d[i + 1]
      BY <2>1
    <2> HIDE DEF c
    <2>3. c[0] = Len(f.past)
      <3>1. 0 \in 0 .. f.count /\ 0 + 1 = 1
        BY <1>1
      <3>2. c[0] = d[0 + 1]
        BY <2>2, <3>1
      <3> QED BY <1>8, <3>1, <3>2
    <2>4. ASSUME NEW i \in 0 .. f.count, NEW j \in 0 .. f.count, i <= j PROVE c[j] <= c[i]
      <3>1. i + 1 <= j + 1 /\ i + 1 \in 0 .. e.count /\ j + 1 \in 0 .. e.count
        BY <2>1, <2>4
      <3> QED BY <1>6, <2>2, <3>1
    <2>5. ASSUME NEW i \in 1 .. f.count
          PROVE  IF Version(f, i) = Version(f, i - 1) THEN c[i] = c[i - 1]
                 ELSE c[i - 1] >= 1 /\ f.past[c[i - 1]] = Version(f, i) /\ c[i] = c[i - 1] - 1
      <3> DEFINE k == i + 1
      <3>1. /\ i \in 0 .. f.count /\ i - 1 \in 0 .. f.count /\ (i - 1) + 1 = k - 1 /\ k - 1 = i
            /\ k \in 1 .. e.count
        BY <1>1
      <3>2. c[i] = d[k] /\ c[i - 1] = d[k - 1] /\ d[k - 1] \in 0 .. Len(f.past)
        <4>1. c[i - 1] = d[(i - 1) + 1] /\ d[(i - 1) + 1] \in 0 .. Len(f.past)
          BY <2>1, <2>2, <3>1
        <4> QED BY <2>2, <3>1, <4>1
      <3>3. Version(f, i) = Version(e, k) /\ Version(f, i - 1) = Version(e, k - 1)
        <4>1. Version(f, i - 1) = Version(e, (i - 1) + 1)
          BY <1>5, <3>1
        <4> QED BY <1>5, <3>1, <4>1
      <3> HIDE DEF k
      <3>4. IF Version(e, k) = Version(e, k - 1) THEN d[k] = d[k - 1]
            ELSE d[k - 1] >= 1 /\ e.past[d[k - 1]] = Version(e, k) /\ d[k] = d[k - 1] - 1
        BY <1>6, <3>1
      <3>5. d[k - 1] >= 1 => f.past[d[k - 1]] = e.past[d[k - 1]]
        BY <1>8, <3>2
      <3> QED BY <3>2, <3>3, <3>4, <3>5
    <2> QED BY <2>2, <2>3, <2>4, <2>5 DEF Remembered
  <1>10. f.text = e.text \/ (e.past # <<>> /\ f.text = Last(e.past))
    <2>1. f.text # e.text => e.past # <<>>
      BY <1>7
    <2> QED BY <1>7, <2>1 DEF Last
  <1> QED BY <1>4, <1>9, <1>10

-----------------------------------------------------------------------------
(* Undo.                                                                    *)

\* What a key makes of an editor: it is kept, the file and the server are as
\* they were.
Became(e, f) == Kept(f) /\ f.pc \in {"keys", "lost"} /\ f.web = e.web /\ f.file = e.file

\* save_undo_state, alone and before an edit that leaves the cursor in its
\* text, keeps text, ring and past in step.
LEMMA SavedKeeps ==
  ASSUME NEW e, Kept(e), e.pc = "keys"
  PROVE  /\ Became(e, SaveUndoState(e))
         /\ \A text \in EdText : \A line, col \in Nat :
              AtPlace(text, line, col, e.replaced) =>
                Became(e, Edited(e, text, line, col)) /\ Edited(e, text, line, col).pc = "keys"
  <1>1. /\ e \in Editor /\ e.text \in EdText /\ e.line \in Nat /\ e.col \in Nat
        /\ e.head \in 0 .. EdMaxUndo - 1 /\ e.count \in 0 .. EdMaxUndo /\ EdMaxUndo \in Nat /\ EdMaxUndo >= 1
        /\ e.past \in Seq(EdText) /\ e.replaced \in BOOLEAN /\ e.modified \in BOOLEAN
        /\ e.ring \in [0 .. EdMaxUndo - 1 -> EdState]
    BY EdNats DEF EdNat, Kept, Editor
  <1> DEFINE head == IF e.head + 1 = EdMaxUndo THEN 0 ELSE e.head + 1
             count == IF e.count + 1 <= EdMaxUndo THEN e.count + 1 ELSE EdMaxUndo
             ring == [e.ring EXCEPT ![e.head] = Before(e)]
  <1>2. /\ (e.head + 1) % EdMaxUndo = head /\ Min({e.count + 1, EdMaxUndo}) = count
        /\ head \in 0 .. EdMaxUndo - 1 /\ count \in 0 .. EdMaxUndo
        /\ ring \in [0 .. EdMaxUndo - 1 -> EdState]
    <2>1. (e.head + 1) % EdMaxUndo = head
      BY <1>1, Slots
    <2>2. Min({e.count + 1, EdMaxUndo}) = count
      BY <1>1, OfTwo
    <2>3. Before(e) \in EdState
      BY <1>1 DEF Before, EdState
    <2>4. ring \in [0 .. EdMaxUndo - 1 -> EdState]
      BY <1>1, <2>3
    <2>5. head \in 0 .. EdMaxUndo - 1 /\ count \in 0 .. EdMaxUndo
      BY <1>1
    <2> QED BY <2>1, <2>2, <2>4, <2>5
  <1>3. SaveUndoState(e) = [e EXCEPT !.ring = ring, !.head = head, !.count = count]
    <2>1. SaveUndoState(e) = [e EXCEPT !.ring[e.head] = Before(e), !.head = head, !.count = count]
      BY <1>2 DEF SaveUndoState
    <2> QED BY <2>1
  <1> HIDE DEF head, count, ring
  <1> DEFINE f == [e EXCEPT !.ring = ring, !.head = head, !.count = count]
  <1>4. f \in Editor
    BY <1>1, <1>2 DEF Editor
  <1>5. /\ f.ring = ring /\ f.head = head /\ f.count = count /\ f.text = e.text /\ f.past = e.past
        /\ f.replaced = e.replaced /\ f.pc = e.pc /\ f.undone = e.undone /\ f.line = e.line /\ f.col = e.col
        /\ f.modified = e.modified /\ f.full = e.full /\ f.file = e.file /\ f.web = e.web
    BY <1>1 DEF Editor
  <1>6. Became(e, f)
    <2> HIDE DEF f
    <2>1. RingKept(f) /\ Remembered(f)
      BY <1>1, <1>4, <1>5, RingGrows DEF Kept, head, count, ring
    <2> QED BY <1>1, <1>4, <1>5, <2>1 DEF Became, Kept, Filed
  <1>7. ASSUME NEW text \in EdText, NEW line \in Nat, NEW col \in Nat, AtPlace(text, line, col, e.replaced)
        PROVE  Became(e, Edited(e, text, line, col)) /\ Edited(e, text, line, col).pc = "keys"
    <2> DEFINE past == IF text = e.text THEN e.past ELSE Append(e.past, e.text)
               g == [f EXCEPT !.text = text, !.line = line, !.col = col, !.modified = TRUE, !.past = past]
    <2>1. past \in Seq(EdText)
      BY <1>1, AppendProperties
    <2>2. Edited(e, text, line, col) = g
      BY <1>3, <1>4, <1>5 DEF Edited, Editor
    <2> HIDE DEF f, past
    <2>3. g \in Editor
      BY <1>4, <2>1 DEF Editor
    <2>4. /\ g.ring = ring /\ g.head = head /\ g.count = count /\ g.text = text /\ g.past = past
          /\ g.replaced = e.replaced /\ g.pc = e.pc /\ g.undone = e.undone /\ g.line = line /\ g.col = col
          /\ g.modified = TRUE /\ g.file = e.file /\ g.web = e.web
      BY <1>4, <1>5 DEF Editor
    <2> HIDE DEF g
    <2>5. RingKept(g) /\ Remembered(g)
      BY <1>1, <2>3, <2>4, RingGrows DEF Kept, head, count, ring, past
    <2> QED BY <1>1, <1>7, <2>2, <2>3, <2>4, <2>5 DEF Became, Kept, Filed
  <1> QED BY <1>3, <1>6, <1>7

\* perform_undo gives back what the user saw before the latest change.
LEMMA UndoKeeps ==
  ASSUME NEW e, Kept(e), e.pc = "keys"
  PROVE  Became(e, PerformUndo(e))
  <1>1. /\ e \in Editor /\ e.text \in EdText /\ e.replaced \in BOOLEAN
        /\ e.head \in 0 .. EdMaxUndo - 1 /\ e.count \in 0 .. EdMaxUndo /\ EdMaxUndo \in Nat /\ EdMaxUndo >= 1
        /\ e.past \in Seq(EdText)
        /\ e.ring \in [0 .. EdMaxUndo - 1 -> EdState]
    BY EdNats DEF EdNat, Kept, Editor
  <1>2. CASE e.count = 0
    BY <1>2 DEF PerformUndo, Became
  <1>3. CASE e.count # 0
    <2> DEFINE h == Slot(e.head, 1)
               st == e.ring[h]
               past == IF st.text = e.text \/ e.past = <<>> THEN e.past ELSE Front(e.past)
               undone == st.text = e.text \/ (e.past # <<>> /\ st.text = Last(e.past))
               f == [e EXCEPT !.head = h, !.count = e.count - 1, !.text = st.text, !.line = st.line, !.col = st.col,
                              !.modified = TRUE, !.undone = undone, !.past = past]
    <2>1. /\ h \in 0 .. EdMaxUndo - 1 /\ (e.head - 1 + EdMaxUndo) % EdMaxUndo = h
          /\ e.count - 1 \in 0 .. EdMaxUndo /\ e.count >= 1
      <3>1. (e.head - 1 + EdMaxUndo) % EdMaxUndo = h
        BY <1>1, Slots
      <3>2. 1 \in 1 .. EdMaxUndo
        BY <1>1
      <3>3. h \in 0 .. EdMaxUndo - 1
        BY <1>1, <3>2, Slots
      <3>4. e.count - 1 \in 0 .. EdMaxUndo /\ e.count >= 1
        BY <1>1, <1>3
      <3> QED BY <3>1, <3>3, <3>4
    <2>2. st.line \in Nat /\ st.col \in Nat /\ st.text \in EdText /\ AtPlace(st.text, st.line, st.col, e.replaced)
      <3>1. st \in EdState
        BY <1>1, <2>1
      <3>2. 1 \in 1 .. e.count
        BY <1>1, <2>1
      <3> QED BY <3>1, <3>2 DEF EdState, Kept, RingKept
    <2>3. past \in Seq(EdText)
      <3>1. CASE e.past = <<>>
        BY <1>1, <3>1
      <3>2. CASE e.past # <<>>
        <4>1. Len(e.past) \in Nat /\ Len(e.past) # 0
          BY <1>1, <3>2, LenProperties, EmptySeq
        <4>2. Front(e.past) \in Seq(EdText)
          <5> DEFINE n == Len(e.past) - 1
          <5>1. n \in 0 .. Len(e.past) /\ 1 \in 1 .. Len(e.past) + 1
            BY <4>1
          <5>2. Front(e.past) = SubSeq(e.past, 1, n)
            BY DEF Front
          <5> HIDE DEF n
          <5> QED BY <1>1, <5>1, <5>2, PartOf
        <4> QED BY <1>1, <4>2
      <3> QED BY <3>1, <3>2
    <2>4. PerformUndo(e) = f
      BY <1>1, <1>3, <2>1 DEF PerformUndo, Editor
    <2> HIDE DEF h, st, past, undone
    <2>5. undone \in BOOLEAN
      BY DEF undone
    <2>6. f \in Editor
      BY <1>1, <2>1, <2>2, <2>3, <2>5 DEF Editor
    <2>7. /\ f.ring = e.ring /\ f.head = h /\ f.count = e.count - 1 /\ f.text = st.text /\ f.past = past
          /\ f.replaced = e.replaced /\ f.pc = e.pc /\ f.undone = undone /\ f.line = st.line /\ f.col = st.col
          /\ f.modified = TRUE /\ f.file = e.file /\ f.web = e.web
      BY <1>1 DEF Editor
    <2> HIDE DEF f
    <2>8. /\ RingKept(f) /\ Remembered(f)
          /\ f.text = e.text \/ (e.past # <<>> /\ f.text = Last(e.past))
      <3>1. RingKept(e) /\ Remembered(e) /\ e.count >= 1
        BY <2>1 DEF Kept
      <3>2. f.head = Slot(e.head, 1) /\ f.text = e.ring[f.head].text
        BY <2>7 DEF h, st
      <3>3. f.past = (IF f.text = e.text \/ e.past = <<>> THEN e.past ELSE Front(e.past))
        BY <2>7 DEF past
      <3> QED BY <1>1, <2>6, <2>7, <3>1, <3>2, <3>3, RingShrinks
    <2> QED BY <1>1, <2>2, <2>4, <2>6, <2>7, <2>8 DEF Became, Kept, Filed, undone
  <1> QED BY <1>2, <1>3

-----------------------------------------------------------------------------
(* The keys.                                                                *)

\* The line of the cursor is one of the text.
LEMMA LineIs ==
  ASSUME NEW e, Kept(e)
  PROVE  /\ e.text \in EdText /\ e.line \in Nat /\ e.col \in Nat /\ e.replaced \in BOOLEAN
         /\ e.line + 1 \in 1 .. Len(e.text) /\ Line(e, e.line) = e.text[e.line + 1]
         /\ Line(e, e.line) \in EdLine /\ Line(e, e.line) \in Seq(EdLetter)
         /\ LineLen(e) = Len(Line(e, e.line)) /\ LineLen(e) \in Nat /\ LineLen(e) < EdMaxLen
         /\ e.replaced \/ e.col <= LineLen(e)
  <1>1. /\ e.text \in EdText /\ e.line \in Nat /\ e.col \in Nat /\ e.replaced \in BOOLEAN
        /\ AtPlace(e.text, e.line, e.col, e.replaced)
    BY DEF Kept, Editor
  <1>2. e.line + 1 \in 1 .. Len(e.text)
    BY <1>1, TextIs DEF AtPlace
  <1> QED BY <1>1, <1>2, TextIs DEF AtPlace, Line, LineLen

\* A line of a text in the place of another.
LEMMA LineSet ==
  ASSUME NEW t \in EdText, NEW i \in 1 .. Len(t), NEW l \in EdLine
  PROVE  /\ [t EXCEPT ![i] = l] \in EdText /\ Len([t EXCEPT ![i] = l]) = Len(t)
         /\ [t EXCEPT ![i] = l][i] = l
  <1>1. t \in Seq(EdLine) /\ Len(t) \in 1 .. EdMaxLines
    BY TextIs
  <1>2. /\ [t EXCEPT ![i] = l] \in Seq(EdLine) /\ Len([t EXCEPT ![i] = l]) = Len(t)
        /\ [t EXCEPT ![i] = l][i] = l
    BY <1>1, ExceptSeq
  <1> QED BY <1>1, <1>2 DEF EdText

\* The text with another line at the cursor.
LEMMA WithLineIs ==
  ASSUME NEW e, Kept(e), NEW l \in EdLine
  PROVE  WithLine(e, l) \in EdText /\ Len(WithLine(e, l)) = Len(e.text) /\ WithLine(e, l)[e.line + 1] = l
  BY LineIs, LineSet DEF WithLine

\* What is not about the text and its history may change.
LEMMA OthersKeep ==
  ASSUME NEW e, Kept(e), NEW f \in Editor,
         f.text = e.text, f.ring = e.ring, f.head = e.head, f.count = e.count, f.past = e.past,
         f.undone = e.undone, e.replaced => f.replaced,
         AtPlace(f.text, f.line, f.col, f.replaced), Filed(f)
  PROVE  Kept(f)
  <1>1. \A i : Version(f, i) = Version(e, i)
    BY DEF Version
  <1>2. RingKept(f)
    <2> SUFFICES ASSUME NEW i \in 1 .. f.count
                 PROVE  /\ f.ring[Slot(f.head, i)].text \in EdText
                        /\ AtPlace(f.ring[Slot(f.head, i)].text, f.ring[Slot(f.head, i)].line, f.ring[Slot(f.head, i)].col, f.replaced)
      BY DEF RingKept
    <2> DEFINE s == e.ring[Slot(e.head, i)]
    <2>1. s.text \in EdText /\ AtPlace(s.text, s.line, s.col, e.replaced)
      BY DEF Kept, RingKept
    <2> QED BY <2>1 DEF AtPlace
  <1>3. Remembered(f)
    <2>1. PICK d \in [0 .. e.count -> 0 .. Len(e.past)] :
            /\ d[0] = Len(e.past)
            /\ \A i, j \in 0 .. e.count : i <= j => d[j] <= d[i]
            /\ \A i \in 1 .. e.count :
                 IF Version(e, i) = Version(e, i - 1) THEN d[i] = d[i - 1]
                 ELSE d[i - 1] >= 1 /\ e.past[d[i - 1]] = Version(e, i) /\ d[i] = d[i - 1] - 1
      BY DEF Kept, Remembered
    <2>2. \A i \in 1 .. e.count :
            IF Version(f, i) = Version(f, i - 1) THEN d[i] = d[i - 1]
            ELSE d[i - 1] >= 1 /\ f.past[d[i - 1]] = Version(f, i) /\ d[i] = d[i - 1] - 1
      BY <1>1, <2>1
    <2>3. d \in [0 .. f.count -> 0 .. Len(f.past)] /\ d[0] = Len(f.past)
      BY <2>1
    <2>4. /\ \A i, j \in 0 .. f.count : i <= j => d[j] <= d[i]
          /\ \A i \in 1 .. f.count :
               IF Version(f, i) = Version(f, i - 1) THEN d[i] = d[i - 1]
               ELSE d[i - 1] >= 1 /\ f.past[d[i - 1]] = Version(f, i) /\ d[i] = d[i - 1] - 1
      BY <2>1, <2>2
    <2> QED BY <2>3, <2>4 DEF Remembered
  <1> QED BY <1>2, <1>3 DEF Kept

\* An editor that is not followed any further has lost nothing yet.
LEMMA LostKeeps ==
  ASSUME NEW e, Kept(e), e.pc = "keys"
  PROVE  Became(e, Lost(e))
  <1> DEFINE f == [e EXCEPT !.pc = "lost"]
  <1>1. e \in Editor
    BY DEF Kept
  <1>2. /\ f \in Editor
        /\ f.pc = "lost" /\ f.text = e.text /\ f.line = e.line /\ f.col = e.col /\ f.replaced = e.replaced
        /\ f.ring = e.ring /\ f.head = e.head /\ f.count = e.count /\ f.past = e.past /\ f.undone = e.undone
        /\ f.modified = e.modified /\ f.full = e.full /\ f.file = e.file /\ f.web = e.web
    BY <1>1 DEF Editor
  <1> HIDE DEF f
  <1>3. AtPlace(f.text, f.line, f.col, f.replaced) /\ Filed(f)
    BY <1>2 DEF Kept, Filed
  <1>4. Kept(f)
    BY <1>2, <1>3, OthersKeep
  <1> QED BY <1>2, <1>4 DEF Became, Lost, f

\* A cursor that moves within the text.
LEMMA MovedKeeps ==
  ASSUME NEW e, Kept(e), NEW line \in Nat, NEW col \in Nat, AtPlace(e.text, line, col, e.replaced)
  PROVE  LET f == [e EXCEPT !.line = line, !.col = col]
         IN  Kept(f) /\ f.pc = e.pc /\ f.web = e.web /\ f.file = e.file
  <1> DEFINE f == [e EXCEPT !.line = line, !.col = col]
  <1>1. e \in Editor
    BY DEF Kept
  <1>2. /\ f \in Editor
        /\ f.pc = e.pc /\ f.text = e.text /\ f.line = line /\ f.col = col /\ f.replaced = e.replaced
        /\ f.ring = e.ring /\ f.head = e.head /\ f.count = e.count /\ f.past = e.past /\ f.undone = e.undone
        /\ f.modified = e.modified /\ f.full = e.full /\ f.file = e.file /\ f.web = e.web
    BY <1>1 DEF Editor
  <1> HIDE DEF f
  <1>3. AtPlace(f.text, f.line, f.col, f.replaced) /\ Filed(f)
    BY <1>2 DEF Kept, Filed
  <1>4. Kept(f)
    BY <1>2, <1>3, OthersKeep
  <1> QED BY <1>2, <1>4 DEF f

\* The same, of a step.
LEMMA MovedBecomes ==
  ASSUME NEW e, Kept(e), e.pc = "keys", NEW line \in Nat, NEW col \in Nat, AtPlace(e.text, line, col, e.replaced)
  PROVE  Became(e, [e EXCEPT !.line = line, !.col = col])
  <1>1. LET f == [e EXCEPT !.line = line, !.col = col]
        IN  Kept(f) /\ f.pc = e.pc /\ f.web = e.web /\ f.file = e.file
    BY MovedKeeps
  <1> QED BY <1>1 DEF Became


\* insert_char: a full line takes no character.
LEMMA InsertCharKeeps ==
  ASSUME NEW e, Kept(e), e.pc = "keys", NEW c \in EdLetter
  PROVE  Became(e, InsertChar(e, c))
  <1> DEFINE l == Line(e, e.line)
             new == InsertAt(l, e.col + 1, c)
  <1>1. CASE LineLen(e) >= EdMaxLen - 2
    BY <1>1 DEF InsertChar, Became
  <1>2. CASE LineLen(e) < EdMaxLen - 2 /\ Stray(e)
    BY <1>2, LostKeeps, LineIs, EdNats DEF InsertChar, EdNat
  <1>3. CASE LineLen(e) < EdMaxLen - 2 /\ ~Stray(e)
    <2>1. /\ e.col \in Nat /\ e.line \in Nat /\ l \in Seq(EdLetter) /\ Len(l) \in Nat /\ LineLen(e) = Len(l) /\ EdMaxLen \in Nat
          /\ e.text \in EdText /\ e.line + 1 \in 1 .. Len(e.text) /\ Len(e.text) \in Nat
      BY LineIs, EdNats, TextIs DEF EdNat
    <2>2. e.col <= Len(l) /\ Len(l) < EdMaxLen - 2 /\ e.col + 1 \in 1 .. Len(l) + 1
      BY <1>3, <2>1 DEF Stray
    <2>3. new \in Seq(EdLetter) /\ Len(new) = Len(l) + 1
      BY <2>1, <2>2, Inserted
    <2> HIDE DEF new
    <2>4. new \in EdLine
      BY <2>1, <2>2, <2>3 DEF EdLine
    <2>5. WithLine(e, new) \in EdText /\ Len(WithLine(e, new)) = Len(e.text) /\ WithLine(e, new)[e.line + 1] = new
      BY <2>4, WithLineIs
    <2>6. AtPlace(WithLine(e, new), e.line, e.col + 1, e.replaced)
      BY <2>1, <2>2, <2>3, <2>5 DEF AtPlace
    <2>7. Became(e, Edited(e, WithLine(e, new), e.line, e.col + 1))
      BY <2>1, <2>5, <2>6, SavedKeeps
    <2>8. ~(LineLen(e) >= EdMaxLen - 2)
      BY <2>1, <2>2
    <2> QED BY <1>3, <2>7, <2>8 DEF InsertChar, new
  <1>4. LineLen(e) >= EdMaxLen - 2 \/ LineLen(e) < EdMaxLen - 2
    BY LineIs, EdNats DEF EdNat
  <1> QED BY <1>1, <1>2, <1>3, <1>4

\* Tab is a number of blanks, each of them an edit of its own.
LEMMA InsertTabKeeps ==
  ASSUME NEW e, Kept(e), e.pc = "keys"
  PROVE  Became(e, InsertTab(e))
  <1> DEFINE blank == " "
             step(f) == IF f.pc = "lost" THEN f ELSE InsertChar(f, blank)
             Typing(n, t) == t = [i \in 0 .. n |-> IF i = 0 THEN e ELSE step(t[i - 1])]
             Unreached == {n \in 0 .. EdIndent : ~\E t : Typing(n, t)}
  <1>1. EdIndent \in Nat
    BY EdNats DEF EdNat
  <1>0. blank \in EdLetter
    BY Zenon DEF EdLetter
  <1> HIDE DEF blank, step
  <1>2. \E t : Typing(0, t)
    <2> DEFINE t == [i \in 0 .. 0 |-> e]
    <2>1. t = [i \in 0 .. 0 |-> IF i = 0 THEN e ELSE step(t[i - 1])]
      OBVIOUS
    <2> QED BY <2>1
  <1>3. ASSUME NEW n \in Nat, NEW t, Typing(n, t) PROVE \E u : Typing(n + 1, u)
    <2> DEFINE u == [i \in 0 .. n + 1 |-> IF i <= n THEN t[i] ELSE step(t[n])]
    <2>1. ASSUME NEW i \in 0 .. n + 1 PROVE u[i] = IF i = 0 THEN e ELSE step(u[i - 1])
      <3>1. CASE i = 0
        <4>1. 0 \in 0 .. n /\ 0 \in 0 .. n + 1 /\ 0 <= n
          OBVIOUS
        <4>2. t[0] = e
          BY <1>3, <4>1
        <4> QED BY <3>1, <4>1, <4>2
      <3>2. CASE i \in 1 .. n
        <4>1. i \in 0 .. n /\ i - 1 \in 0 .. n + 1 /\ i - 1 <= n /\ i # 0 /\ i <= n
          BY <3>2
        <4>2. t[i] = step(t[i - 1])
          BY <1>3, <4>1
        <4> QED BY <4>1, <4>2
      <3>3. CASE i = n + 1
        <4>1. i - 1 = n /\ n \in 0 .. n + 1 /\ n <= n /\ ~(i <= n) /\ i # 0
          BY <3>3
        <4> QED BY <4>1
      <3> QED BY <3>1, <3>2, <3>3
    <2>2. u = [i \in 0 .. n + 1 |-> IF i = 0 THEN e ELSE step(u[i - 1])]
      <3>1. u = [i \in 0 .. n + 1 |-> u[i]]
        OBVIOUS
      <3> HIDE DEF u
      <3> QED BY <2>1, <3>1
    <2> QED BY <2>2
  <1>4. Unreached = {}
    <2>1. SUFFICES ASSUME Unreached # {} PROVE FALSE
      OBVIOUS
    <2>2. Unreached \in SUBSET Nat
      BY <1>1
    <2>3. PICK n \in Unreached : \A k \in Unreached : n <= k
      BY <2>1, <2>2, LeastIs
    <2>4. n \in 0 .. EdIndent /\ n # 0 /\ n - 1 \in 0 .. EdIndent /\ n - 1 \in Nat
      <3>1. n \in 0 .. EdIndent /\ ~\E t : Typing(n, t)
        BY <2>3
      <3> HIDE DEF Typing
      <3>2. n # 0
        BY <1>2, <3>1
      <3> QED BY <1>1, <3>1, <3>2
    <2>5. n - 1 \notin Unreached
      BY <2>3, <2>4
    <2>6. PICK t : Typing(n - 1, t)
      BY <2>4, <2>5
    <2>7. \E u : Typing((n - 1) + 1, u)
      <3> HIDE DEF Typing
      <3> QED BY <1>3, <2>4, <2>6
    <2>8. (n - 1) + 1 = n
      BY <2>4
    <2> QED BY <2>3, <2>7, <2>8
  <1> DEFINE typed == CHOOSE t : Typing(EdIndent, t)
  <1>5. Typing(EdIndent, typed)
    <2>1. \E t : Typing(EdIndent, t)
      BY <1>1, <1>4
    <2> HIDE DEF Typing
    <2> QED BY <2>1
  <1>6. InsertTab(e) = typed[EdIndent]
    BY Zenon DEF InsertTab, step, blank
  <1> HIDE DEF typed
  <1> DEFINE Bad == {n \in 0 .. EdIndent : ~Became(e, typed[n])}
  <1>7. /\ typed[0] = e
        /\ \A n \in 1 .. EdIndent : typed[n] = step(typed[n - 1])
    <2>1. 0 \in 0 .. EdIndent
      BY <1>1
    <2>2. \A n \in 1 .. EdIndent : n \in 0 .. EdIndent /\ n # 0
      BY <1>1
    <2> QED BY <1>5, <2>1, <2>2
  <1>8. \A f : Became(e, f) => Became(e, step(f))
    <2> SUFFICES ASSUME NEW f, Became(e, f) PROVE Became(e, step(f))
      OBVIOUS
    <2>1. CASE f.pc = "lost"
      BY <2>1 DEF step
    <2>2. CASE f.pc = "keys"
      <3>1. Became(f, InsertChar(f, blank))
        BY <1>0, <2>2, InsertCharKeeps DEF Became
      <3> QED BY <2>2, <3>1 DEF Became, step
    <2> QED BY <2>1, <2>2 DEF Became
  <1>9. Bad = {}
    <2>1. SUFFICES ASSUME Bad # {} PROVE FALSE
      OBVIOUS
    <2>2. Bad \in SUBSET Nat
      BY <1>1
    <2>3. PICK n \in Bad : \A k \in Bad : n <= k
      BY <2>1, <2>2, LeastIs
    <2>4. Became(e, typed[0])
      BY <1>7 DEF Became
    <2>5. n \in 1 .. EdIndent /\ n - 1 \in 0 .. EdIndent
      BY <1>1, <2>3, <2>4
    <2>6. Became(e, typed[n - 1])
      BY <2>3, <2>5
    <2> QED BY <1>7, <1>8, <2>3, <2>5, <2>6
  <1> QED BY <1>1, <1>6, <1>9

\* The indentation of a new line fits in it.
LEMMA IndentIs ==
  ASSUME NEW e, Kept(e)
  PROVE  /\ Indentation(Line(e, e.line)) \in 0 .. EdMaxIndent
         /\ Extra(e) \in 0 .. EdIndent
  <1> DEFINE l == Line(e, e.line)
             n == Min({Len(l), EdMaxIndent})
             Free(i) == \A j \in 1 .. i : l[j] = " "
             S == {i \in 0 .. n : Free(i)}
  <1>1. Len(l) \in Nat /\ EdMaxIndent \in Nat /\ EdIndent \in Nat
    BY LineIs, EdNats DEF EdNat
  <1>2. n \in 0 .. EdMaxIndent
    <2>1. n = IF Len(l) <= EdMaxIndent THEN Len(l) ELSE EdMaxIndent
      BY <1>1, OfTwo
    <2> HIDE DEF n
    <2> QED BY <1>1, <2>1
  <1>3. Indentation(l) = Max(S)
    BY Zenon DEF Indentation
  <1>4. Free(0)
    <2>1. \A j \in 1 .. 0 : FALSE
      OBVIOUS
    <2> QED BY Zenon, <2>1
  <1> HIDE DEF n, Free
  <1>5. S \in SUBSET (0 .. n) /\ 0 \in S /\ S # {} /\ n \in Nat
    BY <1>1, <1>2, <1>4
  <1>6. Max(S) \in S
    <2> HIDE DEF S
    <2> QED BY <1>5, GreatestIs
  <1>7. Max(S) \in 0 .. EdMaxIndent
    BY <1>1, <1>2, <1>5, <1>6
  <1> HIDE DEF S
  <1>8. Extra(e) \in 0 .. EdIndent
    BY <1>1 DEF Extra
  <1> QED BY <1>3, <1>7, <1>8

\* strncpy with MAX_LINE_LEN - 1 leaves a line, the same if it was short.
LEMMA CutIs ==
  ASSUME NEW l \in Seq(EdLetter)
  PROVE  /\ Cut(l) \in EdLine
         /\ Len(Cut(l)) = IF Len(l) <= EdMaxLen - 1 THEN Len(l) ELSE EdMaxLen - 1
         /\ Len(l) <= EdMaxLen - 1 => Cut(l) = l
  <1> DEFINE n == Min({Len(l), EdMaxLen - 1})
  <1>1. Len(l) \in Nat /\ EdMaxLen \in Nat /\ EdMaxLen - 1 \in Nat
    BY EdNats, LenProperties DEF EdNat
  <1>2. n = IF Len(l) <= EdMaxLen - 1 THEN Len(l) ELSE EdMaxLen - 1
    BY <1>1, OfTwo
  <1>3. Cut(l) = SubSeq(l, 1, n)
    BY DEF Cut
  <1> HIDE DEF n
  <1>4. n \in 0 .. Len(l) /\ 1 \in 1 .. Len(l) + 1
    BY <1>1, <1>2
  <1>5. /\ SubSeq(l, 1, n) \in Seq(EdLetter)
        /\ Len(SubSeq(l, 1, n)) = IF 1 <= n THEN n - 1 + 1 ELSE 0
        /\ \A k \in 1 .. n - 1 + 1 : SubSeq(l, 1, n)[k] = l[1 + k - 1]
    BY <1>4, PartOf
  <1>6. Len(Cut(l)) = n
    BY <1>3, <1>4, <1>5
  <1>7. ASSUME Len(l) <= EdMaxLen - 1 PROVE Cut(l) = l
    <2>1. n = Len(l)
      BY <1>2, <1>7
    <2>2. \A k \in 1 .. Len(l) : SubSeq(l, 1, n)[k] = l[k]
      BY <1>1, <1>5, <2>1
    <2> QED BY <1>3, <1>5, <1>6, <2>1, <2>2, SeqEqual
  <1> QED BY <1>1, <1>2, <1>3, <1>5, <1>6, <1>7 DEF EdLine

\* insert_newline_smart.
LEMMA NewlineKeeps ==
  ASSUME NEW e, Kept(e), e.pc = "keys"
  PROVE  Became(e, InsertNewlineSmart(e))
  <1> DEFINE l == Line(e, e.line)
             ind == Indentation(l) + Extra(e)
             head == SubSeq(l, 1, Min({e.col, Len(l)}))
             tail == SubSeq(l, e.col + 1, Len(l))
             new == Cut(Spaces(ind) \o tail)
             text == InsertAt(WithLine(e, head), e.line + 2, new)
  <1>1. /\ e.col \in Nat /\ e.line \in Nat /\ l \in Seq(EdLetter) /\ Len(l) \in Nat /\ Len(l) < EdMaxLen /\ EdMaxLen \in Nat
        /\ e.text \in EdText /\ e.line + 1 \in 1 .. Len(e.text) /\ Len(e.text) \in Nat /\ EdMaxLines \in Nat
        /\ EdMaxIndent \in Nat /\ EdIndent \in Nat /\ EdMaxIndent + EdIndent < EdMaxLen
    BY LineIs, EdNats, TextIs DEF EdNat
  <1>2. CASE Len(e.text) >= EdMaxLines - 1
    BY <1>2 DEF InsertNewlineSmart, Became
  <1>3. CASE ~(Len(e.text) >= EdMaxLines - 1)
    <2>1. ind \in Nat /\ ind <= EdMaxLen - 1
      <3>1. Indentation(l) \in 0 .. EdMaxIndent /\ Extra(e) \in 0 .. EdIndent
        BY IndentIs
      <3> QED BY <1>1, <3>1
    <2>2. head \in EdLine
      <3> DEFINE n == Min({e.col, Len(l)})
      <3>1. n = IF e.col <= Len(l) THEN e.col ELSE Len(l)
        BY <1>1, OfTwo
      <3> HIDE DEF n
      <3>2. n \in 0 .. Len(l) /\ 1 \in 1 .. Len(l) + 1
        BY <1>1, <3>1
      <3>3. SubSeq(l, 1, n) \in Seq(EdLetter) /\ Len(SubSeq(l, 1, n)) = IF 1 <= n THEN n - 1 + 1 ELSE 0
        BY <1>1, <3>2, PartOf
      <3>4. SubSeq(l, 1, n) \in EdLine
        BY <1>1, <3>2, <3>3 DEF EdLine
      <3> QED BY <3>4 DEF n
    <2>3. tail \in Seq(EdLetter) /\ Len(tail) \in Nat
      <3>1. CASE e.col <= Len(l)
        <4>1. e.col + 1 \in 1 .. Len(l) + 1 /\ Len(l) \in 0 .. Len(l)
          BY <1>1, <3>1
        <4> QED BY <1>1, <4>1, PartOf, LenProperties
      <3>2. CASE ~(e.col <= Len(l))
        <4>1. \A k \in e.col + 1 .. Len(l) : FALSE
          BY <1>1, <3>2
        <4>2. tail \in Seq(EdLetter)
          BY <1>1, <4>1, SubSeqProperties
        <4> QED BY <4>2, LenProperties
      <3> QED BY <3>1, <3>2
    <2> HIDE DEF ind, tail
    <2>4. Spaces(ind) \in Seq(EdLetter) /\ Len(Spaces(ind)) = ind
      <3> DEFINE blank == " "
      <3>1. blank \in EdLetter
        BY Zenon DEF EdLetter
      <3>2. Spaces(ind) = [i \in 1 .. ind |-> blank]
        BY Zenon DEF Spaces
      <3> HIDE DEF blank
      <3>3. [i \in 1 .. ind |-> blank] \in Seq(EdLetter) /\ Len([i \in 1 .. ind |-> blank]) = ind
        BY <2>1, <3>1
      <3> QED BY <3>2, <3>3
    <2>5. Spaces(ind) \o tail \in Seq(EdLetter) /\ Len(Spaces(ind) \o tail) = ind + Len(tail)
      BY <2>3, <2>4, ConcatProperties
    <2>6. new \in EdLine /\ ind <= Len(new)
      <3> DEFINE w == Spaces(ind) \o tail
      <3> HIDE DEF w
      <3>1. /\ Cut(w) \in EdLine
            /\ Len(Cut(w)) = IF Len(w) <= EdMaxLen - 1 THEN Len(w) ELSE EdMaxLen - 1
        BY <2>5, CutIs DEF w
      <3>2. ind <= Len(Cut(w))
        BY <1>1, <2>1, <2>3, <2>5, <3>1 DEF w
      <3> QED BY <3>1, <3>2 DEF w
    <2> HIDE DEF head, new
    <2>7. WithLine(e, head) \in EdText /\ Len(WithLine(e, head)) = Len(e.text)
      BY <2>2, WithLineIs
    <2>8. text \in EdText /\ Len(text) = Len(e.text) + 1 /\ text[e.line + 2] = new
      <3>1. WithLine(e, head) \in Seq(EdLine) /\ e.line + 2 \in 1 .. Len(WithLine(e, head)) + 1
        BY <1>1, <2>7, TextIs
      <3>2. text \in Seq(EdLine) /\ Len(text) = Len(WithLine(e, head)) + 1 /\ text[e.line + 2] = new
        BY <2>6, <3>1, Inserted
      <3> QED BY <1>1, <1>3, <2>7, <3>2 DEF EdText
    <2> HIDE DEF text
    <2>9. AtPlace(text, e.line + 1, ind, e.replaced) /\ e.line + 1 \in Nat
      <3>1. (e.line + 1) + 1 = e.line + 2 /\ e.line + 1 \in 0 .. Len(text) - 1
        BY <1>1, <2>8
      <3> QED BY <1>1, <2>6, <2>8, <3>1 DEF AtPlace
    <2>10. Became(e, Edited(e, text, e.line + 1, ind))
      BY <2>1, <2>8, <2>9, SavedKeeps
    <2> QED BY <1>3, <2>10 DEF InsertNewlineSmart, text, ind, head, tail, new
  <1> QED BY <1>2, <1>3

\* Two lines that are joined are one that fits.
LEMMA JoinedIs ==
  ASSUME NEW e, Kept(e), e.line > 0,
         Len(Line(e, e.line - 1)) + Len(Line(e, e.line)) < EdMaxLen - 2
  PROVE  LET prev == Line(e, e.line - 1)
             text == RemoveAt([e.text EXCEPT ![e.line] = prev \o Line(e, e.line)], e.line + 1)
         IN  text \in EdText /\ AtPlace(text, e.line - 1, Len(prev), FALSE) /\ Len(prev) \in Nat
  <1> DEFINE l == Line(e, e.line)
             prev == Line(e, e.line - 1)
             both == prev \o l
             joined == [e.text EXCEPT ![e.line] = both]
             text == RemoveAt(joined, e.line + 1)
  <1>1. /\ e.line \in Nat /\ l \in Seq(EdLetter) /\ Len(l) \in Nat /\ EdMaxLen \in Nat
        /\ e.text \in EdText /\ e.line + 1 \in 1 .. Len(e.text) /\ Len(e.text) \in Nat /\ Len(e.text) <= EdMaxLines /\ EdMaxLines \in Nat
    BY LineIs, EdNats, TextIs DEF EdNat
  <1>2. e.line \in 1 .. Len(e.text) /\ prev = e.text[e.line]
    BY <1>1 DEF Line
  <1>3. prev \in Seq(EdLetter) /\ Len(prev) \in Nat
    BY <1>1, <1>2, TextIs
  <1> HIDE DEF l, prev
  <1>4. both \in Seq(EdLetter) /\ Len(both) = Len(prev) + Len(l)
    BY <1>1, <1>3, ConcatProperties
  <1> HIDE DEF both
  <1>5. both \in EdLine
    BY <1>1, <1>3, <1>4 DEF EdLine, l, prev
  <1>6. joined \in EdText /\ Len(joined) = Len(e.text) /\ joined[e.line] = both
    <2>1. e.text \in EdText
      BY <1>1
    <2> HIDE DEF EdText, EdLine
    <2> QED BY <1>2, <1>5, <2>1, LineSet
  <1> HIDE DEF joined
  <1>7. joined \in Seq(EdLine) /\ e.line + 1 \in 1 .. Len(joined) /\ e.line \in 1 .. (e.line + 1) - 1
    <2>1. joined \in Seq(EdLine)
      BY <1>6, TextIs
    <2>2. e.line + 1 \in 1 .. Len(joined)
      BY <1>1, <1>6
    <2>3. e.line \in Nat /\ e.line >= 1
      BY <1>1, <1>2
    <2>4. e.line \in 1 .. (e.line + 1) - 1
      BY <2>3
    <2> QED BY <2>1, <2>2, <2>4
  <1>8. /\ text \in Seq(EdLine) /\ Len(text) = Len(joined) - 1
        /\ \A k \in 1 .. (e.line + 1) - 1 : text[k] = joined[k]
    BY <1>7, Removed
  <1> HIDE DEF text
  <1>9. text[e.line] = both /\ text \in EdText
    <2>1. text[e.line] = both
      BY <1>6, <1>7, <1>8
    <2>2. Len(text) \in 1 .. EdMaxLines
      <3>1. Len(text) = Len(e.text) - 1
        BY <1>6, <1>8
      <3> QED BY <1>1, <1>2, <3>1
    <2> QED BY <1>8, <2>1, <2>2 DEF EdText
  <1>10. AtPlace(text, e.line - 1, Len(prev), FALSE)
    <2>1. (e.line - 1) + 1 = e.line /\ e.line - 1 \in 0 .. Len(text) - 1
      BY SMTT(20), <1>1, <1>2, <1>6, <1>8
    <2>2. Len(prev) <= Len(both)
      <3>1. Len(l) \in Nat
        BY <1>1 DEF l
      <3> QED BY <1>3, <1>4, <3>1
    <2> QED BY <1>9, <2>1, <2>2 DEF AtPlace
  <1> QED BY <1>3, <1>9, <1>10 DEF text, joined, both, prev, l

\* delete_char, within a line, between two, and refused.
LEMMA DeleteCharKeeps ==
  ASSUME NEW e, Kept(e), e.pc = "keys"
  PROVE  Became(e, DeleteChar(e))
  <1> DEFINE l == Line(e, e.line)
             new == RemoveAt(l, e.col)
  <1>1. /\ e.col \in Nat /\ e.line \in Nat /\ l \in Seq(EdLetter) /\ Len(l) \in Nat /\ Len(l) < EdMaxLen /\ LineLen(e) = Len(l)
        /\ EdMaxLen \in Nat
        /\ e.text \in EdText /\ e.line + 1 \in 1 .. Len(e.text) /\ Len(e.text) \in Nat
    BY LineIs, EdNats, TextIs DEF EdNat
  <1>2. CASE e.col > 0 /\ Stray(e)
    BY <1>2, LostKeeps DEF DeleteChar
  <1>3. CASE e.col > 0 /\ ~Stray(e)
    <2>1. e.col \in 1 .. Len(l) /\ e.col - 1 \in Nat
      BY <1>1, <1>3 DEF Stray
    <2>2. new \in Seq(EdLetter) /\ Len(new) = Len(l) - 1
      BY <1>1, <2>1, Removed
    <2> HIDE DEF new
    <2>3. new \in EdLine
      BY <1>1, <2>1, <2>2 DEF EdLine
    <2>4. WithLine(e, new) \in EdText /\ Len(WithLine(e, new)) = Len(e.text) /\ WithLine(e, new)[e.line + 1] = new
      BY <2>3, WithLineIs
    <2>5. AtPlace(WithLine(e, new), e.line, e.col - 1, e.replaced)
      BY SMTT(20), <1>1, <2>1, <2>2, <2>4 DEF AtPlace
    <2>6. Became(e, Edited(e, WithLine(e, new), e.line, e.col - 1))
      BY <1>1, <2>1, <2>4, <2>5, SavedKeeps
    <2> QED BY <1>3, <2>6 DEF DeleteChar, new
  <1>4. CASE ~(e.col > 0) /\ e.line > 0
    <2> DEFINE prev == Line(e, e.line - 1)
               text == RemoveAt([e.text EXCEPT ![e.line] = prev \o l], e.line + 1)
    <2>1. CASE Len(prev) + Len(l) < EdMaxLen - 2
      <3>1. text \in EdText /\ AtPlace(text, e.line - 1, Len(prev), FALSE) /\ Len(prev) \in Nat
        BY <1>4, <2>1, JoinedIs
      <3>2. DeleteChar(e) = Edited(e, text, e.line - 1, Len(prev))
        BY <1>4, <2>1 DEF DeleteChar
      <3> HIDE DEF text, prev
      <3>3. AtPlace(text, e.line - 1, Len(prev), e.replaced) /\ e.line - 1 \in Nat
        BY <1>1, <1>4, <3>1 DEF AtPlace
      <3> QED BY <3>1, <3>2, <3>3, SavedKeeps
    <2>2. CASE ~(Len(prev) + Len(l) < EdMaxLen - 2)
      <3>1. DeleteChar(e) = SaveUndoState(e)
        BY <1>4, <2>2 DEF DeleteChar
      <3> QED BY <3>1, SavedKeeps
    <2> QED BY <2>1, <2>2
  <1>5. CASE ~(e.col > 0) /\ ~(e.line > 0)
    BY <1>5 DEF DeleteChar, Became
  <1> QED BY <1>2, <1>3, <1>4, <1>5

\* duplicate_current_line.
LEMMA DuplicateKeeps ==
  ASSUME NEW e, Kept(e), e.pc = "keys"
  PROVE  Became(e, DuplicateCurrentLine(e))
  <1> DEFINE l == Line(e, e.line)
             text == InsertAt(e.text, e.line + 2, l)
  <1>1. /\ e.col \in Nat /\ e.line \in Nat /\ l \in EdLine /\ LineLen(e) = Len(l) /\ Len(l) \in Nat
        /\ e.text \in EdText /\ e.text \in Seq(EdLine) /\ e.line + 1 \in 1 .. Len(e.text) /\ Len(e.text) \in Nat /\ EdMaxLines \in Nat
        /\ e.replaced \/ e.col <= Len(l)
    BY LineIs, EdNats, TextIs DEF EdNat
  <1>2. CASE Len(e.text) >= EdMaxLines - 1
    BY <1>2 DEF DuplicateCurrentLine, Became
  <1>3. CASE ~(Len(e.text) >= EdMaxLines - 1)
    <2> HIDE DEF l
    <2>1. e.line + 2 \in 1 .. Len(e.text) + 1
      BY <1>1
    <2>2. text \in Seq(EdLine) /\ Len(text) = Len(e.text) + 1 /\ text[e.line + 2] = l
      <3>1. e.text \in Seq(EdLine) /\ l \in EdLine
        BY <1>1
      <3> HIDE DEF EdLine
      <3> QED BY <2>1, <3>1, Inserted
    <2> HIDE DEF text
    <2>3. text \in EdText
      BY <1>1, <1>3, <2>2 DEF EdText
    <2>4. AtPlace(text, e.line + 1, e.col, e.replaced)
      <3>1. (e.line + 1) + 1 = e.line + 2 /\ e.line + 1 \in 0 .. Len(text) - 1
        BY <1>1, <2>2
      <3> QED BY <1>1, <2>2, <3>1 DEF AtPlace
    <2>5. Became(e, Edited(e, text, e.line + 1, e.col))
      BY <1>1, <2>3, <2>4, SavedKeeps
    <2> QED BY <1>3, <2>5 DEF DuplicateCurrentLine, text, l
  <1> QED BY <1>2, <1>3


\* delete_current_line leaves a line at least, and the cursor in it.
LEMMA DeleteLineKeeps ==
  ASSUME NEW e, Kept(e), e.pc = "keys"
  PROVE  Became(e, DeleteCurrentLine(e))
  <1>1. /\ e.col \in Nat /\ e.line \in Nat /\ e.replaced \in BOOLEAN
        /\ e.text \in EdText /\ e.text \in Seq(EdLine) /\ e.line + 1 \in 1 .. Len(e.text) /\ Len(e.text) \in Nat
        /\ EdMaxLines \in Nat /\ EdMaxLines >= 1 /\ Len(e.text) <= EdMaxLines
        /\ EdMaxLen \in Nat /\ EdMaxLen >= 1
    BY LineIs, EdNats, TextIs DEF EdNat
  <1>2. CASE Len(e.text) = 1
    <2> DEFINE empty == <<>>
               text == <<empty>>
    <2>1. empty \in EdLine /\ Len(empty) = 0
      BY <1>1, EmptySeq DEF EdLine
    <2> HIDE DEF empty
    <2>2. text \in Seq(EdLine) /\ Len(text) = 1 /\ text[1] = empty
      BY <2>1
    <2> HIDE DEF text
    <2>3. text \in EdText
      <3>1. Len(text) \in 1 .. EdMaxLines
        <4>1. EdMaxLines \in Nat /\ EdMaxLines >= 1
          BY <1>1
        <4> QED BY <2>2, <4>1
      <3> QED BY <2>2, <3>1 DEF EdText
    <2>4. AtPlace(text, 0, 0, e.replaced)
      BY <2>1, <2>2 DEF AtPlace
    <2>5. Became(e, Edited(e, text, 0, 0))
      BY <2>3, <2>4, SavedKeeps
    <2> QED BY <1>2, <2>5 DEF DeleteCurrentLine, text, empty
  <1>3. CASE Len(e.text) # 1
    <2> DEFINE text == RemoveAt(e.text, e.line + 1)
               line == Min({e.line, Len(text) - 1})
               col == Min({e.col, Len(text[line + 1])})
               f == Edited(e, text, line, e.col)
    <2>1. text \in Seq(EdLine) /\ Len(text) = Len(e.text) - 1
      BY <1>1, Removed
    <2>2. DeleteCurrentLine(e) = ClampCol(f)
      BY <1>3 DEF DeleteCurrentLine
    <2> HIDE DEF text
    <2>3. text \in EdText
      <3>1. Len(e.text) \in Nat /\ Len(e.text) >= 1 /\ Len(e.text) <= EdMaxLines /\ EdMaxLines \in Nat
        BY <1>1, TextIs
      <3>2. Len(text) \in 1 .. EdMaxLines
        <4>1. \A m, n \in Nat : n >= 1 /\ n <= m /\ n # 1 => n - 1 \in 1 .. m
          OBVIOUS
        <4>2. Len(e.text) - 1 \in 1 .. EdMaxLines
          BY <1>3, <3>1, <4>1
        <4> QED BY <2>1, <4>2
      <3> QED BY <2>1, <3>2 DEF EdText
    <2>4. line \in 0 .. Len(text) - 1 /\ line \in Nat
      <3>1. Len(text) - 1 \in Nat
        <4>1. Len(text) \in Nat /\ Len(text) >= 1
          BY <2>3, TextIs
        <4> QED BY <4>1
      <3>2. line = IF e.line <= Len(text) - 1 THEN e.line ELSE Len(text) - 1
        BY <1>1, <3>1, OfTwo
      <3> HIDE DEF line
      <3> QED BY <1>1, <3>1, <3>2
    <2> HIDE DEF line
    <2>5. Len(text[line + 1]) \in Nat
      <3>1. line + 1 \in 1 .. Len(text)
        BY <2>1, <2>3, <2>4, TextIs
      <3> QED BY <2>3, <3>1, TextIs
    <2>6. col \in Nat /\ col <= Len(text[line + 1])
      <3>1. col = IF e.col <= Len(text[line + 1]) THEN e.col ELSE Len(text[line + 1])
        BY <1>1, <2>5, OfTwo
      <3> HIDE DEF col
      <3> QED BY <1>1, <2>5, <3>1
    <2>7. ClampCol(f) = Edited(e, text, line, col)
      <3> DEFINE s == SaveUndoState(e)
                 past == IF text = e.text THEN s.past ELSE Append(s.past, e.text)
      <3>1. s \in Editor
        BY SavedKeeps DEF Became, Kept
      <3> HIDE DEF s
      <3>2. \A c \in Nat : Edited(e, text, line, c) =
              [s EXCEPT !.text = text, !.line = line, !.col = c, !.modified = TRUE, !.past = past]
        BY DEF Edited, s
      <3> HIDE DEF past
      <3> DEFINE g == [s EXCEPT !.text = text, !.line = line, !.col = e.col, !.modified = TRUE, !.past = past]
      <3>3. f = g /\ g.col = e.col /\ g.line = line /\ g.text = text
        BY <1>1, <3>1, <3>2 DEF Editor
      <3>4. ClampCol(f) = [g EXCEPT !.col = col]
        BY <3>3 DEF ClampCol, LineLen, Line
      <3>5. [g EXCEPT !.col = col] = [s EXCEPT !.text = text, !.line = line, !.col = col, !.modified = TRUE, !.past = past]
        <4> HIDE DEF col
        <4> QED BY <3>1 DEF Editor
      <3> QED BY <2>6, <3>2, <3>4, <3>5
    <2> HIDE DEF f, col
    <2>8. AtPlace(text, line, col, e.replaced)
      BY <2>4, <2>6 DEF AtPlace
    <2>9. Became(e, Edited(e, text, line, col))
      BY <2>3, <2>4, <2>6, <2>8, SavedKeeps
    <2> QED BY <2>2, <2>7, <2>9
  <1> QED BY <1>2, <1>3

\* prompt_goto_line.
LEMMA GotoKeeps ==
  ASSUME NEW e, Kept(e), e.pc = "keys", NEW n \in Nat
  PROVE  Became(e, PromptGotoLine(e, n))
  <1> DEFINE m == Min({n, Len(e.text)})
             k == Max({1, m})
  <1>1. e.text \in EdText /\ Len(e.text) \in Nat /\ Len(e.text) >= 1
    BY LineIs, TextIs
  <1>2. m = IF n <= Len(e.text) THEN n ELSE Len(e.text)
    BY <1>1, OfTwo
  <1>3. PromptGotoLine(e, n) = [e EXCEPT !.line = k - 1, !.col = 0]
    BY DEF PromptGotoLine
  <1> HIDE DEF m
  <1>4. m \in Nat /\ m <= Len(e.text)
    BY <1>1, <1>2
  <1>5. k = IF 1 >= m THEN 1 ELSE m
    BY <1>4, OfTwo
  <1> HIDE DEF k
  <1>6. k - 1 \in 0 .. Len(e.text) - 1 /\ k - 1 \in Nat /\ (k - 1) + 1 \in 1 .. Len(e.text)
    BY <1>1, <1>4, <1>5
  <1>7. AtPlace(e.text, k - 1, 0, e.replaced)
    <2>1. Len(e.text[(k - 1) + 1]) \in Nat
      BY <1>1, <1>6, TextIs
    <2> QED BY <1>6, <2>1 DEF AtPlace
  <1> DEFINE at == k - 1
  <1>8. at \in Nat /\ 0 \in Nat /\ AtPlace(e.text, at, 0, e.replaced)
    BY <1>6, <1>7
  <1>9. PromptGotoLine(e, n) = [e EXCEPT !.line = at, !.col = 0]
    BY <1>3
  <1> HIDE DEF at
  <1>10. Became(e, [e EXCEPT !.line = at, !.col = 0])
    BY <1>8, MovedBecomes
  <1> QED BY <1>9, <1>10

\* The arrows.
LEMMA ArrowKeeps ==
  ASSUME NEW e, Kept(e), e.pc = "keys", NEW key \in {"up", "down", "left", "right"}
  PROVE  Became(e, Arrow(e, key))
  <1>1. /\ e \in Editor /\ e.col \in Nat /\ e.line \in Nat /\ e.replaced \in BOOLEAN
        /\ e.text \in EdText /\ e.line + 1 \in 1 .. Len(e.text) /\ Len(e.text) \in Nat
        /\ LineLen(e) = Len(e.text[e.line + 1]) /\ LineLen(e) \in Nat
        /\ e.replaced \/ e.col <= LineLen(e)
    BY LineIs, TextIs DEF Kept
  <1>2. ASSUME NEW line \in Nat, NEW col \in Nat, line < Len(e.text), e.replaced \/ col <= Len(e.text[line + 1])
        PROVE  Became(e, [e EXCEPT !.line = line, !.col = col])
    <2>1. AtPlace(e.text, line, col, e.replaced)
      BY <1>1, <1>2 DEF AtPlace
    <2> QED BY <2>1, MovedBecomes
  <1>3. \A line \in Nat : line < Len(e.text) => Len(e.text[line + 1]) \in Nat
    <2>1. \A line \in Nat : line < Len(e.text) => line + 1 \in 1 .. Len(e.text)
      BY <1>1
    <2> QED BY <1>1, <2>1, TextIs
  <1>4. ASSUME NEW line \in Nat, line < Len(e.text)
        PROVE  Became(e, ClampCol([e EXCEPT !.line = line]))
    <2> DEFINE col == Min({e.col, Len(e.text[line + 1])})
    <2>1. col = IF e.col <= Len(e.text[line + 1]) THEN e.col ELSE Len(e.text[line + 1])
      BY <1>1, <1>3, <1>4, OfTwo
    <2>2. ClampCol([e EXCEPT !.line = line]) = [e EXCEPT !.line = line, !.col = col]
      <3> DEFINE g == [e EXCEPT !.line = line]
      <3>1. g.col = e.col /\ g.line = line /\ g.text = e.text
        BY <1>1 DEF Editor
      <3>2. ClampCol(g) = [g EXCEPT !.col = col]
        BY <3>1 DEF ClampCol, LineLen, Line
      <3> QED BY <3>2
    <2> HIDE DEF col
    <2>3. col \in Nat /\ col <= Len(e.text[line + 1])
      BY <1>1, <1>3, <1>4, <2>1
    <2> QED BY <1>2, <1>4, <2>2, <2>3
  <1>5. Became(e, e)
    BY DEF Became
  <1>6. CASE key = "up"
    <2>1. CASE e.line > 0
      <3>1. e.line - 1 \in Nat /\ e.line - 1 < Len(e.text)
        BY <1>1, <2>1
      <3> QED BY <1>4, <1>6, <2>1, <3>1 DEF Arrow
    <2> QED BY <1>5, <1>6, <2>1 DEF Arrow
  <1>7. CASE key = "down"
    <2>1. CASE e.line < Len(e.text) - 1
      BY <1>1, <1>4, <1>7, <2>1 DEF Arrow
    <2> QED BY <1>5, <1>7, <2>1 DEF Arrow
  <1>8. CASE key = "right"
    <2>1. CASE e.col < LineLen(e)
      <3>1. Became(e, [e EXCEPT !.line = e.line, !.col = e.col + 1])
        <4>1. e.col \in Nat /\ e.line \in Nat /\ e.line + 1 \in 1 .. Len(e.text) /\ Len(e.text) \in Nat
          BY <1>1
        <4>2. e.col + 1 \in Nat /\ e.line < Len(e.text)
          BY <4>1
        <4>3. e.col < Len(e.text[e.line + 1]) /\ Len(e.text[e.line + 1]) \in Nat
          BY <1>1, <2>1
        <4>4. e.col + 1 <= Len(e.text[e.line + 1])
          BY <4>1, <4>3
        <4> QED BY <1>2, <4>1, <4>2, <4>4
      <3>2. [e EXCEPT !.line = e.line, !.col = e.col + 1] = [e EXCEPT !.col = e.col + 1]
        BY <1>1 DEF Editor
      <3> QED BY <1>8, <2>1, <3>1, <3>2 DEF Arrow
    <2>2. CASE ~(e.col < LineLen(e)) /\ e.line < Len(e.text) - 1
      <3>1. Became(e, [e EXCEPT !.line = e.line + 1, !.col = 0])
        <4>1. e.line + 1 \in Nat /\ e.line + 1 < Len(e.text)
          BY <1>1, <2>2
        <4>2. Len(e.text[(e.line + 1) + 1]) \in Nat
          BY <1>3, <4>1
        <4>3. 0 \in Nat /\ 0 <= Len(e.text[(e.line + 1) + 1])
          BY <4>2
        <4> QED BY <1>2, <4>1, <4>3
      <3> QED BY <1>8, <2>2, <3>1 DEF Arrow
    <2> QED BY <1>5, <1>8, <2>1, <2>2 DEF Arrow
  <1>9. CASE key = "left"
    <2>1. CASE e.col > 0
      <3>1. Became(e, [e EXCEPT !.line = e.line, !.col = e.col - 1])
        <4>1. e.col - 1 \in Nat /\ e.line < Len(e.text) /\ (e.replaced \/ e.col - 1 <= Len(e.text[e.line + 1]))
          BY SMTT(20), <1>1, <2>1
        <4> QED BY <1>1, <1>2, <4>1
      <3>2. [e EXCEPT !.line = e.line, !.col = e.col - 1] = [e EXCEPT !.col = e.col - 1]
        BY <1>1 DEF Editor
      <3> QED BY <1>9, <2>1, <3>1, <3>2 DEF Arrow
    <2>2. CASE ~(e.col > 0) /\ e.line > 0
      <3>1. Became(e, [e EXCEPT !.line = e.line - 1, !.col = Len(Line(e, e.line - 1))])
        <4>1. e.line - 1 \in Nat /\ e.line - 1 < Len(e.text)
          BY <1>1, <2>2
        <4>2. Line(e, e.line - 1) = e.text[(e.line - 1) + 1] /\ Len(Line(e, e.line - 1)) \in Nat
          BY <1>3, <4>1 DEF Line
        <4>3. Len(Line(e, e.line - 1)) <= Len(e.text[(e.line - 1) + 1])
          BY <4>2
        <4> HIDE DEF Line
        <4> QED BY <1>2, <4>1, <4>2, <4>3
      <3> QED BY <1>9, <2>2, <3>1 DEF Arrow
    <2> QED BY <1>5, <1>9, <2>1, <2>2 DEF Arrow
  <1> QED BY <1>6, <1>7, <1>8, <1>9

\* find_next_match goes to a line of the text and a column of the line.
LEMMA FindKeeps ==
  ASSUME NEW e, Kept(e), e.pc = "keys", NEW term
  PROVE  Became(e, FindNextMatch(e, term))
  <1> DEFINE n == Len(e.text)
             l(step) == (e.line + step) % n
             hits(step) == {i \in (IF step = 0 THEN e.col + 1 ELSE 0) .. Len(Line(e, l(step))) : Occurs(Line(e, l(step)), term, i)}
             steps == {s \in 0 .. n - 1 : hits(s) # {}}
  <1>1. /\ e.col \in Nat /\ e.line \in Nat /\ e.text \in EdText /\ n \in Nat /\ n >= 1
    BY LineIs, TextIs
  <1>2. \A s \in 0 .. n - 1 : l(s) \in 0 .. n - 1 /\ l(s) \in Nat
    BY <1>1
  <1>3. \A s \in 0 .. n - 1 : Line(e, l(s)) = e.text[l(s) + 1] /\ Len(Line(e, l(s))) \in Nat
    <2> HIDE DEF l
    <2>1. \A s \in 0 .. n - 1 : l(s) + 1 \in 1 .. n
      BY <1>1, <1>2
    <2> QED BY <1>1, <2>1, TextIs DEF Line
  <1>4. FindNextMatch(e, term) =
          IF steps = {} THEN e ELSE [e EXCEPT !.line = l(Min(steps)), !.col = Min(hits(Min(steps)))]
    BY Zenon DEF FindNextMatch
  <1> HIDE DEF l
  <1>5. CASE steps = {}
    BY <1>4, <1>5 DEF Became
  <1>6. CASE steps # {}
    <2> DEFINE s == Min(steps)
    <2>1. steps \in SUBSET Nat
      BY <1>1
    <2>2. s \in steps
      <3> HIDE DEF steps
      <3> QED BY <1>6, <2>1, LeastIs
    <2>3. s \in 0 .. n - 1 /\ hits(s) # {}
      BY <2>2
    <2> HIDE DEF s, n
    <2>4. hits(s) \in SUBSET Nat /\ \A i \in hits(s) : i <= Len(Line(e, l(s)))
      BY <1>1, <1>3, <2>3
    <2> HIDE DEF hits
    <2>5. Min(hits(s)) \in hits(s)
      BY <2>3, <2>4, LeastIs
    <2>6. Min(hits(s)) \in Nat /\ Min(hits(s)) <= Len(Line(e, l(s)))
      BY <2>4, <2>5
    <2> DEFINE col == Min(hits(s))
    <2> HIDE DEF col
    <2>7. AtPlace(e.text, l(s), col, e.replaced)
      BY <1>2, <1>3, <2>3, <2>6 DEF AtPlace, n, col
    <2> DEFINE at == l(s)
    <2>8. at \in Nat /\ col \in Nat /\ AtPlace(e.text, at, col, e.replaced)
      BY <1>2, <2>3, <2>6, <2>7 DEF col
    <2>9. FindNextMatch(e, term) = [e EXCEPT !.line = at, !.col = col]
      BY <1>4, <1>6 DEF s, col
    <2> HIDE DEF at
    <2>10. Became(e, [e EXCEPT !.line = at, !.col = col])
      BY <2>8, MovedBecomes
    <2> QED BY <2>9, <2>10
  <1> QED BY <1>5, <1>6

\* prompt_replace on a line, scanned from its end to its start: the line fits,
\* and is the same if the term does not occur in it.
LEMMA ReplacedIs ==
  ASSUME NEW l \in EdLine, NEW term \in Seq(EdLetter), term # <<>>, NEW by \in Seq(EdLetter)
  PROVE  /\ Replaced(l, term, by) \in EdLine
         /\ (\A i \in 0 .. Len(l) : ~Occurs(l, term, i)) => Replaced(l, term, by) = l
  <1> DEFINE n == Len(l)
             body(f, i) == IF i = n THEN <<>>
                           ELSE IF Occurs(l, term, i) THEN by \o f[i + Len(term)]
                           ELSE <<l[i + 1]>> \o f[i + 1]
             Scan(k, f) == \A i \in n - k .. n : f[i] = body(f, i)
             Unreached == {k \in 0 .. n : ~\E f : f \in [0 .. n -> Seq(EdLetter)] /\ Scan(k, f)}
             Whole(f) == f = [i \in 0 .. n |-> body(f, i)]
             from == CHOOSE f : Whole(f)
  <1>1. /\ l \in Seq(EdLetter) /\ n \in Nat /\ n < EdMaxLen /\ EdMaxLen \in Nat
        /\ Len(term) \in Nat /\ Len(term) >= 1
    BY EdNats, LenProperties, EmptySeq DEF EdNat, EdLine
  <1>2. \A i \in 0 .. n : i # n => l[i + 1] \in EdLetter
    <2>1. \A i \in 0 .. n : i # n => i + 1 \in 1 .. n
      BY <1>1
    <2> QED BY <1>1, <2>1, ElementOfSeq
  <1>3. \A i : Occurs(l, term, i) => i + Len(term) <= n
    BY DEF Occurs
  <1>4. \A f, i : (i \in 0 .. n /\ (\A j \in i + 1 .. n : f[j] \in Seq(EdLetter))) => body(f, i) \in Seq(EdLetter)
    <2> SUFFICES ASSUME NEW f, NEW i \in 0 .. n, \A j \in i + 1 .. n : f[j] \in Seq(EdLetter)
                 PROVE  body(f, i) \in Seq(EdLetter)
      OBVIOUS
    <2>1. CASE i = n
      BY <2>1, EmptySeq
    <2>2. CASE i # n /\ Occurs(l, term, i)
      <3>1. i + Len(term) \in i + 1 .. n
        BY <1>1, <1>3, <2>2
      <3>2. by \o f[i + Len(term)] \in Seq(EdLetter)
        BY <3>1, ConcatProperties
      <3> QED BY <2>2, <3>2
    <2>3. CASE i # n /\ ~Occurs(l, term, i)
      <3>1. i + 1 \in i + 1 .. n
        BY <1>1, <2>3
      <3>2. l[i + 1] \in EdLetter
        BY <1>2, <2>3
      <3>3. <<l[i + 1]>> \in Seq(EdLetter)
        BY <3>2
      <3>4. <<l[i + 1]>> \o f[i + 1] \in Seq(EdLetter)
        BY <3>1, <3>3, ConcatProperties
      <3> QED BY <2>3, <3>4
    <2> QED BY <2>1, <2>2, <2>3
  <1>5. \A f, g, i : (i \in 0 .. n /\ (\A j \in i + 1 .. n : f[j] = g[j])) => body(f, i) = body(g, i)
    <2> SUFFICES ASSUME NEW f, NEW g, NEW i \in 0 .. n, \A j \in i + 1 .. n : f[j] = g[j]
                 PROVE  body(f, i) = body(g, i)
      OBVIOUS
    <2>1. CASE i = n
      BY <2>1
    <2>2. CASE i # n /\ Occurs(l, term, i)
      <3>1. i + Len(term) \in i + 1 .. n
        BY <1>1, <1>3, <2>2
      <3> QED BY <2>2, <3>1
    <2>3. CASE i # n /\ ~Occurs(l, term, i)
      <3>1. i + 1 \in i + 1 .. n
        BY <1>1, <2>3
      <3> QED BY <2>3, <3>1
    <2> QED BY <2>1, <2>2, <2>3
  <1> HIDE DEF n, body
  <1>6. Unreached = {}
    <2>1. SUFFICES ASSUME Unreached # {} PROVE FALSE
      OBVIOUS
    <2>2. Unreached \in SUBSET Nat
      BY <1>1
    <2>3. PICK k \in Unreached : \A m \in Unreached : k <= m
      <3> HIDE DEF Unreached
      <3> QED BY <2>1, <2>2, LeastIs
    <2>4. k \in 0 .. n
      BY <2>3
    <2>5. k # 0
      <3> SUFFICES \E f : f \in [0 .. n -> Seq(EdLetter)] /\ Scan(0, f)
        BY <2>3
      <3> DEFINE f == [i \in 0 .. n |-> body(<<>>, n)]
      <3>1. \A i \in n - 0 .. n : i = n /\ i \in 0 .. n
        BY <1>1
      <3>2. \A j \in n + 1 .. n : FALSE
        BY <1>1
      <3>3. n \in 0 .. n
        BY <1>1
      <3>4. body(<<>>, n) \in Seq(EdLetter)
        BY <1>4, <3>2, <3>3
      <3>5. f[n] = body(<<>>, n)
        BY <3>3
      <3> HIDE DEF f
      <3>6. body(f, n) = body(<<>>, n)
        BY <1>5, <3>2, <3>3
      <3>7. f \in [0 .. n -> Seq(EdLetter)]
        BY <3>4 DEF f
      <3> QED BY <3>1, <3>4, <3>5, <3>6, <3>7
    <2>6. k - 1 \in 0 .. n /\ k - 1 \notin Unreached
      <3>1. k - 1 \in 0 .. n /\ ~(k <= k - 1)
        BY <1>1, <2>4, <2>5
      <3> HIDE DEF Unreached
      <3> QED BY <2>3, <3>1
    <2>7. PICK f : f \in [0 .. n -> Seq(EdLetter)] /\ Scan(k - 1, f)
      BY <2>6
    <2> DEFINE c == n - k
               g == [f EXCEPT ![c] = body(f, c)]
    <2>8. c \in 0 .. n /\ c + 1 = n - (k - 1)
      BY <1>1, <2>4
    <2>9. \A j \in c + 1 .. n : j # c /\ j \in 0 .. n
      BY <1>1, <2>8
    <2> HIDE DEF c
    <2>10. g[c] = body(f, c) /\ \A j \in c + 1 .. n : g[j] = f[j]
      BY <2>7, <2>8, <2>9
    <2>12. \A j \in c + 1 .. n : f[j] = body(f, j) /\ f[j] \in Seq(EdLetter)
      BY <2>7, <2>8, <2>9
    <2>15. body(f, c) \in Seq(EdLetter)
      BY <1>4, <2>8, <2>12
    <2>11. g \in [0 .. n -> Seq(EdLetter)]
      BY <2>7, <2>15
    <2> HIDE DEF g
    <2>13. \A j \in c .. n : j \in 0 .. n /\ \A m \in j + 1 .. n : m \in c + 1 .. n
      BY <1>1, <2>8
    <2>14. \A j \in c .. n : body(g, j) = body(f, j)
      BY <1>5, <2>10, <2>13
    <2>16. \A j \in c .. n : g[j] = body(g, j)
      <3> TAKE j \in c .. n
      <3>1. CASE j = c
        BY <2>10, <2>14, <2>15, <3>1
      <3>2. CASE j # c
        <4>1. j \in c + 1 .. n
          BY <1>1, <2>8, <3>2
        <4> QED BY <2>10, <2>12, <2>14, <4>1
      <3> QED BY <3>1, <3>2
    <2> QED BY <2>3, <2>11, <2>16 DEF c
  <1>7. \E f : Whole(f)
    <2>1. n \in 0 .. n /\ n - n = 0
      BY <1>1
    <2>2. PICK f : f \in [0 .. n -> Seq(EdLetter)] /\ Scan(n, f)
      BY <1>6, <2>1
    <2>3. \A i \in 0 .. n : f[i] = body(f, i)
      BY <2>1, <2>2
    <2>4. f = [i \in 0 .. n |-> f[i]]
      BY <2>2
    <2>5. f = [i \in 0 .. n |-> body(f, i)]
      BY <2>3, <2>4
    <2> QED BY <2>5
  <1>8. from = [i \in 0 .. n |-> body(from, i)]
    <2> HIDE DEF Whole
    <2>1. Whole(from)
      BY <1>7
    <2> QED BY <2>1 DEF Whole
  <1>9. Replaced(l, term, by) = Cut(from[0])
    BY Zenon DEF Replaced, Scanned, n, body
  <1> HIDE DEF from, Unreached, Whole, Scan
  <1>10. \A i \in 0 .. n : from[i] = body(from, i)
    BY <1>8
  <1> DEFINE Odd == {k \in 0 .. n : from[n - k] \notin Seq(EdLetter)}
  <1>11. Odd = {}
    <2>1. SUFFICES ASSUME Odd # {} PROVE FALSE
      OBVIOUS
    <2>2. Odd \in SUBSET Nat
      BY <1>1
    <2>3. PICK k \in Odd : \A m \in Odd : k <= m
      <3> HIDE DEF Odd
      <3> QED BY <2>1, <2>2, LeastIs
    <2>4. n - k \in 0 .. n /\ k \in 0 .. n
      BY <1>1, <2>3
    <2>5. ASSUME NEW j \in (n - k) + 1 .. n PROVE from[j] \in Seq(EdLetter)
      <3>1. n - j \in 0 .. n /\ ~(k <= n - j) /\ n - (n - j) = j
        BY <1>1, <2>4
      <3>2. n - j \notin Odd
        BY <2>3, <3>1
      <3> QED BY <3>1, <3>2
    <2>6. body(from, n - k) \in Seq(EdLetter)
      BY <1>4, <2>4, <2>5
    <2>7. from[n - k] \in Seq(EdLetter)
      BY <1>10, <2>4, <2>6
    <2> QED BY <2>3, <2>7
  <1>12. from[0] \in Seq(EdLetter)
    <2>1. n \in 0 .. n /\ n - n = 0
      BY <1>1
    <2> QED BY <1>11, <2>1
  <1>13. ASSUME \A i \in 0 .. n : ~Occurs(l, term, i)
         PROVE  from[0] = l
    <2> DEFINE Rest(i) == SubSeq(l, i + 1, n)
               Other == {k \in 0 .. n : from[n - k] # Rest(n - k)}
    <2>1. Other = {}
      <3>1. SUFFICES ASSUME Other # {} PROVE FALSE
        OBVIOUS
      <3>2. Other \in SUBSET Nat
        BY <1>1
      <3>3. PICK k \in Other : \A m \in Other : k <= m
        <4> HIDE DEF Other
        <4> QED BY <3>1, <3>2, LeastIs
      <3> DEFINE i == n - k
      <3>4. i \in 0 .. n /\ k \in 0 .. n
        BY <1>1, <3>3
      <3>5. from[i] = body(from, i)
        BY <1>10, <3>4
      <3>6. CASE i = n
        <4>1. Rest(n) = <<>>
          BY <1>1, SubSeqEmpty
        <4>2. body(from, n) = <<>>
          BY DEF body
        <4> QED BY <3>3, <3>5, <3>6, <4>1, <4>2
      <3>7. CASE i # n
        <4>1. k - 1 \in 0 .. n /\ ~(k <= k - 1) /\ n - (k - 1) = i + 1 /\ i + 1 \in 1 .. n /\ i + 1 \in 0 .. n
          BY <1>1, <3>4, <3>7
        <4>2. from[i + 1] = Rest(i + 1)
          <5>1. k - 1 \notin Other
            BY <3>3, <4>1
          <5> QED BY <4>1, <5>1
        <4>3. body(from, i) = <<l[i + 1]>> \o from[i + 1]
          BY <1>13, <3>4, <3>7 DEF body
        <4> DEFINE a == Rest(i)
                   b == Rest(i + 1)
                   x == l[i + 1]
        <4>4. /\ a \in Seq(EdLetter) /\ Len(a) = n - i
              /\ \A m \in 1 .. n - i : a[m] = l[i + m]
          <5> HIDE DEF i
          <5>1. i + 1 \in 1 .. Len(l) + 1 /\ n \in 0 .. Len(l)
            BY <1>1, <4>1 DEF n
          <5>2. /\ SubSeq(l, i + 1, n) \in Seq(EdLetter)
                /\ Len(SubSeq(l, i + 1, n)) = IF i + 1 <= n THEN n - (i + 1) + 1 ELSE 0
                /\ \A m \in 1 .. n - (i + 1) + 1 : SubSeq(l, i + 1, n)[m] = l[i + 1 + m - 1]
            BY SMTT(20), <1>1, <5>1, PartOf
          <5>3. n - (i + 1) + 1 = n - i /\ i + 1 <= n /\ \A m \in 1 .. n - i : i + 1 + m - 1 = i + m
            BY <1>1, <3>4, <4>1
          <5> QED BY <5>2, <5>3
        <4>5. /\ b \in Seq(EdLetter) /\ Len(b) = n - (i + 1)
              /\ \A m \in 1 .. n - (i + 1) : b[m] = l[(i + 1) + m]
          <5> DEFINE h == i + 1
          <5> HIDE DEF i
          <5>0. h \in 1 .. n
            BY <4>1
          <5> HIDE DEF h
          <5>1. h + 1 \in 1 .. Len(l) + 1 /\ n \in 0 .. Len(l)
            BY <1>1, <5>0 DEF n
          <5>2. /\ SubSeq(l, h + 1, n) \in Seq(EdLetter)
                /\ Len(SubSeq(l, h + 1, n)) = IF h + 1 <= n THEN n - (h + 1) + 1 ELSE 0
                /\ \A m \in 1 .. n - (h + 1) + 1 : SubSeq(l, h + 1, n)[m] = l[h + 1 + m - 1]
            BY SMTT(20), <1>1, <5>1, PartOf
          <5>3. /\ n - (h + 1) + 1 = n - h /\ (~(h + 1 <= n) => n - h = 0)
                /\ \A m \in 1 .. n - h : h + 1 + m - 1 = h + m
            BY <1>1, <5>0
          <5>4. /\ SubSeq(l, h + 1, n) \in Seq(EdLetter) /\ Len(SubSeq(l, h + 1, n)) = n - h
                /\ \A m \in 1 .. n - h : SubSeq(l, h + 1, n)[m] = l[h + m]
            BY <5>2, <5>3
          <5> QED BY <5>4 DEF h
        <4>6. x \in EdLetter
          BY <1>2, <3>4, <3>7
        <4> HIDE DEF a, b
        <4>7. <<x>> \in Seq(EdLetter) /\ Len(<<x>>) = 1 /\ <<x>>[1] = x
          BY <4>6
        <4>8. /\ <<x>> \o b \in Seq(EdLetter) /\ Len(<<x>> \o b) = 1 + Len(b)
              /\ \A m \in 1 .. 1 + Len(b) : (<<x>> \o b)[m] = IF m <= 1 THEN <<x>>[m] ELSE b[m - 1]
          BY <4>5, <4>7, ConcatProperties
        <4>9. <<x>> \o b = a
          <5>1. Len(<<x>> \o b) = Len(a) /\ Len(a) = 1 + Len(b)
            BY <1>1, <3>4, <4>4, <4>5, <4>8
          <5>2. ASSUME NEW m \in 1 .. Len(a) PROVE (<<x>> \o b)[m] = a[m]
            <6>1. CASE m = 1
              BY <1>1, <3>4, <4>4, <4>7, <4>8, <5>1, <6>1
            <6>2. CASE m # 1
              <7> DEFINE p == m - 1
              <7>1. p \in 1 .. n - (i + 1) /\ (i + 1) + p = i + m /\ m \in 1 .. n - i /\ ~(m <= 1)
                BY <1>1, <3>4, <4>4, <6>2
              <7>2. (<<x>> \o b)[m] = b[p]
                BY <4>8, <5>1, <7>1
              <7> HIDE DEF p
              <7> QED BY <4>4, <4>5, <7>1, <7>2
            <6> QED BY <6>1, <6>2
          <5> QED BY <4>4, <4>8, <5>1, <5>2, SeqEqual
        <4> QED BY <3>3, <3>5, <4>2, <4>3, <4>9 DEF a, b
      <3> QED BY <3>6, <3>7
    <2>2. from[0] = SubSeq(l, 1, n)
      <3>1. n \in 0 .. n /\ n - n = 0 /\ 0 + 1 = 1
        BY <1>1
      <3> QED BY <2>1, <3>1
    <2>3. SubSeq(l, 1, n) = l
      <3>1. 1 \in 1 .. Len(l) + 1 /\ n \in 0 .. Len(l) /\ n = Len(l)
        BY <1>1 DEF n
      <3>2. /\ SubSeq(l, 1, n) \in Seq(EdLetter)
            /\ Len(SubSeq(l, 1, n)) = IF 1 <= n THEN n - 1 + 1 ELSE 0
            /\ \A m \in 1 .. n - 1 + 1 : SubSeq(l, 1, n)[m] = l[1 + m - 1]
        BY <1>1, <3>1, PartOf
      <3>3. Len(SubSeq(l, 1, n)) = Len(l) /\ \A m \in 1 .. Len(l) : SubSeq(l, 1, n)[m] = l[m]
        BY <1>1, <3>1, <3>2
      <3> QED BY <1>1, <3>2, <3>3, SeqEqual
    <2> QED BY <2>2, <2>3
  <1>14. Cut(from[0]) \in EdLine
    BY <1>12, CutIs
  <1>15. (\A i \in 0 .. n : ~Occurs(l, term, i)) => Cut(from[0]) = l
    <2>1. Len(l) <= EdMaxLen - 1
      BY <1>1 DEF n
    <2>2. Cut(l) = l
      BY <1>1, <2>1, CutIs
    <2> QED BY <1>13, <2>2
  <1> QED BY <1>9, <1>14, <1>15 DEF n

\* prompt_replace: a text that it does not mark as modified is the same.
LEMMA ReplaceKeeps ==
  ASSUME NEW e, Kept(e), e.pc = "keys", NEW term \in Seq(EdLetter), term # <<>>, NEW by \in Seq(EdLetter)
  PROVE  Became(e, PromptReplace(e, term, by))
  <1> DEFINE text == [l \in DOMAIN e.text |-> Replaced(e.text[l], term, by)]
             any == \E l \in DOMAIN text : \E i \in 0 .. Len(e.text[l]) : Occurs(e.text[l], term, i)
             long == \E l \in DOMAIN e.text : Len(Scanned(e.text[l], term, by)) >= 2 * EdMaxLen
  <1>0. CASE long
    BY <1>0, LostKeeps, Zenon DEF PromptReplace
  <1> SUFFICES ASSUME ~long PROVE Became(e, PromptReplace(e, term, by))
    BY <1>0
  <1>1. /\ e \in Editor /\ e.text \in EdText /\ e.text \in Seq(EdLine) /\ Len(e.text) \in Nat /\ Len(e.text) \in 1 .. EdMaxLines
        /\ DOMAIN e.text = 1 .. Len(e.text) /\ e.line \in Nat /\ e.col \in Nat
    BY LineIs, TextIs, LenProperties DEF Kept
  <1>3. ASSUME NEW l \in 1 .. Len(e.text)
        PROVE  /\ Replaced(e.text[l], term, by) \in EdLine
               /\ (\A i \in 0 .. Len(e.text[l]) : ~Occurs(e.text[l], term, i)) => Replaced(e.text[l], term, by) = e.text[l]
    <2>1. e.text[l] \in EdLine
      BY <1>1, TextIs
    <2> QED BY <2>1, ReplacedIs
  <1>4. text \in EdText /\ Len(text) = Len(e.text)
    <2>1. text = [l \in 1 .. Len(e.text) |-> Replaced(e.text[l], term, by)]
      BY <1>1
    <2> DEFINE new(l) == Replaced(e.text[l], term, by)
    <2>2. \A l \in 1 .. Len(e.text) : new(l) \in EdLine
      BY <1>3
    <2> HIDE DEF text, new
    <2>3. [l \in 1 .. Len(e.text) |-> new(l)] \in Seq(EdLine) /\ Len([l \in 1 .. Len(e.text) |-> new(l)]) = Len(e.text)
      BY <1>1, <2>2
    <2>4. text \in Seq(EdLine) /\ Len(text) = Len(e.text)
      BY <2>1, <2>3 DEF new
    <2> QED BY <1>1, <2>4 DEF EdText
  <1>5. ~any => text = e.text
    <2> SUFFICES ASSUME ~any PROVE text = e.text
      OBVIOUS
    <2>1. DOMAIN text = 1 .. Len(e.text) /\ \A l \in 1 .. Len(e.text) : text[l] = Replaced(e.text[l], term, by)
      BY <1>1
    <2>2. \A l \in 1 .. Len(e.text) : \A i \in 0 .. Len(e.text[l]) : ~Occurs(e.text[l], term, i)
      BY <2>1
    <2>3. \A l \in 1 .. Len(e.text) : text[l] = e.text[l]
      BY <1>3, <2>1, <2>2
    <2>4. text \in Seq(EdLine) /\ Len(text) = Len(e.text)
      BY <1>4, TextIs
    <2> HIDE DEF text
    <2> QED BY <1>1, <2>3, <2>4, SeqEqual
  <1> HIDE DEF text, any, long
  <1> DEFINE d == [e EXCEPT !.replaced = TRUE]
             f == Edited(d, text, e.line, e.col)
             g == [f EXCEPT !.modified = e.modified \/ any]
  <1>6. /\ d \in Editor /\ d.replaced = TRUE /\ d.text = e.text /\ d.line = e.line /\ d.col = e.col /\ d.ring = e.ring
        /\ d.head = e.head /\ d.count = e.count /\ d.past = e.past /\ d.undone = e.undone /\ d.pc = e.pc
        /\ d.modified = e.modified /\ d.full = e.full /\ d.file = e.file /\ d.web = e.web
    BY <1>1 DEF Editor
  <1>7. Kept(d)
    <2>1. AtPlace(d.text, d.line, d.col, d.replaced) /\ Filed(d)
      BY <1>6 DEF Kept, Filed, AtPlace
    <2> HIDE DEF d
    <2> QED BY <1>6, <2>1, OthersKeep
  <1>8. PromptReplace(e, term, by) = g
    BY Zenon DEF PromptReplace, text, any, long
  <1> HIDE DEF d
  <1>9. Became(d, f)
    <2>1. AtPlace(text, e.line, e.col, d.replaced)
      BY <1>1, <1>4, <1>6 DEF Kept, AtPlace
    <2> QED BY <1>1, <1>4, <1>6, <1>7, <2>1, SavedKeeps
  <1>10. f.text = text /\ f.replaced = TRUE /\ f.full = e.full /\ f.pc = "keys" /\ f.line = e.line /\ f.col = e.col
    <2>1. SaveUndoState(d) \in Editor
      BY <1>6, <1>7, SavedKeeps DEF Became, Kept
    <2>2. SaveUndoState(d).replaced = TRUE /\ SaveUndoState(d).full = e.full /\ SaveUndoState(d).pc = "keys"
      BY <1>6 DEF SaveUndoState, Editor
    <2> HIDE DEF SaveUndoState
    <2> QED BY <2>1, <2>2 DEF Edited, Editor
  <1> HIDE DEF f
  <1>11. f \in Editor
    BY <1>9 DEF Became, Kept
  <1>12. any \in BOOLEAN
    BY DEF any
  <1>13. /\ g \in Editor /\ g.text = f.text /\ g.ring = f.ring /\ g.head = f.head /\ g.count = f.count /\ g.past = f.past
         /\ g.undone = f.undone /\ g.replaced = f.replaced /\ g.line = f.line /\ g.col = f.col /\ g.full = f.full
         /\ g.file = f.file /\ g.web = f.web /\ g.pc = f.pc /\ g.modified = (e.modified \/ any)
    BY <1>1, <1>11, <1>12 DEF Editor
  <1> HIDE DEF g
  <1>14. AtPlace(g.text, g.line, g.col, g.replaced) /\ Filed(g)
    <2>1. Filed(e) /\ g.file = e.file
      BY <1>6, <1>9, <1>13 DEF Kept, Became
    <2>2. ~g.modified => ~e.modified /\ g.text = e.text
      BY <1>5, <1>10, <1>13
    <2>3. Filed(g)
      BY <1>10, <1>13, <2>1, <2>2 DEF Filed
    <2> QED BY <1>9, <1>13, <2>3 DEF Became, Kept
  <1>15. Kept(g)
    BY <1>9, <1>13, <1>14, OthersKeep DEF Became
  <1> QED BY <1>6, <1>8, <1>9, <1>10, <1>13, <1>15 DEF Became

-----------------------------------------------------------------------------
(* The steps.                                                               *)

\* The window after a key.
LEMMA RenderShows ==
  ASSUME NEW e, Kept(e)
  PROVE  /\ Kept(Render(e)) /\ InWindow(Render(e)) /\ Render(e).pc = e.pc
         /\ Render(e).web = e.web /\ Render(e).file = e.file /\ Render(e) \in Editor
  <1>1. e \in Editor /\ e.line \in Nat /\ e.col \in Nat /\ e.top \in Int /\ e.left \in Int
    BY DEF Kept, Editor
  <1>2. EdRows \in Nat /\ EdRows >= 1 /\ EdCols \in Nat /\ EdCols >= 1
    BY EdNats DEF EdNat
  <1>3. \A at \in Nat : \A from \in Int : \A size \in Nat :
          size >= 1 => Scrolled(at, from, size) \in Int /\ at \in Scrolled(at, from, size) .. Scrolled(at, from, size) + size - 1
    BY DEF Scrolled
  <1> DEFINE top == Scrolled(e.line, e.top, EdRows)
             left == Scrolled(e.col, e.left, EdCols)
             f == [e EXCEPT !.top = top, !.left = left]
  <1>4. top \in Int /\ left \in Int /\ e.line \in top .. top + EdRows - 1 /\ e.col \in left .. left + EdCols - 1
    BY <1>1, <1>2, <1>3
  <1>5. Render(e) = f
    BY DEF Render
  <1> HIDE DEF top, left
  <1>6. /\ f \in Editor
        /\ f.pc = e.pc /\ f.text = e.text /\ f.line = e.line /\ f.col = e.col /\ f.replaced = e.replaced
        /\ f.ring = e.ring /\ f.head = e.head /\ f.count = e.count /\ f.past = e.past /\ f.undone = e.undone
        /\ f.modified = e.modified /\ f.full = e.full /\ f.file = e.file /\ f.web = e.web
        /\ f.top = top /\ f.left = left
    BY <1>1, <1>4 DEF Editor
  <1> HIDE DEF f
  <1>7. AtPlace(f.text, f.line, f.col, f.replaced) /\ Filed(f)
    BY <1>6 DEF Kept, Filed
  <1>8. Kept(f)
    BY <1>6, <1>7, OthersKeep
  <1> QED BY <1>4, <1>5, <1>6, <1>8 DEF InWindow

\* Every key keeps the text, its history and the cursor.
LEMMA TypedKeeps ==
  ASSUME Kept(ed), ed.pc = "keys", NEW e \in Typed(ed)
  PROVE  Became(ed, e)
  <1>1. CASE e \in {InsertChar(ed, c) : c \in EdChar}
    <2>1. PICK c \in EdChar : e = InsertChar(ed, c)
      BY <1>1
    <2>2. c \in EdLetter
      BY Zenon DEF EdLetter
    <2> QED BY <2>1, <2>2, InsertCharKeeps
  <1>2. CASE e \in {PromptReplace(ed, f[1], f[2]) : f \in EdFind}
    <2>1. PICK f \in EdFind : e = PromptReplace(ed, f[1], f[2])
      BY <1>2
    <2>2. f[1] \in Seq(EdLetter) /\ f[2] \in Seq(EdLetter) /\ f[1] # <<>>
      BY EdTextsFit
    <2> QED BY <2>1, <2>2, ReplaceKeeps
  <1>3. CASE e \in {FindNextMatch(ed, f[1]) : f \in EdFind}
    BY <1>3, FindKeeps
  <1>4. CASE e \in {PromptGotoLine(ed, n) : n \in {0, 2, EdMaxLines + 1}}
    <2>1. PICK n \in {0, 2, EdMaxLines + 1} : e = PromptGotoLine(ed, n)
      BY <1>4
    <2>2. n \in Nat
      BY EdNats DEF EdNat
    <2> QED BY <2>1, <2>2, GotoKeeps
  <1>5. CASE e \in {Arrow(ed, k) : k \in {"up", "down", "left", "right"}}
    BY <1>5, ArrowKeeps
  <1>6. CASE e = InsertTab(ed)
    BY <1>6, InsertTabKeeps
  <1>7. CASE e = InsertNewlineSmart(ed)
    BY <1>7, NewlineKeeps
  <1>8. CASE e = DeleteChar(ed)
    BY <1>8, DeleteCharKeeps
  <1>9. CASE e = DuplicateCurrentLine(ed)
    BY <1>9, DuplicateKeeps
  <1>10. CASE e = DeleteCurrentLine(ed)
    BY <1>10, DeleteLineKeeps
  <1>11. CASE e = PerformUndo(ed)
    BY <1>11, UndoKeeps
  <1> QED BY <1>1, <1>2, <1>3, <1>4, <1>5, <1>6, <1>7, <1>8, <1>9, <1>10, <1>11, Zenon DEF Typed

\* A key is counted.
LEMMA PressedKeeps ==
  ASSUME NEW e, Kept(e)
  PROVE  LET f == Pressed(e)
         IN  /\ Kept(f) /\ f.pc = e.pc /\ f.web = e.web /\ f.file = e.file /\ (InWindow(e) => InWindow(f))
             /\ f.text = e.text /\ f.modified = e.modified /\ f.full = e.full
  <1> DEFINE keys == e.keys + 1
             f == [e EXCEPT !.keys = keys]
  <1>1. e \in Editor /\ keys \in Nat
    BY DEF Kept, Editor
  <1>2. Pressed(e) = f
    BY DEF Pressed
  <1> HIDE DEF keys
  <1>3. /\ f \in Editor
        /\ f.pc = e.pc /\ f.text = e.text /\ f.line = e.line /\ f.col = e.col /\ f.replaced = e.replaced
        /\ f.ring = e.ring /\ f.head = e.head /\ f.count = e.count /\ f.past = e.past /\ f.undone = e.undone
        /\ f.modified = e.modified /\ f.full = e.full /\ f.file = e.file /\ f.web = e.web
        /\ f.top = e.top /\ f.left = e.left
    BY <1>1 DEF Editor
  <1> HIDE DEF f
  <1>4. AtPlace(f.text, f.line, f.col, f.replaced) /\ Filed(f)
    BY <1>3 DEF Kept, Filed
  <1>5. Kept(f)
    BY <1>3, <1>4, OthersKeep
  <1> QED BY <1>2, <1>3, <1>5 DEF InWindow

\* A key and what render_editor does after it.
LEMMA KeyKeeps ==
  ASSUME Kept(ed), Served(ed), EdKey
  PROVE  Kept(ed') /\ Served(ed') /\ (ed'.pc # "lost" => InWindow(ed'))
  <1>1. PICK e \in Typed(ed) : ed' = Pressed(IF e.pc = "lost" THEN e ELSE Render(e))
    BY DEF EdKey
  <1>2. Became(ed, e)
    BY <1>1, TypedKeeps DEF EdKey
  <1>3. CASE e.pc = "lost"
    BY <1>1, <1>2, <1>3, PressedKeeps DEF Became, Served
  <1>4. CASE e.pc # "lost"
    BY <1>1, <1>2, <1>4, RenderShows, PressedKeeps DEF Became, Served
  <1> QED BY <1>3, <1>4

\* A page that a save overlaps is not alone any more.
LEMMA DisturbedIs ==
  ASSUME NEW web \in EdWeb
  PROVE  /\ Disturbed(web) \in EdWeb
         /\ Disturbed(web).pc \in {"sized", "page"} => ~Disturbed(web).alone
  BY DEF EdWeb, Disturbed

\* What is saved, served or hung up leaves text, history and window alone.
SameText(e, f) ==
  /\ f.text = e.text /\ f.line = e.line /\ f.col = e.col /\ f.replaced = e.replaced
  /\ f.ring = e.ring /\ f.head = e.head /\ f.count = e.count /\ f.past = e.past /\ f.undone = e.undone
  /\ f.top = e.top /\ f.left = e.left

LEMMA LeftAlone ==
  ASSUME NEW e, Kept(e), e.pc # "lost" => InWindow(e),
         NEW f \in Editor, SameText(e, f), Filed(f), e.pc = "lost" => f.pc = "lost"
  PROVE  Kept(f) /\ (f.pc # "lost" => InWindow(f))
  <1>1. AtPlace(f.text, f.line, f.col, f.replaced)
    BY DEF Kept, SameText
  <1>2. Kept(f)
    BY <1>1, OthersKeep DEF SameText
  <1> QED BY <1>2 DEF SameText, InWindow

\* The editor that load_file leaves.
LEMMA EdStartsWell == ed \in EdStarts \cup {EdOff} => EdInv
  <1> SUFFICES ASSUME NEW file \in EdFiles, ed = EdLoad(file)
               PROVE  Kept(ed) /\ Served(ed) /\ InWindow(ed)
    BY DEF EdInv, EdStarts
  <1> DEFINE empty == <<>>
             n == Min({Len(file), EdMaxLines})
             text == IF file = <<>> THEN <<empty>> ELSE SubSeq(file, 1, n)
             ring == [h \in 0 .. EdMaxUndo - 1 |-> NoState]
  <1>1. /\ EdMaxLines \in Nat /\ EdMaxLen \in Nat /\ EdMaxUndo \in Nat /\ EdRows \in Nat /\ EdCols \in Nat
        /\ EdMaxLines >= 1 /\ EdMaxLen >= 1 /\ EdMaxUndo >= 1 /\ EdRows >= 1 /\ EdCols >= 1
    BY EdNats DEF EdNat
  <1>2. file \in Seq(EdLine) /\ Len(file) \in Nat
    <2>1. file \in Seq(Seq(EdLetter)) /\ \A l \in DOMAIN file : Len(file[l]) < EdMaxLen
      BY EdTextsFit
    <2>2. Len(file) \in Nat /\ DOMAIN file = 1 .. Len(file) /\ file \in [1 .. Len(file) -> Seq(EdLetter)]
      BY <2>1, LenProperties
    <2>3. \A l \in 1 .. Len(file) : file[l] \in EdLine
      BY <2>1, <2>2 DEF EdLine
    <2>4. SubSeq(file, 1, Len(file)) \in Seq(EdLine)
      BY <2>2, <2>3, SubSeqProperties
    <2>5. SubSeq(file, 1, Len(file)) = file
      BY <2>1, SubSeqFull
    <2> QED BY <2>2, <2>4, <2>5
  <1>3. empty \in EdLine /\ Len(empty) = 0
    BY <1>1, EmptySeq DEF EdLine
  <1>4. n = IF Len(file) <= EdMaxLines THEN Len(file) ELSE EdMaxLines
    BY <1>1, <1>2, OfTwo
  <1> HIDE DEF empty, n
  <1>5. /\ text \in Seq(EdLine)
        /\ Len(text) \in 1 .. EdMaxLines
        /\ Len(file) <= EdMaxLines => file = text \/ (file = <<>> /\ text = <<empty>>)
    <2>1. CASE file = <<>>
      <3>1. text = <<empty>>
        BY <2>1
      <3>2. <<empty>> \in Seq(EdLine) /\ Len(<<empty>>) = 1
        BY <1>3
      <3> QED BY <1>1, <2>1, <3>1, <3>2
    <2>2. CASE file # <<>>
      <3>1. Len(file) >= 1 /\ n \in 0 .. Len(file) /\ 1 \in 1 .. Len(file) + 1 /\ n \in 1 .. EdMaxLines
        BY <1>1, <1>2, <1>4, <2>2, EmptySeq
      <3>2. SubSeq(file, 1, n) \in Seq(EdLine) /\ Len(SubSeq(file, 1, n)) = IF 1 <= n THEN n - 1 + 1 ELSE 0
        BY <1>2, <3>1, PartOf
      <3>3. Len(SubSeq(file, 1, n)) = n
        BY <3>1, <3>2
      <3>4. n = Len(file) => SubSeq(file, 1, n) = file
        BY <1>2, SubSeqFull
      <3> QED BY <1>1, <1>4, <2>2, <3>1, <3>2, <3>3, <3>4
    <2> QED BY <2>1, <2>2
  <1>6. ring \in [0 .. EdMaxUndo - 1 -> EdState]
    <2>1. NoState \in EdState
      BY DEF NoState, EdState
    <2> QED BY <2>1
  <1>7. ed = [pc |-> "keys", text |-> text, line |-> 0, col |-> 0, top |-> 0, left |-> 0, modified |-> FALSE,
              ring |-> ring, head |-> 0, count |-> 0,
              file |-> file, after |-> "keys", web |-> [pc |-> "off"], keys |-> 0,
              past |-> <<>>, undone |-> TRUE, replaced |-> FALSE, full |-> FALSE]
    BY DEF EdLoad, n, empty
  <1> HIDE DEF text, ring
  <1>8. text \in EdText
    BY <1>5 DEF EdText
  <1>9. ed \in Editor
    <2>1. [pc |-> "off"] \in EdWeb
      BY DEF EdWeb
    <2>2. <<>> \in Seq(EdText) /\ 0 \in 0 .. EdMaxUndo - 1 /\ 0 \in 0 .. EdMaxUndo
      BY <1>1, EmptySeq
    <2> QED BY <1>2, <1>6, <1>7, <1>8, <2>1, <2>2 DEF Editor
  <1>10. AtPlace(ed.text, ed.line, ed.col, ed.replaced)
    <2>1. 0 + 1 \in 1 .. Len(text) /\ 0 \in 0 .. Len(text) - 1
      BY <1>1, <1>5
    <2>2. Len(text[0 + 1]) \in Nat
      BY <1>8, <2>1, TextIs
    <2> QED BY <1>7, <2>1, <2>2 DEF AtPlace
  <1>11. RingKept(ed) /\ Remembered(ed)
    <2>1. ed.count = 0 /\ ed.past = <<>> /\ Len(ed.past) = 0
      BY <1>7
    <2>2. \A i \in 1 .. 0 : FALSE
      OBVIOUS
    <2>3. RingKept(ed)
      BY <2>1, <2>2 DEF RingKept
    <2> DEFINE d == [i \in 0 .. 0 |-> 0]
    <2>4. d \in [0 .. 0 -> 0 .. 0] /\ d[0] = 0 /\ \A i, j \in 0 .. 0 : i <= j => d[j] <= d[i]
      OBVIOUS
    <2> HIDE DEF d
    <2>5. Remembered(ed)
      BY <2>1, <2>2, <2>4 DEF Remembered
    <2> QED BY <2>3, <2>5
  <1>12. Filed(ed)
    BY <1>5, <1>7 DEF Filed, empty
  <1>13. Served(ed) /\ InWindow(ed)
    <2>1. 0 \in 0 .. 0 + EdRows - 1 /\ 0 \in 0 .. 0 + EdCols - 1
      BY <1>1
    <2>2. ed.line = 0 /\ ed.col = 0 /\ ed.top = 0 /\ ed.left = 0 /\ ed.web.pc = "off"
      BY <1>7
    <2> QED BY <2>1, <2>2 DEF Served, InWindow
  <1>14. ed.undone
    BY <1>7
  <1> QED BY <1>9, <1>10, <1>11, <1>12, <1>13, <1>14 DEF Kept

\* Every step of the editor and of its server.
LEMMA EdStepKeeps ==
  ASSUME Kept(ed), Served(ed), ed.pc # "lost" => InWindow(ed), EdNext
  PROVE  Kept(ed') /\ Served(ed') /\ (ed'.pc # "lost" => InWindow(ed'))
  <1>1. /\ ed \in Editor /\ ed.text \in EdText /\ ed.text \in Seq(EdLine) /\ Len(ed.text) \in Nat /\ Len(ed.text) >= 1
        /\ ed.file \in Seq(EdLine) /\ ed.web \in EdWeb /\ ed.keys \in Nat
        /\ ed.pc \in {"keys", "writing", "serve", "leaving", "left", "lost"}
        /\ ed.after \in {"keys", "serve", "leaving"} /\ Len(ed.file) \in Nat
    BY LineIs, TextIs, LenProperties DEF Kept, Editor
  <1>2. Filed(ed)
    BY DEF Kept
  <1> DEFINE Well(f) == Kept(f) /\ Served(f) /\ (f.pc # "lost" => InWindow(f))
  <1>3. ASSUME ed' \in Editor, SameText(ed, ed'), Filed(ed'), Served(ed'), ed.pc = "lost" => ed'.pc = "lost"
        PROVE  Well(ed')
    BY <1>3, LeftAlone
  <1>4. CASE EdKey
    BY <1>4, KeyKeeps
  <1>5. ASSUME NEW after \in {"keys", "serve", "leaving"}, EdSave(after)
        PROVE  Well(ed')
    <2> DEFINE keys == ed.keys + 1
    <2>1. keys \in Nat /\ ed.pc = "keys"
      BY <1>1, <1>5 DEF EdSave
    <2>2. CASE ed' = [Pressed(ed) EXCEPT !.pc = "writing", !.after = after, !.file = <<>>, !.web = Disturbed(@)]
      <3> DEFINE web == Disturbed(ed.web)
      <3>1. /\ <<>> \in Seq(EdLine) /\ web \in EdWeb
            /\ web.pc \in {"sized", "page"} => ~web.alone
        BY <1>1, DisturbedIs, EmptySeq
      <3>2. Pressed(ed) = [ed EXCEPT !.keys = keys] /\ Pressed(ed).web = ed.web
        BY <1>1 DEF Pressed, Editor
      <3> HIDE DEF keys, web
      <3>3. ed' = [[ed EXCEPT !.keys = keys] EXCEPT !.pc = "writing", !.after = after, !.file = <<>>, !.web = web]
        BY <2>2, <3>2 DEF web
      <3>4. ed' \in Editor /\ SameText(ed, ed') /\ ed'.pc = "writing" /\ ed'.web = web
        BY <1>1, <2>1, <3>1, <3>3 DEF Editor, SameText
      <3>5. Filed(ed') /\ Served(ed')
        BY <3>1, <3>4 DEF Filed, Served
      <3> QED BY <1>3, <2>1, <3>4, <3>5
    <2>3. CASE ed' = [Pressed(ed) EXCEPT !.pc = after]
      <3>1. ed' = [[ed EXCEPT !.keys = keys] EXCEPT !.pc = after]
        BY <2>3 DEF Pressed
      <3> HIDE DEF keys
      <3>2. /\ ed' \in Editor /\ SameText(ed, ed') /\ ed'.pc = after /\ ed'.web = ed.web /\ ed'.file = ed.file
            /\ ed'.modified = ed.modified /\ ed'.full = ed.full
        BY <1>1, <2>1, <3>1 DEF Editor, SameText
      <3>3. Filed(ed') /\ Served(ed')
        BY <1>2, <2>1, <3>2 DEF Filed, Served, SameText
      <3> QED BY <1>3, <2>1, <3>2, <3>3
    <2> QED BY <1>5, <2>2, <2>3 DEF EdSave
  <1>6. CASE EdSaveKey
    BY <1>5, <1>6 DEF EdSaveKey
  <1>7. CASE EdWrite
    <2>1. PICK n \in {0, Len(ed.text)} :
            ed' = [ed EXCEPT !.pc = ed.after, !.after = "keys", !.file = SubSeq(ed.text, 1, n), !.modified = FALSE,
                             !.full = n < Len(ed.text), !.web = Disturbed(@)]
      BY <1>7 DEF EdWrite
    <2> DEFINE web == Disturbed(ed.web)
               file == SubSeq(ed.text, 1, n)
               full == n < Len(ed.text)
    <2>2. web \in EdWeb /\ (web.pc \in {"sized", "page"} => ~web.alone)
      BY <1>1, DisturbedIs
    <2>3. file \in Seq(EdLine)
      <3>1. n \in 0 .. Len(ed.text) /\ 1 \in 1 .. Len(ed.text) + 1
        BY <1>1
      <3> QED BY <1>1, <3>1, PartOf
    <2>4. full \in BOOLEAN /\ (~full => file = ed.text)
      <3>1. ~full => n = Len(ed.text)
        BY <1>1
      <3>2. SubSeq(ed.text, 1, Len(ed.text)) = ed.text
        BY <1>1, SubSeqFull
      <3> QED BY <3>1, <3>2
    <2>5. ed' = [ed EXCEPT !.pc = ed.after, !.after = "keys", !.file = file, !.modified = FALSE, !.full = full, !.web = web]
      BY <2>1
    <2> HIDE DEF web, file, full
    <2>6. /\ ed' \in Editor /\ SameText(ed, ed') /\ ed'.web = web /\ ed'.file = file /\ ed'.full = full
      BY <1>1, <2>2, <2>3, <2>4, <2>5 DEF Editor, SameText
    <2>7. Filed(ed') /\ Served(ed')
      BY <2>2, <2>4, <2>6 DEF Filed, Served, SameText
    <2> QED BY <1>3, <1>7, <2>6, <2>7 DEF EdWrite
  <1>8. CASE EdServe
    <2>1. PICK free \in BOOLEAN :
            ed' = [ed EXCEPT !.pc = "keys", !.web = IF @.pc = "off" /\ free THEN [pc |-> "accept"] ELSE @]
      BY <1>8 DEF EdServe
    <2> DEFINE web == IF ed.web.pc = "off" /\ free THEN [pc |-> "accept"] ELSE ed.web
    <2>2. web \in EdWeb /\ (web.pc \in {"sized", "page"} => web = ed.web)
      BY <1>1 DEF EdWeb
    <2>3. ed' = [ed EXCEPT !.pc = "keys", !.web = web]
      BY <2>1
    <2> HIDE DEF web
    <2>4. /\ ed' \in Editor /\ SameText(ed, ed') /\ ed'.web = web /\ ed'.file = ed.file
          /\ ed'.modified = ed.modified /\ ed'.full = ed.full
      BY <1>1, <2>2, <2>3 DEF Editor, SameText
    <2>5. Filed(ed') /\ Served(ed')
      BY <1>2, <1>8, <2>2, <2>4 DEF Filed, Served, SameText, EdServe
    <2> QED BY <1>3, <1>8, <2>4, <2>5 DEF EdServe
  <1>9. CASE EdHangup
    <2>1. /\ ed' \in Editor /\ SameText(ed, ed') /\ ed'.web = ed.web /\ ed'.file = ed.file
          /\ ed'.modified = ed.modified /\ ed'.full = ed.full
      BY <1>1, <1>9 DEF Editor, SameText, EdHangup
    <2>2. Filed(ed') /\ Served(ed')
      BY <1>2, <1>9, <2>1 DEF Filed, Served, SameText, EdHangup
    <2> QED BY <1>3, <1>9, <2>1, <2>2 DEF EdHangup
  <1>10. CASE EdStop
    <2> DEFINE web == [pc |-> "off"]
    <2>1. web \in EdWeb /\ web.pc = "off"
      BY DEF EdWeb
    <2>2. ed' = [ed EXCEPT !.pc = "left", !.web = web]
      BY <1>10 DEF EdStop
    <2> HIDE DEF web
    <2>3. /\ ed' \in Editor /\ SameText(ed, ed') /\ ed'.web = web /\ ed'.file = ed.file
          /\ ed'.modified = ed.modified /\ ed'.full = ed.full
      BY <1>1, <2>1, <2>2 DEF Editor, SameText
    <2>4. Filed(ed') /\ Served(ed')
      BY <1>2, <1>10, <2>1, <2>3 DEF Filed, Served, SameText, EdStop
    <2> QED BY <1>3, <1>10, <2>3, <2>4 DEF EdStop
  <1>11. CASE EdAccept
    <2> DEFINE web == [pc |-> "sized", length |-> Len(ed.file), alone |-> ed.pc # "writing"]
    <2>1. web \in EdWeb /\ web.pc = "sized" /\ web.length = Len(ed.file)
      BY <1>1 DEF EdWeb
    <2>2. ed' = [ed EXCEPT !.web = web]
      BY <1>11 DEF EdAccept
    <2> HIDE DEF web
    <2>3. /\ ed' \in Editor /\ SameText(ed, ed') /\ ed'.web = web /\ ed'.file = ed.file /\ ed'.pc = ed.pc
          /\ ed'.modified = ed.modified /\ ed'.full = ed.full
      BY <1>1, <2>1, <2>2 DEF Editor, SameText
    <2>4. Filed(ed') /\ Served(ed')
      BY <1>2, <2>1, <2>3 DEF Filed, Served, SameText
    <2> QED BY <1>3, <2>3, <2>4
  <1>12. CASE EdPage
    <2> DEFINE web == [pc |-> "page", length |-> ed.web.length, body |-> ed.file, alone |-> ed.web.alone]
    <2>1. /\ web \in EdWeb /\ web.pc = "page" /\ web.length = ed.web.length /\ web.body = ed.file
          /\ web.alone = ed.web.alone /\ ed.web.pc = "sized"
      BY <1>1, <1>12 DEF EdWeb, EdPage
    <2>2. ed' = [ed EXCEPT !.web = web]
      BY <1>12 DEF EdPage
    <2> HIDE DEF web
    <2>3. /\ ed' \in Editor /\ SameText(ed, ed') /\ ed'.web = web /\ ed'.file = ed.file /\ ed'.pc = ed.pc
          /\ ed'.modified = ed.modified /\ ed'.full = ed.full
      BY <1>1, <2>1, <2>2 DEF Editor, SameText
    <2>4. Filed(ed') /\ Served(ed')
      BY <1>2, <2>1, <2>3 DEF Filed, Served, SameText
    <2> QED BY <1>3, <2>3, <2>4
  <1> QED BY <1>4, <1>6, <1>7, <1>8, <1>9, <1>10, <1>11, <1>12 DEF EdNext

\* The invariant that the theorem below rests on: beside what the run checks,
\* every state in the ring has its cursor in its text, going back through the
\* ring is going back through what the user saw, and a page that no save has
\* overlapped since its length was sent is as long as the file still is.
THEOREM EditorHolds == EdSpec => []EdInv
  <1>1. ed \in EdStarts \cup {EdOff} => EdInv
    BY EdStartsWell
  <1>2. EdInv /\ [EdNext]_ed => EdInv'
    <2>1. ASSUME EdInv, EdNext PROVE EdInv'
      <3>1. ed # EdOff
        BY <2>1 DEF EdNext, EdOff
      <3> QED BY <2>1, <3>1, EdStepKeeps DEF EdInv
    <2>2. ASSUME EdInv, UNCHANGED ed PROVE EdInv'
      BY <2>2 DEF EdInv
    <2> QED BY <2>1, <2>2
  <1> QED BY <1>1, <1>2, PTL DEF EdSpec

\* tedit keeps the user's text, for every size of its arrays, ring and window,
\* and for all texts and terms: an undo gives back the text before the latest
\* change (save_undo_state, perform_undo), the cursor stays in the text and the
\* window (render_editor), lines and text fit in their arrays, and an unmarked
\* text is the one in the file, which the server announces by its length
\* (save_file, web_server_worker).
THEOREM EditorWorks == EdSpec => []EditorKeeps
  <1>1. EdInv => EditorKeeps
    <2>1. CASE ed = EdOff
      <3>1. ed.pc = "off"
        BY <2>1 DEF EdOff
      <3> QED BY <3>1 DEF EditorKeeps, UndoRestores, CursorInText, TextFits, SavedIsText
    <2>2. ASSUME EdInv, ed # EdOff PROVE EditorKeeps
      <3>1. /\ Kept(ed) /\ Served(ed) /\ (ed.pc # "lost" => InWindow(ed))
            /\ ed.undone /\ ed.text \in EdText /\ Filed(ed)
        BY <2>2 DEF EdInv, Kept, Editor
      <3>2. UndoRestores
        BY <3>1 DEF UndoRestores
      <3>3. CursorInText
        BY <3>1, LineIs DEF CursorInText, Kept, AtPlace, InWindow
      <3>4. TextFits
        <4>1. DOMAIN ed.text = 1 .. Len(ed.text)
          BY <3>1, TextIs, LenProperties
        <4> QED BY <3>1, <4>1, TextIs DEF TextFits
      <3>5. SavedIsText
        BY <3>1 DEF SavedIsText, Filed, Served
      <3> QED BY <3>2, <3>3, <3>4, <3>5 DEF EditorKeeps
    <2> QED BY <2>1, <2>2
  <1> QED BY <1>1, EditorHolds, PTL

-----------------------------------------------------------------------------
(* test_os: the terminal and the shell.                                     *)

ShWord == ShName \cup {"\n", "rubout", "picture", "#", "$", "title", "text", "tasks"}
Cell == Seq(ShWord)
Canvas == [1 .. TermRows -> [1 .. TermCols -> Cell]]
Mode == {"gui", "cli", "edit", "calc", "snake", "bmp", "top"}
Shell ==
  [mode : Mode, canvas : Canvas, screen : Canvas, col : 0 .. TermCols - 1, row : 0 .. TermRows - 1,
   batch : BOOLEAN, typed : Seq(ShWord), dir : Seq(ShWord), user : ShWord, isRoot : BOOLEAN,
   type : [ShPath -> {"none", "dir", "file"}], text : [ShPath -> Seq(Cell)], path : Seq(ShWord),
   buf : Seq(Cell), keys : Nat, room : SUBSET {"write", "mkdir"},
   wrapped : BOOLEAN, added : SUBSET Cell]

\* The screen shows the canvas.
Shown(s) == s.mode = "cli" /\ ~s.batch => s.screen = s.canvas
\* The line typed stands before the cursor.
Echoed(s) ==
  s.mode = "cli" /\ ~s.wrapped =>
    /\ Len(s.typed) <= s.col
    /\ \A i \in 1 .. Len(s.typed) : s.canvas[s.row + 1][s.col - Len(s.typed) + i] = <<s.typed[i]>>
LineIdle(s) == s.mode # "cli" => s.typed = <<>>
\* Whom adduser gave a line of the file has one, while there is a file.
AllEntered(text, entries) == \A entry \in entries : Entered(text, entry)
Users(s) ==
  IF s.text[Passwd] = NoData THEN s.added = {}
  ELSE /\ Blank \notin ToSet(s.text[Passwd])
       /\ Len(s.text[Passwd]) < PasswdMax => AllEntered(s.text[Passwd], s.added)

ShInv == sh = ShOff \/ (sh \in Shell /\ Shown(sh) /\ Echoed(sh) /\ LineIdle(sh) /\ Users(sh))

\* What the terminal leaves alone.
SameShell(s, t) ==
  /\ t.mode = s.mode /\ t.batch = s.batch /\ t.typed = s.typed /\ t.dir = s.dir /\ t.user = s.user
  /\ t.isRoot = s.isRoot /\ t.type = s.type /\ t.text = s.text /\ t.path = s.path /\ t.buf = s.buf
  /\ t.keys = s.keys /\ t.added = s.added

\* One state of the terminal after another: the rest of the shell is the same,
\* and a screen that showed the canvas shows it.
Printed(s, t) ==
  /\ t \in Shell /\ SameShell(s, t)
  /\ ~s.batch /\ s.screen = s.canvas => t.screen = t.canvas

\* A terminal has a place for the cursor, and what is printed fits a cell.
LEMMA TermIs ==
  /\ TermRows \in Nat /\ TermRows >= 1 /\ TermCols \in Nat /\ TermCols >= 1
  /\ BlankScreen \in Canvas /\ Picture \in Canvas /\ Blank \in Cell /\ NL \in Cell /\ Rub \in Cell
  /\ \A w \in ShWord : <<w>> \in Cell
  <1>1. /\ TermRows \in Nat /\ TermRows >= 1 /\ TermCols \in Nat /\ TermCols >= 1
    BY ShSizes
  <1>2. \A w \in ShWord : <<w>> \in Cell
    BY DEF Cell
  <1>3. Blank \in Cell
    BY EmptySeq DEF Blank, Cell
  <1>4. NL \in Cell
    BY <1>2 DEF NL, ShWord
  <1>5. Rub \in Cell
    BY <1>2 DEF Rub, ShWord
  <1>6. <<"picture">> \in Cell
    BY <1>2 DEF ShWord
  <1> HIDE DEF Cell
  <1> QED BY <1>1, <1>2, <1>3, <1>4, <1>5, <1>6 DEF BlankScreen, Picture, Canvas

\* One cell of a canvas.
LEMMA DrawnIs ==
  ASSUME NEW v \in Canvas, NEW r \in 0 .. TermRows - 1, NEW c \in 0 .. TermCols - 1, NEW ch \in Cell
  PROVE  LET w == [v EXCEPT ![r + 1][c + 1] = ch]
         IN  /\ w \in Canvas /\ w[r + 1][c + 1] = ch
             /\ \A i \in 1 .. TermCols : i # c + 1 => w[r + 1][i] = v[r + 1][i]
  <1>1. r + 1 \in 1 .. TermRows /\ c + 1 \in 1 .. TermCols
    BY TermIs
  <1> HIDE DEF Cell
  <1> QED BY <1>1 DEF Canvas

\* After s, ch stands in a cell and the cursor in column k of the same row.
Drawn(s, t, r, c, ch, k) ==
  /\ Printed(s, t) /\ t.col = k /\ t.row = s.row /\ t.wrapped = s.wrapped
  /\ t.canvas[r + 1][c + 1] = ch
  /\ \A i \in 1 .. TermCols : i # c + 1 => t.canvas[r + 1][i] = s.canvas[r + 1][i]

\* draw_char_to_canvas and blit_char_to_vram.
LEMMA BlitIs ==
  ASSUME NEW s \in Shell, NEW r \in 0 .. TermRows - 1, NEW c \in 0 .. TermCols - 1, NEW ch \in Cell,
         NEW k \in 0 .. TermCols - 1, NEW s1,
         s1 = [s EXCEPT !.col = k, !.canvas = [s.canvas EXCEPT ![r + 1][c + 1] = ch]]
  PROVE  Drawn(s, BlitChar(s1, r, c), r, c, ch, k)
  <1> DEFINE w == [s.canvas EXCEPT ![r + 1][c + 1] = ch]
             x == [s.screen EXCEPT ![r + 1][c + 1] = ch]
             t == BlitChar(s1, r, c)
  <1>1. s.canvas \in Canvas /\ s.screen \in Canvas /\ s.batch \in BOOLEAN
    BY DEF Shell
  <1>2. /\ w \in Canvas /\ w[r + 1][c + 1] = ch
        /\ \A i \in 1 .. TermCols : i # c + 1 => w[r + 1][i] = s.canvas[r + 1][i]
    BY <1>1, DrawnIs
  <1>3. x \in Canvas /\ (s.screen = s.canvas => x = w)
    BY <1>1, DrawnIs
  <1> HIDE DEF w
  <1>4. s1 \in Shell /\ s1.canvas = w /\ s1.screen = s.screen /\ s1.col = k /\ s1.row = s.row /\ s1.wrapped = s.wrapped
        /\ SameShell(s, s1)
    BY <1>1, <1>2 DEF Shell, SameShell, w
  <1>5. t = IF s.batch THEN s1 ELSE [s1 EXCEPT !.screen = x]
    <2>1. s1.batch = s.batch
      BY <1>4 DEF SameShell
    <2>2. [s1 EXCEPT !.screen[r + 1][c + 1] = s1.canvas[r + 1][c + 1]] = [s1 EXCEPT !.screen = x]
      BY <1>2, <1>4 DEF Shell
    <2> QED BY <2>1, <2>2 DEF BlitChar
  <1> HIDE DEF x
  <1>6. CASE s.batch
    <2>1. t = s1
      BY <1>5, <1>6
    <2> HIDE DEF t
    <2>2. Printed(s, t)
      BY <1>4, <1>6, <2>1 DEF Printed
    <2>3. t.canvas = w /\ t.col = k /\ t.row = s.row /\ t.wrapped = s.wrapped
      BY <1>4, <2>1
    <2> QED BY <1>2, <2>2, <2>3 DEF t, Drawn
  <1>7. CASE ~s.batch
    <2>1. t = [s1 EXCEPT !.screen = x]
      BY <1>5, <1>7
    <2> HIDE DEF t
    <2>2. /\ t \in Shell /\ t.canvas = w /\ t.screen = x /\ t.col = k /\ t.row = s.row /\ t.wrapped = s.wrapped
          /\ SameShell(s, t)
      <3>1. /\ t \in Shell /\ t.canvas = s1.canvas /\ t.screen = x /\ t.col = s1.col /\ t.row = s1.row
            /\ t.wrapped = s1.wrapped
        BY <1>3, <1>4, <2>1 DEF Shell
      <3>2. SameShell(s1, t)
        BY <1>4, <2>1 DEF Shell, SameShell
      <3>3. SameShell(s, t)
        BY <1>4, <3>2 DEF SameShell
      <3> QED BY <1>4, <3>1, <3>3
    <2>3. Printed(s, t)
      BY <1>3, <1>7, <2>2 DEF Printed
    <2> QED BY <1>2, <2>2, <2>3 DEF Drawn, t
  <1> QED BY <1>1, <1>6, <1>7

\* terminal_scroll_ram and the end of a row.
LEMMA NewRowIs ==
  ASSUME NEW s \in Shell
  PROVE  Printed(s, NewRow(s)) /\ NewRow(s).wrapped
  <1> DEFINE down == [s EXCEPT !.col = 0, !.row = s.row + 1, !.wrapped = TRUE]
             v == Append(Tail(s.canvas), BlankScreen[1])
             up == [down EXCEPT !.canvas = v, !.row = TermRows - 1]
  <1>1. s.canvas \in Canvas /\ s.row \in 0 .. TermRows - 1 /\ s.batch \in BOOLEAN
    BY DEF Shell
  <1> HIDE DEF Cell
  <1>2. v \in Canvas
    <2> DEFINE Row == [1 .. TermCols -> Cell]
    <2>5. s.canvas \in [1 .. TermRows -> Row] /\ BlankScreen \in [1 .. TermRows -> Row]
      BY <1>1, TermIs DEF Canvas
    <2> HIDE DEF Row
    <2>1. s.canvas \in Seq(Row) /\ Len(s.canvas) = TermRows /\ BlankScreen[1] \in Row
      BY <2>5, TermIs
    <2>2. s.canvas # <<>>
      BY <2>1, TermIs, EmptySeq
    <2>3. Tail(s.canvas) \in Seq(Row) /\ Len(Tail(s.canvas)) = TermRows - 1
      BY <2>1, <2>2, TermIs, HeadTailProperties
    <2>4. v \in Seq(Row) /\ Len(v) = TermRows
      BY <2>1, <2>3, TermIs, AppendProperties
    <2> QED BY <2>4, LenProperties, ElementOfSeq DEF Canvas, Row
  <1>3. /\ down.col = 0 /\ down.row = s.row + 1 /\ down.wrapped = TRUE /\ down.canvas = s.canvas /\ down.screen = s.screen
        /\ SameShell(s, down)
    BY DEF Shell, SameShell
  <1>4. CASE down.row < TermRows
    <2>1. NewRow(s) = down
      BY <1>1, <1>3, <1>4, TermIs DEF NewRow
    <2>2. s.row + 1 \in 0 .. TermRows - 1 /\ 0 \in 0 .. TermCols - 1
      BY <1>1, <1>3, <1>4, TermIs
    <2>3. down \in Shell
      BY <2>2 DEF Shell
    <2> HIDE DEF down
    <2> QED BY <1>3, <2>1, <2>3 DEF Printed
  <1> HIDE DEF v
  <1>5. CASE ~(down.row < TermRows)
    <2>1. NewRow(s) = Scroll(down)
      BY <1>1, <1>3, <1>5, TermIs DEF NewRow
    <2> DEFINE R == TermRows - 1
    <2>7. R \in 0 .. R /\ 0 \in 0 .. TermCols - 1
      BY TermIs
    <2> HIDE DEF R
    <2>8. up = [s EXCEPT !.col = 0, !.row = R, !.wrapped = TRUE, !.canvas = v]
      BY DEF Shell, R
    <2>9. [s EXCEPT !.col = 0, !.row = R, !.wrapped = TRUE, !.canvas = v] \in Shell
      BY <1>2, <2>7 DEF Shell, R
    <2>2. up \in Shell /\ up.wrapped /\ up.canvas = v /\ up.screen = s.screen /\ SameShell(s, up)
      BY <2>8, <2>9 DEF Shell, SameShell
    <2>3. ScrollUnflushed(down) = up
      BY <1>3 DEF ScrollUnflushed, v
    <2> HIDE DEF up
    <2>4. Scroll(down) = IF s.batch THEN up ELSE Flush(up)
      BY <1>3, <2>3 DEF Scroll, SameShell
    <2> HIDE DEF down
    <2>5. CASE s.batch
      BY <2>1, <2>2, <2>4, <2>5 DEF Printed
    <2>6. CASE ~s.batch
      <3>1. Flush(up) \in Shell /\ Flush(up).wrapped /\ Flush(up).screen = Flush(up).canvas /\ SameShell(s, Flush(up))
        BY <2>2 DEF Flush, Shell, SameShell
      <3> QED BY <2>1, <2>4, <2>6, <3>1 DEF Printed
    <2> QED BY <2>5, <2>6
  <1> QED BY <1>1, <1>3, <1>4, <1>5, TermIs

\* Printing twice is printing.
LEMMA PrintedAfter ==
  ASSUME NEW s, NEW t, NEW u, Printed(s, t), Printed(t, u)
  PROVE  Printed(s, u)
  BY DEF Printed, SameShell

\* A character of the line: it stands where the cursor was, or the line has
\* left its row.
LEMMA PutcharIs ==
  ASSUME NEW s \in Shell, NEW ch \in Cell, ch # NL, ch # Rub
  PROVE  LET t == Putchar(s, ch)
         IN  /\ Printed(s, t)
             /\ \/ t.wrapped
                \/ /\ t.col = s.col + 1 /\ t.row = s.row /\ t.wrapped = s.wrapped
                   /\ t.canvas[s.row + 1][s.col + 1] = ch
                   /\ \A i \in 1 .. s.col : t.canvas[s.row + 1][i] = s.canvas[s.row + 1][i]
  <1> DEFINE s1 == [s EXCEPT !.canvas[s.row + 1][s.col + 1] = ch]
             d == BlitChar(s1, s.row, s.col)
             t == Putchar(s, ch)
  <1>1. s.row \in 0 .. TermRows - 1 /\ s.col \in 0 .. TermCols - 1
    BY DEF Shell
  <1>2. s1 = [s EXCEPT !.col = s.col, !.canvas = [s.canvas EXCEPT ![s.row + 1][s.col + 1] = ch]]
    BY DEF Shell
  <1> HIDE DEF s1
  <1>3. /\ Printed(s, d) /\ d.col = s.col /\ d.row = s.row /\ d.wrapped = s.wrapped
        /\ d.canvas[s.row + 1][s.col + 1] = ch
        /\ \A i \in 1 .. TermCols : i # s.col + 1 => d.canvas[s.row + 1][i] = s.canvas[s.row + 1][i]
    <2>1. s.col \in 0 .. TermCols - 1
      BY <1>1
    <2>2. Drawn(s, d, s.row, s.col, ch, s.col)
      BY <1>1, <1>2, <2>1, BlitIs DEF d
    <2> QED BY <2>2 DEF Drawn
  <1>4. t = IF s.col + 1 >= TermCols THEN NewRow(d) ELSE [d EXCEPT !.col = s.col + 1]
    BY DEF Putchar, s1
  <1> HIDE DEF d
  <1>5. d \in Shell
    BY <1>3 DEF Printed
  <1>6. CASE s.col + 1 >= TermCols
    <2>1. t = NewRow(d)
      BY <1>4, <1>6
    <2>2. Printed(d, NewRow(d)) /\ NewRow(d).wrapped
      BY <1>5, NewRowIs
    <2> HIDE DEF t
    <2> QED BY <1>3, <2>1, <2>2, PrintedAfter DEF t
  <1>7. CASE ~(s.col + 1 >= TermCols)
    <2>1. t = [d EXCEPT !.col = s.col + 1]
      BY <1>4, <1>7
    <2>2. s.col + 1 \in 0 .. TermCols - 1
      BY <1>1, <1>7, TermIs
    <2> HIDE DEF t
    <2>3. /\ t \in Shell /\ SameShell(d, t) /\ t.canvas = d.canvas /\ t.screen = d.screen /\ t.col = s.col + 1
          /\ t.row = d.row /\ t.wrapped = d.wrapped
      BY <1>5, <2>1, <2>2 DEF Shell, SameShell
    <2>4. Printed(d, t)
      BY <2>3 DEF Printed
    <2>5. \A i \in 1 .. s.col : i \in 1 .. TermCols /\ i # s.col + 1
      BY <1>1, TermIs
    <2>6. Printed(s, t)
      BY <1>3, <2>4, PrintedAfter
    <2> QED BY <1>3, <2>3, <2>5, <2>6 DEF t
  <1> QED BY <1>6, <1>7

\* A rubout takes the character before the cursor; in the first column none.
LEMMA RuboutIs ==
  ASSUME NEW s \in Shell
  PROVE  LET t == Putchar(s, Rub)
         IN  /\ Printed(s, t) /\ t.row = s.row /\ t.wrapped = s.wrapped
             /\ s.col # 0 => t.col = s.col - 1 /\ \A i \in 1 .. s.col - 1 : t.canvas[s.row + 1][i] = s.canvas[s.row + 1][i]
  <1> DEFINE t == Putchar(s, Rub)
  <1>1. s.row \in 0 .. TermRows - 1 /\ s.col \in 0 .. TermCols - 1
    BY DEF Shell
  <1>2. Rub # NL
    BY DEF Rub, NL
  <1>3. CASE s.col = 0
    <2>1. t = s
      BY <1>2, <1>3 DEF Putchar
    <2>2. Printed(s, t)
      BY <2>1 DEF Printed, SameShell
    <2> HIDE DEF t
    <2> QED BY <1>3, <2>1, <2>2 DEF t
  <1>4. CASE s.col # 0
    <2> DEFINE c == s.col - 1
               s1 == [s EXCEPT !.col = c, !.canvas[s.row + 1][c + 1] = Blank]
    <2>1. c \in 0 .. TermCols - 1
      BY <1>1, <1>4, TermIs
    <2>2. t = BlitChar(s1, s.row, c)
      BY <1>2, <1>4 DEF Putchar
    <2>3. s1 = [s EXCEPT !.col = c, !.canvas = [s.canvas EXCEPT ![s.row + 1][c + 1] = Blank]]
      BY DEF Shell
    <2> HIDE DEF s1, c
    <2>4. Drawn(s, BlitChar(s1, s.row, c), s.row, c, Blank, c)
      BY <1>1, <2>1, <2>3, TermIs, BlitIs
    <2> HIDE DEF t
    <2>5. \A i \in 1 .. s.col - 1 : i \in 1 .. TermCols /\ i # c + 1
      BY <1>1, TermIs DEF c
    <2> QED BY <2>2, <2>4, <2>5 DEF Drawn, t, c
  <1> QED BY <1>3, <1>4

\* os_putchar, whatever it is given.
LEMMA PutcharPrints ==
  ASSUME NEW s \in Shell, NEW ch \in Cell
  PROVE  Printed(s, Putchar(s, ch))
  <1>1. CASE ch = NL
    BY <1>1, NewRowIs DEF Putchar
  <1>2. CASE ch = Rub
    BY <1>2, RuboutIs
  <1>3. CASE ch # NL /\ ch # Rub
    BY <1>3, PutcharIs
  <1> QED BY <1>1, <1>2, <1>3

\* A text is printed character by character: the function that Kprintf
\* defines exists, by the least prefix for which it would not.
LEMMA KprintfPrints ==
  ASSUME NEW s \in Shell, NEW text \in Seq(Cell)
  PROVE  Printed(s, Kprintf(s, text))
  <1> DEFINE N == Len(text)
             body(f, n) == IF n = 0 THEN s ELSE Putchar(f[n - 1], text[n])
             Steps(k, f) == f \in [0 .. N -> Shell] /\ \A n \in 0 .. k : f[n] = body(f, n) /\ Printed(s, f[n])
             Unreached == {k \in 0 .. N : ~\E f : Steps(k, f)}
             Whole(f) == f = [n \in 0 .. N |-> body(f, n)]
             after == CHOOSE f : Whole(f)
  <1>1. N \in Nat /\ \A n \in 1 .. N : text[n] \in Cell
    BY LenProperties, ElementOfSeq
  <1>2. Printed(s, s)
    BY DEF Printed, SameShell
  <1>3. \A f, n : n \in 1 .. N /\ f[n - 1] \in Shell /\ Printed(s, f[n - 1]) => body(f, n) \in Shell /\ Printed(s, body(f, n))
    <2> SUFFICES ASSUME NEW f, NEW n \in 1 .. N, f[n - 1] \in Shell, Printed(s, f[n - 1])
                 PROVE  body(f, n) \in Shell /\ Printed(s, body(f, n))
      BY Zenon
    <2>1. body(f, n) = Putchar(f[n - 1], text[n])
      BY <1>1
    <2>2. Printed(f[n - 1], Putchar(f[n - 1], text[n]))
      BY <1>1, PutcharPrints
    <2>3. Printed(s, Putchar(f[n - 1], text[n]))
      BY <2>2, PrintedAfter
    <2> QED BY <2>1, <2>3 DEF Printed
  <1>4. \A f, g, n : n \in 0 .. N /\ (n # 0 => f[n - 1] = g[n - 1]) => body(f, n) = body(g, n)
    OBVIOUS
  <1>5. \A f : body(f, 0) = s
    OBVIOUS
  <1> HIDE DEF N, body
  <1>6. Unreached = {}
    <2> SUFFICES ASSUME Unreached # {} PROVE FALSE
      OBVIOUS
    <2>1. Unreached \in SUBSET Nat
      BY <1>1
    <2>2. PICK k \in Unreached : \A m \in Unreached : k <= m
      <3> HIDE DEF Unreached
      <3> QED BY <2>1, LeastIs
    <2>3. k \in 0 .. N
      BY <2>2
    <2>4. k # 0
      <3> DEFINE f == [n \in 0 .. N |-> s]
      <3>1. f \in [0 .. N -> Shell] /\ f[0] = s
        BY <1>1
      <3> HIDE DEF f
      <3>2. \A n \in 0 .. 0 : n = 0
        OBVIOUS
      <3>3. \A n \in 0 .. 0 : f[n] = body(f, n) /\ Printed(s, f[n])
        BY <1>2, <1>5, <3>1, <3>2
      <3>4. Steps(0, f)
        BY <3>1, <3>3
      <3> QED BY <2>2, <3>4
    <2>5. PICK g : Steps(k - 1, g)
      <3>1. k - 1 \in 0 .. N /\ ~(k <= k - 1)
        BY <1>1, <2>3, <2>4
      <3>2. k - 1 \notin Unreached
        BY <2>2, <3>1
      <3> QED BY <3>1, <3>2
    <2>6. /\ k - 1 \in 0 .. k - 1 /\ k \in 1 .. N /\ k - 1 \in 0 .. N
      BY <1>1, <2>3, <2>4
    <2>7. g[k - 1] \in Shell /\ Printed(s, g[k - 1])
      BY <2>5, <2>6
    <2>8. body(g, k) \in Shell /\ Printed(s, body(g, k))
      BY <1>3, <2>6, <2>7
    <2> DEFINE h == [g EXCEPT ![k] = body(g, k)]
    <2>9. h \in [0 .. N -> Shell] /\ h[k] = body(g, k) /\ \A n \in 0 .. N : n # k => h[n] = g[n]
      BY <2>3, <2>5, <2>8
    <2> HIDE DEF h
    <2>10. ASSUME NEW n \in 0 .. k PROVE h[n] = body(h, n) /\ Printed(s, h[n])
      <3>1. n \in 0 .. N /\ (n # 0 => n - 1 \in 0 .. N /\ n - 1 # k)
        BY <1>1, <2>3
      <3>2. body(h, n) = body(g, n)
        BY <1>4, <2>9, <3>1
      <3>3. CASE n = k
        BY <2>8, <2>9, <3>2, <3>3
      <3>4. CASE n # k
        <4>1. n \in 0 .. k - 1
          BY <1>1, <2>3, <3>4
        <4>2. g[n] = body(g, n) /\ Printed(s, g[n])
          BY <2>5, <4>1
        <4> QED BY <2>9, <3>1, <3>2, <3>4, <4>2
      <3> QED BY <3>3, <3>4
    <2>11. Steps(k, h)
      BY <2>9, <2>10
    <2> QED BY <2>2, <2>11
  <1>7. PICK f : Steps(N, f)
    <2>1. N \in 0 .. N
      BY <1>1
    <2>2. N \notin Unreached
      BY <1>6
    <2> QED BY <2>1, <2>2
  <1>8. Whole(f)
    <2>1. f \in [0 .. N -> Shell] /\ \A n \in 0 .. N : f[n] = body(f, n)
      BY <1>7
    <2>2. f = [n \in 0 .. N |-> f[n]]
      BY <2>1
    <2> QED BY <2>1, <2>2
  <1>9. Whole(after)
    BY <1>8
  <1> HIDE DEF after
  <1>10. \A n \in 0 .. N : after[n] = body(after, n)
    <2>1. \A n \in 0 .. N : [m \in 0 .. N |-> body(after, m)][n] = body(after, n)
      OBVIOUS
    <2> QED BY <1>9, <2>1, Zenon
  <1>11. ASSUME NEW n \in 0 .. N PROVE after[n] = f[n]
    <2> DEFINE Differ == {k \in 0 .. N : after[k] # f[k]}
    <2> SUFFICES ASSUME Differ # {} PROVE FALSE
      OBVIOUS
    <2>1. Differ \in SUBSET Nat
      BY <1>1
    <2>2. PICK k \in Differ : \A m \in Differ : k <= m
      <3> HIDE DEF Differ
      <3> QED BY <2>1, LeastIs
    <2>3. k \in 0 .. N /\ after[k] # f[k]
      BY <2>2
    <2>4. k # 0 => after[k - 1] = f[k - 1]
      <3> SUFFICES ASSUME k # 0 PROVE after[k - 1] = f[k - 1]
        OBVIOUS
      <3>1. k - 1 \in 0 .. N /\ ~(k <= k - 1)
        BY <1>1, <2>3
      <3> QED BY <2>2, <3>1
    <2>5. body(after, k) = body(f, k)
      BY <1>4, <2>3, <2>4
    <2> QED BY <1>7, <1>10, <2>3, <2>5
  <1>12. Printed(s, after[N])
    BY <1>1, <1>7, <1>11
  <1>13. Kprintf(s, text) = after[N]
    BY Zenon DEF Kprintf, after, N, body
  <1> QED BY <1>12, <1>13

\* The prompt begins a line: nothing of it was typed yet.
LEMMA PromptIs ==
  ASSUME NEW s \in Shell
  PROVE  Printed(s, PrintPrompt(s)) /\ ~PrintPrompt(s).wrapped
  <1> DEFINE text == <<IF s.isRoot THEN <<"#">> ELSE <<"$">> >>
             t == Kprintf(s, text)
  <1>1. <<"#">> \in Cell /\ <<"$">> \in Cell
    BY TermIs DEF ShWord
  <1>2. text \in Seq(Cell)
    <2> HIDE DEF Cell
    <2> QED BY <1>1
  <1>3. Printed(s, t)
    <2> HIDE DEF text
    <2> QED BY <1>2, KprintfPrints
  <1>4. PrintPrompt(s) = [t EXCEPT !.wrapped = FALSE]
    BY DEF PrintPrompt
  <1> HIDE DEF t
  <1>5. /\ [t EXCEPT !.wrapped = FALSE] \in Shell /\ SameShell(t, [t EXCEPT !.wrapped = FALSE])
        /\ [t EXCEPT !.wrapped = FALSE].screen = t.screen /\ [t EXCEPT !.wrapped = FALSE].canvas = t.canvas
        /\ ~[t EXCEPT !.wrapped = FALSE].wrapped
    BY <1>3 DEF Printed, Shell, SameShell
  <1>6. Printed(t, [t EXCEPT !.wrapped = FALSE])
    BY <1>5 DEF Printed
  <1> QED BY <1>3, <1>4, <1>5, <1>6, PrintedAfter

\* What the rest of the shell keeps when only the mode and the screen change.
SameFiles(s, t) == t.text = s.text /\ t.added = s.added /\ t.typed = s.typed

\* The terminal anew.
LEMMA FreshIs ==
  ASSUME NEW s \in Shell
  PROVE  LET t == FreshTerminal(s)
         IN  t \in Shell /\ t.mode = "cli" /\ t.screen = t.canvas /\ SameFiles(s, t)
  <1> DEFINE s1 == [s EXCEPT !.mode = "cli", !.col = 0, !.row = 0, !.canvas = BlankScreen, !.screen = BlankScreen]
             text == <<NL, <<"title">>, NL>>
             s2 == Kprintf(s1, text)
             s3 == PrintPrompt(s2)
  <1>1. s1 \in Shell /\ s1.mode = "cli" /\ SameFiles(s, s1)
    <2>1. 0 \in 0 .. TermCols - 1 /\ 0 \in 0 .. TermRows - 1 /\ "cli" \in Mode
      BY TermIs DEF Mode
    <2> QED BY <2>1, TermIs DEF Shell, SameFiles
  <1>2. text \in Seq(Cell)
    <2>1. NL \in Cell /\ <<"title">> \in Cell
      BY TermIs DEF ShWord
    <2> HIDE DEF Cell
    <2> QED BY <2>1
  <1> HIDE DEF s1, text
  <1>3. Printed(s1, s2)
    BY <1>1, <1>2, KprintfPrints
  <1> HIDE DEF s2
  <1>4. Printed(s2, s3)
    BY <1>3, PromptIs DEF Printed
  <1>5. FreshTerminal(s) = Flush(s3)
    BY DEF FreshTerminal, s3, s2, s1, text
  <1> HIDE DEF s3
  <1>6. s3 \in Shell /\ s3.mode = "cli" /\ SameFiles(s, s3)
    BY <1>1, <1>3, <1>4 DEF Printed, SameShell, SameFiles
  <1>7. Flush(s3) \in Shell /\ Flush(s3).mode = s3.mode /\ Flush(s3).screen = Flush(s3).canvas /\ SameFiles(s3, Flush(s3))
    BY <1>6 DEF Flush, Shell, SameFiles
  <1> HIDE DEF Shell
  <1> QED BY <1>5, <1>6, <1>7 DEF SameFiles

-----------------------------------------------------------------------------
(* Commands.                                                                *)

\* The words of a line become cells, none of them blank.
LEMMA WordsAre ==
  ASSUME NEW args \in Seq(ShWord)
  PROVE  Words(args) \in Seq(Cell) /\ Blank \notin ToSet(Words(args))
  <1>1. Len(args) \in Nat /\ \A i \in 1 .. Len(args) : args[i] \in ShWord
    BY LenProperties, ElementOfSeq
  <1>2. \A i \in 1 .. Len(args) : <<args[i]>> \in Cell /\ <<args[i]>> # Blank
    BY <1>1, TermIs DEF Blank
  <1> HIDE DEF Cell
  <1>3. Words(args) \in Seq(Cell)
    BY <1>1, <1>2 DEF Words
  <1>4. DOMAIN Words(args) = 1 .. Len(args) /\ \A i \in 1 .. Len(args) : Words(args)[i] = <<args[i]>>
    BY DEF Words
  <1> QED BY <1>2, <1>3, <1>4 DEF ToSet

\* Names are words; the file of users is in the tree, outside /home.
LEMMA NamesAre ==
  /\ ShName \subseteq ShWord /\ "home" \in ShWord /\ "root" \in ShWord
  /\ Passwd \in ShPath /\ Passwd[1] # "home"
  /\ \A w \in DOMAIN ShAbs : ShAbs[w] \in Seq(ShWord)
  <1>1. ShName \subseteq ShWord /\ "home" \in ShWord /\ "root" \in ShWord
    BY DEF ShWord, ShName
  <1>2. Passwd \in ShPath
    BY ShFiles DEF Passwd
  <1>3. Passwd[1] # "home"
    BY DEF Passwd
  <1>4. \A w \in DOMAIN ShAbs : ShAbs[w] \in Seq(ShWord)
    <2> SUFFICES ASSUME NEW w \in DOMAIN ShAbs PROVE ShAbs[w] \in Seq(ShWord)
      OBVIOUS
    <2>1. ShAbs[w] \in Seq(ShName)
      BY ShFiles
    <2> DEFINE x == ShAbs[w]
    <2> HIDE DEF x
    <2>2. x \in Seq(ShWord)
      BY <1>1, <2>1 DEF x
    <2> QED BY <2>2 DEF x
  <1> QED BY <1>1, <1>2, <1>3, <1>4

\* resolve_path gives a path, that of a node or not.
LEMMA PathIs ==
  ASSUME NEW s \in Shell, NEW args \in Seq(ShWord)
  PROVE  ResolvePath(s, args) \in Seq(ShWord)
  <1>1. s.dir \in Seq(ShWord)
    BY DEF Shell
  <1>2. CASE args = <<>>
    BY <1>1, <1>2 DEF ResolvePath
  <1>3. CASE args # <<>>
    <2> DEFINE w == args[1]
    <2>1. w \in ShWord
      BY <1>3, EmptySeq, ElementOfSeq, LenProperties
    <2>2. Append(s.dir, w) \in Seq(ShWord)
      BY <1>1, <2>1
    <2>3. <<>> \in Seq(ShWord)
      BY EmptySeq
    <2>4. Len(s.dir) > 1 => <<s.dir[1]>> \in Seq(ShWord)
      BY <1>1, ElementOfSeq, LenProperties
    <2>5. Len(s.dir) \in Nat
      BY <1>1, LenProperties
    <2> HIDE DEF ShWord
    <2> QED BY <1>1, <1>3, <2>2, <2>3, <2>4, <2>5, NamesAre DEF ResolvePath
  <1> QED BY <1>2, <1>3

\* What a command leaves alone.
Steady(s, t) == t \in Shell /\ t.mode = s.mode /\ t.batch = s.batch /\ Users(t)

\* A node of s is as it should be in t, and with it the file of users.
NodeIs(s, t, p, text) ==
  /\ Steady(s, t)
  /\ p = Passwd => t.text[Passwd] = text
  /\ t.added = IF p = Passwd THEN {} ELSE s.added

\* A node made, written or removed, and what that means for the file of users.
LEMMA WithNodeIs ==
  ASSUME NEW s \in Shell, Users(s), NEW p, NEW type \in {"none", "dir", "file"}, NEW text \in Seq(Cell),
         p = Passwd => text = NoData \/ Blank \notin ToSet(text)
  PROVE  NodeIs(s, WithNode(s, p, type, text), p, text)
  <1> DEFINE t == WithNode(s, p, type, text)
  <1>1. CASE p \notin ShPath
    <2>1. t = s
      BY <1>1 DEF WithNode
    <2>2. p # Passwd
      BY <1>1, NamesAre
    <2> QED BY <2>1, <2>2 DEF NodeIs, Steady
  <1>2. CASE p \in ShPath
    <2> DEFINE ty == [s.type EXCEPT ![p] = type]
               tx == [s.text EXCEPT ![p] = text]
               ad == IF p = Passwd THEN {} ELSE s.added
    <2>1. t = [s EXCEPT !.type = ty, !.text = tx, !.added = ad]
      BY <1>2 DEF WithNode, Shell
    <2>2. ty \in [ShPath -> {"none", "dir", "file"}] /\ tx \in [ShPath -> Seq(Cell)] /\ ad \in SUBSET Cell
      BY DEF Shell
    <2>3. (p = Passwd => tx[Passwd] = text) /\ (p # Passwd => tx[Passwd] = s.text[Passwd])
      BY <1>2, NamesAre DEF Shell
    <2> HIDE DEF ty, tx, t
    <2>4. t \in Shell /\ t.mode = s.mode /\ t.batch = s.batch /\ t.text = tx /\ t.added = ad
      BY <2>1, <2>2 DEF Shell
    <2>5. Users(t)
      <3>1. CASE p = Passwd
        BY <2>3, <2>4, <3>1 DEF Users, AllEntered, ad
      <3>2. CASE p # Passwd
        BY <2>3, <2>4, <3>2 DEF Users, ad
      <3> QED BY <3>1, <3>2
    <2> QED BY <2>3, <2>4, <2>5 DEF NodeIs, Steady, t
  <1> QED BY <1>1, <1>2

\* A node that was never written is told from every text.
LEMMA NoDataIs == NoData \in Seq(Cell) /\ <<>> \in Seq(Cell) /\ Blank \in ToSet(NoData) /\ ToSet(<<>>) = {}
  <1>1. Blank \in Cell
    BY TermIs
  <1> HIDE DEF Cell
  <1> QED BY <1>1, EmptySeq DEF NoData, ToSet

\* The text of a node, the file of users above all.
LEMMA TextOfIs ==
  ASSUME NEW s \in Shell, NEW p
  PROVE  /\ TextOf(s, p) \in Seq(Cell)
         /\ Users(s) => Blank \notin ToSet(TextOf(s, Passwd))
         /\ Users(s) /\ Len(TextOf(s, Passwd)) < PasswdMax => AllEntered(TextOf(s, Passwd), s.added)
  <1>1. s.text \in [ShPath -> Seq(Cell)]
    BY DEF Shell
  <1>2. TextOf(s, p) \in Seq(Cell)
    BY <1>1, NoDataIs DEF TextOf
  <1>3. TextOf(s, Passwd) = IF s.text[Passwd] = NoData THEN <<>> ELSE s.text[Passwd]
    BY NamesAre DEF TextOf
  <1> QED BY <1>2, <1>3, NoDataIs DEF Users, AllEntered

\* The same of writing, unless there is no room.
LEMMA WriteNodeIs ==
  ASSUME NEW s \in Shell, Users(s), NEW p, NEW text \in Seq(Cell), p = Passwd => Blank \notin ToSet(text)
  PROVE  /\ "write" \in s.room => NodeIs(s, WriteNode(s, p, text), p, text)
         /\ "write" \notin s.room => WriteNode(s, p, text) = s
         /\ Steady(s, WriteNode(s, p, text))
  <1> DEFINE type == IF TypeOf(s, p) = "dir" THEN "dir" ELSE "file"
  <1>1. type \in {"none", "dir", "file"}
    OBVIOUS
  <1>2. WriteNode(s, p, text) = IF "write" \in s.room THEN WithNode(s, p, type, text) ELSE s
    BY DEF WriteNode
  <1> HIDE DEF type
  <1>3. NodeIs(s, WithNode(s, p, type, text), p, text)
    BY <1>1, WithNodeIs
  <1>4. Steady(s, s)
    BY DEF Steady
  <1> QED BY <1>2, <1>3, <1>4 DEF NodeIs

\* The same of a new directory.
LEMMA MakeDirIs ==
  ASSUME NEW s \in Shell, Users(s), NEW p
  PROVE  Steady(s, MakeDir(s, p))
  <1>1. NodeIs(s, WithNode(s, p, "dir", NoData), p, NoData)
    BY NoDataIs, WithNodeIs
  <1>2. Steady(s, s)
    BY DEF Steady
  <1> QED BY <1>1, <1>2 DEF MakeDir, NodeIs

\* su: another user, and a home for it.
LEMMA SuKeeps ==
  ASSUME NEW s \in Shell, Users(s), NEW args \in Seq(ShWord)
  PROVE  Steady(s, Su(s, args))
  <1> DEFINE u == IF args = <<>> THEN "root" ELSE args[1]
             home == <<"home", u>>
             dir == IF u = "root" THEN <<>> ELSE home
             logged == [s EXCEPT !.user = u, !.isRoot = (u = "root"), !.dir = dir]
  <1>1. u \in ShWord
    BY NamesAre, EmptySeq, ElementOfSeq, LenProperties
  <1>2. dir \in Seq(ShWord)
    <2>1. "home" \in ShWord
      BY NamesAre
    <2> HIDE DEF ShWord, u
    <2> QED BY <1>1, <2>1, EmptySeq
  <1> HIDE DEF u, dir
  <1>3. Steady(s, logged)
    <2>1. (u = "root") \in BOOLEAN
      OBVIOUS
    <2>2. logged \in Shell /\ logged.mode = s.mode /\ logged.batch = s.batch /\ logged.text = s.text /\ logged.added = s.added
      BY <1>1, <1>2, <2>1 DEF Shell
    <2> HIDE DEF logged
    <2> QED BY <2>2 DEF Steady, Users
  <1> HIDE DEF logged
  <1>4. Steady(logged, MakeDir(logged, home))
    <2>1. logged \in Shell /\ Users(logged)
      BY <1>3 DEF Steady
    <2> HIDE DEF home
    <2> QED BY <2>1, MakeDirIs
  <1>5. Steady(s, s)
    BY DEF Steady
  <1>6. \/ Su(s, args) = s
        \/ Su(s, args) = logged
        \/ Su(s, args) = MakeDir(logged, home)
    BY Zenon DEF Su, logged, u, dir, home
  <1> HIDE DEF home
  <1> QED BY <1>3, <1>4, <1>5, <1>6 DEF Steady

\* What is entered stays so, whatever follows, and an entry at the start of a
\* line is entered.
LEMMA StaysEntered ==
  ASSUME NEW old \in Seq(Cell), NEW line \in Seq(Cell)
  PROVE  /\ \A entry : Entered(old, entry) => Entered(old \o line, entry)
         /\ line # <<>> /\ (old = <<>> \/ Last(old) = NL) => Entered(old \o line, line[1])
  <1> DEFINE all == old \o line
             n == Len(old)
  <1>1. /\ n \in Nat /\ Len(line) \in Nat /\ DOMAIN old = 1 .. n /\ DOMAIN all = 1 .. n + Len(line)
        /\ \A i \in 1 .. n : all[i] = old[i]
        /\ \A i \in 1 .. Len(line) : all[n + i] = line[i]
    <2> HIDE DEF Cell
    <2>1. all \in Seq(Cell) /\ n \in Nat /\ Len(line) \in Nat /\ Len(all) = n + Len(line)
      BY LenProperties, ConcatProperties
    <2>2. DOMAIN old = 1 .. n /\ DOMAIN all = 1 .. n + Len(line)
      BY <2>1, LenProperties
    <2> QED BY <2>1, <2>2, ConcatProperties
  <1>2. line # <<>> => Len(line) >= 1
    BY <1>1, EmptySeq
  <1>3. old = <<>> \/ n >= 1
    BY <1>1, EmptySeq
  <1>4. Last(old) = old[n]
    BY DEF Last
  <1>5. old = <<>> => n = 0
    BY EmptySeq
  <1> HIDE DEF all, n
  <1>6. ASSUME NEW entry, Entered(old, entry) PROVE Entered(all, entry)
    <2>1. PICK i \in 1 .. n : old[i] = entry /\ (i = 1 \/ old[i - 1] = NL)
      BY <1>1, <1>6 DEF Entered
    <2>2. i \in 1 .. n + Len(line) /\ (i # 1 => i - 1 \in 1 .. n)
      BY <1>1
    <2> QED BY <1>1, <2>1, <2>2 DEF Entered
  <1>7. ASSUME line # <<>>, old = <<>> \/ Last(old) = NL PROVE Entered(all, line[1])
    <2>1. n + 1 \in 1 .. n + Len(line) /\ all[n + 1] = line[1]
      BY <1>1, <1>2, <1>7
    <2>2. n + 1 = 1 \/ (n \in 1 .. n /\ old[n] = NL)
      BY <1>1, <1>3, <1>4, <1>5, <1>7
    <2>3. n + 1 = 1 \/ all[(n + 1) - 1] = NL
      <3>1. (n + 1) - 1 = n
        BY <1>1
      <3> QED BY <1>1, <2>2, <3>1
    <2> QED BY <1>1, <2>1, <2>3 DEF Entered
  <1> QED BY <1>6, <1>7 DEF all

\* adduser: an entry more behind the text, or as much of it as fits in
\* updated_passwd.
LEMMA AddUserKeeps ==
  ASSUME NEW s \in Shell, Users(s), NEW args \in Seq(ShWord)
  PROVE  Steady(s, AddUser(s, args))
  <1>1. CASE ~s.isRoot \/ Len(args) < 2
    <2>1. AddUser(s, args) = s
      BY <1>1, Zenon DEF AddUser
    <2> QED BY <2>1 DEF Steady
  <1>2. CASE s.isRoot /\ ~(Len(args) < 2)
    <2> DEFINE old == TextOf(s, Passwd)
               line == IF args \in ShLong THEN <<args>> ELSE <<args, NL>>
               all == old \o line
               n == IF Len(all) < PasswdMax THEN Len(all) ELSE PasswdMax
               kept == SubSeq(all, 1, n)
               begins == "write" \in s.room /\ (old = <<>> \/ Last(old) = NL)
               w1 == WriteNode(s, Passwd, kept)
               more == IF begins THEN s.added \cup {args} ELSE s.added
               written == [w1 EXCEPT !.added = more]
    <2>1. args \in Cell /\ args # Blank /\ NL \in Cell /\ NL # Blank
      <3>1. NL \in Cell /\ NL # Blank
        BY TermIs DEF NL, Blank
      <3>2. args # <<>>
        BY <1>2, EmptySeq
      <3> QED BY <3>1, <3>2 DEF Cell, Blank
    <2> HIDE DEF Cell
    <2>2. /\ line \in Seq(Cell) /\ line # <<>> /\ line[1] = args
          /\ \A i \in DOMAIN line : line[i] # Blank
      BY <2>1
    <2>3. /\ old \in Seq(Cell) /\ Blank \notin ToSet(old)
          /\ Len(old) < PasswdMax => AllEntered(old, s.added)
      BY TextOfIs
    <2> HIDE DEF old, line
    <2>4. /\ all \in Seq(Cell) /\ Len(all) = Len(old) + Len(line)
          /\ Len(old) \in Nat /\ Len(line) \in Nat /\ Len(all) \in Nat
          /\ \A i \in 1 .. Len(old) : all[i] = old[i]
          /\ \A i \in 1 .. Len(line) : all[Len(old) + i] = line[i]
      BY <2>2, <2>3, LenProperties, ConcatProperties
    <2>5. \A i \in 1 .. Len(all) : all[i] # Blank
      <3> SUFFICES ASSUME NEW i \in 1 .. Len(all) PROVE all[i] # Blank
        OBVIOUS
      <3>1. DOMAIN old = 1 .. Len(old) /\ DOMAIN line = 1 .. Len(line)
        BY <2>2, <2>3, LenProperties
      <3>2. CASE i \in 1 .. Len(old)
        BY <2>3, <2>4, <3>1, <3>2 DEF ToSet
      <3>3. CASE i \notin 1 .. Len(old)
        <4> DEFINE k == i - Len(old)
        <4>1. k \in 1 .. Len(line) /\ i = Len(old) + k
          BY <2>4, <3>3
        <4> HIDE DEF k
        <4> QED BY <2>2, <2>4, <3>1, <4>1
      <3> QED BY <3>2, <3>3
    <2>6. /\ \A entry : Entered(old, entry) => Entered(all, entry)
          /\ old = <<>> \/ Last(old) = NL => Entered(all, args)
      BY <2>2, <2>3, StaysEntered
    <2>7. PasswdMax \in Nat
      BY ShSizes
    <2> HIDE DEF all
    <2>8. n \in Nat /\ n <= Len(all) /\ (n < PasswdMax => n = Len(all) /\ Len(old) < PasswdMax)
      BY <2>4, <2>7
    <2> HIDE DEF n
    <2>9. kept = [i \in 1 .. n |-> all[i]]
      BY <2>4, <2>8
    <2>10. \A i \in 1 .. n : i \in 1 .. Len(all) /\ all[i] \in Cell
      BY <2>4, <2>8, ElementOfSeq, LenProperties
    <2>11. n = Len(all) => kept = all
      <3>1. DOMAIN all = 1 .. Len(all) /\ all = [i \in 1 .. Len(all) |-> all[i]]
        BY <2>4, LenProperties
      <3> QED BY <2>9, <3>1
    <2> HIDE DEF kept
    <2>12. kept \in Seq(Cell) /\ Len(kept) = n /\ DOMAIN kept = 1 .. n /\ \A i \in 1 .. n : kept[i] = all[i]
      BY <2>8, <2>9, <2>10
    <2>13. Blank \notin ToSet(kept)
      BY <2>5, <2>10, <2>12 DEF ToSet
    <2>14. /\ "write" \in s.room => NodeIs(s, w1, Passwd, kept)
           /\ "write" \notin s.room => w1 = s
           /\ Steady(s, w1)
      BY <2>12, <2>13, WriteNodeIs
    <2> HIDE DEF w1
    <2>15. more \in SUBSET Cell
      BY <2>1 DEF Shell
    <2>16. n < PasswdMax => AllEntered(kept, more)
      BY <2>3, <2>6, <2>8, <2>11 DEF AllEntered
    <2>17. "write" \notin s.room => more = s.added
      OBVIOUS
    <2> HIDE DEF more
    <2>18. /\ written \in Shell /\ written.mode = s.mode /\ written.batch = s.batch
           /\ written.text = w1.text /\ written.added = more
      BY <2>14, <2>15 DEF Shell, Steady
    <2> HIDE DEF written
    <2>19. kept # NoData
      BY <2>13, NoDataIs
    <2>20. Users(written)
      <3>1. CASE "write" \in s.room
        <4>1. w1.text[Passwd] = kept
          BY <2>14, <3>1 DEF NodeIs
        <4> QED BY <2>12, <2>13, <2>16, <2>18, <2>19, <4>1 DEF Users
      <3>2. CASE "write" \notin s.room
        BY <2>14, <2>17, <2>18, <3>2 DEF Users
      <3> QED BY <3>1, <3>2
    <2>21. Steady(written, MakeDir(written, <<"home", args[1]>>))
      BY <2>18, <2>20, MakeDirIs
    <2>22. AddUser(s, args) = MakeDir(written, <<"home", args[1]>>)
      BY <1>2, Zenon DEF AddUser, written, w1, more, begins, kept, n, all, old, line
    <2> QED BY <2>18, <2>21, <2>22 DEF Steady
  <1> QED BY <1>1, <1>2

\* cd: another directory, or the same.
LEMMA CdKeeps ==
  ASSUME NEW s \in Shell, Users(s), NEW args \in Seq(ShWord)
  PROVE  Steady(s, Cd(s, args))
  <1>1. ASSUME NEW dir \in Seq(ShWord) PROVE Steady(s, [s EXCEPT !.dir = dir])
    <2> DEFINE t == [s EXCEPT !.dir = dir]
    <2>1. t \in Shell /\ t.mode = s.mode /\ t.batch = s.batch /\ t.text = s.text /\ t.added = s.added
      BY DEF Shell
    <2> HIDE DEF t
    <2>2. Steady(s, t)
      BY <2>1 DEF Steady, Users
    <2> QED BY <2>2 DEF t
  <1>2. ResolvePath(s, args) \in Seq(ShWord) /\ <<>> \in Seq(ShWord)
    BY PathIs, EmptySeq
  <1>3. Steady(s, s)
    BY DEF Steady
  <1> QED BY <1>1, <1>2, <1>3 DEF Cd

\* Whatever a command does to the tree and the user.
LEMMA DoneIs ==
  ASSUME NEW s \in Shell, Users(s), NEW cmd, NEW args \in Seq(ShWord)
  PROVE  Steady(s, Done(s, cmd, args))
  <1> DEFINE p == ResolvePath(s, args)
             cleared == [s EXCEPT !.canvas = BlankScreen, !.screen = BlankScreen, !.col = 0, !.row = 0]
  <1>1. Steady(s, s)
    BY DEF Steady
  <1>2. Steady(s, cleared)
    <2>1. 0 \in 0 .. TermCols - 1 /\ 0 \in 0 .. TermRows - 1
      BY TermIs
    <2>2. cleared \in Shell /\ cleared.mode = s.mode /\ cleared.batch = s.batch /\ cleared.text = s.text /\ cleared.added = s.added
      BY <2>1, TermIs DEF Shell
    <2> HIDE DEF cleared
    <2> QED BY <2>2 DEF Steady, Users
  <1> HIDE DEF p, cleared
  <1>3. Len(args) > 1 => Steady(s, WriteNode(s, p, Words(Tail(args))))
    <2> SUFFICES ASSUME Len(args) > 1 PROVE Steady(s, WriteNode(s, p, Words(Tail(args))))
      OBVIOUS
    <2>1. args # <<>>
      BY EmptySeq
    <2>2. Tail(args) \in Seq(ShWord)
      BY <2>1, HeadTailProperties
    <2> QED BY <2>2, WordsAre, WriteNodeIs
  <1>4. Steady(s, WriteNode(s, p, <<>>))
    BY NoDataIs, WriteNodeIs
  <1>5. Steady(s, WithNode(s, p, "none", NoData))
    <2>1. NodeIs(s, WithNode(s, p, "none", NoData), p, NoData)
      BY NoDataIs, WithNodeIs
    <2> QED BY <2>1 DEF NodeIs
  <1>6. Steady(s, MakeDir(s, p))
    BY MakeDirIs
  <1> QED BY <1>1, <1>2, <1>3, <1>4, <1>5, <1>6, SuKeeps, AddUserKeeps, CdKeeps DEF Done, p, cleared

\* A command prints words, entries and ends of lines.
LEMMA MessageIs ==
  ASSUME NEW s \in Shell, NEW cmd, NEW args \in Seq(ShWord)
  PROVE  Message(s, cmd, args) \in Seq(Cell)
  <1> DEFINE t == TextOf(s, ResolvePath(s, args))
  <1>1. /\ NL \in Cell /\ <<"text">> \in Cell /\ <<"title">> \in Cell
    BY TermIs DEF ShWord
  <1> HIDE DEF Cell
  <1>2. t \in Seq(Cell) /\ Words(args) \in Seq(Cell) /\ <<>> \in Seq(Cell)
    BY TextOfIs, WordsAre, NoDataIs
  <1> HIDE DEF t
  <1>3. [i \in 1 .. 2 * (TermRows + 1) |-> IF i % 2 = 1 THEN <<"text">> ELSE NL] \in Seq(Cell)
    <2> DEFINE n == 2 * (TermRows + 1)
    <2>1. n \in Nat
      BY TermIs
    <2> HIDE DEF n
    <2>2. [i \in 1 .. n |-> IF i % 2 = 1 THEN <<"text">> ELSE NL] \in Seq(Cell)
      BY <1>1, <2>1
    <2> QED BY <2>2 DEF n
  <1>4. <<<<"text">>, NL>> \in Seq(Cell) /\ <<NL>> \in Seq(Cell) /\ <<<<"title">>, NL, NL>> \in Seq(Cell) /\ <<<<"text">>>> \in Seq(Cell)
    BY <1>1
  <1> DEFINE shown == IF t = <<>> THEN <<<<"text">>>> ELSE t
  <1>5. shown \in Seq(Cell)
    BY <1>2, <1>4
  <1> HIDE DEF shown
  <1>6. <<<<"text">>, NL>> \o shown \in Seq(Cell)
    BY <1>4, <1>5, ConcatProperties
  <1>7. <<<<"text">>, NL>> \o shown \o <<NL>> \in Seq(Cell)
    BY <1>4, <1>6, ConcatProperties
  <1>8. Words(args) \o <<NL>> \in Seq(Cell)
    BY <1>2, <1>4, ConcatProperties
  <1> QED BY <1>2, <1>3, <1>4, <1>7, <1>8, Zenon DEF Message, shown, t

Ran(t) == t \in Shell /\ Shown(t) /\ Users(t)

\* Another program on the screen.
LEMMA PickedIs ==
  ASSUME NEW s \in Shell, Users(s), NEW mode \in Mode \ {"cli"}
  PROVE  Ran(Picked(s, mode))
  <1> DEFINE t == Picked(s, mode)
  <1>1. t \in Shell /\ t.mode = mode /\ t.text = s.text /\ t.added = s.added
    BY TermIs DEF Picked, Shell
  <1> HIDE DEF t
  <1>2. Ran(t)
    BY <1>1 DEF Ran, Shown, Users
  <1> QED BY <1>2 DEF t

\* execute_cli_command: whatever the line was.
LEMMA ExecuteIs ==
  ASSUME NEW s \in Shell, s.mode = "cli", Shown(s), Users(s)
  PROVE  Ran(ExecuteCliCommand(s))
  <1> DEFINE t == Kprintf(s, <<NL>>)
             args == Tail(s.typed)
             cmd == IF s.typed[1] \in Bare /\ args # <<>> THEN "unknown" ELSE s.typed[1]
             b == [t EXCEPT !.batch = TRUE]
             e == [b EXCEPT !.batch = FALSE]
             top == [b EXCEPT !.mode = "top", !.batch = FALSE, !.screen = BlankScreen]
             tasks == <<<<"tasks">>, NL, <<"tasks">>, NL>>
             d == Done(b, cmd, args)
             k == Kprintf(d, Message(b, cmd, args))
             q == PrintPrompt(k)
             w == [q EXCEPT !.batch = FALSE]
             u == ExecuteCliCommand(s)
  <1>1. NL \in Cell /\ <<"tasks">> \in Cell
    BY TermIs DEF ShWord
  <1>2. <<NL>> \in Seq(Cell) /\ tasks \in Seq(Cell)
    <2> HIDE DEF Cell
    <2> QED BY <1>1
  <1>3. Printed(s, t)
    BY <1>2, KprintfPrints
  <1> HIDE DEF t, tasks
  <1>4. t \in Shell /\ t.mode = "cli" /\ Users(t) /\ Shown(t)
    BY <1>3 DEF Printed, SameShell, Users, Shown
  <1>5. CASE s.typed = <<>>
    <2> DEFINE r == PrintPrompt(t)
    <2>1. Printed(t, r)
      BY <1>4, PromptIs
    <2> HIDE DEF r
    <2>2. r \in Shell /\ Users(r)
      BY <1>4, <2>1 DEF Printed, SameShell, Users
    <2>3. Flush(r) \in Shell /\ Flush(r).screen = Flush(r).canvas /\ Flush(r).text = r.text /\ Flush(r).added = r.added
      BY <2>2 DEF Flush, Shell
    <2>4. Ran(Flush(r))
      BY <2>2, <2>3 DEF Ran, Shown, Users
    <2>5. u = Flush(r)
      BY <1>5, Zenon DEF ExecuteCliCommand, r, t
    <2> QED BY <2>4, <2>5
  <1>6. CASE s.typed # <<>>
    <2>1. args \in Seq(ShWord)
      BY <1>6, HeadTailProperties DEF Shell
    <2> HIDE DEF args, cmd
    <2>2. b \in Shell /\ b.mode = "cli" /\ b.batch /\ b.text = t.text /\ b.added = t.added
      BY <1>4 DEF Shell
    <2> HIDE DEF b
    <2>3. Users(b) /\ Ran(b)
      BY <1>4, <2>2 DEF Ran, Shown, Users
    <2>4. \A mode \in {"calc", "snake", "gui", "bmp"} : Ran(Picked(b, mode))
      <3>1. \A mode \in {"calc", "snake", "gui", "bmp"} : mode \in Mode \ {"cli"}
        BY DEF Mode
      <3> QED BY <2>2, <2>3, <3>1, PickedIs
    <2>5. Ran(t)
      BY <1>4 DEF Ran
    <2>6. e \in Shell /\ e.text = b.text /\ e.added = b.added
      BY <2>2 DEF Shell
    <2> HIDE DEF e
    <2>7. Ran(OpenEditorFile(e, args))
      <3> DEFINE p == ResolvePath(e, args)
                 x == TextOf(e, p)
                 n == IF Len(x) < EditMax THEN Len(x) ELSE EditMax
                 buf == SubSeq(x, 1, n)
                 o == [e EXCEPT !.mode = "edit", !.path = p, !.screen = Picture, !.buf = buf]
      <3>1. p \in Seq(ShWord)
        BY <2>1, <2>6, PathIs
      <3>2. OpenEditorFile(e, args) = o
        BY DEF OpenEditorFile
      <3> HIDE DEF p
      <3>3. x \in Seq(Cell) /\ Len(x) \in Nat /\ EditMax \in Nat
        BY <2>6, TextOfIs, LenProperties, ShSizes
      <3> HIDE DEF x
      <3>4. n \in Nat /\ n <= Len(x)
        BY <3>3
      <3> HIDE DEF n
      <3>5. buf \in Seq(Cell)
        <4>1. \A i \in 1 .. n : i \in 1 .. Len(x) /\ x[i] \in Cell
          BY <3>3, <3>4, ElementOfSeq, LenProperties
        <4>2. buf = [i \in 1 .. n |-> x[i]]
          BY <3>3, <3>4
        <4> HIDE DEF buf, Cell
        <4> QED BY <3>4, <4>1, <4>2
      <3> HIDE DEF buf
      <3>6. o \in Shell /\ o.mode = "edit" /\ o.text = e.text /\ o.added = e.added
        BY <2>6, <3>1, <3>5, TermIs DEF Shell, Mode
      <3> HIDE DEF o
      <3> QED BY <2>3, <2>6, <3>2, <3>6 DEF Ran, Shown, Users
    <2>8. Ran(Kprintf(top, tasks))
      <3>1. top \in Shell /\ top.mode = "top" /\ top.text = b.text /\ top.added = b.added
        BY <2>2, TermIs DEF Shell, Mode
      <3> HIDE DEF top
      <3>2. Printed(top, Kprintf(top, tasks))
        BY <1>2, <3>1, KprintfPrints
      <3> QED BY <2>3, <3>1, <3>2 DEF Printed, SameShell, Ran, Shown, Users
    <2>9. Ran(Flush(w))
      <3>1. Steady(b, d)
        BY <2>1, <2>2, <2>3, DoneIs
      <3>2. Message(b, cmd, args) \in Seq(Cell)
        BY <2>1, <2>2, MessageIs
      <3> HIDE DEF d
      <3>3. Printed(d, k)
        BY <3>1, <3>2, KprintfPrints DEF Steady
      <3> HIDE DEF k
      <3>4. Printed(k, q)
        BY <3>3, PromptIs DEF Printed
      <3> HIDE DEF q
      <3>5. q \in Shell /\ Users(q)
        BY <3>1, <3>3, <3>4 DEF Printed, SameShell, Steady, Users
      <3>6. Flush(w) \in Shell /\ Flush(w).screen = Flush(w).canvas /\ Flush(w).text = q.text /\ Flush(w).added = q.added
        BY <3>5 DEF Flush, Shell
      <3> QED BY <3>5, <3>6 DEF Ran, Shown, Users
    <2> DEFINE line == IF args = <<>> THEN b ELSE Picked(b, "bmp")
               file == IF args = <<>> THEN t ELSE OpenEditorFile(e, args)
    <2>10. u = CASE cmd \in {"calc", "snake"} -> Picked(b, cmd)
                 [] cmd = "exit" -> Picked(b, "gui")
                 [] cmd = "view" -> line
                 [] cmd = "edit" -> file
                 [] cmd = "top" -> Kprintf(top, tasks)
                 [] OTHER -> Flush(w)
      BY <1>6, Zenon DEF ExecuteCliCommand, w, q, k, d, top, tasks, e, b, cmd, args, t
    <2>11. Ran(line) /\ Ran(file)
      BY <2>3, <2>4, <2>5, <2>7
    <2>12. cmd \in {"calc", "snake"} => Ran(Picked(b, cmd))
      BY <2>4
    <2>13. Ran(Picked(b, "gui"))
      BY <2>4
    <2> HIDE DEF u, line, file, top, w
    <2> QED BY <2>8, <2>9, <2>10, <2>11, <2>12, <2>13 DEF u
  <1> QED BY <1>5, <1>6

-----------------------------------------------------------------------------
(* Keys.                                                                    *)

Good(s) == s \in Shell /\ Shown(s) /\ Echoed(s) /\ LineIdle(s) /\ Users(s)

\* At boot.
LEMMA ShStarts == ShStart \in Shell /\ Good(ShStart)
  <1>1. ShStart \in Shell
    <2>1. 0 \in 0 .. TermCols - 1 /\ 0 \in 0 .. TermRows - 1 /\ "gui" \in Mode /\ <<>> \in Seq(ShWord) /\ {} \in SUBSET Cell
      BY TermIs, EmptySeq DEF Mode
    <2>2. ShPasswd \in Seq(Cell)
      <3>1. \A i \in 1 .. Len(ShPasswd) : ShPasswd[i] \in Seq(ShName \cup {"\n"})
        BY ShFiles, ElementOfSeq, LenProperties
      <3>2. \A i \in 1 .. Len(ShPasswd) : ShPasswd[i] \in Cell
        <4> SUFFICES ASSUME NEW i \in 1 .. Len(ShPasswd) PROVE ShPasswd[i] \in Cell
          OBVIOUS
        <4> DEFINE x == ShPasswd[i]
        <4>1. x \in Seq(ShName \cup {"\n"})
          BY <3>1
        <4> HIDE DEF x
        <4>2. ShName \cup {"\n"} \subseteq ShWord
          BY DEF ShWord
        <4>3. x \in Cell
          BY <4>1, <4>2 DEF Cell
        <4> QED BY <4>3 DEF x
      <3>3. ShPasswd = [i \in 1 .. Len(ShPasswd) |-> ShPasswd[i]] /\ Len(ShPasswd) \in Nat
        BY ShFiles, LenProperties
      <3> DEFINE n == Len(ShPasswd)
                 f == [i \in 1 .. n |-> ShPasswd[i]]
      <3> HIDE DEF n, Cell
      <3>4. f \in Seq(Cell)
        BY <3>2, <3>3 DEF n
      <3>5. ShPasswd = f
        BY <3>3 DEF n
      <3> HIDE DEF f
      <3> QED BY <3>4, <3>5
    <2>3. [p \in ShPath |-> IF p = Passwd THEN ShPasswd ELSE NoData] \in [ShPath -> Seq(Cell)]
      BY <2>2, NoDataIs
    <2>4. "root" \in ShWord /\ ShTree \in [ShPath -> {"none", "dir", "file"}] /\ <<>> \in Seq(Cell) /\ 0 \in Nat
      BY NamesAre, ShFiles, NoDataIs
    <2> HIDE DEF Cell
    <2> QED BY <2>1, <2>3, <2>4, TermIs DEF ShStart, Shell
  <1>2. ShStart.text[Passwd] = ShPasswd
    BY NamesAre DEF ShStart
  <1>3. Users(ShStart)
    BY <1>2, ShFiles DEF Users, AllEntered, ShStart, Blank
  <1>4. Shown(ShStart) /\ Echoed(ShStart) /\ LineIdle(ShStart)
    BY DEF ShStart, Shown, Echoed, LineIdle
  <1> QED BY <1>1, <1>3, <1>4 DEF Good

\* A key more, and nothing else.
LEMMA PressedIs ==
  ASSUME NEW s, Good(s)
  PROVE  Good([s EXCEPT !.keys = @ + 1])
  <1> DEFINE t == [s EXCEPT !.keys = @ + 1]
  <1>1. /\ t \in Shell /\ t.mode = s.mode /\ t.batch = s.batch /\ t.screen = s.screen /\ t.canvas = s.canvas
        /\ t.typed = s.typed /\ t.col = s.col /\ t.row = s.row /\ t.wrapped = s.wrapped /\ t.text = s.text /\ t.added = s.added
    <2>1. s \in Shell
      BY DEF Good
    <2>2. s.keys + 1 \in Nat
      BY <2>1 DEF Shell
    <2> DEFINE n == s.keys + 1
    <2>3. t = [s EXCEPT !.keys = n]
      OBVIOUS
    <2> HIDE DEF n, t
    <2> QED BY <2>1, <2>2, <2>3 DEF Shell, n
  <1> HIDE DEF t
  <1>2. Good(t)
    BY <1>1 DEF Good, Shown, Echoed, LineIdle, Users
  <1> QED BY <1>2 DEF t

\* With no line there is none to be seen.
LEMMA IdleIs ==
  ASSUME NEW s, Ran(s), s.typed = <<>>
  PROVE  Good(s)
  <1>1. Len(s.typed) = 0 /\ s.col \in 0 .. TermCols - 1
    BY DEF Ran, Shell
  <1> QED BY <1>1, TermIs DEF Ran, Good, Echoed, LineIdle

\* A word typed stands where the cursor was, behind those before it.
LEMMA TypeKeeps ==
  ASSUME NEW s, Good(s), s.mode = "cli", NEW w \in ShCommand \cup ShArg
  PROVE  Good(Putchar([s EXCEPT !.typed = Append(@, w)], <<w>>))
  <1> DEFINE line == Append(s.typed, w)
             s1 == [s EXCEPT !.typed = Append(@, w)]
             t == Putchar(s1, <<w>>)
             n == Len(s.typed)
  <1>1. s \in Shell /\ Shown(s) /\ Echoed(s) /\ Users(s)
    BY DEF Good
  <1>2. w \in ShWord /\ <<w>> \in Cell /\ <<w>> # NL /\ <<w>> # Rub
    <2>1. w # "\n" /\ w # "rubout"
      BY ShWords
    <2>2. w \in ShWord
      BY DEF ShWord, ShName
    <2> QED BY <2>1, <2>2, TermIs DEF NL, Rub
  <1>3. s.typed \in Seq(ShWord)
    BY <1>1 DEF Shell
  <1>4. /\ line \in Seq(ShWord) /\ Len(line) = n + 1 /\ n \in Nat /\ line[n + 1] = w
        /\ \A i \in 1 .. n : line[i] = s.typed[i]
    BY <1>2, <1>3, AppendProperties, LenProperties
  <1> HIDE DEF line
  <1>5. /\ s1 \in Shell /\ s1.typed = line /\ s1.mode = "cli" /\ s1.batch = s.batch /\ s1.screen = s.screen
        /\ s1.canvas = s.canvas /\ s1.col = s.col /\ s1.row = s.row /\ s1.wrapped = s.wrapped
        /\ s1.text = s.text /\ s1.added = s.added
    BY <1>1, <1>4 DEF Shell, line
  <1> HIDE DEF s1
  <1>6. /\ Printed(s1, t)
        /\ \/ t.wrapped
           \/ /\ t.col = s1.col + 1 /\ t.row = s1.row /\ t.wrapped = s1.wrapped
              /\ t.canvas[s1.row + 1][s1.col + 1] = <<w>>
              /\ \A i \in 1 .. s1.col : t.canvas[s1.row + 1][i] = s1.canvas[s1.row + 1][i]
    BY <1>2, <1>5, PutcharIs
  <1> HIDE DEF t
  <1>7. t \in Shell /\ Shown(t) /\ Users(t) /\ LineIdle(t) /\ t.typed = line
    BY <1>1, <1>5, <1>6 DEF Printed, SameShell, Shown, Users, LineIdle
  <1>8. Echoed(t)
    <2>1. CASE t.wrapped
      BY <2>1 DEF Echoed
    <2>2. CASE ~t.wrapped
      <3>1. /\ t.col = s.col + 1 /\ t.row = s.row /\ ~s.wrapped
            /\ t.canvas[s.row + 1][s.col + 1] = <<w>>
            /\ \A i \in 1 .. s.col : t.canvas[s.row + 1][i] = s.canvas[s.row + 1][i]
        BY <1>5, <1>6, <2>2
      <3>2. /\ n <= s.col
            /\ \A i \in 1 .. n : s.canvas[s.row + 1][s.col - n + i] = <<s.typed[i]>>
        BY <1>1, <3>1 DEF Echoed
      <3>3. s.col \in Nat
        BY <1>1, TermIs DEF Shell
      <3>4. Len(t.typed) <= t.col
        BY <1>4, <1>7, <3>1, <3>2, <3>3
      <3>5. ASSUME NEW i \in 1 .. Len(t.typed)
            PROVE  t.canvas[t.row + 1][t.col - Len(t.typed) + i] = <<t.typed[i]>>
        <4>4. Len(t.typed) = n + 1 /\ n \in Nat
          BY <1>4, <1>7
        <4>1. t.col - Len(t.typed) + i = s.col - n + i /\ i \in 1 .. n + 1
          <5> HIDE DEF n
          <5>1. t.col = s.col + 1
            BY <3>1
          <5>2. i \in 1 .. n + 1
            BY <4>4
          <5> DEFINE len == Len(t.typed)
          <5>3. len = n + 1 /\ n \in Nat
            BY <4>4
          <5> HIDE DEF len
          <5>4. t.col - len + i = s.col - n + i
            BY <3>3, <5>1, <5>2, <5>3
          <5> QED BY <5>2, <5>4 DEF len
        <4>2. CASE i = n + 1
          <5>1. s.col - n + i = s.col + 1
            BY <1>4, <3>3, <4>2
          <5> QED BY <1>4, <1>7, <3>1, <4>1, <4>2, <5>1
        <4>3. CASE i # n + 1
          <5>1. i \in 1 .. n /\ s.col - n + i \in 1 .. s.col
            <6>1. n <= s.col /\ i \in 1 .. n + 1
              BY <3>2, <4>1
            <6> HIDE DEF n
            <6> QED BY <3>3, <4>3, <4>4, <6>1
          <5> QED BY <1>4, <1>7, <3>1, <3>2, <4>1, <5>1
        <4> QED BY <4>2, <4>3
      <3> QED BY <3>4, <3>5 DEF Echoed
    <2> QED BY <2>1, <2>2
  <1>9. Good(t)
    BY <1>7, <1>8 DEF Good
  <1> QED BY <1>9 DEF t, s1

\* A Backspace takes the last word from the line and from the screen.
LEMMA BackspaceKeeps ==
  ASSUME NEW s, Good(s), s.mode = "cli", s.typed # <<>>
  PROVE  Good(Putchar([s EXCEPT !.typed = Front(@)], Rub))
  <1> DEFINE line == Front(s.typed)
             s1 == [s EXCEPT !.typed = Front(@)]
             t == Putchar(s1, Rub)
             n == Len(s.typed)
  <1>1. s \in Shell /\ Shown(s) /\ Echoed(s) /\ Users(s)
    BY DEF Good
  <1>2. s.typed \in Seq(ShWord)
    BY <1>1 DEF Shell
  <1>3. n \in Nat /\ n >= 1 /\ \A i \in 1 .. n : s.typed[i] \in ShWord
    BY <1>2, EmptySeq, LenProperties, ElementOfSeq
  <1>4. line \in Seq(ShWord) /\ Len(line) = n - 1 /\ \A i \in 1 .. n - 1 : line[i] = s.typed[i]
    <2>1. line = [i \in 1 .. n - 1 |-> s.typed[i]]
      BY <1>2, <1>3 DEF Front
    <2>2. \A i \in 1 .. n - 1 : s.typed[i] \in ShWord
      BY <1>3
    <2> HIDE DEF line
    <2> QED BY <1>3, <2>1, <2>2
  <1> HIDE DEF line
  <1>5. /\ s1 \in Shell /\ s1.typed = line /\ s1.mode = "cli" /\ s1.batch = s.batch /\ s1.screen = s.screen
        /\ s1.canvas = s.canvas /\ s1.col = s.col /\ s1.row = s.row /\ s1.wrapped = s.wrapped
        /\ s1.text = s.text /\ s1.added = s.added
    BY <1>1, <1>4 DEF Shell, line
  <1> HIDE DEF s1
  <1>6. /\ Printed(s1, t) /\ t.row = s1.row /\ t.wrapped = s1.wrapped
        /\ s1.col # 0 => t.col = s1.col - 1 /\ \A i \in 1 .. s1.col - 1 : t.canvas[s1.row + 1][i] = s1.canvas[s1.row + 1][i]
    BY <1>5, RuboutIs
  <1> HIDE DEF t
  <1>7. t \in Shell /\ Shown(t) /\ Users(t) /\ LineIdle(t) /\ t.typed = line
    BY <1>1, <1>5, <1>6 DEF Printed, SameShell, Shown, Users, LineIdle
  <1>8. Echoed(t)
    <2>1. CASE t.wrapped
      BY <2>1 DEF Echoed
    <2>2. CASE ~t.wrapped
      <3>1. /\ n <= s.col
            /\ \A i \in 1 .. n : s.canvas[s.row + 1][s.col - n + i] = <<s.typed[i]>>
        BY <1>1, <1>5, <1>6, <2>2 DEF Echoed
      <3>2. s.col \in Nat /\ s.col # 0
        BY <1>1, <1>3, <3>1, TermIs DEF Shell
      <3>3. /\ t.col = s.col - 1 /\ t.row = s.row
            /\ \A i \in 1 .. s.col - 1 : t.canvas[s.row + 1][i] = s.canvas[s.row + 1][i]
        BY <1>5, <1>6, <3>2
      <3>4. Len(t.typed) <= t.col
        BY <1>3, <1>4, <1>7, <3>1, <3>2, <3>3
      <3>5. ASSUME NEW i \in 1 .. Len(t.typed)
            PROVE  t.canvas[t.row + 1][t.col - Len(t.typed) + i] = <<t.typed[i]>>
        <4>3. Len(t.typed) = n - 1 /\ n \in Nat
          BY <1>3, <1>4, <1>7
        <4>1. t.col - Len(t.typed) + i = s.col - n + i /\ i \in 1 .. n - 1
          <5> HIDE DEF n
          <5> QED BY <3>2, <3>3, <4>3
        <4>2. i \in 1 .. n /\ s.col - n + i \in 1 .. s.col - 1
          BY <1>3, <3>1, <3>2, <4>1
        <4> QED BY <1>4, <1>7, <3>1, <3>3, <4>1, <4>2
      <3> QED BY <3>4, <3>5 DEF Echoed
    <2> QED BY <2>1, <2>2
  <1>9. Good(t)
    BY <1>7, <1>8 DEF Good
  <1> QED BY <1>9 DEF t, s1

\* Every key keeps the shell as it should be.
LEMMA ShStepKeeps ==
  ASSUME Good(sh), ShNext
  PROVE  Good(sh')
  <1>1. /\ sh \in Shell /\ Shown(sh) /\ Echoed(sh) /\ Users(sh) /\ LineIdle(sh)
    BY DEF Good
  <1>2. \A s : Good(s) /\ Pressed1(s) => Good(sh')
    BY PressedIs DEF Pressed1
  \* Another mode: the line is empty, the files as they were.
  <1>3. ASSUME NEW s, s \in Shell, s.mode # "cli", s.typed = <<>>, s.text = sh.text, s.added = sh.added
        PROVE  Good(s)
    BY <1>1, <1>3 DEF Good, Shown, Echoed, LineIdle, Users
  <1>4. ASSUME NEW s \in Shell, Users(s), s.typed = <<>>
        PROVE  Good(FreshTerminal(s))
    <2>1. /\ FreshTerminal(s) \in Shell /\ FreshTerminal(s).screen = FreshTerminal(s).canvas
          /\ SameFiles(s, FreshTerminal(s))
      BY FreshIs
    <2>2. Ran(FreshTerminal(s)) /\ FreshTerminal(s).typed = <<>>
      BY <1>4, <2>1 DEF SameFiles, Ran, Shown, Users
    <2> QED BY <2>2, IdleIs
  <1>5. CASE ShType
    <2> PICK w \in IF sh.mode = "cli" /\ sh.typed = <<>> THEN ShCommand ELSE ShArg :
             /\ Key
             /\ \/ /\ sh.mode = "cli" /\ Len(sh.typed) < CliMax
                   /\ Pressed1(Putchar([sh EXCEPT !.typed = Append(@, w)], <<w>>))
                \/ /\ sh.mode = "edit" /\ Len(sh.buf) < EditMax
                   /\ Pressed1([sh EXCEPT !.buf = Append(@, <<w>>)])
      BY <1>5, Zenon DEF ShType
    <2>1. w \in ShCommand \cup ShArg
      OBVIOUS
    <2>2. CASE sh.mode = "cli" /\ Pressed1(Putchar([sh EXCEPT !.typed = Append(@, w)], <<w>>))
      BY <1>2, <2>1, <2>2, TypeKeeps
    <2>3. CASE sh.mode = "edit" /\ Pressed1([sh EXCEPT !.buf = Append(@, <<w>>)])
      <3> DEFINE buf == Append(sh.buf, <<w>>)
                 s == [sh EXCEPT !.buf = Append(@, <<w>>)]
      <3>1. <<w>> \in Cell
        BY <2>1, TermIs DEF ShWord, ShName
      <3>2. buf \in Seq(Cell)
        <4> HIDE DEF Cell
        <4> QED BY <1>1, <3>1, AppendProperties DEF Shell
      <3>3. s = [sh EXCEPT !.buf = buf]
        OBVIOUS
      <3> HIDE DEF buf, s
      <3>4. s \in Shell /\ s.mode = "edit" /\ s.typed = sh.typed /\ s.text = sh.text /\ s.added = sh.added
        BY <1>1, <2>3, <3>2, <3>3 DEF Shell
      <3>5. Good(s)
        BY <1>1, <1>3, <2>3, <3>4 DEF LineIdle
      <3> QED BY <1>2, <2>3, <3>5 DEF s
    <2> QED BY <2>2, <2>3
  <1>6. CASE ShBackspace
    <2>1. CASE sh.mode = "cli" /\ sh.typed # <<>> /\ Pressed1(Putchar([sh EXCEPT !.typed = Front(@)], Rub))
      BY <1>2, <2>1, BackspaceKeeps
    <2>2. CASE sh.mode = "edit" /\ sh.buf # <<>> /\ Pressed1([sh EXCEPT !.buf = Front(@)])
      <3> DEFINE buf == Front(sh.buf)
                 n == Len(sh.buf)
                 s == [sh EXCEPT !.buf = Front(@)]
      <3>1. sh.buf \in Seq(Cell) /\ n \in Nat /\ n >= 1 /\ \A i \in 1 .. n - 1 : sh.buf[i] \in Cell
        <4>1. sh.buf \in Seq(Cell)
          BY <1>1 DEF Shell
        <4> HIDE DEF Cell
        <4> QED BY <2>2, <4>1, EmptySeq, LenProperties, ElementOfSeq
      <3>2. buf \in Seq(Cell)
        <4>1. buf = [i \in 1 .. n - 1 |-> sh.buf[i]]
          BY <3>1 DEF Front
        <4> HIDE DEF buf, Cell
        <4> QED BY <3>1, <4>1
      <3>3. s = [sh EXCEPT !.buf = buf]
        OBVIOUS
      <3> HIDE DEF buf, s
      <3>4. s \in Shell /\ s.mode = "edit" /\ s.typed = sh.typed /\ s.text = sh.text /\ s.added = sh.added
        BY <1>1, <2>2, <3>2, <3>3 DEF Shell
      <3>5. Good(s)
        BY <1>1, <1>3, <2>2, <3>4 DEF LineIdle
      <3> QED BY <1>2, <2>2, <3>5 DEF s
    <2> QED BY <1>6, <2>1, <2>2 DEF ShBackspace
  <1>7. CASE ShEnter
    <2>1. ASSUME sh.mode = "cli", NEW room \in SUBSET {"write", "mkdir"},
                 Pressed1([ExecuteCliCommand([sh EXCEPT !.room = room]) EXCEPT !.typed = <<>>, !.room = {}])
          PROVE  Good(sh')
      <3> DEFINE r == [sh EXCEPT !.room = room]
                 u == ExecuteCliCommand(r)
                 s == [u EXCEPT !.typed = <<>>, !.room = {}]
      <3>0. /\ r \in Shell /\ r.mode = sh.mode /\ r.batch = sh.batch /\ r.screen = sh.screen
            /\ r.canvas = sh.canvas /\ r.text = sh.text /\ r.added = sh.added
        BY <1>1 DEF Shell
      <3> HIDE DEF r
      <3>1. Ran(u)
        <4>1. r.mode = "cli" /\ Shown(r) /\ Users(r)
          BY <1>1, <2>1, <3>0 DEF Shown, Users
        <4> QED BY <3>0, <4>1, ExecuteIs
      <3> HIDE DEF u
      <3>2. <<>> \in Seq(ShWord)
        BY EmptySeq
      <3>3. /\ s \in Shell /\ s.typed = <<>> /\ s.mode = u.mode /\ s.batch = u.batch /\ s.screen = u.screen
            /\ s.canvas = u.canvas /\ s.text = u.text /\ s.added = u.added
        BY <3>1, <3>2 DEF Ran, Shell
      <3> HIDE DEF s
      <3>4. Ran(s)
        BY <3>1, <3>3 DEF Ran, Shown, Users
      <3>5. Good(s)
        BY <3>3, <3>4, IdleIs
      <3> QED BY <1>2, <2>1, <3>5 DEF s, u, r
    <2>2. CASE sh.mode = "edit" /\ Pressed1([sh EXCEPT !.buf = Append(@, NL)])
      <3> DEFINE buf == Append(sh.buf, NL)
                 s == [sh EXCEPT !.buf = Append(@, NL)]
      <3>2. buf \in Seq(Cell)
        <4> HIDE DEF Cell
        <4> QED BY <1>1, TermIs, AppendProperties DEF Shell
      <3>3. s = [sh EXCEPT !.buf = buf]
        OBVIOUS
      <3> HIDE DEF buf, s
      <3>4. s \in Shell /\ s.mode = "edit" /\ s.typed = sh.typed /\ s.text = sh.text /\ s.added = sh.added
        BY <1>1, <2>2, <3>2, <3>3 DEF Shell
      <3>5. Good(s)
        BY <1>1, <1>3, <2>2, <3>4 DEF LineIdle
      <3> QED BY <1>2, <2>2, <3>5 DEF s
    <2>3. \/ /\ sh.mode = "cli"
             /\ \E room \in SUBSET {"write", "mkdir"} :
                  Pressed1([ExecuteCliCommand([sh EXCEPT !.room = room]) EXCEPT !.typed = <<>>, !.room = {}])
          \/ sh.mode = "edit" /\ Pressed1([sh EXCEPT !.buf = Append(@, NL)])
      BY <1>7, Zenon DEF ShEnter
    <2> QED BY <2>1, <2>2, <2>3, Zenon
  <1>8. CASE ShQuit
    <2>1. CASE sh.mode \in {"top", "bmp"} /\ Pressed1(FreshTerminal(sh))
      <3>1. sh.typed = <<>>
        BY <1>1, <2>1 DEF LineIdle
      <3> QED BY <1>1, <1>2, <1>4, <2>1, <3>1
    <2>2. CASE sh.mode = "snake" /\ Pressed1(Picked(sh, "gui"))
      <3> DEFINE s == Picked(sh, "gui")
      <3>1. s \in Shell /\ s.mode = "gui" /\ s.typed = sh.typed /\ s.text = sh.text /\ s.added = sh.added
        BY <1>1, TermIs DEF Picked, Shell, Mode
      <3> HIDE DEF s
      <3>2. Good(s)
        BY <1>1, <1>3, <2>2, <3>1 DEF LineIdle
      <3> QED BY <1>2, <2>2, <3>2 DEF s
    <2> QED BY <1>8, <2>1, <2>2 DEF ShQuit
  <1>9. CASE ShToggle
    <2>1. CASE sh.mode = "gui" /\ Pressed1(FreshTerminal([sh EXCEPT !.typed = <<>>]))
      <3> DEFINE s == [sh EXCEPT !.typed = <<>>]
      <3>1. <<>> \in Seq(ShWord)
        BY EmptySeq
      <3>2. s \in Shell /\ s.typed = <<>> /\ s.text = sh.text /\ s.added = sh.added
        BY <1>1, <3>1 DEF Shell
      <3> HIDE DEF s
      <3>3. Users(s)
        BY <1>1, <3>2 DEF Users
      <3> QED BY <1>2, <1>4, <2>1, <3>2, <3>3 DEF s
    <2>2. CASE sh.mode = "cli" /\ Pressed1([sh EXCEPT !.mode = "gui", !.typed = <<>>, !.screen = Picture])
      <3> DEFINE s == [sh EXCEPT !.mode = "gui", !.typed = <<>>, !.screen = Picture]
      <3>1. <<>> \in Seq(ShWord)
        BY EmptySeq
      <3>2. s \in Shell /\ s.mode = "gui" /\ s.typed = <<>> /\ s.text = sh.text /\ s.added = sh.added
        BY <1>1, <3>1, TermIs DEF Shell, Mode
      <3> HIDE DEF s
      <3>3. Good(s)
        BY <1>3, <3>2
      <3> QED BY <1>2, <2>2, <3>3 DEF s
    <2>3. CASE sh.mode \notin {"gui", "cli"} /\ Pressed1([sh EXCEPT !.mode = "gui", !.screen = Picture])
      <3> DEFINE s == [sh EXCEPT !.mode = "gui", !.screen = Picture]
      <3>1. s \in Shell /\ s.mode = "gui" /\ s.typed = sh.typed /\ s.text = sh.text /\ s.added = sh.added
        BY <1>1, TermIs DEF Shell, Mode
      <3> HIDE DEF s
      <3>2. Good(s)
        BY <1>1, <1>3, <2>3, <3>1 DEF LineIdle
      <3> QED BY <1>2, <2>3, <3>2 DEF s
    <2> QED BY <1>9, <2>1, <2>2, <2>3 DEF ShToggle
  <1> QED BY <1>5, <1>6, <1>7, <1>8, <1>9 DEF ShNext

\* The invariant that the theorem below rests on: what the screen owes the
\* canvas, the cursor the line, and the file of users those who were added.
THEOREM ShellHolds == ShSpec => []ShInv
  <1>1. ShInv <=> sh = ShOff \/ Good(sh)
    BY DEF ShInv, Good
  <1>2. sh \in {ShStart, ShOff} => ShInv
    BY <1>1, ShStarts
  <1>3. ShInv /\ [ShNext]_sh => ShInv'
    <2>1. ASSUME ShInv, ShNext PROVE ShInv'
      <3>1. sh # ShOff
        BY <2>1 DEF ShNext, ShOff
      <3>2. Good(sh')
        BY <1>1, <2>1, <3>1, ShStepKeeps
      <3> QED BY <3>2 DEF ShInv, Good
    <2>2. ASSUME ShInv, UNCHANGED sh PROVE ShInv'
      BY <2>2 DEF ShInv
    <2> QED BY <2>1, <2>2
  <1> QED BY <1>2, <1>3, PTL DEF ShSpec

\* The terminal and the shell of test_os keep their word, for every size of
\* the terminal and every line: the screen is the canvas whenever the shell
\* waits (os_putchar, flush_full_canvas_to_vram), the line Enter will run is
\* what stands before the cursor (os_handle_keypress), and whom adduser
\* gave a line of /etc/passwd can log in with the password typed for them,
\* while the text fits (execute_cli_command, verify_user_password).
THEOREM ShellWorks == ShSpec => []ShellShows
  <1>1. ShInv => ShellShows
    <2> SUFFICES ASSUME ShInv, sh.mode # "off" PROVE ScreenShows /\ EchoAgrees /\ NewcomersLogIn
      BY DEF ShellShows
    <2>1. sh \in Shell /\ Shown(sh) /\ Echoed(sh) /\ Users(sh)
      BY DEF ShInv, ShOff
    <2>2. ScreenShows
      BY <2>1 DEF ScreenShows, Shown
    <2>3. EchoAgrees
      <3> SUFFICES ASSUME sh.mode = "cli", ~sh.batch, ~sh.wrapped
                   PROVE  SubSeq(sh.screen[sh.row + 1], sh.col - Len(sh.typed) + 1, sh.col) = Words(sh.typed)
        BY DEF EchoAgrees
      <3> DEFINE n == Len(sh.typed)
                 row == sh.canvas[sh.row + 1]
                 from == sh.col - n + 1
      <3>1. sh.screen = sh.canvas /\ n <= sh.col /\ \A i \in 1 .. n : row[sh.col - n + i] = <<sh.typed[i]>>
        BY <2>1 DEF Shown, Echoed
      <3>2. n \in Nat /\ sh.col \in 0 .. TermCols - 1
        BY <2>1, LenProperties DEF Shell
      <3>3. row \in Seq(Cell) /\ Len(row) = TermCols
        <4>1. sh.row + 1 \in 1 .. TermRows /\ sh.canvas \in Canvas
          BY <2>1, TermIs DEF Shell
        <4>2. row \in [1 .. TermCols -> Cell]
          BY <4>1 DEF Canvas
        <4> HIDE DEF Cell, row
        <4> QED BY <4>2, TermIs
      <3> HIDE DEF row, n, Cell
      <3>4. from \in 1 .. TermCols /\ sh.col - from + 1 = n /\ from \in Int /\ sh.col \in Int
        BY <3>1, <3>2, TermIs
      <3>5. SubSeq(row, from, sh.col) = [i \in 1 .. n |-> row[i + from - 1]]
        <4>1. \A m, k \in Int : SubSeq(row, m, k) = [i \in 1 .. k - m + 1 |-> row[i + m - 1]]
          BY <3>3
        <4> HIDE DEF from
        <4> QED BY <3>4, <4>1
      <3>6. \A i \in 1 .. n : row[i + from - 1] = <<sh.typed[i]>>
        <4> SUFFICES ASSUME NEW i \in 1 .. n PROVE row[i + from - 1] = <<sh.typed[i]>>
          OBVIOUS
        <4>1. i + from - 1 = sh.col - n + i
          BY <3>2
        <4> QED BY <3>1, <4>1
      <3>7. Words(sh.typed) = [i \in 1 .. n |-> <<sh.typed[i]>>]
        BY DEF Words, n
      <3> QED BY <3>1, <3>5, <3>6, <3>7 DEF n, row
    <2>4. NewcomersLogIn
      BY <2>1, NamesAre DEF NewcomersLogIn, TextOf, Users, AllEntered
    <2> QED BY <2>2, <2>3, <2>4
  <1> QED BY <1>1, ShellHolds, PTL

-----------------------------------------------------------------------------
(* sysbox: the menu.                                                        *)

BoxPc == {"render", "key", "args", "tool", "app", "gui", "leave", "left"}
Menu ==
  [pc : BoxPc, visible : BoxVisible, tab : 1 .. Len(BoxTabs), item : Nat, scroll : Nat, theme : Nat, wall : Nat,
   sel : 0 .. 4, term : {"raw", "cooked"}, orig : {"raw", "cooked", "none"}, messed : BOOLEAN]

\* The selection is an entry of the tab, and a tab that fits is not scrolled.
InTab(b) == b.item < Len(Items(b)) /\ (Len(Items(b)) <= b.visible => b.scroll = 0)
\* While the menu waits for a key the selection is in the window.
InView(b) == b.pc \in {"key", "args"} => b.scroll <= b.item /\ b.item < b.scroll + b.visible
\* The terminal is raw for the menu, which knows how it was.
RawForMenu(b) ==
  IF b.pc \in {"tool", "app", "left"} THEN b.messed \/ b.term = "cooked"
  ELSE b.term = "raw" /\ b.orig # "none" /\ (b.messed \/ b.orig = "cooked")

BoxInv == box = BoxOff \/ (box \in Menu /\ InTab(box) /\ InView(box) /\ RawForMenu(box))

\* The entries of a tab.
LEMMA MenuIs ==
  /\ Len(BoxTabs) \in Nat /\ Len(BoxTabs) >= 1 /\ BoxVisible \subseteq Nat /\ \A v \in BoxVisible : v >= 1
  /\ \A t \in 1 .. Len(BoxTabs) : Len(BoxTabs[t]) \in Nat /\ Len(BoxTabs[t]) >= 1
  /\ BoxWidth \in Nat /\ BoxThemes \in Nat /\ BoxThemes >= 1
  BY BoxMenus, BoxSizes

\* The selected entry has a row of the window, and the rows keep the order.
LEMMA RowsShow ==
  ASSUME NEW b \in Menu, InTab(b), b.scroll <= b.item, b.item < b.scroll + b.visible
  PROVE  /\ \E r \in DOMAIN Rows(b) : Rows(b)[r] = b.item
         /\ \A r, s \in DOMAIN Rows(b) :
              r < s /\ Rows(b)[r] # NoItem /\ Rows(b)[s] # NoItem => Rows(b)[r] <= Rows(b)[s]
  <1> DEFINE n == Len(Items(b))
             v == b.visible
             row(r) == RowItem(b, r, v)
  <1>1. /\ n \in Nat /\ n >= 1 /\ v \in Nat /\ v >= 1 /\ b.item \in Nat /\ b.scroll \in Nat /\ b.item < n
        /\ (n <= v => b.scroll = 0)
    BY MenuIs DEF Menu, Items, InTab
  <1>2. DOMAIN Rows(b) = 1 .. v + 2 /\ \A r \in 1 .. v + 2 : Rows(b)[r] = row(r - 1)
    BY DEF Rows
  <1>3. \A r \in 0 .. v + 1 :
          row(r) = LET at == b.scroll + IF r > 0 THEN r - 1 ELSE r
                   IN IF (r = 0 /\ b.scroll > 0) \/ (r = v + 1 /\ b.scroll + v < n) THEN NoItem
                      ELSE IF at < n /\ (r - 1 < v \/ n <= v)
                      THEN LET i == IF n <= v THEN r ELSE at IN IF i < n THEN i ELSE NoItem
                      ELSE NoItem
    BY DEF RowItem
  <1> HIDE DEF n, v, row
  <1>4. \E r \in 0 .. v + 1 : row(r) = b.item
    <2>1. CASE n <= v
      <3>1. b.item \in 0 .. v + 1 /\ b.scroll = 0 /\ b.item < v
        BY <1>1, <2>1
      <3>2. row(b.item) = b.item
        BY <1>1, <1>3, <2>1, <3>1
      <3> QED BY <3>1, <3>2
    <2>2. CASE ~(n <= v)
      <3> DEFINE r == b.item - b.scroll + 1
      <3>1. r \in 0 .. v + 1 /\ r > 0 /\ r <= v /\ b.scroll + (r - 1) = b.item
        BY <1>1 DEF v
      <3>2. row(r) = b.item
        BY <1>1, <1>3, <2>2, <3>1
      <3> QED BY <3>1, <3>2
    <2> QED BY <2>1, <2>2
  <1>5. \A r, s \in 0 .. v + 1 : r < s /\ row(r) # NoItem /\ row(s) # NoItem => row(r) <= row(s)
    BY <1>1, <1>3
  <1>6. \E r \in 1 .. v + 2 : Rows(b)[r] = b.item
    <2>1. PICK r \in 0 .. v + 1 : row(r) = b.item
      BY <1>4
    <2>2. r + 1 \in 1 .. v + 2 /\ (r + 1) - 1 = r
      BY <1>1
    <2> QED BY <1>2, <2>1, <2>2
  <1>7. \A r, s \in 1 .. v + 2 : r < s /\ Rows(b)[r] # NoItem /\ Rows(b)[s] # NoItem => Rows(b)[r] <= Rows(b)[s]
    <2> SUFFICES ASSUME NEW r \in 1 .. v + 2, NEW s \in 1 .. v + 2, r < s, Rows(b)[r] # NoItem, Rows(b)[s] # NoItem
                 PROVE  Rows(b)[r] <= Rows(b)[s]
      OBVIOUS
    <2>1. r - 1 \in 0 .. v + 1 /\ s - 1 \in 0 .. v + 1 /\ r - 1 < s - 1
      BY <1>1
    <2> QED BY <1>2, <1>5, <2>1
  <1> QED BY <1>2, <1>6, <1>7

\* render_bios_setup scrolls to the selected entry.
LEMMA ScrolledIs ==
  ASSUME NEW b \in Menu, InTab(b)
  PROVE  LET c == ScrolledTo(b, b.visible)
         IN  /\ c = [b EXCEPT !.scroll = c.scroll] /\ c.scroll \in Nat
             /\ c.scroll <= b.item /\ b.item < c.scroll + b.visible
             /\ Len(Items(b)) <= b.visible => c.scroll = 0
  <1> DEFINE s == IF b.item < b.scroll THEN b.item
                  ELSE IF b.item >= b.scroll + b.visible THEN b.item - b.visible + 1 ELSE b.scroll
             c == ScrolledTo(b, b.visible)
  <1>1. /\ Len(Items(b)) \in Nat /\ b.visible \in Nat /\ b.visible >= 1 /\ b.item \in Nat /\ b.scroll \in Nat
        /\ b.item < Len(Items(b)) /\ (Len(Items(b)) <= b.visible => b.scroll = 0)
    BY MenuIs DEF Menu, Items, InTab
  <1>2. /\ s \in Nat /\ s <= b.item /\ b.item < s + b.visible /\ (Len(Items(b)) <= b.visible => s = 0)
    BY <1>1
  <1>3. c = [b EXCEPT !.scroll = s]
    BY DEF ScrolledTo
  <1> HIDE DEF s
  <1>4. c.scroll = s
    BY <1>3 DEF Menu
  <1> QED BY <1>2, <1>3, <1>4

-----------------------------------------------------------------------------
(* A state that differs from another in some fields.                        *)

\* The selection is where it was.
SameEntry(b, c) == c.visible = b.visible /\ c.tab = b.tab /\ c.item = b.item /\ c.scroll = b.scroll

MenuGood(b) == b \in Menu /\ InTab(b) /\ InView(b) /\ RawForMenu(b)

\* A state of the menu that is not waiting for a key, with the same entry.
LEMMA SameEntryIs ==
  ASSUME NEW b \in Menu, NEW c \in Menu, InTab(b), SameEntry(b, c), RawForMenu(c),
         c.pc \in {"key", "args"} => InView(c)
  PROVE  MenuGood(c)
  BY DEF SameEntry, MenuGood, InTab, InView, Items

\* The terminal goes back and is taken again.
LEMMA TermTaken ==
  ASSUME NEW b \in Menu, InTab(b), b.messed \/ b.term = "cooked", NEW term \in {"cooked", "raw"}, NEW pc \in {"render", "gui"},
         NEW c, c = [EnableRaw([b EXCEPT !.term = term]) EXCEPT !.pc = pc, !.messed = @ \/ term # "cooked"]
  PROVE  MenuGood(c)
  <1>1. (b.messed \/ term # "cooked") \in BOOLEAN /\ pc \in BoxPc
    BY DEF BoxPc
  <1> DEFINE m == b.messed \/ term # "cooked"
  <1>2. c = [b EXCEPT !.term = "raw", !.orig = term, !.pc = pc, !.messed = m]
    BY DEF EnableRaw, Menu
  <1>3. m = TRUE \/ term = "cooked"
    BY <1>1
  <1> HIDE DEF m
  <1>4. /\ c \in Menu /\ c.pc = pc /\ c.term = "raw" /\ c.orig = term /\ c.messed = m /\ SameEntry(b, c)
    BY <1>1, <1>2 DEF Menu, SameEntry, m
  <1> QED BY <1>3, <1>4, SameEntryIs DEF RawForMenu

LEMMA TermGiven ==
  ASSUME NEW b \in Menu, InTab(b), RawForMenu(b), b.pc \notin {"tool", "app", "left"}, NEW pc \in {"tool", "app", "left"}
  PROVE  MenuGood([Restored(b) EXCEPT !.pc = pc])
  <1> DEFINE c == [Restored(b) EXCEPT !.pc = pc]
  <1>1. c = [b EXCEPT !.term = b.orig, !.pc = pc]
    BY DEF Restored, Menu
  <1>2. b.orig \in {"raw", "cooked"} /\ pc \in BoxPc
    BY DEF RawForMenu, Menu, BoxPc
  <1> HIDE DEF c
  <1>3. c \in Menu /\ c.pc = pc /\ c.term = b.orig /\ c.messed = b.messed /\ SameEntry(b, c)
    BY <1>1, <1>2 DEF Menu, SameEntry
  <1>4. RawForMenu(c)
    BY <1>3 DEF RawForMenu
  <1>5. MenuGood(c)
    BY <1>3, <1>4, SameEntryIs
  <1> QED BY <1>5 DEF c

\* From one state of the menu to another, the terminal stays raw.
LEMMA StaysRaw ==
  ASSUME NEW b \in Menu, InTab(b), RawForMenu(b), b.pc \notin {"tool", "app", "left"},
         NEW c \in Menu, c.pc \in {"render", "gui", "leave"}, SameEntry(b, c),
         c.term = b.term, c.orig = b.orig, c.messed = b.messed
  PROVE  MenuGood(c)
  <1>1. RawForMenu(c)
    BY DEF RawForMenu
  <1> QED BY <1>1, SameEntryIs

\* launch_tool.
LEMMA LaunchIs ==
  ASSUME NEW b, MenuGood(b), b.pc \in {"key", "args"}
  PROVE  MenuGood(Launch(b))
  <1>1. b \in Menu /\ InTab(b) /\ RawForMenu(b)
    BY DEF MenuGood
  <1> DEFINE l == [b EXCEPT !.pc = "leave"]
             n == (b.theme + 1) % BoxThemes
             t == [b EXCEPT !.pc = "render", !.theme = (@ + 1) % BoxThemes]
             g == [b EXCEPT !.pc = "gui", !.sel = 0]
  <1>2. MenuGood(l)
    <2>1. l \in Menu /\ l.pc = "leave" /\ SameEntry(b, l) /\ l.term = b.term /\ l.orig = b.orig /\ l.messed = b.messed
      BY <1>1 DEF Menu, SameEntry, BoxPc
    <2> HIDE DEF l
    <2> QED BY <1>1, <2>1, StaysRaw
  <1>3. MenuGood(t)
    <2>1. n \in Nat
      BY <1>1, MenuIs DEF Menu
    <2>2. t = [b EXCEPT !.pc = "render", !.theme = n]
      OBVIOUS
    <2> HIDE DEF n, t
    <2>3. t \in Menu /\ t.pc = "render" /\ SameEntry(b, t) /\ t.term = b.term /\ t.orig = b.orig /\ t.messed = b.messed
      BY <1>1, <2>1, <2>2 DEF Menu, SameEntry, BoxPc
    <2> QED BY <1>1, <2>3, StaysRaw
  <1>4. MenuGood(g)
    <2>2. 0 \in 0 .. 4 /\ "gui" \in BoxPc
      BY DEF BoxPc
    <2>1. g \in Menu /\ g.pc = "gui" /\ SameEntry(b, g) /\ g.term = b.term /\ g.orig = b.orig /\ g.messed = b.messed
      BY <1>1, <2>2 DEF Menu, SameEntry
    <2> HIDE DEF g
    <2> QED BY <1>1, <2>1, StaysRaw
  <1>5. MenuGood([Restored(b) EXCEPT !.pc = "tool"])
    BY <1>1, TermGiven
  <1> HIDE DEF l, t, g
  <1> QED BY <1>2, <1>3, <1>4, <1>5 DEF Launch, l, t, g

\* Another tab, from its first entry.
LEMMA ToTabIs ==
  ASSUME NEW b, MenuGood(b), b.pc = "key", NEW k \in 1 .. Len(BoxTabs)
  PROVE  MenuGood(ToTab(b, k))
  <1> DEFINE c == ToTab(b, k)
  <1>1. b \in Menu /\ RawForMenu(b)
    BY DEF MenuGood
  <1>2. /\ c \in Menu /\ c.pc = "render" /\ c.tab = k /\ c.item = 0 /\ c.scroll = 0
        /\ c.term = b.term /\ c.orig = b.orig /\ c.messed = b.messed
    BY <1>1 DEF ToTab, Menu, BoxPc
  <1> HIDE DEF c
  <1>3. InTab(c) /\ InView(c) /\ RawForMenu(c)
    BY <1>1, <1>2, MenuIs DEF InTab, InView, RawForMenu, Items
  <1>4. MenuGood(c)
    BY <1>2, <1>3 DEF MenuGood
  <1> QED BY <1>4 DEF c

\* The keys that move the selection: an entry of the tab, the window follows
\* when it is drawn.
LEMMA MovedIs ==
  ASSUME NEW b, MenuGood(b), b.pc = "key", NEW i \in Nat, i < Len(Items(b)), NEW s \in {0, b.scroll},
         NEW c, c = [b EXCEPT !.pc = "render", !.item = i, !.scroll = s]
  PROVE  MenuGood(c)
  <1>1. b \in Menu /\ RawForMenu(b) /\ InTab(b)
    BY DEF MenuGood
  <1>2. s \in Nat /\ (b.scroll = 0 => s = 0)
    BY <1>1 DEF Menu
  <1>3. /\ c \in Menu /\ c.pc = "render" /\ c.tab = b.tab /\ c.item = i /\ c.scroll = s /\ c.visible = b.visible
        /\ c.term = b.term /\ c.orig = b.orig /\ c.messed = b.messed
    BY <1>1, <1>2 DEF Menu, BoxPc
  <1>4. InTab(c) /\ InView(c) /\ RawForMenu(c)
    BY <1>1, <1>2, <1>3 DEF InTab, InView, RawForMenu, Items
  <1> QED BY <1>3, <1>4 DEF MenuGood

LEMMA BoxKeyKeeps ==
  ASSUME MenuGood(box), BoxKey
  PROVE  MenuGood(box')
  <1> DEFINE n == Len(Items(box))
             L == Len(BoxTabs)
  <1>1. /\ box \in Menu /\ InTab(box) /\ InView(box) /\ RawForMenu(box) /\ box.pc = "key"
        /\ n \in Nat /\ n >= 1 /\ box.item \in Nat /\ box.item < n /\ box.scroll \in Nat
        /\ L \in Nat /\ L >= 1 /\ box.tab \in 1 .. L
    BY MenuIs DEF MenuGood, BoxKey, Menu, InTab, Items
  <1>2. ASSUME NEW th \in Nat, box' = [box EXCEPT !.pc = "render", !.theme = th] PROVE MenuGood(box')
    <2> DEFINE c == box'
    <2>1. c \in Menu /\ c.pc = "render" /\ SameEntry(box, c) /\ c.term = box.term /\ c.orig = box.orig /\ c.messed = box.messed
      BY <1>1, <1>2 DEF Menu, SameEntry, BoxPc
    <2> QED BY <1>1, <2>1, StaysRaw
  <1>3. CASE box' = [box EXCEPT !.pc = "render", !.theme = (@ + 1) % BoxThemes]
    <2> DEFINE th == (box.theme + 1) % BoxThemes
    <2>1. th \in Nat
      BY <1>1, MenuIs DEF Menu
    <2>2. box' = [box EXCEPT !.pc = "render", !.theme = th]
      BY <1>3
    <2> HIDE DEF th
    <2> QED BY <1>2, <2>1, <2>2
  <1>4. CASE box' = [box EXCEPT !.pc = "render"]
    <2>1. box.theme \in Nat /\ box' = [box EXCEPT !.pc = "render", !.theme = box.theme]
      BY <1>1, <1>4 DEF Menu
    <2> QED BY <1>2, <2>1
  <1>5. CASE box' = ToTab(box, NextTab(box))
    <2>1. NextTab(box) \in 1 .. L
      BY <1>1 DEF NextTab
    <2> QED BY <1>1, <1>5, <2>1, ToTabIs
  <1>6. CASE box' = ToTab(box, PrevTab(box))
    <2>1. PrevTab(box) \in 1 .. L
      <3> DEFINE x == box.tab + L - 2
      <3>1. PrevTab(box) = (x % L) + 1
        BY DEF PrevTab
      <3>2. x \in Nat
        BY <1>1
      <3> HIDE DEF x, L
      <3>3. x % L \in 0 .. L - 1
        BY <1>1, <3>2
      <3> QED BY <1>1, <3>1, <3>3
    <2> QED BY <1>1, <1>6, <2>1, ToTabIs
  <1>7. CASE box' = Launch(box)
    BY <1>1, <1>7, LaunchIs
  <1>8. CASE box' = [box EXCEPT !.pc = "args"]
    <2> DEFINE c == box'
    <2>1. /\ c \in Menu /\ c.pc = "args" /\ SameEntry(box, c) /\ c.term = box.term /\ c.orig = box.orig /\ c.messed = box.messed
      BY <1>1, <1>8 DEF Menu, SameEntry, BoxPc
    <2>2. InView(c) /\ RawForMenu(c)
      BY <1>1, <2>1 DEF InView, RawForMenu, SameEntry
    <2> QED BY <1>1, <2>1, <2>2, SameEntryIs
  <1>9. ASSUME box' = [box EXCEPT !.pc = "leave"] PROVE MenuGood(box')
    <2> DEFINE c == box'
    <2>1. c \in Menu /\ c.pc = "leave" /\ SameEntry(box, c) /\ c.term = box.term /\ c.orig = box.orig /\ c.messed = box.messed
      BY <1>1, <1>9 DEF Menu, SameEntry, BoxPc
    <2> QED BY <1>1, <2>1, StaysRaw
  <1>10. CASE box' = IF box.tab # L THEN ToTab(box, L) ELSE [box EXCEPT !.pc = "leave"]
    <2>1. L \in 1 .. L
      BY <1>1
    <2> QED BY <1>1, <1>9, <1>10, <2>1, ToTabIs
  <1>11. CASE box' = [box EXCEPT !.pc = "render", !.item = IF @ > 0 THEN @ - 1 ELSE n - 1]
    <2> DEFINE i == IF box.item > 0 THEN box.item - 1 ELSE n - 1
    <2>1. i \in Nat /\ i < n
      BY <1>1
    <2>2. box' = [box EXCEPT !.pc = "render", !.item = i, !.scroll = box.scroll]
      BY <1>1, <1>11 DEF Menu
    <2> HIDE DEF i
    <2> QED BY <1>1, <2>1, <2>2, MovedIs
  <1>12. CASE box' = IF box.item + 1 < n THEN [box EXCEPT !.pc = "render", !.item = @ + 1]
                     ELSE [box EXCEPT !.pc = "render", !.item = 0, !.scroll = 0]
    <2>1. CASE box.item + 1 < n
      <3> DEFINE i == box.item + 1
      <3>1. i \in Nat /\ i < n /\ box' = [box EXCEPT !.pc = "render", !.item = i]
        BY <1>1, <1>12, <2>1
      <3> HIDE DEF i
      <3>2. box' = [box EXCEPT !.pc = "render", !.item = i, !.scroll = box.scroll]
        BY <1>1, <3>1 DEF Menu
      <3> QED BY <1>1, <3>1, <3>2, MovedIs
    <2>2. CASE ~(box.item + 1 < n)
      <3>1. box' = [box EXCEPT !.pc = "render", !.item = 0, !.scroll = 0] /\ 0 < n
        BY <1>1, <1>12, <2>2
      <3> QED BY <1>1, <3>1, MovedIs
    <2> QED BY <2>1, <2>2
  <1> QED BY <1>3, <1>4, <1>5, <1>6, <1>7, <1>8, <1>9, <1>10, <1>11, <1>12 DEF BoxKey

\* The little desktop behind the entry "gui": it starts a program or turns
\* to the menu, and one of its five entries is marked.
LEMMA GuiItemIs ==
  ASSUME NEW b, MenuGood(b), b.pc = "gui", NEW i \in 0 .. 4
  PROVE  MenuGood(GuiItem(b, i))
  <1>1. b \in Menu /\ InTab(b) /\ RawForMenu(b)
    BY DEF MenuGood
  <1>2. CASE i < 3
    <2>1. GuiItem(b, i) = [Restored(b) EXCEPT !.pc = "app"]
      BY <1>2 DEF GuiItem
    <2>2. MenuGood([Restored(b) EXCEPT !.pc = "app"])
      BY <1>1, TermGiven
    <2> QED BY <2>1, <2>2
  <1>3. CASE i = 3
    <2> DEFINE w == (b.wall + 1) % 3
               c == [b EXCEPT !.wall = (@ + 1) % 3]
    <2>1. w \in Nat
      BY <1>1 DEF Menu
    <2>2. c = [b EXCEPT !.wall = w]
      OBVIOUS
    <2> HIDE DEF w, c
    <2>3. c \in Menu /\ c.pc = "gui" /\ SameEntry(b, c) /\ c.term = b.term /\ c.orig = b.orig /\ c.messed = b.messed
      BY <1>1, <2>1, <2>2 DEF Menu, SameEntry
    <2>4. MenuGood(c)
      BY <1>1, <2>3, StaysRaw
    <2>5. GuiItem(b, i) = c
      BY <1>3 DEF GuiItem, c
    <2> QED BY <2>4, <2>5
  <1>4. CASE i = 4
    <2> DEFINE c == [b EXCEPT !.pc = "render", !.sel = 0]
    <2>1. 0 \in 0 .. 4 /\ "render" \in BoxPc
      BY DEF BoxPc
    <2>2. c \in Menu /\ c.pc = "render" /\ SameEntry(b, c) /\ c.term = b.term /\ c.orig = b.orig /\ c.messed = b.messed
      BY <1>1, <2>1 DEF Menu, SameEntry
    <2> HIDE DEF c
    <2>3. MenuGood(c)
      BY <1>1, <2>2, StaysRaw
    <2>4. GuiItem(b, i) = c
      BY <1>4 DEF GuiItem, c
    <2> QED BY <2>3, <2>4
  <1> QED BY <1>2, <1>3, <1>4

LEMMA BoxStepKeeps ==
  ASSUME MenuGood(box), BoxNext
  PROVE  MenuGood(box')
  <1>1. box \in Menu /\ InTab(box) /\ RawForMenu(box)
    BY DEF MenuGood
  <1>2. CASE BoxRender
    <2> DEFINE s == ScrolledTo(box, box.visible)
               k == s.scroll
    <2>1. /\ s = [box EXCEPT !.scroll = k] /\ k \in Nat
          /\ k <= box.item /\ box.item < k + box.visible
          /\ Len(Items(box)) <= box.visible => k = 0
      BY <1>1, ScrolledIs
    <2>2. box' = [s EXCEPT !.pc = "key"] /\ box.pc = "render"
      BY <1>2 DEF BoxRender
    <2> HIDE DEF s, k
    <2>3. /\ box' \in Menu /\ box'.pc = "key" /\ box'.scroll = k /\ box'.tab = box.tab /\ box'.item = box.item
          /\ box'.visible = box.visible /\ box'.term = box.term /\ box'.orig = box.orig /\ box'.messed = box.messed
      BY <1>1, <2>1, <2>2 DEF Menu, BoxPc
    <2>4. InTab(box') /\ InView(box') /\ RawForMenu(box')
      BY <1>1, <2>1, <2>2, <2>3 DEF InTab, InView, RawForMenu, Items
    <2> QED BY <2>3, <2>4 DEF MenuGood
  <1>3. CASE BoxKey
    BY <1>3, BoxKeyKeeps
  <1>4. CASE BoxArgs
    <2>1. box.pc = "args" /\ (box' = Launch(box) \/ box' = [box EXCEPT !.pc = "render"])
      BY <1>4 DEF BoxArgs
    <2>2. CASE box' = Launch(box)
      BY <2>1, <2>2, LaunchIs
    <2>3. CASE box' = [box EXCEPT !.pc = "render"]
      <3>1. /\ box' \in Menu /\ box'.pc = "render" /\ SameEntry(box, box') /\ box'.term = box.term
            /\ box'.orig = box.orig /\ box'.messed = box.messed
        BY <1>1, <2>3 DEF Menu, SameEntry, BoxPc
      <3> QED BY <1>1, <2>1, <3>1, StaysRaw
    <2> QED BY <2>1, <2>2, <2>3
  <1>5. CASE BoxTool
    <2>1. PICK term \in {"cooked", "raw"} :
            box' = [EnableRaw([box EXCEPT !.term = term]) EXCEPT !.pc = "render", !.messed = @ \/ term # "cooked"]
      BY <1>5 DEF BoxTool
    <2>2. box.messed \/ box.term = "cooked"
      BY <1>1, <1>5 DEF BoxTool, RawForMenu
    <2> QED BY <1>1, <2>1, <2>2, TermTaken
  <1>6. CASE BoxApp
    <2>1. PICK term \in {"cooked", "raw"} :
            box' = [EnableRaw([box EXCEPT !.term = term]) EXCEPT !.pc = "gui", !.messed = @ \/ term # "cooked"]
      BY <1>6 DEF BoxApp
    <2>2. box.messed \/ box.term = "cooked"
      BY <1>1, <1>6 DEF BoxApp, RawForMenu
    <2> QED BY <1>1, <2>1, <2>2, TermTaken
  <1>7. CASE BoxGui
    <2>1. box.pc = "gui" /\ box.sel \in 0 .. 4
      BY <1>1, <1>7 DEF BoxGui, Menu
    <2>2. ASSUME NEW s \in 0 .. 4, NEW pc \in {"gui", "render"}, box' = [box EXCEPT !.pc = pc, !.sel = s]
          PROVE  MenuGood(box')
      <3>1. /\ box' \in Menu /\ box'.pc = pc /\ SameEntry(box, box') /\ box'.term = box.term
            /\ box'.orig = box.orig /\ box'.messed = box.messed
        BY <1>1, <2>2 DEF Menu, SameEntry, BoxPc
      <3> QED BY <1>1, <2>1, <3>1, StaysRaw
    <2>3. CASE box' = [box EXCEPT !.pc = "render", !.sel = 0]
      <3>1. 0 \in 0 .. 4
        OBVIOUS
      <3> QED BY <2>2, <2>3, <3>1
    <2>4. ASSUME NEW s \in 0 .. 4, box' = [box EXCEPT !.sel = s] PROVE MenuGood(box')
      <3>1. box' = [box EXCEPT !.pc = "gui", !.sel = s]
        BY <1>1, <2>1, <2>4 DEF Menu
      <3> QED BY <2>2, <3>1
    <2>5. CASE box' = [box EXCEPT !.sel = IF @ > 0 THEN @ - 1 ELSE 4]
      <3> DEFINE s == IF box.sel > 0 THEN box.sel - 1 ELSE 4
      <3>1. s \in 0 .. 4 /\ box' = [box EXCEPT !.sel = s]
        BY <2>1, <2>5
      <3> HIDE DEF s
      <3> QED BY <2>4, <3>1
    <2>6. CASE box' = [box EXCEPT !.sel = IF @ < 4 THEN @ + 1 ELSE 0]
      <3> DEFINE s == IF box.sel < 4 THEN box.sel + 1 ELSE 0
      <3>1. s \in 0 .. 4 /\ box' = [box EXCEPT !.sel = s]
        BY <2>1, <2>6
      <3> HIDE DEF s
      <3> QED BY <2>4, <3>1
    <2>7. ASSUME NEW i \in 0 .. 4, box' = GuiItem(box, i) PROVE MenuGood(box')
      BY <2>1, <2>7, GuiItemIs
    <2> QED BY <1>7, <2>1, <2>3, <2>5, <2>6, <2>7 DEF BoxGui
  <1>8. CASE BoxLeave
    <2>1. box.pc = "leave" /\ box' = [Restored(box) EXCEPT !.pc = "left"]
      BY <1>8 DEF BoxLeave
    <2> QED BY <1>1, <2>1, TermGiven
  <1> QED BY <1>2, <1>3, <1>4, <1>5, <1>6, <1>7, <1>8 DEF BoxNext

LEMMA BoxStartsGood ==
  ASSUME NEW b \in BoxStarts
  PROVE  MenuGood(b)
  <1>1. PICK v \in BoxVisible :
          b = EnableRaw([pc |-> "render", visible |-> v, tab |-> 1, item |-> 0, scroll |-> 0, theme |-> 0, wall |-> 0, sel |-> 0,
                         term |-> "cooked", orig |-> "none", messed |-> FALSE])
    BY DEF BoxStarts
  <1>2. b = [pc |-> "render", visible |-> v, tab |-> 1, item |-> 0, scroll |-> 0, theme |-> 0, wall |-> 0, sel |-> 0,
             term |-> "raw", orig |-> "cooked", messed |-> FALSE]
    BY <1>1 DEF EnableRaw
  <1>3. 0 \in 0 .. 4 /\ 0 \in Nat /\ 1 \in 1 .. Len(BoxTabs) /\ "render" \in BoxPc
    BY MenuIs DEF BoxPc
  <1>4. b \in Menu
    BY <1>2, <1>3 DEF Menu
  <1>5. InTab(b) /\ InView(b) /\ RawForMenu(b)
    BY <1>2, <1>3, MenuIs DEF InTab, InView, RawForMenu, Items
  <1> QED BY <1>4, <1>5 DEF MenuGood

-----------------------------------------------------------------------------
(* The description in its three lines.                                      *)

WordLens == Nat \ {0}

\* LettersIn: the function it defines exists, and a word more adds its length.
Total(l, f) == f \in [0 .. Len(l) -> Nat] /\ f[0] = 0 /\ \A n \in 1 .. Len(l) : f[n] = f[n - 1] + l[n]

LEMMA TotalExists ==
  ASSUME NEW l \in Seq(WordLens)
  PROVE  \E f : Total(l, f)
  <1> DEFINE N == Len(l)
             Steps(k, f) == f \in [0 .. N -> Nat] /\ f[0] = 0 /\ \A n \in 1 .. k : f[n] = f[n - 1] + l[n]
             Unreached == {k \in 0 .. N : ~\E f : Steps(k, f)}
  <1>1. N \in Nat /\ \A n \in 1 .. N : l[n] \in Nat
    BY LenProperties, ElementOfSeq DEF WordLens
  <1> HIDE DEF N
  <1>2. Unreached = {}
    <2> SUFFICES ASSUME Unreached # {} PROVE FALSE
      OBVIOUS
    <2>1. Unreached \in SUBSET Nat
      BY <1>1
    <2>2. PICK k \in Unreached : \A m \in Unreached : k <= m
      <3> HIDE DEF Unreached
      <3> QED BY <2>1, LeastIs
    <2>3. k \in 0 .. N
      BY <2>2
    <2>4. k # 0
      <3> DEFINE f == [n \in 0 .. N |-> 0]
      <3>1. f \in [0 .. N -> Nat] /\ f[0] = 0
        BY <1>1
      <3> HIDE DEF f
      <3>2. Steps(0, f)
        BY <3>1
      <3> QED BY <2>2, <3>2
    <2>5. PICK g : Steps(k - 1, g)
      <3>1. k - 1 \in 0 .. N /\ ~(k <= k - 1)
        BY <1>1, <2>3, <2>4
      <3>2. k - 1 \notin Unreached
        BY <2>2, <3>1
      <3> QED BY <3>1, <3>2
    <2>6. k \in 1 .. N /\ k - 1 \in 0 .. N
      BY <1>1, <2>3, <2>4
    <2> DEFINE h == [g EXCEPT ![k] = g[k - 1] + l[k]]
    <2>7. /\ h \in [0 .. N -> Nat] /\ h[k] = g[k - 1] + l[k] /\ \A n \in 0 .. N : n # k => h[n] = g[n]
      <3>1. g \in [0 .. N -> Nat] /\ g[k - 1] + l[k] \in Nat
        BY <1>1, <2>5, <2>6
      <3> QED BY <2>3, <3>1
    <2> HIDE DEF h
    <2>8. h[0] = 0
      BY <1>1, <2>4, <2>5, <2>7
    <2>9. ASSUME NEW n \in 1 .. k PROVE h[n] = h[n - 1] + l[n]
      <3>1. n \in 0 .. N /\ n - 1 \in 0 .. N /\ n - 1 # k
        BY <1>1, <2>3
      <3>2. CASE n = k
        BY <2>7, <3>1, <3>2
      <3>3. CASE n # k
        <4>1. n \in 1 .. k - 1
          BY <1>1, <2>3, <3>3
        <4>2. g[n] = g[n - 1] + l[n]
          BY <2>5, <4>1
        <4> QED BY <2>7, <3>1, <3>3, <4>2
      <3> QED BY <3>2, <3>3
    <2>10. Steps(k, h)
      BY <2>7, <2>8, <2>9
    <2> QED BY <2>2, <2>10
  <1>3. N \in 0 .. N
    BY <1>1
  <1>4. PICK f : Steps(N, f)
    BY <1>2, <1>3
  <1>5. Total(l, f)
    BY <1>4 DEF Total, N
  <1> QED BY <1>5

\* Two totals of lines that agree so far agree so far.
LEMMA TotalsAgree ==
  ASSUME NEW l \in Seq(WordLens), NEW k \in Seq(WordLens), NEW f, NEW g, Total(l, f), Total(k, g),
         NEW m \in Nat, m <= Len(l), m <= Len(k), \A i \in 1 .. m : l[i] = k[i]
  PROVE  f[m] = g[m]
  <1> DEFINE Differ == {n \in 0 .. m : f[n] # g[n]}
  <1> SUFFICES ASSUME Differ # {} PROVE FALSE
    OBVIOUS
  <1>1. Differ \in SUBSET Nat
    OBVIOUS
  <1>2. PICK n \in Differ : \A j \in Differ : n <= j
    <2> HIDE DEF Differ
    <2> QED BY <1>1, LeastIs
  <1>3. n \in 0 .. m /\ f[n] # g[n]
    BY <1>2
  <1>4. n # 0
    BY <1>3 DEF Total
  <1>5. n \in 1 .. m /\ n \in 1 .. Len(l) /\ n \in 1 .. Len(k) /\ n - 1 \in 0 .. m /\ ~(n <= n - 1)
    BY <1>3, <1>4, LenProperties
  <1>6. f[n - 1] = g[n - 1]
    BY <1>2, <1>5
  <1>7. f[n] = f[n - 1] + l[n] /\ g[n] = g[n - 1] + k[n]
    BY <1>5 DEF Total
  <1> QED BY <1>3, <1>5, <1>6, <1>7

LEMMA LettersIs ==
  ASSUME NEW l \in Seq(WordLens)
  PROVE  \E f : Total(l, f) /\ LettersIn(l) = f[Len(l)]
  <1> DEFINE N == Len(l)
             body(f, n) == IF n = 0 THEN 0 ELSE f[n - 1] + l[n]
             Whole(f) == f = [n \in 0 .. N |-> body(f, n)]
             upto == CHOOSE f : Whole(f)
  <1>1. N \in Nat /\ \A n \in 1 .. N : l[n] \in Nat
    BY LenProperties, ElementOfSeq DEF WordLens
  <1>2. PICK f : Total(l, f)
    BY TotalExists
  <1>3. f \in [0 .. N -> Nat] /\ f[0] = 0 /\ \A n \in 1 .. N : f[n] = f[n - 1] + l[n]
    BY <1>2 DEF Total
  <1>4. Whole(f)
    <2>1. \A n \in 0 .. N : n # 0 => n \in 1 .. N
      BY <1>1
    <2>2. \A n \in 0 .. N : f[n] = body(f, n)
      BY <1>3, <2>1
    <2>3. f = [n \in 0 .. N |-> f[n]]
      BY <1>3
    <2> HIDE DEF body, N
    <2> QED BY <2>2, <2>3
  <1>5. Whole(upto)
    BY <1>4
  <1> HIDE DEF upto
  <1>6. \A n \in 0 .. N : upto[n] = body(upto, n)
    <2> HIDE DEF body, N
    <2>1. \A n \in 0 .. N : [m \in 0 .. N |-> body(upto, m)][n] = body(upto, n)
      OBVIOUS
    <2> QED BY <1>5, <2>1, Zenon
  <1>7. ASSUME NEW n \in 0 .. N PROVE upto[n] = f[n]
    <2> DEFINE Differ == {k \in 0 .. N : upto[k] # f[k]}
    <2> SUFFICES ASSUME Differ # {} PROVE FALSE
      OBVIOUS
    <2>1. Differ \in SUBSET Nat
      BY <1>1
    <2>2. PICK k \in Differ : \A m \in Differ : k <= m
      <3> HIDE DEF Differ
      <3> QED BY <2>1, LeastIs
    <2>3. k \in 0 .. N /\ upto[k] # f[k] /\ upto[k] = body(upto, k)
      BY <1>6, <2>2
    <2>4. k # 0
      BY <1>3, <2>3
    <2>5. k \in 1 .. N /\ k - 1 \in 0 .. N /\ ~(k <= k - 1)
      BY <1>1, <2>3, <2>4
    <2>6. upto[k - 1] = f[k - 1]
      BY <2>2, <2>5
    <2> QED BY <1>3, <2>3, <2>4, <2>5, <2>6
  <1>8. N \in 0 .. N
    BY <1>1
  <1>9. LettersIn(l) = upto[N]
    BY Zenon DEF LettersIn, upto, body, N
  <1> QED BY <1>2, <1>7, <1>8, <1>9

LEMMA LettersAppend ==
  ASSUME NEW l \in Seq(WordLens), NEW w \in WordLens
  PROVE  /\ LettersIn(l) \in Nat /\ LettersIn(Append(l, w)) = LettersIn(l) + w
         /\ LettersIn(<<>>) = 0
  <1> DEFINE k == Append(l, w)
             n == Len(l)
  <1>1. k \in Seq(WordLens) /\ Len(k) = n + 1 /\ n \in Nat /\ k[n + 1] = w /\ \A i \in 1 .. n : l[i] = k[i]
    BY AppendProperties, LenProperties
  <1> HIDE DEF k
  <1>2. PICK f : Total(l, f) /\ LettersIn(l) = f[n]
    BY LettersIs
  <1>3. PICK g : Total(k, g) /\ LettersIn(k) = g[n + 1]
    BY <1>1, LettersIs
  <1>4. f[n] = g[n]
    BY <1>1, <1>2, <1>3, TotalsAgree
  <1>5. n + 1 \in 1 .. Len(k) /\ n \in 0 .. n /\ (n + 1) - 1 = n
    BY <1>1
  <1>6. g[n + 1] = g[n] + w
    BY <1>1, <1>3, <1>5 DEF Total
  <1>7. f[n] \in Nat
    BY <1>2, <1>5 DEF Total
  <1>8. LettersIn(<<>>) = 0
    <2>1. <<>> \in Seq(WordLens) /\ Len(<<>>) = 0
      BY EmptySeq
    <2>2. PICK e : Total(<<>>, e) /\ LettersIn(<<>>) = e[0]
      BY <2>1, LettersIs
    <2> QED BY <2>2 DEF Total
  <1> QED BY <1>2, <1>3, <1>4, <1>6, <1>7, <1>8 DEF k

WordLine == Seq(WordLens)
Laid == [line : 1 .. 4, col : Nat, out : [1 .. 3 -> WordLine]]
\* The column behind the words of a line, and the line with a word more.
Column(l) == IF l = <<>> THEN 0 ELSE LettersIn(l) + Len(l) - 1
Extended(acc, j, w) ==
  [line |-> j, col |-> Column(Append(acc.out[j], w)), out |-> [acc.out EXCEPT ![j] = Append(@, w)]]
InAll(out) == out[1] \o out[2] \o out[3]
Narrow(l) == Len(l) < 2 \/ LettersIn(l) + Len(l) - 1 <= BoxWidth

\* The words laid out so far are the first ones of the description, until a
\* fourth line would be needed; the column is that of the line.
LaidOut(words, acc) ==
  /\ acc \in Laid
  /\ \A j \in 1 .. 3 : Narrow(acc.out[j]) /\ (j > acc.line => acc.out[j] = <<>>)
  /\ acc.line <= 3 => acc.col = Column(acc.out[acc.line])
WordsSoFar(words, n, acc) ==
  \E m \in 0 .. n : (acc.line <= 3 => m = n) /\ InAll(acc.out) = SubSeq(words, 1, m)

LEMMA LaidIs ==
  /\ \A q, j, c, o :
       q = [line |-> j, col |-> c, out |-> o] /\ j \in 1 .. 4 /\ c \in Nat /\ o \in [1 .. 3 -> WordLine]
       => q \in Laid /\ q.line = j /\ q.col = c /\ q.out = o
  /\ \A acc \in Laid :
       /\ acc.line \in 1 .. 4 /\ acc.col \in Nat /\ acc.out \in [1 .. 3 -> WordLine]
       /\ [acc EXCEPT !.line = @ + 1, !.col = 0] = [line |-> acc.line + 1, col |-> 0, out |-> acc.out]
  <1> DEFINE Out == [1 .. 3 -> WordLine]
  <1>1. Laid = [line : 1 .. 4, col : Nat, out : Out]
    BY DEF Laid
  <1> HIDE DEF Out
  <1>2. ASSUME NEW q, NEW j, NEW c, NEW o, q = [line |-> j, col |-> c, out |-> o], j \in 1 .. 4, c \in Nat, o \in Out
        PROVE  q \in Laid /\ q.line = j /\ q.col = c /\ q.out = o
    BY <1>1, <1>2
  <1>3. ASSUME NEW acc \in Laid
        PROVE  /\ acc.line \in 1 .. 4 /\ acc.col \in Nat /\ acc.out \in Out
               /\ [acc EXCEPT !.line = @ + 1, !.col = 0] = [line |-> acc.line + 1, col |-> 0, out |-> acc.out]
    <2> DEFINE l == acc.line + 1
    <2>1. acc.line \in 1 .. 4 /\ acc.col \in Nat /\ acc.out \in Out
      BY <1>1
    <2>2. [acc EXCEPT !.line = @ + 1, !.col = 0] = [acc EXCEPT !.line = l, !.col = 0]
      OBVIOUS
    <2> HIDE DEF l
    <2>3. [acc EXCEPT !.line = l, !.col = 0] = [line |-> l, col |-> 0, out |-> acc.out]
      <3> DEFINE d == [acc EXCEPT !.line = l]
      <3>1. d = [line |-> l, col |-> acc.col, out |-> acc.out]
        BY <1>1
      <3> HIDE DEF d
      <3>2. [d EXCEPT !.col = 0] = [line |-> l, col |-> 0, out |-> acc.out]
        BY <3>1
      <3> QED BY <3>2 DEF d
    <2> QED BY <2>1, <2>2, <2>3 DEF l
  <1>4. \A q, j, c, o :
          q = [line |-> j, col |-> c, out |-> o] /\ j \in 1 .. 4 /\ c \in Nat /\ o \in Out
          => q \in Laid /\ q.line = j /\ q.col = c /\ q.out = o
    BY <1>2, Zenon
  <1> QED BY <1>3, <1>4 DEF Out

LEMMA LineIsWords ==
  ASSUME NEW l \in WordLine
  PROVE  Len(l) \in Nat /\ LettersIn(l) \in Nat /\ (l # <<>> => Len(l) >= 1 /\ LettersIn(l) >= 1)
  <1>1. LettersIn(l) \in Nat /\ Len(l) \in Nat
    <2>1. 1 \in WordLens
      BY DEF WordLens
    <2> QED BY <2>1, LettersAppend, LenProperties DEF WordLine
  <1>2. ASSUME l # <<>> PROVE Len(l) >= 1 /\ LettersIn(l) >= 1
    <2> DEFINE k == SubSeq(l, 1, Len(l) - 1)
               w == l[Len(l)]
    <2>1. Len(l) >= 1
      BY <1>1, <1>2, EmptySeq DEF WordLine
    <2>2. Len(l) \in 1 .. Len(l) /\ 1 \in 1 .. Len(l) /\ Len(l) \in 1 .. Len(l)
      BY <1>1, <2>1
    <2>3. w \in WordLens
      BY <2>2, ElementOfSeq DEF WordLine
    <2>4. k \in WordLine
      <3>1. 1 \in Int /\ Len(l) - 1 \in Int /\ \A i \in 1 .. Len(l) - 1 : i \in 1 .. Len(l)
        BY <1>1
      <3>2. \A i \in 1 .. Len(l) - 1 : l[i] \in WordLens
        BY <3>1, ElementOfSeq DEF WordLine
      <3> HIDE DEF WordLens
      <3> QED BY <3>1, <3>2, SubSeqProperties DEF WordLine
    <2>5. l = Append(k, w)
      <3>1. SubSeq(l, 1, Len(l)) = k \o <<w>>
        BY <2>2, SubSeqRecursiveSecond DEF WordLine
      <3>2. SubSeq(l, 1, Len(l)) = l
        BY SubSeqFull DEF WordLine
      <3>3. Append(k, w) = k \o <<w>>
        BY <2>3, <2>4, AppendIsConcat DEF WordLine
      <3> QED BY <3>1, <3>2, <3>3
    <2> HIDE DEF k, w
    <2>6. LettersIn(l) = LettersIn(k) + w /\ LettersIn(k) \in Nat
      BY <2>3, <2>4, <2>5, LettersAppend DEF WordLine
    <2> QED BY <2>1, <2>3, <2>6 DEF WordLens
  <1> QED BY <1>1, <1>2

LEMMA ColumnGrows ==
  ASSUME NEW l \in WordLine, NEW w \in WordLens
  PROVE  /\ Column(l) \in Nat /\ Column(Append(l, w)) \in Nat
         /\ Column(Append(l, w)) = Column(l) + w + IF Column(l) > 0 THEN 1 ELSE 0
         /\ Column(<<>>) = 0
         /\ (l # <<>> => Column(l) + w < BoxWidth) => Narrow(Append(l, w))
  <1> DEFINE k == Append(l, w)
             a == LettersIn(l)
             b == LettersIn(k)
             n == Len(l)
  <1>1. w \in Nat /\ w >= 1
    BY DEF WordLens
  <1>2. b = a + w
    BY LettersAppend DEF WordLine
  <1>3. Len(k) = n + 1 /\ k # <<>>
    <2> HIDE DEF WordLens
    <2> QED BY AppendProperties DEF WordLine
  <1>4. n \in Nat /\ a \in Nat /\ (l # <<>> => n >= 1 /\ a >= 1)
    BY LineIsWords
  <1>5. l = <<>> => n = 0 /\ a = 0
    <2>1. LettersIn(<<>>) = 0
      BY LettersAppend DEF WordLine
    <2> QED BY <2>1
  <1>6. Column(k) = b + Len(k) - 1 /\ Column(<<>>) = 0
    BY <1>3 DEF Column
  <1>7. Column(l) = IF l = <<>> THEN 0 ELSE a + n - 1
    BY DEF Column
  <1>8. Narrow(k) <=> Len(k) < 2 \/ b + Len(k) - 1 <= BoxWidth
    BY DEF Narrow
  <1>9. BoxWidth \in Nat
    BY MenuIs
  <1> HIDE DEF a, b, n, k
  <1>10. CASE l = <<>>
    BY <1>1, <1>2, <1>3, <1>4, <1>5, <1>6, <1>7, <1>8, <1>10 DEF k
  <1>11. CASE l # <<>>
    BY <1>1, <1>2, <1>3, <1>4, <1>6, <1>7, <1>8, <1>9, <1>11 DEF k
  <1> QED BY <1>10, <1>11

\* A word at the end of the last line that has words.
LEMMA AppendedToAll ==
  ASSUME NEW a \in WordLine, NEW b \in WordLine, NEW c \in WordLine, NEW w \in WordLens
  PROVE  /\ a \o b \o Append(c, w) = Append(a \o b \o c, w)
         /\ c = <<>> => a \o Append(b, w) \o c = Append(a \o b \o c, w)
         /\ b = <<>> /\ c = <<>> => Append(a, w) \o b \o c = Append(a \o b \o c, w)
  <1>1. \A s, t \in WordLine : s \o t \in WordLine /\ s \o <<>> = s /\ s \o Append(t, w) = Append(s \o t, w)
    <2> SUFFICES ASSUME NEW s \in WordLine, NEW t \in WordLine
                 PROVE  s \o t \in WordLine /\ s \o <<>> = s /\ s \o Append(t, w) = Append(s \o t, w)
      OBVIOUS
    <2>1. s \o t \in WordLine /\ s \o <<>> = s
      BY ConcatProperties, ConcatEmptySeq DEF WordLine
    <2>2. <<w>> \in WordLine
      BY DEF WordLine
    <2>3. Append(t, w) = t \o <<w>> /\ Append(s \o t, w) = (s \o t) \o <<w>>
      BY <2>1, AppendIsConcat DEF WordLine
    <2>4. (s \o t) \o <<w>> = s \o (t \o <<w>>)
      <3>1. s \in Seq(WordLens) /\ t \in Seq(WordLens) /\ <<w>> \in Seq(WordLens)
        BY <2>2 DEF WordLine
      <3> HIDE DEF WordLens
      <3> QED BY <3>1, ConcatAssociative
    <2> QED BY <2>1, <2>3, <2>4
  <1>2. Append(a, w) \in WordLine /\ Append(b, w) \in WordLine
    BY AppendProperties DEF WordLine
  <1> HIDE DEF WordLine
  <1>3. a \o b \in WordLine
    BY <1>1
  <1>4. (a \o b) \o Append(c, w) = Append((a \o b) \o c, w)
    BY <1>1, <1>3
  <1>5. ASSUME c = <<>> PROVE a \o Append(b, w) \o c = Append(a \o b \o c, w)
    <2>1. a \o Append(b, w) \in WordLine /\ a \o Append(b, w) = Append(a \o b, w)
      BY <1>1, <1>2
    <2>2. (a \o Append(b, w)) \o <<>> = a \o Append(b, w) /\ (a \o b) \o <<>> = a \o b
      BY <1>1, <1>3, <2>1
    <2> QED BY <1>5, <2>1, <2>2
  <1>6. ASSUME b = <<>>, c = <<>> PROVE Append(a, w) \o b \o c = Append(a \o b \o c, w)
    <2>1. Append(a, w) \o <<>> = Append(a, w) /\ a \o <<>> = a
      BY <1>1, <1>2
    <2> QED BY <1>6, <2>1
  <1> QED BY <1>4, <1>5, <1>6

\* The word follows all others when the lines behind its own are empty.
LEMMA ExtendedAll ==
  ASSUME NEW out \in [1 .. 3 -> WordLine], NEW o, NEW j \in 1 .. 3, NEW w \in WordLens,
         o[j] = Append(out[j], w), \A i \in 1 .. 3 : i # j => o[i] = out[i], \A i \in 1 .. 3 : i > j => out[i] = <<>>
  PROVE  InAll(o) = Append(InAll(out), w)
  <1> DEFINE x == out[1]
             y == out[2]
             z == out[3]
  <1>1. x \in WordLine /\ y \in WordLine /\ z \in WordLine
    BY DEF WordLine
  <1>2. InAll(out) = x \o y \o z /\ InAll(o) = o[1] \o o[2] \o o[3]
    BY DEF InAll
  <1>3. \/ o[1] = x /\ o[2] = y /\ o[3] = Append(z, w)
        \/ o[1] = x /\ o[2] = Append(y, w) /\ o[3] = z /\ z = <<>>
        \/ o[1] = Append(x, w) /\ o[2] = y /\ o[3] = z /\ y = <<>> /\ z = <<>>
    <2>1. j = 3 \/ j = 2 \/ j = 1
      OBVIOUS
    <2>2. CASE j = 3
      BY <2>2
    <2>3. CASE j = 2
      BY <2>3
    <2>4. CASE j = 1
      BY <2>4
    <2> QED BY <2>1, <2>2, <2>3, <2>4
  <1> HIDE DEF x, y, z, WordLine
  <1>4. x \o y \o Append(z, w) = Append(x \o y \o z, w)
    BY <1>1, AppendedToAll, Zenon
  <1>5. z = <<>> => x \o Append(y, w) \o z = Append(x \o y \o z, w)
    BY <1>1, AppendedToAll, Zenon
  <1>6. y = <<>> /\ z = <<>> => Append(x, w) \o y \o z = Append(x \o y \o z, w)
    BY <1>1, AppendedToAll, Zenon
  <1> QED BY <1>2, <1>3, <1>4, <1>5, <1>6, Zenon

\* The line a word goes to, with the word.
LEMMA WordWritten ==
  ASSUME NEW words \in WordLine, NEW n \in 1 .. Len(words), NEW acc \in Laid, NEW j \in 1 .. 3,
         \A i \in 1 .. 3 : Narrow(acc.out[i]) /\ (i > j => acc.out[i] = <<>>),
         InAll(acc.out) = SubSeq(words, 1, n - 1),
         acc.out[j] # <<>> => Column(acc.out[j]) + words[n] < BoxWidth
  PROVE  LET q == Extended(acc, j, words[n]) IN LaidOut(words, q) /\ WordsSoFar(words, n, q)
  <1> DEFINE w == words[n]
             l == acc.out[j]
             o == [acc.out EXCEPT ![j] = Append(l, w)]
             q == Extended(acc, j, words[n])
  <1>1. /\ w \in WordLens /\ acc.out \in [1 .. 3 -> WordLine] /\ l \in WordLine /\ Append(l, w) \in WordLine
        /\ Len(words) \in Nat /\ n \in Nat
    <2>1. w \in WordLens
      BY ElementOfSeq DEF WordLine
    <2>2. acc.out \in [1 .. 3 -> WordLine] /\ l \in WordLine
      BY LaidIs
    <2>3. Append(l, w) \in WordLine
      BY <2>1, <2>2, AppendProperties DEF WordLine
    <2>4. Len(words) \in Nat
      BY LenProperties DEF WordLine
    <2> QED BY <2>1, <2>2, <2>3, <2>4
  <1>2. /\ q = [line |-> j, col |-> Column(Append(l, w)), out |-> o]
        /\ l # <<>> => Column(l) + w < BoxWidth
        /\ \A i \in 1 .. 3 : Narrow(acc.out[i]) /\ (i > j => acc.out[i] = <<>>)
    BY DEF Extended
  <1> HIDE DEF w, l, q
  <1>3. Narrow(Append(l, w)) /\ Column(Append(l, w)) \in Nat
    BY <1>1, <1>2, ColumnGrows
  <1>4. o \in [1 .. 3 -> WordLine] /\ o[j] = Append(l, w) /\ \A i \in 1 .. 3 : i # j => o[i] = acc.out[i]
    <2> HIDE DEF WordLine
    <2> QED BY <1>1 DEF l
  <1>7. InAll(o) = Append(InAll(acc.out), w)
    <2>1. \A i \in 1 .. 3 : i > j => acc.out[i] = <<>>
      BY <1>2
    <2> HIDE DEF o, WordLine
    <2> QED BY <1>1, <1>4, <2>1, ExtendedAll DEF l
  <1>8. SubSeq(words, 1, n) = Append(SubSeq(words, 1, n - 1), w)
    <2>1. 1 \in 1 .. Len(words) /\ n \in 1 .. Len(words) /\ n - 1 \in Int
      BY <1>1
    <2>2. SubSeq(words, 1, n) = SubSeq(words, 1, n - 1) \o <<w>>
      BY <2>1, SubSeqRecursiveSecond DEF WordLine, w
    <2>3. SubSeq(words, 1, n - 1) \in WordLine
      <3>1. \A i \in 1 .. n - 1 : i \in 1 .. Len(words)
        BY <1>1
      <3>2. \A i \in 1 .. n - 1 : words[i] \in WordLens
        BY <3>1, ElementOfSeq DEF WordLine
      <3>3. 1 \in Int
        OBVIOUS
      <3> HIDE DEF WordLens
      <3> QED BY <2>1, <3>2, <3>3, SubSeqProperties DEF WordLine
    <2>4. Append(SubSeq(words, 1, n - 1), w) = SubSeq(words, 1, n - 1) \o <<w>>
      BY <1>1, <2>3, AppendIsConcat DEF WordLine
    <2> QED BY <2>2, <2>4
  <1> HIDE DEF o
  <1>9. q \in Laid /\ q.line = j /\ q.col = Column(o[j]) /\ q.out = o
    <2>1. j \in 1 .. 4
      OBVIOUS
    <2>2. q = [line |-> j, col |-> Column(o[j]), out |-> o] /\ Column(o[j]) \in Nat
      BY <1>2, <1>3, <1>4
    <2> QED BY <1>4, <2>1, <2>2, LaidIs, Zenon
  <1>10. LaidOut(words, q)
    <2>1. ASSUME NEW i \in 1 .. 3 PROVE Narrow(o[i]) /\ (i > j => o[i] = <<>>)
      <3>1. CASE i = j
        <4>1. o[i] = Append(l, w) /\ ~(i > j)
          BY <1>4, <3>1
        <4> QED BY <1>3, <4>1
      <3>2. CASE i # j
        BY <1>2, <1>4, <3>2
      <3> QED BY <3>1, <3>2
    <2> QED BY <1>9, <2>1 DEF LaidOut
  <1>11. WordsSoFar(words, n, q)
    <2>1. n \in 0 .. n
      BY <1>1
    <2>2. InAll(q.out) = SubSeq(words, 1, n)
      BY <1>7, <1>8, <1>9 DEF w
    <2> QED BY <2>1, <2>2 DEF WordsSoFar
  <1> QED BY <1>10, <1>11 DEF q

\* A word is placed.
LEMMA PlacedIs ==
  ASSUME NEW words \in WordLine, NEW n \in 1 .. Len(words), NEW acc, LaidOut(words, acc), WordsSoFar(words, n - 1, acc)
  PROVE  LaidOut(words, Placed(acc, words[n], BoxWidth)) /\ WordsSoFar(words, n, Placed(acc, words[n], BoxWidth))
  <1> DEFINE w == words[n]
             q == Placed(acc, w, BoxWidth)
             down == [acc EXCEPT !.line = @ + 1, !.col = 0]
  <1>1. /\ acc \in Laid /\ acc.line \in 1 .. 4 /\ acc.col \in Nat /\ acc.out \in [1 .. 3 -> WordLine]
        /\ w \in WordLens /\ w \in Nat /\ BoxWidth \in Nat /\ n \in Nat
        /\ \A j \in 1 .. 3 : Narrow(acc.out[j]) /\ (j > acc.line => acc.out[j] = <<>>)
    <2>1. w \in WordLens /\ Len(words) \in Nat
      BY ElementOfSeq, LenProperties DEF WordLine
    <2> QED BY <2>1, MenuIs DEF LaidOut, Laid, WordLens
  <1>2. PICK m \in 0 .. n - 1 : (acc.line <= 3 => m = n - 1) /\ InAll(acc.out) = SubSeq(words, 1, m)
    BY DEF WordsSoFar
  <1>3. m \in 0 .. n
    BY <1>1
  <1>4. down = [line |-> acc.line + 1, col |-> 0, out |-> acc.out]
    BY <1>1, LaidIs
  <1> DEFINE next == IF acc.col + w >= BoxWidth THEN down ELSE acc
  <1>9. q = CASE acc.line > 3 -> acc
              [] acc.line <= 3 /\ next.line > 3 -> next
              [] OTHER -> [next EXCEPT !.out[next.line] = Append(@, w), !.col = @ + w + IF @ > 0 THEN 1 ELSE 0]
    BY DEF Placed
  <1> HIDE DEF WordLine, q
  <1>5. CASE acc.line > 3
    <2>1. q = acc
      <3>1. ~(acc.line <= 3)
        BY <1>1, <1>5
      <3> QED BY <1>5, <1>9, <3>1
    <2>2. ~(acc.line <= 3)
      BY <1>1, <1>5
    <2> HIDE DEF q
    <2> QED BY <1>2, <1>3, <2>1, <2>2 DEF WordsSoFar, q, w
  <1>6. CASE acc.line <= 3 /\ acc.col + w >= BoxWidth /\ acc.line + 1 > 3
    <2>1. q = down
      <3>1. next = down /\ next.line > 3 /\ ~(acc.line > 3)
        BY <1>1, <1>4, <1>6
      <3> HIDE DEF next, down
      <3> QED BY <1>6, <1>9, <3>1
    <2>2. acc.line + 1 \in 1 .. 4 /\ ~(acc.line + 1 <= 3)
      BY <1>1, <1>6
    <2> HIDE DEF q
    <2>3. q \in Laid /\ q.line = acc.line + 1 /\ q.out = acc.out
      BY <1>1, <1>4, <2>1, <2>2 DEF Laid
    <2>4. \A j \in 1 .. 3 : ~(j > q.line)
      BY <2>2, <2>3
    <2>5. LaidOut(words, q)
      BY <1>1, <2>2, <2>3, <2>4 DEF LaidOut
    <2>6. WordsSoFar(words, n, q)
      BY <1>2, <1>3, <2>2, <2>3 DEF WordsSoFar
    <2> QED BY <2>5, <2>6 DEF q, w
  <1>7. CASE acc.line <= 3 /\ acc.col + w >= BoxWidth /\ ~(acc.line + 1 > 3)
    <2> DEFINE j == acc.line + 1
    <2>1. j \in 1 .. 3 /\ j > acc.line /\ \A i \in 1 .. 3 : i > j => i > acc.line
      BY <1>1, <1>7
    <2>2. acc.out[j] = <<>>
      BY <1>1, <2>1
    <2>3. q = Extended(acc, j, w)
      <3>1. next = down /\ next = [line |-> j, col |-> 0, out |-> acc.out] /\ ~(acc.line > 3)
        BY <1>1, <1>4, <1>7
      <3>2. ~(next.line > 3)
        BY <2>1, <3>1
      <3> HIDE DEF next, down, j
      <3>3. q = [next EXCEPT !.out[next.line] = Append(@, w), !.col = @ + w + IF @ > 0 THEN 1 ELSE 0]
        BY <1>9, <3>1, <3>2
      <3>4. next.line = j /\ next.out = acc.out /\ next.col = 0
        BY <3>1
      <3>5. q = [line |-> j, col |-> 0 + w + IF 0 > 0 THEN 1 ELSE 0, out |-> [acc.out EXCEPT ![j] = Append(@, w)]]
        BY <3>1, <3>3, <3>4
      <3>6. Column(Append(acc.out[j], w)) = 0 + w + IF 0 > 0 THEN 1 ELSE 0
        <4>1. acc.out[j] \in WordLine
          BY <1>1, <2>1
        <4>2. Column(<<>>) = 0 /\ Column(Append(<<>>, w)) = Column(<<>>) + w + IF Column(<<>>) > 0 THEN 1 ELSE 0
          BY <1>1, <2>2, <4>1, ColumnGrows
        <4> HIDE DEF w
        <4> QED BY <2>2, <4>2
      <3> QED BY <3>5, <3>6 DEF Extended
    <2> HIDE DEF j, q
    <2>4. InAll(acc.out) = SubSeq(words, 1, n - 1)
      BY <1>2, <1>7
    <2>5. \A i \in 1 .. 3 : Narrow(acc.out[i]) /\ (i > j => acc.out[i] = <<>>)
      BY <1>1, <2>1
    <2>6. LaidOut(words, q) /\ WordsSoFar(words, n, q)
      BY <1>1, <2>1, <2>2, <2>3, <2>4, <2>5, WordWritten DEF w
    <2> QED BY <2>6 DEF q, w
  <1>8. CASE acc.line <= 3 /\ ~(acc.col + w >= BoxWidth)
    <2> DEFINE j == acc.line
               k == acc.col
    <2>1. j \in 1 .. 3 /\ k + w < BoxWidth
      BY <1>1, <1>8
    <2>2. k = Column(acc.out[j])
      BY <1>8 DEF LaidOut
    <2>3. q = Extended(acc, j, w)
      <3>2. next = acc /\ ~(acc.line > 3)
        BY <1>1, <1>8
      <3>1. q = [acc EXCEPT !.out[j] = Append(@, w), !.col = @ + w + IF @ > 0 THEN 1 ELSE 0]
        BY <1>9, <3>2
      <3> DEFINE c == k + w + IF k > 0 THEN 1 ELSE 0
                 o == [acc.out EXCEPT ![j] = Append(@, w)]
      <3>3. c = Column(Append(acc.out[j], w)) /\ c \in Nat
        <4>1. acc.out[j] \in WordLine
          BY <1>1, <2>1
        <4> DEFINE x == acc.out[j]
        <4>2. Column(Append(x, w)) = Column(x) + w + (IF Column(x) > 0 THEN 1 ELSE 0) /\ Column(Append(x, w)) \in Nat
          <5> HIDE DEF x
          <5> QED BY <1>1, <4>1, ColumnGrows DEF x
        <4>3. k = Column(x)
          BY <2>2
        <4> HIDE DEF x, k
        <4> QED BY <4>2, <4>3 DEF x
      <3>4. q = [acc EXCEPT !.out = o, !.col = c]
        BY <3>1
      <3> HIDE DEF c, o
      <3>5. q = [line |-> j, col |-> c, out |-> o]
        BY <1>1, <3>4 DEF Laid
      <3> QED BY <3>3, <3>5 DEF Extended, o
    <2>4. k \in Nat
      BY <1>1
    <2> HIDE DEF j, k, q
    <2>5. InAll(acc.out) = SubSeq(words, 1, n - 1)
      BY <1>2, <1>8
    <2>6. \A i \in 1 .. 3 : Narrow(acc.out[i]) /\ (i > j => acc.out[i] = <<>>)
      BY <1>1 DEF j
    <2>7. LaidOut(words, q) /\ WordsSoFar(words, n, q)
      BY <1>1, <2>1, <2>2, <2>3, <2>5, <2>6, WordWritten DEF w
    <2> QED BY <2>7 DEF q, w
  <1> QED BY <1>1, <1>5, <1>6, <1>7, <1>8

\* wrap_text: the function that WrapText defines exists, by the least number
\* of words for which it would not.
LEMMA WrapTextIs ==
  ASSUME NEW words \in WordLine
  PROVE  \E acc : WrapText(words, BoxWidth) = acc.out /\ LaidOut(words, acc) /\ WordsSoFar(words, Len(words), acc)
  <1> DEFINE N == Len(words)
             none == [line |-> 1, col |-> 0, out |-> <<<<>>, <<>>, <<>> >>]
             body(f, n) == IF n = 0 THEN none ELSE Placed(f[n - 1], words[n], BoxWidth)
             Good3(n, acc) == LaidOut(words, acc) /\ WordsSoFar(words, n, acc)
             Steps(k, f) == f \in [0 .. N -> Laid] /\ \A n \in 0 .. k : f[n] = body(f, n) /\ Good3(n, f[n])
             Unreached == {k \in 0 .. N : ~\E f : Steps(k, f)}
             Whole(f) == f = [n \in 0 .. N |-> body(f, n)]
             after == CHOOSE f : Whole(f)
  <1>1. N \in Nat
    BY LenProperties DEF WordLine
  <1>2. Good3(0, none)
    <2> DEFINE o == <<<<>>, <<>>, <<>> >>
    <2>1. o \in [1 .. 3 -> WordLine] /\ o[1] = <<>> /\ o[2] = <<>> /\ o[3] = <<>> /\ <<>> \in WordLine
      <3>1. <<>> \in WordLine
        BY EmptySeq DEF WordLine
      <3> HIDE DEF WordLine
      <3> QED BY <3>1
    <2>2. none = [line |-> 1, col |-> 0, out |-> o]
      OBVIOUS
    <2> HIDE DEF o
    <2>3. none \in Laid /\ none.line = 1 /\ none.col = 0 /\ none.out = o
      <3>1. 1 \in 1 .. 4 /\ 0 \in Nat
        OBVIOUS
      <3> HIDE DEF none
      <3> QED BY <2>1, <2>2, <3>1, LaidIs, Zenon
    <2> HIDE DEF none
    <2>4. Column(<<>>) = 0 /\ Narrow(<<>>)
      BY DEF Column, Narrow
    <2>5. \A i \in 1 .. 3 : o[i] = <<>>
      BY <2>1
    <2>6. LaidOut(words, none)
      BY <2>3, <2>4, <2>5 DEF LaidOut
    <2>7. InAll(o) = <<>>
      <3>1. <<>> \o <<>> = <<>>
        BY <2>1, ConcatEmptySeq DEF WordLine
      <3> QED BY <2>1, <3>1 DEF InAll
    <2>8. SubSeq(words, 1, 0) = <<>>
      BY SubSeqEmpty
    <2>9. WordsSoFar(words, 0, none)
      BY <2>3, <2>7, <2>8 DEF WordsSoFar
    <2> QED BY <2>6, <2>9
  <1>3. \A f, n : n \in 1 .. N /\ Good3(n - 1, f[n - 1]) => body(f, n) \in Laid /\ Good3(n, body(f, n))
    <2> SUFFICES ASSUME NEW f, NEW n \in 1 .. N, Good3(n - 1, f[n - 1])
                 PROVE  body(f, n) \in Laid /\ Good3(n, body(f, n))
      BY Zenon
    <2>1. body(f, n) = Placed(f[n - 1], words[n], BoxWidth)
      BY <1>1
    <2>2. Good3(n, Placed(f[n - 1], words[n], BoxWidth))
      BY PlacedIs
    <2> HIDE DEF none, body
    <2> QED BY <2>1, <2>2 DEF LaidOut
  <1>4. \A f, g, n : n \in 0 .. N /\ (n # 0 => f[n - 1] = g[n - 1]) => body(f, n) = body(g, n)
    OBVIOUS
  <1>5. \A f : body(f, 0) = none
    OBVIOUS
  <1>14. none \in Laid
    BY <1>2 DEF LaidOut
  <1> HIDE DEF N, body, none, Good3
  <1>6. Unreached = {}
    <2> SUFFICES ASSUME Unreached # {} PROVE FALSE
      OBVIOUS
    <2>1. Unreached \in SUBSET Nat
      BY <1>1
    <2>2. PICK k \in Unreached : \A m \in Unreached : k <= m
      <3> HIDE DEF Unreached
      <3> QED BY <2>1, LeastIs
    <2>3. k \in 0 .. N
      BY <2>2
    <2>4. k # 0
      <3> DEFINE f == [n \in 0 .. N |-> none]
      <3>1. f \in [0 .. N -> Laid] /\ f[0] = none
        BY <1>1, <1>14
      <3> HIDE DEF f
      <3>2. \A n \in 0 .. 0 : n = 0
        OBVIOUS
      <3>3. \A n \in 0 .. 0 : f[n] = body(f, n) /\ Good3(n, f[n])
        BY <1>2, <1>5, <3>1, <3>2
      <3>4. Steps(0, f)
        BY <3>1, <3>3
      <3> QED BY <2>2, <3>4
    <2>5. PICK g : Steps(k - 1, g)
      <3>1. k - 1 \in 0 .. N /\ ~(k <= k - 1)
        BY <1>1, <2>3, <2>4
      <3>2. k - 1 \notin Unreached
        BY <2>2, <3>1
      <3> QED BY <3>1, <3>2
    <2>6. /\ k - 1 \in 0 .. k - 1 /\ k \in 1 .. N /\ k - 1 \in 0 .. N
      BY <1>1, <2>3, <2>4
    <2>7. Good3(k - 1, g[k - 1])
      BY <2>5, <2>6
    <2>8. body(g, k) \in Laid /\ Good3(k, body(g, k))
      BY <1>3, <2>6, <2>7
    <2> DEFINE h == [g EXCEPT ![k] = body(g, k)]
    <2>9. h \in [0 .. N -> Laid] /\ h[k] = body(g, k) /\ \A n \in 0 .. N : n # k => h[n] = g[n]
      BY <2>3, <2>5, <2>8
    <2> HIDE DEF h
    <2>10. ASSUME NEW n \in 0 .. k PROVE h[n] = body(h, n) /\ Good3(n, h[n])
      <3>1. n \in 0 .. N /\ (n # 0 => n - 1 \in 0 .. N /\ n - 1 # k)
        BY <1>1, <2>3
      <3>2. body(h, n) = body(g, n)
        BY <1>4, <2>9, <3>1
      <3>3. CASE n = k
        BY <2>8, <2>9, <3>2, <3>3
      <3>4. CASE n # k
        <4>1. n \in 0 .. k - 1
          BY <1>1, <2>3, <3>4
        <4>2. g[n] = body(g, n) /\ Good3(n, g[n])
          BY <2>5, <4>1
        <4> QED BY <2>9, <3>1, <3>2, <3>4, <4>2
      <3> QED BY <3>3, <3>4
    <2>11. Steps(k, h)
      BY <2>9, <2>10
    <2> QED BY <2>2, <2>11
  <1>7. PICK f : Steps(N, f)
    <2>1. N \in 0 .. N
      BY <1>1
    <2>2. N \notin Unreached
      BY <1>6
    <2> QED BY <2>1, <2>2
  <1>8. Whole(f)
    <2>1. f \in [0 .. N -> Laid] /\ \A n \in 0 .. N : f[n] = body(f, n)
      BY <1>7
    <2>2. f = [n \in 0 .. N |-> f[n]]
      BY <2>1
    <2> QED BY <2>1, <2>2
  <1>9. Whole(after)
    BY <1>8
  <1> HIDE DEF after
  <1>10. \A n \in 0 .. N : after[n] = body(after, n)
    <2>1. \A n \in 0 .. N : [m \in 0 .. N |-> body(after, m)][n] = body(after, n)
      OBVIOUS
    <2> QED BY <1>9, <2>1, Zenon
  <1>11. ASSUME NEW n \in 0 .. N PROVE after[n] = f[n]
    <2> DEFINE Differ == {k \in 0 .. N : after[k] # f[k]}
    <2> SUFFICES ASSUME Differ # {} PROVE FALSE
      OBVIOUS
    <2>1. Differ \in SUBSET Nat
      BY <1>1
    <2>2. PICK k \in Differ : \A m \in Differ : k <= m
      <3> HIDE DEF Differ
      <3> QED BY <2>1, LeastIs
    <2>3. k \in 0 .. N /\ after[k] # f[k]
      BY <2>2
    <2>4. k # 0 => after[k - 1] = f[k - 1]
      <3> SUFFICES ASSUME k # 0 PROVE after[k - 1] = f[k - 1]
        OBVIOUS
      <3>1. k - 1 \in 0 .. N /\ ~(k <= k - 1)
        BY <1>1, <2>3
      <3> QED BY <2>2, <3>1
    <2>5. body(after, k) = body(f, k)
      BY <1>4, <2>3, <2>4
    <2> QED BY <1>7, <1>10, <2>3, <2>5
  <1>12. Good3(N, after[N])
    BY <1>1, <1>7, <1>11
  <1>13. WrapText(words, BoxWidth) = after[N].out
    BY Zenon DEF WrapText, after, N, body, none
  <1> QED BY <1>12, <1>13 DEF Good3, N

\* The lines are wrapped.
LEMMA DescIsWrapped ==
  ASSUME NEW words \in WordLine
  PROVE  Wrapped(words, WrapText(words, BoxWidth))
  <1> DEFINE N == Len(words)
             out == WrapText(words, BoxWidth)
  <1>1. PICK acc : out = acc.out /\ LaidOut(words, acc) /\ WordsSoFar(words, N, acc)
    BY WrapTextIs
  <1> HIDE DEF out
  <1>2. PICK m \in 0 .. N : InAll(out) = SubSeq(words, 1, m)
    BY <1>1 DEF WordsSoFar
  <1>3. N \in Nat /\ m \in Nat /\ m <= N /\ 1 \in Int
    BY LenProperties DEF WordLine
  <1>4. SubSeq(words, 1, m) \in WordLine /\ Len(SubSeq(words, 1, m)) = m
    <2>1. \A i \in 1 .. m : words[i] \in WordLens
      <3>1. \A i \in 1 .. m : i \in 1 .. N
        BY <1>3
      <3> QED BY <3>1, ElementOfSeq DEF WordLine
    <2>2. Len(SubSeq(words, 1, m)) = IF 1 <= m THEN m - 1 + 1 ELSE 0
      <3> HIDE DEF WordLens
      <3> QED BY <1>3, <2>1, SubSeqProperties DEF WordLine
    <2>3. SubSeq(words, 1, m) \in WordLine
      <3> HIDE DEF WordLens
      <3> QED BY <1>3, <2>1, SubSeqProperties DEF WordLine
    <2> HIDE DEF WordLine
    <2> QED BY <1>3, <2>2, <2>3
  <1>5. IsPrefix(SubSeq(words, 1, m), words)
    <2>1. SubSeq(SubSeq(words, 1, m), 1, m) = SubSeq(words, 1, m)
      BY <1>4, SubSeqFull DEF WordLine
    <2> QED BY <1>3, <1>4, <2>1 DEF IsPrefix
  <1>6. \A i \in 1 .. 3 : Narrow(out[i])
    BY <1>1 DEF LaidOut
  <1> QED BY <1>2, <1>5, <1>6 DEF Wrapped, InAll, Narrow, out

\* The invariant that the theorem below rests on: the selection is an entry
\* of the tab and in the window, and the menu knows how the terminal was.
THEOREM MenuHolds == BoxSpec => []BoxInv
  <1>1. BoxInv <=> box = BoxOff \/ MenuGood(box)
    BY DEF BoxInv, MenuGood
  <1>2. box \in BoxStarts \cup {BoxOff} => BoxInv
    BY <1>1, BoxStartsGood
  <1>3. BoxInv /\ [BoxNext]_box => BoxInv'
    <2>1. ASSUME BoxInv, BoxNext PROVE BoxInv'
      <3>1. box # BoxOff
        BY <2>1 DEF BoxNext, BoxOff
      <3>2. MenuGood(box')
        BY <1>1, <2>1, <3>1, BoxStepKeeps
      <3> QED BY <3>2 DEF BoxInv, MenuGood
    <2>2. ASSUME BoxInv, UNCHANGED box PROVE BoxInv'
      BY <2>2 DEF BoxInv
    <2> QED BY <2>1, <2>2
  <1> QED BY <1>2, <1>3, PTL DEF BoxSpec

\* The menu shows what it is about to start, for all tabs, descriptions and
\* windows: the selected entry is on the screen, in the order of the tab, its
\* description is wrapped (render_bios_setup, wrap_text), and whatever is
\* started finds the terminal as it was (launch_tool, disable_raw_mode).
THEOREM MenuWorks == BoxSpec => []MenuShows
  <1>1. BoxInv => MenuShows
    <2> SUFFICES ASSUME BoxInv PROVE MenuShows
      OBVIOUS
    <2>1. CASE box = BoxOff
      <3>1. box.pc = "off"
        BY <2>1 DEF BoxOff
      <3> QED BY <3>1 DEF MenuShows
    <2>2. CASE box # BoxOff
      <3>1. box \in Menu /\ InTab(box) /\ InView(box) /\ RawForMenu(box)
        BY <2>2 DEF BoxInv
      <3>2. ASSUME box.pc \in {"key", "args"}
            PROVE  /\ LET rows == Rows(box) IN
                        /\ \E r \in DOMAIN rows : rows[r] = box.item
                        /\ \A r, s \in DOMAIN rows : r < s /\ rows[r] # NoItem /\ rows[s] # NoItem => rows[r] <= rows[s]
                   /\ Wrapped(Selected(box).words, Desc(box))
                   /\ box.term = "raw"
        <4>1. box.scroll <= box.item /\ box.item < box.scroll + box.visible
          BY <3>1, <3>2 DEF InView
        <4>2. /\ \E r \in DOMAIN Rows(box) : Rows(box)[r] = box.item
              /\ \A r, s \in DOMAIN Rows(box) :
                   r < s /\ Rows(box)[r] # NoItem /\ Rows(box)[s] # NoItem => Rows(box)[r] <= Rows(box)[s]
          BY <3>1, <4>1, RowsShow
        <4>3. Selected(box).words \in WordLine
          <5>1. box.tab \in 1 .. Len(BoxTabs) /\ box.item \in Nat /\ box.item < Len(BoxTabs[box.tab])
            BY <3>1 DEF Menu, InTab, Items
          <5>2. Len(BoxTabs[box.tab]) \in Nat
            BY <5>1, MenuIs
          <5>3. box.item + 1 \in 1 .. Len(BoxTabs[box.tab])
            BY <5>1, <5>2
          <5> QED BY <5>1, <5>3, BoxMenus DEF Selected, Items, WordLine, WordLens
        <4>4. Wrapped(Selected(box).words, Desc(box))
          BY <4>3, DescIsWrapped DEF Desc
        <4>5. box.term = "raw"
          BY <3>1, <3>2 DEF RawForMenu
        <4> QED BY <4>2, <4>4, <4>5
      <3>3. box.pc \in {"tool", "app", "left"} => box.messed \/ box.term = "cooked"
        BY <3>1 DEF RawForMenu
      <3>4. box.pc = "gui" => box.term = "raw" /\ GuiMarked(box) # {}
        <4>1. box.sel + 3 \in 3 .. 7 /\ (box.sel + 3) - 3 = box.sel
          BY <3>1 DEF Menu
        <4>2. box.sel + 3 \in GuiMarked(box)
          BY <4>1 DEF GuiMarked
        <4> QED BY <3>1, <4>2 DEF RawForMenu
      <3> QED BY <3>2, <3>3, <3>4 DEF MenuShows
    <2> QED BY <2>1, <2>2
  <1> QED BY <1>1, MenuHolds, PTL
=============================================================================
