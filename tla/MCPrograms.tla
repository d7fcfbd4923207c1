----------------------------- MODULE MCPrograms -----------------------------
(* Texts, menus, expressions, archives, programs and formats for the run of *)
(* Programs.                                                                *)
EXTENDS Programs

\* Texts of the editor and what is searched in them.
EdTexts == {<<>>, << <<"x", "{">>, <<" ", "x">>, <<"x">> >>}
EdTerms == {<< <<"x">>, <<>> >>, << <<"x">>, <<"x", "x", "x">> >>, << <<"{", "x">>, <<"x">> >>}

\* The tabs of the menu.
MenuEntry(cmd, words) == [cmd |-> cmd, words |-> words]
MenuTabs == << <<MenuEntry("gui", <<3, 2, 4>>), MenuEntry("tool", <<2, 9, 1, 1, 7>>)>>,
           [i \in 1 .. 5 |-> MenuEntry("tool", [j \in 1 .. 2 * i |-> 1 + ((i * j) % 5)])],
           <<MenuEntry("theme", <<>>), MenuEntry("tool", <<1>>), MenuEntry("exit", <<8, 8>>)>> >>

\* Expressions, and lines typed.
CalcLeaves == {Num(0), Num(2), Var("pi")}
CalcOps == {"+", "-", "*", "/", "^", "|", "<<"}
GrownExprs(ts, us) == {Bin(op, a, b) : op \in CalcOps, a \in ts, b \in us} \cup {Neg(a) : a \in ts} \cup {Fn(a) : a \in ts}
CalcExprs == LET one == CalcLeaves \cup GrownExprs(CalcLeaves, CalcLeaves)
         IN one \cup GrownExprs(one, CalcLeaves) \cup GrownExprs({Num(2)}, one) \cup GrownExprs(GrownExprs({Num(2)}, {Num(3)}), GrownExprs({Num(2)}, {Num(3)}))
CalcInputs == {[kind |-> "expr", tree |-> Num(2)], [kind |-> "set", name |-> "a", tree |-> Bin("+", Var("ans"), Num(1))],
          [kind |-> "set", name |-> "pi", tree |-> Num(3)], [kind |-> "set", name |-> "b", tree |-> Var("a")], [kind |-> "help"]}

\* Texts to compress, trees to pack, and what a file becomes meanwhile.
ZipTexts == UNION {[1 .. n -> {0, 1}] : n \in 1 .. 8} \cup {[i \in 1 .. 15 |-> IF i < 3 THEN i - 1 ELSE (i \div k) % 2] : k \in 1 .. 9}
  \cup {[i \in 1 .. n |-> i] : n \in 7 .. 16}
ZD(path, open) == [path |-> path, kind |-> "dir", data |-> <<>>, open |-> open]
ZF(path, data, open) == [path |-> path, kind |-> "file", data |-> data, open |-> open]
ZipSame == <<1, 1, 1, 1, 1, 1, 1, 1, 1>>
ZipTrees == {<<ZF(<<1>>, ZipSame, TRUE), ZD(<<2>>, TRUE), ZF(<<2, 1>>, <<>>, TRUE), [ZD(<<2, 2>>, TRUE) EXCEPT !.kind = "link"], ZF(<<2, 3>>, <<0, 1>>, FALSE)>>,
          <<ZD(<<1>>, FALSE), ZF(<<1, 1>>, <<0>>, TRUE), ZF(<<2>>, <<1, 1, 0>>, TRUE)>>}
ZipEdits == {<<>>, <<0, 0, 0, 0, 0>>}

\* Programs of the emulator; addresses are given from the start of the program.
At0 == C8Start
C8Rom(name, bytes, v) == [name |-> name, bytes |-> bytes, V |-> v]
MazeRom == C8Rom("maze", <<96, 0, 97, 0, 160, At0 + 34, 194, 1, 50, 1, 160, At0 + 30, 208, 20, 112, 4, 48, C8Width, 16, At0 + 4,
                         96, 0, 113, 4, 49, C8Height, 16, At0 + 4, 16, At0 + 28,
                         128, 64, 32, 16, 32, 64, 128, 16>>, <<0, 0, 0>>)
ArithRom(a, b) == C8Rom("arithmetic",
  <<131, 16, 131, 36, 132, 240,  133, 16, 133, 37, 134, 240,  135, 16, 135, 39, 136, 240,
    137, 16, 137, 6, 138, 240,  139, 16, 139, 14, 140, 240,  160, At0 + 48, 242, 51, 242, 101, 16, At0 + 36>>, <<0, a, b>>)
CallRom(d) == C8Rom("calls", <<32, At0 + 4, 16, At0 + 2, 112, 1, 80, 16, 32, At0 + 4, 114, 1, 0, 238>>, <<0, d, 0>>)
KeyRom == C8Rom("key", <<240, 10, 97, 7, 241, 41, 255, 30, 241, 158, 225, 161, 255, 85, 16, At0 + 14>>, <<0, 0, 0>>)
DelayRom == C8Rom("delay", <<241, 21, 241, 24, 242, 7, 66, 0, 16, At0 + 16, 146, 48, 0, 224, 176, At0 + 4, 16, At0 + 16>>, <<0, 2, 0>>)
C8Programs == {MazeRom, KeyRom, DelayRom} \cup {ArithRom(a, b) : a, b \in {0, 1, 127, 128, 200, 255}} \cup {CallRom(d) : d \in 1 .. 4}

\* Data, texts to decode, texts and versions of a code.
B64Datas == UNION {[1 .. n -> {0, 129, 255}] : n \in 0 .. 4} \cup {[i \in 1 .. n |-> (37 * i) % 256] : n \in 5 .. 11}
B64Texts == {<<0, 1>>, <<0, 0, 0, Foreign>>, <<0, 16, Pad, Pad, LineEnd>>, <<Pad, Pad, Pad, Pad>>, <<0, 0, 0, 0, 0, 0, 0, Foreign, LineEnd, LineEnd>>}
QrTexts == {[i \in 1 .. n |-> (71 * i) % 256] : n \in {0, 1, 5, 16, 17, 31, 32}}
QrV(size, data, ec, align) == [size |-> size, data |-> data, ec |-> ec, align |-> align]
QrVersions == <<QrV(21, 19, 7, 0), QrV(25, 34, 10, 18)>>

\* The tree of files at boot.
ShPaths == {<<>>, <<"etc">>, <<"etc", "passwd">>, <<"home">>, <<"home", "ana">>, <<"home", "ana", "ana">>}
BootTree == [p \in ShPaths |-> CASE p = <<"etc", "passwd">> -> "file" [] Len(p) < 2 -> "dir" [] OTHER -> "none"]
BootPasswd == << <<"root", "root">>, <<"\n">> >>
LongEntries == {<<"ana", "..">>}
AbsPaths == [w \in {"/etc/passwd"} |-> <<"etc", "passwd">>]

\* Where the snake starts.
SnakeHeadAt == <<2, 1>>

\* Formats of kvsnprintf.
Directed(text, width, left, pointer) == [text |-> text, width |-> width, left |-> left, pointer |-> pointer]
LibFormats == LET ds == {Directed(<<"a">>, 0, FALSE, FALSE), Directed(<<"b", "c">>, 4, TRUE, FALSE), Directed(<<"d">>, 3, FALSE, FALSE), Directed(<<"e">>, 0, FALSE, TRUE)}
           IN  {<<x, y>> : x, y \in ds} \cup {<<x, x, x>> : x \in ds}

\* Shapes around a screen of GfxW by GfxH points, and areas that change.
GfxPoints == (-1 .. 2) \X (-1 .. 2)
GfxShapes ==
  {[kind |-> "line", p |-> <<1, 1>>, q |-> q] : q \in (-4 .. 5) \X (-4 .. 5)} \cup
  {[kind |-> "circle", p |-> <<1, 2>>, r |-> r, fill |-> f] : r \in 0 .. 9, f \in BOOLEAN} \cup
  {[kind |-> "triangle", p |-> <<0, 1>>, q |-> q, t |-> t, fill |-> f] : q, t \in GfxPoints, f \in BOOLEAN} \cup
  {[kind |-> "rounded", p |-> <<1, -1>>, w |-> w, h |-> h, r |-> r, fill |-> f] : w, h \in {0, 3, 5, 6, 7}, r \in 0 .. 3, f \in BOOLEAN} \cup
  {[kind |-> "rect", p |-> p, w |-> w, h |-> 2, fill |-> f] : p \in GfxPoints, w \in -1 .. 2, f \in BOOLEAN}
GfxAreas == {<<-1, 0, 2, 1>>, <<0, 0, 1, 2>>, <<1, 1, 2, 3>>, <<2, -1, 4, 2>>, <<3, 0, 1, 1>>, <<0, 0, 3, 3>>}

\* Texts to hash, and directories with duplicates.
HashTexts == UNION {[1 .. n -> {0, 128, 77}] : n \in 0 .. 2} \cup {[i \in 1 .. n |-> (37 * i) % 256] : n \in 3 .. 6}
DupFile(name, text, open) == [name |-> name, size |-> Len(text), text |-> text, open |-> open]
DupDir(name, open, kids) == [name |-> name, kids |-> kids, open |-> open]
DupTrees ==
  {DupDir("top", TRUE, <<DupFile("a", <<1, 2>>, TRUE), DupDir("sub", TRUE, <<DupFile("b", <<1, 2>>, TRUE), DupDir("deep", TRUE, <<DupFile("x", <<1, 2>>, TRUE)>>)>>),
                       DupFile("c", <<2, 1>>, TRUE), DupFile("e", <<>>, TRUE)>>),
   DupDir("top", TRUE, <<DupFile("a", <<3>>, TRUE), DupFile("hidden", <<3>>, TRUE), DupFile("b", <<3>>, FALSE), DupFile("d", <<4, 4>>, TRUE), DupFile("f", <<3>>, TRUE)>>),
   DupDir("top", TRUE, <<DupDir("ignored", TRUE, <<DupFile("a", <<3>>, TRUE)>>), DupDir("closed", FALSE, <<DupFile("a", <<3>>, TRUE)>>)>>)}

\* What goes into a vault, and passwords.
VE(path, kind, mode, data) == [path |-> path, kind |-> kind, mode |-> mode, size |-> Len(data), data |-> data, open |-> TRUE]
VaultTargets ==
  {[dir |-> FALSE, entries |-> <<VE(<<>>, "file", 1, d)>>] : d \in {<<>>, <<1, 2, 3>>, <<2, 0, 1, 7, 7, 7, 7>>}} \cup
  {[dir |-> TRUE, entries |-> es] : es \in
    {<<>>,
     <<VE(<<1>>, "file", 0, <<5, 6>>), VE(<<2>>, "dir", 1, <<>>), VE(<<2, 1>>, "file", 1, <<>>), VE(<<2, 3>>, "dir", 1, <<>>), VE(<<3>>, "file", 1, <<0, 1, 2, 3, 4>>)>>,
     <<VE(<<1>>, "file", 1, <<5>>), [VE(<<2>>, "link", 1, <<1, 1>>) EXCEPT !.size = 1], VE(<<3>>, "file", 1, <<4>>)>>,
     <<VE(<<2>>, "dir", 1, <<>>), [VE(<<1>>, "file", 1, <<5, 2>>) EXCEPT !.open = FALSE], VE(<<3>>, "file", 1, <<4>>)>>,
     <<VE(<<1>>, "dir", 0, <<>>), VE(<<1, 2>>, "file", 1, <<2, 3, 1>>), VE(<<3>>, "file", 1, <<4>>)>>,
     <<VE(<<1>>, "file", 1, <<2>>), [VE(<<2>>, "file", 1, <<2, 2, 2>>) EXCEPT !.size = 2], VE(<<4>>, "dir", 1, <<>>)>>}}
VaultWords == {<<>>, <<1>>, <<1, 2>>, <<1, 2, 3>>, <<2, 2>>}
=============================================================================
