------------------------------- MODULE KShell -------------------------------
(***************************************************************************)
(* The terminal, the shell and the text editor of test_os                  *)
(* (test_os/kernel.c).  Text goes to a canvas in memory and from there to  *)
(* the screen: character by character while the user types, all at once    *)
(* when a command has run ("batch mode").                                  *)
(*                                                                         *)
(* A word is one column wide, so the line typed is a sequence of words and *)
(* a key is a word; a command that compares the blank behind its name is   *)
(* typed with it ("view " and no file, "cat " and no file).  What is on    *)
(* the canvas is a word, Blank, or "ana:pw:1001:...", which the file of    *)
(* users holds for <<"ana", "pw">> and no word contains.  A command runs   *)
(* whole inside the interrupt of the Enter key.  The disk below the tree   *)
(* of files is in KDiskFs.                                                 *)
(***************************************************************************)
EXTENDS Integers, Sequences, SequencesExt

CONSTANTS
  TermRows, TermCols,  \* TERM_ROWS, TERM_COLS
  ShCommand, ShArg,    \* the words a line begins with, the words after it
  ShAbs,       \* the absolute paths among the words, as sequences of names
  ShPath,      \* every path of the model
  ShTree,      \* the tree at boot: path -> "none", "dir" or "file"
  ShPasswd,    \* the text of /etc/passwd at boot: entries and ends of lines
  ShLong,      \* user and password whose entry is cut at the end of new_entry
  CliMax,      \* room in cli_input
  EditMax,     \* EDIT_BUF_SZ - 1
  PasswdMax,   \* entries and ends of lines that fit in updated_passwd
  ShKeys       \* bound on the keys pressed

\* The names of files and users: words that can be typed, and the kernel's.
ShName == ShCommand \cup ShArg \cup {"etc", "passwd", "home", "root", "1234"}

ASSUME ShWords == {"\n", "rubout"} \cap (ShCommand \cup ShArg) = {}
ASSUME ShSizes ==
  /\ {TermRows, TermCols, CliMax, EditMax, PasswdMax} \subseteq Nat
  /\ TermRows >= 1 /\ TermCols >= 1
ASSUME ShFiles ==
  /\ <<"etc", "passwd">> \in ShPath
  /\ ShPath \subseteq Seq(ShName)
  /\ \A w \in DOMAIN ShAbs : ShAbs[w] \in Seq(ShName)
  /\ ShTree \in [ShPath -> {"none", "dir", "file"}]
  /\ ShPasswd \in Seq(Seq(ShName \cup {"\n"})) /\ <<>> \notin ToSet(ShPasswd)

VARIABLE sh

ShOff == [mode |-> "off"]

NL == <<"\n">>
Rub == <<"rubout">>
Blank == <<>>
Words(line) == [i \in 1 .. Len(line) |-> <<line[i]>>]
BlankScreen == [r \in 1 .. TermRows |-> [c \in 1 .. TermCols |-> Blank]]
\* The desktop, the editor, a picture: whatever is not the terminal.
Picture == [r \in 1 .. TermRows |-> [c \in 1 .. TermCols |-> <<"picture">>]]
Passwd == <<"etc", "passwd">>
\* The text of a node whose data is NULL: it was never written.
NoData == <<Blank>>
\* Commands compared as a whole: with an argument they are unknown.
Bare == {"help", "calc", "snake", "top", "clear", "exit", "pwd"}

ShStart ==
  [mode |-> "gui", canvas |-> BlankScreen, screen |-> Picture, col |-> 0, row |-> 0,
   batch |-> FALSE, typed |-> <<>>, dir |-> <<>>, user |-> "root", isRoot |-> TRUE,
   type |-> ShTree, text |-> [p \in ShPath |-> IF p = Passwd THEN ShPasswd ELSE NoData],
   path |-> <<>>, buf |-> <<>>, keys |-> 0,
   room |-> {},        \* which of kvfs_write and kvfs_mkdir find room, while a command runs
   wrapped |-> FALSE,  \* history variable: the line has left its row
   added |-> {}]       \* history variable: entries adduser has begun a line with, since the
                       \* file was last written by another command

----------------------------------------------------------------------------
(* The terminal.                                                           *)

Flush(s) == [s EXCEPT !.screen = s.canvas]

BlitChar(s, r, c) ==
  IF s.batch THEN s ELSE [s EXCEPT !.screen[r + 1][c + 1] = s.canvas[r + 1][c + 1]]

ScrollUnflushed(s) ==
  [s EXCEPT !.canvas = Append(Tail(s.canvas), BlankScreen[1]), !.row = TermRows - 1]
Scroll(s) ==
  LET up == ScrollUnflushed(s)
  IN  IF s.batch THEN up ELSE Flush(up)

NewRow(s) ==
  LET down == [s EXCEPT !.col = 0, !.row = s.row + 1, !.wrapped = TRUE]
  IN  IF down.row >= TermRows THEN Scroll(down) ELSE down

Putchar(s, ch) ==
  IF ch = NL THEN NewRow(s)
  ELSE IF ch = Rub
  THEN IF s.col = 0 THEN s
       ELSE LET c == s.col - 1
            IN  BlitChar([s EXCEPT !.col = c, !.canvas[s.row + 1][c + 1] = Blank], s.row, c)
  ELSE LET drawn == BlitChar([s EXCEPT !.canvas[s.row + 1][s.col + 1] = ch], s.row, s.col)
       IN  IF s.col + 1 >= TermCols THEN NewRow(drawn) ELSE [drawn EXCEPT !.col = s.col + 1]

Kprintf(s, text) ==
  LET after[n \in 0 .. Len(text)] == IF n = 0 THEN s ELSE Putchar(after[n - 1], text[n])
  IN  after[Len(text)]

PrintPrompt(s) == [Kprintf(s, <<IF s.isRoot THEN <<"#">> ELSE <<"$">> >>) EXCEPT !.wrapped = FALSE]

\* The terminal anew, with a title above the prompt.
FreshTerminal(s) ==
  Flush(PrintPrompt(Kprintf([s EXCEPT !.mode = "cli", !.col = 0, !.row = 0,
                                      !.canvas = BlankScreen, !.screen = BlankScreen],
                            <<NL, <<"title">>, NL>>)))

----------------------------------------------------------------------------
(* Commands.                                                               *)

\* resolve_path.  ".." keeps the first name of the current directory at most.
ResolvePath(s, args) ==
  IF args = <<>> THEN s.dir
  ELSE LET w == args[1]
       IN  CASE w \in DOMAIN ShAbs -> ShAbs[w]
             [] w = "." -> s.dir
             [] w = ".." -> IF Len(s.dir) <= 1 THEN <<>> ELSE <<s.dir[1]>>
             [] OTHER -> Append(s.dir, w)

TypeOf(s, p) == IF p \in ShPath THEN s.type[p] ELSE "none"
TextOf(s, p) == IF p \in ShPath /\ s.text[p] # NoData THEN s.text[p] ELSE <<>>
WithNode(s, p, type, text) ==
  IF p \notin ShPath THEN s
  ELSE [s EXCEPT !.type[p] = type, !.text[p] = text, !.added = IF p = Passwd THEN {} ELSE @]
\* kvfs_write, when the heap and the table of nodes have room for it.
WriteNode(s, p, text) ==
  IF "write" \in s.room THEN WithNode(s, p, IF TypeOf(s, p) = "dir" THEN "dir" ELSE "file", text)
  ELSE s

\* kvfs_mkdir refuses even a node that is there when the table is full.
MakeDir(s, p) == IF "mkdir" \in s.room THEN WithNode(s, p, "dir", NoData) ELSE s

\* The text has the entry at the start of a line.
Entered(text, entry) ==
  \E i \in DOMAIN text : text[i] = entry /\ (i = 1 \/ text[i - 1] = NL)

VerifyUserPassword(s, entry) ==
  IF s.text[Passwd] = NoData THEN entry = <<"root", "root">>
  ELSE Entered(s.text[Passwd], entry)

\* Whatever follows the name is the password.
Su(s, args) ==
  LET u == IF args = <<>> THEN "root" ELSE args[1]
      entry == IF Len(args) > 1 THEN args ELSE <<u, IF u = "root" THEN "root" ELSE "1234">>
      home == <<"home", u>>
      logged == [s EXCEPT !.user = u, !.isRoot = (u = "root"),
                          !.dir = IF u = "root" THEN <<>> ELSE home]
  IN  IF ~VerifyUserPassword(s, entry) THEN s
      ELSE IF u # "root" /\ TypeOf(s, home) = "none" THEN MakeDir(logged, home)
      ELSE logged

\* The entry goes behind the text as it is, and brings the end of its own line
\* with it unless new_entry is too small.
AddUser(s, args) ==
  LET old == TextOf(s, Passwd)
      all == old \o (IF args \in ShLong THEN <<args>> ELSE <<args, NL>>)
      kept == SubSeq(all, 1, IF Len(all) < PasswdMax THEN Len(all) ELSE PasswdMax)
      begins == "write" \in s.room /\ (old = <<>> \/ Last(old) = NL)
      written == [WriteNode(s, Passwd, kept) EXCEPT
                    !.added = IF begins THEN s.added \cup {args} ELSE s.added]
  IN  IF ~s.isRoot \/ Len(args) < 2 THEN s ELSE MakeDir(written, <<"home", args[1]>>)

Cd(s, args) ==
  LET p == ResolvePath(s, args)
  IN  IF args = <<>> THEN [s EXCEPT !.dir = <<>>]
      ELSE IF TypeOf(s, p) = "dir" THEN [s EXCEPT !.dir = p] ELSE s

OpenEditorFile(s, args) ==
  LET p == ResolvePath(s, args)
      t == TextOf(s, p)
  IN  [s EXCEPT !.mode = "edit", !.path = p, !.screen = Picture,
                !.buf = SubSeq(t, 1, IF Len(t) < EditMax THEN Len(t) ELSE EditMax)]

\* What a command does to the tree and the user, before its message.
Done(s, cmd, args) ==
  CASE cmd = "su" -> Su(s, args)
    [] cmd = "adduser" -> AddUser(s, args)
    [] cmd = "cd" -> Cd(s, args)
    [] cmd = "write" /\ Len(args) > 1 -> WriteNode(s, ResolvePath(s, args), Words(Tail(args)))
    [] cmd = "touch" -> WriteNode(s, ResolvePath(s, args), <<>>)
    [] cmd = "mkdir" -> MakeDir(s, ResolvePath(s, args))
    [] cmd = "rm" -> WithNode(s, ResolvePath(s, args), "none", NoData)
    [] cmd = "clear" -> [s EXCEPT !.canvas = BlankScreen, !.screen = BlankScreen, !.col = 0, !.row = 0]
    [] OTHER -> s

\* What it prints: the help is longer than the terminal, cat prints the
\* file below a heading, cd prints only that there is no such directory.
Message(s, cmd, args) ==
  LET p == ResolvePath(s, args)
      t == TextOf(s, p)
  IN  CASE cmd = "help" -> [i \in 1 .. 2 * (TermRows + 1) |-> IF i % 2 = 1 THEN <<"text">> ELSE NL]
        [] cmd = "cat" /\ TypeOf(s, p) # "none" ->
             <<<<"text">>, NL>> \o (IF t = <<>> THEN <<<<"text">>>> ELSE t) \o <<NL>>
        [] cmd = "echo" -> Words(args) \o <<NL>>
        [] cmd = "clear" -> <<<<"title">>, NL, NL>>
        [] cmd = "cd" /\ (args = <<>> \/ TypeOf(s, p) = "dir") -> <<>>
        [] OTHER -> <<<<"text">>, NL>>

Picked(s, mode) == [s EXCEPT !.mode = mode, !.batch = FALSE, !.screen = Picture]

ExecuteCliCommand(s) ==
  LET t == Kprintf(s, <<NL>>)
      args == Tail(s.typed)
      cmd == IF s.typed[1] \in Bare /\ args # <<>> THEN "unknown" ELSE s.typed[1]
      b == [t EXCEPT !.batch = TRUE]
  IN  IF s.typed = <<>> THEN Flush(PrintPrompt(t))
      ELSE CASE cmd \in {"calc", "snake"} -> Picked(b, cmd)
             [] cmd = "exit" -> Picked(b, "gui")
             [] cmd = "view" -> IF args = <<>> THEN b ELSE Picked(b, "bmp")
             [] cmd = "edit" -> IF args = <<>> THEN t ELSE OpenEditorFile([b EXCEPT !.batch = FALSE], args)
             [] cmd = "top" -> Kprintf([b EXCEPT !.mode = "top", !.batch = FALSE, !.screen = BlankScreen],
                                       <<<<"tasks">>, NL, <<"tasks">>, NL>>)
             [] OTHER -> Flush([PrintPrompt(Kprintf(Done(b, cmd, args), Message(b, cmd, args))) EXCEPT !.batch = FALSE])

----------------------------------------------------------------------------
(* Keys.                                                                   *)

Key == sh.mode # "off" /\ sh.keys < ShKeys
Pressed1(s) == sh' = [s EXCEPT !.keys = @ + 1]

\* A word, in the line typed or in the editor; the keyboard driver sends no
\* control characters, so Ctrl-S of the editor is a word too.
ShType ==
  \E w \in IF sh.mode = "cli" /\ sh.typed = <<>> THEN ShCommand ELSE ShArg :
    /\ Key
    /\ \/ /\ sh.mode = "cli" /\ Len(sh.typed) < CliMax
          /\ Pressed1(Putchar([sh EXCEPT !.typed = Append(@, w)], <<w>>))
       \/ /\ sh.mode = "edit" /\ Len(sh.buf) < EditMax
          /\ Pressed1([sh EXCEPT !.buf = Append(@, <<w>>)])

ShBackspace ==
  /\ Key
  /\ \/ sh.mode = "cli" /\ sh.typed # <<>> /\ Pressed1(Putchar([sh EXCEPT !.typed = Front(@)], Rub))
     \/ sh.mode = "edit" /\ sh.buf # <<>> /\ Pressed1([sh EXCEPT !.buf = Front(@)])

ShEnter ==
  /\ Key
  /\ \/ /\ sh.mode = "cli"
        /\ \E room \in SUBSET {"write", "mkdir"} :
             Pressed1([ExecuteCliCommand([sh EXCEPT !.room = room]) EXCEPT !.typed = <<>>, !.room = {}])
     \/ sh.mode = "edit" /\ Len(sh.buf) < EditMax /\ Pressed1([sh EXCEPT !.buf = Append(@, NL)])

\* "q" in top, the picture and the game; the calculator has no such key.
ShQuit ==
  /\ Key
  /\ \/ sh.mode \in {"top", "bmp"} /\ Pressed1(FreshTerminal(sh))
     \/ sh.mode = "snake" /\ Pressed1(Picked(sh, "gui"))

\* os_toggle_cli_mode: Escape, F1 or Tab.
ShToggle ==
  /\ Key
  /\ CASE sh.mode = "gui" -> Pressed1(FreshTerminal([sh EXCEPT !.typed = <<>>]))
       [] sh.mode = "cli" -> Pressed1([sh EXCEPT !.mode = "gui", !.typed = <<>>, !.screen = Picture])
       [] OTHER -> Pressed1([sh EXCEPT !.mode = "gui", !.screen = Picture])

ShNext == sh.mode # "off" /\ (ShType \/ ShBackspace \/ ShEnter \/ ShQuit \/ ShToggle)

\* The terminal and its shell by themselves.
ShSpec == sh \in {ShStart, ShOff} /\ [][ShNext]_sh

----------------------------------------------------------------------------
\* The screen of the terminal is its canvas whenever the shell waits for a
\* key, whatever was printed, erased, scrolled or left out in batch mode;
\* except after "view" without a file, which stays in batch mode
\* (kernel.c:827).
ScreenShows == sh.mode = "cli" /\ ~sh.batch => sh.screen = sh.canvas

\* What Enter will run is what the user sees before the cursor, as long as
\* the line has not left its row: a Backspace in the first column takes a
\* character from the line and none from the screen (kernel.c:413).
EchoAgrees ==
  sh.mode = "cli" /\ ~sh.batch /\ ~sh.wrapped =>
    SubSeq(sh.screen[sh.row + 1], sh.col - Len(sh.typed) + 1, sh.col) = Words(sh.typed)

\* Whom adduser wrote on a line of their own can log in, until another command
\* writes /etc/passwd, whatever is added behind them and while the text fits in
\* updated_passwd (kernel.c:911-914).  adduser reports as created those, too,
\* whose entry follows a text without an end of line ("write", an entry cut at
\* 127 characters) or was not written at all: they cannot log in (kernel.c:924).
NewcomersLogIn ==
  LET text == TextOf(sh, Passwd)
  IN  Len(text) < PasswdMax => \A entry \in sh.added : Entered(text, entry)

ShellShows == sh.mode # "off" => ScreenShows /\ EchoAgrees /\ NewcomersLogIn
=============================================================================
