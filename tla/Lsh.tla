-------------------------------- MODULE Lsh --------------------------------
(***************************************************************************)
(* low-utils/lsh.c.  The execution half: a line is a list of pipelines     *)
(* joined by ;, && and ||.  A pipeline of one stage is a builtin run in    *)
(* the shell or one child; a longer one is a child for each stage, joined  *)
(* by pipes that the shell opens first and closes before it waits.         *)
(*                                                                         *)
(* A child is what its pipes make of it: a writer sends blocks and does    *)
(* not read, a filter reads until the end of its input and passes each     *)
(* block on, a quick one uses neither (a builtin in a stage, a redirection *)
(* that does not open, a command that is not found).                       *)
(***************************************************************************)
EXTENDS Integers, Sequences, FiniteSets

CONSTANTS
  LshLines,     \* lines that are typed: sequences of [op, stages]
  LshMaxLines,  \* bound on the lines of one session
  PipeSize,     \* blocks a pipe holds
  Blocks,       \* blocks a writer sends
  MaxAliases,   \* MAX_ALIASES
  AliasName     \* names that alias and unalias get

LshOps == {";", "&&", "||"}

ASSUME LshAssumption ==
  /\ LshLines \subseteq Seq([op : LshOps, stages : Seq(STRING)]) \ {<<>>}
  /\ Blocks \in Nat /\ MaxAliases \in Nat /\ "none" \notin AliasName

VARIABLE lsh

SigPipe == 141
Unforked == 256   \* the log's mark for a command whose fork or pipe failed
Skipped == 257
Builtins == {"alias", "unalias", "cd", "cd-", "exit", "echo"}

LshOff == [pc |-> "off"]
NoAlias == "none"

LshStart ==
  [pc |-> "prompt", line |-> <<>>, at |-> 0, run |-> TRUE, last |-> 0,
   log |-> <<>>, typed |-> 0, i |-> 1, kid |-> <<>>, open |-> <<>>, pipe |-> <<>>,
   alias |-> [a \in 1 .. MaxAliases |-> NoAlias], cwd |-> "home", old |-> "none"]

Stages(l) == l.line[l.at].stages
Children(l) == {s \in DOMAIN l.kid : l.kid[s].st \in {"forked", "run", "zombie"}}
Ends(n) == (1 .. n - 1) \X {"r", "w"}

ShouldRunSwapped(op, last) ==
  CASE op = ";" -> TRUE [] op = "&&" -> last # 0 [] op = "||" -> last = 0

\* should_run for the command that follows an operator.
ShouldRun(op, last) ==
  CASE op = ";" -> TRUE [] op = "&&" -> last = 0 [] op = "||" -> last # 0

\* The rest of process_line's loop after one command, which left res.
Advanced(l, last, res) ==
  LET more == l.at < Len(l.line)
      should == more => ShouldRun(l.line[l.at + 1].op, last)
  IN [l EXCEPT !.log = Append(@, res), !.last = last, !.at = @ + 1, !.run = should,
               !.pc = IF more THEN "list" ELSE "prompt",
               !.kid = IF Children(l) = {} THEN <<>> ELSE @, !.open = <<>>, !.pipe = <<>>]

LshReadLine ==
  /\ lsh.pc = "prompt" /\ lsh.typed < LshMaxLines
  /\ \E x \in LshLines :
       lsh' = [lsh EXCEPT !.pc = "list", !.line = x, !.at = 1, !.run = TRUE,
                          !.log = <<>>, !.typed = @ + 1]

LshSkip ==
  /\ lsh.pc = "list" /\ ~lsh.run
  /\ lsh' = Advanced(lsh, lsh.last, Skipped)

----------------------------------------------------------------------------
\* Builtins, run in the shell.

InShell == lsh.pc = "list" /\ lsh.run /\ Len(Stages(lsh)) = 1 /\ Stages(lsh)[1] \in Builtins

SlotsOf(l, name) == {a \in DOMAIN l.alias : l.alias[a] = name}
Lowest(S) == CHOOSE a \in S : \A b \in S : a <= b

\* The slot of the name if it has one, else the first that is free.
AliasSlot(l, name) == IF SlotsOf(l, name) # {} THEN SlotsOf(l, name) ELSE SlotsOf(l, NoAlias)

\* With the table full, the definition is dropped and the status is still 0.
LshAlias ==
  /\ InShell /\ Stages(lsh)[1] = "alias"
  /\ \E n \in AliasName :
       LET slots == AliasSlot(lsh, n)
           set == IF slots = {} THEN lsh.alias ELSE [lsh.alias EXCEPT ![Lowest(slots)] = n]
       IN lsh' = Advanced([lsh EXCEPT !.alias = set], 0, 0)

LshUnalias ==
  /\ InShell /\ Stages(lsh)[1] = "unalias"
  /\ \E n \in AliasName :
       lsh' = Advanced([lsh EXCEPT !.alias =
                [a \in DOMAIN @ |-> IF @[a] = n THEN NoAlias ELSE @[a]]], 0, 0)

\* cd and cd -: the old directory changes only when chdir succeeds.
LshCd ==
  /\ InShell /\ Stages(lsh)[1] \in {"cd", "cd-"}
  /\ LET to == IF Stages(lsh)[1] = "cd" THEN "dir" ELSE lsh.old IN
     \/ to # "none" /\ lsh' = Advanced([lsh EXCEPT !.cwd = to, !.old = lsh.cwd], 0, 0)
     \/ lsh' = Advanced(lsh, 1, 1)

\* echo, export, history, which and the others leave a status.
LshEcho ==
  /\ InShell /\ Stages(lsh)[1] = "echo"
  /\ \E c \in {0, 1} : lsh' = Advanced(lsh, c, c)

LshExit ==
  /\ InShell /\ Stages(lsh)[1] = "exit"
  /\ lsh' = [lsh EXCEPT !.pc = "exit"]

LshBuiltin == LshAlias \/ LshUnalias \/ LshCd \/ LshEcho \/ LshExit

----------------------------------------------------------------------------
\* execute_pipeline with children.

\* All pipes first; when one cannot be made the command is given up with 1
\* and last_exit_status keeps the value it had.
LshPipes ==
  /\ lsh.pc = "list" /\ lsh.run /\ ~InShell
  /\ LET n == Len(Stages(lsh)) IN
     \/ lsh' = [lsh EXCEPT !.pc = "fork", !.i = 1,
                  !.kid = [s \in 1 .. n |-> [st |-> "none", has |-> 0, todo |-> 0, code |-> 0]],
                  !.open = [p \in 0 .. n |-> IF p = 0 THEN Ends(n) ELSE {}],
                  !.pipe = [p \in 1 .. n - 1 |-> 0]]
     \/ n > 1 /\ lsh' = Advanced(lsh, lsh.last, Unforked)

LshFork ==
  /\ lsh.pc = "fork" /\ lsh.i <= Len(lsh.kid)
  /\ LET s == lsh.i
         w == IF Stages(lsh)[s] = "writer" THEN Blocks ELSE 0 IN
     \/ lsh' = [lsh EXCEPT !.i = s + 1, !.open[s] = lsh.open[0],
                           !.kid[s] = [@ EXCEPT !.st = "forked", !.todo = w]]
     \/ Len(lsh.kid) > 1 /\ lsh' = [lsh EXCEPT !.i = s + 1]
     \/ Len(lsh.kid) = 1 /\ lsh' = Advanced(lsh, lsh.last, Unforked)

LshKeepEnds == lsh.open[0]

\* Every pipe end of the shell is closed before it waits.
LshCloseEnds == {}

LshClose ==
  /\ lsh.pc = "fork" /\ lsh.i > Len(lsh.kid)
  /\ lsh' = [lsh EXCEPT !.pc = "wait", !.i = 1, !.open[0] = LshCloseEnds]

WaitsOneLess(l) == Len(l.kid) - 1

\* How many children the shell waits for.
Waits(l) == Len(l.kid)

Reaped(l, z) == [l EXCEPT !.kid[z].st = "reaped"]

\* waitpid for the only child: its exit code, or 128 and the signal.
LshWaitOne ==
  /\ lsh.pc = "wait" /\ Len(lsh.kid) = 1 /\ lsh.kid[1].st = "zombie"
  /\ lsh' = Advanced(Reaped(lsh, 1), lsh.kid[1].code, lsh.kid[1].code)

\* wait() for as many children as there are stages: the status is that of the
\* child that ended LAST, 0 when a signal ended it; wait() with no child left
\* returns at once and the status is whatever was on the stack.
LshWaitAny ==
  /\ lsh.pc = "wait" /\ Len(lsh.kid) > 1
  /\ \E z \in DOMAIN lsh.kid, left \in {0, 1} :
       /\ lsh.kid[z].st = "zombie" \/ Children(lsh) = {}
       /\ LET code == IF Children(lsh) = {} THEN left
                      ELSE IF lsh.kid[z].code = SigPipe THEN 0 ELSE lsh.kid[z].code
              gone == IF Children(lsh) = {} THEN lsh ELSE Reaped(lsh, z)
          IN lsh' = IF lsh.i >= Waits(lsh)
                    THEN Advanced(gone, code, code)
                    ELSE [gone EXCEPT !.i = @ + 1]

----------------------------------------------------------------------------
\* The children.

Own(s, n) == {e \in Ends(n) : e = <<s - 1, "r">> \/ e = <<s, "w">>}
Held(l, e) == \E p \in DOMAIN l.open : e \in l.open[p]

\* dup2 onto standard input and output, then close of every pipe end.
ChildSetup(s) ==
  /\ lsh.kid[s].st = "forked"
  /\ lsh' = [lsh EXCEPT !.kid[s].st = "run", !.open[s] = Own(s, Len(lsh.kid))]

ChildRead(s) ==
  /\ lsh.kid[s].st = "run" /\ Stages(lsh)[s] = "filter" /\ lsh.kid[s].has = 0
  /\ s > 1 /\ lsh.pipe[s - 1] > 0
  /\ lsh' = [lsh EXCEPT !.pipe[s - 1] = @ - 1, !.kid[s].has = 1]

Ended(s, code) ==
  lsh' = [lsh EXCEPT !.kid[s].st = "zombie", !.kid[s].code = code, !.open[s] = {}]

ChildWrite(s) ==
  LET k == lsh.kid[s]
      sent == [k EXCEPT !.has = 0, !.todo = IF k.has = 1 THEN @ ELSE @ - 1]
  IN /\ k.st = "run" /\ (k.has = 1 \/ k.todo > 0)
     /\ \/ s = Len(lsh.kid) /\ lsh' = [lsh EXCEPT !.kid[s] = sent]
        \/ /\ s < Len(lsh.kid) /\ ~Held(lsh, <<s, "r">>)
           /\ Ended(s, SigPipe)
        \/ /\ s < Len(lsh.kid) /\ Held(lsh, <<s, "r">>) /\ lsh.pipe[s] < PipeSize
           /\ lsh' = [lsh EXCEPT !.kid[s] = sent, !.pipe[s] = @ + 1]

\* A filter ends at the end of its input: the pipe is empty and nobody can
\* write to it any more.
ChildExit(s) ==
  /\ lsh.kid[s].st = "run" /\ lsh.kid[s].has = 0 /\ lsh.kid[s].todo = 0
  /\ (Stages(lsh)[s] = "filter" /\ s > 1) =>
        lsh.pipe[s - 1] = 0 /\ ~Held(lsh, <<s - 1, "w">>)
  /\ \E code \in {0, 1} : Ended(s, code)

LshChild == \E s \in DOMAIN lsh.kid : ChildSetup(s) \/ ChildRead(s) \/ ChildWrite(s) \/ ChildExit(s)

LshShell == LshReadLine \/ LshSkip \/ LshBuiltin \/ LshPipes \/ LshFork \/ LshClose
              \/ LshWaitOne \/ LshWaitAny

LshNext == lsh.pc # "off" /\ (LshShell \/ LshChild)

\* The kernel runs every process that can run, and the shell is one of them.
LshFair ==
  /\ WF_lsh(lsh.pc \notin {"off", "prompt"} /\ LshShell)
  /\ WF_lsh(lsh.pc # "off" /\ LshChild)

----------------------------------------------------------------------------
\* $? after the first k commands of a list as POSIX evaluates it: && and ||
\* have the same precedence and group to the left.
StatusAfter(line, log, before) ==
  [k \in 0 .. Len(log) |->
     LET ran == {j \in 1 .. k : log[j] # Skipped}
     IN IF ran = {} THEN before ELSE log[CHOOSE j \in ran : \A i \in ran : i <= j]]

\* process_line runs exactly the commands of the list that POSIX would run,
\* given what each one returned.  (After a command whose fork failed the code
\* decides by an older status, and this says nothing.)
LshListRuns ==
  lsh.pc # "off" =>
    \A k \in 2 .. Len(lsh.log) :
      LET st == StatusAfter(lsh.line, lsh.log, 0)[k - 1]
          op == lsh.line[k].op
      IN st # Unforked => ((lsh.log[k] # Skipped) <=> (op = ";" \/ (op = "&&" /\ st = 0)
                                                          \/ (op = "||" /\ st # 0)))

\* At the prompt, and between two commands of a list, the shell has no child:
\* none runs on and none is a zombie, also after forks that failed.
LshNoChild == lsh.pc \in {"prompt", "list", "exit"} => Children(lsh) = {}

\* A name has at most one active slot of the alias table, so that unalias
\* followed by a lookup does not bring an older definition back.
LshAliasOnce == lsh.pc # "off" => \A n \in AliasName : Cardinality(SlotsOf(lsh, n)) <= 1

\* Every line that was typed ends, and the prompt comes back: a pipeline does
\* not wait for an end of file that nobody will send.
LshReturns == (lsh.pc \notin {"off", "prompt"}) ~> (lsh.pc \in {"prompt", "exit"})

----------------------------------------------------------------------------
(* The line editor: one key is one step on the line, the cursor and the    *)
(* place in the history, and Enter gives the line to the shell, which      *)
(* remembers it.  A character stands for any printable one, a space too;   *)
(* "!" is the line "!!" that asks for the last command again.              *)

CONSTANTS
  EdChar,      \* characters that are typed
  MaxLine,     \* MAX_LINE_LEN: the buffer, its final zero included
  MaxHistory,  \* MAX_HISTORY
  MaxEntered   \* bound on the commands that are remembered

ASSUME EdAssumption == MaxLine \in Nat \ {0} /\ MaxHistory \in Nat \ {0}

VARIABLE ed

EdOff == [pc |-> "off"]
Again == <<"!">>

FreshLine(e) == [e EXCEPT !.buf = <<>>, !.pos = 0, !.idx = Len(e.hist), !.backup = <<>>]

\* load_history_from_file keeps the FIRST lines of the file.
Loaded(file) == SubSeq(file, 1, IF Len(file) < MaxHistory THEN Len(file) ELSE MaxHistory)

EdStart == [pc |-> "read", buf |-> <<>>, pos |-> 0, hist |-> <<>>, idx |-> 0,
            backup |-> <<>>, file |-> <<>>, all |-> <<>>]

Put(e, line, pos) == [e EXCEPT !.buf = line, !.pos = pos]
Before(e) == SubSeq(e.buf, 1, e.pos)
After(e) == SubSeq(e.buf, e.pos + 1, Len(e.buf))

RoomForNoZero(e, n) == Len(e.buf) + n <= MaxLine

\* n characters more still leave room for the final zero.
Room(e, n) == Len(e.buf) + n < MaxLine

EdType(c) ==
  /\ Room(ed, 1)
  /\ ed' = Put(ed, Before(ed) \o <<c>> \o After(ed), ed.pos + 1)

\* Tab with one match: its rest goes in at the cursor, and a space after it
\* unless the match is a directory; both or nothing.  With several matches
\* they are listed and the line stays.
EdTab(suffix, dir) ==
  /\ Len(ed.buf) > 0 /\ Room(ed, Len(suffix) + 1)
  /\ LET in == suffix \o (IF dir THEN <<>> ELSE <<"a">>)
     IN ed' = Put(ed, Before(ed) \o in \o After(ed), ed.pos + Len(in))

EdBackspace ==
  /\ ed.pos > 0
  /\ ed' = Put(ed, SubSeq(ed.buf, 1, ed.pos - 1) \o After(ed), ed.pos - 1)

EdLeft == ed.pos > 0 /\ ed' = [ed EXCEPT !.pos = @ - 1]
EdRight == ed.pos < Len(ed.buf) /\ ed' = [ed EXCEPT !.pos = @ + 1]
EdHome == ed.pos > 0 /\ ed' = [ed EXCEPT !.pos = 0]
EdEnd == ed.pos < Len(ed.buf) /\ ed' = [ed EXCEPT !.pos = Len(ed.buf)]

\* Up: the line is put aside when the bottom is left.
EdUp ==
  /\ ed.idx > 0
  /\ LET line == ed.hist[ed.idx]
     IN ed' = [Put(ed, line, Len(line)) EXCEPT !.idx = @ - 1,
                 !.backup = IF ed.idx = Len(ed.hist) THEN ed.buf ELSE @]

EdDown ==
  /\ ed.idx < Len(ed.hist)
  /\ LET line == IF ed.idx + 1 = Len(ed.hist) THEN ed.backup ELSE ed.hist[ed.idx + 2]
     IN ed' = [Put(ed, line, Len(line)) EXCEPT !.idx = @ + 1]

\* Ctrl-C empties the line; the place in the history and the line put aside stay.
EdCancel == ed' = Put(ed, <<>>, 0)

\* Ctrl-D on an empty line ends the shell; a new one loads the file.
EdRestart ==
  /\ ed.buf = <<>>
  /\ ed' = FreshLine([ed EXCEPT !.hist = Loaded(ed.file), !.all = Loaded(ed.file)])

\* add_history: the same line twice in a row is kept once; a full table moves up.
Added(e, cmd) ==
  IF e.hist # <<>> /\ e.hist[Len(e.hist)] = cmd THEN e
  ELSE [e EXCEPT !.hist = IF Len(@) < MaxHistory THEN Append(@, cmd) ELSE Append(Tail(@), cmd),
                 !.file = Append(@, cmd), !.all = Append(@, cmd)]

\* Enter: nothing, the last command again, or a new command.
EdEnter ==
  \/ ed.buf = <<>> /\ ed' = FreshLine(ed)
  \/ ed.buf = Again /\ ed.hist = <<>> /\ ed' = FreshLine(ed)
  \/ ed.buf = Again /\ ed.hist # <<>> /\ ed' = FreshLine(Added(ed, ed.hist[Len(ed.hist)]))
  \/ ed.buf \notin {<<>>, Again} /\ Len(ed.file) < MaxEntered /\ ed' = FreshLine(Added(ed, ed.buf))

EdKey ==
  \/ \E c \in EdChar : EdType(c)
  \/ \E suffix \in {<<>>, <<"a">>}, dir \in BOOLEAN : EdTab(suffix, dir)
  \/ EdBackspace \/ EdLeft \/ EdRight \/ EdHome \/ EdEnd
  \/ EdUp \/ EdDown \/ EdCancel \/ EdRestart \/ EdEnter

LshEditNext == ed.pc = "read" /\ EdKey

----------------------------------------------------------------------------
\* Whatever keys come in whatever order, the cursor is inside the line, the
\* line and its final zero fit the buffer, and the place in the history is
\* one of its entries or the bottom: memmove and strncpy stay in bounds.
EdInLine ==
  ed.pc = "read" => /\ ed.pos \in 0 .. Len(ed.buf)
                    /\ Len(ed.buf) < MaxLine
                    /\ ed.idx \in 0 .. Len(ed.hist)

\* The history is what the session started with and what was entered since,
\* the newest MaxHistory of it, in order.
EdHistory ==
  ed.pc = "read" =>
    LET n == Len(ed.all)
        k == IF n < MaxHistory THEN n ELSE MaxHistory
    IN ed.hist = SubSeq(ed.all, n - k + 1, n)
=============================================================================
