------------------------------ MODULE PythonT ------------------------------
(***************************************************************************)
(* pythont as a whole: main (src/pythont/pythont.c:3012-3197) tries the    *)
(* modern pipeline and falls back to the older backend, which reads the    *)
(* same source again.  The file is unknown until it is read; Python's own  *)
(* view of it says what either backend ought to make of its blocks.        *)
(***************************************************************************)
EXTENDS PyLegacy

vars == <<given, source, modern, older>>

Init ==
  /\ given \in Inputs
  /\ source = <<>>
  /\ InitModern
  /\ InitLegacy

\* --legacy leaves the modern pipeline out.
ForceLegacy ==
  /\ given.legacy /\ verdict = "parsing"
  /\ verdict' = "skipped"
  /\ legacy' = "on"
  /\ UNCHANGED <<given, source, lexer, tok, frames, tree, dropped, nodes,
                 null, read, accum, blocks, pending, inside, open, written, broken>>

\* read_source_file refuses a file it cannot read or that is too large.
NotLoaded ==
  /\ ~given.legacy /\ given.mode = "file" /\ verdict = "parsing" /\ source = <<>>
  /\ verdict' = "unloaded"
  /\ UNCHANGED <<given, source, lexer, tok, frames, tree, dropped, nodes, null>>
  /\ UNCHANGED older

Step ==
  \/ NotLoaded
  \/ NextModern /\ UNCHANGED older
  \/ ForceLegacy
  \/ FallBack
  \/ LegacyLine \/ TooLong \/ NotOpened \/ LegacyRest \/ LegacyEnd

Next == Step /\ UNCHANGED given

\* There is C for gcc, of one backend or the other.
Translated == verdict = "emitted" \/ legacy = "done"

\* pythont has said what it fails at and returned 1.
Failed == verdict = "unloaded" \/ legacy = "failed"

Terminated == (Translated \/ Failed) /\ UNCHANGED vars

Spec == Init /\ [][Next \/ Terminated]_vars /\ WF_vars(Next)

-----------------------------------------------------------------------------
(* Properties.                                                             *)

TypeOK ==
  /\ given \in Inputs
  /\ source \in Seq(Line \cup {EndOfFile}) /\ Len(source) <= given.lines + 1
  /\ lexer.line \in 0 .. Len(source) /\ read \in 0 .. Len(source)
  /\ Len(lexer.stack) < given.depth /\ Len(blocks) <= given.depth
  /\ nodes \in 1 .. given.limit /\ null \in BOOLEAN
  /\ frames[1].kind = "program"
  /\ DOMAIN tree \subseteq Statements(source)
  /\ verdict \in {"parsing", "rejected", "parsed", "delegated", "emitted", "skipped", "unloaded"}
  /\ legacy \in {"off", "on", "ended", "done", "failed"}

\* The statements in a function that is not at the top of the module.
InnerFunction(i) ==
  \E d \in Ancestors(source, i) \cup {i} :
    source[d].form = "def" /\ SuiteOf(source, d) # 0

\* An elif, with a line before it that holds a carriage return only.
AfterCarriageReturn(i) ==
  /\ source[i].form = "elif"
  /\ \E j \in 1 .. i - 1 :
       /\ source[j].form = "crblank"
       /\ \A k \in Statements(source) : k \notin j .. i - 1

\* The modern pipeline makes of the indentation what Python does: whatever it
\* emits has every statement of the file in the suite it belongs to and every
\* branch at its if, unless a carriage return stands before an elif.  It leaves
\* no statement out but functions inside something else; with a full node
\* table it leaves out more and tells nobody (ast_new), yet misplaces none.
TreeIsPythons ==
  (verdict = "emitted" /\ PythonFile(source) /\ ~\E i \in Statements(source) : AfterCarriageReturn(i))
  => LET all == {i \in Statements(source) : ~InnerFunction(i)}
     IN  /\ Emitted \subseteq all
         /\ nodes < given.limit => Emitted = all
         /\ \A i \in Emitted : tree[i] = [suite |-> SuiteOf(source, i), branch |-> BranchOf(source, i)]

\* The headers around statement i whose braces are in the same buffer: those
\* of its function, or all, classes aside.
Function(i) == {d \in Ancestors(source, i) : source[d].form = "def"}
Around(i) ==
  IF source[i].form = "def" THEN {}
  ELSE {d \in Ancestors(source, i) :
          source[d].form # "class" /\ \A f \in Function(i) : f <= d}

BracesAsIndented ==
  (legacy = "done" /\ PythonFile(source))
  => /\ ~broken
     /\ open = [func |-> <<>>, main |-> <<>>]
     /\ \A i \in Statements(source) :
          /\ i \in DOMAIN written
          /\ written[i].around = SetToSortSeq(Around(i), <)
          /\ written[i].buffer = "func" <=>
               source[i].form = "def" \/ Function(i) # {}

\* Where the older backend does not follow the indentation: a branch that is
\* not at the top of the module, a function in a function, more suites than
\* its stack holds, and indented code given with -e.
Misread(i) ==
  \/ source[i].form \in {"elif", "else"} /\ SuiteOf(source, i) # 0
  \/ source[i].form = "def" /\ Function(i) # {}
  \/ Cardinality(Ancestors(source, i)) > given.depth
  \/ given.mode = "inline" /\ source[i].form \in Header

\* Elsewhere the older backend closes every brace it opens, where the suite
\* ends, and writes each statement between the braces of its own suites.
BracesAsIndentedElsewhere ==
  (\A i \in Statements(source) : ~Misread(i)) => BracesAsIndented

\* Every source, well formed or not, ends: with C of one backend or the other,
\* or with a report that it cannot be read (pythont.c:3132, 3209), that a
\* logical line is longer than accum (3249), or that the C does not fit (3316).
\* What the modern pipeline refuses is never the end.
Finishes == <>(Translated \/ Failed)

\* The pipeline keeps its bounds and its tree is Python's.
TreeSound == TypeOK /\ TreeIsPythons

-----------------------------------------------------------------------------
(* Kinds of short sources for the run.                                     *)

Kind ==
  [forms |-> {}, indents |-> {0, 1}, lines |-> 5, python |-> TRUE,
   mode |-> "file", legacy |-> FALSE, limit |-> 40, depth |-> 4]

\* Lines that hold nothing between the branches of an if.
Layout ==
  [Kind EXCEPT !.forms = {"blank", "crblank", "comment", "simple", "if", "elif"}]

\* Blocks in blocks.
Nesting ==
  [Kind EXCEPT !.forms = {"simple", "if", "elif", "else", "while", "def"},
               !.indents = {0, 1, 2}]

\* What only the older backend knows.
Older ==
  [Kind EXCEPT !.forms = {"simple", "def", "try", "except", "class", "if", "else"},
               !.indents = {0, 1, 2}, !.legacy = TRUE]

\* What the modern pipeline refuses or delegates.
Refused ==
  [Kind EXCEPT !.forms = {"simple", "dynamic", "semi", "inline", "open", "close",
                          "with", "if", "while"},
               !.lines = 4]

\* What Python refuses.
Malformed ==
  [Kind EXCEPT !.forms = {"blank", "simple", "if", "elif"}, !.indents = {0, 1, 2},
               !.python = FALSE, !.lines = 4]

\* Code given with -e.
Inline == [Refused EXCEPT !.mode = "inline"]

\* More statements than there are nodes.
Full == [Nesting EXCEPT !.limit = 9]

\* More suites than either backend has room for.
Deep ==
  [Kind EXCEPT !.forms = {"simple", "if", "while"}, !.indents = 0 .. 3, !.depth = 2]

Every == {Layout, Nesting, Older, Refused, Malformed, Inline, Full, Deep}
=============================================================================
