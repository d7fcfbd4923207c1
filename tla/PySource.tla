------------------------------ MODULE PySource ------------------------------
(***************************************************************************)
(* What pythont (src/pythont/pythont.c) is given: Python source, line by   *)
(* line, and what Python makes of its indentation.                         *)
(*                                                                         *)
(* A line is its indentation, its form and whether a newline ends it.      *)
(* Names, expressions and wording are left out.  The forms:                *)
(*   blank, crblank, comment   nothing, nothing but a carriage return, #   *)
(*   simple, dynamic           a statement, one with a list or a dictionary*)
(*   semi, inline              "a; b", "if a: b"                           *)
(*   open, close               a statement whose bracket the next line     *)
(*                             closes, and that line                       *)
(*   the headers               if, elif, else, while, def, with, try,      *)
(*                             except, class                               *)
(***************************************************************************)
EXTENDS Naturals, Sequences, FiniteSetsExt

CONSTANT
  Inputs  \* kinds of input and of machine, one of which is met:
          \*   forms, indents, lines   of the source: the forms of line, the
          \*           columns where one may start, a bound on their number
          \*   python  whether only what Python accepts is tried
          \*   mode    "file" or "inline" (-e)
          \*   legacy  whether --legacy is given
          \*   limit   AST_MAX_NODES
          \*   depth   MAX_INDENTS

VARIABLE given  \* the one of Inputs that is met

Header == {"if", "elif", "else", "while", "def", "with", "try", "except", "class"}
NoStatement == {"blank", "crblank", "comment", "close"}

ASSUME InputAssumption ==
  \A i \in Inputs :
    /\ i.forms \subseteq Header \cup NoStatement
                         \cup {"simple", "dynamic", "semi", "inline", "open"}
    /\ i.indents \subseteq Nat
    /\ i.lines \in Nat /\ i.limit \in Nat \ {0} /\ i.depth \in Nat \ {0}
    /\ i.python \in BOOLEAN /\ i.legacy \in BOOLEAN
    /\ i.mode \in {"file", "inline"}

Line == [ind : given.indents, form : given.forms, nl : BOOLEAN]

\* The file ends in a blank line without newline, or right after a statement.
EndsFile(line) == ~line.nl
CanEnd == {"blank", "simple", "comment"}

Statements(src) == {i \in DOMAIN src : src[i].form \notin NoStatement}

\* The header in whose suite statement i stands; 0 is the module itself.
SuiteOf(src, i) ==
  LET outer == {j \in Statements(src) : j < i /\ src[j].ind < src[i].ind}
  IN  IF outer = {} THEN 0 ELSE Max(outer)

\* The statement before i at its own level, or at a level it leaves.
Before(src, i) ==
  LET earlier == {j \in Statements(src) : j < i /\ src[j].ind <= src[i].ind}
  IN  IF earlier = {} THEN 0 ELSE Max(earlier)

\* What elif, else and except continue; 0 for any other statement.
Continues(form) ==
  CASE form \in {"elif", "else"} -> {"if", "elif"}
    [] form = "except" -> {"try"}
    [] OTHER -> {}
BranchOf(src, i) == IF Continues(src[i].form) = {} THEN 0 ELSE Before(src, i)

Ancestors(src, i) ==
  {j \in Statements(src) :
     /\ j < i /\ src[j].ind < src[i].ind
     /\ \A k \in Statements(src) : k \in j + 1 .. i - 1 => src[k].ind > src[j].ind}

\* The try statements above i that no except has followed yet.
Unfinished(src, i) ==
  {t \in Statements(src) :
     /\ t < i /\ src[t].form = "try"
     /\ \A e \in Statements(src) :
          e < i /\ src[e].form = "except" => BranchOf(src, e) # t}

\* Statement i fits what stands above it: deeper than a header just above and
\* not deeper than another statement, at a column of the suites it leaves,
\* and a branch right after what it continues.
Fits(src, i) ==
  LET above == {j \in Statements(src) : j < i}
      last == Max(above)
      line == src[i]
  IN  /\ above = {} => line.ind = 0 /\ Continues(line.form) = {}
      /\ above # {} =>
           /\ src[last].form \in Header <=> line.ind > src[last].ind
           /\ line.ind < src[last].ind =>
                \E j \in Ancestors(src, last) : src[j].ind = line.ind
           /\ Continues(line.form) # {} =>
                LET j == Before(src, i)
                IN  /\ j # 0 /\ src[j].ind = line.ind
                    /\ src[j].form \in Continues(line.form)
           /\ \A t \in Unfinished(src, i) : src[t].ind >= line.ind =>
                line.form = "except" /\ BranchOf(src, i) = t

\* Python accepts line i after the lines above it; a bracket that a line opens
\* is closed by the next.
Accepts(src, i) ==
  /\ i \in Statements(src) => Fits(src, i)
  /\ src[i].form = "close" <=> i > 1 /\ src[i - 1].form = "open"

\* Python accepts the lines so far.
Python(src) == \A i \in DOMAIN src : Accepts(src, i)

\* ... and the whole of them: no header without a suite, no try without except.
PythonFile(src) ==
  /\ Python(src)
  /\ Statements(src) # {} => src[Max(Statements(src))].form \notin Header
  /\ Unfinished(src, Len(src) + 1) = {}

\* A line that may come next, or the end of the file.  No line follows one
\* that Python rejects.  Where an empty line or a comment starts is one choice:
\* nothing reads it.
EndOfFile == [ind |-> 0, form |-> "blank", nl |-> FALSE]
MayFollow(src, line) ==
  \/ line = EndOfFile
  \/ /\ line \in Line
     /\ Len(src) < given.lines
     /\ EndsFile(line) => line.form \in CanEnd
     /\ line.form \in {"blank", "comment"} /\ line.nl => line.ind = 0
     /\ IF given.python THEN Accepts(Append(src, line), Len(src) + 1)
        ELSE Python(src)
=============================================================================
