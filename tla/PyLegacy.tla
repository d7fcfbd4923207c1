------------------------------ MODULE PyLegacy ------------------------------
(***************************************************************************)
(* pythont's older backend (src/pythont/pythont.c:1586-1614, 2323-2959 and *)
(* 3125-3277): one line of Python at a time becomes lines of C, and a stack*)
(* of blocks closes the braces that headers opened.                        *)
(*                                                                         *)
(* Of the C text the braces are kept: for each of the two buffers the      *)
(* headers whose braces are open, and where each statement was written.    *)
(***************************************************************************)
EXTENDS PyBlocks

VARIABLES
  read,     \* lines the backend has read
  accum,    \* the line that begins what is being accumulated, or 0
  blocks,   \* block_type and block_indent, outermost first
  pending,  \* the header line whose block is due, or 0
  inside,   \* inside_function
  open,     \* func_buffer, main_buffer -> headers with an open brace
  written,  \* statement line -> [buffer, around: the open headers there]
  broken,   \* a brace was closed that was not open
  legacy    \* off, on, ended, done, failed: reported, and nothing made

older == <<read, accum, blocks, pending, inside, open, written, broken, legacy>>

InitLegacy ==
  /\ read = 0
  /\ accum = 0
  /\ blocks = <<>>
  /\ pending = 0
  /\ inside = FALSE
  /\ open = [func |-> <<>>, main |-> <<>>]
  /\ written = <<>>
  /\ broken = FALSE
  /\ legacy = "off"

\* The state of the translation that a line changes.
Here == [blocks |-> blocks, inside |-> inside, open |-> open, broken |-> broken]

Buffer(s) == IF s.inside THEN "func" ELSE "main"

\* emit("... {") and emit("}").
Opened(s, i) == [s EXCEPT !.open[Buffer(s)] = Append(@, i)]
Closed(s) ==
  IF s.open[Buffer(s)] = <<>> THEN [s EXCEPT !.broken = TRUE]
  ELSE [s EXCEPT !.open[Buffer(s)] = Front(@)]

\* One round of handle_dedent: the innermost block goes.  if, elif, else and
\* while leave their brace to the branch that follows, but at the top only.
Popped(s, branch) ==
  LET b == Last(s.blocks)
      t == [s EXCEPT !.blocks = Front(@)]
  IN  CASE b.form = "def" -> [Closed(t) EXCEPT !.inside = FALSE]
        [] b.form = "class" -> t
        [] b.form \in {"with", "try", "except"} -> Closed(t)
        [] OTHER -> IF ~branch \/ t.blocks # <<>> THEN Closed(t) ELSE t

\* The blocks at the column of the line taken as left, too.
StaysOpenBelow(s, ind) ==
  LET kept == {k \in DOMAIN s.blocks : s.blocks[k].ind < ind}
  IN  IF kept = {} THEN 0 ELSE Max(kept)

\* handle_dedent: every block deeper than the line, from the innermost.
StaysOpenUpTo(s, ind) ==
  LET kept == {k \in DOMAIN s.blocks : s.blocks[k].ind <= ind}
  IN  IF kept = {} THEN 0 ELSE Max(kept)

HandleDedent(s, ind, branch) ==
  FoldLeft(LAMBDA t, k : Popped(t, branch), s,
           SubSeq(s.blocks, StaysOpenUpTo(s, ind) + 1, Len(s.blocks)))

\* The block of the header above begins with this line.
Pushed(s, ind) ==
  IF pending = 0 \/ Len(s.blocks) >= given.depth THEN s
  ELSE [s EXCEPT !.blocks = Append(@, [ind |-> ind, form |-> source[pending].form])]

\* What the line itself emits: elif and else begin with a closing brace, a
\* function goes to the buffer of functions, and a header ends by opening one.
Entered1(s, form) ==
  CASE form = "def" -> [s EXCEPT !.inside = TRUE]
    [] form \in {"elif", "else"} -> Closed(s)
    [] OTHER -> s
Braced == Header \ {"class"}

Branches == {"elif", "else", "except"}

\* transpile_line for the statement of line i, indented by ind.
TranspileLine(i, form, ind) ==
  LET dedented == HandleDedent(Here, ind, form \in Branches)
      at == Entered1(Pushed(dedented, ind), form)
      after == IF form \in Braced THEN Opened(at, i) ELSE at
  IN  /\ blocks' = after.blocks
      /\ inside' = after.inside
      /\ open' = after.open
      /\ broken' = after.broken
      /\ pending' = IF form \in Header THEN i ELSE 0
      /\ written' = [j \in DOMAIN written \cup {i} |->
                       IF j # i THEN written[j]
                       ELSE [buffer |-> Buffer(at), around |-> at.open[Buffer(at)]]]

\* Line k of the source, which the modern pipeline may not have come to.
ReadLine(k, line) ==
  IF k \in DOMAIN source THEN line = source[k] /\ UNCHANGED source
  ELSE MayFollow(source, line) /\ source' = Append(source, line)

Untranslated == UNCHANGED <<blocks, pending, inside, open, written, broken>>
Kept == UNCHANGED modern

\* One line: nothing, a statement, or part of a statement that brackets keep
\* open, which counts with the indentation of its first line.  Inline code is
\* cut at newlines and semicolons and has no indentation at all.
LegacyLine ==
  /\ legacy = "on"
  /\ \E line \in Line \cup {EndOfFile} :
       /\ ReadLine(read + 1, line)
       /\ read' = read + 1
       /\ legacy' = IF EndsFile(line) THEN "ended" ELSE "on"
       /\ CASE line.form \in {"blank", "crblank", "comment"} ->
                 Untranslated /\ UNCHANGED accum
            [] given.mode = "inline" /\ line.form \notin {"blank", "crblank", "comment"} ->
                 TranspileLine(read + 1, line.form, 0) /\ UNCHANGED accum
            [] given.mode = "file" /\ line.form = "close" /\ accum # 0 ->
                 TranspileLine(accum, "open", source[accum].ind) /\ accum' = 0
            [] given.mode = "file" /\ (line.form = "open" \/ accum # 0) /\ line.form # "close" ->
                 Untranslated /\ accum' = IF accum = 0 THEN read + 1 ELSE accum
            [] OTHER ->
                 TranspileLine(read + 1, line.form, line.ind) /\ UNCHANGED accum
  /\ Kept

\* A logical line, of one line or of several that brackets join, of more than
\* accum holds: main gives up, whatever it has emitted.
TooLong ==
  /\ legacy = "on" /\ given.mode = "file"
  /\ \E line \in Line :
       /\ line.form \notin {"blank", "crblank", "comment"}
       /\ ReadLine(read + 1, line)
       /\ read' = read + 1
  /\ legacy' = "failed"
  /\ Kept /\ Untranslated /\ UNCHANGED accum

\* The file cannot be opened, or no longer.
NotOpened ==
  /\ legacy = "on" /\ given.mode = "file" /\ read = 0
  /\ legacy' = "failed"
  /\ Kept /\ Untranslated /\ UNCHANGED <<source, read, accum>>

\* What brackets still keep open at the end of the file.
LegacyRest ==
  /\ legacy = "ended" /\ accum # 0
  /\ TranspileLine(accum, "open", source[accum].ind)
  /\ accum' = 0
  /\ Kept /\ UNCHANGED <<source, read, legacy>>

\* handle_dedent(0, 0) after the last line; the whole C has to fit its buffers
\* and a temporary file.
LegacyEnd ==
  /\ legacy = "ended" /\ accum = 0
  /\ LET s == HandleDedent(Here, 0, FALSE)
     IN  /\ blocks' = s.blocks
         /\ inside' = s.inside
         /\ open' = s.open
         /\ broken' = s.broken
  /\ legacy' \in {"done", "failed"}
  /\ Kept /\ UNCHANGED <<source, read, accum, pending, written>>

\* --legacy, an AST that is not accepted or is delegated, or C that gcc
\* rejects: the older backend starts over with the same source.
FallBack ==
  /\ legacy = "off"
  /\ verdict \in {"rejected", "delegated", "emitted"}
  /\ legacy' = "on"
  /\ Kept /\ Untranslated /\ UNCHANGED <<source, read, accum>>
=============================================================================
