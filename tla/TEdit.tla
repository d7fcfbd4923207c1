------------------------------- MODULE TEdit -------------------------------
(***************************************************************************)
(* src/tedit: a text of bounded lines, a cursor, a ring of undo states, a  *)
(* file, and the thread of the web server that serves the file while the   *)
(* editor writes it.  A character is one of EdChar; a line is a sequence   *)
(* of them.  Lines and columns count from 0, as in the source.             *)
(***************************************************************************)
EXTENDS Integers, Sequences, SequencesExt, FiniteSetsExt

CONSTANTS
  EdChar,       \* what is typed
  EdFiles,      \* texts that the file may hold at the start
  EdOpener,     \* characters that open a block
  EdMaxLines,   \* MAX_LINES
  EdMaxLen,     \* MAX_LINE_LEN
  EdMaxUndo,    \* MAX_UNDO
  EdIndent,     \* width of Tab and of a further level
  EdMaxIndent,  \* indentation that is carried over at most
  EdFind,       \* terms that are searched, and their replacements
  EdRows,       \* rows and columns of text that the window shows
  EdCols,
  EdKeys        \* keys that are pressed

EdLetter == EdChar \cup {" "}

ASSUME EdRoomForIndent == EdMaxIndent + EdIndent < EdMaxLen
ASSUME EdSizes ==
  /\ {EdMaxLines, EdMaxLen, EdMaxUndo, EdIndent, EdMaxIndent, EdRows, EdCols, EdKeys} \subseteq Nat
  /\ EdMaxLines >= 1 /\ EdMaxUndo >= 1 /\ EdRows >= 1 /\ EdCols >= 1
\* fgets leaves no more of a line than fits; a search for nothing is none.
ASSUME EdTextsFit ==
  /\ EdFiles \subseteq Seq(Seq(EdLetter))
  /\ \A file \in EdFiles : \A l \in DOMAIN file : Len(file[l]) < EdMaxLen
  /\ EdFind \subseteq Seq(EdLetter) \X Seq(EdLetter)
  /\ \A f \in EdFind : f[1] # <<>>

VARIABLE ed

EdOff == [pc |-> "off"]

NoState == [text |-> <<>>, line |-> 0, col |-> 0]

\* load_file: as many lines as there is room for, and at least one.
EdLoad(file) ==
  [pc |-> "keys", text |-> IF file = <<>> THEN <<(<<>>)>> ELSE SubSeq(file, 1, Min({Len(file), EdMaxLines})),
   line |-> 0, col |-> 0, top |-> 0, left |-> 0, modified |-> FALSE,
   ring |-> [h \in 0 .. EdMaxUndo - 1 |-> NoState], head |-> 0, count |-> 0,
   file |-> file, after |-> "keys", web |-> [pc |-> "off"], keys |-> 0,
   past |-> <<>>, undone |-> TRUE, replaced |-> FALSE, full |-> FALSE]

EdStarts == {EdLoad(file) : file \in EdFiles}

Line(e, l) == e.text[l + 1]
LineLen(e) == Len(Line(e, e.line))

Before(e) == [text |-> e.text, line |-> e.line, col |-> e.col]

UncappedUndo(e) ==
  [e EXCEPT !.ring[e.head] = Before(e), !.head = (@ + 1) % EdMaxUndo, !.count = @ + 1]

\* save_undo_state.
SaveUndoState(e) ==
  [e EXCEPT !.ring[e.head] = Before(e), !.head = (@ + 1) % EdMaxUndo, !.count = Min({@ + 1, EdMaxUndo})]

\* An edit that save_undo_state precedes; past is what the user saw before.
Edited(e, text, line, col) ==
  [SaveUndoState(e) EXCEPT !.text = text, !.line = line, !.col = col, !.modified = TRUE,
     !.past = IF text = e.text THEN @ ELSE Append(@, e.text)]

WithLine(e, l) == [e.text EXCEPT ![e.line + 1] = l]

PerformUndo(e) ==
  IF e.count = 0 THEN e
  ELSE LET h == (e.head - 1 + EdMaxUndo) % EdMaxUndo
           st == e.ring[h]
       IN [e EXCEPT !.head = h, !.count = @ - 1, !.text = st.text, !.line = st.line, !.col = st.col, !.modified = TRUE,
             !.undone = st.text = e.text \/ (e.past # <<>> /\ st.text = Last(e.past)),
             !.past = IF st.text = e.text \/ @ = <<>> THEN @ ELSE Front(@)]

\* With the cursor behind the end of its line, memmove is called with a
\* length below zero: what the editor does from there on is not followed.
Stray(e) == e.col > LineLen(e)
Lost(e) == [e EXCEPT !.pc = "lost"]

InsertChar(e, c) ==
  IF LineLen(e) >= EdMaxLen - 2 THEN e
  ELSE IF Stray(e) THEN Lost(e)
  ELSE Edited(e, WithLine(e, InsertAt(Line(e, e.line), e.col + 1, c)), e.line, e.col + 1)

InsertTab(e) ==
  LET typed[n \in 0 .. EdIndent] ==
        IF n = 0 THEN e
        ELSE IF typed[n - 1].pc = "lost" THEN typed[n - 1]
        ELSE InsertChar(typed[n - 1], " ")
  IN typed[EdIndent]

\* The indentation of a line, and a further level behind an opener.
Indentation(l) == Max({i \in 0 .. Min({Len(l), EdMaxIndent}) : \A j \in 1 .. i : l[j] = " "})
Extra(e) == IF e.col \in 1 .. LineLen(e) /\ Line(e, e.line)[e.col] \in EdOpener THEN EdIndent ELSE 0
Spaces(n) == [i \in 1 .. n |-> " "]
Cut(l) == SubSeq(l, 1, Min({Len(l), EdMaxLen - 1}))

InsertNewlineSmart(e) ==
  IF Len(e.text) >= EdMaxLines - 1 THEN e
  ELSE LET l == Line(e, e.line)
           ind == Indentation(l) + Extra(e)
           text == WithLine(e, SubSeq(l, 1, Min({e.col, Len(l)})))
       IN Edited(e, InsertAt(text, e.line + 2, Cut(Spaces(ind) \o SubSeq(l, e.col + 1, Len(l)))), e.line + 1, ind)

\* A join that would be too long is refused after the undo state is saved.
DeleteChar(e) ==
  LET l == Line(e, e.line) IN
  IF e.col > 0
  THEN IF Stray(e) THEN Lost(e)
       ELSE Edited(e, WithLine(e, RemoveAt(l, e.col)), e.line, e.col - 1)
  ELSE IF e.line > 0
  THEN LET prev == Line(e, e.line - 1) IN
       IF Len(prev) + Len(l) < EdMaxLen - 2
       THEN Edited(e, RemoveAt([e.text EXCEPT ![e.line] = prev \o l], e.line + 1), e.line - 1, Len(prev))
       ELSE SaveUndoState(e)
  ELSE e

DuplicateCurrentLine(e) ==
  IF Len(e.text) >= EdMaxLines - 1 THEN e
  ELSE Edited(e, InsertAt(e.text, e.line + 2, Line(e, e.line)), e.line + 1, e.col)

ClampCol(e) == [e EXCEPT !.col = Min({@, LineLen(e)})]

DeleteCurrentLine(e) ==
  IF Len(e.text) = 1 THEN Edited(e, <<(<<>>)>>, 0, 0)
  ELSE LET text == RemoveAt(e.text, e.line + 1)
       IN ClampCol(Edited(e, text, Min({e.line, Len(text) - 1}), e.col))

----------------------------------------------------------------------------
Occurs(l, term, i) == i + Len(term) <= Len(l) /\ SubSeq(l, i + 1, i + Len(term)) = term

\* Every occurrence from the left, none of them overlapping.
Scanned(l, term, by) ==
  LET from[i \in 0 .. Len(l)] ==
        IF i = Len(l) THEN <<>>
        ELSE IF Occurs(l, term, i) THEN by \o from[i + Len(term)]
        ELSE <<l[i + 1]>> \o from[i + 1]
  IN from[0]

Replaced(l, term, by) == Cut(Scanned(l, term, by))

\* temp_line holds two lines; what happens when more is put together there is
\* not followed.  The cursor stays where it is, whatever becomes of its line.
PromptReplace(e, term, by) ==
  IF \E l \in DOMAIN e.text : Len(Scanned(e.text[l], term, by)) >= 2 * EdMaxLen THEN Lost(e)
  ELSE LET text == [l \in DOMAIN e.text |-> Replaced(e.text[l], term, by)]
           any == \E l \in DOMAIN text : \E i \in 0 .. Len(e.text[l]) : Occurs(e.text[l], term, i)
       IN [Edited([e EXCEPT !.replaced = TRUE], text, e.line, e.col) EXCEPT !.modified = e.modified \/ any]

\* The rest of this line, then the others from their start, in a circle.
FindNextMatch(e, term) ==
  LET n == Len(e.text)
      l(step) == (e.line + step) % n
      hits(step) == {i \in (IF step = 0 THEN e.col + 1 ELSE 0) .. Len(Line(e, l(step))) : Occurs(Line(e, l(step)), term, i)}
      steps == {s \in 0 .. n - 1 : hits(s) # {}}
  IN IF steps = {} THEN e
     ELSE [e EXCEPT !.line = l(Min(steps)), !.col = Min(hits(Min(steps)))]

PromptGotoLine(e, n) == [e EXCEPT !.line = Max({1, Min({n, Len(e.text)})}) - 1, !.col = 0]

Arrow(e, key) ==
  CASE key = "up" -> IF e.line > 0 THEN ClampCol([e EXCEPT !.line = @ - 1]) ELSE e
    [] key = "down" -> IF e.line < Len(e.text) - 1 THEN ClampCol([e EXCEPT !.line = @ + 1]) ELSE e
    [] key = "right" -> IF e.col < LineLen(e) THEN [e EXCEPT !.col = @ + 1]
                        ELSE IF e.line < Len(e.text) - 1 THEN [e EXCEPT !.line = @ + 1, !.col = 0] ELSE e
    [] key = "left" -> IF e.col > 0 THEN [e EXCEPT !.col = @ - 1]
                       ELSE IF e.line > 0 THEN [e EXCEPT !.line = @ - 1, !.col = Len(Line(e, e.line - 1))] ELSE e

\* render_editor: the window follows the cursor.
Scrolled(at, from, size) ==
  LET down == IF at < from THEN at ELSE from
  IN IF at >= down + size THEN at - size + 1 ELSE down

Render(e) == [e EXCEPT !.top = Scrolled(e.line, @, EdRows), !.left = Scrolled(e.col, @, EdCols)]

----------------------------------------------------------------------------
\* The keys that edit, search and move, each with what it asks for.  The
\* others (Escape, themes, help, the shell, a prompt that is left) change no
\* more than the screen.
Typed(e) ==
  {InsertChar(e, c) : c \in EdChar} \cup {PromptReplace(e, f[1], f[2]) : f \in EdFind}
    \cup {FindNextMatch(e, f[1]) : f \in EdFind} \cup {PromptGotoLine(e, n) : n \in {0, 2, EdMaxLines + 1}}
    \cup {Arrow(e, k) : k \in {"up", "down", "left", "right"}}
    \cup {InsertTab(e), InsertNewlineSmart(e), DeleteChar(e), DuplicateCurrentLine(e), DeleteCurrentLine(e), PerformUndo(e)}

Pressed(e) == [e EXCEPT !.keys = @ + 1]

EdKey ==
  /\ ed.pc = "keys" /\ ed.keys < EdKeys
  /\ \E e \in Typed(ed) : ed' = Pressed(IF e.pc = "lost" THEN e ELSE Render(e))

\* save_file opens the file and so empties it, or cannot open it; then it
\* writes what the disk has room for and looks at no result.
Disturbed(web) == IF web.pc \in {"sized", "page"} THEN [web EXCEPT !.alone = FALSE] ELSE web

EdSave(after) ==
  /\ ed.pc = "keys" /\ ed.keys < EdKeys
  /\ \/ ed' = [Pressed(ed) EXCEPT !.pc = "writing", !.after = after, !.file = <<>>, !.web = Disturbed(@)]
     \/ ed' = [Pressed(ed) EXCEPT !.pc = after]

EdWrite ==
  /\ ed.pc = "writing"
  /\ \E n \in {0, Len(ed.text)} :
       ed' = [ed EXCEPT !.pc = ed.after, !.after = "keys", !.file = SubSeq(ed.text, 1, n), !.modified = FALSE,
                        !.full = n < Len(ed.text), !.web = Disturbed(@)]

\* Ctrl-S, Ctrl-X, and F5, which saves and then opens a port once.
EdSaveKey == EdSave("keys") \/ EdSave("leaving") \/ EdSave("serve")

\* trigger_live_web_server.
EdServe ==
  /\ ed.pc = "serve"
  /\ \E free \in BOOLEAN :
       ed' = [ed EXCEPT !.pc = "keys", !.web = IF @.pc = "off" /\ free THEN [pc |-> "accept"] ELSE @]

\* The terminal is gone: the loop ends without saving.
EdHangup == ed.pc = "keys" /\ ed' = [ed EXCEPT !.pc = "leaving"]

\* stop_web_server closes the socket and waits for the thread.
EdStop ==
  /\ ed.pc = "leaving"
  /\ ed.web.pc \in {"off", "accept", "page"}
  /\ ed' = [ed EXCEPT !.pc = "left", !.web = [pc |-> "off"]]

\* web_server_worker: the length, then the content.
EdAccept ==
  /\ ed.pc \notin {"leaving", "left"} /\ ed.web.pc \in {"accept", "page"}
  /\ ed' = [ed EXCEPT !.web = [pc |-> "sized", length |-> Len(ed.file), alone |-> ed.pc # "writing"]]

EdPage ==
  /\ ed.web.pc = "sized"
  /\ ed' = [ed EXCEPT !.web = [pc |-> "page", length |-> @.length, body |-> ed.file, alone |-> @.alone]]

EdNext ==
  /\ ed.pc # "off"
  /\ EdKey \/ EdSaveKey \/ EdWrite \/ EdServe \/ EdHangup \/ EdStop \/ EdAccept \/ EdPage

\* The editor and its thread run; keys come when they come.  A client reads
\* what it asked for.
EdFair == WF_ed(EdWrite) /\ WF_ed(EdServe) /\ WF_ed(ed.pc # "off" /\ EdPage) /\ WF_ed(EdStop)

\* The editor by itself, or none.
EdSpec == ed \in EdStarts \cup {EdOff} /\ [][EdNext]_ed

----------------------------------------------------------------------------
\* Every undo gives back the text as it was before the latest change that is
\* not undone yet, across the wrap of the ring (save_undo_state, perform_undo).
UndoRestores == ed.pc # "off" => ed.undone

\* The cursor is in the text and in the window.  A replacement that shortens
\* the line of the cursor leaves it behind the end (prompt_replace).
CursorInText ==
  ed.pc \notin {"off", "lost"} =>
    /\ ed.line \in 0 .. Len(ed.text) - 1
    /\ ed.replaced \/ ed.col \in 0 .. LineLen(ed)
    /\ ed.line \in ed.top .. ed.top + EdRows - 1 /\ ed.col \in ed.left .. ed.left + EdCols - 1

\* The lines fit in their arrays, whatever is joined, broken or replaced.
TextFits ==
  ed.pc # "off" => Len(ed.text) \in 1 .. EdMaxLines /\ \A l \in DOMAIN ed.text : Len(ed.text[l]) < EdMaxLen

\* A text that is not marked as modified is in the file, the disk permitting,
\* and a page is as long as its header says unless a save came between.
SavedIsText ==
  ed.pc \in {"keys", "leaving"} =>
    /\ ~ed.modified /\ ~ed.full /\ Len(ed.file) <= EdMaxLines => ed.file = ed.text \/ (ed.file = <<>> /\ ed.text = <<(<<>>)>>)
    /\ ed.web.pc = "page" /\ ed.web.alone => ed.web.length = Len(ed.web.body)

\* The editor keeps the user's text.
EditorKeeps == UndoRestores /\ CursorInText /\ TextFits /\ SavedIsText

\* An editor that is told to leave leaves.
EdLeaves == (ed.pc = "leaving") ~> (ed.pc = "left")
=============================================================================
