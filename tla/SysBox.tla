------------------------------- MODULE SysBox -------------------------------
(***************************************************************************)
(* src/sysbox: the menu that starts the other programs.  Tabs of entries   *)
(* in a window, the little desktop behind one entry, and the terminal,     *)
(* which is raw for the menu and as it was for whatever is started.        *)
(* A tab may have MAX_ITEMS_PER_TAB entries, more than a small window      *)
(* shows; a window that grows while a long tab is scrolled is left out.    *)
(***************************************************************************)
EXTENDS Integers, Sequences, SequencesExt, FiniteSetsExt

CONSTANTS
  BoxTabs,      \* the tabs: sequences of [cmd, words]; words are the lengths of the description's
  BoxVisible,   \* entries that a window shows
  BoxWidth,     \* width of a description
  BoxThemes     \* THEME_COUNT

\* No tab is empty, and no word of a description; a window shows an entry.
ASSUME BoxMenus ==
  /\ Len(BoxTabs) \in Nat \ {0}
  /\ \A t \in 1 .. Len(BoxTabs) :
       /\ Len(BoxTabs[t]) \in Nat \ {0}
       /\ \A i \in 1 .. Len(BoxTabs[t]) : BoxTabs[t][i].words \in Seq(Nat \ {0})
ASSUME BoxSizes == BoxVisible \subseteq Nat \ {0} /\ BoxWidth \in Nat /\ BoxThemes \in Nat \ {0}

VARIABLE box

BoxOff == [pc |-> "off"]

\* enable_raw_mode saves the terminal as it finds it.
EnableRaw(b) == [b EXCEPT !.orig = b.term, !.term = "raw"]
Restored(b) == [b EXCEPT !.term = b.orig]

BoxStarts ==
  {EnableRaw([pc |-> "render", visible |-> visible, tab |-> 1, item |-> 0, scroll |-> 0, theme |-> 0, wall |-> 0, sel |-> 0,
              term |-> "cooked", orig |-> "none", messed |-> FALSE]) : visible \in BoxVisible}

Items(b) == BoxTabs[b.tab]
Selected(b) == Items(b)[b.item + 1]

----------------------------------------------------------------------------
\* wrap_text: words into three lines, the rest is left out.  A word that does
\* not fit on its line begins the next one, on an empty line too.
Placed(acc, w, width) ==
  LET next == IF acc.col + w >= width THEN [acc EXCEPT !.line = @ + 1, !.col = 0] ELSE acc
  IN  CASE acc.line > 3 -> acc
        [] acc.line <= 3 /\ next.line > 3 -> next
        [] OTHER -> [next EXCEPT !.out[next.line] = Append(@, w), !.col = @ + w + IF @ > 0 THEN 1 ELSE 0]

WrapText(words, width) ==
  LET after[n \in 0 .. Len(words)] ==
        IF n = 0 THEN [line |-> 1, col |-> 0, out |-> <<<<>>, <<>>, <<>> >>]
        ELSE Placed(after[n - 1], words[n], width)
  IN  after[Len(words)].out

\* The entry in row r of the list, or NoItem: an arrow, or nothing.
NoItem == 0 - 1

RowItem(b, r, visible) ==
  LET n == Len(Items(b))
      at == b.scroll + IF r > 0 THEN r - 1 ELSE r
  IN IF (r = 0 /\ b.scroll > 0) \/ (r = visible + 1 /\ b.scroll + visible < n) THEN NoItem
     ELSE IF at < n /\ (r - 1 < visible \/ n <= visible)
     THEN LET i == IF n <= visible THEN r ELSE at IN IF i < n THEN i ELSE NoItem
     ELSE NoItem

ScrolledLate(b, visible) ==
  [b EXCEPT !.scroll = IF b.item < @ THEN b.item ELSE IF b.item > @ + visible THEN b.item - visible + 1 ELSE @]

\* The list is scrolled to the selected entry.
ScrolledTo(b, visible) ==
  [b EXCEPT !.scroll = IF b.item < @ THEN b.item ELSE IF b.item >= @ + visible THEN b.item - visible + 1 ELSE @]

\* render_bios_setup.
BoxRender ==
  /\ box.pc = "render"
  /\ box' = [ScrolledTo(box, box.visible) EXCEPT !.pc = "key"]

\* What it shows: the rows of the list, and the description.
Rows(b) == [r \in 1 .. b.visible + 2 |-> RowItem(b, r - 1, b.visible)]
Desc(b) == WrapText(Selected(b).words, BoxWidth)

----------------------------------------------------------------------------
\* launch_tool: what belongs to the menu is done at once, anything else runs
\* in the terminal as it was.
Launch(b) ==
  LET cmd == Selected(b).cmd IN
  CASE cmd = "exit" -> [b EXCEPT !.pc = "leave"]
    [] cmd = "theme" -> [b EXCEPT !.pc = "render", !.theme = (@ + 1) % BoxThemes]
    [] cmd = "gui" -> [b EXCEPT !.pc = "gui", !.sel = 0]
    [] OTHER -> [Restored(b) EXCEPT !.pc = "tool"]

ToTab(b, t) == [b EXCEPT !.pc = "render", !.tab = t, !.item = 0, !.scroll = 0]
NextTab(b) == (b.tab % Len(BoxTabs)) + 1
PrevTab(b) == ((b.tab + Len(BoxTabs) - 2) % Len(BoxTabs)) + 1

\* A key of the menu.  A second without one only draws the screen again.
BoxKey ==
  /\ box.pc = "key"
  /\ LET n == Len(Items(box)) IN
     \/ box' = [box EXCEPT !.pc = "render", !.theme = (@ + 1) % BoxThemes]
     \/ box' = [box EXCEPT !.pc = "render"]
     \/ box' = ToTab(box, NextTab(box))
     \/ box' = ToTab(box, PrevTab(box))
     \/ box' = Launch(box)
     \/ box' = [box EXCEPT !.pc = "args"]
     \/ box' = IF box.tab # Len(BoxTabs) THEN ToTab(box, Len(BoxTabs)) ELSE [box EXCEPT !.pc = "leave"]
     \/ box' = [box EXCEPT !.pc = "render", !.item = IF @ > 0 THEN @ - 1 ELSE n - 1]
     \/ box' = IF box.item + 1 < n THEN [box EXCEPT !.pc = "render", !.item = @ + 1]
               ELSE [box EXCEPT !.pc = "render", !.item = 0, !.scroll = 0]
     \/ box' = [box EXCEPT !.pc = "leave"]

\* prompt_custom_arguments: nothing typed is nothing started.
BoxArgs ==
  /\ box.pc = "args"
  /\ \E typed \in BOOLEAN : box' = IF typed THEN Launch(box) ELSE [box EXCEPT !.pc = "render"]

\* The tool runs, may leave the terminal as it likes, and a key is awaited.
BoxTool ==
  /\ box.pc = "tool"
  /\ \E term \in {"cooked", "raw"} :
       box' = [EnableRaw([box EXCEPT !.term = term]) EXCEPT !.pc = "render", !.messed = @ \/ term # "cooked"]

\* app_runner_flow writes a little program into the temporary directory,
\* builds and runs it, whether it could write it or not.
BoxApp ==
  /\ box.pc = "app"
  /\ \E term \in {"cooked", "raw"} :
       box' = [EnableRaw([box EXCEPT !.term = term]) EXCEPT !.pc = "gui", !.messed = @ \/ term # "cooked"]

GuiItem(b, i) ==
  CASE i < 3 -> [Restored(b) EXCEPT !.pc = "app"]
    [] i = 3 -> [b EXCEPT !.wall = (@ + 1) % 3]
    [] i = 4 -> [b EXCEPT !.pc = "render", !.sel = 0]

\* render_desktop_monitor_frame: the rows of the five entries, of which the
\* window shows the rows from 3 to 7, and the one that is marked.
GuiMarked(b) == {row \in 3 .. 7 : row - 3 = b.sel}

\* run_desktop_gui.
BoxGui ==
  /\ box.pc = "gui"
  /\ \/ box' = [box EXCEPT !.pc = "render", !.sel = 0]
     \/ box' = [box EXCEPT !.sel = IF @ > 0 THEN @ - 1 ELSE 4]
     \/ box' = [box EXCEPT !.sel = IF @ < 4 THEN @ + 1 ELSE 0]
     \/ \E i \in 0 .. 4 : box' = GuiItem(box, i)
     \/ box' = GuiItem(box, box.sel)

BoxLeave == box.pc = "leave" /\ box' = [Restored(box) EXCEPT !.pc = "left"]

BoxNext == box.pc # "off" /\ (BoxRender \/ BoxKey \/ BoxArgs \/ BoxTool \/ BoxApp \/ BoxGui \/ BoxLeave)

\* The menu by itself.
BoxSpec == box \in BoxStarts \cup {BoxOff} /\ [][BoxNext]_box

----------------------------------------------------------------------------
\* The words of the lines are those of the description in their order, and no
\* line is wider than its column unless a single word is.
LettersIn(line) ==
  LET upto[n \in 0 .. Len(line)] == IF n = 0 THEN 0 ELSE upto[n - 1] + line[n]
  IN  upto[Len(line)]

Wrapped(words, lines) ==
  /\ IsPrefix(lines[1] \o lines[2] \o lines[3], words)
  /\ \A i \in 1 .. 3 : Len(lines[i]) < 2 \/ LettersIn(lines[i]) + Len(lines[i]) - 1 <= BoxWidth

\* Of every screen: the selected entry is on it, in the order of the
\* tab, and its description is wrapped; a tool and the shell after the menu
\* find the terminal as it was, unless a tool left it otherwise before, which
\* enable_raw_mode then takes for the original.
MenuShows ==
  /\ box.pc \in {"key", "args"} =>
       /\ LET rows == Rows(box) IN
            /\ \E r \in DOMAIN rows : rows[r] = box.item
            /\ \A r, s \in DOMAIN rows : r < s /\ rows[r] # NoItem /\ rows[s] # NoItem => rows[r] <= rows[s]
       /\ Wrapped(Selected(box).words, Desc(box))
       /\ box.term = "raw"
  /\ box.pc \in {"tool", "app", "left"} => box.messed \/ box.term = "cooked"
  /\ box.pc = "gui" => box.term = "raw" /\ GuiMarked(box) # {}
=============================================================================
