-------------------------------- MODULE Ltop --------------------------------
(***************************************************************************)
(* low-utils/ltop.c: a table of processes, collected anew before every     *)
(* key, a selected line of it, and keys that send the selected process a   *)
(* signal.  Processes come and go meanwhile.                               *)
(***************************************************************************)
EXTENDS Integers, Sequences, FiniteSets

CONSTANTS
  TopPid,       \* pids, numbers; a higher one uses less memory here
  TopMatching,  \* the pids that the filter lets through
  VisibleRows,  \* lines of the table on the screen
  PageRows      \* lines PgUp and PgDn move (10)

ASSUME LtopAssumption ==
  IsFiniteSet(TopPid) /\ VisibleRows \in Nat \ {0} /\ PageRows \in Nat

VARIABLE ltop

LtopOff == [pc |-> "off"]

LtopStart ==
  [pc |-> "collect", alive |-> TopPid, table |-> <<>>, sel |-> 0, scroll |-> 0,
   byPid |-> FALSE, reverse |-> FALSE, filter |-> FALSE, signalled |-> "none", paged |-> FALSE]

\* compare_procs by memory or by pid, and reversed: a process's line has as
\* many above it as go before it.
Sorted(l, procs) ==
  LET above(p) == {q \in procs : IF l.byPid # l.reverse THEN q < p ELSE q > p}
  IN [i \in 1 .. Cardinality(procs) |-> CHOOSE p \in procs : Cardinality(above(p)) = i - 1]

\* The selection when the table has become shorter.
Clamped(sel, count) == IF sel >= count THEN (IF count > 0 THEN count - 1 ELSE 0) ELSE sel

Scrolled(sel, scroll) ==
  IF sel < scroll THEN sel
  ELSE IF sel >= scroll + VisibleRows THEN sel - VisibleRows + 1 ELSE scroll

\* collect_processes and render_screen.
LtopCollect ==
  /\ ltop.pc = "collect"
  /\ LET table == Sorted(ltop, IF ltop.filter THEN ltop.alive \cap TopMatching ELSE ltop.alive)
         sel == Clamped(ltop.sel, Len(table))
     IN ltop' = [ltop EXCEPT !.pc = "key", !.table = table, !.sel = sel,
                             !.scroll = Scrolled(sel, @), !.signalled = "none"]

LtopProcs == \E s \in SUBSET TopPid : ltop' = [ltop EXCEPT !.alive = s]

Refresh(l) == [l EXCEPT !.pc = "collect"]

\* k, 9 and p: a signal to the process on the selected line, if there is one.
LtopSignal ==
  /\ ltop.pc = "key" /\ Len(ltop.table) > 0 /\ ltop.sel < Len(ltop.table)
  /\ ltop' = [Refresh(ltop) EXCEPT !.signalled =
                IF ltop.sel + 1 \in DOMAIN ltop.table THEN "shown" ELSE "outside"]

\* q and Escape take the filter away first; the selection stays.
LtopQuit ==
  /\ ltop.pc = "key"
  /\ ltop' = IF ltop.filter THEN [Refresh(ltop) EXCEPT !.filter = FALSE] ELSE [ltop EXCEPT !.pc = "exit"]

LtopFilter ==
  /\ ltop.pc = "key"
  /\ \E f \in BOOLEAN : ltop' = [Refresh(ltop) EXCEPT !.filter = f, !.sel = 0]

LtopSort ==
  /\ ltop.pc = "key"
  /\ \/ \E b \in BOOLEAN : ltop' = [Refresh(ltop) EXCEPT !.byPid = b, !.sel = 0]
     \/ ltop' = [Refresh(ltop) EXCEPT !.reverse = ~@]

\* PgDn in an empty table selects line -1.
LtopMove ==
  /\ ltop.pc = "key"
  /\ LET n == Len(ltop.table) IN
     \/ ltop.sel > 0 /\ ltop' = [Refresh(ltop) EXCEPT !.sel = @ - 1]
     \/ ltop.sel + 1 < n /\ ltop' = [Refresh(ltop) EXCEPT !.sel = @ + 1]
     \/ ltop' = [Refresh(ltop) EXCEPT !.sel = IF @ > PageRows THEN @ - PageRows ELSE 0]
     \/ ltop' = [Refresh(ltop) EXCEPT !.sel = IF @ + PageRows < n THEN @ + PageRows ELSE n - 1,
                                     !.paged = @ \/ n = 0]

LtopNext ==
  \/ ltop.pc \in {"collect", "key"} /\ LtopProcs
  \/ LtopCollect \/ LtopSignal \/ LtopQuit \/ LtopFilter \/ LtopSort \/ LtopMove

----------------------------------------------------------------------------
\* A signal goes to a process that the table shows, and the selected line is
\* on the screen, however the table shrank since the last key.  (PgDn in an
\* empty table selects line -1, and taking the filter away with Escape then
\* leaves it selected: after that this says nothing.)
LtopSelects ==
  ltop.pc # "off" /\ ~ltop.paged =>
    /\ ltop.signalled # "outside"
    /\ (ltop.pc = "key" /\ Len(ltop.table) > 0) =>
         /\ ltop.sel \in 0 .. Len(ltop.table) - 1
         /\ ltop.sel \in ltop.scroll .. ltop.scroll + VisibleRows - 1
=============================================================================
