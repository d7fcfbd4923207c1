------------------------------- MODULE Tracer -------------------------------
(***************************************************************************)
(* low-utils/ptrace.c: the loop that resumes a tracee, waits for its next  *)
(* stop and tells the stop before a system call from the one after it by a *)
(* flag.  Other stops come in between: a signal, an exec and the exit.     *)
(***************************************************************************)
EXTENDS Integers, FiniteSets

CONSTANTS
  Sysno,      \* system call numbers of the tracee
  BadNr,      \* a number get_syscall_context returns as -1
  MaxStats,   \* MAX_SYSCALL_MAP
  MaxSyscalls \* bound on the calls of the tracee

ASSUME TracerAssumption == BadNr \notin Sysno /\ MaxStats \in Nat

VARIABLE tr

TracerOff == [pc |-> "off"]

TracerStart ==
  [pc |-> "first", child |-> "starting", at |-> "none", nr |-> BadNr, in |-> FALSE,
   cur |-> BadNr, total |-> 0, stats |-> [n \in {} |-> 0], truth |-> [n \in Sysno |-> 0],
   returned |-> 0, calls |-> 0, signals |-> 0, result |-> -1]

Stopped == tr.pc # "off" /\ tr.child = "stopped"

\* The tracee: raise(SIGSTOP) after PTRACE_TRACEME, or the stop of an attach;
\* TRACEME or the attach may fail, and the target may be gone.
TraceeFirst ==
  /\ tr.pc # "off" /\ tr.child = "starting"
  /\ \/ tr' = [tr EXCEPT !.child = "stopped", !.at = "signal"]
     \/ tr' = [tr EXCEPT !.child = "zombie"]

Runs == tr.pc # "off" /\ tr.child = "runs"
StopAt(t, what) == [t EXCEPT !.child = "stopped", !.at = what]

TraceeEnter ==
  /\ Runs /\ tr.at \notin {"entry", "exec", "dying"} /\ tr.calls < MaxSyscalls
  /\ \E n \in Sysno \cup {BadNr} :
       tr' = [StopAt(tr, "entry") EXCEPT !.nr = n, !.calls = @ + 1]

\* Inside a call: execve stops once more, and then the call returns.
TraceeInside ==
  /\ Runs /\ tr.at \in {"entry", "exec"}
  /\ \/ tr.at = "entry" /\ tr' = StopAt(tr, "exec")
     \/ tr' = [StopAt(tr, "exit") EXCEPT !.nr = BadNr,
                 !.truth = [n \in Sysno |-> IF n = tr.nr THEN tr.truth[n] + 1 ELSE tr.truth[n]],
                 !.returned = IF tr.nr = BadNr THEN @ ELSE @ + 1]

\* A signal stops the tracee; the loop resumes it with 0, so the signal is
\* taken away and the tracee goes on.
TraceeSignal ==
  /\ Runs /\ tr.at \notin {"entry", "exec", "dying"} /\ tr.signals = 0
  /\ tr' = [StopAt(tr, "signal") EXCEPT !.signals = 1]

\* The exit stop of a dying tracee, and SIGKILL, which waits for nobody.
TraceeExit ==
  \/ Runs /\ tr.at = "entry" /\ tr.nr # BadNr /\ tr' = StopAt(tr, "dying")
  \/ Runs /\ tr.at = "dying" /\ tr' = [tr EXCEPT !.child = "zombie"]
  \/ (Runs \/ Stopped) /\ tr' = [tr EXCEPT !.child = "zombie"]

Tracee == TraceeFirst \/ TraceeEnter \/ TraceeInside \/ TraceeSignal \/ TraceeExit

----------------------------------------------------------------------------
\* The tracer.

Gone(t) == [t EXCEPT !.child = "reaped"]

\* The first wait, and PTRACE_SETOPTIONS.
TracerFirst ==
  /\ tr.pc = "first" /\ tr.child \in {"stopped", "zombie"}
  /\ tr' = [(IF tr.child = "zombie" THEN Gone(tr) ELSE tr) EXCEPT !.pc = "resume"]

\* PTRACE_SYSCALL fails when the tracee is not stopped: the loop ends, and a
\* tracee killed while it was stopped is not waited for.
TracerResume ==
  /\ tr.pc = "resume"
  /\ tr' = IF Stopped THEN [tr EXCEPT !.pc = "wait", !.child = "runs"]
           ELSE [tr EXCEPT !.pc = "done"]

\* record_syscall: a number that is not in the full table is not counted.
Record(t) ==
  IF t.cur \in DOMAIN t.stats THEN [t EXCEPT !.stats[t.cur] = @ + 1]
  ELSE IF Cardinality(DOMAIN t.stats) = MaxStats THEN t
  ELSE [t EXCEPT !.stats = [n \in DOMAIN @ \cup {t.cur} |-> IF n = t.cur THEN 1 ELSE @[n]]]

SyscallStopAnyTrap(at) == at \in {"entry", "exit", "exec"}

\* PTRACE_O_TRACESYSGOOD tells the two syscall stops from the other traps.
SyscallStop(at) == at \in {"entry", "exit"}

\* The number the registers hold at a stop; at the exit stop of a call they
\* still hold it, so a number below 0 is skipped at both stops.
TracerWait ==
  /\ tr.pc = "wait"
  /\ \/ tr.child = "zombie" /\ tr' = [Gone(tr) EXCEPT !.pc = "done"]
     \/ /\ Stopped /\ ~SyscallStop(tr.at)
        /\ tr' = [tr EXCEPT !.pc = "resume"]
     \/ /\ Stopped /\ SyscallStop(tr.at) /\ ~tr.in
        /\ tr' = [tr EXCEPT !.pc = "resume", !.in = tr.nr # BadNr, !.cur = tr.nr,
                    !.total = IF tr.nr = BadNr THEN @ ELSE @ + 1]
     \/ /\ Stopped /\ SyscallStop(tr.at) /\ tr.in
        /\ tr' = [Record(tr) EXCEPT !.pc = "resume", !.in = FALSE]

TracerStep == TracerFirst \/ TracerResume \/ TracerWait
TracerNext == tr.pc # "off" /\ (Tracee \/ TracerStep)

\* Both processes run, and a tracee makes finitely many calls.
TracerFair == WF_tr(tr.pc # "off" /\ TracerStep) /\ WF_tr(tr.pc # "off" /\ Tracee)

----------------------------------------------------------------------------
\* Between two stops the flag says whether the tracee is inside a call it was
\* seen to enter: signals, exec stops and calls with a bad number do not make
\* the loop take an exit for an entry.
TracerPairs ==
  tr.pc = "wait" /\ tr.child = "runs" => (tr.in <=> (tr.at \in {"entry", "exec", "dying"} /\ tr.nr # BadNr))

\* The counts are those of the calls that returned, and the total is theirs
\* and the call that is under way, unless the table was full.
TracerTally ==
  tr.pc \in {"resume", "done"} =>
    /\ \A n \in DOMAIN tr.stats : tr.stats[n] <= tr.truth[n]
    /\ (tr.pc = "resume" /\ tr.child = "stopped") =>
         /\ \A n \in DOMAIN tr.stats : tr.stats[n] = tr.truth[n]
         /\ tr.total = tr.returned + (IF tr.in THEN 1 ELSE 0)

\* The tracer ends once the tracee has ended.
TracerReturns == (tr.pc # "off" /\ tr.child \in {"zombie", "reaped"}) ~> (tr.pc = "done")
=============================================================================
