-------------------------------- MODULE Jail --------------------------------
(***************************************************************************)
(* low-utils/jail.c: a child that installs a filter on its own system      *)
(* calls and executes the command, and a parent that waits for it with an  *)
(* alarm.  A system call is its group, the one the code lists it under.    *)
(***************************************************************************)
EXTENDS Integers, Sequences, FiniteSets

CONSTANTS
  JailMaxCalls,  \* bound on the system calls of the command
  JailCaps       \* the capability sets that are tried, subsets of Capability

VARIABLE jail

Capability == {"write", "exec", "net", "ipc", "sig"}
CallGroup == {"base", "other"} \cup Capability

Stmt(op, k) == [op |-> op, k |-> k, jt |-> 0, jf |-> 0]
JeqSwapped(k) == [op |-> "jeq", k |-> k, jt |-> 1, jf |-> 0]

\* The test of ALLOW_SYSCALL: on a match the next instruction, else past it.
Jeq(k) == [op |-> "jeq", k |-> k, jt |-> 0, jf |-> 1]

AllowSyscall(group) == <<Jeq(group), Stmt("ret", "allow")>>
Granted(caps, c) == IF c \in caps THEN AllowSyscall(c) ELSE <<>>

ArchCheck == <<Stmt("ld", "arch"), [op |-> "jeq", k |-> "native", jt |-> 1, jf |-> 0],
               Stmt("ret", "kill"), Stmt("ld", "nr")>>
BaseCalls == AllowSyscall("base")
Refusal(kill) == <<Stmt("ret", IF kill THEN "kill" ELSE "eperm")>>

\* The filter setup_seccomp_jail writes, in its order: the architecture, the
\* calls every program needs, the groups that were granted, and the refusal.
Filter(caps, kill) ==
  ArchCheck \o BaseCalls \o Granted(caps, "write") \o Granted(caps, "exec")
  \o Granted(caps, "net") \o Granted(caps, "ipc") \o Granted(caps, "sig") \o Refusal(kill)

\* What the kernel's interpreter makes of a filter and a call.
Verdict(filter, arch, group) ==
  LET val(what) == IF what = "arch" THEN arch ELSE group
      run[at \in (1 .. Len(filter)) \X {"none", arch, group}] ==
        LET i == filter[at[1]] IN
        CASE i.op = "ld"  -> run[<<at[1] + 1, val(i.k)>>]
          [] i.op = "jeq" -> run[<<at[1] + 1 + (IF at[2] = i.k THEN i.jt ELSE i.jf), at[2]>>]
          [] i.op = "ret" -> i.k
  IN run[<<1, "none">>]

----------------------------------------------------------------------------
JailOff == [pc |-> "off"]

\* The options: any grants, --kill or EPERM, with or without a time limit.
JailStarts ==
  {[pc |-> "fork", caps |-> c, kill |-> k, timed |-> t, alarm |-> FALSE,
    fired |-> FALSE, child |-> "none", code |-> 0, status |-> -1, made |-> {},
    calls |-> 0, result |-> -1] : c \in JailCaps, k \in BOOLEAN, t \in BOOLEAN}

SigKill == 137
SigSys == 159

ChildIs(st) == jail.pc # "off" /\ jail.child = st
Dies(j, code) == [j EXCEPT !.child = "zombie", !.code = code]

JailFork ==
  /\ jail.pc = "fork"
  /\ \/ jail' = [jail EXCEPT !.pc = "alarm", !.child = "setup"]
     \/ jail' = [jail EXCEPT !.pc = "done", !.result = 1]

\* setgid, setuid and setrlimit, whose results are not looked at, then the
\* filter: without it the command is not executed.
ChildFilter ==
  /\ ChildIs("setup")
  /\ \/ jail' = [jail EXCEPT !.child = "exec"]
     \/ jail' = Dies(jail, 126)

\* A call of the child under the filter: it is made, refused or fatal.
Attempt(group, made, refused) ==
  LET v == Verdict(Filter(jail.caps, jail.kill), "native", group)
  IN \/ v = "allow" /\ jail' = made
     \/ v = "eperm" /\ jail' = refused
     \/ v = "kill" /\ jail' = Dies(jail, SigSys)

\* execvp is itself a call of the "exec" group.
ChildExec ==
  /\ ChildIs("exec")
  /\ \/ Attempt("exec", [jail EXCEPT !.child = "run"], Dies(jail, 127))
     \/ jail' = Dies(jail, 127)

ChildCall ==
  /\ ChildIs("run") /\ jail.calls < JailMaxCalls
  /\ \E g \in CallGroup :
       LET one == [jail EXCEPT !.calls = @ + 1]
       IN Attempt(g, [one EXCEPT !.made = @ \cup {g}], one)

ChildEnd == ChildIs("run") /\ \E c \in {0, 1} : jail' = Dies(jail, c)

JailArm ==
  /\ jail.pc = "alarm"
  /\ jail' = [jail EXCEPT !.pc = "wait", !.alarm = jail.timed]

\* alarm_handler's kill; on a child that has ended it changes nothing.
Killed(j) == IF j.child \in {"setup", "exec", "run"} THEN Dies(j, SigKill) ELSE j

\* The handler is installed without SA_RESTART: it also ends a wait4 that is
\* under way, and then status and usage were never written.
AlarmFires ==
  /\ jail.pc \in {"wait", "waited"} /\ jail.alarm
  /\ LET hit == [Killed(jail) EXCEPT !.alarm = FALSE, !.fired = TRUE]
     IN jail' = IF jail.pc = "wait" /\ jail.child # "zombie"
                THEN [hit EXCEPT !.pc = "waited"] ELSE hit

JailWait4 ==
  /\ jail.pc = "wait" /\ jail.child = "zombie"
  /\ jail' = [jail EXCEPT !.pc = "waited", !.child = "reaped", !.status = jail.code]

\* alarm(0), the reports, and what main returns: 124 once the alarm has
\* fired, also when the child had ended by itself.
JailFinish ==
  /\ jail.pc = "waited"
  /\ jail' = [jail EXCEPT !.pc = "done", !.alarm = FALSE,
                !.result = IF jail.fired THEN 124 ELSE jail.status]

JailParent == JailFork \/ JailArm \/ JailWait4 \/ JailFinish
JailChild == ChildFilter \/ ChildExec \/ ChildCall \/ ChildEnd
JailNext == jail.pc # "off" /\ (JailParent \/ JailChild \/ AlarmFires)

\* The parent runs when it can, and an alarm that is set goes off; nothing is
\* assumed of the command, which may run for ever.
JailFair == WF_jail(jail.pc # "off" /\ JailParent) /\ WF_jail(jail.pc # "off" /\ AlarmFires)

----------------------------------------------------------------------------
\* What the command did is what was granted: no call outside the base group
\* and the capabilities got through the filter.
JailConfined == jail.pc # "off" => jail.made \subseteq {"base"} \cup jail.caps

\* When jail is done the command does not run on: it ended, or the alarm
\* killed it; and a result of its own is reported unless the alarm fired.
JailNoneLeft ==
  jail.pc = "done" => /\ jail.child \in {"none", "zombie", "reaped"}
                      /\ ~jail.fired => jail.result = (IF jail.child = "none" THEN 1 ELSE jail.code)
                      /\ jail.child = "zombie" => jail.fired

\* With a time limit jail returns, whatever the command does.
JailReturns == (jail.pc = "wait" /\ jail.timed) ~> (jail.pc = "done")
=============================================================================
