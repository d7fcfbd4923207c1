-------------------------- MODULE ProcessesProofs --------------------------
(***************************************************************************)
(* Theorems about the programs that run, watch or confine other processes  *)
(* (low-utils/lsh.c, jail.c, ptrace.c, ltop.c), for every set of lines,    *)
(* system calls and processes and every size of their tables.              *)
(***************************************************************************)
EXTENDS Processes, SequenceTheorems, FiniteSetTheorems, WellFoundedInduction, TLAPS

-----------------------------------------------------------------------------
(* Jail.                                                                   *)

\* The sets that the fields of the record are in.
JailPc == {"fork", "alarm", "wait", "waited", "done"}
ChildState == {"none", "setup", "exec", "run", "zombie", "reaped"}
JailNum == Int

JailRec ==
  [pc : JailPc, caps : JailCaps, kill : BOOLEAN, timed : BOOLEAN, alarm : BOOLEAN,
   fired : BOOLEAN, child : ChildState, code : JailNum, status : JailNum,
   made : SUBSET CallGroup, calls : JailNum, result : JailNum]

\* From the fork to the wait there is a child nobody has waited for; once the
\* alarm has fired it has ended; and what wait4 wrote is its code, unless the
\* alarm cut wait4 short.
JailGood(j) ==
  /\ j \in JailRec
  /\ j.pc = "fork" => j.child = "none"
  /\ j.pc \in {"alarm", "wait"} => j.child \notin {"none", "reaped"}
  /\ j.pc \in {"fork", "alarm"} => ~j.fired
  /\ j.fired => j.child \in {"zombie", "reaped"}
  /\ j.pc = "waited" => /\ j.child \in {"zombie", "reaped"}
                        /\ j.child = "reaped" => j.status = j.code
                        /\ j.child = "zombie" => j.fired
  /\ j.pc = "done" => /\ j.child \in {"none", "zombie", "reaped"}
                      /\ ~j.fired => j.result = (IF j.child = "none" THEN 1 ELSE j.code)
                      /\ j.child = "zombie" => j.fired

JailInv == jail = JailOff \/ JailGood(jail)

\* Every step of the parent, the child and the alarm keeps it.
LEMMA JailStep ==
  ASSUME JailInv, jail.pc # "off", JailNext
  PROVE  JailInv'
  <1>1. JailGood(jail)
    BY DEF JailInv, JailOff
  <1>2. SUFFICES JailGood(jail')
    BY DEF JailInv
  <1>0. /\ {"fork", "alarm", "wait", "waited", "done"} \subseteq JailPc
        /\ {"none", "setup", "exec", "run", "zombie", "reaped"} \subseteq ChildState
        /\ {0, 1, 124, 126, 127, SigKill, SigSys} \subseteq JailNum
    BY DEF JailPc, ChildState, JailNum, SigKill, SigSys
  <1>2a. jail \in JailRec
    BY <1>1 DEF JailGood
  <1>3. CASE JailFork
    <2>1. CASE jail' = [jail EXCEPT !.pc = "alarm", !.child = "setup"]
      <3>1. jail' \in JailRec
        BY <1>0, <1>2a, <2>1 DEF JailRec
      <3> QED BY <1>1, <1>3, <2>1, <3>1 DEF JailFork, JailGood, JailRec
    <2>2. CASE jail' = [jail EXCEPT !.pc = "done", !.result = 1]
      <3>1. jail' \in JailRec
        BY <1>0, <1>2a, <2>2 DEF JailRec
      <3> QED BY <1>1, <1>3, <2>2, <3>1 DEF JailFork, JailGood, JailRec
    <2> QED BY <1>3, <2>1, <2>2, Zenon DEF JailFork
  <1>4. CASE JailArm
    <2>1. jail' \in JailRec
      BY <1>0, <1>2a, <1>4 DEF JailRec, JailArm
    <2> QED BY <1>1, <1>4, <2>1 DEF JailArm, JailGood, JailRec
  <1>5. CASE JailWait4
    <2>1. jail' \in JailRec
      BY <1>0, <1>2a, <1>5 DEF JailRec, JailWait4
    <2> QED BY <1>1, <1>5, <2>1 DEF JailWait4, JailGood, JailRec
  <1>6. CASE JailFinish
    <2> DEFINE r == IF jail.fired THEN 124 ELSE jail.status
    <2>1. r \in JailNum
      BY <1>0, <1>2a DEF JailRec
    <2>2. jail' = [jail EXCEPT !.pc = "done", !.alarm = FALSE, !.result = r]
      BY <1>6 DEF JailFinish
    <2>3. r = IF jail.fired THEN 124 ELSE jail.status
      OBVIOUS
    <2> HIDE DEF r
    <2>4. jail' \in JailRec
      BY <1>0, <1>2a, <2>1, <2>2 DEF JailRec
    <2> QED BY <1>1, <1>6, <2>2, <2>3, <2>4 DEF JailFinish, JailGood, JailRec
  <1>7. ASSUME jail.child \in {"setup", "exec", "run"}, NEW k \in {0, 1, 126, 127, SigKill, SigSys},
               jail' = Dies(jail, k)
        PROVE  JailGood(jail')
    <2>1. jail' \in JailRec
      BY <1>0, <1>2a, <1>7, ZenonT(60) DEF JailRec, Dies
    <2> QED BY <1>1, <1>7, <2>1 DEF Dies, JailGood, JailRec
  <1>8. ASSUME jail.child \in {"setup", "exec", "run"}, NEW c \in {"exec", "run"},
               jail' = [jail EXCEPT !.child = c]
        PROVE  JailGood(jail')
    <2>1. jail' \in JailRec
      BY <1>0, <1>2a, <1>8 DEF JailRec
    <2> QED BY <1>1, <1>8, <2>1 DEF JailGood, JailRec
  <1>9. CASE ChildFilter
    BY <1>7, <1>8, <1>9 DEF ChildFilter, ChildIs
  <1>10. CASE ChildExec
    BY <1>7, <1>8, <1>10 DEF ChildExec, ChildIs, Attempt
  <1>11. CASE ChildCall
    <2>1. PICK g \in CallGroup :
            LET one == [jail EXCEPT !.calls = @ + 1]
            IN \/ jail' = [one EXCEPT !.made = @ \cup {g}]
               \/ jail' = one
               \/ jail' = Dies(jail, SigSys)
      BY <1>11, Zenon DEF ChildCall, Attempt
    <2>2. jail.calls + 1 \in JailNum /\ jail.made \cup {g} \in SUBSET CallGroup
      BY <1>2a DEF JailRec, JailNum
    <2>3. CASE \/ jail' = [jail EXCEPT !.calls = @ + 1, !.made = @ \cup {g}]
               \/ jail' = [jail EXCEPT !.calls = @ + 1]
      <3>1. jail' \in JailRec
        BY <1>2a, <2>2, <2>3 DEF JailRec
      <3> QED BY <1>1, <1>11, <2>3, <3>1 DEF JailGood, JailRec, ChildCall, ChildIs
    <2> QED BY <1>2a, <1>7, <1>11, <2>1, <2>3 DEF ChildCall, ChildIs, JailRec
  <1>12. CASE ChildEnd
    BY <1>7, <1>12 DEF ChildEnd, ChildIs
  <1>13. CASE AlarmFires
    <2> DEFINE k == IF jail.child \in {"setup", "exec", "run"} THEN "zombie" ELSE jail.child
               d == IF jail.child \in {"setup", "exec", "run"} THEN SigKill ELSE jail.code
               q == IF jail.pc = "wait" /\ jail.child # "zombie" THEN "waited" ELSE jail.pc
    <2>1. jail' = [jail EXCEPT !.pc = q, !.child = k, !.code = d, !.alarm = FALSE, !.fired = TRUE]
      BY <1>2a, <1>13 DEF AlarmFires, Killed, Dies, JailRec
    <2>2. k \in ChildState /\ d \in JailNum /\ q \in JailPc
      BY <1>0, <1>2a DEF JailRec
    <2>3. /\ jail.pc \in {"wait", "waited"} /\ q \in {"wait", "waited"}
          /\ k \in {"zombie", "reaped"} /\ (q = "wait" => k = "zombie")
          /\ (k = "reaped" => jail.child = "reaped" /\ d = jail.code /\ jail.pc = "waited")
      BY <1>1, <1>13 DEF AlarmFires, JailGood, JailRec, ChildState
    <2> HIDE DEF k, d, q
    <2>4. jail' \in JailRec
      BY <1>2a, <2>1, <2>2 DEF JailRec
    <2>5. /\ jail'.pc = q /\ jail'.child = k /\ jail'.code = d /\ jail'.fired
          /\ jail'.status = jail.status
      BY <1>2a, <2>1 DEF JailRec
    <2> QED BY <1>1, <2>3, <2>4, <2>5 DEF JailGood
  <1> QED
    BY <1>3, <1>4, <1>5, <1>6, <1>9, <1>10, <1>11, <1>12, <1>13
    DEF JailNext, JailParent, JailChild

\* An instruction at p of a filter of n instructions: it stays inside.
StaysInside(i, p, n) ==
  \/ i.op = "ld" /\ p + 1 <= n
  \/ i.op = "jeq" /\ i.jt \in {0, 1} /\ i.jf \in {0, 1} /\ p + 2 <= n
  \/ i.op = "ret"

Places(filter, arch, group) == (1 .. Len(filter)) \X {"none", arch, group}

\* One turn of the interpreter, with what it makes of the places behind.
Turn(filter, arch, group, run, p, acc) ==
  LET i == filter[p]
  IN  CASE i.op = "ld"  -> run[<<p + 1, IF i.k = "arch" THEN arch ELSE group>>]
        [] i.op = "jeq" -> run[<<p + 1 + (IF acc = i.k THEN i.jt ELSE i.jf), acc>>]
        [] i.op = "ret" -> i.k

\* The interpreter of a filter that stays inside.
LEMMA Interpreted ==
  ASSUME NEW filter, NEW arch, NEW group, Len(filter) \in Nat, Len(filter) >= 1,
         \A p \in 1 .. Len(filter) : StaysInside(filter[p], p, Len(filter))
  PROVE  \E run : /\ Verdict(filter, arch, group) = run[<<1, "none">>]
                  /\ \A p \in 1 .. Len(filter), acc \in {"none", arch, group} :
                       run[<<p, acc>>] = Turn(filter, arch, group, run, p, acc)
  <1> DEFINE n == Len(filter)
             A == {"none", arch, group}
             D == Places(filter, arch, group)
             body(run, at) == Turn(filter, arch, group, run, at[1], at[2])
             Whole(run) == run = [at \in D |-> body(run, at)]
             From(k, run) == \A p \in n - k + 1 .. n, acc \in A : run[<<p, acc>>] = Turn(filter, arch, group, run, p, acc)
             Missed == {k \in 0 .. n : ~\E run : run = [at \in D |-> run[at]] /\ From(k, run)}
  <1>1. Verdict(filter, arch, group) = (CHOOSE run : Whole(run))[<<1, "none">>]
    BY DEF Verdict, Turn, Places
  <1>2. ASSUME NEW r, NEW s, NEW p \in 1 .. n, NEW acc \in A,
               \A q \in p + 1 .. n, a \in A : r[<<q, a>>] = s[<<q, a>>]
        PROVE  Turn(filter, arch, group, r, p, acc) = Turn(filter, arch, group, s, p, acc)
    <2>1. CASE filter[p].op = "ld"
      <3> DEFINE b == IF filter[p].k = "arch" THEN arch ELSE group
      <3>1. p + 1 \in p + 1 .. n /\ b \in A
        BY <2>1 DEF StaysInside
      <3>2. r[<<p + 1, b>>] = s[<<p + 1, b>>]
        BY <1>2, <3>1
      <3> QED BY <2>1, <3>2, Zenon DEF Turn
    <2>2. CASE filter[p].op = "jeq"
      <3> DEFINE q == p + 1 + (IF acc = filter[p].k THEN filter[p].jt ELSE filter[p].jf)
      <3>1. q \in p + 1 .. n
        BY <2>2 DEF StaysInside
      <3>2. r[<<q, acc>>] = s[<<q, acc>>]
        BY <1>2, <3>1
      <3> QED BY <2>2, <3>2, Zenon DEF Turn
    <2>3. CASE filter[p].op = "ret"
      BY <2>3, Zenon DEF Turn
    <2> QED BY <2>1, <2>2, <2>3 DEF StaysInside
  <1>8. \A r, s, p, acc :
          p \in 1 .. n /\ acc \in A /\ (\A q \in p + 1 .. n, a \in A : r[<<q, a>>] = s[<<q, a>>])
          => Turn(filter, arch, group, r, p, acc) = Turn(filter, arch, group, s, p, acc)
    <2> HIDE DEF n, A
    <2> QED BY <1>2, Zenon
  <1>3. Missed = {}
    <2> SUFFICES ASSUME Missed # {} PROVE FALSE
      OBVIOUS
    <2>1. PICK k \in Missed : \A j \in 0 .. n : j < k => j \notin Missed
      <3>1. Missed \subseteq Nat /\ Missed # {}
        OBVIOUS
      <3> HIDE DEF Missed
      <3>2. PICK k \in Missed : \A j \in Missed : ~(<<j, k>> \in OpToRel(<, Nat))
        BY <3>1, NatLessThanWellFounded, WFMin
      <3>3. \A j \in Nat : j < k => <<j, k>> \in OpToRel(<, Nat)
        BY <3>1, Zenon DEF OpToRel
      <3> QED BY <3>1, <3>2, <3>3
    <2>2. k # 0
      <3>1. From(0, [at \in D |-> 0])
        OBVIOUS
      <3> DEFINE z == [at \in D |-> 0]
      <3>2. z = [at \in D |-> z[at]]
        OBVIOUS
      <3> QED BY <3>1, <3>2
    <2>3. k - 1 \in 0 .. n /\ k - 1 < k /\ k \in 1 .. n
      BY <2>2
    <2>4. PICK r : r = [at \in D |-> r[at]] /\ From(k - 1, r)
      BY <2>1, <2>3
    <2> DEFINE m == n - k + 1
               s == [at \in D |-> IF at[1] = m THEN body(r, at) ELSE r[at]]
    <2>5. m \in 1 .. n
      BY <2>3
    <2>6. \A p \in 1 .. n, acc \in A : s[<<p, acc>>] = IF p = m THEN Turn(filter, arch, group, r, p, acc) ELSE r[<<p, acc>>]
      <3> SUFFICES ASSUME NEW p \in 1 .. n, NEW acc \in A
                   PROVE  s[<<p, acc>>] = IF p = m THEN Turn(filter, arch, group, r, p, acc) ELSE r[<<p, acc>>]
        OBVIOUS
      <3>1. <<p, acc>> \in D /\ <<p, acc>>[1] = p /\ <<p, acc>>[2] = acc
        BY DEF Places
      <3> HIDE DEF D, m
      <3> QED BY <3>1
    <2>7. s = [at \in D |-> s[at]]
      OBVIOUS
    <2> HIDE DEF s
    <2>8. From(k, s)
      <3> SUFFICES ASSUME NEW p \in n - k + 1 .. n, NEW acc \in A
                   PROVE  s[<<p, acc>>] = Turn(filter, arch, group, s, p, acc)
        OBVIOUS
      <3>1. p \in 1 .. n /\ p >= m
        BY <2>3, <2>5
      <3>2. \A q \in p + 1 .. n, a \in A : r[<<q, a>>] = s[<<q, a>>]
        <4>1. \A q \in p + 1 .. n : q \in 1 .. n /\ q # m
          BY <2>5, <3>1
        <4> HIDE DEF A, m
        <4> QED BY <2>6, <4>1
      <3>3. Turn(filter, arch, group, r, p, acc) = Turn(filter, arch, group, s, p, acc)
        <4>1. p \in 1 .. n /\ acc \in A
          BY <3>1
        <4> HIDE DEF A, D, m, n
        <4> QED BY <1>8, <3>2, <4>1
      <3>4. CASE p = m
        BY <2>6, <3>1, <3>3, <3>4
      <3>5. CASE p # m
        <4>1. p \in n - (k - 1) + 1 .. n
          BY <2>3, <3>1, <3>5
        <4> QED BY <2>4, <2>6, <3>1, <3>3, <3>5, <4>1
      <3> QED BY <3>4, <3>5
    <2> QED BY <2>1, <2>7, <2>8
  <1>4. \E run : Whole(run)
    <2>1. n \in 0 .. n /\ n - n + 1 = 1
      OBVIOUS
    <2>2. PICK r : r = [at \in D |-> r[at]] /\ From(n, r)
      BY <1>3, <2>1
    <2>3. \A at \in D : r[at] = body(r, at)
      <3> SUFFICES ASSUME NEW at \in D PROVE r[at] = body(r, at)
        OBVIOUS
      <3>1. at = <<at[1], at[2]>> /\ at[1] \in 1 .. n /\ at[2] \in A
        BY DEF Places
      <3> QED BY <2>1, <2>2, <3>1
    <2> HIDE DEF D, body
    <2>4. [at \in D |-> r[at]] = [at \in D |-> body(r, at)]
      BY <2>3
    <2> QED BY <2>2, <2>4
  <1> DEFINE run == CHOOSE f : Whole(f)
  <1>5. Whole(run)
    BY <1>4, Zenon
  <1> HIDE DEF run
  <1>6. \A p \in 1 .. n, acc \in A : run[<<p, acc>>] = Turn(filter, arch, group, run, p, acc)
    <2> SUFFICES ASSUME NEW p \in 1 .. n, NEW acc \in A PROVE run[<<p, acc>>] = Turn(filter, arch, group, run, p, acc)
      OBVIOUS
    <2>1. <<p, acc>> \in D /\ <<p, acc>>[1] = p /\ <<p, acc>>[2] = acc
      BY DEF Places
    <2> HIDE DEF D
    <2>2. run[<<p, acc>>] = body(run, <<p, acc>>)
      <3> HIDE DEF body
      <3> QED BY <1>5, <2>1
    <2> QED BY <2>1, <2>2
  <1>7. Verdict(filter, arch, group) = run[<<1, "none">>]
    BY <1>1 DEF run
  <1> HIDE DEF Whole
  <1> QED BY <1>6, <1>7

\* A rule of ALLOW_SYSCALL for one of ok.
IsRule(s, i, ok) ==
  /\ s[i].op = "jeq" /\ s[i].jt = 0 /\ s[i].jf = 1 /\ s[i].k \in ok
  /\ s[i + 1].op = "ret" /\ s[i + 1].k = "allow"

\* The first four instructions check the architecture, the others are rules.
Opening(s) ==
  /\ Len(s) >= 4
  /\ s[1] = Stmt("ld", "arch") /\ s[2] = [op |-> "jeq", k |-> "native", jt |-> 1, jf |-> 0]
  /\ s[3] = Stmt("ret", "kill") /\ s[4] = Stmt("ld", "nr")

FilterKey == {"arch", "nr", "native", "allow", "kill", "eperm"} \cup CallGroup
FilterInstr == [op : {"ld", "jeq", "ret"}, k : FilterKey, jt : {0, 1}, jf : {0, 1}]

Ruled(s, ok) ==
  /\ s \in Seq(FilterInstr) /\ Opening(s)
  /\ \E m \in Nat : /\ Len(s) = 4 + 2 * m
                    /\ \A j \in 1 .. m : IsRule(s, 3 + 2 * j, ok)

\* Two sequences one after the other.
LEMMA Joined ==
  ASSUME NEW S, NEW s \in Seq(S), NEW t \in Seq(S), NEW u, u = s \o t
  PROVE  /\ u \in Seq(S) /\ Len(u) = Len(s) + Len(t)
         /\ \A i \in 1 .. Len(s) + Len(t) : u[i] = IF i <= Len(s) THEN s[i] ELSE t[i - Len(s)]
  BY ConcatProperties

\* A group that is granted adds a rule, one that is not adds nothing.
LEMMA RuleAdded ==
  ASSUME NEW s, NEW ok, Ruled(s, ok), NEW group \in CallGroup, group \in ok
  PROVE  Ruled(s \o AllowSyscall(group), ok)
  <1> DEFINE t == AllowSyscall(group)
             u == s \o t
  <1>1. PICK m \in Nat : Len(s) = 4 + 2 * m /\ \A j \in 1 .. m : IsRule(s, 3 + 2 * j, ok)
    BY DEF Ruled
  <1>2. /\ t \in Seq(FilterInstr) /\ Len(t) = 2
        /\ t[1] = Jeq(group) /\ t[2] = Stmt("ret", "allow")
    <2>1. Jeq(group) \in FilterInstr /\ Stmt("ret", "allow") \in FilterInstr
      BY DEF Jeq, Stmt, FilterInstr, FilterKey
    <2> QED BY <2>1 DEF AllowSyscall
  <1>3. s \in Seq(FilterInstr) /\ Opening(s) /\ Len(s) \in Nat
    BY LenProperties DEF Ruled
  <1> HIDE DEF t
  <1>4. /\ u \in Seq(FilterInstr) /\ Len(u) = Len(s) + 2
        /\ \A i \in 1 .. Len(s) + 2 : u[i] = IF i <= Len(s) THEN s[i] ELSE t[i - Len(s)]
    <2>0. s \in Seq(FilterInstr) /\ t \in Seq(FilterInstr)
      BY <1>2, <1>3
    <2>1. Len(t) = 2
      BY <1>2, <1>3
    <2> HIDE DEF FilterInstr
    <2>2. /\ u \in Seq(FilterInstr) /\ Len(u) = Len(s) + Len(t)
          /\ \A i \in 1 .. Len(s) + Len(t) : u[i] = IF i <= Len(s) THEN s[i] ELSE t[i - Len(s)]
      <3>1. u = s \o t
        OBVIOUS
      <3> HIDE DEF u
      <3> QED BY <2>0, <3>1, Joined
    <2> HIDE DEF u
    <2> QED BY <2>1, <2>2
  <1> HIDE DEF u
  <1>5. Opening(u)
    <2>1. \A i \in 1 .. 4 : u[i] = s[i]
      BY <1>1, <1>4
    <2> QED BY <1>3, <1>4, <2>1 DEF Opening
  <1>6. \A j \in 1 .. m : IsRule(u, 3 + 2 * j, ok)
    <2> SUFFICES ASSUME NEW j \in 1 .. m PROVE IsRule(u, 3 + 2 * j, ok)
      OBVIOUS
    <2>1. u[3 + 2 * j] = s[3 + 2 * j] /\ u[3 + 2 * j + 1] = s[3 + 2 * j + 1]
      BY <1>1, <1>4
    <2> QED BY <1>1, <2>1 DEF IsRule
  <1>7. IsRule(u, 3 + 2 * (m + 1), ok)
    <2>1. u[3 + 2 * (m + 1)] = t[1] /\ u[3 + 2 * (m + 1) + 1] = t[2]
      BY <1>1, <1>4
    <2> QED BY <1>2, <2>1 DEF IsRule, Jeq, Stmt
  <1>8. Len(u) = 4 + 2 * (m + 1) /\ m + 1 \in Nat /\ \A j \in 1 .. m + 1 : IsRule(u, 3 + 2 * j, ok)
    <2>1. \A j \in 1 .. m + 1 : j \in 1 .. m \/ j = m + 1
      OBVIOUS
    <2>2. Len(u) = 4 + 2 * (m + 1) /\ m + 1 \in Nat
      BY <1>1, <1>4
    <2> QED BY <1>6, <1>7, <2>1, <2>2
  <1> QED BY <1>4, <1>5, <1>8 DEF Ruled, u, t

\* A grant, or its absence, keeps the list one of rules.
LEMMA GrantAdded ==
  ASSUME NEW s, NEW ok, Ruled(s, ok), NEW caps, caps \subseteq ok, NEW c \in CallGroup
  PROVE  Ruled(s \o Granted(caps, c), ok)
  <1>1. CASE c \in caps
    BY <1>1, RuleAdded DEF Granted
  <1>2. CASE c \notin caps
    <2>1. s \o <<>> = s
      BY ConcatEmptySeq DEF Ruled
    <2> QED BY <1>2, <2>1 DEF Granted
  <1> QED BY <1>1, <1>2

\* What setup_seccomp_jail writes, whatever was granted.
LEMMA FilterIs ==
  ASSUME NEW caps, NEW kill \in BOOLEAN
  PROVE  \E s : /\ Ruled(s, {"base"} \cup caps)
                /\ Filter(caps, kill) = s \o Refusal(kill)
  <1> DEFINE ok == {"base"} \cup caps
             s0 == ArchCheck \o BaseCalls
             s1 == s0 \o Granted(caps, "write")
             s2 == s1 \o Granted(caps, "exec")
             s3 == s2 \o Granted(caps, "net")
             s4 == s3 \o Granted(caps, "ipc")
             s5 == s4 \o Granted(caps, "sig")
  <1>1. Filter(caps, kill) = s5 \o Refusal(kill)
    BY DEF Filter
  <1>2. Ruled(ArchCheck, ok)
    <2>0. /\ Stmt("ld", "arch") \in FilterInstr /\ [op |-> "jeq", k |-> "native", jt |-> 1, jf |-> 0] \in FilterInstr
          /\ Stmt("ret", "kill") \in FilterInstr /\ Stmt("ld", "nr") \in FilterInstr
      BY DEF Stmt, FilterInstr, FilterKey
    <2>1. ArchCheck \in Seq(FilterInstr) /\ Len(ArchCheck) = 4 /\ Opening(ArchCheck)
      BY <2>0 DEF ArchCheck, Opening
    <2>2. 0 \in Nat /\ Len(ArchCheck) = 4 + 2 * 0 /\ \A j \in 1 .. 0 : IsRule(ArchCheck, 3 + 2 * j, ok)
      BY <2>1
    <2> QED BY <2>1, <2>2 DEF Ruled
  <1>3. "base" \in ok /\ caps \subseteq ok
    OBVIOUS
  <1>3a. {"base", "write", "exec", "net", "ipc", "sig"} \subseteq CallGroup
    BY DEF CallGroup, Capability
  <1> HIDE DEF ok
  <1>4. Ruled(s0, ok)
    BY <1>2, <1>3, <1>3a, RuleAdded DEF BaseCalls
  <1> HIDE DEF s0
  <1>5. Ruled(s1, ok)
    BY <1>3, <1>3a, <1>4, GrantAdded
  <1> HIDE DEF s1
  <1>6. Ruled(s2, ok)
    BY <1>3, <1>3a, <1>5, GrantAdded
  <1> HIDE DEF s2
  <1>7. Ruled(s3, ok)
    BY <1>3, <1>3a, <1>6, GrantAdded
  <1> HIDE DEF s3
  <1>8. Ruled(s4, ok)
    BY <1>3, <1>3a, <1>7, GrantAdded
  <1> HIDE DEF s4
  <1>9. Ruled(s5, ok)
    BY <1>3, <1>3a, <1>8, GrantAdded
  <1> QED BY <1>1, <1>9 DEF ok

\* A call that the filter allows is one of the base group or was granted.
LEMMA AllowedIsGranted ==
  ASSUME NEW caps, NEW kill \in BOOLEAN, NEW group \in CallGroup,
         Verdict(Filter(caps, kill), "native", group) = "allow"
  PROVE  group \in {"base"} \cup caps
  <1> DEFINE f == Filter(caps, kill)
             ok == {"base"} \cup caps
             n == Len(f)
  <1>1. PICK s : Ruled(s, ok) /\ f = s \o Refusal(kill)
    BY FilterIs
  <1>2. PICK m \in Nat : Len(s) = 4 + 2 * m /\ \A j \in 1 .. m : IsRule(s, 3 + 2 * j, ok)
    BY <1>1 DEF Ruled
  <1>3. s \in Seq(FilterInstr) /\ Opening(s)
    BY <1>1 DEF Ruled
  <1> DEFINE t == Refusal(kill)
  <1>4. t \in Seq(FilterInstr) /\ Len(t) = 1 /\ t[1].op = "ret" /\ t[1].k # "allow"
    <2>1. Stmt("ret", IF kill THEN "kill" ELSE "eperm") \in FilterInstr
      BY DEF Stmt, FilterInstr, FilterKey
    <2> QED BY <2>1 DEF Refusal, Stmt
  <1> HIDE DEF t
  <1>5. /\ f \in Seq(FilterInstr) /\ n = Len(s) + 1
        /\ \A i \in 1 .. Len(s) + 1 : f[i] = IF i <= Len(s) THEN s[i] ELSE t[i - Len(s)]
    <2>0. s \in Seq(FilterInstr) /\ t \in Seq(FilterInstr)
      BY <1>3, <1>4
    <2>0a. f = s \o t
      BY <1>1 DEF t
    <2>1. Len(t) = 1
      BY <1>1, <1>3, <1>4 DEF t
    <2> HIDE DEF f
    <2>2. /\ f \in Seq(FilterInstr) /\ Len(f) = Len(s) + Len(t)
          /\ \A i \in 1 .. Len(s) + Len(t) : f[i] = IF i <= Len(s) THEN s[i] ELSE t[i - Len(s)]
      BY <2>0, <2>0a, Joined
    <2> QED BY <2>1, <2>2
  <1> HIDE DEF f, ok
  <1>6. /\ n = 5 + 2 * m
        /\ f[1] = Stmt("ld", "arch") /\ f[2] = [op |-> "jeq", k |-> "native", jt |-> 1, jf |-> 0]
        /\ f[3] = Stmt("ret", "kill") /\ f[4] = Stmt("ld", "nr")
    <2>1. \A i \in 1 .. 4 : f[i] = s[i]
      BY <1>2, <1>5
    <2> QED BY <1>2, <1>3, <1>5, <2>1 DEF Opening
  <1>7. \A j \in 1 .. m : IsRule(f, 3 + 2 * j, ok)
    <2> SUFFICES ASSUME NEW j \in 1 .. m PROVE IsRule(f, 3 + 2 * j, ok)
      OBVIOUS
    <2>1. f[3 + 2 * j] = s[3 + 2 * j] /\ f[3 + 2 * j + 1] = s[3 + 2 * j + 1]
      BY <1>2, <1>5
    <2> QED BY <1>2, <2>1 DEF IsRule
  <1>8. f[n].op = "ret" /\ f[n].k # "allow"
    <2>1. f[n] = t[1]
      BY <1>2, <1>5
    <2> QED BY <1>4, <2>1
  <1>9. \A p \in 1 .. n : StaysInside(f[p], p, n)
    <2> SUFFICES ASSUME NEW p \in 1 .. n PROVE StaysInside(f[p], p, n)
      OBVIOUS
    <2>1. CASE p \in 1 .. 4
      <3>1. p = 1 \/ p = 2 \/ p = 3 \/ p = 4
        BY <2>1
      <3> QED BY <1>6, <3>1 DEF StaysInside, Stmt
    <2>2. CASE p = n
      BY <1>8, <2>2 DEF StaysInside
    <2>3. CASE p \in 5 .. n - 1
      <3>1. \E j \in 1 .. m : p = 3 + 2 * j \/ p = 4 + 2 * j
        <4> DEFINE j == (p - 3) \div 2
        <4>2. p \in Int /\ p >= 5 /\ p <= 4 + 2 * m /\ m \in Int
          BY <1>2, <1>6, <2>3
        <4>3. 2 * j <= p - 3 /\ p - 3 <= 2 * j + 1 /\ j \in Int
          BY <4>2
        <4> HIDE DEF j
        <4>1. j \in 1 .. m /\ (p = 3 + 2 * j \/ p = 4 + 2 * j)
          BY <4>2, <4>3
        <4> QED BY <4>1
      <3>2. PICK j \in 1 .. m : p = 3 + 2 * j \/ p = 4 + 2 * j
        BY <3>1
      <3>3. IsRule(f, 3 + 2 * j, ok) /\ 3 + 2 * j + 2 <= n
        BY <1>6, <1>7
      <3>4. 4 + 2 * j = 3 + 2 * j + 1
        OBVIOUS
      <3> QED BY <3>2, <3>3, <3>4 DEF StaysInside, IsRule
    <2> QED BY <1>6, <2>1, <2>2, <2>3
  <1>10. PICK run : /\ Verdict(f, "native", group) = run[<<1, "none">>]
                    /\ \A p \in 1 .. n, acc \in {"none", "native", group} :
                         run[<<p, acc>>] = Turn(f, "native", group, run, p, acc)
    <2>1. n \in Nat /\ n >= 1
      BY <1>6
    <2> QED BY <1>9, <2>1, Interpreted
  <1>11. run[<<1, "none">>] = run[<<5, group>>]
    <2>1. 1 \in 1 .. n /\ 2 \in 1 .. n /\ 4 \in 1 .. n
      BY <1>6
    <2>2. run[<<1, "none">>] = run[<<2, "native">>]
      <3>1. f[1].op = "ld" /\ f[1].k = "arch"
        BY <1>6 DEF Stmt
      <3>2. run[<<1, "none">>] = Turn(f, "native", group, run, 1, "none")
        BY <1>10, <2>1
      <3>3. Turn(f, "native", group, run, 1, "none") = run[<<1 + 1, "native">>]
        BY <3>1 DEF Turn
      <3> QED BY <3>2, <3>3
    <2>3. run[<<2, "native">>] = run[<<4, "native">>]
      <3>1. f[2].op = "jeq" /\ f[2].k = "native" /\ f[2].jt = 1
        BY <1>6
      <3>2. run[<<2, "native">>] = Turn(f, "native", group, run, 2, "native")
        BY <1>10, <2>1
      <3>3. Turn(f, "native", group, run, 2, "native") = run[<<2 + 1 + 1, "native">>]
        BY <3>1 DEF Turn
      <3> QED BY <3>2, <3>3
    <2>4. run[<<4, "native">>] = run[<<5, group>>]
      <3>1. f[4].op = "ld" /\ f[4].k = "nr"
        BY <1>6 DEF Stmt
      <3>2. run[<<4, "native">>] = Turn(f, "native", group, run, 4, "native")
        BY <1>10, <2>1
      <3>3. Turn(f, "native", group, run, 4, "native") = run[<<4 + 1, group>>]
        BY <3>1 DEF Turn
      <3> QED BY <3>2, <3>3
    <2> QED BY <2>2, <2>3, <2>4
  <1>12. ASSUME NEW j \in 1 .. m, group \notin ok
         PROVE  run[<<3 + 2 * j, group>>] = run[<<3 + 2 * (j + 1), group>>]
    <2>1. 3 + 2 * j \in 1 .. n /\ 3 + 2 * j + 1 + 1 = 3 + 2 * (j + 1)
      BY <1>6
    <2>2. IsRule(f, 3 + 2 * j, ok)
      BY <1>7
    <2>3. f[3 + 2 * j].op = "jeq" /\ f[3 + 2 * j].jf = 1 /\ f[3 + 2 * j].k # group
      BY <1>12, <2>2 DEF IsRule
    <2> DEFINE q == 3 + 2 * j
    <2> HIDE DEF q
    <2>4. run[<<q, group>>] = Turn(f, "native", group, run, q, group)
      BY <1>10, <2>1 DEF q
    <2>5. Turn(f, "native", group, run, q, group) = run[<<q + 1 + 1, group>>]
      BY <2>3 DEF Turn, q
    <2> QED BY <2>1, <2>4, <2>5 DEF q
  <1>13. ASSUME group \notin ok PROVE FALSE
    <2> DEFINE Off == {j \in 1 .. m + 1 : run[<<3 + 2 * j, group>>] # run[<<5, group>>]}
    <2>1. Off = {}
      <3> SUFFICES ASSUME Off # {} PROVE FALSE
        OBVIOUS
      <3>1. PICK j \in Off : \A i \in 1 .. m + 1 : i < j => i \notin Off
        <4>1. Off \subseteq Nat /\ Off # {}
          OBVIOUS
        <4> HIDE DEF Off
        <4>2. PICK j \in Off : \A i \in Off : ~(<<i, j>> \in OpToRel(<, Nat))
          BY <4>1, NatLessThanWellFounded, WFMin
        <4>3. \A i \in Nat : i < j => <<i, j>> \in OpToRel(<, Nat)
          BY <4>1, Zenon DEF OpToRel
        <4> QED BY <4>1, <4>2, <4>3
      <3>2. CASE j = 1
        BY <3>2
      <3>3. CASE j # 1
        <4>1. j - 1 \in 1 .. m /\ j - 1 \in 1 .. m + 1 /\ j - 1 < j /\ (j - 1) + 1 = j
          BY <3>3
        <4>2. run[<<3 + 2 * (j - 1), group>>] = run[<<5, group>>]
          BY <3>1, <4>1
        <4> DEFINE i == j - 1
        <4>3. run[<<3 + 2 * i, group>>] = run[<<3 + 2 * (i + 1), group>>]
          <5>1. i \in 1 .. m
            BY <4>1
          <5> HIDE DEF i
          <5> QED BY <1>12, <1>13, <5>1
        <4> QED BY <4>1, <4>2, <4>3
      <3> QED BY <3>2, <3>3
    <2>2. run[<<n, group>>] = run[<<5, group>>]
      <3>1. m + 1 \in 1 .. m + 1 /\ 3 + 2 * (m + 1) = n
        BY <1>6
      <3>2. run[<<3 + 2 * (m + 1), group>>] = run[<<5, group>>]
        BY <2>1, <3>1
      <3> QED BY <3>1, <3>2
    <2>3. n \in 1 .. n
      BY <1>6
    <2>4. run[<<n, group>>] = f[n].k
      BY <1>8, <1>10, <2>3 DEF Turn
    <2> QED BY <1>8, <1>10, <1>11, <2>2, <2>4 DEF f
  <1> QED BY <1>13 DEF ok

\* The calls the command made were granted: only ChildCall adds one, and only
\* when the filter allows it.
LEMMA JailMakes ==
  ASSUME JailInv, JailConfined, jail.pc # "off", JailNext
  PROVE  JailConfined'
  <1>1. jail \in JailRec
    BY DEF JailInv, JailOff, JailGood
  <1>2. jail.made \subseteq {"base"} \cup jail.caps
    BY DEF JailConfined
  <1>3. SUFFICES jail'.made \subseteq {"base"} \cup jail'.caps
    BY DEF JailConfined
  <1>4. CASE jail'.made = jail.made /\ jail'.caps = jail.caps
    BY <1>2, <1>4
  <1>5. CASE JailParent
    <2>1. CASE JailFork
      BY <1>1, <1>4, <2>1 DEF JailRec, JailFork
    <2>2. CASE JailArm
      BY <1>1, <1>4, <2>2 DEF JailRec, JailArm
    <2>3. CASE JailWait4
      BY <1>1, <1>4, <2>3 DEF JailRec, JailWait4
    <2>4. CASE JailFinish
      BY <1>1, <1>4, <2>4 DEF JailRec, JailFinish
    <2> QED BY <1>5, <2>1, <2>2, <2>3, <2>4 DEF JailParent
  <1>6. CASE AlarmFires
    BY <1>1, <1>4, <1>6 DEF JailRec, AlarmFires, Killed, Dies
  <1>7. CASE ChildFilter
    BY <1>1, <1>4, <1>7 DEF JailRec, ChildFilter, Dies
  <1>8. CASE ChildExec
    BY <1>1, <1>4, <1>8 DEF JailRec, ChildExec, Attempt, Dies
  <1>9. CASE ChildEnd
    BY <1>1, <1>4, <1>9 DEF JailRec, ChildEnd, Dies
  <1>10. CASE ChildCall
    <2>1. PICK g \in CallGroup : LET one == [jail EXCEPT !.calls = @ + 1]
                                 IN Attempt(g, [one EXCEPT !.made = @ \cup {g}], one)
      BY <1>10 DEF ChildCall
    <2> DEFINE v == Verdict(Filter(jail.caps, jail.kill), "native", g)
               one == [jail EXCEPT !.calls = @ + 1]
    <2>2. \/ v = "allow" /\ jail' = [one EXCEPT !.made = @ \cup {g}]
          \/ jail' = one
          \/ jail' = Dies(jail, SigSys)
      BY <2>1 DEF Attempt
    <2>3. CASE v = "allow" /\ jail' = [one EXCEPT !.made = @ \cup {g}]
      <3>1. jail.kill \in BOOLEAN
        BY <1>1 DEF JailRec
      <3>2. g \in {"base"} \cup jail.caps
        BY <2>3, <3>1, AllowedIsGranted
      <3>3. jail'.made = jail.made \cup {g} /\ jail'.caps = jail.caps
        BY <1>1, <2>3 DEF JailRec
      <3> QED BY <1>2, <3>2, <3>3
    <2>4. CASE jail' = one
      BY <1>1, <1>4, <2>4 DEF JailRec
    <2>5. CASE jail' = Dies(jail, SigSys)
      BY <1>1, <1>4, <2>5 DEF JailRec, Dies
    <2> QED BY <2>2, <2>3, <2>4, <2>5
  <1> QED BY <1>5, <1>6, <1>7, <1>8, <1>9, <1>10 DEF JailNext, JailChild

-----------------------------------------------------------------------------
(* The shell: the list.                                                    *)

\* A record with these fields, whatever they hold.
IsRec(r, F) == r = [f \in F |-> r[f]]

LshFields == {"pc", "line", "at", "run", "last", "log", "typed", "i", "kid", "open",
              "pipe", "alias", "cwd", "old"}

\* What POSIX makes of an operator and the status before it.
Due(op, st) == op = ";" \/ (op = "&&" /\ st = 0) \/ (op = "||" /\ st # 0)

\* The status that the commands logged so far leave behind.
StatusOf(log) == StatusAfter(<<>>, log, 0)[Len(log)]

\* The place in the list is that of the log; the first command runs; and what
\* decides about the next one is the status that POSIX has at that place.
LineGood(l) ==
  /\ l.log \in Seq(Int) /\ l.last \in 0 .. 255
  /\ l.line \in Seq([op : LshOps, stages : Seq(STRING)])
  /\ Len(l.log) >= 1 => l.log[1] # Skipped
  /\ l.pc # "prompt" => l.at = Len(l.log) + 1 /\ l.at <= Len(l.line)
  /\ l.pc \in {"fork", "wait"} \/ (l.pc # "prompt" /\ l.log = <<>>) => l.run
  /\ l.pc # "prompt" /\ l.log # <<>> /\ StatusOf(l.log) # Unforked =>
        StatusOf(l.log) = l.last /\ (l.run <=> Due(l.line[l.at].op, l.last))
  /\ \A k \in 2 .. Len(l.log) :
       LET st == StatusAfter(l.line, l.log, 0)[k - 1]
       IN st # Unforked => ((l.log[k] # Skipped) <=> Due(l.line[k].op, st))

LEMMA ShouldRunDue ==
  ASSUME NEW op \in LshOps, NEW last \in 0 .. 255
  PROVE  ShouldRun(op, last) <=> Due(op, last)
  BY DEF ShouldRun, Due, LshOps

\* A set of places in a list has a last one.
LEMMA LastPlace ==
  ASSUME NEW n \in Nat, NEW S \in SUBSET (1 .. n), S # {}
  PROVE  \E j \in S : \A i \in S : i <= j
  <1> DEFINE T == {t \in Nat : n - t \in S}
  <1>1. PICK s \in S : TRUE
    OBVIOUS
  <1>2. n - s \in T /\ T \subseteq Nat
    BY <1>1
  <1>3. PICK t \in T : \A u \in T : ~(u < t)
    <2>1. \E t \in T : \A u \in T : <<u, t>> \notin OpToRel(<, Nat)
      BY <1>2, NatLessThanWellFounded, WFMin
    <2> QED BY <2>1, <1>2 DEF OpToRel
  <1>4. n - t \in S
    OBVIOUS
  <1>5. \A i \in S : i <= n - t
    <2> TAKE i \in S
    <2>1. n - i \in T
      OBVIOUS
    <2> QED BY <2>1, <1>3
  <1> QED BY <1>4, <1>5

\* The status before a command does not depend on what comes after it; the
\* status at the end is that of the new command if it ran.
LEMMA StatusAppend ==
  ASSUME NEW line, NEW log \in Seq(Int), NEW res \in Int
  PROVE  /\ \A k \in 0 .. Len(log) :
              StatusAfter(line, Append(log, res), 0)[k] = StatusAfter(line, log, 0)[k]
         /\ StatusOf(Append(log, res)) = IF res # Skipped THEN res
                                         ELSE StatusOf(log)
         /\ \A k \in 0 .. Len(log) : StatusAfter(line, log, 0)[k] = StatusAfter(<<>>, log, 0)[k]
  <1> DEFINE new == Append(log, res)
             ran(w, k) == {j \in 1 .. k : w[j] # Skipped}
             top(S) == CHOOSE j \in S : \A i \in S : i <= j
             status(w, k) == IF ran(w, k) = {} THEN 0 ELSE w[top(ran(w, k))]
  <1>1. /\ new \in Seq(Int) /\ Len(new) = Len(log) + 1 /\ new[Len(log) + 1] = res
        /\ \A j \in 1 .. Len(log) : new[j] = log[j]
    OBVIOUS
  <1> HIDE DEF new
  <1>2. \A x, w : \A k \in 0 .. Len(w) : StatusAfter(x, w, 0)[k] = status(w, k)
    BY DEF StatusAfter
  <1>3. ASSUME NEW k \in 0 .. Len(log), ran(log, k) # {}
        PROVE  top(ran(log, k)) \in 1 .. Len(log)
    <2> DEFINE S == ran(log, k)
    <2>1. S \in SUBSET (1 .. k) /\ S # {} /\ k \in Nat
      BY <1>3
    <2> HIDE DEF S
    <2>2. \E j \in S : \A i \in S : i <= j
      BY <2>1, LastPlace
    <2>3. top(S) \in S
      BY <2>2
    <2> QED BY <2>1, <2>3 DEF S
  <1>4. ASSUME NEW k \in 0 .. Len(log)
        PROVE  status(new, k) = status(log, k)
    <2>1. ran(new, k) = ran(log, k)
      BY <1>1, SMTT(40)
    <2>2. ran(log, k) # {} => top(ran(log, k)) \in 1 .. Len(log)
      BY <1>3, Zenon
    <2> HIDE DEF ran, top
    <2> QED BY <2>1, <2>2, <1>1
  <1>5. status(new, Len(log) + 1) = IF res # Skipped THEN res ELSE status(log, Len(log))
    <2>1. CASE res = Skipped
      <3>1. ran(new, Len(log) + 1) = ran(log, Len(log))
        BY <1>1, <2>1, SMTT(40)
      <3>2. Len(log) \in 0 .. Len(log)
        OBVIOUS
      <3>3. ran(log, Len(log)) # {} => top(ran(log, Len(log))) \in 1 .. Len(log)
        BY <1>3, <3>2, Zenon
      <3> HIDE DEF ran, top
      <3> QED BY <3>1, <3>3, <1>1, <2>1
    <2>2. CASE res # Skipped
      <3> DEFINE S == ran(new, Len(log) + 1)
      <3>1. Len(log) + 1 \in S /\ \A i \in S : i \in Int /\ i <= Len(log) + 1
        BY <1>1, <2>2
      <3> HIDE DEF S
      <3>2. top(S) = Len(log) + 1
        BY <3>1
      <3> HIDE DEF top
      <3> QED BY <3>1, <3>2, <1>1, <2>2 DEF S
    <2> QED BY <2>1, <2>2
  <1> HIDE DEF status
  <1>6. \A k \in 0 .. Len(log) : k \in 0 .. Len(new)
    BY <1>1
  <1>7. \A k \in 0 .. Len(log) : StatusAfter(line, new, 0)[k] = StatusAfter(line, log, 0)[k]
    BY <1>2, <1>4, <1>6
  <1>8. StatusOf(new) = status(new, Len(log) + 1) /\ StatusOf(log) = status(log, Len(log))
    BY <1>1, <1>2 DEF StatusOf
  <1> QED BY <1>2, <1>5, <1>7, <1>8 DEF new

\* The record after one more command of the list.
LEMMA AdvancedFields ==
  ASSUME NEW l, IsRec(l, LshFields), NEW last, NEW res
  PROVE  LET a == Advanced(l, last, res)
             more == l.at < Len(l.line)
         IN /\ IsRec(a, LshFields)
            /\ a.line = l.line /\ a.alias = l.alias /\ a.at = l.at + 1 /\ a.i = l.i
            /\ a.last = last /\ a.log = Append(l.log, res)
            /\ a.run = (more => ShouldRun(l.line[l.at + 1].op, last))
            /\ a.pc = (IF more THEN "list" ELSE "prompt")
            /\ a.kid = (IF Children(l) = {} THEN <<>> ELSE l.kid)
  BY DEF IsRec, LshFields, Advanced

\* A command of the list that was run, given up or left out, as it should be.
LEMMA AdvancedLine ==
  ASSUME NEW l, IsRec(l, LshFields), LineGood(l), l.pc # "prompt", l.run \in BOOLEAN,
         NEW last \in 0 .. 255, NEW res \in Int,
         \/ l.run /\ res = last
         \/ l.run /\ res = Unforked /\ last = l.last
         \/ ~l.run /\ res = Skipped /\ last = l.last
  PROVE  LineGood(Advanced(l, last, res))
  <1> DEFINE a == Advanced(l, last, res)
             n == Len(l.log)
             more == l.at < Len(l.line)
  <1>0. res \in 0 .. 255 \/ res \in {Unforked, Skipped}
    OBVIOUS
  <1>1. /\ a.line = l.line /\ a.at = l.at + 1 /\ a.last = last /\ a.log = Append(l.log, res)
        /\ a.run = (more => ShouldRun(l.line[l.at + 1].op, last))
        /\ a.pc = (IF more THEN "list" ELSE "prompt")
    BY AdvancedFields
  <1> HIDE DEF a
  <1>2. /\ l.log \in Seq(Int) /\ l.at = n + 1 /\ l.at <= Len(l.line) /\ n \in Nat
        /\ l.line \in Seq([op : LshOps, stages : Seq(STRING)]) /\ Len(l.line) \in Nat
    BY DEF LineGood
  <1>3. /\ a.log \in Seq(Int) /\ Len(a.log) = n + 1 /\ a.log[n + 1] = res
        /\ \A j \in 1 .. n : a.log[j] = l.log[j]
    BY <1>1, <1>2
  <1>4. /\ \A k \in 0 .. n : StatusAfter(l.line, a.log, 0)[k] = StatusAfter(l.line, l.log, 0)[k]
        /\ StatusOf(a.log) = IF res # Skipped THEN res ELSE StatusOf(l.log)
        /\ StatusAfter(l.line, l.log, 0)[n] = StatusOf(l.log)
    <2> DEFINE g == l.log
               h == l.line
    <2>1. g \in Seq(Int) /\ n = Len(g) /\ n \in 0 .. n
      BY <1>2
    <2> HIDE DEF g, h, n
    <2>2. /\ \A k \in 0 .. Len(g) :
               StatusAfter(h, Append(g, res), 0)[k] = StatusAfter(h, g, 0)[k]
          /\ StatusOf(Append(g, res)) = IF res # Skipped THEN res ELSE StatusOf(g)
          /\ \A k \in 0 .. Len(g) : StatusAfter(h, g, 0)[k] = StatusAfter(<<>>, g, 0)[k]
      BY <2>1, StatusAppend
    <2>3. StatusAfter(h, g, 0)[n] = StatusOf(g)
      BY <2>1, <2>2 DEF StatusOf
    <2> QED BY <1>1, <2>1, <2>2, <2>3 DEF g, h
  <1>5. Len(a.log) >= 1 => a.log[1] # Skipped
    <2>1. CASE n = 0
      <3>1. l.log = <<>>
        BY <1>2, <2>1
      <3>2. l.run
        BY <3>1 DEF LineGood
      <3>3. res # Skipped
        BY <3>2 DEF Skipped, Unforked
      <3> QED BY <2>1, <3>3, <1>3
    <2>2. CASE n # 0
      <3>0. n >= 1
        BY <1>2, <2>2
      <3>1. 1 \in 1 .. n /\ l.log[1] # Skipped
        BY <1>2, <3>0 DEF LineGood
      <3> QED BY <3>1, <1>3
    <2> QED BY <2>1, <2>2
  <1>6. ASSUME a.pc # "prompt"
        PROVE  a.at = Len(a.log) + 1 /\ a.at <= Len(a.line)
    BY <1>1, <1>2, <1>3, <1>6
  <1>7. a.log # <<>> /\ a.pc \notin {"fork", "wait"}
    <2>1. a.log # <<>>
      BY <1>2, <1>3
    <2> QED BY <1>1, <2>1
  <1>8. ASSUME n # 0, StatusOf(l.log) # Unforked
        PROVE  StatusOf(l.log) = l.last /\ (l.run <=> Due(l.line[l.at].op, l.last))
    <2>1. l.log # <<>>
      BY <1>8
    <2> QED BY <1>8, <2>1 DEF LineGood
  <1>9. ASSUME a.pc # "prompt", StatusOf(a.log) # Unforked
        PROVE  StatusOf(a.log) = a.last /\ (a.run <=> Due(a.line[a.at].op, a.last))
    <2>1. StatusOf(a.log) = last
      <3>1. CASE res = Skipped
        <4>1. ~l.run /\ last = l.last
          BY <3>1 DEF Skipped, Unforked
        <4>2. n # 0
          <5>1. n = 0 => l.log = <<>>
            BY <1>2
          <5> QED BY <4>1, <5>1 DEF LineGood
        <4> QED BY <1>4, <1>8, <1>9, <3>1, <4>1, <4>2
      <3>2. CASE res # Skipped
        BY <1>4, <1>9, <3>2
      <3> QED BY <3>1, <3>2
    <2>2. more /\ l.line[l.at + 1].op \in LshOps
      <3>1. more
        BY <1>1, <1>9
      <3>2. l.at + 1 \in 1 .. Len(l.line)
        BY <1>2, <3>1
      <3>3. l.line[l.at + 1] \in [op : LshOps, stages : Seq(STRING)]
        BY <1>2, <3>2, ElementOfSeq
      <3> QED BY <3>1, <3>3
    <2>3. a.run <=> Due(l.line[l.at + 1].op, last)
      BY <1>1, <2>2, ShouldRunDue
    <2> QED BY <1>1, <2>1, <2>3
  <1>10. ASSUME NEW k \in 2 .. Len(a.log), StatusAfter(a.line, a.log, 0)[k - 1] # Unforked
         PROVE  (a.log[k] # Skipped) <=> Due(a.line[k].op, StatusAfter(a.line, a.log, 0)[k - 1])
    <2>1. CASE k = n + 1
      <3>1. StatusAfter(a.line, a.log, 0)[k - 1] = StatusOf(l.log)
        <4>1. k - 1 = n /\ n \in 0 .. n
          BY <1>2, <2>1
        <4> QED BY <1>1, <1>4, <4>1
      <3>2. n # 0
        BY <1>2, <2>1
      <3>3. StatusOf(l.log) = l.last /\ (l.run <=> Due(l.line[l.at].op, l.last))
        BY <1>8, <1>10, <3>1, <3>2
      <3>4. (res # Skipped) <=> l.run
        BY DEF Skipped, Unforked
      <3> QED BY <1>1, <1>2, <1>3, <2>1, <3>1, <3>3, <3>4
    <2>2. CASE k # n + 1
      <3>1. k \in 2 .. n /\ k \in 1 .. n /\ k - 1 \in 0 .. n
        BY <1>2, <1>3, <2>2
      <3>2. StatusAfter(l.line, a.log, 0)[k - 1] = StatusAfter(l.line, l.log, 0)[k - 1]
        BY <1>4, <3>1
      <3>3. StatusAfter(l.line, l.log, 0)[k - 1] # Unforked =>
              ((l.log[k] # Skipped) <=> Due(l.line[k].op, StatusAfter(l.line, l.log, 0)[k - 1]))
        BY <3>1 DEF LineGood
      <3> QED BY <1>1, <1>3, <1>10, <3>1, <3>2, <3>3
    <2> QED BY <2>1, <2>2
  <1>11. a.log \in Seq(Int) /\ a.last \in 0 .. 255
         /\ a.line \in Seq([op : LshOps, stages : Seq(STRING)])
    BY <1>1, <1>2, <1>3
  <1> QED BY <1>5, <1>6, <1>7, <1>9, <1>10, <1>11 DEF LineGood, a

-----------------------------------------------------------------------------
(* The shell: its children and its aliases.                                *)

KidState == {"none", "forked", "run", "zombie", "reaped"}
Kid == [st : KidState, has : {0, 1}, todo : Int, code : 0 .. 255]

\* At the prompt and between commands there is no child; while forking, the
\* stages that are left have none yet; while waiting there are at most as many
\* as the shell will still wait for.
KidGood(l) ==
  /\ l.kid \in Seq(Kid) /\ l.i \in Nat
  /\ l.pc \in {"prompt", "list", "exit"} => Children(l) = {}
  /\ l.pc = "fork" => l.i >= 1 /\ \A s \in DOMAIN l.kid : s >= l.i => l.kid[s].st = "none"
  /\ l.pc = "wait" => l.i >= 1 /\ Cardinality(Children(l)) <= Len(l.kid) - (l.i - 1)

\* No name has two slots.
OneSlot(f) ==
  /\ f \in [1 .. MaxAliases -> AliasName \cup {NoAlias}]
  /\ \A a, b \in 1 .. MaxAliases : f[a] # NoAlias /\ f[a] = f[b] => a = b

AliasGood(l) == OneSlot(l.alias)

LshGood(l) ==
  /\ IsRec(l, LshFields)
  /\ l.pc \in {"prompt", "list", "exit", "fork", "wait"} /\ l.run \in BOOLEAN
  /\ KidGood(l) /\ LineGood(l) /\ AliasGood(l)

LshInv == lsh = LshOff \/ LshGood(lsh)

LEMMA ChildrenFinite ==
  ASSUME NEW l, l.kid \in Seq(Kid)
  PROVE  /\ Children(l) \subseteq 1 .. Len(l.kid) /\ Len(l.kid) \in Nat
         /\ IsFiniteSet(Children(l)) /\ Cardinality(Children(l)) \in Nat
         /\ Cardinality(Children(l)) <= Len(l.kid)
  <1>1. Children(l) \subseteq 1 .. Len(l.kid) /\ Len(l.kid) \in Nat
    BY DEF Children
  <1>2. IsFiniteSet(1 .. Len(l.kid)) /\ Cardinality(1 .. Len(l.kid)) = Len(l.kid)
    BY <1>1, FS_Interval, SMTT(40)
  <1> HIDE DEF Children
  <1>3. IsFiniteSet(Children(l)) /\ Cardinality(Children(l)) <= Len(l.kid)
    BY <1>1, <1>2, FS_Subset
  <1> QED BY <1>1, <1>3, FS_CardinalityType

\* After a command without children the shell is in order.
LEMMA AdvancedGood ==
  ASSUME NEW l, IsRec(l, LshFields), LineGood(l), AliasGood(l), l.kid \in Seq(Kid),
         l.i \in Nat, Children(l) = {}, l.pc # "prompt", l.run \in BOOLEAN,
         NEW last \in 0 .. 255, NEW res \in Int,
         \/ l.run /\ res = last
         \/ l.run /\ res = Unforked /\ last = l.last
         \/ ~l.run /\ res = Skipped /\ last = l.last
  PROVE  LshGood(Advanced(l, last, res))
  <1> DEFINE a == Advanced(l, last, res)
  <1>1. LineGood(a)
    BY AdvancedLine
  <1>2. /\ IsRec(a, LshFields) /\ a.alias = l.alias /\ a.kid = <<>> /\ a.i = l.i
        /\ a.pc \in {"list", "prompt"} /\ a.run \in BOOLEAN
    <2> DEFINE more == l.at < Len(l.line)
               should == more => ShouldRun(l.line[l.at + 1].op, last)
    <2>1. /\ IsRec(a, LshFields) /\ a.alias = l.alias /\ a.i = l.i
          /\ a.run = should /\ a.pc = (IF more THEN "list" ELSE "prompt")
          /\ a.kid = (IF Children(l) = {} THEN <<>> ELSE l.kid)
      BY AdvancedFields
    <2>2. should \in BOOLEAN
      OBVIOUS
    <2> HIDE DEF a, more, should
    <2> QED BY <2>1, <2>2
  <1> HIDE DEF a
  <1>3. AliasGood(a)
    BY <1>2 DEF AliasGood
  <1>4. a.kid \in Seq(Kid) /\ Children(a) = {}
    BY <1>2 DEF Children
  <1>5. KidGood(a)
    BY <1>2, <1>4 DEF KidGood
  <1> QED BY <1>1, <1>2, <1>3, <1>5 DEF LshGood, a

\* A child that does something without ending, or ends: it is a child before
\* and after.
LEMMA ChildGood ==
  ASSUME NEW l, NEW m, LshGood(l), IsRec(m, LshFields),
         NEW s \in DOMAIN l.kid, l.kid[s].st \in {"forked", "run"},
         NEW k \in Kid, k.st \in {"run", "zombie"},
         m.kid = [l.kid EXCEPT ![s] = k], m.pc = l.pc, m.line = l.line, m.at = l.at,
         m.run = l.run, m.last = l.last, m.log = l.log, m.i = l.i, m.alias = l.alias
  PROVE  LshGood(m)
  <1>1. l.kid \in Seq(Kid) /\ m.kid \in Seq(Kid) /\ DOMAIN m.kid = DOMAIN l.kid
        /\ Len(m.kid) = Len(l.kid)
    BY DEF LshGood, KidGood
  <1>2. Children(m) = Children(l)
    BY <1>1 DEF Children
  <1>3. s \in Children(l)
    BY DEF Children
  <1>4. KidGood(m)
    <2>1. l.pc \notin {"prompt", "list", "exit"}
      BY <1>3 DEF LshGood, KidGood
    <2>2. ASSUME l.pc = "fork", NEW t \in DOMAIN m.kid, t >= m.i
          PROVE  m.kid[t].st = "none"
      <3>1. l.kid[t].st = "none"
        BY <1>1, <2>2 DEF LshGood, KidGood
      <3> QED BY <1>1, <3>1
    <2>3. l.pc = "wait" => m.i >= 1 /\ Cardinality(Children(m)) <= Len(m.kid) - (m.i - 1)
      BY <1>1, <1>2 DEF LshGood, KidGood
    <2>4. m.i \in Nat
      BY DEF LshGood, KidGood
    <2> QED BY <1>1, <2>1, <2>2, <2>3, <2>4 DEF KidGood
  <1>5. LineGood(m)
    BY DEF LshGood, LineGood
  <1>6. AliasGood(m)
    BY DEF LshGood, AliasGood
  <1> QED BY <1>4, <1>5, <1>6 DEF LshGood

LEMMA LowestIn ==
  ASSUME NEW S \in SUBSET Nat, S # {}
  PROVE  Lowest(S) \in S
  <1>1. PICK t \in S : \A u \in S : ~(u < t)
    <2>1. \E t \in S : \A u \in S : <<u, t>> \notin OpToRel(<, Nat)
      BY NatLessThanWellFounded, WFMin
    <2> QED BY <2>1 DEF OpToRel
  <1>2. \A u \in S : t <= u
    BY <1>1
  <1> QED BY <1>2 DEF Lowest

\* The same list at the same place, for a record that differs elsewhere.
LEMMA LineSame ==
  ASSUME NEW l, NEW m, LineGood(l), l.pc # "prompt", m.pc \in {l.pc, "exit"},
         m.line = l.line, m.at = l.at, m.run = l.run, m.last = l.last, m.log = l.log
  PROVE  LineGood(m)
  BY DEF LineGood

\* The slots a definition may take: those of the name if it has one.
MayTake(S, f, n) ==
  /\ S \in SUBSET (1 .. MaxAliases) /\ S # {}
  /\ (\E a \in 1 .. MaxAliases : f[a] = n) => S = {a \in 1 .. MaxAliases : f[a] = n}

\* A name goes into its own slot, or into a free one if it has none.
LEMMA NameSet ==
  ASSUME NEW f, OneSlot(f), NEW n \in AliasName, NEW S, MayTake(S, f, n)
  PROVE  OneSlot([f EXCEPT ![Lowest(S)] = n])
  <1> DEFINE x == Lowest(S)
  <1>1. n # NoAlias /\ MaxAliases \in Nat
    BY LshAssumption DEF NoAlias
  <1>2. x \in S
    <2>1. S \in SUBSET Nat /\ S # {}
      BY <1>1 DEF MayTake
    <2> QED BY <2>1, LowestIn
  <1> HIDE DEF x
  <1>3. x \in 1 .. MaxAliases
    BY <1>2 DEF MayTake
  <1>4. ASSUME NEW a \in 1 .. MaxAliases, f[a] = n
        PROVE  a = x
    <2>1. S = {b \in 1 .. MaxAliases : f[b] = n}
      BY <1>4 DEF MayTake
    <2>2. f[x] = n
      BY <1>2, <2>1
    <2> QED BY <1>1, <1>3, <1>4, <2>2 DEF OneSlot
  <1>5. OneSlot([f EXCEPT ![x] = n])
    BY <1>1, <1>3, <1>4 DEF OneSlot
  <1> QED BY <1>5 DEF x

\* What alias and unalias leave in the table.
LEMMA AliasStep ==
  ASSUME NEW l, AliasGood(l), NEW n \in AliasName, NEW m,
         \/ AliasSlot(l, n) = {} /\ m.alias = l.alias
         \/ AliasSlot(l, n) # {} /\ m.alias = [l.alias EXCEPT ![Lowest(AliasSlot(l, n))] = n]
         \/ m.alias = [a \in DOMAIN l.alias |-> IF l.alias[a] = n THEN NoAlias ELSE l.alias[a]]
  PROVE  AliasGood(m)
  <1>1. OneSlot(l.alias) /\ n # NoAlias
    BY LshAssumption DEF AliasGood, NoAlias
  <1>2. CASE m.alias = l.alias
    BY <1>1, <1>2 DEF AliasGood
  <1>3. CASE AliasSlot(l, n) # {} /\ m.alias = [l.alias EXCEPT ![Lowest(AliasSlot(l, n))] = n]
    <2>1. MayTake(AliasSlot(l, n), l.alias, n)
      BY <1>1, <1>3 DEF MayTake, AliasSlot, SlotsOf, OneSlot
    <2> QED BY <1>1, <1>3, <2>1, NameSet DEF AliasGood
  <1>4. CASE m.alias = [a \in DOMAIN l.alias |-> IF l.alias[a] = n THEN NoAlias ELSE l.alias[a]]
    BY <1>1, <1>4 DEF AliasGood, OneSlot
  <1> QED BY <1>2, <1>3, <1>4

\* Every step of the shell keeps it in order.
LEMMA ShellStep ==
  ASSUME LshGood(lsh), LshShell
  PROVE  LshGood(lsh')
  <1>1. /\ IsRec(lsh, LshFields) /\ lsh.kid \in Seq(Kid) /\ lsh.i \in Nat
        /\ LineGood(lsh) /\ AliasGood(lsh) /\ KidGood(lsh) /\ lsh.run \in BOOLEAN
        /\ lsh.last \in 0 .. 255 /\ lsh.log \in Seq(Int)
    BY DEF LshGood, KidGood, LineGood
  <1>2. lsh.pc \in {"prompt", "list", "exit"} => Children(lsh) = {}
    BY <1>1 DEF KidGood
  <1>3. lsh.pc \in {"fork", "wait"} => lsh.run
    BY <1>1 DEF LineGood
  <1>4. 0 \in 0 .. 255 /\ 1 \in 0 .. 255 /\ Skipped \in Int /\ Unforked \in Int
    BY DEF Skipped, Unforked
  <1>5. CASE LshReadLine
    <2>1. PICK x \in LshLines :
            lsh' = [lsh EXCEPT !.pc = "list", !.line = x, !.at = 1, !.run = TRUE,
                               !.log = <<>>, !.typed = @ + 1]
      BY <1>5 DEF LshReadLine
    <2>2. /\ IsRec(lsh', LshFields) /\ lsh'.pc = "list" /\ lsh'.line = x /\ lsh'.at = 1
          /\ lsh'.run /\ lsh'.log = <<>> /\ lsh'.kid = lsh.kid /\ lsh'.i = lsh.i
          /\ lsh'.last = lsh.last /\ lsh'.alias = lsh.alias /\ lsh'.run \in BOOLEAN
      BY <1>1, <2>1 DEF IsRec, LshFields
    <2>3. x \in Seq([op : LshOps, stages : Seq(STRING)]) /\ x # <<>>
      BY LshAssumption
    <2>4. Len(x) >= 1 /\ Len(<<>>) = 0 /\ <<>> \in Seq(Int)
      BY <2>3
    <2>5. LineGood(lsh')
      BY <1>1, <2>2, <2>3, <2>4 DEF LineGood
    <2>6. Children(lsh') = {}
      BY <1>2, <1>5, <2>2 DEF Children, LshReadLine
    <2> QED BY <1>1, <2>2, <2>5, <2>6 DEF LshGood, KidGood, AliasGood
  <1>6. CASE LshSkip
    BY <1>1, <1>2, <1>4, <1>6, AdvancedGood DEF LshSkip
  <1>7. ASSUME NEW m, IsRec(m, LshFields), lsh.pc = "list", lsh.run, NEW c \in {0, 1},
               AliasGood(m), lsh' = Advanced(m, c, c), m.pc = lsh.pc, m.line = lsh.line,
               m.at = lsh.at, m.run = lsh.run, m.last = lsh.last, m.log = lsh.log,
               m.kid = lsh.kid, m.i = lsh.i
        PROVE  LshGood(lsh')
    <2>1. LineGood(m)
      BY <1>1, <1>7, LineSame
    <2>2. Children(m) = {} /\ m.kid \in Seq(Kid)
      BY <1>1, <1>2, <1>7 DEF Children
    <2>3. c \in 0 .. 255 /\ c \in Int
      OBVIOUS
    <2> QED BY <1>1, <1>7, <2>1, <2>2, <2>3, AdvancedGood
  <1>8. CASE LshAlias
    <2>1. PICK n \in AliasName :
            LET set == IF AliasSlot(lsh, n) = {} THEN lsh.alias
                       ELSE [lsh.alias EXCEPT ![Lowest(AliasSlot(lsh, n))] = n]
            IN lsh' = Advanced([lsh EXCEPT !.alias = set], 0, 0)
      BY <1>8 DEF LshAlias
    <2> DEFINE set == IF AliasSlot(lsh, n) = {} THEN lsh.alias
                      ELSE [lsh.alias EXCEPT ![Lowest(AliasSlot(lsh, n))] = n]
               m == [lsh EXCEPT !.alias = set]
    <2>2. /\ IsRec(m, LshFields) /\ m.alias = set /\ m.pc = lsh.pc /\ m.line = lsh.line
          /\ m.at = lsh.at /\ m.run = lsh.run /\ m.last = lsh.last /\ m.log = lsh.log
          /\ m.kid = lsh.kid /\ m.i = lsh.i
      <3> HIDE DEF set
      <3> QED BY <1>1 DEF IsRec, LshFields
    <2>3. lsh' = Advanced(m, 0, 0)
      BY <2>1
    <2> HIDE DEF m
    <2>4. AliasGood(m)
      BY <1>1, <2>2, AliasStep
    <2> QED BY <1>7, <1>8, <2>2, <2>3, <2>4 DEF LshAlias, InShell
  <1>9. CASE LshUnalias
    <2>1. PICK n \in AliasName :
            lsh' = Advanced([lsh EXCEPT !.alias =
                     [a \in DOMAIN @ |-> IF @[a] = n THEN NoAlias ELSE @[a]]], 0, 0)
      BY <1>9 DEF LshUnalias
    <2> DEFINE set == [a \in DOMAIN lsh.alias |->
                        IF lsh.alias[a] = n THEN NoAlias ELSE lsh.alias[a]]
               m == [lsh EXCEPT !.alias = set]
    <2>2. /\ IsRec(m, LshFields) /\ m.alias = set /\ m.pc = lsh.pc /\ m.line = lsh.line
          /\ m.at = lsh.at /\ m.run = lsh.run /\ m.last = lsh.last /\ m.log = lsh.log
          /\ m.kid = lsh.kid /\ m.i = lsh.i
      <3> HIDE DEF set
      <3> QED BY <1>1 DEF IsRec, LshFields
    <2>3. lsh' = Advanced(m, 0, 0)
      BY <2>1
    <2> HIDE DEF m
    <2>4. AliasGood(m)
      BY <1>1, <2>2, AliasStep
    <2> QED BY <1>7, <1>9, <2>2, <2>3, <2>4 DEF LshUnalias, InShell
  <1>10. CASE LshCd
    <2>1. CASE lsh' = Advanced(lsh, 1, 1)
      BY <1>1, <1>7, <1>10, <2>1 DEF LshCd, InShell
    <2>2. ASSUME NEW to, lsh' = Advanced([lsh EXCEPT !.cwd = to, !.old = lsh.cwd], 0, 0)
          PROVE  LshGood(lsh')
      <3> DEFINE m == [lsh EXCEPT !.cwd = to, !.old = lsh.cwd]
      <3>1. /\ IsRec(m, LshFields) /\ m.alias = lsh.alias /\ m.pc = lsh.pc
            /\ m.line = lsh.line /\ m.at = lsh.at /\ m.run = lsh.run /\ m.last = lsh.last
            /\ m.log = lsh.log /\ m.kid = lsh.kid /\ m.i = lsh.i
        BY <1>1 DEF IsRec, LshFields
      <3> HIDE DEF m
      <3>2. AliasGood(m)
        BY <1>1, <3>1 DEF AliasGood
      <3> QED BY <1>7, <1>10, <2>2, <3>1, <3>2 DEF LshCd, InShell, m
    <2> QED BY <1>10, <2>1, <2>2, Zenon DEF LshCd
  <1>11. CASE LshEcho
    BY <1>1, <1>7, <1>11 DEF LshEcho, InShell
  <1>12. CASE LshExit
    <2>1. /\ IsRec(lsh', LshFields) /\ lsh'.alias = lsh.alias /\ lsh'.pc = "exit"
          /\ lsh'.line = lsh.line /\ lsh'.at = lsh.at /\ lsh'.run = lsh.run
          /\ lsh'.last = lsh.last /\ lsh'.log = lsh.log /\ lsh'.kid = lsh.kid
          /\ lsh'.i = lsh.i /\ lsh.pc = "list"
      BY <1>1, <1>12 DEF IsRec, LshFields, LshExit, InShell
    <2>2. LineGood(lsh')
      BY <1>1, <2>1, LineSame
    <2>3. Children(lsh') = {}
      BY <1>2, <2>1 DEF Children
    <2> QED BY <1>1, <2>1, <2>2, <2>3 DEF LshGood, KidGood, AliasGood
  <1>13. CASE LshPipes
    <2> DEFINE n == Len(Stages(lsh))
               none == [st |-> "none", has |-> 0, todo |-> 0, code |-> 0]
               kids == [s \in 1 .. n |-> none]
    <2>1. CASE lsh' = Advanced(lsh, lsh.last, Unforked)
      BY <1>1, <1>2, <1>4, <1>13, <2>1, AdvancedGood DEF LshPipes
    <2>2. ASSUME NEW open, NEW pipe,
                 lsh' = [lsh EXCEPT !.pc = "fork", !.i = 1, !.kid = kids, !.open = open,
                                    !.pipe = pipe]
          PROVE  LshGood(lsh')
      <3>1. n \in Nat
        <4>1. lsh.pc = "list"
          BY <1>13 DEF LshPipes
        <4>2. /\ lsh.at = Len(lsh.log) + 1 /\ lsh.at <= Len(lsh.line)
              /\ lsh.line \in Seq([op : LshOps, stages : Seq(STRING)])
          BY <1>1, <4>1 DEF LineGood
        <4>3. lsh.at \in 1 .. Len(lsh.line)
          BY <1>1, <4>2
        <4>4. lsh.line[lsh.at] \in [op : LshOps, stages : Seq(STRING)]
          BY <4>2, <4>3, ElementOfSeq
        <4> QED BY <4>4 DEF Stages
      <3>2. kids \in Seq(Kid) /\ \A s \in DOMAIN kids : kids[s].st = "none"
        <4>1. none \in Kid /\ none.st = "none"
          BY DEF Kid, KidState
        <4> HIDE DEF none, n
        <4> QED BY <3>1, <4>1
      <3> HIDE DEF kids
      <3>3. /\ IsRec(lsh', LshFields) /\ lsh'.alias = lsh.alias /\ lsh'.pc = "fork"
            /\ lsh'.line = lsh.line /\ lsh'.at = lsh.at /\ lsh'.run = lsh.run
            /\ lsh'.last = lsh.last /\ lsh'.log = lsh.log /\ lsh'.kid = kids /\ lsh'.i = 1
        BY <1>1, <2>2 DEF IsRec, LshFields
      <3>4. LineGood(lsh')
        BY <1>1, <1>13, <3>3 DEF LineGood, LshPipes
      <3>5. AliasGood(lsh') /\ KidGood(lsh')
        BY <1>1, <3>2, <3>3 DEF AliasGood, KidGood
      <3> QED BY <1>1, <3>3, <3>4, <3>5 DEF LshGood
    <2> QED BY <1>13, <2>1, <2>2, Zenon DEF LshPipes
  <1>14. CASE LshFork
    <2>1. /\ lsh.pc = "fork" /\ lsh.i <= Len(lsh.kid) /\ Len(lsh.kid) \in Nat /\ lsh.run
          /\ lsh.i >= 1 /\ lsh.i \in DOMAIN lsh.kid
          /\ \A s \in DOMAIN lsh.kid : s >= lsh.i => lsh.kid[s].st = "none"
      BY <1>1, <1>3, <1>14 DEF LshFork, KidGood
    <2>2. CASE Len(lsh.kid) = 1 /\ lsh' = Advanced(lsh, lsh.last, Unforked)
      <3>1. Children(lsh) = {}
        BY <1>1, <2>1, <2>2 DEF Children
      <3> QED BY <1>1, <1>4, <2>1, <2>2, <3>1, AdvancedGood
    <2>3. ASSUME NEW m, m = lsh', IsRec(m, LshFields), m.pc = lsh.pc, m.line = lsh.line,
                 m.at = lsh.at, m.run = lsh.run, m.last = lsh.last, m.log = lsh.log,
                 m.alias = lsh.alias, m.kid \in Seq(Kid), m.i = lsh.i + 1,
                 DOMAIN m.kid = DOMAIN lsh.kid,
                 \A s \in DOMAIN lsh.kid \ {lsh.i} : m.kid[s] = lsh.kid[s]
          PROVE  LshGood(m)
      <3>1. LineGood(m)
        BY <1>1, <2>1, <2>3, LineSame
      <3>2. AliasGood(m)
        BY <1>1, <2>3 DEF AliasGood
      <3>3. ASSUME NEW s \in DOMAIN m.kid, s >= m.i
            PROVE  m.kid[s].st = "none"
        <4>1. s \in Int /\ s # lsh.i /\ s >= lsh.i
          BY <1>1, <2>3, <3>3
        <4> QED BY <2>1, <2>3, <3>3, <4>1
      <3>4. KidGood(m)
        BY <1>1, <2>1, <2>3, <3>3 DEF KidGood
      <3> QED BY <1>1, <2>1, <2>3, <3>1, <3>2, <3>4 DEF LshGood
    <2>4. CASE lsh' = [lsh EXCEPT !.i = lsh.i + 1]
      BY <1>1, <2>3, <2>4 DEF IsRec, LshFields
    <2>5. ASSUME NEW w \in Int,
                 lsh' = [lsh EXCEPT !.i = lsh.i + 1, !.open[lsh.i] = lsh.open[0],
                           !.kid[lsh.i] = [@ EXCEPT !.st = "forked", !.todo = w]]
          PROVE  LshGood(lsh')
      <3> DEFINE k == [lsh.kid[lsh.i] EXCEPT !.st = "forked", !.todo = w]
      <3>1. /\ IsRec(lsh', LshFields) /\ lsh'.pc = lsh.pc /\ lsh'.line = lsh.line
            /\ lsh'.at = lsh.at /\ lsh'.run = lsh.run /\ lsh'.last = lsh.last
            /\ lsh'.log = lsh.log /\ lsh'.alias = lsh.alias /\ lsh'.i = lsh.i + 1
            /\ lsh'.kid = [lsh.kid EXCEPT ![lsh.i] = k]
        BY <1>1, <2>5 DEF IsRec, LshFields
      <3>2. k \in Kid
        <4>1. lsh.kid[lsh.i] \in Kid
          BY <1>1, <2>1
        <4> DEFINE F == KidState
                   C == 0 .. 255
        <4>2. "forked" \in F
          BY DEF KidState
        <4> HIDE DEF F, C
        <4>3. Kid = [st : F, has : {0, 1}, todo : Int, code : C]
          BY DEF Kid, F, C
        <4> QED BY <4>1, <4>2, <4>3, <2>5
      <3> HIDE DEF k
      <3>3. lsh'.kid \in Seq(Kid) /\ DOMAIN lsh'.kid = DOMAIN lsh.kid
        BY <1>1, <2>1, <3>1, <3>2, ExceptSeq
      <3>4. \A s \in DOMAIN lsh.kid \ {lsh.i} : lsh'.kid[s] = lsh.kid[s]
        BY <1>1, <3>1
      <3> QED BY <2>3, <3>1, <3>3, <3>4
    <2>6. Blocks \in Nat
      BY LshAssumption, Zenon
    <2>7. Blocks \in Int /\ 0 \in Int
      BY <2>6
    <2> QED BY <1>14, <2>2, <2>4, <2>5, <2>7 DEF LshFork
  <1>15. CASE LshClose
    <2>1. /\ IsRec(lsh', LshFields) /\ lsh'.alias = lsh.alias /\ lsh'.pc = "wait"
          /\ lsh'.line = lsh.line /\ lsh'.at = lsh.at /\ lsh'.run = lsh.run
          /\ lsh'.last = lsh.last /\ lsh'.log = lsh.log /\ lsh'.kid = lsh.kid
          /\ lsh'.i = 1 /\ lsh.pc = "fork"
      BY <1>1, <1>15 DEF IsRec, LshFields, LshClose
    <2>2. LineGood(lsh')
      BY <1>1, <1>3, <2>1 DEF LineGood
    <2>3. AliasGood(lsh')
      BY <1>1, <2>1 DEF AliasGood
    <2>4. Cardinality(Children(lsh')) <= Len(lsh'.kid) /\ Len(lsh'.kid) \in Nat
          /\ Cardinality(Children(lsh')) \in Nat
      BY <1>1, <2>1, ChildrenFinite
    <2>5. KidGood(lsh')
      BY <1>1, <2>1, <2>4 DEF KidGood
    <2> QED BY <1>1, <2>1, <2>2, <2>3, <2>5 DEF LshGood
  <1>16. ASSUME NEW z \in DOMAIN lsh.kid, NEW m, m = Reaped(lsh, z)
         PROVE  /\ IsRec(m, LshFields) /\ m.alias = lsh.alias /\ m.pc = lsh.pc
                /\ m.line = lsh.line /\ m.at = lsh.at /\ m.run = lsh.run
                /\ m.last = lsh.last /\ m.log = lsh.log /\ m.i = lsh.i
                /\ m.kid \in Seq(Kid) /\ Len(m.kid) = Len(lsh.kid)
                /\ Children(m) = Children(lsh) \ {z}
    <2> DEFINE k == [lsh.kid[z] EXCEPT !.st = "reaped"]
    <2>1. /\ IsRec(m, LshFields) /\ m.alias = lsh.alias /\ m.pc = lsh.pc
          /\ m.line = lsh.line /\ m.at = lsh.at /\ m.run = lsh.run
          /\ m.last = lsh.last /\ m.log = lsh.log /\ m.i = lsh.i
          /\ m.kid = [lsh.kid EXCEPT ![z] = k]
      BY <1>1, <1>16 DEF IsRec, LshFields, Reaped
    <2>2. k \in Kid /\ k.st = "reaped"
      <3>1. lsh.kid[z] \in Kid
        BY <1>1
      <3> DEFINE F == KidState
                 C == 0 .. 255
      <3>2. "reaped" \in F
        BY DEF KidState
      <3> HIDE DEF F, C
      <3>3. Kid = [st : F, has : {0, 1}, todo : Int, code : C]
        BY DEF Kid, F, C
      <3> QED BY <3>1, <3>2, <3>3
    <2> HIDE DEF k
    <2>3. z \in 1 .. Len(lsh.kid)
      BY <1>1
    <2>4. /\ m.kid \in Seq(Kid) /\ Len(m.kid) = Len(lsh.kid)
          /\ DOMAIN m.kid = DOMAIN lsh.kid /\ m.kid[z] = k
          /\ \A s \in DOMAIN lsh.kid \ {z} : m.kid[s] = lsh.kid[s]
      BY <1>1, <2>1, <2>2, <2>3, ExceptSeq
    <2>5. Children(m) = Children(lsh) \ {z}
      BY <2>2, <2>4 DEF Children
    <2> QED BY <2>1, <2>4, <2>5
  <1>17. ASSUME NEW m, IsRec(m, LshFields), lsh.pc = "wait", NEW c \in 0 .. 255,
                lsh' = Advanced(m, c, c), m.alias = lsh.alias, m.pc = lsh.pc,
                m.line = lsh.line, m.at = lsh.at, m.run = lsh.run, m.last = lsh.last,
                m.log = lsh.log, m.i = lsh.i, m.kid \in Seq(Kid), Children(m) = {}
         PROVE  LshGood(lsh')
    <2>1. LineGood(m) /\ AliasGood(m) /\ m.run
      BY <1>1, <1>3, <1>17, LineSame DEF AliasGood
    <2>2. c \in Int
      OBVIOUS
    <2> QED BY <1>1, <1>17, <2>1, <2>2, AdvancedGood
  <1>18. CASE LshWaitOne
    <2>1. /\ lsh.pc = "wait" /\ Len(lsh.kid) = 1 /\ lsh.kid[1].code \in 0 .. 255
          /\ 1 \in DOMAIN lsh.kid
      <3>1. lsh.pc = "wait" /\ Len(lsh.kid) = 1 /\ 1 \in DOMAIN lsh.kid
        BY <1>1, <1>18 DEF LshWaitOne
      <3>2. lsh.kid[1] \in Kid
        BY <1>1, <3>1
      <3> QED BY <3>1, <3>2 DEF Kid
    <2> DEFINE m == Reaped(lsh, 1)
    <2>2. lsh' = Advanced(m, lsh.kid[1].code, lsh.kid[1].code)
      BY <1>18 DEF LshWaitOne
    <2> HIDE DEF m
    <2>3. /\ IsRec(m, LshFields) /\ m.alias = lsh.alias /\ m.pc = lsh.pc
          /\ m.line = lsh.line /\ m.at = lsh.at /\ m.run = lsh.run
          /\ m.last = lsh.last /\ m.log = lsh.log /\ m.i = lsh.i
          /\ m.kid \in Seq(Kid) /\ Children(m) = Children(lsh) \ {1}
      BY <1>16, <2>1 DEF m
    <2>4. Children(lsh) \subseteq 1 .. 1
      BY <1>1, <2>1, ChildrenFinite
    <2>5. Children(m) = {}
      BY <2>3, <2>4
    <2> QED BY <1>17, <2>1, <2>2, <2>3, <2>5
  <1>19. CASE LshWaitAny
    <2>1. lsh.pc = "wait" /\ Len(lsh.kid) > 1 /\ Waits(lsh) = Len(lsh.kid)
          /\ Len(lsh.kid) \in Nat /\ lsh.i >= 1
          /\ Cardinality(Children(lsh)) <= Len(lsh.kid) - (lsh.i - 1)
          /\ IsFiniteSet(Children(lsh)) /\ Cardinality(Children(lsh)) \in Nat
      BY <1>1, <1>19, ChildrenFinite DEF LshWaitAny, KidGood, Waits
    <2>2. ASSUME NEW m, IsRec(m, LshFields), NEW c \in 0 .. 255,
                 lsh' = IF lsh.i >= Waits(lsh) THEN Advanced(m, c, c) ELSE [m EXCEPT !.i = @ + 1],
                 m.alias = lsh.alias, m.pc = lsh.pc, m.line = lsh.line, m.at = lsh.at,
                 m.run = lsh.run, m.last = lsh.last, m.log = lsh.log, m.i = lsh.i,
                 m.kid \in Seq(Kid), Len(m.kid) = Len(lsh.kid),
                 IsFiniteSet(Children(m)), Cardinality(Children(m)) \in Nat,
                 Cardinality(Children(m)) <= Len(lsh.kid) - lsh.i \/ Children(m) = {}
          PROVE  LshGood(lsh')
      <3>1. CASE lsh.i >= Len(lsh.kid)
        <4>1. Children(m) = {}
          <5>1. CASE Cardinality(Children(m)) <= Len(lsh.kid) - lsh.i
            <6>1. Cardinality(Children(m)) = 0
              BY <1>1, <2>1, <2>2, <3>1, <5>1
            <6> QED BY <2>2, <6>1, FS_EmptySet
          <5> QED BY <2>2, <5>1
        <4> QED BY <1>17, <2>1, <2>2, <3>1, <4>1
      <3>2. CASE ~(lsh.i >= Len(lsh.kid))
        <4>1. lsh' = [m EXCEPT !.i = @ + 1]
          BY <2>1, <2>2, <3>2
        <4>2. /\ IsRec(lsh', LshFields) /\ lsh'.alias = lsh.alias /\ lsh'.pc = "wait"
              /\ lsh'.line = lsh.line /\ lsh'.at = lsh.at /\ lsh'.run = lsh.run
              /\ lsh'.last = lsh.last /\ lsh'.log = lsh.log /\ lsh'.kid = m.kid
              /\ lsh'.i = lsh.i + 1
          BY <2>1, <2>2, <4>1 DEF IsRec, LshFields
        <4>3. Children(lsh') = Children(m)
          BY <4>2 DEF Children
        <4>4. Cardinality(Children(m)) <= Len(lsh.kid) - lsh.i
          <5>1. CASE Children(m) = {}
            <6>1. Cardinality(Children(m)) = 0
              BY <2>2, <5>1, FS_EmptySet
            <6> QED BY <1>1, <2>1, <3>2, <6>1
          <5> QED BY <2>2, <5>1
        <4>5. KidGood(lsh')
          <5>1. lsh'.i \in Nat /\ lsh'.i >= 1 /\ lsh'.i - 1 = lsh.i
            BY <1>1, <4>2
          <5>2. Cardinality(Children(lsh')) <= Len(lsh'.kid) - (lsh'.i - 1)
            BY <2>2, <4>2, <4>3, <4>4, <5>1
          <5> QED BY <2>2, <4>2, <5>1, <5>2 DEF KidGood
        <4>6. LineGood(lsh') /\ AliasGood(lsh')
          BY <1>1, <2>1, <4>2, LineSame DEF AliasGood
        <4> QED BY <1>1, <4>2, <4>5, <4>6 DEF LshGood
      <3> QED BY <3>1, <3>2
    <2>3. PICK z \in DOMAIN lsh.kid, left \in {0, 1} :
            /\ lsh.kid[z].st = "zombie" \/ Children(lsh) = {}
            /\ LET code == IF Children(lsh) = {} THEN left
                           ELSE IF lsh.kid[z].code = SigPipe THEN 0 ELSE lsh.kid[z].code
                   gone == IF Children(lsh) = {} THEN lsh ELSE Reaped(lsh, z)
               IN lsh' = IF lsh.i >= Waits(lsh) THEN Advanced(gone, code, code)
                         ELSE [gone EXCEPT !.i = @ + 1]
      BY <1>19, Zenon DEF LshWaitAny
    <2>4. CASE Children(lsh) = {}
      <3>1. lsh' = IF lsh.i >= Waits(lsh) THEN Advanced(lsh, left, left)
                   ELSE [lsh EXCEPT !.i = @ + 1]
        BY <2>3, <2>4
      <3>2. left \in 0 .. 255
        OBVIOUS
      <3> QED BY <1>1, <2>1, <2>2, <2>4, <3>1, <3>2
    <2>5. CASE Children(lsh) # {}
      <3> DEFINE m == Reaped(lsh, z)
                 c == IF lsh.kid[z].code = SigPipe THEN 0 ELSE lsh.kid[z].code
      <3>1. lsh' = IF lsh.i >= Waits(lsh) THEN Advanced(m, c, c) ELSE [m EXCEPT !.i = @ + 1]
        BY <2>3, <2>5
      <3>2. c \in 0 .. 255
        <4>1. lsh.kid[z] \in Kid
          BY <1>1
        <4> QED BY <4>1 DEF Kid
      <3>3. z \in Children(lsh)
        BY <2>3, <2>5 DEF Children
      <3> HIDE DEF m, c
      <3>4. /\ IsRec(m, LshFields) /\ m.alias = lsh.alias /\ m.pc = lsh.pc
            /\ m.line = lsh.line /\ m.at = lsh.at /\ m.run = lsh.run
            /\ m.last = lsh.last /\ m.log = lsh.log /\ m.i = lsh.i
            /\ m.kid \in Seq(Kid) /\ Len(m.kid) = Len(lsh.kid)
            /\ Children(m) = Children(lsh) \ {z}
        BY <1>16 DEF m
      <3>5. /\ IsFiniteSet(Children(m))
            /\ Cardinality(Children(m)) = Cardinality(Children(lsh)) - 1
        BY <2>1, <3>3, <3>4, FS_RemoveElement
      <3>6. Cardinality(Children(m)) \in Nat
        BY <3>5, FS_CardinalityType
      <3>7. Cardinality(Children(m)) <= Len(lsh.kid) - lsh.i
        BY <1>1, <2>1, <3>5, <3>6
      <3> QED BY <2>2, <3>1, <3>2, <3>4, <3>5, <3>6, <3>7
    <2> QED BY <2>4, <2>5
  <1> QED
    BY <1>5, <1>6, <1>8, <1>9, <1>10, <1>11, <1>12, <1>13, <1>14, <1>15, <1>18, <1>19
    DEF LshShell, LshBuiltin

\* A child that is changed in its state, its code and what it has to send.
LEMMA KidFields ==
  ASSUME NEW k \in Kid
  PROVE  /\ \A st \in KidState :
              [k EXCEPT !.st = st] \in Kid /\ [k EXCEPT !.st = st].st = st
         /\ \A st \in KidState, code \in 0 .. 255 :
              /\ [k EXCEPT !.st = st, !.code = code] \in Kid
              /\ [k EXCEPT !.st = st, !.code = code].st = st
         /\ \A has \in {0, 1} :
              [k EXCEPT !.has = has] \in Kid /\ [k EXCEPT !.has = has].st = k.st
         /\ \A has \in {0, 1}, todo \in Int :
              /\ [k EXCEPT !.has = has, !.todo = todo] \in Kid
              /\ [k EXCEPT !.has = has, !.todo = todo].st = k.st
  <1> DEFINE C == 0 .. 255
             H == {0, 1}
  <1>1. Kid = [st : KidState, has : H, todo : Int, code : C]
    BY DEF Kid
  <1> HIDE DEF C, H
  <1>2. ASSUME NEW st \in KidState
        PROVE  [k EXCEPT !.st = st] \in Kid /\ [k EXCEPT !.st = st].st = st
    BY <1>1
  <1>3. ASSUME NEW st \in KidState, NEW code \in C
        PROVE  /\ [k EXCEPT !.st = st, !.code = code] \in Kid
               /\ [k EXCEPT !.st = st, !.code = code].st = st
    BY <1>1
  <1>4. ASSUME NEW has \in H
        PROVE  [k EXCEPT !.has = has] \in Kid /\ [k EXCEPT !.has = has].st = k.st
    BY <1>1
  <1>5. ASSUME NEW has \in H, NEW todo \in Int
        PROVE  /\ [k EXCEPT !.has = has, !.todo = todo] \in Kid
               /\ [k EXCEPT !.has = has, !.todo = todo].st = k.st
    BY <1>1
  <1> QED BY <1>2, <1>3, <1>4, <1>5, Zenon DEF C, H

\* Every step of a child keeps the shell in order.
LEMMA ChildStep ==
  ASSUME LshGood(lsh), LshChild
  PROVE  LshGood(lsh')
  <1>1. PICK s \in DOMAIN lsh.kid : ChildSetup(s) \/ ChildRead(s) \/ ChildWrite(s) \/ ChildExit(s)
    BY DEF LshChild
  <1> DEFINE k == lsh.kid[s]
  <1>2. IsRec(lsh, LshFields) /\ lsh.kid \in Seq(Kid) /\ k \in Kid
    BY DEF LshGood, KidGood
  <1>3. k.st \in {"forked", "run"}
    BY <1>1 DEF ChildSetup, ChildRead, ChildWrite, ChildExit
  <1>4. /\ "run" \in KidState /\ "zombie" \in KidState
        /\ 0 \in {0, 1} /\ 1 \in {0, 1} /\ 0 \in 0 .. 255
        /\ k.todo \in Int /\ k.todo - 1 \in Int
    BY <1>2 DEF Kid, KidState
  <1>5. ASSUME NEW new \in Kid, new.st \in {"run", "zombie"}, IsRec(lsh', LshFields),
               lsh'.kid = [lsh.kid EXCEPT ![s] = new], lsh'.pc = lsh.pc,
               lsh'.line = lsh.line, lsh'.at = lsh.at, lsh'.run = lsh.run,
               lsh'.last = lsh.last, lsh'.log = lsh.log, lsh'.i = lsh.i,
               lsh'.alias = lsh.alias
        PROVE  LshGood(lsh')
    BY <1>3, <1>5, ChildGood
  <1>6. CASE ChildSetup(s)
    <2> DEFINE new == [k EXCEPT !.st = "run"]
    <2>1. new \in Kid /\ new.st = "run"
      BY <1>2, <1>4, KidFields, ZenonT(60)
    <2>2. /\ IsRec(lsh', LshFields) /\ lsh'.kid = [lsh.kid EXCEPT ![s] = new]
          /\ lsh'.pc = lsh.pc /\ lsh'.line = lsh.line /\ lsh'.at = lsh.at
          /\ lsh'.run = lsh.run /\ lsh'.last = lsh.last /\ lsh'.log = lsh.log
          /\ lsh'.i = lsh.i /\ lsh'.alias = lsh.alias
      BY <1>2, <1>6 DEF IsRec, LshFields, ChildSetup
    <2> HIDE DEF new
    <2> QED BY <1>5, <2>1, <2>2
  <1>7. CASE ChildRead(s)
    <2> DEFINE new == [k EXCEPT !.has = 1]
    <2>1. new \in Kid /\ new.st = k.st /\ k.st = "run"
      BY <1>2, <1>4, <1>7, KidFields, Zenon DEF ChildRead
    <2>2. /\ IsRec(lsh', LshFields) /\ lsh'.kid = [lsh.kid EXCEPT ![s] = new]
          /\ lsh'.pc = lsh.pc /\ lsh'.line = lsh.line /\ lsh'.at = lsh.at
          /\ lsh'.run = lsh.run /\ lsh'.last = lsh.last /\ lsh'.log = lsh.log
          /\ lsh'.i = lsh.i /\ lsh'.alias = lsh.alias
      BY <1>2, <1>7 DEF IsRec, LshFields, ChildRead
    <2> HIDE DEF new
    <2> QED BY <1>5, <2>1, <2>2
  <1>8. ASSUME NEW code \in 0 .. 255, Ended(s, code)
        PROVE  LshGood(lsh')
    <2> DEFINE new == [k EXCEPT !.st = "zombie", !.code = code]
    <2>1. new \in Kid /\ new.st = "zombie"
      BY <1>2, <1>4, KidFields, ZenonT(60)
    <2>2. /\ IsRec(lsh', LshFields) /\ lsh'.kid = [lsh.kid EXCEPT ![s] = new]
          /\ lsh'.pc = lsh.pc /\ lsh'.line = lsh.line /\ lsh'.at = lsh.at
          /\ lsh'.run = lsh.run /\ lsh'.last = lsh.last /\ lsh'.log = lsh.log
          /\ lsh'.i = lsh.i /\ lsh'.alias = lsh.alias
      BY <1>2, <1>8 DEF IsRec, LshFields, Ended
    <2> HIDE DEF new
    <2> QED BY <1>5, <2>1, <2>2
  <1>9. CASE ChildWrite(s)
    <2> DEFINE todo == IF k.has = 1 THEN k.todo ELSE k.todo - 1
               sent == [k EXCEPT !.has = 0, !.todo = todo]
    <2>1. \/ Ended(s, SigPipe)
          \/ lsh' = [lsh EXCEPT !.kid[s] = sent]
          \/ lsh' = [lsh EXCEPT !.kid[s] = sent, !.pipe[s] = @ + 1]
      BY <1>9, Zenon DEF ChildWrite
    <2>2. sent \in Kid /\ sent.st = k.st /\ k.st = "run"
      <3>1. todo \in Int
        BY <1>4
      <3> HIDE DEF todo
      <3> QED BY <1>2, <1>4, <1>9, <3>1, KidFields, Zenon DEF ChildWrite
    <2> HIDE DEF sent
    <2>3. CASE \/ lsh' = [lsh EXCEPT !.kid[s] = sent]
               \/ lsh' = [lsh EXCEPT !.kid[s] = sent, !.pipe[s] = @ + 1]
      <3>1. /\ IsRec(lsh', LshFields) /\ lsh'.kid = [lsh.kid EXCEPT ![s] = sent]
            /\ lsh'.pc = lsh.pc /\ lsh'.line = lsh.line /\ lsh'.at = lsh.at
            /\ lsh'.run = lsh.run /\ lsh'.last = lsh.last /\ lsh'.log = lsh.log
            /\ lsh'.i = lsh.i /\ lsh'.alias = lsh.alias
        BY <1>2, <2>3 DEF IsRec, LshFields
      <3> QED BY <1>5, <2>2, <3>1
    <2>4. SigPipe \in 0 .. 255
      BY DEF SigPipe
    <2> QED BY <1>8, <2>1, <2>3, <2>4
  <1>10. CASE ChildExit(s)
    <2>1. PICK code \in {0, 1} : Ended(s, code)
      BY <1>10 DEF ChildExit
    <2>2. code \in 0 .. 255
      OBVIOUS
    <2> QED BY <1>8, <2>1, <2>2
  <1> QED BY <1>1, <1>6, <1>7, <1>9, <1>10

LEMMA LshStep ==
  ASSUME LshInv, LshNext
  PROVE  LshInv'
  BY ShellStep, ChildStep DEF LshInv, LshNext, LshOff

\* What a shell in order promises.
LEMMA LshPromises ==
  ASSUME LshInv
  PROVE  LshListRuns /\ LshNoChild /\ LshAliasOnce
  <1>1. LshListRuns
    <2> SUFFICES ASSUME lsh.pc # "off", NEW k \in 2 .. Len(lsh.log),
                        StatusAfter(lsh.line, lsh.log, 0)[k - 1] # Unforked
                 PROVE  (lsh.log[k] # Skipped)
                          <=> Due(lsh.line[k].op, StatusAfter(lsh.line, lsh.log, 0)[k - 1])
      BY DEF LshListRuns, Due
    <2>1. LineGood(lsh)
      BY DEF LshInv, LshOff, LshGood
    <2> QED BY <2>1, Zenon DEF LineGood
  <1>2. LshNoChild
    BY DEF LshInv, LshOff, LshGood, KidGood, LshNoChild
  <1>3. LshAliasOnce
    <2> SUFFICES ASSUME lsh.pc # "off", NEW n \in AliasName
                 PROVE  Cardinality(SlotsOf(lsh, n)) <= 1
      BY DEF LshAliasOnce
    <2>1. OneSlot(lsh.alias) /\ n # NoAlias /\ MaxAliases \in Nat
      BY LshAssumption DEF LshInv, LshOff, LshGood, AliasGood, NoAlias
    <2>2. \A a, b \in SlotsOf(lsh, n) : a = b
      BY <2>1 DEF OneSlot, SlotsOf
    <2>3. CASE SlotsOf(lsh, n) = {}
      BY <2>3, FS_EmptySet
    <2>4. CASE SlotsOf(lsh, n) # {}
      <3>1. PICK a \in SlotsOf(lsh, n) : TRUE
        BY <2>4
      <3>2. SlotsOf(lsh, n) = {a}
        BY <2>2, <3>1
      <3> QED BY <3>2, FS_Singleton
    <2> QED BY <2>3, <2>4
  <1> QED BY <1>1, <1>2, <1>3

-----------------------------------------------------------------------------
(* The tracer.                                                             *)

TracerFields == {"pc", "child", "at", "nr", "in", "cur", "total", "stats", "truth",
                 "returned", "calls", "signals", "result"}

InCall(t) == t.at \in {"entry", "exec", "dying"} /\ t.nr # BadNr

TracerTypes(t) ==
  /\ IsRec(t, TracerFields)
  /\ t.pc \in {"first", "resume", "wait", "done"} /\ t.in \in BOOLEAN
  /\ t.child \in {"starting", "stopped", "runs", "zombie", "reaped"}
  /\ t.nr \in Sysno \cup {BadNr} /\ t.total \in Nat /\ t.returned \in Nat
  /\ t.truth \in [Sysno -> Nat] /\ t.stats \in [DOMAIN t.stats -> Nat]
  /\ DOMAIN t.stats \subseteq Sysno /\ IsFiniteSet(DOMAIN t.stats)

\* Where the loop is when the tracee runs or is stopped, and what its flag is
\* then: right once a stop has been looked at, behind by that stop before.
TracerFlow(t) ==
  /\ t.pc = "first" => t.child \in {"starting", "stopped", "zombie"}
  /\ t.pc = "first" \/ t.child = "starting" => ~t.in /\ t.nr = BadNr
  /\ t.child = "starting" => t.pc = "first"
  /\ t.child = "runs" => t.pc = "wait"
  /\ t.at \notin {"entry", "exec", "dying"} => t.nr = BadNr
  /\ t.child = "runs" \/ (t.pc = "resume" /\ t.child = "stopped") => (t.in <=> InCall(t))
  /\ t.pc = "wait" /\ t.child = "stopped" =>
       /\ t.at = "entry" => ~t.in
       /\ t.at \notin {"entry", "exit"} => (t.in <=> InCall(t))
  /\ t.in => t.cur \in Sysno /\ t.at \in {"entry", "exec", "dying", "exit"}
  /\ t.in /\ t.at # "exit" => t.nr = t.cur

\* A call that returned is counted, or is the one whose exit stop the loop has
\* not looked at, or is not in the table because that is full.
Uncounted(t, n) == IF t.in /\ t.at = "exit" /\ t.cur = n THEN 1 ELSE 0
TracerCounts(t) ==
  /\ \A n \in DOMAIN t.stats : t.truth[n] = t.stats[n] + Uncounted(t, n)
  /\ \A n \in Sysno \ DOMAIN t.stats :
       t.truth[n] = Uncounted(t, n) \/ Cardinality(DOMAIN t.stats) = MaxStats
  /\ t.total = t.returned + (IF t.in /\ t.at # "exit" THEN 1 ELSE 0)

TracerGood(t) == TracerTypes(t) /\ TracerFlow(t) /\ TracerCounts(t)

TracerInv == tr = TracerOff \/ TracerGood(tr)

\* One more call in the table, or none where it has no room.
LEMMA RecordCounts ==
  ASSUME NEW t, TracerGood(t), t.in, t.at = "exit", NEW m, m = Record(t)
  PROVE  /\ IsRec(m, TracerFields) /\ m.pc = t.pc /\ m.child = t.child /\ m.at = t.at
         /\ m.nr = t.nr /\ m.cur = t.cur /\ m.total = t.total /\ m.truth = t.truth
         /\ m.returned = t.returned /\ m.stats \in [DOMAIN m.stats -> Nat]
         /\ DOMAIN m.stats \subseteq Sysno /\ IsFiniteSet(DOMAIN m.stats)
         /\ \A n \in DOMAIN m.stats : m.truth[n] = m.stats[n]
         /\ \A n \in Sysno \ DOMAIN m.stats :
              m.truth[n] = 0 \/ Cardinality(DOMAIN m.stats) = MaxStats
  <1> DEFINE f == t.stats
             c == t.cur
  <1>1. /\ IsRec(t, TracerFields) /\ t.truth \in [Sysno -> Nat] /\ f \in [DOMAIN f -> Nat]
        /\ DOMAIN f \subseteq Sysno /\ IsFiniteSet(DOMAIN f) /\ c \in Sysno
    BY DEF TracerGood, TracerTypes, TracerFlow
  <1>2. /\ \A n \in DOMAIN f : t.truth[n] = f[n] + (IF c = n THEN 1 ELSE 0)
        /\ \A n \in Sysno \ DOMAIN f :
             t.truth[n] = (IF c = n THEN 1 ELSE 0) \/ Cardinality(DOMAIN f) = MaxStats
    BY DEF TracerGood, TracerCounts, Uncounted
  <1>3. CASE c \in DOMAIN f
    <2> DEFINE g == [f EXCEPT ![c] = f[c] + 1]
    <2>1. m = [t EXCEPT !.stats = g]
      BY <1>1, <1>3 DEF Record, IsRec, TracerFields
    <2>2. /\ g \in [DOMAIN f -> Nat] /\ DOMAIN g = DOMAIN f
          /\ \A n \in DOMAIN f : t.truth[n] = g[n]
      BY <1>1, <1>2, <1>3
    <2> HIDE DEF g
    <2>3. /\ IsRec(m, TracerFields) /\ m.pc = t.pc /\ m.child = t.child /\ m.at = t.at
          /\ m.nr = t.nr /\ m.cur = t.cur /\ m.total = t.total /\ m.truth = t.truth
          /\ m.returned = t.returned /\ m.stats = g
      BY <1>1, <2>1 DEF IsRec, TracerFields
    <2> HIDE DEF f, c
    <2> QED BY <1>1, <1>2, <1>3, <2>2, <2>3
  <1>4. CASE c \notin DOMAIN f /\ Cardinality(DOMAIN f) = MaxStats
    <2>1. m = t
      BY <1>4 DEF Record
    <2> QED BY <1>1, <1>2, <1>4, <2>1
  <1>5. CASE c \notin DOMAIN f /\ Cardinality(DOMAIN f) # MaxStats
    <2> DEFINE g == [n \in DOMAIN f \cup {c} |-> IF n = c THEN 1 ELSE f[n]]
    <2>1. m = [t EXCEPT !.stats = g]
      BY <1>5 DEF Record
    <2>2. /\ DOMAIN g = DOMAIN f \cup {c} /\ g \in [DOMAIN g -> Nat]
          /\ \A n \in DOMAIN g : t.truth[n] = g[n]
          /\ \A n \in Sysno \ DOMAIN g : t.truth[n] = 0
      BY <1>1, <1>2, <1>5
    <2> HIDE DEF g
    <2>3. /\ IsRec(m, TracerFields) /\ m.pc = t.pc /\ m.child = t.child /\ m.at = t.at
          /\ m.nr = t.nr /\ m.cur = t.cur /\ m.total = t.total /\ m.truth = t.truth
          /\ m.returned = t.returned /\ m.stats = g
      BY <1>1, <2>1 DEF IsRec, TracerFields
    <2>4. IsFiniteSet(DOMAIN g)
      BY <1>1, <2>2, FS_AddElement
    <2> QED BY <1>1, <2>2, <2>3, <2>4
  <1> QED BY <1>3, <1>4, <1>5

\* Every step of the tracee and of the loop keeps the pairs and the counts.
LEMMA TracerKeeps ==
  ASSUME TracerGood(tr), Tracee \/ TracerStep
  PROVE  TracerGood(tr')
  <1>1. TracerTypes(tr) /\ TracerFlow(tr) /\ TracerCounts(tr) /\ IsRec(tr, TracerFields)
    BY DEF TracerGood, TracerTypes
  <1> DEFINE Same == /\ tr'.nr = tr.nr /\ tr'.in = tr.in /\ tr'.cur = tr.cur
                     /\ tr'.total = tr.total /\ tr'.stats = tr.stats
                     /\ tr'.truth = tr.truth /\ tr'.returned = tr.returned
  <1>2. CASE TraceeFirst
    <2>1. CASE tr' = [tr EXCEPT !.child = "stopped", !.at = "signal"]
      <3>1. /\ IsRec(tr', TracerFields) /\ tr'.pc = tr.pc /\ tr'.child = "stopped"
            /\ tr'.at = "signal" /\ Same
        BY <1>1, <2>1 DEF IsRec, TracerFields
      <3> QED BY <1>1, <1>2, <3>1
              DEF TraceeFirst, TracerGood, TracerTypes, TracerFlow, TracerCounts, Uncounted, InCall
    <2>2. CASE tr' = [tr EXCEPT !.child = "zombie"]
      <3>1. /\ IsRec(tr', TracerFields) /\ tr'.pc = tr.pc /\ tr'.child = "zombie"
            /\ tr'.at = tr.at /\ Same
        BY <1>1, <2>2 DEF IsRec, TracerFields
      <3> QED BY <1>1, <1>2, <3>1
              DEF TraceeFirst, TracerGood, TracerTypes, TracerFlow, TracerCounts, Uncounted
    <2> QED BY <1>2, <2>1, <2>2 DEF TraceeFirst
  <1>3. CASE TraceeEnter
    <2>1. PICK n \in Sysno \cup {BadNr} :
            tr' = [StopAt(tr, "entry") EXCEPT !.nr = n, !.calls = @ + 1]
      BY <1>3 DEF TraceeEnter
    <2>2. /\ IsRec(tr', TracerFields) /\ tr'.pc = tr.pc /\ tr'.child = "stopped"
          /\ tr'.at = "entry" /\ tr'.nr = n /\ tr'.in = tr.in /\ tr'.cur = tr.cur
          /\ tr'.total = tr.total /\ tr'.stats = tr.stats /\ tr'.truth = tr.truth
          /\ tr'.returned = tr.returned
      BY <1>1, <2>1 DEF IsRec, TracerFields, StopAt
    <2>3. tr.child = "runs" /\ tr.pc = "wait" /\ ~tr.in
      BY <1>1, <1>3 DEF TraceeEnter, Runs, TracerFlow, InCall
    <2> QED BY <1>1, <2>2, <2>3
            DEF TracerGood, TracerTypes, TracerFlow, TracerCounts, Uncounted
  <1>4. CASE TraceeInside
    <2>1. CASE tr.at = "entry" /\ tr' = StopAt(tr, "exec")
      <3>1. /\ IsRec(tr', TracerFields) /\ tr'.pc = tr.pc /\ tr'.child = "stopped"
            /\ tr'.at = "exec" /\ Same
        BY <1>1, <2>1 DEF IsRec, TracerFields, StopAt
      <3> QED BY <1>1, <1>4, <2>1, <3>1
              DEF TraceeInside, Runs, TracerGood, TracerTypes, TracerFlow, TracerCounts,
                  Uncounted, InCall
    <2>2. ASSUME NEW f, NEW r,
                 tr' = [StopAt(tr, "exit") EXCEPT !.nr = BadNr, !.truth = f, !.returned = r],
                 f = [n \in Sysno |-> IF n = tr.nr THEN tr.truth[n] + 1 ELSE tr.truth[n]],
                 r = IF tr.nr = BadNr THEN tr.returned ELSE tr.returned + 1
          PROVE  TracerGood(tr')
      <3>1. /\ IsRec(tr', TracerFields) /\ tr'.pc = tr.pc /\ tr'.child = "stopped"
            /\ tr'.at = "exit" /\ tr'.nr = BadNr /\ tr'.in = tr.in /\ tr'.cur = tr.cur
            /\ tr'.total = tr.total /\ tr'.stats = tr.stats /\ tr'.truth = f
            /\ tr'.returned = r
        BY <1>1, <2>2 DEF IsRec, TracerFields, StopAt
      <3>2. /\ tr.child = "runs" /\ tr.pc = "wait" /\ (tr.in <=> tr.nr # BadNr)
            /\ tr.in => tr.cur = tr.nr /\ tr.cur \in Sysno
            /\ tr.at # "exit" /\ BadNr \notin Sysno
        BY <1>1, <1>4, TracerAssumption DEF TraceeInside, Runs, TracerFlow, InCall
      <3>3. TracerTypes(tr')
        BY <1>1, <2>2, <3>1 DEF TracerTypes
      <3>4. TracerFlow(tr')
        BY <1>1, <3>1, <3>2 DEF TracerFlow
      <3>5. TracerCounts(tr')
        <4>1. /\ \A n \in DOMAIN tr.stats : tr.truth[n] = tr.stats[n]
              /\ \A n \in Sysno \ DOMAIN tr.stats :
                   tr.truth[n] = 0 \/ Cardinality(DOMAIN tr.stats) = MaxStats
              /\ tr.total = tr.returned + (IF tr.in THEN 1 ELSE 0)
          BY <1>1, <3>2 DEF TracerCounts, Uncounted, TracerTypes
        <4>2. \A n \in Sysno : f[n] = tr.truth[n] + (IF tr.in /\ tr.cur = n THEN 1 ELSE 0)
          BY <1>1, <2>2, <3>2 DEF TracerTypes
        <4>3. DOMAIN tr.stats \subseteq Sysno /\ tr.returned \in Nat
          BY <1>1 DEF TracerTypes
        <4>4. tr'.total = tr'.returned
          BY <2>2, <3>1, <3>2, <4>1, <4>3
        <4>5. \A n \in Sysno : Uncounted(tr', n) = IF tr.in /\ tr.cur = n THEN 1 ELSE 0
          BY <3>1 DEF Uncounted
        <4>6. \A n \in DOMAIN tr.stats : f[n] = tr.stats[n] + Uncounted(tr', n)
          BY <4>1, <4>2, <4>3, <4>5
        <4>7. \A n \in Sysno \ DOMAIN tr.stats :
                f[n] = Uncounted(tr', n) \/ Cardinality(DOMAIN tr.stats) = MaxStats
          BY <4>1, <4>2, <4>5
        <4>8. tr'.total = tr'.returned + (IF tr'.in /\ tr'.at # "exit" THEN 1 ELSE 0)
          BY <3>1, <4>3, <4>4, <2>2
        <4> QED BY <3>1, <4>6, <4>7, <4>8 DEF TracerCounts
      <3> QED BY <3>3, <3>4, <3>5 DEF TracerGood
    <2> DEFINE f == [n \in Sysno |-> IF n = tr.nr THEN tr.truth[n] + 1 ELSE tr.truth[n]]
               r == IF tr.nr = BadNr THEN tr.returned ELSE tr.returned + 1
    <2>3. \/ tr.at = "entry" /\ tr' = StopAt(tr, "exec")
          \/ tr' = [StopAt(tr, "exit") EXCEPT !.nr = BadNr, !.truth = f, !.returned = r]
      <3>1. StopAt(tr, "exit").returned = tr.returned
        BY <1>1 DEF StopAt, IsRec, TracerFields
      <3> QED BY <1>4, <3>1 DEF TraceeInside
    <2>4. f = [n \in Sysno |-> IF n = tr.nr THEN tr.truth[n] + 1 ELSE tr.truth[n]]
          /\ r = IF tr.nr = BadNr THEN tr.returned ELSE tr.returned + 1
      OBVIOUS
    <2> HIDE DEF f, r
    <2> QED BY <2>1, <2>2, <2>3, <2>4
  <1>5. CASE TraceeSignal
    <2>1. /\ IsRec(tr', TracerFields) /\ tr'.pc = tr.pc /\ tr'.child = "stopped"
          /\ tr'.at = "signal" /\ Same
      BY <1>1, <1>5 DEF IsRec, TracerFields, StopAt, TraceeSignal
    <2>2. tr.child = "runs" /\ tr.pc = "wait" /\ ~tr.in /\ tr.nr = BadNr
      BY <1>1, <1>5 DEF TraceeSignal, Runs, TracerFlow, InCall
    <2> QED BY <1>1, <2>1, <2>2
            DEF TracerGood, TracerTypes, TracerFlow, TracerCounts, Uncounted, InCall
  <1>6. CASE TraceeExit
    <2>1. CASE Runs /\ tr.at = "entry" /\ tr.nr # BadNr /\ tr' = StopAt(tr, "dying")
      <3>1. /\ IsRec(tr', TracerFields) /\ tr'.pc = tr.pc /\ tr'.child = "stopped"
            /\ tr'.at = "dying" /\ Same
        BY <1>1, <2>1 DEF IsRec, TracerFields, StopAt
      <3> QED BY <1>1, <2>1, <3>1
              DEF Runs, TracerGood, TracerTypes, TracerFlow, TracerCounts, Uncounted, InCall
    <2>2. CASE (Runs \/ Stopped) /\ tr' = [tr EXCEPT !.child = "zombie"]
      <3>1. /\ IsRec(tr', TracerFields) /\ tr'.pc = tr.pc /\ tr'.child = "zombie"
            /\ tr'.at = tr.at /\ Same
        BY <1>1, <2>2 DEF IsRec, TracerFields
      <3> QED BY <1>1, <2>2, <3>1
              DEF TracerGood, TracerTypes, TracerFlow, TracerCounts, Uncounted
    <2> QED BY <1>6, <2>1, <2>2 DEF TraceeExit
  <1>7. CASE TracerFirst
    <2>1. /\ IsRec(tr', TracerFields) /\ tr'.pc = "resume" /\ tr'.at = tr.at /\ Same
          /\ tr'.child = (IF tr.child = "zombie" THEN "reaped" ELSE tr.child)
      BY <1>1, <1>7 DEF IsRec, TracerFields, TracerFirst, Gone
    <2> QED BY <1>1, <1>7, <2>1
            DEF TracerFirst, TracerGood, TracerTypes, TracerFlow, TracerCounts, Uncounted, InCall
  <1>8. CASE TracerResume
    <2>1. /\ IsRec(tr', TracerFields) /\ tr'.at = tr.at /\ Same
          /\ \/ Stopped /\ tr'.pc = "wait" /\ tr'.child = "runs"
             \/ ~Stopped /\ tr'.pc = "done" /\ tr'.child = tr.child
      BY <1>1, <1>8 DEF IsRec, TracerFields, TracerResume
    <2> QED BY <1>1, <1>8, <2>1
            DEF TracerResume, Stopped, TracerGood, TracerTypes, TracerFlow, TracerCounts,
                Uncounted, InCall
  <1>9. CASE TracerWait
    <2>1. CASE tr.child = "zombie" /\ tr' = [Gone(tr) EXCEPT !.pc = "done"]
      <3>1. /\ IsRec(tr', TracerFields) /\ tr'.pc = "done" /\ tr'.child = "reaped"
            /\ tr'.at = tr.at /\ Same
        BY <1>1, <2>1 DEF IsRec, TracerFields, Gone
      <3> QED BY <1>1, <2>1, <3>1
              DEF TracerGood, TracerTypes, TracerFlow, TracerCounts, Uncounted
    <2>2. CASE Stopped /\ ~SyscallStop(tr.at) /\ tr' = [tr EXCEPT !.pc = "resume"]
      <3>1. /\ IsRec(tr', TracerFields) /\ tr'.pc = "resume" /\ tr'.child = tr.child
            /\ tr'.at = tr.at /\ Same
        BY <1>1, <2>2 DEF IsRec, TracerFields
      <3> QED BY <1>1, <1>9, <2>2, <3>1
              DEF TracerWait, Stopped, SyscallStop, TracerGood, TracerTypes, TracerFlow,
                  TracerCounts, Uncounted, InCall
    <2>3. CASE /\ Stopped /\ SyscallStop(tr.at) /\ ~tr.in
               /\ tr' = [tr EXCEPT !.pc = "resume", !.in = tr.nr # BadNr, !.cur = tr.nr,
                           !.total = IF tr.nr = BadNr THEN @ ELSE @ + 1]
      <3> DEFINE total == IF tr.nr = BadNr THEN tr.total ELSE tr.total + 1
                 in == tr.nr # BadNr
      <3>1. tr' = [tr EXCEPT !.pc = "resume", !.in = in, !.cur = tr.nr, !.total = total]
        BY <2>3
      <3>2. total = (IF in THEN tr.total + 1 ELSE tr.total) /\ in \in BOOLEAN
            /\ (in <=> tr.nr # BadNr)
        OBVIOUS
      <3> HIDE DEF total, in
      <3>3. /\ IsRec(tr', TracerFields) /\ tr'.pc = "resume" /\ tr'.child = tr.child
            /\ tr'.at = tr.at /\ tr'.nr = tr.nr /\ tr'.in = in /\ tr'.cur = tr.nr
            /\ tr'.total = total /\ tr'.stats = tr.stats /\ tr'.truth = tr.truth
            /\ tr'.returned = tr.returned
        BY <1>1, <3>1 DEF IsRec, TracerFields
      <3>4. /\ tr.child = "stopped" /\ tr.pc = "wait" /\ tr.at \in {"entry", "exit"} /\ ~tr.in
            /\ tr.at = "exit" => tr.nr = BadNr
        BY <1>1, <1>9, <2>3 DEF TracerWait, Stopped, SyscallStop, TracerFlow
      <3>5. TracerTypes(tr')
        BY <1>1, <3>2, <3>3 DEF TracerTypes
      <3>6. TracerFlow(tr')
        BY <1>1, <3>2, <3>3, <3>4 DEF TracerFlow, InCall, TracerTypes
      <3>7. TracerCounts(tr')
        BY <1>1, <3>2, <3>3, <3>4 DEF TracerCounts, Uncounted, TracerTypes
      <3> QED BY <3>5, <3>6, <3>7 DEF TracerGood
    <2>4. CASE /\ Stopped /\ SyscallStop(tr.at) /\ tr.in
               /\ tr' = [Record(tr) EXCEPT !.pc = "resume", !.in = FALSE]
      <3>1. /\ tr.child = "stopped" /\ tr.pc = "wait" /\ tr.at = "exit" /\ tr.nr = BadNr
        BY <1>1, <1>9, <2>4 DEF TracerWait, Stopped, SyscallStop, TracerFlow
      <3> DEFINE m == Record(tr)
      <3>2. m = Record(tr)
        OBVIOUS
      <3> HIDE DEF m
      <3>3. /\ IsRec(m, TracerFields) /\ m.pc = tr.pc /\ m.child = tr.child /\ m.at = tr.at
            /\ m.nr = tr.nr /\ m.cur = tr.cur /\ m.total = tr.total /\ m.truth = tr.truth
            /\ m.returned = tr.returned /\ m.stats \in [DOMAIN m.stats -> Nat]
            /\ DOMAIN m.stats \subseteq Sysno /\ IsFiniteSet(DOMAIN m.stats)
            /\ \A n \in DOMAIN m.stats : m.truth[n] = m.stats[n]
            /\ \A n \in Sysno \ DOMAIN m.stats :
                 m.truth[n] = 0 \/ Cardinality(DOMAIN m.stats) = MaxStats
        BY <2>4, <3>1, <3>2, RecordCounts
      <3>4. tr' = [m EXCEPT !.pc = "resume", !.in = FALSE]
        BY <2>4, <3>2
      <3>5. /\ IsRec(tr', TracerFields) /\ tr'.pc = "resume" /\ tr'.child = tr.child
            /\ tr'.at = tr.at /\ tr'.nr = tr.nr /\ tr'.in = FALSE /\ tr'.cur = tr.cur
            /\ tr'.total = tr.total /\ tr'.stats = m.stats /\ tr'.truth = tr.truth
            /\ tr'.returned = tr.returned
        BY <3>3, <3>4 DEF IsRec, TracerFields
      <3>6. TracerTypes(tr')
        BY <1>1, <3>3, <3>5 DEF TracerTypes
      <3>7. TracerFlow(tr')
        BY <1>1, <3>1, <3>5 DEF TracerFlow, InCall
      <3>8. \A n \in Sysno : Uncounted(tr', n) = 0
        BY <3>5 DEF Uncounted
      <3>9. tr.total = tr.returned /\ tr.returned \in Nat
        BY <1>1, <2>4, <3>1 DEF TracerCounts, TracerTypes
      <3>10. \A n \in DOMAIN m.stats : m.stats[n] \in Nat
        BY <3>3
      <3>11. TracerCounts(tr')
        BY <3>3, <3>5, <3>8, <3>9, <3>10 DEF TracerCounts
      <3> QED BY <3>6, <3>7, <3>11 DEF TracerGood
    <2> QED BY <1>9, <2>1, <2>2, <2>3, <2>4, Zenon DEF TracerWait
  <1> QED BY <1>2, <1>3, <1>4, <1>5, <1>6, <1>7, <1>8, <1>9 DEF Tracee, TracerStep

LEMMA TracerPromises ==
  ASSUME TracerInv
  PROVE  TracerPairs /\ TracerTally
  <1>1. TracerPairs
    BY DEF TracerInv, TracerOff, TracerGood, TracerFlow, InCall, TracerPairs
  <1>2. TracerTally
    <2> SUFFICES ASSUME tr.pc \in {"resume", "done"}
                 PROVE  /\ \A n \in DOMAIN tr.stats : tr.stats[n] <= tr.truth[n]
                        /\ tr.pc = "resume" /\ tr.child = "stopped" =>
                             /\ \A n \in DOMAIN tr.stats : tr.stats[n] = tr.truth[n]
                             /\ tr.total = tr.returned + (IF tr.in THEN 1 ELSE 0)
      BY DEF TracerTally
    <2>1. TracerTypes(tr) /\ TracerFlow(tr) /\ TracerCounts(tr)
      BY DEF TracerInv, TracerOff, TracerGood
    <2>2. tr.pc = "resume" /\ tr.child = "stopped" => ~(tr.in /\ tr.at = "exit")
      BY <2>1 DEF TracerFlow, InCall
    <2> QED BY <2>1, <2>2 DEF TracerCounts, TracerTypes, Uncounted
  <1> QED BY <1>1, <1>2

-----------------------------------------------------------------------------
(* The process table.                                                      *)

LtopFields == {"pc", "alive", "table", "sel", "scroll", "byPid", "reverse", "filter",
               "signalled", "paged"}

\* The selection is not negative, and before a key it is a line of the table
\* that is on the screen, unless PgDn was pressed in an empty table.
LtopGood(l) ==
  /\ IsRec(l, LtopFields)
  /\ l.pc \in {"collect", "key", "exit"} /\ l.alive \subseteq TopPid
  /\ l.sel \in Int /\ l.scroll \in Int /\ l.paged \in BOOLEAN
  /\ Len(l.table) \in Nat /\ DOMAIN l.table = 1 .. Len(l.table)
  /\ ~l.paged => /\ l.sel >= 0 /\ l.signalled # "outside"
                 /\ l.pc = "key" /\ Len(l.table) > 0 =>
                      /\ l.sel < Len(l.table)
                      /\ l.scroll <= l.sel /\ l.sel < l.scroll + VisibleRows

LtopInv == ltop = LtopOff \/ LtopGood(ltop)

\* A key that leaves the table as it is and moves the selection to a line that
\* is not negative, or was pressed in an empty table.
LEMMA KeyMoves ==
  ASSUME NEW l, NEW m, LtopGood(l), IsRec(m, LtopFields), m.pc \in {"collect", "exit"},
         m.alive = l.alive, m.table = l.table, m.scroll = l.scroll, m.sel \in Int,
         m.signalled \in {l.signalled, "shown"}, m.paged \in BOOLEAN,
         l.paged => m.paged, ~m.paged => m.sel >= 0
  PROVE  LtopGood(m)
  BY DEF LtopGood

LEMMA LtopKeeps ==
  ASSUME LtopGood(ltop), LtopNext
  PROVE  LtopGood(ltop')
  <1>1. /\ IsRec(ltop, LtopFields) /\ ltop.sel \in Int /\ ltop.scroll \in Int
        /\ ltop.paged \in BOOLEAN /\ Len(ltop.table) \in Nat
        /\ DOMAIN ltop.table = 1 .. Len(ltop.table) /\ ltop.alive \subseteq TopPid
        /\ (~ltop.paged => ltop.sel >= 0 /\ ltop.signalled # "outside")
        /\ PageRows \in Nat /\ VisibleRows \in Nat \ {0} /\ IsFiniteSet(TopPid)
    BY LtopAssumption DEF LtopGood
  <1>2. CASE ltop.pc \in {"collect", "key"} /\ LtopProcs
    <2>1. PICK s \in SUBSET TopPid : ltop' = [ltop EXCEPT !.alive = s]
      BY <1>2 DEF LtopProcs
    <2>2. /\ IsRec(ltop', LtopFields) /\ ltop'.pc = ltop.pc /\ ltop'.alive = s
          /\ ltop'.table = ltop.table /\ ltop'.sel = ltop.sel /\ ltop'.scroll = ltop.scroll
          /\ ltop'.signalled = ltop.signalled /\ ltop'.paged = ltop.paged
      BY <1>1, <2>1 DEF IsRec, LtopFields
    <2> QED BY <2>2 DEF LtopGood
  <1>3. CASE LtopCollect
    <2> DEFINE procs == IF ltop.filter THEN ltop.alive \cap TopMatching ELSE ltop.alive
               n == Cardinality(procs)
               table == Sorted(ltop, procs)
               sel == Clamped(ltop.sel, Len(table))
               scroll == Scrolled(sel, ltop.scroll)
    <2>1. ltop' = [ltop EXCEPT !.pc = "key", !.table = table, !.sel = sel,
                               !.scroll = scroll, !.signalled = "none"]
      BY <1>3 DEF LtopCollect
    <2>2. n \in Nat
      <3>1. procs \subseteq TopPid
        BY <1>1
      <3> HIDE DEF procs
      <3> QED BY <1>1, <3>1, FS_Subset, FS_CardinalityType
    <2>3. Len(table) = n /\ DOMAIN table = 1 .. n
      <3> HIDE DEF procs
      <3> QED BY <2>2 DEF Sorted
    <2> HIDE DEF table, n
    <2>4. /\ sel \in Int
          /\ ~ltop.paged => sel >= 0 /\ (n > 0 => sel < n)
      BY <1>1, <2>2, <2>3 DEF Clamped
    <2> HIDE DEF sel
    <2>5. scroll \in Int /\ scroll <= sel /\ sel < scroll + VisibleRows
      BY <1>1, <2>4 DEF Scrolled
    <2> HIDE DEF scroll
    <2>6. /\ IsRec(ltop', LtopFields) /\ ltop'.pc = "key" /\ ltop'.alive = ltop.alive
          /\ ltop'.table = table /\ ltop'.sel = sel /\ ltop'.scroll = scroll
          /\ ltop'.signalled = "none" /\ ltop'.paged = ltop.paged
      BY <1>1, <2>1 DEF IsRec, LtopFields
    <2> QED BY <1>1, <2>2, <2>3, <2>4, <2>5, <2>6 DEF LtopGood
  <1>4. CASE LtopSignal
    <2>1. \/ ltop.paged
          \/ ltop.sel + 1 \in DOMAIN ltop.table
      BY <1>1, <1>4 DEF LtopSignal
    <2> DEFINE what == IF ltop.sel + 1 \in DOMAIN ltop.table THEN "shown" ELSE "outside"
    <2>2. /\ IsRec(ltop', LtopFields) /\ ltop'.pc = "collect" /\ ltop'.alive = ltop.alive
          /\ ltop'.table = ltop.table /\ ltop'.sel = ltop.sel /\ ltop'.scroll = ltop.scroll
          /\ ltop'.signalled = what /\ ltop'.paged = ltop.paged
      BY <1>1, <1>4 DEF IsRec, LtopFields, LtopSignal, Refresh
    <2> QED BY <1>1, <2>1, <2>2 DEF LtopGood
  <1>5. CASE LtopQuit
    <2>1. /\ IsRec(ltop', LtopFields) /\ ltop'.pc \in {"collect", "exit"}
          /\ ltop'.alive = ltop.alive /\ ltop'.table = ltop.table /\ ltop'.sel = ltop.sel
          /\ ltop'.scroll = ltop.scroll /\ ltop'.signalled = ltop.signalled
          /\ ltop'.paged = ltop.paged
      BY <1>1, <1>5 DEF IsRec, LtopFields, LtopQuit, Refresh
    <2> QED BY <1>1, <2>1, KeyMoves
  <1>6. CASE LtopFilter
    <2>1. PICK f \in BOOLEAN : ltop' = [Refresh(ltop) EXCEPT !.filter = f, !.sel = 0]
      BY <1>6 DEF LtopFilter
    <2>2. /\ IsRec(ltop', LtopFields) /\ ltop'.pc = "collect"
          /\ ltop'.alive = ltop.alive /\ ltop'.table = ltop.table /\ ltop'.sel = 0
          /\ ltop'.scroll = ltop.scroll /\ ltop'.signalled = ltop.signalled
          /\ ltop'.paged = ltop.paged
      BY <1>1, <2>1 DEF IsRec, LtopFields, Refresh
    <2> QED BY <1>1, <2>2, KeyMoves
  <1>7. CASE LtopSort
    <2>1. /\ IsRec(ltop', LtopFields) /\ ltop'.pc = "collect"
          /\ ltop'.alive = ltop.alive /\ ltop'.table = ltop.table
          /\ ltop'.sel \in {0, ltop.sel}
          /\ ltop'.scroll = ltop.scroll /\ ltop'.signalled = ltop.signalled
          /\ ltop'.paged = ltop.paged
      BY <1>1, <1>7 DEF IsRec, LtopFields, Refresh, LtopSort
    <2> QED BY <1>1, <2>1, KeyMoves
  <1>8. CASE LtopMove
    <2> DEFINE n == Len(ltop.table)
    <2>1. ASSUME NEW sel \in Int, NEW paged \in BOOLEAN,
                 ltop' = [Refresh(ltop) EXCEPT !.sel = sel, !.paged = paged],
                 ltop.paged => paged, ~paged => sel >= 0
          PROVE  LtopGood(ltop')
      <3>1. /\ IsRec(ltop', LtopFields) /\ ltop'.pc = "collect"
            /\ ltop'.alive = ltop.alive /\ ltop'.table = ltop.table /\ ltop'.sel = sel
            /\ ltop'.scroll = ltop.scroll /\ ltop'.signalled = ltop.signalled
            /\ ltop'.paged = paged
        BY <1>1, <2>1 DEF IsRec, LtopFields, Refresh
      <3>2. /\ ltop'.sel \in Int /\ ltop'.paged \in BOOLEAN
            /\ (ltop.paged => ltop'.paged) /\ (~ltop'.paged => ltop'.sel >= 0)
        BY <2>1, <3>1
      <3> QED BY <1>1, <3>1, <3>2, KeyMoves
    <2>2. Refresh(ltop).sel = ltop.sel /\ Refresh(ltop).paged = ltop.paged
      BY <1>1 DEF IsRec, LtopFields, Refresh
    <2>3. ASSUME NEW sel \in Int, ltop' = [Refresh(ltop) EXCEPT !.sel = sel],
                 ~ltop.paged => sel >= 0
          PROVE  LtopGood(ltop')
      <3>1. /\ IsRec(ltop', LtopFields) /\ ltop'.pc = "collect"
            /\ ltop'.alive = ltop.alive /\ ltop'.table = ltop.table /\ ltop'.sel = sel
            /\ ltop'.scroll = ltop.scroll /\ ltop'.signalled = ltop.signalled
            /\ ltop'.paged = ltop.paged
        BY <1>1, <2>3 DEF IsRec, LtopFields, Refresh
      <3> QED BY <1>1, <2>3, <3>1, KeyMoves
    <2>4. CASE ltop.sel > 0 /\ ltop' = [Refresh(ltop) EXCEPT !.sel = @ - 1]
      <3> DEFINE sel == ltop.sel - 1
      <3>1. sel \in Int /\ (~ltop.paged => sel >= 0)
        BY <1>1, <2>4
      <3>2. ltop' = [Refresh(ltop) EXCEPT !.sel = sel]
        BY <2>2, <2>4
      <3> HIDE DEF sel
      <3> QED BY <2>3, <3>1, <3>2
    <2>5. CASE ltop.sel + 1 < n /\ ltop' = [Refresh(ltop) EXCEPT !.sel = @ + 1]
      <3> DEFINE sel == ltop.sel + 1
      <3>1. sel \in Int /\ (~ltop.paged => sel >= 0)
        BY <1>1, <2>5
      <3>2. ltop' = [Refresh(ltop) EXCEPT !.sel = sel]
        BY <2>2, <2>5
      <3> HIDE DEF sel
      <3> QED BY <2>3, <3>1, <3>2
    <2>6. CASE ltop' = [Refresh(ltop) EXCEPT !.sel = IF @ > PageRows THEN @ - PageRows ELSE 0]
      <3> DEFINE sel == IF ltop.sel > PageRows THEN ltop.sel - PageRows ELSE 0
      <3>1. sel \in Int /\ (~ltop.paged => sel >= 0)
        BY <1>1
      <3>2. ltop' = [Refresh(ltop) EXCEPT !.sel = sel]
        BY <2>2, <2>6
      <3> HIDE DEF sel
      <3> QED BY <2>3, <3>1, <3>2
    <2>7. CASE ltop' = [Refresh(ltop) EXCEPT
                          !.sel = IF @ + PageRows < n THEN @ + PageRows ELSE n - 1,
                          !.paged = @ \/ n = 0]
      <3> DEFINE sel == IF ltop.sel + PageRows < n THEN ltop.sel + PageRows ELSE n - 1
                 paged == ltop.paged \/ n = 0
      <3>1. /\ sel \in Int /\ paged \in BOOLEAN /\ (ltop.paged => paged)
            /\ (~paged => sel >= 0)
        BY <1>1
      <3>2. ltop' = [Refresh(ltop) EXCEPT !.sel = sel, !.paged = paged]
        BY <2>2, <2>7
      <3> HIDE DEF sel, paged
      <3> QED BY <2>1, <3>1, <3>2
    <2> QED BY <1>8, <2>4, <2>5, <2>6, <2>7 DEF LtopMove
  <1> QED BY <1>2, <1>3, <1>4, <1>5, <1>6, <1>7, <1>8 DEF LtopNext

LEMMA LtopPromises ==
  ASSUME LtopInv
  PROVE  LtopSelects
  BY LtopAssumption DEF LtopInv, LtopOff, LtopGood, LtopSelects

-----------------------------------------------------------------------------
(* The line editor.                                                        *)

EdSym == EdChar \cup {"a", "!"}

\* Lines that fit the buffer with their final zero.
FitLine == {s \in Seq(EdSym) : Len(s) < MaxLine}

\* The newest MaxHistory of the commands.
Kept(n) == IF n < MaxHistory THEN n ELSE MaxHistory
Newest(all) == SubSeq(all, Len(all) - Kept(Len(all)) + 1, Len(all))

EdFields == {"pc", "buf", "pos", "hist", "idx", "backup", "file", "all"}

\* The line, the line put aside and every command of the history fit the
\* buffer: Up copies a command into it and Down the line put aside.
EdGood(e) ==
  /\ IsRec(e, EdFields) /\ e.pc = "read"
  /\ e.buf \in FitLine /\ e.backup \in FitLine
  /\ e.pos \in 0 .. Len(e.buf) /\ e.idx \in 0 .. Len(e.hist)
  /\ e.hist \in Seq(FitLine) /\ e.file \in Seq(FitLine) /\ e.all \in Seq(FitLine)
  /\ e.hist = Newest(e.all)

EdInv == ed = EdOff \/ EdGood(ed)

LEMMA NewestIs ==
  ASSUME NEW S, NEW s \in Seq(S)
  PROVE  /\ Kept(Len(s)) \in Nat /\ Kept(Len(s)) <= Len(s) /\ Kept(Len(s)) <= MaxHistory
         /\ Newest(s) \in Seq(S) /\ Len(Newest(s)) = Kept(Len(s))
         /\ \A i \in 1 .. Kept(Len(s)) : Newest(s)[i] = s[Len(s) - Kept(Len(s)) + i]
  <1> DEFINE n == Len(s)
             k == Kept(n)
  <1>1. n \in Nat /\ k \in Nat /\ k <= n /\ k <= MaxHistory
    BY LenProperties, EdAssumption DEF Kept
  <1>2. \A i \in n - k + 1 .. n : s[i] \in S
    BY <1>1, LenProperties
  <1> HIDE DEF k
  <1>3. /\ Newest(s) \in Seq(S)
        /\ Len(Newest(s)) = IF n - k + 1 <= n THEN n - (n - k + 1) + 1 ELSE 0
        /\ \A i \in 1 .. n - (n - k + 1) + 1 : Newest(s)[i] = s[n - k + 1 + i - 1]
    <2>1. n - k + 1 \in Int /\ n \in Int
      BY <1>1
    <2>2. Newest(s) = SubSeq(s, n - k + 1, n)
      BY DEF Newest, k
    <2> QED BY ONLY <1>2, <2>1, <2>2, SubSeqProperties
  <1>4. Len(Newest(s)) = k /\ \A i \in 1 .. k : Newest(s)[i] = s[n - k + i]
    <2>1. \A i \in 1 .. k : i \in 1 .. n - (n - k + 1) + 1 /\ n - k + 1 + i - 1 = n - k + i
      BY <1>1
    <2>2. Len(Newest(s)) = k
      BY <1>1, <1>3
    <2> QED BY <1>3, <2>1, <2>2
  <1> QED BY <1>1, <1>3, <1>4 DEF k

\* A command that add_history appends: the newest move up by one.
LEMMA NewestGrows ==
  ASSUME NEW S, NEW s \in Seq(S), NEW c \in S
  PROVE  Newest(Append(s, c)) = IF Len(Newest(s)) < MaxHistory
                                THEN Append(Newest(s), c)
                                ELSE Append(Tail(Newest(s)), c)
  <1> DEFINE n == Len(s)
             k == Kept(n)
             h == Newest(s)
             t == Append(s, c)
             m == Kept(n + 1)
             g == IF k < MaxHistory THEN h ELSE Tail(h)
  <1>1. /\ n \in Nat /\ k \in Nat /\ k <= n /\ h \in Seq(S) /\ Len(h) = k
        /\ \A i \in 1 .. k : h[i] = s[n - k + i]
    BY NewestIs, LenProperties
  <1>2. /\ t \in Seq(S) /\ Len(t) = n + 1 /\ t[n + 1] = c
        /\ \A i \in 1 .. n : t[i] = s[i]
    BY AppendProperties
  <1>3. /\ m \in Nat /\ Newest(t) \in Seq(S) /\ Len(Newest(t)) = m
        /\ \A i \in 1 .. m : Newest(t)[i] = t[n + 1 - m + i]
    <2> HIDE DEF t
    <2>1. /\ Kept(Len(t)) \in Nat
          /\ Newest(t) \in Seq(S) /\ Len(Newest(t)) = Kept(Len(t))
          /\ \A i \in 1 .. Kept(Len(t)) : Newest(t)[i] = t[Len(t) - Kept(Len(t)) + i]
      BY <1>2, NewestIs
    <2> QED BY <1>2, <2>1
  <1>4. /\ k < MaxHistory => k = n /\ m = n + 1
        /\ ~(k < MaxHistory) => k = MaxHistory /\ m = MaxHistory
        /\ MaxHistory \in Nat \ {0}
    BY <1>1, EdAssumption DEF Kept
  <1>5. g \in Seq(S) /\ Len(g) = m - 1 /\ \A i \in 1 .. m - 1 : g[i] = s[n + 1 - m + i]
    <2>1. CASE k < MaxHistory
      BY <1>1, <1>4, <2>1
    <2>2. CASE ~(k < MaxHistory)
      <3>1. h # <<>>
        BY <1>1, <1>4, <2>2, EmptySeq
      <3>2. /\ Tail(h) \in Seq(S) /\ Len(Tail(h)) = k - 1
            /\ \A i \in 1 .. Len(Tail(h)) : Tail(h)[i] = h[i + 1]
        BY <1>1, <3>1, HeadTailProperties
      <3>3. \A i \in 1 .. k - 1 : i + 1 \in 1 .. k /\ n - k + (i + 1) = n + 1 - k + i
        BY <1>1
      <3> QED BY <1>1, <1>4, <2>2, <3>2, <3>3
    <2> QED BY <2>1, <2>2
  <1> HIDE DEF g, h, k, m, n, t
  <1>6. /\ Append(g, c) \in Seq(S) /\ Len(Append(g, c)) = m
        /\ \A i \in 1 .. m - 1 : Append(g, c)[i] = g[i]
        /\ Append(g, c)[m] = c
    BY <1>3, <1>5, AppendProperties
  <1>7. ASSUME NEW i \in 1 .. m
        PROVE  Newest(t)[i] = Append(g, c)[i]
    <2>1. CASE i = m
      BY <1>1, <1>2, <1>3, <1>6, <2>1
    <2>2. CASE i # m
      <3>1. i \in 1 .. m - 1 /\ n + 1 - m + i \in 1 .. n
        BY <1>1, <1>3, <1>4, <2>2
      <3> QED BY <1>2, <1>3, <1>5, <1>6, <3>1
    <2> QED BY <2>1, <2>2
  <1>8. Newest(t) = Append(g, c)
    BY <1>3, <1>6, <1>7, SeqEqual
  <1> QED BY <1>1, <1>8 DEF g, h, t

LEMMA LineJoins ==
  ASSUME NEW a \in Seq(EdSym), NEW b \in Seq(EdSym)
  PROVE  a \o b \in Seq(EdSym) /\ Len(a \o b) = Len(a) + Len(b)
  BY ConcatProperties

\* The two parts of the line, before and after a place in it.
LEMMA LineParts ==
  ASSUME NEW s \in Seq(EdSym), NEW p \in 0 .. Len(s)
  PROVE  /\ SubSeq(s, 1, p) \in Seq(EdSym) /\ Len(SubSeq(s, 1, p)) = p
         /\ SubSeq(s, p + 1, Len(s)) \in Seq(EdSym)
         /\ Len(SubSeq(s, p + 1, Len(s))) = Len(s) - p
  <1>1. Len(s) \in Nat /\ \A i \in 1 .. Len(s) : s[i] \in EdSym
    BY LenProperties
  <1>2. (\A i \in 1 .. p : s[i] \in EdSym) /\ (\A i \in p + 1 .. Len(s) : s[i] \in EdSym)
    BY <1>1
  <1>3. SubSeq(s, 1, p) \in Seq(EdSym) /\ Len(SubSeq(s, 1, p)) = p
    BY <1>1, <1>2, SubSeqProperties
  <1>4. /\ SubSeq(s, p + 1, Len(s)) \in Seq(EdSym)
        /\ Len(SubSeq(s, p + 1, Len(s))) = Len(s) - p
    <2> DEFINE m == p + 1
    <2>1. m \in Int /\ Len(s) \in Int /\ \A i \in m .. Len(s) : s[i] \in EdSym
      BY <1>1, <1>2
    <2>2. (IF m <= Len(s) THEN Len(s) - m + 1 ELSE 0) = Len(s) - p
      BY <1>1
    <2> HIDE DEF m
    <2>3. /\ SubSeq(s, m, Len(s)) \in Seq(EdSym)
          /\ Len(SubSeq(s, m, Len(s))) = (IF m <= Len(s) THEN Len(s) - m + 1 ELSE 0)
      BY <2>1, SubSeqProperties
    <2> QED BY <2>2, <2>3 DEF m
  <1> QED BY <1>3, <1>4

\* A key that changes the line only, or moves the cursor in it.
LEMMA LineKey ==
  ASSUME NEW e, EdGood(e), NEW line \in FitLine, NEW pos \in 0 .. Len(line)
  PROVE  EdGood(Put(e, line, pos))
  <1> DEFINE f == Put(e, line, pos)
  <1>1. /\ IsRec(f, EdFields) /\ f.pc = e.pc /\ f.buf = line /\ f.pos = pos
        /\ f.hist = e.hist /\ f.idx = e.idx /\ f.backup = e.backup
        /\ f.file = e.file /\ f.all = e.all
    BY DEF EdGood, IsRec, EdFields, Put
  <1> HIDE DEF f
  <1>2. EdGood(f)
    BY <1>1 DEF EdGood
  <1> QED BY <1>2 DEF f

\* A key that moves in the history: the line is one that fits.
LEMMA HistoryKey ==
  ASSUME NEW e, EdGood(e), NEW line \in FitLine, NEW idx \in 0 .. Len(e.hist),
         NEW backup \in FitLine,
         NEW f, f = [Put(e, line, Len(line)) EXCEPT !.idx = idx, !.backup = backup]
  PROVE  EdGood(f)
  <1>1. /\ IsRec(f, EdFields) /\ f.pc = e.pc /\ f.buf = line /\ f.pos = Len(line)
        /\ f.hist = e.hist /\ f.idx = idx /\ f.backup = backup
        /\ f.file = e.file /\ f.all = e.all
    BY DEF EdGood, IsRec, EdFields, Put
  <1>2. Len(line) \in 0 .. Len(line)
    BY LenProperties DEF FitLine
  <1> QED BY <1>1, <1>2 DEF EdGood

LEMMA EmptyFits == <<>> \in FitLine /\ Len(<<>>) = 0
  BY EdAssumption, EmptySeq DEF FitLine

\* A fresh line after the history has changed, or not.
LEMMA LineFresh ==
  ASSUME NEW e, NEW h \in Seq(FitLine), NEW file \in Seq(FitLine), NEW all \in Seq(FitLine),
         h = Newest(all), IsRec(e, EdFields), e.pc = "read",
         e.hist = h, e.file = file, e.all = all
  PROVE  EdGood(FreshLine(e))
  <1> DEFINE f == FreshLine(e)
  <1>1. /\ IsRec(f, EdFields) /\ f.pc = "read" /\ f.buf = <<>> /\ f.pos = 0
        /\ f.hist = h /\ f.idx = Len(h) /\ f.backup = <<>>
        /\ f.file = file /\ f.all = all
    BY DEF IsRec, EdFields, FreshLine
  <1>2. Len(h) \in 0 .. Len(h) /\ 0 \in 0 .. Len(<<>>)
    BY LenProperties, EmptyFits
  <1> HIDE DEF f
  <1>3. EdGood(f)
    BY <1>1, <1>2, EmptyFits DEF EdGood
  <1> QED BY <1>3 DEF f

\* add_history.
LEMMA LineAdded ==
  ASSUME NEW e, EdGood(e), NEW cmd \in FitLine
  PROVE  EdGood(FreshLine(Added(e, cmd)))
  <1>1. /\ IsRec(e, EdFields) /\ e.pc = "read" /\ e.hist \in Seq(FitLine)
        /\ e.file \in Seq(FitLine) /\ e.all \in Seq(FitLine) /\ e.hist = Newest(e.all)
    BY DEF EdGood
  <1>2. CASE e.hist # <<>> /\ e.hist[Len(e.hist)] = cmd
    <2>1. Added(e, cmd) = e
      BY <1>2 DEF Added
    <2> QED BY <1>1, <2>1, LineFresh
  <1>3. CASE ~(e.hist # <<>> /\ e.hist[Len(e.hist)] = cmd)
    <2> DEFINE f == Added(e, cmd)
               h == IF Len(e.hist) < MaxHistory THEN Append(e.hist, cmd)
                    ELSE Append(Tail(e.hist), cmd)
               file == Append(e.file, cmd)
               all == Append(e.all, cmd)
    <2>1. f = [e EXCEPT !.hist = h, !.file = file, !.all = all]
      BY <1>3 DEF Added
    <2>2. h = Newest(all)
      BY <1>1, NewestGrows
    <2>3. file \in Seq(FitLine) /\ all \in Seq(FitLine)
      BY <1>1, AppendProperties
    <2> HIDE DEF h, file, all, f
    <2>4. h \in Seq(FitLine)
      BY <2>2, <2>3, NewestIs
    <2>5. /\ IsRec(f, EdFields) /\ f.pc = "read" /\ f.hist = h /\ f.file = file /\ f.all = all
      BY <1>1, <2>1 DEF IsRec, EdFields
    <2>6. EdGood(FreshLine(f))
      BY <2>2, <2>3, <2>4, <2>5, LineFresh
    <2> QED BY <2>6 DEF f
  <1> QED BY <1>2, <1>3

\* load_history_from_file.
LEMMA LineLoaded ==
  ASSUME NEW file \in Seq(FitLine)
  PROVE  Loaded(file) \in Seq(FitLine) /\ Loaded(file) = Newest(Loaded(file))
  <1> DEFINE n == Kept(Len(file))
             l == Loaded(file)
  <1>1. n \in Nat /\ n <= MaxHistory /\ n <= Len(file) /\ Len(file) \in Nat
    BY NewestIs, LenProperties
  <1>2. l = SubSeq(file, 1, n)
    BY DEF Loaded, Kept
  <1> HIDE DEF n, l
  <1>3. \A i \in 1 .. n : file[i] \in FitLine
    BY <1>1, LenProperties
  <1>4. l \in Seq(FitLine) /\ Len(l) = n
    BY <1>1, <1>2, <1>3, SubSeqProperties
  <1>5. Kept(Len(l)) = Len(l) /\ Len(l) - Kept(Len(l)) + 1 = 1
    BY <1>1, <1>4, EdAssumption DEF Kept
  <1>6. Newest(l) = SubSeq(l, 1, Len(l))
    BY <1>5 DEF Newest
  <1>7. Newest(l) = l
    BY <1>4, <1>6, SubSeqFull
  <1> QED BY <1>4, <1>7 DEF l

\* Every key keeps it.
LEMMA EdKeeps ==
  ASSUME EdGood(ed), EdKey
  PROVE  EdGood(ed')
  <1>1. /\ IsRec(ed, EdFields) /\ ed.pc = "read" /\ ed.buf \in Seq(EdSym)
        /\ Len(ed.buf) \in Nat /\ Len(ed.buf) < MaxLine
        /\ ed.buf \in FitLine /\ ed.backup \in FitLine
        /\ ed.pos \in 0 .. Len(ed.buf) /\ ed.idx \in 0 .. Len(ed.hist)
        /\ ed.hist \in Seq(FitLine) /\ ed.file \in Seq(FitLine) /\ ed.all \in Seq(FitLine)
        /\ ed.hist = Newest(ed.all) /\ Len(ed.hist) \in Nat /\ MaxLine \in Nat
    <2>1. EdGood(ed) /\ MaxLine \in Nat
      BY EdAssumption
    <2>2. ed.buf \in Seq(EdSym) /\ Len(ed.buf) < MaxLine
      BY <2>1 DEF EdGood, FitLine
    <2>3. Len(ed.buf) \in Nat /\ Len(ed.hist) \in Nat
      BY <2>1, <2>2, LenProperties DEF EdGood
    <2> QED BY <2>1, <2>2, <2>3 DEF EdGood
  <1>2. /\ Before(ed) \in Seq(EdSym) /\ Len(Before(ed)) = ed.pos
        /\ After(ed) \in Seq(EdSym) /\ Len(After(ed)) = Len(ed.buf) - ed.pos
    BY <1>1, LineParts DEF Before, After
  \* characters put in at the cursor
  <1>3. ASSUME NEW in \in Seq(EdSym), Len(ed.buf) + Len(in) < MaxLine,
               ed' = Put(ed, Before(ed) \o in \o After(ed), ed.pos + Len(in))
        PROVE  EdGood(ed')
    <2> DEFINE line == Before(ed) \o in \o After(ed)
               pos == ed.pos + Len(in)
    <2>1. Len(in) \in Nat
      BY LenProperties
    <2>2. Before(ed) \o in \in Seq(EdSym) /\ Len(Before(ed) \o in) = ed.pos + Len(in)
      BY <1>2, LineJoins
    <2>3. /\ line \in Seq(EdSym)
          /\ Len(line) = Len(Before(ed) \o in) + Len(After(ed))
      BY <1>2, <2>2, LineJoins
    <2> HIDE DEF line
    <2>4. Len(line) = Len(ed.buf) + Len(in)
      BY <1>1, <1>2, <2>1, <2>2, <2>3, SMTT(40)
    <2>5. line \in FitLine /\ pos \in 0 .. Len(line)
      BY <1>1, <1>3, <2>1, <2>3, <2>4, SMTT(40) DEF FitLine
    <2>6. ed' = Put(ed, line, pos)
      BY <1>3 DEF line
    <2> HIDE DEF pos
    <2> QED BY <2>5, <2>6, LineKey
  <1>4. ASSUME NEW c \in EdChar, EdType(c)
        PROVE  EdGood(ed')
    <2>1. <<c>> \in Seq(EdSym) /\ Len(<<c>>) = 1
      BY DEF EdSym
    <2> QED BY <1>3, <1>4, <2>1 DEF EdType, Room
  <1>5. ASSUME NEW suffix \in {<<>>, <<"a">>}, NEW dir \in BOOLEAN, EdTab(suffix, dir)
        PROVE  EdGood(ed')
    <2> DEFINE in == suffix \o (IF dir THEN <<>> ELSE <<"a">>)
    <2>1. /\ <<>> \in Seq(EdSym) /\ <<"a">> \in Seq(EdSym)
          /\ Len(<<>>) = 0 /\ Len(<<"a">>) = 1
      BY DEF EdSym
    <2>2. /\ (IF dir THEN <<>> ELSE <<"a">>) \in Seq(EdSym)
          /\ Len(IF dir THEN <<>> ELSE <<"a">>) \in {0, 1}
          /\ suffix \in Seq(EdSym) /\ Len(suffix) \in {0, 1}
      BY <2>1
    <2>3. in \in Seq(EdSym) /\ Len(in) = Len(suffix) + Len(IF dir THEN <<>> ELSE <<"a">>)
      BY <2>2, LineJoins
    <2>4. Len(ed.buf) + (Len(suffix) + 1) < MaxLine
      BY <1>5 DEF EdTab, Room
    <2>5. ed' = Put(ed, Before(ed) \o in \o After(ed), ed.pos + Len(in))
      BY <1>5, Zenon DEF EdTab
    <2> DEFINE n == Len(ed.buf)
               m == Len(suffix)
               d == Len(IF dir THEN <<>> ELSE <<"a">>)
    <2>6. n \in Nat /\ m \in {0, 1} /\ d \in {0, 1} /\ MaxLine \in Nat /\ n + (m + 1) < MaxLine
      BY <1>1, <2>2, <2>4
    <2>7. Len(in) = m + d
      BY <2>3
    <2> HIDE DEF in, n, m, d
    <2>8. n + Len(in) < MaxLine
      BY <2>6, <2>7
    <2> QED BY <1>3, <2>3, <2>5, <2>8 DEF n
  <1>6. CASE EdBackspace
    <2> DEFINE a == SubSeq(ed.buf, 1, ed.pos - 1)
               line == a \o After(ed)
    <2>1. ed.pos - 1 \in 0 .. Len(ed.buf)
      BY <1>1, <1>6 DEF EdBackspace
    <2>2. a \in Seq(EdSym) /\ Len(a) = ed.pos - 1
      BY <1>1, <2>1, LineParts
    <2> HIDE DEF a
    <2>3. line \in Seq(EdSym) /\ Len(line) = Len(a) + Len(After(ed))
      BY <1>2, <2>2, LineJoins
    <2> HIDE DEF line
    <2> DEFINE n == Len(line)
    <2>4. n = ed.pos - 1 + (Len(ed.buf) - ed.pos)
      BY <1>2, <2>2, <2>3
    <2>5. n < MaxLine /\ ed.pos - 1 \in 0 .. n
      <3> HIDE DEF n
      <3> QED BY <1>1, <2>1, <2>4, SMTT(40)
    <2>6. line \in FitLine
      BY <2>3, <2>5 DEF FitLine
    <2>7. ed' = Put(ed, line, ed.pos - 1)
      BY <1>6 DEF EdBackspace, line, a
    <2> QED BY <2>5, <2>6, <2>7, LineKey
  \* the cursor moves
  <1>7. ASSUME NEW pos \in 0 .. Len(ed.buf), ed' = [ed EXCEPT !.pos = pos]
        PROVE  EdGood(ed')
    <2>1. ed' = Put(ed, ed.buf, pos)
      BY <1>1, <1>7 DEF IsRec, EdFields, Put
    <2> QED BY <1>1, <2>1, LineKey
  <1>8. CASE EdLeft \/ EdRight \/ EdHome \/ EdEnd
    <2>1. PICK pos \in 0 .. Len(ed.buf) : ed' = [ed EXCEPT !.pos = pos]
      <3>1. CASE EdLeft
        <4>1. ed.pos - 1 \in 0 .. Len(ed.buf) /\ ed' = [ed EXCEPT !.pos = ed.pos - 1]
          BY <1>1, <3>1 DEF EdLeft
        <4> QED BY <4>1
      <3>2. CASE EdRight
        <4>1. ed.pos + 1 \in 0 .. Len(ed.buf) /\ ed' = [ed EXCEPT !.pos = ed.pos + 1]
          BY <1>1, <3>2 DEF EdRight
        <4> QED BY <4>1
      <3>3. CASE EdHome \/ EdEnd
        <4>1. 0 \in 0 .. Len(ed.buf) /\ Len(ed.buf) \in 0 .. Len(ed.buf)
          BY <1>1
        <4> QED BY <3>3, <4>1 DEF EdHome, EdEnd
      <3> QED BY <1>8, <3>1, <3>2, <3>3
    <2> QED BY <1>7, <2>1
  <1>9. CASE EdUp
    <2> DEFINE line == ed.hist[ed.idx]
               idx == ed.idx - 1
               backup == IF ed.idx = Len(ed.hist) THEN ed.buf ELSE ed.backup
    <2>1. ed.idx \in 1 .. Len(ed.hist)
      BY <1>1, <1>9 DEF EdUp
    <2>2. line \in FitLine
      BY <1>1, <2>1, ElementOfSeq
    <2>3. idx \in 0 .. Len(ed.hist) /\ backup \in FitLine
      BY <1>1, <2>1
    <2>4. /\ Put(ed, line, Len(line)).idx = ed.idx
          /\ Put(ed, line, Len(line)).backup = ed.backup
      BY <1>1 DEF IsRec, EdFields, Put
    <2>5. ed' = [Put(ed, line, Len(line)) EXCEPT !.idx = idx, !.backup = backup]
      BY <1>9, <2>4 DEF EdUp
    <2> HIDE DEF line, idx, backup
    <2> QED BY <2>2, <2>3, <2>5, HistoryKey
  <1>10. CASE EdDown
    <2> DEFINE line == IF ed.idx + 1 = Len(ed.hist) THEN ed.backup ELSE ed.hist[ed.idx + 2]
               idx == ed.idx + 1
    <2>1. ed.idx \in 0 .. Len(ed.hist) - 1
      BY <1>1, <1>10 DEF EdDown
    <2>2. line \in FitLine
      <3>1. CASE ed.idx + 1 = Len(ed.hist)
        BY <1>1, <3>1
      <3>2. CASE ed.idx + 1 # Len(ed.hist)
        <4>1. ed.idx + 2 \in 1 .. Len(ed.hist)
          BY <1>1, <2>1, <3>2
        <4>2. ed.hist[ed.idx + 2] \in FitLine
          BY <1>1, <4>1, ElementOfSeq
        <4> QED BY <3>2, <4>2
      <3> QED BY <3>1, <3>2
    <2>3. idx \in 0 .. Len(ed.hist)
      BY <1>1, <2>1
    <2>4. Put(ed, line, Len(line)).idx = ed.idx
      BY <1>1 DEF IsRec, EdFields, Put
    <2>5. ed' = [Put(ed, line, Len(line)) EXCEPT !.idx = idx]
      BY <1>10, <2>4 DEF EdDown
    <2> HIDE DEF line, idx
    <2>6. ed' = [Put(ed, line, Len(line)) EXCEPT !.idx = idx, !.backup = ed.backup]
      BY <1>1, <2>5 DEF IsRec, EdFields, Put
    <2> QED BY <1>1, <2>2, <2>3, <2>6, HistoryKey
  <1>11. CASE EdCancel
    <2>1. 0 \in 0 .. Len(<<>>)
      BY EmptyFits
    <2> QED BY <1>11, <2>1, EmptyFits, LineKey DEF EdCancel
  <1>12. CASE EdRestart
    <2> DEFINE l == Loaded(ed.file)
               e == [ed EXCEPT !.hist = l, !.all = l]
    <2>1. l \in Seq(FitLine) /\ l = Newest(l)
      BY <1>1, LineLoaded
    <2>2. ed' = FreshLine(e)
      BY <1>12 DEF EdRestart
    <2> HIDE DEF l
    <2>3. /\ IsRec(e, EdFields) /\ e.pc = "read" /\ e.hist = l /\ e.file = ed.file
          /\ e.all = l
      BY <1>1 DEF IsRec, EdFields
    <2> HIDE DEF e
    <2> QED BY <1>1, <2>1, <2>2, <2>3, LineFresh
  <1>13. CASE EdEnter
    <2>1. CASE ed' = FreshLine(ed)
      BY <1>1, <2>1, LineFresh
    <2>2. CASE ed.hist # <<>> /\ ed' = FreshLine(Added(ed, ed.hist[Len(ed.hist)]))
      <3>1. Len(ed.hist) \in 1 .. Len(ed.hist)
        BY <1>1, <2>2, EmptySeq
      <3>2. ed.hist[Len(ed.hist)] \in FitLine
        BY <1>1, <3>1, ElementOfSeq
      <3> QED BY <2>2, <3>2, LineAdded
    <2>3. CASE ed' = FreshLine(Added(ed, ed.buf))
      BY <1>1, <2>3, LineAdded
    <2> QED BY <1>13, <2>1, <2>2, <2>3 DEF EdEnter
  <1> QED BY <1>4, <1>5, <1>6, <1>8, <1>9, <1>10, <1>11, <1>12, <1>13 DEF EdKey

LEMMA EdBegins == EdGood(EdStart)
  <1>1. /\ IsRec(EdStart, EdFields) /\ EdStart.pc = "read" /\ EdStart.buf = <<>>
        /\ EdStart.pos = 0 /\ EdStart.hist = <<>> /\ EdStart.idx = 0
        /\ EdStart.backup = <<>> /\ EdStart.file = <<>> /\ EdStart.all = <<>>
    BY DEF EdStart, IsRec, EdFields
  <1>2. <<>> \in Seq(FitLine) /\ Len(<<>>) = 0 /\ 0 \in 0 .. Len(<<>>)
    BY EmptySeq
  <1>3. Newest(<<>>) = <<>>
    <2>1. Kept(0) = 0
      BY EdAssumption DEF Kept
    <2> QED BY <1>2, <2>1, SubSeqEmpty DEF Newest
  <1> QED BY <1>1, <1>2, <1>3, EmptyFits DEF EdGood

LEMMA EdPromises ==
  ASSUME EdInv
  PROVE  EdInLine /\ EdHistory
  <1>1. ASSUME EdGood(ed)
        PROVE  EdInLine /\ EdHistory
    BY <1>1 DEF EdGood, FitLine, EdInLine, EdHistory, Newest, Kept
  <1> QED BY <1>1 DEF EdInv, EdOff, EdInLine, EdHistory

-----------------------------------------------------------------------------
(* The five programs.                                                      *)

\* Each program is off or in order.
ProcInv == JailInv /\ LshInv /\ TracerInv /\ LtopInv /\ EdInv

LEMMA JailBegins ==
  ASSUME jail \in JailStarts
  PROVE  JailGood(jail)
  <1>1. PICK c \in JailCaps, k \in BOOLEAN, t \in BOOLEAN :
          jail = [pc |-> "fork", caps |-> c, kill |-> k, timed |-> t, alarm |-> FALSE,
                  fired |-> FALSE, child |-> "none", code |-> 0, status |-> -1,
                  made |-> {}, calls |-> 0, result |-> -1]
    BY DEF JailStarts
  <1>2. jail \in JailRec
    BY <1>1 DEF JailRec, JailPc, ChildState, JailNum
  <1> QED BY <1>1, <1>2 DEF JailGood

LEMMA LshBegins == LshGood(LshStart)
  <1> DEFINE l == LshStart
  <1>1. /\ IsRec(l, LshFields) /\ l.pc = "prompt" /\ l.line = <<>> /\ l.at = 0 /\ l.run = TRUE
        /\ l.log = <<>> /\ l.kid = <<>> /\ l.open = <<>> /\ l.pipe = <<>>
        /\ l.i = 1 /\ l.last = 0 /\ l.alias = [a \in 1 .. MaxAliases |-> NoAlias]
    BY DEF LshStart, IsRec, LshFields
  <1> HIDE DEF l
  <1>2. KidGood(l)
    BY <1>1, EmptySeq DEF KidGood, Children
  <1>3. LineGood(l)
    BY <1>1, EmptySeq DEF LineGood
  <1>4. AliasGood(l)
    <2>1. l.alias \in [1 .. MaxAliases -> AliasName \cup {NoAlias}]
      BY <1>1
    <2>2. \A a \in 1 .. MaxAliases : l.alias[a] = NoAlias
      BY <1>1
    <2> QED BY <2>1, <2>2 DEF AliasGood, OneSlot
  <1> QED BY <1>1, <1>2, <1>3, <1>4 DEF LshGood, l

LEMMA TracerBegins == TracerGood(TracerStart)
  <1> DEFINE t == TracerStart
  <1>1. /\ IsRec(t, TracerFields) /\ t.pc = "first" /\ t.child = "starting" /\ t.at = "none"
        /\ t.nr = BadNr /\ t.in = FALSE /\ t.total = 0 /\ t.returned = 0
        /\ t.stats = [n \in {} |-> 0] /\ t.truth = [n \in Sysno |-> 0]
    BY DEF TracerStart, IsRec, TracerFields
  <1> HIDE DEF t
  <1>2. DOMAIN t.stats = {} /\ t.stats \in [DOMAIN t.stats -> Nat] /\ IsFiniteSet({})
    BY <1>1, FS_EmptySet
  <1>3. TracerTypes(t)
    <2>1. IsFiniteSet(DOMAIN t.stats) /\ DOMAIN t.stats \subseteq Sysno
      BY <1>2
    <2>2. t.truth \in [Sysno -> Nat]
      BY <1>1
    <2>3. t.nr \in Sysno \cup {BadNr} /\ t.in \in BOOLEAN
      BY <1>1, Zenon
    <2>4. t.total \in Nat /\ t.returned \in Nat
      BY <1>1
    <2>5. /\ t.pc \in {"first", "resume", "wait", "done"}
          /\ t.child \in {"starting", "stopped", "runs", "zombie", "reaped"}
      BY <1>1
    <2>6. t.stats \in [DOMAIN t.stats -> Nat] /\ IsRec(t, TracerFields)
      BY <1>1, <1>2
    <2> QED BY <2>1, <2>2, <2>3, <2>4, <2>5, <2>6 DEF TracerTypes
  <1>4. TracerFlow(t)
    BY <1>1 DEF TracerFlow, InCall
  <1>5. TracerCounts(t)
    BY <1>1, <1>2 DEF TracerCounts, Uncounted
  <1> QED BY <1>3, <1>4, <1>5 DEF TracerGood, t

LEMMA LtopBegins == LtopGood(LtopStart)
  BY LtopAssumption DEF LtopStart, LtopGood, IsRec, LtopFields

LEMMA ProcBegins ==
  ASSUME Init
  PROVE  ProcInv
  BY JailBegins, LshBegins, EdBegins, TracerBegins, LtopBegins
     DEF Init, ProcInv, JailInv, LshInv, EdInv, TracerInv, LtopInv

LEMMA JailPromises ==
  ASSUME JailInv
  PROVE  JailNoneLeft
  BY DEF JailInv, JailOff, JailGood, JailRec, JailNoneLeft

LEMMA ProcKeeps ==
  ASSUME ProcInv, [Next]_procvars
  PROVE  ProcInv'
  <1>1. CASE LshNext /\ UNCHANGED <<ed, jail, tr, ltop>>
    BY <1>1, LshStep DEF ProcInv, JailInv, EdInv, TracerInv, LtopInv
  <1>2. CASE LshEditNext /\ UNCHANGED <<lsh, jail, tr, ltop>>
    <2>1. EdGood(ed')
      BY <1>2, EdKeeps DEF ProcInv, EdInv, EdOff, LshEditNext
    <2> QED BY <1>2, <2>1 DEF ProcInv, JailInv, LshInv, EdInv, TracerInv, LtopInv
  <1>3. CASE JailNext /\ UNCHANGED <<lsh, ed, tr, ltop>>
    <2>1. JailInv'
      BY <1>3, JailStep DEF ProcInv, JailNext
    <2> QED BY <1>3, <2>1 DEF ProcInv, LshInv, EdInv, TracerInv, LtopInv
  <1>4. CASE TracerNext /\ UNCHANGED <<lsh, ed, jail, ltop>>
    <2>1. TracerGood(tr')
      BY <1>4, TracerKeeps DEF ProcInv, TracerInv, TracerOff, TracerNext
    <2> QED BY <1>4, <2>1 DEF ProcInv, JailInv, LshInv, EdInv, TracerInv, LtopInv
  <1>5. CASE LtopNext /\ UNCHANGED <<lsh, ed, jail, tr>>
    <2>1. LtopGood(ltop)
      <3>1. ltop.pc \in {"collect", "key"}
        BY <1>5, Zenon DEF LtopNext, LtopCollect, LtopSignal, LtopQuit, LtopFilter, LtopSort,
                           LtopMove
      <3> QED BY <3>1 DEF ProcInv, LtopInv, LtopOff
    <2>2. LtopGood(ltop')
      BY <1>5, <2>1, LtopKeeps
    <2> QED BY <1>5, <2>2 DEF ProcInv, JailInv, LshInv, EdInv, TracerInv, LtopInv
  <1>6. CASE UNCHANGED procvars
    BY <1>6 DEF procvars, ProcInv, JailInv, LshInv, EdInv, TracerInv, LtopInv
  <1> QED BY <1>1, <1>2, <1>3, <1>4, <1>5, <1>6 DEF Next

LEMMA ProcAlways == Spec => []ProcInv
  <1>1. Init => ProcInv
    BY ProcBegins
  <1>2. ProcInv /\ [Next]_procvars => ProcInv'
    BY ProcKeeps
  <1> QED BY <1>1, <1>2, PTL DEF Spec

\* The commands of a list that process_line runs are those that the operators
\* before them let run, given what the commands before them returned, whatever
\* the lines, the pipelines, the forks that fail and the signals.
THEOREM ListRuns == Spec => []LshListRuns
  <1>1. ProcInv => LshListRuns
    BY LshPromises DEF ProcInv
  <1> QED BY <1>1, ProcAlways, PTL

\* No program leaves a process behind it: between two commands the shell has
\* waited for every child that execute_pipeline forked, also when a fork
\* failed, and jail's main returns only after its command ended or was killed
\* by alarm_handler, with the command's own result unless the alarm fired.
THEOREM NothingLeft == Spec => []NoneLeft
  <1>1. ProcInv => NoneLeft
    BY LshPromises, JailPromises DEF ProcInv, NoneLeft
  <1> QED BY <1>1, ProcAlways, PTL

\* The tracer's flag takes every stop for what it is, whatever signals, execs
\* and calls without return come between, and the counts that main prints are
\* the calls that were made, for every table size.
THEOREM TracerCountsRight == Spec => []TraceAgrees
  <1>1. ProcInv => TraceAgrees
    BY TracerPromises DEF ProcInv, TraceAgrees
  <1> QED BY <1>1, ProcAlways, PTL

\* The tables the user works with stay true: a name has one slot of the alias
\* table (alias and unalias in handle_builtin), the cursor, the line and the
\* place in the history of lsh_readline stay in bounds and add_history keeps
\* the newest commands in order, for every buffer and history size, and ltop's
\* signal goes to a line of its table.
THEOREM TablesKept == Spec => []TablesAgree
  <1>1. ProcInv => TablesAgree
    BY LshPromises, EdPromises, LtopPromises DEF ProcInv, TablesAgree
  <1> QED BY <1>1, ProcAlways, PTL
\* What the command did was granted: no call got through the filter that
\* setup_seccomp_jail writes unless it is of the base group or of a capability
\* that was given, whatever the grants, the default action and the calls.
THEOREM JailConfines == Spec => []JailConfined
  <1>1. Init => JailConfined
    BY DEF Init, JailConfined, JailStarts, JailOff
  <1>2. ProcInv /\ JailConfined /\ [Next]_procvars => JailConfined'
    <2> SUFFICES ASSUME ProcInv, JailConfined, [Next]_procvars PROVE JailConfined'
      OBVIOUS
    <2>1. CASE JailNext
      BY <2>1, JailMakes DEF ProcInv, JailNext
    <2>2. CASE UNCHANGED jail
      BY <2>2 DEF JailConfined
    <2> QED BY <2>1, <2>2 DEF Next, procvars
  <1> QED BY <1>1, <1>2, ProcAlways, PTL DEF Spec
=============================================================================
