----------------------------- MODULE Processes -----------------------------
(***************************************************************************)
(* The programs that run, watch or confine other processes, each with its  *)
(* children: the shell and its line editor (lsh), confinement (jail), the *)
(* tracer (ptrace) and the process table (ltop).  They are separate        *)
(* programs that share nothing: a behaviour is a behaviour of one.         *)
(***************************************************************************)
EXTENDS Lsh, Jail, Tracer, Ltop

procvars == <<lsh, ed, jail, tr, ltop>>

Init ==
  \/ lsh = LshStart /\ ed = EdOff /\ jail = JailOff /\ tr = TracerOff /\ ltop = LtopOff
  \/ lsh = LshOff /\ ed = EdStart /\ jail = JailOff /\ tr = TracerOff /\ ltop = LtopOff
  \/ lsh = LshOff /\ ed = EdOff /\ jail \in JailStarts /\ tr = TracerOff /\ ltop = LtopOff
  \/ lsh = LshOff /\ ed = EdOff /\ jail = JailOff /\ tr = TracerStart /\ ltop = LtopOff
  \/ lsh = LshOff /\ ed = EdOff /\ jail = JailOff /\ tr = TracerOff /\ ltop = LtopStart

Next ==
  \/ LshNext /\ UNCHANGED <<ed, jail, tr, ltop>>
  \/ LshEditNext /\ UNCHANGED <<lsh, jail, tr, ltop>>
  \/ JailNext /\ UNCHANGED <<lsh, ed, tr, ltop>>
  \/ TracerNext /\ UNCHANGED <<lsh, ed, jail, ltop>>
  \/ LtopNext /\ UNCHANGED <<lsh, ed, jail, tr>>

Spec == Init /\ [][Next]_procvars /\ LshFair /\ JailFair /\ TracerFair

----------------------------------------------------------------------------
\* No program leaves a process running behind it: at its prompt the shell has
\* no child, and when jail is done the command has ended or been killed.
NoneLeft == LshNoChild /\ JailNoneLeft

\* The tables the user works with stay true to what was done to them: one
\* slot for an alias, the cursor in its line, the newest history in order, and
\* in ltop a selection that is a process of the table and gets the signal.
TablesAgree == LshAliasOnce /\ EdInLine /\ EdHistory /\ LtopSelects

\* The tracer takes every stop for what it is, and its counts are the calls.
TraceAgrees == TracerPairs /\ TracerTally

\* Every program comes back: the prompt after a line, jail after its time
\* limit, the tracer after its tracee.
Returns == LshReturns /\ JailReturns /\ TracerReturns

-----------------------------------------------------------------------------
(* Lines, capabilities and processes for the run. *)

Cmd(op, stages) == [op |-> op, stages |-> stages]

Lines ==
  { <<Cmd(";", <<"writer", "filter", "filter">>), Cmd("&&", <<"quick">>), Cmd("||", <<"alias">>)>>,
    <<Cmd(";", <<"writer", "quick">>), Cmd("||", <<"filter">>), Cmd("&&", <<"unalias">>)>>,
    <<Cmd(";", <<"cd">>), Cmd("&&", <<"cd-">>), Cmd("||", <<"exit">>)>>,
    <<Cmd(";", <<"alias">>), Cmd(";", <<"alias">>), Cmd(";", <<"unalias">>)>>,
    <<Cmd(";", <<"echo">>), Cmd("||", <<"exit">>)>> }

CapSets == {{}, {"exec"}, {"exec", "net"}, Capability}
=============================================================================
