------------------------------ MODULE UtilIpc ------------------------------
(***************************************************************************)
(* src/libutilipc/utilipc.c: the telemetry segment every tool maps from    *)
(* $TMPDIR/utils_ipc_shm, guarded by a process-shared mutex that lives in  *)
(* the segment itself.  Processes create and initialise it, log, send      *)
(* messages, register, read, die anywhere and come back with the same pid. *)
(*                                                                         *)
(* A log entry is abstracted to the number of the call that wrote it.  The *)
(* strings, timestamps and the three status doubles are left out.  A zero- *)
(* filled mutex works but is process-private: a process that has to wait   *)
(* on it is woken by no other process (external: glibc, futex).            *)
(***************************************************************************)
EXTENDS Integers, FiniteSets

CONSTANTS Proc, NoProc, Gone, HistorySize, MaxProcs, Chunks,
          Mixes      \* mixes of calls: which calls the tools make, and a bound
                     \* on the calls of one pid, so that runs are finite

ASSUME SizeAssumption == {HistorySize, MaxProcs} \subseteq Nat \ {0}
ASSUME ProcAssumption == {NoProc, Gone} \cap Proc = {} /\ Gone # NoProc
ASSUME BoundAssumption == Chunks \in Nat /\ Chunks > 4

VARIABLES
  file,      \* the segment: "absent", "empty" (created) or "sized"
  holder,    \* lock: NoProc, the process that holds it, or Gone if it died
  shared,    \* lock: it was initialised with PTHREAD_PROCESS_SHARED
  calls,     \* data.total_ipc_calls
  mem,       \* data.mem_slots
  history,   \* data.history with its head and count
  comm,      \* data.comm_log with its head and count
  procs,     \* data.active_procs
  nprocs,    \* data.active_proc_count
  pc, op,    \* each process: its next step, the call it is in
  ix, slot,  \* each process: the locals i and slot of a scan
  snap,      \* each process: what its last utilipc_read_status copied
  mix,       \* the mix of calls that are made, picked once
  made,      \* each pid: calls made so far
  sent,      \* history variable: messages ever counted into comm
  own,       \* history variable: the slot the running process registered
  booted,    \* history variable: the creator has finished utilipc_init
  raced      \* history variable: the file was opened before that

lockVars == <<holder, shared>>
logVars == <<calls, mem, history>>
commVars == <<comm, sent>>
procVars == <<procs, nprocs, own>>
localVars == <<ix, slot, snap, made>>
bootVars == <<file, booted, raced>>
vars == <<lockVars, logVars, commVars, procVars, localVars, bootVars, pc, op, mix>>

Slots == 0 .. MaxProcs - 1
NoSlot == -1
AllOps == {"log", "send", "status", "read", "register", "unregister", "touch"}
ASSUME MixAssumption == \A m \in Mixes : m.ops \subseteq AllOps /\ m.max \in Nat
Body == {"log", "logCount", "logTotal", "send", "sendCount", "status", "read",
         "readRest", "register", "take", "unregister", "touch", "unlock"}

EmptyRing == [head |-> 0, count |-> 0, entry |-> [i \in 0 .. HistorySize - 1 |-> 0]]
NoSnap == [calls |-> 0, history |-> EmptyRing]
NoEntry == [active |-> FALSE, pid |-> NoProc]

\* One write to a ring: the entry goes behind the newest one, then the count
\* grows or, when the ring is full, the head moves.
Stored(r, e) ==
  [r EXCEPT !.entry[(r.head + r.count) % HistorySize] = e]
CountedNoEvict(r) ==
  [r EXCEPT !.count = IF @ < HistorySize THEN @ + 1 ELSE @]
Counted(r) ==
  IF r.count < HistorySize
  THEN [r EXCEPT !.count = @ + 1]
  ELSE [r EXCEPT !.head = (@ + 1) % HistorySize]

\* update_simulated_mem_matrix: three fixed blocks, then as many busy blocks
\* as the load asks for.
Matrix(total, n) ==
  LET want == (total % 10) + 3 * n
      load == IF want > Chunks - 4 THEN Chunks - 4 ELSE want
  IN  [i \in 0 .. Chunks - 1 |->
         CASE i = 0 -> "pinned"
           [] i \in {1, 2} -> "kernel"
           [] i > 2 /\ i >= 3 + load -> "free"
           [] i > 2 /\ i < 3 + load /\ i % 3 = 0 -> "cache"
           [] OTHER -> "active"]

Init ==
  /\ mix \in Mixes
  /\ file = "absent" /\ booted = FALSE /\ raced = FALSE
  /\ holder = NoProc /\ shared = FALSE
  /\ calls = 0 /\ mem = [i \in 0 .. Chunks - 1 |-> "free"]
  /\ history = EmptyRing /\ comm = EmptyRing /\ sent = 0
  /\ procs = [s \in Slots |-> NoEntry] /\ nprocs = 0
  /\ own = [p \in Proc |-> NoSlot]
  /\ pc = [p \in Proc |-> "start"] /\ op = [p \in Proc |-> "log"]
  /\ ix = [p \in Proc |-> 0] /\ slot = [p \in Proc |-> NoSlot]
  /\ snap = [p \in Proc |-> NoSnap]
  /\ made = [p \in Proc |-> 0]

\* Process p takes the step named here and goes on to the step named there.
Goto(p, here, there) ==
  /\ pc[p] = here
  /\ pc' = [pc EXCEPT ![p] = there]

-----------------------------------------------------------------------------
(* utilipc_init and utilipc_close.                                         *)

OpenCreate(p) ==
  /\ Goto(p, "start", "truncate")
  /\ file = "absent"
  /\ file' = "empty"
  /\ UNCHANGED <<booted, raced, lockVars, logVars, commVars, procVars,
                 localVars, op>>

Truncate(p) ==
  /\ Goto(p, "truncate", "initLock")
  /\ file' = "sized"
  /\ UNCHANGED <<booted, raced, lockVars, logVars, commVars, procVars,
                 localVars, op>>

\* ftruncate fails: init returns -1, and the file stays behind for others.
TruncateFails(p) ==
  /\ Goto(p, "truncate", "start")
  /\ UNCHANGED <<bootVars, lockVars, logVars, commVars, procVars, localVars, op>>

InitLock(p) ==
  /\ Goto(p, "initLock", "initData")
  /\ holder' = NoProc
  /\ shared' = TRUE
  /\ UNCHANGED <<bootVars, logVars, commVars, procVars, localVars, op>>

InitData(p) ==
  /\ Goto(p, "initData", "idle")
  /\ calls' = 0 /\ mem' = Matrix(0, 0)
  /\ history' = EmptyRing /\ comm' = EmptyRing /\ sent' = 0
  /\ procs' = [s \in Slots |-> NoEntry] /\ nprocs' = 0
  /\ booted' = TRUE
  /\ UNCHANGED <<file, raced, own, lockVars, localVars, op>>

\* Whoever finds the file maps it at once, and gives it its size if need be.
OpenExisting(p) ==
  /\ Goto(p, "start", "idle")
  /\ file # "absent"
  /\ file' = "sized"
  /\ raced' = (raced \/ ~booted)
  /\ UNCHANGED <<booted, lockVars, logVars, commVars, procVars, localVars, op>>

Close(p) ==
  /\ Goto(p, "idle", "start")
  /\ UNCHANGED <<bootVars, lockVars, logVars, commVars, procVars, localVars, op>>

-----------------------------------------------------------------------------
(* lock_shm and unlock_shm.                                                *)

\* A call begins; a process registers once, as tedit does.
Call(p, o) ==
  /\ Goto(p, "idle", "lock")
  /\ made[p] < mix.max
  /\ o = "register" => own[p] = NoSlot
  /\ made' = [made EXCEPT ![p] = @ + 1]
  /\ op' = [op EXCEPT ![p] = o]
  /\ UNCHANGED <<bootVars, lockVars, logVars, commVars, procVars, ix, slot, snap>>

LockNoWait(p) ==
  /\ Goto(p, "lock", op[p])
  /\ holder' = p
  /\ UNCHANGED <<shared, bootVars, logVars, commVars, procVars, localVars, op>>

LockShm(p) ==
  /\ Goto(p, "lock", op[p])
  /\ holder = NoProc
  /\ holder' = p
  /\ UNCHANGED <<shared, bootVars, logVars, commVars, procVars, localVars, op>>

\* The lock is taken and private: p sleeps where no other process wakes it.
SleepPrivate(p) ==
  /\ Goto(p, "lock", "asleep")
  /\ holder # NoProc
  /\ ~shared
  /\ UNCHANGED <<bootVars, lockVars, logVars, commVars, procVars, localVars, op>>

\* utilipc_send_msg goes on to utilipc_log, and so does utilipc_write_status
\* when it was given an action.
UnlockShm(p) ==
  /\ holder' = NoProc
  /\ op' = [op EXCEPT ![p] = "log"]
  /\ \/ /\ op[p] # "send"
        /\ Goto(p, "unlock", "idle")
     \/ /\ op[p] \in {"send", "status"}
        /\ Goto(p, "unlock", "lock")
  /\ ix' = [ix EXCEPT ![p] = 0]
  /\ slot' = [slot EXCEPT ![p] = NoSlot]
  /\ UNCHANGED <<shared, bootVars, logVars, commVars, procVars, snap, made>>

-----------------------------------------------------------------------------
(* The critical sections.                                                  *)

LogStore(p) ==
  /\ Goto(p, "log", "logCount")
  /\ history' = Stored(history, calls + 1)
  /\ UNCHANGED <<calls, mem, bootVars, lockVars, commVars, procVars, localVars, op>>

LogCount(p) ==
  /\ Goto(p, "logCount", "logTotal")
  /\ history' = Counted(history)
  /\ UNCHANGED <<calls, mem, bootVars, lockVars, commVars, procVars, localVars, op>>

LogTotal(p) ==
  /\ Goto(p, "logTotal", "unlock")
  /\ calls' = calls + 1
  /\ mem' = Matrix(calls + 1, nprocs)
  /\ UNCHANGED <<history, bootVars, lockVars, commVars, procVars, localVars, op>>

SendStore(p) ==
  /\ Goto(p, "send", "sendCount")
  /\ comm' = Stored(comm, sent + 1)
  /\ UNCHANGED <<sent, bootVars, lockVars, logVars, procVars, localVars, op>>

SendCount(p) ==
  /\ Goto(p, "sendCount", "unlock")
  /\ comm' = Counted(comm)
  /\ sent' = sent + 1
  /\ UNCHANGED <<bootVars, lockVars, logVars, procVars, localVars, op>>

StatusStore(p) ==
  /\ Goto(p, "status", "unlock")
  /\ UNCHANGED <<bootVars, lockVars, logVars, commVars, procVars, localVars, op>>

TouchMemChunk(p, chunk, state) ==
  /\ Goto(p, "touch", "unlock")
  /\ mem' = [mem EXCEPT ![chunk] = state]
  /\ UNCHANGED <<calls, history, bootVars, lockVars, commVars, procVars,
                 localVars, op>>

\* The snapshot of utilipc_read_status is a copy, front to back.
ReadCalls(p) ==
  /\ Goto(p, "read", "readRest")
  /\ snap' = [snap EXCEPT ![p].calls = calls]
  /\ UNCHANGED <<bootVars, lockVars, logVars, commVars, procVars, ix, slot,
                 made, op>>

ReadRest(p) ==
  /\ Goto(p, "readRest", "unlock")
  /\ snap' = [snap EXCEPT ![p].history = history]
  /\ UNCHANGED <<bootVars, lockVars, logVars, commVars, procVars, ix, slot,
                 made, op>>

\* One turn of the loop of utilipc_register_process: kill(pid, 0) says ESRCH.
ReapAny(s) == procs[s].active
Reapable(s) == procs[s].active /\ pc[procs[s].pid] = "dead"

ScanSlot(p) ==
  /\ pc[p] = "register"
  /\ ix[p] < MaxProcs
  /\ LET s == ix[p]
         reap == Reapable(s)
     IN  /\ procs' = [procs EXCEPT ![s].active = @ /\ ~reap]
         /\ nprocs' = IF reap /\ nprocs > 0 THEN nprocs - 1 ELSE nprocs
         /\ slot' = [slot EXCEPT ![p] = IF ~procs'[s].active /\ @ = NoSlot
                                        THEN s ELSE @]
         /\ ix' = [ix EXCEPT ![p] = s + 1]
  /\ UNCHANGED <<pc, op, own, snap, made, bootVars, lockVars, logVars, commVars>>

TakeSlotFullReturn(p) ==
  /\ Goto(p, "register", IF slot[p] = NoSlot THEN "idle" ELSE "unlock")
  /\ ix[p] = MaxProcs
  /\ IF slot[p] = NoSlot
     THEN UNCHANGED procVars
     ELSE /\ procs' = [procs EXCEPT ![slot[p]] = [active |-> TRUE, pid |-> p]]
          /\ nprocs' = nprocs + 1
          /\ own' = [own EXCEPT ![p] = slot[p]]
  /\ UNCHANGED <<op, localVars, bootVars, lockVars, logVars, commVars>>

\* After the loop the first free slot is taken; a full table takes nobody.
TakeSlot(p) ==
  /\ Goto(p, "register", "unlock")
  /\ ix[p] = MaxProcs
  /\ IF slot[p] = NoSlot
     THEN UNCHANGED procVars
     ELSE /\ procs' = [procs EXCEPT ![slot[p]] = [active |-> TRUE, pid |-> p]]
          /\ nprocs' = nprocs + 1
          /\ own' = [own EXCEPT ![p] = slot[p]]
  /\ UNCHANGED <<op, localVars, bootVars, lockVars, logVars, commVars>>

Mine(p) == {s \in Slots : procs[s].active /\ procs[s].pid = p}

\* utilipc_unregister_process clears the first slot that bears the pid.
ReleaseSlot(p) ==
  /\ Goto(p, "unregister", "unlock")
  /\ own' = [own EXCEPT ![p] = NoSlot]
  /\ IF Mine(p) = {}
     THEN UNCHANGED <<procs, nprocs>>
     ELSE LET s == CHOOSE s \in Mine(p) : \A t \in Mine(p) : s <= t
          IN  /\ procs' = [procs EXCEPT ![s].active = FALSE]
              /\ nprocs' = IF nprocs > 0 THEN nprocs - 1 ELSE nprocs
  /\ UNCHANGED <<op, localVars, bootVars, lockVars, logVars, commVars>>

-----------------------------------------------------------------------------
(* Processes end, anywhere, and pids are used again.                       *)

Die(p) ==
  /\ pc[p] # "dead"
  /\ pc' = [pc EXCEPT ![p] = "dead"]
  /\ holder' = IF holder = p THEN Gone ELSE holder
  /\ own' = [own EXCEPT ![p] = NoSlot]
  /\ snap' = [snap EXCEPT ![p] = NoSnap]
  /\ ix' = [ix EXCEPT ![p] = 0]
  /\ slot' = [slot EXCEPT ![p] = NoSlot]
  /\ op' = [op EXCEPT ![p] = "log"]
  /\ UNCHANGED <<procs, nprocs, made, bootVars, shared, logVars,
                 commVars>>

Start(p) ==
  /\ Goto(p, "dead", "start")
  /\ UNCHANGED <<op, localVars, bootVars, lockVars, logVars, commVars, procVars>>

Step(p) ==
  \/ OpenCreate(p)
  \/ Truncate(p)
  \/ InitLock(p)
  \/ InitData(p)
  \/ OpenExisting(p)
  \/ LockShm(p)
  \/ SleepPrivate(p)
  \/ UnlockShm(p)
  \/ LogStore(p)
  \/ LogCount(p)
  \/ LogTotal(p)
  \/ SendStore(p)
  \/ SendCount(p)
  \/ StatusStore(p)
  \/ \E i \in {3} \cap DOMAIN mem : TouchMemChunk(p, i, "active")
  \/ ReadCalls(p)
  \/ ReadRest(p)
  \/ ScanSlot(p)
  \/ TakeSlot(p)
  \/ ReleaseSlot(p)

Next ==
  /\ UNCHANGED mix
  /\ \E p \in Proc :
    \/ Step(p)
    \/ \E o \in mix.ops : Call(p, o)
    \/ TruncateFails(p)
    \/ Close(p)
    \/ Die(p)
    \/ Start(p)

\* A process that is scheduled goes on with the call it is in; nothing obliges
\* it to make calls, to close, to die or to be started again.
Spec == Init /\ [][Next]_vars
FairSpec == Spec /\ \A p \in Proc : WF_vars(Step(p) /\ UNCHANGED mix)

-----------------------------------------------------------------------------
(* Properties.                                                             *)

Ring == [head : 0 .. HistorySize - 1, count : 0 .. HistorySize,
         entry : [0 .. HistorySize - 1 -> Nat]]
PC == {"start", "truncate", "initLock", "initData", "idle", "lock", "asleep",
       "dead"} \cup Body

\* Every ring index, slot index and counter stays in its range, whatever the
\* start-up race did to the contents.
TypeOK ==
  /\ file \in {"absent", "empty", "sized"}
  /\ {booted, raced, shared} \subseteq BOOLEAN
  /\ holder \in Proc \cup {NoProc, Gone}
  /\ calls \in Nat /\ sent \in Nat /\ nprocs \in Nat
  /\ history \in Ring /\ comm \in Ring
  /\ mem \in [0 .. Chunks - 1 -> {"pinned", "kernel", "free", "cache", "active"}]
  /\ procs \in [Slots -> [active : BOOLEAN, pid : Proc \cup {NoProc}]]
  /\ own \in [Proc -> Slots \cup {NoSlot}]
  /\ pc \in [Proc -> PC] /\ op \in [Proc -> AllOps]
  /\ ix \in [Proc -> 0 .. MaxProcs]
  /\ slot \in [Proc -> Slots \cup {NoSlot}]
  /\ snap \in [Proc -> [calls : Nat, history : Ring]]
  /\ made \in [Proc -> Nat]

\* The ring r holds the last entries of the total ones ever logged, in order.
HoldsLatest(r, total) ==
  /\ r.count = IF total < HistorySize THEN total ELSE HistorySize
  /\ \A j \in 0 .. r.count - 1 :
        r.entry[(r.head + j) % HistorySize] = total - r.count + j + 1

\* Unless somebody mapped the file before its creator had initialised it, a
\* process is inside a critical section only while it holds the mutex.
MutualExclusion ==
  ~raced => \A p \in Proc : pc[p] \in Body => holder = p

\* ... and whenever the mutex is free, history and comm_log are the most
\* recent log calls and messages, none lost, repeated or out of order, and
\* active_proc_count is the number of active slots.
DataAgrees ==
  ~raced /\ holder = NoProc =>
    /\ HoldsLatest(history, calls)
    /\ HoldsLatest(comm, sent)
    /\ nprocs = Cardinality({s \in Slots : procs[s].active})

\* ... and ipcmon and sysbox, which read while others log and die, only ever
\* copy a history that agrees with the call counter.
SnapshotAgrees ==
  ~raced => \A p \in Proc : pc[p] # "readRest" =>
              HoldsLatest(snap[p].history, snap[p].calls)

\* ... and a running process that was given a slot keeps it until it calls
\* unregister: no other process reaps it, and no two processes share a slot,
\* even when a pid in the table is used again.
LiveKeepsSlot ==
  ~raced => \A p \in Proc : own[p] # NoSlot =>
              procs[own[p]] = [active |-> TRUE, pid |-> p]

\* A process that waits for the mutex gets through its call, unless the
\* mutex was left locked by a process that died holding it (it is not robust
\* and nobody removes the file) or is the private one of a start-up race.
CallsReturn ==
  \A p \in Proc :
    pc[p] = "lock" ~> pc[p] \in {"idle", "dead"} \/ holder = Gone \/ raced

\* The shared data agree with the calls made, for those that write them and
\* for those that read them.
SharedAgrees == TypeOK /\ DataAgrees /\ SnapshotAgrees

-----------------------------------------------------------------------------
(* Mixes of calls for the run: the history, the messages, the other        *)
(* writers and the process table are tried one at a time.                  *)

LogsAndTable ==
  {[ops |-> {"log", "read"}, max |-> 2],
   [ops |-> {"send"}, max |-> 2],
   [ops |-> {"status", "touch", "log"}, max |-> 1],
   [ops |-> {"register", "unregister"}, max |-> 3]}
=============================================================================
