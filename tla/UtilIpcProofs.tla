--------------------------- MODULE UtilIpcProofs ---------------------------
(***************************************************************************)
(* Theorems about libutilipc/utilipc.c for every set of processes, every   *)
(* history size and every size of the process table.                       *)
(***************************************************************************)
EXTENDS UtilIpc, FiniteSetTheorems, WellFoundedInduction, TLAPS

-----------------------------------------------------------------------------
(* The operators of the model.                                             *)

\* An index of a ring wraps at most once.
LEMMA RingIndex ==
  ASSUME NEW a \in 0 .. HistorySize - 1, NEW b \in 0 .. HistorySize
  PROVE  /\ (a + b) % HistorySize = IF a + b < HistorySize THEN a + b
                                    ELSE a + b - HistorySize
         /\ (a + b) % HistorySize \in 0 .. HistorySize - 1
  <1> HistorySize \in Nat \ {0}
    BY SizeAssumption
  <1>1. CASE a + b < HistorySize
    BY <1>1
  <1>2. CASE a + b >= HistorySize
    <2>1. a + b - HistorySize \in 0 .. HistorySize - 1
      BY <1>2
    <2>2. (a + b) % HistorySize = (a + b - HistorySize) % HistorySize
      BY <1>2
    <2> QED BY <1>2, <2>1, <2>2
  <1> QED BY <1>1, <1>2

\* A store and a count keep a ring a ring.
LEMMA RingTypes ==
  ASSUME NEW r \in Ring, NEW e \in Nat
  PROVE  /\ Stored(r, e) \in Ring
         /\ Counted(r) \in Ring
  <1> HistorySize \in Nat \ {0}
    BY SizeAssumption
  <1>1. (r.head + r.count) % HistorySize \in 0 .. HistorySize - 1
    BY RingIndex DEF Ring
  <1>2. Stored(r, e) \in Ring
    BY <1>1 DEF Ring, Stored
  <1>3. (r.head + 1) % HistorySize \in 0 .. HistorySize - 1
    <2>1. r.head \in 0 .. HistorySize - 1 /\ 1 \in 0 .. HistorySize
      BY DEF Ring
    <2> QED BY <2>1, RingIndex
  <1>4. Counted(r) \in Ring
    BY SMTT(40), <1>3 DEF Ring, Counted
  <1> QED BY <1>2, <1>4

LEMMA EmptyRingType == EmptyRing \in Ring
  <1> HistorySize \in Nat \ {0}
    BY SizeAssumption
  <1> QED BY DEF EmptyRing, Ring

\* The ring holds the latest entries but for the one that is being written:
\* entry total + 1 is stored behind them, on top of the oldest in a full ring.
StoredAhead(r, total) ==
  /\ r.count = IF total < HistorySize THEN total ELSE HistorySize
  /\ \A j \in 0 .. r.count :
        ~(r.count = HistorySize /\ j = 0) =>
        r.entry[(r.head + j) % HistorySize] = total - r.count + j + 1

LEMMA EmptyHolds == HoldsLatest(EmptyRing, 0)
  <1> HistorySize \in Nat \ {0}
    BY SizeAssumption
  <1> QED BY DEF HoldsLatest, EmptyRing

LEMMA StoreAhead ==
  ASSUME NEW r \in Ring, NEW total \in Nat, HoldsLatest(r, total)
  PROVE  StoredAhead(Stored(r, total + 1), total)
  <1> HistorySize \in Nat \ {0}
    BY SizeAssumption
  <1> DEFINE s == Stored(r, total + 1)
             k == (r.head + r.count) % HistorySize
  <1>3. /\ r.head \in 0 .. HistorySize - 1 /\ r.count \in 0 .. HistorySize
        /\ r.entry \in [0 .. HistorySize - 1 -> Nat]
    BY DEF Ring
  <1>1. s.head = r.head /\ s.count = r.count /\ s.entry = [r.entry EXCEPT ![k] = total + 1]
    BY DEF Ring, Stored
  <1>2. \A i \in 0 .. HistorySize - 1 :
          s.entry[i] = IF i = k THEN total + 1 ELSE r.entry[i]
    <2> HIDE DEF s, k
    <2> QED BY <1>1, <1>3
  <1>4. ASSUME NEW j \in 0 .. r.count, ~(r.count = HistorySize /\ j = 0)
        PROVE  s.entry[(r.head + j) % HistorySize] = total - r.count + j + 1
    <2> DEFINE m == (r.head + j) % HistorySize
    <2>1. /\ m = IF r.head + j < HistorySize THEN r.head + j
                 ELSE r.head + j - HistorySize
          /\ m \in 0 .. HistorySize - 1
      <3>1. j \in 0 .. HistorySize
        BY <1>3
      <3> QED BY <1>3, <3>1, RingIndex
    <2>2. k = IF r.head + r.count < HistorySize THEN r.head + r.count
              ELSE r.head + r.count - HistorySize
      BY <1>3, RingIndex
    <2>3. CASE j = r.count
      <3>1. m = k
        BY <2>3
      <3> HIDE DEF m, k, s
      <3>2. s.entry[m] = total + 1
        BY <2>1, <3>1, <1>2
      <3> QED BY <3>2, <2>3, <1>3 DEF m
    <2>4. CASE j < r.count
      <3>1. m # k
        <4>1. j \in Nat /\ ~(r.count = HistorySize /\ j = 0)
          BY <1>3, <1>4
        <4>2. /\ r.head \in Nat /\ r.count \in Nat /\ HistorySize \in Nat
              /\ r.head < HistorySize /\ r.count <= HistorySize
          BY <1>3
        <4> HIDE DEF m, k
        <4>3. CASE r.head + j < HistorySize
          <5>1. m = r.head + j
            BY <4>3, <2>1
          <5>2. CASE r.head + r.count < HistorySize
            <6>1. k = r.head + r.count
              BY <5>2, <2>2
            <6> QED BY <6>1, <5>1, <4>1, <4>2, <2>4
          <5>3. CASE ~(r.head + r.count < HistorySize)
            <6>1. k = r.head + r.count - HistorySize
              BY <5>3, <2>2
            <6>2. r.count - HistorySize < j
              BY <4>1, <4>2
            <6> QED BY <6>1, <6>2, <5>1, <4>1, <4>2
          <5> QED BY <5>2, <5>3
        <4>4. CASE ~(r.head + j < HistorySize)
          <5>1. m = r.head + j - HistorySize
            BY <4>4, <2>1
          <5>2. ~(r.head + r.count < HistorySize)
            BY <4>4, <4>1, <4>2, <2>4
          <5>3. k = r.head + r.count - HistorySize
            BY <5>2, <2>2
          <5> QED BY <5>1, <5>3, <4>1, <4>2, <2>4
        <4> QED BY <4>3, <4>4
      <3>2. j \in 0 .. r.count - 1
        BY <2>4, <1>3
      <3>3. r.entry[m] = total - r.count + j + 1
        BY <3>2 DEF HoldsLatest
      <3>4. s.entry[m] = r.entry[m]
        BY <3>1, <2>1, <1>2
      <3> QED BY <3>3, <3>4
    <2> QED BY <2>3, <2>4, <1>3
  <1> QED BY <1>1, <1>4 DEF StoredAhead, HoldsLatest

LEMMA CountAhead ==
  ASSUME NEW r \in Ring, NEW total \in Nat, StoredAhead(r, total)
  PROVE  HoldsLatest(Counted(r), total + 1)
  <1> HistorySize \in Nat \ {0}
    BY SizeAssumption
  <1>3. r.head \in 0 .. HistorySize - 1 /\ r.count \in 0 .. HistorySize
    BY DEF Ring
  <1> DEFINE s == Counted(r)
  <1>1. CASE r.count < HistorySize
    <2>1. s.head = r.head /\ s.count = r.count + 1 /\ s.entry = r.entry
      BY <1>1 DEF Counted, Ring
    <2>2. r.count = total
      BY <1>1 DEF StoredAhead
    <2>3. \A j \in 0 .. s.count - 1 :
             r.entry[(r.head + j) % HistorySize] = total - r.count + j + 1
      BY <1>1, <1>3, <2>1 DEF StoredAhead
    <2> HIDE DEF s
    <2> QED BY <1>1, <1>3, <2>1, <2>2, <2>3 DEF HoldsLatest, s
  <1>2. CASE r.count = HistorySize
    <2>1. s.head = (r.head + 1) % HistorySize /\ s.count = r.count /\ s.entry = r.entry
      BY <1>2 DEF Counted, Ring
    <2>2. total >= HistorySize
      BY <1>2 DEF StoredAhead
    <2>3. ASSUME NEW j \in 0 .. HistorySize - 1
          PROVE  r.entry[(s.head + j) % HistorySize] = total + 1 - HistorySize + j + 1
      <3>1. s.head = IF r.head + 1 < HistorySize THEN r.head + 1
                     ELSE r.head + 1 - HistorySize
        <4>1. 1 \in 0 .. HistorySize
          OBVIOUS
        <4> QED BY <2>1, <4>1, <1>3, RingIndex
      <3>2. s.head \in 0 .. HistorySize - 1
        BY <3>1, <1>3
      <3>3. (s.head + j) % HistorySize =
              IF s.head + j < HistorySize THEN s.head + j
              ELSE s.head + j - HistorySize
        <4>1. j \in 0 .. HistorySize
          OBVIOUS
        <4> HIDE DEF s
        <4> QED BY <3>2, <4>1, RingIndex
      <3>4. j + 1 \in 0 .. HistorySize /\ j + 1 # 0
        OBVIOUS
      <3>5. (r.head + (j + 1)) % HistorySize =
              IF r.head + (j + 1) < HistorySize THEN r.head + (j + 1)
              ELSE r.head + (j + 1) - HistorySize
        BY <3>4, <1>3, RingIndex
      <3>6. (s.head + j) % HistorySize = (r.head + (j + 1)) % HistorySize
        <4> HIDE DEF s
        <4> QED BY <3>1, <3>3, <3>5, <1>3
      <3>7. r.entry[(r.head + (j + 1)) % HistorySize] = total - HistorySize + (j + 1) + 1
        BY <3>4, <1>2 DEF StoredAhead
      <3> QED BY <3>6, <3>7
    <2> HIDE DEF s
    <2> QED BY <1>2, <2>1, <2>2, <2>3 DEF HoldsLatest, s
  <1> QED BY <1>1, <1>2, <1>3

\* Every block of the simulated memory map has one of the five states.
MemStates == {"pinned", "kernel", "free", "cache", "active"}
LEMMA MatrixType ==
  ASSUME NEW total \in Nat, NEW n \in Nat
  PROVE  Matrix(total, n) \in [0 .. Chunks - 1 -> MemStates]
  BY BoundAssumption DEF Matrix, MemStates

\* Assigning one field of one entry of an array of structures.
SnapType == [calls : Nat, history : Ring]
EntryType == [active : BOOLEAN, pid : Proc \cup {NoProc}]
LEMMA SnapFields ==
  ASSUME NEW f \in [Proc -> SnapType], NEW p \in Proc, NEW c \in Nat, NEW r \in Ring
  PROVE  /\ [f EXCEPT ![p].calls = c] \in [Proc -> SnapType]
         /\ [f EXCEPT ![p].history = r] \in [Proc -> SnapType]
  BY DEF SnapType

LEMMA EntryFields ==
  ASSUME NEW f \in [Slots -> EntryType], NEW s, NEW b \in BOOLEAN
  PROVE  [f EXCEPT ![s].active = b] \in [Slots -> EntryType]
  BY DEF EntryType

-----------------------------------------------------------------------------
(* The inductive invariant.  Every part but the first speaks of the        *)
(* executions without a start-up race.                                     *)

Creating == {"truncate", "initLock", "initData"}

TypeInv == TypeOK /\ mix \in Mixes

\* Until the creator is done, nobody is past the open: at most one process is
\* creating, the mutex is free and no slot is taken.
BootInv ==
  ~raced =>
    /\ file = "absent" => ~booted /\ \A p \in Proc : pc[p] \in {"start", "dead"}
    /\ ~booted => /\ holder = NoProc
                  /\ \A p \in Proc : /\ pc[p] \in {"start", "dead"} \cup Creating
                                      /\ own[p] = NoSlot
                  /\ \A p, q \in Proc : pc[p] \in Creating /\ pc[q] \in Creating => p = q
    /\ booted => \A p \in Proc : pc[p] \notin Creating

\* A process is in a critical section exactly while it holds the mutex.
LockInv ==
  ~raced => /\ \A p \in Proc : pc[p] \in Body => holder = p
            /\ holder \in Proc => pc[holder] \in Body

\* What each of the two rings holds at each step of the call that writes it.
\* The process that dies in such a call leaves the mutex locked for ever.
HistoryInv ==
  ~raced =>
    /\ \A p \in Proc : pc[p] = "logCount" => StoredAhead(history, calls)
    /\ \A p \in Proc : pc[p] = "logTotal" => HoldsLatest(history, calls + 1)
    /\ holder # Gone /\ (\A p \in Proc : pc[p] \notin {"logCount", "logTotal"})
         => HoldsLatest(history, calls)
CommInv ==
  ~raced =>
    /\ \A p \in Proc : pc[p] = "sendCount" => StoredAhead(comm, sent)
    /\ holder # Gone /\ (\A p \in Proc : pc[p] # "sendCount") => HoldsLatest(comm, sent)

\* A copy under way has already read the counter that goes with the history.
SnapInv ==
  ~raced => \A p \in Proc :
    IF pc[p] = "readRest" THEN snap[p].calls = calls
    ELSE HoldsLatest(snap[p].history, snap[p].calls)

\* The count is right at every step, the slot a scan has picked is free until
\* it is taken, and a process that has a slot is alive.
Active(f) == {s \in Slots : f[s].active}
TableInv ==
  ~raced =>
    /\ nprocs = Cardinality(Active(procs))
    /\ \A p \in Proc : pc[p] \notin {"register", "unlock"} => slot[p] = NoSlot
    /\ \A p \in Proc : pc[p] = "register" /\ slot[p] # NoSlot => ~procs[slot[p]].active
    /\ \A p \in Proc : pc[p] = "dead" => own[p] = NoSlot
    /\ LiveKeepsSlot

IpcInv == TypeInv /\ BootInv /\ LockInv /\ HistoryInv /\ CommInv /\ SnapInv /\ TableInv

\* Types are kept by every step, whatever the start-up race did.
LEMMA TypeStep ==
  ASSUME TypeInv, [Next]_vars
  PROVE  TypeInv'
  <1>10. ASSUME NEW p \in Proc, InitData(p)
         PROVE  /\ history' \in Ring /\ comm' \in Ring
                /\ mem' \in [0 .. Chunks - 1 -> MemStates] /\ procs' \in [Slots -> EntryType]
    BY <1>10, EmptyRingType, MatrixType DEF InitData, NoEntry, EntryType
  <1>11. ASSUME NEW p \in Proc, LogStore(p)
         PROVE  history' \in Ring
    <2>1. calls + 1 \in Nat
      BY DEF TypeInv, TypeOK
    <2> QED BY <1>11, <2>1, RingTypes DEF TypeInv, TypeOK, LogStore
  <1>12. ASSUME NEW p \in Proc, LogCount(p)
         PROVE  history' \in Ring
    BY <1>12, RingTypes, 0 \in Nat DEF TypeInv, TypeOK, LogCount
  <1>13. ASSUME NEW p \in Proc, LogTotal(p)
         PROVE  calls' \in Nat /\ mem' \in [0 .. Chunks - 1 -> MemStates]
    BY <1>13, MatrixType DEF TypeInv, TypeOK, LogTotal
  <1>14. ASSUME NEW p \in Proc, SendStore(p)
         PROVE  comm' \in Ring
    <2>1. sent + 1 \in Nat
      BY DEF TypeInv, TypeOK
    <2> QED BY <1>14, <2>1, RingTypes DEF TypeInv, TypeOK, SendStore
  <1>15. ASSUME NEW p \in Proc, SendCount(p)
         PROVE  comm' \in Ring /\ sent' \in Nat
    BY <1>15, RingTypes, 0 \in Nat DEF TypeInv, TypeOK, SendCount
  <1>16. ASSUME NEW p \in Proc, ReadCalls(p)
         PROVE  snap' \in [Proc -> SnapType]
    BY <1>16, SnapFields, EmptyRingType DEF TypeInv, TypeOK, SnapType, ReadCalls
  <1>17. ASSUME NEW p \in Proc, ReadRest(p)
         PROVE  snap' \in [Proc -> SnapType]
    BY <1>17, SnapFields, 0 \in Nat DEF TypeInv, TypeOK, SnapType, ReadRest
  <1>18. ASSUME NEW p \in Proc, ScanSlot(p)
         PROVE  procs' \in [Slots -> EntryType] /\ nprocs' \in Nat
    <2>1. procs' \in [Slots -> EntryType]
      BY <1>18, EntryFields DEF TypeInv, TypeOK, EntryType, ScanSlot, Reapable
    <2>2. nprocs' \in Nat
      BY <1>18 DEF TypeInv, TypeOK, ScanSlot
    <2> QED BY <1>18, <2>1, <2>2
  <1>19. ASSUME NEW p \in Proc, ScanSlot(p)
         PROVE  ix' \in [Proc -> 0 .. MaxProcs] /\ slot' \in [Proc -> Slots \cup {NoSlot}]
    <2>1. MaxProcs \in Nat \ {0}
      BY SizeAssumption
    <2>2. ix[p] \in 0 .. MaxProcs /\ ix \in [Proc -> 0 .. MaxProcs]
      BY DEF TypeInv, TypeOK
    <2>3. slot \in [Proc -> Slots \cup {NoSlot}]
      BY DEF TypeInv, TypeOK
    <2>4. ix[p] < MaxProcs
      BY <1>19 DEF ScanSlot
    <2>5. ix[p] \in Slots /\ ix[p] + 1 \in 0 .. MaxProcs
      BY <2>1, <2>2, <2>4 DEF Slots
    <2>6. /\ ix' = [ix EXCEPT ![p] = ix[p] + 1]
          /\ slot' = [slot EXCEPT ![p] = ix[p]] \/ slot' = [slot EXCEPT ![p] = slot[p]]
      BY <1>19 DEF ScanSlot
    <2> QED BY <2>2, <2>3, <2>5, <2>6
  <1>20. ASSUME NEW p \in Proc, TakeSlot(p)
         PROVE  /\ procs' \in [Slots -> EntryType]
                /\ nprocs' \in Nat /\ own' \in [Proc -> Slots \cup {NoSlot}]
    <2>1. CASE slot[p] = NoSlot
      BY <1>20, <2>1 DEF TypeInv, TypeOK, EntryType, TakeSlot, procVars
    <2>2. CASE slot[p] # NoSlot
      <3>1. [active |-> TRUE, pid |-> p] \in EntryType /\ slot[p] \in Slots
        BY <2>2 DEF EntryType, TypeInv, TypeOK
      <3>2. procs \in [Slots -> EntryType]
        BY DEF EntryType, TypeInv, TypeOK
      <3>3. procs' \in [Slots -> EntryType]
        BY <1>20, <2>2, <3>1, <3>2 DEF TakeSlot
      <3>4. nprocs' = nprocs + 1 /\ own' = [own EXCEPT ![p] = slot[p]]
        BY <1>20, <2>2 DEF TakeSlot
      <3>5. nprocs \in Nat /\ own \in [Proc -> Slots \cup {NoSlot}]
        BY DEF TypeInv, TypeOK
      <3> QED BY <3>1, <3>3, <3>4, <3>5
    <2> QED BY <2>1, <2>2
  <1>21. ASSUME NEW p \in Proc, ReleaseSlot(p)
         PROVE  /\ procs' \in [Slots -> EntryType]
                /\ nprocs' \in Nat /\ own' \in [Proc -> Slots \cup {NoSlot}]
    <2>1. procs \in [Slots -> EntryType]
      BY DEF EntryType, TypeInv, TypeOK
    <2>2. procs' = procs \/ \E s : procs' = [procs EXCEPT ![s].active = FALSE]
      BY <1>21 DEF ReleaseSlot
    <2>3. procs' \in [Slots -> EntryType]
      <3>1. ASSUME NEW s PROVE [procs EXCEPT ![s].active = FALSE] \in [Slots -> EntryType]
        BY <2>1, EntryFields, Zenon
      <3> QED BY <2>1, <2>2, <3>1, Zenon
    <2> QED BY <1>21, <2>3 DEF TypeInv, TypeOK, ReleaseSlot
  <1>22. ASSUME NEW p \in Proc, Die(p)
         PROVE  snap' \in [Proc -> SnapType]
    BY <1>22, EmptyRingType DEF TypeInv, TypeOK, Die, NoSnap, SnapType
  <1> USE SizeAssumption, ProcAssumption, BoundAssumption, MixAssumption
      DEF TypeInv, TypeOK, PC, Body, AllOps, MemStates, SnapType, EntryType, Slots,
          NoSlot, Goto, lockVars, logVars, commVars, procVars, localVars, bootVars
  <1>0. CASE UNCHANGED vars
    BY <1>0 DEF vars
  <1>1. ASSUME NEW p \in Proc, mix' = mix,
               \/ Step(p) \/ (\E o \in mix.ops : Call(p, o)) \/ TruncateFails(p)
               \/ Close(p) \/ Die(p) \/ Start(p)
        PROVE  TypeInv'
    <2>1. CASE OpenCreate(p)
      BY <1>1, <2>1 DEF OpenCreate
    <2>2. CASE Truncate(p)
      BY <1>1, <2>2 DEF Truncate
    <2>3. CASE InitLock(p)
      BY <1>1, <2>3 DEF InitLock
    <2>4. CASE InitData(p)
      BY <1>1, <2>4, <1>10 DEF InitData
    <2>5. CASE OpenExisting(p)
      BY <1>1, <2>5 DEF OpenExisting
    <2>6. CASE LockShm(p)
      BY <1>1, <2>6 DEF LockShm
    <2>7. CASE SleepPrivate(p)
      BY <1>1, <2>7 DEF SleepPrivate
    <2>8. CASE UnlockShm(p)
      <3>1. pc' \in [Proc -> PC]
        BY ZenonT(60), <2>8 DEF UnlockShm
      <3> QED BY <1>1, <2>8, <3>1 DEF UnlockShm
    <2>9. CASE LogStore(p)
      BY <1>1, <2>9, <1>11 DEF LogStore
    <2>10. CASE LogCount(p)
      BY <1>1, <2>10, <1>12 DEF LogCount
    <2>11. CASE LogTotal(p)
      BY <1>1, <2>11, <1>13 DEF LogTotal
    <2>12. CASE SendStore(p)
      BY <1>1, <2>12, <1>14 DEF SendStore
    <2>13. CASE SendCount(p)
      BY <1>1, <2>13, <1>15 DEF SendCount
    <2>14. CASE StatusStore(p)
      BY <1>1, <2>14 DEF StatusStore
    <2>15. ASSUME NEW i \in {3} \cap DOMAIN mem, TouchMemChunk(p, i, "active") PROVE TypeInv'
      BY <1>1, <2>15 DEF TouchMemChunk
    <2>16. CASE ReadCalls(p)
      BY <1>1, <2>16, <1>16 DEF ReadCalls
    <2>17. CASE ReadRest(p)
      BY <1>1, <2>17, <1>17 DEF ReadRest
    <2>18. CASE ScanSlot(p)
      BY <1>1, <2>18, <1>18, <1>19 DEF ScanSlot
    <2>19. CASE TakeSlot(p)
      BY <1>1, <2>19, <1>20 DEF TakeSlot
    <2>20. CASE ReleaseSlot(p)
      BY <1>1, <2>20, <1>21 DEF ReleaseSlot
    <2>21. ASSUME NEW o \in mix.ops, Call(p, o) PROVE TypeInv'
      BY SMTT(40), <1>1, <2>21 DEF Call
    <2>22. CASE TruncateFails(p)
      BY <1>1, <2>22 DEF TruncateFails
    <2>23. CASE Close(p)
      BY <1>1, <2>23 DEF Close
    <2>24. CASE Die(p)
      <3>1. /\ pc' \in [Proc -> PC] /\ op' \in [Proc -> AllOps]
            /\ ix' \in [Proc -> 0 .. MaxProcs] /\ slot' \in [Proc -> Slots \cup {NoSlot}]
            /\ own' \in [Proc -> Slots \cup {NoSlot}]
        BY <2>24 DEF Die
      <3>2. holder' \in Proc \cup {NoProc, Gone}
        BY <2>24 DEF Die
      <3> QED BY <1>1, <2>24, <1>22, <3>1, <3>2 DEF Die
    <2>25. CASE Start(p)
      BY <1>1, <2>25 DEF Start
    <2> QED
      BY <1>1, <2>1, <2>2, <2>3, <2>4, <2>5, <2>6, <2>7, <2>8, <2>9, <2>10, <2>11,
         <2>12, <2>13, <2>14, <2>15, <2>16, <2>17, <2>18, <2>19, <2>20, <2>21, <2>22,
         <2>23, <2>24, <2>25
      DEF Step
  <1> QED BY <1>0, <1>1 DEF Next

\* Nobody gets past the open before the creator is done.
LEMMA BootStep ==
  ASSUME TypeInv, BootInv, [Next]_vars
  PROVE  BootInv'
  <1> /\ pc \in [Proc -> PC] /\ op \in [Proc -> AllOps] /\ own \in [Proc -> Slots \cup {NoSlot}]
      /\ booted \in BOOLEAN /\ raced \in BOOLEAN
    BY DEF TypeInv, TypeOK
  <1> USE ProcAssumption DEF BootInv, Creating, Body, Goto,
          lockVars, logVars, commVars, procVars, localVars, bootVars
  <1>0. CASE UNCHANGED vars
    BY <1>0 DEF vars
  <1>1. ASSUME NEW p \in Proc, mix' = mix,
               \/ Step(p) \/ (\E o \in mix.ops : Call(p, o)) \/ TruncateFails(p)
               \/ Close(p) \/ Die(p) \/ Start(p)
        PROVE  BootInv'
    <2>1. CASE OpenCreate(p)
      BY <1>1, <2>1 DEF OpenCreate
    <2>2. CASE Truncate(p)
      BY <1>1, <2>2 DEF Truncate
    <2>3. CASE InitLock(p)
      BY <1>1, <2>3 DEF InitLock
    <2>4. CASE InitData(p)
      BY <1>1, <2>4 DEF InitData
    <2>5. CASE OpenExisting(p)
      BY <1>1, <2>5 DEF OpenExisting
    <2>6. CASE LockShm(p)
      BY <1>1, <2>6 DEF LockShm, PC, AllOps
    <2>7. CASE SleepPrivate(p)
      BY <1>1, <2>7 DEF SleepPrivate
    <2>8. CASE UnlockShm(p)
      BY <1>1, <2>8 DEF UnlockShm
    <2>9. CASE LogStore(p)
      BY <1>1, <2>9 DEF LogStore
    <2>10. CASE LogCount(p)
      BY <1>1, <2>10 DEF LogCount
    <2>11. CASE LogTotal(p)
      BY <1>1, <2>11 DEF LogTotal
    <2>12. CASE SendStore(p)
      BY <1>1, <2>12 DEF SendStore
    <2>13. CASE SendCount(p)
      BY <1>1, <2>13 DEF SendCount
    <2>14. CASE StatusStore(p)
      BY <1>1, <2>14 DEF StatusStore
    <2>15. ASSUME NEW i \in {3} \cap DOMAIN mem, TouchMemChunk(p, i, "active") PROVE BootInv'
      BY <1>1, <2>15 DEF TouchMemChunk
    <2>16. CASE ReadCalls(p)
      BY <1>1, <2>16 DEF ReadCalls
    <2>17. CASE ReadRest(p)
      BY <1>1, <2>17 DEF ReadRest
    <2>18. CASE ScanSlot(p)
      BY <1>1, <2>18 DEF ScanSlot
    <2>19. CASE TakeSlot(p)
      BY <1>1, <2>19 DEF TakeSlot
    <2>20. CASE ReleaseSlot(p)
      BY <1>1, <2>20 DEF ReleaseSlot
    <2>21. ASSUME NEW o \in mix.ops, Call(p, o) PROVE BootInv'
      BY <1>1, <2>21 DEF Call
    <2>22. CASE TruncateFails(p)
      BY <1>1, <2>22 DEF TruncateFails
    <2>23. CASE Close(p)
      BY <1>1, <2>23 DEF Close
    <2>24. CASE Die(p)
      BY <1>1, <2>24 DEF Die
    <2>25. CASE Start(p)
      BY <1>1, <2>25 DEF Start
    <2> QED
      BY <1>1, <2>1, <2>2, <2>3, <2>4, <2>5, <2>6, <2>7, <2>8, <2>9, <2>10, <2>11,
         <2>12, <2>13, <2>14, <2>15, <2>16, <2>17, <2>18, <2>19, <2>20, <2>21, <2>22,
         <2>23, <2>24, <2>25
      DEF Step
  <1> QED BY <1>0, <1>1 DEF Next

\* The mutex excludes: whoever takes it finds it free, and only its holder gives it back.
LEMMA LockStep ==
  ASSUME TypeInv, BootInv, LockInv, [Next]_vars
  PROVE  LockInv'
  <1> /\ pc \in [Proc -> PC] /\ op \in [Proc -> AllOps] /\ own \in [Proc -> Slots \cup {NoSlot}]
      /\ booted \in BOOLEAN /\ raced \in BOOLEAN
    BY DEF TypeInv, TypeOK
  <1> USE ProcAssumption DEF BootInv, Creating, LockInv, Body, Goto,
          lockVars, logVars, commVars, procVars, localVars, bootVars
  <1>0. CASE UNCHANGED vars
    BY <1>0 DEF vars
  <1>1. ASSUME NEW p \in Proc, mix' = mix,
               \/ Step(p) \/ (\E o \in mix.ops : Call(p, o)) \/ TruncateFails(p)
               \/ Close(p) \/ Die(p) \/ Start(p)
        PROVE  LockInv'
    <2>1. CASE OpenCreate(p)
      BY <1>1, <2>1 DEF OpenCreate
    <2>2. CASE Truncate(p)
      BY <1>1, <2>2 DEF Truncate
    <2>3. CASE InitLock(p)
      BY <1>1, <2>3 DEF InitLock
    <2>4. CASE InitData(p)
      BY <1>1, <2>4 DEF InitData
    <2>5. CASE OpenExisting(p)
      BY <1>1, <2>5 DEF OpenExisting
    <2>6. CASE LockShm(p)
      BY <1>1, <2>6 DEF LockShm, AllOps
    <2>7. CASE SleepPrivate(p)
      BY <1>1, <2>7 DEF SleepPrivate
    <2>8. CASE UnlockShm(p)
      BY <1>1, <2>8 DEF UnlockShm
    <2>9. CASE LogStore(p)
      BY <1>1, <2>9 DEF LogStore
    <2>10. CASE LogCount(p)
      BY <1>1, <2>10 DEF LogCount
    <2>11. CASE LogTotal(p)
      BY <1>1, <2>11 DEF LogTotal
    <2>12. CASE SendStore(p)
      BY <1>1, <2>12 DEF SendStore
    <2>13. CASE SendCount(p)
      BY <1>1, <2>13 DEF SendCount
    <2>14. CASE StatusStore(p)
      BY <1>1, <2>14 DEF StatusStore
    <2>15. ASSUME NEW i \in {3} \cap DOMAIN mem, TouchMemChunk(p, i, "active") PROVE LockInv'
      BY <1>1, <2>15 DEF TouchMemChunk
    <2>16. CASE ReadCalls(p)
      BY <1>1, <2>16 DEF ReadCalls
    <2>17. CASE ReadRest(p)
      BY <1>1, <2>17 DEF ReadRest
    <2>18. CASE ScanSlot(p)
      BY <1>1, <2>18 DEF ScanSlot
    <2>19. CASE TakeSlot(p)
      BY <1>1, <2>19 DEF TakeSlot
    <2>20. CASE ReleaseSlot(p)
      BY <1>1, <2>20 DEF ReleaseSlot
    <2>21. ASSUME NEW o \in mix.ops, Call(p, o) PROVE LockInv'
      BY <1>1, <2>21 DEF Call
    <2>22. CASE TruncateFails(p)
      BY <1>1, <2>22 DEF TruncateFails
    <2>23. CASE Close(p)
      BY <1>1, <2>23 DEF Close
    <2>24. CASE Die(p)
      BY <1>1, <2>24 DEF Die
    <2>25. CASE Start(p)
      BY <1>1, <2>25 DEF Start
    <2> QED
      BY <1>1, <2>1, <2>2, <2>3, <2>4, <2>5, <2>6, <2>7, <2>8, <2>9, <2>10, <2>11,
         <2>12, <2>13, <2>14, <2>15, <2>16, <2>17, <2>18, <2>19, <2>20, <2>21, <2>22,
         <2>23, <2>24, <2>25
      DEF Step
  <1> QED BY <1>0, <1>1 DEF Next

\* The history across every step, a death between its store and its count included.
LEMMA HistoryStep ==
  ASSUME TypeInv, BootInv, LockInv, HistoryInv, [Next]_vars
  PROVE  HistoryInv'
  <1> /\ pc \in [Proc -> PC] /\ op \in [Proc -> AllOps] /\ snap \in [Proc -> SnapType]
      /\ booted \in BOOLEAN /\ raced \in BOOLEAN /\ holder \in Proc \cup {NoProc, Gone}
      /\ history \in Ring /\ comm \in Ring /\ calls \in Nat /\ sent \in Nat
    BY DEF TypeInv, TypeOK, SnapType
  <1> USE ProcAssumption DEF LockInv, HistoryInv, Body, Goto,
          lockVars, logVars, commVars, procVars, localVars, bootVars
  <1>0. CASE UNCHANGED vars
    BY <1>0 DEF vars
  <1>1. ASSUME NEW p \in Proc, mix' = mix,
               \/ Step(p) \/ (\E o \in mix.ops : Call(p, o)) \/ TruncateFails(p)
               \/ Close(p) \/ Die(p) \/ Start(p)
        PROVE  HistoryInv'
    <2>1. CASE OpenCreate(p)
      BY <1>1, <2>1 DEF OpenCreate
    <2>2. CASE Truncate(p)
      BY <1>1, <2>2 DEF Truncate
    <2>3. CASE InitLock(p)
      BY <1>1, <2>3 DEF InitLock, BootInv, Creating
    <2>4. CASE InitData(p)
      BY <1>1, <2>4, EmptyHolds DEF InitData, BootInv, Creating
    <2>5. CASE OpenExisting(p)
      BY <1>1, <2>5 DEF OpenExisting
    <2>6. CASE LockShm(p)
      BY <1>1, <2>6 DEF LockShm, AllOps
    <2>7. CASE SleepPrivate(p)
      BY <1>1, <2>7 DEF SleepPrivate
    <2>8. CASE UnlockShm(p)
      BY <1>1, <2>8 DEF UnlockShm
    <2>9. CASE LogStore(p)
      BY <1>1, <2>9, StoreAhead DEF LogStore
    <2>10. CASE LogCount(p)
      BY <1>1, <2>10, CountAhead DEF LogCount
    <2>11. CASE LogTotal(p)
      BY <1>1, <2>11 DEF LogTotal
    <2>12. CASE SendStore(p)
      BY <1>1, <2>12 DEF SendStore
    <2>13. CASE SendCount(p)
      BY <1>1, <2>13 DEF SendCount
    <2>14. CASE StatusStore(p)
      BY <1>1, <2>14 DEF StatusStore
    <2>15. ASSUME NEW i \in {3} \cap DOMAIN mem, TouchMemChunk(p, i, "active") PROVE HistoryInv'
      BY <1>1, <2>15 DEF TouchMemChunk
    <2>16. CASE ReadCalls(p)
      BY <1>1, <2>16 DEF ReadCalls
    <2>17. CASE ReadRest(p)
      BY <1>1, <2>17 DEF ReadRest
    <2>18. CASE ScanSlot(p)
      BY <1>1, <2>18 DEF ScanSlot
    <2>19. CASE TakeSlot(p)
      BY <1>1, <2>19 DEF TakeSlot
    <2>20. CASE ReleaseSlot(p)
      BY <1>1, <2>20 DEF ReleaseSlot
    <2>21. ASSUME NEW o \in mix.ops, Call(p, o) PROVE HistoryInv'
      BY <1>1, <2>21 DEF Call
    <2>22. CASE TruncateFails(p)
      BY <1>1, <2>22 DEF TruncateFails
    <2>23. CASE Close(p)
      BY <1>1, <2>23 DEF Close
    <2>24. CASE Die(p)
      BY <1>1, <2>24 DEF Die
    <2>25. CASE Start(p)
      BY <1>1, <2>25 DEF Start
    <2> QED
      BY <1>1, <2>1, <2>2, <2>3, <2>4, <2>5, <2>6, <2>7, <2>8, <2>9, <2>10, <2>11,
         <2>12, <2>13, <2>14, <2>15, <2>16, <2>17, <2>18, <2>19, <2>20, <2>21, <2>22,
         <2>23, <2>24, <2>25
      DEF Step
  <1> QED BY <1>0, <1>1 DEF Next

\* The same for the messages.
LEMMA CommStep ==
  ASSUME TypeInv, BootInv, LockInv, CommInv, [Next]_vars
  PROVE  CommInv'
  <1> /\ pc \in [Proc -> PC] /\ op \in [Proc -> AllOps] /\ snap \in [Proc -> SnapType]
      /\ booted \in BOOLEAN /\ raced \in BOOLEAN /\ holder \in Proc \cup {NoProc, Gone}
      /\ history \in Ring /\ comm \in Ring /\ calls \in Nat /\ sent \in Nat
    BY DEF TypeInv, TypeOK, SnapType
  <1> USE ProcAssumption DEF LockInv, CommInv, Body, Goto,
          lockVars, logVars, commVars, procVars, localVars, bootVars
  <1>0. CASE UNCHANGED vars
    BY <1>0 DEF vars
  <1>1. ASSUME NEW p \in Proc, mix' = mix,
               \/ Step(p) \/ (\E o \in mix.ops : Call(p, o)) \/ TruncateFails(p)
               \/ Close(p) \/ Die(p) \/ Start(p)
        PROVE  CommInv'
    <2>1. CASE OpenCreate(p)
      BY <1>1, <2>1 DEF OpenCreate
    <2>2. CASE Truncate(p)
      BY <1>1, <2>2 DEF Truncate
    <2>3. CASE InitLock(p)
      BY <1>1, <2>3 DEF InitLock, BootInv, Creating
    <2>4. CASE InitData(p)
      BY <1>1, <2>4, EmptyHolds DEF InitData, BootInv, Creating
    <2>5. CASE OpenExisting(p)
      BY <1>1, <2>5 DEF OpenExisting
    <2>6. CASE LockShm(p)
      BY <1>1, <2>6 DEF LockShm, AllOps
    <2>7. CASE SleepPrivate(p)
      BY <1>1, <2>7 DEF SleepPrivate
    <2>8. CASE UnlockShm(p)
      BY <1>1, <2>8 DEF UnlockShm
    <2>9. CASE LogStore(p)
      BY <1>1, <2>9 DEF LogStore
    <2>10. CASE LogCount(p)
      BY <1>1, <2>10 DEF LogCount
    <2>11. CASE LogTotal(p)
      BY <1>1, <2>11 DEF LogTotal
    <2>12. CASE SendStore(p)
      BY <1>1, <2>12, StoreAhead DEF SendStore
    <2>13. CASE SendCount(p)
      BY <1>1, <2>13, CountAhead DEF SendCount
    <2>14. CASE StatusStore(p)
      BY <1>1, <2>14 DEF StatusStore
    <2>15. ASSUME NEW i \in {3} \cap DOMAIN mem, TouchMemChunk(p, i, "active") PROVE CommInv'
      BY <1>1, <2>15 DEF TouchMemChunk
    <2>16. CASE ReadCalls(p)
      BY <1>1, <2>16 DEF ReadCalls
    <2>17. CASE ReadRest(p)
      BY <1>1, <2>17 DEF ReadRest
    <2>18. CASE ScanSlot(p)
      BY <1>1, <2>18 DEF ScanSlot
    <2>19. CASE TakeSlot(p)
      BY <1>1, <2>19 DEF TakeSlot
    <2>20. CASE ReleaseSlot(p)
      BY <1>1, <2>20 DEF ReleaseSlot
    <2>21. ASSUME NEW o \in mix.ops, Call(p, o) PROVE CommInv'
      BY <1>1, <2>21 DEF Call
    <2>22. CASE TruncateFails(p)
      BY <1>1, <2>22 DEF TruncateFails
    <2>23. CASE Close(p)
      BY <1>1, <2>23 DEF Close
    <2>24. CASE Die(p)
      BY <1>1, <2>24 DEF Die
    <2>25. CASE Start(p)
      BY <1>1, <2>25 DEF Start
    <2> QED
      BY <1>1, <2>1, <2>2, <2>3, <2>4, <2>5, <2>6, <2>7, <2>8, <2>9, <2>10, <2>11,
         <2>12, <2>13, <2>14, <2>15, <2>16, <2>17, <2>18, <2>19, <2>20, <2>21, <2>22,
         <2>23, <2>24, <2>25
      DEF Step
  <1> QED BY <1>0, <1>1 DEF Next

\* A reader's copy: nobody changes the counter or the history while it is made.
LEMMA SnapStep ==
  ASSUME TypeInv, BootInv, LockInv, HistoryInv, SnapInv, [Next]_vars
  PROVE  SnapInv'
  <1> /\ pc \in [Proc -> PC] /\ op \in [Proc -> AllOps] /\ snap \in [Proc -> SnapType]
      /\ booted \in BOOLEAN /\ raced \in BOOLEAN /\ holder \in Proc \cup {NoProc, Gone}
      /\ history \in Ring /\ comm \in Ring /\ calls \in Nat /\ sent \in Nat
    BY DEF TypeInv, TypeOK, SnapType
  <1> USE ProcAssumption DEF LockInv, SnapInv, Body, Goto,
          lockVars, logVars, commVars, procVars, localVars, bootVars
  <1>0. CASE UNCHANGED vars
    BY <1>0 DEF vars
  <1>1. ASSUME NEW p \in Proc, mix' = mix,
               \/ Step(p) \/ (\E o \in mix.ops : Call(p, o)) \/ TruncateFails(p)
               \/ Close(p) \/ Die(p) \/ Start(p)
        PROVE  SnapInv'
    <2>1. CASE OpenCreate(p)
      BY <1>1, <2>1 DEF OpenCreate
    <2>2. CASE Truncate(p)
      BY <1>1, <2>2 DEF Truncate
    <2>3. CASE InitLock(p)
      BY <1>1, <2>3 DEF InitLock
    <2>4. CASE InitData(p)
      BY <1>1, <2>4 DEF InitData, BootInv, Creating
    <2>5. CASE OpenExisting(p)
      BY <1>1, <2>5 DEF OpenExisting
    <2>6. CASE LockShm(p)
      BY <1>1, <2>6 DEF LockShm, AllOps
    <2>7. CASE SleepPrivate(p)
      BY <1>1, <2>7 DEF SleepPrivate
    <2>8. CASE UnlockShm(p)
      BY <1>1, <2>8 DEF UnlockShm
    <2>9. CASE LogStore(p)
      BY <1>1, <2>9 DEF LogStore
    <2>10. CASE LogCount(p)
      BY <1>1, <2>10 DEF LogCount
    <2>11. CASE LogTotal(p)
      BY <1>1, <2>11 DEF LogTotal
    <2>12. CASE SendStore(p)
      BY <1>1, <2>12 DEF SendStore
    <2>13. CASE SendCount(p)
      BY <1>1, <2>13 DEF SendCount
    <2>14. CASE StatusStore(p)
      BY <1>1, <2>14 DEF StatusStore
    <2>15. ASSUME NEW i \in {3} \cap DOMAIN mem, TouchMemChunk(p, i, "active") PROVE SnapInv'
      BY <1>1, <2>15 DEF TouchMemChunk
    <2>16. CASE ReadCalls(p)
      BY <1>1, <2>16 DEF ReadCalls, SnapType
    <2>17. CASE ReadRest(p)
      BY <1>1, <2>17 DEF ReadRest, HistoryInv, SnapType
    <2>18. CASE ScanSlot(p)
      BY <1>1, <2>18 DEF ScanSlot
    <2>19. CASE TakeSlot(p)
      BY <1>1, <2>19 DEF TakeSlot
    <2>20. CASE ReleaseSlot(p)
      BY <1>1, <2>20 DEF ReleaseSlot
    <2>21. ASSUME NEW o \in mix.ops, Call(p, o) PROVE SnapInv'
      BY <1>1, <2>21 DEF Call
    <2>22. CASE TruncateFails(p)
      BY <1>1, <2>22 DEF TruncateFails
    <2>23. CASE Close(p)
      BY <1>1, <2>23 DEF Close
    <2>24. CASE Die(p)
      BY <1>1, <2>24, EmptyHolds DEF Die, NoSnap
    <2>25. CASE Start(p)
      BY <1>1, <2>25 DEF Start
    <2> QED
      BY <1>1, <2>1, <2>2, <2>3, <2>4, <2>5, <2>6, <2>7, <2>8, <2>9, <2>10, <2>11,
         <2>12, <2>13, <2>14, <2>15, <2>16, <2>17, <2>18, <2>19, <2>20, <2>21, <2>22,
         <2>23, <2>24, <2>25
      DEF Step
  <1> QED BY <1>0, <1>1 DEF Next

\* How one entry of the process table counts.
LEMMA ActiveCount ==
  ASSUME NEW f \in [Slots -> EntryType], NEW s \in Slots
  PROVE  /\ Cardinality(Active(f)) \in Nat
         /\ f[s].active => Cardinality(Active(f)) > 0
         /\ Cardinality(Active([f EXCEPT ![s].active = FALSE])) =
              IF f[s].active THEN Cardinality(Active(f)) - 1 ELSE Cardinality(Active(f))
         /\ \A p \in Proc : ~f[s].active =>
              Cardinality(Active([f EXCEPT ![s] = [active |-> TRUE, pid |-> p]])) =
              Cardinality(Active(f)) + 1
  <1>1. IsFiniteSet(Slots)
    BY FS_Interval, SizeAssumption DEF Slots
  <1>2. IsFiniteSet(Active(f)) /\ Active(f) \subseteq Slots
    BY <1>1, FS_Subset DEF Active
  <1>3. Cardinality(Active(f)) \in Nat
    BY <1>2, FS_CardinalityType
  <1>4. f[s].active => s \in Active(f) /\ Cardinality(Active(f)) > 0
    BY <1>2, <1>3, FS_EmptySet DEF Active
  <1>5. Active([f EXCEPT ![s].active = FALSE]) = Active(f) \ {s}
    BY DEF Active, EntryType
  <1>6. Cardinality(Active(f) \ {s}) =
          IF f[s].active THEN Cardinality(Active(f)) - 1 ELSE Cardinality(Active(f))
    <2>1. s \in Active(f) <=> f[s].active
      BY DEF Active
    <2> QED BY <1>2, <2>1, FS_RemoveElement
  <1>7. ASSUME NEW p \in Proc, ~f[s].active
        PROVE  Cardinality(Active([f EXCEPT ![s] = [active |-> TRUE, pid |-> p]])) =
               Cardinality(Active(f)) + 1
    <2>1. Active([f EXCEPT ![s] = [active |-> TRUE, pid |-> p]]) = Active(f) \cup {s}
      BY DEF Active
    <2>2. s \notin Active(f)
      BY <1>7 DEF Active
    <2> QED BY <1>2, <2>1, <2>2, FS_AddElement
  <1> QED BY <1>3, <1>4, <1>5, <1>6, <1>7

\* The first slot that bears a pid is a slot that bears it.
LEMMA FirstMine ==
  ASSUME NEW S \in SUBSET Slots, S # {}
  PROVE  (CHOOSE s \in S : \A t \in S : s <= t) \in S
  <1> DEFINE R == OpToRel(<, Nat)
  <1>0. S \subseteq Nat
    BY SizeAssumption DEF Slots
  <1>1. IsWellFoundedOn(R, Nat)
    BY NatLessThanWellFounded
  <1>2. PICK i \in S : \A j \in S : ~(<<j, i>> \in R)
    <2> HIDE DEF R
    <2> QED BY <1>0, <1>1, WFMin
  <1>3. R = {ss \in Nat \X Nat : ss[1] < ss[2]}
    BY Zenon DEF OpToRel
  <1>4. ASSUME NEW j \in S PROVE i <= j
    <2> HIDE DEF R
    <2>1. <<j, i>> \in Nat \X Nat /\ <<j, i>>[1] = j /\ <<j, i>>[2] = i
      BY <1>0
    <2>2. ~(j < i)
      BY <1>2, <1>3, <2>1
    <2> QED BY <1>0, <2>2
  <1> QED BY <1>4

\* The process table: a scan reaps only the dead, a taken slot was free, and the
\* count follows, whatever dies in between and whichever pid is used again.
LEMMA TableStep ==
  ASSUME TypeInv, BootInv, LockInv, TableInv, [Next]_vars
  PROVE  TableInv'
  <1> /\ pc \in [Proc -> PC] /\ op \in [Proc -> AllOps] /\ procs \in [Slots -> EntryType]
      /\ booted \in BOOLEAN /\ raced \in BOOLEAN /\ nprocs \in Nat
      /\ own \in [Proc -> Slots \cup {NoSlot}] /\ slot \in [Proc -> Slots \cup {NoSlot}]
      /\ ix \in [Proc -> 0 .. MaxProcs] /\ NoSlot \notin Slots
    BY SizeAssumption DEF TypeInv, TypeOK, EntryType, Slots, NoSlot
  <1> USE DEF TableInv, LiveKeepsSlot, Goto,
          lockVars, logVars, commVars, procVars, localVars, bootVars
  <1>0. CASE UNCHANGED vars
    BY <1>0 DEF vars
  <1>1. ASSUME NEW p \in Proc, mix' = mix,
               \/ Step(p) \/ (\E o \in mix.ops : Call(p, o)) \/ TruncateFails(p)
               \/ Close(p) \/ Die(p) \/ Start(p)
        PROVE  TableInv'
    <2>1. CASE OpenCreate(p)
      BY <1>1, <2>1 DEF OpenCreate
    <2>2. CASE Truncate(p)
      BY <1>1, <2>2 DEF Truncate
    <2>3. CASE InitLock(p)
      BY <1>1, <2>3 DEF InitLock
    <2>4. CASE InitData(p)
      <3>1. Active(procs') = {}
        BY <2>4 DEF InitData, NoEntry, Active
      <3>2. nprocs' = Cardinality(Active(procs'))
        BY <2>4, <3>1, FS_EmptySet DEF InitData
      <3> QED BY <1>1, <2>4, <3>2 DEF InitData, BootInv, Creating
    <2>5. CASE OpenExisting(p)
      BY <1>1, <2>5 DEF OpenExisting
    <2>6. CASE LockShm(p)
      BY <1>1, <2>6 DEF LockShm, AllOps
    <2>7. CASE SleepPrivate(p)
      BY <1>1, <2>7 DEF SleepPrivate
    <2>8. CASE UnlockShm(p)
      BY <1>1, <2>8 DEF UnlockShm
    <2>9. CASE LogStore(p)
      BY <1>1, <2>9 DEF LogStore
    <2>10. CASE LogCount(p)
      BY <1>1, <2>10 DEF LogCount
    <2>11. CASE LogTotal(p)
      BY <1>1, <2>11 DEF LogTotal
    <2>12. CASE SendStore(p)
      BY <1>1, <2>12 DEF SendStore
    <2>13. CASE SendCount(p)
      BY <1>1, <2>13 DEF SendCount
    <2>14. CASE StatusStore(p)
      BY <1>1, <2>14 DEF StatusStore
    <2>15. ASSUME NEW i \in {3} \cap DOMAIN mem, TouchMemChunk(p, i, "active") PROVE TableInv'
      BY <1>1, <2>15 DEF TouchMemChunk
    <2>16. CASE ReadCalls(p)
      BY <1>1, <2>16 DEF ReadCalls
    <2>17. CASE ReadRest(p)
      BY <1>1, <2>17 DEF ReadRest
    <2>18. CASE ScanSlot(p)
      <3> SUFFICES ASSUME ~raced PROVE TableInv'
        BY <2>18 DEF ScanSlot
      <3> DEFINE s == ix[p]
      <3>1. s \in Slots
        BY <2>18, SizeAssumption DEF ScanSlot, Slots
      <3>2. CASE Reapable(s)
        <4>1. procs' = [procs EXCEPT ![s].active = FALSE] /\ procs[s].active
          BY <2>18, <3>1, <3>2 DEF ScanSlot, Reapable, EntryType
        <4>2. nprocs' = Cardinality(Active(procs'))
          BY <2>18, <3>1, <3>2, <4>1, ActiveCount DEF ScanSlot
        <4>3. \A q \in Proc : own[q] # NoSlot => own[q] # s
          <5> SUFFICES ASSUME NEW q \in Proc, own[q] # NoSlot, own[q] = s PROVE FALSE
            OBVIOUS
          <5>1. procs[s] = [active |-> TRUE, pid |-> q] /\ pc[q] # "dead"
            OBVIOUS
          <5>2. procs[s].pid = q
            BY <5>1
          <5> QED BY <3>2, <5>1, <5>2 DEF Reapable
        <4>4. LiveKeepsSlot'
          BY <2>18, <4>1, <4>3 DEF ScanSlot, EntryType
        <4>5. ~procs'[s].active /\ \A t \in Slots \ {s} : procs'[t] = procs[t]
          BY <3>1, <4>1 DEF EntryType
        <4> QED BY <2>18, <3>1, <4>2, <4>4, <4>5 DEF ScanSlot
      <3>3. CASE ~Reapable(s)
        <4>1. procs' = procs /\ nprocs' = nprocs
          BY <2>18, <3>1, <3>3 DEF ScanSlot, Reapable, EntryType
        <4> QED BY <2>18, <3>1, <4>1 DEF ScanSlot
      <3> QED BY <3>2, <3>3
    <2>19. CASE TakeSlot(p)
      <3> SUFFICES ASSUME ~raced PROVE TableInv'
        BY <2>19 DEF TakeSlot
      <3>1. CASE slot[p] = NoSlot
        BY <2>19, <3>1 DEF TakeSlot
      <3>2. CASE slot[p] # NoSlot
        <4>1. /\ procs' = [procs EXCEPT ![slot[p]] = [active |-> TRUE, pid |-> p]]
              /\ nprocs' = nprocs + 1
              /\ own' = [own EXCEPT ![p] = slot[p]]
          BY <2>19, <3>2 DEF TakeSlot
        <4>2. slot[p] \in Slots /\ ~procs[slot[p]].active
          BY <2>19, <3>2 DEF TakeSlot
        <4>3. nprocs' = Cardinality(Active(procs'))
          BY ZenonT(60), <4>1, <4>2, ActiveCount
        <4>4. LiveKeepsSlot'
          <5>1. ASSUME NEW q \in Proc, q # p, own[q] # NoSlot
                PROVE  procs'[own'[q]] = [active |-> TRUE, pid |-> q]
            <6>1. procs[own[q]] = [active |-> TRUE, pid |-> q]
              BY <5>1
            <6>2. procs[own[q]].active
              BY <6>1
            <6>3. own[q] # slot[p] /\ own[q] \in Slots
              BY <4>2, <5>1, <6>2
            <6> QED BY <4>1, <5>1, <6>1, <6>3
          <5>2. procs'[own'[p]] = [active |-> TRUE, pid |-> p]
            BY <4>1, <4>2
          <5> QED BY <4>1, <5>1, <5>2
        <4>5. \A q \in Proc : q # p => pc[q] # "register"
          BY <2>19 DEF TakeSlot, LockInv, Body
        <4> QED BY <2>19, <4>1, <4>3, <4>4, <4>5 DEF TakeSlot
      <3> QED BY <3>1, <3>2
    <2>20. CASE ReleaseSlot(p)
      <3> SUFFICES ASSUME ~raced PROVE TableInv'
        BY <2>20 DEF ReleaseSlot
      <3>0. /\ own' = [own EXCEPT ![p] = NoSlot] /\ pc' = [pc EXCEPT ![p] = "unlock"]
            /\ slot' = slot /\ pc[p] = "unregister"
        BY <2>20 DEF ReleaseSlot
      <3>5. \A q \in Proc : q # p => pc[q] # "register"
        BY <3>0 DEF LockInv, Body
      <3>1. CASE Mine(p) = {}
        BY <2>20, <3>1 DEF ReleaseSlot
      <3>2. CASE Mine(p) # {}
        <4> DEFINE s == CHOOSE s \in Mine(p) : \A t \in Mine(p) : s <= t
        <4>1. s \in Mine(p)
          BY <3>2, FirstMine DEF Mine
        <4> HIDE DEF s
        <4>2. s \in Slots /\ procs[s].active /\ procs[s].pid = p
          BY <4>1 DEF Mine
        <4>3. /\ procs' = [procs EXCEPT ![s].active = FALSE]
              /\ nprocs' = IF nprocs > 0 THEN nprocs - 1 ELSE nprocs
          BY <2>20, <3>2 DEF ReleaseSlot, s
        <4>4. nprocs' = Cardinality(Active(procs'))
          BY <4>2, <4>3, ActiveCount
        <4>5. LiveKeepsSlot'
          BY <3>0, <4>2, <4>3 DEF ReleaseSlot
        <4> QED BY <3>0, <3>5, <4>4, <4>5, <2>20 DEF ReleaseSlot
      <3> QED BY <3>1, <3>2
    <2>21. ASSUME NEW o \in mix.ops, Call(p, o) PROVE TableInv'
      BY <1>1, <2>21 DEF Call
    <2>22. CASE TruncateFails(p)
      BY <1>1, <2>22 DEF TruncateFails
    <2>23. CASE Close(p)
      BY <1>1, <2>23 DEF Close
    <2>24. CASE Die(p)
      BY <1>1, <2>24 DEF Die
    <2>25. CASE Start(p)
      BY <1>1, <2>25 DEF Start
    <2> QED
      BY <1>1, <2>1, <2>2, <2>3, <2>4, <2>5, <2>6, <2>7, <2>8, <2>9, <2>10, <2>11,
         <2>12, <2>13, <2>14, <2>15, <2>16, <2>17, <2>18, <2>19, <2>20, <2>21, <2>22,
         <2>23, <2>24, <2>25
      DEF Step
  <1> QED BY <1>0, <1>1 DEF Next

LEMMA IpcInvInit == Init => IpcInv
  <1> SUFFICES ASSUME Init PROVE IpcInv
    OBVIOUS
  <1> USE SizeAssumption DEF Init
  <1>1. TypeInv
    <2>1. history \in Ring /\ comm \in Ring /\ snap \in [Proc -> [calls : Nat, history : Ring]]
      BY EmptyRingType DEF NoSnap
    <2>2. /\ procs \in [Slots -> [active : BOOLEAN, pid : Proc \cup {NoProc}]]
          /\ own \in [Proc -> Slots \cup {NoSlot}] /\ slot \in [Proc -> Slots \cup {NoSlot}]
          /\ ix \in [Proc -> 0 .. MaxProcs] /\ made \in [Proc -> Nat]
      BY DEF NoEntry
    <2>3. pc \in [Proc -> PC] /\ op \in [Proc -> AllOps]
      BY DEF PC, AllOps
    <2> QED BY <2>1, <2>2, <2>3 DEF TypeInv, TypeOK
  <1>2. BootInv
    BY DEF BootInv, Creating
  <1>3. LockInv
    BY ProcAssumption DEF LockInv, Body
  <1>4. HistoryInv /\ CommInv
    BY EmptyHolds DEF HistoryInv, CommInv
  <1>5. SnapInv
    BY EmptyHolds DEF SnapInv, NoSnap
  <1>6. TableInv
    <2>1. Active(procs) = {}
      BY DEF Active, NoEntry
    <2> QED BY <2>1, FS_EmptySet DEF TableInv, LiveKeepsSlot
  <1> QED BY <1>1, <1>2, <1>3, <1>4, <1>5, <1>6 DEF IpcInv

LEMMA IpcInvNext == IpcInv /\ [Next]_vars => IpcInv'
  BY TypeStep, BootStep, LockStep, HistoryStep, CommStep, SnapStep, TableStep DEF IpcInv

\* lock_shm and unlock_shm exclude: for any number of processes, dying
\* anywhere and coming back with the same pid, a critical section of
\* utilipc.c is entered only with the mutex, unless somebody mapped the
\* segment before its creator had initialised it.
THEOREM IpcMutualExclusion == Spec => []MutualExclusion
  <1>1. IpcInv => MutualExclusion
    BY DEF IpcInv, LockInv, MutualExclusion
  <1> QED BY <1>1, IpcInvInit, IpcInvNext, PTL DEF Spec

\* The history, the messages, the process count and every copy that a reader
\* made agree with the calls made, for every history and table size.
THEOREM IpcSharedAgrees == Spec => []SharedAgrees
  <1>1. IpcInv => SharedAgrees
    <2> SUFFICES ASSUME IpcInv PROVE SharedAgrees
      OBVIOUS
    <2>1. TypeOK
      BY DEF IpcInv, TypeInv
    <2>2. ASSUME ~raced, holder = NoProc
          PROVE  \A p \in Proc : pc[p] \notin Body
      BY <2>2, ProcAssumption DEF IpcInv, LockInv
    <2>3. ~raced /\ holder = NoProc => HoldsLatest(history, calls) /\ HoldsLatest(comm, sent)
      BY <2>2, ProcAssumption DEF IpcInv, HistoryInv, CommInv, Body
    <2>4. DataAgrees
      BY <2>3 DEF DataAgrees, IpcInv, TableInv, Active
    <2>5. SnapshotAgrees
      BY DEF SnapshotAgrees, IpcInv, SnapInv
    <2> QED BY <2>1, <2>4, <2>5 DEF SharedAgrees
  <1> QED BY <1>1, IpcInvInit, IpcInvNext, PTL DEF Spec

\* utilipc_register_process reaps only the dead: whoever was given a slot
\* keeps it, alone, until it unregisters or dies.
THEOREM IpcLiveKeepsSlot == Spec => []LiveKeepsSlot
  <1>1. IpcInv => LiveKeepsSlot
    BY DEF IpcInv, TableInv, LiveKeepsSlot
  <1> QED BY <1>1, IpcInvInit, IpcInvNext, PTL DEF Spec
=============================================================================
