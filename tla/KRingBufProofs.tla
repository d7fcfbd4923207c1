--------------------------- MODULE KRingBufProofs ---------------------------
(***************************************************************************)
(* Theorems about freestanding/kringbuf.c for every capacity, every set of *)
(* bytes and, where the statement does not say otherwise, every machine.   *)
(***************************************************************************)
EXTENDS KRingBuf, SequenceTheorems, TLAPS

\* Advancing an index of push or pop wraps at the capacity and stays in range.
LEMMA NextIndexWraps ==
  ASSUME NEW i \in Index, capacity = Capacity
  PROVE  /\ NextIndex(i) = IF i + 1 = Capacity THEN 0 ELSE i + 1
         /\ NextIndex(i) \in Index
  <1>1. CASE i + 1 = Capacity
    BY <1>1, CapacityAssumption DEF NextIndex, Index
  <1>2. CASE i + 1 < Capacity
    BY <1>2, CapacityAssumption DEF NextIndex, Index
  <1> QED BY <1>1, <1>2, CapacityAssumption DEF Index

\* AccessInBounds is not inductive by itself: the proof also needs that a
\* producer past its check has room left, that a consumer past its check has
\* a byte left, and that the same holds of a count in a register.
RaceInv ==
  /\ TypeOK
  /\ AccessInBounds
  /\ count > 0 => capacity = Capacity
  /\ ppc # "idle" => count < Capacity
  /\ ppc = "countStore" => preg < Capacity
  /\ cpc \in {"read", "tail", "count"} => count > 0
  /\ cpc = "countStore" => creg > 0 /\ creg <= Capacity

LEMMA RaceInvInit == Init => RaceInv
  <1> SUFFICES ASSUME Init PROVE RaceInv
    OBVIOUS
  <1>1. 0 \in Index
    BY CapacityAssumption DEF Index
  <1>2. TypeOK
    BY CapacityAssumption DEF Init, TypeOK, ProducerPC, ConsumerPC
  <1>3. AccessInBounds
    BY <1>1, CapacityAssumption DEF Init, AccessInBounds
  <1> QED BY <1>2, <1>3 DEF Init, RaceInv

LEMMA RaceInvNext == RaceInv /\ [Next]_vars => RaceInv'
  <1> SUFFICES ASSUME RaceInv, [Next]_vars PROVE RaceInv'
    OBVIOUS
  <1> USE CapacityAssumption, ByteAssumption
      DEF RaceInv, TypeOK, AccessInBounds, Index, ProducerPC, ConsumerPC,
          ring, producer, consumer, Full, Empty, ConsumerAt
  <1>1. CASE PushRefuse
    BY <1>1 DEF PushRefuse
  <1>2. ASSUME NEW b \in Byte, PushCheck(b) PROVE RaceInv'
    BY <1>2 DEF PushCheck
  <1>3. CASE PushStore
    BY <1>3 DEF PushStore
  <1>4. CASE PushHead
    BY <1>4, NextIndexWraps DEF PushHead
  <1>5. CASE PushCount
    BY <1>5 DEF PushCount
  <1>6. CASE PushCountLoad
    BY <1>6 DEF PushCountLoad
  <1>7. CASE PushCountStore
    BY <1>7 DEF PushCountStore
  <1>8. CASE PopRefuse
    BY <1>8 DEF PopRefuse
  <1>9. CASE Peek
    BY <1>9 DEF Peek
  <1>10. CASE PopCheck
    BY <1>10 DEF PopCheck
  <1>11. CASE PopRead
    BY <1>11 DEF PopRead
  <1>12. CASE PopTail
    BY <1>12, NextIndexWraps DEF PopTail
  <1>13. CASE PopCount
    BY <1>13 DEF PopCount
  <1>14. CASE PopCountLoad
    BY <1>14 DEF PopCountLoad
  <1>15. CASE PopCountStore
    BY <1>15 DEF PopCountStore
  <1>16. CASE Open
    BY <1>16 DEF Open
  <1>17. CASE OpenBuffer
    BY <1>17 DEF OpenBuffer
  <1>18. CASE OpenCapacity
    BY <1>18 DEF OpenCapacity
  <1>19. CASE OpenHead
    BY <1>19 DEF OpenHead
  <1>20. CASE OpenTail
    BY <1>20 DEF OpenTail
  <1>21. CASE OpenCount
    BY <1>21 DEF OpenCount
  <1>22. CASE UNCHANGED vars
    BY <1>22 DEF vars
  <1> QED
    BY <1>1, <1>2, <1>3, <1>4, <1>5, <1>6, <1>7, <1>8, <1>9, <1>10, <1>11,
       <1>12, <1>13, <1>14, <1>15, <1>16, <1>17, <1>18, <1>19, <1>20, <1>21,
       <1>22
    DEF Next, ProducerNext, ConsumerNext

\* kringbuf.c never leaves its storage: on every machine, with every
\* interleaving of a push with a pop, a peek or a (re-)initialisation.
THEOREM AccessSafety == Spec => [](TypeOK /\ AccessInBounds)
  <1>1. RaceInv => TypeOK /\ AccessInBounds
    BY DEF RaceInv
  <1> QED BY <1>1, RaceInvInit, RaceInvNext, PTL DEF Spec

-----------------------------------------------------------------------------
(* The ring buffer with an atomic count implements the abstract FIFO.      *)

LEMMA RingInvInit == Init => RingInv
  <1> SUFFICES ASSUME Init PROVE RingInv
    OBVIOUS
  <1>1. TypeOK
    BY RaceInvInit DEF RaceInv
  <1> QED
    BY <1>1, CapacityAssumption DEF Init, RingInv, Index, Used

LEMMA RingInvNext ==
  ASSUME RmwAtomic, InitMasked, RingInv, [Next]_vars
  PROVE  RingInv'
  <1> USE CapacityAssumption, ByteAssumption
      DEF RingInv, TypeOK, Index, ProducerPC, ConsumerPC, Used, First,
          ring, producer, consumer, Full, Empty, ConsumerAt
  <1>1. CASE PushRefuse
    BY <1>1 DEF PushRefuse
  <1>2. ASSUME NEW b \in Byte, PushCheck(b) PROVE RingInv'
    BY <1>2 DEF PushCheck
  <1>3. CASE PushStore
    BY <1>3 DEF PushStore
  <1>4. CASE PushHead
    <2>1. head' = IF head + 1 = Capacity THEN 0 ELSE head + 1
      BY <1>4, NextIndexWraps DEF PushHead
    <2>2. head' \in Index /\ ppc' = "count" /\ UNCHANGED <<bound, capacity,
            buffer, tail, count, parg, preg, consumer, pushRet, popRet>>
      BY <1>4, <2>1 DEF PushHead
    <2>3. (IF head' = 0 THEN Capacity - 1 ELSE head' - 1) = head
      BY <2>1
    <2>4. buffer'[IF head' = 0 THEN Capacity - 1 ELSE head' - 1] = parg'
      BY <1>4, <2>2, <2>3 DEF PushHead
    <2>5. head' = IF tail + (Used + 1) < Capacity THEN tail + (Used + 1)
                  ELSE tail + (Used + 1) - Capacity
      BY <1>4, <2>1 DEF PushHead
    <2> QED BY <1>4, <2>2, <2>4, <2>5 DEF PushHead
  <1>5. CASE PushCount
    BY <1>5 DEF PushCount
  <1>8. CASE PopRefuse
    BY <1>8 DEF PopRefuse
  <1>9. CASE Peek
    BY <1>9 DEF Peek
  <1>10. CASE PopCheck
    BY <1>10 DEF PopCheck
  <1>11. CASE PopRead
    BY <1>11 DEF PopRead
  <1>12. CASE PopTail
    <2>1. tail' = IF tail + 1 = Capacity THEN 0 ELSE tail + 1
      BY <1>12, NextIndexWraps DEF PopTail
    <2>2. tail' \in Index /\ cpc = "tail" /\ cpc' = "count" /\ UNCHANGED <<
            bound, capacity, buffer, head, count, producer, cval, creg,
            pushRet, popRet>>
      BY <1>12, <2>1 DEF PopTail
    <2>3. First' = tail
      BY <2>1, <2>2
    <2>4. LET used == IF ppc = "count" THEN count ELSE count - 1
          IN  head = IF tail' + used < Capacity THEN tail' + used
                                               ELSE tail' + used - Capacity
      BY <2>1, <2>2
    <2>5. cval' = buffer'[First']
      BY <2>2, <2>3
    <2>6. TypeOK'
      BY <2>2
    <2>7. LET used == IF ppc' = "count" THEN Used' + 1 ELSE Used'
          IN  head' = IF tail' + used < Capacity THEN tail' + used
                                                ELSE tail' + used - Capacity
      <3>1. Used' = count - 1 /\ Used' + 1 = count /\ ppc' = ppc /\ head' = head
        BY <2>2
      <3> HIDE DEF Used
      <3> QED BY <2>4, <3>1
    <2>8. ppc' = "count" =>
            buffer'[IF head' = 0 THEN Capacity - 1 ELSE head' - 1] = parg'
      <3>1. UNCHANGED <<buffer, head, ppc, parg>>
        BY <2>2
      <3> QED BY <3>1
    <2> HIDE DEF TypeOK
    <2> QED BY <2>2, <2>5, <2>6, <2>7, <2>8
  <1>13. CASE PopCount
    BY <1>13 DEF PopCount
  <1>16. CASE Open
    BY <1>16 DEF Open
  <1>22. CASE UNCHANGED vars
    BY <1>22 DEF vars
  <1>23. /\ ~PushCountLoad /\ ~PushCountStore
         /\ ~PopCountLoad /\ ~PopCountStore
         /\ ~OpenBuffer /\ ~OpenCapacity /\ ~OpenHead /\ ~OpenTail
         /\ ~OpenCount
    BY DEF PushCountLoad, PushCountStore, PopCountLoad, PopCountStore,
           OpenBuffer, OpenCapacity, OpenHead, OpenTail, OpenCount
  <1> QED
    BY <1>1, <1>2, <1>3, <1>4, <1>5, <1>8, <1>9, <1>10, <1>11, <1>12, <1>13,
       <1>16, <1>22, <1>23
    DEF Next, ProducerNext, ConsumerNext

\* The abstract queue of a good state is a sequence of count bytes, laid out
\* in the storage from First on.
LEMMA QueueLayout ==
  ASSUME RingInv
  PROVE  /\ Queue \in Seq(Byte)
         /\ Len(Queue) = count
         /\ DOMAIN Queue = 1 .. count
         /\ First \in Index
         /\ \A i \in 0 .. Capacity - 1 : Slot(i) \in Index
         /\ \A i \in 1 .. count : Queue[i] = buffer[Slot(i - 1)]
  <1> USE CapacityAssumption DEF RingInv, TypeOK, Index, First
  <1>1. First \in Index
    OBVIOUS
  <1>2. \A i \in 0 .. Capacity - 1 : Slot(i) \in Index
    BY <1>1 DEF Slot
  <1>3. \A i \in 1 .. count : buffer[Slot(i - 1)] \in Byte
    <2> SUFFICES ASSUME NEW i \in 1 .. count PROVE buffer[Slot(i - 1)] \in Byte
      OBVIOUS
    <2>1. i - 1 \in 0 .. Capacity - 1
      OBVIOUS
    <2> QED BY <1>2, <2>1
  <1>4. Queue \in [1 .. count -> Byte]
    BY <1>3 DEF Queue
  <1>5. count \in Nat
    OBVIOUS
  <1>6. Queue \in Seq(Byte) /\ Len(Queue) = count /\ DOMAIN Queue = 1 .. count
    <2> HIDE DEF RingInv
    <2> QED BY <1>4, <1>5
  <1>7. \A i \in 1 .. count : Queue[i] = buffer[Slot(i - 1)]
    BY DEF Queue
  <1> QED BY <1>1, <1>2, <1>6, <1>7

\* A step that keeps the abstract queue, its capacity and both results.
LEMMA SameQueue ==
  ASSUME RingInv, count' = count, capacity' = capacity, First' = First,
         UNCHANGED <<pushRet, popRet>>,
         \A i \in 1 .. count : buffer'[Slot(i - 1)] = buffer[Slot(i - 1)]
  PROVE  UNCHANGED Fifo!fifoVars
  <1>1. \A i : Slot(i)' = Slot(i)
    BY DEF Slot
  <1>2. Queue' = Queue
    BY <1>1 DEF Queue
  <1> QED BY <1>2 DEF Fifo!fifoVars

LEMMA RefinementNext ==
  ASSUME RmwAtomic, InitMasked, RingInv, RingInv', [Next]_vars
  PROVE  [Fifo!FifoNext]_Fifo!fifoVars
  <1> USE DEF ring, producer, consumer, ConsumerAt
  <1> count \in Nat /\ count <= Capacity /\ Capacity \in Nat \ {0}
    BY CapacityAssumption DEF RingInv, TypeOK
  <1>1. CASE PushRefuse
    <2>1. Queue' = Queue
      BY <1>1 DEF PushRefuse, Queue, Slot, First
    <2>2. Len(Queue) >= capacity
      BY <1>1, QueueLayout DEF PushRefuse, Full, RingInv, TypeOK
    <2> QED BY <1>1, <2>1, <2>2 DEF PushRefuse, Fifo!PushFull, Fifo!FifoNext
  <1>2. ASSUME NEW b \in Byte, PushCheck(b) PROVE UNCHANGED Fifo!fifoVars
    BY <1>2, SameQueue DEF PushCheck, First
  <1>3. CASE PushStore
    <2>1. \A i \in 1 .. count : Slot(i - 1) # head
      BY <1>3 DEF PushStore, RingInv, TypeOK, Slot, First, Used, Index
    <2>2. First' = First
      BY <1>3 DEF PushStore, First
    <2>3. \A i \in 1 .. count : buffer'[Slot(i - 1)] = buffer[Slot(i - 1)]
      BY <1>3, <2>1, QueueLayout DEF PushStore, RingInv, TypeOK, Index
    <2> QED BY <1>3, <2>2, <2>3, SameQueue DEF PushStore
  <1>4. CASE PushHead
    BY <1>4, SameQueue DEF PushHead, First
  <1>5. CASE PushCount
    <2>1. Len(Queue) < capacity
      BY <1>5, QueueLayout DEF PushCount, RingInv
    <2>2. parg \in Byte
      BY DEF RingInv, TypeOK
    <2>3. buffer[Slot(count)] = parg
      BY <1>5 DEF PushCount, RingInv, TypeOK, Slot, First, Used, Index
    <2>4. First' = First /\ \A i : Slot(i)' = Slot(i)
      BY <1>5 DEF PushCount, First, Slot
    <2>5. Queue' = [i \in 1 .. count + 1 |-> buffer[Slot(i - 1)]]
      BY <1>5, <2>4 DEF PushCount, Queue
    <2>6. /\ Append(Queue, parg) \in [1 .. count + 1 -> Byte]
          /\ \A i \in 1 .. count + 1 : Append(Queue, parg)[i]
                 = IF i = count + 1 THEN parg ELSE Queue[i]
      <3>1. Queue \in Seq(Byte) /\ Len(Queue) = count
        BY QueueLayout
      <3>2. /\ Append(Queue, parg) \in Seq(Byte)
            /\ Len(Append(Queue, parg)) = count + 1
            /\ \A i \in 1 .. count : Append(Queue, parg)[i] = Queue[i]
            /\ Append(Queue, parg)[count + 1] = parg
        BY <3>1, <2>2, AppendProperties
      <3>3. Append(Queue, parg) \in [1 .. count + 1 -> Byte]
        BY <3>2, LenProperties
      <3>4. \A i \in 1 .. count + 1 : i = count + 1 \/ i \in 1 .. count
        OBVIOUS
      <3> QED BY <3>2, <3>3, <3>4
    <2>7. \A i \in 1 .. count + 1 :
            buffer[Slot(i - 1)] = IF i = count + 1 THEN parg ELSE Queue[i]
      <3> SUFFICES ASSUME NEW i \in 1 .. count + 1
                   PROVE  buffer[Slot(i - 1)]
                            = IF i = count + 1 THEN parg ELSE Queue[i]
        OBVIOUS
      <3>1. CASE i = count + 1
        BY <3>1, <2>3
      <3>2. CASE i # count + 1
        <4>1. i \in 1 .. count
          BY <3>2
        <4> QED BY <4>1, <3>2, QueueLayout
      <3> QED BY <3>1, <3>2
    <2>8. Queue' = Append(Queue, parg)
      BY <2>5, <2>6, <2>7
    <2> QED
      BY <1>5, <2>1, <2>2, <2>8 DEF PushCount, Fifo!Push, Fifo!FifoNext
  <1>8. CASE PopRefuse
    <2>1. Queue' = Queue
      BY <1>8 DEF PopRefuse, Queue, Slot, First
    <2>2. Queue = <<>>
      BY <1>8, QueueLayout DEF PopRefuse, Empty, RingInv
    <2> QED BY <1>8, <2>1, <2>2 DEF PopRefuse, Fifo!PopEmpty, Fifo!FifoNext
  <1>9. CASE Peek
    <2>1. Queue' = Queue
      BY <1>9 DEF Peek, Queue, Slot, First
    <2>2. count > 0 /\ Slot(0) = tail
      BY <1>9 DEF Peek, Empty, Slot, First, RingInv, TypeOK, Index
    <2>3. Queue # <<>> /\ Head(Queue) = buffer[tail]
      BY <2>2, QueueLayout
    <2> QED BY <1>9, <2>1, <2>3 DEF Peek, Fifo!Peek, Fifo!FifoNext
  <1>10. CASE PopCheck
    BY <1>10, SameQueue DEF PopCheck, First
  <1>11. CASE PopRead
    BY <1>11, SameQueue DEF PopRead, First
  <1>12. CASE PopTail
    <2>1. tail' = IF tail + 1 = Capacity THEN 0 ELSE tail + 1
      BY <1>12, NextIndexWraps DEF PopTail, RingInv
    <2>2. First' = First
      BY <1>12, <2>1 DEF PopTail, First, RingInv, TypeOK, Index
    <2> QED BY <1>12, <2>2, SameQueue DEF PopTail
  <1>13. CASE PopCount
    <2>1. count > 0 /\ Slot(0) = First /\ cval = buffer[First]
      BY <1>13 DEF PopCount, Slot, First, RingInv, TypeOK, Index
    <2>2. Queue # <<>> /\ Head(Queue) = cval
      BY <2>1, QueueLayout
    <2>3. \A i \in 0 .. count - 2 : Slot(i)' = Slot(i + 1)
      BY <1>13 DEF PopCount, Slot, First, RingInv, TypeOK, Index
    <2>4. Queue' = [i \in 1 .. count - 1 |-> buffer[Slot(i - 1)']]
      BY <1>13 DEF PopCount, Queue
    <2>5. /\ Tail(Queue) \in [1 .. count - 1 -> Byte]
          /\ \A i \in 1 .. count - 1 : Tail(Queue)[i] = Queue[i + 1]
      <3>1. Queue \in Seq(Byte) /\ Len(Queue) = count
        BY QueueLayout
      <3>2. /\ Tail(Queue) \in Seq(Byte)
            /\ Len(Tail(Queue)) = count - 1
            /\ \A i \in 1 .. Len(Tail(Queue)) : Tail(Queue)[i] = Queue[i + 1]
        BY <3>1, <2>2, HeadTailProperties
      <3>3. Tail(Queue) \in [1 .. count - 1 -> Byte]
        BY <3>2, LenProperties
      <3> QED BY <3>2, <3>3
    <2>6. \A i \in 1 .. count - 1 : buffer[Slot(i - 1)'] = Queue[i + 1]
      <3> SUFFICES ASSUME NEW i \in 1 .. count - 1
                   PROVE  buffer[Slot(i - 1)'] = Queue[i + 1]
        OBVIOUS
      <3>1. Slot(i - 1)' = Slot(i)
        BY <2>3
      <3>2. Queue[i + 1] = buffer[Slot(i)]
        BY QueueLayout
      <3> QED BY <3>1, <3>2
    <2>7. Queue' = Tail(Queue)
      BY <2>4, <2>5, <2>6
    <2> QED BY <1>13, <2>2, <2>7 DEF PopCount, Fifo!Pop, Fifo!FifoNext
  <1>16. CASE Open
    <2>1. Queue' = <<>>
      BY <1>16, QueueLayout DEF Open, Queue
    <2> QED BY <1>16, <2>1 DEF Open, Fifo!Open, Fifo!FifoNext
  <1>22. CASE UNCHANGED vars
    <2>1. Queue' = Queue
      BY <1>22 DEF vars, Queue, Slot, First
    <2> QED BY <1>22, <2>1 DEF vars, Fifo!fifoVars
  <1>23. /\ ~PushCountLoad /\ ~PushCountStore
         /\ ~PopCountLoad /\ ~PopCountStore
         /\ ~OpenBuffer /\ ~OpenCapacity /\ ~OpenHead /\ ~OpenTail
         /\ ~OpenCount
    BY DEF PushCountLoad, PushCountStore, PopCountLoad, PopCountStore,
           OpenBuffer, OpenCapacity, OpenHead, OpenTail, OpenCount, RingInv
  <1> QED
    BY <1>1, <1>2, <1>3, <1>4, <1>5, <1>8, <1>9, <1>10, <1>11, <1>12, <1>13,
       <1>16, <1>22, <1>23
    DEF Next, ProducerNext, ConsumerNext

\* On such a machine, for every capacity, the fields of the descriptor agree
\* between any two stores of the two sides: the head is the tail advanced by
\* what is stored, the bytes in between are valid, and a byte that a push or a
\* pop has under way lies where the other side will look for it.
THEOREM RingSound == RmwAtomic /\ InitMasked => (Spec => []RingInv)
  <1> SUFFICES ASSUME RmwAtomic, InitMasked PROVE Spec => []RingInv
    OBVIOUS
  <1>1. RingInv /\ [Next]_vars => RingInv'
    BY RingInvNext
  <1> QED BY <1>1, RingInvInit, PTL DEF Spec

\* On a machine whose count++ and count-- cannot be split, and with the
\* producer off during kringbuf_init, kringbuf.c is a bounded FIFO for every
\* capacity: no byte is lost, duplicated or reordered, a push fails only on a
\* full and a pop only on an empty buffer.
THEOREM ImplementsFifo == RmwAtomic /\ InitMasked => (Spec => FifoRefinement)
  <1> SUFFICES ASSUME RmwAtomic, InitMasked PROVE Spec => Fifo!FifoSpec
    BY DEF FifoRefinement
  <1>1. Init => Fifo!FifoInit
    BY DEF Init, Fifo!FifoInit, Queue
  <1>2. RingInv /\ [Next]_vars => RingInv'
    BY RingInvNext
  <1>3. RingInv /\ RingInv' /\ [Next]_vars => [Fifo!FifoNext]_Fifo!fifoVars
    BY RefinementNext
  <1> QED BY <1>1, <1>2, <1>3, RingInvInit, PTL DEF Spec, Fifo!FifoSpec
=============================================================================
