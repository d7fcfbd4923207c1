------------------------------ MODULE KRingBuf ------------------------------
(***************************************************************************)
(* freestanding/kringbuf.c: the FIFO byte ring buffer, as it is used in    *)
(* freestanding/docs/ringbuf_doc.txt: one producer (an interrupt handler)  *)
(* that pushes and one consumer (a kernel task) that initialises the       *)
(* buffer, peeks and pops.  Every store of push and pop is a step of its   *)
(* own, so that either side can run between two stores of the other.       *)
(*                                                                         *)
(* Three constants say what the machine guarantees.                        *)
(*   Smp         the two sides run on different cores.  FALSE when the     *)
(*               producer is an interrupt handler on the task's own core,  *)
(*               which runs to completion before the task goes on.         *)
(*   RmwAtomic   count++ and count-- are one instruction that the other    *)
(*               side cannot split, as in the x86 build on one core, where *)
(*               an interrupt arrives between instructions.  FALSE across  *)
(*               cores (no lock prefix): a load, then a store.             *)
(*   InitMasked  the producer cannot run while kringbuf_init does.         *)
(***************************************************************************)
EXTENDS Naturals, Sequences

CONSTANTS Byte, Capacity, Fail, Ok, Smp, RmwAtomic, InitMasked

ASSUME CapacityAssumption == Capacity \in Nat \ {0}
ASSUME MachineAssumption == {Smp, RmwAtomic, InitMasked} \subseteq BOOLEAN
ASSUME ByteAssumption == Byte # {} /\ Fail \notin Byte /\ Fail # Ok

VARIABLES
  bound,     \* rb->buffer # NULL
  capacity,  \* rb->capacity
  buffer,    \* the bytes rb->buffer points to
  head,      \* rb->head, the next write offset
  tail,      \* rb->tail, the next read offset
  count,     \* rb->count
  ppc, parg, preg,  \* the producer: next step, byte being pushed, register
  cpc, cval, creg,  \* the consumer: next step, byte read, register
  pushRet, popRet   \* what the last finished push and pop (or peek) returned

ring == <<bound, capacity, buffer, head, tail, count>>
producer == <<ppc, parg, preg>>
consumer == <<cpc, cval, creg>>
vars == <<ring, producer, consumer, pushRet, popRet>>

Index == 0 .. Capacity - 1

\* A static descriptor: all zero, no storage attached.
Init ==
  /\ bound = FALSE
  /\ capacity = 0
  /\ buffer \in [Index -> Byte]
  /\ head = 0
  /\ tail = 0
  /\ count = 0
  /\ ppc = "idle" /\ parg \in Byte /\ preg = 0
  /\ cpc = "idle" /\ cval \in Byte /\ creg = 0
  /\ pushRet = Ok
  /\ popRet = Fail

\* A descriptor without storage refuses every call; so does a full one to a
\* push and an empty one to a pop.
FullOffByOne == ~bound \/ count > capacity
Full == ~bound \/ count >= capacity

Empty == ~bound \/ count = 0

NextIndexNoWrap(i) == i + 1
NextIndex(i) == (i + 1) % capacity

-----------------------------------------------------------------------------
(* kringbuf_push, run by the producer.                                     *)

PushRefuse ==
  /\ ppc = "idle"
  /\ Full
  /\ pushRet' = Fail
  /\ UNCHANGED <<ring, producer, consumer, popRet>>

PushCheck(b) ==
  /\ ppc = "idle"
  /\ ~Full
  /\ ppc' = "store"
  /\ parg' = b
  /\ UNCHANGED <<ring, preg, consumer, pushRet, popRet>>

PushStore ==
  /\ ppc = "store"
  /\ buffer' = [buffer EXCEPT ![head] = parg]
  /\ ppc' = "head"
  /\ UNCHANGED <<bound, capacity, head, tail, count, parg, preg, consumer,
                 pushRet, popRet>>

PushHead ==
  /\ ppc = "head"
  /\ head' = NextIndex(head)
  /\ ppc' = "count"
  /\ UNCHANGED <<bound, capacity, buffer, tail, count, parg, preg, consumer,
                 pushRet, popRet>>

PushCount ==
  /\ ppc = "count"
  /\ RmwAtomic
  /\ count' = count + 1
  /\ ppc' = "idle"
  /\ pushRet' = Ok
  /\ UNCHANGED <<bound, capacity, buffer, head, tail, parg, preg, consumer,
                 popRet>>

PushCountLoad ==
  /\ ppc = "count"
  /\ ~RmwAtomic
  /\ preg' = count
  /\ ppc' = "countStore"
  /\ UNCHANGED <<ring, parg, consumer, pushRet, popRet>>

PushCountStore ==
  /\ ppc = "countStore"
  /\ count' = preg + 1
  /\ ppc' = "idle"
  /\ pushRet' = Ok
  /\ UNCHANGED <<bound, capacity, buffer, head, tail, parg, preg, consumer,
                 popRet>>

-----------------------------------------------------------------------------
(* kringbuf_pop and kringbuf_peek, run by the consumer.                    *)

\* The task takes a step; on one core only when no handler is in progress.
ConsumerAt(pc) == cpc = pc /\ (Smp \/ ppc = "idle")

PopRefuse ==
  /\ ConsumerAt("idle")
  /\ Empty
  /\ popRet' = Fail
  /\ UNCHANGED <<ring, producer, consumer, pushRet>>

Peek ==
  /\ ConsumerAt("idle")
  /\ ~Empty
  /\ popRet' = buffer[tail]
  /\ UNCHANGED <<ring, producer, consumer, pushRet>>

PopCheck ==
  /\ ConsumerAt("idle")
  /\ ~Empty
  /\ cpc' = "read"
  /\ UNCHANGED <<ring, producer, cval, creg, pushRet, popRet>>

PopRead ==
  /\ ConsumerAt("read")
  /\ cval' = buffer[tail]
  /\ cpc' = "tail"
  /\ UNCHANGED <<ring, producer, creg, pushRet, popRet>>

PopTail ==
  /\ ConsumerAt("tail")
  /\ tail' = NextIndex(tail)
  /\ cpc' = "count"
  /\ UNCHANGED <<bound, capacity, buffer, head, count, producer, cval, creg,
                 pushRet, popRet>>

PopCount ==
  /\ ConsumerAt("count")
  /\ RmwAtomic
  /\ count' = count - 1
  /\ cpc' = "idle"
  /\ popRet' = cval
  /\ UNCHANGED <<bound, capacity, buffer, head, tail, producer, cval, creg,
                 pushRet>>

PopCountLoad ==
  /\ ConsumerAt("count")
  /\ ~RmwAtomic
  /\ creg' = count
  /\ cpc' = "countStore"
  /\ UNCHANGED <<ring, producer, cval, pushRet, popRet>>

PopCountStore ==
  /\ ConsumerAt("countStore")
  /\ count' = creg - 1
  /\ cpc' = "idle"
  /\ popRet' = cval
  /\ UNCHANGED <<bound, capacity, buffer, head, tail, producer, cval, creg,
                 pushRet>>

-----------------------------------------------------------------------------
(* kringbuf_init, run by the consumer: five stores, in program order.      *)
(* With the interrupt off the producer sees all of them or none.           *)

Open ==
  /\ ConsumerAt("idle")
  /\ InitMasked
  /\ ppc = "idle"
  /\ bound' = TRUE
  /\ capacity' = Capacity
  /\ head' = 0
  /\ tail' = 0
  /\ count' = 0
  /\ UNCHANGED <<buffer, producer, consumer, pushRet, popRet>>

OpenBuffer ==
  /\ ConsumerAt("idle")
  /\ ~InitMasked
  /\ bound' = TRUE
  /\ cpc' = "initCapacity"
  /\ UNCHANGED <<capacity, buffer, head, tail, count, producer, cval, creg,
                 pushRet, popRet>>

OpenCapacity ==
  /\ ConsumerAt("initCapacity")
  /\ capacity' = Capacity
  /\ cpc' = "initHead"
  /\ UNCHANGED <<bound, buffer, head, tail, count, producer, cval, creg,
                 pushRet, popRet>>

OpenHead ==
  /\ ConsumerAt("initHead")
  /\ head' = 0
  /\ cpc' = "initTail"
  /\ UNCHANGED <<bound, capacity, buffer, tail, count, producer, cval, creg,
                 pushRet, popRet>>

OpenTail ==
  /\ ConsumerAt("initTail")
  /\ tail' = 0
  /\ cpc' = "initCount"
  /\ UNCHANGED <<bound, capacity, buffer, head, count, producer, cval, creg,
                 pushRet, popRet>>

OpenCount ==
  /\ ConsumerAt("initCount")
  /\ count' = 0
  /\ cpc' = "idle"
  /\ UNCHANGED <<bound, capacity, buffer, head, tail, producer, cval, creg,
                 pushRet, popRet>>

-----------------------------------------------------------------------------
ProducerNext ==
  \/ PushRefuse
  \/ \E b \in Byte : PushCheck(b)
  \/ PushStore
  \/ PushHead
  \/ PushCount
  \/ PushCountLoad
  \/ PushCountStore

ConsumerNext ==
  \/ PopRefuse
  \/ Peek
  \/ PopCheck
  \/ PopRead
  \/ PopTail
  \/ PopCount
  \/ PopCountLoad
  \/ PopCountStore
  \/ Open
  \/ OpenBuffer
  \/ OpenCapacity
  \/ OpenHead
  \/ OpenTail
  \/ OpenCount

Next == ProducerNext \/ ConsumerNext

Spec == Init /\ [][Next]_vars

-----------------------------------------------------------------------------
(* Properties.                                                             *)

ProducerPC == {"idle", "store", "head", "count", "countStore"}
ConsumerPC == {"idle", "read", "tail", "count", "countStore",
               "initCapacity", "initHead", "initTail", "initCount"}

\* Every field of the descriptor holds a value of its type; in particular
\* the capacity is 0 until kringbuf_init has stored it.
TypeOK ==
  /\ bound \in BOOLEAN
  /\ capacity \in {0, Capacity}
  /\ buffer \in [Index -> Byte]
  /\ head \in Nat /\ tail \in Nat /\ count \in Nat
  /\ ppc \in ProducerPC /\ parg \in Byte /\ preg \in Nat
  /\ cpc \in ConsumerPC /\ cval \in Byte /\ creg \in Nat
  /\ pushRet \in {Ok, Fail}
  /\ popRet \in Byte \cup {Fail}

\* Whatever the interleaving, and even when updates of count are lost, push
\* and pop index the storage inside 0..capacity-1, never take a remainder by
\* a zero capacity, and count never exceeds the capacity: the races of
\* kringbuf.c lose or repeat bytes but touch no memory outside the buffer.
AccessInBounds ==
  /\ head \in Index
  /\ tail \in Index
  /\ count <= Capacity
  /\ (ppc # "idle" \/ cpc \in {"read", "tail", "count", "countStore"})
       => capacity = Capacity

\* The refinement mapping.  A pop that has moved tail but not yet count still
\* owns its slot, so the abstract queue starts one slot before tail.
First ==
  IF cpc \in {"count", "countStore"}
  THEN IF tail = 0 THEN Capacity - 1 ELSE tail - 1
  ELSE tail

Slot(i) == IF First + i < Capacity THEN First + i ELSE First + i - Capacity

Queue == [i \in 1 .. count |-> buffer[Slot(i - 1)]]

Fifo == INSTANCE ByteFifo WITH queue <- Queue, room <- capacity

\* On a machine with an atomic count, every behaviour of the ring buffer is a
\* behaviour of a bounded FIFO: a pop returns the oldest byte that was pushed
\* and not popped, a push fails only when the buffer is full at that instant,
\* a pop only when it is empty, even when the interrupt handler runs between
\* any two stores of the task.
FifoRefinement == Fifo!FifoSpec

-----------------------------------------------------------------------------
(* The inductive invariant behind AccessInBounds and the refinement.       *)

\* Slots that hold a byte or are being filled or emptied.
Used ==
  IF cpc \in {"count", "countStore"} THEN count - 1 ELSE count

\* One producer that has passed its check still has a free slot at head, and
\* a consumer that has passed its check still has a byte at tail.
RingInv ==
  /\ TypeOK
  /\ ppc # "countStore"
  /\ cpc \in {"idle", "read", "tail", "count"}
  /\ bound <=> capacity = Capacity
  /\ ~bound => ppc = "idle" /\ cpc = "idle" /\ count = 0
  /\ head \in Index
  /\ tail \in Index
  /\ count <= Capacity
  /\ cpc # "idle" => count > 0
  /\ ppc # "idle" => count < Capacity
  /\ LET used == IF ppc = "count" THEN Used + 1 ELSE Used
     IN  head = IF tail + used < Capacity THEN tail + used
                                          ELSE tail + used - Capacity
  /\ ppc \in {"head"} => buffer[head] = parg
  /\ ppc = "count" =>
       buffer[IF head = 0 THEN Capacity - 1 ELSE head - 1] = parg
  /\ cpc = "tail" => cval = buffer[tail]
  /\ cpc = "count" => cval = buffer[First]

=============================================================================
