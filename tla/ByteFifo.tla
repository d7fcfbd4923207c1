------------------------------ MODULE ByteFifo ------------------------------
(***************************************************************************)
(* What freestanding/kringbuf.h promises of a ring buffer: a bounded FIFO  *)
(* of bytes.  A push appends or, when the buffer is full, fails; a pop     *)
(* removes the oldest byte or, when the buffer is empty, fails.  Each call *)
(* happens at one instant, whatever the other side is doing.               *)
(***************************************************************************)
EXTENDS Naturals, Sequences

CONSTANTS Byte, Capacity, Fail, Ok

VARIABLES queue,    \* the bytes in the buffer, oldest first
          room,     \* the capacity the buffer was initialised with, 0 before
          pushRet,  \* what the last push returned
          popRet    \* what the last pop or peek returned: a byte, or Fail

fifoVars == <<queue, room, pushRet, popRet>>

FifoInit ==
  /\ queue = <<>>
  /\ room = 0
  /\ pushRet = Ok
  /\ popRet = Fail

Open ==
  /\ queue' = <<>>
  /\ room' = Capacity
  /\ UNCHANGED <<pushRet, popRet>>

Push(b) ==
  /\ Len(queue) < room
  /\ queue' = Append(queue, b)
  /\ pushRet' = Ok
  /\ UNCHANGED <<room, popRet>>

PushFull ==
  /\ Len(queue) >= room
  /\ pushRet' = Fail
  /\ UNCHANGED <<queue, room, popRet>>

Pop ==
  /\ queue # <<>>
  /\ popRet' = Head(queue)
  /\ queue' = Tail(queue)
  /\ UNCHANGED <<room, pushRet>>

Peek ==
  /\ queue # <<>>
  /\ popRet' = Head(queue)
  /\ UNCHANGED <<queue, room, pushRet>>

PopEmpty ==
  /\ queue = <<>>
  /\ popRet' = Fail
  /\ UNCHANGED <<queue, room, pushRet>>

FifoNext ==
  \/ Open
  \/ \E b \in Byte : Push(b)
  \/ PushFull
  \/ Pop
  \/ Peek
  \/ PopEmpty

FifoSpec == FifoInit /\ [][FifoNext]_fifoVars
=============================================================================
