------------------------------- MODULE Netclip -------------------------------
(***************************************************************************)
(* src/netclip/netclip.c: senders of a text or a file, and the listener    *)
(* that serves one connection at a time.  A connection is the stream of    *)
(* blocks in flight, of bounded length, and whether it was closed; writes  *)
(* give up after four seconds and nobody looks at their result.            *)
(***************************************************************************)
EXTENDS Integers, Sequences, SequencesExt

CONSTANTS
  ClipSender,   \* the processes that run netclip send
  ClipFiles,    \* the senders that send a file; the others send a text
  ClipBlocks,   \* blocks of a payload
  ClipBuffer    \* blocks a connection holds before a write waits

ASSUME ClipAssumption == ClipBlocks \in Nat /\ ClipBuffer \in Nat

VARIABLE clip

ClipOff == [pc |-> "off"]

NoSender == "none"

ClipStart ==
  [pc |-> "accept", cur |-> NoSender, got |-> <<>>,
   snd |-> [s \in ClipSender |->
     [pc |-> "connect", next |-> 0, wire |-> <<>>, fin |-> FALSE, okSent |-> FALSE,
      ack |-> FALSE, stored |-> <<>>, noMem |-> FALSE, cut |-> FALSE]]]

Payload == [b \in 1 .. ClipBlocks |-> b]

Snd(s) == clip.snd[s]

\* connect_to_host: answered by the backlog of the listener, or refused.
ClipConnect(s) ==
  /\ Snd(s).pc = "connect"
  /\ \E r \in {"write", "closed"} : clip' = [clip EXCEPT !.snd[s].pc = r]

\* The header, block 0, and then the payload.
ClipWrite(s) ==
  /\ Snd(s).pc = "write" /\ Len(Snd(s).wire) < ClipBuffer
  /\ clip' = [clip EXCEPT !.snd[s] =
       [Snd(s) EXCEPT !.wire = Append(@, Snd(s).next), !.next = @ + 1,
                      !.pc = IF Snd(s).next = ClipBlocks THEN "ack" ELSE "write"]]

\* SO_SNDTIMEO: one write of a file is lost and the next one follows it; a
\* text is a single write, whose rest is lost.
ClipWriteTimeout(s) ==
  /\ Snd(s).pc = "write" /\ Snd(s).next > 0 /\ Len(Snd(s).wire) = ClipBuffer
  /\ clip' = [clip EXCEPT !.snd[s] =
       IF s \in ClipFiles /\ Snd(s).next < ClipBlocks
         THEN [Snd(s) EXCEPT !.next = @ + 1] ELSE [Snd(s) EXCEPT !.pc = "ack"]]

\* The answer, whatever it is; then the connection is closed.
ClipAck(s) ==
  /\ Snd(s).pc = "ack" /\ (Snd(s).okSent \/ Snd(s).cut)
  /\ clip' = [clip EXCEPT !.snd[s] = [Snd(s) EXCEPT !.pc = "closed", !.fin = TRUE, !.ack = Snd(s).okSent]]

ClipAckAnyway(s) ==
  /\ Snd(s).pc = "ack" /\ ~Snd(s).okSent
  /\ clip' = [clip EXCEPT !.snd[s] = [Snd(s) EXCEPT !.pc = "closed", !.fin = TRUE]]

\* Killed: the kernel closes the connection.
ClipDies(s) ==
  /\ Snd(s).pc \in {"write", "ack"}
  /\ clip' = [clip EXCEPT !.snd[s] = [Snd(s) EXCEPT !.pc = "closed", !.fin = TRUE]]

----------------------------------------------------------------------------
\* run_listener.
ClipAccept ==
  /\ clip.pc = "accept"
  /\ \E s \in ClipSender :
       /\ Snd(s).pc \in {"write", "ack"} \/ Snd(s).fin
       /\ ~Snd(s).cut
       /\ clip' = [clip EXCEPT !.pc = "header", !.cur = s, !.got = <<>>]

Cut(c, s) == [c EXCEPT !.pc = "accept", !.cur = NoSender, !.snd[s].cut = TRUE]

\* The header, byte by byte until its empty line or the end of the stream; a
\* file that cannot be created ends the connection without an answer.
ClipHeader ==
  /\ clip.pc = "header"
  /\ LET s == clip.cur IN
     \/ /\ Snd(s).wire # <<>>
        /\ \/ clip' = [clip EXCEPT !.pc = "body", !.snd[s].wire = Tail(@)]
           \/ s \notin ClipFiles /\ clip' = [clip EXCEPT !.pc = "answer", !.snd[s].wire = Tail(@), !.snd[s].noMem = TRUE]
           \/ s \in ClipFiles /\ clip' = Cut(clip, s)
     \/ Snd(s).wire = <<>> /\ Snd(s).fin /\ clip' = Cut(clip, s)

OnlyWhole(c, s) == Len(c.got) = ClipBlocks

AnyShortRead(c, s) == Len(c.got) = ClipBlocks \/ c.snd[s].wire = <<>>

\* All announced blocks are read, or the sender has closed.
PayloadEnds(c, s) == Len(c.got) = ClipBlocks \/ (c.snd[s].wire = <<>> /\ c.snd[s].fin)

ClipRead ==
  /\ clip.pc = "body" /\ ~PayloadEnds(clip, clip.cur) /\ Snd(clip.cur).wire # <<>>
  /\ clip' = [clip EXCEPT !.got = Append(@, Head(Snd(clip.cur).wire)), !.snd[clip.cur].wire = Tail(@)]

\* A part of a payload is kept and answered like a whole one.
ClipStore ==
  /\ clip.pc = "body" /\ PayloadEnds(clip, clip.cur)
  /\ clip' = [clip EXCEPT !.pc = "answer", !.snd[clip.cur].stored = clip.got]

ClipAnswer ==
  /\ clip.pc = "answer"
  /\ clip' = Cut([clip EXCEPT !.snd[clip.cur].okSent = TRUE], clip.cur)

ClipListener == ClipAccept \/ ClipHeader \/ ClipRead \/ ClipStore \/ ClipAnswer

ClipSends(s) == ClipConnect(s) \/ ClipWrite(s) \/ ClipWriteTimeout(s) \/ ClipAck(s) \/ ClipAckAnyway(s)

ClipNext == clip.pc # "off" /\ (ClipListener \/ \E s \in ClipSender : ClipSends(s) \/ ClipDies(s))

\* The listener runs, and the timeouts of a sender end its calls.
ClipFair ==
  /\ WF_clip(clip.pc # "off" /\ ClipListener)
  /\ \A s \in ClipSender : WF_clip(clip.pc # "off" /\ ClipSends(s))

----------------------------------------------------------------------------
\* A sender that has read OK knows that its whole payload arrived, although
\* the listener answers parts of payloads in the same way: it waits for the
\* rest until the sender itself has closed.  (Not so for a text the listener
\* finds no memory for.)  And what is kept is in the order it was sent.
AckMeansWhole ==
  clip.pc # "off" => \A s \in ClipSender :
    /\ Snd(s).ack => Snd(s).stored = Payload \/ Snd(s).noMem
    /\ \A i, j \in DOMAIN Snd(s).stored : i < j => Snd(s).stored[i] < Snd(s).stored[j]

\* The listener comes back to the next connection, whichever sender it is
\* serving gives up, is killed or leaves a hole in its stream.
ClipListens == clip.pc \in {"header", "body", "answer"} ~> clip.pc = "accept"
=============================================================================
