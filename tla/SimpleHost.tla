----------------------------- MODULE SimpleHost -----------------------------
(***************************************************************************)
(* src/simplehost: a thread for each connection, uploads into files that   *)
(* other connections replace or read meanwhile.  A file is a sequence of   *)
(* blocks; stdio holds back what it has not written yet.  The body of an   *)
(* upload is the data and the closing boundary, one block long.            *)
(***************************************************************************)
EXTENDS Integers, Sequences, SequencesExt

CONSTANTS
  HostConn,     \* connections
  HostRange,    \* ranges that are asked for: [start, end]; NoEnd leaves the end out
  HostBlocks,   \* blocks of the data of an upload
  StdioBuf      \* blocks that stdio holds back at most

\* sscanf reads both ends of a range as numbers that may be negative.
ASSUME HostAssumption == HostBlocks \in Nat /\ HostRange \subseteq [start : Int, end : Int]

VARIABLE host

NoEnd == 1000

HostOff == [pc |-> "off"]

Idle == [pc |-> "idle"]

HostStart == [pc |-> "on", file |-> <<>>, conn |-> [c \in HostConn |-> Idle]]

Conn(c) == host.conn[c]

Answered(h, c, code) == [h EXCEPT !.conn[c] = [pc |-> "done", code |-> code]]

Trailer(c) == <<c, HostBlocks + 1>>

\* A block that was never written.
Zero == <<>>

\* What a write leaves at an offset that may lie beyond the end of the file.
WriteAt(file, off, blocks) ==
  IF blocks = <<>> THEN file ELSE
  [i \in 1 .. (IF off + Len(blocks) > Len(file) THEN off + Len(blocks) ELSE Len(file)) |->
     IF i \in off + 1 .. off + Len(blocks) THEN blocks[i - off]
     ELSE IF i <= Len(file) THEN file[i] ELSE Zero]

\* Every other connection that read or wrote the file before learns here, for
\* the properties only, that it changed under it.
Touched(h, c) ==
  [h EXCEPT !.conn = [x \in HostConn |-> IF x # c /\ "alone" \in DOMAIN @[x] THEN [@[x] EXCEPT !.alone = FALSE] ELSE @[x]]]

Uploading(h) == {x \in HostConn : h.conn[x].pc \in {"recv", "flush"}}

----------------------------------------------------------------------------
\* client_handler_thread up to its first answer.  A request that cannot be
\* parsed, a path with "..", a name that is not there, a directory without an
\* index (its listing): each is answered at once; a request that cannot be
\* read, or a thread that cannot be created, just closes.
HostShort(c) ==
  /\ Conn(c).pc = "idle"
  /\ \E code \in {0, 200, 400, 403, 404, 500} : host' = Answered(host, c, code)

\* handle_multipart_upload up to the first fwrite: the file is emptied.
HostUpload(c) ==
  /\ Conn(c).pc = "idle"
  /\ host' = [Touched(host, c) EXCEPT !.file = <<>>,
       !.conn[c] = [pc |-> "recv", next |-> 1, off |-> 0, buf |-> <<>>, alone |-> Uploading(host) = {}]]

\* A block of the body; stdio writes when it holds enough.
HostRecv(c) ==
  /\ Conn(c).pc = "recv" /\ Conn(c).next <= HostBlocks + 1
  /\ LET buf == Append(Conn(c).buf, <<c, Conn(c).next>>)
         more == [Conn(c) EXCEPT !.next = @ + 1]
     IN \/ Len(buf) < StdioBuf /\ host' = [host EXCEPT !.conn[c] = [more EXCEPT !.buf = buf]]
        \/ host' = [Touched(host, c) EXCEPT !.file = WriteAt(@, Conn(c).off, buf),
                      !.conn[c] = [more EXCEPT !.buf = <<>>, !.off = @ + Len(buf)]]

TruncateTwo(file, size) == [i \in 1 .. size - 2 |-> IF i <= Len(file) THEN file[i] ELSE Zero]

\* ftruncate to the size without the closing boundary.
Truncate(file, size) == [i \in 1 .. size - 1 |-> IF i <= Len(file) THEN file[i] ELSE Zero]

\* The body is complete, or recv has failed, which is not told apart: the
\* boundary is cut off by its length, before stdio has written the rest.
HostCut(c) ==
  /\ Conn(c).pc = "recv"
  /\ LET size == Conn(c).off + Len(Conn(c).buf)
     IN host' = [Touched(host, c) EXCEPT !.file = IF size > 1 THEN Truncate(@, size) ELSE @, !.conn[c].pc = "flush"]

\* fclose writes the rest, and the answer is 200.
HostClose(c) ==
  /\ Conn(c).pc = "flush"
  /\ host' = [Touched(host, c) EXCEPT !.file = WriteAt(@, Conn(c).off, Conn(c).buf),
       !.conn[c] = [pc |-> "done", code |-> 200, up |-> TRUE, alone |-> Conn(c).alone,
                    whole |-> Conn(c).next > HostBlocks + 1]]

----------------------------------------------------------------------------
\* The range that is answered to a request, and whether it is a part.
Part(range, size) ==
  LET end == IF range.end = NoEnd \/ range.end >= size \/ range.end = 0 THEN size - 1 ELSE range.end
  IN IF range.start <= end THEN [part |-> TRUE, start |-> range.start, length |-> end - range.start + 1]
     ELSE [part |-> FALSE, start |-> 0, length |-> size]

\* stat, the range, open, and the header with its Content-Length.  lseek
\* refuses a start before the file and stays where it is.
HostGet(c) ==
  /\ Conn(c).pc = "idle"
  /\ \E range \in HostRange :
       LET p == Part(range, Len(host.file))
       IN host' = [host EXCEPT !.conn[c] =
            [pc |-> "send", part |-> p, pos |-> IF p.start < 0 THEN 0 ELSE p.start, sent |-> <<>>, alone |-> TRUE]]

\* read and send until the announced length, or the end of the file.
HostSend(c) ==
  /\ Conn(c).pc = "send"
  /\ LET g == Conn(c) IN
     IF Len(g.sent) < g.part.length /\ g.pos < Len(host.file)
     THEN host' = [host EXCEPT !.conn[c] = [g EXCEPT !.sent = Append(@, host.file[g.pos + 1]), !.pos = @ + 1]]
     ELSE host' = [host EXCEPT !.conn[c] =
            [pc |-> "done", part |-> g.part, pos |-> g.pos, sent |-> g.sent, alone |-> g.alone,
             code |-> IF g.part.part THEN 206 ELSE 200]]

HostThread(c) == HostShort(c) \/ HostUpload(c) \/ HostRecv(c) \/ HostCut(c) \/ HostClose(c) \/ HostGet(c) \/ HostSend(c)

HostNext == host.pc = "on" /\ \E c \in HostConn : HostThread(c)

\* Threads run, and both timeouts of eight seconds end a call that waits.
HostFair == \A c \in HostConn : WF_host(host.pc = "on" /\ HostThread(c))

----------------------------------------------------------------------------
\* An upload that arrived whole, with no other upload of that name at work,
\* has stored its data: every block in its place, and after the data at most
\* the closing boundary, which stdio may write back behind the truncation.
HostKeeps ==
  host.pc = "on" => \A c \in HostConn :
    "up" \in DOMAIN Conn(c) /\ Conn(c).alone /\ Conn(c).whole =>
      /\ Len(host.file) >= HostBlocks
      /\ \A i \in 1 .. HostBlocks : host.file[i] = <<c, i>>
      /\ SubSeq(host.file, HostBlocks + 1, Len(host.file)) \in {<<>>, <<Trailer(c)>>}

\* A download is the blocks that its header announces, as many and those, if
\* no upload changed the file since stat.  (A range that starts before the
\* file, as in bytes=-5, is announced too long.)
HostHonest ==
  host.pc = "on" => \A c \in HostConn :
    Conn(c).pc = "done" /\ "sent" \in DOMAIN Conn(c) /\ Conn(c).alone =>
      LET p == Conn(c).part
      IN p.start >= 0 => Conn(c).sent = SubSeq(host.file, p.start + 1, p.start + p.length) /\ Len(Conn(c).sent) = p.length

\* Uploads are kept and downloads are what they are announced to be, while
\* the threads of other connections read and write the same file.
HostServes == HostKeeps /\ HostHonest

\* Every connection is answered or closed.
HostAnswers == \A c \in HostConn : host.pc = "on" ~> (host.pc = "on" /\ Conn(c).pc = "done")
=============================================================================
