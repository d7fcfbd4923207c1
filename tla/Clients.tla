------------------------------- MODULE Clients -------------------------------
(***************************************************************************)
(* Programs that ask a server: low-utils/ping, src/httpget, src/rawcat,    *)
(* src/sntp and src/dnsquery.  What the network does with their packets,   *)
(* and how a stream falls into pieces, is anything.                        *)
(***************************************************************************)
EXTENDS Integers, Sequences, SequencesExt, FiniteSets, TLC

CONSTANTS
  PingCount,     \* count_limit, 5 if not given
  PingFails,     \* bound on the requests that cannot be sent
  SeqWidth,      \* values of the sequence number of an echo (65536)
  MaxRedirects,  \* redirects followed (8)
  HttpBlocks,    \* blocks of an answer
  MaxBody,       \* blocks response_buf holds
  RawBlocks,     \* blocks each side of rawcat's connection has to say
  NtpDelta,      \* NTP_TIMESTAMP_DELTA
  NtpWidth,      \* values of a count of seconds in a packet (2^32)
  LongWidth,     \* values of an unsigned long long (2^64)
  NtpTimes,      \* [sent, offset, there, back]: clock, its error, both delays
  DnsDomain      \* names: sequences of labels, a label a sequence of letters

VARIABLE cli

CliOff == [prog |-> "off", pc |-> "off"]

----------------------------------------------------------------------------
(* ping *)

\* socket: a raw one if the user may, which hears what others are told too.
PingStarts ==
  [prog : {"ping"}, pc : {"send"}, raw : BOOLEAN, seq : {1}, tx : {0}, unsent : {0}, rx : {0}, flying : {{}},
   stray : {FALSE}, stop : {FALSE}]

\* sendto; a failed one is reported and not counted.
PingSend ==
  /\ cli.prog = "ping" /\ cli.pc = "send"
  /\ \/ cli' = [cli EXCEPT !.pc = "wait", !.tx = @ + 1, !.flying = @ \union {cli.seq}]
     \/ cli.unsent < PingFails /\ cli' = [cli EXCEPT !.pc = "wait", !.unsent = @ + 1]

\* Any echo reply on the socket is taken for the answer to this request: one
\* to an earlier request, one that comes a second time, and on a raw socket
\* one to another program.
PingReply ==
  /\ cli.prog = "ping" /\ cli.pc = "wait"
  /\ LET heard == [cli EXCEPT !.rx = @ + 1, !.pc = "pause"]
     IN \/ \E s \in cli.flying : cli' = [heard EXCEPT !.flying = @ \ {s}]
        \/ (cli.raw \/ cli.rx > 0) /\ cli' = [heard EXCEPT !.stray = TRUE]

PingTimeout == cli.prog = "ping" /\ cli.pc = "wait" /\ cli' = [cli EXCEPT !.pc = "pause"]

PingPause ==
  /\ cli.prog = "ping" /\ cli.pc = "pause"
  /\ cli' = [cli EXCEPT !.seq = (@ + 1) % SeqWidth,
                        !.pc = IF cli.stop \/ (PingCount > 0 /\ cli.tx >= PingCount) THEN "done" ELSE "send"]

\* SIGINT, which the loops notice when they look next.
PingInterrupt == cli.prog = "ping" /\ cli.pc = "wait" /\ ~cli.stop /\ cli' = [cli EXCEPT !.stop = TRUE]

Ping == PingSend \/ PingReply \/ PingTimeout \/ PingPause

----------------------------------------------------------------------------
(* httpget *)

\* One hop: what has come of its answer, and what the buffer holds of it.
HttpHop(port, host, redirs) ==
  [prog |-> "http", pc |-> "hop", host |-> host, port |-> port, redirs |-> redirs, status |-> 0, to |-> "none",
   header |-> FALSE, seen |-> 0, body |-> <<>>, split |-> FALSE, dropped |-> FALSE, out |-> "none"]

HttpStarts == {HttpHop(port, "first", 0) : port \in {80, 443}}

HttpDone(c, out) == [c EXCEPT !.pc = "done", !.out = out]

\* https goes to curl; when that has nothing, and for http, a connection.
HttpConnect ==
  /\ cli.prog = "http" /\ cli.pc = "hop"
  /\ \/ cli.port = 443 /\ cli' = HttpDone(cli, "curl")
     \/ cli' = HttpDone(cli, "error")
     \/ cli' = [cli EXCEPT !.pc = "recv"]

Blocks(c, n) == [i \in 1 .. n |-> <<c.redirs, c.seen + i>>]

\* memcpy to the start of the buffer, and the count as if it went to the end:
\* behind both the buffer holds what it held.
Overlaid(body, new) == [i \in 1 .. Len(body) + Len(new) |->
                          IF i <= Len(new) THEN new[i] ELSE IF i <= Len(body) THEN body[i] ELSE <<0, 0>>]

\* recv: the header is looked for in each piece by itself; pieces before it
\* are taken for the body, and later pieces that do not fit are left out.
HttpRecv ==
  /\ cli.prog = "http" /\ cli.pc = "recv"
  /\ \E n \in 1 .. 2 :
       LET new == Blocks(cli, n)
           c == [cli EXCEPT !.seen = @ + n]
           fits == Len(cli.body) + n <= MaxBody
           Kept(h) == IF fits THEN [h EXCEPT !.body = @ \o new] ELSE [h EXCEPT !.dropped = TRUE]
       IN /\ cli.seen + n <= HttpBlocks
          /\ \/ /\ ~cli.header
                /\ \E status \in {200, 301}, to \in {"none", "/", "second", "https"} :
                     cli' = [c EXCEPT !.header = TRUE, !.status = status, !.to = to, !.body = Overlaid(@, new)]
             \/ ~cli.header /\ cli' = [Kept(c) EXCEPT !.split = TRUE]
             \/ cli.header /\ cli' = Kept(c)

\* parse_url: a path stays with the host and the port, another host is asked
\* on the port of its scheme.
ParseUrl(c, redirs) ==
  IF c.to = "/" THEN HttpHop(c.port, c.host, redirs)
  ELSE HttpHop(IF c.to = "https" THEN 443 ELSE 80, "second", redirs)

Redirected(c) == c.status = 301 /\ c.to # "none"

\* The connection ended: another hop, or the page.
HttpEnd ==
  /\ cli.prog = "http" /\ cli.pc = "recv"
  /\ cli' = IF ~Redirected(cli) THEN HttpDone(cli, "page")
            ELSE IF cli.redirs + 1 < MaxRedirects THEN ParseUrl(cli, cli.redirs + 1)
            ELSE HttpDone([cli EXCEPT !.redirs = @ + 1], "limit")

Http == HttpConnect \/ HttpRecv \/ HttpEnd

----------------------------------------------------------------------------
(* rawcat *)

RawStart == [prog |-> "raw", pc |-> "on", sent |-> 0, shut |-> FALSE, peer |-> 0, closed |-> FALSE, shown |-> 0]

\* select, and both sides that are ready; after its end of file the standard
\* input is ready for ever.
RawInput ==
  IF cli.sent < RawBlocks THEN [cli EXCEPT !.sent = @ + 1] ELSE [cli EXCEPT !.shut = TRUE]

RawSocket(c) ==
  IF c.shown < c.peer THEN [c EXCEPT !.shown = @ + 1]
  ELSE IF c.closed THEN [c EXCEPT !.pc = "done"] ELSE c

RawSocketReady == cli.prog = "raw" /\ cli.pc = "on" /\ cli' = RawSocket(cli)

RawBothReady == cli.prog = "raw" /\ cli.pc = "on" /\ cli' = RawSocket(RawInput)

\* The peer says what it has to say, and closes when it has got everything.
RawPeer ==
  /\ cli.prog = "raw" /\ ~cli.closed
  /\ \/ cli.peer < RawBlocks /\ cli' = [cli EXCEPT !.peer = @ + 1]
     \/ cli.peer = RawBlocks /\ cli.shut /\ cli' = [cli EXCEPT !.closed = TRUE]

----------------------------------------------------------------------------
(* sntp and dnsquery: one question, one answer or a timeout *)

NtpTimestamp(unix) == (unix + NtpDelta) % NtpWidth

\* ntp_to_unix_time: the 32 bits of the packet less a constant of 64, unsigned.
\* (That the difference is then rounded to a double is left out.)
NtpToUnix(sec) == IF sec = 0 THEN 0 ELSE (sec - NtpDelta) % LongWidth

\* The four times; twice the offset, to stay with integers.
Sntp(q) ==
  LET t0 == q.sent
      t1 == NtpToUnix(NtpTimestamp(q.sent + q.there + q.offset))
      t2 == NtpToUnix(NtpTimestamp(q.sent + q.there + 1 + q.offset))
      t3 == q.sent + q.there + 1 + q.back
  IN [delay |-> (t3 - t0) - (t2 - t1), offset2 |-> (t1 - t0) + (t2 - t3)]

\* One of the server's times is past the second of 2036 in which the 32 bits
\* start again, and so before 1970 for the client.
NtpWrapped(q) == \E d \in 0 .. 1 : NtpTimestamp(q.sent + q.there + d + q.offset) < NtpDelta

SntpStarts == {[prog |-> "sntp", pc |-> "ask", q |-> q] : q \in NtpTimes}

SntpAsk ==
  /\ cli.prog = "sntp" /\ cli.pc = "ask"
  /\ \/ cli' = [cli EXCEPT !.pc = "done"] @@ [answer |-> Sntp(cli.q)]
     \/ cli' = [cli EXCEPT !.pc = "failed"]

\* domain_to_dns_format: each label behind its length, and a zero.
ToDnsFormat(domain) == FoldLeft(LAMBDA out, label : out \o <<Len(label)>> \o label, <<>>, domain) \o <<0>>

\* A pointer of two bytes at the end of a name: 192 and the place it goes to.
IsPointer(packet, at) == packet[at] = 192

\* read_dns_name: the labels from a place on, across pointers, and how many
\* bytes the name takes where it starts.
ReadDnsName(packet, start) ==
  LET Read[at \in 1 .. Len(packet), jumps \in 0 .. 10] ==
        IF packet[at] = 0 \/ jumps = 10 THEN [labels |-> <<>>, used |-> 1]
        ELSE IF IsPointer(packet, at) THEN [labels |-> Read[packet[at + 1] + 1, jumps + 1].labels, used |-> 2]
        ELSE LET rest == Read[at + packet[at] + 1, jumps]
             IN [labels |-> <<SubSeq(packet, at + 1, at + packet[at])>> \o rest.labels,
                 used |-> 1 + packet[at] + rest.used]
  IN Read[start, 0]

DnsqStarts == {[prog |-> "dnsq", pc |-> "ask", d |-> d] : d \in DnsDomain}

\* The answer repeats the question and points back to its name.
DnsqAsk ==
  /\ cli.prog = "dnsq" /\ cli.pc = "ask"
  /\ \/ cli' = [cli EXCEPT !.pc = "done"] @@ [packet |-> ToDnsFormat(cli.d) \o <<192, 0, 9>>]
     \/ cli' = [cli EXCEPT !.pc = "failed"]

CliStarts == {RawStart} \union PingStarts \union HttpStarts \union SntpStarts \union DnsqStarts

CliNext == Ping \/ PingInterrupt \/ Http \/ RawSocketReady \/ RawBothReady \/ RawPeer \/ SntpAsk \/ DnsqAsk

\* The programs run and their timeouts expire.
CliFair == WF_cli(Ping \/ Http \/ SntpAsk \/ DnsqAsk) /\ WF_cli(RawBothReady) /\ WF_cli(RawPeer)

----------------------------------------------------------------------------
\* What the program reports is what happened.  ping: no more replies than
\* requests, or the loss, an unsigned difference, is absurd; unless a reply was
\* not to a request of its own, and then no more than it waited for.  httpget:
\* the page is the last answer alone, whole and in order, however many
\* redirects came before it, if its header came in one piece and the buffer
\* was not full; and no more redirects than allowed.  rawcat: all that was said
\* is shown before it leaves.  sntp: the offset is off by half the difference
\* of the two delays at most, until the seconds start again in 2036 (the
\* offset is then 2^64 - 2^32 seconds off).  dnsquery: the name that is read,
\* directly or by a pointer, is the one written.
ClientsAgree ==
  /\ cli.prog = "ping" =>
       /\ cli.tx <= PingCount /\ cli.rx <= cli.tx + cli.unsent
       /\ ~cli.stray => cli.rx + Cardinality(cli.flying) <= cli.tx
  /\ cli.prog = "http" =>
       /\ cli.redirs <= MaxRedirects
       /\ ~cli.split /\ cli.out # "limit" => \A i \in DOMAIN cli.body : cli.body[i][1] = cli.redirs
       /\ cli.out = "page" /\ ~cli.split /\ ~cli.dropped => cli.body = [i \in 1 .. cli.seen |-> <<cli.redirs, i>>]
  /\ cli.prog = "raw" /\ cli.pc = "done" => cli.shown = RawBlocks /\ cli.sent = RawBlocks
  /\ cli.prog = "sntp" /\ cli.pc = "done" /\ ~NtpWrapped(cli.q) =>
         /\ cli.answer.delay = cli.q.there + cli.q.back
         /\ cli.answer.offset2 - 2 * cli.q.offset = cli.q.there - cli.q.back
  /\ cli.prog = "dnsq" /\ cli.pc = "done" =>
       LET at == Len(ToDnsFormat(cli.d)) + 1
       IN /\ ReadDnsName(cli.packet, 1) = [labels |-> cli.d, used |-> at - 1]
          /\ ReadDnsName(cli.packet, at) = [labels |-> cli.d, used |-> 2]

\* rawcat leaves after the peer has closed, and every question with a timeout
\* is given up in the end.
CliLeaves == cli.prog \in {"raw", "sntp", "dnsq", "http"} ~> cli.pc \in {"done", "failed"}

----------------------------------------------------------------------------
(* Programs that look for hosts and devices: src/netscan, whose threads    *)
(* share the addresses of a subnet, src/portcheck with its list of ports,  *)
(* and the two that collect answers to a broadcast within a time window,   *)
(* src/iotscan and netclip's discovery.  Answers repeat, and get lost.     *)

CONSTANTS
  ScanHosts,     \* addresses of a subnet (254)
  ScanThreads,   \* THREAD_POOL_SIZE (48)
  ScanAlive,     \* the addresses with an open port
  PortTokens,    \* lists of tokens given to portcheck: <<from, to>>
  MaxPorts,      \* MAX_PORTS
  MaxPort,       \* the largest port (65535)
  PortsOpen,     \* ports that accept
  Responder,     \* hosts that answer a broadcast
  MaxFound       \* MAX_DEVICES of iotscan, 8 peers of netclip

VARIABLE scan

ScanOff == [prog |-> "off"]

----------------------------------------------------------------------------
(* netscan *)

Chunk == ScanHosts \div ScanThreads

TaskStart(t) == t * Chunk + 1

TaskEndEven(t) == (t + 1) * Chunk

\* The last thread takes what the division leaves over.
TaskEnd(t) == IF t = ScanThreads - 1 THEN ScanHosts ELSE (t + 1) * Chunk

ScanTask == 0 .. ScanThreads - 1

NetscanStart ==
  [prog |-> "netscan", pc |-> "scan", next |-> [t \in ScanTask |-> TaskStart(t)],
   times |-> [i \in 1 .. ScanHosts |-> 0], alive |-> {}, probed |-> 0, found |-> {}]

\* One of the probed ports accepts within 300 ms.
ProbeTcpPort(i) == i \in ScanAlive

\* scanner_thread, one address: its own slot of results, then the counter
\* under the lock.
ScanHost(t) ==
  /\ scan.prog = "netscan" /\ scan.next[t] <= TaskEnd(t)
  /\ LET i == scan.next[t]
     IN scan' = [scan EXCEPT !.next[t] = @ + 1, !.times[i] = @ + 1, !.probed = @ + 1,
                             !.alive = IF ProbeTcpPort(i) THEN @ \union {i} ELSE @ \ {i}]

\* pthread_join of all, and the report.
ScanReport ==
  /\ scan.prog = "netscan" /\ scan.pc = "scan" /\ \A t \in ScanTask : scan.next[t] > TaskEnd(t)
  /\ scan' = [scan EXCEPT !.pc = "done", !.found = scan.alive]

----------------------------------------------------------------------------
(* portcheck *)

Listed(ports, p) == p \notin Range(ports)

\* parse_ports: ranges and numbers in the order given, each port once.
AddPort(ports, p) == IF Len(ports) < MaxPorts /\ Listed(ports, p) THEN Append(ports, p) ELSE ports

AddToken(ports, token) ==
  IF token[1] > 0 /\ token[2] >= token[1] /\ token[2] <= MaxPort
  THEN FoldLeft(AddPort, ports, [i \in 1 .. token[2] - token[1] + 1 |-> token[1] + i - 1])
  ELSE ports

ParsePorts(tokens) == FoldLeft(AddToken, <<>>, tokens)

PortcheckStarts ==
  {[prog |-> "portcheck", pc |-> IF ParsePorts(tk) = <<>> THEN "done" ELSE "scan", tokens |-> tk,
    ports |-> ParsePorts(tk), i |-> 1, open |-> {}, closed |-> 0] : tk \in PortTokens}

\* scan_host_ports: without a socket, or after 1.5 s, a port counts as closed.
PortProbe ==
  /\ scan.prog = "portcheck" /\ scan.pc = "scan"
  /\ IF scan.i > Len(scan.ports) THEN scan' = [scan EXCEPT !.pc = "done"]
     ELSE \E answered \in BOOLEAN :
            LET p == scan.ports[scan.i]
                s == [scan EXCEPT !.i = @ + 1]
            IN scan' = IF answered /\ p \in PortsOpen THEN [s EXCEPT !.open = @ \union {p}]
                       ELSE [s EXCEPT !.closed = @ + 1]

----------------------------------------------------------------------------
(* iotscan, and netclip's discover_peers *)

WindowStart == [prog |-> "window", pc |-> "wait", answers |-> {}, devices |-> <<>>]

\* An answer, perhaps one more of a device that has answered before.
IsDuplicate(devices, ip) == ip \in Range(devices)

WindowAnswer ==
  /\ scan.prog = "window" /\ scan.pc = "wait"
  /\ \E ip \in Responder :
       scan' = [scan EXCEPT !.answers = @ \union {ip},
         !.devices = IF IsDuplicate(@, ip) \/ Len(@) >= MaxFound THEN @ ELSE Append(@, ip)]

WindowEnds == scan.prog = "window" /\ scan.pc = "wait" /\ scan' = [scan EXCEPT !.pc = "done"]

PeersStart == [prog |-> "peers", pc |-> "wait", answers |-> {}, devices |-> <<>>, target |-> 0]

\* discover_peers stops to listen when its table is full.
PeerAnswer ==
  /\ scan.prog = "peers" /\ scan.pc = "wait" /\ Len(scan.devices) < MaxFound
  /\ \E ip \in Responder :
       scan' = [scan EXCEPT !.answers = @ \union {ip}, !.devices = IF IsDuplicate(@, ip) THEN @ ELSE Append(@, ip)]

\* After two seconds: the only peer, the one the user types, or the first.
PeerChoose ==
  /\ scan.prog = "peers" /\ scan.pc = "wait"
  /\ LET n == Len(scan.devices) IN
     \E choice \in 0 .. n + 1 :
       scan' = [scan EXCEPT !.pc = "done",
         !.target = IF n = 0 THEN 0 ELSE IF n > 1 /\ choice \in 1 .. n THEN scan.devices[choice] ELSE scan.devices[1]]

ScanStarts == {NetscanStart, WindowStart, PeersStart} \union PortcheckStarts

ScanNext ==
  \/ \E t \in ScanTask : ScanHost(t)
  \/ ScanReport \/ PortProbe \/ WindowAnswer \/ WindowEnds \/ PeerAnswer \/ PeerChoose

----------------------------------------------------------------------------
\* A scan looks at everything once and forgets nothing: the threads' parts
\* cover the subnet and do not overlap, and the report is what is alive; each
\* of the ports asked for, up to the limit, is tried and counted once; a
\* device that answered is listed once, unless the list is full, and the
\* peer that is chosen is one that answered.
ScannedOnce ==
  /\ scan.prog = "netscan" =>
       /\ \A i \in 1 .. ScanHosts : scan.times[i] <= 1
       /\ scan.probed = Cardinality({i \in 1 .. ScanHosts : scan.times[i] = 1})
       /\ scan.pc = "done" => scan.probed = ScanHosts /\ scan.found = ScanAlive
  /\ scan.prog = "portcheck" =>
       /\ IsInjective(scan.ports)
       /\ LET asked == UNION {token[1] .. token[2] : token \in {tk \in Range(scan.tokens) : tk[1] > 0 /\ tk[2] <= MaxPort}}
          IN Range(scan.ports) \subseteq asked /\ (Len(scan.ports) < MaxPorts => Range(scan.ports) = asked)
       /\ scan.pc = "done" => Cardinality(scan.open) + scan.closed = Len(scan.ports) /\ scan.open \subseteq PortsOpen
  /\ scan.prog = "window" =>
       /\ IsInjective(scan.devices) /\ Len(scan.devices) <= MaxFound
       /\ IF Cardinality(scan.answers) <= MaxFound THEN Range(scan.devices) = scan.answers
          ELSE Len(scan.devices) = MaxFound
  /\ scan.prog = "peers" =>
       /\ IsInjective(scan.devices) /\ Range(scan.devices) = scan.answers
       /\ scan.pc = "done" => IF scan.answers = {} THEN scan.target = 0 ELSE scan.target \in scan.answers
=============================================================================
