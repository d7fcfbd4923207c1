------------------------------- MODULE Network -------------------------------
(***************************************************************************)
(* The programs that serve or use the network.  They share nothing with    *)
(* each other: a behaviour is one of a server with its clients, or of a    *)
(* client with whatever answers it.                                        *)
(***************************************************************************)
EXTENDS DnsServer, Netclip, SimpleHost, Clients

netvars == <<dns, clip, host, scan, cli>>

Init ==
  \/ dns = DnsStart /\ clip = ClipOff /\ host = HostOff /\ scan = ScanOff /\ cli = CliOff
  \/ dns = DnsOff /\ clip = ClipStart /\ host = HostOff /\ scan = ScanOff /\ cli = CliOff
  \/ dns = DnsOff /\ clip = ClipOff /\ host = HostStart /\ scan = ScanOff /\ cli = CliOff
  \/ dns = DnsOff /\ clip = ClipOff /\ host = HostOff /\ scan \in ScanStarts /\ cli = CliOff
  \/ dns = DnsOff /\ clip = ClipOff /\ host = HostOff /\ scan = ScanOff /\ cli \in CliStarts

Next ==
  \/ DnsNext /\ UNCHANGED <<clip, host, scan, cli>>
  \/ ClipNext /\ UNCHANGED <<dns, host, scan, cli>>
  \/ HostNext /\ UNCHANGED <<dns, clip, scan, cli>>
  \/ ScanNext /\ UNCHANGED <<dns, clip, host, cli>>
  \/ CliNext /\ UNCHANGED <<dns, clip, host, scan>>

Spec == Init /\ [][Next]_netvars /\ ClipFair /\ HostFair /\ CliFair

----------------------------------------------------------------------------
\* Nobody waits for ever: the listener of netclip comes back to its next
\* connection, every connection to simplehost ends, and the clients leave.
NetReturns == ClipListens /\ HostAnswers /\ CliLeaves

\* The tools of the network report what there is: scanners every address and
\* port once, clients the answers to their own questions.
NetToolsAgree == ScannedOnce /\ ClientsAgree

-----------------------------------------------------------------------------
(* Names, ranges, lists of ports and clocks for the run. *)

Keys == {"local", "ads", "com"} \X {"A", "AAAA"}

R(start, end) == [start |-> start, end |-> end]

Ranges == {R(0, NoEnd), R(1, 1), R(1, NoEnd), R(2, 1), R(0, 0), R(0 - 1, NoEnd), R(1, 2), R(3, 9)}

Tokens == {<< <<80, 80>>, <<79, 81>>, <<80, 80>> >>, << <<0, 3>>, <<5, 4>> >>, << <<1, 6>> >>,
           << <<65534, 65535>>, <<65535, 65536>>, <<65536, 65536>>, <<7, 7>> >>}

\* Around the wrap of the seconds of NTP.
Times == [sent : 20 .. 24, offset : {0 - 3, 0, 2}, there : {0, 2}, back : {0, 1}]

Domains == {<< <<7, 8>>, <<9>> >>, << <<7>> >>, <<>>, << <<5, 5, 5>>, <<6>>, <<7, 7>> >>}
=============================================================================
