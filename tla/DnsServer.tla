------------------------------ MODULE DnsServer ------------------------------
(***************************************************************************)
(* heavy_utils/dnsserver.c: a DNS forwarder with a blocklist, local hosts  *)
(* and a cache.  One thread serves one query at a time; the upstream       *)
(* server answers late, or not at all, and its answers change with time.   *)
(* A key is a name and a type; an answer is the key it was given for and   *)
(* the time it was given.  Names on the wire are in Clients.               *)
(***************************************************************************)
EXTENDS Integers, Sequences, SequencesExt, FiniteSets

CONSTANTS
  DnsKey,      \* keys: <<name, type>>
  DnsBlocked,  \* names of the blocklist, with their subdomains
  DnsLocal,    \* names of the table of local hosts
  DnsId,       \* ids that clients put into their queries
  MaxCache,    \* entries of dns_cache (256)
  DnsTtl,      \* what save_to_cache is told (120 seconds)
  MaxTime      \* bound on the clock

ASSUME DnsAssumption == DnsTtl \in Nat

VARIABLE dns

DnsOff == [pc |-> "off"]

NoReply == [kind |-> "none"]

DnsStart ==
  [pc |-> "poll", now |-> 0, cache |-> <<>>, paused |-> FALSE, id |-> 0, key |-> <<>>, reply |-> NoReply]

\* is_domain_blocked and find_local_host, whose comparisons ignore case.
IsBlocked(d, key) == ~d.paused /\ key[1] \in DnsBlocked

IsLocal(key) == key[1] \in DnsLocal /\ key[2] = "A"

StaleEntry(d, i, key) == d.cache[i].used /\ d.cache[i].key = key

LiveEntry(d, i, key) == d.cache[i].used /\ d.cache[i].key = key /\ d.cache[i].expire >= d.now

\* find_in_cache walks to the first live entry and gives up the expired ones
\* of that key on its way.
Looked(d, key) ==
  LET live == {i \in DOMAIN d.cache : LiveEntry(d, i, key)}
      past == {i \in DOMAIN d.cache : \A j \in live : i < j}
  IN [d EXCEPT !.cache = [i \in DOMAIN @ |->
        IF i \in past /\ StaleEntry(d, i, key) THEN [@[i] EXCEPT !.used = FALSE] ELSE @[i]]]

FreeSlot(d) == {i \in DOMAIN d.cache : ~d.cache[i].used \/ d.cache[i].expire < d.now}

\* save_to_cache: the first free slot, else a new one, else any.
Saved(d, entry) ==
  LET free == FreeSlot(d)
  IN IF free # {} THEN {[d EXCEPT !.cache[CHOOSE i \in free : \A j \in free : i <= j] = entry]}
     ELSE IF Len(d.cache) < MaxCache THEN {[d EXCEPT !.cache = Append(@, entry)]}
     ELSE {[d EXCEPT !.cache[i] = entry] : i \in DOMAIN d.cache}

Reply(d, kind, id, data) == [d EXCEPT !.pc = "poll", !.reply = [kind |-> kind, id |-> id, data |-> data]]

\* A query of another process's library: the table of the blocklist first,
\* then the local hosts, the cache, and the upstream server.
DnsQuery ==
  /\ dns.pc = "poll"
  /\ \E key \in DnsKey, id \in DnsId :
       LET d == [dns EXCEPT !.id = id, !.key = key]
           l == Looked(d, key)
           hits == {i \in DOMAIN l.cache : LiveEntry(l, i, key)}
       IN dns' = IF IsBlocked(d, key) THEN Reply(d, "sink", id, key)
                 ELSE IF IsLocal(key) THEN Reply(d, "local", id, key)
                 ELSE IF hits # {}
                 THEN Reply(l, "cached", id, l.cache[CHOOSE i \in hits : \A j \in hits : i <= j].data)
                 ELSE [l EXCEPT !.pc = "forward", !.reply = NoReply]

\* Too short, or without a question.
DnsIgnore == dns.pc = "poll" /\ dns' = [dns EXCEPT !.reply = NoReply]

\* forward_dns_query: the answer is for the query just sent, the socket is
\* new.  It is passed on and then kept.
DnsForward ==
  /\ dns.pc = "forward"
  /\ LET data == [key |-> dns.key, at |-> dns.now]
         entry == [used |-> TRUE, key |-> dns.key, data |-> data, expire |-> dns.now + DnsTtl]
     IN \E d \in Saved(dns, entry) : dns' = Reply(d, "upstream", dns.id, data)

\* Two seconds without an answer: the client gets none either.
DnsTimeout == dns.pc = "forward" /\ dns' = [dns EXCEPT !.pc = "poll", !.reply = NoReply]

\* p and c at the terminal.
DnsKeyPress ==
  /\ dns.pc = "poll"
  /\ \/ dns' = [dns EXCEPT !.paused = ~@, !.reply = NoReply]
     \/ dns' = [dns EXCEPT !.cache = <<>>, !.reply = NoReply]

DnsTick == dns.pc # "off" /\ dns.now < MaxTime /\ dns' = [dns EXCEPT !.now = @ + 1, !.reply = NoReply]

DnsNext ==
  \/ dns.pc # "off" /\ (DnsQuery \/ DnsIgnore \/ DnsForward \/ DnsTimeout \/ DnsKeyPress)
  \/ DnsTick

----------------------------------------------------------------------------
\* The client gets the answer to its own question: with its own id, from the
\* upstream server for the very name and type it asked, no older than the
\* time entries may be kept, and 0.0.0.0 only for a blocked name; whatever
\* was asked, cached, expired, thrown out or cleared before.  And a key has
\* one live entry at most, so no older answer hides behind a newer one.
DnsAnswers ==
  dns.pc # "off" =>
    /\ \A i, j \in DOMAIN dns.cache : LiveEntry(dns, i, dns.cache[j].key) /\ LiveEntry(dns, j, dns.cache[j].key) => i = j
    /\ dns.reply # NoReply =>
         /\ dns.reply.id = dns.id
         /\ dns.reply.kind \in {"cached", "upstream"} =>
              /\ dns.reply.data.key = dns.key
              /\ dns.reply.data.at >= dns.now - DnsTtl
              /\ ~IsBlocked(dns, dns.key) /\ ~IsLocal(dns.key)
         /\ dns.reply.kind = "sink" => dns.key[1] \in DnsBlocked
=============================================================================
