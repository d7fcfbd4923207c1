--------------------------- MODULE NetworkProofs ---------------------------
(***************************************************************************)
(* Theorems about the network programs: dnsserver.c, for every cache size, *)
(* blocklist and time to live; netclip.c, for every number of senders,     *)
(* length of a payload and size of a socket's buffer; and simplehost.c, for*)
(* every number of connections, size of an upload and range asked for.     *)
(***************************************************************************)
EXTENDS Network, SequenceTheorems, WellFoundedInduction, TLAPS

-----------------------------------------------------------------------------
(* dnsserver.                                                              *)

Names == DnsKey \cup {<<>>}
Ids == DnsId \cup {0}
Answer == [key : Names, at : Nat]
Entry == [used : BOOLEAN, key : Names, data : Answer, expire : Nat]
Replies == {NoReply} \cup [kind : {"sink", "local", "cached", "upstream"}, id : Ids,
                           data : Names \cup Answer]

DnsRec == [pc : {"poll", "forward"}, now : Nat, cache : Seq(Entry), paused : BOOLEAN,
           id : Ids, key : Names, reply : Replies]

\* An entry of the cache is for its key and was made DnsTtl before it expires,
\* and a key has one live entry.
CacheInv(d) ==
  /\ \A i \in DOMAIN d.cache : d.cache[i].used =>
       /\ d.cache[i].data.key = d.cache[i].key
       /\ d.cache[i].expire = d.cache[i].data.at + DnsTtl
  /\ \A i, j \in DOMAIN d.cache :
       LiveEntry(d, i, d.cache[j].key) /\ LiveEntry(d, j, d.cache[j].key) => i = j

\* What is forwarded is neither blocked nor local, and not in the cache.
ForwardInv(d) ==
  d.pc = "forward" =>
    /\ ~IsBlocked(d, d.key) /\ ~IsLocal(d.key)
    /\ \A i \in DOMAIN d.cache : ~LiveEntry(d, i, d.key)

ReplyInv(d) ==
  d.reply # NoReply =>
    /\ d.reply.id = d.id
    /\ d.reply.kind \in {"cached", "upstream"} =>
         /\ d.reply.data.key = d.key
         /\ d.reply.data.at >= d.now - DnsTtl
         /\ ~IsBlocked(d, d.key) /\ ~IsLocal(d.key)
    /\ d.reply.kind = "sink" => d.key[1] \in DnsBlocked

DnsGood(d) == d \in DnsRec /\ CacheInv(d) /\ ForwardInv(d) /\ ReplyInv(d)

DnsInv == dns = DnsOff \/ DnsGood(dns)

LEMMA DnsStartGood == DnsGood(DnsStart)
  <1>1. DnsStart \in DnsRec
    <2>1. <<>> \in Seq(Entry) /\ <<>> \in Names /\ 0 \in Ids /\ NoReply \in Replies
      BY DEF Names, Ids, Replies
    <2> HIDE DEF Names, Ids, Replies, Entry
    <2> QED BY <2>1 DEF DnsStart, DnsRec
  <1>2. /\ DnsStart.cache = <<>> /\ DnsStart.pc = "poll" /\ DnsStart.reply = NoReply
    BY DEF DnsStart
  <1>3. DOMAIN DnsStart.cache = {}
    BY <1>2
  <1> QED BY <1>1, <1>2, <1>3 DEF DnsGood, CacheInv, ForwardInv, ReplyInv

\* What find_in_cache gives up was dead: the rest of the cache is as it was.
LEMMA LookedKeeps ==
  ASSUME NEW d \in DnsRec, NEW key, NEW l, l = Looked(d, key)
  PROVE  /\ l \in DnsRec /\ l.pc = d.pc /\ l.now = d.now /\ l.paused = d.paused
         /\ l.id = d.id /\ l.key = d.key /\ l.reply = d.reply
         /\ DOMAIN l.cache = DOMAIN d.cache
         /\ \A i \in DOMAIN d.cache :
              /\ l.cache[i].key = d.cache[i].key /\ l.cache[i].data = d.cache[i].data
              /\ l.cache[i].expire = d.cache[i].expire
              /\ l.cache[i].used => d.cache[i].used
  <1> DEFINE c == d.cache
             live == {i \in DOMAIN c : LiveEntry(d, i, key)}
             past == {i \in DOMAIN c : \A j \in live : i < j}
             dead(i) == i \in past /\ StaleEntry(d, i, key)
             e == [i \in DOMAIN c |-> IF dead(i) THEN [c[i] EXCEPT !.used = FALSE] ELSE c[i]]
  <1>1. l = [d EXCEPT !.cache = e]
    BY DEF Looked
  <1>2. c \in Seq(Entry)
    BY DEF DnsRec
  <1>3. \A i \in DOMAIN c : c[i] \in Entry
    BY <1>2
  <1> HIDE DEF dead, c
  <1>4. DOMAIN e = DOMAIN c
    OBVIOUS
  <1>5. ASSUME NEW i \in DOMAIN c
        PROVE  /\ e[i] \in Entry /\ e[i].key = c[i].key /\ e[i].data = c[i].data
               /\ e[i].expire = c[i].expire /\ (e[i].used => c[i].used)
    <2>1. CASE dead(i)
      <3>1. e[i] = [c[i] EXCEPT !.used = FALSE] /\ c[i] \in Entry
        BY <2>1, <1>3
      <3>2. e[i] \in Entry /\ e[i].used = FALSE
        BY <3>1 DEF Entry
      <3>3. e[i].key = c[i].key /\ e[i].data = c[i].data /\ e[i].expire = c[i].expire
        BY <3>1 DEF Entry
      <3> QED BY <3>2, <3>3
    <2>2. CASE ~dead(i)
      <3>1. e[i] = c[i] /\ c[i] \in Entry
        BY <2>2, <1>3
      <3> QED BY <3>1
    <2> QED BY <2>1, <2>2
  <1>6. e \in Seq(Entry)
    <2>1. DOMAIN c = 1 .. Len(c) /\ Len(c) \in Nat
      BY <1>2
    <2>2. e \in [1 .. Len(c) -> Entry]
      BY <1>4, <1>5, <2>1
    <2> QED BY <2>1, <2>2, SeqDef
  <1> HIDE DEF e
  <1>7. /\ l \in DnsRec /\ l.pc = d.pc /\ l.now = d.now /\ l.paused = d.paused
        /\ l.id = d.id /\ l.key = d.key /\ l.reply = d.reply /\ l.cache = e
    <2> HIDE DEF Entry, Replies
    <2> QED BY <1>1, <1>6 DEF DnsRec
  <1> QED BY <1>4, <1>5, <1>7 DEF c

\* A set of naturals that is not empty has a smallest one.
LEMMA SmallestOf ==
  ASSUME NEW S \in SUBSET Nat, S # {}
  PROVE  \E i \in S : \A j \in S : i <= j
  <1> DEFINE Less == OpToRel(<, Nat)
  <1>1. IsWellFoundedOn(Less, Nat)
    BY NatLessThanWellFounded
  <1>2. PICK i \in S : \A j \in S : ~(<<j, i>> \in Less)
    <2> HIDE DEF Less
    <2> QED BY <1>1, WFMin
  <1>3. Less = {ss \in Nat \X Nat : ss[1] < ss[2]}
    BY Zenon DEF OpToRel
  <1>4. ASSUME NEW j \in S PROVE i <= j
    <2> HIDE DEF Less
    <2>1. <<j, i>> \in Nat \X Nat /\ <<j, i>>[1] = j /\ <<j, i>>[2] = i
      OBVIOUS
    <2>2. ~(j < i)
      BY <1>2, <1>3, <2>1
    <2> QED BY <2>2
  <1> QED BY <1>4

\* Wherever save_to_cache puts the entry, the others are as they were.
LEMMA SavedPuts ==
  ASSUME NEW d \in DnsRec, NEW entry \in Entry, NEW s \in Saved(d, entry)
  PROVE  /\ s \in DnsRec /\ s.pc = d.pc /\ s.now = d.now /\ s.paused = d.paused
         /\ s.id = d.id /\ s.key = d.key /\ s.reply = d.reply
         /\ \E k \in DOMAIN s.cache :
              /\ s.cache[k] = entry
              /\ \A i \in DOMAIN s.cache \ {k} : i \in DOMAIN d.cache /\ s.cache[i] = d.cache[i]
  <1> DEFINE c == d.cache
  <1>0. c \in Seq(Entry)
    BY DEF DnsRec
  <1>1. ASSUME NEW e \in Seq(Entry), s = [d EXCEPT !.cache = e]
        PROVE  /\ s \in DnsRec /\ s.pc = d.pc /\ s.now = d.now /\ s.paused = d.paused
               /\ s.id = d.id /\ s.key = d.key /\ s.reply = d.reply /\ s.cache = e
    <2> HIDE DEF Entry, Replies
    <2> QED BY <1>1 DEF DnsRec
  <1>2. ASSUME NEW k \in DOMAIN c, s = [d EXCEPT !.cache[k] = entry]
        PROVE  /\ s \in DnsRec /\ s.pc = d.pc /\ s.now = d.now /\ s.paused = d.paused
               /\ s.id = d.id /\ s.key = d.key /\ s.reply = d.reply
               /\ \E x \in DOMAIN s.cache :
                    /\ s.cache[x] = entry
                    /\ \A i \in DOMAIN s.cache \ {x} :
                         i \in DOMAIN d.cache /\ s.cache[i] = d.cache[i]
    <2> DEFINE e == [c EXCEPT ![k] = entry]
    <2>1. e \in Seq(Entry) /\ DOMAIN e = DOMAIN c /\ e[k] = entry
          /\ \A i \in DOMAIN c \ {k} : e[i] = c[i]
      BY <1>0
    <2>2. s = [d EXCEPT !.cache = e]
      BY <1>2
    <2> HIDE DEF e
    <2>3. /\ s \in DnsRec /\ s.pc = d.pc /\ s.now = d.now /\ s.paused = d.paused
          /\ s.id = d.id /\ s.key = d.key /\ s.reply = d.reply /\ s.cache = e
      BY <2>1, <2>2, <1>1
    <2> QED BY <2>1, <2>3
  <1>3. CASE FreeSlot(d) # {}
    <2> DEFINE k == CHOOSE i \in FreeSlot(d) : \A j \in FreeSlot(d) : i <= j
    <2>1. s = [d EXCEPT !.cache[k] = entry]
      BY <1>3 DEF Saved
    <2>2. FreeSlot(d) \subseteq Nat /\ FreeSlot(d) \subseteq DOMAIN c
      BY <1>0 DEF FreeSlot
    <2>3. \E i \in FreeSlot(d) : \A j \in FreeSlot(d) : i <= j
      BY <1>3, <2>2, SmallestOf
    <2>4. k \in DOMAIN c
      BY <2>2, <2>3
    <2> HIDE DEF k
    <2> QED BY <2>1, <2>4, <1>2
  <1>4. CASE FreeSlot(d) = {} /\ Len(c) < MaxCache
    <2> DEFINE e == Append(c, entry)
    <2>1. s = [d EXCEPT !.cache = e]
      BY <1>4 DEF Saved
    <2>2. e \in Seq(Entry) /\ DOMAIN e = 1 .. Len(c) + 1 /\ DOMAIN c = 1 .. Len(c)
          /\ Len(c) \in Nat /\ e[Len(c) + 1] = entry
          /\ \A i \in 1 .. Len(c) : e[i] = c[i]
      BY <1>0
    <2> HIDE DEF e
    <2>3. /\ s \in DnsRec /\ s.pc = d.pc /\ s.now = d.now /\ s.paused = d.paused
          /\ s.id = d.id /\ s.key = d.key /\ s.reply = d.reply /\ s.cache = e
      BY <2>1, <2>2, <1>1
    <2> QED BY <2>2, <2>3
  <1>5. CASE FreeSlot(d) = {} /\ ~(Len(c) < MaxCache)
    <2>1. PICK k \in DOMAIN c : s = [d EXCEPT !.cache[k] = entry]
      BY <1>5 DEF Saved
    <2> QED BY <2>1, <1>2
  <1> QED BY <1>3, <1>4, <1>5

LEMMA DnsStep ==
  ASSUME DnsGood(dns), DnsNext
  PROVE  DnsGood(dns')
  <1>0. /\ dns \in DnsRec /\ CacheInv(dns) /\ ForwardInv(dns) /\ ReplyInv(dns)
        /\ dns.pc \in {"poll", "forward"} /\ dns.now \in Nat /\ dns.cache \in Seq(Entry)
        /\ dns.key \in Names /\ dns.paused \in BOOLEAN /\ dns.id \in Ids
    BY DEF DnsGood, DnsRec
  <1>n. NoReply \in Replies
    BY DEF Replies
  \* A step that forgets the last answer and leaves the cache.
  <1>k. ASSUME dns' \in DnsRec, dns'.cache = dns.cache, dns'.now >= dns.now,
               dns'.reply = NoReply,
               \/ dns'.pc = "poll"
               \/ dns'.pc = dns.pc /\ dns'.key = dns.key /\ dns'.paused = dns.paused
        PROVE  DnsGood(dns')
    <2>1. dns'.now \in Nat /\ \A i \in DOMAIN dns.cache : dns.cache[i].expire \in Nat
      <3>1. dns'.now \in Nat
        BY <1>k DEF DnsRec
      <3>2. ASSUME NEW i \in DOMAIN dns.cache PROVE dns.cache[i].expire \in Nat
        <4>1. dns.cache[i] \in Entry
          BY <1>0
        <4> QED BY <4>1 DEF Entry
      <3> QED BY <3>1, <3>2
    <2>2. \A i \in DOMAIN dns.cache : \A x : LiveEntry(dns', i, x) => LiveEntry(dns, i, x)
      BY <1>0, <1>k, <2>1 DEF LiveEntry
    <2>3. CacheInv(dns')
      BY <1>0, <1>k, <2>2 DEF CacheInv
    <2>4. ForwardInv(dns')
      BY <1>0, <1>k, <2>2 DEF ForwardInv, IsBlocked
    <2> QED BY <1>k, <2>3, <2>4 DEF DnsGood, ReplyInv
  <1>1. CASE DnsQuery
    <2>1. PICK key \in DnsKey, id \in DnsId :
            LET d == [dns EXCEPT !.id = id, !.key = key]
                l == Looked(d, key)
                hits == {i \in DOMAIN l.cache : LiveEntry(l, i, key)}
            IN dns' = IF IsBlocked(d, key) THEN Reply(d, "sink", id, key)
                      ELSE IF IsLocal(key) THEN Reply(d, "local", id, key)
                      ELSE IF hits # {}
                      THEN Reply(l, "cached", id,
                                 l.cache[CHOOSE i \in hits : \A j \in hits : i <= j].data)
                      ELSE [l EXCEPT !.pc = "forward", !.reply = NoReply]
      BY <1>1 DEF DnsQuery
    <2> DEFINE d == [dns EXCEPT !.id = id, !.key = key]
               l == Looked(d, key)
               hits == {i \in DOMAIN l.cache : LiveEntry(l, i, key)}
               first == CHOOSE i \in hits : \A j \in hits : i <= j
    <2>2. /\ d \in DnsRec /\ d.cache = dns.cache /\ d.now = dns.now /\ d.id = id
          /\ d.key = key /\ d.paused = dns.paused
      <3>1. id \in Ids /\ key \in Names
        BY DEF Ids, Names
      <3> HIDE DEF Entry, Replies, Ids, Names
      <3> QED BY <3>1, <1>0 DEF DnsRec
    <2> HIDE DEF d
    <2>3. /\ l \in DnsRec /\ l.now = dns.now /\ l.paused = dns.paused
          /\ l.id = id /\ l.key = key /\ DOMAIN l.cache = DOMAIN dns.cache
          /\ \A i \in DOMAIN dns.cache :
               /\ l.cache[i].key = dns.cache[i].key /\ l.cache[i].data = dns.cache[i].data
               /\ l.cache[i].expire = dns.cache[i].expire
               /\ l.cache[i].used => dns.cache[i].used
      BY <2>2, LookedKeeps
    <2>4. /\ dns' = IF IsBlocked(d, key) THEN Reply(d, "sink", id, key)
                    ELSE IF IsLocal(key) THEN Reply(d, "local", id, key)
                    ELSE IF hits # {} THEN Reply(l, "cached", id, l.cache[first].data)
                    ELSE [l EXCEPT !.pc = "forward", !.reply = NoReply]
      BY <2>1 DEF d
    <2> HIDE DEF l
    <2>5. CacheInv(d)
      BY <2>2, <1>0 DEF CacheInv, LiveEntry
    <2>6. CacheInv(l)
      <3>1. \A i \in DOMAIN l.cache : \A x : LiveEntry(l, i, x) => LiveEntry(dns, i, x)
        BY <2>3 DEF LiveEntry
      <3> QED BY <2>3, <3>1, <1>0 DEF CacheInv
    <2>7. ASSUME NEW c \in {d, l}, NEW kind \in {"sink", "local", "cached"},
                 NEW data \in Names \cup Answer, dns' = Reply(c, kind, id, data),
                 kind = "sink" => key[1] \in DnsBlocked,
                 kind = "cached" => /\ data.key = key /\ data.at >= dns.now - DnsTtl
                                    /\ ~IsBlocked(d, key) /\ ~IsLocal(key)
          PROVE  DnsGood(dns')
      <3> DEFINE r == [kind |-> kind, id |-> id, data |-> data]
      <3>1. r \in Replies /\ r.kind = kind /\ r.id = id /\ r.data = data
        BY <2>7 DEF Replies, Ids
      <3>2. dns' = [c EXCEPT !.pc = "poll", !.reply = r] /\ c \in DnsRec
        BY <2>2, <2>3, <2>7 DEF Reply
      <3> HIDE DEF r
      <3>3. /\ dns' \in DnsRec /\ dns'.pc = "poll" /\ dns'.reply = r /\ dns'.now = c.now
            /\ dns'.cache = c.cache /\ dns'.id = c.id /\ dns'.key = c.key
            /\ dns'.paused = c.paused
        <4> HIDE DEF Entry, Replies
        <4> QED BY <3>1, <3>2 DEF DnsRec
      <3>4. c.now = dns.now /\ c.id = id /\ c.key = key /\ c.paused = d.paused /\ CacheInv(c)
        BY <2>2, <2>3, <2>5, <2>6
      <3>5. CacheInv(dns')
        BY <3>3, <3>4 DEF CacheInv, LiveEntry
      <3>6. ReplyInv(dns')
        BY <2>7, <3>1, <3>3, <3>4 DEF ReplyInv, IsBlocked
      <3> QED BY <3>3, <3>5, <3>6 DEF DnsGood, ForwardInv
    <2>8. CASE IsBlocked(d, key)
      <3>1. dns' = Reply(d, "sink", id, key) /\ key \in Names /\ key[1] \in DnsBlocked
        BY <2>4, <2>8 DEF IsBlocked, Names
      <3> QED BY <3>1, <2>7
    <2>9. CASE ~IsBlocked(d, key) /\ IsLocal(key)
      <3>1. dns' = Reply(d, "local", id, key) /\ key \in Names
        BY <2>4, <2>9 DEF Names
      <3> QED BY <3>1, <2>7
    <2>10. CASE ~IsBlocked(d, key) /\ ~IsLocal(key) /\ hits # {}
      <3>1. hits \subseteq Nat
        BY <2>3, <1>0
      <3>2. \E i \in hits : \A j \in hits : i <= j
        BY <3>1, <2>10, SmallestOf
      <3>3. first \in hits
        BY <3>2
      <3> HIDE DEF first
      <3>4. /\ first \in DOMAIN l.cache /\ l.cache[first].used /\ l.cache[first].key = key
            /\ l.cache[first].expire >= dns.now
        BY <3>3, <2>3 DEF LiveEntry
      <3>5. l.cache[first] \in Entry
        BY <3>4, <2>3 DEF DnsRec
      <3>6. l.cache[first].data \in Answer /\ l.cache[first].data.at \in Nat
        BY <3>5 DEF Entry, Answer
      <3>7. l.cache[first].data.key = key /\ l.cache[first].data.at >= dns.now - DnsTtl
        <4>1. /\ l.cache[first].data.key = l.cache[first].key
              /\ l.cache[first].expire = l.cache[first].data.at + DnsTtl
          BY <3>4, <2>6 DEF CacheInv
        <4> QED BY <4>1, <3>4, <3>6, <1>0, DnsAssumption
      <3>8. dns' = Reply(l, "cached", id, l.cache[first].data)
        BY <2>4, <2>10
      <3> DEFINE x == l.cache[first].data
      <3>9. x \in Names \cup Answer /\ x.key = key /\ x.at >= dns.now - DnsTtl
        BY <3>6, <3>7
      <3> HIDE DEF x
      <3> QED BY <3>8, <3>9, <2>7, <2>10 DEF x
    <2>11. CASE ~IsBlocked(d, key) /\ ~IsLocal(key) /\ hits = {}
      <3>1. dns' = [l EXCEPT !.pc = "forward", !.reply = NoReply]
        BY <2>4, <2>11
      <3>2. /\ dns' \in DnsRec /\ dns'.pc = "forward" /\ dns'.reply = NoReply
            /\ dns'.now = l.now /\ dns'.cache = l.cache /\ dns'.key = key
            /\ dns'.paused = d.paused
        <4> HIDE DEF Entry, Replies
        <4> QED BY <3>1, <2>2, <2>3, <1>n DEF DnsRec
      <3>3. CacheInv(dns')
        BY <3>2, <2>6 DEF CacheInv, LiveEntry
      <3>4. ForwardInv(dns')
        BY <3>2, <2>11 DEF ForwardInv, IsBlocked, LiveEntry
      <3> QED BY <3>2, <3>3, <3>4 DEF DnsGood, ReplyInv
    <2> QED BY <2>8, <2>9, <2>10, <2>11
  <1>2. CASE DnsIgnore
    <2>1. dns' = [dns EXCEPT !.reply = NoReply] /\ dns.pc = "poll"
      BY <1>2 DEF DnsIgnore
    <2>2. /\ dns' \in DnsRec /\ dns'.cache = dns.cache /\ dns'.now = dns.now
          /\ dns'.reply = NoReply /\ dns'.pc = "poll"
      <3> HIDE DEF Entry, Replies
      <3> QED BY <2>1, <1>0, <1>n DEF DnsRec
    <2> QED BY <2>2, <1>0, <1>k
  <1>3. CASE DnsForward
    <2> DEFINE data == [key |-> dns.key, at |-> dns.now]
               entry == [used |-> TRUE, key |-> dns.key, data |-> data,
                         expire |-> dns.now + DnsTtl]
    <2>1. PICK d \in Saved(dns, entry) : dns' = Reply(d, "upstream", dns.id, data)
      BY <1>3 DEF DnsForward
    <2>2. dns.pc = "forward"
      BY <1>3 DEF DnsForward
    <2>3. data \in Answer /\ data.key = dns.key /\ data.at = dns.now
      BY <1>0 DEF Answer
    <2> HIDE DEF data
    <2>4. /\ entry \in Entry /\ entry.key = dns.key /\ entry.data = data
          /\ entry.expire = dns.now + DnsTtl
      BY <2>3, <1>0, DnsAssumption DEF Entry
    <2> HIDE DEF entry
    <2>5. /\ d \in DnsRec /\ d.now = dns.now /\ d.paused = dns.paused
          /\ d.id = dns.id /\ d.key = dns.key
          /\ \E k \in DOMAIN d.cache :
              /\ d.cache[k] = entry
              /\ \A i \in DOMAIN d.cache \ {k} :
                   i \in DOMAIN dns.cache /\ d.cache[i] = dns.cache[i]
      BY <2>1, <2>4, <1>0, SavedPuts
    <2> DEFINE r == [kind |-> "upstream", id |-> dns.id, data |-> data]
    <2>6. r \in Replies /\ r # NoReply /\ r.kind = "upstream" /\ r.id = dns.id /\ r.data = data
      <3>1. r \in [kind : {"sink", "local", "cached", "upstream"}, id : Ids,
                   data : Names \cup Answer]
        BY <2>3, <1>0
      <3>2. r.kind = "upstream" /\ NoReply.kind = "none"
        BY DEF NoReply
      <3> QED BY <3>1, <3>2 DEF Replies
    <2>7. dns' = [d EXCEPT !.pc = "poll", !.reply = r]
      BY <2>1 DEF Reply
    <2> HIDE DEF r
    <2>8. /\ dns' \in DnsRec /\ dns'.pc = "poll" /\ dns'.reply = r /\ dns'.now = dns.now
          /\ dns'.cache = d.cache /\ dns'.id = dns.id /\ dns'.key = dns.key
          /\ dns'.paused = dns.paused
      <3> HIDE DEF Entry, Replies
      <3> QED BY <2>5, <2>6, <2>7 DEF DnsRec
    <2>9. PICK k \in DOMAIN d.cache :
            /\ d.cache[k] = entry
            /\ \A i \in DOMAIN d.cache \ {k} :
                 i \in DOMAIN dns.cache /\ d.cache[i] = dns.cache[i]
      BY <2>5
    <2>10. \A i \in DOMAIN d.cache \ {k} : \A x : LiveEntry(dns', i, x) => LiveEntry(dns, i, x)
      BY <2>8, <2>9 DEF LiveEntry
    <2>11. CacheInv(dns')
      <3>1. ASSUME NEW i \in DOMAIN dns'.cache, dns'.cache[i].used
            PROVE  /\ dns'.cache[i].data.key = dns'.cache[i].key
                   /\ dns'.cache[i].expire = dns'.cache[i].data.at + DnsTtl
        <4>1. CASE i = k
          BY <4>1, <2>3, <2>4, <2>8, <2>9
        <4>2. CASE i # k
          BY <3>1, <4>2, <2>8, <2>9, <1>0 DEF CacheInv
        <4> QED BY <4>1, <4>2
      <3>2. ASSUME NEW i \in DOMAIN dns'.cache, NEW j \in DOMAIN dns'.cache,
                   LiveEntry(dns', i, dns'.cache[j].key), LiveEntry(dns', j, dns'.cache[j].key)
            PROVE  i = j
        <4>1. dns'.cache[i].key = dns'.cache[j].key
          BY <3>2 DEF LiveEntry
        <4>2. CASE i # k /\ j # k
          BY <3>2, <4>2, <2>8, <2>9, <2>10, <1>0 DEF CacheInv
        <4>3. CASE i = k /\ j # k
          <5>1. dns'.cache[j].key = dns.key
            BY <4>1, <4>3, <2>4, <2>8, <2>9
          <5>2. LiveEntry(dns, j, dns.key) /\ j \in DOMAIN dns.cache
            BY <3>2, <4>3, <5>1, <2>8, <2>9, <2>10
          <5> QED BY <5>2, <2>2, <1>0 DEF ForwardInv
        <4>4. CASE i # k /\ j = k
          <5>1. dns'.cache[j].key = dns.key
            BY <4>4, <2>4, <2>8, <2>9
          <5>2. LiveEntry(dns, i, dns.key) /\ i \in DOMAIN dns.cache
            BY <3>2, <4>4, <5>1, <2>8, <2>9, <2>10
          <5> QED BY <5>2, <2>2, <1>0 DEF ForwardInv
        <4> QED BY <4>2, <4>3, <4>4
      <3> QED BY <3>1, <3>2 DEF CacheInv
    <2>12. ReplyInv(dns')
      <3>1. ~IsBlocked(dns', dns'.key) /\ ~IsLocal(dns'.key)
        BY <2>2, <2>8, <1>0 DEF ForwardInv, IsBlocked
      <3>2. dns'.reply.data.at >= dns'.now - DnsTtl
        BY <2>3, <2>6, <2>8, <1>0, DnsAssumption
      <3> QED BY <3>1, <3>2, <2>3, <2>6, <2>8 DEF ReplyInv
    <2> QED BY <2>8, <2>11, <2>12 DEF DnsGood, ForwardInv
  <1>4. CASE DnsTimeout
    <2>1. dns' = [dns EXCEPT !.pc = "poll", !.reply = NoReply]
      BY <1>4 DEF DnsTimeout
    <2>2. /\ dns' \in DnsRec /\ dns'.cache = dns.cache /\ dns'.now = dns.now
          /\ dns'.reply = NoReply /\ dns'.pc = "poll"
      <3> HIDE DEF Entry, Replies
      <3> QED BY <2>1, <1>0, <1>n DEF DnsRec
    <2> QED BY <2>2, <1>0, <1>k
  <1>5. CASE DnsKeyPress
    <2>1. CASE dns.pc = "poll" /\ dns' = [dns EXCEPT !.paused = ~@, !.reply = NoReply]
      <3>1. dns' = [dns EXCEPT !.paused = ~dns.paused, !.reply = NoReply]
            /\ (~dns.paused) \in BOOLEAN
        BY <2>1
      <3>2. /\ dns' \in DnsRec /\ dns'.cache = dns.cache /\ dns'.now = dns.now
            /\ dns'.reply = NoReply /\ dns'.pc = "poll"
        <4> HIDE DEF Entry, Replies
        <4> QED BY <2>1, <3>1, <1>0, <1>n DEF DnsRec
      <3> QED BY <3>2, <1>0, <1>k
    <2>2. CASE dns.pc = "poll" /\ dns' = [dns EXCEPT !.cache = <<>>, !.reply = NoReply]
      <3>1. /\ dns' \in DnsRec /\ dns'.cache = <<>> /\ dns'.reply = NoReply /\ dns'.pc = "poll"
        <4>1. <<>> \in Seq(Entry)
          OBVIOUS
        <4> HIDE DEF Entry, Replies
        <4> QED BY <2>2, <4>1, <1>0, <1>n DEF DnsRec
      <3>2. DOMAIN dns'.cache = {}
        BY <3>1
      <3> QED BY <3>1, <3>2 DEF DnsGood, CacheInv, ForwardInv, ReplyInv
    <2> QED BY <1>5, <2>1, <2>2 DEF DnsKeyPress
  <1>6. CASE DnsTick
    <2>1. dns' = [dns EXCEPT !.now = dns.now + 1, !.reply = NoReply] /\ dns.now + 1 \in Nat
      BY <1>6, <1>0 DEF DnsTick
    <2>2. /\ dns' \in DnsRec /\ dns'.cache = dns.cache /\ dns'.now = dns.now + 1
          /\ dns'.reply = NoReply /\ dns'.pc = dns.pc /\ dns'.key = dns.key
          /\ dns'.paused = dns.paused
      <3> HIDE DEF Entry, Replies
      <3> QED BY <2>1, <1>0, <1>n DEF DnsRec
    <2> QED BY <2>2, <1>0, <1>k
  <1> QED BY <1>1, <1>2, <1>3, <1>4, <1>5, <1>6 DEF DnsNext

LEMMA DnsInvInit == Init => DnsInv
  BY DnsStartGood DEF Init, DnsInv

LEMMA DnsInvNext == DnsInv /\ [Next]_netvars => DnsInv'
  <1> SUFFICES ASSUME DnsInv, [Next]_netvars PROVE DnsInv'
    OBVIOUS
  <1>1. CASE UNCHANGED dns
    BY <1>1 DEF DnsInv
  <1>2. CASE DnsNext
    <2>1. dns.pc # "off"
      BY <1>2 DEF DnsNext, DnsTick
    <2>2. DnsGood(dns)
      BY <2>1 DEF DnsInv, DnsOff
    <2> QED BY <2>2, <1>2, DnsStep DEF DnsInv
  <1> QED BY <1>1, <1>2 DEF Next, netvars

\* dnsserver.c answers every question with the answer to it: the client's id,
\* the very name and type, an upstream answer that is not older than it may
\* be, and 0.0.0.0 for a blocked name only, for every cache size and lifetime.
THEOREM DnsAnswersRight == Spec => []DnsAnswers
  <1>1. DnsInv => DnsAnswers
    <2>1. DnsGood(dns) => DnsAnswers
      BY DEF DnsGood, CacheInv, ReplyInv, DnsAnswers
    <2>2. dns = DnsOff => DnsAnswers
      BY DEF DnsOff, DnsAnswers
    <2> QED BY <2>1, <2>2 DEF DnsInv
  <1> QED BY <1>1, DnsInvInit, DnsInvNext, PTL DEF Spec

-----------------------------------------------------------------------------
(* netclip.                                                                *)

Sender == [pc : {"connect", "write", "ack", "closed"}, next : Nat, wire : Seq(Nat),
           fin : BOOLEAN, okSent : BOOLEAN, ack : BOOLEAN, stored : Seq(Nat),
           noMem : BOOLEAN, cut : BOOLEAN]

ClipRec == [pc : {"accept", "header", "body", "answer"}, cur : ClipSender \cup {NoSender},
            got : Seq(Nat), snd : [ClipSender -> Sender]]

\* Blocks that were written one after the other, some of them lost: no two are
\* closer in the stream than they are in the payload.
Rising(b) == \A i, j \in DOMAIN b : i < j => b[j] - b[i] >= j - i
Within(b, lo, hi) == \A i \in DOMAIN b : lo <= b[i] /\ b[i] < hi

\* A sender writes each block once, and the connection keeps their order.
StreamOk(x) ==
  /\ x.next <= ClipBlocks + 1
  /\ x.pc = "write" => x.next <= ClipBlocks
  /\ x.pc = "connect" => x.next = 0
  /\ x.fin => x.pc = "closed"
  /\ Rising(x.wire) /\ Within(x.wire, 0, x.next)
  /\ Rising(x.stored)

\* Before the listener has read the header, the stream starts with it.
HeadFirst(x) == IF x.wire = <<>> THEN x.next = 0 ELSE x.wire[1] = 0

\* What an answer of the listener means; what the sender makes of it.
Settled(x) == x.stored = Payload \/ x.noMem \/ x.fin
AnswerOk(x) ==
  /\ x.okSent => x.cut /\ Settled(x)
  /\ x.ack => x.okSent /\ (x.stored = Payload \/ x.noMem)

Reading(c, s) == c.cur = s /\ c.pc \in {"body", "answer"}

\* What the listener has read of its sender comes before what is still under
\* way, and the header is not part of it.
ReadOk(c) ==
  /\ c.pc # "accept" => c.cur \in ClipSender /\ ~c.snd[c.cur].cut
  /\ c.pc = "header" => c.got = <<>>
  /\ c.pc = "body" =>
       LET x == c.snd[c.cur]
       IN  x.next >= 1 /\ Rising(c.got \o x.wire) /\ Within(c.got \o x.wire, 1, x.next)
  /\ c.pc = "answer" => Settled(c.snd[c.cur])

ClipGood(c) ==
  /\ c \in ClipRec
  /\ \A s \in ClipSender : StreamOk(c.snd[s]) /\ AnswerOk(c.snd[s])
  /\ \A s \in ClipSender : ~c.snd[s].cut /\ ~Reading(c, s) => HeadFirst(c.snd[s])
  /\ ReadOk(c)

ClipInv == clip = ClipOff \/ ClipGood(clip)

LEMMA ConcatParts ==
  ASSUME NEW g \in Seq(Nat), NEW w \in Seq(Nat)
  PROVE  /\ g \o w \in Seq(Nat) /\ Len(g \o w) = Len(g) + Len(w)
         /\ DOMAIN (g \o w) = 1 .. Len(g) + Len(w)
         /\ Len(g) \in Nat /\ Len(w) \in Nat
         /\ DOMAIN g = 1 .. Len(g) /\ DOMAIN w = 1 .. Len(w)
         /\ \A i \in DOMAIN g : (g \o w)[i] = g[i]
         /\ \A i \in DOMAIN w : (g \o w)[Len(g) + i] = w[i]
         /\ \A i \in 1 .. Len(g) + Len(w) :
              (g \o w)[i] = IF i <= Len(g) THEN g[i] ELSE w[i - Len(g)]
  OBVIOUS

LEMMA AppendParts ==
  ASSUME NEW w \in Seq(Nat), NEW n \in Nat
  PROVE  /\ Append(w, n) \in Seq(Nat) /\ Len(Append(w, n)) = Len(w) + 1
         /\ DOMAIN Append(w, n) = 1 .. Len(w) + 1 /\ DOMAIN w = 1 .. Len(w) /\ Len(w) \in Nat
         /\ Append(w, n)[Len(w) + 1] = n
         /\ \A i \in 1 .. Len(w) : Append(w, n)[i] = w[i]
  OBVIOUS

\* A block behind all others of a stream keeps the gaps.
LEMMA RisingAppend ==
  ASSUME NEW b \in Seq(Nat), Rising(b), NEW lo \in Nat, NEW n \in Nat, NEW m \in Nat,
         lo <= n, n < m, Within(b, lo, n)
  PROVE  Rising(Append(b, n)) /\ Within(Append(b, n), lo, m)
  <1> DEFINE a == Append(b, n)
  <1>1. /\ DOMAIN a = 1 .. Len(b) + 1 /\ DOMAIN b = 1 .. Len(b) /\ Len(b) \in Nat
        /\ a[Len(b) + 1] = n /\ \A i \in 1 .. Len(b) : a[i] = b[i] /\ b[i] \in Nat
    BY AppendParts
  <1> HIDE DEF a
  <1>2. ASSUME NEW i \in DOMAIN a, NEW j \in DOMAIN a, i < j
        PROVE  a[j] - a[i] >= j - i
    <2>1. CASE j <= Len(b)
      BY <1>1, <1>2, <2>1 DEF Rising
    <2>2. CASE j = Len(b) + 1 /\ i = Len(b)
      BY <1>1, <2>2 DEF Within
    <2>3. CASE j = Len(b) + 1 /\ i < Len(b)
      <3>1. b[Len(b)] - b[i] >= Len(b) - i /\ b[Len(b)] < n
        BY <1>1, <2>3 DEF Rising, Within
      <3>2. a[j] = n /\ a[i] = b[i] /\ b[i] \in Nat /\ b[Len(b)] \in Nat /\ i \in Nat
        BY <1>1, <2>3
      <3> QED
        <4> DEFINE x == b[i]
                   y == b[Len(b)]
                   k == Len(b)
        <4>1. x \in Nat /\ y \in Nat /\ k \in Nat /\ y - x >= k - i /\ y < n /\ j = k + 1
          BY <3>1, <3>2, <1>1, <2>3
        <4>2. a[j] = n /\ a[i] = x
          BY <3>2
        <4> HIDE DEF x, y, k
        <4>3. n - x >= j - i
          BY <4>1, <3>2
        <4> QED BY <4>2, <4>3, <3>2
    <2> QED BY <2>1, <2>2, <2>3, <1>1, <1>2
  <1>3. \A i \in DOMAIN a : lo <= a[i] /\ a[i] < m
    BY <1>1 DEF Within
  <1> QED BY <1>2, <1>3 DEF Rising, Within, a

LEMMA ConcatAppend ==
  ASSUME NEW g \in Seq(Nat), NEW w \in Seq(Nat), NEW n \in Nat
  PROVE  g \o Append(w, n) = Append(g \o w, n)
  OBVIOUS

LEMMA ConcatThrice ==
  ASSUME NEW g \in Seq(Nat), NEW u \in Seq(Nat), NEW t \in Seq(Nat)
  PROVE  (g \o u) \o t = g \o (u \o t)
  BY ConcatAssociative, SMTT(20)

\* Reading moves a block from the connection to what was read.
LEMMA ConcatMove ==
  ASSUME NEW g \in Seq(Nat), NEW w \in Seq(Nat), w # <<>>
  PROVE  /\ Append(g, Head(w)) \o Tail(w) = g \o w
         /\ Append(g, Head(w)) \in Seq(Nat) /\ Tail(w) \in Seq(Nat)
  <1> DEFINE h == Head(w)
             t == Tail(w)
             u == <<h>>
  <1>1. /\ h = w[1] /\ h \in Nat /\ Len(w) \in Nat \ {0}
        /\ t \in Seq(Nat) /\ Len(t) = Len(w) - 1 /\ \A i \in 1 .. Len(w) - 1 : t[i] = w[i + 1]
    OBVIOUS
  <1>2. u \in Seq(Nat) /\ Len(u) = 1 /\ u[1] = h
    BY <1>1
  <1>3. Append(g, h) = g \o u /\ Append(g, h) \in Seq(Nat)
    BY <1>1, AppendIsConcat, AppendProperties
  <1> HIDE DEF h, t, u
  <1>4. /\ u \o t \in Seq(Nat) /\ Len(u \o t) = Len(w)
        /\ \A i \in 1 .. Len(w) : (u \o t)[i] = IF i <= 1 THEN u[i] ELSE t[i - 1]
    <2>1. /\ u \o t \in Seq(Nat) /\ Len(u \o t) = Len(u) + Len(t)
          /\ \A i \in 1 .. Len(u) + Len(t) :
               (u \o t)[i] = IF i <= Len(u) THEN u[i] ELSE t[i - Len(u)]
      BY <1>1, <1>2, ConcatParts
    <2>2. Len(u) = 1 /\ Len(u) + Len(t) = Len(w)
      BY <1>1, <1>2
    <2> QED BY <2>1, <2>2
  <1>5. \A i \in 1 .. Len(w) : (u \o t)[i] = w[i]
    <2> SUFFICES ASSUME NEW i \in 1 .. Len(w) PROVE (u \o t)[i] = w[i]
      OBVIOUS
    <2>1. CASE i = 1
      BY <2>1, <1>1, <1>2, <1>4
    <2>2. CASE i # 1
      <3>1. i - 1 \in 1 .. Len(w) - 1 /\ (i - 1) + 1 = i
        BY <2>2, <1>1
      <3>2. t[i - 1] = w[i]
        BY <3>1, <1>1
      <3>3. (u \o t)[i] = t[i - 1]
        <4>1. i \in Nat /\ ~(i <= 1)
          BY <2>2, <1>1
        <4> QED BY <4>1, <1>4
      <3> QED BY <3>2, <3>3
    <2> QED BY <2>1, <2>2
  <1>6. u \o t = w
    <2> DEFINE p == u \o t
    <2>1. p \in Seq(Nat) /\ Len(p) = Len(w) /\ \A i \in 1 .. Len(p) : p[i] = w[i]
      BY <1>4, <1>5
    <2> HIDE DEF p
    <2>2. p = w
      BY <2>1, SeqEqual
    <2> QED BY <2>2 DEF p
  <1>7. (g \o u) \o t = g \o (u \o t)
    <2>1. g \in Seq(Nat) /\ u \in Seq(Nat) /\ t \in Seq(Nat)
      BY <1>1, <1>2
    <2> QED BY <2>1, ConcatThrice
  <1> QED BY <1>1, <1>3, <1>6, <1>7 DEF h, t

LEMMA RisingTail ==
  ASSUME NEW w \in Seq(Nat), w # <<>>, Rising(w), NEW m \in Nat, Within(w, 0, m)
  PROVE  /\ Tail(w) \in Seq(Nat) /\ Rising(Tail(w)) /\ Within(Tail(w), 1, m) /\ m >= 1
         /\ Within(Tail(w), 0, m)
  <1>1. /\ Tail(w) \in Seq(Nat) /\ DOMAIN w = 1 .. Len(w) /\ Len(w) \in Nat \ {0}
        /\ DOMAIN Tail(w) = 1 .. Len(w) - 1
        /\ \A i \in 1 .. Len(w) - 1 : Tail(w)[i] = w[i + 1]
        /\ \A i \in DOMAIN w : w[i] \in Nat
    OBVIOUS
  <1> DEFINE t == Tail(w)
  <1>a. /\ \A i, j \in 1 .. Len(w) : i < j => w[j] - w[i] >= j - i
        /\ \A i \in 1 .. Len(w) : w[i] < m
    BY <1>1 DEF Rising, Within
  <1>b. DOMAIN t = 1 .. Len(w) - 1 /\ \A i \in 1 .. Len(w) - 1 : t[i] = w[i + 1]
    BY <1>1
  <1> HIDE DEF t
  <1>2. Rising(Tail(w))
    <2> SUFFICES ASSUME NEW i \in 1 .. Len(w) - 1, NEW j \in 1 .. Len(w) - 1, i < j
                 PROVE  t[j] - t[i] >= j - i
      BY <1>b DEF Rising, t
    <2>1. i + 1 \in 1 .. Len(w) /\ j + 1 \in 1 .. Len(w) /\ i + 1 < j + 1
      BY <1>1
    <2>2. w[j + 1] - w[i + 1] >= (j + 1) - (i + 1)
      BY <2>1, <1>a
    <2> QED BY SMTT(40), <2>2, <1>b
  <1>3. \A i \in DOMAIN Tail(w) : w[i + 1] - w[1] >= i /\ w[i + 1] < m
    <2> SUFFICES ASSUME NEW i \in 1 .. Len(w) - 1
                 PROVE  w[i + 1] - w[1] >= i /\ w[i + 1] < m
      BY <1>1
    <2>1. i + 1 \in 1 .. Len(w) /\ 1 \in 1 .. Len(w) /\ 1 < i + 1
      BY <1>1
    <2>2. w[i + 1] - w[1] >= (i + 1) - 1
      BY <2>1, <1>a
    <2> QED BY <2>1, <2>2, <1>a
  <1>4. m >= 1
    BY <1>1 DEF Within
  <1>5. w[1] \in Nat
    BY <1>1
  <1>6. ASSUME NEW i \in DOMAIN t PROVE 1 <= t[i] /\ t[i] < m /\ 0 <= t[i]
    <2>1. /\ w[i + 1] - w[1] >= i /\ w[i + 1] < m /\ t[i] = w[i + 1]
          /\ i \in Nat /\ i >= 1 /\ w[i + 1] \in Nat
      BY <1>1, <1>3, <1>b DEF t
    <2> QED BY <2>1, <1>5
  <1>7. \A i \in DOMAIN t : 0 <= t[i]
    BY <1>6
  <1>8. Within(t, 1, m) /\ Within(t, 0, m)
    BY <1>6, <1>7 DEF Within
  <1> QED BY <1>1, <1>2, <1>4, <1>8 DEF t

\* The part of a stream that was read first.
LEMMA RisingFront ==
  ASSUME NEW g \in Seq(Nat), NEW w \in Seq(Nat), Rising(g \o w),
         NEW lo \in Nat, NEW m \in Nat, Within(g \o w, lo, m)
  PROVE  Rising(g) /\ Within(g, lo, m)
  <1>1. /\ \A i \in DOMAIN g : (g \o w)[i] = g[i] /\ i \in DOMAIN (g \o w)
        /\ DOMAIN g \subseteq Nat
    BY ConcatParts
  <1> QED BY <1>1 DEF Rising, Within

\* As many rising blocks as there are between 1 and the end are all of them.
LEMMA FullIsPayload ==
  ASSUME NEW g \in Seq(Nat), Rising(g), NEW m \in Nat, m <= ClipBlocks + 1, Within(g, 1, m),
         Len(g) = ClipBlocks
  PROVE  g = Payload
  <1>1. DOMAIN g = 1 .. ClipBlocks /\ ClipBlocks \in Nat /\ \A i \in DOMAIN g : g[i] \in Nat
    BY ClipAssumption
  <1>2. ASSUME NEW i \in 1 .. ClipBlocks PROVE g[i] = i
    <2>1. 1 \in DOMAIN g /\ ClipBlocks \in DOMAIN g /\ g[1] >= 1 /\ g[ClipBlocks] <= ClipBlocks
      BY <1>1 DEF Within
    <2>2. \A a, b \in 1 .. ClipBlocks : a < b => g[b] - g[a] >= b - a
      BY <1>1 DEF Rising
    <2>3. g[i] >= i
      <3>1. CASE i = 1
        BY <2>1, <3>1
      <3>2. CASE i > 1
        <4>1. g[i] - g[1] >= i - 1
          BY <1>1, <2>2, <3>2
        <4> QED BY <1>1, <2>1, <4>1
      <3> QED BY <3>1, <3>2
    <2>4. g[i] <= i
      <3>1. CASE i = ClipBlocks
        BY <2>1, <3>1
      <3>2. CASE i < ClipBlocks
        <4>1. g[ClipBlocks] - g[i] >= ClipBlocks - i
          BY <1>1, <2>2, <3>2
        <4> QED BY <1>1, <2>1, <4>1
      <3> QED BY <3>1, <3>2, <1>1
    <2> QED BY <1>1, <2>3, <2>4
  <1> QED BY <1>1, <1>2 DEF Payload

\* One sender's record replaced.
LEMMA SndSet ==
  ASSUME NEW c \in ClipRec, NEW s \in ClipSender, NEW v \in Sender, NEW d,
         d = [c EXCEPT !.snd[s] = v]
  PROVE  /\ d \in ClipRec /\ d.pc = c.pc /\ d.cur = c.cur /\ d.got = c.got
         /\ d.snd[s] = v /\ \A x \in ClipSender \ {s} : d.snd[x] = c.snd[x]
  <1> DEFINE f == [c.snd EXCEPT ![s] = v]
  <1>1. c.snd \in [ClipSender -> Sender]
    BY DEF ClipRec
  <1>2. /\ f \in [ClipSender -> Sender] /\ f[s] = v
        /\ \A x \in ClipSender \ {s} : f[x] = c.snd[x]
    BY <1>1
  <1>3. d = [c EXCEPT !.snd = f]
    OBVIOUS
  <1> HIDE DEF f, Sender
  <1>4. /\ d \in ClipRec /\ d.pc = c.pc /\ d.cur = c.cur /\ d.got = c.got /\ d.snd = f
    BY <1>2, <1>3 DEF ClipRec
  <1> QED BY <1>2, <1>4

\* A sender's step, whatever the listener is doing.
LEMMA SenderStep ==
  ASSUME ClipGood(clip), NEW s \in ClipSender, NEW v \in Sender,
         clip' = [clip EXCEPT !.snd[s] = v],
         NEW x, x = clip.snd[s], StreamOk(v), AnswerOk(v),
         v.stored = x.stored /\ v.noMem = x.noMem /\ v.cut = x.cut /\ (x.fin => v.fin),
         v.next >= x.next,
         \/ v.wire = x.wire
         \/ v.wire = Append(x.wire, x.next) /\ v.next = x.next + 1,
         ~x.cut /\ HeadFirst(x) => HeadFirst(v)
  PROVE  ClipGood(clip')
  <1>0. clip \in ClipRec /\ x \in Sender /\ clip.got \in Seq(Nat)
    BY DEF ClipGood, ClipRec
  <1>1. /\ clip' \in ClipRec /\ clip'.pc = clip.pc /\ clip'.cur = clip.cur
        /\ clip'.got = clip.got /\ clip'.snd[s] = v
        /\ \A y \in ClipSender \ {s} : clip'.snd[y] = clip.snd[y]
    BY <1>0, SndSet
  <1>2. \A y \in ClipSender : StreamOk(clip'.snd[y]) /\ AnswerOk(clip'.snd[y])
    BY <1>1 DEF ClipGood
  <1>3. \A y \in ClipSender : ~clip'.snd[y].cut /\ ~Reading(clip', y) => HeadFirst(clip'.snd[y])
    BY <1>1 DEF ClipGood, Reading
  <1>4. ReadOk(clip')
    <2>1. CASE clip.cur # s
      BY <2>1, <1>1 DEF ClipGood, ReadOk
    <2>2. CASE clip.cur = s
      <3>1. /\ clip'.pc # "accept" => clip'.cur \in ClipSender /\ ~clip'.snd[clip'.cur].cut
            /\ clip'.pc = "header" => clip'.got = <<>>
            /\ clip'.pc = "answer" => Settled(clip'.snd[clip'.cur])
        BY <2>2, <1>1 DEF ClipGood, ReadOk, Settled
      <3>2. ASSUME clip.pc = "body"
            PROVE  /\ v.next >= 1 /\ Rising(clip.got \o v.wire)
                   /\ Within(clip.got \o v.wire, 1, v.next)
        <4>1. /\ x.next >= 1 /\ Rising(clip.got \o x.wire)
              /\ Within(clip.got \o x.wire, 1, x.next)
          BY <2>2, <3>2 DEF ClipGood, ReadOk
        <4>2. x.next \in Nat /\ v.next \in Nat /\ x.wire \in Seq(Nat)
          BY <1>0 DEF Sender
        <4>3. v.next >= 1
          BY <4>1, <4>2
        <4> DEFINE b == clip.got \o x.wire
        <4>b. b \in Seq(Nat) /\ \A n \in Nat : clip.got \o Append(x.wire, n) = Append(b, n)
          BY <1>0, <4>2, ConcatParts, ConcatAppend
        <4>c. Rising(b) /\ Within(b, 1, x.next)
          BY <4>1
        <4> HIDE DEF b
        <4>4. CASE v.wire = x.wire
          <5>1. \A i \in DOMAIN b : b[i] \in Nat
            BY <4>b
          <5>2. Within(b, 1, v.next)
            BY <5>1, <4>2, <4>c DEF Within
          <5> QED BY <5>2, <4>3, <4>4, <4>c DEF b
        <4>5. CASE v.wire = Append(x.wire, x.next) /\ v.next = x.next + 1
          <5>1. clip.got \o v.wire = Append(b, x.next)
            BY <4>2, <4>5, <4>b
          <5>2. 1 \in Nat /\ x.next \in Nat /\ v.next \in Nat /\ 1 <= x.next /\ x.next < v.next
            BY <4>1, <4>2, <4>5
          <5>3. Rising(Append(b, x.next)) /\ Within(Append(b, x.next), 1, v.next)
            BY <5>2, <4>b, <4>c, RisingAppend
          <5> QED BY <5>1, <5>3, <4>3
        <4> QED BY <4>4, <4>5
      <3> QED BY <2>2, <3>1, <3>2, <1>1 DEF ReadOk
    <2> QED BY <2>1, <2>2
  <1> QED BY <1>1, <1>2, <1>3, <1>4 DEF ClipGood

\* What a sender does itself.
LEMMA SenderMoves ==
  ASSUME ClipGood(clip), NEW s \in ClipSender, ClipSends(s) \/ ClipDies(s)
  PROVE  ClipGood(clip')
  <1> DEFINE x == clip.snd[s]
  <1>1. /\ clip \in ClipRec /\ x \in Sender /\ StreamOk(x) /\ AnswerOk(x)
    BY DEF ClipGood, ClipRec
  <1>x. /\ x.next \in Nat /\ x.wire \in Seq(Nat) /\ ClipBlocks \in Nat
        /\ x.fin \in BOOLEAN /\ x.ack \in BOOLEAN /\ x.okSent \in BOOLEAN
    BY <1>1, ClipAssumption DEF Sender
  <1>2. CASE ClipConnect(s)
    <2>1. x.pc = "connect"
      BY <1>2 DEF ClipConnect, Snd
    <2>2. PICK r \in {"write", "closed"} : clip' = [clip EXCEPT !.snd[s].pc = r]
      BY <1>2 DEF ClipConnect
    <2> DEFINE v == [x EXCEPT !.pc = r]
    <2>3. clip' = [clip EXCEPT !.snd[s] = v]
      BY <2>2
    <2> HIDE DEF x
    <2>4. /\ v \in Sender /\ v.pc = r /\ v.next = x.next /\ v.wire = x.wire /\ v.fin = x.fin
          /\ v.okSent = x.okSent /\ v.ack = x.ack /\ v.stored = x.stored
          /\ v.noMem = x.noMem /\ v.cut = x.cut
      BY <1>1 DEF Sender
    <2> HIDE DEF v
    <2>5. StreamOk(v)
      BY <1>1, <1>x, <2>1, <2>4 DEF StreamOk
    <2>6. AnswerOk(v)
      BY <1>1, <2>4 DEF AnswerOk, Settled
    <2>7. HeadFirst(x) => HeadFirst(v)
      BY <2>4 DEF HeadFirst
    <2>8. v.next >= x.next
      BY <1>x, <2>4
    <2>9. x = clip.snd[s]
      BY DEF x
    <2> QED BY <2>3, <2>4, <2>5, <2>6, <2>7, <2>8, <2>9, SenderStep
  <1>3. CASE ClipWrite(s)
    <2> DEFINE v == [x EXCEPT !.wire = Append(@, x.next), !.next = @ + 1,
                              !.pc = IF x.next = ClipBlocks THEN "ack" ELSE "write"]
    <2>1. x.pc = "write" /\ clip' = [clip EXCEPT !.snd[s] = v]
      BY <1>3 DEF ClipWrite, Snd
    <2>9. x = clip.snd[s]
      OBVIOUS
    <2> HIDE DEF x
    <2>3. /\ Append(x.wire, x.next) \in Seq(Nat) /\ x.next + 1 \in Nat
          /\ DOMAIN Append(x.wire, x.next) = 1 .. Len(x.wire) + 1
          /\ Append(x.wire, x.next)[Len(x.wire) + 1] = x.next
          /\ \A i \in 1 .. Len(x.wire) : Append(x.wire, x.next)[i] = x.wire[i]
          /\ Len(x.wire) \in Nat /\ Len(Append(x.wire, x.next)) = Len(x.wire) + 1
      BY <1>x, AppendParts
    <2>4. /\ v \in Sender /\ v.pc = (IF x.next = ClipBlocks THEN "ack" ELSE "write")
          /\ v.next = x.next + 1
          /\ v.wire = Append(x.wire, x.next) /\ v.fin = x.fin
          /\ v.okSent = x.okSent /\ v.ack = x.ack /\ v.stored = x.stored
          /\ v.noMem = x.noMem /\ v.cut = x.cut
      BY <1>1, <2>3 DEF Sender
    <2> HIDE DEF v
    <2>5. StreamOk(v)
      <3>1. /\ Rising(x.wire) /\ Within(x.wire, 0, x.next) /\ 0 \in Nat /\ 0 <= x.next
            /\ x.next < x.next + 1
        BY <1>1, <1>x DEF StreamOk
      <3>2. Rising(v.wire) /\ Within(v.wire, 0, v.next)
        BY <3>1, <1>x, <2>3, <2>4, RisingAppend
      <3>3. /\ v.next <= ClipBlocks + 1 /\ (v.pc = "write" => v.next <= ClipBlocks)
            /\ v.pc # "connect" /\ ~v.fin /\ Rising(v.stored)
        BY <1>1, <1>x, <2>1, <2>4 DEF StreamOk
      <3> QED BY <3>2, <3>3 DEF StreamOk
    <2>6. AnswerOk(v)
      BY <1>1, <2>4 DEF AnswerOk, Settled
    <2>7. HeadFirst(x) => HeadFirst(v)
      <3>1. CASE x.wire = <<>>
        <4>1. Len(x.wire) = 0
          BY <3>1
        <4>2. Len(v.wire) = 1 /\ v.wire[1] = x.next
          BY <4>1, <2>3, <2>4
        <4>3. v.wire # <<>>
          BY <4>2
        <4> QED BY <3>1, <4>2, <4>3 DEF HeadFirst
      <3>2. CASE x.wire # <<>>
        <4>1. Len(x.wire) >= 1
          BY <3>2, <1>x
        <4>2. v.wire # <<>> /\ v.wire[1] = x.wire[1]
          BY SMTT(40), <4>1, <2>3, <2>4
        <4> QED BY <3>2, <4>2 DEF HeadFirst
      <3> QED BY <3>1, <3>2
    <2>8. v.next >= x.next
      BY <1>x, <2>4
    <2> QED BY <2>1, <2>4, <2>5, <2>6, <2>7, <2>8, <2>9, SenderStep
  <1>4. CASE ClipWriteTimeout(s)
    <2> DEFINE v == IF s \in ClipFiles /\ x.next < ClipBlocks
                    THEN [x EXCEPT !.next = @ + 1] ELSE [x EXCEPT !.pc = "ack"]
    <2>1. x.pc = "write" /\ x.next > 0 /\ clip' = [clip EXCEPT !.snd[s] = v]
      BY <1>4 DEF ClipWriteTimeout, Snd
    <2>9. x = clip.snd[s]
      OBVIOUS
    <2> HIDE DEF x
    <2>4. /\ v \in Sender /\ v.wire = x.wire /\ v.fin = x.fin
          /\ \/ v.pc = x.pc /\ v.next = x.next + 1 /\ x.next < ClipBlocks
             \/ v.pc = "ack" /\ v.next = x.next
          /\ v.okSent = x.okSent /\ v.ack = x.ack /\ v.stored = x.stored
          /\ v.noMem = x.noMem /\ v.cut = x.cut
      <3>1. CASE s \in ClipFiles /\ x.next < ClipBlocks
        <4>1. x.next + 1 \in Nat /\ x.next < ClipBlocks
          BY <1>x, <3>1
        <4>2. v = [x EXCEPT !.next = x.next + 1]
          BY <3>1
        <4> HIDE DEF v
        <4> QED BY <1>1, <4>1, <4>2 DEF Sender
      <3>2. CASE ~(s \in ClipFiles /\ x.next < ClipBlocks)
        BY <1>1, <3>2 DEF Sender
      <3> QED BY <3>1, <3>2
    <2> HIDE DEF v
    <2>5. StreamOk(v)
      <3>1. \A i \in DOMAIN x.wire : x.wire[i] \in Nat
        BY <1>x
      <3>2. v.next >= x.next /\ v.next \in Nat
        BY <2>4, <1>x
      <3>3. Within(v.wire, 0, v.next)
        BY <1>1, <1>x, <2>4, <3>1, <3>2 DEF StreamOk, Within
      <3>4. /\ v.next <= ClipBlocks + 1 /\ (v.pc = "write" => v.next <= ClipBlocks)
            /\ v.pc # "connect" /\ ~v.fin /\ Rising(v.stored) /\ Rising(v.wire)
        BY <1>1, <1>x, <2>1, <2>4 DEF StreamOk
      <3> QED BY <3>3, <3>4 DEF StreamOk
    <2>6. AnswerOk(v)
      BY <1>1, <2>4 DEF AnswerOk, Settled
    <2>7. HeadFirst(x) => HeadFirst(v)
      BY <2>1, <2>4, <1>x DEF HeadFirst
    <2>8. v.next >= x.next
      BY <1>x, <2>4
    <2> QED BY <2>1, <2>4, <2>5, <2>6, <2>7, <2>8, <2>9, SenderStep
  <1>5. CASE ClipAck(s) \/ ClipAckAnyway(s) \/ ClipDies(s)
    <2>9. x = clip.snd[s]
      OBVIOUS
    <2> DEFINE v == IF ClipAck(s) THEN [x EXCEPT !.pc = "closed", !.fin = TRUE, !.ack = x.okSent]
                                  ELSE [x EXCEPT !.pc = "closed", !.fin = TRUE]
    <2>1. clip' = [clip EXCEPT !.snd[s] = v]
      <3>1. CASE ClipAck(s)
        BY <3>1 DEF ClipAck, Snd
      <3>2. CASE ~ClipAck(s)
        BY <3>2, <1>5 DEF ClipAckAnyway, ClipDies, Snd
      <3> QED BY <3>1, <3>2
    <2>2. ClipAck(s) => x.pc = "ack"
      BY DEF ClipAck, Snd
    <2> HIDE DEF x
    <2>4. /\ v \in Sender /\ v.wire = x.wire /\ v.fin /\ v.pc = "closed" /\ v.next = x.next
          /\ \/ ClipAck(s) /\ v.ack = x.okSent
             \/ v.ack = x.ack
          /\ v.okSent = x.okSent /\ v.stored = x.stored
          /\ v.noMem = x.noMem /\ v.cut = x.cut
      <3>1. CASE ClipAck(s)
        BY <1>1, <1>x, <3>1 DEF Sender
      <3>2. CASE ~ClipAck(s)
        BY <1>1, <1>x, <3>2 DEF Sender
      <3> QED BY <3>1, <3>2
    <2> HIDE DEF v
    <2>5. StreamOk(v)
      BY <1>1, <1>x, <2>4 DEF StreamOk
    <2>6. AnswerOk(v)
      BY <1>1, <2>2, <2>4 DEF AnswerOk, Settled, StreamOk
    <2>7. HeadFirst(x) => HeadFirst(v)
      BY <2>4 DEF HeadFirst
    <2>8. v.next >= x.next
      BY <1>x, <2>4
    <2> QED BY <2>1, <2>4, <2>5, <2>6, <2>7, <2>8, <2>9, SenderStep
  <1> QED BY <1>2, <1>3, <1>4, <1>5 DEF ClipSends

LEMMA SndFun ==
  ASSUME NEW c \in ClipRec, NEW s \in ClipSender, NEW v \in Sender, NEW f,
         f = [c.snd EXCEPT ![s] = v]
  PROVE  /\ f \in [ClipSender -> Sender] /\ f[s] = v
         /\ \A y \in ClipSender \ {s} : f[y] = c.snd[y]
  <1>1. c.snd \in [ClipSender -> Sender]
    BY DEF ClipRec
  <1> HIDE DEF Sender
  <1> QED BY <1>1

\* A step of the listener: only the sender that it serves changes, and its
\* stream is being read or its connection cut.
LEMMA ListenerStep ==
  ASSUME ClipGood(clip), NEW s \in ClipSender, s = clip.cur, NEW v \in Sender, NEW d,
         d \in ClipRec, d.snd = [clip.snd EXCEPT ![s] = v],
         StreamOk(v), AnswerOk(v),
         v.cut \/ (d.cur = s /\ d.pc \in {"body", "answer"}),
         ReadOk(d)
  PROVE  ClipGood(d)
  <1>1. clip \in ClipRec
    BY DEF ClipGood
  <1>2. d.snd[s] = v /\ \A y \in ClipSender \ {s} : d.snd[y] = clip.snd[y]
    BY <1>1, SndFun
  <1>3. \A y \in ClipSender : StreamOk(d.snd[y]) /\ AnswerOk(d.snd[y])
    BY <1>2 DEF ClipGood
  <1>4. \A y \in ClipSender : ~d.snd[y].cut /\ ~Reading(d, y) => HeadFirst(d.snd[y])
    BY <1>2 DEF ClipGood, Reading
  <1> QED BY <1>3, <1>4 DEF ClipGood

LEMMA AcceptKeeps ==
  ASSUME ClipGood(clip), ClipAccept
  PROVE  ClipGood(clip')
  <1>1. PICK s \in ClipSender :
          ~clip.snd[s].cut /\ clip' = [clip EXCEPT !.pc = "header", !.cur = s, !.got = <<>>]
    BY DEF ClipAccept, Snd
  <1>2. clip \in ClipRec /\ clip.snd \in [ClipSender -> Sender] /\ clip.pc = "accept"
    BY DEF ClipGood, ClipRec, ClipAccept
  <1>3. /\ clip' \in ClipRec /\ clip'.pc = "header" /\ clip'.cur = s /\ clip'.got = <<>>
        /\ clip'.snd = clip.snd
    <2> DEFINE F == [ClipSender -> Sender]
               P == {"accept", "header", "body", "answer"}
               K == ClipSender \cup {NoSender}
               G == Seq(Nat)
    <2>1. /\ clip \in [pc : P, cur : K, got : G, snd : F]
          /\ <<>> \in G /\ s \in K /\ "header" \in P
      BY <1>2 DEF ClipRec
    <2> HIDE DEF F, P, K, G
    <2>2. /\ clip' \in [pc : P, cur : K, got : G, snd : F]
          /\ clip'.pc = "header" /\ clip'.cur = s /\ clip'.got = <<>> /\ clip'.snd = clip.snd
      BY <1>1, <2>1
    <2> QED BY <2>2 DEF ClipRec, F, P, K, G
  <1>4. \A y \in ClipSender : ~clip'.snd[y].cut => HeadFirst(clip'.snd[y])
    BY <1>2, <1>3 DEF ClipGood, Reading
  <1>5. ReadOk(clip')
    BY <1>1, <1>3 DEF ReadOk
  <1> QED BY <1>3, <1>4, <1>5 DEF ClipGood

\* A connection is closed without an answer.
LEMMA CutKeeps ==
  ASSUME ClipGood(clip), NEW s \in ClipSender, s = clip.cur, clip' = Cut(clip, s),
         ~clip.snd[s].okSent
  PROVE  ClipGood(clip')
  <1> DEFINE x == clip.snd[s]
             v == [x EXCEPT !.cut = TRUE]
             f == [clip.snd EXCEPT ![s] = v]
  <1>1. clip \in ClipRec /\ x \in Sender /\ StreamOk(x) /\ AnswerOk(x) /\ ~x.okSent
    BY DEF ClipGood, ClipRec
  <1>2. clip' = [clip EXCEPT !.pc = "accept", !.cur = NoSender, !.snd = f]
    BY DEF Cut
  <1> HIDE DEF x
  <1>3. /\ v \in Sender /\ v.pc = x.pc /\ v.next = x.next /\ v.wire = x.wire /\ v.fin = x.fin
        /\ v.okSent = x.okSent /\ v.ack = x.ack /\ v.stored = x.stored
        /\ v.noMem = x.noMem /\ v.cut
    BY <1>1 DEF Sender
  <1> HIDE DEF v
  <1>4. f \in [ClipSender -> Sender]
    BY ZenonT(60), <1>1, <1>3, SndFun
  <1>5. f = [clip.snd EXCEPT ![s] = v]
    OBVIOUS
  <1> HIDE DEF f
  <1>6. /\ clip' \in ClipRec /\ clip'.pc = "accept" /\ clip'.cur = NoSender /\ clip'.snd = f
    <2> DEFINE F == [ClipSender -> Sender]
               P == {"accept", "header", "body", "answer"}
               K == ClipSender \cup {NoSender}
               G == Seq(Nat)
    <2>1. /\ clip \in [pc : P, cur : K, got : G, snd : F]
          /\ NoSender \in K /\ f \in F /\ "accept" \in P
      BY <1>1, <1>4 DEF ClipRec
    <2> HIDE DEF F, P, K, G
    <2>2. /\ clip' \in [pc : P, cur : K, got : G, snd : F]
          /\ clip'.pc = "accept" /\ clip'.cur = NoSender /\ clip'.snd = f
      BY <1>2, <2>1
    <2> QED BY <2>2 DEF ClipRec, F, P, K, G
  <1>7. StreamOk(v) /\ AnswerOk(v)
    BY <1>1, <1>3 DEF StreamOk, AnswerOk, Settled
  <1>8. ReadOk(clip')
    BY <1>6 DEF ReadOk
  <1> QED BY <1>3, <1>5, <1>6, <1>7, <1>8, ListenerStep

\* While it is served, a sender has had no answer.
LEMMA ServedUnanswered ==
  ASSUME ClipGood(clip), clip.pc # "accept"
  PROVE  /\ clip.cur \in ClipSender /\ ~clip.snd[clip.cur].cut
         /\ ~clip.snd[clip.cur].okSent /\ ~clip.snd[clip.cur].ack
  <1>1. clip.cur \in ClipSender /\ ~clip.snd[clip.cur].cut
    BY DEF ClipGood, ReadOk
  <1>2. AnswerOk(clip.snd[clip.cur])
    BY <1>1 DEF ClipGood
  <1> QED BY <1>1, <1>2 DEF AnswerOk

LEMMA HeaderKeeps ==
  ASSUME ClipGood(clip), ClipHeader
  PROVE  ClipGood(clip')
  <1> DEFINE s == clip.cur
             x == clip.snd[s]
  <1>1. /\ s \in ClipSender /\ clip.pc = "header" /\ ~x.cut /\ ~x.okSent /\ ~x.ack
        /\ clip.got = <<>>
    BY ServedUnanswered DEF ClipHeader, ClipGood, ReadOk
  <1>2. clip \in ClipRec /\ x \in Sender /\ StreamOk(x) /\ AnswerOk(x) /\ HeadFirst(x)
    BY <1>1 DEF ClipGood, ClipRec, Reading
  <1>3. CASE clip' = Cut(clip, s)
    BY <1>1, <1>3, CutKeeps
  <1>4. ASSUME x.wire # <<>>, NEW q \in {"body", "answer"}, NEW v,
               \/ q = "body" /\ v = [x EXCEPT !.wire = Tail(@)]
               \/ q = "answer" /\ v = [x EXCEPT !.wire = Tail(@), !.noMem = TRUE],
               clip' = [clip EXCEPT !.pc = q, !.snd[s] = v]
        PROVE  ClipGood(clip')
    <2>x. x = clip.snd[s] /\ s = clip.cur
      OBVIOUS
    <2> HIDE DEF x, s
    <2>1. x.wire \in Seq(Nat) /\ x.next \in Nat /\ Rising(x.wire) /\ Within(x.wire, 0, x.next)
      BY <1>2 DEF StreamOk, Sender
    <2>2. /\ Tail(x.wire) \in Seq(Nat) /\ Rising(Tail(x.wire)) /\ Within(Tail(x.wire), 1, x.next)
          /\ x.next >= 1 /\ Within(Tail(x.wire), 0, x.next)
      BY <1>4, <2>1, RisingTail
    <2>3. /\ v \in Sender /\ v.pc = x.pc /\ v.next = x.next /\ v.wire = Tail(x.wire)
          /\ v.fin = x.fin /\ v.okSent = x.okSent /\ v.ack = x.ack /\ v.stored = x.stored
          /\ v.cut = x.cut /\ (q = "answer" => v.noMem)
      <3>1. CASE q = "body" /\ v = [x EXCEPT !.wire = Tail(@)]
        BY <1>2, <2>2, <3>1 DEF Sender
      <3>2. CASE q = "answer" /\ v = [x EXCEPT !.wire = Tail(@), !.noMem = TRUE]
        BY <1>2, <2>2, <3>2 DEF Sender
      <3> QED BY <1>4, <3>1, <3>2
    <2>4. StreamOk(v) /\ AnswerOk(v)
      BY <1>1, <1>2, <2>2, <2>3 DEF StreamOk, AnswerOk
    <2> DEFINE f == [clip.snd EXCEPT ![s] = v]
    <2>5. clip' = [clip EXCEPT !.pc = q, !.snd = f] /\ f = [clip.snd EXCEPT ![s] = v]
      BY <1>4
    <2> HIDE DEF f
    <2>6. f \in [ClipSender -> Sender] /\ f[s] = v
      <3>1. clip.snd \in [ClipSender -> Sender] /\ s \in ClipSender /\ v \in Sender
        BY <1>1, <1>2, <2>3 DEF ClipRec
      <3>2. f \in [ClipSender -> Sender] /\ f[s] = v
        BY <2>5, <3>1
      <3> QED BY <3>2
    <2>7. /\ clip' \in ClipRec /\ clip'.pc = q /\ clip'.cur = s /\ clip'.got = <<>> /\ clip'.snd = f
      <3> DEFINE F == [ClipSender -> Sender]
                 P == {"accept", "header", "body", "answer"}
                 K == ClipSender \cup {NoSender}
                 G == Seq(Nat)
      <3>1. /\ clip \in [pc : P, cur : K, got : G, snd : F]
            /\ f \in F /\ q \in P /\ clip.cur = s /\ clip.got = <<>>
        BY <1>1, <1>2, <2>6, <2>x, <1>4 DEF ClipRec
      <3> HIDE DEF F, P, K, G
      <3>2. /\ clip' \in [pc : P, cur : K, got : G, snd : F]
            /\ clip'.pc = q /\ clip'.cur = s /\ clip'.got = <<>> /\ clip'.snd = f
        BY <2>5, <3>1
      <3> QED BY <3>2 DEF ClipRec, F, P, K, G
    <2>8. ReadOk(clip')
      <3>1. <<>> \o v.wire = v.wire
        BY <2>2, <2>3
      <3>2. q = "body" => Rising(<<>> \o v.wire) /\ Within(<<>> \o v.wire, 1, v.next) /\ v.next >= 1
        BY <2>2, <2>3, <3>1
      <3> QED BY <3>2, <1>1, <1>4, <2>3, <2>6, <2>7 DEF ReadOk, Settled
    <2>9. clip'.cur = s /\ clip'.pc \in {"body", "answer"} /\ clip'.snd = [clip.snd EXCEPT ![s] = v]
      BY <2>5, <2>7
    <2> QED BY <1>1, <2>x, <2>3, <2>4, <2>7, <2>8, <2>9, ListenerStep
  <1>5. CASE x.wire # <<>> /\ clip' = [clip EXCEPT !.pc = "body", !.snd[clip.cur].wire = Tail(@)]
    <2> DEFINE v == [x EXCEPT !.wire = Tail(@)]
    <2>1. clip' = [clip EXCEPT !.pc = "body", !.snd[s] = v]
      BY <1>5
    <2>2. "body" \in {"body", "answer"} /\ v = [x EXCEPT !.wire = Tail(@)]
      OBVIOUS
    <2> HIDE DEF v, x, s
    <2> QED BY <2>1, <2>2, <1>4, <1>5
  <1>6. CASE /\ x.wire # <<>>
             /\ clip' = [clip EXCEPT !.pc = "answer", !.snd[clip.cur].wire = Tail(@),
                                     !.snd[clip.cur].noMem = TRUE]
    <2> DEFINE v == [x EXCEPT !.wire = Tail(@), !.noMem = TRUE]
    <2>1. clip' = [clip EXCEPT !.pc = "answer", !.snd[s] = v]
      BY <1>6, <1>2, <1>1 DEF ClipRec
    <2>2. "answer" \in {"body", "answer"} /\ v = [x EXCEPT !.wire = Tail(@), !.noMem = TRUE]
      OBVIOUS
    <2> HIDE DEF v, x, s
    <2> QED BY <2>1, <2>2, <1>4, <1>6
  <1> QED BY <1>3, <1>5, <1>6 DEF ClipHeader, Snd

LEMMA ReadKeeps ==
  ASSUME ClipGood(clip), ClipRead
  PROVE  ClipGood(clip')
  <1> DEFINE s == clip.cur
             x == clip.snd[s]
             v == [x EXCEPT !.wire = Tail(@)]
             f == [clip.snd EXCEPT ![s] = v]
             g == Append(clip.got, Head(x.wire))
  <1>1. /\ s \in ClipSender /\ clip.pc = "body" /\ x.wire # <<>> /\ ~x.cut
        /\ x.next >= 1 /\ Rising(clip.got \o x.wire) /\ Within(clip.got \o x.wire, 1, x.next)
    BY ServedUnanswered DEF ClipRead, Snd, ClipGood, ReadOk
  <1>2. clip \in ClipRec /\ x \in Sender /\ StreamOk(x) /\ AnswerOk(x) /\ clip.got \in Seq(Nat)
    BY <1>1 DEF ClipGood, ClipRec
  <1>3. clip' = [clip EXCEPT !.got = g, !.snd = f]
    BY DEF ClipRead, Snd
  <1>x. s = clip.cur /\ x = clip.snd[s]
    OBVIOUS
  <1> HIDE DEF x, s
  <1>4. x.wire \in Seq(Nat) /\ x.next \in Nat /\ Rising(x.wire) /\ Within(x.wire, 0, x.next)
    BY <1>2 DEF StreamOk, Sender
  <1>5. /\ g \o Tail(x.wire) = clip.got \o x.wire /\ g \in Seq(Nat) /\ Tail(x.wire) \in Seq(Nat)
    BY <1>1, <1>2, <1>4, ConcatMove
  <1>6. Rising(Tail(x.wire)) /\ Within(Tail(x.wire), 0, x.next)
    BY <1>1, <1>4, RisingTail
  <1>7. /\ v \in Sender /\ v.pc = x.pc /\ v.next = x.next /\ v.wire = Tail(x.wire)
        /\ v.fin = x.fin /\ v.okSent = x.okSent /\ v.ack = x.ack /\ v.stored = x.stored
        /\ v.cut = x.cut /\ v.noMem = x.noMem
    BY <1>2, <1>5 DEF Sender
  <1> HIDE DEF v, g
  <1>8. StreamOk(v) /\ AnswerOk(v)
    BY <1>2, <1>6, <1>7 DEF StreamOk, AnswerOk, Settled
  <1>10. f = [clip.snd EXCEPT ![s] = v]
    OBVIOUS
  <1> HIDE DEF f
  <1>9. f \in [ClipSender -> Sender] /\ f[s] = v
    <2>1. clip.snd \in [ClipSender -> Sender] /\ s \in ClipSender /\ v \in Sender
      BY <1>1, <1>2, <1>7 DEF ClipRec
    <2>2. f \in [ClipSender -> Sender] /\ f[s] = v
      BY <1>10, <2>1
    <2> QED BY <2>2
  <1>11. /\ clip' \in ClipRec /\ clip'.pc = "body" /\ clip'.cur = s /\ clip'.got = g
         /\ clip'.snd = f
    <2> DEFINE F == [ClipSender -> Sender]
               P == {"accept", "header", "body", "answer"}
               K == ClipSender \cup {NoSender}
               G == Seq(Nat)
    <2>1. /\ clip \in [pc : P, cur : K, got : G, snd : F]
          /\ f \in F /\ g \in G /\ clip.cur = s /\ clip.pc = "body"
      BY <1>1, <1>2, <1>5, <1>9, <1>x DEF ClipRec
    <2> HIDE DEF F, P, K, G
    <2>2. /\ clip' \in [pc : P, cur : K, got : G, snd : F]
          /\ clip'.pc = "body" /\ clip'.cur = s /\ clip'.got = g /\ clip'.snd = f
      BY <1>3, <2>1
    <2> QED BY <2>2 DEF ClipRec, F, P, K, G
  <1>12. ReadOk(clip')
    <2>1. Rising(g \o v.wire) /\ Within(g \o v.wire, 1, v.next) /\ v.next >= 1
      BY <1>1, <1>5, <1>7
    <2> QED BY <2>1, <1>1, <1>7, <1>9, <1>11 DEF ReadOk
  <1> QED BY <1>1, <1>x, <1>7, <1>8, <1>10, <1>11, <1>12, ListenerStep

LEMMA StoreKeeps ==
  ASSUME ClipGood(clip), ClipStore
  PROVE  ClipGood(clip')
  <1> DEFINE s == clip.cur
             x == clip.snd[s]
             v == [x EXCEPT !.stored = clip.got]
             f == [clip.snd EXCEPT ![s] = v]
  <1>1. /\ s \in ClipSender /\ clip.pc = "body" /\ ~x.cut /\ ~x.okSent /\ ~x.ack
        /\ Rising(clip.got \o x.wire) /\ Within(clip.got \o x.wire, 1, x.next)
        /\ (Len(clip.got) = ClipBlocks \/ x.fin)
    BY ServedUnanswered DEF ClipStore, PayloadEnds, ClipGood, ReadOk
  <1>2. clip \in ClipRec /\ x \in Sender /\ StreamOk(x) /\ AnswerOk(x) /\ clip.got \in Seq(Nat)
    BY <1>1 DEF ClipGood, ClipRec
  <1>3. clip' = [clip EXCEPT !.pc = "answer", !.snd = f]
    BY DEF ClipStore
  <1>x. s = clip.cur /\ x = clip.snd[s]
    OBVIOUS
  <1> HIDE DEF x, s
  <1>4. x.wire \in Seq(Nat) /\ x.next \in Nat /\ x.next <= ClipBlocks + 1 /\ 1 \in Nat
    BY <1>2 DEF StreamOk, Sender
  <1>5. Rising(clip.got) /\ Within(clip.got, 1, x.next)
    BY <1>1, <1>2, <1>4, RisingFront
  <1>6. clip.got = Payload \/ x.fin
    BY <1>1, <1>2, <1>4, <1>5, FullIsPayload
  <1>7. /\ v \in Sender /\ v.pc = x.pc /\ v.next = x.next /\ v.wire = x.wire
        /\ v.fin = x.fin /\ v.okSent = x.okSent /\ v.ack = x.ack /\ v.stored = clip.got
        /\ v.cut = x.cut /\ v.noMem = x.noMem
    BY <1>2 DEF Sender
  <1> HIDE DEF v
  <1>8. StreamOk(v) /\ AnswerOk(v) /\ Settled(v)
    BY <1>1, <1>2, <1>5, <1>6, <1>7 DEF StreamOk, AnswerOk, Settled
  <1>10. f = [clip.snd EXCEPT ![s] = v]
    OBVIOUS
  <1> HIDE DEF f
  <1>9. f \in [ClipSender -> Sender] /\ f[s] = v
    <2>1. clip.snd \in [ClipSender -> Sender] /\ s \in ClipSender /\ v \in Sender
      BY <1>1, <1>2, <1>7 DEF ClipRec
    <2>2. f \in [ClipSender -> Sender] /\ f[s] = v
      BY <1>10, <2>1
    <2> QED BY <2>2
  <1>11. /\ clip' \in ClipRec /\ clip'.pc = "answer" /\ clip'.cur = s /\ clip'.snd = f
    <2> DEFINE F == [ClipSender -> Sender]
               P == {"accept", "header", "body", "answer"}
               K == ClipSender \cup {NoSender}
               G == Seq(Nat)
    <2>1. /\ clip \in [pc : P, cur : K, got : G, snd : F]
          /\ f \in F /\ clip.cur = s /\ "answer" \in P
      BY <1>1, <1>2, <1>9, <1>x DEF ClipRec
    <2> HIDE DEF F, P, K, G
    <2>2. /\ clip' \in [pc : P, cur : K, got : G, snd : F]
          /\ clip'.pc = "answer" /\ clip'.cur = s /\ clip'.snd = f
      BY <1>3, <2>1
    <2> QED BY <2>2 DEF ClipRec, F, P, K, G
  <1>12. ReadOk(clip')
    BY <1>1, <1>7, <1>8, <1>9, <1>11 DEF ReadOk
  <1> QED BY <1>1, <1>x, <1>7, <1>8, <1>10, <1>11, <1>12, ListenerStep

LEMMA AnswerKeeps ==
  ASSUME ClipGood(clip), ClipAnswer
  PROVE  ClipGood(clip')
  <1> DEFINE s == clip.cur
             x == clip.snd[s]
             v == [x EXCEPT !.okSent = TRUE, !.cut = TRUE]
             f == [clip.snd EXCEPT ![s] = v]
  <1>1. s \in ClipSender /\ clip.pc = "answer" /\ ~x.ack /\ Settled(x)
    BY ServedUnanswered DEF ClipAnswer, ClipGood, ReadOk
  <1>2. clip \in ClipRec /\ x \in Sender /\ StreamOk(x) /\ clip.snd \in [ClipSender -> Sender]
    BY <1>1 DEF ClipGood, ClipRec
  <1>3. clip' = [clip EXCEPT !.pc = "accept", !.cur = NoSender, !.snd = f]
    <2>1. clip' = Cut([clip EXCEPT !.snd[s].okSent = TRUE], s)
      BY DEF ClipAnswer
    <2> HIDE DEF Sender, s
    <2> QED BY <1>1, <1>2, <2>1 DEF Cut, ClipRec
  <1>x. s = clip.cur /\ x = clip.snd[s]
    OBVIOUS
  <1> HIDE DEF x, s
  <1>7. /\ v \in Sender /\ v.pc = x.pc /\ v.next = x.next /\ v.wire = x.wire
        /\ v.fin = x.fin /\ v.okSent /\ v.ack = x.ack /\ v.stored = x.stored
        /\ v.cut /\ v.noMem = x.noMem
    BY <1>2 DEF Sender
  <1> HIDE DEF v
  <1>8. StreamOk(v) /\ AnswerOk(v)
    BY <1>1, <1>2, <1>7 DEF StreamOk, AnswerOk, Settled
  <1>9. f \in [ClipSender -> Sender]
    BY <1>1, <1>2, <1>7, SndFun
  <1>10. f = [clip.snd EXCEPT ![s] = v]
    OBVIOUS
  <1> HIDE DEF f
  <1>11. clip' \in ClipRec /\ clip'.pc = "accept" /\ clip'.cur = NoSender /\ clip'.snd = f
    <2> DEFINE F == [ClipSender -> Sender]
               P == {"accept", "header", "body", "answer"}
               K == ClipSender \cup {NoSender}
               G == Seq(Nat)
    <2>1. /\ clip \in [pc : P, cur : K, got : G, snd : F]
          /\ f \in F /\ NoSender \in K /\ "accept" \in P
      BY <1>1, <1>2, <1>9 DEF ClipRec
    <2> HIDE DEF F, P, K, G
    <2>2. /\ clip' \in [pc : P, cur : K, got : G, snd : F]
          /\ clip'.pc = "accept" /\ clip'.cur = NoSender /\ clip'.snd = f
      BY <1>3, <2>1
    <2> QED BY <2>2 DEF ClipRec, F, P, K, G
  <1>12. ReadOk(clip')
    BY <1>11 DEF ReadOk
  <1> QED BY <1>1, <1>x, <1>7, <1>8, <1>10, <1>11, <1>12, ListenerStep

LEMMA ClipStartGood == ClipGood(ClipStart)
  <1> DEFINE v == [pc |-> "connect", next |-> 0, wire |-> <<>>, fin |-> FALSE, okSent |-> FALSE,
                   ack |-> FALSE, stored |-> <<>>, noMem |-> FALSE, cut |-> FALSE]
             f == [y \in ClipSender |-> v]
  <1>1. <<>> \in Seq(Nat) /\ Rising(<<>>) /\ \A n \in Nat : Within(<<>>, n, n)
    BY DEF Rising, Within
  <1>2. v \in Sender /\ StreamOk(v) /\ AnswerOk(v) /\ HeadFirst(v)
    BY <1>1, ClipAssumption DEF Sender, StreamOk, AnswerOk, HeadFirst, Settled
  <1>3. ClipStart = [pc |-> "accept", cur |-> NoSender, got |-> <<>>, snd |-> f]
    BY DEF ClipStart
  <1> HIDE DEF v
  <1>4. f \in [ClipSender -> Sender] /\ \A y \in ClipSender : f[y] = v
    BY <1>2
  <1> HIDE DEF f
  <1>5. ClipStart \in ClipRec /\ ClipStart.pc = "accept" /\ ClipStart.snd = f
    BY <1>1, <1>3, <1>4 DEF ClipRec
  <1> QED BY <1>2, <1>4, <1>5 DEF ClipGood, ReadOk

LEMMA ClipInvInit == Init => ClipInv
  BY ClipStartGood DEF Init, ClipInv

LEMMA ClipInvNext == ClipInv /\ [Next]_netvars => ClipInv'
  <1> SUFFICES ASSUME ClipInv, [Next]_netvars PROVE ClipInv'
    OBVIOUS
  <1>1. CASE UNCHANGED clip
    BY <1>1 DEF ClipInv, ClipGood, ReadOk, Reading
  <1>2. CASE ClipNext
    <2>1. ClipGood(clip)
      BY <1>2 DEF ClipNext, ClipInv, ClipOff
    <2>2. CASE ClipListener
      BY <2>1, <2>2, AcceptKeeps, HeaderKeeps, ReadKeeps, StoreKeeps, AnswerKeeps
      DEF ClipListener, ClipInv
    <2>3. CASE \E s \in ClipSender : ClipSends(s) \/ ClipDies(s)
      BY <2>1, <2>3, SenderMoves DEF ClipInv
    <2> QED BY <1>2, <2>2, <2>3 DEF ClipNext
  <1> QED BY <1>1, <1>2 DEF Next, netvars

\* netclip.c: a sender that reads OK knows that every block of its payload is
\* stored (or that the listener had no memory for a text), and whatever is
\* stored keeps the order of the payload, for every number of senders, blocks
\* and every length of a connection.
THEOREM ClipAckMeansWhole == Spec => []AckMeansWhole
  <1>1. ClipInv => AckMeansWhole
    <2>1. clip = ClipOff => AckMeansWhole
      BY DEF ClipOff, AckMeansWhole
    <2>2. ASSUME ClipGood(clip) PROVE AckMeansWhole
      <3> SUFFICES ASSUME NEW s \in ClipSender
                   PROVE  /\ Snd(s).ack => Snd(s).stored = Payload \/ Snd(s).noMem
                          /\ \A i, j \in DOMAIN Snd(s).stored :
                               i < j => Snd(s).stored[i] < Snd(s).stored[j]
        BY DEF AckMeansWhole
      <3> DEFINE b == Snd(s).stored
      <3>1. AnswerOk(Snd(s)) /\ b \in Seq(Nat) /\ Rising(b)
        BY <2>2 DEF ClipGood, ClipRec, Sender, StreamOk, Snd
      <3> HIDE DEF b
      <3>2. ASSUME NEW i \in DOMAIN b, NEW j \in DOMAIN b, i < j PROVE b[i] < b[j]
        <4>1. i \in Nat /\ j \in Nat /\ b[i] \in Nat /\ b[j] \in Nat
          BY <3>1
        <4>2. b[j] - b[i] >= j - i
          BY <3>1, <3>2 DEF Rising
        <4> QED BY <4>1, <4>2, <3>2
      <3>3. Snd(s).ack => Snd(s).stored = Payload \/ Snd(s).noMem
        BY <3>1 DEF AnswerOk
      <3> QED BY <3>2, <3>3 DEF b
    <2> QED BY <2>1, <2>2 DEF ClipInv
  <1> QED BY <1>1, ClipInvInit, ClipInvNext, PTL DEF Spec

-----------------------------------------------------------------------------
(* simplehost.                                                             *)

HostBlock == (HostConn \X Nat) \cup {Zero}

\* A connection that holds on to nothing of the file.
Free(k) == DOMAIN k \in {{"pc"}, {"pc", "code"}} /\ k.pc \in {"idle", "done"}

\* An upload at work: what stdio holds back follows what it has written.
Upload(k, c) ==
  /\ DOMAIN k = {"pc", "next", "off", "buf", "alone"} /\ k.pc \in {"recv", "flush"}
  /\ k.next \in Nat /\ k.off \in Nat /\ k.buf \in Seq(HostBlock) /\ k.alone \in BOOLEAN
  /\ k.next = k.off + Len(k.buf) + 1 /\ k.next <= HostBlocks + 2
  /\ \A i \in 1 .. Len(k.buf) : k.buf[i] = <<c, k.off + i>>

Stored(k) ==
  /\ DOMAIN k = {"pc", "code", "up", "alone", "whole"} /\ k.pc = "done"
  /\ k.alone \in BOOLEAN /\ k.whole \in BOOLEAN

\* A download, on its way or at its end.
Download(k) ==
  /\ \/ DOMAIN k = {"pc", "part", "pos", "sent", "alone"} /\ k.pc = "send"
     \/ DOMAIN k = {"pc", "part", "pos", "sent", "alone", "code"} /\ k.pc = "done"
  /\ k.alone \in BOOLEAN /\ k.pos \in Nat /\ k.sent \in Seq(HostBlock)
  /\ k.part \in [part : BOOLEAN, start : Int, length : Int]

ConnKind(k, c) == Free(k) \/ Upload(k, c) \/ Stored(k) \/ Download(k)

\* What the file is to a connection under which nobody else has changed it.
\* Uploaded: what stdio has written so far.
Uploaded(f, k, c) == Len(f) = k.off /\ \A i \in 1 .. k.off : f[i] = <<c, i>>

\* Trimmed: the data, less what fclose has still to write.
Trimmed(f, k, c) ==
  k.next > HostBlocks + 1 =>
    /\ Len(f) \in HostBlocks .. HostBlocks + 1
    /\ Len(f) > HostBlocks => k.off > HostBlocks
    /\ \A i \in 1 .. k.off : i <= Len(f) => f[i] = <<c, i>>

Kept(f, c) == Len(f) \in HostBlocks .. HostBlocks + 1 /\ \A i \in 1 .. Len(f) : f[i] = <<c, i>>

\* Announced: the range lies in the file, and what is sent so far is its start.
Announced(f, k) ==
  LET p == k.part
  IN p.start >= 0 =>
       /\ p.length >= 0 /\ p.start + p.length <= Len(f)
       /\ Len(k.sent) <= p.length /\ k.pos = p.start + Len(k.sent)
       /\ \A i \in 1 .. Len(k.sent) : k.sent[i] = f[p.start + i]
       /\ k.pc = "done" => Len(k.sent) = p.length

Undisturbed(f, k, c) ==
  /\ Upload(k, c) /\ k.alone => IF k.pc = "recv" THEN Uploaded(f, k, c) ELSE Trimmed(f, k, c)
  /\ Stored(k) /\ k.alone /\ k.whole => Kept(f, c)
  /\ Download(k) /\ k.alone => Announced(f, k)

HostGood(h) ==
  /\ h = [pc |-> "on", file |-> h.file, conn |-> h.conn]
  /\ h.file \in Seq(HostBlock) /\ DOMAIN h.conn = HostConn
  /\ h.conn = [c \in HostConn |-> h.conn[c]]
  /\ \A c \in HostConn : ConnKind(h.conn[c], c) /\ Undisturbed(h.file, h.conn[c], c)

HostInv == host = HostOff \/ HostGood(host)

LEMMA HostStartGood == HostGood(HostStart)
  <1> DEFINE h == HostStart
  <1>1. h = [pc |-> "on", file |-> <<>>, conn |-> [c \in HostConn |-> Idle]]
    BY DEF HostStart
  <1>2. <<>> \in Seq(HostBlock)
    OBVIOUS
  <1>3. ASSUME NEW c \in HostConn
        PROVE  ConnKind(h.conn[c], c) /\ Undisturbed(h.file, h.conn[c], c)
    <2>1. h.conn[c] = [pc |-> "idle"]
      BY <1>1 DEF Idle
    <2>2. Free(h.conn[c])
      BY <2>1 DEF Free
    <2>3. ~Upload(h.conn[c], c) /\ ~Stored(h.conn[c]) /\ ~Download(h.conn[c])
      BY <2>1 DEF Upload, Stored, Download
    <2> QED BY <2>2, <2>3 DEF ConnKind, Undisturbed
  <1> QED BY <1>1, <1>2, <1>3 DEF HostGood

\* A connection changes itself only: the others are as they were.
LEMMA OneMoves ==
  ASSUME NEW h, HostGood(h), NEW c \in HostConn, NEW k,
         ConnKind(k, c), Undisturbed(h.file, k, c)
  PROVE  HostGood([h EXCEPT !.conn[c] = k])
  <1> DEFINE g == [h EXCEPT !.conn[c] = k]
  <1>1. g = [pc |-> "on", file |-> h.file, conn |-> [h.conn EXCEPT ![c] = k]]
    BY DEF HostGood
  <1>2. ASSUME NEW x \in HostConn PROVE g.conn[x] = IF x = c THEN k ELSE h.conn[x]
    BY <1>1, <1>2 DEF HostGood
  <1>3. g.file = h.file /\ DOMAIN g.conn = HostConn /\ g.conn = [x \in HostConn |-> g.conn[x]]
    BY <1>1 DEF HostGood
  <1> HIDE DEF g
  <1>4. ASSUME NEW x \in HostConn PROVE ConnKind(g.conn[x], x) /\ Undisturbed(g.file, g.conn[x], x)
    BY <1>2, <1>3 DEF HostGood
  <1> QED BY <1>1, <1>3, <1>4 DEF HostGood, g

\* A connection changes the file: every other that was at it is disturbed.
LEMMA OneWrites ==
  ASSUME NEW h, HostGood(h), NEW c \in HostConn, NEW k, NEW f \in Seq(HostBlock),
         ConnKind(k, c), Undisturbed(f, k, c)
  PROVE  HostGood([Touched(h, c) EXCEPT !.file = f, !.conn[c] = k])
  <1> DEFINE t == Touched(h, c)
             told(x) == IF x # c /\ "alone" \in DOMAIN h.conn[x]
                        THEN [h.conn[x] EXCEPT !.alone = FALSE] ELSE h.conn[x]
             others == [x \in HostConn |-> told(x)]
             g == [t EXCEPT !.file = f, !.conn[c] = k]
  <1>1. t = [pc |-> "on", file |-> h.file, conn |-> others]
    <2>1. t = [h EXCEPT !.conn = others]
      BY DEF Touched
    <2> HIDE DEF others, t
    <2> QED BY <2>1 DEF HostGood
  <1> HIDE DEF t
  <1>2. g = [pc |-> "on", file |-> f, conn |-> [x \in HostConn |-> IF x = c THEN k ELSE told(x)]]
    <2>1. [others EXCEPT ![c] = k] = [x \in HostConn |-> IF x = c THEN k ELSE told(x)]
      <3> HIDE DEF told
      <3> QED OBVIOUS
    <2>2. g = [pc |-> "on", file |-> f, conn |-> [others EXCEPT ![c] = k]]
      <3>1. t.conn = others /\ t.file = h.file /\ DOMAIN t = {"pc", "file", "conn"} /\ t.pc = "on"
        BY <1>1
      <3>2. g = [[t EXCEPT !.file = f] EXCEPT !.conn = [others EXCEPT ![c] = k]]
        <4> HIDE DEF others
        <4> QED BY <3>1
      <3> DEFINE moved == [others EXCEPT ![c] = k]
      <3> HIDE DEF others, moved
      <3>3. [t EXCEPT !.file = f] = [pc |-> "on", file |-> f, conn |-> others]
        BY <1>1
      <3>4. g = [[t EXCEPT !.file = f] EXCEPT !.conn = moved]
        BY <3>2 DEF moved
      <3>5. g = [pc |-> "on", file |-> f, conn |-> moved]
        <4> HIDE DEF g
        <4> QED BY <3>4, <3>3
      <3> QED BY <3>5 DEF moved
    <2> QED BY <2>1, <2>2
  <1> HIDE DEF g
  <1>3. ASSUME NEW x \in HostConn, x # c
        PROVE  ConnKind(told(x), x) /\ Undisturbed(f, told(x), x)
    <2> DEFINE o == h.conn[x]
               n == told(x)
    <2>1. ConnKind(o, x)
      BY DEF HostGood
    <2>2. CASE Free(o)
      <3>1. n = o
        BY <2>2, <1>3 DEF Free
      <3>2. ~Upload(o, x) /\ ~Stored(o) /\ ~Download(o)
        BY <2>2 DEF Free, Upload, Stored, Download
      <3> QED BY <2>1, <3>1, <3>2 DEF Undisturbed
    <2>3. CASE ~Free(o)
      <3>1. n = [o EXCEPT !.alone = FALSE]
        BY <2>1, <2>3, <1>3 DEF ConnKind, Upload, Stored, Download
      <3>2. ConnKind(n, x) /\ n.alone = FALSE
        <4> HIDE DEF o, n
        <4>1. CASE Upload(o, x)
          BY <3>1, <4>1 DEF ConnKind, Upload
        <4>2. CASE Stored(o)
          BY <3>1, <4>2 DEF ConnKind, Stored
        <4>3. CASE Download(o)
          BY <3>1, <4>3 DEF ConnKind, Download
        <4> QED BY <2>1, <2>3, <4>1, <4>2, <4>3 DEF ConnKind
      <3> QED BY <3>2 DEF Undisturbed
    <2> QED BY <2>2, <2>3
  <1> HIDE DEF told
  <1>4. ASSUME NEW x \in HostConn PROVE ConnKind(g.conn[x], x) /\ Undisturbed(g.file, g.conn[x], x)
    BY <1>2, <1>3
  <1>5. g.file \in Seq(HostBlock) /\ DOMAIN g.conn = HostConn /\ g.conn = [x \in HostConn |-> g.conn[x]]
        /\ g = [pc |-> "on", file |-> g.file, conn |-> g.conn]
    BY <1>2
  <1> QED BY <1>4, <1>5 DEF HostGood, g, t

LEMMA WriteAtIs ==
  ASSUME NEW f \in Seq(HostBlock), NEW off \in Nat, NEW b \in Seq(HostBlock),
         NEW g, g = WriteAt(f, off, b)
  PROVE  /\ g \in Seq(HostBlock)
         /\ b = <<>> => g = f
         /\ b # <<>> => /\ Len(g) = IF off + Len(b) > Len(f) THEN off + Len(b) ELSE Len(f)
                        /\ \A i \in 1 .. Len(g) : g[i] = IF i \in off + 1 .. off + Len(b) THEN b[i - off]
                                                         ELSE IF i <= Len(f) THEN f[i] ELSE Zero
  <1>1. CASE b = <<>>
    BY <1>1 DEF WriteAt
  <1>2. CASE b # <<>>
    <2> DEFINE n == IF off + Len(b) > Len(f) THEN off + Len(b) ELSE Len(f)
               e(i) == IF i \in off + 1 .. off + Len(b) THEN b[i - off]
                       ELSE IF i <= Len(f) THEN f[i] ELSE Zero
    <2>1. n \in Nat
      OBVIOUS
    <2>2. ASSUME NEW i \in 1 .. n PROVE e(i) \in HostBlock
      <3>1. Zero \in HostBlock
        BY DEF HostBlock
      <3>2. CASE i \in off + 1 .. off + Len(b)
        <4>1. i - off \in 1 .. Len(b)
          BY <3>2
        <4> QED BY <3>2, <4>1
      <3> QED BY <3>1, <3>2
    <2>3. g = [i \in 1 .. n |-> e(i)]
      BY <1>2 DEF WriteAt
    <2> HIDE DEF n, e
    <2>4. g \in Seq(HostBlock) /\ Len(g) = n
      BY <2>1, <2>2, <2>3
    <2>5. \A i \in 1 .. Len(g) : g[i] = e(i)
      BY <2>3, <2>4
    <2> QED BY <1>2, <2>4, <2>5 DEF n, e
  <1> QED BY <1>1, <1>2

LEMMA TruncateIs ==
  ASSUME NEW f \in Seq(HostBlock), NEW size \in Nat, size > 1,
         NEW g, g = Truncate(f, size)
  PROVE  /\ g \in Seq(HostBlock) /\ Len(g) = size - 1
         /\ \A i \in 1 .. size - 1 : g[i] = IF i <= Len(f) THEN f[i] ELSE Zero
  <1> DEFINE e(i) == IF i <= Len(f) THEN f[i] ELSE Zero
  <1>1. ASSUME NEW i \in 1 .. size - 1 PROVE e(i) \in HostBlock
    BY DEF HostBlock
  <1>2. g = [i \in 1 .. size - 1 |-> e(i)]
    BY DEF Truncate
  <1>3. size - 1 \in Nat
    OBVIOUS
  <1> HIDE DEF e
  <1>4. g \in Seq(HostBlock) /\ Len(g) = size - 1
    BY <1>1, <1>2, <1>3
  <1>5. \A i \in 1 .. size - 1 : g[i] = e(i)
    BY <1>2
  <1> QED BY <1>4, <1>5 DEF e

LEMMA FreeFits ==
  ASSUME NEW k, Free(k), NEW f, NEW c
  PROVE  ConnKind(k, c) /\ Undisturbed(f, k, c)
  BY DEF Free, ConnKind, Undisturbed, Upload, Stored, Download

LEMMA UploadFits ==
  ASSUME NEW k, NEW c, Upload(k, c), NEW f,
         k.alone => IF k.pc = "recv" THEN Uploaded(f, k, c) ELSE Trimmed(f, k, c)
  PROVE  ConnKind(k, c) /\ Undisturbed(f, k, c)
  <1>1. ~Stored(k) /\ ~Download(k)
    BY DEF Upload, Stored, Download
  <1> QED BY <1>1 DEF ConnKind, Undisturbed

LEMMA DownloadFits ==
  ASSUME NEW k, NEW c, Download(k), NEW f, k.alone => Announced(f, k)
  PROVE  ConnKind(k, c) /\ Undisturbed(f, k, c)
  <1>1. ~Stored(k) /\ ~Upload(k, c)
    BY DEF Upload, Stored, Download
  <1> QED BY <1>1 DEF ConnKind, Undisturbed

LEMMA UploadAt ==
  ASSUME HostGood(host), NEW c \in HostConn, Conn(c).pc \in {"recv", "flush"}
  PROVE  /\ Upload(Conn(c), c)
         /\ Conn(c).alone => IF Conn(c).pc = "recv" THEN Uploaded(host.file, Conn(c), c)
                             ELSE Trimmed(host.file, Conn(c), c)
         /\ host.file \in Seq(HostBlock)
  <1> DEFINE k == host.conn[c]
  <1>1. ConnKind(k, c) /\ Undisturbed(host.file, k, c) /\ k.pc \in {"recv", "flush"}
    BY DEF HostGood, Conn
  <1> HIDE DEF k
  <1>2. Upload(k, c)
    BY <1>1 DEF ConnKind, Free, Stored, Download
  <1>3. k = Conn(c)
    BY DEF Conn, k
  <1> QED BY <1>1, <1>2, <1>3 DEF Undisturbed, HostGood

LEMMA UploadKeeps ==
  ASSUME HostGood(host), NEW c \in HostConn, HostUpload(c)
  PROVE  HostGood(host')
  <1> DEFINE k == [pc |-> "recv", next |-> 1, off |-> 0, buf |-> <<>>, alone |-> Uploading(host) = {}]
             f == <<>>
  <1>1. host' = [Touched(host, c) EXCEPT !.file = f, !.conn[c] = k]
    BY DEF HostUpload
  <1>2. Upload(k, c) /\ Uploaded(f, k, c) /\ k.pc = "recv"
    <2>1. k.buf \in Seq(HostBlock) /\ Len(k.buf) = 0
      OBVIOUS
    <2>2. k.alone \in BOOLEAN
      OBVIOUS
    <2> QED BY <2>1, <2>2, HostAssumption DEF Upload, Uploaded
  <1>3. f \in Seq(HostBlock)
    OBVIOUS
  <1> HIDE DEF k, f
  <1>4. ConnKind(k, c) /\ Undisturbed(f, k, c)
    BY <1>2, UploadFits
  <1> QED BY <1>1, <1>3, <1>4, OneWrites

LEMMA RecvKeeps ==
  ASSUME HostGood(host), NEW c \in HostConn, HostRecv(c)
  PROVE  HostGood(host')
  <1> DEFINE o == Conn(c)
             f == host.file
             buf == Append(o.buf, <<c, o.next>>)
             more == [o EXCEPT !.next = @ + 1]
  <1>1. /\ Upload(o, c) /\ (o.alone => Uploaded(f, o, c)) /\ f \in Seq(HostBlock)
        /\ o.pc = "recv" /\ o.next <= HostBlocks + 1
    <2>1. o.pc = "recv" /\ o.next <= HostBlocks + 1
      BY DEF HostRecv
    <2> QED BY <2>1, UploadAt
  <1>2. HostGood(host) /\ \/ host' = [host EXCEPT !.conn[c] = [more EXCEPT !.buf = buf]]
                          \/ host' = [Touched(host, c) EXCEPT !.file = WriteAt(@, o.off, buf),
                                        !.conn[c] = [more EXCEPT !.buf = <<>>, !.off = @ + Len(buf)]]
    BY DEF HostRecv
  <1>3. Touched(host, c).file = f
    BY DEF Touched, HostGood
  <1>4. /\ buf \in Seq(HostBlock) /\ Len(buf) = Len(o.buf) + 1
        /\ \A i \in 1 .. Len(buf) : buf[i] = <<c, o.off + i>>
    <2>1. <<c, o.next>> \in HostBlock /\ o.buf \in Seq(HostBlock)
      BY <1>1 DEF Upload, HostBlock
    <2>2. buf \in Seq(HostBlock) /\ Len(buf) = Len(o.buf) + 1
      BY <2>1
    <2>3. ASSUME NEW i \in 1 .. Len(buf) PROVE buf[i] = <<c, o.off + i>>
      <3> HIDE DEF o
      <3>1. CASE i = Len(o.buf) + 1
        BY <3>1, <2>1, <1>1 DEF Upload
      <3>2. CASE i # Len(o.buf) + 1
        BY <3>2, <2>1, <2>2, <1>1 DEF Upload
      <3> QED BY <3>1, <3>2
    <2> QED BY <2>2, <2>3
  <1> HIDE DEF o, f, buf
  <1>5. CASE host' = [host EXCEPT !.conn[c] = [more EXCEPT !.buf = buf]]
    <2> DEFINE k == [more EXCEPT !.buf = buf]
    <2>1. /\ DOMAIN k = DOMAIN o /\ k.pc = "recv" /\ k.next = o.next + 1 /\ k.off = o.off
          /\ k.buf = buf /\ k.alone = o.alone
      BY <1>1 DEF Upload
    <2> HIDE DEF k
    <2>2. Upload(k, c)
      BY SMTT(40), <1>1, <1>4, <2>1, HostAssumption DEF Upload
    <2>3. k.alone => Uploaded(f, k, c)
      BY <1>1, <2>1 DEF Uploaded
    <2>4. ConnKind(k, c) /\ Undisturbed(host.file, k, c)
      BY <2>1, <2>2, <2>3, UploadFits DEF f
    <2> QED BY <1>5, <2>4, <1>2, OneMoves DEF k
  <1>6. CASE host' = [Touched(host, c) EXCEPT !.file = WriteAt(@, o.off, buf),
                        !.conn[c] = [more EXCEPT !.buf = <<>>, !.off = @ + Len(buf)]]
    <2> DEFINE k == [more EXCEPT !.buf = <<>>, !.off = @ + Len(buf)]
               g == WriteAt(f, o.off, buf)
    <2>1. /\ DOMAIN k = DOMAIN o /\ k.pc = "recv" /\ k.next = o.next + 1 /\ k.off = o.off + Len(buf)
          /\ k.buf = <<>> /\ k.alone = o.alone
      BY <1>1 DEF Upload
    <2>2. host' = [Touched(host, c) EXCEPT !.file = g, !.conn[c] = k]
      BY <1>6, <1>3
    <2>3. o.off \in Nat
      BY <1>1 DEF Upload
    <2>4. /\ g \in Seq(HostBlock)
          /\ buf # <<>>
          /\ Len(g) = IF o.off + Len(buf) > Len(f) THEN o.off + Len(buf) ELSE Len(f)
          /\ \A i \in 1 .. Len(g) : g[i] = IF i \in o.off + 1 .. o.off + Len(buf) THEN buf[i - o.off]
                                           ELSE IF i <= Len(f) THEN f[i] ELSE Zero
      <3>1. buf # <<>>
        BY <1>1, <1>4 DEF Upload
      <3>2. g = WriteAt(f, o.off, buf)
        OBVIOUS
      <3> DEFINE off == o.off
      <3>3. f \in Seq(HostBlock) /\ off \in Nat /\ buf \in Seq(HostBlock) /\ g = WriteAt(f, off, buf)
        BY <3>2, <2>3, <1>1, <1>4
      <3> HIDE DEF g, off
      <3>4. /\ g \in Seq(HostBlock)
            /\ buf # <<>> => /\ Len(g) = IF off + Len(buf) > Len(f) THEN off + Len(buf) ELSE Len(f)
                             /\ \A i \in 1 .. Len(g) : g[i] = IF i \in off + 1 .. off + Len(buf) THEN buf[i - off]
                                                              ELSE IF i <= Len(f) THEN f[i] ELSE Zero
        BY <3>3, WriteAtIs
      <3> QED BY <3>1, <3>4 DEF off
    <2> HIDE DEF k, g
    <2>5. Upload(k, c)
      <3>1. k.buf \in Seq(HostBlock) /\ Len(k.buf) = 0
        BY <2>1
      <3> QED BY <3>1, <1>1, <1>4, <2>1, HostAssumption DEF Upload
    <2>6. ASSUME k.alone PROVE Uploaded(g, k, c)
      <3>1. Len(f) = o.off /\ \A i \in 1 .. o.off : f[i] = <<c, i>>
        BY <2>1, <2>6, <1>1 DEF Uploaded
      <3>2. Len(g) = k.off
        BY <3>1, <2>1, <2>3, <2>4, <1>4
      <3>3. ASSUME NEW i \in 1 .. k.off PROVE g[i] = <<c, i>>
        <4>1. CASE i <= o.off
          <5>1. i \in 1 .. Len(g) /\ i \in 1 .. o.off /\ i \notin o.off + 1 .. o.off + Len(buf) /\ i <= Len(f)
            BY <4>1, <3>1, <3>2, <2>1, <2>3, <1>4
          <5> QED BY <5>1, <3>1, <2>4
        <4>2. CASE i > o.off
          <5>1. i - o.off \in 1 .. Len(buf) /\ i \in o.off + 1 .. o.off + Len(buf) /\ i \in 1 .. Len(g)
            BY <4>2, <3>2, <2>1, <2>3, <1>4
          <5>2. g[i] = buf[i - o.off]
            BY <5>1, <2>4
          <5> QED BY SMTT(40), <5>1, <5>2, <1>4, <2>3
        <4> QED BY <4>1, <4>2, <2>3
      <3> QED BY <3>2, <3>3 DEF Uploaded
    <2>7. ConnKind(k, c) /\ Undisturbed(g, k, c)
      BY <2>1, <2>5, <2>6, UploadFits
    <2> QED BY <2>2, <2>4, <2>7, <1>2, OneWrites
  <1> QED BY <1>2, <1>5, <1>6

LEMMA HostCutKeeps ==
  ASSUME HostGood(host), NEW c \in HostConn, HostCut(c)
  PROVE  HostGood(host')
  <1> DEFINE o == Conn(c)
             f == host.file
             size == o.off + Len(o.buf)
             g == IF size > 1 THEN Truncate(f, size) ELSE f
             k == [o EXCEPT !.pc = "flush"]
  <1>1. /\ Upload(o, c) /\ (o.alone => Uploaded(f, o, c)) /\ f \in Seq(HostBlock)
        /\ o.pc = "recv" /\ size \in Nat
    <2>1. o.pc = "recv"
      BY DEF HostCut
    <2>2. Upload(o, c)
      BY <2>1, UploadAt
    <2>3. size \in Nat
      BY <2>2 DEF Upload
    <2> QED BY <2>1, <2>3, UploadAt
  <1>2. host' = [Touched(host, c) EXCEPT !.file = g, !.conn[c] = k]
    <2>1. Touched(host, c).file = f /\ Touched(host, c).conn[c] = o
      BY DEF Touched, HostGood, Conn
    <2>2. host' = [Touched(host, c) EXCEPT !.file = g, !.conn[c].pc = "flush"]
      BY <2>1 DEF HostCut
    <2> QED BY <2>1, <2>2
  <1>3. /\ DOMAIN k = DOMAIN o /\ k.pc = "flush" /\ k.next = o.next /\ k.off = o.off
        /\ k.buf = o.buf /\ k.alone = o.alone
    BY <1>1 DEF Upload
  <1>4. /\ g \in Seq(HostBlock)
        /\ size > 1 => /\ Len(g) = size - 1
                       /\ \A i \in 1 .. size - 1 : g[i] = IF i <= Len(f) THEN f[i] ELSE Zero
        /\ size <= 1 => g = f
    <2> HIDE DEF size, f
    <2>1. CASE size > 1
      BY <2>1, <1>1, TruncateIs
    <2>2. CASE size <= 1
      BY <2>2, <1>1
    <2> QED BY <2>1, <2>2, <1>1
  <1> HIDE DEF k, g, f, o
  <1>5. Upload(k, c)
    BY <1>1, <1>3 DEF Upload
  <1>6. ASSUME k.alone PROVE Trimmed(g, k, c)
    <2> SUFFICES ASSUME k.next > HostBlocks + 1
                 PROVE  /\ Len(g) \in HostBlocks .. HostBlocks + 1
                        /\ Len(g) > HostBlocks => k.off > HostBlocks
                        /\ \A i \in 1 .. k.off : i <= Len(g) => g[i] = <<c, i>>
      BY DEF Trimmed
    <2>1. Len(f) = o.off /\ \A i \in 1 .. o.off : f[i] = <<c, i>>
      BY <1>6, <1>1, <1>3 DEF Uploaded
    <2>2. o.off \in Nat /\ size = HostBlocks + 1
      BY <1>1, <1>3, HostAssumption DEF Upload
    <2>3. CASE size > 1
      <3>1. Len(g) = HostBlocks /\ o.off <= HostBlocks + 1
        BY <2>2, <2>3, <1>1, <1>4, HostAssumption DEF Upload
      <3>2. ASSUME NEW i \in 1 .. k.off, i <= Len(g) PROVE g[i] = <<c, i>>
        <4>1. i \in 1 .. size - 1 /\ i \in 1 .. o.off /\ i <= Len(f)
          BY <3>1, <3>2, <2>1, <2>2, <1>3, HostAssumption
        <4> QED BY <4>1, <2>1, <2>3, <1>4
      <3> QED BY <3>1, <3>2, HostAssumption
    <2>4. CASE size <= 1
      BY <2>1, <2>2, <2>4, <1>1, <1>3, <1>4, HostAssumption DEF Upload
    <2> QED BY <2>2, <2>3, <2>4, HostAssumption
  <1>7. ConnKind(k, c) /\ Undisturbed(g, k, c)
    BY <1>3, <1>5, <1>6, UploadFits
  <1> QED BY <1>2, <1>4, <1>7, OneWrites

LEMMA StoredFits ==
  ASSUME NEW k, NEW c, Stored(k), NEW f, k.alone /\ k.whole => Kept(f, c)
  PROVE  ConnKind(k, c) /\ Undisturbed(f, k, c)
  <1>1. ~Upload(k, c) /\ ~Download(k)
    BY DEF Upload, Stored, Download
  <1> QED BY <1>1 DEF ConnKind, Undisturbed

LEMMA HostCloseKeeps ==
  ASSUME HostGood(host), NEW c \in HostConn, HostClose(c)
  PROVE  HostGood(host')
  <1> DEFINE o == Conn(c)
             f == host.file
             off == o.off
             buf == o.buf
             g == WriteAt(f, off, buf)
             k == [pc |-> "done", code |-> 200, up |-> TRUE, alone |-> o.alone,
                   whole |-> o.next > HostBlocks + 1]
  <1>1. /\ Upload(o, c) /\ (o.alone => Trimmed(f, o, c)) /\ f \in Seq(HostBlock)
    <2>1. o.pc = "flush"
      BY DEF HostClose
    <2> QED BY <2>1, UploadAt
  <1>2. host' = [Touched(host, c) EXCEPT !.file = g, !.conn[c] = k]
    <2>1. Touched(host, c).file = f
      BY DEF Touched, HostGood
    <2> QED BY <2>1 DEF HostClose
  <1>3. Stored(k)
    BY <1>1 DEF Stored, Upload
  <1>4. k.alone = o.alone /\ k.whole = (o.next > HostBlocks + 1)
    OBVIOUS
  <1>5. f \in Seq(HostBlock) /\ off \in Nat /\ buf \in Seq(HostBlock) /\ g = WriteAt(f, off, buf)
    BY <1>1 DEF Upload
  <1>6. o.next = off + Len(buf) + 1 /\ o.next <= HostBlocks + 2 /\ o.next \in Nat
        /\ \A i \in 1 .. Len(buf) : buf[i] = <<c, off + i>>
    BY <1>1 DEF Upload
  <1>7. o.alone /\ o.next > HostBlocks + 1 =>
           /\ Len(f) \in HostBlocks .. HostBlocks + 1
           /\ Len(f) > HostBlocks => off > HostBlocks
           /\ \A i \in 1 .. off : i <= Len(f) => f[i] = <<c, i>>
    BY <1>1 DEF Trimmed
  <1> HIDE DEF k, g, f, off, buf
  <1>8. /\ g \in Seq(HostBlock)
        /\ buf = <<>> => g = f
        /\ buf # <<>> => /\ Len(g) = IF off + Len(buf) > Len(f) THEN off + Len(buf) ELSE Len(f)
                         /\ \A i \in 1 .. Len(g) : g[i] = IF i \in off + 1 .. off + Len(buf) THEN buf[i - off]
                                                          ELSE IF i <= Len(f) THEN f[i] ELSE Zero
    BY <1>5, WriteAtIs
  <1>9. ASSUME k.alone, k.whole PROVE Kept(g, c)
    <2>1. /\ Len(f) \in HostBlocks .. HostBlocks + 1
          /\ Len(f) > HostBlocks => off > HostBlocks
          /\ \A i \in 1 .. off : i <= Len(f) => f[i] = <<c, i>>
      BY <1>4, <1>7, <1>9
    <2>2. off + Len(buf) = HostBlocks + 1
      <3>1. o.next > HostBlocks + 1
        BY <1>4, <1>9
      <3>2. o.next = HostBlocks + 2
        BY <3>1, <1>6, HostAssumption
      <3>3. off \in Nat /\ Len(buf) \in Nat /\ o.next = off + Len(buf) + 1
        BY <1>5, <1>6
      <3> HIDE DEF o
      <3> QED BY <3>2, <3>3, HostAssumption
    <2>3. CASE buf = <<>>
      <3>1. off = HostBlocks + 1 /\ g = f
        BY <2>2, <2>3, <1>5, <1>8, HostAssumption
      <3> QED BY <3>1, <2>1, <1>5, HostAssumption DEF Kept
    <2>4. CASE buf # <<>>
      <3>1. off <= HostBlocks /\ Len(f) = HostBlocks
        BY <2>1, <2>2, <2>4, <1>5, HostAssumption
      <3>2. Len(g) = HostBlocks + 1
        BY <3>1, <2>2, <2>4, <1>8, HostAssumption
      <3>3. ASSUME NEW i \in 1 .. Len(g) PROVE g[i] = <<c, i>>
        <4>1. CASE i <= off
          <5>1. i \in 1 .. off /\ i <= Len(f) /\ i \notin off + 1 .. off + Len(buf)
            BY <4>1, <3>1, <3>2, <1>5, HostAssumption
          <5> QED BY <5>1, <2>1, <2>4, <1>8
        <4>2. CASE i > off
          <5>1. i - off \in 1 .. Len(buf) /\ i \in off + 1 .. off + Len(buf) /\ off + (i - off) = i
            BY <4>2, <3>2, <2>2, <1>5, HostAssumption
          <5>2. g[i] = buf[i - off]
            BY <5>1, <2>4, <1>8
          <5> QED BY <5>1, <5>2, <1>6
        <4> QED BY <4>1, <4>2, <3>2, <1>5, HostAssumption
      <3> QED BY <3>2, <3>3, HostAssumption DEF Kept
    <2> QED BY <2>3, <2>4
  <1>10. ConnKind(k, c) /\ Undisturbed(g, k, c)
    BY <1>3, <1>9, StoredFits
  <1> QED BY <1>2, <1>8, <1>10, OneWrites

LEMMA PartLies ==
  ASSUME NEW range \in HostRange, NEW size \in Nat, NEW p, p = Part(range, size)
  PROVE  /\ p \in [part : BOOLEAN, start : Int, length : Int]
         /\ p.start >= 0 => p.length >= 0 /\ p.start + p.length <= size
  <1> DEFINE end == IF range.end = NoEnd \/ range.end >= size \/ range.end = 0 THEN size - 1 ELSE range.end
  <1>1. range.start \in Int /\ range.end \in Int
    BY HostAssumption
  <1>2. end \in Int /\ (end <= size - 1)
    BY <1>1 DEF NoEnd
  <1>3. p = IF range.start <= end THEN [part |-> TRUE, start |-> range.start, length |-> end - range.start + 1]
            ELSE [part |-> FALSE, start |-> 0, length |-> size]
    BY DEF Part
  <1> HIDE DEF end
  <1>4. CASE range.start <= end
    BY <1>1, <1>2, <1>3, <1>4
  <1>5. CASE ~(range.start <= end)
    BY <1>3, <1>5
  <1> QED BY <1>4, <1>5

LEMMA HostGetKeeps ==
  ASSUME HostGood(host), NEW c \in HostConn, HostGet(c)
  PROVE  HostGood(host')
  <1> DEFINE f == host.file
  <1>1. PICK range \in HostRange :
          LET p == Part(range, Len(host.file))
          IN host' = [host EXCEPT !.conn[c] =
               [pc |-> "send", part |-> p, pos |-> IF p.start < 0 THEN 0 ELSE p.start, sent |-> <<>>, alone |-> TRUE]]
    BY DEF HostGet
  <1> DEFINE p == Part(range, Len(f))
             k == [pc |-> "send", part |-> p, pos |-> IF p.start < 0 THEN 0 ELSE p.start, sent |-> <<>>, alone |-> TRUE]
  <1>2. f \in Seq(HostBlock) /\ Len(f) \in Nat
    BY DEF HostGood
  <1>3. /\ p \in [part : BOOLEAN, start : Int, length : Int]
        /\ p.start >= 0 => p.length >= 0 /\ p.start + p.length <= Len(f)
    BY <1>2, PartLies
  <1>4. host' = [host EXCEPT !.conn[c] = k]
    BY <1>1
  <1> HIDE DEF p, f
  <1>5. k.sent \in Seq(HostBlock) /\ Len(k.sent) = 0
    OBVIOUS
  <1>6. Download(k)
    BY <1>3, <1>5 DEF Download
  <1>7. Announced(f, k)
    BY <1>3, <1>5 DEF Announced
  <1> HIDE DEF k
  <1>8. ConnKind(k, c) /\ Undisturbed(host.file, k, c)
    BY <1>6, <1>7, DownloadFits DEF f
  <1> QED BY <1>4, <1>8, OneMoves

LEMMA DownloadAt ==
  ASSUME HostGood(host), NEW c \in HostConn, Conn(c).pc = "send"
  PROVE  /\ Download(Conn(c))
         /\ Conn(c).alone => Announced(host.file, Conn(c))
         /\ host.file \in Seq(HostBlock)
  <1> DEFINE k == host.conn[c]
  <1>1. ConnKind(k, c) /\ Undisturbed(host.file, k, c) /\ k.pc = "send"
    BY DEF HostGood, Conn
  <1> HIDE DEF k
  <1>2. Download(k)
    BY <1>1 DEF ConnKind, Free, Stored, Upload
  <1>3. k = Conn(c)
    BY DEF Conn, k
  <1> QED BY <1>1, <1>2, <1>3 DEF Undisturbed, HostGood

LEMMA HostSendKeeps ==
  ASSUME HostGood(host), NEW c \in HostConn, HostSend(c)
  PROVE  HostGood(host')
  <1> DEFINE o == Conn(c)
             f == host.file
  <1>1. /\ Download(o) /\ (o.alone => Announced(f, o)) /\ f \in Seq(HostBlock) /\ o.pc = "send"
    <2>1. o.pc = "send"
      BY DEF HostSend
    <2> QED BY <2>1, DownloadAt
  <1>2. IF Len(o.sent) < o.part.length /\ o.pos < Len(f)
        THEN host' = [host EXCEPT !.conn[c] = [o EXCEPT !.sent = Append(@, f[o.pos + 1]), !.pos = @ + 1]]
        ELSE host' = [host EXCEPT !.conn[c] =
               [pc |-> "done", part |-> o.part, pos |-> o.pos, sent |-> o.sent, alone |-> o.alone,
                code |-> IF o.part.part THEN 206 ELSE 200]]
    BY DEF HostSend
  <1>3. /\ DOMAIN o = {"pc", "part", "pos", "sent", "alone"}
        /\ o.alone \in BOOLEAN /\ o.pos \in Nat /\ o.sent \in Seq(HostBlock)
        /\ o.part \in [part : BOOLEAN, start : Int, length : Int]
    BY <1>1 DEF Download
  <1> HIDE DEF o, f
  <1>4. CASE Len(o.sent) < o.part.length /\ o.pos < Len(f)
    <2> DEFINE k == [o EXCEPT !.sent = Append(@, f[o.pos + 1]), !.pos = @ + 1]
               b == Append(o.sent, f[o.pos + 1])
    <2>1. /\ DOMAIN k = DOMAIN o /\ k.pc = "send" /\ k.part = o.part /\ k.pos = o.pos + 1
          /\ k.sent = b /\ k.alone = o.alone
      BY <1>1, <1>3
    <2>2. f[o.pos + 1] \in HostBlock
      BY <1>1, <1>3, <1>4
    <2>3. /\ b \in Seq(HostBlock) /\ Len(b) = Len(o.sent) + 1
          /\ \A i \in 1 .. Len(o.sent) : b[i] = o.sent[i]
          /\ b[Len(o.sent) + 1] = f[o.pos + 1]
      BY <1>3, <2>2
    <2>4. host' = [host EXCEPT !.conn[c] = k]
      BY <1>2, <1>4
    <2> HIDE DEF k, b
    <2>5. Download(k)
      BY <1>3, <2>1, <2>3 DEF Download
    <2>6. ASSUME k.alone PROVE Announced(f, k)
      <3> SUFFICES ASSUME o.part.start >= 0
                   PROVE  /\ k.part.length >= 0 /\ k.part.start + k.part.length <= Len(f)
                          /\ Len(k.sent) <= k.part.length /\ k.pos = k.part.start + Len(k.sent)
                          /\ \A i \in 1 .. Len(k.sent) : k.sent[i] = f[k.part.start + i]
        BY <2>1 DEF Announced
      <3>1. /\ o.part.length >= 0 /\ o.part.start + o.part.length <= Len(f)
            /\ Len(o.sent) <= o.part.length /\ o.pos = o.part.start + Len(o.sent)
            /\ \A i \in 1 .. Len(o.sent) : o.sent[i] = f[o.part.start + i]
        BY <1>1, <2>1, <2>6 DEF Announced
      <3>2. o.part.start \in Int /\ o.part.length \in Int
        BY <1>3
      <3>3. ASSUME NEW i \in 1 .. Len(k.sent) PROVE k.sent[i] = f[k.part.start + i]
        <4>1. CASE i \in 1 .. Len(o.sent)
          BY <4>1, <2>1, <2>3, <3>1
        <4>2. CASE i = Len(o.sent) + 1
          BY <4>2, <2>1, <2>3, <3>1, <3>2, <1>3
        <4> QED BY <4>1, <4>2, <2>1, <2>3, <1>3
      <3>4. Len(k.sent) <= k.part.length /\ k.pos = k.part.start + Len(k.sent)
        <4>1. Len(k.sent) = Len(o.sent) + 1 /\ k.part = o.part /\ k.pos = o.pos + 1
          BY <2>1, <2>3
        <4>2. Len(o.sent) \in Nat /\ Len(o.sent) < o.part.length
          BY <1>3, <1>4
        <4> DEFINE n == Len(o.sent)
                   from == o.part.start
                   all == o.part.length
        <4>3. n \in Nat /\ n < all /\ all \in Int /\ from \in Int /\ o.pos = from + n
          BY <4>2, <3>1, <3>2
        <4>4. Len(k.sent) = n + 1 /\ k.pos = o.pos + 1
          BY <4>1
        <4> HIDE DEF n, from, all
        <4>5. Len(k.sent) <= all /\ k.pos = from + Len(k.sent)
          BY <4>3, <4>4
        <4> QED BY <4>1, <4>5 DEF from, all
      <3>5. k.part = o.part
        BY <2>1
      <3> QED BY <3>1, <3>3, <3>4, <3>5
    <2>7. ConnKind(k, c) /\ Undisturbed(host.file, k, c)
      BY <2>5, <2>6, DownloadFits DEF f
    <2> QED BY <2>4, <2>7, OneMoves
  <1>5. CASE ~(Len(o.sent) < o.part.length /\ o.pos < Len(f))
    <2> DEFINE k == [pc |-> "done", part |-> o.part, pos |-> o.pos, sent |-> o.sent, alone |-> o.alone,
                     code |-> IF o.part.part THEN 206 ELSE 200]
    <2>2. host' = [host EXCEPT !.conn[c] = k]
      BY <1>2, <1>5
    <2>4. /\ DOMAIN k = {"pc", "part", "pos", "sent", "alone", "code"} /\ k.pc = "done"
          /\ k.part = o.part /\ k.pos = o.pos /\ k.sent = o.sent /\ k.alone = o.alone
      OBVIOUS
    <2> HIDE DEF k
    <2>5. Download(k)
      BY <1>3, <2>4 DEF Download
    <2>6. ASSUME k.alone PROVE Announced(f, k)
      <3>1. o.part.start \in Int /\ o.part.length \in Int
        BY <1>3
      <3> QED BY <3>1, <1>1, <1>3, <1>5, <2>4, <2>6 DEF Announced
    <2>7. ConnKind(k, c) /\ Undisturbed(host.file, k, c)
      BY <2>5, <2>6, DownloadFits DEF f
    <2> QED BY <2>2, <2>7, OneMoves
  <1> QED BY <1>4, <1>5

LEMMA HostShortKeeps ==
  ASSUME HostGood(host), NEW c \in HostConn, HostShort(c)
  PROVE  HostGood(host')
  <1>1. PICK code \in {0, 200, 400, 403, 404, 500} : host' = Answered(host, c, code)
    BY DEF HostShort
  <1> DEFINE k == [pc |-> "done", code |-> code]
  <1>2. host' = [host EXCEPT !.conn[c] = k]
    BY <1>1 DEF Answered
  <1>3. Free(k)
    BY DEF Free
  <1> HIDE DEF k
  <1>4. ConnKind(k, c) /\ Undisturbed(host.file, k, c)
    BY <1>3, FreeFits
  <1> QED BY <1>2, <1>4, OneMoves

LEMMA HostInvInit == Init => HostInv
  BY HostStartGood DEF Init, HostInv

LEMMA HostInvNext == HostInv /\ [Next]_netvars => HostInv'
  <1> SUFFICES ASSUME HostInv, [Next]_netvars PROVE HostInv'
    OBVIOUS
  <1>1. CASE UNCHANGED host
    <2>1. host' = host
      BY <1>1
    <2>2. HostInv' = (host' = HostOff \/ HostGood(host'))
      BY DEF HostInv
    <2> QED BY <2>1, <2>2 DEF HostInv
  <1>2. CASE HostNext
    <2>1. HostGood(host)
      BY <1>2 DEF HostNext, HostInv, HostOff
    <2>2. PICK c \in HostConn : HostThread(c)
      BY <1>2 DEF HostNext
    <2>3. HostGood(host')
      BY <2>1, <2>2, HostShortKeeps, UploadKeeps, RecvKeeps, HostCutKeeps, HostCloseKeeps,
         HostGetKeeps, HostSendKeeps DEF HostThread
    <2> QED BY <2>3 DEF HostInv
  <1> QED BY <1>1, <1>2 DEF Next, netvars

\* simplehost.c: an upload that arrived whole, under which no other connection
\* wrote, is stored with every block in its place and nothing behind the data
\* but the boundary; and a download under which nobody wrote is the range that
\* its header announced: for every number of connections, size of an upload,
\* every range asked for and whatever stdio holds back.
THEOREM HostServesWell == Spec => []HostServes
  <1>1. HostInv => HostServes
    <2>1. host = HostOff => HostServes
      BY DEF HostOff, HostServes, HostKeeps, HostHonest
    <2>2. ASSUME HostGood(host), NEW c \in HostConn
          PROVE  /\ ConnKind(Conn(c), c) /\ Undisturbed(host.file, Conn(c), c)
                 /\ host.file \in Seq(HostBlock) /\ Len(host.file) \in Nat
      BY <2>2 DEF HostGood, Conn
    <2> DEFINE f == host.file
    <2>3. ASSUME HostGood(host) PROVE HostKeeps
      <3> SUFFICES ASSUME NEW c \in HostConn, "up" \in DOMAIN Conn(c), Conn(c).alone, Conn(c).whole
                   PROVE  /\ Len(f) >= HostBlocks
                          /\ \A i \in 1 .. HostBlocks : f[i] = <<c, i>>
                          /\ SubSeq(f, HostBlocks + 1, Len(f)) \in {<<>>, <<Trailer(c)>>}
        BY DEF HostKeeps
      <3> DEFINE k == Conn(c)
      <3>1. ConnKind(k, c) /\ Undisturbed(f, k, c) /\ f \in Seq(HostBlock) /\ Len(f) \in Nat
        BY <2>2, <2>3
      <3>2. "up" \in DOMAIN k /\ k.alone /\ k.whole
        OBVIOUS
      <3> HIDE DEF k, f
      <3>3. Stored(k)
        BY <3>1, <3>2 DEF ConnKind, Free, Upload, Download
      <3>4. Len(f) \in HostBlocks .. HostBlocks + 1 /\ \A i \in 1 .. Len(f) : f[i] = <<c, i>>
        BY <3>1, <3>2, <3>3 DEF Undisturbed, Kept
      <3>5. SubSeq(f, HostBlocks + 1, Len(f)) \in {<<>>, <<Trailer(c)>>}
        <4>1. CASE Len(f) = HostBlocks
          BY <4>1, <3>1, HostAssumption
        <4>2. CASE Len(f) = HostBlocks + 1
          <5>1. f[HostBlocks + 1] = Trailer(c)
            BY <4>2, <3>4, HostAssumption DEF Trailer
          <5> DEFINE rest == SubSeq(f, HostBlocks + 1, Len(f))
          <5>2. rest \in Seq(HostBlock) /\ Len(rest) = 1 /\ rest[1] = f[HostBlocks + 1]
            BY <4>2, <3>1, HostAssumption
          <5> HIDE DEF rest
          <5>3. Trailer(c) \in HostBlock
            BY HostAssumption DEF Trailer, HostBlock
          <5>4. rest = <<Trailer(c)>>
            BY <5>1, <5>2, <5>3, SeqEqual
          <5> QED BY <5>4 DEF rest
        <4> QED BY <4>1, <4>2, <3>1, <3>4, HostAssumption
      <3> QED BY <3>1, <3>4, <3>5, HostAssumption
    <2>4. ASSUME HostGood(host) PROVE HostHonest
      <3> SUFFICES ASSUME NEW c \in HostConn, Conn(c).pc = "done", "sent" \in DOMAIN Conn(c), Conn(c).alone,
                          Conn(c).part.start >= 0
                   PROVE  LET p == Conn(c).part
                          IN  /\ Conn(c).sent = SubSeq(f, p.start + 1, p.start + p.length)
                              /\ Len(Conn(c).sent) = p.length
        BY DEF HostHonest
      <3> DEFINE k == Conn(c)
                 p == k.part
                 sub == SubSeq(f, p.start + 1, p.start + p.length)
      <3>1. ConnKind(k, c) /\ Undisturbed(f, k, c) /\ f \in Seq(HostBlock) /\ Len(f) \in Nat
        BY <2>2, <2>4
      <3>2. "sent" \in DOMAIN k /\ k.alone /\ k.pc = "done" /\ p.start >= 0
        OBVIOUS
      <3> HIDE DEF k, f
      <3>3. Download(k)
        BY <3>1, <3>2 DEF ConnKind, Free, Upload, Stored
      <3>4. /\ p.start \in Int /\ p.length \in Int /\ p.length >= 0 /\ p.start + p.length <= Len(f)
            /\ Len(k.sent) = p.length /\ k.sent \in Seq(HostBlock)
            /\ \A i \in 1 .. Len(k.sent) : k.sent[i] = f[p.start + i]
        BY <3>1, <3>2, <3>3 DEF Undisturbed, Announced, Download
      <3> HIDE DEF p
      <3>5. sub \in Seq(HostBlock) /\ Len(sub) = p.length
            /\ \A i \in 1 .. p.length : sub[i] = f[p.start + i]
        BY SMTT(40), <3>1, <3>2, <3>4
      <3> HIDE DEF sub
      <3>6. k.sent = sub
        BY <3>4, <3>5, SeqEqual
      <3> QED BY <3>4, <3>6 DEF k, p, sub
    <2> QED BY <2>1, <2>3, <2>4 DEF HostInv, HostServes
  <1> QED BY <1>1, HostInvInit, HostInvNext, PTL DEF Spec
=============================================================================
