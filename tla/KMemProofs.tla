----------------------------- MODULE KMemProofs -----------------------------
(***************************************************************************)
(* Theorems about freestanding/kmem.c for heaps of one region, as kernel.c *)
(* has, of any size and word width, and any number of cores.               *)
(***************************************************************************)
EXTENDS KMem, FiniteSetTheorems, WellFoundedInduction, TLAPS

-----------------------------------------------------------------------------
(* A chain of blocks that tiles the words from lo to hi.                   *)

Node == [size : Nat, free : BOOLEAN, next : Int, prev : Int]
Stop(hp, b) == b + H + hp[b].size

Tiled(hp, lo, hi) ==
  /\ lo \in DOMAIN hp
  /\ hp \in [DOMAIN hp -> Node]
  /\ \A b \in DOMAIN hp :
       /\ b \in Nat /\ lo <= b /\ Stop(hp, b) <= hi
       /\ IF Stop(hp, b) = hi THEN hp[b].next = Null
          ELSE hp[b].next = Stop(hp, b) /\ Stop(hp, b) \in DOMAIN hp
       /\ IF b = lo THEN hp[b].prev = Null
          ELSE hp[b].prev \in DOMAIN hp /\ Stop(hp, hp[b].prev) = b
  /\ \A b, c \in DOMAIN hp : b < c => Stop(hp, b) <= c

\* Two free blocks in a row are allowed only where the second of them is x.
Merged(hp, x) ==
  \A b \in DOMAIN hp :
    hp[b].free /\ Stop(hp, b) \in DOMAIN hp /\ Stop(hp, b) # x
      => ~hp[Stop(hp, b)].free

\* Blocks do not overlap, so the one that ends where b starts is before b.
LEMMA BackLink ==
  ASSUME NEW lo \in Nat \ {0}, NEW hi \in Nat, NEW hp, Tiled(hp, lo, hi),
         NEW b \in DOMAIN hp, NEW c \in DOMAIN hp, Stop(hp, b) = c
  PROVE  hp[c].prev = b /\ hp[b].next = c /\ b < c
  <1>1. /\ b \in Nat /\ c \in Nat /\ hp[b].size \in Nat /\ lo <= b
        /\ \A x, y \in DOMAIN hp : x < y => Stop(hp, x) <= y
        /\ \A x \in DOMAIN hp : x \in Nat /\ hp[x].size \in Nat
    BY DEF Tiled, Node
  <1>2. b < c
    BY <1>1 DEF Stop, H
  <1>3. hp[c].prev \in DOMAIN hp /\ Stop(hp, hp[c].prev) = c
    BY <1>1, <1>2 DEF Tiled
  <1>4. hp[c].prev = b
    <2> DEFINE q == hp[c].prev
    <2>1. q \in DOMAIN hp /\ Stop(hp, q) = c /\ q \in Nat /\ hp[q].size \in Nat
      BY <1>1, <1>3
    <2> HIDE DEF q
    <2>2. q < c
      BY <2>1, <1>1 DEF Stop, H
    <2>3. ~(q < b)
      BY <2>1, <1>1, <1>2
    <2>4. ~(b < q)
      BY <2>1, <2>2, <1>1
    <2> QED BY <2>1, <2>3, <2>4, <1>1 DEF q
  <1>5. hp[b].next = c
    <2>1. c < hi
      <3>1. Stop(hp, c) <= hi /\ hp[c].size \in Nat
        BY <1>1 DEF Tiled
      <3> QED BY <3>1, <1>1 DEF Stop, H
    <2> QED BY <2>1, <1>1 DEF Tiled
  <1> QED BY <1>2, <1>4, <1>5

\* A block is cut in two: f is hp with b shortened to need words and a new
\* free block behind it, as kmalloc leaves them.
LEMMA SplitTiled ==
  ASSUME NEW lo \in Nat \ {0}, NEW hi \in Nat, NEW hp, Tiled(hp, lo, hi),
         NEW b \in DOMAIN hp, NEW need \in Nat, hp[b].size >= need + H,
         NEW f, NEW rest, rest = b + H + need,
         f \in [DOMAIN hp \cup {rest} -> Node],
         /\ f[rest].size = hp[b].size - need - H /\ f[rest].next = hp[b].next
         /\ f[rest].prev = b,
         f[b].size = need /\ f[b].next = rest /\ f[b].prev = hp[b].prev,
         \A a \in DOMAIN hp \ {b} :
            /\ f[a].size = hp[a].size /\ f[a].next = hp[a].next
            /\ f[a].prev = IF a = hp[b].next THEN rest ELSE hp[a].prev
  PROVE  /\ rest \notin DOMAIN hp
         /\ Tiled(f, lo, hi)
  <1> DEFINE D == DOMAIN hp
  <1>1. /\ \A x \in D : /\ x \in Nat /\ lo <= x
                        /\ hp[x].size \in Nat /\ hp[x].next \in Int /\ hp[x].prev \in Int
        /\ \A x \in D : Stop(hp, x) \in Nat /\ Stop(hp, x) <= hi /\ x < Stop(hp, x)
        /\ \A x, y \in D : x < y => Stop(hp, x) <= y
        /\ \A x \in D : Stop(hp, x) = x + H + hp[x].size
    BY DEF Tiled, Node, Stop, H
  <1>2. rest \in Nat /\ b < rest /\ rest < Stop(hp, b)
    BY <1>1 DEF H
  <1>3. rest \notin D
    <2> SUFFICES ASSUME rest \in D PROVE FALSE
      OBVIOUS
    <2> QED BY <1>1, <1>2
  <1>4. DOMAIN f = D \cup {rest}
    OBVIOUS
  <1>5. /\ Stop(f, rest) = Stop(hp, b) /\ Stop(f, b) = rest
        /\ \A a \in D \ {b} : Stop(f, a) = Stop(hp, a)
    BY <1>1, <1>2, <1>3 DEF Stop, H
  <1>6. \A x, y \in DOMAIN f : x < y => Stop(f, x) <= y
    <2> SUFFICES ASSUME NEW x \in DOMAIN f, NEW y \in DOMAIN f, x < y
                 PROVE  Stop(f, x) <= y
      OBVIOUS
    <2>1. CASE x = rest
      <3>1. y \in D /\ b < y
        BY <2>1, <1>1, <1>2, <1>4
      <3> QED BY <3>1, <2>1, <1>1, <1>5
    <2>2. CASE x = b
      <3>1. CASE y = rest
        BY <3>1, <2>2, <1>5, <1>2
      <3>2. CASE y # rest
        BY <3>2, <2>2, <1>1, <1>2, <1>4, <1>5
      <3> QED BY <3>1, <3>2
    <2>3. CASE x \in D \ {b}
      <3>1. CASE y = rest
        <4>1. x < b
          BY <3>1, <2>3, <1>1, <1>2
        <4> QED BY <4>1, <3>1, <2>3, <1>1, <1>2, <1>5
      <3>2. CASE y \in D
        BY <3>2, <2>3, <1>1, <1>5
      <3> QED BY <3>1, <3>2, <1>4
    <2> QED BY <2>1, <2>2, <2>3, <1>4
  <1>7. \A x \in DOMAIN f : x \in Nat /\ lo <= x /\ Stop(f, x) <= hi
    BY <1>1, <1>2, <1>4, <1>5
  <1>8. \A x \in DOMAIN f :
          IF Stop(f, x) = hi THEN f[x].next = Null
          ELSE f[x].next = Stop(f, x) /\ Stop(f, x) \in DOMAIN f
    <2> SUFFICES ASSUME NEW x \in DOMAIN f
                 PROVE  IF Stop(f, x) = hi THEN f[x].next = Null
                        ELSE f[x].next = Stop(f, x) /\ Stop(f, x) \in DOMAIN f
      OBVIOUS
    <2>0. \A y \in D : IF Stop(hp, y) = hi THEN hp[y].next = Null
                       ELSE hp[y].next = Stop(hp, y) /\ Stop(hp, y) \in D
      BY DEF Tiled
    <2>1. CASE x = b
      BY <2>1, <1>1, <1>2, <1>4, <1>5
    <2>2. CASE x = rest
      BY <2>0, <2>2, <1>4, <1>5
    <2>3. CASE x \in D \ {b}
      BY <2>0, <2>3, <1>4, <1>5
    <2> QED BY <2>1, <2>2, <2>3, <1>4
  <1>9. \A x \in DOMAIN f :
          IF x = lo THEN f[x].prev = Null
          ELSE f[x].prev \in DOMAIN f /\ Stop(f, f[x].prev) = x
    <2> SUFFICES ASSUME NEW x \in DOMAIN f
                 PROVE  IF x = lo THEN f[x].prev = Null
                        ELSE f[x].prev \in DOMAIN f /\ Stop(f, f[x].prev) = x
      OBVIOUS
    <2>0. \A y \in D : IF y = lo THEN hp[y].prev = Null
                       ELSE hp[y].prev \in D /\ Stop(hp, hp[y].prev) = y
      BY DEF Tiled
    <2>1. CASE x = rest
      BY <2>1, <1>1, <1>2, <1>4, <1>5
    <2>2. CASE x = b
      <3>1. x # lo => hp[x].prev # b
        BY <2>0, <2>2, <1>1
      <3> QED BY <2>0, <2>2, <3>1, <1>4, <1>5
    <2>3. CASE x \in D \ {b} /\ x = hp[b].next
      <3>1. Stop(hp, b) = x /\ x # lo
        BY <2>3, <1>1 DEF Tiled, Null
      <3> QED BY <2>3, <3>1, <1>4, <1>5
    <2>4. CASE x \in D \ {b} /\ x # hp[b].next
      <3>1. ASSUME x # lo, hp[x].prev = b PROVE FALSE
        <4>1. Stop(hp, b) = x /\ x \in DOMAIN hp
          BY <2>0, <2>4, <3>1
        <4>2. hp[b].next = x
          BY <4>1, BackLink
        <4> QED BY <4>2, <2>4
      <3> QED BY <2>0, <2>4, <3>1, <1>4, <1>5
    <2> QED BY <2>1, <2>2, <2>3, <2>4, <1>4
  <1>10. lo \in DOMAIN f
    BY <1>4 DEF Tiled
  <1> QED
    <2>1. f \in [DOMAIN f -> Node]
      BY <1>4
    <2> QED BY <2>1, <1>3, <1>6, <1>7, <1>8, <1>9, <1>10 DEF Tiled

\* Headers after some of their fields were assigned.
LEMMA PrevField ==
  ASSUME NEW n \in Node, NEW x \in Int
  PROVE  LET m == [n EXCEPT !.prev = x]
         IN  /\ m \in Node /\ m.size = n.size /\ m.next = n.next
             /\ m.prev = x /\ m.free = n.free
  BY DEF Node

LEMMA FreeField ==
  ASSUME NEW n \in Node, NEW b \in BOOLEAN
  PROVE  LET m == [n EXCEPT !.free = b]
         IN  /\ m \in Node /\ m.size = n.size /\ m.next = n.next
             /\ m.prev = n.prev /\ m.free = b
  BY DEF Node

\* A block is merged with the one behind it: f is hp without c, with b as long
\* as both were, as Absorb leaves them.
LEMMA AbsorbTiled ==
  ASSUME NEW lo \in Nat \ {0}, NEW hi \in Nat, NEW hp, Tiled(hp, lo, hi),
         NEW b \in DOMAIN hp, NEW c \in DOMAIN hp, hp[b].next = c,
         NEW f, f = Absorb(hp, b)
  PROVE  /\ Tiled(f, lo, hi)
         /\ DOMAIN f = DOMAIN hp \ {c}
         /\ b \in DOMAIN f /\ b # c
         /\ c = Stop(hp, b) /\ Stop(f, b) = Stop(hp, c) /\ f[b].free = hp[b].free
         /\ f[b].prev = hp[b].prev
         /\ \A a \in DOMAIN f \ {b} : f[a].size = hp[a].size /\ f[a].free = hp[a].free
  <1> DEFINE D == DOMAIN hp
             after == hp[c].next
  <1>1. /\ \A x \in D : x \in Nat /\ lo <= x /\ hp[x].size \in Nat
        /\ \A x \in D : Stop(hp, x) \in Nat /\ Stop(hp, x) <= hi /\ x < Stop(hp, x)
        /\ \A x, y \in D : x < y => Stop(hp, x) <= y
        /\ \A x \in D : Stop(hp, x) = x + H + hp[x].size
        /\ \A x \in D : hp[x] \in Node
    BY DEF Tiled, Node, Stop, H
  <1>2. c = Stop(hp, b) /\ c \in D /\ b < c
    BY <1>1 DEF Tiled, Null
  <1>3. hp[c].prev = b
    BY <1>2, BackLink
  <1>4. after # b
    BY <1>1, <1>2 DEF Tiled, Null
  <1>5. /\ f = [a \in D \ {c} |->
                 CASE a = b -> [hp[b] EXCEPT !.size = @ + H + hp[c].size, !.next = after]
                   [] a = after /\ a # b -> [hp[a] EXCEPT !.prev = b]
                   [] OTHER -> hp[a]]
        /\ DOMAIN f = D \ {c}
    BY DEF Absorb
  <1>6. /\ f[b] = [hp[b] EXCEPT !.size = @ + H + hp[c].size, !.next = after]
        /\ \A a \in D \ {b, c} : f[a] = IF a = after THEN [hp[a] EXCEPT !.prev = b] ELSE hp[a]
    BY <1>5, <1>2, <1>1
  <1> HIDE DEF after
  <1>7. /\ f[b].size = hp[b].size + H + hp[c].size /\ f[b].next = after
        /\ f[b].prev = hp[b].prev /\ f[b].free = hp[b].free /\ f[b] \in Node
    <2> DEFINE k == hp[b].size + H + hp[c].size
    <2>1. hp[b] \in Node /\ k \in Nat /\ after \in Int
      BY <1>1, <1>2 DEF H, after, Node
    <2>2. f[b] = [hp[b] EXCEPT !.size = k, !.next = after]
      BY <1>6
    <2> HIDE DEF k
    <2>3. /\ f[b].size = k /\ f[b].next = after /\ f[b].prev = hp[b].prev
          /\ f[b].free = hp[b].free /\ f[b] \in Node
      BY <2>1, <2>2 DEF Node
    <2> QED BY <2>3, Zenon DEF k
  <1>8. \A a \in D \ {b, c} :
          /\ f[a].size = hp[a].size /\ f[a].next = hp[a].next /\ f[a].free = hp[a].free
          /\ f[a].prev = IF a = after THEN b ELSE hp[a].prev
          /\ f[a] \in Node
    <2> SUFFICES ASSUME NEW a \in D \ {b, c}
                 PROVE  /\ f[a].size = hp[a].size /\ f[a].next = hp[a].next
                        /\ f[a].free = hp[a].free
                        /\ f[a].prev = IF a = after THEN b ELSE hp[a].prev
                        /\ f[a] \in Node
      OBVIOUS
    <2>1. hp[a] \in Node /\ b \in Int
      BY <1>1
    <2>2. f[a] = IF a = after THEN [hp[a] EXCEPT !.prev = b] ELSE hp[a]
      BY <1>6
    <2>3. LET m == [hp[a] EXCEPT !.prev = b]
          IN  /\ m \in Node /\ m.size = hp[a].size /\ m.next = hp[a].next
              /\ m.prev = b /\ m.free = hp[a].free
      BY <2>1, PrevField, Zenon
    <2>4. CASE a = after
      BY <2>2, <2>3, <2>4, Zenon
    <2>5. CASE a # after
      BY <2>1, <2>2, <2>5, Zenon
    <2> QED BY <2>4, <2>5
  <1>9. /\ Stop(f, b) = Stop(hp, c)
        /\ \A a \in D \ {b, c} : Stop(f, a) = Stop(hp, a)
    BY <1>1, <1>2, <1>7, <1>8 DEF Stop, H
  <1>10. b \in DOMAIN f /\ b # c
    BY <1>5, <1>2, <1>1
  <1>11. \A x, y \in DOMAIN f : x < y => Stop(f, x) <= y
    <2> SUFFICES ASSUME NEW x \in DOMAIN f, NEW y \in DOMAIN f, x < y
                 PROVE  Stop(f, x) <= y
      OBVIOUS
    <2>1. CASE x = b
      <3>1. y \in D /\ y # c /\ c <= y
        BY <2>1, <1>1, <1>2, <1>5
      <3> QED BY <3>1, <2>1, <1>1, <1>2, <1>9
    <2>2. CASE x # b
      BY <2>2, <1>1, <1>5, <1>9
    <2> QED BY <2>1, <2>2
  <1>12. \A x \in DOMAIN f : x \in Nat /\ lo <= x /\ Stop(f, x) <= hi
    BY <1>1, <1>2, <1>5, <1>9
  <1>13. ASSUME NEW x \in DOMAIN f
         PROVE  IF Stop(f, x) = hi THEN f[x].next = Null
                ELSE f[x].next = Stop(f, x) /\ Stop(f, x) \in DOMAIN f
    <2>0. \A y \in D : IF Stop(hp, y) = hi THEN hp[y].next = Null
                       ELSE hp[y].next = Stop(hp, y) /\ Stop(hp, y) \in D
      BY DEF Tiled
    <2>1. CASE x = b
      <3>1. Stop(hp, c) # c
        BY <1>1, <1>2
      <3> QED BY <2>0, <2>1, <3>1, <1>2, <1>5, <1>7, <1>9 DEF after
    <2>2. CASE x # b
      <3>1. Stop(hp, x) # c
        <4> SUFFICES ASSUME Stop(hp, x) = c PROVE FALSE
          OBVIOUS
        <4>1. x \in DOMAIN hp
          BY <1>5
        <4>2. hp[c].prev = x
          BY <4>1, <1>2, BackLink
        <4> QED BY <4>2, <1>3, <2>2
      <3> QED BY <2>0, <2>2, <3>1, <1>5, <1>8, <1>9
    <2> QED BY <2>1, <2>2
  <1>14. ASSUME NEW x \in DOMAIN f
         PROVE  IF x = lo THEN f[x].prev = Null
                ELSE f[x].prev \in DOMAIN f /\ Stop(f, f[x].prev) = x
    <2>0. \A y \in D : IF y = lo THEN hp[y].prev = Null
                       ELSE hp[y].prev \in D /\ Stop(hp, hp[y].prev) = y
      BY DEF Tiled
    <2>1. CASE x = b
      <3>1. x # lo => hp[x].prev # b /\ hp[x].prev # c
        BY <2>0, <2>1, <1>1, <1>2
      <3> QED BY <2>0, <2>1, <3>1, <1>5, <1>7, <1>9
    <2>2. CASE x # b /\ x = after
      <3>1. Stop(hp, c) = x /\ x # lo
        BY <2>2, <1>1, <1>2, <1>5 DEF Tiled, Null, after
      <3> QED BY <2>2, <3>1, <1>5, <1>8, <1>9, <1>10
    <2>3. CASE x # b /\ x # after
      <3>0. x \in D /\ x # c
        BY <1>5
      <3>1. ASSUME x # lo, hp[x].prev = c PROVE FALSE
        <4>1. Stop(hp, c) = x
          BY <2>0, <3>0, <3>1
        <4>2. hp[c].next = x
          BY <4>1, <3>0, <1>2, BackLink
        <4> QED BY <4>2, <2>3 DEF after
      <3>2. ASSUME x # lo, hp[x].prev = b PROVE FALSE
        BY <2>0, <3>0, <3>2, <1>2
      <3>3. f[x].prev = hp[x].prev
        BY <2>3, <3>0, <1>8
      <3>4. CASE x = lo
        BY <2>0, <3>0, <3>3, <3>4
      <3>5. CASE x # lo
        <4>1. hp[x].prev \in D \ {b, c} /\ Stop(hp, hp[x].prev) = x
          BY <2>0, <3>0, <3>1, <3>2, <3>5
        <4> QED BY <4>1, <3>3, <3>5, <1>5, <1>9
      <3> QED BY <3>4, <3>5
    <2> QED BY <2>1, <2>2, <2>3
  <1>15. lo \in DOMAIN f
    BY <1>1, <1>2, <1>5 DEF Tiled
  <1>16. f \in [DOMAIN f -> Node]
    BY <1>5, <1>7, <1>8 DEF Absorb
  <1>17. Tiled(f, lo, hi)
    BY <1>11, <1>12, <1>13, <1>14, <1>15, <1>16 DEF Tiled
  <1> QED BY <1>2, <1>5, <1>7, <1>8, <1>9, <1>10, <1>17

\* Marking a block leaves the chain as it is.
LEMMA MarkTiled ==
  ASSUME NEW lo \in Nat \ {0}, NEW hi \in Nat, NEW hp, Tiled(hp, lo, hi),
         NEW b \in DOMAIN hp, NEW v \in BOOLEAN
  PROVE  LET f == [hp EXCEPT ![b].free = v]
         IN  /\ Tiled(f, lo, hi) /\ DOMAIN f = DOMAIN hp
             /\ f[b].free = v
             /\ \A a \in DOMAIN hp : f[a].size = hp[a].size /\ Stop(f, a) = Stop(hp, a)
             /\ \A a \in DOMAIN hp : f[a].next = hp[a].next /\ f[a].prev = hp[a].prev
             /\ \A a \in DOMAIN hp \ {b} : f[a].free = hp[a].free
  <1> DEFINE f == [hp EXCEPT ![b].free = v]
  <1>1. hp \in [DOMAIN hp -> Node]
    BY DEF Tiled
  <1>2. /\ DOMAIN f = DOMAIN hp /\ f[b] = [hp[b] EXCEPT !.free = v]
        /\ \A a \in DOMAIN hp \ {b} : f[a] = hp[a]
    BY <1>1
  <1>3. /\ f[b] \in Node /\ f[b].size = hp[b].size /\ f[b].next = hp[b].next
        /\ f[b].prev = hp[b].prev /\ f[b].free = v
    BY <1>1, <1>2 DEF Node
  <1>4. f \in [DOMAIN hp -> Node]
    BY <1>1, <1>2, <1>3
  <1> HIDE DEF f
  <1>5. \A a \in DOMAIN hp : /\ f[a].size = hp[a].size /\ f[a].next = hp[a].next
                            /\ f[a].prev = hp[a].prev
    BY <1>2, <1>3
  <1>6. \A a \in DOMAIN hp : Stop(f, a) = Stop(hp, a)
    BY <1>5 DEF Stop
  <1>7. Tiled(f, lo, hi)
    BY <1>2, <1>4, <1>5, <1>6 DEF Tiled
  <1> QED BY <1>2, <1>3, <1>5, <1>6, <1>7 DEF f

\* kfree gives back the block it is asked to, merges it with its free
\* neighbours, and touches no block that is in use.
LEMMA ReleaseSound ==
  ASSUME NEW lo \in Nat \ {0}, NEW hi \in Nat, Tiled(blk, lo, hi), Merged(blk, Null),
         NEW b \in DOMAIN blk, ~blk[b].free
  PROVE  LET f == Released(b)
         IN  /\ Tiled(f, lo, hi) /\ Merged(f, Null)
             /\ \A a \in DOMAIN blk \ {b} : ~blk[a].free =>
                   a \in DOMAIN f /\ ~f[a].free /\ f[a].size = blk[a].size
             /\ \A a \in DOMAIN f : ~f[a].free =>
                   a \in DOMAIN blk \ {b} /\ ~blk[a].free
  <1> DEFINE m == [blk EXCEPT ![b].free = TRUE]
             n == blk[b].next
             g == IF IsFree(m, n) THEN Absorb(m, b) ELSE m
             p == blk[b].prev
             f == IF IsFree(g, p) THEN Absorb(g, p) ELSE g
  <1>0. Released(b) = f
    BY DEF Released
  <1>1. /\ Tiled(m, lo, hi) /\ DOMAIN m = DOMAIN blk /\ m[b].free
        /\ \A a \in DOMAIN blk : m[a].size = blk[a].size /\ Stop(m, a) = Stop(blk, a)
        /\ \A a \in DOMAIN blk : m[a].next = blk[a].next /\ m[a].prev = blk[a].prev
        /\ \A a \in DOMAIN blk \ {b} : m[a].free = blk[a].free
    BY MarkTiled
  <1>2. /\ \A a \in DOMAIN blk : a \in Nat /\ a < Stop(blk, a) /\ Stop(blk, a) \in Nat
        /\ \A a \in DOMAIN blk : Stop(blk, a) \in DOMAIN blk => blk[a].next = Stop(blk, a)
        /\ \A a \in DOMAIN blk : blk[a].next \in DOMAIN blk => blk[a].next = Stop(blk, a)
        /\ Null \notin DOMAIN blk
    <2>1. \A a \in DOMAIN blk : a \in Nat /\ lo <= a /\ blk[a].size \in Nat
      BY DEF Tiled, Node
    <2>2. Null \notin DOMAIN blk
      BY <2>1 DEF Null
    <2>3. \A a \in DOMAIN blk : Stop(blk, a) \in DOMAIN blk => blk[a].next = Stop(blk, a)
      BY BackLink
    <2> QED BY <2>1, <2>2, <2>3 DEF Tiled, Stop, H
  <1> HIDE DEF m, n, g, p, f
  <1>3. /\ Tiled(g, lo, hi) /\ Merged(g, b)
        /\ DOMAIN g \subseteq DOMAIN blk /\ b \in DOMAIN g /\ g[b].free /\ g[b].prev = p
        /\ \A a \in DOMAIN blk \ {b} : ~blk[a].free =>
              a \in DOMAIN g /\ ~g[a].free /\ g[a].size = blk[a].size
        /\ \A a \in DOMAIN g \ {b} : g[a].free = blk[a].free
    <2>1. CASE IsFree(m, n)
      <3>1. /\ b \in DOMAIN m /\ n \in DOMAIN m /\ m[b].next = n
            /\ g = Absorb(m, b) /\ Tiled(m, lo, hi)
        BY <2>1, <1>1 DEF IsFree, n, g
      <3>2. /\ Tiled(g, lo, hi) /\ DOMAIN g = DOMAIN m \ {n}
            /\ b \in DOMAIN g /\ b # n
            /\ n = Stop(m, b) /\ Stop(g, b) = Stop(m, n) /\ g[b].free = m[b].free
            /\ g[b].prev = m[b].prev
            /\ \A a \in DOMAIN g \ {b} : g[a].size = m[a].size /\ g[a].free = m[a].free
        BY SMTT(40), <3>1, AbsorbTiled
      <3>3. blk[n].free /\ n \in DOMAIN blk /\ n = Stop(blk, b)
        BY <2>1, <3>1, <3>2, <1>1 DEF IsFree
      <3>4. \A a \in DOMAIN g \ {b} : Stop(g, a) = Stop(blk, a)
        BY <3>2, <1>1 DEF Stop
      <3>5. Merged(g, b)
        <4> SUFFICES ASSUME NEW a \in DOMAIN g, g[a].free, Stop(g, a) \in DOMAIN g,
                            Stop(g, a) # b
                     PROVE  ~g[Stop(g, a)].free
          BY DEF Merged
        <4>1. CASE a = b
          <5>1. Stop(g, a) = Stop(blk, n) /\ Stop(g, a) \in DOMAIN blk
            BY <4>1, <3>2, <3>3, <1>1
          <5>2. ~blk[Stop(blk, n)].free
            BY <5>1, <3>3, <1>2 DEF Merged
          <5> QED BY <5>1, <5>2, <3>2, <1>1
        <4>2. CASE a # b
          <5>1. Stop(g, a) = Stop(blk, a) /\ Stop(g, a) \in DOMAIN blk /\ blk[a].free
                /\ a \in DOMAIN blk
            BY <4>2, <3>2, <3>4, <1>1
          <5>2. ~blk[Stop(blk, a)].free
            BY <5>1, <1>2 DEF Merged
          <5> QED BY <5>1, <5>2, <3>2, <1>1
        <4> QED BY <4>1, <4>2
      <3> QED BY <3>2, <3>3, <3>5, <1>1 DEF p
    <2>2. CASE ~IsFree(m, n)
      <3>1. g = m
        BY <2>2 DEF g
      <3>2. Merged(m, b)
        <4> SUFFICES ASSUME NEW a \in DOMAIN m, m[a].free, Stop(m, a) \in DOMAIN m,
                            Stop(m, a) # b
                     PROVE  ~m[Stop(m, a)].free
          BY DEF Merged
        <4>1. CASE a = b
          <5>1. n = Stop(m, b)
            BY <4>1, <1>1, <1>2 DEF n
          <5> QED BY <4>1, <5>1, <2>2 DEF IsFree
        <4>2. CASE a # b
          <5>1. Stop(m, a) = Stop(blk, a) /\ Stop(blk, a) \in DOMAIN blk /\ blk[a].free
            BY <4>2, <1>1
          <5>2. ~blk[Stop(blk, a)].free
            BY <5>1, <1>1, <1>2 DEF Merged
          <5> QED BY <5>1, <5>2, <1>1
        <4> QED BY <4>1, <4>2
      <3> QED BY <3>1, <3>2, <1>1 DEF p
    <2> QED BY <2>1, <2>2
  <1>4. CASE IsFree(g, p)
    <2>1. p \in DOMAIN g /\ g[p].free /\ f = Absorb(g, p)
      BY <1>4 DEF IsFree, f
    <2>2. b # lo /\ Stop(g, p) = b
      BY <2>1, <1>2, <1>3 DEF Tiled
    <2>3. /\ p \in DOMAIN g /\ b \in DOMAIN g /\ g[p].next = b
          /\ f = Absorb(g, p) /\ Tiled(g, lo, hi)
      BY <2>1, <2>2, <1>3, BackLink
    <2>4. /\ Tiled(f, lo, hi) /\ DOMAIN f = DOMAIN g \ {b}
          /\ p \in DOMAIN f /\ p # b
          /\ Stop(f, p) = Stop(g, b) /\ f[p].free = g[p].free
          /\ \A a \in DOMAIN f \ {p} : f[a].size = g[a].size /\ f[a].free = g[a].free
      BY <2>3, AbsorbTiled
    <2>5. \A a \in DOMAIN f \ {p} : Stop(f, a) = Stop(g, a)
      BY <2>4 DEF Stop
    <2>6. \A a \in DOMAIN g : ~(Stop(g, a) = b /\ a # p)
      BY <1>3, BackLink
    <2>7. Merged(f, Null)
      <3> SUFFICES ASSUME NEW a \in DOMAIN f, f[a].free, Stop(f, a) \in DOMAIN f
                   PROVE  ~f[Stop(f, a)].free
        BY DEF Merged
      <3>1. CASE a = p
        <4>1. Stop(f, a) = Stop(g, b) /\ Stop(g, b) \in DOMAIN g /\ Stop(g, b) # b
          BY <3>1, <2>4
        <4>2. ~g[Stop(g, b)].free
          BY <4>1, <1>3 DEF Merged
        <4>3. Stop(f, a) # p
          BY <4>1, <4>2, <2>1
        <4> QED BY <4>1, <4>2, <4>3, <2>4
      <3>2. CASE a # p
        <4>1. Stop(f, a) = Stop(g, a) /\ Stop(g, a) # b /\ g[a].free /\ a \in DOMAIN g
              /\ Stop(g, a) \in DOMAIN g
          BY <3>2, <2>4, <2>5
        <4>2. ~g[Stop(g, a)].free
          BY <4>1, <1>3 DEF Merged
        <4> QED BY <4>1, <4>2, <2>1, <2>4
      <3> QED BY <3>1, <3>2
    <2>8. ASSUME NEW a \in DOMAIN blk \ {b}, ~blk[a].free
          PROVE  a \in DOMAIN f /\ ~f[a].free /\ f[a].size = blk[a].size
      <3>1. a \in DOMAIN g /\ ~g[a].free /\ g[a].size = blk[a].size
        BY <2>8, <1>3
      <3>2. a # p
        BY <3>1, <2>1
      <3> QED BY <3>1, <3>2, <2>4
    <2>9. ASSUME NEW a \in DOMAIN f, ~f[a].free
          PROVE  a \in DOMAIN blk \ {b} /\ ~blk[a].free
      BY ZenonT(60), <2>1, <2>4, <2>9, <1>3
    <2> QED BY <2>4, <2>7, <2>8, <2>9, <1>0
  <1>5. CASE ~IsFree(g, p)
    <2>1. f = g
      BY <1>5 DEF f
    <2>2. Merged(g, Null)
      <3> SUFFICES ASSUME NEW a \in DOMAIN g, g[a].free, Stop(g, a) \in DOMAIN g
                   PROVE  ~g[Stop(g, a)].free
        BY DEF Merged
      <3>1. Stop(g, a) # b
        <4> SUFFICES ASSUME Stop(g, a) = b PROVE FALSE
          OBVIOUS
        <4>1. g[b].prev = a
          BY <1>3, BackLink
        <4> QED BY <4>1, <1>3, <1>5 DEF IsFree
      <3> QED BY <3>1, <1>3 DEF Merged
    <2> QED BY <2>1, <2>2, <1>0, <1>3
  <1> QED BY <1>4, <1>5

\* ALIGN8 rounds up.
LEMMA Rounded ==
  ASSUME NEW a \in {1, 2}, NEW x \in Nat
  PROVE  AlignUp(x, a) \in Nat /\ AlignUp(x, a) >= x
  <1>1. CASE a = 1
    BY <1>1 DEF AlignUp
  <1>2. CASE a = 2
    BY <1>2 DEF AlignUp
  <1> QED BY <1>1, <1>2

\* kmalloc takes the free block it has found, splits off what is left over if
\* that can be a block, and touches no block that is in use.
LEMMA CarveSound ==
  ASSUME NEW lo \in Nat \ {0}, NEW hi \in Nat, Tiled(blk, lo, hi), Merged(blk, Null),
         NEW b \in DOMAIN blk, blk[b].free, NEW n,
         Required(n) \in Nat, blk[b].size >= Required(n), Align \in {1, 2},
         NEW f, f = Carved(b, n)
  PROVE  /\ Tiled(f, lo, hi) /\ Merged(f, Null)
         /\ b \in DOMAIN f /\ ~f[b].free /\ f[b].size >= Required(n)
         /\ \A a \in DOMAIN blk \ {b} :
               a \in DOMAIN f /\ f[a].free = blk[a].free /\ f[a].size = blk[a].size
         /\ \A a \in DOMAIN f \ DOMAIN blk : f[a].free
  <1> DEFINE need == Required(n)
             rest == b + H + need
             D == DOMAIN blk
  <1>0. \A a \in D : a \in Nat /\ lo <= a /\ blk[a] \in Node /\ blk[a].size \in Nat
                    /\ Stop(blk, a) \in Nat /\ a < Stop(blk, a)
    BY DEF Tiled, Node, Stop, H
  <1>00. need \in Nat
    OBVIOUS
  <1>1. CASE blk[b].size < need + H + MinSplit
    <2>1. f = [blk EXCEPT ![b].free = FALSE]
      BY <1>1 DEF Carved
    <2>2. /\ Tiled(f, lo, hi) /\ DOMAIN f = DOMAIN blk /\ ~f[b].free
          /\ \A a \in D : f[a].size = blk[a].size /\ Stop(f, a) = Stop(blk, a)
          /\ \A a \in D \ {b} : f[a].free = blk[a].free
      <3> DEFINE g == [blk EXCEPT ![b].free = FALSE]
      <3>1. /\ Tiled(g, lo, hi) /\ DOMAIN g = DOMAIN blk /\ g[b].free = FALSE
            /\ \A a \in D : g[a].size = blk[a].size /\ Stop(g, a) = Stop(blk, a)
            /\ \A a \in D \ {b} : g[a].free = blk[a].free
        BY MarkTiled
      <3> HIDE DEF g
      <3>2. f = g
        BY <2>1 DEF g
      <3> QED BY <3>1, <3>2
    <2>3. Merged(f, Null)
      <3> SUFFICES ASSUME NEW a \in DOMAIN f, f[a].free, Stop(f, a) \in DOMAIN f,
                          Stop(f, a) # Null
                   PROVE  ~f[Stop(f, a)].free
        BY DEF Merged
      <3>1. a # b /\ blk[a].free /\ Stop(f, a) = Stop(blk, a) /\ a \in D
        BY <2>2
      <3>2. ~blk[Stop(blk, a)].free
        BY <2>2, <3>1 DEF Merged
      <3> QED BY <2>2, <3>1, <3>2
    <2> QED BY <2>2, <2>3
  <1>2. CASE blk[b].size >= need + H + MinSplit
    <2> DEFINE old == blk[b]
    <2>1. f = [a \in D \cup {rest} |->
                 CASE a = rest -> [size |-> old.size - need - H, free |-> TRUE,
                                   next |-> old.next, prev |-> b]
                   [] a = b -> [old EXCEPT !.free = FALSE, !.next = rest, !.size = need]
                   [] a = old.next /\ a # rest -> [blk[a] EXCEPT !.prev = rest]
                   [] OTHER -> blk[a]]
      BY <1>0, <1>2 DEF Carved, MinSplit, H
    <2>2. old.size >= need + H /\ old.size - need - H \in Nat /\ old.next \in Int
          /\ rest \in Nat /\ b < rest /\ rest < Stop(blk, b)
      BY <1>0, <1>00, <1>2 DEF MinSplit, H, Node, Stop
    <2> HIDE DEF need
    <2>3. rest \notin D
      <3> SUFFICES ASSUME rest \in D PROVE FALSE
        OBVIOUS
      <3>1. Stop(blk, b) <= rest
        BY <2>2 DEF Tiled
      <3> QED BY <3>1, <2>2, <1>0
    <2> HIDE DEF rest
    <2>4. /\ f[rest] = [size |-> old.size - need - H, free |-> TRUE,
                        next |-> old.next, prev |-> b]
          /\ f[b] = [old EXCEPT !.free = FALSE, !.next = rest, !.size = need]
          /\ \A a \in D \ {b} : f[a] = IF a = old.next THEN [blk[a] EXCEPT !.prev = rest]
                                      ELSE blk[a]
          /\ DOMAIN f = D \cup {rest}
      <3>1. b # rest /\ b \in D /\ b # old.next
        BY <2>3, <1>0 DEF Tiled, Null
      <3>2. f[rest] = [size |-> old.size - need - H, free |-> TRUE,
                       next |-> old.next, prev |-> b]
        BY <2>1, <3>1
      <3>3. f[b] = [old EXCEPT !.free = FALSE, !.next = rest, !.size = need]
        BY <2>1, <3>1
      <3>4. \A a \in D \ {b} : f[a] = IF a = old.next THEN [blk[a] EXCEPT !.prev = rest]
                                      ELSE blk[a]
        BY <2>1, <2>3
      <3>5. DOMAIN f = D \cup {rest}
        BY <2>1
      <3> QED BY <3>2, <3>3, <3>4, <3>5
    <2>5. /\ f[rest] \in Node /\ f[rest].free
          /\ f[rest].size = old.size - need - H /\ f[rest].next = old.next /\ f[rest].prev = b
      BY <2>2, <2>4, <1>0 DEF Node
    <2>6. /\ f[b] \in Node /\ ~f[b].free
          /\ f[b].size = need /\ f[b].next = rest /\ f[b].prev = old.prev
      <3>1. /\ f[b] = [old EXCEPT !.free = FALSE, !.next = rest, !.size = need]
            /\ old \in Node /\ need \in Nat /\ rest \in Int
        BY <2>2, <2>4, <1>0, <1>00
      <3> HIDE DEF old
      <3>2. f[b] \in Node /\ f[b].free = FALSE
        BY <3>1 DEF Node
      <3>3. f[b].size = need /\ f[b].next = rest /\ f[b].prev = old.prev
        BY <3>1 DEF Node
      <3> QED BY <3>2, <3>3
    <2>7. ASSUME NEW a \in D \ {b}
          PROVE  /\ f[a] \in Node /\ f[a].free = blk[a].free
                 /\ f[a].size = blk[a].size /\ f[a].next = blk[a].next
                 /\ f[a].prev = IF a = old.next THEN rest ELSE blk[a].prev
      <3>1. CASE a = old.next
        <4>1. f[a] = [blk[a] EXCEPT !.prev = rest] /\ blk[a] \in Node /\ rest \in Int
          BY <3>1, <2>2, <2>4, <1>0
        <4> QED BY <3>1, <4>1, PrevField
      <3>2. CASE a # old.next
        BY <3>2, <2>4, <1>0
      <3> QED BY <3>1, <3>2
    <2>8. f \in [D \cup {rest} -> Node]
      BY <2>1, <2>4, <2>5, <2>6, <2>7
    <2>9. Tiled(f, lo, hi)
      BY <2>2, <2>5, <2>6, <2>7, <2>8, <1>00, SplitTiled DEF rest
    <2>10. /\ Stop(f, rest) = Stop(blk, b)
           /\ \A a \in D \ {b} : Stop(f, a) = Stop(blk, a)
      <3>1. Stop(f, rest) = Stop(blk, b)
        BY <2>2, <2>5, <1>0, <1>00 DEF Stop, H, rest
      <3> QED BY <3>1, <2>7 DEF Stop
    <2>11. Merged(f, Null)
      <3> SUFFICES ASSUME NEW a \in DOMAIN f, f[a].free, Stop(f, a) \in DOMAIN f,
                          Stop(f, a) # Null
                   PROVE  ~f[Stop(f, a)].free
        BY DEF Merged
      <3>1. CASE a = rest
        <4>1. Stop(f, a) = Stop(blk, b) /\ Stop(f, a) \in D \ {b}
          BY <3>1, <2>2, <2>4, <2>10, <1>0
        <4>2. ~blk[Stop(blk, b)].free
          BY <4>1 DEF Merged
        <4> QED BY <4>1, <4>2, <2>7
      <3>2. CASE a \in D \ {b}
        <4>1. Stop(f, a) = Stop(blk, a) /\ blk[a].free
          BY <3>2, <2>7, <2>10
        <4>2. Stop(blk, a) # rest
          <5> SUFFICES ASSUME Stop(blk, a) = rest PROVE FALSE
            OBVIOUS
          <5>1. \A x, y \in D : x < y => Stop(blk, x) <= y
            BY DEF Tiled
          <5> QED BY <5>1, <3>2, <2>2, <1>0
        <4>3. ~blk[Stop(blk, a)].free
          BY <4>1, <4>2, <3>2, <2>4 DEF Merged
        <4>4. Stop(blk, a) # b
          BY <4>3
        <4> QED BY <4>1, <4>2, <4>3, <4>4, <2>4, <2>7
      <3> QED BY <3>1, <3>2, <2>4, <2>6
    <2> QED BY <2>4, <2>5, <2>6, <2>7, <2>9, <2>11, <1>00 DEF need
  <1> QED
    <2>1. blk[b].size \in Nat /\ need + H + MinSplit \in Nat
      BY <1>0, <1>00 DEF MinSplit, H
    <2> QED BY <2>1, <1>1, <1>2

-----------------------------------------------------------------------------
(* A chain that tiles a pool adds up to it.                                *)

\* The least of a set of numbers.
LEMMA LeastOf ==
  ASSUME NEW S, S \subseteq Nat, S # {}
  PROVE  \E k \in S : \A j \in S : k <= j
  <1>1. PICK k \in S : \A j \in S : ~(<<j, k>> \in OpToRel(<, Nat))
    BY NatLessThanWellFounded, WFMin
  <1>2. \A j \in Nat : j < k => <<j, k>> \in OpToRel(<, Nat)
    BY <1>1, Zenon DEF OpToRel
  <1>3. ASSUME NEW j \in S PROVE k <= j
    <2>1. j \in Nat /\ k \in Nat /\ ~(j < k)
      BY <1>1, <1>2
    <2> QED BY <2>1
  <1> QED BY <1>3

\* The words that the blocks of s occupy, their headers included.
Words(hp, s, lo, hi) ==
  {w \in lo .. hi - 1 : \E b \in s : b <= w /\ w < Stop(hp, b)}

\* Every word of the pool is in a block: the one behind a block is in the next.
LEMMA WordsCover ==
  ASSUME NEW lo \in Nat \ {0}, NEW hi \in Nat, NEW hp, Tiled(hp, lo, hi)
  PROVE  Words(hp, DOMAIN hp, lo, hi) = lo .. hi - 1
  <1> DEFINE Out == {w \in lo .. hi - 1 : ~\E b \in DOMAIN hp : b <= w /\ w < Stop(hp, b)}
  <1>1. \A b \in DOMAIN hp : /\ b \in Nat /\ Stop(hp, b) \in Nat /\ b < Stop(hp, b)
                             /\ Stop(hp, b) # hi => Stop(hp, b) \in DOMAIN hp
    BY DEF Tiled, Node, Stop, H
  <1>2. ASSUME Out # {} PROVE FALSE
    <2>1. Out \subseteq Nat
      OBVIOUS
    <2> HIDE DEF Out
    <2>2. PICK w \in Out : \A v \in Out : w <= v
      BY <1>2, <2>1, LeastOf
    <2>3. w \in lo .. hi - 1 /\ ~\E b \in DOMAIN hp : b <= w /\ w < Stop(hp, b)
      BY <2>2 DEF Out
    <2>4. ASSUME NEW b \in DOMAIN hp, b <= w PROVE Stop(hp, b) <= w
      BY <1>1, <2>3, <2>4
    <2>5. CASE w = lo
      <3>1. lo \in DOMAIN hp /\ lo <= w
        BY <2>5 DEF Tiled
      <3>2. Stop(hp, lo) <= lo /\ lo < Stop(hp, lo) /\ Stop(hp, lo) \in Nat
        BY <1>1, <2>4, <2>5, <3>1
      <3> QED BY <3>2
    <2>6. CASE w # lo
      <3>1. w - 1 \in lo .. hi - 1 /\ w - 1 \notin Out
        BY <2>2, <2>3, <2>6
      <3>2. PICK b \in DOMAIN hp : b <= w - 1 /\ w - 1 < Stop(hp, b)
        BY <3>1 DEF Out
      <3>4. Stop(hp, b) <= w
        <4>1. b <= w
          BY <1>1, <2>3, <3>2
        <4> QED BY <2>4, <4>1
      <3>5. Stop(hp, b) = w
        BY <1>1, <2>3, <3>2, <3>4
      <3>6. w \in DOMAIN hp
        BY <1>1, <2>3, <3>5
      <3>7. Stop(hp, w) <= w /\ w < Stop(hp, w) /\ Stop(hp, w) \in Nat /\ w \in Nat
        BY <1>1, <2>3, <2>4, <3>6
      <3> QED BY <3>7
    <2> QED BY <2>5, <2>6
  <1> QED BY <1>2 DEF Words

\* One block more is its words more, since no two overlap.
LEMMA WordsOfOneMore ==
  ASSUME NEW lo \in Nat \ {0}, NEW hi \in Nat, NEW hp, Tiled(hp, lo, hi),
         NEW s, s \subseteq DOMAIN hp, NEW x \in s
  PROVE  /\ Cardinality(Words(hp, s \ {x}, lo, hi)) \in Nat
         /\ Cardinality(Words(hp, s, lo, hi))
              = (H + hp[x].size) + Cardinality(Words(hp, s \ {x}, lo, hi))
  <1> DEFINE A == x .. Stop(hp, x) - 1
             B == Words(hp, s \ {x}, lo, hi)
  <1>1. /\ \A b \in s : b \in Nat /\ lo <= b /\ b < Stop(hp, b) /\ Stop(hp, b) <= hi
                        /\ Stop(hp, b) \in Nat /\ hp[b].size \in Nat
                        /\ Stop(hp, b) = b + H + hp[b].size
        /\ \A b, c \in s : b < c => Stop(hp, b) <= c
    BY DEF Tiled, Node, Stop, H
  <1>2. Words(hp, s, lo, hi) = A \cup B
    BY <1>1 DEF Words
  <1>3. A \cap B = {}
    <2> SUFFICES ASSUME NEW w \in A, w \in B PROVE FALSE
      OBVIOUS
    <2>1. PICK b \in s \ {x} : b <= w /\ w < Stop(hp, b)
      BY DEF Words
    <2> QED BY <1>1, <2>1
  <1>4. IsFiniteSet(A) /\ Cardinality(A) = H + hp[x].size
    <2>1. x \in Int /\ Stop(hp, x) - 1 \in Int /\ x <= Stop(hp, x) - 1
      BY <1>1
    <2>2. IsFiniteSet(A) /\ Cardinality(A) = Stop(hp, x) - 1 - x + 1
      BY <2>1, FS_Interval
    <2> QED BY <1>1, <2>2 DEF H
  <1>5. IsFiniteSet(B)
    <2>1. IsFiniteSet(lo .. hi - 1)
      BY FS_Interval
    <2>2. B \subseteq lo .. hi - 1
      BY DEF Words
    <2> QED BY <2>1, <2>2, FS_Subset
  <1> HIDE DEF A, B
  <1>6. Cardinality(B) \in Nat
    BY <1>5, FS_CardinalityType
  <1>7. Cardinality(A \cup B) = Cardinality(A) + Cardinality(B) - Cardinality(A \cap B)
    BY <1>4, <1>5, FS_Union
  <1>8. Cardinality(A \cap B) = 0
    BY <1>3, FS_EmptySet
  <1>9. Cardinality(A \cup B) = (H + hp[x].size) + Cardinality(B)
    <2>1. Cardinality(A) \in Nat
      BY <1>4, FS_CardinalityType
    <2> QED BY <1>4, <1>6, <1>7, <1>8, <2>1
  <1> QED BY <1>2, <1>6, <1>9 DEF B

\* The fold over the blocks counts the words of the pool, whichever block it
\* takes next.
LEMMA BlocksAddUp ==
  ASSUME NEW lo \in Nat \ {0}, NEW hi \in Nat, lo < hi, NEW hp, Tiled(hp, lo, hi)
  PROVE  MapThenSumSet(LAMBDA b : H + hp[b].size, DOMAIN hp) = hi - lo
  <1> DEFINE D == DOMAIN hp
             one(s) == CHOOSE x \in s : TRUE
             count(s) == Cardinality(Words(hp, s, lo, hi))
             body(it, s) == IF s = {} THEN 0 ELSE (H + hp[one(s)].size) + it[s \ {one(s)}]
             Sums(it) == it = [s \in SUBSET D |-> body(it, s)]
             iter == CHOOSE it : Sums(it)
  <1>1. MapThenSumSet(LAMBDA b : H + hp[b].size, D) = iter[D]
    BY Zenon DEF MapThenSumSet, MapThenFoldSet
  <1>2. count({}) = 0
    <2>1. Words(hp, {}, lo, hi) = {}
      BY DEF Words
    <2> QED BY <2>1, FS_EmptySet
  <1>3. \A s \in SUBSET D : s # {} => one(s) \in s
    OBVIOUS
  <1>4. \A s \in SUBSET D : s # {} => count(s) = (H + hp[one(s)].size) + count(s \ {one(s)})
    <2> SUFFICES ASSUME NEW s \in SUBSET D, s # {}
                 PROVE  count(s) = (H + hp[one(s)].size) + count(s \ {one(s)})
      OBVIOUS
    <2>1. one(s) \in s /\ s \subseteq DOMAIN hp
      BY <1>3
    <2> HIDE DEF one
    <2> QED BY <2>1, WordsOfOneMore
  <1> HIDE DEF one, count
  <1>5. \E it : Sums(it)
    <2> DEFINE it == [s \in SUBSET D |-> count(s)]
    <2>1. \A s \in SUBSET D : s \ {one(s)} \in SUBSET D
      OBVIOUS
    <2>2. \A s \in SUBSET D : body(it, s) = count(s)
      BY <1>2, <1>4, <2>1
    <2> HIDE DEF body
    <2>3. it = [s \in SUBSET D |-> body(it, s)]
      BY <2>2
    <2> QED BY <2>3
  <1>6. Sums(iter)
    BY <1>5, Zenon
  <1> HIDE DEF iter
  <1>7. \A s \in SUBSET D : iter[s] = body(iter, s)
    <2> HIDE DEF body
    <2> QED BY <1>6
  <1>8. IsFiniteSet(D)
    <2>1. IsFiniteSet(lo .. hi)
      BY FS_Interval
    <2>2. D \subseteq lo .. hi
      BY DEF Tiled, Node, Stop, H
    <2> QED BY <2>1, <2>2, FS_Subset
  <1> DEFINE Off == {k \in Nat : \E s \in SUBSET D : Cardinality(s) = k /\ iter[s] # count(s)}
  <1>9. Off = {}
    <2> SUFFICES ASSUME Off # {} PROVE FALSE
      OBVIOUS
    <2>1. Off \subseteq Nat
      OBVIOUS
    <2>2. PICK k \in Off : \A j \in Off : k <= j
      <3> HIDE DEF Off
      <3> QED BY <2>1, LeastOf
    <2>3. PICK s \in SUBSET D : Cardinality(s) = k /\ iter[s] # count(s)
      BY <2>2
    <2>4. s # {}
      BY <1>2, <1>7, <2>3
    <2> DEFINE r == s \ {one(s)}
    <2>5. IsFiniteSet(s) /\ one(s) \in s
      BY <1>3, <1>8, <2>4, FS_Subset
    <2>6. IsFiniteSet(r) /\ Cardinality(r) = Cardinality(s) - 1 /\ Cardinality(r) \in Nat
      BY <2>5, FS_RemoveElement, FS_CardinalityType
    <2>7. r \in SUBSET D
      OBVIOUS
    <2> HIDE DEF r
    <2>8. iter[r] = count(r)
      BY <2>1, <2>2, <2>3, <2>6, <2>7
    <2>9. iter[s] = (H + hp[one(s)].size) + iter[r]
      BY <1>7, <2>4 DEF r
    <2>10. count(s) = (H + hp[one(s)].size) + count(r)
      BY <1>4, <2>4 DEF r
    <2> QED BY <2>3, <2>8, <2>9, <2>10
  <1>10. iter[D] = count(D)
    <2>1. Cardinality(D) \in Nat
      BY <1>8, FS_CardinalityType
    <2> QED BY <1>9, <2>1
  <1>11. count(D) = hi - lo
    <2>1. count(D) = Cardinality(lo .. hi - 1)
      BY WordsCover DEF count
    <2>2. Cardinality(lo .. hi - 1) = hi - 1 - lo + 1
      BY FS_Interval
    <2> QED BY <2>1, <2>2
  <1> QED BY <1>1, <1>10, <1>11

-----------------------------------------------------------------------------
(* The invariant.  A block in use has exactly one owner: an allocation, an  *)
(* old block that krealloc is about to give back, or a new one on its way.  *)

\* The machines that kernel.c:1234 and main_test.c:41 are: kmem_init is given
\* one pool of whole 8-byte words, and krealloc no aligned allocation, whose
\* offset it does not know of.
OneHeap ==
  \A s \in Setups : /\ "region" \notin s.calls
                    /\ ~({"aligned", "realloc"} \subseteq s.calls)
                    /\ s.region[1].size % s.align = 0

Lo == Region[1].start
Hi == Region[1].start + Region[1].size

Alloc == [ptr : Nat, size : Nat, block : Nat]
Job == [size : Nat, align : Nat \ {0}, old : Alloc \cup {Null}, raw : Nat, block : Nat]

\* Core c is in krealloc and holds the old block; has a new block to hand out.
Holds(c) == pc[c] \in {"grow", "drop"}
Makes(c) == pc[c] \in {"align", "drop"}

TypeInv ==
  /\ setup \in Setups /\ head = Lo /\ added = 1 /\ total = Region[1].size
  /\ fault \in BOOLEAN
  /\ pc \in [Core -> {"idle", "align", "grow", "drop"}]
  /\ job \in [Core -> Job]
  /\ \A c \in Core : pc[c] = "align" => "aligned" \in setup.calls

ChainInv == Tiled(blk, Lo, Hi) /\ Merged(blk, Null)

Used(hp, b) == b \in DOMAIN hp /\ ~hp[b].free

\* An allocation lies in its block, behind the back pointer; krealloc may have
\* promised one word beyond (kmem.c:236).
Placed(hp, calls, a) ==
  /\ a \in Alloc /\ Used(hp, a.block) /\ a.ptr > a.block + H
  /\ "realloc" \in calls => a.ptr = a.block + H + 1
  /\ \/ a.ptr + a.size <= Stop(hp, a.block)
     \/ "realloc" \in calls /\ a.ptr + a.size <= Stop(hp, a.block) + 1

\* What core c has asked kmalloc for, with the back pointer.
Needs(c) == Required(IF pc[c] = "align" THEN Padded(job[c].size, job[c].align)
                     ELSE job[c].size)

PlaceInv ==
  /\ \A a \in live : Placed(blk, setup.calls, a)
  /\ \A c \in Core : Holds(c) => Placed(blk, setup.calls, job[c].old)
  /\ \A c \in Core : Makes(c) => /\ Used(blk, job[c].block)
                                 /\ job[c].raw = job[c].block + H + 1
                                 /\ blk[job[c].block].size >= Needs(c)

ApartInv ==
  /\ \A a, b \in live : a # b => a.block # b.block
  /\ \A a \in live, c \in Core : Holds(c) => job[c].old.block # a.block
  /\ \A a \in live, c \in Core : Makes(c) => job[c].block # a.block
  /\ \A c, d \in Core : c # d /\ Holds(c) /\ Holds(d) => job[c].old.block # job[d].old.block
  /\ \A c, d \in Core : c # d /\ Makes(c) /\ Makes(d) => job[c].block # job[d].block
  /\ \A c, d \in Core : Holds(c) /\ Makes(d) => job[c].old.block # job[d].block

OwnedInv ==
  \A b \in DOMAIN blk : Used(blk, b) =>
    \/ \E a \in live : a.block = b
    \/ \E c \in Core : Holds(c) /\ job[c].old.block = b
    \/ \E c \in Core : Makes(c) /\ job[c].block = b

HeapInv == TypeInv /\ ChainInv /\ PlaceInv /\ ApartInv /\ OwnedInv

LEMMA SetupFacts ==
  ASSUME OneHeap, setup \in Setups
  PROVE  /\ Align \in {1, 2} /\ Lo \in Nat \ {0} /\ Hi \in Nat
         /\ Region[1].size \in Nat /\ Region[1].size >= H + 4 * Align
         /\ Region[1].size % Align = 0 /\ 1 \in DOMAIN Region
         /\ setup.size \subseteq Nat \ {0} /\ setup.alignment \subseteq Nat \ {0}
         /\ "region" \notin setup.calls
         /\ ~("aligned" \in setup.calls /\ "realloc" \in setup.calls)
  <1>1. /\ setup.align \in {1, 2} /\ 1 \in DOMAIN setup.region
        /\ setup.size \subseteq Nat \ {0} /\ setup.alignment \subseteq Nat \ {0}
        /\ setup.region[1].start \in Nat \ {0} /\ setup.region[1].size \in Nat
        /\ setup.region[1].size >= H + 4 * setup.align
    BY ShapeAssumption
  <1>2. /\ "region" \notin setup.calls /\ ~({"aligned", "realloc"} \subseteq setup.calls)
        /\ setup.region[1].size % setup.align = 0
    BY DEF OneHeap
  <1> QED BY <1>1, <1>2 DEF Align, Region, Lo, Hi

LEMMA RequiredNat ==
  ASSUME Align \in {1, 2}, NEW n \in Nat
  PROVE  Required(n) \in Nat /\ Required(n) > n
  BY Rounded DEF Required

LEMMA PaddedNat ==
  ASSUME Align \in {1, 2}, NEW n \in Nat, NEW a \in Nat
  PROVE  Padded(n, a) \in Nat /\ Padded(n, a) >= n + a + 1 + H
  <1>1. AlignUp(n, Align) \in Nat /\ AlignUp(n, Align) >= n
    BY Rounded
  <1> QED BY <1>1 DEF Padded, H

\* kmem_init makes one free block of the pool.
LEMMA HeapInit ==
  ASSUME OneHeap, Init
  PROVE  HeapInv
  <1>1. setup \in Setups
    BY DEF Init
  <1>2. AlignUp(Region[1].size - H, Align) = Region[1].size - H
        /\ Region[1].size - H \in Nat
    <2>1. /\ Align \in {1, 2} /\ Region[1].size \in Nat /\ Region[1].size >= H + 4 * Align
          /\ Region[1].size % Align = 0
      BY <1>1, SetupFacts
    <2>2. CASE Align = 1
      BY <2>1, <2>2 DEF AlignUp, H
    <2>3. CASE Align = 2
      BY <2>1, <2>3 DEF AlignUp, H
    <2> QED BY <2>1, <2>2, <2>3
  <1>3. /\ blk = [b \in {Lo} |-> FreshBlock(1, Null, Null)]
        /\ FreshBlock(1, Null, Null) \in Node /\ FreshBlock(1, Null, Null).free
        /\ FreshBlock(1, Null, Null).size = Region[1].size - H
        /\ FreshBlock(1, Null, Null).next = Null /\ FreshBlock(1, Null, Null).prev = Null
    BY <1>2 DEF Init, FreshBlock, Node, Null, Lo
  <1>4. /\ DOMAIN blk = {Lo} /\ blk[Lo] \in Node /\ blk[Lo].free
        /\ blk[Lo].size = Region[1].size - H /\ blk[Lo].next = Null /\ blk[Lo].prev = Null
        /\ blk \in [DOMAIN blk -> Node]
    BY <1>3
  <1>5. Lo \in Nat \ {0} /\ Hi = Lo + Region[1].size /\ Region[1].size \in Nat
    BY <1>1, SetupFacts DEF Lo, Hi
  <1>6. Stop(blk, Lo) = Hi
    BY <1>2, <1>4, <1>5 DEF Stop, H
  <1>7. ChainInv
    <2>1. Tiled(blk, Lo, Hi)
      BY <1>4, <1>5, <1>6 DEF Tiled
    <2>2. Hi # Lo
      BY <1>1, <1>5, SetupFacts DEF H
    <2> QED BY <2>1, <2>2, <1>4, <1>6 DEF ChainInv, Merged
  <1>8. TypeInv
    <2>1. Idle \in Job
      BY DEF Idle, Job, Null
    <2> QED BY <2>1, <1>5 DEF Init, TypeInv, Lo, Region
  <1>9. PlaceInv /\ ApartInv
    BY DEF Init, PlaceInv, ApartInv, Holds, Makes
  <1>10. OwnedInv
    BY <1>4 DEF OwnedInv, Used
  <1> QED BY <1>7, <1>8, <1>9, <1>10 DEF HeapInv

\* What taking a block does to the others.
LEMMA TakeStep ==
  ASSUME OneHeap, TypeInv, ChainInv, setup' = setup,
         NEW n \in Nat, NEW b, FirstFit(b, n), blk' = Carved(b, n)
  PROVE  /\ ChainInv'
         /\ b \in Nat /\ ~Used(blk, b) /\ Used(blk', b) /\ blk'[b].size >= Required(n)
         /\ blk'[b].size \in Nat
         /\ \A x : Used(blk, x) => x # b /\ Used(blk', x) /\ blk'[x].size = blk[x].size
         /\ \A x : Used(blk', x) => Used(blk, x) \/ x = b
  <1>1. b \in DOMAIN blk /\ blk[b].free /\ blk[b].size >= Required(n)
    BY DEF FirstFit, Fits
  <1>2. Lo \in Nat \ {0} /\ Hi \in Nat /\ Align \in {1, 2} /\ Required(n) \in Nat
    BY SetupFacts, RequiredNat DEF TypeInv
  <1>3. Tiled(blk, Lo, Hi) /\ Merged(blk, Null)
    BY DEF ChainInv
  <1>4. /\ Tiled(blk', Lo, Hi) /\ Merged(blk', Null)
        /\ b \in DOMAIN blk' /\ ~blk'[b].free /\ blk'[b].size >= Required(n)
        /\ \A a \in DOMAIN blk \ {b} :
             a \in DOMAIN blk' /\ blk'[a].free = blk[a].free /\ blk'[a].size = blk[a].size
        /\ \A a \in DOMAIN blk' \ DOMAIN blk : blk'[a].free
    BY <1>1, <1>2, <1>3, CarveSound
  <1>5. ChainInv'
    BY <1>4 DEF ChainInv, Lo, Hi, Region
  <1>6. blk'[b].size \in Nat /\ b \in Nat
    BY <1>4 DEF Tiled, Node
  <1> QED BY <1>1, <1>4, <1>5, <1>6 DEF Used

\* What giving a block back does to the others.
LEMMA GiveStep ==
  ASSUME OneHeap, TypeInv, ChainInv, setup' = setup,
         NEW b, Used(blk, b), blk' = Released(b)
  PROVE  /\ ChainInv'
         /\ \A x : Used(blk, x) /\ x # b =>
              Used(blk', x) /\ blk'[x].size = blk[x].size
         /\ \A x : Used(blk', x) => Used(blk, x) /\ x # b
  <1>1. Lo \in Nat \ {0} /\ Hi \in Nat
    BY SetupFacts DEF TypeInv
  <1>2. Tiled(blk, Lo, Hi) /\ Merged(blk, Null) /\ b \in DOMAIN blk /\ ~blk[b].free
    BY DEF ChainInv, Used
  <1>3. /\ Tiled(blk', Lo, Hi) /\ Merged(blk', Null)
        /\ \A a \in DOMAIN blk \ {b} : ~blk[a].free =>
             a \in DOMAIN blk' /\ ~blk'[a].free /\ blk'[a].size = blk[a].size
        /\ \A a \in DOMAIN blk' : ~blk'[a].free => a \in DOMAIN blk \ {b} /\ ~blk[a].free
    BY <1>1, <1>2, ReleaseSound
  <1>4. ChainInv'
    BY <1>3 DEF ChainInv, Lo, Hi, Region
  <1> QED BY <1>3, <1>4 DEF Used

\* The core that takes a step, and the others, which do not.
LEMMA GotoFacts ==
  ASSUME TypeInv, NEW c \in Core, NEW here, NEW there \in {"idle", "align", "grow", "drop"},
         NEW j \in Job, Goto(c, here, there, j)
  PROVE  /\ pc[c] = here /\ pc'[c] = there /\ job'[c] = j
         /\ \A d \in Core \ {c} : pc'[d] = pc[d] /\ job'[d] = job[d]
         /\ pc' \in [Core -> {"idle", "align", "grow", "drop"}] /\ job' \in [Core -> Job]
  BY DEF TypeInv, Goto

\* The types follow from those of the core that takes the step.
LEMMA TypeKept ==
  ASSUME TypeInv, setup' = setup, NEW c \in Core,
         head' = head /\ added' = added /\ total' = total /\ fault' \in BOOLEAN,
         pc' \in [Core -> {"idle", "align", "grow", "drop"}], job' \in [Core -> Job],
         \A d \in Core \ {c} : pc'[d] = pc[d] /\ job'[d] = job[d],
         pc'[c] = "align" => "aligned" \in setup.calls
  PROVE  TypeInv'
  BY DEF TypeInv, Lo, Region

LEMMA TypeStep ==
  ASSUME OneHeap, TypeInv, ChainInv, PlaceInv, setup' = setup, NEW c \in Core, Step(c)
  PROVE  TypeInv'
  <1>0. /\ setup.size \subseteq Nat \ {0} /\ setup.alignment \subseteq Nat \ {0}
        /\ "region" \notin setup.calls /\ fault \in BOOLEAN /\ setup \in Setups
    BY SetupFacts DEF TypeInv
  <1>1. ASSUME NEW n \in setup.size, Kmalloc(c, n)
        PROVE  TypeInv'
    <2> DEFINE j == Idle
    <2>1. Goto(c, "idle", "idle", j)
      BY <1>1 DEF Kmalloc
    <2>2. j \in Job
      BY DEF Idle, Job, Null
    <2> HIDE DEF j
    <2>3. /\ pc'[c] = "idle"
          /\ \A d \in Core \ {c} : pc'[d] = pc[d] /\ job'[d] = job[d]
          /\ pc' \in [Core -> {"idle", "align", "grow", "drop"}] /\ job' \in [Core -> Job]
      BY <2>1, <2>2, GotoFacts
    <2>4. head' = head /\ added' = added /\ total' = total /\ fault' \in BOOLEAN
      BY <1>0, <1>1 DEF Kmalloc
    <2> QED BY <2>3, <2>4, TypeKept
  <1>2. ASSUME NEW n \in setup.size, KmallocFails(c, n)
        PROVE  TypeInv'
    <2> DEFINE j == Idle
    <2>1. Goto(c, "idle", "idle", j)
      BY <1>2 DEF KmallocFails
    <2>2. j \in Job
      BY DEF Idle, Job, Null
    <2> HIDE DEF j
    <2>3. /\ pc'[c] = "idle"
          /\ \A d \in Core \ {c} : pc'[d] = pc[d] /\ job'[d] = job[d]
          /\ pc' \in [Core -> {"idle", "align", "grow", "drop"}] /\ job' \in [Core -> Job]
      BY <2>1, <2>2, GotoFacts
    <2>4. head' = head /\ added' = added /\ total' = total /\ fault' \in BOOLEAN
      BY <1>0, <1>2 DEF KmallocFails, FaultIfWild
    <2> QED BY <2>3, <2>4, TypeKept
  <1>3. ASSUME NEW n \in setup.size, NEW a \in setup.alignment, AlignedMalloc(c, n, a)
        PROVE  TypeInv'
    <2> DEFINE J(b) == [Idle EXCEPT !.size = n, !.align = a, !.raw = b + H + 1, !.block = b]
    <2>0. PICK b \in DOMAIN blk : Goto(c, "idle", "align", J(b))
      BY <1>3 DEF AlignedMalloc
    <2>00. b \in Nat
      BY DEF ChainInv, Tiled
    <2> DEFINE j == J(b)
    <2>1. Goto(c, "idle", "align", j)
      BY <2>0
    <2>2. j \in Job
      <3>1. /\ Idle \in Job /\ n \in Nat /\ a \in Nat \ {0}
            /\ b \in Nat /\ b + H + 1 \in Nat
        BY <2>00, <1>0, <1>3 DEF Idle, Job, Null, H
      <3> QED BY <3>1 DEF Job
    <2> HIDE DEF j
    <2>3. /\ pc'[c] = "align"
          /\ \A d \in Core \ {c} : pc'[d] = pc[d] /\ job'[d] = job[d]
          /\ pc' \in [Core -> {"idle", "align", "grow", "drop"}] /\ job' \in [Core -> Job]
      BY <2>1, <2>2, GotoFacts
    <2>4. /\ head' = head /\ added' = added
          /\ total' = total /\ fault' \in BOOLEAN /\ "aligned" \in setup.calls
      BY <1>0, <1>3 DEF AlignedMalloc
    <2> QED BY <2>3, <2>4, TypeKept
  <1>4. ASSUME NEW n \in setup.size, NEW a \in setup.alignment, AlignedFails(c, n, a)
        PROVE  TypeInv'
    <2> DEFINE j == Idle
    <2>1. Goto(c, "idle", "idle", j)
      BY <1>4 DEF AlignedFails
    <2>2. j \in Job
      BY DEF Idle, Job, Null
    <2> HIDE DEF j
    <2>3. /\ pc'[c] = "idle"
          /\ \A d \in Core \ {c} : pc'[d] = pc[d] /\ job'[d] = job[d]
          /\ pc' \in [Core -> {"idle", "align", "grow", "drop"}] /\ job' \in [Core -> Job]
      BY <2>1, <2>2, GotoFacts
    <2>4. head' = head /\ added' = added /\ total' = total /\ fault' \in BOOLEAN
      BY <1>0, <1>4 DEF AlignedFails, FaultIfWild
    <2> QED BY <2>3, <2>4, TypeKept
  <1>5. CASE AlignedBack(c)
    <2> DEFINE j == Idle
    <2>1. Goto(c, "align", "idle", j)
      BY <1>5 DEF AlignedBack
    <2>2. j \in Job
      BY DEF Idle, Job, Null
    <2> HIDE DEF j
    <2>3. /\ pc'[c] = "idle"
          /\ \A d \in Core \ {c} : pc'[d] = pc[d] /\ job'[d] = job[d]
          /\ pc' \in [Core -> {"idle", "align", "grow", "drop"}] /\ job' \in [Core -> Job]
      BY <2>1, <2>2, GotoFacts
    <2>4. head' = head /\ added' = added /\ total' = total /\ fault' \in BOOLEAN
      BY <1>0, <1>5 DEF AlignedBack
    <2> QED BY <2>3, <2>4, TypeKept
  <1>6. ASSUME NEW a \in live, Kfree(c, a)
        PROVE  TypeInv'
    <2> DEFINE j == Idle
    <2>1. Goto(c, "idle", "idle", j)
      BY <1>6 DEF Kfree
    <2>2. j \in Job
      BY DEF Idle, Job, Null
    <2> HIDE DEF j
    <2>3. /\ pc'[c] = "idle"
          /\ \A d \in Core \ {c} : pc'[d] = pc[d] /\ job'[d] = job[d]
          /\ pc' \in [Core -> {"idle", "align", "grow", "drop"}] /\ job' \in [Core -> Job]
      BY <2>1, <2>2, GotoFacts
    <2>4. head' = head /\ added' = added /\ total' = total /\ fault' \in BOOLEAN
      BY <1>0, <1>6 DEF Kfree
    <2> QED BY <2>3, <2>4, TypeKept
  <1>7. ASSUME NEW a \in live, NEW n \in setup.size, ReallocKeep(c, a, n)
        PROVE  TypeInv'
    <2> DEFINE j == Idle
    <2>1. Goto(c, "idle", "idle", j)
      BY <1>7 DEF ReallocKeep
    <2>2. j \in Job
      BY DEF Idle, Job, Null
    <2> HIDE DEF j
    <2>3. /\ pc'[c] = "idle"
          /\ \A d \in Core \ {c} : pc'[d] = pc[d] /\ job'[d] = job[d]
          /\ pc' \in [Core -> {"idle", "align", "grow", "drop"}] /\ job' \in [Core -> Job]
      BY <2>1, <2>2, GotoFacts
    <2>4. head' = head /\ added' = added /\ total' = total /\ fault' \in BOOLEAN
      BY <1>0, <1>7 DEF ReallocKeep
    <2> QED BY <2>3, <2>4, TypeKept
  <1>8. ASSUME NEW a \in live, NEW n \in setup.size, ReallocBegin(c, a, n)
        PROVE  TypeInv'
    <2> DEFINE j == [Idle EXCEPT !.size = n, !.old = a]
    <2>1. Goto(c, "idle", "grow", j)
      BY <1>8 DEF ReallocBegin
    <2>2. j \in Job
      <3>1. Idle \in Job /\ n \in Nat /\ a \in Alloc
        BY <1>0, <1>8 DEF PlaceInv, Placed, Idle, Job, Null
      <3> HIDE DEF Alloc
      <3> QED BY <3>1 DEF Job
    <2> HIDE DEF j
    <2>3. /\ pc'[c] = "grow"
          /\ \A d \in Core \ {c} : pc'[d] = pc[d] /\ job'[d] = job[d]
          /\ pc' \in [Core -> {"idle", "align", "grow", "drop"}] /\ job' \in [Core -> Job]
      BY <2>1, <2>2, GotoFacts
    <2>4. head' = head /\ added' = added /\ total' = total /\ fault' \in BOOLEAN
      BY <1>0, <1>8 DEF ReallocBegin
    <2> QED BY <2>3, <2>4, TypeKept
  <1>9. CASE ReallocFails(c)
    <2> DEFINE j == Idle
    <2>1. Goto(c, "grow", "idle", j)
      BY <1>9 DEF ReallocFails
    <2>2. j \in Job
      BY DEF Idle, Job, Null
    <2> HIDE DEF j
    <2>3. /\ pc'[c] = "idle"
          /\ \A d \in Core \ {c} : pc'[d] = pc[d] /\ job'[d] = job[d]
          /\ pc' \in [Core -> {"idle", "align", "grow", "drop"}] /\ job' \in [Core -> Job]
      BY <2>1, <2>2, GotoFacts
    <2>4. head' = head /\ added' = added /\ total' = total /\ fault' \in BOOLEAN
      BY <1>0, <1>9 DEF ReallocFails, FaultIfWild
    <2> QED BY <2>3, <2>4, TypeKept
  <1>10. CASE ReallocMalloc(c)
    <2> DEFINE J(b) == [job[c] EXCEPT !.raw = b + H + 1, !.block = b]
    <2>0. PICK b \in DOMAIN blk : Goto(c, "grow", "drop", J(b))
      BY <1>10 DEF ReallocMalloc
    <2>00. b \in Nat
      BY DEF ChainInv, Tiled
    <2> DEFINE j == J(b)
    <2>1. Goto(c, "grow", "drop", j)
      BY <2>0
    <2>2. j \in Job
      <3>1. job[c] \in Job /\ b \in Nat /\ b + H + 1 \in Nat
        BY <2>00 DEF TypeInv, H
      <3> QED BY <3>1 DEF Job
    <2> HIDE DEF j
    <2>3. /\ pc'[c] = "drop"
          /\ \A d \in Core \ {c} : pc'[d] = pc[d] /\ job'[d] = job[d]
          /\ pc' \in [Core -> {"idle", "align", "grow", "drop"}] /\ job' \in [Core -> Job]
      BY <2>1, <2>2, GotoFacts
    <2>4. head' = head /\ added' = added /\ total' = total /\ fault' \in BOOLEAN
      BY <1>0, <1>10 DEF ReallocMalloc
    <2> QED BY <2>3, <2>4, TypeKept
  <1>11. CASE ReallocFree(c)
    <2> DEFINE j == Idle
    <2>1. Goto(c, "drop", "idle", j)
      BY <1>11 DEF ReallocFree
    <2>2. j \in Job
      BY DEF Idle, Job, Null
    <2> HIDE DEF j
    <2>3. /\ pc'[c] = "idle"
          /\ \A d \in Core \ {c} : pc'[d] = pc[d] /\ job'[d] = job[d]
          /\ pc' \in [Core -> {"idle", "align", "grow", "drop"}] /\ job' \in [Core -> Job]
      BY <2>1, <2>2, GotoFacts
    <2>4. head' = head /\ added' = added /\ total' = total /\ fault' \in BOOLEAN
      BY <1>0, <1>11 DEF ReallocFree
    <2> QED BY <2>3, <2>4, TypeKept
  <1>12. CASE AddRegion(c)
    BY <1>0, <1>12 DEF AddRegion
  <1> QED BY <1>1, <1>2, <1>3, <1>4, <1>5, <1>6, <1>7, <1>8, <1>9, <1>10, <1>11, <1>12 DEF Step

\* An allocation stays where it is as long as its block does.
LEMMA PlacedKept ==
  ASSUME NEW hp, NEW new, NEW calls, NEW a, Placed(hp, calls, a),
         Used(new, a.block), new[a.block].size = hp[a.block].size
  PROVE  Placed(new, calls, a)
  BY DEF Placed, Stop

\* The step leaves block x in use and as large as it was.
Kept(x) == Used(blk', x) /\ blk'[x].size = blk[x].size

\* The owners of the blocks after a step of core c: what concerns the other
\* cores is as it was.
LEMMA OthersPlaced ==
  ASSUME PlaceInv, setup' = setup, NEW c \in Core,
         \A d \in Core \ {c} : pc'[d] = pc[d] /\ job'[d] = job[d],
         \A a \in live' : (a \in live /\ Kept(a.block)) \/ Placed(blk', setup.calls, a),
         \A d \in Core \ {c} : /\ Holds(d) => Kept(job[d].old.block)
                               /\ Makes(d) => Kept(job[d].block),
         Holds(c)' => Placed(blk', setup.calls, job'[c].old),
         Makes(c)' => /\ Used(blk', job'[c].block)
                      /\ job'[c].raw = job'[c].block + H + 1
                      /\ blk'[job'[c].block].size >= Needs(c)'
  PROVE  PlaceInv'
  <1>1. ASSUME NEW a \in live' PROVE Placed(blk', setup.calls, a)
    <2>1. CASE a \in live /\ Kept(a.block)
      <3>1. /\ Placed(blk, setup.calls, a) /\ Used(blk', a.block)
            /\ blk'[a.block].size = blk[a.block].size
        BY <2>1 DEF PlaceInv, Kept
      <3> QED BY <2>1, <3>1, PlacedKept
    <2> QED BY <2>1
  <1>2. ASSUME NEW d \in Core, Holds(d)' PROVE Placed(blk', setup.calls, job'[d].old)
    <2>1. CASE d # c
      <3>1. Holds(d) /\ job'[d] = job[d]
        BY <1>2, <2>1 DEF Holds
      <3>2. /\ Placed(blk, setup.calls, job[d].old) /\ Used(blk', job[d].old.block)
            /\ blk'[job[d].old.block].size = blk[job[d].old.block].size
        BY <2>1, <3>1 DEF PlaceInv, Kept
      <3> QED BY <2>1, <3>1, <3>2, PlacedKept
    <2> QED BY <1>2, <2>1
  <1>3. ASSUME NEW d \in Core, Makes(d)'
        PROVE  /\ Used(blk', job'[d].block) /\ job'[d].raw = job'[d].block + H + 1
               /\ blk'[job'[d].block].size >= Needs(d)'
    <2>1. CASE d # c
      <3>1. Makes(d) /\ job'[d] = job[d] /\ Needs(d)' = Needs(d)
        BY <1>3, <2>1 DEF Makes, Needs, Required, Padded, Align
      <3>2. /\ Used(blk, job[d].block) /\ job[d].raw = job[d].block + H + 1
            /\ blk[job[d].block].size >= Needs(d)
        BY <3>1 DEF PlaceInv
      <3>3. Kept(job[d].block)
        BY <2>1, <3>1
      <3> QED BY <3>1, <3>2, <3>3 DEF Kept
    <2> QED BY <1>3, <2>1
  <1> QED BY <1>1, <1>2, <1>3 DEF PlaceInv

\* An aligned address lies behind the back pointer, and by less than the
\* alignment beyond the block's first payload word.
LEMMA AlignedBetween ==
  ASSUME NEW x \in Nat, NEW a \in Nat \ {0}
  PROVE  /\ AlignDown(x + a, a) \in Nat /\ x < AlignDown(x + a, a)
         /\ AlignDown(x + a, a) <= x + a
  <1> DEFINE q == (x + a) \div a
  <1>1. q \in Nat /\ a * q + ((x + a) % a) = x + a /\ (x + a) % a \in 0 .. a - 1
    OBVIOUS
  <1>2. q * a = a * q /\ a * q \in Nat
    BY <1>1
  <1> QED BY <1>1, <1>2 DEF AlignDown

LEMMA FreshPlaced ==
  ASSUME NEW hp, NEW calls, NEW b \in Nat, NEW n \in Nat, Used(hp, b),
         hp[b].size \in Nat, hp[b].size > n, NEW a,
         a = [ptr |-> b + H + 1, size |-> n, block |-> b]
  PROVE  Placed(hp, calls, a) /\ a.block = b
  <1>1. a \in Alloc /\ a.ptr = b + H + 1 /\ a.size = n /\ a.block = b
    BY DEF Alloc, H
  <1> HIDE DEF Alloc
  <1> QED BY <1>1 DEF Placed, Stop, H

\* One step per operation: the chain, the place and the owner of every block.
LEMMA OwnersStep ==
  ASSUME OneHeap, HeapInv, setup' = setup, NEW c \in Core, Step(c)
  PROVE  ChainInv' /\ PlaceInv' /\ ApartInv' /\ OwnedInv'
  <1> USE DEF HeapInv
  <1>0. /\ setup.size \subseteq Nat \ {0} /\ setup.alignment \subseteq Nat \ {0}
        /\ "region" \notin setup.calls /\ Align \in {1, 2}
        /\ ~("aligned" \in setup.calls /\ "realloc" \in setup.calls)
        /\ setup \in Setups /\ Idle \in Job
    BY SetupFacts DEF TypeInv, Idle, Job, Null
  <1>u. /\ \A a \in live : Used(blk, a.block) /\ a \in Alloc
        /\ \A d \in Core : Holds(d) => Used(blk, job[d].old.block) /\ job[d].old \in Alloc
        /\ \A d \in Core : Makes(d) => Used(blk, job[d].block)
    BY DEF PlaceInv, Placed
  <1>j. \A d \in Core : job[d] \in Job
    BY DEF TypeInv
  <1> DEFINE Rest == \A d \in Core \ {c} : pc'[d] = pc[d] /\ job'[d] = job[d]
  <1>s. ASSUME blk' = blk PROVE ChainInv' /\ (\A x : Used(blk, x) <=> Used(blk', x))
    BY <1>s DEF ChainInv, Lo, Hi, Region
  <1>p. ASSUME NEW n \in Nat, NEW b \in Nat, Used(blk', b), blk'[b].size \in Nat,
               blk'[b].size >= Required(n), NEW a,
               a = [ptr |-> b + H + 1, size |-> n, block |-> b]
        PROVE  Placed(blk', setup.calls, a) /\ a.block = b
    <2>1. Required(n) > n /\ Required(n) \in Nat
      BY <1>0, RequiredNat
    <2>2. blk'[b].size > n
      BY <1>p, <2>1
    <2> QED BY <2>2, <1>p, FreshPlaced
  <1>i. ASSUME pc[c] = "idle", pc'[c] = "idle", Rest, blk' = blk, live' = live
        PROVE  ChainInv' /\ PlaceInv' /\ ApartInv' /\ OwnedInv'
    <2>1. \A d \in Core : /\ (Holds(d)' <=> Holds(d)) /\ (Makes(d)' <=> Makes(d))
                          /\ Holds(d) \/ Makes(d) => job'[d] = job[d]
      BY <1>i DEF Holds, Makes
    <2>2. PlaceInv'
      <3>1. ~Holds(c)' /\ ~Makes(c)'
        BY <1>i DEF Holds, Makes
      <3> QED BY <1>i, <3>1, <1>u, OthersPlaced DEF Kept
    <2>3. ApartInv' /\ OwnedInv'
      BY <1>i, <2>1 DEF ApartInv, OwnedInv
    <2> QED BY <2>2, <2>3, <1>i, <1>s
  <1>1. ASSUME NEW n \in setup.size, Kmalloc(c, n)
        PROVE  ChainInv' /\ PlaceInv' /\ ApartInv' /\ OwnedInv'
    <2>1. PICK b : /\ FirstFit(b, n) /\ blk' = Carved(b, n)
                   /\ live' = live \cup {[ptr |-> b + H + 1, size |-> n, block |-> b]}
      BY <1>1 DEF Kmalloc
    <2>2. pc[c] = "idle" /\ pc'[c] = "idle" /\ Rest
      BY <1>0, <1>1, GotoFacts DEF Kmalloc
    <2>3. n \in Nat
      BY <1>0
    <2>4. /\ ChainInv' /\ b \in Nat /\ ~Used(blk, b) /\ Used(blk', b)
          /\ blk'[b].size >= Required(n) /\ blk'[b].size \in Nat
          /\ \A x : Used(blk, x) => x # b /\ Used(blk', x) /\ blk'[x].size = blk[x].size
          /\ \A x : Used(blk', x) => Used(blk, x) \/ x = b
      BY <2>1, <2>3, TakeStep
    <2> DEFINE new == [ptr |-> b + H + 1, size |-> n, block |-> b]
    <2>5. Placed(blk', setup.calls, new) /\ new.block = b /\ live' = live \cup {new}
      BY <2>1, <2>3, <2>4, <1>p
    <2> HIDE DEF new, Rest
    <2>6. PlaceInv'
      <3>1. ~Holds(c)' /\ ~Makes(c)'
        BY <2>2 DEF Holds, Makes
      <3> QED BY <2>2, <2>4, <2>5, <3>1, <1>u, OthersPlaced DEF Rest, Kept
    <2>7. ApartInv'
      BY <2>2, <2>4, <2>5, <1>u DEF ApartInv, Holds, Makes, Rest
    <2>8. OwnedInv'
      BY <2>2, <2>4, <2>5 DEF OwnedInv, Holds, Makes, Rest, Used
    <2> QED BY <2>4, <2>6, <2>7, <2>8
  <1>2. ASSUME NEW n \in setup.size, KmallocFails(c, n)
        PROVE  ChainInv' /\ PlaceInv' /\ ApartInv' /\ OwnedInv'
    <2>1. pc[c] = "idle" /\ pc'[c] = "idle" /\ Rest
      BY <1>0, <1>2, GotoFacts DEF KmallocFails
    <2>2. blk' = blk /\ live' = live
      BY <1>2 DEF KmallocFails
    <2> QED BY <2>1, <2>2, <1>i
  <1>3. ASSUME NEW n \in setup.size, NEW a \in setup.alignment, AlignedMalloc(c, n, a)
        PROVE  ChainInv' /\ PlaceInv' /\ ApartInv' /\ OwnedInv'
    <2> DEFINE J(b) == [Idle EXCEPT !.size = n, !.align = a, !.raw = b + H + 1, !.block = b]
    <2>1. PICK b : /\ FirstFit(b, Padded(n, a)) /\ blk' = Carved(b, Padded(n, a))
                   /\ Goto(c, "idle", "align", J(b))
      BY <1>3 DEF AlignedMalloc
    <2>2. Padded(n, a) \in Nat /\ n \in Nat /\ a \in Nat \ {0}
      BY <1>0, <1>3, PaddedNat
    <2>3. /\ ChainInv' /\ b \in Nat /\ ~Used(blk, b) /\ Used(blk', b)
          /\ blk'[b].size >= Required(Padded(n, a)) /\ blk'[b].size \in Nat
          /\ \A x : Used(blk, x) => x # b /\ Used(blk', x) /\ blk'[x].size = blk[x].size
          /\ \A x : Used(blk', x) => Used(blk, x) \/ x = b
      BY <2>1, <2>2, TakeStep
    <2>4. /\ J(b) \in Job /\ J(b).size = n /\ J(b).align = a
          /\ J(b).raw = b + H + 1 /\ J(b).block = b
      <3>1. Idle \in Job /\ b + H + 1 \in Nat /\ b \in Nat
        BY <1>0, <2>3 DEF H
      <3> QED BY <2>2, <3>1 DEF Job
    <2> HIDE DEF J
    <2>5. /\ pc[c] = "idle" /\ pc'[c] = "align" /\ Rest
          /\ job'[c].size = n /\ job'[c].align = a
          /\ job'[c].raw = b + H + 1 /\ job'[c].block = b
      BY <2>1, <2>4, GotoFacts
    <2>6. live' = live
      BY <1>3 DEF AlignedMalloc
    <2> HIDE DEF Rest
    <2>7. PlaceInv'
      <3>1. ~Holds(c)' /\ Needs(c)' = Required(Padded(n, a))
        BY <2>5 DEF Holds, Needs, Required, Padded, Align
      <3> QED BY <2>3, <2>5, <2>6, <3>1, <1>u, OthersPlaced DEF Rest, Kept
    <2>8. ApartInv'
      BY <2>3, <2>5, <2>6, <1>u DEF ApartInv, Holds, Makes, Rest
    <2>9. OwnedInv'
      BY <2>3, <2>5, <2>6 DEF OwnedInv, Holds, Makes, Rest, Used
    <2> QED BY <2>3, <2>7, <2>8, <2>9
  <1>4. ASSUME NEW n \in setup.size, NEW a \in setup.alignment, AlignedFails(c, n, a)
        PROVE  ChainInv' /\ PlaceInv' /\ ApartInv' /\ OwnedInv'
    <2>1. pc[c] = "idle" /\ pc'[c] = "idle" /\ Rest
      BY <1>0, <1>4, GotoFacts DEF AlignedFails
    <2>2. blk' = blk /\ live' = live
      BY <1>4 DEF AlignedFails
    <2> QED BY <2>1, <2>2, <1>i
  <1>5. CASE AlignedBack(c)
    <2> DEFINE x == job[c].raw
               al == job[c].align
               b == job[c].block
               n == job[c].size
               q == AlignDown(x + 1 + al - 1, al)
               new == [ptr |-> q, size |-> n, block |-> b]
    <2>1. pc[c] = "align" /\ pc'[c] = "idle" /\ Rest
      BY <1>0, <1>5, GotoFacts DEF AlignedBack
    <2>2. blk' = blk /\ live' = live \cup {new}
      BY <1>5 DEF AlignedBack
    <2>3. x \in Nat /\ al \in Nat \ {0} /\ b \in Nat /\ n \in Nat
      BY <1>j DEF Job
    <2>4. /\ Used(blk, b) /\ x = b + H + 1 /\ blk[b].size >= Required(Padded(n, al))
          /\ Makes(c) /\ ~Holds(c)
      BY <2>1 DEF PlaceInv, Makes, Holds, Needs
    <2>5. "aligned" \in setup.calls
      BY <2>1 DEF TypeInv
    <2>6. blk[b].size \in Nat
      BY <2>4 DEF Used, ChainInv, Tiled, Node
    <2> HIDE DEF x, al, b, n
    <2>7. x < q /\ q <= x + al /\ q \in Nat
      <3>1. x + 1 + al - 1 = x + al
        BY <2>3
      <3> QED BY <3>1, <2>3, AlignedBetween
    <2>8. blk[b].size >= n + al + 1 + H
      <3>1. Padded(n, al) \in Nat /\ Padded(n, al) >= n + al + 1 + H
        BY <1>0, <2>3, PaddedNat
      <3>2. Required(Padded(n, al)) > Padded(n, al) /\ Required(Padded(n, al)) \in Nat
        BY <1>0, <3>1, RequiredNat
      <3> HIDE DEF q
      <3> QED BY <3>1, <3>2, <2>3, <2>4, <2>6 DEF H
    <2> HIDE DEF q
    <2>9. new \in Alloc /\ new.ptr = q /\ new.size = n /\ new.block = b
      BY <2>3, <2>7 DEF Alloc
    <2> HIDE DEF new, Rest, Alloc
    <2>10. Placed(blk, setup.calls, new)
      <3>1. new.ptr + new.size <= Stop(blk, b) /\ new.ptr > b + H
        BY <2>3, <2>4, <2>6, <2>7, <2>8, <2>9 DEF Stop, H
      <3> QED BY <3>1, <2>4, <2>5, <2>9, <1>0 DEF Placed
    <2>11. ~Holds(c)' /\ ~Makes(c)'
      BY <2>1 DEF Holds, Makes
    <2>12. PlaceInv'
      BY <2>1, <2>2, <2>10, <2>11, <1>u, OthersPlaced DEF Rest, Kept
    <2>13. ApartInv'
      BY <2>1, <2>2, <2>4, <2>9, <2>11, <1>u DEF ApartInv, Holds, Makes, Rest, b
    <2>14. OwnedInv'
      BY <2>1, <2>2, <2>4, <2>9, <2>11 DEF OwnedInv, Holds, Makes, Rest, b
    <2> QED BY <2>2, <2>12, <2>13, <2>14, <1>s
  <1>6. ASSUME NEW a \in live, Kfree(c, a)
        PROVE  ChainInv' /\ PlaceInv' /\ ApartInv' /\ OwnedInv'
    <2>1. pc[c] = "idle" /\ pc'[c] = "idle" /\ Rest
      BY <1>0, <1>6, GotoFacts DEF Kfree
    <2>2. blk' = Released(a.block) /\ live' = live \ {a} /\ Used(blk, a.block)
      BY <1>6, <1>u DEF Kfree
    <2>3. /\ ChainInv'
          /\ \A x : Used(blk, x) /\ x # a.block => Kept(x)
          /\ \A x : Used(blk', x) => Used(blk, x) /\ x # a.block
      BY <2>2, GiveStep DEF Kept
    <2> HIDE DEF Rest
    <2>4. /\ \A d \in Core \ {c} : /\ Holds(d) => Kept(job[d].old.block)
                                   /\ Makes(d) => Kept(job[d].block)
          /\ \A x \in live' : x \in live /\ Kept(x.block)
      BY <2>2, <2>3, <1>u DEF ApartInv
    <2>5. ~Holds(c)' /\ ~Makes(c)'
      BY <2>1 DEF Holds, Makes
    <2>6. PlaceInv'
      BY <2>1, <2>4, <2>5, OthersPlaced DEF Rest
    <2>7. ApartInv'
      BY <2>1, <2>2, <2>5 DEF ApartInv, Holds, Makes, Rest
    <2>8. OwnedInv'
      <3> SUFFICES ASSUME NEW b \in DOMAIN blk', Used(blk', b)
                   PROVE  \/ \E x \in live' : x.block = b
                          \/ \E d \in Core : Holds(d)' /\ job'[d].old.block = b
                          \/ \E d \in Core : Makes(d)' /\ job'[d].block = b
        BY DEF OwnedInv
      <3>1. Used(blk, b) /\ b # a.block /\ b \in DOMAIN blk
        BY <2>3 DEF Used
      <3>2. CASE \E x \in live : x.block = b
        BY <3>1, <3>2, <2>2
      <3>3. CASE \E d \in Core : Holds(d) /\ job[d].old.block = b
        BY <3>3, <2>1 DEF Holds, Rest
      <3>4. CASE \E d \in Core : Makes(d) /\ job[d].block = b
        BY <3>4, <2>1 DEF Makes, Rest
      <3> QED BY <3>1, <3>2, <3>3, <3>4 DEF OwnedInv
    <2> QED BY <2>3, <2>6, <2>7, <2>8
  <1>7. ASSUME NEW a \in live, NEW n \in setup.size, ReallocKeep(c, a, n)
        PROVE  ChainInv' /\ PlaceInv' /\ ApartInv' /\ OwnedInv'
    <2> DEFINE new == [a EXCEPT !.size = n]
    <2>1. pc[c] = "idle" /\ pc'[c] = "idle" /\ Rest
      BY <1>0, <1>7, GotoFacts DEF ReallocKeep
    <2>2. /\ blk' = blk /\ live' = (live \ {a}) \cup {new}
          /\ "realloc" \in setup.calls /\ blk[a.block].size >= n
      BY <1>7 DEF ReallocKeep, ReallocSize
    <2>3. n \in Nat /\ Placed(blk, setup.calls, a)
      BY <1>0 DEF PlaceInv
    <2>4. a \in Alloc /\ Used(blk, a.block) /\ a.ptr = a.block + H + 1
      BY <2>2, <2>3 DEF Placed
    <2>5. new \in Alloc /\ new.ptr = a.ptr /\ new.block = a.block /\ new.size = n
      BY <2>3, <2>4 DEF Alloc
    <2>6. blk[a.block].size \in Nat /\ a.block \in Nat
      BY <2>4 DEF Used, ChainInv, Tiled, Node
    <2> HIDE DEF new, Rest, Alloc
    <2>7. Placed(blk, setup.calls, new)
      <3>1. new.ptr + new.size <= Stop(blk, a.block) + 1 /\ new.ptr > a.block + H
        BY <2>2, <2>3, <2>4, <2>5, <2>6 DEF Stop, H
      <3> QED BY <3>1, <2>2, <2>4, <2>5 DEF Placed
    <2>8. ~Holds(c)' /\ ~Makes(c)'
      BY <2>1 DEF Holds, Makes
    <2>9. PlaceInv'
      BY <2>1, <2>2, <2>7, <2>8, <1>u, OthersPlaced DEF Rest, Kept
    <2>10. ApartInv'
      BY <2>1, <2>2, <2>5, <2>8 DEF ApartInv, Holds, Makes, Rest
    <2>11. OwnedInv'
      BY <2>1, <2>2, <2>5, <2>8 DEF OwnedInv, Holds, Makes, Rest
    <2> QED BY <2>2, <2>9, <2>10, <2>11, <1>s
  <1>8. ASSUME NEW a \in live, NEW n \in setup.size, ReallocBegin(c, a, n)
        PROVE  ChainInv' /\ PlaceInv' /\ ApartInv' /\ OwnedInv'
    <2> DEFINE j == [Idle EXCEPT !.size = n, !.old = a]
    <2>1. j \in Job /\ j.old = a
      <3>1. Idle \in Job /\ n \in Nat /\ a \in Alloc
        BY <1>0, <1>u
      <3> HIDE DEF Alloc
      <3> QED BY <3>1 DEF Job
    <2> HIDE DEF j
    <2>2. pc[c] = "idle" /\ pc'[c] = "grow" /\ Rest /\ job'[c].old = a
      <3>1. Goto(c, "idle", "grow", j)
        BY <1>8 DEF ReallocBegin, j
      <3> QED BY <2>1, <3>1, GotoFacts
    <2>3. blk' = blk /\ live' = live \ {a}
      BY <1>8 DEF ReallocBegin
    <2>4. Placed(blk, setup.calls, a) /\ ~Makes(c)' /\ Holds(c)'
      BY <2>2 DEF PlaceInv, Makes, Holds
    <2> HIDE DEF Rest
    <2>5. PlaceInv'
      BY <2>2, <2>3, <2>4, <1>u, OthersPlaced DEF Rest, Kept
    <2>6. ApartInv'
      BY <2>2, <2>3, <2>4 DEF ApartInv, Holds, Makes, Rest
    <2>7. OwnedInv'
      BY <2>2, <2>3, <2>4 DEF OwnedInv, Holds, Makes, Rest
    <2> QED BY <2>3, <2>5, <2>6, <2>7, <1>s
  <1>9. CASE ReallocFails(c)
    <2>1. pc[c] = "grow" /\ pc'[c] = "idle" /\ Rest
      BY <1>0, <1>9, GotoFacts DEF ReallocFails
    <2>2. blk' = blk /\ live' = live \cup {job[c].old}
      BY <1>9 DEF ReallocFails
    <2>3. /\ Placed(blk, setup.calls, job[c].old) /\ Holds(c) /\ ~Makes(c)
          /\ ~Makes(c)' /\ ~Holds(c)'
      BY <2>1 DEF PlaceInv, Makes, Holds
    <2> HIDE DEF Rest
    <2>4. PlaceInv'
      BY <2>1, <2>2, <2>3, <1>u, OthersPlaced DEF Rest, Kept
    <2>5. ApartInv'
      BY <2>1, <2>2, <2>3 DEF ApartInv, Holds, Makes, Rest
    <2>6. OwnedInv'
      BY <2>1, <2>2, <2>3 DEF OwnedInv, Holds, Makes, Rest
    <2> QED BY <2>2, <2>4, <2>5, <2>6, <1>s
  <1>10. CASE ReallocMalloc(c)
    <2> DEFINE J(b) == [job[c] EXCEPT !.raw = b + H + 1, !.block = b]
               n == job[c].size
    <2>1. PICK b : /\ FirstFit(b, n) /\ blk' = Carved(b, n)
                   /\ Goto(c, "grow", "drop", J(b)) /\ live' = live
      BY <1>10 DEF ReallocMalloc
    <2>2. n \in Nat
      BY <1>j DEF Job
    <2> HIDE DEF n
    <2>3. /\ ChainInv' /\ b \in Nat /\ ~Used(blk, b) /\ Used(blk', b)
          /\ blk'[b].size >= Required(n) /\ blk'[b].size \in Nat
          /\ \A x : Used(blk, x) => x # b /\ Used(blk', x) /\ blk'[x].size = blk[x].size
          /\ \A x : Used(blk', x) => Used(blk, x) \/ x = b
      BY <2>1, <2>2, TakeStep
    <2>4. /\ J(b) \in Job /\ J(b).size = n /\ J(b).old = job[c].old
          /\ J(b).raw = b + H + 1 /\ J(b).block = b
      <3>1. job[c] \in Job /\ b + H + 1 \in Nat /\ b \in Nat
        BY <1>j, <2>3 DEF H
      <3> QED BY <3>1 DEF Job, n
    <2> HIDE DEF J
    <2>5. /\ pc[c] = "grow" /\ pc'[c] = "drop" /\ Rest
          /\ job'[c].size = n /\ job'[c].old = job[c].old
          /\ job'[c].raw = b + H + 1 /\ job'[c].block = b
      BY <2>1, <2>4, GotoFacts
    <2> HIDE DEF Rest
    <2>6. Holds(c) /\ ~Makes(c) /\ Holds(c)' /\ Makes(c)' /\ Needs(c)' = Required(n)
      BY <2>5 DEF Holds, Makes, Needs, Required, Align
    <2>7. PlaceInv'
      <3>1. Placed(blk', setup.calls, job'[c].old)
        <4>1. /\ Placed(blk, setup.calls, job[c].old) /\ Used(blk', job[c].old.block)
              /\ blk'[job[c].old.block].size = blk[job[c].old.block].size
          BY <2>3, <2>6, <1>u DEF PlaceInv
        <4> QED BY <4>1, <2>5, PlacedKept
      <3> QED BY <2>1, <2>3, <2>5, <2>6, <3>1, <1>u, OthersPlaced DEF Rest, Kept
    <2>8. ApartInv'
      BY <2>1, <2>3, <2>5, <2>6, <1>u DEF ApartInv, Holds, Makes, Rest
    <2>9. OwnedInv'
      BY <2>1, <2>3, <2>5, <2>6 DEF OwnedInv, Holds, Makes, Rest, Used
    <2> QED BY <2>3, <2>7, <2>8, <2>9
  <1>11. CASE ReallocFree(c)
    <2> DEFINE b == job[c].block
               n == job[c].size
               g == job[c].old.block
               new == [ptr |-> job[c].raw, size |-> n, block |-> b]
    <2>1. pc[c] = "drop" /\ pc'[c] = "idle" /\ Rest
      BY <1>0, <1>11, GotoFacts DEF ReallocFree
    <2>2. blk' = Released(g) /\ live' = live \cup {new}
      BY <1>11 DEF ReallocFree
    <2>3. Holds(c) /\ Makes(c) /\ ~Makes(c)' /\ ~Holds(c)'
      BY <2>1 DEF Makes, Holds
    <2>4. /\ Used(blk, b) /\ job[c].raw = b + H + 1 /\ blk[b].size >= Required(n)
          /\ Used(blk, g) /\ g # b
      BY <2>1, <2>3, <1>u DEF PlaceInv, Needs, ApartInv
    <2>5. b \in Nat /\ n \in Nat
      BY <1>j DEF Job
    <2>6. blk[b].size \in Nat
      BY <2>4 DEF Used, ChainInv, Tiled, Node
    <2>7. new = [ptr |-> b + H + 1, size |-> n, block |-> b]
      BY <2>4
    <2> HIDE DEF b, n, g, new
    <2>8. /\ ChainInv'
          /\ \A x : Used(blk, x) /\ x # g => Kept(x)
          /\ \A x : Used(blk', x) => Used(blk, x) /\ x # g
      BY <2>2, <2>4, GiveStep DEF Kept
    <2>9. Used(blk', b) /\ blk'[b].size = blk[b].size
      BY <2>4, <2>8 DEF Kept
    <2>10. Placed(blk', setup.calls, new) /\ new.block = b
      BY <2>4, <2>5, <2>6, <2>7, <2>9, <1>p
    <2> HIDE DEF Rest
    <2>11. /\ \A d \in Core \ {c} : /\ Holds(d) => Kept(job[d].old.block)
                                    /\ Makes(d) => Kept(job[d].block)
           /\ \A x \in live : Kept(x.block)
      BY <2>3, <2>8, <1>u DEF ApartInv, g
    <2>12. PlaceInv'
      BY <2>1, <2>2, <2>3, <2>10, <2>11, OthersPlaced DEF Rest
    <2>13. ApartInv'
      BY <2>1, <2>2, <2>3, <2>10 DEF ApartInv, Holds, Makes, Rest, b
    <2>14. OwnedInv'
      <3> SUFFICES ASSUME NEW y \in DOMAIN blk', Used(blk', y)
                   PROVE  \/ \E x \in live' : x.block = y
                          \/ \E d \in Core : Holds(d)' /\ job'[d].old.block = y
                          \/ \E d \in Core : Makes(d)' /\ job'[d].block = y
        BY DEF OwnedInv
      <3>1. Used(blk, y) /\ y # g /\ y \in DOMAIN blk
        BY <2>8 DEF Used
      <3>2. CASE \E x \in live : x.block = y
        BY <3>2, <2>2
      <3>3. CASE \E d \in Core : Holds(d) /\ job[d].old.block = y
        BY <3>1, <3>3, <2>1 DEF Holds, Rest, g
      <3>4. CASE \E d \in Core : Makes(d) /\ job[d].block = y
        BY <3>4, <2>1, <2>2, <2>10 DEF Makes, Rest, b
      <3> QED BY <3>1, <3>2, <3>3, <3>4 DEF OwnedInv
    <2> QED BY <2>8, <2>12, <2>13, <2>14
  <1>12. CASE AddRegion(c)
    BY <1>0, <1>12 DEF AddRegion
  <1> QED BY <1>1, <1>2, <1>3, <1>4, <1>5, <1>6, <1>7, <1>8, <1>9, <1>10, <1>11, <1>12 DEF Step

LEMMA HeapStep ==
  ASSUME OneHeap, HeapInv, [Next]_vars
  PROVE  HeapInv'
  <1>1. CASE Next
    <2>1. PICK c \in Core : Step(c)
      BY <1>1 DEF Next
    <2>2. setup' = setup
      BY <1>1 DEF Next
    <2>3. TypeInv'
      BY <2>1, <2>2, TypeStep DEF HeapInv
    <2>4. ChainInv' /\ PlaceInv' /\ ApartInv' /\ OwnedInv'
      BY <2>1, <2>2, OwnersStep
    <2> QED BY <2>3, <2>4 DEF HeapInv
  <1>2. CASE UNCHANGED vars
    <2>1. TypeInv'
      BY <1>2 DEF HeapInv, vars, TypeInv, Lo, Region
    <2>2. ChainInv'
      BY <1>2 DEF HeapInv, vars, ChainInv, Lo, Hi, Region
    <2>3. PlaceInv'
      BY <1>2 DEF HeapInv, vars, PlaceInv, Holds, Makes, Needs, Required, Padded, Align
    <2>4. ApartInv' /\ OwnedInv'
      BY <1>2 DEF HeapInv, vars, ApartInv, OwnedInv, Holds, Makes
    <2> QED BY <2>1, <2>2, <2>3, <2>4 DEF HeapInv
  <1> QED BY <1>1, <1>2

\* A chain that tiles the pool is linked both ways, and what the callers own
\* lies apart in it.
LEMMA HeapMeans ==
  ASSUME OneHeap, HeapInv
  PROVE  HeapSound /\ NoLeak /\ Accounting
  <1>0. /\ setup \in Setups /\ head = Lo /\ added = 1 /\ fault \in BOOLEAN
        /\ total = Region[1].size
        /\ pc \in [Core -> {"idle", "align", "grow", "drop"}]
        /\ Tiled(blk, Lo, Hi) /\ Merged(blk, Null)
    BY DEF HeapInv, TypeInv, ChainInv
  <1>1. /\ Lo \in Nat \ {0} /\ Hi \in Nat /\ 1 \in DOMAIN Region
        /\ total \in Nat /\ Lo < Hi /\ Hi - Lo = total
    BY <1>0, SetupFacts DEF Lo, Hi, H
  <1>2. /\ \A b \in DOMAIN blk : /\ b \in Nat /\ Lo <= b /\ blk[b].size \in Nat
                                /\ blk[b].free \in BOOLEAN
                                /\ b < Stop(blk, b) /\ Stop(blk, b) <= Hi
                                /\ Stop(blk, b) \in Nat
        /\ Null \notin DOMAIN blk
    BY <1>0, <1>1 DEF Tiled, Node, Stop, H, Null
  <1>3. ASSUME NEW b \in DOMAIN blk
        PROVE  /\ Stop(blk, b) = Hi => blk[b].next = Null
               /\ Stop(blk, b) # Hi => blk[b].next = Stop(blk, b) /\ Stop(blk, b) \in DOMAIN blk
               /\ b = Lo => blk[b].prev = Null
               /\ b # Lo => blk[b].prev \in DOMAIN blk /\ Stop(blk, blk[b].prev) = b
    BY <1>0 DEF Tiled
  <1>4. DoublyLinked
    <2> SUFFICES ASSUME NEW b \in DOMAIN blk
                 PROVE  /\ blk[b].next \in DOMAIN blk => blk[blk[b].next].prev = b
                        /\ blk[b].prev \in DOMAIN blk => blk[blk[b].prev].next = b
                        /\ blk[b].prev = Null <=> b = head
      BY DEF DoublyLinked
    <2>1. ASSUME blk[b].next \in DOMAIN blk PROVE blk[blk[b].next].prev = b
      <3>1. Stop(blk, b) = blk[b].next
        BY <2>1, <1>2, <1>3
      <3> QED BY <2>1, <3>1, <1>0, <1>1, BackLink
    <2>2. ASSUME blk[b].prev \in DOMAIN blk PROVE blk[blk[b].prev].next = b
      <3>1. Stop(blk, blk[b].prev) = b
        BY <2>2, <1>2, <1>3
      <3> QED BY <2>2, <3>1, <1>0, <1>1, BackLink
    <2> QED BY <2>1, <2>2, <1>0, <1>2, <1>3
  <1>5. BlocksTile
    <2> SUFFICES ASSUME NEW b \in DOMAIN blk
                 PROVE  \E r \in RegionOf(b) :
                          \/ End(b) = Region[r].start + Region[r].size
                          \/ /\ End(b) < Region[r].start + Region[r].size
                             /\ blk[b].next = End(b)
      BY DEF BlocksTile
    <2>1. End(b) = Stop(blk, b)
      BY DEF End, Stop
    <2>2. 1 \in RegionOf(b)
      BY <1>0, <1>1, <1>2 DEF RegionOf, Lo, Hi
    <2>3. End(b) = Hi \/ (End(b) < Hi /\ blk[b].next = End(b))
      BY <2>1, <1>1, <1>2, <1>3
    <2> QED BY <2>2, <2>3 DEF Hi
  <1>6. Coalesced
    <2> SUFFICES ASSUME NEW b \in DOMAIN blk, blk[b].free, IsFree(blk, blk[b].next)
                 PROVE  FALSE
      BY DEF Coalesced
    <2>1. blk[b].next \in DOMAIN blk /\ blk[blk[b].next].free
      BY DEF IsFree
    <2>2. blk[b].next = Stop(blk, b)
      BY <2>1, <1>2, <1>3
    <2> QED BY <2>1, <2>2, <1>0, <1>2 DEF Merged
  <1>7. ASSUME NEW a \in Owned
        PROVE  Placed(blk, setup.calls, a)
    <2>1. CASE a \in live
      BY <2>1 DEF HeapInv, PlaceInv
    <2>2. CASE \E c \in Core : Holds(c) /\ a = job[c].old
      BY <2>2 DEF HeapInv, PlaceInv
    <2> QED BY <2>1, <2>2 DEF Owned, Holds
  <1>8. Disjoint
    <2>1. ASSUME NEW a \in Owned
          PROVE  /\ ~blk[a.block].free /\ a.ptr > a.block + H
                 /\ Fitting(a) \/ ("realloc" \in setup.calls
                                    /\ a.ptr + a.size <= End(a.block) + 1)
      BY <1>7 DEF Placed, Used, Fitting, End, Stop
    <2>2. ASSUME NEW a \in Owned, NEW b \in Owned, a # b PROVE a.block # b.block
      <3>1. a \in live \/ \E c \in Core : Holds(c) /\ a = job[c].old
        BY DEF Owned, Holds
      <3>2. b \in live \/ \E c \in Core : Holds(c) /\ b = job[c].old
        BY DEF Owned, Holds
      <3> QED BY <2>2, <3>1, <3>2 DEF HeapInv, ApartInv
    <2> QED BY <2>1, <2>2 DEF Disjoint
  <1>9. TypeOK
    <2>1. \A b \in DOMAIN blk : /\ b \in Nat \ {0} /\ blk[b].size \in Nat
                                /\ blk[b].free \in BOOLEAN
                                /\ blk[b].next \in DOMAIN blk \cup {Null, Wild}
                                /\ blk[b].prev \in DOMAIN blk \cup {Null}
      BY <1>1, <1>2, <1>3
    <2>2. \A a \in live : a.block \in DOMAIN blk /\ a.ptr \in Nat /\ a.size \in Nat
      BY DEF HeapInv, PlaceInv, Placed, Used, Alloc
    <2>3. head \in DOMAIN blk
      BY <1>0 DEF Tiled
    <2> QED BY <2>1, <2>2, <2>3, <1>0, <1>1 DEF TypeOK
  <1>10. NoLeak
    <2>1. ASSUME NEW b \in DOMAIN blk, ~blk[b].free
          PROVE  b \in {a.block : a \in Owned} \cup Pending
      <3>1. \/ \E a \in live : a.block = b
            \/ \E c \in Core : Holds(c) /\ job[c].old.block = b
            \/ \E c \in Core : Makes(c) /\ job[c].block = b
        BY <2>1 DEF HeapInv, OwnedInv, Used
      <3> QED BY <3>1 DEF Owned, Pending, Holds, Makes
    <2>2. ASSUME NEW a \in Owned PROVE a.block \in DOMAIN blk /\ ~blk[a.block].free
      BY <1>7 DEF Placed, Used
    <2>3. ASSUME NEW b \in Pending PROVE b \in DOMAIN blk /\ ~blk[b].free
      BY DEF Pending, Makes, HeapInv, PlaceInv, Used
    <2> QED BY <2>1, <2>2, <2>3 DEF NoLeak
  <1>11. Accounting
    <2>1. MapThenSumSet(LAMBDA b : H + blk[b].size, DOMAIN blk) = Hi - Lo
      BY <1>0, <1>1, BlocksAddUp
    <2> QED BY <1>1, <2>1 DEF Accounting
  <1> QED BY <1>4, <1>5, <1>6, <1>8, <1>9, <1>10, <1>11 DEF HeapSound

\* Of a heap of one pool: whatever the cores allocate, align, resize and free,
\* in any order, kmem.c keeps its blocks chained both ways and end to end over
\* the pool, merges every free neighbour, and lets no two allocations share a
\* block.
THEOREM HeapStaysSound == OneHeap => (Spec => []HeapSound)
  <1> SUFFICES ASSUME OneHeap PROVE Spec => []HeapSound
    OBVIOUS
  <1>1. Init => HeapInv
    BY HeapInit
  <1>2. HeapInv /\ [Next]_vars => HeapInv'
    BY HeapStep
  <1>3. HeapInv => HeapSound
    BY HeapMeans
  <1> QED BY <1>1, <1>2, <1>3, PTL DEF Spec

\* Nothing is lost: each block in use is an allocation that somebody may free,
\* or is in the hands of a call under way, whichever way kmalloc_aligned and
\* krealloc end; and the blocks, free and used, with their headers add up to
\* what kmem_get_total_bytes returns.
THEOREM HeapLosesNothing == OneHeap => (Spec => [](NoLeak /\ NothingLost))
  <1> SUFFICES ASSUME OneHeap PROVE Spec => [](NoLeak /\ NothingLost)
    OBVIOUS
  <1>1. Init => HeapInv
    BY HeapInit
  <1>2. HeapInv /\ [Next]_vars => HeapInv'
    BY HeapStep
  <1>3. HeapInv => NoLeak /\ NothingLost
    BY HeapMeans DEF NothingLost
  <1> QED BY <1>1, <1>2, <1>3, PTL DEF Spec
=============================================================================
