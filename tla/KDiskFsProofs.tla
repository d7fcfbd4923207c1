--------------------------- MODULE KDiskFsProofs ---------------------------
(***************************************************************************)
(* Theorems about freestanding/kvfs.c and kdiskfs.c, for every table size, *)
(* heap, disk, layout of the table and set of paths.  The tree in memory   *)
(* is sound whatever is called; the disk keeps its types, and the files on *)
(* it names and sectors of their own, through crashes and failed writes;   *)
(* what was reported saved is there after a mount, and in the tree now.    *)
(***************************************************************************)
EXTENDS KDiskFs, FiniteSetTheorems, WellFoundedInduction, TLAPS

-----------------------------------------------------------------------------
(* kvfs.c.                                                                  *)

\* A search from slot 0 upwards that has something to find returns it.
LEMMA FirstIsIn ==
  ASSUME NEW S \in SUBSET Nat, S # {}
  PROVE  First(S) \in S /\ \A j \in S : First(S) <= j
  <1> DEFINE R == OpToRel(<, Nat)
  <1>1. IsWellFoundedOn(R, Nat)
    BY NatLessThanWellFounded
  <1>2. PICK i \in S : \A j \in S : ~(<<j, i>> \in R)
    <2> HIDE DEF R
    <2> QED BY <1>1, WFMin
  <1>3. R = {ss \in Nat \X Nat : ss[1] < ss[2]}
    BY Zenon DEF OpToRel
  <1>4. ASSUME NEW j \in S PROVE i <= j
    <2> HIDE DEF R
    <2>1. <<j, i>> \in Nat \X Nat /\ <<j, i>>[1] = j /\ <<j, i>>[2] = i
      OBVIOUS
    <2>2. ~(j < i)
      BY <1>2, <1>3, <2>1
    <2> QED BY <2>2
  <1> QED BY <1>4 DEF First

-----------------------------------------------------------------------------
(* What one slot's change does to each part of Sound.                       *)

\* The buffers a node owns.
Owned(n) == IF n.dynamic /\ n.buf # NoBuf THEN {n.buf} ELSE {}

LEMMA SlotsFinite == Slots \subseteq Nat /\ IsFiniteSet(Slots)
  <1>1. IsFiniteSet(1 .. MaxNodes)
    BY FS_Interval, VfsSizes
  <1> QED BY <1>1 DEF Slots

\* Used slots after slot i changed to n.
LEMMA UsedAfter ==
  ASSUME NEW v \in Vfs, NEW w \in Vfs, NEW i \in Slots, NEW n \in Node,
         w.node = [v.node EXCEPT ![i] = n]
  PROVE  Used(w) = IF n.used THEN Used(v) \cup {i} ELSE Used(v) \ {i}
  BY DEF Used, Unused, Vfs, Node

\* A node put under a path that no other node has keeps the paths unique.
LEMMA SlotPaths ==
  ASSUME NEW v \in Vfs, UniquePaths(v), NEW w \in Vfs, NEW i \in Slots, NEW n \in Node,
         w.node = [v.node EXCEPT ![i] = n],
         n.used => /\ n.path \in Path
                   /\ \A j \in Used(v) \ {i} : v.node[j].path # n.path
  PROVE  UniquePaths(w)
  <1>1. \A j \in Used(w) : j \in Slots
    BY DEF Used
  <1>2. \A j \in Slots : w.node[j] = IF j = i THEN n ELSE v.node[j]
    BY DEF Vfs
  <1>3. \A j \in Used(w) : j # i => j \in Used(v)
    BY UsedAfter
  <1>4. i \in Used(w) => n.used
    BY UsedAfter
  <1> QED BY <1>1, <1>2, <1>3, <1>4 DEF UniquePaths

\* The counter goes up when an unused slot is taken, down when one is freed.
LEMMA SlotCount ==
  ASSUME NEW v \in Vfs, CountAgrees(v), NEW w \in Vfs, NEW i \in Slots, NEW n \in Node,
         w.node = [v.node EXCEPT ![i] = n],
         w.count = IF v.node[i].used = n.used THEN v.count
                   ELSE IF n.used THEN v.count + 1 ELSE v.count - 1
  PROVE  CountAgrees(w)
  <1>1. IsFiniteSet(Used(v))
    BY SlotsFinite, FS_Subset DEF Used
  <1>2. i \in Used(v) <=> v.node[i].used
    BY DEF Used, Unused
  <1>3. Cardinality(Used(v)) \in Nat /\ v.count = Cardinality(Used(v))
    BY <1>1, FS_CardinalityType DEF CountAgrees
  <1>t. v.node[i].used \in BOOLEAN /\ n.used \in BOOLEAN
    BY DEF Vfs, Node
  <1>4. CASE n.used
    <2>1. Used(w) = Used(v) \cup {i}
      BY <1>4, UsedAfter
    <2>2. Cardinality(Used(w)) = IF i \in Used(v) THEN Cardinality(Used(v))
                                 ELSE Cardinality(Used(v)) + 1
      BY <2>1, <1>1, FS_AddElement
    <2>3. w.count = IF v.node[i].used THEN v.count ELSE v.count + 1
      BY <1>4, <1>t
    <2> QED BY <2>2, <2>3, <1>2, <1>3 DEF CountAgrees
  <1>5. CASE ~n.used
    <2>1. Used(w) = Used(v) \ {i}
      BY <1>5, UsedAfter
    <2>2. Cardinality(Used(w)) = IF i \in Used(v) THEN Cardinality(Used(v)) - 1
                                 ELSE Cardinality(Used(v))
      BY <2>1, <1>1, FS_RemoveElement
    <2>3. w.count = IF v.node[i].used THEN v.count - 1 ELSE v.count
      BY <1>5, <1>t
    <2> QED BY <2>2, <2>3, <1>2, <1>3 DEF CountAgrees
  <1> QED BY <1>4, <1>5

\* The old node's buffer leaves the heap and the new node's buffer, which
\* nobody had, enters it.
LEMMA SlotBuffers ==
  ASSUME NEW v \in Vfs, BuffersOwned(v), NEW w \in Vfs, NEW i \in Slots, NEW n \in Node,
         w.node = [v.node EXCEPT ![i] = n],
         w.heap = (v.heap \ Owned(v.node[i])) \cup Owned(n),
         w.lost = v.lost, ~w.bad,
         Owned(n) \cap v.heap = {},
         Owned(n) # {} => n.used
  PROVE  BuffersOwned(w)
  <1>1. \A j \in Slots : w.node[j] = IF j = i THEN n ELSE v.node[j]
    BY DEF Vfs
  <1>2. \A j \in Slots \ {i} : j \in Owners(w) <=> j \in Owners(v)
    BY <1>1 DEF Owners
  <1>3. i \in Owners(w) <=> n.dynamic /\ n.buf # NoBuf
    BY <1>1 DEF Owners
  <1>4. Owners(w) \subseteq Slots /\ Owners(v) \subseteq Slots
    BY DEF Owners
  <1>5. i \in Owners(v) <=> v.node[i].dynamic /\ v.node[i].buf # NoBuf
    BY DEF Owners
  <1>6. \A j \in Owners(v) : v.node[j].buf \in v.heap
    BY DEF BuffersOwned
  <1>7. Owners(w) \subseteq Used(w)
    <2>1. Owners(v) \subseteq Used(v)
      BY DEF BuffersOwned
    <2>2. i \in Owners(w) => n.used
      BY <1>3 DEF Owned
    <2> QED BY <2>1, <2>2, <1>2, <1>4, UsedAfter
  <1>8. \A j, k \in Owners(w) : w.node[j].buf = w.node[k].buf => j = k
    <2>1. \A j \in Owners(v) \ {i} : n.dynamic /\ n.buf # NoBuf => v.node[j].buf # n.buf
      BY <1>6 DEF Owned
    <2> QED BY <2>1, <1>1, <1>2, <1>3, <1>4 DEF BuffersOwned
  <1>9. \A j \in Owners(w) : w.node[j].buf \notin w.lost
    <2>1. v.lost \subseteq v.heap
      BY DEF BuffersOwned
    <2>2. n.dynamic /\ n.buf # NoBuf => n.buf \notin v.lost
      BY <2>1 DEF Owned
    <2> QED BY <2>2, <1>1, <1>2, <1>3, <1>4 DEF BuffersOwned
  <1>10. w.heap = {w.node[j].buf : j \in Owners(w)} \cup w.lost
    <2> DEFINE rest == {v.node[j].buf : j \in Owners(v) \ {i}} \cup v.lost
    <2>1. v.heap \ Owned(v.node[i]) = rest
      <3>1. v.heap = rest \cup Owned(v.node[i])
        BY <1>5 DEF BuffersOwned, Owned
      <3>2. rest \cap Owned(v.node[i]) = {}
        BY <1>5 DEF BuffersOwned, Owned
      <3> QED BY <3>1, <3>2
    <2>2. {w.node[j].buf : j \in Owners(w)} =
            {v.node[j].buf : j \in Owners(v) \ {i}} \cup Owned(n)
      <3>1. ASSUME NEW j \in Owners(w)
            PROVE  w.node[j].buf \in {v.node[k].buf : k \in Owners(v) \ {i}} \cup Owned(n)
        BY <1>1, <1>2, <1>3, <1>4 DEF Owned
      <3>2. ASSUME NEW j \in Owners(v) \ {i}
            PROVE  v.node[j].buf \in {w.node[k].buf : k \in Owners(w)}
        BY <1>1, <1>2, <1>4
      <3>3. Owned(n) \subseteq {w.node[k].buf : k \in Owners(w)}
        BY <1>1, <1>3 DEF Owned
      <3> QED BY <3>1, <3>2, <3>3
    <2> QED BY <2>1, <2>2
  <1> QED BY <1>7, <1>8, <1>9, <1>10 DEF BuffersOwned

-----------------------------------------------------------------------------
(* The calls.                                                               *)

\* The search for a path, and for a free slot.
LEMMA FoundSlot ==
  ASSUME NEW v, NEW p
  PROVE  /\ Named(v, p) # {} => /\ First(Named(v, p)) \in Slots
                                /\ v.node[First(Named(v, p))].used
                                /\ v.node[First(Named(v, p))].path = p
         /\ Unused(v) # {} => /\ First(Unused(v)) \in Slots
                              /\ ~v.node[First(Unused(v))].used
  <1>1. Named(v, p) \in SUBSET Nat /\ Unused(v) \in SUBSET Nat
    BY SlotsFinite DEF Named, Unused
  <1>2. \A i \in Named(v, p) : i \in Slots /\ v.node[i].used /\ v.node[i].path = p
    BY DEF Named
  <1>3. \A i \in Unused(v) : i \in Slots /\ ~v.node[i].used
    BY DEF Unused
  <1>4. Named(v, p) # {} => First(Named(v, p)) \in Named(v, p)
    BY <1>1, FirstIsIn
  <1>5. Unused(v) # {} => First(Unused(v)) \in Unused(v)
    BY <1>1, FirstIsIn
  <1> QED BY <1>2, <1>3, <1>4, <1>5

\* kmalloc hands out a buffer that is not live.
LEMMA FreshBuffer ==
  ASSUME NEW v \in Vfs, ~HeapFull(v)
  PROVE  Fresh(v) \in Buffer /\ Fresh(v) \notin v.heap /\ Fresh(v) # NoBuf
  <1>1. Buffer \ v.heap \in SUBSET Nat /\ Buffer \ v.heap # {}
    BY VfsSizes DEF Buffer, HeapFull
  <1>2. Fresh(v) \in Buffer \ v.heap
    BY <1>1, FirstIsIn DEF Fresh
  <1> QED BY <1>2 DEF Buffer, NoBuf

\* Buffers are handed out from the lowest free one.
LEMMA FreshLow ==
  ASSUME NEW v \in Vfs, NEW h \in Nat, v.heap \subseteq 1 .. h, h + 1 <= HeapSize
  PROVE  ~HeapFull(v) /\ Fresh(v) \in 1 .. h + 1
  <1>1. h + 1 \in Buffer \ v.heap /\ Buffer \ v.heap \in SUBSET Nat
    BY VfsSizes DEF Buffer
  <1>2. ~HeapFull(v)
    BY <1>1 DEF HeapFull
  <1>3. Fresh(v) <= h + 1 /\ Fresh(v) \in Buffer \ v.heap
    BY <1>1, FirstIsIn DEF Fresh
  <1> QED BY <1>2, <1>3, VfsSizes DEF Buffer

\* Giving back the buffer of a node never frees twice.
LEMMA FreedIs ==
  ASSUME NEW v \in Vfs, NEW i \in Slots, ~v.bad,
         Owned(v.node[i]) \subseteq v.heap
  PROVE  /\ Freed(v, i) \in Vfs
         /\ Freed(v, i).node = v.node
         /\ Freed(v, i).count = v.count
         /\ Freed(v, i).lost = v.lost
         /\ Freed(v, i).heap = v.heap \ Owned(v.node[i])
         /\ ~Freed(v, i).bad
  BY DEF Freed, Owned, Vfs

\* A table whose node i and counter are replaced.
LEMMA Replaced ==
  ASSUME NEW v \in Vfs, NEW i \in Slots, NEW n \in Node, NEW c \in Nat, NEW w,
         w = [node |-> [v.node EXCEPT ![i] = n], count |-> c, heap |-> v.heap,
              lost |-> v.lost, bad |-> v.bad]
  PROVE  /\ w \in Vfs /\ w.node = [v.node EXCEPT ![i] = n] /\ w.count = c
         /\ w.lost = v.lost /\ w.heap = v.heap /\ w.bad = v.bad
  <1> DEFINE m == [v.node EXCEPT ![i] = n]
  <1>1. m \in [Slots -> Node]
    BY DEF Vfs
  <1>2. v.heap \in SUBSET Buffer /\ v.lost \in SUBSET Buffer /\ v.bad \in BOOLEAN
    BY DEF Vfs
  <1> HIDE DEF m
  <1>3. ASSUME NEW h \in SUBSET Buffer, NEW l \in SUBSET Buffer, NEW b \in BOOLEAN
        PROVE  [node |-> m, count |-> c, heap |-> h, lost |-> l, bad |-> b] \in Vfs
    BY <1>1 DEF Vfs
  <1>4. w = [node |-> m, count |-> c, heap |-> v.heap, lost |-> v.lost, bad |-> v.bad]
    BY DEF m
  <1>5. w \in Vfs
    BY <1>2, <1>3, <1>4
  <1>6. w.node = m /\ w.count = c /\ w.lost = v.lost /\ w.heap = v.heap /\ w.bad = v.bad
    BY <1>4
  <1> QED BY <1>5, <1>6 DEF m

LEMMA ExceptIs ==
  ASSUME NEW v \in Vfs, NEW i \in Slots, NEW n \in Node, NEW c \in Nat, NEW w,
         w = [v EXCEPT !.node[i] = n, !.count = c]
  PROVE  w = [node |-> [v.node EXCEPT ![i] = n], count |-> c, heap |-> v.heap,
              lost |-> v.lost, bad |-> v.bad]
  BY DEF Vfs

LEMMA PlacedIs ==
  ASSUME NEW v \in Vfs, NEW i \in Slots, NEW n \in Node
  PROVE  /\ Placed(v, i, n) \in Vfs
         /\ Placed(v, i, n).node = [v.node EXCEPT ![i] = n]
         /\ Placed(v, i, n).count = IF v.node[i].used THEN v.count ELSE v.count + 1
         /\ Placed(v, i, n).lost = v.lost
         /\ Placed(v, i, n).heap = v.heap
         /\ Placed(v, i, n).bad = v.bad
  <1> DEFINE c == IF v.node[i].used THEN v.count ELSE v.count + 1
  <1>1. c \in Nat
    BY DEF Vfs
  <1> DEFINE w == Placed(v, i, n)
  <1>2. w = [v EXCEPT !.node[i] = n, !.count = c]
    BY DEF Placed
  <1> HIDE DEF c, w
  <1>3. w = [node |-> [v.node EXCEPT ![i] = n], count |-> c, heap |-> v.heap,
             lost |-> v.lost, bad |-> v.bad]
    BY <1>1, <1>2, ExceptIs
  <1>4. /\ w \in Vfs /\ w.node = [v.node EXCEPT ![i] = n] /\ w.count = c
        /\ w.lost = v.lost /\ w.heap = v.heap /\ w.bad = v.bad
    BY <1>1, <1>3, Replaced
  <1> QED BY <1>4 DEF c, w

\* What a node owns is live and only its own.
LEMMA OwnedIsLive ==
  ASSUME NEW v \in Vfs, BuffersOwned(v), NEW i \in Slots
  PROVE  /\ Owned(v.node[i]) \subseteq v.heap
         /\ ~v.node[i].used => Owned(v.node[i]) = {}
  <1>1. Owned(v.node[i]) # {} => i \in Owners(v)
    BY DEF Owned, Owners
  <1>2. Owned(v.node[i]) \subseteq v.heap
    BY <1>1 DEF Owned, BuffersOwned
  <1>3. i \in Owners(v) => v.node[i].used
    BY DEF BuffersOwned, Used, Unused
  <1> QED BY <1>1, <1>2, <1>3

\* The table w has a node p with that content.
InNode(w, p, data) == Exists(w, p) /\ Content(w, p) = data

\* A call on the path p leaves the nodes of the others, and their contents.
OthersStay(v, w, p) ==
  \A q \in Path \ {p} : Exists(v, q) => InNode(w, q, Content(v, q))

LEMMA SlotOthers ==
  ASSUME NEW v \in Vfs, NEW w \in Vfs, NEW i \in Slots, NEW n \in Node, NEW p,
         w.node = [v.node EXCEPT ![i] = n],
         v.node[i].used => v.node[i].path = p, n.used => n.path = p
  PROVE  OthersStay(v, w, p)
  <1> SUFFICES ASSUME NEW q \in Path \ {p}, Exists(v, q)
               PROVE  InNode(w, q, Content(v, q))
    BY DEF OthersStay
  <1>1. w.node[i] = n /\ \A j \in Slots \ {i} : w.node[j] = v.node[j]
    BY DEF Vfs
  <1>2. i \notin Named(v, q) /\ i \notin Named(w, q)
    BY <1>1 DEF Named
  <1>3. Named(w, q) = Named(v, q)
    BY <1>1, <1>2 DEF Named
  <1>4. First(Named(v, q)) \in Slots \ {i}
    <2>1. First(Named(v, q)) \in Slots /\ v.node[First(Named(v, q))].used
          /\ v.node[First(Named(v, q))].path = q
      BY FoundSlot DEF Exists
    <2> QED BY <2>1
  <1> QED BY <1>1, <1>3, <1>4 DEF InNode, Exists, Content

LEMMA SlotHolds ==
  ASSUME NEW v \in Vfs, NEW w \in Vfs, NEW i \in Slots, NEW n \in Node, NEW p,
         w.node = [v.node EXCEPT ![i] = n], n.used, n.path = p,
         \A j \in Used(v) \ {i} : v.node[j].path # p
  PROVE  InNode(w, p, n.data)
  <1>1. w.node[i] = n /\ \A j \in Slots \ {i} : w.node[j] = v.node[j]
    BY DEF Vfs
  <1>2. Named(w, p) = {i}
    BY <1>1 DEF Named, Used, Unused
  <1>3. First(Named(w, p)) \in Slots /\ First(Named(w, p)) \in {i}
    <2>1. Named(w, p) \in SUBSET Nat
      BY <1>2, SlotsFinite
    <2> QED BY <1>2, <2>1, FirstIsIn
  <1> QED BY <1>1, <1>2, <1>3 DEF InNode, Exists, Content

\* A table that is not full has a slot for one more node.
LEMMA RoomLeft ==
  ASSUME NEW v, Sound(v), v.count < MaxNodes
  PROVE  Unused(v) # {}
  <1> SUFFICES ASSUME Unused(v) = {} PROVE FALSE
    OBVIOUS
  <1>1. v.count = Cardinality(1 .. MaxNodes)
    BY DEF Sound, CountAgrees, Used, Slots
  <1>2. Cardinality(1 .. MaxNodes) = IF 1 > MaxNodes THEN 0 ELSE MaxNodes - 1 + 1
    BY VfsSizes, FS_Interval
  <1>3. v.count \in Nat
    BY DEF Sound, Vfs
  <1> QED BY <1>1, <1>2, <1>3, VfsSizes

LEMMA CreateDoes ==
  ASSUME NEW v, Sound(v), NEW p \in Path, NEW type \in Type, NEW data \in Data
  PROVE  /\ Sound(Create(v, p, type, data))
         /\ OthersStay(v, Create(v, p, type, data), p)
         /\ Create(v, p, type, data).heap \subseteq v.heap
         /\ Create(v, p, type, data).count <= v.count + 1
         /\ v.count < MaxNodes => InNode(Create(v, p, type, data), p, data)
  <1> DEFINE n == Static(p, type, data)
  <1>1. v \in Vfs /\ UniquePaths(v) /\ CountAgrees(v) /\ BuffersOwned(v) /\ ~v.bad
    BY DEF Sound, BuffersOwned
  <1>2. n \in Node /\ n.used /\ n.path = p /\ n.data = data /\ Owned(n) = {}
    BY DEF Static, Node, Owned
  <1>3. CASE v.count < MaxNodes /\ Named(v, p) # {}
    <2> DEFINE i == First(Named(v, p))
               f == Freed(v, i)
               w == Placed(f, i, n)
    <2>1. i \in Slots /\ v.node[i].used /\ v.node[i].path = p
      BY <1>3, FoundSlot
    <2>2. Owned(v.node[i]) \subseteq v.heap
      BY <1>1, <2>1, OwnedIsLive
    <2>3. /\ f \in Vfs /\ f.node = v.node /\ f.count = v.count /\ f.lost = v.lost
          /\ f.heap = v.heap \ Owned(v.node[i]) /\ ~f.bad
      BY <1>1, <2>1, <2>2, FreedIs
    <2> HIDE DEF i, f, n
    <2>4. /\ w \in Vfs /\ w.node = [v.node EXCEPT ![i] = n] /\ w.count = v.count
          /\ w.lost = v.lost /\ w.heap = v.heap \ Owned(v.node[i]) /\ ~w.bad
      BY <1>2, <2>1, <2>3, PlacedIs
    <2> HIDE DEF w
    <2>5. \A j \in Used(v) \ {i} : v.node[j].path # p
      BY <1>1, <2>1 DEF UniquePaths, Used, Unused
    <2>6. UniquePaths(w)
      BY <1>1, <1>2, <2>1, <2>4, <2>5, SlotPaths
    <2>7. CountAgrees(w)
      BY <1>1, <1>2, <2>1, <2>4, SlotCount
    <2>8. BuffersOwned(w)
      BY <1>1, <1>2, <2>1, <2>4, SlotBuffers
    <2>9. Create(v, p, type, data) = w
      <3>1. ~(v.count >= MaxNodes)
        BY <1>1, <1>3, VfsSizes DEF Vfs
      <3> QED BY <3>1, <1>3 DEF Create, w, f, i, n
    <2>10. OthersStay(v, w, p) /\ InNode(w, p, data)
      BY <1>1, <1>2, <2>1, <2>4, <2>5, SlotOthers, SlotHolds
    <2>11. w.heap \subseteq v.heap /\ w.count <= v.count + 1
      BY <1>1, <2>4 DEF Vfs
    <2> QED BY <2>4, <2>6, <2>7, <2>8, <2>9, <2>10, <2>11 DEF Sound
  <1>4. CASE v.count < MaxNodes /\ Named(v, p) = {} /\ Unused(v) # {}
    <2> DEFINE i == First(Unused(v))
               w == Placed(v, i, n)
    <2>1. i \in Slots /\ ~v.node[i].used
      BY <1>4, FoundSlot
    <2> HIDE DEF i, n
    <2>2. Owned(v.node[i]) = {}
      BY <1>1, <2>1, OwnedIsLive
    <2>4. /\ w \in Vfs /\ w.node = [v.node EXCEPT ![i] = n] /\ w.count = v.count + 1
          /\ w.lost = v.lost /\ w.heap = v.heap /\ ~w.bad
      BY <1>1, <1>2, <2>1, PlacedIs
    <2> HIDE DEF w
    <2>5. \A j \in Used(v) \ {i} : v.node[j].path # p
      BY <1>4 DEF Named, Used, Unused
    <2>6. UniquePaths(w)
      BY <1>1, <1>2, <2>1, <2>4, <2>5, SlotPaths
    <2>7. CountAgrees(w)
      BY <1>1, <1>2, <2>1, <2>4, SlotCount
    <2>8. BuffersOwned(w)
      BY <1>1, <1>2, <2>1, <2>2, <2>4, SlotBuffers
    <2>9. Create(v, p, type, data) = w
      <3>1. ~(v.count >= MaxNodes)
        BY <1>1, <1>4, VfsSizes DEF Vfs
      <3> QED BY <3>1, <1>4 DEF Create, w, i, n
    <2>10. OthersStay(v, w, p) /\ InNode(w, p, data)
      BY <1>1, <1>2, <2>1, <2>4, <2>5, SlotOthers, SlotHolds
    <2>11. w.heap \subseteq v.heap /\ w.count <= v.count + 1
      BY <1>1, <2>4 DEF Vfs
    <2> QED BY <2>4, <2>6, <2>7, <2>8, <2>9, <2>10, <2>11 DEF Sound
  <1>5. CASE v.count >= MaxNodes \/ (Named(v, p) = {} /\ Unused(v) = {})
    <2>1. v.count \in Nat /\ MaxNodes \in Nat
      BY <1>1, VfsSizes DEF Vfs
    <2>2. ~(v.count < MaxNodes)
      BY <1>5, <2>1, RoomLeft
    <2>3. Create(v, p, type, data) = v
      BY <1>5 DEF Create
    <2>4. OthersStay(v, v, p)
      BY DEF OthersStay, InNode
    <2> QED BY <2>1, <2>2, <2>3, <2>4
  <1> QED BY <1>1, <1>3, <1>4, <1>5, VfsSizes DEF Vfs

LEMMA WriteDoes ==
  ASSUME NEW v, Sound(v), NEW p \in Path, NEW data \in Data
  PROVE  /\ Sound(Write(v, p, data))
         /\ OthersStay(v, Write(v, p, data), p)
         /\ Write(v, p, data).heap \subseteq v.heap \cup {Fresh(v)}
         /\ Write(v, p, data).count <= v.count + 1
         /\ ~HeapFull(v) /\ (Exists(v, p) \/ Unused(v) # {}) => InNode(Write(v, p, data), p, data)
  <1> DEFINE copy == Fresh(v)
             got == [v EXCEPT !.heap = @ \cup {copy}]
  <1>1. v \in Vfs /\ UniquePaths(v) /\ CountAgrees(v) /\ BuffersOwned(v) /\ ~v.bad
    BY DEF Sound, BuffersOwned
  <1>a. OthersStay(v, v, p) /\ v.count \in Nat
    BY <1>1 DEF OthersStay, InNode, Vfs
  <1>2. CASE HeapFull(v)
    <2>1. Write(v, p, data) = v
      BY <1>2 DEF Write
    <2> QED BY <1>2, <1>a, <2>1
  <1>3. CASE ~HeapFull(v)
    <2>1. copy \in Buffer /\ copy \notin v.heap /\ copy # NoBuf
      BY <1>1, <1>3, FreshBuffer
    <2> HIDE DEF copy
    <2>2. /\ got \in Vfs /\ got.node = v.node /\ got.count = v.count
          /\ got.lost = v.lost /\ got.heap = v.heap \cup {copy} /\ ~got.bad
      BY <1>1, <2>1 DEF Vfs
    <2> HIDE DEF got
    <2>3. CASE Named(v, p) # {}
      <3> DEFINE i == First(Named(v, p))
                 f == Freed(got, i)
                 n == Dynamic(p, v.node[i].type, data, copy)
                 w == Placed(f, i, n)
      <3>1. i \in Slots /\ v.node[i].used /\ v.node[i].path = p
        BY <2>3, FoundSlot
      <3> HIDE DEF i
      <3>2. n \in Node /\ n.used /\ n.path = p /\ n.data = data /\ Owned(n) = {copy}
        BY <1>1, <2>1, <3>1 DEF Dynamic, Node, Vfs, Owned
      <3>3. Owned(v.node[i]) \subseteq v.heap
        BY <1>1, <3>1, OwnedIsLive
      <3>4. /\ f \in Vfs /\ f.node = v.node /\ f.count = v.count /\ f.lost = v.lost
            /\ f.heap = (v.heap \cup {copy}) \ Owned(v.node[i]) /\ ~f.bad
        BY <2>2, <3>1, <3>3, FreedIs
      <3> HIDE DEF f, n
      <3>5. /\ w \in Vfs /\ w.node = [v.node EXCEPT ![i] = n] /\ w.count = v.count
            /\ w.lost = v.lost /\ w.heap = (v.heap \cup {copy}) \ Owned(v.node[i])
            /\ ~w.bad
        BY <3>1, <3>2, <3>4, PlacedIs
      <3> HIDE DEF w
      <3>6. w.heap = (v.heap \ Owned(v.node[i])) \cup Owned(n)
        BY <2>1, <3>2, <3>3, <3>5
      <3>7. \A j \in Used(v) \ {i} : v.node[j].path # p
        BY <1>1, <3>1 DEF UniquePaths, Used, Unused
      <3>8. UniquePaths(w)
        BY <1>1, <3>1, <3>2, <3>5, <3>7, SlotPaths
      <3>9. CountAgrees(w)
        BY <1>1, <3>1, <3>2, <3>5, SlotCount
      <3>10. Owned(n) \cap v.heap = {}
        BY <2>1, <3>2
      <3>11. BuffersOwned(w)
        BY <1>1, <3>1, <3>2, <3>5, <3>6, <3>10, SlotBuffers
      <3>12. Write(v, p, data) = w
        BY <1>3, <2>3 DEF Write, w, f, n, i, got, copy
      <3>13. OthersStay(v, w, p) /\ InNode(w, p, data)
        BY <1>1, <3>1, <3>2, <3>5, <3>7, SlotOthers, SlotHolds
      <3>14. w.heap \subseteq v.heap \cup {copy} /\ w.count <= v.count + 1
        BY <1>a, <3>5
      <3> QED BY <3>5, <3>8, <3>9, <3>11, <3>12, <3>13, <3>14 DEF Sound, copy
    <2>4. CASE Named(v, p) = {} /\ Unused(v) # {}
      <3> DEFINE i == First(Unused(v))
                 n == Dynamic(p, "file", data, copy)
                 w == Placed(got, i, n)
      <3>1. i \in Slots /\ ~v.node[i].used
        BY <2>4, FoundSlot
      <3> HIDE DEF i
      <3>2. n \in Node /\ n.used /\ n.path = p /\ n.data = data /\ Owned(n) = {copy}
        BY <2>1 DEF Dynamic, Node, Type, Owned
      <3>3. Owned(v.node[i]) = {}
        BY <1>1, <3>1, OwnedIsLive
      <3> HIDE DEF n
      <3>5. /\ w \in Vfs /\ w.node = [v.node EXCEPT ![i] = n] /\ w.count = v.count + 1
            /\ w.lost = v.lost /\ w.heap = v.heap \cup {copy} /\ ~w.bad
        BY <2>2, <3>1, <3>2, PlacedIs
      <3> HIDE DEF w
      <3>6. w.heap = (v.heap \ Owned(v.node[i])) \cup Owned(n)
        BY <3>2, <3>3, <3>5
      <3>7. \A j \in Used(v) \ {i} : v.node[j].path # p
        BY <2>4 DEF Named, Used, Unused
      <3>8. UniquePaths(w)
        BY <1>1, <3>1, <3>2, <3>5, <3>7, SlotPaths
      <3>9. CountAgrees(w)
        BY <1>1, <3>1, <3>2, <3>5, SlotCount
      <3>10. Owned(n) \cap v.heap = {}
        BY <2>1, <3>2
      <3>11. BuffersOwned(w)
        BY <1>1, <3>1, <3>2, <3>5, <3>6, <3>10, SlotBuffers
      <3>12. Write(v, p, data) = w
        BY <1>3, <2>4 DEF Write, w, n, i, got, copy
      <3>13. OthersStay(v, w, p) /\ InNode(w, p, data)
        BY <1>1, <3>1, <3>2, <3>5, <3>7, SlotOthers, SlotHolds
      <3>14. w.heap \subseteq v.heap \cup {copy} /\ w.count <= v.count + 1
        BY <1>a, <3>5
      <3> QED BY <3>5, <3>8, <3>9, <3>11, <3>12, <3>13, <3>14 DEF Sound, copy
    <2>5. CASE Named(v, p) = {} /\ Unused(v) = {}
      <3>1. Write(v, p, data) = v
        BY <1>3, <2>5 DEF Write
      <3> QED BY <1>a, <2>5, <3>1 DEF Exists
    <2> QED BY <2>3, <2>4, <2>5
  <1> QED BY <1>2, <1>3

LEMMA DeleteDoes ==
  ASSUME NEW v, Sound(v), NEW p \in Path
  PROVE  Sound(Delete(v, p)) /\ OthersStay(v, Delete(v, p), p)
  <1>1. v \in Vfs /\ UniquePaths(v) /\ CountAgrees(v) /\ BuffersOwned(v) /\ ~v.bad
    BY DEF Sound, BuffersOwned
  <1>2. CASE Named(v, p) = {}
    BY <1>2 DEF Delete, OthersStay, InNode
  <1>3. CASE Named(v, p) # {}
    <2> DEFINE i == First(Named(v, p))
               f == Freed(v, i)
               n == [v.node[i] EXCEPT !.used = FALSE, !.path = NoPath,
                                      !.data = Empty, !.buf = NoBuf]
               w == [f EXCEPT !.node[i] = n, !.count = IF @ > 0 THEN @ - 1 ELSE @]
    <2>1. i \in Slots /\ v.node[i].used /\ v.node[i].path = p
      BY <1>3, FoundSlot
    <2>2. i \in Used(v)
      BY <2>1 DEF Used, Unused
    <2> HIDE DEF i
    <2>3. n \in Node /\ ~n.used /\ Owned(n) = {}
      BY <1>1, <2>1, VfsNames DEF Node, Vfs, Owned, NoBuf
    <2>4. Owned(v.node[i]) \subseteq v.heap
      BY <1>1, <2>1, OwnedIsLive
    <2>5. /\ f \in Vfs /\ f.node = v.node /\ f.count = v.count /\ f.lost = v.lost
          /\ f.heap = v.heap \ Owned(v.node[i]) /\ ~f.bad
      BY <1>1, <2>1, <2>4, FreedIs
    <2>6. v.count \in Nat /\ v.count > 0
      <3>1. IsFiniteSet(Used(v)) /\ Used(v) # {}
        BY <2>2, SlotsFinite, FS_Subset DEF Used
      <3>2. Cardinality(Used(v)) \in Nat /\ Cardinality(Used(v)) # 0
        BY <3>1, FS_CardinalityType, FS_EmptySet
      <3> QED BY <3>2, <1>1 DEF CountAgrees
    <2>7. Delete(v, p) = w
      BY <1>3, <2>5 DEF Delete, i
    <2> HIDE DEF f, n
    <2>8. /\ w \in Vfs /\ w.node = [v.node EXCEPT ![i] = n] /\ w.count = v.count - 1
          /\ w.lost = v.lost /\ w.heap = v.heap \ Owned(v.node[i]) /\ ~w.bad
      <3> DEFINE c == IF f.count > 0 THEN f.count - 1 ELSE f.count
      <3>1. c \in Nat /\ c = v.count - 1
        BY <2>5, <2>6
      <3>2. w = [f EXCEPT !.node[i] = n, !.count = c]
        OBVIOUS
      <3> HIDE DEF c, w
      <3>a. f \in Vfs /\ i \in Slots /\ n \in Node /\ c \in Nat
        BY <2>1, <2>3, <2>5, <3>1
      <3>3. w = [node |-> [f.node EXCEPT ![i] = n], count |-> c, heap |-> f.heap,
                 lost |-> f.lost, bad |-> f.bad]
        BY <3>a, <3>2, ExceptIs
      <3>4. /\ w \in Vfs /\ w.node = [f.node EXCEPT ![i] = n] /\ w.count = c
            /\ w.lost = f.lost /\ w.heap = f.heap /\ w.bad = f.bad
        BY <3>a, <3>3, Replaced
      <3> QED BY <2>5, <3>1, <3>4
    <2> HIDE DEF w
    <2>9. UniquePaths(w)
      BY <1>1, <2>1, <2>3, <2>8, SlotPaths
    <2>10. CountAgrees(w)
      BY <1>1, <2>1, <2>3, <2>8, SlotCount
    <2>11. BuffersOwned(w)
      BY <1>1, <2>1, <2>3, <2>8, SlotBuffers
    <2>12. OthersStay(v, w, p)
      BY <1>1, <2>1, <2>3, <2>8, SlotOthers
    <2> QED BY <2>7, <2>8, <2>9, <2>10, <2>11, <2>12 DEF Sound
  <1> QED BY <1>2, <1>3

\* kvfs_init leaves a sound table.
LEMMA BootedSound == Sound(Booted)
  <1>1. Len(Builtin) \in Nat /\ DOMAIN Builtin = 1 .. Len(Builtin)
    BY VfsBuiltin
  <1>2. DOMAIN Builtin \subseteq Slots
    BY <1>1, VfsBuiltin, VfsSizes DEF Slots
  <1>3. \A i \in DOMAIN Builtin : Builtin[i] \in [path : Path, type : Type, data : Data]
    <2> DEFINE T == [path : Path, type : Type, data : Data]
    <2>1. Builtin \in Seq(T)
      BY VfsBuiltin
    <2> HIDE DEF T
    <2>2. \A i \in DOMAIN Builtin : Builtin[i] \in T
      BY <1>1, <2>1
    <2> QED BY <2>2 DEF T
  <1>4. \A i \in Slots : Booted.node[i] \in Node
    BY <1>3, VfsNames DEF Booted, Node, NoNode, Type
  <1>5. Booted \in Vfs
    BY <1>1, <1>4 DEF Booted, Vfs
  <1>6. Used(Booted) = DOMAIN Builtin
    BY <1>2 DEF Booted, Used, Unused, NoNode
  <1>7. UniquePaths(Booted)
    <2>1. \A i \in DOMAIN Builtin : Booted.node[i].path = Builtin[i].path
      BY <1>2 DEF Booted
    <2> QED BY <1>3, <1>6, <2>1, VfsBuiltin DEF UniquePaths
  <1>8. CountAgrees(Booted)
    <2>1. Cardinality(1 .. Len(Builtin)) = Len(Builtin)
      <3>1. Len(Builtin) \in Int /\ 1 \in Int /\ Len(Builtin) >= 0
        BY <1>1
      <3>2. Cardinality(1 .. Len(Builtin)) = IF 1 > Len(Builtin) THEN 0 ELSE Len(Builtin) - 1 + 1
        BY <3>1, FS_Interval
      <3> QED BY <3>1, <3>2
    <2> QED BY <1>1, <1>6, <2>1 DEF CountAgrees, Booted
  <1>9. BuffersOwned(Booted)
    <2>1. Owners(Booted) = {}
      BY DEF Owners, Booted, NoNode
    <2> QED BY <2>1 DEF BuffersOwned, Booted
  <1> QED BY <1>5, <1>7, <1>8, <1>9 DEF Sound

-----------------------------------------------------------------------------
\* Whatever the callers do, the table of kvfs.c stays sound: no path has two
\* nodes, vfs_node_count is right, and no buffer leaks or is freed twice.
THEOREM VfsSafe == VfsSpec => []VfsSound
  <1>1. VfsInit => VfsSound
    BY BootedSound DEF VfsInit, VfsSound
  <1>2. VfsSound /\ [VfsNext]_vfs => VfsSound'
    <2> SUFFICES ASSUME VfsSound, [VfsNext]_vfs PROVE VfsSound'
      OBVIOUS
    <2>1. Sound(vfs)
      BY DEF VfsSound
    <2>2. ASSUME NEW p \in Path, NEW type \in Type, NEW data \in Data,
                 vfs' = Create(vfs, p, type, data)
          PROVE  VfsSound'
      BY <2>1, <2>2, CreateDoes DEF VfsSound
    <2>3. ASSUME NEW p \in Path, NEW data \in Data, vfs' = Write(vfs, p, data)
          PROVE  VfsSound'
      BY <2>1, <2>3, WriteDoes DEF VfsSound
    <2>4. ASSUME NEW p \in Path, vfs' = Delete(vfs, p) PROVE VfsSound'
      BY <2>1, <2>4, DeleteDoes DEF VfsSound
    <2>5. CASE UNCHANGED vfs
      BY <2>5, <2>1 DEF VfsSound
    <2> QED BY <2>2, <2>3, <2>4, <2>5 DEF VfsNext
  <1> QED BY <1>1, <1>2, PTL DEF VfsSpec

-----------------------------------------------------------------------------
(* kdiskfs.c: what the types of the disk rest on.                           *)

\* A file in a table lies on the disk, with at most two sectors, and a run of
\* n saves has used no more than two for each.
OnTheDisk(m, n) ==
  m.used => /\ m.lba >= 1 /\ m.lba + 1 <= 2 * n
            /\ m.size <= 2 /\ m.count \in 1 .. 2
Laid(t, n) == t \in TableType /\ \A e \in Entry : OnTheDisk(t[e].meta, n)

\* An entry that the table's sectors do not reach is never on disk.
OutOfReach(t) ==
  \A e \in Entry : Layout[e].meta > TableSectors => ~t[e].meta.used

Job == [raw : Raw \cup {Torn}, at : Nat, data : Data, type : Type \cup {"gone"}, lba : Nat,
        count : Nat, i : Nat, home : Homes \cup {Torn}]

DataJob ==
  /\ job.raw \in Raw /\ job.at \in Entry /\ job.type \in Type
  /\ job.lba >= 1 /\ job.lba + 1 <= 2 * saves
  /\ job.count = Needed(job.data) /\ job.i \in 1 .. job.count

\* The home directory that is still to be saved has its place in the bound.
HomeJob == job.home # Torn => saves + 1 <= MaxSaves

Forgotten == \A e \in Entry : entry[e] = NoEntry

JobInv ==
  /\ job \in Job
  /\ pc \in {"off", "formatTable"} => Forgotten
  /\ pc \in {"data", "table", "super", "home"} => HomeJob
  /\ pc = "home" => job.home # Torn
  /\ pc \in {"table", "formatTable"} => job.i \in 1 .. TableSectors
  /\ pc = "data" => DataJob
  /\ pc \in {"formatSuper", "formatTable"} => next = 1
  /\ pc = "formatTable" => sup = [magic |-> TRUE, next |-> 1] /\ stale

BaseInv ==
  /\ TypeOK
  /\ Laid(entry, saves) /\ Laid(tab, saves) /\ OutOfReach(tab)
  /\ saves \in 0 .. MaxSaves
  /\ next <= 2 * saves + 1 /\ (pc # "off" => next >= 1)
  /\ sup.next <= 2 * saves + 1 /\ (sup.magic => sup.next >= 1)
  /\ disk \in [1 .. DiskSize -> Sector]
  /\ stale \in BOOLEAN
  /\ JobInv

-----------------------------------------------------------------------------
(* ... and what keeps the files apart.  The sectors that a file has grown   *)
(* into are over.                                                          *)

Apart(t, over) ==
  /\ \A e \in InUse(t) : t[e].name = t[e].tail /\ t[e].name \in Raw
  /\ \A e, f \in InUse(t) :
       e # f => /\ t[e].name # t[f].name
                /\ Extent(t[e].meta) \cap Extent(t[f].meta) \subseteq over

\* The sectors of the files, but for those, are in front of the free ones.
Below(t, over, free) == \A e \in InUse(t) : \A s \in Extent(t[e].meta) \ over : s < free

\* Memory m and disk t agree on an entry, as far as the table is written.
SyncedAt(e, m, t) ==
  Layout[e].meta <= TableSectors =>
    /\ m[e].meta.used = t[e].meta.used
    /\ m[e].meta.used => t[e] = m[e]
Synced(m, t) == \A e \in Entry : SyncedAt(e, m, t)

\* The sectors of the table before the i-th hold what memory holds of entry c;
\* if the disk still has the entry in use, it is under the same name.
HalfSynced(c, m, t, i) ==
  /\ \A e \in Entry \ {c} : SyncedAt(e, m, t)
  /\ Layout[c].name < i => t[c].name = m[c].name
  /\ Layout[c].tail < i => t[c].tail = m[c].tail
  /\ Layout[c].meta < i => t[c].meta = m[c].meta
  /\ t[c].meta.used => t[c].name = m[c].name /\ t[c].tail = m[c].tail

\* The sectors that a save writes are its entry's, or were free.
Mine == job.lba .. job.lba + job.count - 1
SaveApart ==
  /\ \A f \in InUse(entry) \ {job.at} :
       entry[f].name # job.raw /\ Mine \cap Extent(entry[f].meta) \subseteq overrun
  /\ \A s \in Mine \ overrun : s < next
  /\ entry[job.at].meta.used => entry[job.at].name = job.raw /\ entry[job.at].tail = job.raw

ApartInv ==
  ~stale =>
    /\ Apart(tab, overrun)
    /\ pc = "off" => Below(tab, overrun, sup.next) /\ (InUse(tab) # {} => sup.magic)
    /\ Apart(entry, overrun)
    /\ pc \in {"idle", "home", "data", "table", "super"} => Below(entry, overrun, next)
    /\ pc \in {"idle", "home", "data", "super", "formatSuper"} => Synced(entry, tab)
    /\ pc = "table" => \E c \in Entry : entry[c].name = job.raw /\ HalfSynced(c, entry, tab, job.i)
    /\ pc = "data" => SaveApart

DiskInv == BaseInv /\ ApartInv

-----------------------------------------------------------------------------
(* Mounting.                                                                *)

\* The buffer that a mount reads into is lost, and only it.
LEMMA ReadSound ==
  ASSUME NEW v, Sound(v), ~HeapFull(v)
  PROVE  Sound([v EXCEPT !.heap = @ \cup {Fresh(v)}, !.lost = @ \cup {Fresh(v)}])
  <1> DEFINE b == Fresh(v)
             w == [v EXCEPT !.heap = @ \cup {b}, !.lost = @ \cup {b}]
  <1>1. v \in Vfs /\ UniquePaths(v) /\ CountAgrees(v) /\ BuffersOwned(v)
    BY DEF Sound
  <1>2. b \in Buffer /\ b \notin v.heap
    BY <1>1, FreshBuffer
  <1> HIDE DEF b
  <1>3. /\ w \in Vfs /\ w.node = v.node /\ w.count = v.count /\ w.bad = v.bad
        /\ w.heap = v.heap \cup {b} /\ w.lost = v.lost \cup {b}
    BY <1>1, <1>2 DEF Vfs
  <1> HIDE DEF w
  <1>4. Used(w) = Used(v) /\ Owners(w) = Owners(v)
    BY <1>3 DEF Used, Unused, Owners
  <1>5. UniquePaths(w) /\ CountAgrees(w)
    BY <1>1, <1>3, <1>4 DEF UniquePaths, CountAgrees
  <1>6. BuffersOwned(w)
    <2>1. \A i \in Owners(v) : v.node[i].buf \in v.heap /\ v.node[i].buf \notin v.lost
      BY <1>1 DEF BuffersOwned
    <2> QED BY <2>1, <1>1, <1>2, <1>3, <1>4 DEF BuffersOwned
  <1> QED BY <1>3, <1>5, <1>6 DEF Sound, w, b

\* What a file holds on disk is a content.
LEMMA OnDiskIs ==
  ASSUME NEW m \in Meta, m.used, OnTheDisk(m, saves), saves \in 0 .. MaxSaves,
         disk \in [1 .. DiskSize -> Sector]
  PROVE  OnDisk(m) \in Data
  <1>1. m.size \in 0 .. 2 /\ m.lba \in Nat /\ m.lba >= 1 /\ m.lba + 1 <= 2 * saves
    BY DEF Meta, OnTheDisk
  <1>2. 2 * saves <= DiskSize /\ DiskSize \in Nat
    BY DiskAssumption
  <1>3. ASSUME NEW s \in 1 .. m.size PROVE disk[m.lba + s - 1] \in Sector
    <2>1. m.lba + s - 1 \in 1 .. DiskSize
      BY <1>1, <1>2
    <2> QED BY <2>1
  <1>4. OnDisk(m) \in [1 .. m.size -> Sector]
    BY <1>3 DEF OnDisk
  <1> QED BY <1>1, <1>4, DiskAssumption

LEMMA LoadedSound ==
  ASSUME NEW v, Sound(v), NEW e \in Entry, Laid(tab, saves), saves \in 0 .. MaxSaves,
         disk \in [1 .. DiskSize -> Sector]
  PROVE  Sound(Loaded(v, e))
  <1> DEFINE m == tab[e].meta
             p == Clean[PathOf(tab[e])]
             read == [v EXCEPT !.heap = @ \cup {Fresh(v)}, !.lost = @ \cup {Fresh(v)}]
  <1>1. m \in Meta /\ OnTheDisk(m, saves)
    BY DEF Laid, TableType
  <1>2. p \in Path
    <2>1. tab[e].name \in Raw \cup {NoPath} /\ tab[e].tail \in Raw \cup {NoPath}
      BY DEF Laid, TableType
    <2> QED BY <2>1, DiskAssumption DEF PathOf
  <1>3. Empty \in Data
    BY VfsNames
  <1>4. m.used /\ ~HeapFull(v) => Sound(read) /\ OnDisk(m) \in Data
    BY <1>1, ReadSound, OnDiskIs
  <1>5. m.type \in Type /\ "dir" \in Type
    BY <1>1 DEF Meta, Type
  <1>6. Loaded(v, e) = IF ~m.used THEN v
                       ELSE IF m.type = "dir" THEN Create(v, p, "dir", Empty)
                       ELSE IF m.size = 0 THEN Create(v, p, m.type, Empty)
                       ELSE IF HeapFull(v) THEN v
                       ELSE Write(read, p, OnDisk(m))
    BY DEF Loaded, Mkdir
  <1> HIDE DEF m, p, read
  <1> QED BY <1>2, <1>3, <1>4, <1>5, <1>6, CreateDoes, WriteDoes

\* What an entry's node holds after a mount.
Stored(m) == IF m.type = "dir" \/ m.size = 0 THEN Empty ELSE OnDisk(m)

LEMMA ReadIs ==
  ASSUME NEW v, Sound(v), NEW b, b = Fresh(v)
  PROVE  LET read == [v EXCEPT !.heap = @ \cup {b}, !.lost = @ \cup {b}]
         IN  read.node = v.node /\ read.count = v.count /\ read.heap = v.heap \cup {b}
  BY DEF Sound, Vfs

\* Where there is room for one more node and two more buffers, an entry in
\* use gets its node.
LEMMA LoadedDoes ==
  ASSUME NEW v, Sound(v), NEW e \in InUse(tab), Laid(tab, saves), saves \in 0 .. MaxSaves,
         disk \in [1 .. DiskSize -> Sector],
         v.count < MaxNodes, NEW h \in Nat, v.heap \subseteq 1 .. h, h + 2 <= HeapSize,
         NEW new, new = Loaded(v, e), NEW p, p = Clean[PathOf(tab[e])]
  PROVE  /\ OthersStay(v, new, p) /\ InNode(new, p, Stored(tab[e].meta))
         /\ new.count <= v.count + 1 /\ new.heap \subseteq 1 .. h + 2
  <1> DEFINE m == tab[e].meta
             b == Fresh(v)
             read == [v EXCEPT !.heap = @ \cup {b}, !.lost = @ \cup {b}]
  <1>1. e \in Entry /\ m \in Meta /\ OnTheDisk(m, saves) /\ m.used /\ v \in Vfs /\ v.count \in Nat
    BY DEF Laid, TableType, InUse, Sound, Vfs
  <1>2. p \in Path
    <2>1. tab[e].name \in Raw \cup {NoPath} /\ tab[e].tail \in Raw \cup {NoPath}
      BY <1>1 DEF Laid, TableType
    <2> QED BY <2>1, DiskAssumption DEF PathOf
  <1>3. Empty \in Data /\ m.type \in Type /\ "dir" \in Type
    BY <1>1, VfsNames DEF Meta, Type
  <1>4. ~HeapFull(v) /\ b \in 1 .. h + 1
    BY <1>1, VfsSizes, FreshLow
  <1>5. Sound(read) /\ OnDisk(m) \in Data
    BY <1>1, <1>4, ReadSound, OnDiskIs
  <1>6. read.node = v.node /\ read.count = v.count /\ read.heap = v.heap \cup {b}
    BY ReadIs
  <1>7. Loaded(v, e) = IF m.type = "dir" THEN Create(v, p, "dir", Empty)
                       ELSE IF m.size = 0 THEN Create(v, p, m.type, Empty)
                       ELSE Write(read, p, OnDisk(m))
    BY <1>1, <1>4 DEF Loaded, Mkdir
  <1> HIDE DEF b, read
  <1>8. Unused(v) # {}
    BY RoomLeft
  <1>9. CASE m.type = "dir" \/ m.size = 0
    <2> DEFINE type == IF m.type = "dir" THEN "dir" ELSE m.type
               w == Create(v, p, type, Empty)
    <2>1. type \in Type /\ Loaded(v, e) = w /\ Stored(m) = Empty
      BY <1>3, <1>7, <1>9 DEF Stored
    <2> HIDE DEF m, type
    <2>2. /\ OthersStay(v, w, p) /\ w.heap \subseteq v.heap /\ w.count <= v.count + 1
          /\ InNode(w, p, Empty)
      BY <1>2, <1>3, <2>1, CreateDoes
    <2>3. w.heap \subseteq 1 .. h + 2
      BY <2>2
    <2> QED BY <2>1, <2>2, <2>3 DEF m
  <1>10. CASE ~(m.type = "dir" \/ m.size = 0)
    <2> DEFINE w == Write(read, p, OnDisk(m))
    <2>1. Loaded(v, e) = w /\ Stored(m) = OnDisk(m)
      BY <1>7, <1>10 DEF Stored
    <2> DEFINE data == OnDisk(m)
    <2> HIDE DEF m, data
    <2>2. read.heap \subseteq 1 .. h + 1 /\ h + 1 \in Nat /\ (h + 1) + 1 <= HeapSize /\ read \in Vfs
      BY <1>4, <1>5, <1>6, VfsSizes DEF Sound
    <2>3. ~HeapFull(read) /\ Fresh(read) \in 1 .. (h + 1) + 1
      BY <2>2, FreshLow
    <2>4. Unused(read) # {}
      BY <1>6, <1>8 DEF Unused
    <2>5. /\ OthersStay(read, w, p) /\ w.heap \subseteq read.heap \cup {Fresh(read)}
          /\ w.count <= read.count + 1 /\ InNode(w, p, data)
      BY <1>2, <1>5, <2>3, <2>4, WriteDoes DEF data
    <2>6. w.heap \subseteq 1 .. h + 2 /\ w.count <= v.count + 1
      <3>1. 1 .. h + 1 \subseteq 1 .. h + 2 /\ 1 .. (h + 1) + 1 \subseteq 1 .. h + 2
        OBVIOUS
      <3> HIDE DEF w
      <3> QED BY <1>6, <2>2, <2>3, <2>5, <3>1
    <2>7. OthersStay(v, w, p)
      <3>1. \A q : Exists(read, q) = Exists(v, q) /\ Content(read, q) = Content(v, q)
        BY <1>6 DEF Exists, Content, Named
      <3> HIDE DEF w
      <3> QED BY <2>5, <3>1 DEF OthersStay
    <2> QED BY <2>1, <2>5, <2>6, <2>7 DEF m, data
  <1> QED BY <1>9, <1>10

\* The mount's loop goes through the table from its first entry to its last.
LEMMA MountSteps ==
  \E f : /\ Mounted = f[MaxFiles] /\ f[0] = Booted
         /\ \A e \in Entry : f[e] = Loaded(f[e - 1], e)
  <1> DEFINE Runs(f, n) == /\ f = [e \in 0 .. n |-> IF e = 0 THEN Booted ELSE Loaded(f[e - 1], e)]
             stuck == {n \in 0 .. MaxFiles : ~\E f : Runs(f, n)}
  <1>1. MaxFiles \in Nat
    BY DiskAssumption
  <1>2. stuck = {}
    <2> SUFFICES ASSUME stuck # {} PROVE FALSE
      OBVIOUS
    <2>1. stuck \in SUBSET Nat
      BY <1>1
    <2> DEFINE n == First(stuck)
    <2>2. n \in stuck
      BY <2>1, FirstIsIn
    <2>3. \A j \in stuck : n <= j
      BY <2>1, FirstIsIn
    <2> HIDE DEF n
    <2>4. n \in 0 .. MaxFiles /\ ~\E f : Runs(f, n)
      BY <2>2
    <2>5. CASE n = 0
      <3> DEFINE g == [e \in 0 .. 0 |-> Booted]
      <3>1. g = [e \in 0 .. 0 |-> IF e = 0 THEN Booted ELSE Loaded(g[e - 1], e)]
        OBVIOUS
      <3> QED BY <2>4, <2>5, <3>1
    <2>6. CASE n # 0
      <3>1. n - 1 \in 0 .. MaxFiles /\ n - 1 \notin stuck
        BY <2>3, <2>4, <2>6, <1>1
      <3>2. PICK f : Runs(f, n - 1)
        BY <3>1
      <3> DEFINE g == [e \in 0 .. n |-> IF e = n THEN Loaded(f[n - 1], n) ELSE f[e]]
      <3>3. ASSUME NEW e \in 0 .. n
            PROVE  g[e] = IF e = 0 THEN Booted ELSE Loaded(g[e - 1], e)
        <4>1. CASE e = n
          <5>1. n - 1 \in 0 .. n /\ n - 1 # n
            BY <2>4, <2>6
          <5>2. g[n - 1] = f[n - 1]
            BY <5>1
          <5> QED BY <4>1, <5>2, <2>6
        <4>2. CASE e # n
          <5>1. e \in 0 .. n - 1 /\ n \in Nat
            BY <4>2, <2>4
          <5>2. f[e] = IF e = 0 THEN Booted ELSE Loaded(f[e - 1], e)
            BY <5>1, <3>2
          <5>3. e # 0 => e - 1 \in 0 .. n /\ e - 1 # n
            BY <5>1
          <5> QED BY <4>2, <5>2, <5>3
        <4> QED BY <4>1, <4>2
      <3>4. g = [e \in 0 .. n |-> IF e = 0 THEN Booted ELSE Loaded(g[e - 1], e)]
        <4>1. g = [e \in 0 .. n |-> g[e]]
          OBVIOUS
        <4> HIDE DEF g
        <4> QED BY <3>3, <4>1
      <3> QED BY <2>4, <3>4
    <2> QED BY <2>5, <2>6
  <1>3. \E f : Runs(f, MaxFiles)
    <2>1. MaxFiles \in 0 .. MaxFiles /\ MaxFiles \notin stuck
      BY <1>1, <1>2
    <2> HIDE DEF Runs
    <2> QED BY <2>1
  <1> DEFINE up == CHOOSE f : Runs(f, MaxFiles)
  <1>4. Runs(up, MaxFiles)
    BY <1>3
  <1>5. Mounted = up[MaxFiles]
    BY DEF Mounted
  <1> HIDE DEF up
  <1>6. up[0] = Booted /\ \A e \in Entry : up[e] = Loaded(up[e - 1], e)
    <2>1. 0 \in 0 .. MaxFiles /\ \A e \in Entry : e \in 0 .. MaxFiles /\ e # 0
      BY <1>1 DEF Entry
    <2> QED BY <1>4, <2>1
  <1> QED BY <1>5, <1>6

LEMMA MountedSound ==
  ASSUME Laid(tab, saves), saves \in 0 .. MaxSaves, disk \in [1 .. DiskSize -> Sector]
  PROVE  Sound(Mounted)
  <1>1. PICK f : /\ Mounted = f[MaxFiles] /\ f[0] = Booted
                 /\ \A e \in Entry : f[e] = Loaded(f[e - 1], e)
    BY MountSteps
  <1> DEFINE broken == {n \in 0 .. MaxFiles : ~Sound(f[n])}
  <1>2. MaxFiles \in Nat
    BY DiskAssumption
  <1>3. broken = {}
    <2> SUFFICES ASSUME broken # {} PROVE FALSE
      OBVIOUS
    <2>1. broken \in SUBSET Nat
      BY <1>2
    <2> DEFINE n == First(broken)
    <2>2. n \in broken /\ \A j \in broken : n <= j
      BY <2>1, FirstIsIn
    <2> HIDE DEF n
    <2>3. n # 0
      BY <1>1, <2>2, BootedSound
    <2>4. n \in Entry /\ n - 1 \in 0 .. MaxFiles /\ n - 1 \notin broken
      BY <1>2, <2>2, <2>3 DEF Entry
    <2>5. Sound(f[n - 1])
      BY <2>4
    <2>6. f[n] = Loaded(f[n - 1], n)
      BY <1>1, <2>4
    <2>7. Sound(f[n])
      BY <2>4, <2>5, <2>6, LoadedSound
    <2> QED BY <2>2, <2>7
  <1> QED BY <1>1, <1>2, <1>3

LEMMA LayoutIs ==
  ASSUME NEW e \in Entry
  PROVE  /\ Layout[e].name \in Nat /\ Layout[e].tail \in Nat /\ Layout[e].meta \in Nat
         /\ 1 <= Layout[e].name /\ Layout[e].name <= Layout[e].tail
         /\ Layout[e].tail <= Layout[e].meta
         /\ TableSectors \in Nat /\ TableSectors >= 1
  BY DiskAssumption DEF Entry

\* No call of a mount is refused, and a mount brings back every entry in use
\* whose node no later entry takes.
LEMMA MountHolds ==
  ASSUME RoomToMount, Laid(tab, saves), OutOfReach(tab),
         saves \in 0 .. MaxSaves, disk \in [1 .. DiskSize -> Sector],
         \A e \in InUse(tab) : tab[e].name = tab[e].tail /\ tab[e].name \in Raw,
         \A e, g \in InUse(tab) : e # g => tab[e].name # tab[g].name,
         NEW e \in InUse(tab), \A k \in InUse(tab) : e < k => Clean[tab[k].name] # Clean[tab[e].name]
  PROVE  InNode(Mounted, Clean[tab[e].name], Stored(tab[e].meta))
  <1> DEFINE p == Clean[tab[e].name]
             data == Stored(tab[e].meta)
  <1>1. PICK f : /\ Mounted = f[MaxFiles] /\ f[0] = Booted
                 /\ \A k \in Entry : f[k] = Loaded(f[k - 1], k)
    BY MountSteps
  <1>2. PICK n \in 0 .. MaxFiles :
               /\ \A k \in Entry : Persisted(k) => k <= n
               /\ Len(Builtin) + n <= MaxNodes /\ 2 * n <= HeapSize
    BY DEF RoomToMount
  <1>3. MaxFiles \in Nat /\ n \in Nat /\ Len(Builtin) \in Nat /\ MaxNodes \in Nat /\ HeapSize \in Nat
    BY <1>2, DiskAssumption, VfsBuiltin, VfsSizes
  <1>4. e \in Entry /\ p \in Path
    BY DiskAssumption DEF InUse
  <1> DEFINE Good(k) == /\ Sound(f[k])
                        /\ k <= n => /\ f[k].count <= Len(Builtin) + k
                                     /\ f[k].heap \subseteq 1 .. 2 * k
                        /\ e <= k => InNode(f[k], p, data)
             wrong == {k \in 0 .. MaxFiles : ~Good(k)}
  <1>5. Good(0)
    <2>1. Booted.count = Len(Builtin) /\ Booted.heap = {}
      BY DEF Booted
    <2>2. ~(e <= 0)
      BY <1>4 DEF Entry
    <2> QED BY <1>1, <1>3, <2>1, <2>2, BootedSound
  <1>6. ASSUME NEW k \in 1 .. MaxFiles, Good(k - 1) PROVE Good(k)
    <2> DEFINE v == f[k - 1]
               w == f[k]
    <2>1. k \in Entry /\ w = Loaded(v, k) /\ Sound(v)
      BY <1>1, <1>6 DEF Entry
    <2>2. Sound(w)
      BY <2>1, LoadedSound
    <2>3. CASE k \notin InUse(tab)
      <3>1. w = v
        BY <2>1, <2>3 DEF Loaded, InUse
      <3>2. k # e
        BY <2>3
      <3>3. e <= k => e <= k - 1
        BY <1>4, <3>2 DEF Entry
      <3>4. k <= n => k - 1 <= n /\ v.count <= Len(Builtin) + (k - 1) /\ v.heap \subseteq 1 .. 2 * (k - 1)
        BY <1>3, <1>6
      <3>5. v.count \in Nat
        BY <2>1 DEF Sound, Vfs
      <3>6. k <= n => v.count <= Len(Builtin) + k /\ v.heap \subseteq 1 .. 2 * k
        <4>1. 1 .. 2 * (k - 1) \subseteq 1 .. 2 * k
          BY <1>3
        <4> QED BY <1>3, <3>4, <3>5, <4>1
      <3> HIDE DEF v, w, p, data
      <3>7. e <= k => InNode(w, p, data)
        BY <1>6, <3>1, <3>3 DEF v
      <3> QED BY <2>2, <3>1, <3>6, <3>7 DEF w
    <2>4. CASE k \in InUse(tab)
      <3>1. Persisted(k)
        BY <2>1, <2>4, LayoutIs DEF OutOfReach, InUse, Persisted
      <3>2. k <= n
        BY <1>2, <2>1, <3>1
      <3>3. v.count <= Len(Builtin) + (k - 1) /\ v.heap \subseteq 1 .. 2 * (k - 1) /\ v.count \in Nat
        BY <1>3, <1>6, <2>1, <3>2 DEF Sound, Vfs
      <3> DEFINE h == 2 * (k - 1)
      <3>12. k \in 1 .. n /\ n \in Nat
        BY <1>3, <3>2
      <3> HIDE DEF v, w
      <3>9. h \in Nat /\ h + 2 = 2 * k /\ h + 2 <= 2 * n
        BY <3>12
      <3> HIDE DEF h
      <3>10. h + 2 <= HeapSize
        <4> HIDE DEF p, data, Good, wrong
        <4> QED BY <1>2, <1>3, <3>9
      <3>11. v.count < MaxNodes
        <4> HIDE DEF p, data, Good, wrong
        <4> QED BY <1>2, <1>3, <3>3, <3>12
      <3>4. v.count < MaxNodes /\ h \in Nat /\ h + 2 <= HeapSize /\ h + 2 = 2 * k
            /\ v.heap \subseteq 1 .. h
        BY <3>3, <3>9, <3>10, <3>11 DEF h
      <3>5. PathOf(tab[k]) = tab[k].name
        BY <2>4 DEF PathOf
      <3>6. /\ OthersStay(v, w, Clean[tab[k].name]) /\ InNode(w, Clean[tab[k].name], Stored(tab[k].meta))
            /\ w.count <= v.count + 1 /\ w.heap \subseteq 1 .. 2 * k
        <4> DEFINE q == Clean[tab[k].name]
        <4>1. q = Clean[PathOf(tab[k])]
          BY <3>5
        <4> HIDE DEF q
        <4>2. /\ OthersStay(v, w, q) /\ InNode(w, q, Stored(tab[k].meta))
              /\ w.count <= v.count + 1 /\ w.heap \subseteq 1 .. h + 2
          BY <2>1, <2>4, <3>4, <4>1, LoadedDoes
        <4> QED BY <3>4, <4>2 DEF q
      <3>7. w.count <= Len(Builtin) + k
        <4>1. w.count \in Nat
          BY <2>2 DEF Sound, Vfs
        <4> QED BY <1>3, <3>3, <3>6, <4>1
      <3>8. ASSUME e <= k PROVE InNode(w, p, data)
        <4>1. CASE e = k
          BY <3>6, <4>1
        <4>2. CASE e # k
          <5>1. e <= k - 1
            BY <1>4, <3>8, <4>2 DEF Entry
          <5>2. InNode(v, p, data)
            BY <1>6, <5>1 DEF v
          <5>3. p # Clean[tab[k].name]
            <6>1. e < k
              BY <1>4, <2>1, <5>1, <1>3 DEF Entry
            <6> QED BY <2>4, <6>1
          <5> HIDE DEF w, p, data
          <5> QED BY <1>4, <3>6, <5>2, <5>3 DEF OthersStay, InNode
        <4> QED BY <4>1, <4>2
      <3> QED BY <2>2, <3>6, <3>7, <3>8 DEF w
    <2> QED BY <2>3, <2>4
  <1> HIDE DEF Good
  <1>7. wrong = {}
    <2> SUFFICES ASSUME wrong # {} PROVE FALSE
      OBVIOUS
    <2>1. wrong \in SUBSET Nat
      BY <1>3
    <2> DEFINE k == First(wrong)
    <2>2. k \in wrong /\ \A j \in wrong : k <= j
      BY <2>1, FirstIsIn
    <2> HIDE DEF k
    <2>3. k \in 0 .. MaxFiles /\ k # 0 /\ ~Good(k)
      BY <1>5, <2>2
    <2>4. k \in 1 .. MaxFiles /\ k - 1 \in 0 .. MaxFiles /\ k - 1 \notin wrong
      BY <1>3, <2>2, <2>3
    <2>5. Good(k - 1)
      BY <2>4
    <2> QED BY <1>6, <2>3, <2>4, <2>5
  <1>8. Good(MaxFiles)
    BY <1>3, <1>7
  <1>9. e <= MaxFiles
    BY <1>4 DEF Entry
  <1> QED BY <1>1, <1>8, <1>9 DEF Good

-----------------------------------------------------------------------------
(* One sector of the table.                                                 *)

LEMMA TableSectorIs ==
  ASSUME NEW t, NEW i, NEW e \in Entry
  PROVE  /\ TableSector(t, i)[e].name = IF Layout[e].name = i THEN entry[e].name ELSE t[e].name
         /\ TableSector(t, i)[e].tail = IF Layout[e].tail = i THEN entry[e].tail ELSE t[e].tail
         /\ TableSector(t, i)[e].meta = IF Layout[e].meta = i THEN entry[e].meta ELSE t[e].meta
  BY DEF TableSector

LEMMA TableSectorLaid ==
  ASSUME Laid(entry, saves), Laid(tab, saves), OutOfReach(tab), NEW i \in 1 .. TableSectors
  PROVE  Laid(TableSector(tab, i), saves) /\ OutOfReach(TableSector(tab, i))
  <1> DEFINE t == TableSector(tab, i)
  <1>1. t \in TableType
    BY DEF TableSector, Laid, TableType
  <1>2. ASSUME NEW e \in Entry PROVE t[e].meta \in {entry[e].meta, tab[e].meta}
    BY TableSectorIs
  <1>3. ASSUME NEW e \in Entry PROVE OnTheDisk(t[e].meta, saves)
    <2> HIDE DEF t
    <2> QED BY <1>2 DEF Laid
  <1>4. ASSUME NEW e \in Entry, Layout[e].meta > TableSectors PROVE t[e].meta = tab[e].meta
    <2>1. Layout[e].meta # i
      BY <1>4, LayoutIs
    <2> QED BY <2>1, TableSectorIs
  <1> HIDE DEF t
  <1>5. Laid(t, saves) /\ OutOfReach(t)
    BY <1>1, <1>3, <1>4 DEF Laid, OutOfReach
  <1> QED BY <1>5 DEF t

-----------------------------------------------------------------------------
(* BaseInv, action by action.                                               *)

LEMMA MoreSaves ==
  ASSUME NEW t, NEW n \in Nat, Laid(t, n)
  PROVE  Laid(t, n + 1)
  <1>1. ASSUME NEW e \in Entry PROVE OnTheDisk(t[e].meta, n + 1)
    <2>1. OnTheDisk(t[e].meta, n) /\ t[e].meta.lba \in Nat
      BY DEF Laid, TableType, Meta
    <2> QED BY <2>1 DEF OnTheDisk
  <1> QED BY <1>1 DEF Laid

LEMMA NoEntries ==
  ASSUME NEW n
  PROVE  /\ Laid([e \in Entry |-> NoEntry], n)
         /\ \A e \in Entry : ~[x \in Entry |-> NoEntry][e].meta.used
  BY DEF Laid, TableType, Meta, NoEntry, NoMeta, OnTheDisk, Type

LEMMA DataIs ==
  ASSUME NEW data \in Data
  PROVE  /\ Len(data) \in 0 .. 2 /\ Needed(data) \in 1 .. 2
         /\ Len(data) <= Needed(data)
         /\ \A i \in 1 .. Len(data) : data[i] \in Sector
  <1>1. PICK n \in 0 .. 2 : data \in [1 .. n -> Sector]
    BY DiskAssumption
  <1>2. data \in Seq(Sector) /\ Len(data) = n
    BY <1>1
  <1> QED BY <1>1, <1>2 DEF Needed

LEMMA NoJobIs ==
  /\ NoJob \in Job /\ NoJob.home = Torn
  /\ [NoJob EXCEPT !.i = 1] \in Job /\ [NoJob EXCEPT !.i = 1].i = 1
  BY VfsNames DEF NoJob, Job, Type

LEMMA BaseInit == Init => BaseInv
  <1> SUFFICES ASSUME Init PROVE BaseInv
    OBVIOUS
  <1>1. Sound(vfs)
    BY BootedSound DEF Init
  <1>2. /\ Laid(entry, saves) /\ Laid(tab, saves) /\ OutOfReach(tab) /\ Forgotten
        /\ entry \in TableType /\ tab \in TableType
    BY NoEntries DEF Init, OutOfReach, Forgotten, Laid
  <1>3. Zeroed \in Sector /\ saves \in 0 .. MaxSaves
    BY DiskAssumption DEF Init, Zeroed, Sector
  <1>4. disk \in [1 .. DiskSize -> Sector] /\ DOMAIN disk = 1 .. DiskSize
    BY <1>3 DEF Init
  <1>5. JobInv
    BY <1>2, NoJobIs DEF Init, JobInv
  <1>a. saves = 0 /\ next = 0 /\ sup = [magic |-> FALSE, next |-> 0] /\ stale = FALSE /\ pc = "off"
    BY DEF Init
  <1>6. /\ next \in Nat /\ sup \in [magic : BOOLEAN, next : Nat] /\ stale \in BOOLEAN
        /\ next <= 2 * saves + 1 /\ sup.next <= 2 * saves + 1 /\ ~sup.magic /\ pc = "off"
    <2>1. sup \in [magic : BOOLEAN, next : Nat] /\ sup.next = 0 /\ ~sup.magic
      BY <1>a
    <2>2. next \in Nat /\ stale \in BOOLEAN /\ pc = "off"
      BY <1>a
    <2>3. next <= 2 * saves + 1 /\ sup.next <= 2 * saves + 1
      BY ONLY <2>1, <1>a
    <2> QED BY <2>1, <2>2, <2>3
  <1> QED BY <1>1, <1>2, <1>3, <1>4, <1>5, <1>6 DEF BaseInv, TypeOK, VfsSound

LEMMA BaseBoot == BaseInv /\ (Boot \/ BootBlank) => BaseInv'
  <1> SUFFICES ASSUME BaseInv, Boot \/ BootBlank PROVE BaseInv'
    OBVIOUS
  <1>1. CASE Boot
    <2>1. Sound(vfs')
      BY <1>1, MountedSound DEF BaseInv, Boot
    <2>2. JobInv'
      BY <1>1 DEF Boot, BaseInv, JobInv
    <2> QED BY <1>1, <2>1, <2>2 DEF BaseInv, TypeOK, VfsSound, Boot, diskVars, bounds, history
  <1>2. CASE BootBlank
    <2>1. JobInv'
      BY <1>2 DEF BootBlank, BaseInv, JobInv
    <2> QED BY <1>2, <2>1 DEF BaseInv, TypeOK, VfsSound, BootBlank, diskVars, bounds, history
  <1> QED BY <1>1, <1>2

LEMMA BaseFormat ==
  BaseInv /\ (Format \/ FormatSuper \/ FormatRefused \/ \E ok \in BOOLEAN : FormatTable(ok)) => BaseInv'
  <1> SUFFICES ASSUME BaseInv,
                      Format \/ FormatSuper \/ FormatRefused \/ \E ok \in BOOLEAN : FormatTable(ok)
               PROVE  BaseInv'
    OBVIOUS
  <1>1. CASE Format
    <2>1. JobInv'
      BY <1>1 DEF Format, BaseInv, JobInv
    <2> QED BY <1>1, <2>1 DEF BaseInv, TypeOK, VfsSound, Format, diskVars, bounds, history
  <1>2. CASE FormatSuper
    <2>1. next = 1
      BY <1>2 DEF FormatSuper, BaseInv, JobInv
    <2>2. Laid(entry, saves)' /\ Forgotten' /\ entry' \in TableType
      BY <1>2, NoEntries DEF FormatSuper, Forgotten, Laid
    <2>3. JobInv'
      <3>1. job'.i = 1 /\ job' \in Job
        BY <1>2, NoJobIs DEF FormatSuper
      <3>2. sup' = [magic |-> TRUE, next |-> 1] /\ next' = 1 /\ stale' /\ pc' = "formatTable"
        BY <1>2, <2>1 DEF FormatSuper
      <3> QED BY <2>2, <3>1, <3>2, DiskAssumption DEF JobInv
    <2>4. sup' = [magic |-> TRUE, next |-> 1]
      BY <1>2, <2>1 DEF FormatSuper
    <2> QED BY <1>2, <2>1, <2>2, <2>3, <2>4 DEF BaseInv, TypeOK, VfsSound, FormatSuper
  <1>3. CASE FormatRefused
    <2>1. JobInv'
      BY <1>3 DEF FormatRefused, BaseInv, JobInv
    <2>2. stale' \in BOOLEAN
      BY <1>3 DEF FormatRefused, BaseInv
    <2> QED BY <1>3, <2>1, <2>2 DEF BaseInv, TypeOK, VfsSound, FormatRefused, ramVars, diskVars
  <1>4. ASSUME NEW ok \in BOOLEAN, FormatTable(ok) PROVE BaseInv'
    <2>1. job.i \in 1 .. TableSectors
      BY <1>4 DEF FormatTable, BaseInv, JobInv
    <2>2. Laid(tab', saves) /\ OutOfReach(tab')
      BY <1>4, <2>1, TableSectorLaid DEF FormatTable, BaseInv
    <2>3. JobInv' /\ stale' \in BOOLEAN
      <3>1. CASE job.i < TableSectors
        <4>1. job'.i = job.i + 1 /\ job' \in Job
          <5>1. job \in Job /\ job' = [job EXCEPT !.i = @ + 1]
            BY <1>4, <3>1 DEF FormatTable, BaseInv, JobInv
          <5> QED BY <5>1 DEF Job
        <4>2. /\ pc' = pc /\ entry' = entry /\ next' = next /\ sup' = sup /\ stale' = stale
              /\ pc = "formatTable" /\ job' = [job EXCEPT !.i = @ + 1]
          BY <1>4, <3>1 DEF FormatTable, ramVars, history
        <4>3. Forgotten /\ next = 1 /\ sup = [magic |-> TRUE, next |-> 1] /\ stale
          BY <4>2 DEF BaseInv, JobInv
        <4>4. job'.i \in 1 .. TableSectors
          BY <2>1, <3>1, <4>1, DiskAssumption
        <4>5. Forgotten'
          BY <4>2, <4>3 DEF Forgotten
        <4>6. JobInv'
          BY <4>1, <4>2, <4>3, <4>4, <4>5 DEF JobInv
        <4> QED BY <4>2, <4>6 DEF BaseInv
      <3>2. CASE ~(job.i < TableSectors)
        BY <1>4, <3>2, NoJobIs DEF FormatTable, JobInv
      <3> QED BY <3>1, <3>2
    <2> QED BY <1>4, <2>2, <2>3 DEF BaseInv, TypeOK, VfsSound, FormatTable, ramVars, Laid
  <1> QED BY <1>1, <1>2, <1>3, <1>4

\* The entry that a save takes has the file's name, or is not in use.
LEMMA EntryForIs ==
  ASSUME NEW r \in Raw
  PROVE  /\ Matching(r) # {} => First(Matching(r)) \in Matching(r)
         /\ Matching(r) # {} => EntryFor(r) \in Matching(r)
         /\ Matching(r) = {} /\ ~NoEntryFor(r) => EntryFor(r) \in Vacant
         /\ Matching(r) \subseteq InUse(entry) /\ InUse(entry) \subseteq Entry /\ Vacant = Entry \ InUse(entry)
         /\ \A e \in Matching(r) : entry[e].name = r /\ entry[e].tail = r
  <1>1. Entry \subseteq Nat
    BY DiskAssumption DEF Entry
  <1>2. Matching(r) \in SUBSET Nat /\ Vacant \in SUBSET Nat
    BY <1>1 DEF Matching, Vacant, InUse
  <1>3. Matching(r) # {} => First(Matching(r)) \in Matching(r)
    BY <1>2, FirstIsIn
  <1>4. Vacant # {} => First(Vacant) \in Vacant
    BY <1>2, FirstIsIn
  <1>5. \A e \in Matching(r) : entry[e].name = r /\ entry[e].tail = r
    BY DiskAssumption DEF Matching, PathOf
  <1> QED BY <1>3, <1>4, <1>5 DEF EntryFor, NoEntryFor, Matching, Vacant, InUse

LEMMA NewTextIs ==
  ASSUME saves + 1 <= MaxSaves, saves \in Nat, NEW n \in 1 .. 2
  PROVE  NewText(n) \in Data
  <1>1. \A i \in 1 .. n : <<saves + 1, i>> \in Sector
    BY DiskAssumption DEF Sector
  <1>2. NewText(n) \in [1 .. n -> Sector]
    BY <1>1 DEF NewText
  <1> QED BY <1>2, DiskAssumption

LEMMA BaseSave ==
  ASSUME BaseInv, pc \in {"idle", "home"},
         NEW r \in Raw, NEW data \in Data, NEW type \in Type, NEW v, Sound(v),
         NEW refused, NEW home \in Homes \cup {Torn},
         saves + 1 <= MaxSaves, home # Torn => saves + 2 <= MaxSaves,
         Save(r, data, type, v, refused, home)
  PROVE  BaseInv'
  <1> DEFINE e == EntryFor(r)
             m == entry[e].meta
  <1>1. saves \in Nat /\ saves' = saves + 1 /\ saves' \in 0 .. MaxSaves
    BY DiskAssumption DEF BaseInv, Save
  <1>2. Laid(entry, saves)' /\ Laid(tab, saves)' /\ OutOfReach(tab)'
    <2>1. Laid(entry, saves + 1) /\ Laid(tab, saves + 1)
      BY <1>1, MoreSaves DEF BaseInv
    <2> QED BY <1>1, <2>1 DEF Save, diskVars, BaseInv
  <1>3. /\ vfs' = v /\ entry' = entry /\ tab' = tab /\ sup' = sup /\ disk' = disk /\ stale' = stale
    BY DEF Save, diskVars
  <1>4. next \in Nat /\ next >= 1 /\ next <= 2 * saves + 1
    BY DEF BaseInv, TypeOK
  <1>5. CASE NoEntryFor(r)
    <2>1. next' = next /\ job' = [NoJob EXCEPT !.home = home] /\ pc' = After(home)
      BY <1>5 DEF Save
    <2>2. job' \in Job /\ job'.home = home
      BY <2>1, NoJobIs DEF Job
    <2>3. JobInv'
      BY <1>1, <2>1, <2>2 DEF JobInv, HomeJob, After
    <2>4. pc' \in {"idle", "home"}
      BY <2>1 DEF After
    <2> QED BY <1>1, <1>2, <1>3, <1>4, <2>1, <2>3, <2>4 DEF BaseInv, TypeOK, VfsSound
  <1>6. CASE ~NoEntryFor(r)
    <2>1. e \in Entry /\ m \in Meta /\ OnTheDisk(m, saves)
      <3>1. e \in Entry
        BY <1>6, EntryForIs
      <3> QED BY <3>1 DEF BaseInv, Laid, TableType
    <2>2. /\ pc' = "data"
          /\ job' = [raw |-> r, at |-> e, data |-> data, type |-> type,
                     lba |-> IF m.used THEN m.lba ELSE next,
                     count |-> Needed(data), i |-> 1, home |-> home]
          /\ next' = IF m.used THEN next ELSE next + Needed(data)
      BY <1>6 DEF Save
    <2> HIDE DEF m, e
    <2>3. Needed(data) \in 1 .. 2
      BY DataIs
    <2>4. next' \in Nat /\ next' >= 1 /\ next' <= 2 * saves' + 1
      BY <1>1, <1>4, <2>2, <2>3
    <2>5. /\ job'.raw = r /\ job'.at = e /\ job'.data = data /\ job'.type = type
          /\ job'.lba = (IF m.used THEN m.lba ELSE next)
          /\ job'.count = Needed(data) /\ job'.i = 1 /\ job'.home = home
      BY <2>2
    <2>6. e \in Nat /\ m.lba \in Nat
      BY <2>1, DiskAssumption DEF Entry, Meta
    <2>7. job' \in Job
      BY <1>4, <2>2, <2>3, <2>6 DEF Job
    <2>8. job'.lba >= 1 /\ job'.lba + 1 <= 2 * saves'
      BY <1>1, <1>4, <2>1, <2>5, <2>6 DEF OnTheDisk
    <2>9. DataJob'
      BY <2>1, <2>3, <2>5, <2>8 DEF DataJob
    <2>10. JobInv'
      BY <1>1, <2>2, <2>5, <2>7, <2>9 DEF JobInv, HomeJob
    <2> QED BY <1>1, <1>2, <1>3, <2>2, <2>4, <2>10 DEF BaseInv, TypeOK, VfsSound
  <1> QED BY <1>5, <1>6

\* Each command of the shell is a call of kvfs.c and one of kdiskfs_save_file.
Saving(r, data, type, v, refused, home) ==
  /\ pc \in {"idle", "home"} /\ r \in Raw /\ data \in Data /\ type \in Type /\ Sound(v)
  /\ home \in Homes \cup {Torn}
  /\ saves + 1 <= MaxSaves /\ (home # Torn => saves + 2 <= MaxSaves)
  /\ (type = "dir" => data = Empty)
  /\ OthersStay(vfs, v, Clean[r])
  /\ (IF refused THEN v = vfs ELSE InNode(v, Clean[r], data))
  /\ Save(r, data, type, v, refused, home)

ShellSaves ==
  \/ \E r \in Raw : WriteFile(r)
  \/ \E r \in Raw : Touch(r)
  \/ \E r \in Raw : MakeDir(r)
  \/ \E h \in Homes, n \in 1 .. 2 : AddUser(h, n)
  \/ MakeHome

LEMMA ShellSavesIs ==
  ASSUME BaseInv, ShellSaves
  PROVE  \E r, data, type, v, refused, home : Saving(r, data, type, v, refused, home)
  <1>1. saves \in Nat /\ Sound(vfs) /\ MaxSaves \in Nat
    BY DiskAssumption DEF BaseInv, TypeOK, VfsSound
  <1>2. Empty \in Data /\ "file" \in Type /\ "dir" \in Type /\ Torn \notin Homes
    BY VfsNames, DiskAssumption DEF Type
  <1>3. \A r \in Raw : Clean[r] \in Path
    BY DiskAssumption
  <1>a. ASSUME NEW r \in Raw, NEW data \in Data
        PROVE  LET v == Write(vfs, Clean[r], data)
               IN  /\ Sound(v) /\ OthersStay(vfs, v, Clean[r])
                   /\ IF WriteRefused(r) THEN v = vfs ELSE InNode(v, Clean[r], data)
    <2>1. WriteRefused(r) => Write(vfs, Clean[r], data) = vfs
      BY DEF WriteRefused, Write, Exists
    <2> QED BY <1>1, <1>3, <2>1, WriteDoes DEF WriteRefused
  <1>b. ASSUME NEW r \in Raw
        PROVE  LET v == Mkdir(vfs, Clean[r])
               IN  /\ Sound(v) /\ OthersStay(vfs, v, Clean[r])
                   /\ IF MkdirRefused THEN v = vfs ELSE InNode(v, Clean[r], Empty)
    <2>1. ~MkdirRefused => vfs.count < MaxNodes
      BY <1>1, VfsSizes DEF MkdirRefused, Sound, Vfs
    <2>2. MkdirRefused => Create(vfs, Clean[r], "dir", Empty) = vfs
      BY DEF MkdirRefused, Create
    <2> QED BY <1>1, <1>2, <1>3, <2>1, <2>2, CreateDoes DEF Mkdir
  <1>4. ASSUME NEW r \in Raw, WriteFile(r)
        PROVE  Saving(r, NewText(1), "file", Write(vfs, Clean[r], NewText(1)), WriteRefused(r), Torn)
    <2>1. saves + 1 <= MaxSaves /\ pc = "idle"
      BY <1>4 DEF WriteFile, Command
    <2>2. NewText(1) \in Data
      BY <1>1, <2>1, NewTextIs
    <2> QED BY <1>1, <1>2, <1>3, <1>4, <2>1, <2>2, <1>a DEF Saving, WriteFile
  <1>5. ASSUME NEW r \in Raw, Touch(r)
        PROVE  Saving(r, Empty, "file", Write(vfs, Clean[r], Empty), WriteRefused(r), Torn)
    <2>1. saves + 1 <= MaxSaves /\ pc = "idle"
      BY <1>5 DEF Touch, Command
    <2> QED BY <1>1, <1>2, <1>3, <1>5, <2>1, <1>a DEF Saving, Touch
  <1>6. ASSUME NEW r \in Raw, MakeDir(r)
        PROVE  Saving(r, Empty, "dir", Mkdir(vfs, Clean[r]), MkdirRefused, Torn)
    <2>1. saves + 1 <= MaxSaves /\ pc = "idle"
      BY <1>6 DEF MakeDir, Command
    <2> QED BY <1>1, <1>2, <1>3, <1>6, <2>1, <1>b DEF Saving, MakeDir
  <1>7. ASSUME NEW h \in Homes, NEW n \in 1 .. 2, AddUser(h, n)
        PROVE  Saving(Passwd, NewText(n), "file", Write(vfs, Clean[Passwd], NewText(n)),
                      WriteRefused(Passwd), h)
    <2>1. saves + 2 <= MaxSaves /\ pc = "idle"
      BY <1>7 DEF AddUser, Command
    <2>2. NewText(n) \in Data
      BY <1>1, <2>1, NewTextIs
    <2>3. Passwd \in Raw
      BY DiskAssumption
    <2> QED BY <1>1, <1>2, <1>3, <1>7, <2>1, <2>2, <2>3, <1>a DEF Saving, AddUser
  <1>8. ASSUME MakeHome
        PROVE  Saving(job.home, Empty, "dir", Mkdir(vfs, Clean[job.home]), MkdirRefused, Torn)
    <2>1. pc = "home"
      BY <1>8 DEF MakeHome
    <2>2. job.home \in Homes /\ saves + 1 <= MaxSaves
      BY <2>1 DEF BaseInv, JobInv, Job, HomeJob
    <2>3. job.home \in Raw
      BY <2>2, DiskAssumption
    <2> QED BY <1>1, <1>2, <1>3, <1>8, <2>1, <2>2, <2>3, <1>b DEF Saving, MakeHome
  <1> QED BY <1>4, <1>5, <1>6, <1>7, <1>8 DEF ShellSaves

LEMMA BaseDataSector ==
  ASSUME BaseInv, NEW ok \in BOOLEAN, DataSector(ok)
  PROVE  BaseInv'
  <1> DEFINE piece == IF job.i <= Len(job.data) THEN job.data[job.i] ELSE Zeroed
  <1>1. /\ pc = "data" /\ DataJob /\ job \in Job /\ HomeJob
        /\ vfs' = vfs /\ next' = next /\ tab' = tab /\ sup' = sup /\ saves' = saves
        /\ stale' = stale
    BY DEF DataSector, BaseInv, JobInv
  <1>2. job.data \in Data /\ job.lba \in Nat /\ job.i \in Nat /\ job.count \in 1 .. 2
    BY <1>1, DataIs DEF Job, DataJob
  <1>3. disk' \in [1 .. DiskSize -> Sector] /\ DOMAIN disk' = 1 .. DiskSize
    <2>1. piece \in Sector
      <3>1. Zeroed \in Sector
        BY DiskAssumption DEF Zeroed, Sector
      <3>2. job.i \in 1 .. job.count
        BY <1>1 DEF DataJob
      <3>3. job.i <= Len(job.data) => job.i \in 1 .. Len(job.data)
        BY <1>2, <3>2, DataIs
      <3> QED BY <1>2, <3>1, <3>3, DataIs
    <2>2. disk' = IF ok THEN [disk EXCEPT ![job.lba + job.i - 1] = piece] ELSE disk
      BY DEF DataSector
    <2> HIDE DEF piece
    <2>3. disk \in [1 .. DiskSize -> Sector]
      BY DEF BaseInv
    <2> QED BY <2>1, <2>2, <2>3
  <1>4. CASE job.i < job.count
    <2>1. pc' = pc /\ entry' = entry /\ job' = [job EXCEPT !.i = @ + 1]
      BY <1>4 DEF DataSector
    <2>2. /\ job' \in Job /\ job'.i = job.i + 1 /\ job'.raw = job.raw /\ job'.at = job.at
          /\ job'.data = job.data /\ job'.type = job.type /\ job'.lba = job.lba
          /\ job'.count = job.count /\ job'.home = job.home
      BY <1>1, <2>1 DEF Job
    <2>3. DataJob'
      BY <1>1, <1>2, <1>4, <2>2 DEF DataJob
    <2>4. HomeJob'
      BY <1>1, <2>2 DEF HomeJob
    <2>5. JobInv'
      BY <1>1, <2>1, <2>2, <2>3, <2>4 DEF JobInv
    <2> QED BY <1>1, <1>3, <2>1, <2>5 DEF BaseInv, TypeOK, VfsSound, Laid, OutOfReach
  <1>5. CASE ~(job.i < job.count)
    <2> DEFINE n == [name |-> job.raw, tail |-> job.raw,
                     meta |-> [used |-> TRUE, type |-> job.type, size |-> Len(job.data),
                               lba |-> job.lba, count |-> job.count]]
    <2>1. pc' = "table" /\ job' = [job EXCEPT !.i = 1] /\ entry' = [entry EXCEPT ![job.at] = n]
      BY <1>5 DEF DataSector
    <2>2. job' \in Job /\ job'.i = 1 /\ job'.home = job.home
      BY <1>1, <2>1 DEF Job
    <2>3. JobInv'
      BY <1>1, <2>1, <2>2, DiskAssumption DEF JobInv, HomeJob
    <2>4. /\ n.meta.used /\ n.meta.lba = job.lba /\ n.meta.size = Len(job.data)
          /\ n.meta.count = job.count
          /\ n \in [name : Raw \cup {NoPath}, tail : Raw \cup {NoPath}, meta : Meta]
      <3>1. Len(job.data) \in 0 .. 2
        BY <1>2, DataIs
      <3> QED BY <1>1, <1>2, <3>1 DEF DataJob, Meta
    <2>5. OnTheDisk(n.meta, saves)
      <3>1. Len(job.data) \in 0 .. 2
        BY <1>2, DataIs
      <3>2. job.lba >= 1 /\ job.lba + 1 <= 2 * saves
        BY <1>1 DEF DataJob
      <3> HIDE DEF n
      <3>3. n.meta.lba = job.lba /\ n.meta.size = Len(job.data) /\ n.meta.count = job.count
        BY <2>4
      <3>4. n.meta.size <= 2
        <4>1. \A k \in 0 .. 2 : k <= 2
          OBVIOUS
        <4> QED BY ONLY <4>1, <3>1, <3>3, Zenon
      <3> QED BY <1>2, <3>2, <3>3, <3>4 DEF OnTheDisk
    <2> HIDE DEF n
    <2>6. Laid(entry', saves) /\ entry' \in TableType
      BY <2>1, <2>4, <2>5 DEF BaseInv, Laid, TableType
    <2>7. Laid(entry, saves)'
      BY <1>1, <2>6 DEF Laid
    <2>8. Laid(tab, saves)' /\ OutOfReach(tab)'
      BY <1>1 DEF BaseInv
    <2>9. stale' \in BOOLEAN /\ saves' \in 0 .. MaxSaves
      BY <1>1 DEF BaseInv
    <2>10. /\ next' \in Nat /\ next' <= 2 * saves' + 1 /\ next' >= 1
           /\ sup'.next <= 2 * saves' + 1 /\ (sup'.magic => sup'.next >= 1)
           /\ sup' \in [magic : BOOLEAN, next : Nat]
      BY <1>1 DEF BaseInv, TypeOK
    <2>11. tab' \in TableType /\ Sound(vfs')
      BY <1>1 DEF BaseInv, TypeOK, VfsSound
    <2> QED BY <1>3, <2>1, <2>3, <2>6, <2>7, <2>8, <2>9, <2>10, <2>11 DEF BaseInv, TypeOK, VfsSound
  <1> QED BY <1>4, <1>5

LEMMA BaseRm ==
  ASSUME BaseInv, NEW r \in Raw, Rm(r)
  PROVE  BaseInv'
  <1>1. /\ pc = "idle" /\ next' = next /\ tab' = tab /\ sup' = sup /\ disk' = disk
        /\ saves' = saves /\ stale' = stale /\ Sound(vfs')
    <2>1. Sound(vfs) /\ Clean[r] \in Path
      BY DiskAssumption DEF BaseInv, TypeOK, VfsSound
    <2> QED BY <2>1, DeleteDoes DEF Rm, diskVars, bounds
  <1>2. CASE Matching(r) = {}
    <2>1. entry' = entry /\ pc' = pc /\ job' = job
      BY <1>2 DEF Rm
    <2>2. JobInv'
      BY <1>1, <2>1 DEF BaseInv, JobInv, DataJob, HomeJob, Forgotten
    <2> QED BY <1>1, <2>1, <2>2 DEF BaseInv, TypeOK, VfsSound, Laid, OutOfReach
  <1>3. CASE Matching(r) # {}
    <2> DEFINE c == First(Matching(r))
    <2>1. c \in Entry
      BY <1>3, EntryForIs
    <2>2. /\ entry' = [entry EXCEPT ![c].meta.used = FALSE] /\ pc' = "table"
          /\ job' = [NoJob EXCEPT !.raw = r, !.i = 1, !.type = "gone"]
      BY <1>3 DEF Rm
    <2> HIDE DEF c
    <2>3. /\ entry' = [entry EXCEPT ![c] = [entry[c] EXCEPT !.meta = [entry[c].meta EXCEPT !.used = FALSE]]]
      BY <2>1, <2>2 DEF BaseInv, Laid, TableType
    <2>4. entry' \in TableType
      <3>1. entry[c].meta \in Meta /\ entry \in TableType
        BY <2>1 DEF BaseInv, Laid, TableType
      <3>2. [entry[c].meta EXCEPT !.used = FALSE] \in Meta
        BY <3>1 DEF Meta
      <3> QED BY <2>1, <2>3, <3>1, <3>2 DEF TableType
    <2>5. \A e \in Entry : entry'[e].meta.used => entry'[e] = entry[e]
      BY <2>1, <2>3 DEF BaseInv, Laid, TableType, Meta
    <2>6. Laid(entry, saves)'
      <3>1. ASSUME NEW e \in Entry PROVE OnTheDisk(entry'[e].meta, saves)
        <4>1. CASE entry'[e].meta.used
          BY <2>5, <4>1 DEF BaseInv, Laid
        <4>2. CASE ~entry'[e].meta.used
          BY <4>2 DEF OnTheDisk
        <4> QED BY <4>1, <4>2
      <3> QED BY <1>1, <2>4, <3>1 DEF Laid
    <2>7. job' \in Job /\ job'.i = 1 /\ job'.home = Torn
      BY <2>2, NoJobIs DEF Job, NoJob
    <2>8. JobInv'
      BY <1>1, <2>2, <2>7, DiskAssumption DEF JobInv, HomeJob
    <2> QED BY <1>1, <2>2, <2>4, <2>6, <2>8 DEF BaseInv, TypeOK, VfsSound
  <1> QED BY <1>2, <1>3

LEMMA BaseSync ==
  ASSUME BaseInv, NEW ok \in BOOLEAN, SyncTable(ok) \/ SyncSuper(ok)
  PROVE  BaseInv'
  <1>1. CASE SyncTable(ok)
    <2>1. /\ pc = "table" /\ job.i \in 1 .. TableSectors /\ job \in Job /\ HomeJob
          /\ vfs' = vfs /\ entry' = entry /\ next' = next /\ sup' = sup /\ disk' = disk
          /\ saves' = saves /\ stale' = (stale \/ ~ok)
      BY <1>1 DEF SyncTable, BaseInv, JobInv, ramVars
    <2>2. Laid(tab', saves) /\ OutOfReach(tab')
      BY <1>1, <2>1, TableSectorLaid DEF SyncTable, BaseInv
    <2>3. JobInv' /\ pc' \in {"table", "super"}
      <3>1. CASE job.i < TableSectors
        <4>1. pc' = "table" /\ job' = [job EXCEPT !.i = @ + 1]
          BY <1>1, <2>1, <3>1 DEF SyncTable
        <4>2. job' \in Job /\ job'.i = job.i + 1 /\ job'.home = job.home
          BY <2>1, <4>1 DEF Job
        <4>3. job'.i \in 1 .. TableSectors
          BY <2>1, <3>1, <4>2, DiskAssumption
        <4> QED BY <2>1, <4>1, <4>2, <4>3 DEF JobInv, HomeJob
      <3>2. CASE ~(job.i < TableSectors)
        <4>1. pc' = "super" /\ job' = job
          BY <1>1, <2>1, <3>2 DEF SyncTable
        <4> QED BY <2>1, <4>1 DEF JobInv, HomeJob
      <3> QED BY <3>1, <3>2
    <2>4. Laid(tab, saves)' /\ OutOfReach(tab)' /\ tab' \in TableType
      BY <2>1, <2>2 DEF Laid
    <2> QED BY <2>1, <2>3, <2>4 DEF BaseInv, TypeOK, VfsSound
  <1>2. CASE SyncSuper(ok)
    <2>1. /\ pc = "super" /\ HomeJob /\ job \in Job
          /\ vfs' = vfs /\ entry' = entry /\ next' = next /\ tab' = tab /\ disk' = disk
          /\ saves' = saves /\ stale' = stale
          /\ pc' = After(job.home) /\ job' = [NoJob EXCEPT !.home = job.home]
      BY <1>2 DEF SyncSuper, BaseInv, JobInv, ramVars
    <2>2. job' \in Job /\ job'.home = job.home
      BY <2>1, NoJobIs DEF Job
    <2>3. JobInv' /\ pc' \in {"idle", "home"}
      BY <2>1, <2>2 DEF JobInv, HomeJob, After
    <2>4. /\ sup' \in [magic : BOOLEAN, next : Nat] /\ sup'.next <= 2 * saves + 1
          /\ sup'.magic => sup'.next >= 1
      <3>1. next \in Nat /\ next >= 1 /\ next <= 2 * saves + 1
        BY <2>1 DEF BaseInv, TypeOK
      <3>2. CASE ok
        <4>1. sup' = [magic |-> TRUE, next |-> next]
          BY <1>2, <3>2 DEF SyncSuper
        <4> QED BY <3>1, <4>1
      <3>3. CASE ~ok
        BY <1>2, <3>3 DEF SyncSuper, BaseInv, TypeOK
      <3> QED BY <3>2, <3>3
    <2> QED BY <2>1, <2>3, <2>4 DEF BaseInv, TypeOK, VfsSound
  <1> QED BY <1>1, <1>2

LEMMA BasePowerOff ==
  ASSUME BaseInv, PowerOff
  PROVE  BaseInv'
  <1>1. /\ vfs' = Booted /\ entry' = [e \in Entry |-> NoEntry] /\ next' = 0 /\ tab' = tab
        /\ sup' = sup /\ disk' = disk /\ saves' = saves /\ pc' = "off" /\ job' = NoJob
        /\ stale' = (stale \/ SuperBehind)
    BY DEF PowerOff, diskVars
  <1>2. Sound(vfs')
    BY <1>1, BootedSound
  <1>3. Laid(entry, saves)' /\ Forgotten' /\ entry' \in TableType
    BY <1>1, NoEntries DEF Forgotten, Laid
  <1>4. JobInv'
    BY <1>1, <1>3, NoJobIs DEF JobInv
  <1>5. saves \in Nat /\ stale' \in BOOLEAN
    BY <1>1, DiskAssumption DEF BaseInv, SuperBehind
  <1>6. next' \in Nat /\ next' <= 2 * saves' + 1
    BY <1>1, <1>5
  <1> QED BY <1>1, <1>2, <1>3, <1>4, <1>5, <1>6 DEF BaseInv, TypeOK, VfsSound

LEMMA BaseNext == BaseInv /\ [Next]_vars => BaseInv'
  <1> SUFFICES ASSUME BaseInv, [Next]_vars PROVE BaseInv'
    OBVIOUS
  <1>1. CASE ShellSaves
    <2>1. PICK r, data, type, v, refused, home : Saving(r, data, type, v, refused, home)
      BY <1>1, ShellSavesIs
    <2> QED BY <2>1, BaseSave DEF Saving
  <1>2. CASE UNCHANGED vars
    BY <1>2 DEF vars, ramVars, diskVars, bounds, history, BaseInv, TypeOK, VfsSound, Laid,
                OutOfReach, JobInv, DataJob, HomeJob, Forgotten
  <1> QED BY <1>1, <1>2, BaseBoot, BaseFormat, BaseDataSector, BaseRm, BaseSync, BasePowerOff
          DEF Next, ShellSaves

-----------------------------------------------------------------------------
(* ApartInv, action by action.                                              *)

\* Files stay apart when entries go, or free sectors are added.
LEMMA ApartFrom ==
  ASSUME NEW t, NEW u, NEW over, NEW more, over \subseteq more, Apart(u, over),
         \A e \in InUse(t) : /\ e \in InUse(u) /\ t[e].name = u[e].name
                             /\ t[e].tail = u[e].tail /\ t[e].meta = u[e].meta
  PROVE  Apart(t, more)
  BY DEF Apart

LEMMA BelowFrom ==
  ASSUME NEW t, NEW u, NEW over, NEW more, over \subseteq more, NEW n, Below(u, over, n),
         \A e \in InUse(t) : e \in InUse(u) /\ t[e].meta = u[e].meta
  PROVE  Below(t, more, n)
  BY DEF Below

LEMMA NoneInUse ==
  /\ InUse([e \in Entry |-> NoEntry]) = {}
  /\ Forgotten => InUse(entry) = {}
  /\ \A t, over, n : InUse(t) = {} => Apart(t, over) /\ Below(t, over, n)
  BY DEF InUse, NoEntry, NoMeta, Forgotten, Apart, Below

LEMMA NoneSynced ==
  ASSUME NEW m \in TableType, NEW t \in TableType, InUse(m) = {}, InUse(t) = {}
  PROVE  Synced(m, t)
  <1>1. ASSUME NEW e \in Entry PROVE m[e].meta.used = FALSE /\ t[e].meta.used = FALSE
    BY DEF InUse, TableType, Meta
  <1> QED BY <1>1 DEF Synced, SyncedAt

\* The sectors of an entry, and of one that grows.
LEMMA ExtentIs ==
  ASSUME NEW t \in TableType, NEW e \in Entry
  PROVE  /\ t[e].meta.lba \in Nat /\ t[e].meta.count \in Nat
         /\ Extent(t[e].meta) \subseteq Int
  BY DEF Extent, TableType, Meta

LEMMA ApartInit == Init => ApartInv
  <1> SUFFICES ASSUME Init PROVE ApartInv
    OBVIOUS
  <1>1. /\ InUse(tab) = {} /\ InUse(entry) = {} /\ pc = "off"
    BY NoneInUse DEF Init
  <1> QED BY <1>1, NoneInUse DEF ApartInv

LEMMA ApartBoot == DiskInv /\ (Boot \/ BootBlank) => ApartInv'
  <1> SUFFICES ASSUME DiskInv, Boot \/ BootBlank, ~stale' PROVE ApartInv'
    BY DEF ApartInv
  <1>1. /\ pc = "off" /\ ~stale /\ tab' = tab /\ overrun' = overrun /\ sup' = sup
        /\ tab \in TableType /\ entry \in TableType
    BY DEF Boot, BootBlank, diskVars, history, DiskInv, BaseInv, TypeOK
  <1>2. /\ Apart(tab, overrun) /\ Below(tab, overrun, sup.next)
        /\ InUse(tab) # {} => sup.magic
    BY <1>1 DEF DiskInv, ApartInv
  <1>3. CASE Boot
    <2>1. entry' = tab /\ next' = sup.next /\ pc' = "idle"
      BY <1>3 DEF Boot
    <2>2. Synced(tab, tab)
      BY DEF Synced, SyncedAt
    <2> QED BY <1>1, <1>2, <2>1, <2>2 DEF ApartInv
  <1>4. CASE BootBlank
    <2>1. entry' = entry /\ pc' = "formatSuper" /\ ~sup.magic
      BY <1>4 DEF BootBlank
    <2>2. InUse(entry) = {} /\ InUse(tab) = {}
      BY <1>1, <1>2, <2>1, NoneInUse DEF DiskInv, BaseInv, JobInv
    <2>3. Apart(entry, overrun) /\ Synced(entry, tab)
      BY <1>1, <2>2, NoneInUse, NoneSynced
    <2> QED BY <1>1, <1>2, <2>1, <2>3 DEF ApartInv
  <1> QED BY <1>3, <1>4

LEMMA ApartFormat ==
  DiskInv /\ (Format \/ FormatSuper \/ FormatRefused \/ \E ok \in BOOLEAN : FormatTable(ok))
    => ApartInv'
  <1> SUFFICES ASSUME DiskInv, ~stale',
                      Format \/ FormatSuper \/ FormatRefused \/ \E ok \in BOOLEAN : FormatTable(ok)
               PROVE  ApartInv'
    BY DEF ApartInv
  <1>1. CASE Format
    BY <1>1 DEF Format, diskVars, bounds, history, DiskInv, ApartInv
  <1>2. CASE FormatSuper
    BY <1>2 DEF FormatSuper
  <1>3. CASE FormatRefused
    <2>1. /\ pc = "formatSuper" /\ pc' = "idle" /\ ~stale /\ InUse(entry) = {}
          /\ entry' = entry /\ tab' = tab /\ overrun' = overrun
      BY <1>3 DEF FormatRefused, ramVars, diskVars
    <2>2. Apart(tab, overrun) /\ Apart(entry, overrun) /\ Synced(entry, tab)
      BY <2>1 DEF DiskInv, ApartInv
    <2>3. Below(entry, overrun, next')
      BY <2>1, NoneInUse
    <2> QED BY <2>1, <2>2, <2>3 DEF ApartInv
  <1>4. ASSUME NEW ok \in BOOLEAN, FormatTable(ok) PROVE ApartInv'
    <2>1. pc = "formatTable" /\ stale /\ Forgotten /\ entry' = entry /\ entry \in TableType
      BY <1>4 DEF FormatTable, DiskInv, BaseInv, JobInv, ramVars, TypeOK
    <2>3. ~(job.i < TableSectors)
      BY <1>4, <2>1 DEF FormatTable, history
    <2>4. pc' = "idle" /\ InUse(tab') = {}
      BY <1>4, <2>3 DEF FormatTable
    <2>5. InUse(entry) = {}
      BY <2>1, NoneInUse
    <2>6. tab' \in TableType
      <3>1. DiskInv /\ BaseInv'
        BY <1>4, BaseFormat DEF DiskInv
      <3> QED BY <3>1 DEF BaseInv, TypeOK
    <2>7. Synced(entry, tab')
      BY <2>1, <2>4, <2>5, <2>6, NoneSynced
    <2>8. /\ Apart(tab', overrun') /\ Apart(entry, overrun') /\ Below(entry, overrun', next')
      BY <2>4, <2>5, NoneInUse
    <2> QED BY <2>1, <2>4, <2>7, <2>8 DEF ApartInv
  <1> QED BY <1>1, <1>2, <1>3, <1>4

LEMMA ApartSave ==
  ASSUME DiskInv, NEW r, NEW data, NEW type, NEW v, NEW refused, NEW home,
         Saving(r, data, type, v, refused, home)
  PROVE  ApartInv'
  <1> SUFFICES ASSUME ~stale' PROVE ApartInv'
    BY DEF ApartInv
  <1> DEFINE e == EntryFor(r)
             m == entry[e].meta
  <1>1. /\ pc \in {"idle", "home"} /\ r \in Raw /\ data \in Data
        /\ entry' = entry /\ tab' = tab /\ ~stale
    BY DEF Saving, Save, diskVars
  <1>2. /\ Apart(tab, overrun) /\ Apart(entry, overrun) /\ Below(entry, overrun, next)
        /\ Synced(entry, tab)
    BY <1>1 DEF DiskInv, ApartInv
  <1>3. entry \in TableType /\ next \in Nat
    BY DEF DiskInv, BaseInv, TypeOK
  <1>4. CASE NoEntryFor(r)
    <2>1. pc' = After(home) /\ next' = next /\ overrun' = overrun
      BY <1>4 DEF Saving, Save
    <2>2. pc' \in {"idle", "home"}
      BY <2>1 DEF After
    <2> QED BY <1>1, <1>2, <2>1, <2>2 DEF ApartInv
  <1>5. CASE ~NoEntryFor(r)
    <2>1. /\ pc' = "data"
          /\ job' = [raw |-> r, at |-> e, data |-> data, type |-> type,
                     lba |-> IF m.used THEN m.lba ELSE next,
                     count |-> Needed(data), i |-> 1, home |-> home]
          /\ next' = IF m.used THEN next ELSE next + Needed(data)
          /\ overrun' = IF m.used THEN overrun \cup (m.lba + m.count .. m.lba + Needed(data) - 1)
                        ELSE overrun
      BY <1>5 DEF Saving, Save
    <2>2. /\ e \in Entry /\ Needed(data) \in 1 .. 2 /\ m.lba \in Nat /\ m.count \in Nat
      BY <1>1, <1>3, <1>5, EntryForIs, DataIs, ExtentIs
    <2>3. /\ m.used => entry[e].name = r /\ entry[e].tail = r /\ e \in InUse(entry)
          /\ \A f \in InUse(entry) \ {e} : entry[f].name # r
      <3>1. \A f \in InUse(entry) : PathOf(entry[f]) = entry[f].name
        BY <1>2 DEF Apart, PathOf
      <3>2. CASE Matching(r) # {}
        <4>1. e \in InUse(entry) /\ entry[e].name = r /\ entry[e].tail = r
          BY <1>1, <3>2, EntryForIs
        <4> QED BY <1>2, <4>1 DEF Apart
      <3>3. CASE Matching(r) = {}
        <4>1. e \in Vacant
          BY <1>1, <1>5, <3>3, EntryForIs
        <4>2. ~m.used
          BY <4>1 DEF Vacant, InUse
        <4>3. \A f \in InUse(entry) : entry[f].name # r
          BY <3>1, <3>3 DEF Matching
        <4> QED BY <4>2, <4>3
      <3> QED BY <3>2, <3>3
    <2>4. m.used => Extent(m) = m.lba .. m.lba + m.count - 1
      BY DEF Extent
    <2>5. /\ job'.raw = r /\ job'.at = e /\ job'.lba = (IF m.used THEN m.lba ELSE next)
          /\ job'.count = Needed(data)
      BY <2>1
    <2>6. Mine' = job'.lba .. job'.lba + job'.count - 1
      BY DEF Mine
    <2> DEFINE need == Needed(data)
    <2>7. overrun \subseteq overrun' /\ next <= next' /\ next' \in Nat
      BY <1>3, <2>1, <2>2
    <2> HIDE DEF need
    <2>8. CASE m.used
      <3>1. /\ Mine' = m.lba .. m.lba + need - 1 /\ next' = next
            /\ overrun' = overrun \cup (m.lba + m.count .. m.lba + need - 1)
        BY <2>1, <2>5, <2>6, <2>8 DEF need
      <3>2. Mine' \subseteq Extent(m) \cup overrun'
        BY <2>2, <2>4, <2>8, <3>1 DEF need
      <3>3. ASSUME NEW f \in InUse(entry) \ {e} PROVE Mine' \cap Extent(entry[f].meta) \subseteq overrun'
        <4>1. Extent(m) \cap Extent(entry[f].meta) \subseteq overrun
          BY <1>2, <2>3, <2>8 DEF Apart
        <4> QED BY <2>7, <3>2, <4>1
      <3>4. \A s \in Extent(m) \ overrun : s < next
        BY <1>2, <2>3, <2>8 DEF Below
      <3>5. \A s \in Mine' \ overrun' : s < next'
        BY <2>7, <3>1, <3>2, <3>4
      <3> HIDE DEF m, e
      <3>6. SaveApart'
        BY <1>1, <2>3, <2>5, <3>3, <3>5 DEF SaveApart, m
      <3>7. Below(entry, overrun', next') /\ Apart(tab, overrun') /\ Apart(entry, overrun')
        BY <1>2, <2>7, <3>1, ApartFrom, BelowFrom
      <3> QED BY <1>1, <1>2, <2>1, <3>6, <3>7 DEF ApartInv
    <2>9. CASE ~m.used
      <3>1. /\ Mine' = next .. next + need - 1 /\ next' = next + need /\ overrun' = overrun
        BY <2>1, <2>5, <2>6, <2>9 DEF need
      <3>2. ASSUME NEW f \in InUse(entry) \ {e} PROVE Mine' \cap Extent(entry[f].meta) \subseteq overrun'
        <4>1. \A s \in Extent(entry[f].meta) \ overrun : s < next
          BY <1>2 DEF Below
        <4>2. need \in Nat
          BY <2>2 DEF need
        <4>3. \A s \in Mine' : ~(s < next)
          BY <1>3, <3>1, <4>2
        <4> QED BY <3>1, <4>1, <4>3
      <3>3. \A s \in Mine' \ overrun' : s < next'
        BY <1>3, <2>2, <3>1 DEF need
      <3>4. Below(entry, overrun', next')
        <4>1. ASSUME NEW f \in InUse(entry), NEW s \in Extent(entry[f].meta) \ overrun'
              PROVE  s < next'
          <5>1. s \in Int
            BY <1>3, ExtentIs DEF InUse
          <5>2. s < next
            BY <1>2, <3>1, <4>1 DEF Below
          <5> QED BY <1>3, <2>7, <5>1, <5>2
        <4> QED BY <4>1 DEF Below
      <3> HIDE DEF m, e
      <3>5. SaveApart'
        BY <1>1, <2>3, <2>5, <2>9, <3>2, <3>3 DEF SaveApart, m
      <3> QED BY <1>1, <1>2, <2>1, <3>1, <3>4, <3>5 DEF ApartInv
    <2> QED BY <2>8, <2>9
  <1> QED BY <1>4, <1>5

\* Before the table is written, the disk has the name of the entry that changed.
LEMMA FirstHalf ==
  ASSUME Synced(entry, tab), OutOfReach(tab), NEW c \in Entry, NEW m,
         \A e \in Entry \ {c} : m[e] = entry[e],
         entry[c].meta.used => m[c].name = entry[c].name /\ m[c].tail = entry[c].tail
  PROVE  HalfSynced(c, m, tab, 1)
  <1>1. \A e \in Entry \ {c} : SyncedAt(e, m, tab)
    BY DEF Synced, SyncedAt
  <1>2. ~(Layout[c].name < 1) /\ ~(Layout[c].tail < 1) /\ ~(Layout[c].meta < 1)
    BY LayoutIs
  <1>3. ASSUME tab[c].meta.used PROVE tab[c].name = m[c].name /\ tab[c].tail = m[c].tail
    <2>1. Layout[c].meta <= TableSectors
      BY <1>3, LayoutIs DEF OutOfReach
    <2>2. entry[c].meta.used /\ tab[c] = entry[c]
      BY <1>3, <2>1 DEF Synced, SyncedAt
    <2> QED BY <2>2
  <1> QED BY <1>1, <1>2, <1>3 DEF HalfSynced

LEMMA ApartDataSector ==
  ASSUME DiskInv, NEW ok \in BOOLEAN, DataSector(ok)
  PROVE  ApartInv'
  <1> SUFFICES ASSUME ~stale' PROVE ApartInv'
    BY DEF ApartInv
  <1>1. /\ pc = "data" /\ ~stale /\ tab' = tab /\ overrun' = overrun /\ next' = next
        /\ DataJob /\ OutOfReach(tab) /\ entry \in TableType /\ job \in Job
    BY DEF DataSector, DiskInv, BaseInv, JobInv, TypeOK
  <1>2. /\ Apart(tab, overrun) /\ Apart(entry, overrun) /\ Below(entry, overrun, next)
        /\ Synced(entry, tab) /\ SaveApart
    BY <1>1 DEF DiskInv, ApartInv
  <1>3. CASE job.i < job.count
    <2>1. pc' = pc /\ entry' = entry /\ job' = [job EXCEPT !.i = @ + 1]
      BY <1>3 DEF DataSector
    <2>2. job'.raw = job.raw /\ job'.at = job.at /\ job'.lba = job.lba /\ job'.count = job.count
      BY <1>1, <2>1 DEF Job
    <2>3. SaveApart'
      BY <1>1, <1>2, <2>1, <2>2 DEF SaveApart, Mine
    <2> QED BY <1>1, <1>2, <2>1, <2>3 DEF ApartInv
  <1>4. CASE ~(job.i < job.count)
    <2> DEFINE c == job.at
               n == [name |-> job.raw, tail |-> job.raw,
                     meta |-> [used |-> TRUE, type |-> job.type, size |-> Len(job.data),
                               lba |-> job.lba, count |-> job.count]]
    <2>1. pc' = "table" /\ job' = [job EXCEPT !.i = 1] /\ entry' = [entry EXCEPT ![c] = n]
      BY <1>4 DEF DataSector
    <2>2. /\ n.name = job.raw /\ n.tail = job.raw /\ n.meta.used
          /\ n.meta.lba = job.lba /\ n.meta.count = job.count
      OBVIOUS
    <2>3. c \in Entry /\ job.raw \in Raw /\ job'.i = 1 /\ job'.raw = job.raw
      BY <1>1, <2>1 DEF DataJob, Job
    <2>4. Extent(n.meta) = Mine
      BY <2>2 DEF Extent, Mine
    <2> HIDE DEF c, n
    <2>5. entry'[c] = n /\ \A e \in Entry \ {c} : entry'[e] = entry[e]
      BY <1>1, <2>1, <2>3 DEF TableType
    <2>6. InUse(entry') = InUse(entry) \cup {c}
      BY <2>2, <2>3, <2>5 DEF InUse
    <2>7. \A e \in InUse(entry) \ {c} : entry'[e] = entry[e]
      BY <2>5 DEF InUse
    <2>8. \A f \in InUse(entry) \ {c} :
            entry[f].name # job.raw /\ Mine \cap Extent(entry[f].meta) \subseteq overrun
      BY <1>2 DEF SaveApart, c
    <2>9. Apart(entry', overrun)
      <3>1. ASSUME NEW e \in InUse(entry')
            PROVE  entry'[e].name = entry'[e].tail /\ entry'[e].name \in Raw
        <4>1. CASE e = c
          BY <2>2, <2>3, <2>5, <4>1
        <4>2. CASE e # c
          BY <1>2, <2>6, <2>7, <4>2 DEF Apart
        <4> QED BY <4>1, <4>2
      <3>2. ASSUME NEW e \in InUse(entry'), NEW f \in InUse(entry'), e # f
            PROVE  /\ entry'[e].name # entry'[f].name
                   /\ Extent(entry'[e].meta) \cap Extent(entry'[f].meta) \subseteq overrun
        <4>1. CASE e = c
          BY <2>2, <2>4, <2>5, <2>6, <2>7, <2>8, <3>2, <4>1
        <4>2. CASE f = c
          BY <2>2, <2>4, <2>5, <2>6, <2>7, <2>8, <3>2, <4>2
        <4>3. CASE e # c /\ f # c
          BY <1>2, <2>6, <2>7, <3>2, <4>3 DEF Apart
        <4> QED BY <4>1, <4>2, <4>3
      <3> QED BY <3>1, <3>2 DEF Apart
    <2>10. Below(entry', overrun, next)
      <3>1. ASSUME NEW e \in InUse(entry'), NEW s \in Extent(entry'[e].meta) \ overrun
            PROVE  s < next
        <4>1. CASE e = c
          BY <1>2, <2>4, <2>5, <3>1, <4>1 DEF SaveApart
        <4>2. CASE e # c
          BY <1>2, <2>6, <2>7, <3>1, <4>2 DEF Below
        <4> QED BY <4>1, <4>2
      <3> QED BY <3>1 DEF Below
    <2>11. HalfSynced(c, entry', tab, 1)
      <3>1. entry[c].meta.used => entry[c].name = job.raw /\ entry[c].tail = job.raw
        BY <1>2 DEF SaveApart, c
      <3> QED BY <1>1, <1>2, <2>2, <2>3, <2>5, <3>1, FirstHalf
    <2>12. entry'[c].name = job'.raw
      BY <2>2, <2>3, <2>5
    <2> QED BY <1>1, <1>2, <2>1, <2>3, <2>9, <2>10, <2>11, <2>12 DEF ApartInv
  <1> QED BY <1>3, <1>4

LEMMA ApartRm ==
  ASSUME DiskInv, NEW r \in Raw, Rm(r)
  PROVE  ApartInv'
  <1> SUFFICES ASSUME ~stale' PROVE ApartInv'
    BY DEF ApartInv
  <1>1. /\ pc = "idle" /\ ~stale /\ tab' = tab /\ overrun' = overrun /\ next' = next
        /\ OutOfReach(tab) /\ entry \in TableType
    BY DEF Rm, diskVars, DiskInv, BaseInv, TypeOK
  <1>2. /\ Apart(tab, overrun) /\ Apart(entry, overrun) /\ Below(entry, overrun, next)
        /\ Synced(entry, tab)
    BY <1>1 DEF DiskInv, ApartInv
  <1>3. CASE Matching(r) = {}
    <2>1. entry' = entry /\ pc' = pc
      BY <1>3 DEF Rm
    <2> QED BY <1>1, <1>2, <2>1 DEF ApartInv
  <1>4. CASE Matching(r) # {}
    <2> DEFINE c == First(Matching(r))
    <2>1. c \in Entry
      BY <1>4, EntryForIs
    <2>2. /\ entry' = [entry EXCEPT ![c].meta.used = FALSE] /\ pc' = "table"
          /\ job' = [NoJob EXCEPT !.raw = r, !.i = 1, !.type = "gone"]
      BY <1>4 DEF Rm
    <2> HIDE DEF c
    <2>3. job'.i = 1 /\ job'.raw = r
      BY <2>2 DEF NoJob
    <2>4. /\ entry'[c].name = entry[c].name /\ entry'[c].tail = entry[c].tail
          /\ ~entry'[c].meta.used /\ \A e \in Entry \ {c} : entry'[e] = entry[e]
      BY <1>1, <2>1, <2>2 DEF TableType, Meta
    <2>5. \A e \in InUse(entry') : e \in InUse(entry) /\ entry'[e] = entry[e]
      BY <2>4 DEF InUse
    <2>6. Apart(entry', overrun) /\ Below(entry', overrun, next)
      BY <1>2, <2>5, ApartFrom, BelowFrom
    <2>7. HalfSynced(c, entry', tab, 1)
      BY <1>1, <1>2, <2>1, <2>4, FirstHalf
    <2>8. entry'[c].name = job'.raw
      BY <1>4, <2>3, <2>4, EntryForIs DEF c
    <2> QED BY <1>1, <1>2, <2>1, <2>2, <2>3, <2>6, <2>7, <2>8 DEF ApartInv
  <1> QED BY <1>3, <1>4

\* One more sector of the table is written.
LEMMA NextHalf ==
  ASSUME entry \in TableType, tab \in TableType, NEW i \in 1 .. TableSectors,
         NEW c \in Entry, HalfSynced(c, entry, tab, i)
  PROVE  HalfSynced(c, entry, TableSector(tab, i), i + 1)
  <1> DEFINE t == TableSector(tab, i)
  <1>1. \A e \in Entry :
          /\ t[e].name = IF Layout[e].name = i THEN entry[e].name ELSE tab[e].name
          /\ t[e].tail = IF Layout[e].tail = i THEN entry[e].tail ELSE tab[e].tail
          /\ t[e].meta = IF Layout[e].meta = i THEN entry[e].meta ELSE tab[e].meta
    BY TableSectorIs
  <1>2. t \in TableType
    BY DEF TableSector, TableType
  <1> HIDE DEF t
  <1>3. ASSUME NEW e \in Entry \ {c} PROVE SyncedAt(e, entry, t)
    <2> SUFFICES ASSUME Layout[e].meta <= TableSectors
                 PROVE  /\ entry[e].meta.used = t[e].meta.used
                        /\ entry[e].meta.used => t[e] = entry[e]
      BY DEF SyncedAt
    <2>1. /\ entry[e].meta.used = tab[e].meta.used
          /\ entry[e].meta.used => tab[e] = entry[e]
      BY DEF HalfSynced, SyncedAt
    <2>2. entry[e].meta.used = t[e].meta.used
      BY <1>1, <2>1
    <2>3. ASSUME entry[e].meta.used PROVE t[e] = entry[e]
      <3>1. t[e].name = entry[e].name /\ t[e].tail = entry[e].tail /\ t[e].meta = entry[e].meta
        BY <1>1, <2>1, <2>3
      <3> QED BY <1>2, <3>1 DEF TableType
    <2> QED BY <2>2, <2>3
  <1>4. /\ Layout[c].name < i + 1 => t[c].name = entry[c].name
        /\ Layout[c].tail < i + 1 => t[c].tail = entry[c].tail
        /\ Layout[c].meta < i + 1 => t[c].meta = entry[c].meta
    BY <1>1, LayoutIs DEF HalfSynced
  <1>5. ASSUME t[c].meta.used PROVE t[c].name = entry[c].name /\ t[c].tail = entry[c].tail
    <2>1. CASE Layout[c].meta = i
      BY <1>4, <2>1, LayoutIs
    <2>2. CASE Layout[c].meta # i
      BY <1>1, <1>5, <2>2 DEF HalfSynced
    <2> QED BY <2>1, <2>2
  <1>6. HalfSynced(c, entry, t, i + 1)
    BY <1>3, <1>4, <1>5 DEF HalfSynced
  <1> QED BY <1>6 DEF t

LEMMA ApartSyncTable ==
  ASSUME DiskInv, NEW ok \in BOOLEAN, SyncTable(ok)
  PROVE  ApartInv'
  <1> SUFFICES ASSUME ~stale' PROVE ApartInv'
    BY DEF ApartInv
  <1> DEFINE i == job.i
             t == TableSector(tab, i)
  <1>1. /\ pc = "table" /\ ~stale /\ ok /\ tab' = t /\ entry' = entry /\ next' = next
        /\ overrun' = overrun /\ i \in 1 .. TableSectors
        /\ entry \in TableType /\ tab \in TableType /\ OutOfReach(tab)
        /\ Laid(entry, saves) /\ Laid(tab, saves)
    BY DEF SyncTable, ramVars, DiskInv, BaseInv, JobInv, TypeOK
  <1>2. /\ Apart(tab, overrun) /\ Apart(entry, overrun) /\ Below(entry, overrun, next)
        /\ \E c \in Entry : entry[c].name = job.raw /\ HalfSynced(c, entry, tab, i)
    BY <1>1 DEF DiskInv, ApartInv
  <1>3. PICK c \in Entry : entry[c].name = job.raw /\ HalfSynced(c, entry, tab, i)
    BY <1>2
  <1>4. HalfSynced(c, entry, t, i + 1)
    BY <1>1, <1>3, NextHalf
  <1>5. OutOfReach(t)
    BY <1>1, TableSectorLaid
  <1>6. t[c].meta = IF Layout[c].meta = i THEN entry[c].meta ELSE tab[c].meta
    BY TableSectorIs
  <1>7. \A e \in InUse(t) : Layout[e].meta <= TableSectors /\ e \in Entry
    BY <1>5, LayoutIs DEF OutOfReach, InUse
  <1> HIDE DEF t, i
  <1>8. ASSUME NEW e \in InUse(t), e # c
        PROVE  /\ e \in InUse(entry) /\ e \in InUse(tab) /\ t[e] = entry[e] /\ t[e] = tab[e]
    <2>1. e \in Entry /\ t[e].meta.used /\ Layout[e].meta <= TableSectors
      BY <1>7 DEF InUse
    <2>2. SyncedAt(e, entry, t) /\ SyncedAt(e, entry, tab)
      BY <1>3, <1>4, <1>8, <2>1 DEF HalfSynced
    <2> QED BY <2>1, <2>2 DEF SyncedAt, InUse
  <1>9. Apart(t, overrun)
    <2>1. CASE Layout[c].meta = i
      <3>1. c \in InUse(t) => /\ c \in InUse(entry) /\ t[c].meta = entry[c].meta
                              /\ t[c].name = entry[c].name /\ t[c].tail = entry[c].tail
        BY <1>4, <1>6, <2>1 DEF HalfSynced, InUse
      <3>2. \A e \in InUse(t) : /\ e \in InUse(entry) /\ t[e].name = entry[e].name
                                /\ t[e].tail = entry[e].tail /\ t[e].meta = entry[e].meta
        BY <1>8, <3>1
      <3> QED BY <1>2, <3>2, ApartFrom
    <2>2. CASE Layout[c].meta # i
      <3>1. c \in InUse(t) => /\ c \in InUse(tab) /\ t[c].meta = tab[c].meta
                              /\ t[c].name = tab[c].name /\ t[c].tail = tab[c].tail
        BY <1>3, <1>4, <1>6, <2>2 DEF HalfSynced, InUse
      <3>2. \A e \in InUse(t) : /\ e \in InUse(tab) /\ t[e].name = tab[e].name
                                /\ t[e].tail = tab[e].tail /\ t[e].meta = tab[e].meta
        BY <1>8, <3>1
      <3> QED BY <1>2, <3>2, ApartFrom
    <2> QED BY <2>1, <2>2
  <1>10. CASE i < TableSectors
    <2>1. pc' = "table" /\ job'.i = i + 1 /\ job'.raw = job.raw
      <3>1. job' = [job EXCEPT !.i = @ + 1] /\ pc' = pc
        BY <1>10 DEF SyncTable, i
      <3>2. job \in Job
        BY DEF DiskInv, BaseInv, JobInv
      <3> QED BY <1>1, <3>1, <3>2 DEF Job, i
    <2> QED BY <1>1, <1>2, <1>3, <1>4, <1>9, <2>1 DEF ApartInv
  <1>11. CASE ~(i < TableSectors)
    <2>1. pc' = "super"
      BY <1>11 DEF SyncTable, i
    <2>2. SyncedAt(c, entry, t)
      <3> SUFFICES ASSUME Layout[c].meta <= TableSectors
                   PROVE  /\ entry[c].meta.used = t[c].meta.used
                          /\ entry[c].meta.used => t[c] = entry[c]
        BY DEF SyncedAt
      <3>1. /\ Layout[c].meta < i + 1 /\ Layout[c].tail < i + 1 /\ Layout[c].name < i + 1
        BY <1>1, <1>11, LayoutIs
      <3>2. t[c].name = entry[c].name /\ t[c].tail = entry[c].tail /\ t[c].meta = entry[c].meta
        BY <1>4, <3>1 DEF HalfSynced
      <3>3. t \in TableType
        BY <1>1 DEF t, TableSector, TableType
      <3> QED BY <1>1, <3>2, <3>3 DEF TableType
    <2>3. Synced(entry, t)
      BY <1>4, <2>2 DEF Synced, HalfSynced
    <2> QED BY <1>1, <1>2, <1>9, <2>1, <2>3 DEF ApartInv
  <1> QED BY <1>10, <1>11

LEMMA ApartSyncSuper ==
  ASSUME DiskInv, NEW ok \in BOOLEAN, SyncSuper(ok)
  PROVE  ApartInv'
  <1>1. /\ pc = "super" /\ pc' \in {"idle", "home"} /\ entry' = entry /\ tab' = tab
        /\ next' = next /\ overrun' = overrun /\ stale' = stale
    BY DEF SyncSuper, After, ramVars
  <1> QED BY <1>1 DEF DiskInv, ApartInv

LEMMA ApartPowerOff ==
  ASSUME DiskInv, PowerOff
  PROVE  ApartInv'
  <1> SUFFICES ASSUME ~stale' PROVE ApartInv'
    BY DEF ApartInv
  <1>1. /\ ~stale /\ ~SuperBehind /\ pc' = "off" /\ entry' = [e \in Entry |-> NoEntry]
        /\ tab' = tab /\ sup' = sup /\ overrun' = overrun
        /\ tab \in TableType /\ sup.next \in Nat
    BY DEF PowerOff, diskVars, DiskInv, BaseInv, TypeOK
  <1>2. Apart(tab, overrun)
    BY <1>1 DEF DiskInv, ApartInv
  <1>3. Apart(entry', overrun)
    BY <1>1, NoneInUse
  <1>4. InUse(tab) # {} => sup.magic
    BY <1>1 DEF SuperBehind
  <1>5. Below(tab, overrun, sup.next)
    <2>1. ASSUME NEW e \in InUse(tab), NEW s \in Extent(tab[e].meta) \ overrun
          PROVE  s < sup.next
      <3>1. s \in Int
        BY <1>1, ExtentIs DEF InUse
      <3>2. ~(s >= sup.next)
        BY <1>1 DEF SuperBehind
      <3> QED BY <1>1, <3>1, <3>2
    <2> QED BY <2>1 DEF Below
  <1> QED BY <1>1, <1>2, <1>3, <1>4, <1>5 DEF ApartInv

-----------------------------------------------------------------------------

LEMMA DiskInvNext == DiskInv /\ [Next]_vars => DiskInv'
  <1> SUFFICES ASSUME DiskInv, [Next]_vars PROVE DiskInv'
    OBVIOUS
  <1>1. BaseInv'
    BY BaseNext DEF DiskInv
  <1>2. ApartInv'
    <2>1. CASE ShellSaves
      <3>1. PICK r, data, type, v, refused, home : Saving(r, data, type, v, refused, home)
        BY <2>1, ShellSavesIs DEF DiskInv
      <3> QED BY <3>1, ApartSave
    <2>2. CASE UNCHANGED vars
      BY <2>2 DEF vars, ramVars, diskVars, history, DiskInv, ApartInv, SaveApart, Mine
    <2> QED BY <2>1, <2>2, ApartBoot, ApartFormat, ApartDataSector, ApartRm, ApartSyncTable,
               ApartSyncSuper, ApartPowerOff DEF Next, ShellSaves
  <1> QED BY <1>1, <1>2 DEF DiskInv

LEMMA DiskInvFilesApart == DiskInv => FilesApart
  <1> SUFFICES ASSUME DiskInv, ~stale PROVE FilesApart
    BY DEF FilesApart
  <1>1. Apart(tab, overrun) /\ (pc = "idle" => Below(entry, overrun, next))
    BY DEF DiskInv, ApartInv
  <1>2. \A e \in InUse(tab) : PathOf(tab[e]) = tab[e].name
    BY <1>1 DEF Apart, PathOf
  <1> QED BY <1>1, <1>2 DEF FilesApart, Apart, Below

-----------------------------------------------------------------------------
(* What the shell has reported is on the disk d.                            *)

Told == [state : {"none", "busy", "kept"}, data : Data, type : Type]

\* An entry describes that content, and its sectors hold it.
Shows(d, m, data) ==
  /\ m.size = Len(data) /\ m.size <= m.count
  /\ m.type = "dir" => data = Empty
  /\ \A s \in 1 .. Len(data) : d[m.lba + s - 1] = data[s]

\* The table t has the file r with that content, or another file has grown
\* into it.
Restored(t, d, over, r, data) ==
  \E e \in InUse(t) : /\ t[e].name = r
                      /\ Extent(t[e].meta) \cap over # {} \/ Shows(d, t[e].meta, data)

Removed(t, r) == \A e \in InUse(t) : t[e].name # r

\* The first i - 1 sectors of the save under way are on the disk, and its
\* entry is one that will be.
Written(d, j) ==
  /\ Layout[j.at].meta <= TableSectors
  /\ j.type = "dir" => j.data = Empty
  /\ \A s \in 1 .. j.i - 1 : s <= Len(j.data) => d[j.lba + s - 1] = j.data[s]

\* Its entry is filled in.
Filled(t, d, j) ==
  \E e \in InUse(t) : /\ Layout[e].meta <= TableSectors /\ t[e].name = j.raw
                      /\ Shows(d, t[e].meta, j.data)

\* What was reported of r is so.
Reported(r) ==
  /\ saved[r].state = "kept" => Restored(tab, disk, overrun, r, saved[r].data)
  /\ saved[r].state = "none" => Removed(tab, r)

JobKept ==
  /\ pc \in {"data", "table", "super"} => job.raw \in Raw /\ saved[job.raw] = Busy
  /\ pc = "data" /\ job.raw \notin unkept => Written(disk, job)
  /\ pc \in {"table", "super"} /\ job.type # "gone" /\ job.raw \notin unkept =>
       Filled(entry, disk, job)
  /\ pc \in {"table", "super"} /\ job.type = "gone" => Removed(entry, job.raw)

KeptInv ==
  /\ saved \in [Raw -> Told]
  /\ ~stale => JobKept /\ \A r \in Raw \ unkept : Reported(r)

LEMMA TellsAre ==
  /\ None \in Told /\ Busy \in Told /\ None.state = "none" /\ Busy.state = "busy"
  /\ \A data \in Data, type \in Type :
       /\ Kept(data, type) \in Told /\ Kept(data, type).state = "kept"
       /\ Kept(data, type).data = data
  BY VfsNames DEF None, Busy, Kept, Told, Type

\* What is reported stays so when another file grows.
LEMMA RestoredMore ==
  ASSUME NEW t, NEW d, NEW over, NEW more, over \subseteq more, NEW r, NEW data,
         Restored(t, d, over, r, data)
  PROVE  Restored(t, d, more, r, data)
  BY DEF Restored

LEMMA KeptInit == Init => KeptInv
  <1> SUFFICES ASSUME Init PROVE KeptInv
    OBVIOUS
  <1>1. InUse(tab) = {} /\ pc = "off" /\ saved = [r \in Raw |-> None]
    BY NoneInUse DEF Init
  <1> QED BY <1>1, TellsAre DEF KeptInv, JobKept, Reported, Removed

\* Steps between commands.
LEMMA KeptRests ==
  BaseInv /\ KeptInv /\ (Boot \/ BootBlank \/ Format \/ FormatRefused \/ PowerOff) => KeptInv'
  <1> SUFFICES ASSUME BaseInv, KeptInv, Boot \/ BootBlank \/ Format \/ FormatRefused \/ PowerOff
               PROVE  KeptInv'
    OBVIOUS
  <1>1. /\ tab' = tab /\ disk' = disk /\ overrun' = overrun /\ saved' = saved /\ unkept' = unkept
        /\ pc' \notin {"data", "table", "super"} /\ (~stale' => ~stale)
    <2>1. stale \in BOOLEAN
      BY DEF BaseInv
    <2>2. CASE Boot \/ BootBlank \/ Format
      BY <2>2 DEF Boot, BootBlank, Format, diskVars, history
    <2>3. CASE FormatRefused
      BY <2>1, <2>3 DEF FormatRefused, diskVars
    <2>4. CASE PowerOff
      BY <2>1, <2>4 DEF PowerOff, diskVars
    <2> QED BY <2>2, <2>3, <2>4
  <1> QED BY <1>1 DEF KeptInv, JobKept, Reported

LEMMA KeptFormat ==
  ASSUME BaseInv, KeptInv, FormatSuper \/ \E ok \in BOOLEAN : FormatTable(ok)
  PROVE  KeptInv'
  <1>1. CASE FormatSuper
    BY <1>1, TellsAre DEF FormatSuper, KeptInv
  <1>2. ASSUME NEW ok \in BOOLEAN, FormatTable(ok) PROVE KeptInv'
    <2>1. pc = "formatTable" /\ stale
      BY <1>2 DEF FormatTable, BaseInv, JobInv
    <2>2. CASE job.i < TableSectors
      BY <1>2, <2>1, <2>2 DEF FormatTable, history, KeptInv
    <2>3. CASE ~(job.i < TableSectors)
      <3>1. pc' = "idle" /\ saved' = [r \in Raw |-> None] /\ (~stale' => InUse(tab') = {})
        BY <1>2, <2>3 DEF FormatTable
      <3> QED BY <3>1, TellsAre DEF KeptInv, JobKept, Reported, Removed
    <2> QED BY <2>2, <2>3
  <1> QED BY <1>1, <1>2

\* A save makes r's own report open; it may overrun others.
LEMMA KeptSave ==
  ASSUME DiskInv, KeptInv, NEW r, NEW data, NEW type, NEW v, NEW refused, NEW home,
         Saving(r, data, type, v, refused, home)
  PROVE  KeptInv'
  <1> DEFINE e == EntryFor(r)
             m == entry[e].meta
  <1>1. /\ r \in Raw /\ data \in Data /\ type \in Type /\ (type = "dir" => data = Empty)
        /\ entry' = entry /\ tab' = tab /\ disk' = disk /\ stale' = stale
        /\ saved \in [Raw -> Told] /\ pc \in {"idle", "home"}
        /\ entry \in TableType
    BY DEF Saving, Save, diskVars, KeptInv, DiskInv, BaseInv, TypeOK
  <1>2. saved' = [saved EXCEPT ![r] = IF NoEntryFor(r) THEN Kept(data, type) ELSE Busy]
    BY DEF Saving, Save
  <1>3. saved' \in [Raw -> Told] /\ \A q \in Raw \ {r} : saved'[q] = saved[q]
    BY <1>1, <1>2, TellsAre
  <1>4. overrun \subseteq overrun'
    BY DEF Saving, Save
  <1>5. /\ \A q \in Raw \ {r} : q \notin unkept' => q \notin unkept
        /\ r \notin unkept' => ~refused /\ ~NoEntryFor(r) /\ Persisted(e)
    BY DEF Saving, Save
  <1>6. ASSUME ~stale, NEW q \in Raw, q \notin unkept' PROVE Reported(q)'
    <2>1. CASE q = r
      <3>1. saved'[q] = Busy
        BY <1>1, <1>2, <1>5, <1>6, <2>1
      <3> QED BY <3>1, TellsAre DEF Reported
    <2>2. CASE q # r
      <3>1. q \in Raw \ unkept /\ saved'[q] = saved[q]
        BY <1>3, <1>5, <1>6, <2>2
      <3>2. Reported(q)
        BY <1>6, <3>1 DEF KeptInv
      <3> QED BY <1>1, <1>4, <3>1, <3>2, RestoredMore DEF Reported
    <2> QED BY <2>1, <2>2
  <1>7. JobKept'
    <2>1. CASE NoEntryFor(r)
      <3>1. pc' \in {"idle", "home"}
        BY <2>1 DEF Saving, Save, After
      <3> QED BY <3>1 DEF JobKept
    <2>2. CASE ~NoEntryFor(r)
      <3>1. /\ pc' = "data" /\ saved'[r] = Busy
            /\ job' = [raw |-> r, at |-> e, data |-> data, type |-> type,
                       lba |-> IF m.used THEN m.lba ELSE next,
                       count |-> Needed(data), i |-> 1, home |-> home]
        BY <1>1, <1>2, <2>2 DEF Saving, Save
      <3>2. job'.raw = r /\ job'.at = e /\ job'.data = data /\ job'.type = type /\ job'.i = 1
        BY <3>1
      <3>3. r \notin unkept' => Layout[e].meta <= TableSectors
        BY <1>5, DiskAssumption DEF Persisted
      <3> QED BY <1>1, <3>1, <3>2, <3>3 DEF JobKept, Written
    <2> QED BY <2>1, <2>2
  <1> QED BY <1>1, <1>3, <1>6, <1>7 DEF KeptInv

\* What the table on disk has in use, memory has.
LEMMA SyncedIs ==
  ASSUME Synced(entry, tab), OutOfReach(tab)
  PROVE  /\ \A e \in InUse(tab) : e \in InUse(entry) /\ tab[e] = entry[e]
         /\ \A e \in InUse(entry) :
              Layout[e].meta <= TableSectors => e \in InUse(tab) /\ tab[e] = entry[e]
  <1>1. \A e \in InUse(tab) : e \in Entry /\ Layout[e].meta <= TableSectors
    BY LayoutIs DEF OutOfReach, InUse
  <1> QED BY <1>1 DEF Synced, SyncedAt, InUse

LEMMA KeptRm ==
  ASSUME DiskInv, KeptInv, NEW r \in Raw, Rm(r)
  PROVE  KeptInv'
  <1>1. /\ pc = "idle" /\ tab' = tab /\ disk' = disk /\ overrun' = overrun /\ unkept' = unkept
        /\ stale' = stale /\ saved \in [Raw -> Told] /\ OutOfReach(tab) /\ entry \in TableType
    BY DEF Rm, diskVars, KeptInv, DiskInv, BaseInv, TypeOK
  <1>2. saved' = [saved EXCEPT ![r] = IF Matching(r) = {} THEN None ELSE Busy]
    BY DEF Rm
  <1>3. saved' \in [Raw -> Told] /\ \A q \in Raw \ {r} : saved'[q] = saved[q]
    BY <1>1, <1>2, TellsAre
  <1>4. ASSUME ~stale
        PROVE  /\ Apart(tab, overrun) /\ Apart(entry, overrun) /\ Synced(entry, tab)
    BY <1>1, <1>4 DEF DiskInv, ApartInv
  <1>5. ASSUME ~stale, NEW q \in Raw \ unkept PROVE Reported(q)'
    <2>1. CASE q # r
      <3>1. Reported(q) /\ saved'[q] = saved[q]
        BY <1>3, <1>5, <2>1 DEF KeptInv
      <3> QED BY <1>1, <3>1 DEF Reported
    <2>2. CASE q = r /\ Matching(r) = {}
      <3>1. Removed(tab, r)
        BY <1>1, <1>4, <1>5, <2>2, SyncedIs DEF Removed, Matching, PathOf, Apart
      <3> QED BY <1>1, <1>2, <2>2, <3>1, TellsAre DEF Reported
    <2>3. CASE q = r /\ Matching(r) # {}
      BY <1>1, <1>2, <2>3, TellsAre DEF Reported
    <2> QED BY <2>1, <2>2, <2>3
  <1>6. ASSUME ~stale PROVE JobKept'
    <2>1. CASE Matching(r) = {}
      BY <1>1, <2>1 DEF Rm, JobKept
    <2>2. CASE Matching(r) # {}
      <3> DEFINE c == First(Matching(r))
      <3>1. c \in Matching(r) /\ c \in InUse(entry) /\ c \in Entry /\ entry[c].name = r
        BY <2>2, EntryForIs
      <3>2. /\ entry' = [entry EXCEPT ![c].meta.used = FALSE] /\ pc' = "table"
            /\ job' = [NoJob EXCEPT !.raw = r, !.i = 1, !.type = "gone"]
        BY <2>2 DEF Rm
      <3> HIDE DEF c
      <3>3. job'.raw = r /\ job'.type = "gone"
        BY <3>2 DEF NoJob
      <3>4. ~entry'[c].meta.used /\ \A e \in Entry \ {c} : entry'[e] = entry[e]
        BY <1>1, <3>1, <3>2 DEF TableType, Meta
      <3>5. Removed(entry', r)
        BY <1>4, <1>6, <3>1, <3>4 DEF Removed, InUse, Apart
      <3>6. saved'[r] = Busy
        BY <1>1, <1>2, <2>2
      <3> QED BY <3>2, <3>3, <3>5, <3>6 DEF JobKept
    <2> QED BY <2>1, <2>2
  <1> QED BY <1>1, <1>3, <1>5, <1>6 DEF KeptInv

\* A sector that is written is none of another file's, and the last one
\* completes the file.
LEMMA KeptDataSector ==
  ASSUME DiskInv, KeptInv, NEW ok \in BOOLEAN, DataSector(ok)
  PROVE  KeptInv'
  <1> DEFINE at == job.lba + job.i - 1
             piece == IF job.i <= Len(job.data) THEN job.data[job.i] ELSE Zeroed
  <1>1. /\ pc = "data" /\ tab' = tab /\ overrun' = overrun /\ saved' = saved /\ stale' = stale
        /\ DataJob /\ OutOfReach(tab) /\ entry \in TableType /\ job \in Job
        /\ saved \in [Raw -> Told] /\ disk \in [1 .. DiskSize -> Sector] /\ saves \in 0 .. MaxSaves
    BY DEF DataSector, DiskInv, BaseInv, JobInv, TypeOK, KeptInv
  <1>2. /\ disk' = IF ok THEN [disk EXCEPT ![at] = piece] ELSE disk
        /\ unkept' = IF ok THEN unkept ELSE unkept \cup {job.raw}
    BY DEF DataSector
  <1>3. job.data \in Data /\ Len(job.data) \in 0 .. 2 /\ Len(job.data) <= job.count /\ job.count \in 1 .. 2
    BY <1>1, DataIs DEF Job, DataJob
  <1>4. /\ at \in Mine /\ at \in 1 .. DiskSize /\ job.i \in 1 .. job.count /\ job.lba \in Nat
    <2>1. job.i \in 1 .. job.count /\ job.lba \in Nat /\ job.lba >= 1 /\ job.lba + 1 <= 2 * saves
      BY <1>1 DEF DataJob, Job
    <2>2. 2 * saves <= DiskSize /\ DiskSize \in Nat /\ saves \in Nat
      BY <1>1, DiskAssumption
    <2>3. at \in Int /\ at >= job.lba /\ at <= job.lba + job.count - 1 /\ at <= job.lba + 1
      <3>1. job.count \in 1 .. 2 /\ at = job.lba + job.i - 1
        BY <1>3
      <3> HIDE DEF at
      <3> QED BY <2>1, <3>1
    <2>4. at >= 1 /\ at <= DiskSize
      BY <2>1, <2>2, <2>3
    <2> QED BY <1>3, <2>1, <2>2, <2>3, <2>4 DEF Mine
  <1>5. /\ \A s \in DOMAIN disk : s # at => disk'[s] = disk[s]
        /\ ok => disk'[at] = piece
    BY <1>1, <1>2, <1>4
  <1> HIDE DEF at, piece
  <1>6. CASE stale
    BY <1>1, <1>6 DEF KeptInv
  <1>7. CASE ~stale
    <2>1. /\ Apart(entry, overrun) /\ Synced(entry, tab) /\ SaveApart
          /\ job.raw \in Raw /\ saved[job.raw] = Busy
          /\ (job.raw \notin unkept => Written(disk, job))
          /\ \A r \in Raw \ unkept : Reported(r)
      BY <1>1, <1>7 DEF DiskInv, ApartInv, KeptInv, JobKept
    <2>2. ASSUME NEW r \in Raw \ unkept' PROVE Reported(r)'
      <3>1. Reported(r)
        BY <1>2, <2>1, <2>2
      <3>2. ASSUME saved[r].state = "kept" PROVE Restored(tab, disk', overrun, r, saved[r].data)
        <4>1. r # job.raw
          BY <2>1, <3>2, TellsAre
        <4>2. PICK e \in InUse(tab) :
                /\ tab[e].name = r
                /\ Extent(tab[e].meta) \cap overrun # {} \/ Shows(disk, tab[e].meta, saved[r].data)
          BY <3>1, <3>2 DEF Reported, Restored
        <4>3. e \in InUse(entry) /\ tab[e] = entry[e] /\ e \in Entry
          BY <1>1, <2>1, SyncedIs DEF InUse
        <4>4. CASE Extent(tab[e].meta) \cap overrun # {}
          BY <4>2, <4>4 DEF Restored
        <4>5. CASE Extent(tab[e].meta) \cap overrun = {}
          <5> DEFINE m == tab[e].meta
                     data == saved[r].data
          <5>1. Shows(disk, m, data)
            BY <4>2, <4>5
          <5>2. e # job.at
            BY <2>1, <4>1, <4>2, <4>3 DEF SaveApart, InUse
          <5>3. at \notin Extent(m)
            BY <1>4, <2>1, <4>3, <4>5, <5>2 DEF SaveApart
          <5>4. m.lba \in Nat /\ m.count \in Nat /\ m.size \in Nat /\ m.size <= 2 /\ m.lba >= 1 /\ m.lba + 1 <= DiskSize
                /\ DiskSize \in Nat
            <6>1. m \in Meta /\ OnTheDisk(m, saves) /\ m.used
              BY <4>2, <4>3 DEF DiskInv, BaseInv, Laid, TableType, InUse
            <6>2. 2 * saves <= DiskSize /\ DiskSize \in Nat
              BY <1>1, DiskAssumption
            <6> QED BY <1>1, <6>1, <6>2 DEF Meta, OnTheDisk
          <5> HIDE DEF m, data
          <5>5. ASSUME NEW s \in 1 .. Len(data) PROVE disk'[m.lba + s - 1] = data[s]
            <6>1. Len(data) = m.size /\ m.size <= m.count
              BY <5>1 DEF Shows
            <6>2. m.lba + s - 1 \in Extent(m)
              <7>1. m.lba + s - 1 \in m.lba .. m.lba + m.count - 1
                <8>1. s \in 1 .. m.size /\ m.size <= m.count /\ m.size \in Nat /\ m.count \in Nat /\ m.lba \in Nat
                  BY <5>4, <6>1
                <8> QED BY <8>1
              <7> QED BY <7>1 DEF Extent
            <6>3. m.lba + s - 1 \in DOMAIN disk
              <7>1. s \in 1 .. 2
                BY <5>4, <6>1
              <7>2. m.lba + s - 1 \in 1 .. DiskSize
                BY <5>4, <7>1
              <7> QED BY <1>1, <7>2
            <6>4. disk'[m.lba + s - 1] = disk[m.lba + s - 1]
              BY <1>5, <5>3, <6>2, <6>3
            <6> QED BY <5>1, <6>4 DEF Shows
          <5>6. Shows(disk', m, data)
            BY <5>1, <5>5 DEF Shows
          <5> QED BY <4>2, <5>6 DEF Restored, m, data
        <4> QED BY <4>4, <4>5
      <3> QED BY <1>1, <3>1, <3>2 DEF Reported
    <2>3. job.raw \notin unkept' => ok /\ Written(disk, job)
      BY <1>2, <2>1
    <2>4. ASSUME job.raw \notin unkept', NEW s \in 1 .. job.i, s <= Len(job.data)
          PROVE  disk'[job.lba + s - 1] = job.data[s]
      <3>1. CASE s = job.i
        BY <1>5, <2>3, <2>4, <3>1 DEF at, piece
      <3>2. CASE s # job.i
        <4>1. s \in 1 .. job.i - 1
          BY <1>4, <3>2
        <4>2. disk[job.lba + s - 1] = job.data[s]
          BY <2>3, <2>4, <4>1 DEF Written
        <4>3. job.lba + s - 1 # at
          BY <1>4, <4>1 DEF at
        <4>4. job.lba + s - 1 \in DOMAIN disk
          <5>1. job.lba + s - 1 >= 1 /\ job.lba + s - 1 <= at
            BY <1>1, <1>4, <4>1 DEF at, DataJob
          <5>2. job.lba + s - 1 \in Int /\ at \in Int
            BY <1>4, <4>1
          <5> QED BY <1>1, <1>4, <5>1, <5>2, DiskAssumption
        <4> QED BY <1>5, <4>2, <4>3, <4>4
      <3> QED BY <3>1, <3>2
    <2>5. CASE job.i < job.count
      <3>1. pc' = pc /\ entry' = entry /\ job' = [job EXCEPT !.i = @ + 1]
        BY <2>5 DEF DataSector
      <3>2. /\ job'.raw = job.raw /\ job'.at = job.at /\ job'.lba = job.lba /\ job'.i = job.i + 1
            /\ job'.data = job.data /\ job'.type = job.type
        BY <1>1, <3>1 DEF Job
      <3>3. (job.i + 1) - 1 = job.i
        BY <1>4
      <3>4. job.raw \notin unkept' => Written(disk', job')
        BY <2>3, <2>4, <3>2, <3>3 DEF Written
      <3> QED BY <1>1, <2>1, <2>2, <3>1, <3>2, <3>4 DEF KeptInv, JobKept
    <2>6. CASE ~(job.i < job.count)
      <3> DEFINE c == job.at
                 n == [name |-> job.raw, tail |-> job.raw,
                       meta |-> [used |-> TRUE, type |-> job.type, size |-> Len(job.data),
                                 lba |-> job.lba, count |-> job.count]]
      <3>1. pc' = "table" /\ job' = [job EXCEPT !.i = 1] /\ entry' = [entry EXCEPT ![c] = n]
        BY <2>6 DEF DataSector
      <3>2. /\ n.name = job.raw /\ n.meta.used /\ n.meta.size = Len(job.data)
            /\ n.meta.lba = job.lba /\ n.meta.count = job.count /\ n.meta.type = job.type
        OBVIOUS
      <3>3. c \in Entry /\ job'.raw = job.raw /\ job'.data = job.data /\ job'.type = job.type
            /\ job.type # "gone"
        BY <1>1, <3>1 DEF DataJob, Job, Type
      <3> HIDE DEF c, n
      <3>4. entry'[c] = n /\ c \in InUse(entry')
        BY <1>1, <3>1, <3>2, <3>3 DEF TableType, InUse
      <3>5. ASSUME job.raw \notin unkept' PROVE Filled(entry', disk', job')
        <4>1. job.i = job.count
          BY <1>3, <1>4, <2>6
        <4>2. \A s \in 1 .. Len(job.data) : disk'[job.lba + s - 1] = job.data[s]
          BY <1>3, <2>4, <3>5, <4>1
        <4>3. Shows(disk', n.meta, job.data)
          BY <1>3, <2>3, <3>2, <3>5, <4>2 DEF Shows, Written
        <4>4. Layout[c].meta <= TableSectors
          BY <2>3, <3>5 DEF Written, c
        <4> QED BY <3>2, <3>3, <3>4, <4>3, <4>4 DEF Filled
      <3> QED BY <1>1, <2>1, <2>2, <3>1, <3>3, <3>5 DEF KeptInv, JobKept
    <2> QED BY <2>5, <2>6
  <1> QED BY <1>6, <1>7

\* A sector of the table changes the entry of the command under way only.
LEMMA KeptSyncTable ==
  ASSUME DiskInv, KeptInv, NEW ok \in BOOLEAN, SyncTable(ok)
  PROVE  KeptInv'
  <1> DEFINE t == TableSector(tab, job.i)
  <1>1. /\ pc = "table" /\ entry' = entry /\ overrun' = overrun /\ saved' = saved
        /\ unkept' = unkept /\ disk' = disk /\ saved \in [Raw -> Told]
        /\ job.i \in 1 .. TableSectors /\ job \in Job
        /\ entry \in TableType /\ tab \in TableType /\ OutOfReach(tab)
        /\ Laid(entry, saves) /\ Laid(tab, saves) /\ stale \in BOOLEAN
    BY DEF SyncTable, ramVars, DiskInv, BaseInv, JobInv, TypeOK, KeptInv
  <1>2. CASE stale'
    BY <1>1, <1>2 DEF KeptInv
  <1>3. CASE ~stale'
    <2>1. ~stale /\ ok /\ tab' = t
      BY <1>1, <1>3 DEF SyncTable
    <2>2. PICK c \in Entry : entry[c].name = job.raw /\ HalfSynced(c, entry, tab, job.i)
      BY <1>1, <2>1 DEF DiskInv, ApartInv
    <2>3. HalfSynced(c, entry, t, job.i + 1)
      BY <1>1, <2>2, NextHalf
    <2>4. OutOfReach(t)
      BY <1>1, TableSectorLaid
    <2> HIDE DEF t
    <2>5. /\ \A e \in InUse(tab) : e \in Entry /\ Layout[e].meta <= TableSectors
          /\ \A e \in InUse(t) : e \in Entry /\ Layout[e].meta <= TableSectors
      BY <1>1, <2>4, LayoutIs DEF OutOfReach, InUse
    <2>6. /\ \A e \in InUse(tab) \ {c} : e \in InUse(t) /\ t[e] = tab[e]
          /\ \A e \in InUse(t) \ {c} : e \in InUse(tab) /\ t[e] = tab[e]
      BY <2>2, <2>3, <2>5 DEF HalfSynced, SyncedAt, InUse
    <2>7. /\ c \in InUse(tab) => tab[c].name = job.raw
          /\ c \in InUse(t) => t[c].name = job.raw
      BY <2>2, <2>3 DEF HalfSynced, InUse
    <2>8. JobKept /\ job.raw \in Raw /\ saved[job.raw] = Busy
      BY <1>1, <2>1 DEF KeptInv, JobKept
    <2>9. ASSUME NEW r \in Raw \ unkept PROVE Reported(r)'
      <3>1. Reported(r)
        BY <2>1, <2>9 DEF KeptInv
      <3>2. CASE r = job.raw
        BY <1>1, <2>8, <3>2, TellsAre DEF Reported
      <3>3. CASE r # job.raw
        <4>1. saved[r].state = "kept" => Restored(t, disk, overrun, r, saved[r].data)
          BY <2>6, <2>7, <3>1, <3>3 DEF Reported, Restored
        <4>2. saved[r].state = "none" => Removed(t, r)
          BY <2>6, <2>7, <3>1, <3>3 DEF Reported, Removed
        <4> QED BY <1>1, <2>1, <4>1, <4>2 DEF Reported
      <3> QED BY <3>2, <3>3
    <2>10. /\ job'.raw = job.raw /\ job'.data = job.data /\ job'.type = job.type
           /\ pc' \in {"table", "super"}
      BY <1>1 DEF SyncTable, Job
    <2>11. JobKept'
      BY <1>1, <2>8, <2>10 DEF JobKept, Filled
    <2> QED BY <1>1, <2>9, <2>11 DEF KeptInv
  <1> QED BY <1>2, <1>3

\* When a command is reported, what it reports is on the disk.
LEMMA KeptSyncSuper ==
  ASSUME DiskInv, KeptInv, NEW ok \in BOOLEAN, SyncSuper(ok)
  PROVE  KeptInv'
  <1>1. /\ pc = "super" /\ pc' \in {"idle", "home"} /\ entry' = entry /\ overrun' = overrun
        /\ tab' = tab /\ unkept' = unkept /\ disk' = disk /\ stale' = stale
        /\ saved \in [Raw -> Told] /\ job \in Job /\ OutOfReach(tab)
    BY DEF SyncSuper, After, ramVars, DiskInv, BaseInv, JobInv, KeptInv
  <1> DEFINE told == IF job.type = "gone" THEN None ELSE Kept(job.data, job.type)
  <1>2. saved' = [saved EXCEPT ![job.raw] = told]
    BY DEF SyncSuper
  <1>3. told \in Told
    BY <1>1, TellsAre DEF Job
  <1> HIDE DEF told
  <1>4. saved' \in [Raw -> Told] /\ \A q \in Raw \ {job.raw} : saved'[q] = saved[q]
    BY <1>1, <1>2, <1>3
  <1>5. CASE stale
    BY <1>1, <1>4, <1>5 DEF KeptInv
  <1>6. CASE ~stale
    <2>1. Synced(entry, tab) /\ JobKept /\ \A r \in Raw \ unkept : Reported(r)
      BY <1>1, <1>6 DEF DiskInv, ApartInv, KeptInv
    <2>2. job.raw \in Raw
      BY <1>1, <2>1 DEF JobKept
    <2>3. saved'[job.raw] = told
      BY <1>1, <1>2, <2>2
    <2>4. ASSUME NEW r \in Raw \ unkept PROVE Reported(r)'
      <3>1. CASE r # job.raw
        <4>1. Reported(r) /\ saved'[r] = saved[r]
          BY <1>4, <2>1, <2>4, <3>1
        <4> QED BY <1>1, <4>1 DEF Reported
      <3>2. CASE r = job.raw /\ job.type = "gone"
        <4>1. Removed(entry, r)
          BY <1>1, <2>1, <3>2 DEF JobKept
        <4>2. Removed(tab, r)
          BY <1>1, <2>1, <4>1, SyncedIs DEF Removed
        <4> QED BY <1>1, <2>3, <3>2, <4>2, TellsAre DEF Reported, told
      <3>3. CASE r = job.raw /\ job.type # "gone"
        <4>1. Filled(entry, disk, job)
          BY <1>1, <2>1, <2>4, <3>3 DEF JobKept
        <4>2. Restored(tab, disk, overrun, r, job.data)
          BY <1>1, <2>1, <3>3, <4>1, SyncedIs DEF Filled, Restored
        <4>3. told.state = "kept" /\ told.data = job.data
          BY <1>1, <3>3, TellsAre DEF told, Job
        <4> QED BY <1>1, <2>3, <3>3, <4>2, <4>3 DEF Reported
      <3> QED BY <3>1, <3>2, <3>3
    <2>5. JobKept'
      BY <1>1 DEF JobKept
    <2> QED BY <1>1, <1>4, <2>4, <2>5 DEF KeptInv
  <1> QED BY <1>5, <1>6

LEMMA KeptNext == DiskInv /\ KeptInv /\ [Next]_vars => KeptInv'
  <1> SUFFICES ASSUME DiskInv, KeptInv, [Next]_vars PROVE KeptInv'
    OBVIOUS
  <1>1. BaseInv
    BY DEF DiskInv
  <1>2. CASE ShellSaves
    <2>1. PICK r, data, type, v, refused, home : Saving(r, data, type, v, refused, home)
      BY <1>1, <1>2, ShellSavesIs
    <2> QED BY <2>1, KeptSave
  <1>3. CASE UNCHANGED vars
    BY <1>3 DEF vars, diskVars, ramVars, history, KeptInv, JobKept, Reported
  <1> QED BY <1>1, <1>2, <1>3, KeptRests, KeptFormat, KeptDataSector, KeptRm, KeptSyncTable,
             KeptSyncSuper DEF Next, ShellSaves

\* A mount gives back what an entry describes.
LEMMA ShowsStored ==
  ASSUME NEW m \in Meta, NEW data \in Data, Shows(disk, m, data)
  PROVE  Stored(m) = data
  <1>1. Len(data) \in 0 .. 2 /\ m.size = Len(data) /\ data = [s \in 1 .. Len(data) |-> data[s]]
    BY DataIs, DiskAssumption DEF Shows
  <1>2. CASE m.type = "dir" \/ m.size = 0
    BY <1>1, <1>2, DiskAssumption DEF Shows, Stored
  <1>3. CASE ~(m.type = "dir" \/ m.size = 0)
    <2>1. Stored(m) = [s \in 1 .. Len(data) |-> disk[m.lba + s - 1]]
      BY <1>1, <1>3 DEF Stored, OnDisk
    <2>2. \A s \in 1 .. Len(data) : disk[m.lba + s - 1] = data[s]
      BY DEF Shows
    <2> HIDE DEF Shows
    <2> QED BY <1>1, <2>1, <2>2
  <1> QED BY <1>2, <1>3

\* Every file of the table on disk with that content is in the tree that a
\* mount builds.
LEMMA KeptDurable ==
  RoomToMount /\ DiskInv /\ KeptInv => Durable
  <1> SUFFICES ASSUME RoomToMount, DiskInv, KeptInv, ~stale, NEW r \in Raw \ unkept
               PROVE  /\ saved[r].state = "kept" =>
                           Overrun(tab, r) \/ Superseded(tab, r) \/ Holds(Mounted, r)
                      /\ saved[r].state = "none" => \A e \in InUse(tab) : PathOf(tab[e]) # r
    BY DEF Durable
  <1>1. /\ Laid(tab, saves) /\ OutOfReach(tab) /\ saves \in 0 .. MaxSaves
        /\ disk \in [1 .. DiskSize -> Sector] /\ tab \in TableType /\ Apart(tab, overrun)
        /\ Reported(r) /\ saved \in [Raw -> Told]
    BY DEF DiskInv, BaseInv, ApartInv, TypeOK, KeptInv
  <1>2. \A e \in InUse(tab) : PathOf(tab[e]) = tab[e].name
    BY <1>1 DEF Apart, PathOf
  <1>3. saved[r].state = "none" => \A e \in InUse(tab) : PathOf(tab[e]) # r
    BY <1>1, <1>2 DEF Reported, Removed
  <1>4. ASSUME saved[r].state = "kept", ~Superseded(tab, r)
        PROVE  Overrun(tab, r) \/ Holds(Mounted, r)
    <2>1. PICK e \in InUse(tab) :
            /\ tab[e].name = r
            /\ Extent(tab[e].meta) \cap overrun # {} \/ Shows(disk, tab[e].meta, saved[r].data)
      BY <1>1, <1>4 DEF Reported, Restored
    <2>2. CASE Extent(tab[e].meta) \cap overrun # {}
      BY <1>2, <2>1, <2>2 DEF Overrun
    <2>3. CASE Shows(disk, tab[e].meta, saved[r].data)
      <3>1. tab[e].meta \in Meta /\ saved[r].data \in Data
        BY <1>1 DEF TableType, InUse, Told
      <3>2. Stored(tab[e].meta) = saved[r].data
        BY <2>3, <3>1, ShowsStored
      <3>3. ASSUME NEW k \in InUse(tab), e < k PROVE Clean[tab[k].name] # Clean[tab[e].name]
        <4>1. tab[k].name \notin Others(r)
          BY <1>2, <1>4, <2>1, <3>3 DEF Superseded
        <4>2. e # k
          BY <3>3, DiskAssumption DEF InUse, Entry
        <4>3. tab[k].name \in Raw \ {r}
          BY <1>1, <2>1, <4>2 DEF Apart
        <4> QED BY <2>1, <4>1, <4>3 DEF Others
      <3>4. InNode(Mounted, Clean[tab[e].name], Stored(tab[e].meta))
        BY <1>1, <3>3, MountHolds DEF Apart
      <3> QED BY <2>1, <3>2, <3>4 DEF InNode, Holds
    <2> QED BY <2>1, <2>2, <2>3
  <1> QED BY <1>3, <1>4

-----------------------------------------------------------------------------
(* ... and in the tree.                                                     *)

Overran(t, over, r) == \E e \in InUse(t) : t[e].name = r /\ Extent(t[e].meta) \cap over # {}

\* The tree shows what was reported of r.
Shown(r) ==
  saved[r].state = "kept" =>
    Overran(entry, overrun, r) \/ InNode(vfs, Clean[r], saved[r].data)

\* It has what the save under way will report.
JobShown ==
  pc \in {"data", "table", "super"} /\ job.type # "gone" /\ job.raw \notin unkept =>
    InNode(vfs, Clean[job.raw], job.data)

TreeInv ==
  ~stale /\ pc \notin {"off", "formatTable"} =>
    JobShown /\ \A r \in Raw \ (unkept \cup hidden) : Shown(r)

\* A call on one node leaves what the tree shows of the others, whose entries
\* stay as they were.
LEMMA OthersShown ==
  ASSUME NEW r \in Raw, NEW q \in Raw \ {r}, q \notin Others(r), Shown(q), saved'[q] = saved[q],
         OthersStay(vfs, vfs', Clean[r]), overrun \subseteq overrun',
         \A e \in InUse(entry) : entry[e].name = q => e \in InUse(entry') /\ entry'[e] = entry[e]
  PROVE  Shown(q)'
  <1>1. Clean[q] # Clean[r] /\ Clean[q] \in Path
    BY DiskAssumption DEF Others
  <1>2. ASSUME Overran(entry, overrun, q) PROVE Overran(entry', overrun', q)
    BY <1>2 DEF Overran
  <1>3. ASSUME NEW data, InNode(vfs, Clean[q], data) PROVE InNode(vfs', Clean[q], data)
    BY <1>1, <1>3 DEF OthersStay, InNode
  <1> QED BY <1>2, <1>3 DEF Shown

LEMMA TreeBoot ==
  ASSUME RoomToMount, DiskInv, KeptInv, Boot \/ BootBlank
  PROVE  TreeInv'
  <1> SUFFICES ASSUME ~stale' PROVE TreeInv'
    BY DEF TreeInv
  <1>1. /\ pc = "off" /\ ~stale /\ saved' = saved /\ unkept' = unkept /\ overrun' = overrun
        /\ pc' \in {"idle", "formatSuper"}
    BY DEF Boot, BootBlank, history
  <1>2. JobShown'
    BY <1>1 DEF JobShown
  <1>3. ASSUME NEW r \in Raw \ (unkept \cup hidden') PROVE Shown(r)'
    <2>1. CASE Boot
      <3>1. entry' = tab /\ vfs' = Mounted /\ ~Superseded(tab, r)
        BY <1>3, <2>1 DEF Boot
      <3>2. saved[r].state = "kept" => Overrun(tab, r) \/ Holds(Mounted, r)
        BY <1>1, <1>3, <3>1, KeptDurable DEF Durable
      <3>3. \A e \in InUse(tab) : PathOf(tab[e]) = tab[e].name
        BY <1>1 DEF DiskInv, ApartInv, Apart, PathOf
      <3>4. Overrun(tab, r) => Overran(tab, overrun, r)
        BY <3>3 DEF Overrun, Overran
      <3>5. Holds(Mounted, r) => InNode(Mounted, Clean[r], saved[r].data)
        BY DEF Holds, InNode
      <3> QED BY <1>1, <3>1, <3>2, <3>4, <3>5 DEF Shown
    <2>2. CASE BootBlank
      <3>1. InUse(tab) = {} /\ Reported(r)
        BY <1>1, <1>3, <2>2 DEF BootBlank, DiskInv, ApartInv, KeptInv
      <3>2. saved[r].state # "kept"
        BY <3>1 DEF Reported, Restored
      <3> QED BY <1>1, <3>2 DEF Shown
    <2> QED BY <2>1, <2>2
  <1> QED BY <1>1, <1>2, <1>3 DEF TreeInv

LEMMA TreeFormat ==
  ASSUME BaseInv, KeptInv, TreeInv,
         Format \/ FormatSuper \/ FormatRefused \/ \E ok \in BOOLEAN : FormatTable(ok)
  PROVE  TreeInv'
  <1> SUFFICES ASSUME ~stale' PROVE TreeInv'
    BY DEF TreeInv
  <1>1. CASE Format \/ FormatRefused
    <2>1. /\ pc \in {"idle", "formatSuper"} /\ pc' \in {"idle", "formatSuper"} /\ ~stale
          /\ vfs' = vfs /\ entry' = entry /\ saved' = saved /\ unkept' = unkept
          /\ overrun' = overrun /\ hidden' = hidden
      <3>1. CASE Format
        BY <3>1 DEF Format, history
      <3>2. CASE FormatRefused
        BY <3>2 DEF FormatRefused, ramVars
      <3> QED BY <1>1, <3>1, <3>2
    <2> QED BY <2>1 DEF TreeInv, JobShown, Shown
  <1>2. CASE FormatSuper
    BY <1>2 DEF FormatSuper
  <1>3. ASSUME NEW ok \in BOOLEAN, FormatTable(ok) PROVE TreeInv'
    <2>1. pc = "formatTable" /\ stale
      BY <1>3 DEF FormatTable, BaseInv, JobInv
    <2>2. ~(job.i < TableSectors)
      BY <1>3, <2>1 DEF FormatTable, history
    <2>3. pc' = "idle" /\ saved' = [r \in Raw |-> None]
      BY <1>3, <2>2 DEF FormatTable
    <2> QED BY <2>3, TellsAre DEF TreeInv, JobShown, Shown
  <1> QED BY <1>1, <1>2, <1>3

LEMMA TreeSave ==
  ASSUME KeptInv, TreeInv, NEW r, NEW data, NEW type, NEW v, NEW refused, NEW home,
         Saving(r, data, type, v, refused, home)
  PROVE  TreeInv'
  <1> SUFFICES ASSUME ~stale' PROVE TreeInv'
    BY DEF TreeInv
  <1>1. /\ pc \in {"idle", "home"} /\ r \in Raw /\ ~stale /\ entry' = entry /\ vfs' = v
        /\ overrun \subseteq overrun' /\ saved \in [Raw -> Told]
        /\ OthersStay(vfs, v, Clean[r])
        /\ (IF refused THEN v = vfs ELSE InNode(v, Clean[r], data))
    BY DEF Saving, Save, KeptInv
  <1>2. saved' = [saved EXCEPT ![r] = IF NoEntryFor(r) THEN Kept(data, type) ELSE Busy]
    BY DEF Saving, Save
  <1>3. /\ \A q \in Raw \ {r} : q \notin unkept' => q \notin unkept
        /\ r \notin unkept' => ~refused /\ ~NoEntryFor(r)
        /\ hidden' = IF refused THEN hidden ELSE (hidden \cup Others(r)) \ {r}
    BY DEF Saving, Save
  <1>4. ASSUME NEW q \in Raw \ (unkept' \cup hidden') PROVE Shown(q)'
    <2>1. CASE q = r
      BY <1>1, <1>2, <1>3, <2>1, TellsAre DEF Shown
    <2>2. CASE q # r
      <3>1. Shown(q) /\ saved'[q] = saved[q] /\ q \in Raw \ {r}
        BY <1>1, <1>2, <1>3, <1>4, <2>2 DEF TreeInv
      <3>2. CASE refused
        BY <1>1, <3>1, <3>2 DEF Shown, Overran
      <3>3. CASE ~refused
        <4>1. q \notin Others(r)
          BY <1>3, <1>4, <2>2, <3>3
        <4> QED BY <1>1, <3>1, <4>1, OthersShown
      <3> QED BY <3>2, <3>3
    <2> QED BY <2>1, <2>2
  <1>5. JobShown'
    <2>1. CASE NoEntryFor(r)
      BY <2>1 DEF Saving, Save, After, JobShown
    <2>2. CASE ~NoEntryFor(r)
      <3>1. job'.raw = r /\ job'.data = data
        BY <2>2 DEF Saving, Save
      <3> QED BY <1>1, <1>3, <3>1 DEF JobShown
    <2> QED BY <2>1, <2>2
  <1> QED BY <1>4, <1>5 DEF TreeInv

LEMMA TreeRm ==
  ASSUME DiskInv, KeptInv, TreeInv, NEW r \in Raw, Rm(r)
  PROVE  TreeInv'
  <1> SUFFICES ASSUME ~stale' PROVE TreeInv'
    BY DEF TreeInv
  <1>1. /\ pc = "idle" /\ ~stale /\ vfs' = Delete(vfs, Clean[r]) /\ overrun' = overrun
        /\ unkept' = unkept /\ saved \in [Raw -> Told] /\ Sound(vfs) /\ entry \in TableType
    BY DEF Rm, KeptInv, DiskInv, BaseInv, TypeOK, VfsSound
  <1>2. saved' = [saved EXCEPT ![r] = IF Matching(r) = {} THEN None ELSE Busy]
    BY DEF Rm
  <1>3. OthersStay(vfs, vfs', Clean[r])
    BY <1>1, DiskAssumption, DeleteDoes
  <1>4. \A e \in InUse(entry) : entry[e].name # r => e \in InUse(entry') /\ entry'[e] = entry[e]
    <2>1. CASE Matching(r) = {}
      BY <2>1 DEF Rm
    <2>2. CASE Matching(r) # {}
      <3> DEFINE c == First(Matching(r))
      <3>1. c \in Matching(r) /\ entry[c].name = r
        BY <2>2, EntryForIs
      <3>2. entry' = [entry EXCEPT ![c].meta.used = FALSE]
        BY <2>2 DEF Rm
      <3> HIDE DEF c
      <3>3. \A e \in Entry \ {c} : entry'[e] = entry[e]
        BY <1>1, <3>2 DEF TableType
      <3> QED BY <3>1, <3>3 DEF InUse
    <2> QED BY <2>1, <2>2
  <1>5. ASSUME NEW q \in Raw \ (unkept \cup hidden') PROVE Shown(q)'
    <2>1. CASE q = r
      BY <1>1, <1>2, <2>1, TellsAre DEF Shown
    <2>2. CASE q # r
      <3>1. q \notin hidden /\ q \notin Others(r)
        BY <1>5, <2>2 DEF Rm
      <3>2. Shown(q) /\ saved'[q] = saved[q] /\ q \in Raw \ {r} /\ q \notin Others(r)
        BY <1>1, <1>2, <1>5, <2>2, <3>1 DEF TreeInv
      <3> QED BY <1>1, <1>3, <1>4, <2>2, <3>2, OthersShown
    <2> QED BY <2>1, <2>2
  <1>6. JobShown'
    <2>1. CASE Matching(r) = {}
      BY <1>1, <2>1 DEF Rm, JobShown
    <2>2. CASE Matching(r) # {}
      <3>1. job'.type = "gone"
        BY <2>2 DEF Rm, NoJob
      <3> QED BY <3>1 DEF JobShown
    <2> QED BY <2>1, <2>2
  <1> QED BY <1>1, <1>5, <1>6 DEF TreeInv

LEMMA TreeDataSector ==
  ASSUME DiskInv, KeptInv, TreeInv, NEW ok \in BOOLEAN, DataSector(ok)
  PROVE  TreeInv'
  <1> SUFFICES ASSUME ~stale' PROVE TreeInv'
    BY DEF TreeInv
  <1>1. /\ pc = "data" /\ ~stale /\ vfs' = vfs /\ overrun' = overrun /\ saved' = saved
        /\ pc' \in {"data", "table"} /\ unkept \subseteq unkept' /\ job \in Job /\ entry \in TableType
        /\ hidden' = hidden
    BY DEF DataSector, DiskInv, BaseInv, JobInv, TypeOK
  <1>2. /\ SaveApart /\ JobShown /\ saved[job.raw] = Busy
        /\ \A r \in Raw \ (unkept \cup hidden) : Shown(r)
    BY <1>1 DEF DiskInv, ApartInv, KeptInv, JobKept, TreeInv
  <1>3. \A e \in Entry \ {job.at} : entry'[e] = entry[e]
    BY <1>1 DEF DataSector, TableType
  <1>4. job'.raw = job.raw /\ job'.data = job.data /\ job'.type = job.type
    BY <1>1 DEF DataSector, Job
  <1>5. JobShown'
    BY <1>1, <1>2, <1>4 DEF JobShown
  <1>6. ASSUME NEW r \in Raw \ (unkept' \cup hidden') PROVE Shown(r)'
    <2>1. Shown(r)
      BY <1>1, <1>2, <1>6
    <2>2. CASE r = job.raw
      BY <1>1, <1>2, <2>2, TellsAre DEF Shown
    <2>3. CASE r # job.raw
      <3>1. ASSUME Overran(entry, overrun, r) PROVE Overran(entry', overrun, r)
        BY <1>2, <1>3, <2>3, <3>1 DEF Overran, SaveApart, InUse
      <3> QED BY <1>1, <2>1, <3>1 DEF Shown
    <2> QED BY <2>2, <2>3
  <1> QED BY <1>5, <1>6 DEF TreeInv

LEMMA TreeSync ==
  ASSUME DiskInv, KeptInv, TreeInv, NEW ok \in BOOLEAN, SyncTable(ok) \/ SyncSuper(ok)
  PROVE  TreeInv'
  <1> SUFFICES ASSUME ~stale' PROVE TreeInv'
    BY DEF TreeInv
  <1>1. /\ pc \in {"table", "super"} /\ vfs' = vfs /\ entry' = entry /\ overrun' = overrun
        /\ unkept' = unkept /\ hidden' = hidden /\ job \in Job /\ saved \in [Raw -> Told]
    BY DEF SyncTable, SyncSuper, ramVars, DiskInv, BaseInv, JobInv, KeptInv
  <1>2. ~stale
    BY DEF SyncTable, SyncSuper
  <1>3. JobShown /\ JobKept /\ \A r \in Raw \ (unkept \cup hidden) : Shown(r)
    BY <1>1, <1>2 DEF TreeInv, KeptInv
  <1>4. CASE SyncTable(ok)
    <2>1. /\ pc' \in {"table", "super"} /\ saved' = saved
          /\ job'.raw = job.raw /\ job'.data = job.data /\ job'.type = job.type
      BY <1>1, <1>4 DEF SyncTable, Job
    <2> QED BY <1>1, <1>3, <2>1 DEF TreeInv, JobShown, Shown
  <1>5. CASE SyncSuper(ok)
    <2> DEFINE told == IF job.type = "gone" THEN None ELSE Kept(job.data, job.type)
    <2>1. pc' \in {"idle", "home"} /\ saved' = [saved EXCEPT ![job.raw] = told]
      BY <1>5 DEF SyncSuper, After
    <2>2. /\ job.type = "gone" => told.state = "none"
          /\ job.type # "gone" => told.data = job.data
      BY <1>1, TellsAre DEF Job
    <2> HIDE DEF told
    <2>3. ASSUME NEW r \in Raw \ (unkept \cup hidden) PROVE Shown(r)'
      <3>1. CASE r = job.raw
        <4>1. saved'[r] = told
          BY <1>1, <2>1, <2>3, <3>1
        <4>2. job.type # "gone" => InNode(vfs, Clean[r], job.data)
          BY <1>1, <1>3, <2>3, <3>1 DEF JobShown
        <4> QED BY <1>1, <2>2, <4>1, <4>2 DEF Shown
      <3>2. CASE r # job.raw
        <4>1. saved'[r] = saved[r] /\ Shown(r)
          BY <1>1, <1>3, <2>1, <2>3, <3>2
        <4> QED BY <1>1, <4>1 DEF Shown
      <3> QED BY <3>1, <3>2
    <2>4. JobShown'
      BY <2>1 DEF JobShown
    <2> QED BY <1>1, <2>3, <2>4 DEF TreeInv
  <1> QED BY <1>4, <1>5

LEMMA TreeNext ==
  RoomToMount /\ DiskInv /\ KeptInv /\ TreeInv /\ [Next]_vars => TreeInv'
  <1> SUFFICES ASSUME RoomToMount, DiskInv, KeptInv, TreeInv, [Next]_vars
               PROVE  TreeInv'
    OBVIOUS
  <1>1. BaseInv
    BY DEF DiskInv
  <1>2. CASE ShellSaves
    <2>1. PICK r, data, type, v, refused, home : Saving(r, data, type, v, refused, home)
      BY <1>1, <1>2, ShellSavesIs
    <2> QED BY <2>1, TreeSave
  <1>3. CASE UNCHANGED vars
    BY <1>3 DEF vars, diskVars, ramVars, history, TreeInv, JobShown, Shown
  <1>4. CASE PowerOff
    BY <1>4 DEF PowerOff, TreeInv
  <1> QED BY <1>1, <1>2, <1>3, <1>4, TreeBoot, TreeFormat, TreeDataSector, TreeRm, TreeSync
          DEF Next, ShellSaves

\* DiskInv holds of every state of the machine.
THEOREM DiskIsSound == Spec => []DiskInv
  <1>1. Init => DiskInv
    BY BaseInit, ApartInit DEF DiskInv
  <1> QED BY <1>1, DiskInvNext, PTL DEF Spec

\* The disk, the entries in memory and the tree keep their types; the tree
\* stays sound through every command, failed write, power cut and mount.
THEOREM DiskTypes == Spec => []TypeOK
  <1>1. DiskInv => TypeOK
    BY DEF DiskInv, BaseInv
  <1> QED BY <1>1, DiskIsSound, PTL

\* Without such a fault, files have names and sectors of their own.
THEOREM DiskFilesApart == Spec => []FilesApart
  BY DiskIsSound, DiskInvFilesApart, PTL

\* Memory and disk hold what the shell has reported.
THEOREM DiskKeeps == RoomToMount => (Spec => [](DiskInv /\ KeptInv /\ TreeInv))
  <1> SUFFICES ASSUME RoomToMount PROVE Spec => [](DiskInv /\ KeptInv /\ TreeInv)
    OBVIOUS
  <1>1. Init => DiskInv /\ KeptInv /\ TreeInv
    <2>1. Init => TreeInv
      BY DEF Init, TreeInv
    <2> QED BY <2>1, BaseInit, ApartInit, KeptInit DEF DiskInv
  <1>2. (DiskInv /\ KeptInv /\ TreeInv) /\ [Next]_vars => (DiskInv /\ KeptInv /\ TreeInv)'
    BY DiskInvNext, KeptNext, TreeNext
  <1> QED BY <1>1, <1>2, PTL DEF Spec

\* Whenever the power goes, in the middle of any command and whichever write
\* failed before, the next mount finds every other file that was reported saved
\* with its content, unless an entry of the same path spelt otherwise is mounted
\* over it; and the table has none of a spelling that was reported removed.
THEOREM DiskDurable == RoomToMount => (Spec => []Durable)
  <1> SUFFICES ASSUME RoomToMount PROVE Spec => []Durable
    OBVIOUS
  <1>1. DiskInv /\ KeptInv => Durable
    BY KeptDurable
  <1> QED BY <1>1, DiskKeeps, PTL

\* Between commands "cat" shows of those files what the next boot will, except
\* where a command or a mount changed the node under another spelling last.
THEOREM DiskTreeAgrees == RoomToMount => (Spec => []TreeAgrees)
  <1> SUFFICES ASSUME RoomToMount PROVE Spec => []TreeAgrees
    OBVIOUS
  <1>1. DiskInv /\ TreeInv => TreeAgrees
    <2> SUFFICES ASSUME DiskInv, TreeInv, ~stale, pc = "idle", NEW r \in Raw \ (unkept \cup hidden),
                        saved[r].state = "kept"
                 PROVE  Overrun(entry, r) \/ Holds(vfs, r)
      BY DEF TreeAgrees
    <2>1. Shown(r) /\ Apart(entry, overrun)
      BY DEF TreeInv, DiskInv, ApartInv
    <2>2. \A e \in InUse(entry) : PathOf(entry[e]) = entry[e].name
      BY <2>1 DEF Apart, PathOf
    <2> QED BY <2>1, <2>2 DEF Shown, Overran, Overrun, InNode, Holds
  <1> QED BY <1>1, DiskKeeps, PTL
=============================================================================
