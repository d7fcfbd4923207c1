-------------------------------- MODULE KMem --------------------------------
(***************************************************************************)
(* freestanding/kmem.c: the first-fit heap of the kernel kit, a doubly     *)
(* linked list of blocks laid out in memory, split on allocation and       *)
(* merged on release.  Several cores use it through the lock hooks, so a   *)
(* step is one locked section; kmalloc_aligned and krealloc take several.  *)
(*                                                                         *)
(* Addresses and sizes are in pointer-sized words.  A header is four words *)
(* on 32 and on 64 bits (size, is_free, next, prev), a back pointer one;   *)
(* Align is ALIGN8 in words, 1 on 64 bits and 2 on 32.  Payloads are left  *)
(* out: an allocation is its address, its size and its back pointer.       *)
(***************************************************************************)
EXTENDS Integers, FiniteSets, FiniteSetsExt

CONSTANTS
  Core,       \* the cores (or tasks) that call the allocator
  Setups,     \* machines and callers, one of which is met:
              \*   align   ALIGN8, in words
              \*   region  the regions, each [start, size]; 1 is kmem_init's
              \*   size, alignment   what is asked for, in words
              \*   calls   those of "malloc", "aligned", "free", "realloc",
              \*           "region" that occur
  StaleNext,  \* what an untouched region may hold where the header's next goes
  MaxLive     \* bound on the allocations alive at a time

VARIABLE setup  \* the one of Setups that is met

Align == setup.align
Region == setup.region

Null == 0
Wild == -1
H == 4
MinSplit == 4 * Align

ASSUME ShapeAssumption ==
  /\ StaleNext \subseteq {Null, Wild} /\ StaleNext # {}
  /\ MaxLive \in Nat
  /\ \A s \in Setups :
       /\ s.align \in {1, 2}
       /\ s.size \subseteq Nat \ {0} /\ s.alignment \subseteq Nat \ {0}
       /\ 1 \in DOMAIN s.region
       /\ \A r \in DOMAIN s.region : /\ s.region[r].start \in Nat \ {0}
                                     /\ s.region[r].size \in Nat
                                     /\ s.region[r].size >= H + 4 * s.align

VARIABLES
  head,    \* head_block
  blk,     \* the headers in use: address -> [size, free, next, prev]
  total,   \* total_heap_bytes
  added,   \* how many regions have been handed over
  live,    \* allocations the callers own: [ptr, size, block], block from ptr[-1]
  pc, job, \* each core: its next step, and the locals of the call it is in
  fault    \* the code has read or written through a pointer that is no block

vars == <<setup, head, blk, total, added, live, pc, job, fault>>

Idle == [size |-> 0, align |-> 1, old |-> Null, raw |-> Null, block |-> Null]

AlignUp(x, a) == ((x + a - 1) \div a) * a
AlignDown(x, a) == (x \div a) * a

FreshBlock(r, next, prev) ==
  [size |-> AlignUp(Region[r].size - H, Align), free |-> TRUE,
   next |-> next, prev |-> prev]

\* kmem_init has run on the first region.
Init ==
  /\ setup \in Setups
  /\ head = Region[1].start
  /\ blk = [b \in {Region[1].start} |-> FreshBlock(1, Null, Null)]
  /\ total = Region[1].size
  /\ added = 1
  /\ live = {}
  /\ pc = [c \in Core |-> "idle"]
  /\ job = [c \in Core |-> Idle]
  /\ fault = FALSE

-----------------------------------------------------------------------------
(* The list, and what the locked sections do to it.                        *)

\* The list as a walk from head_block sees it; it ends in Null or Wild.
Walk ==
  LET at[i \in 0 .. Cardinality(DOMAIN blk)] ==
        IF i = 0 THEN head
        ELSE IF at[i - 1] \in DOMAIN blk THEN blk[at[i - 1]].next ELSE at[i - 1]
  IN  at

Last == CHOOSE b \in DOMAIN blk : blk[b].next \notin DOMAIN blk
                                  /\ \E i \in DOMAIN Walk : Walk[i] = b

\* A block that kmalloc takes for n words holds the back pointer as well.
Required(n) == AlignUp(n, Align) + 1
Fits(b, n) == b \in DOMAIN blk /\ blk[b].free /\ blk[b].size >= Required(n)

\* The block kmalloc takes is the first that fits.
FirstFit(b, n) ==
  \E i \in DOMAIN Walk :
    /\ Walk[i] = b
    /\ Fits(b, n)
    /\ \A j \in 0 .. i - 1 : ~Fits(Walk[j], n)

NoFit(n) == \A i \in DOMAIN Walk : ~Fits(Walk[i], n)

\* blk after b is taken for n words: what is left over becomes a block of
\* its own when it can hold a header and 32 bytes.
Carved(b, n) ==
  LET need == Required(n)
      rest == b + H + need
      old == blk[b]
  IN  IF old.size < need + H + MinSplit
      THEN [blk EXCEPT ![b].free = FALSE]
      ELSE [a \in DOMAIN blk \cup {rest} |->
              CASE a = rest -> [size |-> old.size - need - H, free |-> TRUE,
                                next |-> old.next, prev |-> b]
                [] a = b -> [old EXCEPT !.free = FALSE, !.next = rest,
                                        !.size = need]
                [] a = old.next /\ a # rest -> [blk[a] EXCEPT !.prev = rest]
                [] OTHER -> blk[a]]

\* Taking b writes to the block after it when b is split, wherever next points.
SplitFaults(b, n) ==
  /\ blk[b].size >= Required(n) + H + MinSplit
  /\ blk[b].next = Wild

AbsorbNoPrev(hp, b) ==
  LET n == hp[b].next
  IN  [a \in DOMAIN hp \ {n} |->
         IF a = b THEN [hp[b] EXCEPT !.size = @ + H + hp[n].size,
                                     !.next = hp[n].next]
         ELSE hp[a]]

\* hp with the block after b merged into b, and its neighbour linked back.
Absorb(hp, b) ==
  LET n == hp[b].next
      after == hp[n].next
  IN  [a \in DOMAIN hp \ {n} |->
         CASE a = b -> [hp[b] EXCEPT !.size = @ + H + hp[n].size, !.next = after]
           [] a = after /\ a # b -> [hp[a] EXCEPT !.prev = b]
           [] OTHER -> hp[a]]

IsFree(hp, b) == b \in DOMAIN hp /\ hp[b].free

\* kfree: mark, then merge with the next block, then with the previous one.
Released(b) ==
  LET marked == [blk EXCEPT ![b].free = TRUE]
      forward == IF IsFree(marked, blk[b].next) THEN Absorb(marked, b) ELSE marked
  IN  IF IsFree(forward, blk[b].prev) THEN Absorb(forward, blk[b].prev)
      ELSE forward

\* kfree looks at the block after b, and when it takes that one in, it writes to
\* the one behind, wherever their next pointers lead.
ReleaseFaults(b) ==
  \/ blk[b].next = Wild
  \/ IsFree(blk, blk[b].next) /\ blk[blk[b].next].next = Wild

\* Core c takes the step named here, goes on there, with locals j.
Goto(c, here, there, j) ==
  /\ pc[c] = here
  /\ pc' = [pc EXCEPT ![c] = there]
  /\ job' = [job EXCEPT ![c] = j]

\* A walk that ends in Wild instead of Null reads memory that is no block.
FaultIfWild == fault' = (fault \/ \E i \in DOMAIN Walk : Walk[i] = Wild)

Room == Cardinality(live) < MaxLive

-----------------------------------------------------------------------------
(* kmalloc, and kzalloc, which fills the payload it got.                   *)

Kmalloc(c, n) ==
  /\ "malloc" \in setup.calls
  /\ Room
  /\ Goto(c, "idle", "idle", Idle)
  /\ \E b \in DOMAIN blk :
       /\ FirstFit(b, n)
       /\ blk' = Carved(b, n)
       /\ live' = live \cup {[ptr |-> b + H + 1, size |-> n, block |-> b]}
       /\ fault' = (fault \/ SplitFaults(b, n))
  /\ UNCHANGED <<head, total, added>>

KmallocFails(c, n) ==
  /\ "malloc" \in setup.calls
  /\ Goto(c, "idle", "idle", Idle)
  /\ NoFit(n)
  /\ FaultIfWild
  /\ UNCHANGED <<head, blk, total, added, live>>

-----------------------------------------------------------------------------
(* kmalloc_aligned: kmalloc of a larger block, then, under the lock again,  *)
(* a copy of the back pointer in front of the aligned address.              *)

Padded(n, a) == AlignUp(n, Align) + a + 1 + H

AlignedMalloc(c, n, a) ==
  /\ "aligned" \in setup.calls
  /\ Room
  /\ \E b \in DOMAIN blk :
       /\ FirstFit(b, Padded(n, a))
       /\ blk' = Carved(b, Padded(n, a))
       /\ Goto(c, "idle", "align",
               [Idle EXCEPT !.size = n, !.align = a, !.raw = b + H + 1,
                            !.block = b])
       /\ fault' = (fault \/ SplitFaults(b, Padded(n, a)))
  /\ UNCHANGED <<head, total, added, live>>

AlignedFails(c, n, a) ==
  /\ "aligned" \in setup.calls
  /\ NoFit(Padded(n, a))
  /\ Goto(c, "idle", "idle", Idle)
  /\ FaultIfWild
  /\ UNCHANGED <<head, blk, total, added, live>>

AlignedBack(c) ==
  /\ Goto(c, "align", "idle", Idle)
  /\ LET p == AlignDown(job[c].raw + 1 + job[c].align - 1, job[c].align)
     IN  live' = live \cup {[ptr |-> p, size |-> job[c].size,
                             block |-> job[c].block]}
  /\ UNCHANGED <<head, blk, total, added, fault>>

-----------------------------------------------------------------------------
(* kfree and krealloc, on an allocation a that the core owns.               *)

Kfree(c, a) ==
  /\ "free" \in setup.calls
  /\ Goto(c, "idle", "idle", Idle)
  /\ blk' = Released(a.block)
  /\ live' = live \ {a}
  /\ fault' = (fault \/ ReleaseFaults(a.block))
  /\ UNCHANGED <<head, total, added>>

\* The block is as large as its back pointer and its payload together, and
\* that is what krealloc compares the new size with.
ReallocSize(a) == blk[a.block].size

ReallocKeep(c, a, n) ==
  /\ "realloc" \in setup.calls
  /\ Goto(c, "idle", "idle", Idle)
  /\ ReallocSize(a) >= n
  /\ live' = (live \ {a}) \cup {[a EXCEPT !.size = n]}
  /\ UNCHANGED <<head, blk, total, added, fault>>

\* While the call runs, the old allocation belongs to it alone.
ReallocBegin(c, a, n) ==
  /\ "realloc" \in setup.calls
  /\ ReallocSize(a) < n
  /\ Goto(c, "idle", "grow", [Idle EXCEPT !.size = n, !.old = a])
  /\ live' = live \ {a}
  /\ UNCHANGED <<head, blk, total, added, fault>>

ReallocFails(c) ==
  /\ NoFit(job[c].size)
  /\ Goto(c, "grow", "idle", Idle)
  /\ live' = live \cup {job[c].old}
  /\ FaultIfWild
  /\ UNCHANGED <<head, blk, total, added>>

ReallocMalloc(c) ==
  \E b \in DOMAIN blk :
    /\ FirstFit(b, job[c].size)
    /\ blk' = Carved(b, job[c].size)
    /\ Goto(c, "grow", "drop",
            [job[c] EXCEPT !.raw = b + H + 1, !.block = b])
    /\ fault' = (fault \/ SplitFaults(b, job[c].size))
    /\ UNCHANGED <<head, total, added, live>>

ReallocFreeLeak(c) ==
  /\ Goto(c, "drop", "idle", Idle)
  /\ live' = live \cup {[ptr |-> job[c].raw, size |-> job[c].size,
                         block |-> job[c].block]}
  /\ UNCHANGED <<head, blk, total, added, fault>>

ReallocFree(c) ==
  /\ Goto(c, "drop", "idle", Idle)
  /\ blk' = Released(job[c].old.block)
  /\ live' = live \cup {[ptr |-> job[c].raw, size |-> job[c].size,
                         block |-> job[c].block]}
  /\ fault' = (fault \/ ReleaseFaults(job[c].old.block))
  /\ UNCHANGED <<head, total, added>>

-----------------------------------------------------------------------------
\* kmem_add_region: the new block goes to the end of the list; its next is
\* whatever the memory held, except in an empty list.
AddRegion(c) ==
  /\ "region" \in setup.calls
  /\ added + 1 \in DOMAIN Region
  /\ Goto(c, "idle", "idle", Idle)
  /\ \E stale \in StaleNext :
       LET r == Region[added + 1].start
       IN  blk' = [a \in DOMAIN blk \cup {r} |->
                     IF a = r THEN FreshBlock(added + 1, stale, Last)
                     ELSE IF a = Last THEN [blk[a] EXCEPT !.next = r]
                     ELSE blk[a]]
  /\ FaultIfWild
  /\ total' = total + Region[added + 1].size
  /\ added' = added + 1
  /\ UNCHANGED <<head, live>>

Step(c) ==
  \/ \E n \in setup.size : Kmalloc(c, n)
  \/ \E n \in setup.size : KmallocFails(c, n)
  \/ \E n \in setup.size, a \in setup.alignment : AlignedMalloc(c, n, a)
  \/ \E n \in setup.size, a \in setup.alignment : AlignedFails(c, n, a)
  \/ AlignedBack(c)
  \/ \E a \in live : Kfree(c, a)
  \/ \E a \in live, n \in setup.size : ReallocKeep(c, a, n)
  \/ \E a \in live, n \in setup.size : ReallocBegin(c, a, n)
  \/ ReallocFails(c)
  \/ ReallocMalloc(c)
  \/ ReallocFree(c)
  \/ AddRegion(c)

Next == UNCHANGED setup /\ \E c \in Core : Step(c)

Spec == Init /\ [][Next]_vars

-----------------------------------------------------------------------------
(* Properties.                                                             *)

TypeOK ==
  /\ setup \in Setups
  /\ head \in DOMAIN blk
  /\ \A b \in DOMAIN blk :
       /\ b \in Nat \ {0}
       /\ blk[b].size \in Nat /\ blk[b].free \in BOOLEAN
       /\ blk[b].next \in DOMAIN blk \cup {Null, Wild}
       /\ blk[b].prev \in DOMAIN blk \cup {Null}
  /\ total \in Nat /\ added \in DOMAIN Region /\ fault \in BOOLEAN
  /\ \A a \in live : a.block \in DOMAIN blk /\ a.ptr \in Nat /\ a.size \in Nat
  /\ pc \in [Core -> {"idle", "align", "grow", "drop"}]

\* Every block reached by next is reached back by prev, so that kfree can
\* merge in both directions and unlink whichever block it absorbs.
DoublyLinked ==
  \A b \in DOMAIN blk :
    /\ blk[b].next \in DOMAIN blk => blk[blk[b].next].prev = b
    /\ blk[b].prev \in DOMAIN blk => blk[blk[b].prev].next = b
    /\ blk[b].prev = Null <=> b = head

End(b) == b + H + blk[b].size
RegionOf(b) ==
  {r \in 1 .. added : Region[r].start <= b /\ b < Region[r].start + Region[r].size}

\* The blocks lie end to end, from the start of their region to its end:
\* splitting and merging neither lose memory nor reach beyond the arena.  Of
\* one region only: kfree merges list neighbours of two as if they touched.
BlocksTile ==
  added = 1 => \A b \in DOMAIN blk :
    \E r \in RegionOf(b) :
      \/ End(b) = Region[r].start + Region[r].size
      \/ /\ End(b) < Region[r].start + Region[r].size
         /\ blk[b].next = End(b)

\* Two free neighbours never stay apart, so a heap whose allocations have all
\* been released is one free block again; only a region that has been added
\* since may still follow a free block.
Coalesced ==
  \A b \in DOMAIN blk :
    blk[b].free /\ IsFree(blk, blk[b].next)
      => \E r \in 2 .. added : Region[r].start = blk[b].next

\* The words an owner may use: those of the live allocations, and those of
\* the blocks that kmalloc_aligned and krealloc are still working on.
Owned ==
  live \cup {job[c].old : c \in {d \in Core : pc[d] \in {"grow", "drop"}}}

Fitting(a) == a.ptr + a.size <= End(a.block)

\* No two allocations have the same block, and none reaches into a header or
\* the back pointer of another or out of its block, except after krealloc,
\* which takes the back pointer for usable and promises its word twice
\* (kmem.c:236): what the callers may write never is what another owns, whichever
\* calls interleave.
Disjoint ==
  /\ \A a \in Owned :
       /\ ~blk[a.block].free
       /\ a.ptr > a.block + H
       /\ Fitting(a) \/ ("realloc" \in setup.calls /\ a.ptr + a.size <= End(a.block) + 1)
  /\ \A a, b \in Owned : a # b => a.block # b.block

\* kmem_get_free_bytes, kmem_get_used_bytes and the headers add up to
\* kmem_get_total_bytes.
Accounting ==
  total = MapThenSumSet(LAMBDA b : H + blk[b].size, DOMAIN blk)

\* Every used block has an owner who can free it: nothing leaks.
Pending == {job[c].block : c \in {d \in Core : pc[d] \in {"align", "drop"}}}
NoLeak ==
  {b \in DOMAIN blk : ~blk[b].free} = {a.block : a \in Owned} \cup Pending

\* The heap is whole whatever the cores split, merge, resize and append: the
\* blocks are chained both ways, tile the pool, never lie free side by side,
\* and no two allocations share a byte; until a call follows the pointer that
\* kmem_add_region leaves uninitialised (kmem.c:123): a walk to the end of the
\* list, a split of the last block, or a release next to it.
HeapSound == ~fault => TypeOK /\ DoublyLinked /\ BlocksTile /\ Coalesced /\ Disjoint

\* No block is lost on the way: whatever is not free belongs to somebody, and
\* the total is the sum of the blocks.
NothingLost == ~fault => NoLeak /\ Accounting
=============================================================================
