-------------------------------- MODULE KVfs --------------------------------
(***************************************************************************)
(* freestanding/kvfs.c: the flat table of nodes that is the file system of *)
(* the kernel, and the heap buffers its dynamic nodes own.  The state is   *)
(* one record, and a call is an operator on it, because one handler of the *)
(* kernel makes several calls (kdiskfs_mount, adduser).                    *)
(*                                                                         *)
(* Paths are those sanitize_path returns; the composing module cleans the  *)
(* raw ones.  Mode bits are left out, and so are return codes, which no    *)
(* caller looks at.                                                        *)
(***************************************************************************)
EXTENDS Integers, Sequences, FiniteSets

CONSTANTS
  Path,      \* sanitised paths
  NoPath,    \* the path of a slot that is not used
  Data,      \* contents of files
  Empty,     \* the content of length 0
  MaxNodes,  \* KVFS_MAX_NODES
  HeapSize,  \* bound on the buffers kmalloc can hand out at a time
  Builtin    \* the nodes kvfs_init creates, a sequence of [path, type, data]

Slots == 1 .. MaxNodes
Buffer == 1 .. HeapSize
NoBuf == 0
Type == {"file", "dir", "bin", "dev"}

ASSUME VfsSizes == MaxNodes \in Nat /\ HeapSize \in Nat
ASSUME VfsNames == NoPath \notin Path /\ Empty \in Data
ASSUME VfsBuiltin ==
  /\ Builtin \in Seq([path : Path, type : Type, data : Data])
  /\ Len(Builtin) <= MaxNodes
  /\ \A i, j \in DOMAIN Builtin : Builtin[i].path = Builtin[j].path => i = j

NoNode == [used |-> FALSE, path |-> NoPath, type |-> "file", data |-> Empty,
           buf |-> NoBuf, dynamic |-> FALSE]

VARIABLE vfs

\* What kvfs_init leaves in zeroed memory: the static nodes, in order.  Two
\* fields are not in the code: bad, set when kfree gets a buffer that is not
\* live, and lost, the buffers a caller has forgotten to free.
Booted ==
  [node |-> [i \in Slots |->
               IF i \in DOMAIN Builtin
               THEN [used |-> TRUE, path |-> Builtin[i].path,
                     type |-> Builtin[i].type, data |-> Builtin[i].data,
                     buf |-> NoBuf, dynamic |-> FALSE]
               ELSE NoNode],
   count |-> Len(Builtin), heap |-> {}, lost |-> {}, bad |-> FALSE]

First(S) == CHOOSE i \in S : \A j \in S : i <= j

Named(v, p) == {i \in Slots : v.node[i].used /\ v.node[i].path = p}
Unused(v) == {i \in Slots : ~v.node[i].used}
HeapFull(v) == Buffer \subseteq v.heap
Fresh(v) == First(Buffer \ v.heap)

\* Slot i is overwritten or deleted: a dynamic node gives its buffer back.
Freed(v, i) ==
  LET n == v.node[i]
  IN  IF n.dynamic /\ n.buf # NoBuf
      THEN [v EXCEPT !.heap = @ \ {n.buf}, !.bad = @ \/ n.buf \notin v.heap]
      ELSE v

\* Slot i holds n from now on; a slot that was not used is counted.
Placed(v, i, n) ==
  [v EXCEPT !.node[i] = n,
            !.count = IF v.node[i].used THEN @ ELSE @ + 1]

Static(p, type, data) ==
  [used |-> TRUE, path |-> p, type |-> type, data |-> data, buf |-> NoBuf,
   dynamic |-> FALSE]

\* kvfs_create: the node's data is static.  A full table refuses even to
\* overwrite a node that exists.
Create(v, p, type, data) ==
  IF v.count >= MaxNodes THEN v
  ELSE IF Named(v, p) # {}
  THEN LET i == First(Named(v, p))
       IN  Placed(Freed(v, i), i, Static(p, type, data))
  ELSE IF Unused(v) # {}
  THEN LET i == First(Unused(v))
       IN  Placed(v, i, Static(p, type, data))
  ELSE v

Mkdir(v, p) == Create(v, p, "dir", Empty)

\* kvfs_write: the content is copied to a buffer of the heap; a node that
\* exists keeps its type.  Without a free slot the copy is freed again.
Dynamic(p, type, data, buf) ==
  [used |-> TRUE, path |-> p, type |-> type, data |-> data, buf |-> buf,
   dynamic |-> TRUE]

Write(v, p, data) ==
  LET copy == Fresh(v)
      got == [v EXCEPT !.heap = @ \cup {copy}]
  IN  IF HeapFull(v) THEN v
      ELSE IF Named(v, p) # {}
      THEN LET i == First(Named(v, p))
           IN  Placed(Freed(got, i), i, Dynamic(p, v.node[i].type, data, copy))
      ELSE IF Unused(v) # {}
      THEN Placed(got, First(Unused(v)), Dynamic(p, "file", data, copy))
      ELSE v

\* kvfs_delete: the slot keeps its type and is_dynamic.
DeleteNoClear(v, p) ==
  LET i == First(Named(v, p))
  IN  IF Named(v, p) = {} THEN v
      ELSE [v EXCEPT !.node[i].used = FALSE, !.node[i].path = NoPath,
                     !.count = IF @ > 0 THEN @ - 1 ELSE @]

Delete(v, p) ==
  LET i == First(Named(v, p))
      freed == Freed(v, i)
  IN  IF Named(v, p) = {} THEN v
      ELSE [freed EXCEPT !.node[i] = [@ EXCEPT !.used = FALSE, !.path = NoPath,
                                               !.data = Empty, !.buf = NoBuf],
                         !.count = IF @ > 0 THEN @ - 1 ELSE @]

\* kvfs_open finds a node; kvfs_read copies its content.
Exists(v, p) == Named(v, p) # {}
Content(v, p) == v.node[First(Named(v, p))].data

\* Any callers, in any order.
VfsInit == vfs = Booted
VfsNext ==
  \E p \in Path :
    \/ \E type \in Type, data \in Data : vfs' = Create(vfs, p, type, data)
    \/ \E data \in Data : vfs' = Write(vfs, p, data)
    \/ vfs' = Delete(vfs, p)
VfsSpec == VfsInit /\ [][VfsNext]_vfs

-----------------------------------------------------------------------------
(* What every caller relies on.                                            *)

Node == [used : BOOLEAN, path : Path \cup {NoPath}, type : Type, data : Data,
         buf : Buffer \cup {NoBuf}, dynamic : BOOLEAN]
Vfs == [node : [Slots -> Node], count : Nat, heap : SUBSET Buffer,
        lost : SUBSET Buffer, bad : BOOLEAN]

Used(v) == Slots \ Unused(v)
Owners(v) == {i \in Slots : v.node[i].dynamic /\ v.node[i].buf # NoBuf}

\* The table v is sound: no path has two nodes and every used slot has one,
\* vfs_node_count is the number of used slots, every live buffer that was not
\* lost has exactly one owner, which is a used node, and no buffer was ever
\* freed twice.
UniquePaths(v) ==
  /\ \A i \in Used(v) : v.node[i].path \in Path
  /\ \A i, j \in Used(v) : v.node[i].path = v.node[j].path => i = j
CountAgrees(v) == v.count = Cardinality(Used(v))
BuffersOwned(v) ==
  /\ Owners(v) \subseteq Used(v)
  /\ \A i, j \in Owners(v) : v.node[i].buf = v.node[j].buf => i = j
  /\ v.heap = {v.node[i].buf : i \in Owners(v)} \cup v.lost
  /\ \A i \in Owners(v) : v.node[i].buf \notin v.lost
  /\ ~v.bad
Sound(v) == v \in Vfs /\ UniquePaths(v) /\ CountAgrees(v) /\ BuffersOwned(v)

\* However the kernel and the disk layer create, overwrite and delete files,
\* the table stays sound.
VfsSound == Sound(vfs)
=============================================================================
