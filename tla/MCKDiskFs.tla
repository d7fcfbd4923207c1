----------------------------- MODULE MCKDiskFs -----------------------------
(* A few files on a small disk.  The table has entries inside one          *)
(* sector, with a path across two as entries 6 and 19 of the code, with the*)
(* path in one sector and the rest in the next as entry 12, and beyond the *)
(* sectors that are written, as from entry 25 on.                          *)
EXTENDS KDiskFs

CONSTANTS passwd, a, b, slash, aSlash

SmallLayout ==
  <<[name |-> 1, tail |-> 1, meta |-> 1],
    [name |-> 1, tail |-> 2, meta |-> 2],
    [name |-> 2, tail |-> 3, meta |-> 3]>>

TwoEntries == <<[name |-> 1, tail |-> 1, meta |-> 2], SmallLayout[2]>>

\* "/a/" is another spelling of "/a", and no path at all is "/".
Sanitised ==
  [r \in Raw \cup {Torn, NoPath} |-> CASE r = NoPath -> slash [] r = aSlash -> a [] OTHER -> r]
Contents == {<<>>} \cup [1 .. 1 -> Sector] \cup [1 .. 2 -> Sector]
NoContent == <<>>
Shipped == <<[path |-> passwd, type |-> "file", data |-> <<<<0, 1>>>>]>>

ASSUME MountFits == RoomToMount
=============================================================================
