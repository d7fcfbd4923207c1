------------------------------- MODULE ZPack -------------------------------
(***************************************************************************)
(* src/zpack: the compressor and the decompressor byte by byte, and the    *)
(* archive: a walk over a tree whose files change meanwhile, and the       *)
(* extraction of what was packed.  The widths of the format (the shortest  *)
(* match, what half a token and a length byte hold, the window, the hash)  *)
(* are parameters.                                                         *)
(***************************************************************************)
EXTENDS Integers, Sequences, SequencesExt, FiniteSetsExt, TLC

CONSTANTS
  ZTexts,       \* texts that are compressed: sequences of symbols
  ZTrees,       \* trees: sequences of [path, kind, data, open] in the order of readdir
  ZEdits,       \* what a file becomes while it is packed
  MinMatch,     \* 4
  Nibble,       \* 15
  LengthByte,   \* 255
  MaxDistance,  \* 65535
  HashSize,     \* slots of the table
  ZSlack,       \* by how much the buffer of the result is larger: 2048
  ZLeast,       \* by how much the compressor wants it to be larger: 64
  ZMargin       \* what the loop leaves of the buffer: 32

VARIABLE zp

ZpOff == [pc |-> "off"]

----------------------------------------------------------------------------
Gram(src, i) == SubSeq(src, i + 1, i + MinMatch)

\* hash4: different grams may share a slot.
Hash4(gram) == FoldLeft(LAMBDA acc, c : 3 * acc + c + 1, 0, gram) % HashSize

\* The bytes behind a full half token, and what half of the token says.
Extension(n) == IF n < Nibble THEN <<>> ELSE [i \in 1 .. (n - Nibble) \div LengthByte |-> LengthByte] \o <<(n - Nibble) % LengthByte>>
Half(n) == IF n < Nibble THEN n ELSE Nibble

\* A token holds both halves; TokenOf keeps them apart.
TokenOf(lit, match) == Half(lit) * (Nibble + 1) + Half(match)

MatchLen(src, ref, in) == Max({n \in MinMatch .. Len(src) - in : \A k \in 0 .. n - 1 : src[ref + k + 1] = src[in + k + 1]})

Sequenced(src, anchor, in, ref, len) ==
  LET lit == in - anchor
  IN <<TokenOf(lit, len - MinMatch)>> \o Extension(lit) \o SubSeq(src, anchor + 1, in) \o <<in - ref>> \o Extension(len - MinMatch)

\* One turn of the loop of zpack2_compress.
CompressTurn(src, s) ==
  LET h == Hash4(Gram(src, s.in))
      ref == s.table[h]
      next == [s EXCEPT !.table[h] = s.in]
  IN IF ref >= 0 /\ s.in - ref <= MaxDistance /\ Gram(src, ref) = Gram(src, s.in)
     THEN LET len == MatchLen(src, ref, s.in)
          IN [next EXCEPT !.out = @ \o Sequenced(src, s.anchor, s.in, ref, len), !.in = s.in + len, !.anchor = s.in + len]
     ELSE [next EXCEPT !.in = @ + 1]

\* The room is looked at before a turn, whatever the turn will write.
RECURSIVE CompressLoop(_, _, _)
CompressLoop(src, max, s) ==
  IF s.in + MinMatch > Len(src) \/ Len(s.out) + ZMargin >= max THEN s
  ELSE CompressLoop(src, max, CompressTurn(src, s))

\* The literals left at the end are written without a look at the room.
Compress(src, max) ==
  LET s == CompressLoop(src, max, [in |-> 0, anchor |-> 0, out |-> <<>>, table |-> [h \in 0 .. HashSize - 1 |-> 0 - 1]])
      rest == Len(src) - s.anchor
  IN IF src = <<>> \/ max < Len(src) + ZLeast THEN <<>>
     ELSE IF rest = 0 THEN s.out
     ELSE s.out \o <<TokenOf(rest, 0)>> \o Extension(rest) \o SubSeq(src, s.anchor + 1, Len(src))

\* A length: its half token and the bytes that follow at a position.
Length(src, half, pos) ==
  IF half # Nibble THEN [n |-> half, pos |-> pos]
  ELSE LET ends == {i \in pos + 1 .. Len(src) : src[i] # LengthByte}
       IN IF ends = {} THEN [n |-> 0 - 1, pos |-> pos]
          ELSE [n |-> half + FoldLeft(+, 0, SubSeq(src, pos + 1, Min(ends))), pos |-> Min(ends)]

CopiedAtOnce(out, offset, n) == out \o [i \in 1 .. n |-> IF Len(out) - offset + i <= Len(out) THEN out[Len(out) - offset + i] ELSE 0]

\* The copy goes byte by byte: it may read what it has just written.
RECURSIVE Copied(_, _, _)
Copied(out, offset, n) == IF n = 0 THEN out ELSE Copied(Append(out, out[Len(out) - offset + 1]), offset, n - 1)

\* zpack2_decompress; ok FALSE is its return of 0.
RECURSIVE DecompressLoop(_, _, _)
DecompressLoop(src, max, s) ==
  IF s.in >= Len(src) \/ Len(s.out) >= max THEN s
  ELSE LET token == src[s.in + 1]
           lit == Length(src, token \div (Nibble + 1), s.in + 1)
           out == s.out \o SubSeq(src, lit.pos + 1, lit.pos + lit.n)
           at == lit.pos + lit.n
           len == Length(src, token % (Nibble + 1), at + 1)
       IN IF lit.n < 0 \/ Len(s.out) + lit.n > max \/ at > Len(src) THEN [s EXCEPT !.ok = FALSE]
          ELSE IF at = Len(src) THEN [s EXCEPT !.out = out, !.in = at]
          ELSE IF src[at + 1] \notin 1 .. Len(out) \/ len.n < 0 \/ Len(out) + len.n + MinMatch > max
          THEN [s EXCEPT !.out = out, !.ok = FALSE]
          ELSE DecompressLoop(src, max, [s EXCEPT !.out = Copied(out, src[at + 1], len.n + MinMatch), !.in = len.pos])

Decompress(src, max) == DecompressLoop(src, max, [in |-> 0, out |-> <<>>, ok |-> TRUE])

\* The buffer for what n bytes become; a result that is longer has been
\* written over what lies behind it.
Room(n) == n + ZSlack
Overrun(n, c) == IF Len(c) > Room(n) THEN {n} ELSE {}

----------------------------------------------------------------------------
\* A text alone, or a tree: packed entry by entry, then extracted.
ZpStarts ==
  {[pc |-> "text", text |-> t] : t \in ZTexts}
    \cup {[pc |-> "stat", tree |-> t, next |-> 1, archive |-> <<>>, count |-> 0, size |-> 0, out |-> <<>>, fails |-> 0, changed |-> {}, over |-> {}] : t \in ZTrees}

ZpText ==
  /\ zp.pc = "text"
  /\ LET n == Len(zp.text)
         c == Compress(zp.text, Room(n))
     IN zp' = [pc |-> "done", text |-> zp.text, packed |-> c, got |-> Decompress(c, n), over |-> Overrun(n, c)]

Entry == zp.tree[zp.next]

\* What read leaves in a buffer of the size that lstat told: the bytes that
\* are missing are those of the heap.
Garbage == 9
Buffer(data, size) ==
  SubSeq(data, 1, Min({Len(data), size})) \o [i \in 1 .. Max({0, size - Len(data)}) |-> Garbage]

\* pack_recursive: lstat and the header of an entry; links are passed over.
ZpStat ==
  /\ zp.pc = "stat"
  /\ zp' = IF zp.next > Len(zp.tree) THEN [zp EXCEPT !.pc = "extract", !.next = 1]
           ELSE CASE Entry.kind = "link" -> [zp EXCEPT !.next = @ + 1]
                  [] Entry.kind = "dir" -> [zp EXCEPT !.next = @ + 1, !.count = @ + 1,
                                              !.archive = Append(@, [path |-> Entry.path, dir |-> TRUE, open |-> Entry.open])]
                  [] Entry.kind = "file" -> [zp EXCEPT !.pc = "read", !.size = Len(Entry.data)]

\* The file is read, or cannot be opened, and packed, compressed or stored.
ZpRead ==
  /\ zp.pc = "read"
  /\ \E orig \in {Buffer(IF Entry.open THEN Entry.data ELSE <<>>, zp.size)} : \E c \in {Compress(orig, Room(zp.size))} :
       LET stored == c = <<>> \/ Len(c) >= zp.size
           file == [path |-> Entry.path, dir |-> FALSE, size |-> zp.size, crc |-> orig, data |-> IF stored THEN orig ELSE c]
       IN zp' = [zp EXCEPT !.pc = "stat", !.next = @ + 1, !.count = @ + 1, !.size = 0, !.archive = Append(@, file),
                          !.over = @ \cup Overrun(zp.size, c)]

\* Somebody writes a file of the tree while it is packed.
ZpChange ==
  /\ zp.pc \in {"stat", "read"} /\ zp.changed = {}
  /\ \E i \in DOMAIN zp.tree, data \in ZEdits :
       /\ zp.tree[i].kind = "file" /\ data # zp.tree[i].data
       /\ zp' = [zp EXCEPT !.tree[i].data = data, !.changed = {zp.tree[i].path}]

\* The content of an entry of the archive as it is extracted or tested; what
\* a failed decompression leaves is padded with the heap.
Content(e) == IF Len(e.data) = e.size THEN e.data ELSE Buffer(Decompress(e.data, e.size).out, e.size)

Shut(out) == {out[i].path : i \in {j \in DOMAIN out : out[j].dir /\ ~out[j].open}}

\* extract_archive: a directory gets its mode at once, so a file in one that
\* is not open to writing is not created, and nobody is told.
ZpExtract ==
  /\ zp.pc = "extract" /\ zp.next <= Len(zp.archive)
  /\ \E e \in {zp.archive[zp.next]} : \E content \in {IF e.dir THEN <<>> ELSE Content(e)} :
       LET ok == e.dir \/ content = e.crc
           new == IF e.dir THEN <<e>>
                  ELSE IF \E d \in Shut(zp.out) : IsPrefix(d, e.path) THEN <<>>
                  ELSE <<[path |-> e.path, dir |-> FALSE, data |-> content, ok |-> ok]>>
       IN zp' = [zp EXCEPT !.next = @ + 1, !.out = @ \o new, !.fails = @ + IF ok THEN 0 ELSE 1]

ZpEnd == zp.pc = "extract" /\ zp.next > Len(zp.archive) /\ zp' = [zp EXCEPT !.pc = "left"]

ZpNext == zp.pc # "off" /\ (ZpText \/ ZpStat \/ ZpRead \/ ZpChange \/ ZpExtract \/ ZpEnd)

----------------------------------------------------------------------------
\* Every text comes back from its compressed form, across full halves, full
\* length bytes, copies that overlap themselves, the window and slots of the
\* hash that are shared (zpack2_compress, zpack2_decompress).
TextComesBack == zp.pc = "done" => zp.got.ok /\ zp.got.out = zp.text

\* What was packed is what is extracted: no check fails, the header counts
\* the entries, and each file that did not change meanwhile, could be read and
\* lies in directories open to writing is there with its content.
TreeComesBack ==
  zp.pc = "left" =>
    /\ zp.fails = 0 /\ zp.count = Len(zp.archive)
    /\ \A i \in DOMAIN zp.tree :
         LET f == zp.tree[i]
             reached == \A j \in DOMAIN zp.tree : zp.tree[j].kind = "dir" /\ IsPrefix(zp.tree[j].path, f.path) => zp.tree[j].open
         IN f.kind = "file" /\ f.open /\ reached /\ f.path \notin zp.changed =>
              \E k \in DOMAIN zp.out : ~zp.out[k].dir /\ zp.out[k].path = f.path /\ zp.out[k].data = f.data /\ zp.out[k].ok

\* The compressor leaves its buffer only with a file so large that the bytes
\* that give the length of its literals, one for each LengthByte of them, may
\* need more than the buffer has beyond the file (zpack.c:149,336,421; from some
\* 520 KB on, in the code).
OverrunIsLarge == zp.pc \notin {"off", "text"} => \A n \in zp.over : n \div LengthByte + 2 > ZSlack

\* Up to an overrun, after which the program has written into foreign memory.
ArchiveKeeps ==
  /\ OverrunIsLarge
  /\ zp.pc \in {"done", "left"} /\ zp.over = {} => TextComesBack /\ TreeComesBack
=============================================================================
