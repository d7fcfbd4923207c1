------------------------------- MODULE Codecs -------------------------------
(***************************************************************************)
(* Programs that only compute: b64 (Base64 and Base32), qrcli (QR codes),  *)
(* snc (subnets), hashcalc and fdup (digests).  A behaviour is one         *)
(* invocation: of b64, what it wrote is given to it again to be decoded.   *)
(*                                                                         *)
(* hashcalc reads a file piece by piece and feeds each piece to CRC32 and  *)
(* SHA-256; fdup finds files of equal size, hashes them with one thread    *)
(* each and groups those whose digests agree.  Of SHA-256 the cutting into *)
(* blocks, the padding and the length are modelled; the transformation of  *)
(* a block is left uninterpreted, so a digest is the sequence of blocks    *)
(* transformed.  The sizes of a block, of the length and of the CRC        *)
(* register are parameters.                                                *)
(***************************************************************************)
EXTENDS Integers, Sequences, SequencesExt, FiniteSetsExt, Bitwise, TLC

CONSTANTS
  B64Data,     \* what is encoded: sequences of bytes
  B64Text,     \* what else is decoded: sequences of letters of the alphabet,
               \* of Pad, LineEnd and Foreign
  QrText,      \* texts: sequences of bytes
  QrVersion,   \* qr_versions: size, data_cw, ec_cw, align_pos
  SncBits,     \* bits of an address: 32 in the code
  DgTexts,    \* texts to hash: sequences of bytes
  ShaBlock,   \* 64
  ShaLength,  \* 8, the bytes of the length at the end
  CrcBits,    \* 32
  CrcPoly,    \* 0xEDB88320
  FnvPrime,   \* 16777619
  FnvBase,    \* 2166136261
  FdTrees,    \* directories [name, kids, open] and files [name, size, text, open]
  FdMaxDepth  \* MAX_DEPTH

VARIABLES codec, dg

CodecOff == [kind |-> "off"]

Bits(n, w) == [i \in 1 .. w |-> (n \div 2^(w - i)) % 2]
Number(bits) == FoldLeft(LAMBDA n, b : 2 * n + b, 0, bits)
Joined(seqs) == FlattenSeq(seqs)
Zeros(n) == [i \in 1 .. n |-> 0]
CutInto(s, w) == [i \in 1 .. Len(s) \div w |-> SubSeq(s, w * (i - 1) + 1, w * i)]

----------------------------------------------------------------------------
(* b64.  A letter of the alphabet is its index.                            *)

Pad == 100
LineEnd == 101   \* a line end or a space
Foreign == 102  \* a letter that is not of the alphabet

\* base64_encode and base32_encode: blocks of bytes become letters of w bits,
\* and the last letters of a short block are padding.
Base64 == [bytes |-> 3, width |-> 6, pads |-> <<2, 1, 0>>]
Base32 == [bytes |-> 5, width |-> 5, pads |-> <<6, 4, 3, 1, 0>>]
Letters(b) == (8 * b.bytes) \div b.width

EncodeBlock(b, block) ==
  LET n == Len(block)
      bits == Joined([i \in 1 .. n |-> Bits(block[i], 8)]) \o Zeros(8 * (b.bytes - n))
      letters == CutInto(bits, b.width)
  IN  [i \in 1 .. Letters(b) |-> IF i > Letters(b) - b.pads[n] THEN Pad ELSE Number(letters[i])]

Encode(b, data) ==
  LET blocks == (Len(data) + b.bytes - 1) \div b.bytes
  IN  Joined([k \in 1 .. blocks |->
                EncodeBlock(b, SubSeq(data, b.bytes * (k - 1) + 1,
                                      IF b.bytes * k < Len(data) THEN b.bytes * k ELSE Len(data)))])

Trimmed(text) == LET RECURSIVE Trim(_)
                     Trim(t) == IF t # <<>> /\ Last(t) = LineEnd THEN Trim(Front(t)) ELSE t
                 IN  Trim(text)

\* How many bytes the padding takes away.  Base64 looks at the last two
\* letters, Base32 counts up to six.
PadRun(text) == Max({k \in 0 .. 6 : k <= Len(text) /\ \A i \in 1 .. k : text[Len(text) - i + 1] = Pad})
PadAt(text, i) == IF i > 0 /\ text[i] = Pad THEN 1 ELSE 0
Less32(text) == LET k == PadRun(text) IN IF k = 6 THEN 4 ELSE IF k = 4 THEN 3 ELSE IF k = 3 THEN 2 ELSE IF k = 1 THEN 1 ELSE 0
Less(b, text) ==
  IF b = Base32 THEN Less32(text) ELSE PadAt(text, Len(text)) + PadAt(text, Len(text) - 1)

\* A stray letter fails Base32.  In Base64 its table entry is 0x80808080,
\* whose bits fall into the 24 of the block according to its place in it.
Spill == <<{}, {19}, {13, 21}, {7, 15, 23}>>
LetterBit(b, text, i) ==
  LET l == text[((i - 1) \div b.width) + 1]
      first == Letters(b) * ((i - 1) \div (8 * b.bytes))
      spilt == \E k \in 1 .. Letters(b) :
                 text[first + k] = Foreign /\ 24 - ((i - 1) % 24) - 1 \in Spill[k]
  IN  IF b = Base64 /\ spilt THEN 1
      ELSE IF l \in {Pad, Foreign} THEN 0
      ELSE Bits(l, b.width)[((i - 1) % b.width) + 1]

Invalid == [ok |-> FALSE, size |-> 0, shown |-> <<>>]

\* printf with %s: what stands before the first byte of zero.
Shown(bytes) == SubSeq(bytes, 1, SelectInSeq(bytes \o <<0>>, LAMBDA c : c = 0) - 1)

Decode(b, raw) ==
  LET text == Trimmed(raw)
      bits == [i \in 1 .. b.width * Len(text) |-> LetterBit(b, text, i)]
      bytes == [i \in 1 .. Len(bits) \div 8 |-> Number(SubSeq(bits, 8 * i - 7, 8 * i))]
  IN  IF Len(text) % Letters(b) # 0 \/ (b = Base32 /\ Foreign \in ToSet(text)) THEN Invalid
      ELSE [ok |-> TRUE, size |-> Len(bytes) - Less(b, text), shown |-> Shown(SubSeq(bytes, 1, Len(bytes) - Less(b, text)))]

B64Starts ==
  {[kind |-> "b64", pc |-> "encode", base |-> b, data |-> d, text |-> <<>>, out |-> Invalid] : b \in {Base64, Base32}, d \in B64Data}
  \cup {[kind |-> "b64", pc |-> "decode", base |-> b, data |-> <<>>, text |-> t, out |-> Invalid] : b \in {Base64, Base32}, t \in B64Text}

\* An empty input is left alone.
B64Encode ==
  /\ codec.kind = "b64" /\ codec.pc = "encode"
  /\ codec' = [codec EXCEPT !.pc = IF codec.data = <<>> THEN "done" ELSE "decode", !.text = Encode(codec.base, codec.data)]

B64Decode ==
  /\ codec.kind = "b64" /\ codec.pc = "decode"
  /\ codec' = [codec EXCEPT !.pc = "done", !.out = Decode(codec.base, codec.text)]

----------------------------------------------------------------------------
(* qrcli.                                                                  *)

\* gf_init: the powers of 2 in GF(256), gf_exp[i] at i + 1.
GfExp == FoldLeft(LAMBDA s, i : Append(s, LET x == 2 * Last(s) IN IF x >= 256 THEN x ^^ 285 ELSE x), <<1>>, [i \in 1 .. 254 |-> i])
GfLogTable == [x \in 1 .. 255 |-> (CHOOSE i \in 1 .. 255 : GfExp[i] = x) - 1]
GfMul(a, b) == IF a = 0 \/ b = 0 THEN 0 ELSE GfExp[((GfLogTable[a] + GfLogTable[b]) % 255) + 1]

\* rs_gen_poly: the product of (x + 2^i), highest power first.
RsGenPoly(n) ==
  FoldLeft(LAMBDA p, i : [j \in 1 .. Len(p) + 1 |->
                            (IF j <= Len(p) THEN p[j] ELSE 0) ^^ (IF j > 1 THEN GfMul(p[j - 1], GfExp[i]) ELSE 0)],
           <<1>>, [i \in 1 .. n |-> i])

\* rs_encode: the remainder of the data by it, one data word at a time.
RsEncode(data, gen) ==
  LET n == Len(gen) - 1
      Turn(ec, d) ==
        LET factor == d ^^ ec[1]
        IN  [j \in 1 .. n |-> IF j < n THEN ec[j + 1] ^^ GfMul(gen[j + 1], factor) ELSE GfMul(gen[n + 1], factor)]
  IN  FoldLeft(Turn, Zeros(n), data)

\* The smallest version with room; then mode, count, text, the terminator,
\* and padding bytes in turn.
Fitting(text) == SelectInSeq(QrVersion, LAMBDA v : Len(text) + 3 <= v.data)

DataWords(text, v) ==
  LET used == Bits(4, 4) \o Bits(Len(text), 8) \o Joined([i \in 1 .. Len(text) |-> Bits(text[i], 8)])
      room == 8 * v.data - Len(used)
      ended == used \o Zeros(IF room > 4 THEN 4 ELSE room)
      whole == ended \o Zeros((8 - (Len(ended) % 8)) % 8)
      n == Len(whole) \div 8
  IN  [i \in 1 .. v.data |-> IF i <= n THEN Number(SubSeq(whole, 8 * i - 7, 8 * i))
                             ELSE IF (i - 1) % 2 = n % 2 THEN 236 ELSE 17]

\* draw_finder, draw_alignment, timing and the area of the format: the
\* modules data may not take.
\* What these patterns are is in DarkModules.
Square(v) == (0 .. v.size - 1) \X (0 .. v.size - 1)
FinderAt(v, r0, c0) == {m \in Square(v) : m[1] \in r0 - 1 .. r0 + 7 /\ m[2] \in c0 - 1 .. c0 + 7}
Finders(v) == FinderAt(v, 0, 0) \cup FinderAt(v, 0, v.size - 7) \cup FinderAt(v, v.size - 7, 0)
Aligned(v) == IF v.align = 0 THEN {} ELSE (v.align - 2 .. v.align + 2) \X (v.align - 2 .. v.align + 2)
Timing(v) == {<<6, i>> : i \in 8 .. v.size - 9} \cup {<<i, 6>> : i \in 8 .. v.size - 9}
FormatArea(v) ==
  UNION {{<<8, i>>, <<i, 8>>, <<8, v.size - 1 - i>>, <<v.size - 1 - i, 8>>} : i \in 0 .. 8}
Reserved(v) == Finders(v) \cup Aligned(v) \cup Timing(v) \cup FormatArea(v)

\* Three rings of a finder, two of an alignment pattern, every other module of
\* the timing patterns, and one module by itself.
Rings(r, c, dark) == {m \in (r - 3 .. r + 3) \X (c - 3 .. c + 3) : Max({m[1] - r, r - m[1], m[2] - c, c - m[2]}) \in dark}
DarkModules(v) ==
  Rings(3, 3, {0, 1, 3}) \cup Rings(3, v.size - 4, {0, 1, 3}) \cup Rings(v.size - 4, 3, {0, 1, 3})
    \cup (IF v.align = 0 THEN {} ELSE Rings(v.align, v.align, {0, 2}))
    \cup {m \in Timing(v) : (m[1] + m[2]) % 2 = 0} \cup {<<v.size - 8, 8>>}

\* The zig-zag from the right, two columns at a time, up and down in turn,
\* leaving out the column of the timing pattern.
PairColumns(v) == SelectSeq([i \in 1 .. v.size |-> v.size - i],
                            LAMBDA c : c > 0 /\ IF c > 6 THEN (v.size - 1 - c) % 2 = 0 ELSE c % 2 = 1)
ZigZag(v) ==
  LET cols == PairColumns(v)
      Row(k, i) == IF k % 2 = 1 THEN v.size - i ELSE i - 1
      Pair(k) == Joined([i \in 1 .. v.size |-> <<<<Row(k, i), cols[k]>>, <<Row(k, i), cols[k] - 1>>>>])
  IN  SelectSeq(Joined([k \in 1 .. Len(cols) |-> Pair(k)]), LAMBDA m : m \notin Reserved(v))

\* With mask 0 every module of an even diagonal is turned over.
Masked(m, bit) == IF (m[1] + m[2]) % 2 = 0 THEN 1 - bit ELSE bit

\* Level L and mask 0, the lowest bit first, and the two modules of a bit.
FormatWord == Reverse(Bits(30660, 15))
FormatAt(v, i) ==
  {IF i <= 5 THEN <<8, i>> ELSE IF i <= 7 THEN <<8, i + 1>> ELSE IF i = 8 THEN <<7, 8>> ELSE <<14 - i, 8>>,
   IF i < 8 THEN <<v.size - 1 - i, 8>> ELSE <<8, v.size - 15 + i>>}

QrStarts == {[kind |-> "qr", pc |-> "start", text |-> t] : t \in QrText}

QrGenerate ==
  /\ codec.kind = "qr" /\ codec.pc = "start"
  /\ codec' = IF Fitting(codec.text) = 0 THEN [codec EXCEPT !.pc = "toolong"]
              ELSE LET v == QrVersion[Fitting(codec.text)]
                       data == DataWords(codec.text, v)
                       words == data \o RsEncode(data, RsGenPoly(v.ec))
                   IN  [kind |-> "qr", pc |-> "encoded", text |-> codec.text, v |-> v, words |-> words]

\* The patterns, the data over what they leave, the format over all.
QrPlace ==
  /\ codec.kind = "qr" /\ codec.pc = "encoded"
  /\ LET v == codec.v
         path == ZigZag(v)
         bits == Joined([i \in 1 .. Len(codec.words) |-> Bits(codec.words[i], 8)])
         Bit(k) == IF k <= Len(bits) THEN bits[k] ELSE 0
         dark == DarkModules(v)
         patterns == [m \in Square(v) |-> IF m \in dark THEN 1 ELSE 0]
         data == [m \in Range(path) |-> LET k == SelectInSeq(path, LAMBDA p : p = m) IN Masked(m, Bit(k))]
         Format(grid, i) == [m \in FormatAt(v, i - 1) |-> FormatWord[i]] @@ grid
     IN  codec' = [kind |-> "qr", pc |-> "done", text |-> codec.text, v |-> v, words |-> codec.words,
                   grid |-> FoldLeft(Format, data @@ patterns, [i \in 1 .. 15 |-> i])]

----------------------------------------------------------------------------
(* snc.                                                                    *)

SncStarts == {[kind |-> "snc", pc |-> "start", ip |-> ip, given |-> g] :
                ip \in 0 .. 2^SncBits - 1, g \in [mask : BOOLEAN, n : 0 .. 2^SncBits - 1]}

Mask(prefix) == [i \in 1 .. SncBits |-> IF i <= prefix THEN 1 ELSE 0]

\* parse_mask_to_prefix: the ones at the top of the mask, nothing below.
ParseMask(n) ==
  LET ones == {p \in 0 .. SncBits : Bits(n, SncBits) = Mask(p)}
  IN  IF ones = {} THEN 0 - 1 ELSE CHOOSE p \in ones : TRUE
ParsePrefix(n) == IF n <= SncBits THEN n ELSE 0 - 1

SncCalculate ==
  LET p == IF codec.given.mask THEN ParseMask(codec.given.n) ELSE ParsePrefix(codec.given.n)
      ip == Bits(codec.ip, SncBits)
      mask == Mask(p)
      net == Number([i \in 1 .. SncBits |-> ip[i] * mask[i]])
      bcast == Number([i \in 1 .. SncBits |-> IF mask[i] = 1 THEN ip[i] ELSE 1])
  IN  /\ codec.kind = "snc" /\ codec.pc = "start"
      /\ codec' = IF p < 0 THEN [codec EXCEPT !.pc = "refused"]
                  ELSE [kind |-> "snc", pc |-> "done", ip |-> codec.ip, given |-> codec.given, prefix |-> p,
                        net |-> net, bcast |-> bcast,
                        first |-> IF p >= SncBits - 1 THEN net ELSE net + 1,
                        last |-> IF p >= SncBits - 1 THEN bcast ELSE bcast - 1,
                        usable |-> CASE p = SncBits -> 1 [] p = SncBits - 1 -> 2 [] OTHER -> 2^(SncBits - p) - 2]

CodecNext ==
  codec.kind # "off" /\ (B64Encode \/ B64Decode \/ QrGenerate \/ QrPlace \/ SncCalculate)

----------------------------------------------------------------------------
\* What b64 encodes it decodes again, whatever the length of the data and in
\* both bases, and the text has the length the code allocates for it.  Of the
\* data it shows all up to a byte of zero (b64.c:288), the size is that of all.
B64RoundTrip ==
  codec.kind = "b64" /\ codec.pc = "done" /\ codec.data # <<>> =>
    /\ codec.out.ok /\ codec.out.size = Len(codec.data)
    /\ IsPrefix(codec.out.shown, codec.data) /\ 0 \notin Range(codec.out.shown)
    /\ codec.out.shown = codec.data \/ codec.data[Len(codec.out.shown) + 1] = 0
    /\ Len(codec.text) = Letters(codec.base) * ((Len(codec.data) + codec.base.bytes - 1) \div codec.base.bytes)

\* Every root of the generator is a root of data and check words together,
\* which is what a reader corrects errors with.
Checks(words, n) ==
  \A i \in 1 .. n :
    0 = FoldLeft(LAMBDA sum, w : GfMul(sum, GfExp[i]) ^^ w, 0, words)

\* The bits along the zig-zag are those of the words, unmasked, up to the
\* last two: FormatArea has two modules too many (qrcli.c:227), so that is
\* all the room there is.
DataStands ==
  LET path == ZigZag(codec.v)
      bits == Joined([i \in 1 .. Len(codec.words) |-> Bits(codec.words[i], 8)])
      room == IF Len(path) < Len(bits) THEN Len(path) ELSE Len(bits)
  IN  /\ Len(path) >= Len(bits) - 2 /\ Cardinality(ToSet(path)) = Len(path)
      /\ \A k \in 1 .. room : codec.grid[path[k]] = Masked(path[k], bits[k])

\* Nothing is drawn over the patterns: along the middle of each finder run
\* 1, 1, 3, 1, 1 modules, the timing patterns alternate, and the dark module is
\* dark although the format goes over it.
PatternsStand ==
  LET last == codec.v.size - 1
      Module(r, c) == codec.grid[<<r, c>>]
      Across(r, c) == [i \in 1 .. 7 |-> Module(r, c + i - 1)]
      Down(r, c) == [i \in 1 .. 7 |-> Module(r + i - 1, c)]
      finder == <<1, 0, 1, 1, 1, 0, 1>>
  IN  /\ \A corner \in {<<0, 0>>, <<0, last - 6>>, <<last - 6, 0>>} :
           Across(corner[1] + 3, corner[2]) = finder /\ Down(corner[1], corner[2] + 3) = finder
      /\ \A i \in 8 .. last - 8 : Module(6, i) = Module(i, 6) /\ Module(6, i) = 1 - Module(6, i + 1)
      /\ Module(last - 7, 8) = 1

\* Both copies of the format hold all its bits, with rows and columns exchanged
\* against where the standard has them (qrcli.c:267-275): a reader that follows
\* it finds the first copy in the opposite order.
StandardPlaces(v) ==
  << [i \in 1 .. 15 |-> IF i <= 6 THEN <<i - 1, 8>> ELSE IF i <= 8 THEN <<i, 8>> ELSE IF i = 9 THEN <<8, 7>> ELSE <<8, 15 - i>>],
     [i \in 1 .. 15 |-> IF i <= 8 THEN <<8, v.size - i>> ELSE <<v.size - 16 + i, 8>>] >>
FormatStands ==
  \A copy \in Range(StandardPlaces(codec.v)) : \A i \in 1 .. 15 : codec.grid[<<copy[i][2], copy[i][1]>>] = FormatWord[i]

QrReads ==
  codec.kind = "qr" /\ codec.pc = "done" =>
    /\ Checks(codec.words, codec.v.ec)
    /\ LET bits == Joined([i \in 1 .. Len(codec.words) |-> Bits(codec.words[i], 8)])
       IN  /\ Number(SubSeq(bits, 5, 12)) = Len(codec.text)
           /\ \A i \in 1 .. Len(codec.text) : Number(SubSeq(bits, 8 * i + 5, 8 * i + 12)) = codec.text[i]
    /\ DataStands /\ PatternsStand /\ FormatStands

\* A subnet is the addresses that share the first bits: its first is the
\* network, its last the broadcast address, and the hosts lie between.
SubnetAgrees ==
  codec.kind = "snc" /\ codec.pc = "done" =>
    LET same == {a \in 0 .. 2^SncBits - 1 : SubSeq(Bits(a, SncBits), 1, codec.prefix) = SubSeq(Bits(codec.ip, SncBits), 1, codec.prefix)}
        hosts == IF codec.prefix >= SncBits - 1 THEN same ELSE same \ {Min(same), Max(same)}
    IN  /\ codec.net = Min(same) /\ codec.bcast = Max(same)
        /\ codec.first = Min(hosts) /\ codec.last = Max(hosts) /\ codec.usable = Cardinality(hosts)

CodecsAgree == B64RoundTrip /\ QrReads /\ SubnetAgrees

----------------------------------------------------------------------------
DgOff == [kind |-> "off"]

----------------------------------------------------------------------------
(* SHA-256.                                                                *)

ShaInit == [data |-> [i \in 1 .. ShaBlock |-> 0], datalen |-> 0, bitlen |-> 0, blocks |-> <<>>]

ShaTransform(ctx) == [ctx EXCEPT !.blocks = Append(@, ctx.data)]

ShaByte(ctx, c) ==
  LET put == [ctx EXCEPT !.data[ctx.datalen + 1] = c, !.datalen = @ + 1]
  IN  IF put.datalen = ShaBlock THEN [ShaTransform(put) EXCEPT !.bitlen = @ + 8 * ShaBlock, !.datalen = 0]
      ELSE put

ShaUpdate(ctx, piece) == FoldLeft(ShaByte, ctx, piece)

\* n in bytes, highest first.
BigEndian(n, bytes) == [i \in 1 .. bytes |-> (n \div 256 ^ (bytes - i)) % 256]

LengthAt == ShaBlock - ShaLength

\* A rest that leaves no room for the length takes a block of its own.
ShaFinal(ctx) ==
  LET n == ctx.datalen
      marked == [ctx EXCEPT !.data = [i \in 1 .. ShaBlock |->
                   IF i <= n THEN @[i] ELSE IF i = n + 1 THEN 128
                   ELSE IF n < LengthAt /\ i > LengthAt THEN @[i] ELSE 0]]
      room == IF n < LengthAt THEN marked
              ELSE [ShaTransform(marked) EXCEPT !.data = [i \in 1 .. ShaBlock |-> IF i <= LengthAt THEN 0 ELSE @[i]]]
      bits == BigEndian(ctx.bitlen + 8 * n, ShaLength)
  IN  ShaTransform([room EXCEPT !.data = [i \in 1 .. ShaBlock |-> IF i > LengthAt THEN bits[i - LengthAt] ELSE @[i]]]).blocks

Sha256(text) == ShaFinal(ShaUpdate(ShaInit, text))

----------------------------------------------------------------------------
(* CRC32: the highest coefficient is the lowest bit.                       *)

CrcTop == 2 ^ (CrcBits - 1)
CrcInverted(crc) == 2 * CrcTop - 1 - crc

CrcShift(crc, j) == (crc \div 2) ^^ (IF crc % 2 = 1 THEN CrcPoly ELSE 0)
CrcByte(crc, byte) == FoldLeft(CrcShift, crc ^^ byte, [j \in 1 .. 8 |-> j])

\* CrcInverted before and after each piece.
Crc32(piece, crc) == CrcInverted(FoldLeft(CrcByte, CrcInverted(crc), piece))

\* FNV-1a, in as many bits.
FnvByte(hash, byte) == ((hash ^^ byte) * FnvPrime) % (2 * CrcTop)
Fnv1a(piece, hash) == FoldLeft(FnvByte, hash, piece)

----------------------------------------------------------------------------
(* hash_file_stream: a piece is whatever fread returns.                    *)

HashStarts == {[kind |-> "hash", text |-> t, rest |-> t, crc |-> 0, fnv |-> FnvBase, sha |-> ShaInit, end |-> FALSE] : t \in DgTexts}

HashPiece ==
  /\ dg.kind = "hash" /\ dg.rest # <<>>
  /\ \E n \in 1 .. Len(dg.rest) :
       LET piece == SubSeq(dg.rest, 1, n)
       IN  dg' = [dg EXCEPT !.rest = SubSeq(@, n + 1, Len(@)), !.crc = Crc32(piece, @),
                            !.fnv = Fnv1a(piece, @), !.sha = ShaUpdate(@, piece)]

HashEnd ==
  /\ dg.kind = "hash" /\ dg.rest = <<>> /\ ~dg.end
  /\ dg' = [dg EXCEPT !.end = TRUE]

----------------------------------------------------------------------------
(* fdup.                                                                   *)

\* scan_recursive.  Hidden and ignored names are left out, as are empty
\* files and what lies too deep; a link counts as the file it leads to.
RECURSIVE ScanRecursive(_, _)
ScanRecursive(dir, depth) ==
  IF depth > FdMaxDepth \/ dir.name = "ignored" \/ ~dir.open THEN <<>>
  ELSE FlattenSeq([i \in DOMAIN dir.kids |->
         LET k == dir.kids[i]
         IN  IF k.name \in {"hidden", "ignored"} THEN <<>>
             ELSE IF "kids" \in DOMAIN k THEN ScanRecursive(k, depth + 1)
             ELSE IF k.size > 0 THEN <<k>> ELSE <<>>])

\* qsort by size, largest first; equal sizes in any order.
BySize(files) ==
  {[i \in DOMAIN files |-> files[p[i]]] :
     p \in {q \in [DOMAIN files -> DOMAIN files] :
              /\ \A i, j \in DOMAIN files : i # j => q[i] # q[j]
              /\ \A i, j \in DOMAIN files : i < j => files[q[i]].size >= files[q[j]].size}}

compute_file_sha256(file) == Sha256(file.text)

\* sha holds what a thread will compute of each file.
FdStarts ==
  UNION {{[kind |-> "fdup", pc |-> "next", files |-> f, sha |-> [j \in DOMAIN f |-> compute_file_sha256(f[j])], i |-> 1, match |-> 0, k |-> 0,
           thread |-> [j \in DOMAIN f |-> "none"], hash |-> [j \in DOMAIN f |-> <<>>],
           computed |-> [j \in DOMAIN f |-> FALSE], group |-> [j \in DOMAIN f |-> 0],
           groups |-> 0, wasted |-> 0] : f \in BySize(ScanRecursive(t, 1))} : t \in FdTrees}

FdAt(l) == dg.kind = "fdup" /\ dg.pc = l
FdRun(d) == d.i .. d.i + d.match - 1

\* The files of one size; alone, a file is passed by.
FdNextRun ==
  /\ FdAt("next")
  /\ dg' = IF dg.i > Len(dg.files) THEN [dg EXCEPT !.pc = "end"]
           ELSE LET m == Cardinality({j \in dg.i .. Len(dg.files) : dg.files[j].size = dg.files[dg.i].size})
                IN  IF m = 1 THEN [dg EXCEPT !.i = @ + 1]
                    ELSE [dg EXCEPT !.pc = "create", !.match = m, !.k = dg.i]

FdCreate ==
  /\ FdAt("create")
  /\ dg' = IF dg.k \notin FdRun(dg) THEN [dg EXCEPT !.pc = "join", !.k = dg.i]
           ELSE [dg EXCEPT !.k = @ + 1, !.thread[dg.k] = IF dg.computed[dg.k] THEN @ ELSE "run"]

\* hash_worker: a file that cannot be opened has no digest; the digest is
\* written first, and then said to be there.
FdWorker ==
  \E j \in DOMAIN dg.thread :
    \/ /\ dg.thread[j] = "run"
       /\ dg' = IF dg.files[j].open THEN [dg EXCEPT !.thread[j] = "hashed", !.hash[j] = dg.sha[j]]
                ELSE [dg EXCEPT !.thread[j] = "ended"]
    \/ /\ dg.thread[j] = "hashed"
       /\ dg' = [dg EXCEPT !.thread[j] = "ended", !.computed[j] = TRUE]

\* pthread_join, for those whose digest is not there yet.
FdJoined(d) == d.computed[d.k] \/ d.thread[d.k] = "ended"

FdJoin ==
  /\ FdAt("join")
  /\ IF dg.k \notin FdRun(dg) THEN dg' = [dg EXCEPT !.pc = "compare"]
     ELSE FdJoined(dg) /\ dg' = [dg EXCEPT !.k = @ + 1]

\* Those that agree with the first of the run make a group; the others of
\* the run are not compared with each other.
FdCompare ==
  /\ FdAt("compare")
  /\ LET same == {j \in FdRun(dg) \ {dg.i} : dg.computed[dg.i] /\ dg.computed[j] /\ dg.hash[j] = dg.hash[dg.i]}
         g == dg.groups + 1
         next == [dg EXCEPT !.pc = "next", !.i = @ + dg.match]
     IN  dg' = IF same = {} THEN next
               ELSE [next EXCEPT !.groups = g, !.wasted = @ + Cardinality(same) * dg.files[dg.i].size,
                                 !.group = [j \in DOMAIN @ |-> IF j = dg.i \/ j \in same THEN g ELSE @[j]]]

Fdup == FdNextRun \/ FdCreate \/ (dg.kind = "fdup" /\ FdWorker) \/ FdJoin \/ FdCompare
DgNext == HashPiece \/ HashEnd \/ Fdup

\* The kernel runs every thread.
DgFair == WF_dg(Fdup)

----------------------------------------------------------------------------
(* What the digests have to be.                                            *)

\* The message, one bit, zeros as far as needed, the length.
ShaPadded(text) ==
  LET zeros == CHOOSE z \in 0 .. ShaBlock - 1 : (Len(text) + 1 + z + ShaLength) % ShaBlock = 0
  IN  text \o <<128>> \o [i \in 1 .. zeros |-> 0] \o BigEndian(8 * Len(text), ShaLength)

\* The remainder of the whole message, its first bits inverted, by the
\* polynomial, inverted at the end: a division bit by bit.
BitAt(text, k) == (text[((k - 1) \div 8) + 1] \div 2 ^ ((k - 1) % 8)) % 2
Remainder(text) ==
  LET n == 8 * Len(text)
      bit(k) == ((IF k <= n THEN BitAt(text, k) ELSE 0) + (IF k <= CrcBits THEN 1 ELSE 0)) % 2
      step(rem, k) == (rem \div 2 + CrcTop * bit(k)) ^^ (IF rem % 2 = 1 THEN CrcPoly ELSE 0)
  IN  CrcInverted(FoldLeft(step, 0, [k \in 1 .. n + CrcBits |-> k]))

\* However the file was cut into pieces, the blocks are those of its padded
\* text, the CRC is the remainder of the whole, and FNV-1a is that of the whole.
HashAgrees ==
  dg.end => /\ FlattenSeq(ShaFinal(dg.sha)) = ShaPadded(dg.text)
            /\ dg.crc = Remainder(dg.text)
            /\ dg.fnv = Fnv1a(dg.text, FnvBase)

\* fdup's groups, at any time: only files of equal content are together, and
\* the space reported is what all but one of each group take.  At the end
\* every readable file that equals the first of its size is with it.  (Other
\* pairs of the same size are passed over, fdup.c:305.)
FdupAgrees ==
  /\ \A i, j \in DOMAIN dg.files : dg.group[i] # 0 /\ dg.group[i] = dg.group[j] => dg.files[i].text = dg.files[j].text
  /\ dg.wasted = MapThenSumSet(LAMBDA j : dg.files[j].size, {j \in DOMAIN dg.files : \E i \in 1 .. j - 1 : dg.group[i] = dg.group[j] /\ dg.group[i] # 0})
  /\ dg.pc = "end" =>
       \A i, j \in DOMAIN dg.files :
         /\ i < j /\ dg.files[i].open /\ dg.files[j].open
         /\ dg.files[i].text = dg.files[j].text
         /\ \A k \in 1 .. i - 1 : dg.files[k].size # dg.files[i].size
         => dg.group[i] = dg.group[j] /\ dg.group[i] # 0

DigestsAgree == (dg.kind = "hash" => HashAgrees) /\ (dg.kind = "fdup" => FdupAgrees)

\* fdup ends, whichever files cannot be read.
FdupEnds == (dg.kind = "fdup") ~> (dg.kind = "fdup" /\ dg.pc = "end")
=============================================================================
