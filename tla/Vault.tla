------------------------------- MODULE Vault -------------------------------
(***************************************************************************)
(* krypt: a file or a directory is packed into a temporary file, enciphered*)
(* chunk by chunk into a vault and sealed with a digest; later the vault   *)
(* is checked, deciphered into another temporary file and unpacked.        *)
(*                                                                         *)
(* A cell of the temporary file holds a number: a byte of data, a name of  *)
(* a path, or a field of a header, so that a header read in the wrong      *)
(* place is read as what lies there.  The blocks of ChaCha20 are numbers   *)
(* of the same size that depend on key, nonce and counter; a digest is what*)
(* is digested.  What becomes of the original is in FileTools.             *)
(***************************************************************************)
EXTENDS Integers, Bitwise, Sequences, SequencesExt, FiniteSets, TLC

CONSTANTS
  KvTargets,  \* what is packed: [dir, entries], the entries in readdir's order
  KvWords,    \* passwords, sequences of numbers
  KvPass,     \* 64, what counts of a password
  KvChunk,    \* CHUNK_SZ
  KvBlock,    \* 64
  KvCell      \* how many numbers a cell can hold

ASSUME KvChunkAssumption == KvBlock > 0 /\ KvChunk % KvBlock = 0

VARIABLE kv

KvOff == [pc |-> "off"]

KvAt(l) == kv.pc = l
KvCells(s, from, n) == SubSeq(s, from, IF from + n - 1 < Len(s) THEN from + n - 1 ELSE Len(s))

----------------------------------------------------------------------------
(* Keys, blocks and digests.                                               *)

\* What is digested: the password, as far as it counts, and the salt.
DeriveKey(pass, salt) == <<SubSeq(pass, 1, IF Len(pass) < KvPass THEN Len(pass) ELSE KvPass), salt>>

\* One cell of a block.
Chacha20Block(key, nonce, counter, i) ==
  (FoldLeft(LAMBDA n, c : 5 * n + c, 3 * key[2] + 7 * nonce, key[1]) + 11 * counter + 3 * i) % KvCell

\* Every call begins a new block.
Chacha20Crypt(key, nonce, counter, data) ==
  [i \in DOMAIN data |-> data[i] ^^ Chacha20Block(key, nonce, counter + ((i - 1) \div KvBlock), (i - 1) % KvBlock)]
KvBlocks(data) == (Len(data) + KvBlock - 1) \div KvBlock

KvMac(key, body) == <<"INTEGRITY_KEY_2.0", key, body>>

----------------------------------------------------------------------------
(* encrypt_vault.                                                          *)

\* An entry: path, kind, mode (1: its owner may write), the size lstat gives,
\* and the data to be read if it can be opened.
Isdir(e) == IF e.kind = "dir" THEN 1 ELSE 0
KvHeader(e) == <<Len(e.path)>> \o e.path \o <<Isdir(e), e.mode, IF e.kind = "dir" THEN 0 ELSE e.size>>
KvBody(e) == IF e.kind # "dir" /\ e.open THEN e.data ELSE <<>>

EmptyDir == <<>> :> [kind |-> "dir", mode |-> 1, data |-> <<>>]

KvStarts ==
  {[pc |-> "pack", target |-> t, pass |-> p, k |-> 1, tmp |-> <<IF t.dir THEN 2 ELSE 1>>, has |-> TRUE,
    salt |-> 1, nonce |-> 1, counter |-> 1, pos |-> 1, body |-> <<>>, mac |-> <<>>, key |-> DeriveKey(p, 1),
    hurt |-> "no", asked |-> p, dest |-> TRUE, out |-> <<>> :> [kind |-> "none"], res |-> 0] : t \in KvTargets, p \in KvWords \ {<<>>}}

\* pack_directory_tree writes an entry, and a 0 behind the last one; of a
\* single file the data alone.
KvPack ==
  /\ KvAt("pack")
  /\ kv' = IF kv.k <= Len(kv.target.entries)
           THEN LET e == kv.target.entries[kv.k]
                IN  [kv EXCEPT !.k = @ + 1, !.tmp = @ \o (IF kv.target.dir THEN KvHeader(e) ELSE <<>>) \o KvBody(e)]
           ELSE [kv EXCEPT !.pc = "seal", !.tmp = IF kv.target.dir THEN Append(@, 0) ELSE @]

KvSeal ==
  /\ KvAt("seal")
  /\ LET chunk == KvCells(kv.tmp, kv.pos, KvChunk)
     IN  kv' = IF chunk = <<>>
               THEN [kv EXCEPT !.pc = "sealed", !.mac = KvMac(kv.key, kv.body), !.tmp = <<>>, !.has = FALSE]
               ELSE [kv EXCEPT !.pos = @ + KvChunk, !.counter = @ + KvBlocks(chunk),
                               !.body = @ \o Chacha20Crypt(kv.key, kv.nonce, kv.counter, chunk)]

----------------------------------------------------------------------------
(* What happens to a vault until it is opened: nothing, a cell of it       *)
(* changes, or its end is lost, which takes the digest with it.            *)

KvHurt ==
  /\ KvAt("sealed") /\ kv.hurt = "no"
  /\ \/ \E i \in DOMAIN kv.body : kv' = [kv EXCEPT !.hurt = "body", !.body[i] = (@ + 1) % KvCell]
     \/ kv' = [kv EXCEPT !.hurt = "salt", !.salt = 2]
     \/ kv' = [kv EXCEPT !.hurt = "nonce", !.nonce = 2]
     \/ \E n \in DOMAIN kv.body : kv' = [kv EXCEPT !.hurt = "cut", !.body = SubSeq(@, 1, n), !.mac = <<>>]
     \/ kv' = [kv EXCEPT !.hurt = "short", !.body = <<>>, !.mac = <<>>]

----------------------------------------------------------------------------
(* decrypt_vault.                                                          *)

KvFail(s) == [s EXCEPT !.pc = "end", !.res = 1]

\* The digest is checked before anything is written.
KvMacAgrees(s) == s.mac = KvMac(s.key, s.body)

\* dest: whether the destination can be made.
KvAsk ==
  /\ KvAt("sealed")
  /\ \E p \in KvWords, d \in BOOLEAN :
       kv' = LET s == [kv EXCEPT !.pc = "check", !.asked = p, !.dest = d]
             IN  IF p = <<>> \/ kv.hurt = "short" THEN KvFail(s) ELSE [s EXCEPT !.key = DeriveKey(p, kv.salt)]

KvCheck ==
  /\ KvAt("check")
  /\ kv' = IF KvMacAgrees(kv) THEN [kv EXCEPT !.pc = "open", !.pos = 1, !.counter = 1, !.has = TRUE] ELSE KvFail(kv)

\* The first cell says what was packed; anything else is dropped.
Unsealed(s) ==
  CASE s.tmp # <<>> /\ s.tmp[1] = 1 /\ ~s.dest -> [KvFail(s) EXCEPT !.has = FALSE]
    [] s.tmp # <<>> /\ s.tmp[1] = 1 /\ s.dest ->
         [s EXCEPT !.pc = "end", !.has = FALSE,
                   !.out = <<>> :> [kind |-> "file", mode |-> 1, data |-> SubSeq(s.tmp, 2, Len(s.tmp))]]
    [] s.tmp # <<>> /\ s.tmp[1] = 2 -> [s EXCEPT !.pc = "unpack", !.pos = 2, !.out = IF s.dest THEN EmptyDir ELSE @]
    [] OTHER -> [s EXCEPT !.pc = "end", !.has = FALSE]

KvOpen ==
  /\ KvAt("open")
  /\ LET chunk == KvCells(kv.body, kv.pos, KvChunk)
     IN  kv' = IF chunk = <<>> THEN Unsealed(kv)
               ELSE [kv EXCEPT !.pos = @ + KvChunk, !.counter = @ + KvBlocks(chunk),
                               !.tmp = @ \o Chacha20Crypt(kv.key, kv.nonce, kv.counter, chunk)]

\* A directory takes a new name.
KvTakes(out, p) == p # <<>> /\ Front(p) \in DOMAIN out /\ out[Front(p)].kind = "dir" /\ out[Front(p)].mode = 1

Mkdir(out, p, mode) ==
  IF p \notin DOMAIN out /\ KvTakes(out, p) THEN p :> [kind |-> "dir", mode |-> mode, data |-> <<>>] @@ out ELSE out

MakeParentDirs(out, p) == FoldLeft(LAMBDA o, i : Mkdir(o, SubSeq(p, 1, i), 1), out, [i \in 1 .. Len(p) - 1 |-> i])

\* open for writing: a file that is there keeps its mode.
KvOpens(out, p) == IF p \in DOMAIN out THEN out[p].kind = "file" /\ out[p].mode = 1 ELSE KvTakes(out, p)

CellAt(s, i) == IF i <= Len(s) THEN s[i] ELSE 0

\* A file that cannot be created leaves its data where the next header is
\* looked for.
KvUnpack ==
  /\ KvAt("unpack")
  /\ LET n == CellAt(kv.tmp, kv.pos)
         path == KvCells(kv.tmp, kv.pos + 1, n)
         h == kv.pos + 1 + Len(path)
         mode == CellAt(kv.tmp, h + 1)
         made == MakeParentDirs(kv.out, path)
         data == KvCells(kv.tmp, h + 3, CellAt(kv.tmp, h + 2))
         kept == IF path \in DOMAIN made THEN made[path].mode ELSE mode
     IN  kv' = IF n = 0 THEN [kv EXCEPT !.pc = "end", !.has = FALSE]
               ELSE IF CellAt(kv.tmp, h) # 0 THEN [kv EXCEPT !.pos = h + 3, !.out = Mkdir(@, path, mode)]
               ELSE IF KvOpens(made, path)
               THEN [kv EXCEPT !.pos = h + 3 + Len(data), !.out = path :> [kind |-> "file", mode |-> kept, data |-> data] @@ made]
               ELSE [kv EXCEPT !.pos = h + 3, !.out = made]

KvNext == KvPack \/ KvSeal \/ KvHurt \/ KvAsk \/ KvCheck \/ KvOpen \/ KvUnpack

----------------------------------------------------------------------------
\* An entry that keeps the format: a directory its owner may write, or a file
\* whose data could be read and is as long as lstat said.
KvPlain(e) == IF e.kind = "dir" THEN e.mode = 1 ELSE e.kind = "file" /\ e.open /\ e.size = Len(e.data)

KvRestored(e) == e.path \in DOMAIN kv.out /\ kv.out[e.path] = [kind |-> e.kind, mode |-> e.mode, data |-> e.data]

\* The vault gives back what was put in, to whoever knows the password as far
\* as it counts: of a directory every entry up to the first that breaks the
\* format, and nothing else if none does.  To another password, or from a
\* vault whose data, salt or end was damaged, it gives nothing (krypt.c:464).
\* A damaged nonce goes unnoticed, and so does a directory that could not be
\* made.  No temporary file stays behind.
VaultKeeps ==
  kv.pc = "end" =>
    LET es == kv.target.entries
        same == DeriveKey(kv.asked, 1) = DeriveKey(kv.pass, 1)
        nothing == kv.res = 1 /\ kv.out = <<>> :> [kind |-> "none"]
    IN  /\ ~kv.has
        /\ ~same \/ kv.hurt \notin {"no", "nonce"} => nothing
        /\ same /\ kv.hurt = "no" /\ kv.dest =>
             /\ kv.res = 0
             /\ kv.target.dir =>
                  /\ \A i \in DOMAIN es : (\A j \in 1 .. i : KvPlain(es[j])) => KvRestored(es[i])
                  /\ (\A i \in DOMAIN es : KvPlain(es[i])) => DOMAIN kv.out = {es[i].path : i \in DOMAIN es} \cup {<<>>}
             /\ ~kv.target.dir => kv.out[<<>>].data = es[1].data
=============================================================================
