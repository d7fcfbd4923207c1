------------------------------ MODULE FileTools ------------------------------
(***************************************************************************)
(* The tools that change files: cp, mv, ln, org, rmd and krypt, each a     *)
(* process whose steps are its system calls, so that two of them interleave*)
(* anywhere, are killed anywhere and run out of room.                      *)
(*                                                                         *)
(* A directory is a device of its own with room for so many pieces of      *)
(* files; a file is a sequence of pieces.  What the processes know of POSIX*)
(* (names, inodes, open files, rename within a device) is external.  Left  *)
(* out: symbolic links, directories as sources, times, modes, read errors. *)
(***************************************************************************)
EXTENDS Naturals, Sequences, FiniteSetsExt, TLC

CONSTANTS Proc, Dir, Base,
          Ino, NoIno,
          Shipped,    \* the names that exist at first: a set of Plain names
          Size,       \* the pieces of a file that exists at first
          Room,       \* the pieces that fit on each device
          TmpDir,     \* where krypt keeps its temporary file
          Commands,   \* the commands that are tried
          Pairs,      \* the sources and destinations that are tried
          Kills       \* whether a process may be killed

Name == Dir \X Base \X {"", "~", ".kr", "tmp_shred"}
Plain == Dir \X Base \X {""}
Backup(n) == <<n[1], n[2], "~">>
Vault(n) == <<n[1], n[2], ".kr">>

Command == [tool : {"cp", "mv", "ln", "org", "rmd", "krypt"},
            flags : SUBSET {"f", "i", "u", "n", "b", "V", "s"}]

ASSUME SizeAssumption == Size \in Nat \ {0} /\ Room \in [Dir -> Nat]
ASSUME NameAssumption == Shipped \subseteq Plain /\ TmpDir \in Dir /\ NoIno \notin Ino
ASSUME InoAssumption == IsFiniteSet(Ino) /\ Cardinality(Ino) > Cardinality(Shipped) + 3 * Cardinality(Proc)
ASSUME CommandAssumption ==
  Commands \subseteq Command /\ Pairs \subseteq Plain \X Plain /\ Kills \in BOOLEAN

VARIABLES
  names,   \* the directories: each name's inode, or NoIno
  inode,   \* each inode: the device it is on and the pieces it holds
  proc,    \* each process: its command, its next step, its locals
  been     \* history variable: the names at which each file was ever whole

vars == <<names, inode, proc, been>>

(* A piece of a file, in clear or sealed in a vault; zeros or noise; the   *)
(* authentication code that ends a vault.                                  *)
Noise == <<"noise">>
Mac == <<"mac">>
Clear(c, k) == <<c, k, "clear">>
Sealed(piece) == <<piece[1], piece[2], "sealed">>
Piece == {Noise, Mac} \cup (Shipped \X (1 .. Size) \X {"clear", "sealed"})
Whole(c) == [k \in 1 .. Size |-> Clear(c, k)]
WholeVault(c) == Append([k \in 1 .. Size |-> Sealed(Clear(c, k))], Mac)

Idle == [tool |-> "none", flags |-> {}, src |-> NoIno, dst |-> NoIno,
         pc |-> "idle", in |-> NoIno, out |-> NoIno, tmp |-> NoIno,
         size |-> 0, pos |-> 0, saw |-> {}, aside |-> NoIno,
         short |-> FALSE, told |-> "nothing"]

-----------------------------------------------------------------------------
(* POSIX, as the tools use it. *)

Holds(n) == inode[names[n]].data
Exists(n) == names[n] # NoIno
Open(p) == {proc[p].in, proc[p].out, proc[p].tmp}
Live == ({names[n] : n \in Name} \cup UNION {Open(p) : p \in Proc}) \ {NoIno}
Used(d) == MapThenSumSet(LAMBDA i : Len(inode[i].data), {i \in Live : inode[i].on = d})
Fresh == CHOOSE i \in Ino : i \notin Live

(* write: the piece at offset pos, whatever the length is by then. *)
Put(data, pos, piece) ==
  [k \in 1 .. Max({Len(data), pos + 1}) |->
     CASE k = pos + 1 -> piece
       [] k # pos + 1 /\ k <= Len(data) -> data[k]
       [] OTHER -> Noise]
Fits(i, pos) ==
  LET grows == Len(Put(inode[i].data, pos, Noise)) - Len(inode[i].data)
  IN  Used(inode[i].on) + grows <= Room[inode[i].on]

Written(i, pos, piece) == inode' = [inode EXCEPT ![i].data = Put(@, pos, piece)]
Link(n, i) == names' = [names EXCEPT ![n] = i]
Unlink(n) == Link(n, NoIno)

(* open with O_CREAT and O_TRUNC: the inode it yields, and what it does. *)
Target(n) == IF Exists(n) THEN names[n] ELSE Fresh
Truncated(n) ==
  /\ Link(n, Target(n))
  /\ inode' = [inode EXCEPT ![Target(n)] = [on |-> n[1], data |-> <<>>]]

Renamed(from, to) == names' = [names EXCEPT ![to] = names[from], ![from] = NoIno]
SameFile(m, n) == Exists(m) /\ names[m] = names[n]

-----------------------------------------------------------------------------
Init ==
  LET at == CHOOSE f \in [Shipped -> Ino] : \A m, n \in Shipped : f[m] = f[n] => m = n
  IN  /\ names = [n \in Name |-> IF n \in Shipped THEN at[n] ELSE NoIno]
      /\ inode = [i \in Ino |->
                    IF \E n \in Shipped : at[n] = i
                    THEN LET n == CHOOSE n \in Shipped : at[n] = i
                         IN  [on |-> n[1], data |-> Whole(n)]
                    ELSE [on |-> TmpDir, data |-> <<>>]]
      /\ proc = [p \in Proc |-> Idle]
      /\ been = [c \in Shipped |-> {c}]

Same == UNCHANGED <<names, inode>>
At(p, step) == proc[p].pc = step
Go(p, step) == proc' = [proc EXCEPT ![p].pc = step]
Become(p, changes) == proc' = [proc EXCEPT ![p] = changes @@ @]
WholeAt(n, c) == Exists(n) /\ Holds(n) = Whole(c)
InVault(n, c) == Exists(n) /\ Holds(n) = WholeVault(c)
Seen(n) == {c \in Shipped : WholeAt(n, c)}

End(p, told) == Become(p, [pc |-> "done", told |-> told,
                           in |-> NoIno, out |-> NoIno, tmp |-> NoIno])

(* A command is typed: one for each process. *)
Begin(p) ==
  /\ At(p, "idle")
  /\ \E c \in Commands, pair \in Pairs :
       /\ c.tool \in {"rmd", "krypt"} => pair[1] = pair[2]
       /\ c.tool \notin {"rmd", "krypt"} => pair[1] # pair[2]
       /\ Become(p, [tool |-> c.tool, flags |-> c.flags, src |-> pair[1], pc |-> c.tool,
                     dst |-> IF c.tool = "krypt" THEN Vault(pair[1]) ELSE pair[2]])
  /\ Same

Kill(p) == Kills /\ proc[p].pc \notin {"idle", "done"} /\ End(p, "killed") /\ Same

\* Mutant: the last piece is left out.
MoreButLast(q) == q.pos + 1 < q.size /\ q.pos < Len(inode[q.in].data)

(* The loop that copies: it ends at the size it was told, at the end of    *)
(* the file it reads, or when a write fails.                               *)
More(q) == q.pos < q.size /\ q.pos < Len(inode[q.in].data)
CopyPiece(p, step, after) ==
  LET q == proc[p]
  IN  /\ At(p, step)
      /\ IF More(q) /\ Fits(q.out, q.pos)
         THEN /\ Written(q.out, q.pos, inode[q.in].data[q.pos + 1])
              /\ Become(p, [pos |-> q.pos + 1])
              /\ UNCHANGED names
         ELSE Become(p, [pc |-> after, short |-> More(q)]) /\ Same

(* open of the source, and of the destination once that worked. *)
OpenSource(p, step, after) ==
  LET q == proc[p]
  IN  /\ At(p, step) /\ Same
      /\ IF Exists(q.src) THEN Become(p, [pc |-> after, in |-> names[q.src], pos |-> 0])
         ELSE End(p, "error")
CreateTarget(p, step, after) ==
  /\ At(p, step)
  /\ Truncated(proc[p].dst)
  /\ Become(p, [pc |-> after, out |-> Target(proc[p].dst)])

-----------------------------------------------------------------------------
(* cp: copy_single_file. *)

CpStat(p) ==
  LET q == proc[p]
  IN  /\ At(p, "cp") /\ Same
      /\ IF Exists(q.src)
         THEN Become(p, [pc |-> "cpFinal", in |-> names[q.src], size |-> Len(Holds(q.src))])
         ELSE End(p, "error")

(* The destination is looked at; what -u finds there and what is answered  *)
(* to -i is left open.  -f answers for the user and removes the old file.  *)
CpFinal(p) ==
  LET q == proc[p]
      there == Exists(q.dst)
  IN  /\ At(p, "cpFinal") /\ Same
      /\ \/ there /\ names[q.dst] = q.in /\ End(p, "error")
         \/ /\ there /\ names[q.dst] # q.in
            /\ \/ "u" \in q.flags
               \/ "i" \in q.flags /\ "f" \notin q.flags
            /\ End(p, "skipped")
         \/ /\ there => names[q.dst] # q.in
            /\ Become(p, [saw |-> Seen(q.dst), in |-> NoIno,
                          pc |-> IF there /\ "f" \in q.flags THEN "cpUnlink" ELSE "cpOpen"])

CpUnlink(p) ==
  /\ At(p, "cpUnlink")
  /\ Unlink(proc[p].dst) /\ UNCHANGED inode
  /\ Go(p, "cpOpen")

CpOpen(p) == OpenSource(p, "cpOpen", "cpCreate")
CpCreate(p) == CreateTarget(p, "cpCreate", "cpCopy")
CpCopy(p) == CopyPiece(p, "cpCopy", "cpEnd")

(* [OK] is printed however much was copied; -V reads both files again. *)
CpEnd(p) ==
  LET q == proc[p]
      differ == Exists(q.src) /\ Exists(q.dst) /\ Holds(q.src) # Holds(q.dst)
  IN  /\ At(p, "cpEnd") /\ Same
      /\ End(p, IF "V" \in q.flags /\ differ THEN "error" ELSE "ok")

Cp(p) == CpStat(p) \/ CpFinal(p) \/ CpUnlink(p) \/ CpOpen(p) \/ CpCreate(p) \/ CpCopy(p) \/ CpEnd(p)

-----------------------------------------------------------------------------
(* mv: move_single_file and cross_device_move. *)

MvStat(p) ==
  LET q == proc[p]
  IN  /\ At(p, "mv") /\ Same
      /\ IF Exists(q.src)
         THEN Become(p, [pc |-> "mvFinal", in |-> names[q.src], size |-> Len(Holds(q.src))])
         ELSE End(p, "error")

\* Mutant: -n is not looked at.
Clobber(q) == FALSE
NoClobber(q) == "n" \in q.flags
MvFinal(p) ==
  LET q == proc[p]
      there == Exists(q.dst)
  IN  /\ At(p, "mvFinal") /\ Same
      /\ \/ there /\ names[q.dst] = q.in /\ End(p, "error")
         \/ /\ there /\ names[q.dst] # q.in /\ (NoClobber(q) \/ "u" \in q.flags)
            /\ End(p, "skipped")
         \/ /\ there => names[q.dst] # q.in /\ ~NoClobber(q)
            /\ Become(p, [saw |-> Seen(q.dst), in |-> NoIno,
                          pc |-> CASE there /\ "b" \in q.flags -> "mvBackup"
                                   [] there /\ "b" \notin q.flags /\ "i" \in q.flags
                                        /\ "f" \notin q.flags -> "mvAsk"
                                   [] OTHER -> "mvRename"])

(* -b moves the old file away before -i asks. *)
MvBackup(p) ==
  LET q == proc[p]
  IN  /\ At(p, "mvBackup") /\ UNCHANGED inode
      /\ IF Exists(q.dst) THEN Renamed(q.dst, Backup(q.dst)) ELSE UNCHANGED names
      /\ Go(p, IF "i" \in q.flags /\ "f" \notin q.flags THEN "mvAsk" ELSE "mvRename")

MvAsk(p) ==
  /\ At(p, "mvAsk") /\ Same
  /\ Go(p, "mvRename") \/ End(p, "skipped")

MvRename(p) ==
  LET q == proc[p]
  IN  /\ At(p, "mvRename") /\ UNCHANGED inode
      /\ \/ ~Exists(q.src) /\ End(p, "error") /\ UNCHANGED names
         \/ /\ Exists(q.src) /\ q.src[1] = q.dst[1]
            /\ IF SameFile(q.src, q.dst) THEN UNCHANGED names ELSE Renamed(q.src, q.dst)
            /\ End(p, "ok")
         \/ Exists(q.src) /\ q.src[1] # q.dst[1] /\ Go(p, "mvOpen") /\ UNCHANGED names

MvOpen(p) == OpenSource(p, "mvOpen", "mvCreate")
MvCreate(p) == CreateTarget(p, "mvCreate", "mvCopy")
MvCopy(p) == CopyPiece(p, "mvCopy", "mvUnlink")

(* The source goes however much was copied. *)
MvUnlink(p) ==
  /\ At(p, "mvUnlink")
  /\ Unlink(proc[p].src) /\ UNCHANGED inode
  /\ End(p, "ok")

Mv(p) == \/ MvStat(p) \/ MvFinal(p) \/ MvBackup(p) \/ MvAsk(p) \/ MvRename(p)
         \/ MvOpen(p) \/ MvCreate(p) \/ MvCopy(p) \/ MvUnlink(p)

-----------------------------------------------------------------------------
(* ln without -s, and org, which renames whatever is at the new name. *)

LnForce(p) ==
  /\ At(p, "ln") /\ UNCHANGED inode
  /\ IF "f" \in proc[p].flags THEN Unlink(proc[p].dst) ELSE UNCHANGED names
  /\ Go(p, "lnLink")

LnLink(p) ==
  LET q == proc[p]
      works == Exists(q.src) /\ ~Exists(q.dst) /\ q.src[1] = q.dst[1]
  IN  /\ At(p, "lnLink") /\ UNCHANGED inode
      /\ IF works THEN Link(q.dst, names[q.src]) /\ End(p, "ok")
         ELSE End(p, "error") /\ UNCHANGED names

OrgRename(p) ==
  LET q == proc[p]
      works == Exists(q.src) /\ q.src[1] = q.dst[1] /\ ~SameFile(q.src, q.dst)
  IN  /\ At(p, "org") /\ UNCHANGED inode
      /\ IF works THEN Renamed(q.src, q.dst) ELSE UNCHANGED names
      /\ End(p, IF Exists(q.src) /\ q.src[1] = q.dst[1] THEN "ok" ELSE "skipped")

-----------------------------------------------------------------------------
(* rmd: secure_shred_file and obfuscate_and_unlink.  Of the passes that    *)
(* overwrite the file only the first is kept: the others write noise over  *)
(* noise.  rmd runs by itself or as the child of krypt -s.                 *)

RmdEnd(p, told) == End(p, IF proc[p].tool = "krypt" THEN "ok" ELSE told)

RmdStat(p) ==
  LET q == proc[p]
  IN  /\ At(p, "rmd") /\ Same
      /\ \/ ~Exists(q.src) /\ RmdEnd(p, "error")
         \/ /\ Exists(q.src)
            /\ Become(p, [size |-> Len(Holds(q.src)), saw |-> Seen(q.src),
                          pc |-> IF Len(Holds(q.src)) > 0 THEN "rmdOpen" ELSE "rmdRename"])

RmdOpen(p) ==
  LET q == proc[p]
  IN  /\ At(p, "rmdOpen") /\ Same
      /\ IF Exists(q.src) THEN Become(p, [pc |-> "rmdWipe", in |-> names[q.src], pos |-> 0])
         ELSE RmdEnd(p, "error")

ToWipe(q) == q.pos < q.size
RmdWipe(p) ==
  LET q == proc[p]
  IN  /\ At(p, "rmdWipe")
      /\ IF ToWipe(q) /\ Fits(q.in, q.pos)
         THEN Written(q.in, q.pos, Noise) /\ Become(p, [pos |-> q.pos + 1]) /\ UNCHANGED names
         ELSE Go(p, "rmdTruncate") /\ Same

RmdTruncate(p) ==
  /\ At(p, "rmdTruncate") /\ UNCHANGED names
  /\ inode' = [inode EXCEPT ![proc[p].in].data = <<>>]
  /\ Become(p, [pc |-> "rmdRename", in |-> NoIno])

Hidden(n, b) == <<n[1], b, "tmp_shred">>

(* The new name is the second and a random number seeded with the second:  *)
(* two of them may agree.  Neither call's result is looked at.             *)
RmdRename(p) ==
  LET q == proc[p]
  IN  /\ At(p, "rmdRename") /\ UNCHANGED inode
      /\ \E b \in Base :
           LET hidden == Hidden(q.src, b)
           IN  /\ IF Exists(q.src) THEN Renamed(q.src, hidden) ELSE UNCHANGED names
               /\ Become(p, [pc |-> "rmdUnlink", aside |-> hidden])

RmdUnlink(p) ==
  /\ At(p, "rmdUnlink") /\ UNCHANGED inode
  /\ Unlink(proc[p].aside)
  /\ RmdEnd(p, "ok")

Rmd(p) == \/ RmdStat(p) \/ RmdOpen(p) \/ RmdWipe(p) \/ RmdTruncate(p)
          \/ RmdRename(p) \/ RmdUnlink(p)

-----------------------------------------------------------------------------
(* krypt -e of one file: encrypt_vault.  The temporary file's name holds   *)
(* the process's number, so here it is an inode that only krypt has open.  *)

KryptStat(p) ==
  /\ At(p, "krypt") /\ Same
  /\ IF Exists(proc[p].src) THEN Go(p, "kryptTmp") ELSE End(p, "error")

KryptTmp(p) ==
  /\ At(p, "kryptTmp") /\ UNCHANGED names
  /\ inode' = [inode EXCEPT ![Fresh] = [on |-> TmpDir, data |-> <<>>]]
  /\ Become(p, [pc |-> "kryptOpen", tmp |-> Fresh])

KryptOpen(p) == OpenSource(p, "kryptOpen", "kryptPack")

(* No result of write is looked at: a piece without room is left out. *)
Full(i) == ~Fits(i, Len(inode[i].data))
Appended(i, piece) ==
  IF Full(i) THEN UNCHANGED inode ELSE Written(i, Len(inode[i].data), piece)

KryptPack(p) ==
  LET q == proc[p]
  IN  /\ At(p, "kryptPack") /\ UNCHANGED names
      /\ IF q.pos < Len(inode[q.in].data)
         THEN /\ Appended(q.tmp, inode[q.in].data[q.pos + 1])
              /\ Become(p, [pos |-> q.pos + 1, short |-> q.short \/ Full(q.tmp)])
         ELSE Become(p, [pc |-> "kryptCreate", in |-> NoIno, pos |-> 0]) /\ UNCHANGED inode

KryptCreate(p) == CreateTarget(p, "kryptCreate", "kryptSeal")

SealedPiece(piece) == IF Len(piece) = 3 THEN Sealed(piece) ELSE Noise
KryptSeal(p) ==
  LET q == proc[p]
  IN  /\ At(p, "kryptSeal") /\ UNCHANGED names
      /\ IF q.pos < Len(inode[q.tmp].data)
         THEN /\ Appended(q.out, SealedPiece(inode[q.tmp].data[q.pos + 1]))
              /\ Become(p, [pos |-> q.pos + 1, short |-> q.short \/ Full(q.out)])
         ELSE Go(p, "kryptMac") /\ UNCHANGED inode

KryptMac(p) ==
  LET q == proc[p]
  IN  /\ At(p, "kryptMac") /\ UNCHANGED names
      /\ Appended(q.out, Mac)
      /\ IF "s" \in q.flags
         THEN Become(p, [pc |-> "rmd", out |-> NoIno, tmp |-> NoIno, short |-> q.short \/ Full(q.out)])
         ELSE Become(p, [pc |-> "done", told |-> "ok", out |-> NoIno, tmp |-> NoIno,
                         short |-> q.short \/ Full(q.out)])

Krypt(p) == \/ KryptStat(p) \/ KryptTmp(p) \/ KryptOpen(p) \/ KryptPack(p)
            \/ KryptCreate(p) \/ KryptSeal(p) \/ KryptMac(p)

-----------------------------------------------------------------------------
Remember == been' = [c \in Shipped |-> been[c] \cup {n \in Name : WholeAt(n, c)'}]

Step(p) == Begin(p) \/ Kill(p) \/ Cp(p) \/ Mv(p) \/ LnForce(p) \/ LnLink(p)
           \/ OrgRename(p) \/ Rmd(p) \/ Krypt(p)
Next == \E p \in Proc : Step(p) /\ Remember
Spec == Init /\ [][Next]_vars

(* Names are linked to files of their own device, files hold pieces, and   *)
(* no device holds more than fits.                                         *)
TypeOK ==
  /\ names \in [Name -> Ino \cup {NoIno}]
  /\ \A i \in Ino : inode[i].on \in Dir /\ Range(inode[i].data) \subseteq Piece
  /\ \A n \in Name : Exists(n) => inode[names[n]].on = n[1]
  /\ \A p \in Proc : Open(p) \subseteq Ino \cup {NoIno}
  /\ \A d \in Dir : Used(d) <= Room[d]

(* What a command is asked to do away with: what rmd removes, what is at  *)
(* the destination, unless -n or -b was given and found it there.          *)
Dooms(p, c) ==
  LET q == proc[p]
      kept == c \in q.saw /\ q.flags \cap {"n", "b"} # {}
  IN  CASE q.tool = "rmd" -> {q.src}
        [] q.tool = "mv" /\ kept -> {Backup(q.dst)}
        [] q.tool = "mv" /\ ~kept -> {q.dst, Backup(q.dst)}
        [] q.tool \in {"cp", "org", "krypt"} -> {q.dst}
        [] q.tool = "ln" /\ "f" \in q.flags -> {q.dst}
        [] OTHER -> {}

(* A file on its way to a name that another command uses as well. *)
Uses(p) == {proc[p].src, proc[p].dst}
Contested(c) ==
  \E p \in Proc : /\ proc[p].tool \in {"mv", "krypt"} /\ proc[p].src \in been[c]
                  /\ \E q \in Proc \ {p} : proc[p].dst \in Uses(q)

(* mv between devices and krypt -s remove the source however much of it    *)
(* fitted on the destination's device.                                     *)
CutShort(c) ==
  \E p \in Proc : proc[p].short /\ proc[p].tool \in {"mv", "krypt"} /\ proc[p].src \in been[c]

(* Whatever the tools do and wherever they are killed, a file that existed *)
(* is whole under some name or in a vault, unless a command was asked to   *)
(* overwrite or remove it, two commands met at the name it was going to, or*)
(* the device it was going to was full.                                    *)
Recoverable ==
  \A c \in Shipped :
     \/ \E n \in Name : WholeAt(n, c) \/ InVault(n, c)
     \/ \E p \in Proc : been[c] \cap Dooms(p, c) # {}
     \/ Contested(c)
     \/ CutShort(c)

(* A command whose names no other command uses; what it was asked for is   *)
(* there; or nothing of it is.                                             *)
Alone(p) == \A q \in Proc \ {p} : (Uses(p) \cup {Backup(proc[p].dst)}) \cap Uses(q) = {}
Done(p) ==
  LET q == proc[p]
  IN  CASE q.tool = "cp" -> WholeAt(q.src, q.src) /\ WholeAt(q.dst, q.src)
        [] q.tool \in {"mv", "org"} ->
             /\ WholeAt(q.dst, q.src) /\ ~Exists(q.src)
             /\ "b" \in q.flags /\ q.dst \in Shipped => WholeAt(Backup(q.dst), q.dst)
        [] q.tool = "ln" -> SameFile(q.src, q.dst)
        [] q.tool = "rmd" -> ~Exists(q.src)
        [] q.tool = "krypt" -> InVault(q.dst, q.src) /\ ("s" \in q.flags <=> ~Exists(q.src))
Untouched(p) == \A n \in Uses(p) : IF n \in Shipped THEN WholeAt(n, n) ELSE ~Exists(n)

(* A command with its names to itself does all it was asked for when it    *)
(* says so, and nothing when it gives up.  The exceptions are the writes   *)
(* that failed, which only cp -V notices, and two commands that have       *)
(* removed or renamed the destination before they give up: ln -f whose link*)
(* fails, and mv -b -i that is answered no.                                *)
OkMeansDone ==
  \A p \in Proc :
     LET q == proc[p]
         noticed == ~q.short \/ (q.tool = "cp" /\ "V" \in q.flags)
         early == (q.tool = "ln" /\ "f" \in q.flags) \/ {"b", "i"} \subseteq q.flags
     IN  q.pc = "done" /\ Alone(p) =>
           /\ q.told = "ok" /\ noticed => Done(p)
           /\ q.told \in {"error", "skipped"} => Untouched(p) \/ early \/ q.short

(* When rmd gives the blocks of a file back they no longer hold any piece  *)
(* of what was in it when rmd looked at it.                                *)
Shredded ==
  \A p \in Proc :
     At(p, "rmdTruncate") =>
       \A c \in proc[p].saw, k \in 1 .. Size : Clear(c, k) \notin Range(inode[proc[p].in].data)

\* What the tools report is so: done means done, and shredded means blank.
ReportsTrue == TypeOK /\ OkMeansDone /\ Shredded
=============================================================================
