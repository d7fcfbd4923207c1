------------------------------ MODULE KDiskFs ------------------------------
(***************************************************************************)
(* freestanding/kdiskfs.c on top of kvfs.c, as the shell of                *)
(* test_os/kernel.c drives them: a command changes the tree in memory and  *)
(* then saves to the ATA disk, sector by sector.  The power may go between *)
(* any two sector writes; the next boot mounts what the disk holds.        *)
(*                                                                         *)
(* The drive is present.  A sector write happens at once, or it fails      *)
(* (kata_write_sector gives up) and the caller goes on as if it had not.   *)
(* A sector of file data is <<save, i>>: the i-th sector of the save-th    *)
(* saved content, <<0, 0>> when it is zeroed.  Data sectors are numbered   *)
(* from 1, sizes are in sectors.  num_files and mode, which nothing reads  *)
(* back, reads that fail and texts are left out.                           *)
(***************************************************************************)
EXTENDS KVfs

CONSTANTS
  Raw,           \* the paths commands pass to both layers, as resolve_path leaves
                 \* them: one path of the tree may be spelt "/docs" and "/docs/"
  Clean,         \* sanitize_path, of those and of what a table may hold
  Passwd, Homes, \* /etc/passwd, and the home directories users can have
  Torn,          \* a name with parts of two paths
  MaxFiles,      \* KDISKFS_MAX_FILES
  TableSectors,  \* how many sectors of the table are written and read
  Layout,        \* entry -> the table sectors of name, tail and meta, its parts
  DiskSize,      \* number of data sectors
  Commands,      \* which commands are given
  MaxSaves, MaxFaults  \* bounds on a run

\* What a data sector holds; a file has at most two.
Sector == (0 .. MaxSaves) \X (0 .. 2)

\* An entry's parts lie in the table in the order of its struct: the path,
\* which two sectors may share, and what follows it.  The disk has room for
\* what a run saves.
ASSUME DiskAssumption ==
  /\ Torn \notin Raw /\ {Passwd} \cup Homes \subseteq Raw
  /\ Clean \in [Raw \cup {Torn, NoPath} -> Path]
  /\ {MaxFiles, TableSectors, DiskSize, MaxSaves, MaxFaults} \subseteq Nat
  /\ TableSectors >= 1 /\ DiskSize >= 2 * MaxSaves
  /\ Layout \in [1 .. MaxFiles -> [name : Nat, tail : Nat, meta : Nat]]
  /\ \A e \in 1 .. MaxFiles :
       1 <= Layout[e].name /\ Layout[e].name <= Layout[e].tail /\ Layout[e].tail <= Layout[e].meta
  /\ Data = UNION {[1 .. n -> Sector] : n \in 0 .. 2} /\ Empty = <<>>

VARIABLES
  entry,   \* disk_entries
  next,    \* super_block.next_free_lba
  tab,     \* the table on disk
  sup,     \* the superblock on disk: [magic, next]
  disk,    \* the data sectors
  pc, job, \* the command in progress: next step and locals
  saves, faults,  \* how many there were; a fault is a power cut or a failed write
  saved,   \* history variable: what the shell has reported of each path
  unkept,  \* history variable: paths of which less was kept than reported
  hidden,  \* history variable: paths whose node another spelling has changed last
  overrun, \* history variable: the sectors files have grown into
  stale    \* history variable: the superblock may be behind the table, because
           \* the power went between the two, or the table behind memory,
           \* because a write of it failed or a format has not finished

diskVars == <<tab, sup, disk>>
ramVars == <<vfs, entry, next>>
bounds == <<saves, faults>>
history == <<saved, unkept, hidden, overrun, stale>>
vars == <<ramVars, diskVars, pc, job, bounds, history>>

Entry == 1 .. MaxFiles
Zeroed == <<0, 0>>
NoMeta == [used |-> FALSE, type |-> "file", size |-> 0, lba |-> 0, count |-> 0]
NoEntry == [name |-> NoPath, tail |-> NoPath, meta |-> NoMeta]
NoJob == [raw |-> Torn, at |-> 0, data |-> Empty, type |-> "file", lba |-> 0,
          count |-> 0, i |-> 0, home |-> Torn]

\* What the shell has told of a path: nothing or removed, a content that is
\* saved, or neither while a command is in progress.
None == [state |-> "none", data |-> Empty, type |-> "file"]
Busy == [state |-> "busy", data |-> Empty, type |-> "file"]
Kept(data, type) == [state |-> "kept", data |-> data, type |-> type]

\* kata_write_sector succeeds, or gives up and nobody looks at its result.
Drive(ok) ==
  /\ ok \/ faults < MaxFaults
  /\ faults' = IF ok THEN faults ELSE faults + 1

\* A blank disk, and the machine is off.
Init ==
  /\ vfs = Booted
  /\ entry = [e \in Entry |-> NoEntry]
  /\ next = 0
  /\ tab = entry
  /\ sup = [magic |-> FALSE, next |-> 0]
  /\ disk = [s \in 1 .. DiskSize |-> Zeroed]
  /\ pc = "off"
  /\ job = NoJob
  /\ saves = 0 /\ faults = 0
  /\ saved = [r \in Raw |-> None]
  /\ unkept = {}
  /\ hidden = {}
  /\ overrun = {}
  /\ stale = FALSE

-----------------------------------------------------------------------------
(* The table of entries.                                                   *)

PathOf(e) == IF e.name = e.tail THEN e.name ELSE Torn
InUse(t) == {e \in Entry : t[e].meta.used}
Matching(r) == {e \in InUse(entry) : PathOf(entry[e]) = r}
Vacant == Entry \ InUse(entry)

\* kdiskfs_save_file takes the entry of that path, or the first unused one.
NoEntryFor(r) == Matching(r) = {} /\ Vacant = {}
EntryForFresh(r) == First(IF Vacant # {} THEN Vacant ELSE Matching(r))
EntryFor(r) == First(IF Matching(r) # {} THEN Matching(r) ELSE Vacant)

\* The table t after its i-th sector was written from memory.
TableSector(t, i) ==
  [e \in Entry |->
     [name |-> IF Layout[e].name = i THEN entry[e].name ELSE t[e].name,
      tail |-> IF Layout[e].tail = i THEN entry[e].tail ELSE t[e].tail,
      meta |-> IF Layout[e].meta = i THEN entry[e].meta ELSE t[e].meta]]

Persisted(e) ==
  {Layout[e].name, Layout[e].tail, Layout[e].meta} \subseteq 1 .. TableSectors

\* The entries that are written, the first n, have nodes next to those of
\* kvfs_init, and the heap two buffers for each: in the code 25 + 39 nodes of
\* 64.
RoomToMount ==
  \E n \in 0 .. MaxFiles :
    /\ \A e \in Entry : Persisted(e) => e <= n
    /\ Len(Builtin) + n <= MaxNodes /\ 2 * n <= HeapSize

\* The tree knows a path by what sanitize_path makes of it, the table by how it
\* was spelt.
Others(r) == {q \in Raw \ {r} : Clean[q] = Clean[r]}

\* Mounting t, a later entry for the same node overwrites what r's entry gave.
Superseded(t, r) ==
  \E e, f \in InUse(t) : e < f /\ PathOf(t[e]) = r /\ PathOf(t[f]) \in Others(r)

-----------------------------------------------------------------------------
(* kdiskfs_mount: what a boot makes of the disk.                            *)

OnDisk(m) == [s \in 1 .. m.size |-> disk[m.lba + s - 1]]

\* One entry is loaded; the buffer its sectors are read into is never freed.
Loaded(v, e) ==
  LET m == tab[e].meta
      p == Clean[PathOf(tab[e])]
      read == [v EXCEPT !.heap = @ \cup {Fresh(v)}, !.lost = @ \cup {Fresh(v)}]
  IN  IF ~m.used THEN v
      ELSE IF m.type = "dir" THEN Mkdir(v, p)
      ELSE IF m.size = 0 THEN Create(v, p, m.type, Empty)
      ELSE IF HeapFull(v) THEN v
      ELSE Write(read, p, OnDisk(m))

Mounted ==
  LET upTo[e \in 0 .. MaxFiles] ==
        IF e = 0 THEN Booted ELSE Loaded(upTo[e - 1], e)
  IN  upTo[MaxFiles]

Boot ==
  /\ pc = "off"
  /\ sup.magic
  /\ entry' = tab
  /\ next' = sup.next
  /\ vfs' = Mounted
  /\ pc' = "idle"
  /\ hidden' = {r \in Raw : Superseded(tab, r)}
  /\ UNCHANGED <<diskVars, job, bounds, saved, unkept, overrun, stale>>

\* A disk without the magic number is formatted.
BootBlank ==
  /\ pc = "off"
  /\ ~sup.magic
  /\ next' = 1
  /\ pc' = "formatSuper"
  /\ UNCHANGED <<vfs, entry, diskVars, job, bounds, history>>

-----------------------------------------------------------------------------
(* kdiskfs_format: the superblock first, then an empty table.               *)

Format ==
  /\ "format" \in Commands
  /\ pc = "idle"
  /\ next' = 1
  /\ pc' = "formatSuper"
  /\ UNCHANGED <<vfs, entry, diskVars, job, bounds, history>>

FormatSuper ==
  /\ pc = "formatSuper"
  /\ Drive(TRUE)
  /\ sup' = [magic |-> TRUE, next |-> next]
  /\ entry' = [e \in Entry |-> NoEntry]
  /\ pc' = "formatTable"
  /\ job' = [NoJob EXCEPT !.i = 1]
  /\ saved' = [r \in Raw |-> Busy]
  /\ stale' = TRUE
  /\ UNCHANGED <<vfs, next, tab, disk, saves, unkept, hidden, overrun>>

\* The one write whose failure is noticed: the entries stay, but the next
\* free sector in memory is the first already.
FormatRefused ==
  /\ pc = "formatSuper"
  /\ Drive(FALSE)
  /\ pc' = "idle"
  /\ stale' = (stale \/ InUse(entry) # {})
  /\ UNCHANGED <<ramVars, diskVars, job, saves, saved, unkept, hidden, overrun>>

FormatTable(ok) ==
  /\ pc = "formatTable"
  /\ Drive(ok)
  /\ tab' = IF ok THEN TableSector(tab, job.i) ELSE tab
  /\ IF job.i < TableSectors
     THEN /\ job' = [job EXCEPT !.i = @ + 1]
          /\ UNCHANGED <<pc, history>>
     ELSE /\ job' = NoJob
          /\ pc' = "idle"
          /\ saved' = [r \in Raw |-> None]
          /\ unkept' = {}
          /\ hidden' = {}
          /\ overrun' = {}
          /\ stale' = (InUse(tab') # {})
  /\ UNCHANGED <<ramVars, sup, disk, saves>>

-----------------------------------------------------------------------------
(* kdiskfs_save_file, called after the kvfs call of the same command.       *)

Needed(data) == IF Len(data) = 0 THEN 1 ELSE Len(data)

\* What follows a save of /etc/passwd for a new user with home directory h.
After(h) == IF h = Torn THEN "idle" ELSE "home"

\* v is the tree after the kvfs call, refused says whether that call failed.
\* This one may find no entry, or use one that the table sectors do not reach;
\* the shell reports success in any case.
Save(r, data, type, v, refused, home) ==
  LET e == EntryFor(r)
      m == entry[e].meta
      kept == ~refused /\ ~NoEntryFor(r) /\ Persisted(e)
  IN  /\ saves' = saves + 1
      /\ vfs' = v
      /\ unkept' = IF kept THEN unkept \ {r} ELSE unkept \cup {r}
      /\ hidden' = IF refused THEN hidden ELSE (hidden \cup Others(r)) \ {r}
      /\ IF NoEntryFor(r)
         THEN /\ saved' = [saved EXCEPT ![r] = Kept(data, type)]
              /\ job' = [NoJob EXCEPT !.home = home]
              /\ pc' = After(home)
              /\ UNCHANGED <<next, overrun>>
         ELSE /\ saved' = [saved EXCEPT ![r] = Busy]
              /\ pc' = "data"
              /\ job' = [raw |-> r, at |-> e, data |-> data, type |-> type,
                         lba |-> IF m.used THEN m.lba ELSE next,
                         count |-> Needed(data), i |-> 1, home |-> home]
              /\ next' = IF m.used THEN next ELSE next + Needed(data)
              /\ overrun' = IF m.used THEN overrun \cup (m.lba + m.count .. m.lba + Needed(data) - 1)
                            ELSE overrun
      /\ UNCHANGED <<entry, diskVars, faults, stale>>

\* When kvfs_write and kvfs_create return -1.
WriteRefused(r) == HeapFull(vfs) \/ (~Exists(vfs, Clean[r]) /\ Unused(vfs) = {})
MkdirRefused == vfs.count >= MaxNodes

Command(c, n) == c \in Commands /\ pc = "idle" /\ saves + n <= MaxSaves

NewText(n) == [i \in 1 .. n |-> <<saves + 1, i>>]

\* A command line is shorter than a sector, so one is enough for "write".
WriteFile(r) ==
  /\ Command("write", 1)
  /\ Save(r, NewText(1), "file", Write(vfs, Clean[r], NewText(1)),
          WriteRefused(r), Torn)

TouchDiskOnly(r) ==
  /\ Command("touch", 1)
  /\ Save(r, Empty, "file", vfs, FALSE, Torn)

Touch(r) ==
  /\ Command("touch", 1)
  /\ Save(r, Empty, "file", Write(vfs, Clean[r], Empty), WriteRefused(r), Torn)

MakeDir(r) ==
  /\ Command("mkdir", 1)
  /\ Save(r, Empty, "dir", Mkdir(vfs, Clean[r]), MkdirRefused, Torn)

\* "adduser" appends a line to /etc/passwd, which may take a second sector
\* (it is cut at 1023 bytes), saves it, and then makes the home directory.
AddUser(h, n) ==
  LET old == IF Exists(vfs, Clean[Passwd]) THEN Content(vfs, Clean[Passwd]) ELSE Empty
  IN  /\ Command("adduser", 2)
      /\ n \in Len(old) .. Len(old) + 1
      /\ Save(Passwd, NewText(n), "file", Write(vfs, Clean[Passwd], NewText(n)),
              WriteRefused(Passwd), h)

MakeHome ==
  /\ pc = "home"
  /\ Save(job.home, Empty, "dir", Mkdir(vfs, Clean[job.home]), MkdirRefused, Torn)

\* After its last data sector the entry is filled in.
DataSector(ok) ==
  LET piece == IF job.i <= Len(job.data) THEN job.data[job.i] ELSE Zeroed
  IN  /\ pc = "data"
      /\ Drive(ok)
      /\ disk' = IF ok THEN [disk EXCEPT ![job.lba + job.i - 1] = piece] ELSE disk
      /\ unkept' = IF ok THEN unkept ELSE unkept \cup {job.raw}
      /\ IF job.i < job.count
         THEN /\ job' = [job EXCEPT !.i = @ + 1]
              /\ UNCHANGED <<pc, entry>>
         ELSE /\ entry' = [entry EXCEPT ![job.at] =
                             [name |-> job.raw, tail |-> job.raw,
                              meta |-> [used |-> TRUE, type |-> job.type,
                                        size |-> Len(job.data), lba |-> job.lba,
                                        count |-> job.count]]]
              /\ job' = [job EXCEPT !.i = 1]
              /\ pc' = "table"
      /\ UNCHANGED <<vfs, next, tab, sup, saves, saved, hidden, overrun, stale>>

-----------------------------------------------------------------------------
(* kdiskfs_delete_file, after kvfs_delete.                                  *)

RmTreeOnly(r) ==
  /\ "rm" \in Commands
  /\ pc = "idle"
  /\ vfs' = Delete(vfs, Clean[r])
  /\ saved' = [saved EXCEPT ![r] = None]
  /\ hidden' = (hidden \cup Others(r)) \ {r}
  /\ UNCHANGED <<entry, pc, job, next, diskVars, bounds, unkept, overrun, stale>>

Rm(r) ==
  /\ "rm" \in Commands
  /\ pc = "idle"
  /\ vfs' = Delete(vfs, Clean[r])
  /\ IF Matching(r) = {}
     THEN /\ saved' = [saved EXCEPT ![r] = None]
          /\ UNCHANGED <<entry, pc, job>>
     ELSE /\ saved' = [saved EXCEPT ![r] = Busy]
          /\ entry' = [entry EXCEPT ![First(Matching(r))].meta.used = FALSE]
          /\ job' = [NoJob EXCEPT !.raw = r, !.i = 1, !.type = "gone"]
          /\ pc' = "table"
  /\ hidden' = (hidden \cup Others(r)) \ {r}
  /\ UNCHANGED <<next, diskVars, bounds, unkept, overrun, stale>>

-----------------------------------------------------------------------------
(* sync_table_to_disk: the table, then the superblock.                      *)

SyncTable(ok) ==
  /\ pc = "table"
  /\ Drive(ok)
  /\ tab' = IF ok THEN TableSector(tab, job.i) ELSE tab
  /\ stale' = (stale \/ ~ok)
  /\ IF job.i < TableSectors
     THEN job' = [job EXCEPT !.i = @ + 1] /\ UNCHANGED pc
     ELSE pc' = "super" /\ UNCHANGED job
  /\ UNCHANGED <<ramVars, sup, disk, saves, saved, unkept, hidden, overrun>>

SyncSuper(ok) ==
  /\ pc = "super"
  /\ Drive(ok)
  /\ sup' = IF ok THEN [magic |-> TRUE, next |-> next] ELSE sup
  /\ pc' = After(job.home)
  /\ job' = [NoJob EXCEPT !.home = job.home]
  /\ saved' = [saved EXCEPT ![job.raw] =
                 IF job.type = "gone" THEN None ELSE Kept(job.data, job.type)]
  /\ UNCHANGED <<ramVars, tab, disk, saves, unkept, hidden, overrun, stale>>

-----------------------------------------------------------------------------
Extent(m) == m.lba .. m.lba + m.count - 1

\* The superblock on disk does not know of an entry on disk: it has no magic
\* number yet, or the entry's sectors are free to it.
SuperBehind == \E e \in InUse(tab) : ~sup.magic \/ \E s \in Extent(tab[e].meta) \ overrun : s >= sup.next

\* The power goes: what was in memory is gone.
PowerOff ==
  /\ pc # "off"
  /\ faults < MaxFaults
  /\ faults' = faults + 1
  /\ pc' = "off"
  /\ job' = NoJob
  /\ vfs' = Booted
  /\ entry' = [e \in Entry |-> NoEntry]
  /\ next' = 0
  /\ stale' = (stale \/ SuperBehind)
  /\ UNCHANGED <<diskVars, saves, saved, unkept, hidden, overrun>>

Next ==
  \/ Boot
  \/ BootBlank
  \/ Format
  \/ FormatSuper
  \/ FormatRefused
  \/ \E ok \in BOOLEAN : FormatTable(ok)
  \/ \E r \in Raw : WriteFile(r)
  \/ \E r \in Raw : Touch(r)
  \/ \E r \in Raw : MakeDir(r)
  \/ \E h \in Homes, n \in 1 .. 2 : AddUser(h, n)
  \/ MakeHome
  \/ \E ok \in BOOLEAN : DataSector(ok)
  \/ \E r \in Raw : Rm(r)
  \/ \E ok \in BOOLEAN : SyncTable(ok)
  \/ \E ok \in BOOLEAN : SyncSuper(ok)
  \/ PowerOff

Spec == Init /\ [][Next]_vars

-----------------------------------------------------------------------------
(* Properties.                                                             *)

Meta == [used : BOOLEAN, type : Type, size : Nat, lba : Nat, count : Nat]
TableType == [Entry -> [name : Raw \cup {NoPath}, tail : Raw \cup {NoPath},
                        meta : Meta]]

\* The disk, the table in memory and the tree keep their types; the tree is
\* sound (KVfs) through every command, crash and mount.
TypeOK ==
  /\ VfsSound
  /\ entry \in TableType /\ tab \in TableType
  /\ next \in Nat /\ sup \in [magic : BOOLEAN, next : Nat]
  /\ DOMAIN disk = 1 .. DiskSize
  /\ pc \in {"off", "idle", "data", "table", "super", "home", "formatSuper",
            "formatTable"}

\* As long as no fault has left the superblock behind the table or the table
\* behind memory: no entry on disk holds parts of two names, no two have one
\* name, and the files have sectors of their own, except those that a file
\* has grown into (kdiskfs.c:121 lets it keep its first sector); and memory
\* has the next free sector behind all the others.
FilesApart ==
  ~stale =>
    /\ \A e \in InUse(tab) : PathOf(tab[e]) \in Raw
    /\ \A e, f \in InUse(tab) :
         e # f => /\ PathOf(tab[e]) # PathOf(tab[f])
                  /\ Extent(tab[e].meta) \cap Extent(tab[f].meta) \subseteq overrun
    /\ pc = "idle" => \A e \in InUse(entry) : \A s \in Extent(entry[e].meta) \ overrun : s < next

\* The file r has a sector in t that some file has grown into.
Overrun(t, r) == \E e \in InUse(t) : PathOf(t[e]) = r /\ Extent(t[e].meta) \cap overrun # {}

Holds(v, r) ==
  /\ Exists(v, Clean[r])
  /\ Content(v, Clean[r]) = saved[r].data

\* Under the same condition, whenever the power goes, in the middle of
\* saving, deleting or formatting, and whichever write of data or superblock
\* failed before, the next mount finds every other file that was reported
\* saved, and was kept and not run over, with its content, unless an entry of
\* another spelling is mounted over it; and the table has no entry of a spelling
\* that was reported deleted.
Durable ==
  ~stale =>
    \A r \in Raw \ unkept :
      /\ saved[r].state = "kept" => Overrun(tab, r) \/ Superseded(tab, r) \/ Holds(Mounted, r)
      /\ saved[r].state = "none" => \A e \in InUse(tab) : PathOf(tab[e]) # r

\* ... and between commands the tree in memory shows, of these files, what
\* the disk will bring back, unless a command or the mount has changed the same
\* node under another spelling since: "cat" and the next boot agree.
TreeAgrees ==
  ~stale /\ pc = "idle" =>
    \A r \in Raw \ (unkept \cup hidden) :
      saved[r].state = "kept" => Overrun(entry, r) \/ Holds(vfs, r)

\* kernel.c:949 reports every "write" as written and persisted to disk: even
\* without a crash, the next boot finds what was reported.
Persistent ==
  faults = 0 /\ pc = "idle" =>
    \A r \in Raw : saved[r].state = "kept" => Holds(Mounted, r)
=============================================================================
