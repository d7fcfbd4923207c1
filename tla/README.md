# Verification of sys-in-c

TLA+ models, TLC runs and TLAPS proofs kept beside the C sources of this
repository.  `PROJECT.json` lists the components, the runs, the mutants that
show each property has teeth, the source lines of every definition, the hazards
of the code and the theorems.

Contents: [the system](#the-system) · [what is modelled](#what-is-modelled) ·
[the runs](#the-runs) · [the proofs](#the-proofs) ·
[where code and documents disagree](#where-the-code-and-its-documents-disagree) ·
[the plan](#the-plan) · [not modelled](#not-modelled)

## The system

The repository is three systems that share authors and habits, not a process:

1. **A freestanding kernel kit** (`freestanding/`) and **a small operating
   system built on it** (`test_os/`): one 32-bit core, no scheduler.  A main
   loop polls; interrupt handlers run to completion and do most of the work,
   shell commands and disk writes included.
2. **A telemetry segment** (`src/libutilipc/`): a file mapped by every tool,
   guarded by a mutex that lives in the file.
3. **Some eighty Unix command line tools** (`low-utils/`, `src/`,
   `heavy_utils/`), each its own process, most of them sequential; they meet in
   the file system, on the network, and in the segment.

### Components, their state and what makes them correct

| component | state | hard because | correct when |
|---|---|---|---|
| `kringbuf` | buffer, head, tail, count | the two sides run between each other's stores | it is a FIFO; no access leaves the buffer |
| `kmem` | block list laid out in the heap | several locked sections per call, cores in between | blocks tile the heap, allocations never overlap, none is lost |
| `kvfs` | node table, heap buffers | a table and a heap that both fill up | paths unique, every buffer has one owner |
| `kdiskfs`, `kata` | table in memory; table, superblock, data on disk | power goes between two sectors, a write fails | a reboot finds what was saved |
| `ksound` | port bit, flag, deadline | the loop and handlers both call it | every tone ends |
| `test_os` desktop | mode, screen, notification, mouse, clock | handlers cut in anywhere in the loop | the screen is the mode's, a press acts once |
| `test_os` terminal, shell, editor | canvas, screen, line, tree, users | text shown late ("batch mode"), scrolling, wrapping | Enter runs what is seen |
| `test_os` games, calculator | board, direction, numbers | keys between two reads | rules of the game, arithmetic |
| kit library | spinlock, lists, clock, double buffer, pure functions | several processors, a clock that carries, boundaries | each does what it says |
| `libutilipc` | file, mutex, logs, process table | processes die anywhere and pids come back | logs keep the latest entries, a live process keeps its slot |
| `cp` `mv` `ln` `org` `rmd` `krypt` | names, inodes, open files | two commands at once, kills, full devices | nothing is lost that was not asked to go; OK means done |
| `krypt` vault, `zpack` | archive, temporary file | trees that change, entries that cannot be read or made | what went in comes out |
| `simplehost`, `netclip`, `dnsserver` | connections, partial files, a cache | peers that stop, answer late, overlap | what is acknowledged is whole, answers are fresh |
| `ping` `httpget` `rawcat` `sntp` `dnsquery` `portcheck` `netscan` `iotscan` | one request, a table of answers, worker threads | pieces, losses, repeats, wraps | reports are what happened |
| `lsh`, `jail`, `ptrace`, `ltop` | children, pipes, signals, tables | fork, wait and signal order | every child is reaped, limits hold, stops pair up |
| `pythont` | lexer with a stack of indents, call stack of the parser, node table, stack of braces | one line closes several blocks; failures at any token | blocks are Python's; C comes out |
| `tedit`, `sysbox`, `calc` | text, undo ring, selection, stacks | any keys in any order; a server thread | what is shown is what is kept and run |
| `chip8` | memory, registers, stack, timers, screen | carries, flags, bounds, timers | programs compute what they say |
| `b64`, `qrcli`, `snc`, `hashcalc`, `fdup` | none, or a list of files and threads | boundaries, pieces | the function is what it says |

The remaining tools are listings, dashboards, formatters and measurements;
`PROJECT.json` names every one with the reason it is not modelled.

### How they interact

* Keyboard, mouse and timer handlers of `test_os/idt.c` and `ps2.c` change the
  state the main loop of `kernel.c` reads (mode, ticks, button, the snake's
  direction), and run shell commands, which call `kvfs`, then `kdiskfs`, which
  calls `kata`.
* `kernel.c` calls `ksound` from the loop and from handlers.
* `kmem` takes its lock through hooks (`kspinlock`); nothing else in the kit locks.
* Every tool calls `libutilipc`; `ipcmon` and `sysbox` only read it.
* `krypt -s` runs `rmd`; `lsh` and `sysbox` run everything.

## What is modelled

| module | component | kind |
|---|---|---|
| `ByteFifo` | promise of `kringbuf` | abstract specification |
| `KRingBuf` | `freestanding/kringbuf.c` | one step per store; refines `ByteFifo` |
| `KMem`, `MCKMem` | `freestanding/kmem.c` | one step per locked section |
| `KVfs` | `freestanding/kvfs.c` | calls as operators, and `VfsSpec` of the calls alone |
| `KDiskFs`, `MCKDiskFs` | `kdiskfs.c` over `KVfs`, driven by the shell of `kernel.c` | one step per sector; power cuts, failed writes |
| `Desktop` | main loop, handlers, `ksound.c` | one step per store of the loop, handlers whole |
| `UtilIpc` | `src/libutilipc/utilipc.c` | one step per lock, store group and unlock; death and pid reuse |
| `FileTools`, `MCFileTools` | `cp`, `mv`, `ln`, `org`, `rmd`, `krypt -e` | one step per system call |
| `PySource`, `PyBlocks`, `PyLegacy`, `PythonT` | `src/pythont/pythont.c` | the source and Python's view of it; lexer and parser, one step per token; the older backend, one step per line; both with the fall back |
| `DnsServer` | `heavy_utils/dnsserver.c` | one step per query, answer, second |
| `Netclip` | `src/netclip` | one step per read and write of listener and senders |
| `SimpleHost` | `src/simplehost` | one step per piece, flush and cut of each thread |
| `Clients` | `netscan`, `portcheck`, `iotscan`, netclip's discovery, `ping`, `httpget`, `rawcat`, `sntp`, `dnsquery` | threads and answers in any order; one step per packet or piece |
| `Network` | | one of the four above |
| `Lsh` | `low-utils/lsh.c` | one step per fork, pipe call, wait; one step per key |
| `Jail`, `Tracer`, `Ltop` | `low-utils/jail.c`, `ptrace.c`, `ltop.c` | one step per system call, stop, key |
| `Processes` | | the shell, its editor, or one of the three above |
| `TEdit`, `SysBox` | `src/tedit`, `src/sysbox` | one step per key, write, page |
| `Calc`, `Chip8` | `src/calc`, `src/chip8` | evaluator as operators, keys as steps; one step per cycle |
| `ZPack`, `Vault` | `src/zpack`, `src/krypt` | formats as operators, walk and extraction as steps |
| `Codecs` | `b64`, `qrcli`, `snc`; `hashcalc`, `fdup` | algorithms against reference definitions; fdup's threads as steps |
| `KShell`, `KPlay` | terminal, shell, editor; snake, calculator of `test_os/kernel.c` | one step per key, read, draw |
| `KLib` | `kspinlock`, `klist`, `kdiv64`, `kstring`, `kprintf`, `krtc`, `kgfx`, `kbmp`, `kfixed` | algorithms against references; lock, clock and buffers as steps |
| `Programs`, `MCPrograms` | | one of the last ten |
| `KRingBufProofs`, `KMemProofs`, `KDiskFsProofs`, `DesktopProofs`, `UtilIpcProofs`, `NetworkProofs`, `ProcessesProofs`, `ProgramsProofs` | the module each is named after (`KDiskFsProofs`: also `KVfs`; `ProgramsProofs`: its `TEdit`, `KShell`, `SysBox`) | proofs |

Programs that share no state are explored by one run: `Network`, `Processes` and
`Programs` pick one of their programs in the initial state and leave the
variables of the others "off", so that their state spaces add up instead of
multiplying.

**KRingBuf.** Variables are the fields of `kringbuf_t` and, for each side, a
program counter, an argument and a register.  Constants say what the machine
guarantees: `Smp` (two cores), `RmwAtomic` (`count++` is one instruction),
`InitMasked` (no push during `kringbuf_init`).  The refinement mapping reads the
queue out of the buffer from `tail`, one slot earlier while a pop has moved
`tail` but not yet `count`.

**KMem.** `blk` maps the address of each header to its four fields; addresses
are in words.  What is between `lock` and `unlock` is one action;
`kmalloc_aligned` takes the lock twice (`AlignedMalloc`, `AlignedBack`),
`krealloc` up to three times (`ReallocBegin`, `ReallocMalloc`, `ReallocFree`).
`live` records what the callers own: pointer, size asked for, and the block that
`kfree` would find through `ptr[-1]`.  The `next` of an added region is anything,
as the code leaves it; `fault` records that the code has gone through it: a walk
that followed it, a split that wrote to the block it names (`kmem.c:149`), a release
that asked whether that block is free (`kmem.c:209-212`).  The heap after such a step
is not the model's, and nothing is claimed of it.

**KVfs, KDiskFs.** `vfs` is the node table and the live buffers.  A call of
`kvfs.c` is an operator from one such record to the next; `VfsSpec` takes them
in any order, `KDiskFs` as the shell does.  A shell command changes the tree,
then `pc` walks the data sectors, the table sectors and the superblock.  `Layout` says
in which sector of the table an entry's path begins and ends and where its other
fields are, in the order of the struct; what lies above `TableSectors`, four in the
code, is neither written nor read.  `stale` notes that a fault has left the
superblock behind the table: without its magic number, or with sectors of a file
among the free ones.  A fault is a
power cut between any two sectors, after which `Boot` mounts what is there, or a
sector write that gives up and that only the superblock write of a format
notices.  A path is typed in any of the spellings in `Raw`; `resolve_path` hands
`/docs` and `/docs/` to both layers as they are, the tree knows both by what `Clean`
(`sanitize_path`) makes of them, and the table has an entry for each.  `hidden` holds
the spellings whose node another spelling has changed last, `Superseded` says that
the next mount will lay an entry of another spelling over this one's.

**Desktop.** `pc` is the place in the loop; between two of its steps any handler
may run whole, because the gates are interrupt gates.  `screen` is the mode whose
screen was drawn last.  Ticks are modulo `WordSize`.

**UtilIpc.** `holder` and `shared` are the mutex, `Gone` a holder that died.  A
zero-filled mutex that a process locks before its creator initialised it is
process-private, so a waiter on it is never woken (`SleepPrivate`).  `raced`
records that this start-up race happened.

**FileTools.** A name is a device, a base name and a suffix (`~`, `.kr`, the
hidden name of `rmd`); an inode has its device and its pieces; `proc[p]` is the
program counter and the locals of a command.  Every action is one system call
with the C code up to the next one; open files keep their inodes alive, so a
file that was unlinked or replaced while another command reads it is still read.
Writes fail when the device is full.

**PySource, PyBlocks, PyLegacy, PythonT.** A line of Python is its column, its
form and whether a newline ends it; an expression is one token.  The file is made
up line by line as it is read, and the older backend reads the same lines again.
`PySource` says for any such file which header's suite a statement belongs to and
which `if` an `else` continues.  `lexer` is the lexer's record, `frames` the call
stack of the recursive parser (one `Frame` per call, with the tokens it still
wants), `tree` what was linked where, `null` a NULL on its way up.  Of the C that
the older backend writes, `open` keeps the headers with an open brace in each of
its two buffers, `written` where each statement went.  Translation fails, in either backend, as the
code does: no input, a logical line longer than `accum` (`pythont.c:3249-3262`; an
open bracket joins lines until it is), C that does not fit.

**DnsServer, Netclip, SimpleHost.** One record each (`dns`, `clip`, `host`) holds
the server and its peers.  The upstream answer carries its question and its time,
so a stale or a foreign answer is seen.  A connection of netclip is a stream of
numbered blocks that holds `ClipBuffer` of them; a write that waits longer than
its timeout leaves a hole, since nobody looks at its result.  A file of simplehost
is a sequence of blocks marked with their upload; stdio holds back up to `StdioBuf`
and writes them at `fclose`, behind the `ftruncate` if the trailer was among them.

**Clients.** `scan` and `cli` are one program each: threads of netscan with
their strides, the ports of a list, a window of answers that repeat and get lost;
a request with its retries, hops, pieces and clock.  How a stream falls into pieces
is any cut.  `ping` opens a raw socket where it may and then hears replies to other
processes; a redirect of `httpget` to https goes to port 443 and so to curl; a port
of a list above 65535 is left out; `sntp` subtracts its delta in 64 bits.

**Lsh.** `lsh` holds the shell, its children and the pipes with their open
ends; a child is a writer, a filter or neither.  Pipes hold `PipeSize` blocks, forks
and pipes fail.  `log` records what each command of a list returned.  The editor is a
buffer, a cursor, a place in the history and the line it put aside; `all` remembers
every command, to compare the history with.

**Jail, Tracer, Ltop.** The parent with its alarm and the child with its filter,
every group of system calls tried; the tracee's stops (entry, exit, signal, exec,
exit) against the flag of the loop, with `truth` and `returned` counting the calls
that returned; a table collected before each key while
processes come and go.

**TEdit, SysBox.** `ed` is text, cursor, window, undo ring, file, and the web
thread, which asks for the length of the file and reads it in two steps.  What
`memmove` does with a length below zero, or `prompt_replace` with more than the two
lines that `temp_line` holds, is not followed: the editor is "lost" then.  `box` is
tab, item, offset and the terminal's state around each tool it starts.

**Calc, Chip8, ZPack, Vault, Codecs.** A value of calc is the term it was
computed from, so that reading a printed term must give it back.  The widths of
zpack's format, the size of a hash block, the register of a CRC are parameters;
small ones make every boundary occur, and `over` notes a text whose packed form is
larger than the buffer for it.  What `b64` decodes is printed up to its first zero
byte, and compared so; the format of a QR code is written as `qrcli.c:262-276` writes
it, rows and columns exchanged.  ChaCha20's blocks are numbers that depend on
key, nonce and counter; SHA-256's block transformation is uninterpreted: a digest
is the sequence of blocks transformed.  A cell of krypt's archive is a number,
so a header read in the wrong place is read as what lies there.

**KShell, KPlay, KLib.** The canvas in memory and the screen are kept apart, so
text that was not flushed is seen as missing.  `/etc/passwd` is a text of entries
and ends of lines: `adduser` appends to it as it stands, cuts an entry that is longer
than its buffer (`ShLong`) and the text at `PasswdMax`; `su` looks for the entry at the
start of a line (`Entered`); `write` puts a text without an end of line there, and the
tree may refuse any change (`room`).  Words hold no colon, and fewer than the 31
characters that `adduser` and `su` keep of them.  The snake's move is one step per
read, with keys in between.  In `KLib` what only computes takes one step on an
input chosen at the start and is compared with a definition of what it should
be; the lock, the double buffer with its list of changed areas, and the clock
of the CMOS are steps of several actors.

## The runs

| run | question | properties |
|---|---|---|
| `ringbuf_isr` | with atomic `count` and masked init, is it a FIFO, store by store? | `RingInv`, `FifoRefinement` |
| `ringbuf_races` | with none of that guaranteed, does an access leave the buffer? | `AccessInBounds` |
| `kmem` | two cores that allocate, align, resize and free, in one region or while one is added | `HeapSound` (linked both ways, tiled, merged, disjoint, sizes add up), `NothingLost` |
| `kfs` | commands, power cuts, failed writes and mounts | `TypeOK` (the tree is sound), `FilesApart`, `Durable`, `TreeAgrees` |
| `kfs_lost` | is what is reported as persisted found after a reboot? | `Persistent`: **no**, not for entries past the fourth sector |
| `desktop` | handlers between any two steps of the loop | `ScreenSound`, `OneActPerPress`, `EverythingEnds` (tones and the notification) |
| `ipc` | the calls of the segment, with deaths and pid reuse | `MutualExclusion`, `SharedAgrees` (rings and snapshots), `LiveKeepsSlot`, `CallsReturn` |
| `filetools` | two commands at once, killed, devices full | `Recoverable`, `ReportsTrue` (OK means done, what rmd gives back is blank) |
| `pythont` | sources of up to five lines in both backends | `TreeSound`, `BracesAsIndentedElsewhere`, `Finishes` |
| `processes` | lists, pipelines, keys, confined and traced commands, a table of processes | `LshListRuns`, `NoneLeft`, `JailConfined`, `TraceAgrees`, `TablesAgree`, `Returns` |
| `network` | servers and clients over connections that stall, lose, repeat and break | `DnsAnswers`, `AckMeansWhole`, `HostServes`, `NetToolsAgree`, `NetReturns` |
| `programs` | interactive programs under any keys, algorithms on bounded inputs | `EditorKeeps`, `MenuShows`, `RoundTrips`, `Computes`, `ShellShows`, `PlayAgrees`, `LibraryAgrees`, `ProgramsEnd` |

All but `kfs_lost` pass.  A property of one of the composed modules is a
conjunction of the properties of its programs; each program's module states its
own, with a comment.

### Bounds, and why they are enough

* **ringbuf**: capacity 3 (races: 2), two byte values, runs unbounded: every
  fill level, wrap and place of the other side occurs.  The proofs are for every
  capacity.
* **kmem**: one of three set-ups, picked at the start and named in `MCKMem`:
  `Splitting` and `Resizing` in a heap of 40 words, `Growing` in two regions of
  26 and 20.  The sizes give exact fits and splits with and without a remainder
  of the minimum size, the alignments a gap and none; with up to four
  allocations a block with free neighbours on both sides is freed.
* **kfs**: two entries (`kfs_lost`: three), one with its path across two sectors and
  one with its path in one and the rest in the next, six data sectors, three saves
  and one fault; three saves are what it takes to save, delete and reuse an entry.
  Three spellings of two paths: `/etc/passwd`, a home directory and the same with a
  slash at its end, so that one node has one entry, two, or another's.
  The disk has room for two sectors a save (`DiskAssumption`): a full disk is left
  out, `kdiskfs.c` does not know the disk's size.
* **desktop**: `WordSize` 4, so that ticks wrap; three inputs, which is what a
  mode change, a press and a key in between need.  The loop takes at least one
  pass per tick: a pass that takes longer than a tick is left out.
* **ipc**: two processes, two slots, history of two, and one of four mixes of
  calls, picked at the start and named in `UtilIpc`: with two calls per pid the
  rings wrap, with three a pid comes back while its old slot is still taken.
  Calls of two mixes share nothing but the mutex.
* **filetools**: two processes, three files of two pieces, one name free to be
  shared between commands, two devices that can fill up: `here` has room for one
  more copy, `there` for one piece besides the file on it.  Two pieces are the
  least in which a copy can be cut in the middle.
* **pythont**: one of eight kinds of source, picked at the start and named in
  `PythonT`, of up to five lines and four columns.  Five lines are an `if` in a
  block with its `else`, or two suites that one line leaves with a statement on
  either side.  `MAX_INDENTS` is 2 in one kind and `AST_MAX_NODES` 9 in another, so
  that both overflow.
* **processes**: three lines typed out of five, pipelines of up to three stages
  whose two blocks do not fit into a pipe of one, an alias table of two for three
  names; history of two and three commands, so it scrolls; two calls of a
  confined command in each of four sets of capabilities; three calls of a
  tracee with a table of one; three processes with two rows and pages of two.
* **network**: a cache of two for six questions, four seconds with a life of one;
  two senders of three blocks through a connection of two; two connections to
  simplehost with blocks of two and every kind of range; seven hosts for three
  threads, which do not divide them; two replies of three kept; two redirects of
  an answer of four blocks, of which three fit; clocks before and after 2036, when
  the seconds start again; ports on both sides of 65535.
* **programs**: texts of up to three lines and four keys with an undo ring of two;
  menus longer and shorter than the window; terms up to depth three in seven
  operators, over stacks of five; all binary texts up to eight symbols and nine
  longer ones over halves of 3 and length bytes of 2; 36 pairs of operands of the
  emulator, call depths on both sides of the stack; QR versions 1 and 2 at real
  size; eight keys in a terminal of two rows and four columns; five moves on a
  grid of 4 by 3; four keys of the calculator; three processors at the lock; numbers
  of five bits; four changed areas for a list of two.  `MCPrograms` lists the inputs.

### Fairness

* `Desktop`: weak fairness of the loop (`hlt` ends with the next interrupt and
  the timer never stops) and of the tick.  None on inputs.
* `UtilIpc`: weak fairness of each process's own steps inside a call, as the
  operating system schedules it; none on making calls, dying or starting.
* `PythonT`: weak fairness of the whole program, which is sequential and reads a
  file that ends.
* `Processes`: weak fairness of the shell outside its prompt and of its
  children, of jail's parent and of the alarm, of the tracer and its tracee.
  None on what a confined command does: it may never end.
* `Network`: weak fairness of netclip's listener and of each sender's steps (the
  kernel ends a write after its timeout), of each thread of simplehost, and of
  the clients, whose waits have timeouts; rawcat has none, so its peer is fair too.
  `ping` is left out of `CliLeaves`: see below.
* `Programs`: weak fairness of the editor's writes, its server thread and its
  end, of the emulator's cycles, of fdup's threads; strong fairness of the
  emulator's timer, since whether a sixtieth of a second has passed is looked at
  between two bursts, again and again.
* The other specifications state safety only.

### Reading the properties

Several properties name the case in which the code does not do it, by a history
variable or a predicate over what the code did, so the property says exactly
where the promise stops: `EverythingEnds` (`clash`: a handler beeps while
`ksound_update` is stopping the last tone; or the deadline wraps to 0, which means
none), `ScreenSound` (`strayed`), `OneActPerPress` (`left`), `FilesApart` and
`Durable` (`overrun`, `stale`; `Superseded`: a later entry for the same node),
`TreeAgrees` (those and `hidden`), `HeapSound` and `NothingLost` (`fault`), everything of
`UtilIpc` (`raced`), `Recoverable` (`CutShort`: a full device; `Contested`: two
commands meet at one name), `TreeSound` (`AfterCarriageReturn`, `InnerFunction`; with
a full node table statements may be missing, none misplaced),
`BracesAsIndentedElsewhere` (`Misread`), `Finishes` (with C or with an error it
reports: it is not claimed that every source is translated), `LshListRuns` (after a fork that failed),
`TablesAgree` (ltop after PgDn in an empty table), `AckMeansWhole` (no memory),
`HostServes` (two uploads of one name, ranges before the file), `NetToolsAgree`
(httpget's header in two pieces; `stray`: a reply to ping that is not to a request of
its own; `NtpWrapped`: the time after 2036), `EditorKeeps` (after a replacement the column),
`MenuShows` (a tool that left the terminal raw), `RoundTrips` (entries that break the
format; texts that overrun zpack's buffer, which `OverrunIsLarge` says are large; what
`b64` decodes behind a zero byte; two bits of a QR code, and its format, which is
there with rows and columns exchanged), `ShellShows` (`batch` after `view`, a line that
wrapped; users whose entry does not begin a line or does not fit), `PlayAgrees` (the cell just grown, the pointer on the display),
`LibraryAgrees` (`held`, `blind`: the clock was updated while it was read).

## The proofs

Each row holds for every value of the constants that its assumptions admit.

| theorem | statement | beyond the runs |
|---|---|---|
| `KRingBufProofs!AccessSafety` | `Spec => [](TypeOK /\ AccessInBounds)` | every capacity and machine |
| `KRingBufProofs!RingSound` | `RmwAtomic /\ InitMasked => (Spec => []RingInv)` | every capacity |
| `KRingBufProofs!ImplementsFifo` | `RmwAtomic /\ InitMasked => (Spec => FifoRefinement)` | every capacity |
| `KDiskFsProofs!VfsSafe` | `VfsSpec => []VfsSound` | every table, heap, set of paths and contents |
| `KDiskFsProofs!DiskTypes` | `Spec => []TypeOK` | every table, disk and layout, any number of saves, cuts and failed writes |
| `KDiskFsProofs!DiskFilesApart` | `Spec => []FilesApart` | the same |
| `KDiskFsProofs!DiskDurable` | `RoomToMount => (Spec => []Durable)` | the same, and any paths in any spellings |
| `KDiskFsProofs!DiskTreeAgrees` | `RoomToMount => (Spec => []TreeAgrees)` | the same |
| `KMemProofs!HeapStaysSound` | `OneHeap => (Spec => []HeapSound)` | every pool, any mix of sizes and alignments, any number of cores |
| `KMemProofs!HeapLosesNothing` | `OneHeap => (Spec => [](NoLeak /\ NothingLost))` | the same |
| `DesktopProofs!DesktopScreen` | `Spec => []ScreenSound` | every word size, any number of inputs |
| `DesktopProofs!DesktopOneAct` | `Spec => []OneActPerPress` | the same |
| `UtilIpcProofs!IpcMutualExclusion` | `Spec => []MutualExclusion` | any number of processes, deaths and pids that come back |
| `UtilIpcProofs!IpcSharedAgrees` | `Spec => []SharedAgrees` | every size of the rings and the table |
| `UtilIpcProofs!IpcLiveKeepsSlot` | `Spec => []LiveKeepsSlot` | the same |
| `NetworkProofs!DnsAnswersRight` | `Spec => []DnsAnswers` | every cache size, lifetime and set of questions |
| `NetworkProofs!ClipAckMeansWhole` | `Spec => []AckMeansWhole` | any number of senders and blocks, any room in a connection |
| `NetworkProofs!HostServesWell` | `Spec => []HostServes` | any number of connections, any upload, any ranges |
| `ProcessesProofs!ListRuns` | `Spec => []LshListRuns` | any lines, pipelines of any length, any pipe size |
| `ProcessesProofs!NothingLeft` | `Spec => []NoneLeft` | the same; any capabilities and any number of calls |
| `ProcessesProofs!JailConfines` | `Spec => []JailConfined` | any grants, any number of calls |
| `ProcessesProofs!TracerCountsRight` | `Spec => []TraceAgrees` | any set of system calls, any table size |
| `ProcessesProofs!TablesKept` | `Spec => []TablesAgree` | every size of line, history, alias table, screen and page |
| `ProgramsProofs!EditorWorks` | `EdSpec => []EditorKeeps` | every size of text, line, ring and window; any files, terms and number of keys |
| `ProgramsProofs!ShellWorks` | `ShSpec => []ShellShows` | every size of terminal and file of users; any words, tree and number of keys |
| `ProgramsProofs!MenuWorks` | `BoxSpec => []MenuShows` | any tabs, entries, descriptions and sizes of the window |

The assumptions are the named ones of the constants (`CapacityAssumption`,
`ByteAssumption`, `MachineAssumption`, `VfsSizes`, `VfsNames`, `VfsBuiltin`,
`DiskAssumption`, `ShapeAssumption`, `DesktopAssumption`, `SizeAssumption`,
`ProcAssumption`, `BoundAssumption`, `MixAssumption`, `DnsAssumption`,
`ClipAssumption`, `HostAssumption`, `LshAssumption`, `EdAssumption`,
`TracerAssumption`, `LtopAssumption`, `EdRoomForIndent`, `EdSizes`, `EdTextsFit`,
`ShWords`, `ShSizes`, `ShFiles`, `BoxMenus`, `BoxSizes`); the runs evaluate them.
`EdSpec` is what the run of `Programs` does with `ed`, `ShSpec` with `sh` and `BoxSpec`
with `box`: a program by itself, which no other touches.
Four theorems have hypotheses of their own besides the machine's.  `OneHeap` says
that a heap is one pool of a whole number of aligned words, no region is added, and
no caller resizes an aligned allocation.  That is how `test_os/kernel.c:1234` and
`freestanding/main_test.c:41` use it; the runs show where the code stops being
right with a region added (`Growing`, `fault`).  `RoomToMount` says that the files
a sync can write and the nodes of `kvfs_init` fit the tree together, with two
buffers of the heap for each file: in the code 25 entries and 39 nodes in
`KVFS_MAX_NODES`, 64, and a heap of 2 MB that a boot finds empty.  It is an exact
fit, so one more built-in file would be enough to lose one of the user's at a
mount.  `MountFits` in `MCKDiskFs` shows that the runs' constants satisfy it.

Every proof has the same shape: an inductive invariant, checked with TLC before it
was proved; a lemma per action, or one per part of the invariant that has a step per
action; and a theorem that reads the property off the invariant.

**AccessSafety.** `AccessInBounds` is not inductive: a producer past its check
writes `head` three steps later.  `RaceInv` adds that it still has room then, the
consumer a byte, and the same of a count that sits in a register.

**RingSound, ImplementsFifo.** `RingInv` adds how head, tail and count agree at each
pair of program counters.  `QueueLayout` says what the mapped queue is, `SameQueue`
that steps which leave its ends alone leave it alone, and `RefinementNext` maps
each step to a step of `ByteFifo` or a stutter: a push takes effect when `count`
is raised, a pop when `tail`'s byte is given up.

**VfsSafe.** `VfsSound` is already inductive: paths unique, counts right, every
buffer live and owned once, the rest of the heap free.  One lemma for each part
says what a change of one slot does to it; one lemma for each call uses them.

**DiskTypes, DiskFilesApart.** `DiskInv` is `BaseInv` and `ApartInv`.  `BaseInv`: where
each file lies on the disk against the saves made so far (`Laid`), so that a mount
reads inside the disk and `MountedSound` can follow its loop from entry to entry
with the lemmas of `VfsSafe`; that an entry the table's sectors do not reach is
never on disk (`OutOfReach`); what the command under way still has to do.
`FilesApart` speaks of the table on disk between any two sectors, when it is partly
the one in memory.  So `ApartInv` says it of both (`Apart`), that the two agree
between commands (`Synced`), and that during a sync only one entry differs: its
parts in the sectors already written are the new ones, and if the disk has it in
use at all it is under the new name (`HalfSynced`).  From that `NextHalf` and
`ApartSyncTable` show each mixture to be one table or the other as far as the
property can see.  `SaveApart` says the same of the sectors a save is writing before
its entry is filled in, and `Below` is what a mount gives the next save to go by.

**DiskDurable, DiskTreeAgrees.** `Durable` says what a mount of the disk would show,
at any moment.  `KeptInv` says what has to be on the disk for that: each file that was
reported saved has an entry there which describes its content, unless a failed
sync or another file's growth has spoiled it (`stale`, `overrun`); the sectors of
the command under way hold what it has written so far; and the entry it is about to
write is filled in.  `MountHolds` then follows `kdiskfs_mount`: after `e` entries the
tree has at most `e` nodes more than it began with and the heap lies in its first
`2e` buffers, so by `RoomToMount` no call of the mount is refused; an
entry keeps its node unless a later one is for the same path in another spelling
(`Superseded`).  `TreeInv` says the
same of the tree in memory, which a mount, a save and a delete change in step with
the table: a command on one spelling leaves what the tree shows of the others, except
of those it puts into `hidden`, and a refused call leaves the tree as it was.

**HeapStaysSound, HeapLosesNothing.** `HeapSound` speaks of the list only and a step
that frees or splits a block needs to know whose it is.  `HeapInv` adds where an
allocation lies in its block (`PlaceInv`), that two never share one, the blocks of
calls under way included (`ApartInv`), and that a block in use has an owner
(`OwnedInv`).  `krealloc` holds its old block between two locked sections, so the
invariant counts it among the owners there.  The pure lemmas say what splitting a
block and merging two neighbours do to a tiled list, once for all callers.
`NothingLost` is a sum over the blocks, a fold that takes them in any order: in a
tiled pool what it has left to add is the words of the blocks not yet taken,
whichever it takes next.

**DesktopScreen, DesktopOneAct.** A handler may cut in anywhere, so
`ScreenInv` says at which two steps the screen may lag behind the mode, and
`ActInv` that a press that has acted is known to the loop or on its way to the step
that notes it (`Owed`); `LoopInv` says which step follows a beep.

**IpcMutualExclusion, IpcSharedAgrees, IpcLiveKeepsSlot.** Proved together as
`IpcInv`, since each part needs the mutex and the mutex needs the boot: who may be
past a lock (`LockInv`), who may be before the initialisation (`BootInv`), and for
each structure what it looks like in the middle of a critical section
(`HistoryInv`, `CommInv`, `SnapInv`, `TableInv`).  A process that dies in one leaves
it for good as it stood, because nobody ever enters again.  Everything but the
types is claimed only as long as `raced` is false.

**DnsAnswersRight.** `CacheInv` says of each used entry that its answer is that of
its key and expires a lifetime after it was fetched, and that a key has one live
entry; `ForwardInv` that what is asked upstream is neither blocked, local nor in the
cache, still so when the answer arrives; `ReplyInv` says what the reply then is.

**ClipAckMeansWhole.** A write that times out leaves a hole in the stream, and OK
comes back much later.  `ClipInv` says that the numbers of the blocks only rise in
the connection, in what the listener has read and where one meets the other
(`StreamOk`, `ReadOk`); that a stream whose header was not read yet starts with it
(`HeadFirst`); and what an OK on its way back means (`AnswerOk`).  A listener that
read as many rising blocks as the header announced has read all of them.

**HostServesWell.** An upload goes through stdio: blocks wait in `buf`, the file ends
before them, and the boundary is cut off a file that `fclose` has yet to write the
rest of.  `HostInv` says of every connection that nobody has disturbed what the file
is to it: so far the written blocks (`Uploaded`), trimmed but for what is still held
back (`Trimmed`), stored (`Kept`), or the range announced and as much of it as was
sent (`Announced`).  `OneMoves` and `OneWrites` do the other connections' share: a
write ends their claim (`alone`), anything else leaves it.

**ListRuns, NothingLeft, JailConfines, TracerCountsRight, TablesKept.** `ProcInv` has one part for
each program, and a step of one leaves the others' alone.  `JailInv`: the child's
state against the parent's program counter, so that an alarm that fired found the
child ended; the filter is its opening, a rule for each granted group, and the
refusal, its jumps only go forward, so the run of the interpreter exists, and a call
it allowed has matched a rule.  `LshInv`: `LineGood` relates the last status and the decision about
the next command to the log, with `StatusAppend` saying what one more entry does
to POSIX's status; `KidGood` bounds the children that are left by the waits that are
left, which is what empties the set when the loop ends, forks that failed
included.  `TracerInv`: the flag at each stop before and after the loop has looked
at it, and each count short by the stop not yet looked at.  `LtopInv`: the selection
is not negative even before the table is collected.  `EdInv`: not only the line but
the line put aside and every remembered command fit the buffer, because Up and Down
copy them into it, and the history is the newest commands (`NewestGrows`).

**EditorWorks.** `EditorKeeps` says of an undo that it gave back what the user saw
last; what the ring will give back later it does not say.  `EdInv` adds that every
state in the ring is a text of the right size with the cursor in it (`RingKept`),
and that walking back through the ring is walking back through the past
(`Remembered`): some `d` counts, for each state kept, how much of the past lies
before it, and falls by one exactly where two neighbouring states differ.  A save
shifts every state one place back and may overwrite the oldest (`SlotsMove`,
`RingGrows`); an undo takes the newest out (`RingShrinks`), and an edit that changes
nothing, as a refused join does, leaves two equal neighbours.  `Filed` carries the
file through a save that the server reads in the middle of, and `Served` the length
that was announced.  One lemma for each key says that it leaves `Kept`; that a
replaced line fits is an induction over the place scanned, by the least place
where it would fail (`ReplacedIs`).

**ShellWorks.** `ShInv` says of every state of the terminal that the screen is the
canvas unless batch mode holds it back (`Shown`); that the words of a line that has
not left its row stand in the canvas before the cursor (`Echoed`), so that a Backspace
finds them there; that another mode has no line (`LineIdle`), which is why a terminal
begun anew shows none; and that whom `adduser` gave a line of their own is still
at the start of a line of `/etc/passwd` or the file is full (`Users`): what is added
behind moves nothing (`StaysEntered`), and another command that writes the file
ends the claim.  `Printed` is what any text does to the terminal; it holds of one
character, and `KprintfPrints` carries it over a text by the least prefix for which it
would fail.

**MenuWorks.** `BoxInv` says that the selection is an entry of the tab, that a tab which
fits is not scrolled (`InTab`), that the window holds the selection while a key is
awaited (`InView`), and what the menu remembers of the terminal (`RawForMenu`).
`RowsShow` reads off the first three that the selected entry has a row, whichever rows
the arrows take.  Of the description, `PlacedIs` says what one more word does: while a
line is left the lines hold all words so far (`WordsSoFar`), and the column is that of
the last of them (`LaidOut`); `WrapTextIs` carries it over the words as above.

**Only model-checked:** `Recoverable` and `ReportsTrue` of the file tools, whose names,
inodes and streams would need an invariant of their own; `NetToolsAgree`, as the name
in a DNS reply is read by a recursion; `RoundTrips`, `Computes`, `PlayAgrees`,
`LibraryAgrees`, `TreeSound` and `BracesAsIndentedElsewhere`, which say what a recursive
evaluator, coder or parser computes; and every liveness property, as the proof system
has no liveness under fairness here.

## Where the code and its documents disagree

Shown by a run:

* `kdiskfs.c:85` — a table of 2560 bytes is written as four sectors: an entry
  beyond them is reported saved and is gone after a reboot (`kfs_lost`).

Met while modelling; the models do what the code does, and the properties name
the case or leave it out.

*The kernel and its kit*

* `kringbuf`: "lock-free" (`freestanding/docs/ringbuf_doc.txt`) holds on one core
  only: across cores an update of `count` is lost, and a push during
  `kringbuf_init` sees half a descriptor.  No access leaves the buffer.
* `kmem.c:236`: `krealloc` compares the new size with a block size that counts
  the back pointer too: the caller may write one word, after `kmalloc_aligned`
  the whole gap, over the next header.  `kmem.c:123`: `kmem_add_region` leaves
  `next` of an appended region as the memory held it, and a walk, a split
  (`kmem.c:149`) or a release beside it goes through that pointer.  `kmem.c:209`: list
  neighbours in different regions are merged as if they touched.  A payload on 32
  bits is not 8-aligned, as its header is.
* `kdiskfs.c:121`: a file that grows keeps its first sector and overruns the
  next file (`overrun`).  `kdiskfs.c:92`: after a cut between table and superblock
  the next mount hands out sectors that a file owns (`stale`); so does a format
  whose superblock write failed.  `kdiskfs.c:137`: a failed write of data or
  table is reported as saved.  Two spellings of a path are two entries and one node:
  `cat` shows what was written last under either, a boot what the later entry has.
  `kernel.c:976`: `write /docs x; rm /docs/` removes the node, finds no entry, and says
  that the file is deleted from disk; the next boot has `/docs` again.
* `ksound.c:57`: a beep from a handler during `ksound_update` never ends;
  `ksound.c:52`: neither does one whose deadline wraps to 0.
* `kernel.c:638`: the editor's footer offers `^S` and Esc; `ps2.c` translates no
  Ctrl combination and Esc toggles the desktop, so `kernel.c:1116-1121` is dead
  and the text is lost.  `kernel.c:325-329`: the calculator's button lies under
  its key "/": one press does both.  `kernel.c:818-827`: `view` without a file
  leaves output off until another command has run.  `kernel.c:717`: `cd ..` from
  the third level goes to the first.  `help` gives the length of a beep in
  milliseconds; it is in ticks.  `mkdir /etc/passwd` leaves only root to log in;
  entries of `adduser` beyond 1023 bytes are cut, and files longer than 4095 by
  the editor.  `kernel.c:914` glues an entry to a text that does not end a line, as
  `write` leaves it (`kernel.c:946`) or an entry cut at 127 characters
  (`kernel.c:909`): the user is reported created (`kernel.c:924`) and cannot log in.
* Snake: two quick keys turn it into its own neck; a key between the two reads
  of its direction moves it diagonally.  Calculator: an operator after an
  operator drops the first; `r(Nwtn)` rounds where `r(Bit)` truncates, and its 15
  rounds are too few for large numbers.
* Kit: `krtc` shows noon and midnight wrong in 12 hours; `kprintf`'s `%02u` pads
  with blanks; `kgfx` drops a changed area when its list is full, and one that
  starts right of the screen gets a negative length; a filled rounded rectangle
  as wide as its corners sticks out by a point; eight rounds of `kfixed`'s root
  leave an error of some percent for the largest numbers.
* `freestanding/docs/vfs_doc.txt:16,20` names functions that do not exist.

*Segment and files*

* `utilipc.c:34`: the mutex is not robust; a process that dies in a critical
  section blocks all others for good.  `utilipc.c:69`: others may map the file
  before its creator has initialised it.
* `mv.c:128` unlinks the source of a move between devices however little was
  copied; `krypt.c:391` checks no write of the vault and `-s` shreds the original
  all the same, though its help says "apos criptografar com sucesso"
  (`krypt.c:572`).  `cp.c:369` prints OK after a short copy; only `-V` notices.
  `cp -f` unlinks the destination before it knows that the source opens;
  `ln -f` of a name to itself removes it; `mv -b -i` answered no has renamed the
  destination by then.
* `krypt.c:541`: a link, an unreadable or growing file, or a directory without
  write permission makes the unpacking misread what follows; the digest does
  not cover the nonce; passwords count up to their 64th character.
* `zpack`: `-x` returns 0 after a failed check and reports files it could not
  create; links are left out silently; a short read packs what the buffer held.
  `zpack.c:149`: the literals behind the last match are copied without a look at the
  room, so a file of more than some 520 KB that does not compress overruns the buffer.
* `fdup.c:305`: only copies of the first file of each size are grouped; a link
  counts as a duplicate of its target.

*pythont*

* Modern backend: a line that holds only a carriage return before an `elif` makes
  the `elif` an `if` of its own (`pythont.c:824` lets a statement start with it).
  A `def` in a block is left out of the C (`pythont.c:1326`), though a comment has
  unsupported constructs "fall back" (`pythont.c:3125-3126`).  When the node table
  is full the rest of the program is left out without a message
  (`pythont.c:930`).
* Older backend: it closes a block once more than it opened it before an `else`
  or `elif` that is itself in a block (`pythont.c:2347`; `docs/pythont_doc.txt:22`
  has indentation "mapped to C braces").  A `def` in a function ends the outer
  one's buffer early (`pythont.c:2337`); with `-e` every line has column 0, so a
  block is never closed where it ends (`pythont.c:3204`); a logical line of more than
  4095 characters ends the translation with an error (`pythont.c:3249`); a line indented by a tab
  loses its first three characters (`pythont.c:3223`).

*Processes*

* `lsh`: a failed fork or pipe leaves the last status as it was, so `a && b` may
  run `b`; a pipeline's status is that of the child reaped last; the history file
  is read from its oldest line and the newest beyond `MAX_HISTORY` are lost; Ctrl-C
  keeps the place in the history, and a line typed after it is lost by Down.
* `jail`: `wait4` is not retried after the alarm, so the killed command stays a
  zombie; 124 is also reported when it ended just before; without `-E` the command
  itself cannot be executed, though the help's example does so; `-f` and `-d` of the
  help are not parsed; open is allowed without `-W`.
* `ptrace` does not pass signals on; a tracee killed while stopped is not reaped.
  `ltop`: PgDn in an empty table selects line -1.

*Network*

* `netclip`'s sender prints success whatever the answer; its listener answers OK to
  a part of a payload and has no timeout.  `simplehost`: the trailer of an upload
  may come back behind the data; an upload cut short is answered 200; `bytes=-N` is
  announced too long and `0-0` sends everything; two uploads of one name mix.
* `httpget`: a header in two pieces is taken for the page; a piece that does not
  fit is skipped and a later one appended.  `ping` does not compare the
  sequence number or the id, and a request that cannot be sent is not counted, so
  without a route it never ends though its help has it send five
  (`ping.c:105,114`); on a raw socket (`ping.c:177`) it counts replies to others.
  `sntp.c:56` subtracts in 64 bits, so from 2036 on the time is some 1.8e19 seconds.
  `dnsserver` and `dnsquery` do not compare ids.

*Programs*

* `tedit`: a replacement leaves the cursor behind the shortened line; files longer
  than `MAX_LINES` lose the rest when they are saved; write errors are not looked
  at, and Ctrl-X leaves after a save that failed.  `sysbox`: a tool that leaves the
  terminal raw makes that the original; a window that grows while a tab is
  scrolled hides the selection.
* `calc`: a sign right behind an operator is misread (`2 * -3` is -3); a refused
  assignment changes `ans`.  `b64` decodes foreign letters without a word;
  its `-o` is not parsed, and what it decodes is printed up to the first zero byte
  (`b64.c:288`).  `qrcli.c:262-276` writes the format with rows and columns
  exchanged and over the dark module; `qrcli.c:227` reserves two modules too many, so two bits
  of a code have no place.  `chip8`: a subtraction from VF uses the new flag; a call
  on a full stack is skipped.
* Read but not modelled: `jsonview` mangles strings that hold `word:` or an
  apostrophe; `date` counts down to a day one off when one of the two years is a
  leap year; `idt.c:77` turns interrupts on before the disk is mounted.

## The plan

The models cover the components that keep state or compute something that could
be wrong.  What is left is to prove more of what the runs check:

1. `FileTools`: names stay on their devices, open inodes stay alive, and `ReportsTrue`
   from them.
2. `Chip8`'s stack and registers, and the snake of `KPlay`.

A model worth adding later: the recursive walks (`rmd -r`, `cp -r`) over a tree
that changes under them, and precedence in `pythont`'s expressions against
Python's.

## Not modelled

* **What keeps no state and only shows something**: listings (`ls`, `ps`, `stat`,
  `df`, `sysinfo`, `hwcaps`, ...), dashboards (`netinfo`, `cpuplot`, `pwr`,
  `ipcmon`), formatters (`xxd`, `jsonview`, `strutils`), tables (`magic`, `disasm`,
  `get-info`), walks that print (`tree`, `ffind`, `bigfiles`).  Their faults are in
  characters and columns, which these models abstract.
* **What measures**: `bench`, `diskbench`, `speedtest`; and `vsec`'s independent
  probes.
* **What draws or sounds**: `raycast3d`, `asciiray`, `matrix`, `bytebeat`, `imgview`;
  floating point and decoders of published formats.
* **One system call**: `mkdir`, `chmod`, `kill`, `syscall`, `env`, `which`,
  `watchcmd`.
* **Below the models**: the boot assembly and descriptor tables, port level timing
  of drive and clock, the block functions of published ciphers and hashes, the
  C library.
* **Parts of modelled components**: symbolic links and recursive walks of the file
  tools; quoting and expansion in `lsh`; expressions and types in `pythont`, whose
  translation is text to text; blending, glyphs and the serial port of `kgfx`.
  Each component's note in `PROJECT.json` says what it leaves out.
* **Copies**: the release of `pythont` 1.0, documents, examples, build files.

Integer widths are kept where they matter (ticks, heap sizes, the emulator,
sequence numbers, NTP seconds), left out elsewhere.
