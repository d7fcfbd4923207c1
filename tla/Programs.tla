------------------------------ MODULE Programs ------------------------------
(***************************************************************************)
(* The programs that work for one user: the editor, the menu, the          *)
(* calculator, the archiver, the emulator, the converters, the digests,    *)
(* the vault; and of the kernel the terminal with its shell, the game and  *)
(* the calculator, and the library.  They share no state: a behaviour is   *)
(* one of a single program, and the variables of the others stay "off".    *)
(***************************************************************************)
EXTENDS TEdit, SysBox, Calc, ZPack, Chip8, Codecs, KShell, KPlay, KLib, Vault

progvars == <<ed, box, calc, zp, cpu, codec, sh, play, lib, dg, kv>>

Program == {"tedit", "sysbox", "calc", "zpack", "chip8", "codec", "shell", "play", "library", "digest", "vault"}

Init ==
  \E p \in Program :
    /\ ed \in IF p = "tedit" THEN EdStarts ELSE {EdOff}
    /\ box \in IF p = "sysbox" THEN BoxStarts ELSE {BoxOff}
    /\ calc \in IF p = "calc" THEN CalcStarts ELSE {CalcOff}
    /\ zp \in IF p = "zpack" THEN ZpStarts ELSE {ZpOff}
    /\ cpu \in IF p = "chip8" THEN C8Starts ELSE {C8Off}
    /\ codec \in IF p = "codec" THEN B64Starts \cup QrStarts \cup SncStarts ELSE {CodecOff}
    /\ sh = IF p = "shell" THEN ShStart ELSE ShOff
    /\ play \in IF p = "play" THEN SnakeStarts \cup {KcStart} ELSE {PlayOff}
    /\ lib \in IF p = "library" THEN {LockStart, ListStart, PureStart, GfxStart, RtcStart} ELSE {LibOff}
    /\ dg \in IF p = "digest" THEN HashStarts \cup FdStarts ELSE {DgOff}
    /\ kv \in IF p = "vault" THEN KvStarts ELSE {KvOff}

Next ==
  \/ EdNext /\ UNCHANGED <<box, calc, zp, cpu, codec, sh, play, lib, dg, kv>>
  \/ BoxNext /\ UNCHANGED <<ed, calc, zp, cpu, codec, sh, play, lib, dg, kv>>
  \/ CalcNext /\ UNCHANGED <<ed, box, zp, cpu, codec, sh, play, lib, dg, kv>>
  \/ ZpNext /\ UNCHANGED <<ed, box, calc, cpu, codec, sh, play, lib, dg, kv>>
  \/ C8Next /\ UNCHANGED <<ed, box, calc, zp, codec, sh, play, lib, dg, kv>>
  \/ CodecNext /\ UNCHANGED <<ed, box, calc, zp, cpu, sh, play, lib, dg, kv>>
  \/ ShNext /\ UNCHANGED <<ed, box, calc, zp, cpu, codec, play, lib, dg, kv>>
  \/ PlayNext /\ UNCHANGED <<ed, box, calc, zp, cpu, codec, sh, lib, dg, kv>>
  \/ LibNext /\ UNCHANGED <<ed, box, calc, zp, cpu, codec, sh, play, dg, kv>>
  \/ DgNext /\ UNCHANGED <<ed, box, calc, zp, cpu, codec, sh, play, lib, kv>>
  \/ KvNext /\ UNCHANGED <<ed, box, calc, zp, cpu, codec, sh, play, lib, dg>>

Spec == Init /\ [][Next]_progvars /\ EdFair /\ C8Fair /\ DgFair

----------------------------------------------------------------------------
\* The user gets out: an editor told to leave leaves, even with a page being
\* served (the server's thread is joined); a program of the emulator that
\* waits for its delay timer comes past it; fdup collects all its threads.
ProgramsEnd == EdLeaves /\ DelayEnds /\ FdupEnds

\* What is packed, sealed, encoded or drawn as a code reads back as what it
\* was.
RoundTrips == ArchiveKeeps /\ VaultKeeps /\ CodecsAgree

\* The calculator's terms and the emulator's programs compute what they say,
\* digests are those of the text, and what is called a duplicate is one.
Computes == CalcAgrees /\ Chip8Plays /\ DigestsAgree
=============================================================================
