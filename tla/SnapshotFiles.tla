--------------------------- MODULE SnapshotFiles ----------------------------
(***************************************************************************)
(* Snapshots going through files: libspectrum_snap_write saves one as      *)
(* .szx, .z80 or .sna and says what it loses; libspectrum_snap_read takes  *)
(* a file, of this program or another, into a new snapshot, chunk by       *)
(* chunk; what was read may be saved again, in the same format or another. *)
(*                                                                         *)
(* A file may be damaged on its way: it ends early, or two chunks of a     *)
(* .szx file, whose order is free, have changed places.                    *)
(***************************************************************************)
EXTENDS Szx, Z80, Sna

CONSTANTS Setups,       \* the snapshots an emulator saves
          Foreign,      \* files of other programs, records [fmt, file]
          MaxSaves      \* bound on the saves of one snapshot and its copies

\* What the identification of a file looks at, and chunks that are of the format.
IsFile(f, chunks) ==
  /\ chunks \in Seq(Range(chunks)) /\ chunks # <<>>
  /\ \/ /\ f = "szx" /\ chunks[1].id = "ZXST"
        /\ \A i \in DOMAIN chunks : IsSzxChunk(chunks[i])
     \/ /\ f = "z80" /\ chunks[1].id = "HEADER"
        /\ \A i \in DOMAIN chunks : IsZ80Chunk(chunks[i])
     \/ f = "sna" /\ chunks[1].body.sp \in Addresses

ASSUME SetupsAssumption ==
  \A s \in Setups : IsSnapshot(s) /\ s.machine \in Machines /\ CardsFit(s)
ASSUME ForeignAssumption == \A f \in Foreign : IsFile(f.fmt, f.file)
ASSUME MaxSavesAssumption == MaxSaves \in Nat \ {0}

VARIABLES snap,     \* the snapshot that is saved
          saves,    \* how often it and what it was read from were saved
          from,     \* the format of our file it was read from, if it was
          phase,    \* what the program does
          fmt,      \* the format of the file
          packed,   \* the file was written compressed
          flags,    \* what the writer said is lost
          file,     \* the chunks of the file that are not read yet
          own,      \* we wrote the file
          whole,    \* the file is all that was written
          rd,       \* the snapshot that is read
          err       \* the error of the call that failed

vars == <<snap, saves, from, phase, fmt, packed, flags, file, own, whole,
          rd, err>>

Formats == { "szx", "z80", "sna" }
Phases  == { "idle", "reading", "read", "failed" }

(***************************************************************************)
(* The state of the program.  Of what a file names, only what its place    *)
(* in the snapshot can take is kept (snap_accessors.txt): no page from 64  *)
(* on, no device or joystick that is not one, a stack pointer of 16 bits.  *)
(***************************************************************************)
TypeOK ==
  /\ IsSnapshot(snap) /\ IsSnapshot(rd)
  /\ saves \in 0 .. MaxSaves
  /\ from \in Formats \union { "none", "foreign" }
  /\ phase \in Phases
  /\ fmt \in Formats \union { "none" }
  /\ flags \subseteq { "MINOR", "MAJOR" }
  /\ {own, whole, packed} \subseteq BOOLEAN
  /\ err \in { "NONE", "LOGIC", "INVALID", "CRASH", "CORRUPT", "UNKNOWN" }
  /\ phase = "failed" <=> err # "NONE"

Init ==
  /\ snap \in Setups
  /\ saves = 0 /\ from = "none"
  /\ phase = "idle" /\ fmt = "none" /\ flags = {} /\ file = <<>>
  /\ own = TRUE /\ whole = TRUE /\ packed = TRUE
  /\ rd = libspectrum_snap_alloc
  /\ err = "NONE"

-----------------------------------------------------------------------------
(* Saving.                                                                 *)

Written(f, s, compress) ==
  CASE f = "szx" -> libspectrum_szx_write(s, compress)
    [] f = "z80" -> libspectrum_z80_write2(s)
    [] f = "sna" -> libspectrum_sna_write(s)

\* libspectrum_snap_write; whether it compresses matters to the ROM of an
\* Interface 1 in a .szx file only.
Save(f, compress) ==
  LET w == Written(f, snap, compress)
  IN  /\ phase = "idle" /\ saves < MaxSaves
      /\ compress \/ (f = "szx" /\ Active(snap, "if1"))
      /\ packed' = compress
      /\ saves' = saves + 1 /\ own' = TRUE
      /\ fmt' = f /\ flags' = w.flags /\ file' = w.file /\ err' = w.err
      /\ phase' = IF w.err = "NONE" THEN "reading" ELSE "failed"
      /\ UNCHANGED <<snap, from, whole, rd>>

\* A snapshot of an emulator that was only switched on.
PoweredOn == [libspectrum_snap_alloc EXCEPT !.machine = "48"]

\* A file of another program, in place of one of ours; what the emulator had
\* to save before plays no part.
Find ==
  /\ phase = "idle" /\ saves = 0
  /\ \E f \in Foreign : fmt' = f.fmt /\ file' = f.file
  /\ own' = FALSE
  /\ snap' = PoweredOn
  /\ flags' = {} /\ phase' = "reading"
  /\ saves' = 1
  /\ UNCHANGED <<from, packed, whole, rd, err>>

-----------------------------------------------------------------------------
(* Reading: the loop over the chunks of a file.                            *)

ReadOne(f, s, c) == IF f = "szx" THEN SzxReadChunk(s, c) ELSE Z80ReadChunk(s, c)

\* A chunk is read, the others are left; an error ends the loop.
Take(result, rest) ==
  /\ rd' = result.snap
  /\ err' = result.err
  /\ file' = IF result.err = "NONE" THEN rest ELSE <<>>
  /\ phase' = IF result.err = "NONE" THEN "reading" ELSE "failed"

\* A mutant: a chunk of which nothing is kept is not skipped.
ReadChunkUnskipped ==
  /\ phase = "reading" /\ fmt # "sna" /\ file # <<>>
  /\ LET result == ReadOne(fmt, rd, Head(file))
     IN  Take(result, IF result.snap = rd THEN file ELSE Tail(file))
  /\ UNCHANGED <<snap, saves, from, fmt, packed, flags, own, whole>>

ReadChunk ==
  /\ phase = "reading" /\ fmt # "sna" /\ file # <<>>
  /\ Take(ReadOne(fmt, rd, Head(file)), Tail(file))
  /\ UNCHANGED <<snap, saves, from, fmt, packed, flags, own, whole>>

\* The same file with two chunks the other way round.
ReadSwapped ==
  /\ phase = "reading" /\ fmt = "szx" /\ Len(file) >= 2
  /\ file[1].id # "ZXST"
  /\ LET second == SzxReadChunk(rd, file[2])
     IN  /\ second.err = "NONE"
         /\ Take(SzxReadChunk(second.snap, file[1]), Tail(Tail(file)))
  /\ UNCHANGED <<snap, saves, from, fmt, packed, flags, own, whole>>

ReadEnd ==
  /\ phase = "reading" /\ fmt # "sna" /\ file = <<>>
  /\ rd' = IF fmt = "z80" THEN Z80ReadEnd(rd) ELSE rd
  /\ phase' = "read"
  /\ UNCHANGED <<snap, saves, from, fmt, packed, flags, file, own, whole, err>>

\* A .sna file is read in one go.
ReadSna ==
  /\ phase = "reading" /\ fmt = "sna"
  /\ LET result == internal_sna_read(rd, file)
     IN  /\ rd' = result.snap
         /\ err' = result.err
         /\ phase' = IF result.err = "NONE" THEN "read" ELSE "failed"
  /\ file' = <<>>
  /\ UNCHANGED <<snap, saves, from, fmt, packed, flags, own, whole>>

-----------------------------------------------------------------------------
(* Damage.                                                                 *)

\* The file ends at the next chunk, which no reader can tell from the end of
\* the file, or within it.  The readers look no further than the chunk they are
\* at, so the file may as well be cut when they get there.
\* Bound: only the first file is.
Cut(between) ==
  /\ phase = "reading" /\ fmt # "sna" /\ file # <<>> /\ rd.machine # "none"
  /\ saves = 1
  /\ err' = IF between THEN "NONE" ELSE "CORRUPT"
  /\ phase' = IF between THEN "read" ELSE "failed"
  /\ rd' = IF between /\ fmt = "z80" THEN Z80ReadEnd(rd) ELSE rd
  /\ file' = <<>> /\ whole' = FALSE
  /\ UNCHANGED <<snap, saves, from, fmt, packed, flags, own>>

\* A .sna file that ends early has another length.
CutSna(n) ==
  /\ phase = "reading" /\ fmt = "sna" /\ whole /\ saves = 1
  /\ n \in 1 .. Len(file) - 1
  /\ file' = SubSeq(file, 1, n) /\ whole' = FALSE
  /\ UNCHANGED <<snap, saves, from, phase, fmt, packed, flags, own, rd, err>>

-----------------------------------------------------------------------------
\* What was read is what will be saved next.
Adopt ==
  /\ phase = "read" /\ whole /\ saves < MaxSaves
  /\ snap' = rd /\ rd' = libspectrum_snap_alloc
  /\ from' = IF own THEN fmt ELSE "foreign"
  /\ fmt' = "none" /\ flags' = {}
  /\ phase' = "idle"
  /\ UNCHANGED <<saves, packed, file, own, whole, err>>

Reading == ReadChunk \/ ReadEnd \/ ReadSna

Next ==
  \/ \E f \in Formats, compress \in BOOLEAN : Save(f, compress)
  \/ Find
  \/ Reading
  \/ ReadSwapped
  \/ \E between \in BOOLEAN : Cut(between)
  \/ \E n \in 1 .. 10 : CutSna(n)
  \/ Adopt

\* A reader is a loop of the program: once called it runs to its end.
Spec == Init /\ [][Next]_vars /\ WF_vars(Reading)

-----------------------------------------------------------------------------
(* What a writer loses without saying so.  Each format does so with a few  *)
(* parts of a snapshot; everything else is kept, or its loss is flagged.   *)

Connected(s) ==
  \A i \in DOMAIN s.joysticks :
     s.joysticks[i].inputs # {} \/ s.joysticks[i].type = "KEMPSTON"

SilentInSzx(s) ==
  UNION {
    IF s.machine \in { "16", "48", "48_NTSC", "128" } THEN {} ELSE {"late"},
    {"slt"},
    IF Connected(s) THEN {} ELSE {"joysticks"},
    IF \E p \in RamPages(s.machine) : p \notin DOMAIN s.pages /\ IsLevel(s, p)
      THEN {"pages"} ELSE {},
    IF Device(s, "dock").ram = {} THEN {"dock"} ELSE {},
    IF Device(s, "if1").regs = 0 \/ (Device(s, "if1").custom /\ ~packed)
      THEN {"if1"} ELSE {} }

\* The Interface 1 is kept by two machines, with its ROM switched out, eight
\* drives and a ROM of 16K.
If1InZ80(s) ==
  LET k == Device(s, "if1")
  IN  /\ s.machine \in { "16", "48", "128" } /\ ~Active(s, "plusd")
      /\ ~k.paged /\ k.regs = 8
      /\ k.custom => k.image = 16

JoystickInZ80(s) ==
  \A i \in DOMAIN s.joysticks :
     /\ s.joysticks[i].type # "SINCLAIR_2"
     /\ s.joysticks[i].inputs = {"KEYBOARD", "JOYSTICK_1"}

SilentInZ80(s) ==
  UNION {
    {"memptr", "ula_high", "mouse", "zxprinter"},
    IF If1InZ80(s) THEN {} ELSE {"if1"},
    IF JoystickInZ80(s) THEN {} ELSE {"joysticks"},
    IF Active(s, "fuller") THEN {"melodik"} ELSE {},
    IF s.machine \in { "PENT512", "PENT1024" }
      THEN {"machine", "port_plus3", "pages"} ELSE {} }

\* Of a .sna file it is always said that something is lost, but not that these
\* devices are.
SilentInSna == { "if1", "mouse", "zxprinter", "ulaplus" }

Silent(f, s) ==
  CASE f = "szx" -> SilentInSzx(s)
    [] f = "z80" -> SilentInZ80(s)
    [] f = "sna" -> SilentInSna

\* A file of ours, read to its end and not cut.
CameBack == phase = "read" /\ whole /\ own

(***************************************************************************)
(* What a snapshot loses on its way through a file was flagged when it was *)
(* saved (out_flags of libspectrum_snap_write), but for the parts named    *)
(* above; a device that is lost was flagged as a major loss, the +D in a   *)
(* .z80 file as a minor one.  The chunks of a .szx file may have come in   *)
(* another order.                                                          *)
(***************************************************************************)
LossIsFlagged ==
  CameBack =>
    LET lost == Lost(snap, rd) \ Silent(fmt, snap)
        devices == (lost \intersect Devices)
                     \ (IF fmt = "z80" THEN MinorInZ80 ELSE {})
    IN  /\ lost # {} => flags # {}
        /\ devices # {} => "MAJOR" \in flags

\* Files the readers refuse although the writers wrote them: custom ROMs of
\* machines whose ROMs szx.c sizes in two ways, and level data in .z80 files.
Unreadable(f, s) ==
  \/ f = "szx" /\ s.custom_rom
       /\ s.machine \in { "48_NTSC", "128E", "PENT512", "PENT1024" }
  \/ f = "z80" /\ s.slt # {}

(***************************************************************************)
(* What was written can be read: no reader gives up on a file of ours that *)
(* nobody cut, whatever the order of its chunks.                           *)
(***************************************************************************)
WrittenIsReadable ==
  phase = "failed" /\ err \in { "CORRUPT", "UNKNOWN" } /\ whole /\ own
  => Unreadable(fmt, snap)

\* The first 49179 bytes of a longer .sna file are one of a 48K machine, whose
\* top page is the page that was paged in; one that ends later is refused when
\* its pages are allocated.
Torn == fmt = "sna" /\ ~whole /\ (rd.machine = "48" \/ phase = "failed")

PagesFrom(r, s) ==
  \A p \in DOMAIN r.pages :
     IF p \in DOMAIN s.pages
     THEN r.pages[p] \in {s.pages[p], Stacked(s.pages[p])}
     ELSE \/ r.pages[p] \in {Blank, Stacked(Blank)}
          \/ IsLevel(s, p) /\ r.pages[p] = LevelData

DevicesFrom(r, s) == \A d \in Devices : Active(r, d) => Active(s, d)

\* A .z80 file always has a joystick.
JoysticksFrom(r, s, f) ==
  \A i \in DOMAIN r.joysticks :
     \/ \E j \in DOMAIN s.joysticks : s.joysticks[j].type = r.joysticks[i].type
     \/ f = "z80" /\ r.joysticks[i].type = "CURSOR"

(***************************************************************************)
(* Nothing is made up: at every step of a reader, in a file that ends      *)
(* early too, each page, device and joystick is one of the snapshot that   *)
(* was saved, a stack in a page aside, and the levels that are written as  *)
(* pages of a Pentagon with more than 16.                                  *)
(***************************************************************************)
NothingInvented ==
  own => /\ Torn \/ PagesFrom(rd, snap)
         /\ DevicesFrom(rd, snap) /\ JoysticksFrom(rd, snap, fmt)

\* An interface whose ROM is not custom comes back without a ROM, and a .szx
\* file cannot be written without one.  The .z80 writer reads the pages of a 48K
\* machine whether they are there or not.
RomIsGone(s) ==
  \/ \E d \in { "opus", "plusd" } : Active(s, d) /\ Device(s, d).image = 0
  \/ Active(s, "if1") /\ Device(s, "if1").custom /\ Device(s, "if1").image = 0

(***************************************************************************)
(* Saving what was read, in the format it was read from, loses nothing     *)
(* more: everything that format can lose is lost the first time.  Two      *)
(* things take two .z80 files.  The second joystick of the Interface 2     *)
(* becomes a cursor joystick: none is read, and none is written as the     *)
(* first code.  The ROM and the RAM of the +D are read, but not as custom  *)
(* ones, so they are not written again.  And a ROM of the Interface 1 is   *)
(* lost in a .szx file whenever it is not compressed.                      *)
(***************************************************************************)
Stable ==
  from = fmt =>
    /\ CameBack =>
         Lost(snap, rd) \subseteq
           UNION { IF fmt = "z80" /\ snap.joysticks = <<>>
                     THEN {"joysticks"} ELSE {},
                   IF fmt = "z80" /\ ~Device(snap, "plusd").custom
                     THEN {"plusd"} ELSE {},
                   IF fmt = "szx" /\ ~packed THEN {"if1"} ELSE {} }
    /\ phase = "failed" /\ whole =>
         IF fmt = "szx" THEN RomIsGone(snap) ELSE fmt = "z80" /\ ~Z80HasData(snap)

(***************************************************************************)
(* A reader ends, whatever it is given.                                    *)
(***************************************************************************)
ReadingEnds == phase = "reading" ~> phase # "reading"
=============================================================================
