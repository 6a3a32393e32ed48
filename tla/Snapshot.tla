------------------------------ MODULE Snapshot ------------------------------
(***************************************************************************)
(* libspectrum_snap: the state of an emulated machine between the emulator *)
(* and the snapshot formats (snapshot.c, snap_accessors.txt).              *)
(*                                                                         *)
(* What no format tells apart is one value here: regs stands for the Z80   *)
(* registers other than SP, the content of a RAM page is the number of the *)
(* page it was taken from, and a device is its switch, its paging, its     *)
(* registers, its ROM image and its RAM pages.                             *)
(***************************************************************************)
EXTENDS Machines, SequencesExt

Devices ==
  { "fuller", "melodik", "if1", "beta", "plusd", "opus", "zxatasp", "zxcf",
    "if2", "dock", "mouse", "simpleide", "specdrum", "covox", "divide",
    "divmmc", "spectranet", "zxprinter", "ulaplus", "multiface", "zxmmc",
    "usource", "disciple", "didaktik" }

JoystickTypes == { "CURSOR", "KEMPSTON", "SINCLAIR_1", "SINCLAIR_2",
                   "TIMEX_1", "TIMEX_2", "FULLER" }
Inputs == { "JOYSTICK_1", "JOYSTICK_2", "KEYBOARD" }

\* A device that is not there.  image is the size in K of its ROM (of its RAM
\* for the Multiface), 0 where the pointer is NULL; count and ram are the
\* number of its RAM pages and those that are not NULL.
Off == [active |-> FALSE, paged |-> FALSE, regs |-> 0, custom |-> FALSE,
        image |-> 0, count |-> 0, ram |-> {}]

WordSize  == 256 * 256
Addresses == 0 .. WordSize - 1

SNAPSHOT_JOYSTICKS == 7

\* The array pages[] has 16 entries; szx.c reads and writes pages up to 63.
\* Those past the array are in slt[], which is next to it in the structure:
\* page 16 + l is the pointer to the data of level l, its length apart.
SNAPSHOT_RAM_PAGES == 16
NUMBERED_RAM_PAGES == 64

\* What a RAM page holds: the page it came from, its stack patched or not, or
\* nothing but 0xff.
Content(p) == <<p, FALSE>>
Stacked(c) == <<c[1], TRUE>>
Blank      == <<NUMBERED_RAM_PAGES, FALSE>>

\* What a page holds that was allocated and not filled.
Unset      == <<NUMBERED_RAM_PAGES + 1, FALSE>>

\* 16K from where the data of a level begins, however long it is.
LevelData  == <<NUMBERED_RAM_PAGES + 2, FALSE>>

NoPages   == [p \in {} |-> Blank]
NoDevices == [d \in {} |-> Off]

libspectrum_snap_alloc ==
  [machine |-> "none", regs |-> 0, sp |-> 0, iff1 |-> TRUE, iff2 |-> TRUE,
   tstates |-> 69664, memptr |-> 0, latch |-> {}, border |-> 0,
   ula_high |-> 0, port_128 |-> 7, port_plus3 |-> 8, ay |-> 0,
   scld_hsr |-> 0, scld_dec |-> 0, late |-> FALSE, issue2 |-> FALSE,
   custom_rom |-> FALSE, roms |-> <<>>, pages |-> NoPages, slt |-> {},
   joysticks |-> <<>>, kit |-> NoDevices]

IsDevice(k) ==
  k \in [active : BOOLEAN, paged : BOOLEAN, regs : Nat, custom : BOOLEAN,
         image : Nat, count : Nat, ram : SUBSET Nat]

JoystickEntries == [type : JoystickTypes \union { "NONE" }, inputs : SUBSET Inputs]

IsSnapshot(s) ==
  /\ DOMAIN s = DOMAIN libspectrum_snap_alloc
  /\ s.machine \in Machines \union { "none" }
  /\ s.sp \in Addresses
  /\ DOMAIN s.pages \subseteq 0 .. NUMBERED_RAM_PAGES - 1
  /\ s.joysticks \in Seq(JoystickEntries) /\ Len(s.joysticks) <= SNAPSHOT_JOYSTICKS
  /\ DOMAIN s.kit \subseteq Devices
  /\ \A d \in DOMAIN s.kit : IsDevice(s.kit[d])

-----------------------------------------------------------------------------
(* What the formats share: a file is a sequence of chunks, and a reader    *)
(* returns the snapshot and its error.                                     *)

Chunk(id, body)  == [id |-> id, body |-> body]
Ok(s)            == [snap |-> s, err |-> "NONE"]
Error(s, e)      == [snap |-> s, err |-> e]
When(c, chunks)  == IF c THEN chunks ELSE <<>>

\* What f says, and g where f says nothing.
Over(f, g) ==
  [x \in DOMAIN f \union DOMAIN g |-> IF x \in DOMAIN f THEN f[x] ELSE g[x]]

\* The kit has the devices that are not as they are at first.
Device(s, d) == IF d \in DOMAIN s.kit THEN s.kit[d] ELSE Off
Active(s, d) == Device(s, d).active

SetDevice(s, d, k) ==
  [s EXCEPT !.kit =
     IF k = Off THEN Restrict(@, DOMAIN @ \ {d}) ELSE Over([e \in {d} |-> k], @)]

SetPage(s, p, c) ==
  [s EXCEPT !.pages = Over([q \in {p} |-> c], @)]

\* What the accessor of a page gives: a page that was set, or a level in its
\* place.
IsLevel(s, p) == p - SNAPSHOT_RAM_PAGES \in s.slt
HasPage(s, p) == p \in DOMAIN s.pages \/ IsLevel(s, p)

libspectrum_snap_pages(s, p) ==
  IF p \in DOMAIN s.pages THEN s.pages[p] ELSE LevelData

\* Every writer asks the list for the joystick at an index, used or not.
libspectrum_snap_joystick_list(s, i) ==
  IF i \in DOMAIN s.joysticks THEN s.joysticks[i].type ELSE "NONE"

-----------------------------------------------------------------------------
(* The machine a snapshot restores: what its machine does not have, and    *)
(* what belongs to a device that is not there, does not count.             *)

RamPages(m) ==
  CASE m = "16" -> {5}
    [] m \in SCORP_MEMORY -> 0 .. 15
    [] m \in PENT512_MEMORY \ PENT1024_MEMORY -> 0 .. 31
    [] m \in PENT1024_MEMORY -> 0 .. 63
    [] m \in SE_MEMORY -> 0 .. 8
    [] m \in MEMORY_128 \ (SCORP_MEMORY \union PENT512_MEMORY \union SE_MEMORY)
         -> 0 .. 7
    [] OTHER -> {0, 2, 5}

HasPlus3Port(m) == m \in PLUS3_MEMORY \union SCORP_MEMORY \union PENT1024_MEMORY
HasScld(m)      == m \in TIMEX_MEMORY \union SE_MEMORY
HasAy(s) == s.machine \in AY \/ Active(s, "fuller") \/ Active(s, "melodik")

\* The connections of each joystick, in whatever order they are listed.
JoystickInputs(s) ==
  [t \in {s.joysticks[i].type : i \in DOMAIN s.joysticks} |->
     UNION {s.joysticks[i].inputs :
              i \in {j \in DOMAIN s.joysticks : s.joysticks[j].type = t}}]

RomOnlyIfCustom == { "if1", "beta", "plusd", "opus" }

DeviceView(d, k) ==
  CASE ~k.active -> Off
    [] k.active /\ d \in RomOnlyIfCustom /\ ~k.custom -> [k EXCEPT !.image = 0]
    [] OTHER -> k

View(s) ==
  [s EXCEPT
     !.port_128   = IF s.machine \in MEMORY_128 THEN @ ELSE 0,
     !.port_plus3 = IF HasPlus3Port(s.machine) THEN @ ELSE 0,
     !.scld_hsr   = IF HasScld(s.machine) THEN @ ELSE 0,
     !.scld_dec   = IF HasScld(s.machine) THEN @ ELSE 0,
     !.ay         = IF HasAy(s) THEN @ ELSE 0,
     !.pages      = [p \in DOMAIN @ \intersect RamPages(s.machine) |-> @[p]],
     !.joysticks  = JoystickInputs(s),
     !.kit        = [d \in Devices |-> DeviceView(d, Device(s, d))]]

\* What a second snapshot no longer tells of the first: fields by their name,
\* devices by theirs.
Fields == DOMAIN libspectrum_snap_alloc \ { "kit" }

Lost(s, t) ==
  LET v == View(s)
      w == View(t)
  IN  {f \in Fields : v[f] # w[f]} \union {d \in Devices : v.kit[d] # w.kit[d]}
=============================================================================
