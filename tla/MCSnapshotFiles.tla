-------------------------- MODULE MCSnapshotFiles ---------------------------
(***************************************************************************)
(* Snapshots of every machine with one thing out of the ordinary, and      *)
(* files of other programs.                                                *)
(***************************************************************************)
EXTENDS SnapshotFiles

CONSTANT AllDevices     \* the machines every device is tried with

-----------------------------------------------------------------------------
(* An emulated machine as it comes: its memory, a stack, no devices.       *)

Plain(m) ==
  [libspectrum_snap_alloc EXCEPT
     !.machine = m, !.regs = 1, !.sp = 32768, !.tstates = 20000, !.ay = 1,
     !.scld_hsr = 1, !.scld_dec = 1,
     !.pages = [p \in 0 .. 15 \intersect
                        (RamPages(m) \union (IF m = "16" THEN {0, 2} ELSE {})) |->
                  Content(p)]]

-----------------------------------------------------------------------------
(* What may be out of the ordinary in the machine itself.                  *)

Joystick(type, inputs) == [type |-> type, inputs |-> inputs]
ZxInputs == {"KEYBOARD", "JOYSTICK_1"}

JoystickLists ==
  {<<Joystick(t, ZxInputs)>> : t \in JoystickTypes} \union
  { <<Joystick("KEMPSTON", {})>>, <<Joystick("CURSOR", {})>>,
    <<Joystick("SINCLAIR_2", {"JOYSTICK_2"})>>,
    <<Joystick("SINCLAIR_1", {"JOYSTICK_1"}), Joystick("SINCLAIR_2", {"JOYSTICK_2"})>>,
    <<Joystick("KEMPSTON", {"JOYSTICK_1"}), Joystick("SINCLAIR_1", {"JOYSTICK_1"})>>,
    <<Joystick("CURSOR", {"JOYSTICK_2"}), Joystick("KEMPSTON", {"JOYSTICK_2"}),
      Joystick("TIMEX_1", {"JOYSTICK_1"})>> }

RomSizes(m) ==
  CASE RomsWritten(m) = <<2, 24>> -> <<16, 8>>
    [] OTHER -> [i \in 1 .. RomsWritten(m)[1] |-> 16]

Oddities(s) ==
  { [s EXCEPT !.iff1 = FALSE], [s EXCEPT !.iff1 = FALSE, !.iff2 = FALSE],
    [s EXCEPT !.sp = 16385], [s EXCEPT !.sp = 32769], [s EXCEPT !.sp = 65535],
    [s EXCEPT !.tstates = 0],
    [s EXCEPT !.tstates = libspectrum_timings_tstates_per_frame(s.machine) - 1],
    [s EXCEPT !.latch = {"halted"}], [s EXCEPT !.memptr = 1],
    [s EXCEPT !.border = 1], [s EXCEPT !.ula_high = 1],
    [s EXCEPT !.port_128 = 2], [s EXCEPT !.port_128 = 5],
    [s EXCEPT !.port_plus3 = 1],
    [s EXCEPT !.late = TRUE], [s EXCEPT !.issue2 = TRUE], [s EXCEPT !.slt = {3}],
    [s EXCEPT !.custom_rom = TRUE, !.roms = RomSizes(s.machine)],
    [s EXCEPT !.custom_rom = TRUE, !.roms = <<8>>],
    [s EXCEPT !.pages = [p \in DOMAIN @ \ {0} |-> @[p]]],
    [s EXCEPT !.pages = [p \in RamPages(s.machine) |-> Content(p)]] }
  \union {[s EXCEPT !.joysticks = j] : j \in JoystickLists}

-----------------------------------------------------------------------------
(* Devices, as they may be configured.                                     *)

On == [Off EXCEPT !.active = TRUE]
Rom(k, size) == [k EXCEPT !.custom = TRUE, !.image = size]
Paged(k)     == [k EXCEPT !.paged = TRUE]
Regs(k, r)   == [k EXCEPT !.regs = r]
Ram(k, n, p) == [k EXCEPT !.count = n, !.ram = p]

Configurations(d, m) ==
  CASE d = "if1" -> { Regs(On, 8), Regs(On, 0), Paged(Regs(On, 8)),
                      Regs(Rom(On, 8), 8), Regs(Rom(On, 16), 2),
                      Regs(Rom(On, 4), 8) }
    [] d = "beta" -> { On, Paged(Regs(On, 1)), Rom(On, 16) }
    [] d \in { "plusd", "opus" } ->
         { On, Ram([On EXCEPT !.image = 8], 0, {0}),
           Ram(Paged(Rom(Regs(On, 1), 8)), 0, {0}) }
    [] d = "zxatasp" -> { Ram(Regs(On, 1), 8, 0 .. 7), Ram(On, 32, {0, 31}) }
    [] d = "zxcf"    -> { Ram(Regs(On, 1), 8, 0 .. 7), Ram(On, 64, {0, 63}) }
    [] d = "divide"  -> { Ram([On EXCEPT !.image = 8], 4, {0, 3}), On }
    [] d = "divmmc"  -> { Ram([Paged(On) EXCEPT !.image = 8], 64, {0, 63}), On }
    [] d = "spectranet" -> { Ram([On EXCEPT !.image = 128], 0, {0}) }
    [] d = "dock"    -> { On, Ram(On, 0, {0, 7}) }
    [] d = "if2"     -> { [On EXCEPT !.image = 16] }
    [] d = "multiface" ->
         { [Regs(On, 1) EXCEPT !.image = 8], Regs(On, 128),
           [Regs(On, IF m \in PLUS3_MEMORY THEN 3 ELSE 128) EXCEPT !.image = 8] }
    [] d = "usource" -> { Rom(On, 8) }
    [] d \in { "specdrum", "covox", "ulaplus" } -> { Regs(On, 1) }
    [] OTHER         -> { On }

With(s, devices) ==
  UNION {{SetDevice(s, d, k) : k \in Configurations(d, s.machine)} : d \in devices}

\* The devices that depend on the machine, and those that share a block of a
\* file with another.
OfMachine == { "if1", "plusd", "fuller", "melodik", "dock", "multiface" }

Together(s) ==
  UNION {With(t, {"plusd"}) : t \in With(s, {"if1"})}
    \union UNION {With(t, {"melodik"}) : t \in With(s, {"fuller"})}

\* Bound: one thing at a time, but for devices that share a block.
MCSetups ==
  UNION {{Plain(m)} \union Oddities(Plain(m)) \union With(Plain(m), OfMachine)
           : m \in Machines}
    \union UNION {With(Plain(m), Devices \ OfMachine) \union Together(Plain(m))
                    : m \in AllDevices}

-----------------------------------------------------------------------------
(* .z80 files of other programs, and a .szx file with a chunk nobody knows. *)

Header(version, type) ==
  [version |-> version, long |-> FALSE, type |-> type, mgt |-> 16,
   mgt_paged |-> TRUE, port |-> 7, scld_dec |-> 0, hardware |-> {}, ay |-> 1,
   low |-> 100, high |-> 1, if2_left |-> FALSE, port_plus3 |-> 0, regs |-> 1,
   sp |-> 32768, iff1 |-> TRUE, iff2 |-> TRUE, issue2 |-> FALSE, border |-> 0,
   joystick |-> 2]

Z80File(header, rest) ==
  [fmt |-> "z80", file |-> <<Chunk("HEADER", header)>> \o rest]

Pages48 == Page(4, Content(2)) \o Page(5, Content(0)) \o Page(8, Content(5))
Levels  == <<Chunk("SLT", [levels |-> {1}, directory |-> TRUE])>>

MCForeign ==
  { Z80File(Header(1, 0), <<Chunk("RAM48", Plain("48").pages)>>),
    Z80File([Header(3, 0) EXCEPT !.low = 65535], Pages48),
    Z80File([Header(3, 0) EXCEPT !.if2_left = TRUE], Pages48 \o Levels),
    Z80File(Header(3, 0), Pages48 \o Page(5, Content(0))),
    Z80File(Header(3, 0), Page(2, Blank) \o Page(3, Blank) \o Page(11, Blank) \o Pages48),
    Z80File(Header(3, 0), Page(19, Blank)),
    Z80File(Header(3, 1), Page(1, Blank) \o Page(8, Content(5))) }
  \union {Z80File(Header(2, t), Pages48) : t \in 0 .. 6}
  \union {Z80File([Header(3, t) EXCEPT !.mgt = g], Pages48) : t \in {3, 6}, g \in {0, 2}}
  \union {Z80File([Header(3, t) EXCEPT !.hardware = {"modified"}], Pages48) :
            t \in {4, 7, 8, 9}}
  \union {Z80File(Header(3, 11), Pages48)}
  \union { [fmt |-> "szx", file |->
             write_file_header(Plain("48")) \o <<Chunk("TAPE", {})>>
               \o write_z80r_chunk(Plain("48")) \o write_ram_pages(Plain("48"))] }
  \union {[fmt |-> "szx", file |->
             write_file_header(Plain("TC2068")) \o <<Chunk(p[1], p[2])>>] :
            p \in { <<"ATRP", 32>>, <<"CFRP", 64>>, <<"DIRP", 4>>,
                    <<"DMRP", 64>>, <<"DOCK", 8>>,
                    <<"RAMP", [page |-> 15, data |-> Content(15)]>>,
                    <<"RAMP", [page |-> 64, data |-> Blank]>> }}
  \union {[fmt |-> "szx", file |->
             write_file_header(Plain("PENT1024")) \o
               <<Chunk("RAMP", [page |-> p, data |-> Content(p)])>>] :
            p \in {15, 16, 63, 64}}
=============================================================================
