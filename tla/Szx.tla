-------------------------------- MODULE Szx ---------------------------------
(***************************************************************************)
(* The .szx format (szx.c): a file is a header and a sequence of tagged    *)
(* chunks, each written by its write_..._chunk and read by the function    *)
(* the table read_chunks[] names for it.                                   *)
(*                                                                         *)
(* A writer returns the chunks it appends: one, or none.  A chunk that     *)
(* describes a device carries the device as the writer stores it; zlib     *)
(* gives back what it was given, so whether a chunk is compressed is kept  *)
(* only where the reader does something else with it (the Interface 1).    *)
(* A reader returns the snapshot and the error of its function.            *)
(***************************************************************************)
EXTENDS Snapshot

-----------------------------------------------------------------------------
(* The header, and the state of the machine itself.                        *)

write_file_header(s) ==
  <<Chunk("ZXST", [machine |-> s.machine, late |-> s.late])>>

\* The timing flag is read for the four machines that have two timings.
read_file_header(s, b) ==
  Ok([s EXCEPT !.machine = b.machine,
               !.late = IF b.machine \in { "16", "48", "48_NTSC", "128" }
                        THEN b.late ELSE @])

write_z80r_chunk(s) ==
  <<Chunk("Z80R", [regs |-> s.regs, sp |-> s.sp, iff1 |-> s.iff1,
                   iff2 |-> s.iff2, tstates |-> s.tstates,
                   latch |-> s.latch, memptr |-> s.memptr])>>

read_z80r_chunk(s, b) ==
  Ok([s EXCEPT !.regs = b.regs, !.sp = b.sp, !.iff1 = b.iff1, !.iff2 = b.iff2,
               !.tstates = b.tstates, !.latch = b.latch, !.memptr = b.memptr])

\* A port the machine does not have is written as 0 ...
write_spcr_chunk(s) ==
  <<Chunk("SPCR",
     [border |-> s.border, ula_high |-> s.ula_high,
      port_128 |-> IF s.machine \in MEMORY_128 THEN s.port_128 ELSE 0,
      port_plus3 |-> IF HasPlus3Port(s.machine) THEN s.port_plus3 ELSE 0])>>

\* ... and 0x7ffd is read whatever the machine, 0x1ffd is not.
read_spcr_chunk(s, b) ==
  Ok([s EXCEPT !.border = b.border, !.ula_high = b.ula_high,
               !.port_128 = b.port_128,
               !.port_plus3 = IF HasPlus3Port(s.machine) THEN b.port_plus3
                              ELSE @])

-----------------------------------------------------------------------------
(* Joysticks: a file names one joystick for each connection.               *)

\* The joysticks at a connection, in the order of the snapshot's list.
ConnectedAt(s, input) ==
  FlattenSeq([i \in DOMAIN s.joysticks |->
                When(input \in s.joysticks[i].inputs, <<s.joysticks[i]>>)])

\* The first is written; each further one is an information loss.
write_joystick(s, input) ==
  IF ConnectedAt(s, input) = <<>> THEN "NONE" ELSE ConnectedAt(s, input)[1].type

JoystickLoss(s) ==
  IF \E input \in Inputs : Len(ConnectedAt(s, input)) > 1 THEN {"MINOR"} ELSE {}

write_joy_chunk(s) ==
  <<Chunk("JOY",
     [port31 |-> \E i \in DOMAIN s.joysticks :
                    s.joysticks[i].type = "KEMPSTON",
      one |-> write_joystick(s, "JOYSTICK_1"),
      two |-> write_joystick(s, "JOYSTICK_2")])>>

write_keyb_chunk(s) ==
  <<Chunk("KEYB", [issue2 |-> s.issue2,
                   type |-> write_joystick(s, "KEYBOARD")])>>

\* A joystick that is already listed gets one more connection.
add_joystick(s, type, inputs) ==
  IF \E i \in DOMAIN s.joysticks : s.joysticks[i].type = type
  THEN LET i == CHOOSE j \in DOMAIN s.joysticks : s.joysticks[j].type = type
       IN  [s EXCEPT !.joysticks[i].inputs = @ \union inputs]
  ELSE [s EXCEPT !.joysticks = Append(@, [type |-> type, inputs |-> inputs])]

AddNamed(s, type, inputs) ==
  IF type = "NONE" THEN s ELSE add_joystick(s, type, inputs)

read_joy_chunk(s, b) ==
  LET s1 == IF b.port31 THEN add_joystick(s, "KEMPSTON", {}) ELSE s
      s2 == AddNamed(s1, b.one, {"JOYSTICK_1"})
  IN  Ok(AddNamed(s2, b.two, {"JOYSTICK_2"}))

read_keyb_chunk(s, b) ==
  Ok(AddNamed([s EXCEPT !.issue2 = b.issue2], b.type, {"KEYBOARD"}))

-----------------------------------------------------------------------------
(* Custom ROMs, by their sizes in K.                                       *)

Total(sizes) == FoldLeft(LAMBDA x, y : x + y, 0, sizes)

\* The number of ROMs of a machine and their length in K: for the writer ...
RomsWritten(m) ==
  CASE m \in { "16", "48", "48_NTSC", "TC2048" } -> <<1, 16>>
    [] m \in { "128", "128E", "PENT", "PLUS2", "SE" } -> <<2, 32>>
    [] m \in { "PLUS2A", "PLUS3", "PLUS3E", "SCORP" } -> <<4, 64>>
    [] m \in { "PENT512", "PENT1024" } -> <<3, 48>>
    [] m \in { "TC2068", "TS2068" } -> <<2, 24>>

\* ... and their length for the reader, which knows no length (0) for two
\* machines.
RomLengthRead(m) ==
  CASE m \in { "16", "48", "TC2048" } -> 16
    [] m \in { "128", "PLUS2", "SE", "PENT" } -> 32
    [] m \in { "PLUS2A", "PLUS3", "PLUS3E", "SCORP", "PENT512", "PENT1024" }
         -> 64
    [] m \in { "TC2068", "TS2068" } -> 24
    [] OTHER -> 0

RomsFit(s) == <<Len(s.roms), Total(s.roms)>> = RomsWritten(s.machine)

RomLoss(s) == IF s.custom_rom /\ ~RomsFit(s) THEN {"MAJOR"} ELSE {}

write_rom_chunk(s) ==
  When(s.custom_rom /\ RomsFit(s), <<Chunk("ROM", [length |-> Total(s.roms)])>>)

\* The data is cut into ROMs of 16K and what is left over.
szx_extract_roms(length) ==
  [i \in 1 .. length \div 16 |-> 16]
    \o When(length % 16 # 0, <<length % 16>>)

read_rom_chunk(s, b) ==
  IF b.length = RomLengthRead(s.machine)
  THEN Ok([s EXCEPT !.custom_rom = TRUE, !.roms = szx_extract_roms(b.length)])
  ELSE Error([s EXCEPT !.custom_rom = TRUE], "UNKNOWN")

-----------------------------------------------------------------------------
(* RAM pages.                                                              *)

\* A page that is not in the snapshot is not written.
write_ramp_chunk(s, p) ==
  When(HasPage(s, p),
       <<Chunk("RAMP", [page |-> p, data |-> libspectrum_snap_pages(s, p)])>>)

Consecutive(first, last) == [i \in 1 .. last - first + 1 |-> first + i - 1]

\* A mutant: the pages from 8 on of the SE are forgotten.
PagesOf128(m) ==
  <<5>> \o When(m # "16", <<2, 0>>)
        \o When(m \in MEMORY_128, <<1, 3, 4, 6, 7>>)
        \o When(m \in SCORP_MEMORY, Consecutive(8, 15))
        \o When(m \in PENT512_MEMORY, Consecutive(8, 31))
        \o When(m \in PENT1024_MEMORY, Consecutive(32, 63))

PagesInOrder(m) ==
  <<5>> \o When(m # "16", <<2, 0>>)
        \o When(m \in MEMORY_128, <<1, 3, 4, 6, 7>>)
        \o When(m \in SCORP_MEMORY, Consecutive(8, 15))
        \o When(m \in PENT512_MEMORY, Consecutive(8, 31))
        \o When(m \in PENT1024_MEMORY, Consecutive(32, 63))
        \o When(m \in SE_MEMORY, <<8>>)

write_ram_pages(s) ==
  LET order == PagesInOrder(s.machine)
  IN  FlattenSeq([i \in DOMAIN order |-> write_ramp_chunk(s, order[i])])

\* A mutant: a page number is a byte.
read_ramp_chunk_any(s, b) == Ok(SetPage(s, b.page, b.data))

read_ramp_chunk(s, b) ==
  IF b.page > 63 THEN Error(s, "CORRUPT") ELSE Ok(SetPage(s, b.page, b.data))

-----------------------------------------------------------------------------
(* Sound and video ports.                                                  *)

write_ay_chunk(s) ==
  When(HasAy(s), <<Chunk("AY", [fuller |-> Active(s, "fuller"),
                                melodik |-> Active(s, "melodik"),
                                ay |-> s.ay])>>)

read_ay_chunk(s, b) ==
  LET Switched(t, d, on) == SetDevice(t, d, [Off EXCEPT !.active = on])
  IN  Ok(Switched(Switched([s EXCEPT !.ay = b.ay], "fuller", b.fuller),
                  "melodik", b.melodik))

write_scld_chunk(s) ==
  When(HasScld(s.machine),
       <<Chunk("SCLD", [hsr |-> s.scld_hsr, dec |-> s.scld_dec])>>)

read_scld_chunk(s, b) == Ok([s EXCEPT !.scld_hsr = b.hsr, !.scld_dec = b.dec])

-----------------------------------------------------------------------------
(* Devices one chunk describes whole.                                      *)

\* The chunk of a device that is there: what the writer stores of it.
DeviceChunk(s, d, id, stored) ==
  When(Active(s, d), <<Chunk(id, stored)>>)

ReadDevice(s, d, stored) == Ok(SetDevice(s, d, stored))

write_b128_chunk(s) ==
  LET k == Device(s, "beta")
  IN  DeviceChunk(s, "beta", "B128",
                  [k EXCEPT !.image = IF k.custom THEN 16 ELSE 0])

write_if2r_chunk(s)  == DeviceChunk(s, "if2", "IF2R", Device(s, "if2"))
write_amxm_chunk(s)  == DeviceChunk(s, "mouse", "AMXM", Device(s, "mouse"))
write_side_chunk(s)  == DeviceChunk(s, "simpleide", "SIDE", Device(s, "simpleide"))
write_drum_chunk(s)  == DeviceChunk(s, "specdrum", "DRUM", Device(s, "specdrum"))
write_covx_chunk(s)  == DeviceChunk(s, "covox", "COVX", Device(s, "covox"))
write_pltt_chunk(s)  == DeviceChunk(s, "ulaplus", "PLTT", Device(s, "ulaplus"))
write_zmmc_chunk(s)  == DeviceChunk(s, "zxmmc", "ZMMC", Device(s, "zxmmc"))

\* The printer's chunk is always there and says whether the printer is.
write_zxpr_chunk(s)  == <<Chunk("ZXPR", Device(s, "zxprinter"))>>

read_b128_chunk(s, b) == ReadDevice(s, "beta", b)
read_if2r_chunk(s, b) == ReadDevice(s, "if2", b)
read_amxm_chunk(s, b) == ReadDevice(s, "mouse", b)
read_side_chunk(s, b) == ReadDevice(s, "simpleide", b)
read_drum_chunk(s, b) == ReadDevice(s, "specdrum", b)
read_covx_chunk(s, b) == ReadDevice(s, "covox", b)
read_pltt_chunk(s, b) == ReadDevice(s, "ulaplus", b)
read_zmmc_chunk(s, b) == ReadDevice(s, "zxmmc", b)
read_zxpr_chunk(s, b) == ReadDevice(s, "zxprinter", b)

-----------------------------------------------------------------------------
(* Disk interfaces: the ROM is written only if it is a custom one.         *)

\* No number of drives is written as eight, and a ROM of the Interface 1 that
\* is not compressed gets a length but no data when it is read.
If1Writable(k) == ~k.custom \/ k.image \in {8, 16}

write_if1_chunk(s, packed) ==
  LET k == Device(s, "if1")
  IN  DeviceChunk(s, "if1", "IF1",
        [paged |-> k.paged, drives |-> IF k.regs = 0 THEN 8 ELSE k.regs,
         length |-> IF k.custom THEN k.image ELSE 0, packed |-> packed])

read_if1_chunk(s, b) ==
  ReadDevice(s, "if1",
    [Device(s, "if1") EXCEPT
       !.active = TRUE, !.paged = b.paged, !.regs = b.drives,
       !.custom = @ \/ b.length # 0,
       !.image = IF b.length # 0 /\ b.packed THEN b.length ELSE @])

\* The Opus and the +D are not written without a ROM, custom or not.
MgtWritable(k) == k.image # 0

StoredMgt(k) == [k EXCEPT !.image = IF k.custom THEN 8 ELSE 0]

write_opus_chunk(s) == DeviceChunk(s, "opus", "OPUS", StoredMgt(Device(s, "opus")))
write_plsd_chunk(s) == DeviceChunk(s, "plusd", "PLSD", StoredMgt(Device(s, "plusd")))
read_opus_chunk(s, b) == ReadDevice(s, "opus", b)
read_plsd_chunk(s, b) == ReadDevice(s, "plusd", b)

-----------------------------------------------------------------------------
(* Memory cards: a chunk with the registers and one for every page.        *)

SNAPSHOT_ZXATASP_PAGES == 32
SNAPSHOT_ZXCF_PAGES    == 64
SNAPSHOT_DIVIDE_PAGES  == 4
SNAPSHOT_DIVMMC_PAGES  == 64

CardSize == [zxatasp |-> SNAPSHOT_ZXATASP_PAGES, zxcf |-> SNAPSHOT_ZXCF_PAGES,
             divide |-> SNAPSHOT_DIVIDE_PAGES, divmmc |-> SNAPSHOT_DIVMMC_PAGES]
Cards == DOMAIN CardSize

CardsFit(s) == \A d \in Cards : Device(s, d).ram \subseteq 0 .. CardSize[d] - 1

Registers(k) == [k EXCEPT !.ram = {}]

\* The pages 0 .. count - 1 that are in the snapshot, in order.
CardPages(s, d, id) ==
  LET k == Device(s, d)
      chunk(p) == When(p \in k.ram, <<Chunk(id, p)>>)
  IN  FlattenSeq([i \in 1 .. k.count |-> chunk(i - 1)])

Card(s, d, id, pageId) ==
  When(Active(s, d),
       <<Chunk(id, Registers(Device(s, d)))>> \o CardPages(s, d, pageId))

write_zxat_chunk(s) == Card(s, "zxatasp", "ZXAT", "ATRP")
write_zxcf_chunk(s) == Card(s, "zxcf", "ZXCF", "CFRP")
write_dide_chunk(s) == Card(s, "divide", "DIDE", "DIRP")
write_dmmc_chunk(s) == Card(s, "divmmc", "DMMC", "DMRP")

\* The registers leave the pages alone that are already there.
ReadCard(s, d, b) == ReadDevice(s, d, [b EXCEPT !.ram = Device(s, d).ram])

\* A mutant: the last page of a card is one too many.
ReadCardPageShort(s, d, p, limit) ==
  IF p >= limit - 1 THEN Error(s, "CORRUPT")
  ELSE ReadDevice(s, d, [Device(s, d) EXCEPT !.ram = @ \union {p}])

ReadCardPage(s, d, p, limit) ==
  IF p >= limit THEN Error(s, "CORRUPT")
  ELSE ReadDevice(s, d, [Device(s, d) EXCEPT !.ram = @ \union {p}])

read_zxat_chunk(s, b) == ReadCard(s, "zxatasp", b)
read_zxcf_chunk(s, b) == ReadCard(s, "zxcf", b)
read_dide_chunk(s, b) == ReadCard(s, "divide", b)
read_dmmc_chunk(s, b) == ReadCard(s, "divmmc", b)
read_atrp_chunk(s, p) == ReadCardPage(s, "zxatasp", p, CardSize.zxatasp)
read_cfrp_chunk(s, p) == ReadCardPage(s, "zxcf", p, CardSize.zxcf)
read_dirp_chunk(s, p) == ReadCardPage(s, "divide", p, CardSize.divide)
read_dmrp_chunk(s, p) == ReadCardPage(s, "divmmc", p, CardSize.divmmc)

\* A DivIDE or a DivMMC is not written without its EPROM.
DivWritable(k) == k.image # 0

\* The Spectranet's registers, flash and RAM are chunks of their own.
write_spectranet_chunks(s) ==
  LET k == Device(s, "spectranet")
  IN  When(k.active,
        <<Chunk("SNET", [k EXCEPT !.image = 0, !.ram = {}]),
          Chunk("SNEF", k.image), Chunk("SNER", k.ram)>>)

read_snet_chunk(s, b) ==
  ReadDevice(s, "spectranet",
    [b EXCEPT !.image = Device(s, "spectranet").image,
              !.ram = Device(s, "spectranet").ram])
read_snef_chunk(s, image) ==
  ReadDevice(s, "spectranet", [Device(s, "spectranet") EXCEPT !.image = image])
read_sner_chunk(s, ram) ==
  ReadDevice(s, "spectranet", [Device(s, "spectranet") EXCEPT !.ram = ram])

\* A page of the dock, or of the EXROM, is written if the cartridge has it;
\* there is no chunk for the dock itself, which the first page switches on.
DOCK_PAGES == 8

write_dock_chunks(s) ==
  LET k == Device(s, "dock")
      chunk(p) == When(p \in k.ram, <<Chunk("DOCK", p)>>)
  IN  When(k.active, FlattenSeq([i \in 1 .. DOCK_PAGES |-> chunk(i - 1)]))

read_dock_chunk(s, p) ==
  IF p >= DOCK_PAGES THEN Error(s, "CORRUPT")
  ELSE ReadDevice(s, "dock", [Device(s, "dock") EXCEPT !.active = TRUE,
                                                       !.ram = @ \union {p}])

\* The Multiface knows two models; on a machine with +3 paging the second one
\* is read as a Multiface 3.
MultifaceWritable(k) == k.image \in {8, 16}

write_mfce_chunk(s) ==
  LET k == Device(s, "multiface")
  IN  DeviceChunk(s, "multiface", "MFCE",
                  [k EXCEPT !.regs = IF k.regs = 1 THEN 1 ELSE 128])

read_mfce_chunk(s, b) ==
  ReadDevice(s, "multiface",
    [b EXCEPT !.regs = IF b.regs = 128 /\ s.machine \in PLUS3_MEMORY THEN 3
                       ELSE @])

-----------------------------------------------------------------------------
(* The file.                                                               *)

\* uSource, DISCiPLE and Didaktik 80 are not saved at all.
NotInSzx == { "usource", "disciple", "didaktik" }

SzxLoss(s) ==
  UNION { IF \E d \in NotInSzx : Active(s, d) THEN {"MAJOR"} ELSE {},
          JoystickLoss(s), RomLoss(s) }

\* The devices whose writer gives up with LIBSPECTRUM_ERROR_LOGIC.
SzxWritable(s) ==
  /\ Active(s, "if1") => If1Writable(Device(s, "if1"))
  /\ \A d \in { "opus", "plusd" } : Active(s, d) => MgtWritable(Device(s, d))
  /\ \A d \in { "divide", "divmmc" } : Active(s, d) => DivWritable(Device(s, d))
  /\ Active(s, "multiface") => MultifaceWritable(Device(s, "multiface"))

SzxChunks(s, packed) ==
  FlattenSeq(
    << write_file_header(s),
       write_z80r_chunk(s), write_spcr_chunk(s), write_joy_chunk(s),
       write_keyb_chunk(s), write_rom_chunk(s), write_ram_pages(s),
       write_ay_chunk(s), write_scld_chunk(s), write_b128_chunk(s),
       write_zxat_chunk(s), write_zxcf_chunk(s), write_if2r_chunk(s),
       write_dock_chunks(s), write_if1_chunk(s, packed), write_opus_chunk(s),
       write_plsd_chunk(s), write_amxm_chunk(s), write_side_chunk(s),
       write_drum_chunk(s), write_dide_chunk(s), write_dmmc_chunk(s),
       write_spectranet_chunks(s), write_zxpr_chunk(s), write_covx_chunk(s),
       write_mfce_chunk(s), write_pltt_chunk(s), write_zmmc_chunk(s) >>)

libspectrum_szx_write(s, packed) ==
  IF SzxWritable(s)
  THEN [err |-> "NONE", flags |-> SzxLoss(s), file |-> SzxChunks(s, packed)]
  ELSE [err |-> "LOGIC", flags |-> SzxLoss(s), file |-> <<>>]

\* The table read_chunks[]; a chunk it does not have is skipped.
SzxReadChunk(s, c) ==
  CASE c.id = "ZXST" -> read_file_header(s, c.body)
    [] c.id = "Z80R" -> read_z80r_chunk(s, c.body)
    [] c.id = "SPCR" -> read_spcr_chunk(s, c.body)
    [] c.id = "JOY"  -> read_joy_chunk(s, c.body)
    [] c.id = "KEYB" -> read_keyb_chunk(s, c.body)
    [] c.id = "ROM"  -> read_rom_chunk(s, c.body)
    [] c.id = "RAMP" -> read_ramp_chunk(s, c.body)
    [] c.id = "AY"   -> read_ay_chunk(s, c.body)
    [] c.id = "SCLD" -> read_scld_chunk(s, c.body)
    [] c.id = "B128" -> read_b128_chunk(s, c.body)
    [] c.id = "ZXAT" -> read_zxat_chunk(s, c.body)
    [] c.id = "ATRP" -> read_atrp_chunk(s, c.body)
    [] c.id = "ZXCF" -> read_zxcf_chunk(s, c.body)
    [] c.id = "CFRP" -> read_cfrp_chunk(s, c.body)
    [] c.id = "IF2R" -> read_if2r_chunk(s, c.body)
    [] c.id = "DOCK" -> read_dock_chunk(s, c.body)
    [] c.id = "IF1"  -> read_if1_chunk(s, c.body)
    [] c.id = "OPUS" -> read_opus_chunk(s, c.body)
    [] c.id = "PLSD" -> read_plsd_chunk(s, c.body)
    [] c.id = "AMXM" -> read_amxm_chunk(s, c.body)
    [] c.id = "SIDE" -> read_side_chunk(s, c.body)
    [] c.id = "DRUM" -> read_drum_chunk(s, c.body)
    [] c.id = "DIDE" -> read_dide_chunk(s, c.body)
    [] c.id = "DIRP" -> read_dirp_chunk(s, c.body)
    [] c.id = "DMMC" -> read_dmmc_chunk(s, c.body)
    [] c.id = "DMRP" -> read_dmrp_chunk(s, c.body)
    [] c.id = "SNET" -> read_snet_chunk(s, c.body)
    [] c.id = "SNEF" -> read_snef_chunk(s, c.body)
    [] c.id = "SNER" -> read_sner_chunk(s, c.body)
    [] c.id = "ZXPR" -> read_zxpr_chunk(s, c.body)
    [] c.id = "COVX" -> read_covx_chunk(s, c.body)
    [] c.id = "MFCE" -> read_mfce_chunk(s, c.body)
    [] c.id = "PLTT" -> read_pltt_chunk(s, c.body)
    [] c.id = "ZMMC" -> read_zmmc_chunk(s, c.body)
    [] OTHER -> Ok(s)

-----------------------------------------------------------------------------
(* The chunks of other programs, as far as the readers trust the fields    *)
(* they take from them: numbers of the width they have in the file, codes  *)
(* that were looked up.                                                    *)

SzxMemoryPages == { "ATRP", "CFRP", "DIRP", "DMRP", "DOCK" }
SzxDevices ==
  { "B128", "ZXAT", "ZXCF", "IF2R", "OPUS", "PLSD", "AMXM", "SIDE", "DRUM",
    "DIDE", "DMMC", "SNET", "ZXPR", "COVX", "MFCE", "PLTT", "ZMMC" }
SzxJoysticks == JoystickTypes \union { "NONE" }

IsSzxChunk(c) ==
  /\ c.id = "ZXST" => c.body.machine \in Machines
  /\ c.id = "Z80R" => c.body.sp \in Addresses
  /\ c.id = "JOY"  => {c.body.one, c.body.two} \subseteq SzxJoysticks
  /\ c.id = "KEYB" => c.body.type \in SzxJoysticks
  /\ c.id = "ROM"  => c.body.length \in Nat
  /\ c.id = "RAMP" => c.body.page \in Nat
  /\ c.id = "AY"   => {c.body.fuller, c.body.melodik} \subseteq BOOLEAN
  /\ c.id = "IF1"  => /\ {c.body.paged, c.body.packed} \subseteq BOOLEAN
                      /\ {c.body.drives, c.body.length} \subseteq Nat
  /\ c.id = "SNEF" => c.body \in Nat
  /\ c.id = "SNER" => c.body \subseteq Nat
  /\ c.id \in SzxMemoryPages => c.body \in Nat
  /\ c.id \in SzxDevices => IsDevice(c.body)
=============================================================================
