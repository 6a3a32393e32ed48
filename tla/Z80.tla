-------------------------------- MODULE Z80 ---------------------------------
(***************************************************************************)
(* The .z80 format (z80.c): a header of one of three versions, a block for *)
(* every 16K page and, at the end, the data of a level loader (.slt).      *)
(* Files are written with a version 3 header only.                         *)
(*                                                                         *)
(* A file is a sequence of chunks: HEADER, then PAGE and SLT blocks, or    *)
(* the one block RAM48 of version 1.  Run-length coding gives back what it *)
(* was given and is left out.                                              *)
(***************************************************************************)
EXTENDS Snapshot

UnknownMachine == <<"unknown", {}>>

-----------------------------------------------------------------------------
(* The machine a header names, with the interface it names with it.        *)

get_machine_type_v2(type) ==
  CASE type \in {0, 2} -> <<"48", {}>>
    [] type = 1 -> <<"48", {"if1"}>>
    [] type = 3 -> <<"128", {}>>
    [] type = 4 -> <<"128", {"if1"}>>
    [] OTHER -> UnknownMachine

\* 0 and 1 are DISCiPLEs, which are not supported; 16 is a +D.
get_mgt_type(machine, mgt) ==
  CASE mgt \in {0, 1} -> <<machine, {}>>
    [] mgt = 16 -> <<machine, {"plusd"}>>
    [] OTHER -> UnknownMachine

get_machine_type_v3(type, mgt) ==
  CASE type \in {0, 2} -> <<"48", {}>>
    [] type = 1 -> <<"48", {"if1"}>>
    [] type = 3 -> get_mgt_type("48", mgt)
    [] type = 4 -> <<"128", {}>>
    [] type = 5 -> <<"128", {"if1"}>>
    [] type = 6 -> get_mgt_type("128", mgt)

get_machine_type_extension(type) ==
  CASE type \in {7, 8} -> <<"PLUS3", {}>>
    [] type = 9   -> <<"PENT", {}>>
    [] type = 10  -> <<"SCORP", {}>>
    [] type = 12  -> <<"PLUS2", {}>>
    [] type = 13  -> <<"PLUS2A", {}>>
    [] type = 14  -> <<"TC2048", {}>>
    [] type = 15  -> <<"TC2068", {}>>
    [] type = 128 -> <<"TS2068", {}>>
    [] OTHER -> UnknownMachine

Z80_MACHINE_FIRST_EXTENSION == 7

get_machine_type(b) ==
  CASE b.type >= Z80_MACHINE_FIRST_EXTENSION -> get_machine_type_extension(b.type)
    [] b.type < Z80_MACHINE_FIRST_EXTENSION /\ b.version = 2
         -> get_machine_type_v2(b.type)
    [] OTHER -> get_machine_type_v3(b.type, b.mgt)

\* Bit 7 of the flags: the machine with less memory, or without the drive.
Modified(machine) ==
  CASE machine = "48" -> "16"
    [] machine = "128" -> "PLUS2"
    [] machine = "PLUS3" -> "PLUS2A"
    [] OTHER -> machine

-----------------------------------------------------------------------------
(* The joystick: one code for one joystick.                                *)

get_joystick_type_v1(code) == << "CURSOR", "KEMPSTON", "SINCLAIR_2", "SINCLAIR_1" >>[code + 1]

\* Code 2 is a table of keys: it is a joystick only if they are those of the
\* left port of the Interface 2.
get_joystick_type_v3(code, if2_left) ==
  CASE code = 2 -> IF if2_left THEN "SINCLAIR_2" ELSE "NONE"
    [] OTHER -> << "CURSOR", "KEMPSTON", "NONE", "SINCLAIR_1" >>[code + 1]

get_joystick_type(b) ==
  LET type == IF b.version = 3 THEN get_joystick_type_v3(b.joystick, b.if2_left)
                               ELSE get_joystick_type_v1(b.joystick)
  IN  IF type = "NONE" THEN <<>>
      ELSE <<[type |-> type,
              inputs |-> IF b.version = 1 THEN {} ELSE {"KEYBOARD", "JOYSTICK_1"}]>>

-----------------------------------------------------------------------------
(* The time in the frame: the quarter, counted from 3, and what is left of *)
(* the quarter, less one.                                                  *)

Quarter(machine) == libspectrum_timings_tstates_per_frame(machine) \div 4

WrittenTime(t, quarter) ==
  [low |-> quarter - (t % quarter) - 1, high |-> ((t \div quarter) + 3) % 4]

\* A time before the frame is, unsigned, one after it: neither is kept.
ReadTime(low, high, quarter) ==
  LET t == (((high + 1) % 4) + 1) * quarter - (low + 1)
  IN  IF t \in 0 .. 4 * quarter - 1 THEN t ELSE 0

-----------------------------------------------------------------------------
(* Reading.                                                                *)

ReadBase(s, b) ==
  [s EXCEPT !.regs = b.regs, !.sp = b.sp, !.iff1 = b.iff1, !.iff2 = b.iff2,
            !.issue2 = b.issue2, !.border = b.border,
            !.joysticks = get_joystick_type(b)]

\* Of at most one device.
SwitchOn(s, devices) ==
  IF devices = {} THEN s
  ELSE LET d == CHOOSE e \in devices : TRUE
       IN  SetDevice(s, d, [Device(s, d) EXCEPT !.active = TRUE])

\* Ports, sound and the page of the +D, for a snapshot whose machine is known.
ReadPorts(s, b) ==
  LET m      == s.machine
      fuller == {"fuller", "ay"} \subseteq b.hardware
      sound  == CASE fuller -> {"fuller"}
                  [] ~fuller /\ "ay" \in b.hardware -> {"melodik"}
                  [] OTHER -> {}
      s1     == SwitchOn(IF b.mgt_paged /\ Active(s, "plusd")
                         THEN SetDevice(s, "plusd", [Device(s, "plusd") EXCEPT !.paged = TRUE])
                         ELSE s, sound)
  IN  [s1 EXCEPT
         !.port_128 = IF m \in MEMORY_128 THEN b.port ELSE @,
         !.scld_hsr = IF m \in TIMEX_MEMORY THEN b.port ELSE @,
         !.scld_dec = IF m \in TIMEX_VIDEO THEN b.scld_dec ELSE @,
         !.ay = IF HasAy(s1) THEN b.ay ELSE @,
         !.port_plus3 = IF b.long /\ m \in PLUS3_MEMORY \union SCORP_MEMORY
                        THEN b.port_plus3 ELSE @]

\* The quarter is that of the machine named, before bit 7 changes it.
read_header(s, b) ==
  LET base  == ReadBase(s, b)
      named == get_machine_type(b)
      time  == IF b.version = 3 THEN ReadTime(b.low, b.high, Quarter(named[1]))
               ELSE base.tstates
      machine == IF "modified" \in b.hardware THEN Modified(named[1]) ELSE named[1]
  IN  CASE b.version = 1 -> Ok([base EXCEPT !.machine = "48"])
        [] b.version # 1 /\ named = UnknownMachine -> Error(base, "UNKNOWN")
        [] OTHER ->
             Ok(ReadPorts(SwitchOn([base EXCEPT !.machine = machine, !.tstates = time],
                                   named[2]), b))

\* A mutant: the blocks of a 48K machine are numbered like those of a 128K one.
PageOfBlockSame(machine, page) ==
  IF page < 3 \/ (page = 11 /\ machine \notin SCORP_MEMORY) THEN {} ELSE {page - 3}

\* The RAM page a block of the file is for, if it is for one.
PageOfBlock(machine, page) ==
  CASE \/ page < 3
       \/ page = 11 /\ machine \notin SCORP_MEMORY
       \/ page = 3 /\ machine \notin MEMORY_128 -> {}
    [] page = 4 /\ machine \notin MEMORY_128 -> {2}
    [] page = 5 /\ machine \notin MEMORY_128 -> {0}
    [] OTHER -> {page - 3}

\* The first block is the ROM of the interface that is there, or a ROM nobody
\* wants; a RAM page comes once.
read_block(s, b) ==
  LET ram == PageOfBlock(s.machine, b.page)
  IN  CASE b.page \notin 1 .. 18 -> Error(s, "UNKNOWN")
        [] b.page = 1 /\ Active(s, "if1") ->
             Ok(SetDevice(s, "if1", [Device(s, "if1") EXCEPT !.custom = TRUE, !.image = 16]))
        [] b.page = 1 /\ Active(s, "plusd") /\ ~Active(s, "if1") ->
             Ok(SetDevice(s, "plusd", [Device(s, "plusd") EXCEPT !.image = 8, !.ram = {0}]))
        [] b.page \in 2 .. 18 /\ ram \intersect DOMAIN s.pages # {} ->
             Error(s, "CORRUPT")
        [] OTHER ->
             Ok([s EXCEPT !.pages = Over([p \in ram |-> b.data], @)])

\* Version 1: the whole memory.
read_v1_block(s, pages) == Ok([s EXCEPT !.pages = pages])

\* Levels, in a block that ends the file.  A directory that begins with the
\* length of the signature names an entry of no known type.
read_slt(s, b) ==
  IF b.directory THEN Ok([s EXCEPT !.slt = b.levels]) ELSE Error(s, "UNKNOWN")

Z80ReadChunk(s, c) ==
  CASE c.id = "HEADER" -> read_header(s, c.body)
    [] c.id = "RAM48"  -> read_v1_block(s, c.body)
    [] c.id = "PAGE"   -> read_block(s, c.body)
    [] c.id = "SLT"    -> read_slt(s, c.body)

\* When every block has been read (the Beta disk is never there).
Z80ReadEnd(s) ==
  IF Active(s, "if1")
  THEN SetDevice(s, "if1", [Device(s, "if1") EXCEPT !.regs = 8])
  ELSE s

-----------------------------------------------------------------------------
(* Writing.                                                                *)

\* What the format does not store, by how much the writer says is lost.
MinorInZ80 == { "plusd" }
MajorInZ80 ==
  { "beta", "opus", "zxatasp", "zxcf", "simpleide", "divide", "if2", "dock",
    "specdrum", "spectranet", "usource", "disciple", "didaktik", "covox",
    "ulaplus", "multiface", "divmmc", "zxmmc" }

StateLoss(s) ==
  UNION { IF s.latch # {} \/ s.late \/ \E d \in MinorInZ80 : Active(s, d)
            THEN {"MINOR"} ELSE {},
          IF s.custom_rom \/ \E d \in MajorInZ80 : Active(s, d)
            THEN {"MAJOR"} ELSE {} }

Z80_JOYSTICKS == << "CURSOR", "KEMPSTON", "SINCLAIR_2", "SINCLAIR_1" >>

\* One joystick of four kinds; any other is written with the code of the first.
BaseHeaderLoss(s) ==
  IF \/ Len(s.joysticks) # 1
     \/ libspectrum_snap_joystick_list(s, 1) \notin Range(Z80_JOYSTICKS)
  THEN {"MINOR"} ELSE {}

JoystickCode(s) ==
  LET type == libspectrum_snap_joystick_list(s, 1)
  IN  IF type \in Range(Z80_JOYSTICKS)
      THEN (CHOOSE i \in 1 .. 4 : Z80_JOYSTICKS[i] = type) - 1
      ELSE 0

write_base_header(s) ==
  [regs |-> s.regs, sp |-> s.sp, iff1 |-> s.iff1, iff2 |-> s.iff2,
   issue2 |-> s.issue2, border |-> s.border, joystick |-> JoystickCode(s)]

MachineLoss(s) ==
  UNION { IF s.machine \in { "48_NTSC", "SE", "128E" } THEN {"MAJOR"} ELSE {},
          IF \/ s.machine = "PLUS3E"
             \/ s.machine \in { "PLUS2", "TC2048" } /\ Active(s, "if1")
            THEN {"MINOR"} ELSE {},
          IF s.machine \in TIMEX_VIDEO /\ Active(s, "if1") /\ Device(s, "if1").paged
            THEN {"MAJOR"} ELSE {} }

\* The interface changes the byte of a 48K and of a 128K machine.
WithInterface(s, plain, if1, mgt) ==
  CASE Active(s, "plusd") -> mgt
    [] Active(s, "if1") /\ ~Active(s, "plusd") -> if1
    [] OTHER -> plain

MachineByte(s) ==
  CASE s.machine \in { "16", "48", "48_NTSC" } -> WithInterface(s, 0, 1, 3)
    [] s.machine \in { "128", "SE", "128E" }   -> WithInterface(s, 4, 5, 6)
    [] s.machine \in { "PLUS3", "PLUS3E" }     -> 7
    [] s.machine \in { "PENT", "PENT512", "PENT1024" } -> 9
    [] s.machine = "SCORP"  -> 10
    [] s.machine = "PLUS2"  -> 12
    [] s.machine = "PLUS2A" -> 13
    [] s.machine = "TC2048" -> 14
    [] s.machine = "TC2068" -> 15
    [] s.machine = "TS2068" -> 128

\* The machines with a second memory port in the header; the reader takes it
\* from the +3 and the Scorpion only.
SecondMemoryPort ==
  { "PLUS2A", "PLUS3", "PLUS3E", "PENT", "PENT512", "PENT1024", "SCORP" }

write_extended_header(s) ==
  LET time == WrittenTime(s.tstates, Quarter(s.machine))
  IN  [version |-> 3, long |-> s.machine \in SecondMemoryPort,
       type |-> MachineByte(s), mgt |-> IF Active(s, "plusd") THEN 16 ELSE 0,
       mgt_paged |-> Active(s, "plusd") /\ Device(s, "plusd").paged,
       port |-> CASE s.machine \in MEMORY_128 -> s.port_128
                  [] s.machine \in TIMEX_MEMORY -> s.scld_hsr
                  [] OTHER -> 0,
       scld_dec |->
         CASE s.machine \in TIMEX_VIDEO -> s.scld_dec
           [] s.machine \notin TIMEX_VIDEO /\ Active(s, "if1")
                /\ Device(s, "if1").paged -> 255
           [] OTHER -> 0,
       hardware |->
         UNION { IF s.machine = "16" THEN {"modified"} ELSE {},
                 IF Active(s, "fuller") THEN {"fuller", "ay"} ELSE {},
                 IF Active(s, "melodik") THEN {"ay"} ELSE {} },
       ay |-> s.ay, low |-> time.low, high |-> time.high,
       if2_left |-> libspectrum_snap_joystick_list(s, 2) = "SINCLAIR_2",
       port_plus3 |-> s.port_plus3]

write_header(s) ==
  <<Chunk("HEADER", Over(write_base_header(s), write_extended_header(s)))>>

Page(number, data) == <<Chunk("PAGE", [page |-> number, data |-> data])>>

\* The RAM pages of a machine with their numbers in the file.
BlocksInOrder(m) ==
  CASE m \notin MEMORY_128 -> << <<2, 4>>, <<0, 5>>, <<5, 8>> >>
    [] m \in SCORP_MEMORY  -> [i \in 1 .. 16 |-> <<i - 1, i + 2>>]
    [] OTHER               -> [i \in 1 .. 8 |-> <<i - 1, i + 2>>]

\* The pages of a 48K machine are written without asking whether they are
\* there, and so is a custom ROM: without them the writer reads from NULL.
Z80HasData(s) ==
  /\ s.machine \notin MEMORY_128 => {0, 2, 5} \subseteq DOMAIN s.pages
  /\ \A d \in { "if1", "plusd" } :
        Active(s, d) /\ Device(s, d).custom => Device(s, d).image # 0
  /\ Active(s, "plusd") /\ Device(s, "plusd").custom => 0 \in Device(s, "plusd").ram

write_pages(s) ==
  LET order    == BlocksInOrder(s.machine)
      block(i) == When(order[i][1] \in DOMAIN s.pages,
                       Page(order[i][2], s.pages[order[i][1]]))
      rom(d)   == When(Active(s, d) /\ Device(s, d).custom, Page(1, Blank))
  IN  rom("if1") \o rom("plusd") \o FlattenSeq([i \in DOMAIN order |-> block(i)])

\* The directory of the levels begins one byte late.
write_slt(s) ==
  When(s.slt # {}, <<Chunk("SLT", [levels |-> s.slt, directory |-> FALSE])>>)

libspectrum_z80_write2(s) ==
  IF Z80HasData(s)
  THEN [err |-> "NONE",
        flags |-> StateLoss(s) \union BaseHeaderLoss(s) \union MachineLoss(s),
        file |-> write_header(s) \o write_pages(s) \o write_slt(s)]
  ELSE [err |-> "CRASH", flags |-> {}, file |-> <<>>]

-----------------------------------------------------------------------------
\* The chunks of other programs: numbers of the width they have in the file.
IsZ80Chunk(c) ==
  \/ /\ c.id = "HEADER" /\ c.body.version \in 1 .. 3
     /\ {c.body.type, c.body.mgt} \subseteq 0 .. 255
     /\ c.body.joystick \in 0 .. 3 /\ c.body.sp \in Addresses
  \/ c.id = "PAGE" /\ c.body.page \in 0 .. 255
  \/ c.id \in { "RAM48", "SLT" }
=============================================================================
