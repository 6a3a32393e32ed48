-------------------------------- MODULE Tzx --------------------------------
(***************************************************************************)
(* Tapes as .tzx files: which chunks internal_tzx_write makes of each block *)
(* of a tape (tzx_write.c) and which block internal_tzx_read makes of each  *)
(* chunk (tzx_read.c).                                                      *)
(*                                                                         *)
(* A chunk is a record like a block, with its numbers as wide as they are   *)
(* in the file and its pause in ms.  `fits` tells that the count in front   *)
(* of its data is the length of the data; where it is not, a reader takes   *)
(* what is left over for the next chunk.                                    *)
(***************************************************************************)
EXTENDS TapeFormats

-----------------------------------------------------------------------------
(* Writing.                                                                 *)

Chunk(b, words, fits) ==
  [f \in DOMAIN b |-> IF f \in words THEN Word(b[f]) ELSE b[f]] @@ [fits |-> fits]

WithMs(b) == [b EXCEPT !.pause = libspectrum_tstates_to_ms(@)]

\* The data of most blocks has a count of three or four bytes.
\* Bound: it is never longer.
tzx_write_rom(b) == <<Chunk(WithMs(b), {"pause"}, Len(b.data) < WordValues)>>

tzx_write_turbo(b) ==
  <<Chunk(WithMs(b), {"pilot_length", "sync1_length", "sync2_length", "bit0_length",
                      "bit1_length", "pilot_pulses", "pause"}, TRUE)>>

tzx_write_data(b) == <<Chunk(WithMs(b), {"bit0_length", "bit1_length", "pause"}, TRUE)>>

tzx_write_raw_data(b) == <<Chunk(WithMs(b), {"bit_length", "pause"}, TRUE)>>

add_pure_tone_block(length, count) ==
  <<Chunk([type |-> "PURE_TONE", length |-> length, pulses |-> count],
          {"length", "pulses"}, TRUE)>>

tzx_write_pulses(lengths) ==
  <<Chunk([type |-> "PULSES", lengths |-> [i \in DOMAIN lengths |-> Word(lengths[i])]],
          {}, Len(lengths) < ByteValues)>>

add_set_signal_level_block(level) ==
  <<Chunk([type |-> "SET_SIGNAL_LEVEL", level |-> level], {}, TRUE)>>

\* A table is only in the file if the block has symbols from it.
TableRefused(symbols, table) ==
  symbols # 0 /\ Len(table) \notin 1 .. ByteValues

write_generalised_data_block(b) ==
  LET bytes == libspectrum_bits_to_bytes(b.bits_per_data_symbol * b.data_symbols)
  IN <<[type |-> "GENERALISED_DATA", fits |-> TRUE,
        pause |-> Word(libspectrum_tstates_to_ms(b.pause)),
        pilot |-> b.pilot, pilot_symbols_in_table |-> Byte(Len(b.pilot_table)),
        pilot_table |-> IF b.pilot = <<>> THEN <<>> ELSE b.pilot_table,
        data_symbols |-> b.data_symbols, data_symbols_in_table |-> Byte(Len(b.data_table)),
        data_table |-> IF b.data_symbols = 0 THEN <<>> ELSE b.data_table,
        data |-> SubSeq(b.data, 1, bytes)]>>

\* A pause of a .tzx file is low.
tzx_write_pause(b) ==
  IF b.level # 0
  THEN (IF b.level = 1 THEN add_set_signal_level_block(1) ELSE <<>>)
         \o add_pure_tone_block(b.length, 1)
  ELSE <<Chunk([type |-> "PAUSE", length |-> libspectrum_tstates_to_ms(b.length)],
               {"length"}, TRUE)>>

tzx_write_jump(b) == <<Chunk(b, {"offset"}, TRUE)>>

tzx_write_loop_start(b) == <<Chunk(b, {"count"}, TRUE)>>

\* A string has a byte for its length; its lines end otherwise in the file.
tzx_write_string(s) ==
  [i \in 1 .. Byte(Len(s)) |-> IF s[i] = "LF" THEN "CR" ELSE s[i]]

\* The bytes of texts, each with `more` bytes in front of it.
TextBytes(texts, more) == Total([i \in DOMAIN texts |-> more + Len(texts[i].text)])

\* The length in the file counts the id and itself, three bytes that are not
\* behind it, and all of each text, of which tzx_write_string may write less.
tzx_write_select(b) ==
  <<[type |-> "SELECT", fits |-> Len(b.choices) < ByteValues,
     length |-> Word(4 + TextBytes(b.choices, 3)),
     choices |-> [i \in DOMAIN b.choices |->
       [offset |-> Word(b.choices[i].offset), text |-> tzx_write_string(b.choices[i].text)]]]>>

\* The time is in ms, and written as if it were in seconds.
tzx_write_message(b) ==
  <<[type |-> "MESSAGE", fits |-> TRUE, time |-> Byte(b.time), text |-> tzx_write_string(b.text)]>>

tzx_write_archive_info(b) ==
  <<[type |-> "ARCHIVE_INFO", fits |-> Len(b.strings) < ByteValues,
     strings |-> [i \in DOMAIN b.strings |->
       [b.strings[i] EXCEPT !.text = tzx_write_string(@)]]]>>

\* GROUP_START and COMMENT.
tzx_write_comment(b) == <<[b EXCEPT !.text = tzx_write_string(@)] @@ [fits |-> TRUE]>>

tzx_write_hardware(b) == <<Chunk(b, {}, Len(b.machines) < ByteValues)>>

\* GROUP_END, LOOP_END and STOP48, and CUSTOM, whose bytes are copied.
tzx_write_as_is(b) == <<Chunk(b, {}, TRUE)>>

-----------------------------------------------------------------------------
(* Writing blocks of other formats, as what comes nearest.                  *)

\* A mutant of write_pulse: a pulse of no length does not turn the level.
write_pulse_if_any(state, n) ==
  IF n = 0 THEN state
  ELSE [state EXCEPT !.bits = @ \o [i \in 1 .. n |-> state.level], !.level = 1 - @]

write_pulse(state, n) ==
  [state EXCEPT !.bits = @ \o [i \in 1 .. n |-> state.level], !.level = 1 - @]

InBytes(bits) ==
  [i \in 1 .. libspectrum_bits_to_bytes(Len(bits)) |->
     [k \in 1 .. BitsInByte |->
        LET n == (i - 1) * BitsInByte + k IN IF n \in DOMAIN bits THEN bits[n] ELSE 0]]

\* RLE_PULSE as RAW_DATA: the edges of the block, each rounded to bits.
tzx_write_rle(b) ==
  LET step(state, edge) ==
        LET t == state.balance + edge
        IN [write_pulse(state, t \div b.scale) EXCEPT !.balance = t % b.scale]
      bits == FoldLeft(step, [bits |-> <<>>, level |-> 0, balance |-> 0], RleLengths(b)).bits
      used == Len(bits) % BitsInByte
  IN IF bits = <<>> THEN <<>>
     ELSE tzx_write_raw_data(
            [type |-> "RAW_DATA", bit_length |-> b.scale, pause |-> 0,
             bits_in_last_byte |-> IF used = 0 THEN BitsInByte ELSE used,
             data |-> InBytes(bits)])

Flush(state) ==
  IF state.queue = <<>> THEN state
  ELSE [queue |-> <<>>, chunks |-> state.chunks \o tzx_write_pulses(state.queue)]

\* A mutant of AddPulse: the pulses that wait are written after the tone.
AddPulseQueued(state, length, repeats) ==
  IF repeats > 1
  THEN [state EXCEPT !.chunks = @ \o add_pure_tone_block(length, repeats)]
  ELSE [state EXCEPT !.queue = Append(@, length)]

AddPulse(state, length, repeats) ==
  IF repeats > 1
  THEN [Flush(state) EXCEPT !.chunks = @ \o add_pure_tone_block(length, repeats)]
  ELSE [state EXCEPT !.queue = Append(@, length)]

tzx_write_pulse_sequence(b) ==
  LET step(state, i) == AddPulse(state, b.lengths[i], b.pulse_repeats[i])
      start == [queue |-> <<>>, chunks |-> add_set_signal_level_block(0)]
  IN Flush(FoldLeft(step, start, [i \in DOMAIN b.lengths |-> i])).chunks

EqualPulses(pulses) == Len(pulses) = 2 /\ pulses[1] = pulses[2]

\* Both symbols are written with as many pulses as the longer one has; the
\* shorter one's array ends before, and `heap` is what lies behind it.
DataSymbol(pulses, most, heap) ==
  [edge_type |-> "EDGE",
   lengths |-> pulses \o [i \in 1 .. most - Len(pulses) |-> heap]]

Longer(p, q) == IF Len(p) > Len(q) THEN Len(p) ELSE Len(q)

DataBlockBits(b) ==
  IF b.data = <<>> THEN 0 ELSE (Len(b.data) - 1) * BitsInByte + b.bits_in_last_byte

\* DATA_BLOCK as PURE_DATA if it can be, else as GENERALISED_DATA.
tzx_write_data_block(b, heap) ==
  LET most == Longer(b.bit0_pulses, b.bit1_pulses)
      data ==
        IF EqualPulses(b.bit0_pulses) /\ EqualPulses(b.bit1_pulses)
        THEN tzx_write_data(
               [type |-> "PURE_DATA", bit0_length |-> b.bit0_pulses[1],
                bit1_length |-> b.bit1_pulses[1], pause |-> 0,
                bits_in_last_byte |-> b.bits_in_last_byte, data |-> b.data])
        ELSE write_generalised_data_block(
               [pause |-> 0, pilot |-> <<>>, pilot_table |-> <<>>,
                bits_per_data_symbol |-> 1, data_symbols |-> DataBlockBits(b),
                data_table |-> <<DataSymbol(b.bit0_pulses, most, heap),
                                 DataSymbol(b.bit1_pulses, most, heap)>>,
                data |-> b.data])
  IN add_set_signal_level_block(b.initial_level) \o data
       \o (IF b.tail_length = 0 THEN <<>> ELSE add_pure_tone_block(b.tail_length, 1))

-----------------------------------------------------------------------------
AsIs == { "GROUP_END", "LOOP_END", "STOP48", "CUSTOM" }

tzx_write_block(b, heap) ==
  CASE b.type = "ROM"              -> tzx_write_rom(b)
    [] b.type = "TURBO"            -> tzx_write_turbo(b)
    [] b.type = "PURE_TONE"        -> add_pure_tone_block(b.length, b.pulses)
    [] b.type = "PULSES"           -> tzx_write_pulses(b.lengths)
    [] b.type = "PURE_DATA"        -> tzx_write_data(b)
    [] b.type = "RAW_DATA"         -> tzx_write_raw_data(b)
    [] b.type = "GENERALISED_DATA" -> write_generalised_data_block(b)
    [] b.type = "PAUSE"            -> tzx_write_pause(b)
    [] b.type = "JUMP"             -> tzx_write_jump(b)
    [] b.type = "LOOP_START"       -> tzx_write_loop_start(b)
    [] b.type = "SELECT"           -> tzx_write_select(b)
    [] b.type = "SET_SIGNAL_LEVEL" -> add_set_signal_level_block(b.level)
    [] b.type \in { "GROUP_START", "COMMENT" } -> tzx_write_comment(b)
    [] b.type = "MESSAGE"          -> tzx_write_message(b)
    [] b.type = "ARCHIVE_INFO"     -> tzx_write_archive_info(b)
    [] b.type = "HARDWARE"         -> tzx_write_hardware(b)
    [] b.type = "RLE_PULSE"        -> tzx_write_rle(b)
    [] b.type = "PULSE_SEQUENCE"   -> tzx_write_pulse_sequence(b)
    [] b.type = "DATA_BLOCK"       -> tzx_write_data_block(b, heap)
    [] b.type \in AsIs             -> tzx_write_as_is(b)

Refused(b) ==
  b.type = "GENERALISED_DATA"
    /\ (TableRefused(Len(b.pilot), b.pilot_table)
          \/ TableRefused(b.data_symbols, b.data_table))

\* The code at the end of the data of a RLE_PULSE block may have less than its five bytes.
RleTruncated(b) ==
  LET at[i \in 1 .. Len(b.data) + 5] ==
        IF i > Len(b.data) THEN i > Len(b.data) + 1
        ELSE at[i + (IF b.data[i] = 0 THEN 5 ELSE 1)]
  IN at[1]

(* Why a block is not written.  Of RLE_PULSE every edge is divided by its     *)
(* scale, after it was found.                                               *)
Trouble(b) ==
  CASE Refused(b) -> "INVALID"
    [] b.type = "RLE_PULSE" /\ b.scale = 0 /\ (RleTruncated(b) => b.data[1] # 0) -> "CRASH"
    [] b.type = "RLE_PULSE" /\ RleTruncated(b) -> "LOGIC"
    [] OTHER -> "NONE"

internal_tzx_write(tape, heap) ==
  LET bad == SelectInSeq(tape, LAMBDA b : Trouble(b) # "NONE")
  IN IF bad # 0 THEN [file |-> <<>>, err |-> Trouble(tape[bad])]
  ELSE [file |-> FlattenSeq([i \in DOMAIN tape |-> tzx_write_block(tape[i], heap)]),
        err |-> "NONE"]

-----------------------------------------------------------------------------
(* Reading.                                                                 *)

Block(c) == [f \in DOMAIN c \ {"fits"} |-> c[f]]

\* A mutant of WithPause: its ms are its tstates.
WithPauseInMs(b) == b

WithPause(b) == [b EXCEPT !.pause = libspectrum_ms_to_tstates(@)]

\* A mutant of LastByte: what the file says.
LastByteAsRead(b, least) == b

\* No bits in the last byte: all of those before it.
LastByte(b, least) ==
  CASE b.bits_in_last_byte = 0 /\ Len(b.data) >= least ->
         [b EXCEPT !.bits_in_last_byte = BitsInByte, !.data = Front(@)]
    [] b.bits_in_last_byte > BitsInByte -> [b EXCEPT !.bits_in_last_byte = BitsInByte]
    [] OTHER -> b

tzx_read_rom_block(c)   == Adds(WithPause(Block(c)))
tzx_read_turbo_block(c) == Adds(WithPause(LastByte(Block(c), 1)))
tzx_read_raw_data(c)    == Adds(WithPause(LastByte(Block(c), 1)))
tzx_read_pure_data(c)   == Adds(WithPause(LastByte(Block(c), 2)))

\* A mutant of TableSize: no symbols are none.
TableSizeAsRead(symbols, size) == size

\* The parameters of a symbol table: no symbols are all symbols, if one is used.
TableSize(symbols, size) == IF symbols # 0 /\ size = 0 THEN ByteValues ELSE size

NoSymbol == [edge_type |-> "EDGE", lengths |-> <<>>]

SymbolTable(symbols, size, table) ==
  IF symbols # 0 THEN table ELSE [i \in 1 .. size |-> NoSymbol]

\* ceil( log( symbols ) / M_LN2 )
BitsPerSymbol(symbols) == Least({n \in 0 .. BitsInByte : 2 ^ n >= symbols})

\* Data of another length than the table gives: the rest is misread, and the model
\* gives up.
tzx_read_generalised_data(c) ==
  LET pilots == TableSize(Len(c.pilot), c.pilot_symbols_in_table)
      symbols == TableSize(c.data_symbols, c.data_symbols_in_table)
      bits == BitsPerSymbol(symbols)
  IN IF Len(c.data) # libspectrum_bits_to_bytes(bits * c.data_symbols) THEN Fails("CORRUPT")
     ELSE Adds([type |-> "GENERALISED_DATA",
                pause |-> libspectrum_ms_to_tstates(c.pause), pilot |-> c.pilot,
                pilot_table |-> SymbolTable(Len(c.pilot), pilots, c.pilot_table),
                data_table |-> SymbolTable(c.data_symbols, symbols, c.data_table),
                bits_per_data_symbol |-> bits, data_symbols |-> c.data_symbols,
                data |-> c.data])

tzx_read_pause(c) ==
  Adds([type |-> "PAUSE", length |-> libspectrum_ms_to_tstates(c.length), level |-> 0])

tzx_read_jump(c) ==
  Adds([Block(c) EXCEPT !.offset = IF 2 * @ >= WordValues THEN @ - WordValues ELSE @])

tzx_read_string(s) == [i \in DOMAIN s |-> IF s[i] = "CR" THEN "LF" ELSE s[i]]

\* The bytes of a chunk; of one with symbol tables, at least.
ChunkBytes(c) ==
  CASE c.type \in { "GROUP_END", "LOOP_END" } -> 1
    [] c.type \in { "GROUP_START", "COMMENT" } -> 2 + Len(c.text)
    [] c.type \in { "PAUSE", "JUMP", "LOOP_START" } -> 3
    [] c.type = "MESSAGE" -> 3 + Len(c.text)
    [] c.type \in { "PURE_TONE", "STOP48" } -> 5
    [] c.type = "SET_SIGNAL_LEVEL" -> 6
    [] c.type = "CONCAT" -> 10
    [] c.type = "PULSES" -> 2 + 2 * Len(c.lengths)
    [] c.type = "HARDWARE" -> 2 + 3 * Len(c.machines)
    [] c.type = "ARCHIVE_INFO" -> 4 + TextBytes(c.strings, 2)
    [] c.type = "SELECT" -> 4 + TextBytes(c.choices, 3)
    [] c.type = "ROM" -> 5 + Len(c.data)
    [] c.type = "RAW_DATA" -> 9 + Len(c.data)
    [] c.type = "PURE_DATA" -> 11 + Len(c.data)
    [] OTHER -> 19

\* The length is only looked at to see whether the file has as many bytes behind it.
tzx_read_select(c, rest) ==
  IF 1 + TextBytes(c.choices, 3) + Total([i \in DOMAIN rest |-> ChunkBytes(rest[i])]) < c.length
  THEN Fails("CORRUPT")
  ELSE Adds([type |-> "SELECT",
             choices |-> [i \in DOMAIN c.choices |->
               [c.choices[i] EXCEPT !.text = tzx_read_string(@)]]])

tzx_read_set_signal_level(c) == Adds([Block(c) EXCEPT !.level = IF @ = 0 THEN 0 ELSE 1])

\* GROUP_START and COMMENT.
tzx_read_comment(c) == Adds([Block(c) EXCEPT !.text = tzx_read_string(@)])

tzx_read_message(c) ==
  Adds([Block(c) EXCEPT !.time = @ * MsPerSecond, !.text = tzx_read_string(@)])

tzx_read_archive_info(c) ==
  Adds([Block(c) EXCEPT !.strings =
    [i \in DOMAIN @ |-> [@[i] EXCEPT !.text = tzx_read_string(@)]]])

\* What the other chunks hold is what their blocks hold.
tzx_read_as_is(c) == Adds(Block(c))

\* A count in front of the data that is too small: the model takes what is left
\* over for something that no chunk begins with.
TzxReadChunk(c, rest) ==
  CASE ~c.fits                    -> Fails("UNKNOWN")
    [] c.fits /\ c.type = "ROM"   -> tzx_read_rom_block(c)
    [] c.type = "TURBO"           -> tzx_read_turbo_block(c)
    [] c.type = "RAW_DATA"        -> tzx_read_raw_data(c)
    [] c.type = "PURE_DATA"       -> tzx_read_pure_data(c)
    [] c.type = "GENERALISED_DATA" -> tzx_read_generalised_data(c)
    [] c.type = "PAUSE"           -> tzx_read_pause(c)
    [] c.type = "JUMP"            -> tzx_read_jump(c)
    [] c.fits /\ c.type = "SELECT" -> tzx_read_select(c, rest)
    [] c.type = "SET_SIGNAL_LEVEL" -> tzx_read_set_signal_level(c)
    [] c.type \in { "GROUP_START", "COMMENT" } -> tzx_read_comment(c)
    [] c.type = "MESSAGE"         -> tzx_read_message(c)
    [] c.fits /\ c.type = "ARCHIVE_INFO" -> tzx_read_archive_info(c)
    [] c.type = "CONCAT"          -> Skipped
    [] c.fits /\ c.type \in {"PURE_TONE", "LOOP_START", "PULSES", "HARDWARE"} \union AsIs ->
         tzx_read_as_is(c)
    [] OTHER                      -> Fails("UNKNOWN")
=============================================================================
