---------------------------- MODULE TapeBlocks ----------------------------
(***************************************************************************)
(* The blocks of a tape: how libspectrum_tape_block_init starts each type   *)
(* that holds pulses (tape_block.c), which edges it then returns (the       *)
(* ..._edge functions of tape.c), and what libspectrum_tape_block_length    *)
(* says of it.                                                              *)
(*                                                                         *)
(* What these pulses are to sound like is in TapePulses.                    *)
(*                                                                         *)
(* A byte is the sequence of its bits, the first one on the tape first;     *)
(* where the code shifts a byte out, the state has the bits that are left.  *)
(***************************************************************************)
EXTENDS Integers, Sequences, SequencesExt

CONSTANTS
  BitsInByte,                            \* LIBSPECTRUM_BITS_IN_BYTE
  TimingPilot, TimingSync1, TimingSync2, \* LIBSPECTRUM_TAPE_TIMING_...
  TimingData0, TimingData1,
  PilotsHeader, PilotsData               \* LIBSPECTRUM_TAPE_PILOTS_...

ASSUME TimingAssumption ==
  /\ BitsInByte \in Nat \ {0}
  /\ {TimingPilot, TimingSync1, TimingSync2, TimingData0, TimingData1} \subseteq Nat \ {0}
  /\ {PilotsHeader, PilotsData} \subseteq Nat \ {0}

Least(S) == CHOOSE n \in S : \A m \in S : n <= m

Total(lengths) == FoldLeft(LAMBDA sum, n : sum + n, 0, lengths)

(* What a call returns: the state it leaves, tstates, the flags, and whether *)
(* that was the block's last edge.                                          *)
EdgeOf(st, t, flags, end) == [st |-> st, tstates |-> t, flags |-> flags, end |-> end]

TailPause(st, t) == EdgeOf(st, t, IF t = 0 THEN {"NO_EDGE"} ELSE {}, TRUE)

-----------------------------------------------------------------------------
(* ROM, TURBO, PURE_DATA, DATA_BLOCK: pilot and sync, then bit by bit.       *)

\* A ROM block is a turbo block with the timings of the ROM loader.
Timing(b) ==
  IF b.type # "ROM" THEN b
  ELSE [pilot_length |-> TimingPilot, sync1_length |-> TimingSync1,
        sync2_length |-> TimingSync2, bit0_length |-> TimingData0,
        bit1_length |-> TimingData1, bits_in_last_byte |-> BitsInByte,
        pilot_pulses |-> IF b.data # <<>> /\ Head(b.data)[1] = 1
                         THEN PilotsData ELSE PilotsHeader]

BitLength(b, bit) == IF bit = 1 THEN Timing(b).bit1_length ELSE Timing(b).bit0_length

BeforeData(state, pilots) ==
  [state |-> state, edge_count |-> pilots, bytes |-> -1, bits |-> BitsInByte - 1,
   byte |-> <<>>, bit |-> 0, index |-> 0]

LoadBit(st) ==
  [st EXCEPT !.state = "DATA1", !.bit = Head(st.byte), !.byte = Tail(@), !.index = 0]

NextBit(b, st) ==
  LET next == st.bytes + 1
      unused == IF next = Len(b.data) - 1 THEN BitsInByte - Timing(b).bits_in_last_byte ELSE 0
  IN IF st.bits + 1 # BitsInByte THEN LoadBit([st EXCEPT !.bits = @ + 1])
     ELSE IF next = Len(b.data)
     THEN [st EXCEPT !.bits = @ + 1, !.bytes = next,
                     !.state = IF b.type = "DATA_BLOCK" THEN "TAIL" ELSE "PAUSE"]
     ELSE LoadBit([st EXCEPT !.bytes = next, !.byte = b.data[next + 1], !.bits = unused])

(* The two edges of a bit. *)
BitEdge(b, st) ==
  LET t == BitLength(b, st.bit)
  IN EdgeOf(IF st.state = "DATA1" THEN [st EXCEPT !.state = "DATA2"] ELSE NextBit(b, st),
            t, {IF t = BitLength(b, 0) THEN "LENGTH_SHORT" ELSE "LENGTH_LONG"}, FALSE)

(* The turbo loader looks for a pilot edge before it counts it, the ROM      *)
(* loader after.                                                            *)
PilotEdge(b, st) ==
  LET left == [st EXCEPT !.edge_count = @ - 1]
  IN IF b.type = "TURBO" /\ st.edge_count = 0
     THEN EdgeOf([left EXCEPT !.state = "SYNC2"], Timing(b).sync1_length, {}, FALSE)
     ELSE EdgeOf(IF b.type = "ROM" /\ left.edge_count = 0
                 THEN [left EXCEPT !.state = "SYNC1"] ELSE left,
                 Timing(b).pilot_length, {}, FALSE)

LoaderEdge(b, st) ==
  CASE st.state = "PILOT" -> PilotEdge(b, st)
    [] st.state = "SYNC1" ->
         EdgeOf([st EXCEPT !.state = "SYNC2"], Timing(b).sync1_length, {}, FALSE)
    [] st.state = "SYNC2" -> EdgeOf(NextBit(b, st), Timing(b).sync2_length, {}, FALSE)
    [] st.state \in {"DATA1", "DATA2"} -> BitEdge(b, st)
    [] st.state = "PAUSE" -> TailPause(st, b.pause)

PulsesOf(b, bit) == IF bit = 1 THEN b.bit1_pulses ELSE b.bit0_pulses

\* A bit of two equal pulses is short or long if the other one is, too.
BitFlags(b, bit) ==
  LET mine == PulsesOf(b, bit)
      other == PulsesOf(b, 1 - bit)
      even(p) == Len(p) = 2 /\ p[1] = p[2] /\ p[1] > 0
  IN IF even(mine) /\ even(other) /\ mine[1] # other[1]
     THEN {IF mine[1] < other[1] THEN "LENGTH_SHORT" ELSE "LENGTH_LONG"} ELSE {}

LevelFlag(level) == IF level = 1 THEN "LEVEL_HIGH" ELSE "LEVEL_LOW"

(* A pulse of a bit or the tail; then the level turns, if it was an edge.    *)
DataBlockEdge(b, st) ==
  LET pulses == PulsesOf(b, st.bit)
      next == [st EXCEPT !.index = @ + 1]
      edge == IF st.state = "TAIL" THEN TailPause(st, b.tail_length)
              ELSE EdgeOf(IF next.index = Len(pulses) THEN NextBit(b, next) ELSE next,
                          pulses[next.index], BitFlags(b, st.bit), FALSE)
  IN IF "NO_EDGE" \in edge.flags THEN edge
     ELSE [edge EXCEPT !.flags = @ \cup {LevelFlag(st.level)}, !.st.level = 1 - @]

-----------------------------------------------------------------------------
(* RAW_DATA: samples.  Of the last byte the code reads the low bits.         *)
RawBits(b) ==
  FlattenSeq([i \in DOMAIN b.data |->
    IF i = Len(b.data)
    THEN SubSeq(b.data[i], BitsInByte - b.bits_in_last_byte + 1, BitsInByte)
    ELSE b.data[i]])

\* The next edge is before the first bit that equals last_bit, or at the end.
RawNextBit(b, st) ==
  LET samples == RawBits(b)
      end == Len(samples) + 1
      to == Least({p \in (st.pos + 1)..end : p = end \/ samples[p] = st.last_bit})
  IN IF st.pos = end THEN [st EXCEPT !.state = "PAUSE"]
     ELSE [state |-> "DATA1", pos |-> to, length |-> to - st.pos, last_bit |-> 1 - st.last_bit]

RawEdge(b, st) ==
  LET next == RawNextBit(b, st)
  IN IF st.state = "PAUSE" THEN TailPause(st, b.pause)
     ELSE EdgeOf(next, st.length * b.bit_length, {LevelFlag(1 - next.last_bit)}, FALSE)

-----------------------------------------------------------------------------
(* GENERALISED_DATA: runs of pilot symbols, then a stream of data symbols.   *)
Number(bits) == FoldLeft(LAMBDA n, bit : 2 * n + bit, 0, bits)

LoadSymbol(b, st) ==
  LET to == st.pos + b.bits_per_data_symbol
  IN [st EXCEPT !.pos = to, !.edge = 0,
                !.symbol = Number(SubSeq(FlattenSeq(b.data), st.pos + 1, to))]

EnterData(b, st) == LoadSymbol(b, [st EXCEPT !.state = "DATA1", !.pos = 0, !.count = 0])

\* The first pulse has the flag of the symbol's type, if the type is one that is known.
SymbolEdge(st, symbol, edge) ==
  EdgeOf(st, symbol.lengths[edge + 1],
         {flag \in {"NO_EDGE", "LEVEL_LOW", "LEVEL_HIGH"} : edge = 0 /\ flag = symbol.edge_type},
         FALSE)

\* A mutant of SymbolEnds: a symbol shorter than its table ends with pulses of no length.
SymbolEndsWithTable(symbol, edge) == edge + 1 = Len(symbol.lengths)

SymbolEnds(symbol, edge) ==
  edge + 1 = Len(symbol.lengths) \/ symbol.lengths[edge + 2] = 0

AfterPilotSymbol(b, st) ==
  LET repeated == [st EXCEPT !.edge = 0, !.repeats = @ + 1]
      nextRun == [repeated EXCEPT !.repeats = 0, !.run = @ + 1]
  IN IF repeated.repeats # b.pilot[st.run + 1].repeats THEN repeated
     ELSE IF nextRun.run = Len(b.pilot) THEN EnterData(b, nextRun) ELSE nextRun

AfterDataSymbol(b, st) ==
  LET done == [st EXCEPT !.count = @ + 1]
  IN IF done.count = b.data_symbols
     THEN [done EXCEPT !.edge = @ + 1, !.state = "PAUSE"] ELSE LoadSymbol(b, done)

GeneralisedEdge(b, st) ==
  LET symbol == IF st.state = "PILOT" THEN b.pilot_table[b.pilot[st.run + 1].symbol + 1]
                                      ELSE b.data_table[st.symbol + 1]
      next == IF ~SymbolEnds(symbol, st.edge) THEN [st EXCEPT !.edge = @ + 1]
              ELSE IF st.state = "PILOT" THEN AfterPilotSymbol(b, st)
              ELSE AfterDataSymbol(b, st)
  IN IF st.state = "PAUSE" THEN TailPause(st, b.pause) ELSE SymbolEdge(next, symbol, st.edge)

-----------------------------------------------------------------------------
(* PURE_TONE, PULSES, PAUSE and the two run-length codes.                    *)
ToneEdge(b, st) ==
  EdgeOf([st EXCEPT !.edge_count = @ - 1], b.length, {}, st.edge_count = 1)

ListEdge(b, st) ==
  EdgeOf([st EXCEPT !.edge_count = @ + 1], b.lengths[st.edge_count + 1], {},
         st.edge_count + 1 = Len(b.lengths))

PauseEdge(b, st) ==
  EdgeOf(st, b.length,
         (IF b.level # -1 /\ b.length # 0 THEN {LevelFlag(b.level)} ELSE {})
           \cup (IF b.length = 0 THEN {"STOP"} ELSE {}), TRUE)

\* A byte, or a zero and four bytes, the least significant first.
RleLong(b, i) == b.data[i + 1] + 256 * b.data[i + 2] + 65536 * b.data[i + 3]
                   + 16777216 * b.data[i + 4]

RleEdge(b, st) ==
  LET i == st.index + 1
      byte == b.data[i]
      next == st.index + (IF byte # 0 THEN 1 ELSE 5)
  IN EdgeOf([st EXCEPT !.index = next],
            b.scale * (IF byte # 0 THEN byte ELSE RleLong(b, i)), {}, next = Len(b.data))

Repeated(b) == FlattenSeq([i \in DOMAIN b.lengths |->
                             [n \in 1..b.pulse_repeats[i] |-> b.lengths[i]]])

(* Pulses of no length are skipped, but each one turns the level; before the *)
(* first one it is -1, and the first pulse is low.                           *)
SequenceEdge(b, st) ==
  LET pulses == Repeated(b)
      next == Least({p \in (st.pos + 1)..Len(pulses) : p = Len(pulses) \/ pulses[p] # 0})
      turns == next - st.pos
      level == IF st.level = -1 THEN (turns - 1) % 2 ELSE (st.level + turns) % 2
      flags == IF level # st.level THEN {LevelFlag(level)}
               ELSE IF pulses[next] = 0 THEN {"NO_EDGE"} ELSE {}
  IN EdgeOf([pos |-> next, level |-> level], pulses[next], flags, next = Len(pulses))

-----------------------------------------------------------------------------
(* libspectrum_tape_block_init, and the part of get_next_edge_internal that  *)
(* deals with the blocks above.                                             *)
NoState == [state |-> "NONE"]

PulseBlocks == {"ROM", "TURBO", "PURE_DATA", "DATA_BLOCK", "RAW_DATA", "GENERALISED_DATA",
                "PURE_TONE", "PULSES", "PAUSE", "RLE_PULSE", "PULSE_SEQUENCE"}

GeneralisedInit(b) ==
  LET st == [state |-> "PILOT", run |-> 0, repeats |-> 0, edge |-> 0, symbol |-> 0,
             count |-> 0, pos |-> 0]
  IN IF b.pilot # <<>> THEN st
     ELSE IF b.data_symbols # 0 THEN EnterData(b, st) ELSE [st EXCEPT !.state = "PAUSE"]

RawInit(b) ==
  LET st == [state |-> "DATA1", pos |-> 0, length |-> 0, last_bit |-> 0]
  IN IF b.data = <<>> THEN [st EXCEPT !.state = "PAUSE"]
     ELSE RawNextBit(b, [st EXCEPT !.last_bit = Head(b.data)[1]])

BlockInit(b) ==
  CASE b.type \in {"ROM", "TURBO"} -> BeforeData("PILOT", Timing(b).pilot_pulses)
    [] b.type = "PURE_DATA" -> NextBit(b, BeforeData("DATA1", 0))
    [] b.type = "DATA_BLOCK" ->
         NextBit(b, BeforeData("DATA1", 0)) @@ [level |-> b.initial_level]
    [] b.type = "RAW_DATA" -> RawInit(b)
    [] b.type = "GENERALISED_DATA" -> GeneralisedInit(b)
    [] b.type = "PURE_TONE" -> [edge_count |-> b.pulses]
    [] b.type = "PULSES" -> [edge_count |-> 0]
    [] b.type = "RLE_PULSE" -> [index |-> 0]
    [] b.type = "PULSE_SEQUENCE" -> [pos |-> 0, level |-> -1]
    [] OTHER -> NoState

BlockEdge(b, st) ==
  CASE b.type \in {"ROM", "TURBO", "PURE_DATA"} -> LoaderEdge(b, st)
    [] b.type = "DATA_BLOCK" -> DataBlockEdge(b, st)
    [] b.type = "RAW_DATA" -> RawEdge(b, st)
    [] b.type = "GENERALISED_DATA" -> GeneralisedEdge(b, st)
    [] b.type = "PURE_TONE" -> ToneEdge(b, st)
    [] b.type = "PULSES" -> ListEdge(b, st)
    [] b.type = "PAUSE" -> PauseEdge(b, st)
    [] b.type = "RLE_PULSE" -> RleEdge(b, st)
    [] b.type = "PULSE_SEQUENCE" -> SequenceEdge(b, st)

-----------------------------------------------------------------------------
(* libspectrum_tape_block_length.                                            *)
\* A mutant of BitsSet: the array for whole bytes serves the last byte, too.
BitsSetInByte(byte, bits) == Total(byte)

BitsSet(byte, bits) == Total(SubSeq(byte, 1, bits))

PulsesToTstates(length1, length0, set, bits) == 2 * length1 * set + 2 * length0 * (bits - set)

DataLength(b, length1, length0, lastBits) ==
  LET bits(i) == IF i = Len(b.data) THEN lastBits ELSE BitsInByte
  IN Total([i \in DOMAIN b.data |->
              PulsesToTstates(length1, length0, BitsSet(b.data[i], bits(i)), bits(i))])

LoaderLength(b) ==
  LET t == Timing(b)
      lead == IF b.type = "PURE_DATA" THEN 0
              ELSE t.pilot_length * t.pilot_pulses + t.sync1_length + t.sync2_length
  IN b.pause + lead + DataLength(b, t.bit1_length, t.bit0_length, t.bits_in_last_byte)

RawLength(b) ==
  b.pause + (BitsInByte * Len(b.data) - (BitsInByte - b.bits_in_last_byte)) * b.bit_length

\* The mean pulse of a bit, taken twice.
MeanPulse(pulses) == Total(pulses) \div (IF pulses = <<>> THEN 1 ELSE Len(pulses))

DataBlockLength(b) ==
  DataLength(b, MeanPulse(b.bit1_pulses), MeanPulse(b.bit0_pulses), b.bits_in_last_byte)

SequenceLength(b) ==
  Total([i \in DOMAIN b.lengths |-> b.lengths[i] * b.pulse_repeats[i]])

(* A GENERALISED_DATA block is played through, with a state of its own, until *)
(* its last edge; it has no more than MostEdges.                            *)
MostEdges(b) ==
  1 + Len(b.pilot_table[1].lengths) * Total([i \in DOMAIN b.pilot |-> b.pilot[i].repeats])
    + Len(b.data_table[1].lengths) * b.data_symbols

GeneralisedLength(b) ==
  LET play(edge, n) == IF edge.end THEN edge
                       ELSE [GeneralisedEdge(b, edge.st) EXCEPT !.tstates = @ + edge.tstates]
  IN FoldLeft(play, EdgeOf(GeneralisedInit(b), 0, {}, FALSE),
              [n \in 1..MostEdges(b) |-> n]).tstates

BlockLength(b) ==
  CASE b.type \in {"ROM", "TURBO", "PURE_DATA"} -> LoaderLength(b)
    [] b.type = "DATA_BLOCK" -> DataBlockLength(b)
    [] b.type = "RAW_DATA" -> RawLength(b)
    [] b.type = "GENERALISED_DATA" -> GeneralisedLength(b)
    [] b.type = "PURE_TONE" -> b.pulses * b.length
    [] b.type = "PULSES" -> Total(b.lengths)
    [] b.type = "PAUSE" -> b.length
    [] b.type = "RLE_PULSE" -> b.scale * Total(b.data)
    [] b.type = "PULSE_SEQUENCE" -> SequenceLength(b)
    [] OTHER -> 0

=============================================================================
