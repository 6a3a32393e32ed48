---------------------------- MODULE TapePulses ----------------------------
(***************************************************************************)
(* What a tape stands for, without the state machines that play it: the     *)
(* pulses of each block and the order in which loops and jumps play the     *)
(* blocks.  A pulse is a length and the level it is to have: "TURN" for the *)
(* other one than before, "SAME", "LOW" or "HIGH".                          *)
(***************************************************************************)
EXTENDS TapeBlocks

Pulse(length, level) == [length |-> length, level |-> level]

At(level) == IF level = 1 THEN "HIGH" ELSE "LOW"

Turns(lengths) == [i \in DOMAIN lengths |-> Pulse(lengths[i], "TURN")]

Copies(n, s) == FlattenSeq([i \in 1..n |-> s])

\* The pause at the end of a block is no pulse at all if it has no length.
OptionalPulse(length) == IF length = 0 THEN <<>> ELSE <<Pulse(length, "TURN")>>

(* The bits of a block: all of each byte, and the first ones of the last.    *)
Bits(b, lastBits) ==
  FlattenSeq([i \in DOMAIN b.data |->
    IF i = Len(b.data) THEN SubSeq(b.data[i], 1, lastBits) ELSE b.data[i]])

LoaderPulses(b) ==
  LET t == Timing(b)
      lead == IF b.type = "PURE_DATA" THEN <<>>
              ELSE Copies(t.pilot_pulses, <<t.pilot_length>>)
                     \o <<t.sync1_length, t.sync2_length>>
      bits == Bits(b, t.bits_in_last_byte)
  IN Turns(lead \o FlattenSeq([i \in DOMAIN bits |->
                                 Copies(2, <<IF bits[i] = 1 THEN t.bit1_length
                                                            ELSE t.bit0_length>>)]))
       \o OptionalPulse(b.pause)

Alternating(lengths, level) ==
  [i \in DOMAIN lengths |-> Pulse(lengths[i], At((level + i - 1) % 2))]

DataBlockPulses(b) ==
  LET bits == Bits(b, b.bits_in_last_byte)
      tail == IF b.tail_length = 0 THEN <<>> ELSE <<b.tail_length>>
  IN Alternating(FlattenSeq([i \in DOMAIN bits |->
                               IF bits[i] = 1 THEN b.bit1_pulses ELSE b.bit0_pulses]) \o tail,
                 b.initial_level)

\* One sample for each bit, at the level of the bit.
RawPulses(b) ==
  LET bits == Bits(b, b.bits_in_last_byte)
  IN [i \in DOMAIN bits |-> Pulse(b.bit_length, At(bits[i]))] \o OptionalPulse(b.pause)

\* A symbol ends before a pulse of no length; its type says how it begins.
SymbolPulses(symbol) ==
  LET ends == {i \in 2..Len(symbol.lengths) : symbol.lengths[i] = 0} \cup {Len(symbol.lengths) + 1}
      first == CASE symbol.edge_type = "EDGE" -> "TURN" [] symbol.edge_type = "NO_EDGE" -> "SAME"
                 [] symbol.edge_type = "LEVEL_LOW" -> "LOW" [] symbol.edge_type = "LEVEL_HIGH" -> "HIGH"
  IN [i \in 1..(Least(ends) - 1) |->
        Pulse(symbol.lengths[i], IF i = 1 THEN first ELSE "TURN")]

\* The data as numbers of bits_per_data_symbol bits.
DataSymbols(b) ==
  LET bits == FlattenSeq(b.data)
      width == b.bits_per_data_symbol
  IN [i \in 1..b.data_symbols |-> Number(SubSeq(bits, (i - 1) * width + 1, i * width))]

GeneralisedPulses(b) ==
  LET symbols == DataSymbols(b)
  IN FlattenSeq([i \in DOMAIN b.pilot |->
                   Copies(b.pilot[i].repeats, SymbolPulses(b.pilot_table[b.pilot[i].symbol + 1]))])
       \o FlattenSeq([i \in DOMAIN symbols |-> SymbolPulses(b.data_table[symbols[i] + 1])])
       \o OptionalPulse(b.pause)

RleLengths(b) ==
  LET from[i \in 1..(Len(b.data) + 5)] ==
        IF i > Len(b.data) THEN <<>>
        ELSE IF b.data[i] # 0 THEN <<b.data[i]>> \o from[i + 1]
        ELSE <<RleLong(b, i)>> \o from[i + 5]
  IN [i \in DOMAIN from[1] |-> b.scale * from[1][i]]

RefPulses(b) ==
  CASE b.type \in {"ROM", "TURBO", "PURE_DATA"} -> LoaderPulses(b)
    [] b.type = "DATA_BLOCK" -> DataBlockPulses(b)
    [] b.type = "RAW_DATA" -> RawPulses(b)
    [] b.type = "GENERALISED_DATA" -> GeneralisedPulses(b)
    [] b.type = "PURE_TONE" -> Turns(Copies(b.pulses, <<b.length>>))
    [] b.type = "PULSES" -> Turns(b.lengths)
    [] b.type = "PAUSE" -> <<Pulse(b.length, IF b.level = -1 THEN "TURN" ELSE At(b.level))>>
    [] b.type = "RLE_PULSE" -> Turns(RleLengths(b))
    [] b.type = "PULSE_SEQUENCE" -> Alternating(Repeated(b), 0)

-----------------------------------------------------------------------------
(* The signal: stretches of one level, none of them empty.                   *)
Extend(wave, level, length) ==
  LET last == Len(wave)
  IN IF length = 0 THEN wave
     ELSE IF wave # <<>> /\ wave[last].level = level
     THEN [wave EXCEPT ![last].length = @ + length]
     ELSE Append(wave, [level |-> level, length |-> length])

LevelAfter(level, spec) ==
  CASE spec = "TURN" -> 1 - level [] spec = "SAME" -> level
    [] spec = "LOW" -> 0 [] spec = "HIGH" -> 1

\* The signal goes on with some pulses.
Played(signal, pulses) ==
  FoldLeft(LAMBDA before, pulse :
             LET now == LevelAfter(before.level, pulse.level)
             IN [level |-> now, wave |-> Extend(before.wave, now, pulse.length)],
           signal, pulses)

Quiet(level) == [level |-> level, wave |-> <<>>]

\* The signal of a block that is played after the level was `level`.
RefWave(b, level) == Played(Quiet(level), RefPulses(b)).wave

\* What the machine makes of the flags of an edge (doc/libspectrum.txt).
Hear(level, flags) ==
  CASE "NO_EDGE" \in flags -> level
    [] "NO_EDGE" \notin flags /\ "LEVEL_LOW" \in flags -> 0
    [] "NO_EDGE" \notin flags /\ "LEVEL_HIGH" \in flags -> 1
    [] OTHER -> 1 - level

-----------------------------------------------------------------------------
(* The order of play.  `tape` is a sequence of blocks, the order one of      *)
(* positions.                                                               *)
LoopEnd(tape, i) ==
  Least({j \in (i + 1)..Len(tape) : tape[j].type = "LOOP_END"})

\* Jumps lead forward and to a block.
Forward(tape) ==
  \A i \in DOMAIN tape : tape[i].type = "JUMP" =>
    tape[i].offset > 0 /\ i + tape[i].offset \in DOMAIN tape

\* Loops have a positive count, a body without loops and jumps, and an end, and no
\* jump leads into one.
InLoop(tape, i) ==
  \E s, e \in DOMAIN tape :
    /\ tape[s].type = "LOOP_START" /\ tape[e].type = "LOOP_END"
    /\ s < i /\ i <= e
    /\ \A j \in (s + 1)..(e - 1) : tape[j].type # "LOOP_END"

WellFormed(tape) ==
  /\ Forward(tape)
  /\ \A i \in DOMAIN tape :
       /\ tape[i].type = "LOOP_START" =>
            /\ tape[i].count > 0
            /\ ~InLoop(tape, i)
            /\ \E j \in (i + 1)..Len(tape) : tape[j].type = "LOOP_END"
       /\ tape[i].type = "LOOP_END" => InLoop(tape, i)
       /\ tape[i].type = "JUMP" => ~InLoop(tape, i) /\ ~InLoop(tape, i + tape[i].offset)

PlayOrder(tape) ==
  LET from[i \in 1..(Len(tape) + 1)] ==
        IF i > Len(tape) THEN <<>>
        ELSE IF tape[i].type = "JUMP" THEN <<i>> \o from[i + tape[i].offset]
        ELSE IF tape[i].type = "LOOP_START"
        THEN LET e == LoopEnd(tape, i)
             IN <<i>> \o Copies(tape[i].count, [k \in 1..(e - i) |-> i + k]) \o from[e + 1]
        ELSE <<i>> \o from[i + 1]
  IN from[1]

=============================================================================
