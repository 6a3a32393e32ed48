---------------------------- MODULE TapeExamples ----------------------------
(***************************************************************************)
(* Small blocks and tapes for TLC: bytes of two bits, pilots of two and     *)
(* three pulses; tapes with a block of each type with pulses.               *)
(***************************************************************************)
EXTENDS Integers, Sequences

Tone == [type |-> "PURE_TONE", length |-> 2, pulses |-> 1]
Loop(n) == [type |-> "LOOP_START", count |-> n]
LoopsEnd == [type |-> "LOOP_END"]
Jump(n) == [type |-> "JUMP", offset |-> n]
Pause(length, level) == [type |-> "PAUSE", length |-> length, level |-> level]
Comment == [type |-> "COMMENT"]

Rom(data, pause) == [type |-> "ROM", data |-> data, pause |-> pause]

Data(data, last, pause) ==
  [type |-> "PURE_DATA", data |-> data, bits_in_last_byte |-> last, pause |-> pause,
   bit0_length |-> 1, bit1_length |-> 2]

Turbo(pilots, data, last) ==
  [type |-> "TURBO", data |-> data, bits_in_last_byte |-> last, pause |-> 0,
   pilot_pulses |-> pilots, pilot_length |-> 5, sync1_length |-> 3, sync2_length |-> 4,
   bit0_length |-> 1, bit1_length |-> 2]

Raw(data, last) ==
  [type |-> "RAW_DATA", data |-> data, bits_in_last_byte |-> last, pause |-> 3,
   bit_length |-> 2]

DataBlock(data, last, level, zero, one, tail) ==
  [type |-> "DATA_BLOCK", data |-> data, bits_in_last_byte |-> last, initial_level |-> level,
   bit0_pulses |-> zero, bit1_pulses |-> one, tail_length |-> tail]

Puls(lengths, repeats) ==
  [type |-> "PULSE_SEQUENCE", lengths |-> lengths, pulse_repeats |-> repeats]

Rle(data) == [type |-> "RLE_PULSE", data |-> data, scale |-> 2]

Symbol(kind, lengths) == [edge_type |-> kind, lengths |-> lengths]

Generalised(pilot, width, symbols, data, pause) ==
  [type |-> "GENERALISED_DATA", pilot |-> pilot, pause |-> pause,
   pilot_table |-> <<Symbol("EDGE", <<4, 0>>), Symbol("LEVEL_HIGH", <<3, 1>>)>>,
   data_table |-> <<Symbol("NO_EDGE", <<2, 1>>), Symbol("LEVEL_LOW", <<5, 0>>),
                    Symbol("EDGE", <<1, 2>>)>>,
   bits_per_data_symbol |-> width, data_symbols |-> symbols, data |-> data]

Run(symbol, repeats) == [symbol |-> symbol, repeats |-> repeats]

PulseTapes ==
  {<<Rom(d, p)>> : d \in {<<>>, <<<<0, 1>>>>, <<<<1, 0>>, <<1, 1>>>>}, p \in {0, 3}}
  \cup {<<Turbo(n, d, last)>> : n \in {0, 2}, d \in {<<<<1, 0>>>>, <<<<0, 1>>, <<1, 0>>>>},
                                last \in {1, 2}}
  \cup {<<Data(<<<<1, 0>>, <<0, 1>>>>, last, p), Tone>> : last \in {1, 2}, p \in {0, 3}}
  \cup {<<Raw(d, last)>> : d \in {<<>>, <<<<0, 1>>, <<1, 0>>>>}, last \in {1, 2}}
  \cup {<<DataBlock(<<<<0, 1>>, <<1, 1>>>>, last, level, zero, <<3, 3>>, tail)>> :
          last \in {1, 2}, level \in {0, 1}, zero \in {<<1, 1>>, <<1, 2, 1>>}, tail \in {0, 4}}
  \cup {<<DataBlock(<<>>, 2, 1, <<1, 1>>, <<3, 3>>, 4)>>}
  \cup {<<Puls(<<3, 2>>, <<2, 1>>)>>, <<Puls(<<0, 3>>, <<1, 2>>)>>,
        <<Puls(<<3, 0, 2>>, <<1, 2, 1>>), Puls(<<2, 0>>, <<1, 1>>)>>}
  \cup {<<Rle(<<3, 1>>)>>, <<Rle(<<0, 1, 0, 0, 0, 3>>), Tone>>}
  \cup {<<Generalised(pilot, 1, 3, <<<<0, 1>>, <<1, 0>>>>, p)>> :
          pilot \in {<<>>, <<Run(0, 2), Run(1, 1)>>}, p \in {0, 3}}
  \cup {<<Generalised(<<Run(1, 2)>>, 2, 2, <<<<1, 0>>, <<0, 1>>>>, 0)>>}
  \cup {<<[type |-> "PULSES", lengths |-> <<1, 3, 2>>], Pause(4, level), Pause(0, -1)>> :
          level \in {-1, 0, 1}}
  \cup {<<[type |-> "SET_SIGNAL_LEVEL", level |-> level], [Tone EXCEPT !.pulses = 2]>> :
          level \in {0, 1}}
  \cup {<<Tone, [type |-> "STOP48"]>>}
=============================================================================
