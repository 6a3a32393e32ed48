----------------------------- MODULE MCTapeFiles -----------------------------
(***************************************************************************)
(* Small tapes and files: bytes of two bits, so that a byte counts up to    *)
(* three and a word up to fifteen, and two tstates to a ms.                 *)
(***************************************************************************)
EXTENDS TapeFiles, TapeExamples

-----------------------------------------------------------------------------
(* Tapes.                                                                   *)

Text == <<"A", "LF", "B">>
Note == [type |-> "COMMENT", text |-> Text]
Level(n) == [type |-> "SET_SIGNAL_LEVEL", level |-> n]
Pulses(lengths) == [type |-> "PULSES", lengths |-> lengths]

Bytes(n) == [i \in 1 .. n |-> IF i % 2 = 1 THEN <<0, 1>> ELSE <<1, 1>>]

\* libspectrum_tape_block_alloc sets no text, and a symbol has as many bits as it needs.
FullTable ==
  [Generalised(<<>>, 2, 2, <<<<1, 0>>, <<1, 1>>>>, 0)
     EXCEPT !.data_table = Append(@, Symbol("LEVEL_HIGH", <<2, 0>>))]

Savable(t) ==
  \A i \in DOMAIN t : t[i].type = "GENERALISED_DATA" =>
    t[i].bits_per_data_symbol = BitsPerSymbol(Len(t[i].data_table))

DataTapes ==
  {<<Rom(Bytes(n), 2 * TstatesPerMs)>> : n \in {1, 2, 3, 15, 16, 17, 18}}
  \union {<<Rom(<<<<0, 0>>, a, b>>, 2), Tone, Turbo(2, <<a, b, <<1, 0>>>>, 2), Note,
            Data(<<b, a>>, last, 0)>> : a, b \in {<<0, 1>>, <<1, 1>>}, last \in 1 .. 2}
  \union {<<Rom(Bytes(2), p), Tone>> : p \in {0, 1, 30, 32}}

PauseTapes ==
  {<<Pulses(<<1, 2, 3>>), Pause(n, level), Tone>> :
     n \in {0, 1, 2, 5, 15, 16, 30, 32}, level \in -1 .. 1}

SequenceTapes ==
  {<<Puls(lengths, repeats), Level(level), Tone>> :
     lengths \in {<<1, 2, 3>>, <<3, 0, 2>>, <<1, 20, 1>>}, repeats \in [1 .. 3 -> 1 .. 2],
     level \in {0, 1}}
  \union {<<Pulses(<<1, 1, 1, 1>>)>>, <<Puls(<<1, 2, 3, 1, 2>>, <<1, 1, 1, 1, 1>>)>>,
          <<Puls(<<1, 2, 3, 1, 2>>, <<1, 1, 2, 1, 1>>)>>}

SampleTapes ==
  {<<Rle(d)>> : d \in {<<1>>, <<2, 1, 1>>, <<3, 1, 2, 2>>, <<0, 1, 0, 0, 0, 3>>}}
  \union {<<Rle(<<1, 2>>), Tone>>, <<Tone, Rle(<<1, 2>>)>>, <<Rle(<<2, 0, 0, 0, 0, 0, 3>>)>>}

LoopTapes ==
  { <<Loop(2), Tone, LoopsEnd, Pause(2, 0), Tone>>,
    <<Loop(2), Puls(<<1, 2>>, <<1, 2>>), Pause(3, 1), LoopsEnd, Tone>>,
    <<Jump(2), Tone, Pulses(<<2, 3>>)>>, <<Jump(2), Puls(<<1>>, <<2>>), Tone>>,
    <<Tone, Jump(-1)>> }

Select == [type |-> "SELECT", choices |-> <<[offset |-> 1, text |-> <<"A">>]>>]

GroupEnd == [type |-> "GROUP_END"]

\* Lists and texts at and beyond what a byte counts.
ManyChoices(n) == [Select EXCEPT !.choices = [i \in 1 .. n |-> [offset |-> i, text |-> <<>>]]]
LongSelect(n) == [Select EXCEPT !.choices[1].text = [i \in 1 .. n |-> "A"]]
Strings(n) == [type |-> "ARCHIVE_INFO", strings |-> [i \in 1 .. n |-> [id |-> i, text |-> <<"B">>]]]
Machine(n) == [type |-> "HARDWARE", machines |-> [i \in 1 .. n |-> i]]

InfoTapes ==
  { <<[type |-> "GROUP_START", text |-> Text], Tone, [type |-> "GROUP_END"]>>,
    <<Select, Tone>>, <<Select, Tone, Tone, Tone>>, <<Select>>,
    <<Select, [type |-> "GROUP_END"], [type |-> "GROUP_END"]>>,
    <<LongSelect(4), GroupEnd, GroupEnd, GroupEnd>>, <<LongSelect(4), Tone, Tone>>,
    <<LongSelect(10), Tone, Tone, Tone>>,
    <<ManyChoices(3), Tone, Tone, Tone>>, <<ManyChoices(4), Tone, Tone, Tone>>,
    <<Strings(3), Tone>>, <<Strings(4), Tone>>, <<Machine(3), Tone>>, <<Machine(4), Tone>>,
    <<[type |-> "MESSAGE", time |-> 10, text |-> Text],
      [type |-> "ARCHIVE_INFO", strings |-> <<[id |-> 0, text |-> Text]>>]>>,
    <<[type |-> "COMMENT", text |-> <<"A", "B", "A", "B", "A">>], Tone>>,
    <<Machine(2), [type |-> "CUSTOM", data |-> <<1>>],
      Tone, [type |-> "STOP48"], Tone>> }

MCTapes ==
  {t \in PulseTapes \union DataTapes \union PauseTapes \union SequenceTapes
           \union SampleTapes \union LoopTapes \union InfoTapes \union {<<FullTable>>} : Savable(t)}

-----------------------------------------------------------------------------
(* Files of other programs.                                                 *)

Fits(b) == b @@ [fits |-> TRUE]

TzxFile(chunks) == [fmt |-> "tzx", file |-> [i \in DOMAIN chunks |-> Fits(chunks[i])]]

SymbolChunk(pilot, pilots, table, symbols, size, data) ==
  [type |-> "GENERALISED_DATA", pause |-> 1, pilot |-> pilot,
   pilot_symbols_in_table |-> pilots, pilot_table |-> table,
   data_symbols |-> symbols, data_symbols_in_table |-> size,
   data_table |-> IF symbols = 0 THEN <<>>
                  ELSE [i \in 1 .. TableSize(symbols, size) |-> Symbol("EDGE", <<i, 1>>)],
   data |-> data]

ForeignTzx ==
  UNION {{TzxFile(<<Turbo(2, d, last)>>), TzxFile(<<Data(d, last, 1), Tone>>),
          TzxFile(<<Raw(d, last)>>)} :
            d \in {<<>>, <<<<0, 1>>>>, <<<<0, 1>>, <<1, 0>>>>}, last \in 0 .. 3}
  \union
  { TzxFile(<<Tone, Jump(WordValues - 1)>>), TzxFile(<<Jump(2), Tone, Tone>>),
    TzxFile(<<Level(3), Tone>>), TzxFile(<<Tone, [type |-> "CONCAT"], Tone>>),
    TzxFile(<<Tone, [type |-> "C64_ROM"], Tone>>),
    TzxFile(<<[Select EXCEPT !.choices[1].text = <<"CR">>] @@ [length |-> 5]>>),
    TzxFile(<<[type |-> "MESSAGE", time |-> 3, text |-> <<"A", "CR">>], Pause(3, 0)>>),
    TzxFile(<<SymbolChunk(<<>>, 0, <<>>, 3, 0, Bytes(3))>>),
    TzxFile(<<SymbolChunk(<<Run(0, 2)>>, 1, <<Symbol("LEVEL_HIGH", <<2, 0>>)>>, 0, 2, <<>>)>>),
    TzxFile(<<SymbolChunk(<<>>, 0, <<>>, 2, 2, Bytes(1)), Tone>>),
    TzxFile(<<SymbolChunk(<<>>, 0, <<>>, 3, 2, Bytes(1)), Tone>>) }

PzxFile(chunks) ==
  [fmt |-> "pzx", file |-> <<[id |-> "PZXT", version |-> 1, strings |-> <<>>]>> \o chunks]

PulsChunk(words) == [id |-> "PULS", words |-> words]

DataChunk(count, level, tail, zero, one, data) ==
  [id |-> "DATA", count |-> count, level |-> level, tail |-> tail, p0 |-> zero, p1 |-> one,
   data |-> data]

StopChunk(flags) == [id |-> "STOP", flags |-> flags]

ForeignPzx ==
  {PzxFile(<<PulsChunk(w), StopChunk(0), PulsChunk(<<2>>)>>) :
     w \in {<<>>, <<3, 2>>, <<10, 3, 2>>, <<8, 9, 1>>, <<9, 8, 3>>, <<10>>, <<10, 8>>, <<8>>,
            <<1, 10, 2, 3, 1>>}}
  \union {PzxFile(<<DataChunk(n, level, tail, zero, <<2, 2>>, Bytes(2)), StopChunk(1),
                    [id |-> "PAUS", length |-> 4, level |-> level]>>) :
            n \in 3 .. 5, level \in {0, 1}, tail \in {0, 3},
            zero \in {<<1, 1>>, <<1, 3>>, <<1, 0>>, <<0, 1>>, <<1, 2, 1>>}}
  \union {[fmt |-> "pzx", file |->
            <<[id |-> "PZXT", version |-> v, strings |-> <<Text, Text>>],
              [id |-> "BRWS", text |-> Text], [id |-> "inly"], PulsChunk(<<2, 3>>)>>] :
            v \in {0, 1, 2}}

ForeignTap ==
  {[fmt |-> f, file |-> bytes] :
     f \in TapFormats,
     bytes \in {<<<<0, 1>>, <<0, 0>>, <<1, 0>>, <<1, 1>>, <<0, 1>>, <<0, 0>>>>,
                <<<<0, 0>>, <<0, 0>>>>, <<<<0, 1>>>>}}

OneRecord(f, record) == [fmt |-> f, file |-> <<record>>]

ForeignCsw ==
  {OneRecord("csw", [version |-> v, rate |-> rate, compression |-> c, extension |-> 0,
                     data |-> <<2, 1, 3>>]) :
     v \in 1 .. 3, rate \in {0, 1, 3, 8}, c \in 1 .. 3}
  \union {OneRecord("csw", [version |-> 2, rate |-> 3, compression |-> 1, extension |-> n,
                            data |-> d]) :
            n \in 0 .. 1, d \in {<<>>, <<1>>, <<1, 0, 2, 0, 0, 0>>, <<0, 2>>}}

ForeignSamples ==
  ForeignCsw
  \union {OneRecord("z80em", [data |-> d]) : d \in {<<1>>, <<1, 2>>, <<2, 0, 1>>}}
  \union {OneRecord("wav", [rate |-> 3, promised |-> n, frames |-> frames]) :
            n \in {0, 3, 4}, frames \in {<<>>, <<0, 1, 1>>, <<1, 0, 0, 1>>}}

\* Compressed data: bits for the commands, and the bytes they take.
InBits(n, width) == [i \in 1 .. width |-> (n \div 2 ^ (width - i)) % 2]

HighBits(high) ==
  CASE high = 0 -> <<1>>
    [] high \in 1 .. 2 -> <<0, 0, 0>> \o InBits(high - 1, 1)
    [] high \in 3 .. 6 -> <<0, 0, 1>> \o InBits(high - 3, 2)
    [] high > 6 -> <<0, 1>> \o InBits(high - 7, 4)

SizeBits(size) ==
  CASE size = 2 -> <<1, 0, 1, 0>>
    [] size = 3 -> <<1, 0, 0>>
    [] size \in 4 .. 5 -> <<1, 1, 0>> \o InBits(size - 4, 1)
    [] size \in 6 .. 9 -> <<1, 1, 1>> \o InBits(size - 6, 2)
    [] size > 9 -> <<1, 0, 1, 1>>

CommandBits(c) ==
  IF c.copy = 0 THEN <<0>>
  ELSE SizeBits(c.copy)
         \o (IF c.copy = 2 THEN <<>> ELSE HighBits((c.distance + 1) \div ByteValues))

CommandBytes(c) ==
  IF c.copy = 0 THEN <<c.byte>>
  ELSE (IF c.copy > 9 THEN <<ToByte(c.copy - 10)>> ELSE <<>>) \o <<ToByte(c.distance + 1)>>

Put(byte) == [copy |-> 0, byte |-> byte]
Copy(size, distance) == [copy |-> size, distance |-> distance]
PutAll(n) == [i \in 1 .. n |-> Put(ToByte((i * i) \div 2))]

\* What the commands stand for.
Expanded(commands) ==
  LET step(s, c) ==
        IF c.copy = 0 THEN Append(s, c.byte)
        ELSE s \o SubSeq(Copies(c.copy, SubSeq(s, Len(s) - c.distance + 1, Len(s))), 1, c.copy)
  IN FoldLeft(step, <<>>, commands)

CommandLists ==
  {PutAll(n) \o <<Copy(size, n)>> : n \in {2, 5, 9, 13}, size \in 3 .. 5}
  \union {PutAll(30) \o <<Copy(size, distance), Put(ToByte(3)), Copy(2, 2)>> :
            size \in 6 .. 12, distance \in {7, 12, 14, 18, 22, 26, 29}}
  \union {<<Put(ToByte(1)), Copy(3, 1)>>, <<Put(ToByte(1)), Put(ToByte(2)), Copy(3, 2)>>}

ListedBlock(next, samples, length) ==
  [next |-> next, samples |-> samples, length |-> length, size |-> length,
   compressed |-> FALSE, flag |-> ToByte(2), frequency |-> 1, bits_used |-> BitsInByte - 1]

PlainBlock(next, samples, data) ==
  ListedBlock(next, samples, Len(data)) @@ [data |-> data, meant |-> data, sound |-> TRUE, signature |-> 0]

PackedBlock(next, samples, commands) ==
  LET bits == InBytes(FlattenSeq([i \in DOMAIN commands |-> CommandBits(commands[i])]))
      data == bits \o FlattenSeq([i \in DOMAIN commands |-> CommandBytes(commands[i])])
  IN [size |-> Len(data), compressed |-> TRUE]
       @@ ListedBlock(next, samples, Len(Expanded(commands)))
       @@ [data |-> data, meant |-> Expanded(commands), signature |-> Len(bits) - 1,
           sound |-> \A i \in DOMAIN commands :
                       commands[i].copy # 0 => commands[i].copy <= commands[i].distance]

TheEnd == [next |-> EndMarker]
WarajevoFile(first, blocks) == [fmt |-> "warajevo", file |-> <<[at |-> first, blocks |-> blocks]>>]

ForeignWarajevo ==
  {WarajevoFile(2, 1 :> TheEnd @@ 2 :> PackedBlock(1, samples, c)) :
     samples \in BOOLEAN, c \in CommandLists}
  \union
  {WarajevoFile(3, 1 :> [PlainBlock(2, TRUE, Bytes(2)) EXCEPT !.bits_used = last, !.frequency = hz]
                     @@ 2 :> PlainBlock(5, TRUE, Bytes(1)) @@ 3 :> PlainBlock(4, FALSE, Bytes(2))
                     @@ 4 :> PlainBlock(1, TRUE, Bytes(3)) @@ 5 :> TheEnd) :
     last \in 0 .. 1, hz \in 0 .. 3}
  \union
  { WarajevoFile(EndMarker, <<>>), WarajevoFile(2, 1 :> PlainBlock(2, FALSE, Bytes(1))),
    WarajevoFile(1, 1 :> PlainBlock(2, FALSE, Bytes(2)) @@ 2 :> PlainBlock(1, TRUE, Bytes(2))),
    WarajevoFile(1, 1 :> PlainBlock(2, TRUE, Bytes(1)) @@ 2 :> PlainBlock(3, TRUE, Bytes(1))),
    WarajevoFile(1, 1 :> [PackedBlock(2, FALSE, PutAll(3)) EXCEPT !.data = Front(@)]
                      @@ 2 :> TheEnd) }

MCRawBitLengths == <<8, 5, 3, 2>>

MCForeign == ForeignTzx \union ForeignPzx \union ForeignTap \union ForeignSamples
               \union ForeignWarajevo
=============================================================================
