-------------------------------- MODULE Pzx --------------------------------
(***************************************************************************)
(* Tapes from .pzx files (pzx_read.c); there is no writer for them.  A      *)
(* chunk is a record with the fields of its part of the file; a PULS chunk  *)
(* is a sequence of words.  Bound: a chunk is as long as its fields are.    *)
(***************************************************************************)
EXTENDS TapeFormats

HalfWord == WordValues \div 2

\* Version 1.0 to 1.255.  pzx_read_string leaves the reader at the end of the chunk,
\* so of all the strings in it the first one, the title, is read.
read_pzxt_block(c) ==
  CASE c.version # 1   -> Fails("UNKNOWN")
    [] c.strings = <<>> /\ c.version = 1 -> Skipped
    [] OTHER -> Adds([type |-> "ARCHIVE_INFO", strings |-> <<[id |-> 0, text |-> c.strings[1]]>>])

\* The length goes on in the next word.
IsLong(word) == word >= HalfWord

\* The words from the i-th on: a count, if the pulse is repeated, and a length of
\* one or two words.
read_next_pulse(words, i) ==
  LET counted == words[i] > HalfWord
      first == IF counted THEN i + 1 ELSE i
      long == first \in DOMAIN words /\ IsLong(words[first])
      next == IF long THEN first + 2 ELSE first + 1
  IN [next |-> next, corrupt |-> next > Len(words) + 1,
      repeats |-> IF counted THEN words[i] - HalfWord ELSE 1,
      length |-> IF next > Len(words) + 1 THEN 0
                 ELSE IF long THEN (words[first] - HalfWord) * WordValues + words[first + 1]
                 ELSE words[first]]

read_puls_block(c) ==
  LET from[i \in 1 .. Len(c.words) + 3] ==
        IF i > Len(c.words) THEN <<>>
        ELSE LET p == read_next_pulse(c.words, i) IN <<p>> \o from[p.next]
      pulses == from[1]
  IN IF pulses = <<>> \/ \E i \in DOMAIN pulses : pulses[i].corrupt THEN Fails("CORRUPT")
     ELSE Adds([type |-> "PULSE_SEQUENCE",
                lengths |-> [i \in DOMAIN pulses |-> pulses[i].length],
                pulse_repeats |-> [i \in DOMAIN pulses |-> pulses[i].repeats]])

pzx_read_data_block(c) ==
  LET rest == c.count % BitsInByte
  IN IF Len(c.data) < libspectrum_bits_to_bytes(c.count) THEN Fails("CORRUPT")
     ELSE Adds([type |-> "DATA_BLOCK", initial_level |-> c.level,
                tail_length |-> c.tail, bit0_pulses |-> c.p0, bit1_pulses |-> c.p1,
                bits_in_last_byte |-> IF rest = 0 THEN BitsInByte ELSE rest,
                data |-> c.data])

read_paus_block(c) == Adds([type |-> "PAUSE", length |-> c.length, level |-> c.level])

read_brws_block(c) == Adds([type |-> "COMMENT", text |-> c.text])

\* A stop is to be a pause of no length, but only its length in ms is set: that in
\* tstates and its level are what was in the memory.  Bound: `heap` is less than a ms.
read_stop_block(c, heap) ==
  IF c.flags = 1 THEN Adds([type |-> "STOP48"])
  ELSE Adds([type |-> "PAUSE", length |-> heap, level |-> heap])

\* Inlays and chunks of other ids are skipped.
PzxReadChunk(c, heap) ==
  CASE c.id = "PZXT" -> read_pzxt_block(c)
    [] c.id = "PULS" -> read_puls_block(c)
    [] c.id = "DATA" -> pzx_read_data_block(c)
    [] c.id = "PAUS" -> read_paus_block(c)
    [] c.id = "BRWS" -> read_brws_block(c)
    [] c.id = "STOP" -> read_stop_block(c, heap)
    [] OTHER         -> Skipped
=============================================================================
