-------------------------------- MODULE Tap --------------------------------
(***************************************************************************)
(* Tapes as .tap, .spc, .sta and .ltp files: only the data of the blocks    *)
(* that a ROM loader might load (tap.c).  The file is its bytes; the length *)
(* in front of each block is a word, less significant byte first.           *)
(***************************************************************************)
EXTENDS TapeFormats

TapFormats == { "tap", "spc", "sta", "ltp" }

\* The length in these files does not count the first byte and the last.
ShortLength(type) == type \in { "spc", "sta", "ltp" }

ToByte(n) == [i \in 1 .. BitsInByte |-> (n \div 2 ^ (BitsInByte - i)) % 2]

Xor(a, b) == [i \in 1 .. BitsInByte |-> (a[i] + b[i]) % 2]

Parity(data) ==
  [i \in 1 .. BitsInByte |-> Total([k \in DOMAIN data |-> data[k][i]]) % 2]

-----------------------------------------------------------------------------
\* A mutant of write_tap_block: the last byte stays as it is.
write_tap_block_raw(data, type) ==
  LET length == Len(data) - (IF ShortLength(type) THEN 2 ELSE 0)
  IN <<ToByte(Byte(length)), ToByte(Byte(length \div ByteValues))>>
       \o (IF type = "sta" THEN Front(data) ELSE data)

write_tap_block(data, type) ==
  LET length == Len(data) - (IF ShortLength(type) THEN 2 ELSE 0)
      last == IF type = "spc" THEN Xor(Last(data), Head(data)) ELSE Last(data)
  IN <<ToByte(Byte(length)), ToByte(Byte(length \div ByteValues))>>
       \o Front(data) \o (IF type = "sta" THEN <<>> ELSE <<last>>)

\* The types of blocks whose data is written; the others are skipped.
TapData == { "ROM", "TURBO", "PURE_DATA" }

DataOf(tape) == LET kept == SelectSeq(tape, LAMBDA b : b.type \in TapData)
                IN [i \in DOMAIN kept |-> kept[i].data]

\* A block of no bytes in a .tap file: the length of what is written before its last
\* byte is -1.
internal_tap_write(tape, type) ==
  LET data == DataOf(tape)
      least == IF ShortLength(type) THEN 2 ELSE 1
      file == FlattenSeq([i \in DOMAIN data |-> write_tap_block(data[i], type)])
  IN IF \A i \in DOMAIN data : Len(data[i]) >= least THEN [file |-> file, err |-> "NONE"]
     ELSE [file |-> <<>>, err |-> IF type = "tap" THEN "CRASH" ELSE "INVALID"]

-----------------------------------------------------------------------------
\* One turn of the loop: the next block, and what is left of the file.
TapReadBlock(file, type) ==
  LET field == Number(file[1]) + ByteValues * Number(file[2])
      length == field + (IF ShortLength(type) THEN 2 ELSE 0)
      inFile == IF type = "sta" THEN length - 1 ELSE length
      bytes == SubSeq(file, 3, 2 + inFile)
      data == CASE type = "spc" -> Front(bytes) \o <<Xor(Last(bytes), Head(bytes))>>
                [] type = "sta" -> Append(bytes, Parity(bytes))
                [] OTHER -> bytes
  IN IF Len(file) < 2 \/ Len(file) < 2 + inFile
     THEN [result |-> Fails("CORRUPT"), rest |-> <<>>]
     ELSE [result |-> Adds([type |-> "ROM", data |-> data,
                            pause |-> libspectrum_ms_to_tstates(MsPerSecond)]),
           rest |-> SubSeq(file, 3 + inFile, Len(file))]
=============================================================================
