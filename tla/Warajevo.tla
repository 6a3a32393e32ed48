------------------------------ MODULE Warajevo ------------------------------
(***************************************************************************)
(* The .tap files of the Warajevo emulator (warajevo_read.c): a list of     *)
(* blocks, each with the place of the next one, ROM blocks and samples,     *)
(* whose data may be compressed.                                            *)
(*                                                                         *)
(* A file is the place of its first block and a function from the places    *)
(* where a block can be read to the blocks there.  `data` of a block is all *)
(* that is in the file behind its header.                                   *)
(***************************************************************************)
EXTENDS Tap

CONSTANT RawBitLengths   \* 233, 158, 115 and 79, tstates in a sample

ASSUME WarajevoAssumption ==
  DOMAIN RawBitLengths = 1 .. 4 /\ \A i \in 1 .. 4 : RawBitLengths[i] \in Nat \ {0}

EndMarker == -1   \* warajevo_signature

-----------------------------------------------------------------------------
(* Decompression: bits of commands, and behind their bytes the bytes that   *)
(* the commands take.  A zero copies one of these, a one begins a copy of   *)
(* what was written before: its size, then its offset.  The states of the   *)
(* code's machine are named after the bits read; here they are the bits.    *)

SizeCode ==
  <<0, 0>> :> 3 @@ <<1, 0, 0>> :> 4 @@ <<1, 0, 1>> :> 5 @@ <<1, 1, 0, 0>> :> 6
    @@ <<1, 1, 0, 1>> :> 7 @@ <<1, 1, 1, 0>> :> 8 @@ <<1, 1, 1, 1>> :> 9
ShortCopy == <<0, 1, 0>>
LongCopy  == <<0, 1, 1>>

\* The higher byte of an offset.
OffsetCode ==
  <<1>> :> 0 @@ <<0, 0, 0, 0>> :> 1 @@ <<0, 0, 0, 1>> :> 2
    @@ <<0, 0, 1, 0, 0>> :> 3 @@ <<0, 0, 1, 0, 1>> :> 4
    @@ <<0, 0, 1, 1, 0>> :> 5 @@ <<0, 0, 1, 1, 1>> :> 6
HasPattern(vstate) == Len(vstate) = 6 /\ SubSeq(vstate, 1, 2) = <<0, 1>>

reset_copy_command(m) ==
  [m EXCEPT !.mode = "byte", !.state = <<>>, !.vstate = <<>>, !.offset = 0, !.size = 0]

(* The distance is one less than the offset.  memcpy is not told that a copy *)
(* may overlap itself: what it takes from the bytes it is writing is what   *)
(* was in memory.  The end of the source is checked, not that of the copy:  *)
(* one that passes the end of the block's memory ends the program here.     *)
execute_copy_command(m, to_write, heap) ==
  LET written == Len(m.written)
      distance == m.offset - 1
  IN CASE written < distance \/ written - distance + m.size > to_write ->
            [m EXCEPT !.err = "CORRUPT"]
       [] written >= distance /\ written - distance + m.size <= to_write
            /\ written + m.size > to_write -> [m EXCEPT !.err = "CRASH"]
       [] OTHER ->
            reset_copy_command(
              [m EXCEPT !.written = @ \o [i \in 1 .. m.size |->
                 IF i <= distance THEN @[written - distance + i] ELSE heap]])

add_bit_to_copy_command(m, src, bit, to_write, heap) ==
  LET byte == IF m.sp \in DOMAIN src THEN src[m.sp] ELSE heap
      state == Append(m.state, bit)
      vstate == Append(m.vstate, bit)
      low == IF m.vstate = <<>> THEN [m EXCEPT !.offset = Number(byte), !.sp = @ + 1] ELSE m
      copy(c) == execute_copy_command(c, to_write, heap)
  IN CASE m.mode = "byte" /\ bit = 0 ->
            [m EXCEPT !.written = Append(@, byte), !.sp = @ + 1]
       [] m.mode = "byte" /\ bit = 1 -> [m EXCEPT !.mode = "size"]
       [] m.mode = "size" /\ state = ShortCopy ->
            copy([m EXCEPT !.size = 2, !.offset = Number(byte), !.sp = @ + 1])
       [] m.mode = "size" /\ state = LongCopy ->
            [m EXCEPT !.size = 10 + Number(byte), !.sp = @ + 1, !.mode = "offset"]
       [] m.mode = "size" /\ state \in DOMAIN SizeCode ->
            [m EXCEPT !.size = SizeCode[state], !.mode = "offset"]
       [] m.mode = "offset" /\ vstate \in DOMAIN OffsetCode ->
            copy([low EXCEPT !.offset = @ + ByteValues * OffsetCode[vstate]])
       [] m.mode = "offset" /\ HasPattern(vstate) ->
            copy([low EXCEPT !.offset = @ + ByteValues * (7 + Number(SubSeq(vstate, 3, 6)))])
       [] OTHER -> IF m.mode = "size" THEN [m EXCEPT !.state = state]
                   ELSE [low EXCEPT !.vstate = vstate]

\* decompress_block and exec_command: the commands are in the first bytes, up to `signature`.
decompress_block(src, signature, length, heap) ==
  LET start == [mode |-> "byte", state |-> <<>>, vstate |-> <<>>, offset |-> 0, size |-> 0,
                sp |-> signature + 2, written |-> <<>>, err |-> "NONE"]
      bit(i, n) == IF i \in DOMAIN src THEN src[i][n] ELSE heap[n]
      bits == [k \in 1 .. (signature + 1) * BitsInByte |->
                 bit(((k - 1) \div BitsInByte) + 1, ((k - 1) % BitsInByte) + 1)]
      next(m, b) ==
        IF m.err # "NONE" \/ Len(m.written) >= length THEN m
        ELSE add_bit_to_copy_command(m, src, b, length, heap)
      \* TLC is to know a state before it looks for the next one.
      step(m, b) == CHOOSE n \in {next(known, b) : known \in {m}} : TRUE
      unpacked(end) ==
        [err |-> end.err,
         data |-> SubSeq(end.written \o [i \in 1 .. length |-> heap], 1, length)]
  IN unpacked(FoldLeft(step, start, bits))

-----------------------------------------------------------------------------
(* Blocks.  `size` is how many bytes the block takes in the file, `length`  *)
(* how many it stands for.                                                  *)

Packed(b) == IF b.samples THEN b.size # b.length ELSE b.compressed

\* What the memory that is used, but never written, decides.
Unpacked(b, heap) ==
  IF Packed(b) THEN decompress_block(b.data, b.signature, b.length, heap)
  ELSE [err |-> "NONE", data |-> SubSeq(b.data, 1, b.length)]

\* After an error in a block get_next_block frees the tape, which is the caller's: to
\* look at it again is undefined.
Freed == <<[type |-> "FREED"]>>

BlockFails(e) == [err |-> e, blocks |-> Freed]

read_rom_block(tape, b, unpacked) ==
  LET data == <<b.flag>> \o unpacked.data
  IN CASE Len(b.data) < b.size -> BlockFails("CORRUPT")
       [] Len(b.data) >= b.size /\ unpacked.err # "NONE" -> BlockFails(unpacked.err)
       [] OTHER -> [err |-> "NONE", blocks |->
            Append(tape, [type |-> "ROM", data |-> Append(data, Parity(data)),
                          pause |-> libspectrum_ms_to_tstates(MsPerSecond)])]

\* Samples that go on where the last block ends, with all of its bits, are added to it: a
\* pulse cannot be in two blocks.
Continues(tape, raw) ==
  /\ tape # <<>>
  /\ Last(tape).type = "RAW_DATA"
  /\ Last(tape).bit_length = raw.bit_length
  /\ Last(tape).bits_in_last_byte = BitsInByte

\* A mutant of Joined: the last byte is taken for a full one.
JoinedFull(block, raw) == [block EXCEPT !.data = @ \o raw.data]

Joined(block, raw) ==
  [block EXCEPT !.data = @ \o raw.data, !.bits_in_last_byte = raw.bits_in_last_byte]

read_raw_data(tape, b, unpacked) ==
  LET raw == [type |-> "RAW_DATA", data |-> unpacked.data, pause |-> 0,
              bit_length |-> RawBitLengths[b.frequency + 1],
              bits_in_last_byte |-> b.bits_used + 1]
  IN CASE Len(b.data) < b.size -> BlockFails("CORRUPT")
       [] Len(b.data) >= b.size /\ unpacked.err # "NONE" -> BlockFails(unpacked.err)
       [] OTHER -> [err |-> "NONE", blocks |->
            IF Continues(tape, raw) THEN Append(Front(tape), Joined(Last(tape), raw))
            ELSE Append(tape, raw)]

\* A mutant of Advance: only behind a ROM block the loop goes on to the next one.
AdvanceBehindRom(f, b) == IF b.next # EndMarker /\ b.samples THEN f ELSE [f EXCEPT !.at = b.next]

Advance(f, b) == [f EXCEPT !.at = b.next]

(* get_next_block: the tape with the block at a place, and the file at the   *)
(* place of the next one, for each thing that memory may hold.  The last    *)
(* block, which has no next one, has no data.  A place that is not in the   *)
(* file leaves the tape as it is.                                           *)
Outcome(result, rest) == [result |-> result, rest |-> rest]

get_next_block(f, tape, heaps) ==
  IF f.at \notin DOMAIN f.blocks THEN {Outcome([err |-> "CORRUPT", blocks |-> tape], f)}
  ELSE LET b == f.blocks[f.at]
           read(unpacked) == IF b.samples THEN read_raw_data(tape, b, unpacked)
                             ELSE read_rom_block(tape, b, unpacked)
       IN IF b.next = EndMarker THEN {Outcome([err |-> "NONE", blocks |-> tape], Advance(f, b))}
          ELSE {Outcome(read(unpacked), Advance(f, b)) :
                  unpacked \in {Unpacked(b, heap) : heap \in heaps}}
=============================================================================
