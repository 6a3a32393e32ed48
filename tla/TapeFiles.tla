------------------------------ MODULE TapeFiles ------------------------------
(***************************************************************************)
(* Tapes going through files: libspectrum_tape_write saves one as .tzx or   *)
(* as one of the four kinds of .tap file, libspectrum_tape_read takes a     *)
(* file, of this program or another, into an empty tape, piece by piece;    *)
(* what was read may be saved again, in the same format or another.  A file *)
(* may end early.                                                           *)
(***************************************************************************)
EXTENDS Tzx, Tap, Pzx, Samples, Warajevo

CONSTANTS Tapes,     \* the tapes that an emulator saves
          Foreign,   \* files of other programs, records [fmt, file]
          Heap,      \* what memory may hold that nobody wrote
          MaxSaves,  \* bound on the saves of one tape and its copies
          MaxBytes   \* bound on what is read from a list of blocks that goes round

ASSUME TapeFilesAssumption == Heap \subseteq Nat /\ MaxSaves \in Nat \ {0} /\ MaxBytes \in Nat

VARIABLES tape,     \* the tape that is saved
          saves,    \* how often it and what it was read from were saved
          from,     \* the format of the file it was read from, if it was
          phase,    \* what the program does
          fmt,      \* the format of the file
          file,     \* the part of the file that is not read yet
          own,      \* we wrote the file
          whole,    \* the file is all that was written
          rd,       \* the tape that is read
          err       \* the error of the call that failed

vars == <<tape, saves, from, phase, fmt, file, own, whole, rd, err>>

Formats == TapFormats \union { "tzx" }

\* Files that are read in one piece.
SampleFormats == { "csw", "z80em", "wav" }

Init ==
  /\ tape \in Tapes
  /\ saves = 0 /\ from = "none"
  /\ phase = "idle" /\ fmt = "none" /\ file = <<>>
  /\ own = TRUE /\ whole = TRUE
  /\ rd = <<>>
  /\ err = "NONE"

-----------------------------------------------------------------------------
(* Saving.                                                                  *)

Written(f, heap) ==
  IF f = "tzx" THEN internal_tzx_write(tape, heap) ELSE internal_tap_write(tape, f)

Save(f, heap) ==
  LET w == Written(f, heap)
  IN /\ phase = "idle" /\ saves < MaxSaves
     /\ saves' = saves + 1 /\ own' = TRUE
     /\ fmt' = f /\ file' = w.file /\ err' = w.err
     /\ phase' = IF w.err = "NONE" THEN "reading" ELSE "failed"
     /\ UNCHANGED <<tape, from, whole, rd>>

\* A file of another program, in place of one of ours.
Find ==
  /\ phase = "idle" /\ saves = 0
  /\ \E f \in Foreign : fmt' = f.fmt /\ file' = f.file
  /\ own' = FALSE
  /\ phase' = "reading" /\ saves' = 1
  /\ tape' = <<>>
  /\ UNCHANGED <<from, whole, rd, err>>

-----------------------------------------------------------------------------
(* Reading.                                                                 *)

\* A piece of the file is read; an error ends the loop.  libspectrum_tape_clear
\* then empties the tape, but not for a .pzx file or one of Warajevo.
TakeTape(result, rest) ==
  /\ err' = result.err
  /\ rd' = IF result.err = "NONE" \/ fmt \in { "pzx", "warajevo" } THEN result.blocks ELSE <<>>
  /\ file' = IF result.err = "NONE" THEN rest ELSE <<>>
  /\ phase' = IF result.err = "NONE" THEN "reading" ELSE "failed"

Take(result, rest) == TakeTape([result EXCEPT !.blocks = rd \o @], rest)

InReader == phase = "reading" /\ file # <<>>
KeptByReader == <<tape, saves, from, fmt, own, whole>>

ReadTzx ==
  /\ InReader /\ fmt = "tzx"
  /\ Take(TzxReadChunk(Head(file), Tail(file)), Tail(file))
  /\ UNCHANGED KeptByReader

ReadPzx ==
  /\ InReader /\ fmt = "pzx"
  /\ \E heap \in Heap : Take(PzxReadChunk(Head(file), heap), Tail(file))
  /\ UNCHANGED KeptByReader

ReadTap ==
  /\ InReader /\ fmt \in TapFormats
  /\ LET block == TapReadBlock(file, fmt) IN Take(block.result, block.rest)
  /\ UNCHANGED KeptByReader

\* Bound: behind the file there is no zero.
ReadSamples ==
  /\ InReader /\ fmt \in SampleFormats
  /\ \E heap \in Heap \ {0} :
       Take(CASE fmt = "csw" -> libspectrum_csw_read(Head(file), heap)
              [] fmt = "z80em" -> libspectrum_z80em_read(Head(file))
              [] fmt = "wav" -> libspectrum_wav_read(Head(file)), <<>>)
  /\ UNCHANGED KeptByReader

\* The loop of internal_warajevo_read, which does not see that a list goes round.
ReadWarajevo ==
  /\ InReader /\ fmt = "warajevo"
  /\ Total([i \in DOMAIN rd |-> Len(rd[i].data)]) <= MaxBytes
  /\ LET f == Head(file)
     IN IF f.at = EndMarker THEN Take(Skipped, <<>>)
        ELSE \E outcome \in get_next_block(f, rd, {ToByte(heap) : heap \in Heap}) :
               TakeTape(outcome.result, <<outcome.rest>>)
  /\ UNCHANGED KeptByReader

ReadEnd ==
  /\ phase = "reading" /\ file = <<>>
  /\ phase' = "read"
  /\ UNCHANGED <<file, rd, err, KeptByReader>>

Reading == ReadTzx \/ ReadPzx \/ ReadTap \/ ReadSamples \/ ReadWarajevo \/ ReadEnd

-----------------------------------------------------------------------------
(* Damage.                                                                  *)

\* The file ends after a part of what is left.  In a chunk of a .tzx or .pzx file the
\* readers look at nothing else; bound: between two chunks or in one.
CutChunks(between) ==
  /\ InReader /\ fmt \in { "tzx", "pzx" } /\ whole /\ saves = 1
  /\ whole' = FALSE
  /\ IF between THEN file' = <<>> /\ UNCHANGED <<phase, rd, err>>
     ELSE /\ fmt = "tzx" => ChunkBytes(Head(file)) > 1
          /\ Take(Fails("CORRUPT"), <<>>)
  /\ UNCHANGED <<tape, saves, from, fmt, own>>

CutBytes(n) ==
  /\ InReader /\ fmt \in TapFormats /\ whole /\ saves = 1
  /\ whole' = FALSE
  /\ file' = SubSeq(file, 1, n)
  /\ UNCHANGED <<tape, saves, from, phase, fmt, own, rd, err>>

-----------------------------------------------------------------------------
\* What was read is what will be saved next.
Adopt ==
  /\ phase = "read" /\ whole /\ saves < MaxSaves
  /\ tape' = rd /\ rd' = <<>>
  /\ from' = fmt /\ fmt' = "none"
  /\ phase' = "idle"
  /\ UNCHANGED <<saves, file, own, whole, err>>

Next ==
  \/ \E f \in Formats, heap \in Heap : Save(f, heap)
  \/ Find
  \/ Reading
  \/ \E between \in BOOLEAN : CutChunks(between)
  \/ \E n \in 1 .. Len(file) - 1 : CutBytes(n)
  \/ Adopt

\* A reader that was called goes on until it returns.
Spec == Init /\ [][Next]_vars /\ WF_vars(Reading)

-----------------------------------------------------------------------------
(* What a tape plays: its signal from a high level on, with a mark, which is *)
(* no level, where it stops.                                                *)

IsStop(b) == b.type = "STOP48" \/ (b.type = "PAUSE" /\ b.length = 0)

PlaysBlock(signal, b) ==
  CASE IsStop(b) -> [level |-> IF b.type = "STOP48" THEN 1 - signal.level ELSE b.level,
                     wave |-> Append(signal.wave,
                                     [level |-> IF b.type = "STOP48" THEN -2 ELSE -1,
                                      length |-> 0])]
    [] b.type = "SET_SIGNAL_LEVEL" -> [signal EXCEPT !.level = 1 - b.level]
    [] b.type \in PulseBlocks /\ ~IsStop(b) -> Played(signal, RefPulses(b))
    [] OTHER -> signal

Performance(t) ==
  LET order == PlayOrder(t)
  IN FoldLeft(PlaysBlock, Quiet(1), [i \in DOMAIN order |-> t[order[i]]]).wave

\* Files have whole ms, and a word for them.
LossyTime(t) == t % TstatesPerMs # 0 \/ t >= WordValues * TstatesPerMs

(* What .tzx files cannot hold.  A low pause of less than one ms stops the    *)
(* tape.  A DATA_BLOCK whose bits have different numbers of pulses is       *)
(* written with whatever lies behind the shorter list, and its bits end     *)
(* before a pulse of no length.  A RLE_PULSE block always begins low: here,  *)
(* at the start of a tape only.  A jump counts blocks, of which some become  *)
(* several.                                                                 *)
LossyInTzx(t) ==
  \E i \in DOMAIN t :
    LET b == t[i]
    IN CASE b.type = "PAUSE" /\ b.level = 0 -> LossyTime(b.length)
         [] b.type = "PAUSE" /\ b.level # 0 -> b.length \notin 1 .. WordValues - 1
         [] b.type = "PULSE_SEQUENCE" ->
              \E k \in DOMAIN b.lengths : b.lengths[k] >= WordValues
         [] b.type = "DATA_BLOCK" -> \/ Len(b.bit0_pulses) # Len(b.bit1_pulses)
                                   \/ \E k \in 2 .. Len(b.bit0_pulses) :
                                        0 \in {b.bit0_pulses[k], b.bit1_pulses[k]}
         [] b.type = "RLE_PULSE" -> i # 1
         [] b.type = "JUMP" -> \E k \in DOMAIN t : Len(tzx_write_block(t[k], 0)) # 1
         [] b.type \in {"ROM", "TURBO", "PURE_DATA", "RAW_DATA", "GENERALISED_DATA"} ->
              LossyTime(b.pause)
         [] OTHER -> FALSE

\* A file of ours, read to its end and not cut.
CameBack == phase = "read" /\ whole /\ own

\* A block of data has bits in its last byte; of one byte of PURE_DATA there may be none
\* (tzx_read.c:475 leaves a block of a single byte alone).
LastByteUsed(b) ==
  b.bits_in_last_byte \in 1 .. BitsInByte
    \/ b.data = <<>> \/ (b.type = "PURE_DATA" /\ Len(b.data) = 1)

(* Blocks that were read are ones that the tape can play.                     *)
TypeOK ==
  /\ phase \in { "idle", "reading", "read", "failed" }
  /\ saves \in 0 .. MaxSaves
  /\ {fmt, from} \subseteq Formats \union SampleFormats \union { "none", "pzx", "warajevo" }
  /\ own \in BOOLEAN /\ whole \in BOOLEAN
  /\ err \in { "NONE", "CORRUPT", "UNKNOWN", "INVALID", "LOGIC", "SIGNATURE", "CRASH" }
  /\ phase = "failed" <=> err # "NONE"
  /\ \A i \in DOMAIN rd :
       rd[i].type \in { "TURBO", "PURE_DATA", "RAW_DATA", "DATA_BLOCK" } => LastByteUsed(rd[i])

(***************************************************************************)
(* A tape that was saved as .tzx plays as it did before: the same signal,   *)
(* block after block, through its loops and jumps and up to the same stops, *)
(* although blocks of other formats became other blocks (tzx_write.c:628).  *)
(***************************************************************************)
PlaysAsSaved ==
  CameBack /\ fmt = "tzx" /\ WellFormed(tape) /\ ~LossyInTzx(tape) =>
    WellFormed(rd) /\ Performance(rd) = Performance(tape)

\* Counts of one byte, for lists that are written whole (tzx_write.c:290, 532, 592, 608).
TooMany(b) ==
  \/ b.type \in {"PULSES", "PULSE_SEQUENCE"} /\ Len(b.lengths) >= ByteValues
  \/ b.type = "SELECT" /\ Len(b.choices) >= ByteValues
  \/ b.type = "ARCHIVE_INFO" /\ Len(b.strings) >= ByteValues
  \/ b.type = "HARDWARE" /\ Len(b.machines) >= ByteValues

\* The length of a SELECT reaches behind it: by three bytes, and further by what is
\* left out of its texts (tzx_write.c:525, 937).
BeyondSelect(t, i) ==
  /\ t[i].type = "SELECT"
  /\ \/ Len(t) - i < 3
     \/ \E k \in DOMAIN t[i].choices : Len(t[i].choices[k].text) >= ByteValues

(* The files of ours that a reader may refuse: lists and data longer than     *)
(* their counts, and what is left of the file behind a SELECT.              *)
Unreadable(f, t) ==
  IF f = "tzx"
  THEN \E i \in DOMAIN t :
         \/ TooMany(t[i])
         \/ BeyondSelect(t, i)
         \/ t[i].type = "ROM" /\ Len(t[i].data) >= WordValues
  ELSE \E i \in DOMAIN t :
         /\ t[i].type \in TapData
         /\ Len(t[i].data) >= WordValues + (IF ShortLength(f) THEN 2 ELSE 0)

(***************************************************************************)
(* What was written can be read: no reader gives up on a file of ours that  *)
(* nobody cut.                                                             *)
(***************************************************************************)
WrittenIsReadable ==
  phase = "failed" /\ err \in { "CORRUPT", "UNKNOWN" } /\ whole /\ own => Unreadable(fmt, tape)

\* The time of a message is read in seconds and written in ms.
WithoutTimes(t) ==
  [i \in DOMAIN t |-> IF t[i].type = "MESSAGE" THEN [t[i] EXCEPT !.time = 0] ELSE t[i]]

(***************************************************************************)
(* Saving what was read, in the format it was read from, and reading it     *)
(* again gives the same tape.                                              *)
(***************************************************************************)
Stable == CameBack /\ from = fmt => WithoutTimes(rd) = WithoutTimes(tape)

\* A .sta file has no last bytes; it has those that make the parity zero.
SameData(d, e, f) ==
  IF f = "sta" THEN Front(d) = Front(e) /\ (Parity(e) = ToByte(0) => d = e) ELSE d = e

(***************************************************************************)
(* A .tap file of any kind keeps the data of its blocks, in order: at every *)
(* step of the reader, in a file that was cut anywhere, the blocks read are *)
(* the first ones of the tape, and all of them at the end (tap.c:257).      *)
(***************************************************************************)
TapKeepsData ==
  own /\ fmt \in TapFormats /\ ~Unreadable(fmt, tape) =>
    LET data == DataOf(tape)
    IN /\ \A i \in DOMAIN rd : i \in DOMAIN data /\ SameData(rd[i].data, data[i], fmt)
       /\ CameBack => Len(rd) = Len(data)

-----------------------------------------------------------------------------
(* What the blocks of a Warajevo file are for: `meant` of a compressed block  *)
(* is what its program compressed, and `sound` that no copy in it overlaps  *)
(* itself.                                                                  *)
Sound(b) == b.sound /\ Len(b.data) >= b.size

Meant(b) == IF Packed(b) THEN b.meant ELSE SubSeq(b.data, 1, b.length)

\* The bits of a block that is a .tap block or samples.
BitsOnTape(t) ==
  FlattenSeq([i \in DOMAIN t |->
    Bits(t[i], IF t[i].type = "ROM" THEN BitsInByte ELSE t[i].bits_in_last_byte)])

BlockOf(b) ==
  IF b.samples THEN [type |-> "RAW_DATA", data |-> Meant(b), bits_in_last_byte |-> b.bits_used + 1]
  ELSE LET data == <<b.flag>> \o Meant(b) IN [type |-> "ROM", data |-> Append(data, Parity(data))]

AtBlock == fmt = "warajevo" /\ InReader /\ Head(file).at \in DOMAIN Head(file).blocks

(***************************************************************************)
(* A block of a Warajevo file whose data is sound is read, and its bits are *)
(* the next ones on the tape, be they compressed or not, in a block of its  *)
(* own or at the end of samples that go on (warajevo_read.c:584).           *)
(***************************************************************************)
WarajevoUnpacks ==
  [][AtBlock =>
       LET b == Head(file).blocks[Head(file).at]
       IN b.next # EndMarker /\ Sound(b) =>
            phase' = "reading" /\ BitsOnTape(rd') = BitsOnTape(rd) \o BitsOnTape(<<BlockOf(b)>>)]_vars

\* A list of blocks that comes back to one of its blocks.
GoesRound(f) ==
  LET at[n \in 0 .. Cardinality(DOMAIN f.blocks)] ==
        IF n = 0 THEN f.at
        ELSE IF at[n - 1] \in DOMAIN f.blocks THEN f.blocks[at[n - 1]].next ELSE EndMarker
  IN at[Cardinality(DOMAIN f.blocks)] \in DOMAIN f.blocks

(***************************************************************************)
(* A reader ends, whatever the file: but for a Warajevo file whose list of  *)
(* blocks goes round (warajevo_read.c:197).                                *)
(***************************************************************************)
ReadingEnds ==
  phase = "reading" /\ (fmt = "warajevo" /\ file # <<>> => ~GoesRound(Head(file)))
    ~> phase # "reading"
=============================================================================
