-------------------------------- MODULE Rzx --------------------------------
(***************************************************************************)
(* The input recordings of rzx.c: a list of blocks that an emulator fills,  *)
(* rolls back, tidies, writes to a file, reads back and plays.              *)
(*                                                                         *)
(* A frame that read the same bytes as the last frame that was stored in    *)
(* full is stored as a repetition of it, in memory and in the file.  The    *)
(* pointers of struct libspectrum_rzx are ids of blocks and indexes of      *)
(* frames here, so that one may outlive what it points to.                  *)
(*                                                                         *)
(* The caller records or plays but does not do both with one object, and    *)
(* ends the current input block before it deletes that block or finalises   *)
(* the recording; `role` is the caller's.                                   *)
(***************************************************************************)
EXTENDS Integers, Sequences, SequencesExt, Places

CONSTANTS
  Snaps,         \* the snapshots
  Unsaveable,    \* those of which libspectrum_sna_write fails
  Formats,       \* what snap_format a caller of libspectrum_rzx_write asks for
  Instructions,  \* opcode counts of a frame
  InBytes,       \* the bytes read in a frame
  Tstates,
  ForeignFile,   \* a file of another program
  RepeatFrame,   \* 0xffff
  MaxBlocks,     \* bound: blocks in a recording
  MaxFrames      \* bound: frames in a recording

\* A frame of a file: a count, and that many bytes unless it repeats.
StoredFrame ==
  {f \in [instructions : 0..RepeatFrame, count : 0..RepeatFrame, in : Seq(Nat)] :
     IF f.count = RepeatFrame THEN f.in = <<>> ELSE f.count = Len(f.in)}

StoredBlock ==
  [type : {"INPUT"}, tstates : Nat, frames : Seq(StoredFrame)]
    \union [type : {"SNAP"}, snap : Snaps]
    \union [type : {"SIGN", "CREATOR", "LINK"}]

ASSUME RzxAssumption ==
  /\ Unsaveable \subseteq Snaps
  /\ Formats \subseteq {"SZX", "SNA"}
  /\ RepeatFrame \in Nat
  /\ \A in \in InBytes : in \in Seq(Nat) /\ Len(in) < RepeatFrame
  /\ \A n \in Instructions : n \in 0..RepeatFrame
  /\ Tstates \subseteq Nat
  /\ MaxBlocks \in Nat
  /\ ForeignFile \in Seq(StoredBlock)

VARIABLES
  blocks,         \* rzx->blocks
  current_block,  \* the id of a block, or Null
  current_input,  \* the id of the block whose input block it is, or Null
  current_frame,
  data_frame,     \* 1 + the index of the frame in current_input, or Null
  in_count,
  role,
  file            \* the last .rzx file written

playback == <<current_block, current_frame, data_frame, in_count>>
vars == <<blocks, current_input, playback, role, file>>

Null == 0
Garbage == -1     \* a field that is not initialised

Ids == {blocks[i].id : i \in DOMAIN blocks}

\* The place of the block with the given id, 0 if it was freed.
Place(id) == SelectInSeq(blocks, LAMBDA b : b.id = id)

Input(id) == blocks[Place(id)]

\* malloc: addresses that no block has, and no pointer either.
Addresses == (1..2 * MaxBlocks + 2) \ (Ids \union {current_input, current_block})

FreshId == Nth(Addresses, 1)

IsInput(b) == b.type = "INPUT"
IsSnapshot(b) == b.type = "SNAP"
IsStored(b) == IsInput(b) \/ IsSnapshot(b)

FrameCount(list) == FoldLeft(LAMBDA n, b : IF IsInput(b) THEN n + Len(b.frames) ELSE n, 0, list)

InputBlock(id, tstates, frames, non_repeat) ==
  [id |-> id, type |-> "INPUT", tstates |-> tstates, frames |-> frames,
   non_repeat |-> non_repeat]

SnapBlock(id, s, automatic) ==
  [id |-> id, type |-> "SNAP", snap |-> s, automatic |-> automatic]

Recording == role = "recorder"

----------------------------------------------------------------------------
(* libspectrum_rzx_alloc.                                                   *)
Init ==
  /\ blocks = <<>>
  /\ current_block = Null /\ current_input = Null
  /\ current_frame = 0 /\ data_frame = Null /\ in_count = 0
  /\ role = "recorder"
  /\ file = ForeignFile

(* libspectrum_rzx_free, and another libspectrum_rzx_alloc.                 *)
Free ==
  /\ blocks' = <<>>
  /\ current_block' = Null /\ current_input' = Null
  /\ current_frame' = 0 /\ data_frame' = Null /\ in_count' = 0
  /\ role' = "recorder"
  /\ UNCHANGED file

StartInput(tstates) ==
  /\ Recording
  /\ Len(blocks) < MaxBlocks
  /\ blocks' = Append(blocks, InputBlock(FreshId, tstates, <<>>, 0))
  /\ current_input' = FreshId
  /\ UNCHANGED <<playback, role, file>>

StopInput ==
  /\ Recording
  /\ current_input' = Null
  /\ UNCHANGED <<blocks, playback, role, file>>

\* A mutant of InputAfterSnap: the input block is not stopped.
InputAfterSnapOpen == current_input

InputAfterSnap == Null

AddSnap(s, automatic) ==
  /\ Recording
  /\ Len(blocks) < MaxBlocks
  /\ current_input' = InputAfterSnap
  /\ blocks' = Append(blocks, SnapBlock(FreshId, s, automatic))
  /\ UNCHANGED <<playback, role, file>>

(* g_slist_insert of a snapshot before the block at a place; a place behind *)
(* the last one appends.                                                    *)
InsertSnap(s, where) ==
  /\ Recording
  /\ Len(blocks) < MaxBlocks
  /\ blocks' = InsertAt(blocks, where, SnapBlock(FreshId, s, FALSE))
  /\ UNCHANGED <<current_input, playback, role, file>>

\* A mutant of InputAfterRollback: the input block is not stopped.
InputAfterRollbackOpen == current_input

InputAfterRollback == Null

(* libspectrum_rzx_rollback_to, and libspectrum_rzx_rollback when k is the  *)
(* place of the last snapshot.                                              *)
Rollback(k) ==
  /\ Recording
  /\ IsSnapshot(blocks[k])
  /\ current_input' = InputAfterRollback
  /\ blocks' = SubSeq(blocks, 1, k)
  /\ UNCHANGED <<playback, role, file>>

----------------------------------------------------------------------------
\* A mutant of NonRepeat: a frame without bytes is not noted.
NonRepeatWithBytes(input, in) ==
  IF in = <<>> THEN input.non_repeat ELSE Len(input.frames)

\* The index of a frame that is stored in full: the last non-repeated one.
NonRepeat(input, in) == Len(input.frames)

(* libspectrum_rzx_store_frame.                                             *)
Repeats(input, in) ==
  /\ input.frames # <<>> /\ in # <<>>
  /\ in = input.frames[input.non_repeat + 1].in

\* A mutant of StoreInto: a repetition keeps a copy of the bytes.
StoreIntoCopies(input, instructions, in) ==
  [input EXCEPT !.frames = Append(@, [instructions |-> instructions, in |-> in,
                                      repeat_last |-> Repeats(input, in)]),
                !.non_repeat = IF Repeats(input, in) THEN @ ELSE NonRepeat(input, in)]

StoreInto(input, instructions, in) ==
  IF Repeats(input, in)
    THEN [input EXCEPT !.frames =
            Append(@, [instructions |-> instructions, in |-> <<>>, repeat_last |-> TRUE])]
    ELSE [input EXCEPT !.frames =
            Append(@, [instructions |-> instructions, in |-> in, repeat_last |-> FALSE]),
                       !.non_repeat = NonRepeat(input, in)]

StoreFrame(instructions, in) ==
  /\ Recording
  /\ current_input \in Ids \ {Null}
  /\ FrameCount(blocks) < MaxFrames
  /\ blocks' = [blocks EXCEPT ![Place(current_input)] = StoreInto(@, instructions, in)]
  /\ UNCHANGED <<current_input, playback, role, file>>

----------------------------------------------------------------------------
(* libspectrum_rzx_iterator_delete.                                         *)
IteratorDelete(k) ==
  /\ Recording
  /\ blocks[k].id # current_input
  /\ blocks' = RemoveAt(blocks, k)
  /\ UNCHANGED <<current_input, playback, role, file>>

(* libspectrum_rzx_finalise, first pass: the snapshots after the first one. *)
OneSnapshot(list) ==
  LET first == SelectInSeq(list, IsSnapshot)
  IN  Pick(list, {i \in DOMAIN list : IsSnapshot(list[i]) => i = first})

\* A mutant of Merge: the frames of the next block come first.
MergeSwapped(input, next) == [input EXCEPT !.frames = next.frames \o @]

(* input_block_merge.                                                       *)
Merge(input, next) ==
  [input EXCEPT !.frames = @ \o next.frames,
                !.non_repeat = IF next.non_repeat = Garbage THEN Garbage
                               ELSE Len(input.frames) + next.non_repeat]

(* The second pass: an input block joins the input block before it.         *)
MergeNext(merged, b) ==
  IF merged # <<>> /\ IsInput(b) /\ IsInput(Last(merged))
    THEN [merged EXCEPT ![Len(merged)] = Merge(@, b)]
    ELSE Append(merged, b)

Finalise ==
  /\ Recording
  /\ current_input = Null
  /\ blocks' = FoldLeft(MergeNext, <<>>, OneSnapshot(blocks))
  /\ UNCHANGED <<current_input, playback, role, file>>

----------------------------------------------------------------------------
(* libspectrum_rzx_write: signature blocks are left out, a repeated frame   *)
(* has the repeat count and no bytes.                                       *)
WrittenFrame(f) ==
  [instructions |-> f.instructions,
   count |-> IF f.repeat_last THEN RepeatFrame ELSE Len(f.in), in |-> f.in]

WrittenBlock(b) ==
  IF IsInput(b)
    THEN [type |-> "INPUT", tstates |-> b.tstates,
          frames |-> [i \in DOMAIN b.frames |-> WrittenFrame(b.frames[i])]]
    ELSE [type |-> "SNAP", snap |-> b.snap]

(* rzx_write_snapshot succeeds whatever libspectrum_snap_write_buffer says; *)
(* the format is the caller's up to the first input block, then SZX.        *)
Lost(format, i) ==
  /\ format = "SNA"
  /\ IsSnapshot(blocks[i]) /\ blocks[i].snap \in Unsaveable
  /\ \A j \in 1..i : ~IsInput(blocks[j])

Written(format) ==
  LET kept == Pick(blocks, {i \in DOMAIN blocks : IsStored(blocks[i]) /\ ~Lost(format, i)})
  IN  [i \in DOMAIN kept |-> WrittenBlock(kept[i])]

Write(format) ==
  /\ Recording
  /\ file' = Written(format)
  /\ UNCHANGED <<blocks, current_input, playback, role>>

(* rzx_read_frames                                                          *)
ReadFrame(w) ==
  IF w.count = RepeatFrame
    THEN [instructions |-> w.instructions, in |-> <<>>, repeat_last |-> TRUE]
    ELSE [instructions |-> w.instructions, in |-> w.in, repeat_last |-> FALSE]

(* rzx_read_input, rzx_read_snapshot and rzx_read_sign_start or _end.       *)
ReadBlock(id, w) ==
  IF w.type = "INPUT"
    THEN InputBlock(id, w.tstates, [i \in DOMAIN w.frames |-> ReadFrame(w.frames[i])], Garbage)
  ELSE IF w.type = "SNAP" THEN SnapBlock(id, w.snap, FALSE)
  ELSE [id |-> id, type |-> "SIGN"]

(* libspectrum_rzx_read: creator blocks and links to snapshots elsewhere    *)
(* are skipped, the other blocks follow those that are there; an error      *)
(* leaves the n blocks before it.                                           *)
Kept(stored) ==
  Pick(stored, {i \in DOMAIN stored : stored[i].type \notin {"CREATOR", "LINK"}})

Loaded(kept) == [i \in DOMAIN kept |-> ReadBlock(Nth(Addresses, i), kept[i])]

Read(n) ==
  /\ Recording
  /\ blocks' = blocks \o Loaded(Kept(SubSeq(file, 1, n)))
  /\ Len(blocks') <= MaxBlocks /\ FrameCount(blocks') <= MaxFrames
  /\ UNCHANGED <<current_input, playback, role, file>>

----------------------------------------------------------------------------
(* Entering an input block for playback: data_frame points to its first     *)
(* frame; there is none in an empty block.                                  *)
Enter(i) ==
  /\ current_block' = blocks[i].id
  /\ current_input' = blocks[i].id
  /\ current_frame' = 0 /\ in_count' = 0
  /\ data_frame' = IF blocks[i].frames = <<>> THEN Null ELSE 1

(* libspectrum_rzx_start_playback of the input block at place i.            *)
StartPlayback(i) ==
  /\ IsInput(blocks[i])
  /\ Enter(i)
  /\ role' = "player"
  /\ UNCHANGED <<blocks, file>>

DataFrame == Input(current_input).frames[data_frame]

Playing == role = "player" /\ data_frame # Null

(* libspectrum_rzx_playback: one byte, or an error if there is none left.   *)
Playback ==
  /\ Playing
  /\ in_count < Len(DataFrame.in)
  /\ in_count' = in_count + 1
  /\ UNCHANGED <<blocks, current_input, current_block, current_frame, data_frame, role, file>>

\* A mutant of NextData: a repeated frame has data of its own.
NextDataOwn(frame) == frame + 1

\* The data of the frame: its own, or those of the frame it repeats.
NextData(frame) ==
  IF Input(current_input).frames[frame + 1].repeat_last THEN data_frame ELSE frame + 1

NextInputs ==
  {i \in DOMAIN blocks : i > Place(current_block) /\ IsInput(blocks[i])}

(* libspectrum_rzx_playback_frame; an error while bytes are left.  When the *)
(* recording has ended it must not be called again.                         *)
PlaybackFrame ==
  /\ Playing
  /\ current_block # Null
  /\ in_count = Len(DataFrame.in)
  /\ \/ /\ current_frame + 1 < Len(Input(current_input).frames)
        /\ current_frame' = current_frame + 1
        /\ data_frame' = NextData(current_frame + 1)
        /\ in_count' = 0
        /\ UNCHANGED <<current_block, current_input>>
     \/ /\ current_frame + 1 >= Len(Input(current_input).frames)
        /\ \E i \in NextInputs : (\A j \in NextInputs : i <= j) /\ Enter(i)
     \/ /\ current_frame + 1 >= Len(Input(current_input).frames)
        /\ NextInputs = {}
        /\ current_block' = Null
        /\ current_frame' = current_frame + 1
        /\ UNCHANGED <<current_input, data_frame, in_count>>
  /\ UNCHANGED <<blocks, role, file>>

----------------------------------------------------------------------------
Record ==
  \/ \E t \in Tstates : StartInput(t)
  \/ StopInput
  \/ \E s \in Snaps : \/ \E automatic \in BOOLEAN : AddSnap(s, automatic)
                      \/ \E where \in 1..Len(blocks) + 1 : InsertSnap(s, where)
  \/ \E n \in Instructions, in \in InBytes : StoreFrame(n, in)
  \/ \E k \in DOMAIN blocks : Rollback(k) \/ IteratorDelete(k)
  \/ Finalise
  \/ \E format \in Formats : Write(format)
  \/ \E n \in 0..Len(file) : Read(n)

Play ==
  \/ \E i \in DOMAIN blocks : StartPlayback(i)
  \/ Playback
  \/ PlaybackFrame

Next == Record \/ Play \/ Free

Spec == Init /\ [][Next]_vars

----------------------------------------------------------------------------
(* The properties.                                                          *)

Frame == [instructions : 0..RepeatFrame, in : Seq(Nat), repeat_last : BOOLEAN]

BlockOK(b) ==
  \/ /\ IsInput(b)
     /\ b.tstates \in Nat /\ b.frames \in Seq(Frame) /\ b.non_repeat \in Nat \union {Garbage}
     /\ \A i \in DOMAIN b.frames : b.frames[i].repeat_last => b.frames[i].in = <<>>
  \/ IsSnapshot(b) /\ b.snap \in Snaps /\ b.automatic \in BOOLEAN
  \/ b.type = "SIGN"

(* The blocks are well-formed and distinct, a repeated frame has no bytes   *)
(* of its own, and the counters of the playback are in range.               *)
TypeOK ==
  /\ \A i \in DOMAIN blocks : BlockOK(blocks[i])
  /\ \A i, j \in DOMAIN blocks : blocks[i].id = blocks[j].id => i = j
  /\ {current_block, current_input} \subseteq Nat
  /\ current_frame \in Nat /\ data_frame \in Nat /\ in_count \in Nat
  /\ role \in {"recorder", "player"}

(* No pointer outlives its block: the block that frames are stored in or    *)
(* played from is still in the list after every rollback, deletion, merge   *)
(* and load, and frames are stored in an input block.                       *)
NoDanglingPointer ==
  /\ current_input # Null => current_input \in Ids /\ IsInput(Input(current_input))
  /\ current_block # Null => current_block = current_input

(* The frame that the next frame is compared with is the last one that was  *)
(* stored in full: the comment on non_repeat in struct input_block_t.       *)
RepeatTargetSound ==
  Recording /\ current_input # Null =>
    LET input == Input(current_input)
    IN  input.frames # <<>> =>
          /\ input.non_repeat + 1 \in DOMAIN input.frames
          /\ ~input.frames[input.non_repeat + 1].repeat_last
          /\ \A i \in input.non_repeat + 2..Len(input.frames) : input.frames[i].repeat_last

(* No run of the file begins with a repetition, of which the reader would   *)
(* not know what it repeats; libspectrum_rzx_read does not look.            *)
RunsBeginFull ==
  \A i \in DOMAIN ForeignFile :
    ForeignFile[i].type = "INPUT" /\ ForeignFile[i].frames # <<>> =>
      ForeignFile[i].frames[1].count # RepeatFrame

(* libspectrum_rzx_write is asked for no format that cannot hold a snapshot *)
(* (WriteKeepsAll is about the others).                                     *)
SnapshotsSaveable == "SNA" \in Formats => Unsaveable = {}

(* The frame a repetition stands for.                                       *)
SourceOf(frames, i) ==
  CHOOSE j \in 1..i : ~frames[j].repeat_last /\ \A k \in j + 1..i : frames[k].repeat_last

(* During playback the bytes handed out are those of the frame that is      *)
(* current or that it repeats, however many repetitions, merges and blocks  *)
(* lie before it.                                                           *)
PlaysCurrentFrame ==
  Playing /\ current_block # Null =>
    /\ current_frame < Len(Input(current_input).frames)
    /\ data_frame = SourceOf(Input(current_input).frames, current_frame + 1)
    /\ in_count <= Len(DataFrame.in)

----------------------------------------------------------------------------
(* The promise of a recording.                                              *)

Decoded(frames) ==
  [i \in DOMAIN frames |->
     [instructions |-> frames[i].instructions, in |-> frames[SourceOf(frames, i)].in]]

Item(b) ==
  IF b.type = "INPUT"
    THEN [type |-> "INPUT", tstates |-> b.tstates, frames |-> Decoded(b.frames)]
  ELSE IF b.type = "SNAP" THEN [type |-> "SNAP", snap |-> b.snap]
  ELSE [type |-> "SIGN"]

Items(list) == [i \in DOMAIN list |-> Item(list[i])]

ItemsOfFile ==
  LET kept == Kept(file) IN [i \in DOMAIN kept |-> Item(ReadBlock(Null, kept[i]))]

Log == INSTANCE Recording WITH
  Frames <- [instructions : Instructions, in : InBytes],
  log    <- Items(blocks),
  open   <- IF Recording /\ current_input # Null THEN Place(current_input) ELSE 0,
  saved  <- ItemsOfFile

(* A recording is what was recorded: repetitions, rollbacks, deletions,     *)
(* merges, and a round through the file keep every byte of every frame.     *)
RecordingSpec == Log!Spec

(* A file that libspectrum_rzx_write reports as written holds everything    *)
(* that was recorded.                                                       *)
WriteKeepsAll ==
  [][(\E format \in Formats : Write(format)) =>
       Len(file') = Len(SelectSeq(blocks, IsStored))]_vars

=============================================================================
