------------------------------- MODULE Tape -------------------------------
(***************************************************************************)
(* The tape of tape.c: a list of blocks under edit, and the iterator that   *)
(* plays it, with the writer of .csw files (csw.c), which plays the tape    *)
(* through an iterator of its own.                                          *)
(*                                                                         *)
(* A block of the list is a record [id, block]; the pointers of struct      *)
(* libspectrum_tape and libspectrum_tape_block_state are ids, so that one   *)
(* may outlive its block.  What an edge says of the pulses is in            *)
(* TapeBlocks.                                                              *)
(*                                                                         *)
(* `flags`, `heard` and `order` belong to the emulator: the flags of the    *)
(* last edge, what the machine heard since the block began, and which       *)
(* blocks ended since the tape began.                                       *)
(***************************************************************************)
EXTENDS Samples

CONSTANTS
  Files,        \* what the readers make of a file: sequences of blocks
  Insertable,   \* blocks that a caller appends or inserts
  MaxBlocks,    \* bound: blocks on a tape
  MaxCalls,     \* bound: calls other than for the next edge
  CarefulCaller \* see WriteStart, RemoveBlock and Clear

\* The blocks that a caller has.
Blocks == Insertable \cup UNION {{f[i] : i \in DOMAIN f} : f \in Files}

ASSUME TapeAssumption ==
  /\ \A f \in Files : Len(f) \in 1..MaxBlocks /\ DOMAIN f = 1..Len(f)
  /\ \A b \in Blocks : b.type = "LOOP_START" => b.count \in Nat
  /\ MaxBlocks \in Nat /\ MaxCalls \in Nat
  /\ CarefulCaller \in BOOLEAN

VARIABLES
  blocks,     \* tape->blocks
  last_block, \* tape->last_block
  it,         \* it.tape is tape->state, it.csw the iterator of csw_write_body
  writing,    \* csw_write_body is in its loop
  csw,        \* its other locals, and the bytes it has written
  calls,
  flags, heard, order

history == <<flags, heard, order>>
vars == <<blocks, last_block, it, writing, csw, calls, history>>

NoBody == Body(0)

Null == 0
Garbage == -1    \* a pointer that was never set

Contents == [i \in DOMAIN blocks |-> blocks[i].block]

Place(list, id) == SelectInSeq(list, LAMBDA b : b.id = id)

On(list, id) == Place(list, id) # 0

BlockAt(list, id) == list[Place(list, id)].block

First(list) == IF list = <<>> THEN Null ELSE list[1].id

LastId(list) == IF list = <<>> THEN Null ELSE Last(list).id

\* iterator->next
After(list, id) == IF Place(list, id) < Len(list) THEN list[Place(list, id) + 1].id ELSE Null

\* A mutant of StartedAt: the block is not initialised.
StartedAtAsLeft(list, iter, id) == [iter EXCEPT !.current = id]

(* An iterator that was set to a block, which is initialised with it.        *)
StartedAt(list, iter, id) ==
  IF id = Null THEN [iter EXCEPT !.current = Null]
  ELSE [iter EXCEPT !.current = id, !.st = BlockInit(BlockAt(list, id))]

NoBlock == [type |-> "NONE"]

Idle == [current |-> Null, loop |-> Null, count |-> 0, st |-> NoState]

Silence(level) ==
  [block |-> NoBlock, from |-> 0, level |-> level, wave |-> <<>>, total |-> 0,
   inBlock |-> FALSE, whole |-> FALSE]

Init ==
  /\ blocks = <<>> /\ last_block = Null
  /\ it = [tape |-> Idle, csw |-> Idle]
  /\ writing = FALSE /\ csw = NoBody /\ calls = 0
  /\ flags = {} /\ order = <<>>
  /\ heard = Silence(0)

-----------------------------------------------------------------------------
(* The emulator's side of a call.                                            *)
Lost == <<0>>     \* the tape was not played from its start without interruption

AtStart == order = <<>> \/ "TAPE" \in flags

Hears(t, fs) ==
  LET place == Place(blocks, it.tape.current)
      begun == IF heard.inBlock \/ place = 0 THEN heard
               ELSE [heard EXCEPT !.block = blocks[place].block, !.from = heard.level,
                                  !.wave = <<>>, !.total = 0, !.whole = TRUE]
      level == Hear(heard.level, fs)
  IN /\ flags' = fs
     /\ heard' = [begun EXCEPT !.level = level, !.wave = Extend(@, level, t), !.total = @ + t,
                               !.inBlock = "BLOCK" \notin fs]
     /\ order' = IF ~WellFormed(Contents) THEN Lost
                 ELSE IF "TAPE" \in flags THEN (IF "BLOCK" \in fs THEN <<place>> ELSE <<>>)
                 ELSE IF order = Lost \/ "BLOCK" \notin fs THEN order
                 ELSE Append(order, place)

\* The caller moved the tape.
Interrupted(newOrder) ==
  /\ flags' = {}
  /\ heard' = [heard EXCEPT !.whole = FALSE, !.inBlock = FALSE]
  /\ order' = newOrder

\* The caller changed the list while the current block stays.
Edited(newOrder) == flags' = {} /\ order' = newOrder /\ UNCHANGED heard

Extended == Edited(IF AtStart THEN <<>> ELSE Lost)

-----------------------------------------------------------------------------
(* libspectrum_tape_get_next_edge_internal, called by the emulator for the   *)
(* tape and by csw_write_body until an edge has the STOP flag.               *)
Plays(p) == writing = (p = "csw")

Playing(p, types) ==
  /\ Plays(p)
  /\ On(blocks, it[p].current)
  /\ BlockAt(blocks, it[p].current).type \in types

Return(p, iters, t, fs) ==
  /\ IF p = "tape"
     THEN it' = iters /\ Hears(t, fs) /\ csw' = NoBody /\ UNCHANGED writing
     ELSE /\ it' = IF "STOP" \in fs THEN [iters EXCEPT !.csw = Idle] ELSE iters
          /\ writing' = ("STOP" \notin fs)
          /\ csw' = CswEdge(csw, t, fs)
          /\ UNCHANGED history
  /\ UNCHANGED <<blocks, last_block, calls>>

\* A mutant of ReturnLast: the tape goes round.
ReturnLastRound(p, iters, t, fs) ==
  LET next == After(blocks, iters[p].current)
      id == IF next = Null THEN First(blocks) ELSE next
  IN Return(p, [iters EXCEPT ![p] = StartedAt(blocks, @, id)], t, fs \cup {"BLOCK"})

(* The edge ended the block: on to the next block, and from the end of the   *)
(* tape to its start, with an edge to end the last pulse.                    *)
ReturnLast(p, iters, t, fs) ==
  LET next == After(blocks, iters[p].current)
  IN IF next # Null
     THEN Return(p, [iters EXCEPT ![p] = StartedAt(blocks, @, next)], t, fs \cup {"BLOCK"})
     ELSE Return(p, [iters EXCEPT ![p] = StartedAt(blocks, @, First(blocks))], t,
                 (fs \ {"NO_EDGE"}) \cup {"BLOCK", "STOP", "TAPE"})

\* no_advance: the block itself has set the current block.
ReturnMoved(p, iters) ==
  Return(p, [iters EXCEPT ![p] = StartedAt(blocks, @, @.current)], 0, {"BLOCK", "NO_EDGE"})

PulseEdge(p) ==
  /\ Playing(p, PulseBlocks)
  /\ \E e \in {BlockEdge(BlockAt(blocks, it[p].current), it[p].st)} :
       LET iters == [it EXCEPT ![p].st = e.st]
       IN IF e.end THEN ReturnLast(p, iters, e.tstates, e.flags)
          ELSE Return(p, iters, e.tstates, e.flags)

\* Where jump_blocks goes: it counts from the current block of the tape, and moves that.
JumpTarget(p) ==
  IF On(blocks, it.tape.current)
  THEN Place(blocks, it.tape.current) + BlockAt(blocks, it[p].current).offset ELSE 0

JumpEdge(p) ==
  /\ Playing(p, {"JUMP"})
  /\ JumpTarget(p) \in DOMAIN blocks
  /\ ReturnMoved(p, [it EXCEPT !.tape.current = blocks[JumpTarget(p)].id])

(* The jump leaves the tape: the call fails, and with it the writer.         *)
JumpError(p) ==
  /\ Playing(p, {"JUMP"})
  /\ JumpTarget(p) \notin DOMAIN blocks
  /\ writing' = FALSE /\ csw' = NoBody
  /\ it' = [it EXCEPT !.csw = Idle]
  /\ IF p = "tape" THEN Interrupted(Lost) ELSE UNCHANGED history
  /\ UNCHANGED <<blocks, last_block, calls>>

\* A mutant of LoopStarted: the loop is entered without looking at its count.
LoopStartedAnyway(iter) ==
  IF After(blocks, iter.current) # Null
  THEN [iter EXCEPT !.loop = After(blocks, iter.current),
                    !.count = BlockAt(blocks, iter.current).count] ELSE iter

\* A mutant of LoopStarted: the loop goes back to the block that starts it.
LoopStartedAtItself(iter) ==
  [iter EXCEPT !.loop = iter.current, !.count = BlockAt(blocks, iter.current).count]

LoopStarted(iter) ==
  LET count == BlockAt(blocks, iter.current).count
  IN IF After(blocks, iter.current) # Null /\ count # 0
     THEN [iter EXCEPT !.loop = After(blocks, iter.current), !.count = count] ELSE iter

LoopStartEdge(p) ==
  /\ Playing(p, {"LOOP_START"})
  /\ ReturnLast(p, [it EXCEPT ![p] = LoopStarted(@)], 0, {"NO_EDGE"})

\* A mutant of LoopBack: the count stays.
LoopBackAgain(iter) == [iter EXCEPT !.current = iter.loop]

(* A loop pointer that is not on the tape is followed into whatever is       *)
(* there; the model stops.                                                  *)
LoopBack(iter) == [iter EXCEPT !.current = iter.loop, !.count = @ - 1]

LoopAgain(p) ==
  /\ Playing(p, {"LOOP_END"})
  /\ On(blocks, it[p].loop) /\ it[p].count # 1
  /\ ReturnMoved(p, [it EXCEPT ![p] = LoopBack(@)])

LoopDone(iter) == IF iter.loop = Null THEN iter ELSE [iter EXCEPT !.loop = Null, !.count = 0]

LoopEndEdge(p) ==
  /\ Playing(p, {"LOOP_END"})
  /\ it[p].loop = Null \/ it[p].count = 1
  /\ ReturnLast(p, [it EXCEPT ![p] = LoopDone(@)], 0, {"NO_EDGE"})

\* Blocks that only have flags; COMMENT is any block without Spectrum-readable data.
FlagsOf(b) ==
  CASE b.type = "STOP48" -> {"STOP48"}
    [] b.type = "SET_SIGNAL_LEVEL" -> {LevelFlag(1 - b.level)}
    [] b.type = "COMMENT" -> {"NO_EDGE"}

FlagEdge(p) ==
  /\ Playing(p, {"STOP48", "SET_SIGNAL_LEVEL", "COMMENT"})
  /\ ReturnLast(p, it, 0, FlagsOf(BlockAt(blocks, it[p].current)))

\* No current block: the tape is empty, or was when its first block was inserted.
NoBlockEdge(p) ==
  /\ Plays(p) /\ it[p].current = Null
  /\ Return(p, [it EXCEPT ![p] = StartedAt(blocks, @, First(blocks))], 0,
            {"BLOCK", "STOP", "TAPE"})

NextEdge(p) ==
  \/ PulseEdge(p) \/ JumpEdge(p) \/ JumpError(p) \/ LoopStartEdge(p)
  \/ LoopAgain(p) \/ LoopEndEdge(p) \/ FlagEdge(p) \/ NoBlockEdge(p)

-----------------------------------------------------------------------------
(* The other calls.                                                          *)
Call == ~writing /\ calls < MaxCalls /\ calls' = calls + 1

\* What was written is the caller's, and forgotten with his next call.
OtherCall == Call /\ csw' = NoBody

\* malloc: ids that neither a block nor a pointer has.
WithIds(f) ==
  LET used == {blocks[i].id : i \in DOMAIN blocks} \cup {it.tape.current, it.tape.loop}
      top == CHOOSE m \in used : \A k \in used : k <= m
  IN [i \in DOMAIN f |-> [id |-> top + i, block |-> f[i]]]

\* libspectrum_tape_append_block, of one block after the other.
AppendBlocks(f) ==
  LET list == blocks \o WithIds(f)
  IN /\ Len(list) <= MaxBlocks
     /\ blocks' = list /\ last_block' = LastId(list)
     /\ it' = IF it.tape.current # Null THEN it
              ELSE [it EXCEPT !.tape = StartedAt(list, @, First(list))]

\* libspectrum_tape_read.  It also appends; bound: to an empty tape.
ReadFile(f) == OtherCall /\ blocks = <<>> /\ AppendBlocks(f) /\ Extended /\ UNCHANGED writing

AppendBlock(b) == OtherCall /\ AppendBlocks(<<b>>) /\ Extended /\ UNCHANGED writing

\* A mutant of InsertBlock: last_block stays.
InsertBlockOnly(b, position) ==
  /\ OtherCall /\ Len(blocks) < MaxBlocks
  /\ blocks' = InsertAt(blocks, position + 1, WithIds(<<b>>)[1])
  /\ Edited(Lost) /\ UNCHANGED <<last_block, it, writing>>

\* libspectrum_tape_insert_block.  It leaves the state alone, also on an empty tape.
InsertBlock(b, position) ==
  /\ OtherCall
  /\ Len(blocks) < MaxBlocks
  /\ blocks' = InsertAt(blocks, position + 1, WithIds(<<b>>)[1])
  /\ last_block' = LastId(blocks')
  /\ Edited(Lost)
  /\ UNCHANGED <<it, writing>>

\* Nothing keeps a caller from the block that is played or the first one of the loop.
RemoveBlock(i) ==
  /\ OtherCall
  /\ CarefulCaller => blocks[i].id \notin {it.tape.current, it.tape.loop}
  /\ blocks' = RemoveAt(blocks, i)
  /\ last_block' = LastId(blocks')
  /\ Edited(Lost)
  /\ UNCHANGED <<it, writing>>

\* A loop that was not finished keeps its pointer; the state of the current block is
\* not reset, but not read again.
Clear ==
  /\ OtherCall
  /\ blocks # <<>>
  /\ CarefulCaller => it.tape.loop = Null
  /\ blocks' = <<>>
  /\ it' = [it EXCEPT !.tape.current = Null, !.tape.st = NoState]
  /\ flags' = {} /\ order' = <<>> /\ heard' = Silence(heard.level)
  /\ UNCHANGED <<last_block, writing>>

NthBlock(i) ==
  /\ OtherCall
  /\ it' = [it EXCEPT !.tape = StartedAt(blocks, @, blocks[i].id)]
  /\ Interrupted(IF i = 1 THEN <<>> ELSE Lost)
  /\ UNCHANGED <<blocks, last_block, writing>>

SelectNextBlock ==
  /\ OtherCall
  /\ it.tape.current # Null
  /\ LET next == After(blocks, it.tape.current)
         id == IF next = Null THEN First(blocks) ELSE next
     IN /\ it' = [it EXCEPT !.tape = StartedAt(blocks, @, id)]
        /\ Interrupted(IF id = First(blocks) THEN <<>> ELSE Lost)
  /\ UNCHANGED <<blocks, last_block, writing>>

(* libspectrum_tape_set_state with STATE_PAUSE, the value it is for: the     *)
(* emulator has loaded the block by itself.                                 *)
FlashLoad ==
  /\ OtherCall
  /\ Playing("tape", {"ROM", "TURBO", "PURE_DATA", "RAW_DATA"})
  /\ it' = [it EXCEPT !.tape.st.state = "PAUSE"]
  /\ flags' = {}
  /\ heard' = [heard EXCEPT !.whole = FALSE, !.inBlock = TRUE]
  /\ order' = IF AtStart THEN <<>> ELSE order
  /\ UNCHANGED <<blocks, last_block, writing>>

(* The iterator of csw_write_body is on the stack, its loop_block not set;   *)
(* and a tape without a sample rate divides by zero, where the model stops. *)
NoLoopMissed ==
  \A j \in DOMAIN blocks :
    /\ Contents[j].type # "JUMP"
    /\ Contents[j].type = "LOOP_END" =>
         \E i \in 1..(j - 1) : Contents[i].type = "LOOP_START" /\ Contents[i].count # 0

WriteStart ==
  /\ Call
  /\ blocks # <<>>
  /\ CarefulCaller => NoLoopMissed
  /\ ~NoSampleRate(Contents)
  /\ \E loop \in {Null, Garbage} :
       it' = [it EXCEPT !.csw = StartedAt(blocks, [Idle EXCEPT !.loop = loop], First(blocks))]
  /\ writing' = TRUE
  /\ csw' = Body(CpuClock \div find_sample_rate(Contents))
  /\ UNCHANGED <<blocks, last_block, history>>

UserCall ==
  \/ \E f \in Files : ReadFile(f)
  \/ \E b \in Insertable : AppendBlock(b)
  \/ \E b \in Insertable, position \in 0..Len(blocks) : InsertBlock(b, position)
  \/ \E i \in DOMAIN blocks : RemoveBlock(i)
  \/ \E i \in DOMAIN blocks : NthBlock(i)
  \/ Clear
  \/ SelectNextBlock
  \/ FlashLoad
  \/ WriteStart

Next == NextEdge("tape") \/ NextEdge("csw") \/ UserCall

Spec == Init /\ [][Next]_vars

(* The emulator keeps asking for edges, and the loop of the writer does not  *)
(* stop to ask; NextEdge is enabled for the one whose turn it is.            *)
FairSpec == Spec /\ []<><<NextEdge("tape") \/ NextEdge("csw")>>_vars

-----------------------------------------------------------------------------
(* No block has the id of a null pointer, and the loop counts never fall     *)
(* below zero, where an unsigned loop_count would wrap (tape.c:428).          *)
TypeOK ==
  /\ \A i \in DOMAIN blocks : blocks[i].id \in Nat \ {Null}
  /\ Len(blocks) <= MaxBlocks
  /\ writing \in BOOLEAN /\ calls \in 0..MaxCalls
  /\ writing => it.csw.current # Null
  /\ \A p \in {"tape", "csw"} : it[p].count \in Nat
  /\ heard.level \in {0, 1}

(* The pointers that struct libspectrum_tape keeps between calls are blocks  *)
(* of the tape, whatever was appended, inserted, removed or played in        *)
(* between (tape.c:1344).                                                   *)
PointersOnTape ==
  /\ it.tape.current = Null \/ On(blocks, it.tape.current)
  /\ it.tape.loop = Null \/ On(blocks, it.tape.loop)
  /\ blocks # <<>> => last_block = LastId(blocks)

(* When the next edge begins a block, block_state is that block's initial    *)
(* state, no matter whether the tape was played, jumped, looped or wound to  *)
(* it (tape.c:521): the union may hold what another type of block left.      *)
BlocksBeginFresh ==
  On(blocks, it.tape.current) /\ ~heard.inBlock =>
    it.tape.st = BlockInit(BlockAt(blocks, it.tape.current))

Ended(types) == heard.whole /\ ~heard.inBlock /\ heard.block.type \in types

(* The edges of a block, heard as their flags say, are the signal that the   *)
(* block stands for: the last bits of the last byte, levels across symbols,  *)
(* pauses of no length (the ..._edge functions of tape.c).  Not RAW_DATA     *)
(* (see the README).                                                        *)
EdgesFollowBlock ==
  Ended(PulseBlocks \ {"RAW_DATA"}) => heard.wave = RefWave(heard.block, heard.from)

(* libspectrum_tape_block_length is the time that get_next_edge takes to     *)
(* play the block, for the types of .tzx and .tap files.                     *)
LengthIsSum ==
  Ended(PulseBlocks \ {"RAW_DATA", "DATA_BLOCK", "RLE_PULSE"}) =>
    heard.total = BlockLength(heard.block)

(* A tape that is not interrupted plays its blocks in the order of its loops *)
(* and jumps, each body as often as its LOOP_START says, all of it before    *)
(* LIBSPECTRUM_TAPE_FLAGS_TAPE; also when a loop was left unfinished before  *)
(* the tape was rewound and loop_block is still set.                         *)
PlaysInOrder ==
  WellFormed(Contents) /\ order # Lost =>
    /\ IsPrefix(order, PlayOrder(Contents))
    /\ "TAPE" \in flags => order = PlayOrder(Contents)

(* An emulator that keeps calling get_next_edge comes to the end of the      *)
(* tape, again and again, unless a jump leads back or off the tape.          *)
TapeEnds == []<>("TAPE" \in flags \/ blocks = <<>> \/ ~Forward(Contents))

(* The loop of csw_write_body ends: it meets an edge with the STOP flag.      *)
WriteReturns == writing ~> ~writing

\* What the writer hears of a tape: it ends at the first block that stops it.
Stops(b) == b.type = "PAUSE" /\ b.length = 0

PulsesToStop(t) ==
  LET played == PlayOrder(t)
      stop == Least({i \in DOMAIN played : Stops(t[played[i]])} \cup {Len(played) + 1})
  IN FlattenSeq([i \in 1..(stop - 1) |->
       IF t[played[i]].type \in PulseBlocks THEN RefPulses(t[played[i]]) ELSE <<>>])

\* Every pulse turns the level and is at least a sample long; no block only sets it.
Sampleable(t, scale) ==
  LET pulses == PulsesToStop(t)
  IN /\ \A i \in DOMAIN t : t[i].type \notin {"RAW_DATA", "STOP48", "SET_SIGNAL_LEVEL"}
     /\ Len(Played(Quiet(0), pulses).wave) = Len(pulses)
     /\ \A i \in DOMAIN pulses : pulses[i].length >= scale

UpTo(lengths, n) == Total(SubSeq(lengths, 1, n))

(* A .csw file that is read has the pulses of the tape, each edge at the     *)
(* last sample before its time: what csw_write_body carries over in          *)
(* balance_tstates keeps the file from drifting, through loops and blocks.  *)
CswKeepsTime ==
  [][writing /\ ~writing' /\ WellFormed(Contents) /\ Sampleable(Contents, csw.scale) =>
       LET pulses == PulsesToStop(Contents)
           times == [i \in DOMAIN pulses |-> pulses[i].length]
           read == libspectrum_csw_read(CswFile(find_sample_rate(Contents), csw'.data), 0)
           samples == IF read.blocks = <<>> THEN <<>> ELSE RleLengths(read.blocks[1])
       IN /\ read.err = "NONE" /\ Len(samples) = Len(times)
          /\ \A n \in DOMAIN times :
               UpTo(samples, n) = csw.scale * (UpTo(times, n) \div csw.scale)]_vars

(* csw.c:244: the iterator of the writer "doesn't bugger up the external     *)
(* tape status".                                                            *)
WriterLeavesTape == [][writing => it'.tape = it.tape]_vars

=============================================================================
