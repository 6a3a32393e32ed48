---------------------------- MODULE TapeProofs ----------------------------
(***************************************************************************)
(* What the tape and its iterators keep, whatever blocks are read,          *)
(* inserted, removed, played and written.                                   *)
(*                                                                         *)
(* The invariant adds three things to the properties of Tape: an iterator   *)
(* whose loop pointer is a block of the list has passes left; the ids in    *)
(* use have an upper bound, so that a new block always gets a fresh one;    *)
(* and the writer's iterator is idle unless the writer runs.                *)
(*                                                                         *)
(* That a block begins fresh rests on three more: the machine is inside of  *)
(* a block only while the tape is at one with pulses, a loader is in a      *)
(* state it knows, and no edge of a block says that the block is over.      *)
(***************************************************************************)
EXTENDS Tape, Extrema, TLAPS, SequenceTheorems

Players == {"tape", "csw"}

Entry == [id : Nat \ {Null}, block : Blocks]

Used == {blocks[i].id : i \in DOMAIN blocks} \cup {it.tape.current, it.tape.loop}

\* An iterator over the list.
Iterator(list, x) ==
  /\ {"current", "loop", "count"} \subseteq DOMAIN x
  /\ x.current \in Nat /\ x.loop \in Nat \cup {Garbage} /\ x.count \in Nat
  /\ On(list, x.loop) => x.count # 0

Iterators(list, iters) ==
  /\ Players \subseteq DOMAIN iters
  /\ \A q \in Players : Iterator(list, iters[q])

Sound(list, x) ==
  /\ x.current = Null \/ On(list, x.current)
  /\ x.loop = Null \/ On(list, x.loop)

WriterSound ==
  /\ writing \in BOOLEAN
  /\ writing => it.csw.current # Null
  /\ ~writing => it.csw = Idle

Inv ==
  /\ blocks \in Seq(Entry) /\ Len(blocks) <= MaxBlocks
  /\ Iterators(blocks, it)
  /\ \E n \in Nat : \A k \in Used : k <= n
  /\ WriterSound
  /\ calls \in 0..MaxCalls
  /\ "level" \in DOMAIN heard /\ heard.level \in {0, 1}

----------------------------------------------------------------------------
(* Blocks in the list.                                                      *)

(* Place finds the id where there is one.                                   *)
LEMMA PlaceProperties ==
  ASSUME NEW list \in Seq(Entry), NEW id
  PROVE  /\ Place(list, id) \in 0..Len(list)
         /\ On(list, id) => list[Place(list, id)].id = id
         /\ On(list, id) <=> \E i \in 1..Len(list) : list[i].id = id
<1> DEFINE I == {i \in 1..Len(list) : list[i].id = id}
<1>1. Place(list, id) = IF I # {} THEN Min(I) ELSE 0
  BY Zenon DEF Place, SelectInSeq
<1>2. I \in SUBSET Nat /\ \A i \in I : i # 0
  OBVIOUS
<1>3. CASE I = {}
  BY <1>1, <1>3 DEF On
<1>4. CASE I # {}
  <2>1. \E m \in I : \A k \in I : m <= k
    BY <1>2, <1>4, LeastElement
  <2>2. Min(I) \in I
    BY <2>1 DEF Min
  <2>3. QED  BY <1>1, <1>2, <1>4, <2>2 DEF On
<1>5. QED  BY <1>3, <1>4

(* A block that is found is one of the caller's, and its id is in use.       *)
LEMMA FoundBlock ==
  ASSUME Inv, NEW id, On(blocks, id)
  PROVE  /\ Place(blocks, id) \in DOMAIN blocks
         /\ BlockAt(blocks, id) \in Blocks
         /\ id \in Nat \ {Null} /\ id \in Used
<1>1. blocks \in Seq(Entry)
  BY DEF Inv
<1>2. Place(blocks, id) \in 1..Len(blocks) /\ blocks[Place(blocks, id)].id = id
  BY <1>1, PlaceProperties DEF On
<1>3. blocks[Place(blocks, id)] \in Entry /\ Place(blocks, id) \in DOMAIN blocks
  BY <1>1, <1>2
<1>4. QED  BY <1>2, <1>3 DEF BlockAt, Entry, Used

(* The first block and the next one are in the list, if there are any.       *)
LEMMA NeighboursFound ==
  ASSUME NEW list \in Seq(Entry), NEW id
  PROVE  /\ First(list) = Null \/ On(list, First(list))
         /\ list # <<>> => First(list) # Null
         /\ After(list, id) = Null \/ On(list, After(list, id))
<1>1. ASSUME NEW i \in 1..Len(list)
      PROVE  list[i].id \in Nat \ {Null} /\ On(list, list[i].id)
  <2>1. On(list, list[i].id) <=> \E j \in 1..Len(list) : list[j].id = list[i].id
    BY PlaceProperties
  <2>2. list[i] \in Entry
    OBVIOUS
  <2>3. QED  BY <2>1, <2>2 DEF Entry
<1>2. list # <<>> => 1 \in 1..Len(list)
  OBVIOUS
<1>3. Place(list, id) \in 0..Len(list)
  BY PlaceProperties
<1>4. Place(list, id) < Len(list) => Place(list, id) + 1 \in 1..Len(list)
  BY <1>3
<1>5. QED  BY <1>1, <1>2, <1>4 DEF First, After

----------------------------------------------------------------------------
(* Edges.                                                                   *)

\* Iterators that an edge may leave.
Good(p, iters) ==
  /\ Iterators(blocks, iters)
  /\ {iters.tape.current, iters.tape.loop} \subseteq Used \cup {Null}
  /\ Sound(blocks, it.tape) => Sound(blocks, iters.tape)
  /\ p = "tape" => iters.csw = it.csw
  /\ p = "csw" => iters.csw.current # Null

\* What an edge keeps.
EdgeKeeps ==
  /\ UNCHANGED <<blocks, last_block, calls>>
  /\ Iterators(blocks, it')
  /\ {it'.tape.current, it'.tape.loop} \subseteq Used \cup {Null}
  /\ Sound(blocks, it.tape) => Sound(blocks, it'.tape)
  /\ WriterSound'
  /\ "level" \in DOMAIN heard' /\ heard'.level \in {0, 1}

(* No block has the id of the null pointer.                                  *)
LEMMA NullNotOn ==
  ASSUME NEW list \in Seq(Entry)
  PROVE  ~On(list, Null)
<1>1. On(list, Null) <=> \E i \in 1..Len(list) : list[i].id = Null
  BY PlaceProperties
<1>2. ASSUME NEW i \in 1..Len(list)
      PROVE  list[i].id # Null
  <2>1. list[i] \in Entry
    OBVIOUS
  <2>2. QED  BY <2>1 DEF Entry
<1>3. QED  BY <1>1, <1>2

(* An iterator without blocks.                                              *)
LEMMA IdleIterator ==
  ASSUME NEW list \in Seq(Entry)
  PROVE  Iterator(list, Idle)
<1>1. /\ {"current", "loop", "count"} \subseteq DOMAIN Idle
      /\ Idle.loop = Null /\ Idle.current = Null /\ Idle.count = 0
  BY DEF Idle
<1>2. QED  BY <1>1, NullNotOn DEF Iterator, Null

(* The level that is heard stays a level.                                   *)
LEMMA HearsLevel ==
  ASSUME Inv, NEW t, NEW fs, Hears(t, fs)
  PROVE  "level" \in DOMAIN heard' /\ heard'.level \in {0, 1}
<1>1. Hear(heard.level, fs) \in {0, 1}
  BY DEF Inv, Hear
<1>2. DOMAIN heard' = DOMAIN heard /\ heard'.level = Hear(heard.level, fs)
  <2> DEFINE place == Place(blocks, it.tape.current)
             begun == IF heard.inBlock \/ place = 0 THEN heard
                      ELSE [heard EXCEPT !.block = blocks[place].block, !.from = heard.level,
                                         !.wave = <<>>, !.total = 0, !.whole = TRUE]
             level == Hear(heard.level, fs)
  <2>1. DOMAIN begun = DOMAIN heard
    OBVIOUS
  <2>2. heard' = [begun EXCEPT !.level = level, !.wave = Extend(begun.wave, level, t),
                               !.total = begun.total + t, !.inBlock = "BLOCK" \notin fs]
    BY DEF Hears
  <2>3. "level" \in DOMAIN heard
    BY DEF Inv
  <2> HIDE DEF begun, level
  <2>4. QED  BY <2>1, <2>2, <2>3 DEF level
<1>3. QED  BY <1>1, <1>2 DEF Inv

(* A return from get_next_edge_internal.                                    *)
LEMMA ReturnKeeps ==
  ASSUME Inv, NEW p \in Players, Plays(p), NEW iters, NEW t, NEW fs,
         Good(p, iters), Return(p, iters, t, fs)
  PROVE  EdgeKeeps
<1>0. blocks \in Seq(Entry) /\ WriterSound /\ Iterators(blocks, it)
  BY DEF Inv
<1>1. CASE p = "tape"
  <2>1. it' = iters /\ Hears(t, fs) /\ UNCHANGED <<blocks, last_block, calls, writing>>
    BY <1>1 DEF Return
  <2>2. WriterSound'
    BY <1>0, <1>1, <2>1 DEF WriterSound, Good
  <2>3. QED  BY <1>1, <2>1, <2>2, HearsLevel DEF EdgeKeeps, Good
<1>2. CASE p = "csw"
  <2>1. /\ it' = IF "STOP" \in fs THEN [iters EXCEPT !.csw = Idle] ELSE iters
        /\ writing' = ("STOP" \notin fs)
        /\ UNCHANGED <<blocks, last_block, calls, heard>>
    BY <1>2 DEF Return, history
  <2>2. CASE "STOP" \in fs
    <3>1. /\ Players \subseteq DOMAIN iters /\ Iterator(blocks, iters.tape)
          /\ {iters.tape.current, iters.tape.loop} \subseteq Used \cup {Null}
          /\ Sound(blocks, it.tape) => Sound(blocks, iters.tape)
      BY <1>0, <1>2 DEF Good, Iterators, Players
    <3>2. /\ Players \subseteq DOMAIN it'
          /\ it'.csw = Idle /\ it'.tape = iters.tape /\ writing' = FALSE
      BY <2>1, <2>2, <3>1 DEF Players
    <3>3. Iterators(blocks, it')
      BY <1>0, <3>1, <3>2, IdleIterator DEF Iterators, Players
    <3>4. WriterSound'
      BY <3>2 DEF WriterSound
    <3>5. QED  BY <2>1, <3>1, <3>2, <3>3, <3>4 DEF EdgeKeeps, Inv
  <2>3. CASE "STOP" \notin fs
    <3>1. Good(p, iters) /\ it' = iters /\ writing' = TRUE
      BY <2>1, <2>3
    <3>2. WriterSound'
      BY <1>2, <3>1 DEF WriterSound, Good
    <3>3. QED  BY <2>1, <3>1, <3>2 DEF EdgeKeeps, Good, Inv
  <2>4. QED  BY <2>2, <2>3
<1>3. QED  BY <1>1, <1>2 DEF Players

(* The tape's iterators as they are.                                        *)
LEMMA ItGood ==
  ASSUME Inv, NEW p \in Players, Plays(p)
  PROVE  Good(p, it)
<1>1. p = "csw" => it.csw.current # Null
  BY DEF Inv, WriterSound, Plays
<1>2. Iterators(blocks, it)
  BY DEF Inv
<1>3. QED  BY <1>1, <1>2 DEF Good, Used

(* The player's iterator is set to a block, and what its union holds to     *)
(* something.                                                               *)
LEMMA MovedGood ==
  ASSUME Inv, NEW p \in Players, NEW iters, Good(p, iters),
         NEW id, On(blocks, id), NEW x, Iterator(blocks, x), x.current = id,
         x.loop = iters[p].loop
  PROVE  Good(p, [iters EXCEPT ![p] = x])
<1>1. id \in Nat \ {Null} /\ id \in Used
  BY FoundBlock
<1>2. CASE p = "tape"
  BY <1>1, <1>2 DEF Good, Iterators, Players, Sound
<1>3. CASE p = "csw"
  BY <1>1, <1>3 DEF Good, Iterators, Players
<1>4. QED  BY <1>2, <1>3 DEF Players

(* StartedAt a block of the tape.                                           *)
LEMMA StartedGood ==
  ASSUME Inv, NEW p \in Players, NEW iters, Good(p, iters), NEW id, On(blocks, id)
  PROVE  Good(p, [iters EXCEPT ![p] = StartedAt(blocks, iters[p], id)])
<1> DEFINE x == StartedAt(blocks, iters[p], id)
<1>1. id \in Nat \ {Null}
  BY FoundBlock
<1>2. x = [iters[p] EXCEPT !.current = id, !.st = BlockInit(BlockAt(blocks, id))]
  BY <1>1 DEF StartedAt
<1>3. Iterator(blocks, iters[p])
  BY DEF Good, Iterators
<1>4. Iterator(blocks, x) /\ x.current = id /\ x.loop = iters[p].loop
  <2> DEFINE st == BlockInit(BlockAt(blocks, id))
  <2>1. x = [iters[p] EXCEPT !.current = id, !.st = st]
    BY <1>2
  <2> HIDE DEF st, x
  <2>2. QED  BY <1>1, <1>3, <2>1 DEF Iterator
<1> HIDE DEF x
<1>5. Good(p, [iters EXCEPT ![p] = x])
  BY <1>4, MovedGood
<1>6. QED  BY <1>5 DEF x

(* The edge ended a block of the tape.                                      *)
LEMMA ReturnLastKeeps ==
  ASSUME Inv, NEW p \in Players, Plays(p), NEW iters, NEW t, NEW fs,
         Good(p, iters), blocks # <<>>, ReturnLast(p, iters, t, fs)
  PROVE  EdgeKeeps
<1>1. blocks \in Seq(Entry)
  BY DEF Inv
<1>2. On(blocks, First(blocks))
  BY <1>1, NeighboursFound
<1> DEFINE next == After(blocks, iters[p].current)
<1>3. CASE next # Null
  <2>1. On(blocks, next)
    BY <1>1, <1>3, NeighboursFound
  <2>2. Good(p, [iters EXCEPT ![p] = StartedAt(blocks, iters[p], next)])
    BY <2>1, StartedGood, Zenon
  <2>3. Return(p, [iters EXCEPT ![p] = StartedAt(blocks, iters[p], next)], t, fs \cup {"BLOCK"})
    BY <1>3 DEF ReturnLast
  <2>4. QED  BY <2>2, <2>3, ReturnKeeps, Zenon
<1>4. CASE next = Null
  <2>1. Good(p, [iters EXCEPT ![p] = StartedAt(blocks, iters[p], First(blocks))])
    BY <1>2, StartedGood, Zenon
  <2>2. Return(p, [iters EXCEPT ![p] = StartedAt(blocks, iters[p], First(blocks))], t,
               (fs \ {"NO_EDGE"}) \cup {"BLOCK", "STOP", "TAPE"})
    BY <1>4 DEF ReturnLast
  <2>3. QED  BY <2>1, <2>2, ReturnKeeps, Zenon
<1>5. QED  BY <1>3, <1>4

(* The edge moved the player to a block of the tape.                        *)
LEMMA ReturnMovedKeeps ==
  ASSUME Inv, NEW p \in Players, Plays(p), NEW iters, Good(p, iters),
         On(blocks, iters[p].current), ReturnMoved(p, iters)
  PROVE  EdgeKeeps
<1>1. Good(p, [iters EXCEPT ![p] = StartedAt(blocks, iters[p], iters[p].current)])
  BY StartedGood, Zenon
<1>2. Return(p, [iters EXCEPT ![p] = StartedAt(blocks, iters[p], iters[p].current)], 0,
             {"BLOCK", "NO_EDGE"})
  BY DEF ReturnMoved
<1>3. QED  BY <1>1, <1>2, ReturnKeeps, Zenon

(* A player is at a block of the tape.                                      *)
LEMMA PlayingFound ==
  ASSUME Inv, NEW p \in Players, NEW types, Playing(p, types)
  PROVE  /\ Plays(p) /\ Good(p, it) /\ blocks # <<>>
         /\ On(blocks, it[p].current) /\ it[p].current \in Nat \ {Null}
         /\ BlockAt(blocks, it[p].current) \in Blocks
         /\ BlockAt(blocks, it[p].current).type \in types
<1>1. /\ Plays(p) /\ On(blocks, it[p].current)
      /\ BlockAt(blocks, it[p].current).type \in types
  BY DEF Playing
<1>2. Place(blocks, it[p].current) \in DOMAIN blocks
  BY <1>1, FoundBlock
<1>3. QED  BY <1>1, <1>2, FoundBlock, ItGood

(* A block with pulses.                                                     *)
LEMMA PulseEdgeKeeps ==
  ASSUME Inv, NEW p \in Players, PulseEdge(p)
  PROVE  EdgeKeeps
<1>1. PICK e \in {BlockEdge(BlockAt(blocks, it[p].current), it[p].st)} :
        LET iters == [it EXCEPT ![p].st = e.st]
        IN IF e.end THEN ReturnLast(p, iters, e.tstates, e.flags)
           ELSE Return(p, iters, e.tstates, e.flags)
  BY Zenon DEF PulseEdge
<1> DEFINE iters == [it EXCEPT ![p].st = e.st]
<1>2. Plays(p) /\ Good(p, it) /\ blocks # <<>>
  BY PlayingFound, Zenon DEF PulseEdge
<1>3. Good(p, iters)
  <2> DEFINE x == [it[p] EXCEPT !.st = e.st]
  <2>1. On(blocks, it[p].current)
    BY PlayingFound, Zenon DEF PulseEdge
  <2>2. Iterator(blocks, it[p])
    BY DEF Inv, Iterators
  <2>3. Iterator(blocks, x) /\ x.current = it[p].current /\ x.loop = it[p].loop
    BY <2>2 DEF Iterator
  <2> HIDE DEF x
  <2>4. Good(p, [it EXCEPT ![p] = x])
    BY <1>2, <2>1, <2>3, MovedGood
  <2>5. QED  BY <2>4 DEF x
<1>4. ReturnLast(p, iters, e.tstates, e.flags) \/ Return(p, iters, e.tstates, e.flags)
  BY <1>1
<1> HIDE DEF iters
<1>5. QED  BY <1>2, <1>3, <1>4, ReturnLastKeeps, ReturnKeeps, Zenon

(* A jump moves the tape, not its player.                                   *)
LEMMA JumpEdgeKeeps ==
  ASSUME Inv, NEW p \in Players, JumpEdge(p)
  PROVE  EdgeKeeps
<1> DEFINE id == blocks[JumpTarget(p)].id
           x == [it.tape EXCEPT !.current = id]
           iters == [it EXCEPT !.tape.current = id]
<1>1. /\ Plays(p) /\ Good(p, it) /\ On(blocks, it[p].current)
      /\ JumpTarget(p) \in DOMAIN blocks /\ ReturnMoved(p, iters)
  BY PlayingFound, Zenon DEF JumpEdge
<1>2. blocks \in Seq(Entry) /\ Iterators(blocks, it)
  BY DEF Inv
<1>3. On(blocks, id)
  BY <1>1, <1>2, PlaceProperties
<1>4. id \in Nat \ {Null} /\ id \in Used
  BY <1>3, FoundBlock
<1> HIDE DEF id
<1>5. Iterator(blocks, x) /\ x.current = id /\ x.loop = it.tape.loop
  BY <1>2, <1>4 DEF Iterators, Iterator, Players
<1>6. iters = [it EXCEPT !.tape = x]
  OBVIOUS
<1> HIDE DEF x, iters
<1>7. Good(p, iters) /\ On(blocks, iters[p].current)
  BY <1>1, <1>2, <1>3, <1>4, <1>5, <1>6 DEF Good, Iterators, Players, Sound
<1>8. QED  BY <1>1, <1>7, ReturnMovedKeeps, Zenon

(* A jump off the tape ends the call, and the writer.                       *)
LEMMA JumpErrorKeeps ==
  ASSUME Inv, NEW p \in Players, JumpError(p)
  PROVE  EdgeKeeps
<1>1. /\ writing' = FALSE /\ it' = [it EXCEPT !.csw = Idle]
      /\ UNCHANGED <<blocks, last_block, calls>>
  BY DEF JumpError
<1>2. blocks \in Seq(Entry) /\ Iterators(blocks, it)
  BY DEF Inv
<1>3. /\ Players \subseteq DOMAIN it' /\ it'.csw = Idle /\ it'.tape = it.tape
  BY <1>1, <1>2 DEF Iterators, Players
<1>4. Iterators(blocks, it')
  BY <1>2, <1>3, IdleIterator DEF Iterators, Players
<1>5. WriterSound'
  BY <1>1, <1>3 DEF WriterSound
<1>6. "level" \in DOMAIN heard' /\ heard'.level \in {0, 1}
  <2>1. heard' = heard \/ heard' = [heard EXCEPT !.whole = FALSE, !.inBlock = FALSE]
    BY DEF JumpError, Interrupted, history
  <2>2. QED  BY <2>1 DEF Inv
<1>7. QED  BY <1>1, <1>3, <1>4, <1>5, <1>6 DEF EdgeKeeps, Used

(* A loop begins with as many passes as its block says, and not without.    *)
LEMMA LoopStartKeeps ==
  ASSUME Inv, NEW p \in Players, LoopStartEdge(p)
  PROVE  EdgeKeeps
<1> DEFINE b == BlockAt(blocks, it[p].current)
           next == After(blocks, it[p].current)
           x == LoopStarted(it[p])
<1>1. /\ Plays(p) /\ Good(p, it) /\ blocks # <<>> /\ b \in Blocks /\ b.type = "LOOP_START"
      /\ ReturnLast(p, [it EXCEPT ![p] = x], 0, {"NO_EDGE"})
  <2>1. Playing(p, {"LOOP_START"}) /\ ReturnLast(p, [it EXCEPT ![p] = x], 0, {"NO_EDGE"})
    BY DEF LoopStartEdge
  <2>2. QED  BY <2>1, PlayingFound
<1>2. blocks \in Seq(Entry) /\ Iterators(blocks, it) /\ Iterator(blocks, it[p])
  BY DEF Inv, Iterators
<1>3. CASE next # Null /\ b.count # 0
  <2>1. On(blocks, next)
    BY <1>2, <1>3, NeighboursFound
  <2>2. next \in Nat \ {Null} /\ next \in Used
    BY <2>1, FoundBlock
  <2>3. b.count \in Nat
    BY <1>1, TapeAssumption
  <2>4. x = [it[p] EXCEPT !.loop = next, !.count = b.count]
    BY <1>3 DEF LoopStarted
  <2> HIDE DEF next, b, x
  <2>5. Iterator(blocks, x) /\ x.current = it[p].current /\ x.loop = next
    BY <1>2, <1>3, <2>2, <2>3, <2>4 DEF Iterator
  <2>6. CASE p = "tape"
    <3>1. Good(p, [it EXCEPT ![p] = x])
      BY <1>1, <1>2, <2>1, <2>2, <2>5, <2>6 DEF Good, Iterators, Players, Sound
    <3>2. QED  BY <1>1, <3>1, ReturnLastKeeps, Zenon
  <2>7. CASE p = "csw"
    <3>1. Good(p, [it EXCEPT ![p] = x])
      BY <1>1, <1>2, <2>5, <2>7 DEF Good, Iterators, Players
    <3>2. QED  BY <1>1, <3>1, ReturnLastKeeps, Zenon
  <2>8. QED  BY <2>6, <2>7 DEF Players
<1>4. CASE ~(next # Null /\ b.count # 0)
  <2>1. x = it[p]
    BY <1>4 DEF LoopStarted
  <2>2. [it EXCEPT ![p] = x] = [it EXCEPT ![p] = it[p]]
    BY <2>1
  <2>3. Good(p, [it EXCEPT ![p] = it[p]])
    BY <1>1, <1>2, PlayingFound, MovedGood, Zenon DEF LoopStartEdge
  <2>4. QED  BY <1>1, <2>2, <2>3, ReturnLastKeeps, Zenon
<1>5. QED  BY <1>3, <1>4

(* The way back to the loop's first block takes one of the passes left.      *)
LEMMA LoopAgainKeeps ==
  ASSUME Inv, NEW p \in Players, LoopAgain(p)
  PROVE  EdgeKeeps
<1> DEFINE x == LoopBack(it[p])
           iters == [it EXCEPT ![p] = x]
<1>1. /\ Playing(p, {"LOOP_END"}) /\ On(blocks, it[p].loop) /\ it[p].count # 1
      /\ ReturnMoved(p, iters)
  BY DEF LoopAgain
<1>2. Plays(p) /\ Good(p, it) /\ On(blocks, it[p].current)
  BY <1>1, PlayingFound, Zenon
<1>3. Iterators(blocks, it) /\ Iterator(blocks, it[p])
  BY DEF Inv, Iterators
<1>4. it[p].loop \in Nat \ {Null} /\ it[p].loop \in Used
  BY <1>1, FoundBlock
<1>5. it[p].count - 1 \in Nat \ {0}
  BY <1>1, <1>3 DEF Iterator
<1>6. x = [it[p] EXCEPT !.current = it[p].loop, !.count = it[p].count - 1]
  BY DEF LoopBack
<1>7. Iterator(blocks, x) /\ x.current = it[p].loop /\ x.loop = it[p].loop
  <2> HIDE DEF x
  <2>1. QED  BY <1>3, <1>4, <1>5, <1>6 DEF Iterator
<1> HIDE DEF x
<1>8. Good(p, iters)
  BY <1>1, <1>2, <1>7, MovedGood, Zenon
<1>9. On(blocks, iters[p].current)
  BY <1>1, <1>3, <1>7 DEF Iterators
<1> HIDE DEF iters
<1>10. QED  BY <1>1, <1>2, <1>8, <1>9, ReturnMovedKeeps, Zenon

(* The end of the last pass.                                                *)
LEMMA LoopEndKeeps ==
  ASSUME Inv, NEW p \in Players, LoopEndEdge(p)
  PROVE  EdgeKeeps
<1> DEFINE x == LoopDone(it[p])
<1>1. Playing(p, {"LOOP_END"}) /\ ReturnLast(p, [it EXCEPT ![p] = x], 0, {"NO_EDGE"})
  BY DEF LoopEndEdge
<1>2. Plays(p) /\ Good(p, it) /\ blocks # <<>>
  BY <1>1, PlayingFound, Zenon
<1>3. blocks \in Seq(Entry) /\ Iterators(blocks, it) /\ Iterator(blocks, it[p])
  BY DEF Inv, Iterators
<1>4. ~On(blocks, Null)
  BY FoundBlock
<1>5. x = it[p] \/ x = [it[p] EXCEPT !.loop = Null, !.count = 0]
  BY DEF LoopDone
<1> HIDE DEF x
<1>6. Iterator(blocks, x) /\ x.current = it[p].current /\ x.loop \in {it[p].loop, Null}
  <2>1. CASE x = it[p]
    BY <1>3, <2>1
  <2>2. CASE x = [it[p] EXCEPT !.loop = Null, !.count = 0]
    <3>1. x.loop = Null /\ x.count = 0 /\ x.current = it[p].current /\ DOMAIN x = DOMAIN it[p]
      BY <1>3, <2>2 DEF Iterator
    <3>2. x.loop \in Nat \cup {Garbage} /\ x.count \in Nat /\ ~On(blocks, x.loop)
      BY <1>4, <3>1 DEF Null
    <3>3. QED  BY <1>3, <3>1, <3>2 DEF Iterator
  <2>3. QED  BY <1>5, <2>1, <2>2
<1>7. Good(p, [it EXCEPT ![p] = x])
  <2>1. CASE p = "tape"
    BY <1>2, <1>3, <1>6, <2>1 DEF Good, Iterators, Players, Sound
  <2>2. CASE p = "csw"
    BY <1>2, <1>3, <1>6, <2>2 DEF Good, Iterators, Players
  <2>3. QED  BY <2>1, <2>2 DEF Players
<1>8. QED  BY <1>1, <1>2, <1>7, ReturnLastKeeps, Zenon

(* Without a current block the tape starts anew; the writer always has one. *)
LEMMA NoBlockKeeps ==
  ASSUME Inv, NEW p \in Players, NoBlockEdge(p)
  PROVE  EdgeKeeps
<1> DEFINE x == StartedAt(blocks, it[p], First(blocks))
<1>1. /\ Plays(p) /\ it[p].current = Null
      /\ Return(p, [it EXCEPT ![p] = x], 0, {"BLOCK", "STOP", "TAPE"})
  BY DEF NoBlockEdge
<1>2. Good(p, it)
  BY <1>1, ItGood
<1>3. p = "tape"
  BY <1>1, <1>2 DEF Good, Players
<1>4. Good(p, [it EXCEPT ![p] = x])
  <2>1. CASE First(blocks) = Null
    <3>1. x = [it.tape EXCEPT !.current = Null]
      BY <1>3, <2>1 DEF StartedAt
    <3> HIDE DEF x
    <3>2. QED  BY <1>2, <1>3, <3>1 DEF Good, Iterators, Iterator, Players, Sound, Null
  <2>2. CASE First(blocks) # Null
    <3>1. On(blocks, First(blocks))
      BY <2>2, NeighboursFound DEF Inv
    <3>2. QED  BY <1>2, <3>1, StartedGood, Zenon
  <2>3. QED  BY <2>1, <2>2
<1>5. QED  BY <1>1, <1>4, ReturnKeeps, Zenon

(* Every edge.                                                              *)
LEMMA EdgeStep ==
  ASSUME Inv, NEW p \in Players, NextEdge(p)
  PROVE  EdgeKeeps
<1>1. CASE FlagEdge(p)
  <2>1. /\ Playing(p, {"STOP48", "SET_SIGNAL_LEVEL", "COMMENT"})
        /\ ReturnLast(p, it, 0, FlagsOf(BlockAt(blocks, it[p].current)))
    BY <1>1 DEF FlagEdge
  <2>2. Plays(p) /\ Good(p, it) /\ blocks # <<>>
    BY <2>1, PlayingFound, Zenon
  <2>3. QED  BY <2>1, <2>2, ReturnLastKeeps, Zenon
<1>2. QED
  BY <1>1, PulseEdgeKeeps, JumpEdgeKeeps, JumpErrorKeeps, LoopStartKeeps, LoopAgainKeeps,
     LoopEndKeeps, NoBlockKeeps, Zenon DEF NextEdge

----------------------------------------------------------------------------
(* Lists of blocks.                                                         *)

Ids(list) == {list[i].id : i \in DOMAIN list}

(* A block is found by the ids of the list.                                 *)
LEMMA FoundById ==
  ASSUME NEW list \in Seq(Entry), NEW id
  PROVE  On(list, id) <=> id \in Ids(list)
<1>1. DOMAIN list = 1..Len(list)
  OBVIOUS
<1>2. QED  BY <1>1, PlaceProperties DEF Ids

(* malloc: new blocks have ids that nothing has.                            *)
LEMMA NewIds ==
  ASSUME Inv, NEW f, NEW n \in Nat, DOMAIN f = 1..n, \A i \in 1..n : f[i] \in Blocks
  PROVE  /\ WithIds(f) \in Seq(Entry) /\ Len(WithIds(f)) = n
         /\ Ids(WithIds(f)) \cap Used = {}
         /\ \E m \in Nat : \A k \in Used \cup Ids(WithIds(f)) : k <= m
<1> DEFINE used == {blocks[i].id : i \in DOMAIN blocks} \cup {it.tape.current, it.tape.loop}
           top == CHOOSE m \in used : \A k \in used : k <= m
<1>0. used = Used
  BY DEF Used
<1> HIDE DEF used
<1>1. Used \in SUBSET Int /\ it.tape.current \in Used /\ it.tape.current \in Nat
  <2>1. blocks \in Seq(Entry) /\ Iterator(blocks, it.tape)
    BY DEF Inv, Iterators, Players
  <2>2. ASSUME NEW i \in DOMAIN blocks
        PROVE  blocks[i].id \in Int
    <3>1. blocks[i] \in Entry
      BY <2>1
    <3>2. QED  BY <3>1 DEF Entry
  <2>3. QED  BY <2>1, <2>2 DEF Used, Iterator, Garbage
<1>2. PICK bound \in Nat : \A k \in Used : k <= bound
  BY DEF Inv
<1>3. \E m \in used : \A k \in used : k <= m
  <2>1. used \in SUBSET Int /\ used # {} /\ bound \in Int /\ \A k \in used : k <= bound
    BY <1>0, <1>1, <1>2
  <2>2. QED  BY <2>1, GreatestElement, Zenon
<1>4. top \in Used /\ \A k \in Used : k <= top
  BY <1>0, <1>3
<1>5. WithIds(f) = [i \in 1..n |-> [id |-> top + i, block |-> f[i]]]
  BY Zenon DEF WithIds, used
<1> HIDE DEF top
<1>6. top \in Nat
  BY <1>1, <1>4
<1>7. \A i \in 1..n : [id |-> top + i, block |-> f[i]] \in Entry
  BY <1>6 DEF Entry, Null
<1>8. WithIds(f) \in Seq(Entry) /\ Len(WithIds(f)) = n /\ DOMAIN WithIds(f) = 1..n
  BY <1>5, <1>7
<1>9. \A i \in 1..n : WithIds(f)[i].id = top + i
  BY <1>5
<1>10. \A k \in Ids(WithIds(f)) : k > top /\ k <= top + n
  BY <1>6, <1>8, <1>9 DEF Ids
<1>11. Ids(WithIds(f)) \cap Used = {}
  <2>1. ASSUME NEW k \in Used, k \in Ids(WithIds(f))
        PROVE  FALSE
    <3>1. k \in Int /\ k <= top /\ k > top
      BY <1>1, <1>4, <1>10, <2>1
    <3>2. QED  BY <1>6, <3>1
  <2>2. QED  BY <2>1
<1>12. top + n \in Nat /\ \A k \in Used \cup Ids(WithIds(f)) : k <= top + n
  <2>1. ASSUME NEW k \in Used
        PROVE  k <= top + n
    <3>1. k \in Int /\ k <= top
      BY <1>1, <1>4
    <3>2. QED  BY <1>6, <3>1
  <2>2. QED  BY <1>6, <1>10, <2>1
<1>13. QED  BY <1>8, <1>11, <1>12

(* Blocks that are appended.                                                *)
LEMMA ConcatIds ==
  ASSUME NEW a \in Seq(Entry), NEW b \in Seq(Entry)
  PROVE  a \o b \in Seq(Entry) /\ Ids(a \o b) = Ids(a) \cup Ids(b)
<1>1. /\ a \o b \in Seq(Entry) /\ Len(a \o b) = Len(a) + Len(b)
      /\ \A i \in 1..Len(a) + Len(b) :
           (a \o b)[i] = IF i <= Len(a) THEN a[i] ELSE b[i - Len(a)]
  BY ConcatProperties
<1>2. /\ DOMAIN (a \o b) = 1..Len(a) + Len(b)
      /\ DOMAIN a = 1..Len(a) /\ DOMAIN b = 1..Len(b) /\ Len(a) \in Nat /\ Len(b) \in Nat
  BY <1>1
<1>3. ASSUME NEW i \in 1..Len(a)
      PROVE  i \in DOMAIN (a \o b) /\ (a \o b)[i] = a[i]
  BY <1>1, <1>2
<1>4. ASSUME NEW i \in 1..Len(b)
      PROVE  Len(a) + i \in DOMAIN (a \o b) /\ (a \o b)[Len(a) + i] = b[i]
  BY <1>1, <1>2
<1>5. ASSUME NEW i \in DOMAIN (a \o b)
      PROVE  \/ \E j \in DOMAIN a : (a \o b)[i] = a[j]
             \/ \E j \in DOMAIN b : (a \o b)[i] = b[j]
  BY <1>1, <1>2
<1>6. ASSUME NEW i \in DOMAIN (a \o b)
      PROVE  (a \o b)[i].id \in Ids(a) \cup Ids(b)
  BY <1>5 DEF Ids
<1>7. ASSUME NEW i \in DOMAIN a
      PROVE  a[i].id \in Ids(a \o b)
  BY <1>2, <1>3 DEF Ids
<1>8. ASSUME NEW i \in DOMAIN b
      PROVE  b[i].id \in Ids(a \o b)
  BY <1>2, <1>4 DEF Ids
<1>9. Ids(a \o b) \subseteq Ids(a) \cup Ids(b)
  BY <1>6, Zenon DEF Ids
<1>10. Ids(a) \subseteq Ids(a \o b) /\ Ids(b) \subseteq Ids(a \o b)
  BY <1>7, <1>8, Zenon DEF Ids
<1>11. QED  BY <1>1, <1>9, <1>10

(* Part of a list.                                                          *)
LEMMA SubSeqIds ==
  ASSUME NEW s \in Seq(Entry), NEW m \in 1..Len(s) + 1, NEW n \in 0..Len(s)
  PROVE  /\ SubSeq(s, m, n) \in Seq(Entry)
         /\ Len(SubSeq(s, m, n)) = IF m <= n THEN n - m + 1 ELSE 0
         /\ Ids(SubSeq(s, m, n)) = {s[i].id : i \in m..n}
<1>1. /\ SubSeq(s, m, n) \in Seq(Entry)
      /\ Len(SubSeq(s, m, n)) = IF m <= n THEN n - m + 1 ELSE 0
      /\ \A i \in 1..n - m + 1 : SubSeq(s, m, n)[i] = s[m + i - 1]
  <2>1. \A i \in m..n : s[i] \in Entry
    OBVIOUS
  <2>2. QED  BY <2>1, SubSeqProperties
<1>2. DOMAIN SubSeq(s, m, n) = 1..n - m + 1
  BY <1>1
<1>3. ASSUME NEW i \in m..n
      PROVE  i - m + 1 \in 1..n - m + 1 /\ SubSeq(s, m, n)[i - m + 1] = s[i]
  BY <1>1
<1>4. ASSUME NEW i \in 1..n - m + 1
      PROVE  m + i - 1 \in m..n
  OBVIOUS
<1> DEFINE part == SubSeq(s, m, n)
<1> HIDE DEF part
<1>5. ASSUME NEW i \in DOMAIN part
      PROVE  part[i].id \in {s[j].id : j \in m..n}
  BY <1>1, <1>2, <1>4 DEF part
<1>6. ASSUME NEW i \in m..n
      PROVE  s[i].id \in {part[j].id : j \in DOMAIN part}
  BY <1>2, <1>3 DEF part
<1>7. Ids(part) = {s[i].id : i \in m..n}
  BY <1>5, <1>6, Zenon DEF Ids
<1>8. QED  BY <1>1, <1>7 DEF part

(* g_slist_insert.                                                          *)
LEMMA InsertIds ==
  ASSUME NEW s \in Seq(Entry), NEW i \in 1..Len(s) + 1, NEW e \in Entry
  PROVE  /\ InsertAt(s, i, e) \in Seq(Entry) /\ Len(InsertAt(s, i, e)) = Len(s) + 1
         /\ Ids(InsertAt(s, i, e)) = Ids(s) \cup {e.id}
<1> DEFINE a == SubSeq(s, 1, i - 1)  b == SubSeq(s, i, Len(s))
<1>1. /\ a \in Seq(Entry) /\ Len(a) = i - 1 /\ Ids(a) = {s[j].id : j \in 1..i - 1}
      /\ b \in Seq(Entry) /\ Len(b) = Len(s) - i + 1 /\ Ids(b) = {s[j].id : j \in i..Len(s)}
  BY SubSeqIds
<1>2. <<e>> \in Seq(Entry) /\ Len(<<e>>) = 1 /\ Ids(<<e>>) = {e.id}
  BY DEF Ids
<1>3. InsertAt(s, i, e) = (a \o <<e>>) \o b
  BY DEF InsertAt
<1> HIDE DEF a, b
<1>4. /\ a \o <<e>> \in Seq(Entry) /\ Ids(a \o <<e>>) = Ids(a) \cup {e.id}
      /\ Len(a \o <<e>>) = i
  <2>1. a \o <<e>> \in Seq(Entry) /\ Ids(a \o <<e>>) = Ids(a) \cup Ids(<<e>>)
    BY <1>1, <1>2, ConcatIds, Zenon
  <2>2. Len(a \o <<e>>) = i
    BY <1>1, <1>2
  <2>3. QED  BY <1>2, <2>1, <2>2
<1>5. /\ (a \o <<e>>) \o b \in Seq(Entry)
      /\ Ids((a \o <<e>>) \o b) = Ids(a \o <<e>>) \cup Ids(b)
      /\ Len((a \o <<e>>) \o b) = Len(s) + 1
  <2>1. /\ (a \o <<e>>) \o b \in Seq(Entry)
        /\ Ids((a \o <<e>>) \o b) = Ids(a \o <<e>>) \cup Ids(b)
    BY <1>1, <1>4, ConcatIds, Zenon
  <2>2. Len((a \o <<e>>) \o b) = Len(s) + 1
    <3> DEFINE y == a \o <<e>>  x == y \o b
    <3>1. Len(x) = Len(y) + Len(b)
      BY <1>1, <1>4, ConcatProperties, Zenon
    <3>2. Len(s) \in Nat /\ Len(b) = Len(s) - i + 1 /\ Len(y) = i
      BY <1>1, <1>4
    <3> HIDE DEF x, y
    <3>3. Len(x) = Len(s) + 1
      BY <3>1, <3>2
    <3>4. QED  BY <3>3 DEF x, y
  <2>3. QED  BY <2>1, <2>2
<1>6. 1..Len(s) = (1..i - 1) \cup (i..Len(s)) /\ DOMAIN s = 1..Len(s)
  OBVIOUS
<1>7. Ids(s) = Ids(a) \cup Ids(b)
  BY <1>1, <1>6 DEF Ids
<1>8. QED  BY <1>3, <1>4, <1>5, <1>7

(* g_slist_delete_link.                                                     *)
LEMMA RemoveIds ==
  ASSUME NEW s \in Seq(Entry), NEW i \in 1..Len(s)
  PROVE  /\ RemoveAt(s, i) \in Seq(Entry) /\ Len(RemoveAt(s, i)) = Len(s) - 1
         /\ Ids(RemoveAt(s, i)) \subseteq Ids(s)
         /\ Ids(s) \ {s[i].id} \subseteq Ids(RemoveAt(s, i))
<1> DEFINE a == SubSeq(s, 1, i - 1)  b == SubSeq(s, i + 1, Len(s))
<1>1. /\ a \in Seq(Entry) /\ Len(a) = i - 1 /\ Ids(a) = {s[j].id : j \in 1..i - 1}
      /\ b \in Seq(Entry) /\ Len(b) = Len(s) - i /\ Ids(b) = {s[j].id : j \in i + 1..Len(s)}
  BY SubSeqIds
<1>2. RemoveAt(s, i) = a \o b
  BY DEF RemoveAt
<1> HIDE DEF a, b
<1>3. a \o b \in Seq(Entry) /\ Ids(a \o b) = Ids(a) \cup Ids(b) /\ Len(a \o b) = Len(s) - 1
  <2>1. a \o b \in Seq(Entry) /\ Ids(a \o b) = Ids(a) \cup Ids(b)
    BY <1>1, ConcatIds, Zenon
  <2>2. Len(a \o b) = Len(a) + Len(b)
    BY <1>1, ConcatProperties, Zenon
  <2>3. Len(s) \in Nat
    OBVIOUS
  <2>4. QED  BY <1>1, <2>1, <2>2, <2>3
<1>4. DOMAIN s = 1..Len(s) /\ \A j \in 1..Len(s) : j = i \/ j \in 1..i - 1 \/ j \in i + 1..Len(s)
  OBVIOUS
<1>5. Ids(s) \ {s[i].id} \subseteq Ids(a) \cup Ids(b)
  BY <1>1, <1>4, Zenon DEF Ids
<1>6. Ids(a) \cup Ids(b) \subseteq Ids(s)
  <2>1. \A j \in (1..i - 1) \cup (i + 1..Len(s)) : j \in DOMAIN s
    BY <1>4
  <2>2. QED  BY <1>1, <2>1, Zenon DEF Ids
<1>7. QED  BY <1>2, <1>3, <1>5, <1>6

----------------------------------------------------------------------------
(* The other calls.                                                         *)

(* What holds of the tape's iterator while nothing is written.              *)
LEMMA CallFrame ==
  ASSUME Inv, Call
  PROVE  /\ blocks \in Seq(Entry) /\ Players \subseteq DOMAIN it
         /\ it.csw = Idle /\ ~writing /\ writing = FALSE /\ calls' \in 0..MaxCalls
         /\ Iterator(blocks, it.tape)
         /\ {it.tape.current, it.tape.loop} \subseteq Used
<1>1. writing = FALSE /\ ~writing
  BY DEF Inv, Call, WriterSound
<1>2. it.csw = Idle
  BY <1>1 DEF Inv, WriterSound
<1>3. calls' \in 0..MaxCalls
  BY TapeAssumption DEF Inv, Call
<1>4. {it.tape.current, it.tape.loop} \subseteq Used
  BY DEF Used
<1>5. blocks \in Seq(Entry) /\ Players \subseteq DOMAIN it /\ Iterator(blocks, it.tape)
  BY DEF Inv, Iterators, Players
<1>6. QED  BY <1>1, <1>2, <1>3, <1>4, <1>5

\* A list into which blocks were put that nothing points to.
Grown(list) ==
  /\ list \in Seq(Entry)
  /\ Ids(blocks) \subseteq Ids(list)
  /\ (Ids(list) \ Ids(blocks)) \cap Used = {}
  /\ \E m \in Nat : \A k \in Used \cup Ids(list) : k <= m

(* What was found is found, and what is in use and was not found is not.     *)
LEMMA GrownFinds ==
  ASSUME Inv, NEW list, Grown(list)
  PROVE  /\ \A id : On(blocks, id) => On(list, id)
         /\ \A id \in Used : On(list, id) => On(blocks, id)
         /\ \A x : Iterator(blocks, x) /\ x.loop \in Used => Iterator(list, x)
         /\ \A x : Sound(blocks, x) => Sound(list, x)
<1>1. blocks \in Seq(Entry) /\ list \in Seq(Entry)
  BY DEF Inv, Grown
<1>2. /\ \A id : On(blocks, id) <=> id \in Ids(blocks)
      /\ \A id : On(list, id) <=> id \in Ids(list)
  BY <1>1, FoundById
<1>3. /\ \A id : On(blocks, id) => On(list, id)
      /\ \A id \in Used : On(list, id) => On(blocks, id)
  BY <1>2, Zenon DEF Grown
<1>4. QED  BY <1>3 DEF Iterator, Sound

(* A call that leaves the writer alone and moves only the tape's pointers.   *)
LEMMA CallKeeps ==
  ASSUME Inv, Call, UNCHANGED writing,
         blocks' \in Seq(Entry), Len(blocks') <= MaxBlocks,
         Players \subseteq DOMAIN it', it'.csw = it.csw, NEW x, it'.tape = x, Iterator(blocks', x),
         NEW m \in Nat, \A k \in Ids(blocks') \cup {x.current, x.loop} : k <= m,
         "level" \in DOMAIN heard' /\ heard'.level \in {0, 1}
  PROVE  Inv'
<1>1. it.csw = Idle /\ writing' = FALSE /\ calls' \in 0..MaxCalls
  BY CallFrame
<1>2. Players \subseteq DOMAIN it' /\ it'.tape = x /\ it'.csw = Idle
  BY <1>1
<1>3. Iterators(blocks', it')
  BY <1>2, IdleIterator DEF Iterators, Players
<1>4. WriterSound'
  BY <1>1, <1>2 DEF WriterSound
<1>5. Used' = Ids(blocks') \cup {x.current, x.loop}
  BY <1>2 DEF Used, Ids
<1>6. \A k \in Used' : k <= m
  BY <1>5
<1>7. QED  BY <1>1, <1>3, <1>4, <1>6 DEF Inv

(* Blocks that are put behind those of the tape.                            *)
LEMMA AppendKeeps ==
  ASSUME Inv, OtherCall, UNCHANGED writing, NEW f, NEW n \in Nat \ {0}, DOMAIN f = 1..n,
         \A i \in 1..n : f[i] \in Blocks,
         AppendBlocks(f), Extended
  PROVE  Inv' /\ (Sound(blocks, it.tape) => Sound(blocks', it'.tape))
         /\ last_block' = LastId(blocks')
<1> DEFINE list == blocks \o WithIds(f)
           x == IF it.tape.current # Null THEN it.tape ELSE StartedAt(list, it.tape, First(list))
<1>1. /\ blocks \in Seq(Entry) /\ Players \subseteq DOMAIN it /\ Iterator(blocks, it.tape)
      /\ {it.tape.current, it.tape.loop} \subseteq Used
  BY CallFrame DEF OtherCall
<1>2. /\ WithIds(f) \in Seq(Entry) /\ Len(WithIds(f)) = n
      /\ Ids(WithIds(f)) \cap Used = {}
      /\ \E m \in Nat : \A k \in Used \cup Ids(WithIds(f)) : k <= m
  BY NewIds
<1>3. /\ blocks' = list /\ Len(list) <= MaxBlocks /\ last_block' = LastId(list)
      /\ it' = IF it.tape.current # Null THEN it
               ELSE [it EXCEPT !.tape = StartedAt(list, it.tape, First(list))]
      /\ UNCHANGED heard
  BY DEF AppendBlocks, Extended, Edited
<1>4. list \in Seq(Entry) /\ Ids(list) = Ids(blocks) \cup Ids(WithIds(f)) /\ list # <<>>
  <2>1. list \in Seq(Entry) /\ Ids(list) = Ids(blocks) \cup Ids(WithIds(f))
    BY <1>1, <1>2, ConcatIds, Zenon
  <2>2. Len(list) = Len(blocks) + n /\ Len(blocks) \in Nat
    BY <1>1, <1>2
  <2>3. QED  BY <2>1, <2>2
<1> HIDE DEF list
<1>5. Ids(blocks) \subseteq Used
  BY DEF Ids, Used
<1>6. Grown(list)
  BY <1>2, <1>4, <1>5 DEF Grown
<1>7. On(list, First(list)) /\ First(list) # Null /\ First(list) \in Ids(list)
  <2>1. On(list, First(list)) /\ First(list) # Null
    BY <1>4, NeighboursFound, Zenon
  <2>2. QED  BY <1>4, <2>1, FoundById, Zenon
<1>8. First(list) \in Nat
  <2>1. 1 \in 1..Len(list) /\ list[1] \in Entry
    BY <1>4
  <2>2. QED  BY <1>4, <2>1 DEF First, Entry
<1>9. Players \subseteq DOMAIN it' /\ it'.csw = it.csw /\ it'.tape = x
  BY <1>1, <1>3 DEF Players
<1>10. /\ Iterator(list, x) /\ x.loop = it.tape.loop
       /\ x.current \in {it.tape.current, First(list)}
       /\ Sound(blocks, it.tape) => Sound(list, x)
  <2>1. Iterator(list, it.tape) /\ (Sound(blocks, it.tape) => Sound(list, it.tape))
    BY <1>1, <1>6, GrownFinds
  <2>2. CASE it.tape.current # Null
    BY <2>1, <2>2
  <2>3. CASE it.tape.current = Null
    <3> DEFINE st == BlockInit(BlockAt(list, First(list)))
    <3>1. x = [it.tape EXCEPT !.current = First(list), !.st = st]
      BY <1>7, <2>3 DEF StartedAt
    <3> HIDE DEF st, x
    <3>2. /\ x.current = First(list) /\ x.loop = it.tape.loop /\ x.count = it.tape.count
          /\ DOMAIN x = DOMAIN it.tape
      BY <1>1, <3>1 DEF Iterator
    <3>3. QED  BY <1>7, <1>8, <2>1, <3>2 DEF Iterator, Sound
  <2>4. QED  BY <2>2, <2>3
<1> HIDE DEF x
<1>11. PICK m \in Nat : \A k \in Used \cup Ids(list) : k <= m
  BY <1>6 DEF Grown
<1>12. \A k \in Ids(list) \cup {x.current, x.loop} : k <= m
  BY <1>1, <1>7, <1>10, <1>11
<1>13. Inv'
  BY <1>3, <1>4, <1>9, <1>10, <1>12, CallKeeps DEF OtherCall, Inv
<1>14. QED  BY <1>3, <1>9, <1>10, <1>13

(* libspectrum_tape_read, on an empty tape.                                 *)
LEMMA ReadFileKeeps ==
  ASSUME Inv, NEW f \in Files, ReadFile(f)
  PROVE  Inv' /\ (Sound(blocks, it.tape) => Sound(blocks', it'.tape))
         /\ last_block' = LastId(blocks')
<1>1. Len(f) \in Nat \ {0} /\ DOMAIN f = 1..Len(f)
  BY TapeAssumption
<1>2. \A i \in 1..Len(f) : f[i] \in Blocks
  BY <1>1 DEF Blocks
<1>3. OtherCall /\ UNCHANGED writing /\ AppendBlocks(f) /\ Extended
  BY DEF ReadFile
<1>4. QED  BY <1>1, <1>2, <1>3, AppendKeeps

(* libspectrum_tape_append_block.                                           *)
LEMMA AppendBlockKeeps ==
  ASSUME Inv, NEW b \in Insertable, AppendBlock(b)
  PROVE  Inv' /\ (Sound(blocks, it.tape) => Sound(blocks', it'.tape))
         /\ last_block' = LastId(blocks')
<1>1. DOMAIN <<b>> = 1..1 /\ \A i \in 1..1 : <<b>>[i] \in Blocks
  BY DEF Blocks
<1>2. OtherCall /\ UNCHANGED writing /\ AppendBlocks(<<b>>) /\ Extended
  BY DEF AppendBlock
<1>3. 1 \in Nat \ {0}
  OBVIOUS
<1>4. QED  BY <1>1, <1>2, <1>3, AppendKeeps

(* libspectrum_tape_insert_block.                                           *)
LEMMA InsertBlockKeeps ==
  ASSUME Inv, NEW b \in Insertable, NEW position \in 0..Len(blocks), InsertBlock(b, position)
  PROVE  Inv' /\ (Sound(blocks, it.tape) => Sound(blocks', it'.tape))
         /\ last_block' = LastId(blocks')
<1> DEFINE e == WithIds(<<b>>)[1]
<1>1. /\ OtherCall /\ Len(blocks) < MaxBlocks
      /\ blocks' = InsertAt(blocks, position + 1, e) /\ last_block' = LastId(blocks')
      /\ UNCHANGED <<heard, it, writing>>
  BY DEF InsertBlock, Edited
<1>2. /\ blocks \in Seq(Entry) /\ Players \subseteq DOMAIN it /\ Iterator(blocks, it.tape)
      /\ {it.tape.current, it.tape.loop} \subseteq Used
  BY <1>1, CallFrame DEF OtherCall
<1>3. DOMAIN <<b>> = 1..1 /\ \A i \in 1..1 : <<b>>[i] \in Blocks
  BY DEF Blocks
<1>4. /\ WithIds(<<b>>) \in Seq(Entry) /\ Len(WithIds(<<b>>)) = 1
      /\ Ids(WithIds(<<b>>)) \cap Used = {}
      /\ \E m \in Nat : \A k \in Used \cup Ids(WithIds(<<b>>)) : k <= m
  BY <1>3, NewIds
<1>5. e \in Entry /\ e.id \in Ids(WithIds(<<b>>))
  BY <1>4 DEF Ids
<1> HIDE DEF e
<1>6. /\ blocks' \in Seq(Entry) /\ Len(blocks') = Len(blocks) + 1
      /\ Ids(blocks') = Ids(blocks) \cup {e.id}
  <2>1. position + 1 \in 1..Len(blocks) + 1
    BY <1>2
  <2>2. QED  BY <1>1, <1>2, <1>5, <2>1, InsertIds
<1>7. Ids(blocks) \subseteq Used
  BY DEF Ids, Used
<1>8. Grown(blocks')
  BY <1>4, <1>5, <1>6, <1>7 DEF Grown
<1>9. Iterator(blocks', it.tape) /\ (Sound(blocks, it.tape) => Sound(blocks', it.tape))
  BY <1>2, <1>8, GrownFinds, Zenon
<1>10. PICK m \in Nat : \A k \in Used \cup Ids(blocks') : k <= m
  BY <1>8 DEF Grown
<1>11. Len(blocks') <= MaxBlocks
  BY <1>1, <1>2, <1>6, TapeAssumption
<1>12. \A k \in Ids(blocks') \cup {it.tape.current, it.tape.loop} : k <= m
  BY <1>2, <1>10
<1>13. "level" \in DOMAIN heard' /\ heard'.level \in {0, 1}
  BY <1>1 DEF Inv
<1>14. Inv'
  BY <1>1, <1>2, <1>6, <1>9, <1>11, <1>12, <1>13, CallKeeps DEF OtherCall
<1>15. QED  BY <1>1, <1>9, <1>14

(* libspectrum_tape_remove_block: nothing is found that was not found, and  *)
(* with a careful caller everything the tape points to still is.            *)
LEMMA RemoveBlockKeeps ==
  ASSUME Inv, NEW i \in DOMAIN blocks, RemoveBlock(i)
  PROVE  Inv' /\ (CarefulCaller /\ Sound(blocks, it.tape) => Sound(blocks', it'.tape))
         /\ last_block' = LastId(blocks')
<1>1. /\ OtherCall /\ blocks' = RemoveAt(blocks, i) /\ last_block' = LastId(blocks')
      /\ CarefulCaller => blocks[i].id \notin {it.tape.current, it.tape.loop}
      /\ UNCHANGED <<heard, it, writing>>
  BY DEF RemoveBlock, Edited
<1>2. /\ blocks \in Seq(Entry) /\ Players \subseteq DOMAIN it /\ Iterator(blocks, it.tape)
      /\ {it.tape.current, it.tape.loop} \subseteq Used /\ i \in 1..Len(blocks)
  BY <1>1, CallFrame DEF OtherCall
<1>3. /\ blocks' \in Seq(Entry) /\ Len(blocks') = Len(blocks) - 1
      /\ Ids(blocks') \subseteq Ids(blocks)
      /\ Ids(blocks) \ {blocks[i].id} \subseteq Ids(blocks')
  BY <1>1, <1>2, RemoveIds
<1>4. /\ \A id : On(blocks, id) <=> id \in Ids(blocks)
      /\ \A id : On(blocks', id) <=> id \in Ids(blocks')
  BY <1>2, <1>3, FoundById
<1>5. Iterator(blocks', it.tape)
  BY <1>2, <1>3, <1>4 DEF Iterator
<1>6. CarefulCaller /\ Sound(blocks, it.tape) => Sound(blocks', it.tape)
  BY <1>1, <1>3, <1>4 DEF Sound
<1>7. PICK m \in Nat : \A k \in Used : k <= m
  BY DEF Inv
<1>8. \A k \in Ids(blocks') \cup {it.tape.current, it.tape.loop} : k <= m
  BY <1>2, <1>3, <1>7 DEF Ids, Used
<1>9. Len(blocks') <= MaxBlocks
  BY <1>2, <1>3, TapeAssumption DEF Inv
<1>10. "level" \in DOMAIN heard' /\ heard'.level \in {0, 1}
  BY <1>1 DEF Inv
<1>11. Inv'
  BY <1>1, <1>2, <1>3, <1>5, <1>8, <1>9, <1>10, CallKeeps DEF OtherCall
<1>12. QED  BY <1>1, <1>6, <1>11

(* libspectrum_tape_clear: with a careful caller no loop was begun.         *)
LEMMA ClearKeeps ==
  ASSUME Inv, Clear
  PROVE  /\ Inv' /\ blocks' = <<>>
         /\ CarefulCaller => Sound(blocks', it'.tape)
<1> DEFINE x == [it.tape EXCEPT !.current = Null, !.st = NoState]
<1>1. /\ OtherCall /\ blocks' = <<>> /\ UNCHANGED writing
      /\ CarefulCaller => it.tape.loop = Null
      /\ it' = [it EXCEPT !.tape.current = Null, !.tape.st = NoState]
      /\ heard' = Silence(heard.level)
  BY DEF Clear
<1>2. /\ Players \subseteq DOMAIN it /\ Iterator(blocks, it.tape)
      /\ {it.tape.current, it.tape.loop} \subseteq Used
  BY <1>1, CallFrame DEF OtherCall
<1>3. Players \subseteq DOMAIN it' /\ it'.csw = it.csw /\ it'.tape = x
  BY <1>1, <1>2 DEF Players
<1>4. <<>> \in Seq(Entry) /\ Len(<<>>) = 0 /\ Ids(<<>>) = {}
  BY DEF Ids
<1>5. \A id : ~On(<<>>, id)
  BY <1>4, FoundById
<1>6. /\ DOMAIN x = DOMAIN it.tape /\ x.current = Null
      /\ x.loop = it.tape.loop /\ x.count = it.tape.count
  <2> DEFINE none == NoState
  <2>1. x = [it.tape EXCEPT !.current = Null, !.st = none]
    OBVIOUS
  <2> HIDE DEF none, x
  <2>2. QED  BY <1>2, <2>1 DEF Iterator
<1> HIDE DEF x
<1>7. Iterator(<<>>, x)
  BY <1>2, <1>5, <1>6 DEF Iterator, Null
<1>8. CarefulCaller => Sound(<<>>, x)
  BY <1>1, <1>6 DEF Sound
<1>9. PICK m \in Nat : \A k \in Used : k <= m
  BY DEF Inv
<1>10. \A k \in Ids(blocks') \cup {x.current, x.loop} : k <= m
  BY <1>1, <1>2, <1>4, <1>6, <1>9 DEF Null
<1>11. "level" \in DOMAIN heard' /\ heard'.level \in {0, 1}
  BY <1>1 DEF Inv, Silence
<1>12. blocks' \in Seq(Entry) /\ Len(blocks') <= MaxBlocks /\ Iterator(blocks', x)
  BY <1>1, <1>4, <1>7, TapeAssumption
<1>13. Inv'
  BY <1>1, <1>3, <1>10, <1>11, <1>12, CallKeeps DEF OtherCall
<1>14. QED  BY <1>1, <1>3, <1>8, <1>13

(* libspectrum_tape_nth_block and libspectrum_tape_select_next_block.       *)
LEMMA SelectKeeps ==
  ASSUME Inv, OtherCall, NEW id, On(blocks, id),
         it' = [it EXCEPT !.tape = StartedAt(blocks, it.tape, id)],
         NEW newOrder, Interrupted(newOrder), UNCHANGED <<blocks, writing>>
  PROVE  Inv' /\ (Sound(blocks, it.tape) => Sound(blocks', it'.tape))
<1> DEFINE x == StartedAt(blocks, it.tape, id)
           st == BlockInit(BlockAt(blocks, id))
<1>1. /\ blocks \in Seq(Entry) /\ Players \subseteq DOMAIN it /\ Iterator(blocks, it.tape)
      /\ {it.tape.current, it.tape.loop} \subseteq Used
  BY CallFrame DEF OtherCall
<1>2. id \in Nat \ {Null} /\ id \in Used
  BY FoundBlock
<1>3. Players \subseteq DOMAIN it' /\ it'.csw = it.csw /\ it'.tape = x
  BY <1>1 DEF Players
<1>4. x = [it.tape EXCEPT !.current = id, !.st = st]
  BY <1>2 DEF StartedAt
<1> HIDE DEF x, st
<1>5. /\ DOMAIN x = DOMAIN it.tape /\ x.current = id
      /\ x.loop = it.tape.loop /\ x.count = it.tape.count
  BY <1>1, <1>4 DEF Iterator
<1>6. Iterator(blocks, x) /\ (Sound(blocks, it.tape) => Sound(blocks, x))
  BY <1>1, <1>2, <1>5 DEF Iterator, Sound
<1>7. PICK m \in Nat : \A k \in Used : k <= m
  BY DEF Inv
<1>8. Ids(blocks) \subseteq Used
  BY DEF Ids, Used
<1>9. \A k \in Ids(blocks) \cup {x.current, x.loop} : k <= m
  BY <1>1, <1>2, <1>5, <1>7, <1>8
<1>10. "level" \in DOMAIN heard' /\ heard'.level \in {0, 1}
  BY DEF Interrupted, Inv
<1>11. Ids(blocks') = Ids(blocks) /\ Len(blocks') <= MaxBlocks
  BY DEF Inv
<1>12. Inv'
  BY <1>1, <1>3, <1>6, <1>9, <1>10, <1>11, CallKeeps DEF OtherCall
<1>13. QED  BY <1>3, <1>6, <1>12

(* libspectrum_tape_nth_block.                                               *)
LEMMA NthBlockKeeps ==
  ASSUME Inv, NEW i \in DOMAIN blocks, NthBlock(i)
  PROVE  Inv' /\ (Sound(blocks, it.tape) => Sound(blocks', it'.tape))
<1> DEFINE id == blocks[i].id
<1>1. /\ OtherCall /\ it' = [it EXCEPT !.tape = StartedAt(blocks, it.tape, id)]
      /\ Interrupted(IF i = 1 THEN <<>> ELSE Lost) /\ UNCHANGED <<blocks, writing>>
  BY DEF NthBlock
<1>2. blocks \in Seq(Entry) /\ id \in Ids(blocks)
  BY DEF Inv, Ids
<1>3. On(blocks, id)
  BY <1>2, FoundById
<1> HIDE DEF id
<1>4. QED  BY <1>1, <1>3, SelectKeeps, Zenon

(* libspectrum_tape_select_next_block.                                       *)
LEMMA SelectNextBlockKeeps ==
  ASSUME Inv, SelectNextBlock
  PROVE  Inv' /\ (Sound(blocks, it.tape) => Sound(blocks', it'.tape))
<1> DEFINE next == After(blocks, it.tape.current)
           id == IF next = Null THEN First(blocks) ELSE next
<1>1. /\ OtherCall /\ it' = [it EXCEPT !.tape = StartedAt(blocks, it.tape, id)]
      /\ Interrupted(IF id = First(blocks) THEN <<>> ELSE Lost)
      /\ UNCHANGED <<blocks, writing>> /\ it.tape.current # Null
  BY DEF SelectNextBlock
<1>2. blocks \in Seq(Entry) /\ Iterator(blocks, it.tape) /\ Players \subseteq DOMAIN it
  BY <1>1, CallFrame DEF OtherCall
<1>3. CASE On(blocks, id)
  <2> HIDE DEF id
  <2>1. QED  BY <1>1, <1>3, SelectKeeps, Zenon
<1>4. CASE ~On(blocks, id)
  <2>1. id = Null
    BY <1>2, <1>4, NeighboursFound
  <2> DEFINE x == [it.tape EXCEPT !.current = Null]
  <2>2. Players \subseteq DOMAIN it' /\ it'.csw = it.csw /\ it'.tape = x
    BY <1>1, <1>2, <2>1 DEF Players, StartedAt
  <2>3. Iterator(blocks, x) /\ x.current = Null /\ x.loop = it.tape.loop
    BY <1>2 DEF Iterator, Null
  <2> HIDE DEF x
  <2>4. Sound(blocks, it.tape) => Sound(blocks, x)
    BY <2>3 DEF Sound
  <2>5. PICK m \in Nat : \A k \in Used : k <= m
    BY DEF Inv
  <2>6. \A k \in Ids(blocks) \cup {x.current, x.loop} : k <= m
    <3>1. \A k \in Ids(blocks) \cup {x.current, x.loop} : k \in Used \/ k = 0
      BY <2>3 DEF Ids, Used, Null
    <3>2. 0 <= m
      OBVIOUS
    <3>3. QED  BY <2>5, <3>1, <3>2
  <2>7. "level" \in DOMAIN heard' /\ heard'.level \in {0, 1}
    BY <1>1 DEF Interrupted, Inv
  <2>8. Ids(blocks') = Ids(blocks) /\ Len(blocks') <= MaxBlocks
    BY <1>1 DEF Inv
  <2>9. Inv'
    BY <1>1, <1>2, <2>2, <2>3, <2>6, <2>7, <2>8, CallKeeps DEF OtherCall
  <2>10. QED  BY <1>1, <2>2, <2>4, <2>9
<1>5. QED  BY <1>3, <1>4

(* libspectrum_tape_set_state.                                              *)
LEMMA FlashLoadKeeps ==
  ASSUME Inv, FlashLoad
  PROVE  Inv' /\ (Sound(blocks, it.tape) => Sound(blocks', it'.tape))
<1> DEFINE x == [it.tape EXCEPT !.st.state = "PAUSE"]
<1>1. /\ OtherCall /\ it' = [it EXCEPT !.tape.st.state = "PAUSE"]
      /\ heard' = [heard EXCEPT !.whole = FALSE, !.inBlock = TRUE]
      /\ UNCHANGED <<blocks, writing>>
  BY DEF FlashLoad
<1>2. /\ blocks \in Seq(Entry) /\ Players \subseteq DOMAIN it /\ Iterator(blocks, it.tape)
      /\ {it.tape.current, it.tape.loop} \subseteq Used
  BY <1>1, CallFrame DEF OtherCall
<1>3. Players \subseteq DOMAIN it' /\ it'.csw = it.csw /\ it'.tape = x
  BY <1>1, <1>2 DEF Players
<1>4. /\ Iterator(blocks, x) /\ x.current = it.tape.current /\ x.loop = it.tape.loop
  BY <1>2 DEF Iterator
<1> HIDE DEF x
<1>5. Sound(blocks, it.tape) => Sound(blocks, x)
  BY <1>4 DEF Sound
<1>6. PICK m \in Nat : \A k \in Used : k <= m
  BY DEF Inv
<1>7. Ids(blocks) \subseteq Used
  BY DEF Ids, Used
<1>8. \A k \in Ids(blocks) \cup {x.current, x.loop} : k <= m
  BY <1>2, <1>4, <1>6, <1>7
<1>9. "level" \in DOMAIN heard' /\ heard'.level \in {0, 1}
  BY <1>1 DEF Inv
<1>10. Ids(blocks') = Ids(blocks) /\ Len(blocks') <= MaxBlocks
  BY <1>1 DEF Inv
<1>11. Inv'
  BY <1>1, <1>2, <1>3, <1>4, <1>8, <1>9, <1>10, CallKeeps DEF OtherCall
<1>12. QED  BY <1>1, <1>3, <1>5, <1>11

(* csw_write_body begins: an iterator of its own, at the first block.        *)
LEMMA WriteStartKeeps ==
  ASSUME Inv, WriteStart
  PROVE  Inv' /\ UNCHANGED <<blocks, last_block>> /\ it'.tape = it.tape
<1>1. PICK loop \in {Null, Garbage} :
        it' = [it EXCEPT !.csw = StartedAt(blocks, [Idle EXCEPT !.loop = loop], First(blocks))]
  BY DEF WriteStart
<1>2. Call /\ blocks # <<>> /\ writing' = TRUE /\ UNCHANGED <<blocks, last_block, heard>>
  BY DEF WriteStart, history
<1>3. /\ blocks \in Seq(Entry) /\ Players \subseteq DOMAIN it /\ Iterator(blocks, it.tape)
      /\ calls' \in 0..MaxCalls
  BY <1>2, CallFrame
<1> DEFINE id == First(blocks)
           idle == [Idle EXCEPT !.loop = loop]
           st == BlockInit(BlockAt(blocks, id))
           x == StartedAt(blocks, idle, id)
<1>4. On(blocks, id) /\ id # Null
  BY <1>2, <1>3, NeighboursFound, Zenon
<1>5. id \in Nat
  BY <1>4, FoundBlock
<1>6. DOMAIN idle = {"current", "loop", "count", "st"} /\ idle.loop = loop /\ idle.count = 0
  BY DEF Idle
<1>7. x = [idle EXCEPT !.current = id, !.st = st]
  BY <1>4 DEF StartedAt
<1>8. it' = [it EXCEPT !.csw = x]
  BY <1>1
<1> HIDE DEF id, idle, st, x
<1>9. ~On(blocks, loop)
  BY FoundBlock DEF Null, Garbage
<1>10. x.current = id /\ x.loop = loop /\ x.count = 0 /\ DOMAIN x = DOMAIN idle
  BY <1>6, <1>7
<1>11. Iterator(blocks, x)
  BY <1>5, <1>6, <1>9, <1>10 DEF Iterator, Null
<1>12. Players \subseteq DOMAIN it' /\ it'.csw = x /\ it'.tape = it.tape
  BY <1>3, <1>8 DEF Players
<1>13. Iterators(blocks', it')
  BY <1>2, <1>3, <1>11, <1>12 DEF Iterators, Players
<1>14. WriterSound'
  BY <1>2, <1>4, <1>10, <1>12 DEF WriterSound
<1>15. Used' = Used
  BY <1>2, <1>12 DEF Used
<1>16. QED  BY <1>2, <1>3, <1>12, <1>13, <1>14, <1>15 DEF Inv

(* An edge.                                                                 *)
LEMMA EdgeInv ==
  ASSUME Inv, EdgeKeeps
  PROVE  Inv'
<1>1. UNCHANGED <<blocks, calls>> /\ Iterators(blocks', it') /\ WriterSound'
  BY DEF EdgeKeeps
<1>2. PICK m \in Nat : \A k \in Used : k <= m
  BY DEF Inv
<1>3. \A k \in Used' : k \in Used \/ k = 0
  BY <1>1 DEF Used, EdgeKeeps, Null
<1>4. \A k \in Used' : k <= m
  BY <1>2, <1>3
<1>5. QED  BY <1>1, <1>4 DEF Inv, EdgeKeeps

----------------------------------------------------------------------------
(* The theorems.                                                            *)

(* The invariant is inductive, and the tape's pointers stay on the tape.     *)
LEMMA StepKeeps ==
  ASSUME Inv, Next
  PROVE  /\ Inv'
         /\ CarefulCaller /\ PointersOnTape => PointersOnTape'
<1>1. CASE \E p \in Players : NextEdge(p)
  <2>1. EdgeKeeps
    BY <1>1, EdgeStep
  <2>2. QED  BY <2>1, EdgeInv DEF EdgeKeeps, PointersOnTape, Sound
<1>2. CASE \/ \E f \in Files : ReadFile(f)
           \/ \E b \in Insertable : AppendBlock(b)
           \/ \E b \in Insertable, position \in 0..Len(blocks) : InsertBlock(b, position)
           \/ \E i \in DOMAIN blocks : RemoveBlock(i)
  <2>1. /\ Inv' /\ last_block' = LastId(blocks')
        /\ CarefulCaller /\ Sound(blocks, it.tape) => Sound(blocks', it'.tape)
    BY <1>2, ReadFileKeeps, AppendBlockKeeps, InsertBlockKeeps, RemoveBlockKeeps, Zenon
  <2>2. QED  BY <2>1 DEF PointersOnTape, Sound
<1>3. CASE Clear
  BY <1>3, ClearKeeps DEF PointersOnTape, Sound
<1>4. CASE (\E i \in DOMAIN blocks : NthBlock(i)) \/ SelectNextBlock \/ FlashLoad
  <2>1. Inv' /\ (Sound(blocks, it.tape) => Sound(blocks', it'.tape))
    BY <1>4, NthBlockKeeps, SelectNextBlockKeeps, FlashLoadKeeps, Zenon
  <2>2. UNCHANGED <<blocks, last_block>>
    BY <1>4 DEF NthBlock, SelectNextBlock, FlashLoad
  <2>3. QED  BY <2>1, <2>2 DEF PointersOnTape, Sound
<1>5. CASE WriteStart
  BY <1>5, WriteStartKeeps DEF PointersOnTape
<1>6. QED  BY <1>1, <1>2, <1>3, <1>4, <1>5 DEF Next, UserCall, Players

(* A step that keeps every variable.                                         *)
LEMMA StutterKeeps ==
  ASSUME Inv, UNCHANGED vars
  PROVE  Inv' /\ (PointersOnTape => PointersOnTape')
<1>1. UNCHANGED <<blocks, last_block, it, writing, calls, heard>>
  BY DEF vars, history
<1>2. Used' = Used
  BY <1>1 DEF Used
<1>3. Inv'
  BY <1>1, <1>2, Zenon DEF Inv, Iterators, WriterSound
<1>4. PointersOnTape => PointersOnTape'
  BY <1>1, Zenon DEF PointersOnTape
<1>5. QED  BY <1>3, <1>4

(* libspectrum_tape_alloc: the empty list.                                   *)
LEMMA InitKeeps ==
  ASSUME Init
  PROVE  Inv /\ PointersOnTape
<1>1. /\ blocks = <<>> /\ it = [tape |-> Idle, csw |-> Idle] /\ writing = FALSE /\ calls = 0
      /\ heard = Silence(0)
  BY DEF Init
<1>2. blocks \in Seq(Entry) /\ Len(blocks) = 0 /\ DOMAIN blocks = {}
  BY <1>1
<1>3. Iterators(blocks, it)
  <2>1. Iterator(blocks, Idle)
    BY <1>2, IdleIterator, Zenon
  <2>2. DOMAIN it = Players /\ it.tape = Idle /\ it.csw = Idle
    BY <1>1 DEF Players
  <2>3. QED  BY <2>1, <2>2 DEF Iterators, Players
<1>4. \A k \in Used : k <= 0
  BY <1>1, <1>2 DEF Used, Idle, Null
<1>5. WriterSound
  BY <1>1 DEF WriterSound
<1>6. "level" \in DOMAIN heard /\ heard.level \in {0, 1}
  BY <1>1 DEF Silence
<1>7. Inv
  BY <1>1, <1>2, <1>3, <1>4, <1>5, <1>6, TapeAssumption DEF Inv
<1>8. PointersOnTape
  BY <1>1 DEF PointersOnTape, Idle
<1>9. QED  BY <1>7, <1>8

(* The inductive invariant holds in every reachable state.                   *)
THEOREM Invariance == Spec => []Inv
<1>1. Inv /\ [Next]_vars => Inv'
  BY StepKeeps, StutterKeeps
<1>2. QED  BY <1>1, InitKeeps, PTL DEF Spec

(* Every block has an address, the list is within its bound, and no loop    *)
(* count falls below zero, whatever blocks the loop's own are removed and   *)
(* whether the writer plays the tape or the emulator.                       *)
THEOREM TypesKept == Spec => []TypeOK
<1>1. Inv => TypeOK
  <2> SUFFICES ASSUME Inv PROVE TypeOK
    OBVIOUS
  <2>1. ASSUME NEW i \in DOMAIN blocks
        PROVE  blocks[i].id \in Nat \ {Null}
    <3>1. blocks[i] \in Entry
      BY DEF Inv
    <3>2. QED  BY <3>1 DEF Entry
  <2>2. \A p \in {"tape", "csw"} : it[p].count \in Nat
    BY DEF Inv, Iterators, Iterator, Players
  <2>3. QED  BY <2>1, <2>2 DEF Inv, WriterSound, TypeOK
<1>2. QED  BY <1>1, Invariance, PTL

(* The block and the loop that the tape points to are in its list, and so   *)
(* is the last block, if the caller is careful: after every edge, jump,     *)
(* loop, read, insertion and removal, while the writer runs and after it.   *)
THEOREM PointersKept == ASSUME CarefulCaller PROVE Spec => []PointersOnTape
<1>1. Inv /\ PointersOnTape /\ [Next]_vars => PointersOnTape'
  BY StepKeeps, StutterKeeps
<1>2. QED  BY <1>1, InitKeeps, Invariance, PTL DEF Spec

----------------------------------------------------------------------------
(* The writer and the tape's iterator.                                      *)

\* What a careful caller does not write.
NoJumpWritten == writing => \A j \in DOMAIN blocks : blocks[j].block.type # "JUMP"

(* An edge of the writer that is not a jump's returns with the tape's        *)
(* iterator as it was, and the machine hears nothing.                        *)
LEMMA CswReturn ==
  ASSUME Inv, NEW iters, NEW t, NEW fs, Return("csw", iters, t, fs),
         "tape" \in DOMAIN iters, iters.tape = it.tape
  PROVE  it'.tape = it.tape /\ UNCHANGED heard
<1>1. /\ it' = IF "STOP" \in fs THEN [iters EXCEPT !.csw = Idle] ELSE iters
      /\ UNCHANGED heard
  BY DEF Return, history
<1>2. QED  BY <1>1

(* Setting the writer's iterator leaves the tape's.                         *)
LEMMA CswUpdate ==
  ASSUME NEW iters, "tape" \in DOMAIN iters, iters.tape = it.tape, NEW x
  PROVE  "tape" \in DOMAIN [iters EXCEPT !.csw = x] /\ [iters EXCEPT !.csw = x].tape = it.tape
  OBVIOUS

(* So does its advance to the next block.                                    *)
LEMMA CswReturnLast ==
  ASSUME Inv, NEW iters, NEW t, NEW fs, ReturnLast("csw", iters, t, fs),
         "tape" \in DOMAIN iters, iters.tape = it.tape
  PROVE  it'.tape = it.tape /\ UNCHANGED heard
<1>1. PICK x, ms, gs : Return("csw", [iters EXCEPT !.csw = x], ms, gs)
  BY Zenon DEF ReturnLast
<1>2. QED  BY <1>1, CswUpdate, CswReturn, Zenon

(* An edge of the writer.                                                   *)
LEMMA CswEdgeLeaves ==
  ASSUME Inv, writing, NoJumpWritten, NextEdge("csw")
  PROVE  it'.tape = it.tape /\ UNCHANGED heard
<1>1. "tape" \in DOMAIN it /\ blocks \in Seq(Entry)
  BY DEF Inv, Iterators, Players
<1>2. ~Playing("csw", {"JUMP"})
  <2> SUFFICES ASSUME Playing("csw", {"JUMP"}) PROVE FALSE
    OBVIOUS
  <2>1. On(blocks, it.csw.current) /\ BlockAt(blocks, it.csw.current).type = "JUMP"
    BY DEF Playing
  <2>2. Place(blocks, it.csw.current) \in DOMAIN blocks
    BY <2>1, FoundBlock
  <2>3. QED  BY <2>1, <2>2 DEF NoJumpWritten, BlockAt
<1>3. ~JumpEdge("csw") /\ ~JumpError("csw")
  BY <1>2, Zenon DEF JumpEdge, JumpError
<1>4. CASE PulseEdge("csw")
  <2>1. PICK e : LET iters == [it EXCEPT !.csw.st = e.st]
                 IN IF e.end THEN ReturnLast("csw", iters, e.tstates, e.flags)
                    ELSE Return("csw", iters, e.tstates, e.flags)
    BY <1>4, Zenon DEF PulseEdge
  <2> DEFINE iters == [it EXCEPT !.csw.st = e.st]
  <2>2. "tape" \in DOMAIN iters /\ iters.tape = it.tape
    BY <1>1
  <2>3. ReturnLast("csw", iters, e.tstates, e.flags) \/ Return("csw", iters, e.tstates, e.flags)
    BY <2>1
  <2> HIDE DEF iters
  <2>4. QED  BY <2>2, <2>3, CswReturnLast, CswReturn, Zenon
<1>5. CASE LoopStartEdge("csw")
  <2>1. PICK x : ReturnLast("csw", [it EXCEPT !.csw = x], 0, {"NO_EDGE"})
    BY <1>5, Zenon DEF LoopStartEdge
  <2>2. QED  BY <1>1, <2>1, CswUpdate, CswReturnLast, Zenon
<1>6. CASE LoopEndEdge("csw")
  <2>1. PICK x : ReturnLast("csw", [it EXCEPT !.csw = x], 0, {"NO_EDGE"})
    BY <1>6, Zenon DEF LoopEndEdge
  <2>2. QED  BY <1>1, <2>1, CswUpdate, CswReturnLast, Zenon
<1>7. CASE LoopAgain("csw")
  <2>1. PICK x : ReturnMoved("csw", [it EXCEPT !.csw = x])
    BY <1>7, Zenon DEF LoopAgain
  <2> DEFINE iters == [it EXCEPT !.csw = x]
  <2>2. "tape" \in DOMAIN iters /\ iters.tape = it.tape
    BY <1>1, CswUpdate, Zenon
  <2>3. PICK y : Return("csw", [iters EXCEPT !.csw = y], 0, {"BLOCK", "NO_EDGE"})
    BY <2>1, Zenon DEF ReturnMoved
  <2> HIDE DEF iters
  <2>4. QED  BY <2>2, <2>3, CswUpdate, CswReturn, Zenon
<1>8. CASE FlagEdge("csw")
  BY <1>1, <1>8, CswReturnLast, Zenon DEF FlagEdge
<1>9. CASE NoBlockEdge("csw")
  <2>1. PICK x : Return("csw", [it EXCEPT !.csw = x], 0, {"BLOCK", "STOP", "TAPE"})
    BY <1>9, Zenon DEF NoBlockEdge
  <2>2. QED  BY <1>1, <2>1, CswUpdate, CswReturn, Zenon
<1>10. QED
  BY <1>3, <1>4, <1>5, <1>6, <1>7, <1>8, <1>9, Zenon DEF NextEdge

(* While the writer runs nothing but its edges happens.                     *)
LEMMA WriterAlone ==
  ASSUME Inv, writing, Next
  PROVE  NextEdge("csw")
<1>1. ~UserCall
  BY Zenon DEF UserCall, ReadFile, AppendBlock, InsertBlock, RemoveBlock, NthBlock, Clear,
     SelectNextBlock, FlashLoad, WriteStart, OtherCall, Call
<1>2. ~Plays("tape")
  BY DEF Inv, WriterSound, Plays
<1>3. ~NextEdge("tape")
  BY <1>2, Zenon DEF NextEdge, PulseEdge, JumpEdge, JumpError, LoopStartEdge, LoopAgain,
     LoopEndEdge, FlagEdge, NoBlockEdge, Playing
<1>4. QED  BY <1>1, <1>3 DEF Next

(* An edge of the tape does not start the writer.                            *)
LEMMA TapeReturns ==
  ASSUME NEW iters, NEW t, NEW fs,
         Return("tape", iters, t, fs) \/ ReturnLast("tape", iters, t, fs)
           \/ ReturnMoved("tape", iters)
  PROVE  UNCHANGED writing
<1>1. ASSUME NEW x, NEW u, NEW gs, Return("tape", x, u, gs)
      PROVE  UNCHANGED writing
  BY <1>1 DEF Return
<1>2. PICK x, u, gs : Return("tape", x, u, gs)
  BY Zenon DEF ReturnLast, ReturnMoved
<1>3. QED  BY <1>1, <1>2

(* Whichever edge it is.                                                     *)
LEMMA TapeEdgeStarts ==
  ASSUME NextEdge("tape"), ~writing
  PROVE  ~writing'
<1>1. CASE PulseEdge("tape")
  <2>1. PICK e : LET iters == [it EXCEPT !.tape.st = e.st]
                 IN IF e.end THEN ReturnLast("tape", iters, e.tstates, e.flags)
                    ELSE Return("tape", iters, e.tstates, e.flags)
    BY <1>1, Zenon DEF PulseEdge
  <2>2. PICK iters : ReturnLast("tape", iters, e.tstates, e.flags)
                       \/ Return("tape", iters, e.tstates, e.flags)
    BY <2>1, Zenon
  <2>3. QED  BY <2>2, TapeReturns
<1>2. CASE JumpError("tape")
  BY <1>2 DEF JumpError
<1>3. CASE JumpEdge("tape") \/ LoopAgain("tape")
  BY <1>3, TapeReturns, Zenon DEF JumpEdge, LoopAgain
<1>4. CASE LoopStartEdge("tape") \/ LoopEndEdge("tape") \/ FlagEdge("tape")
  BY <1>4, TapeReturns, Zenon DEF LoopStartEdge, LoopEndEdge, FlagEdge
<1>5. CASE NoBlockEdge("tape")
  BY <1>5, TapeReturns, Zenon DEF NoBlockEdge
<1>6. QED  BY <1>1, <1>2, <1>3, <1>4, <1>5, Zenon DEF NextEdge

(* A careful caller's tape with a jump is not written.                      *)
LEMMA NoJumpStep ==
  ASSUME CarefulCaller, Inv, NoJumpWritten, [Next]_vars
  PROVE  NoJumpWritten'
<1>1. CASE UNCHANGED vars
  BY <1>1 DEF vars, NoJumpWritten
<1>2. CASE Next /\ writing
  <2>1. EdgeKeeps
    BY <1>2, WriterAlone, EdgeStep DEF Players
  <2>2. QED  BY <1>2, <2>1 DEF EdgeKeeps, NoJumpWritten
<1>3. CASE Next /\ ~writing
  <2>1. CASE WriteStart
    <3>1. NoLoopMissed /\ UNCHANGED blocks
      BY <2>1 DEF WriteStart
    <3>2. QED  BY <3>1 DEF NoLoopMissed, Contents, NoJumpWritten
  <2>2. CASE UserCall /\ ~WriteStart
    <3>1. UNCHANGED writing
      BY <2>2, Zenon DEF UserCall, ReadFile, AppendBlock, InsertBlock, RemoveBlock, NthBlock,
         Clear, SelectNextBlock, FlashLoad
    <3>2. QED  BY <1>3, <3>1 DEF NoJumpWritten
  <2>3. CASE \E p \in Players : NextEdge(p)
    <3>1. EdgeKeeps
      BY <2>3, EdgeStep
    <3>2. \A p \in Players : NextEdge(p) => Plays(p)
      BY Zenon DEF NextEdge, PulseEdge, JumpEdge, JumpError, LoopStartEdge, LoopAgain,
         LoopEndEdge, FlagEdge, NoBlockEdge, Playing
    <3>3. NextEdge("tape")
      <4>1. ~NextEdge("csw")
        BY <1>3, <3>2, Zenon DEF Players, Plays
      <4>2. QED  BY <2>3, <4>1, Zenon DEF Players
    <3>4. QED  BY <1>3, <3>3, TapeEdgeStarts DEF NoJumpWritten
  <2>4. QED  BY <1>3, <2>1, <2>2, <2>3 DEF Next, Players
<1>4. QED  BY <1>1, <1>2, <1>3

(* No tape with a jump is ever written.                                      *)
LEMMA NoJumpKept ==
  ASSUME CarefulCaller
  PROVE  Spec => []NoJumpWritten
<1>1. Init => NoJumpWritten
  BY DEF Init, NoJumpWritten
<1>2. Inv /\ NoJumpWritten /\ [Next]_vars => NoJumpWritten'
  BY NoJumpStep
<1>3. QED  BY <1>1, <1>2, Invariance, PTL DEF Spec

(* Writing the tape as CSW leaves the position the tape is played from, for  *)
(* callers who do not write a tape with a jump: the writer's iterator is its *)
(* own, but jump_blocks would move the tape's (tape.c, csw.c).               *)
THEOREM WriterIsolated ==
  ASSUME CarefulCaller
  PROVE  Spec => WriterLeavesTape
<1>1. Spec => []NoJumpWritten
  BY NoJumpKept
<1>2. Inv /\ NoJumpWritten /\ [Next]_vars => [writing => it'.tape = it.tape]_vars
  <2>1. CASE Inv /\ NoJumpWritten /\ Next /\ writing
    BY <2>1, WriterAlone, CswEdgeLeaves
  <2>2. QED  BY <2>1
<1>3. QED
  BY <1>1, <1>2, Invariance, PTL DEF Spec, WriterLeavesTape

----------------------------------------------------------------------------
(* The state of the block that is played.                                   *)

\* The states that rom_edge, turbo_edge and pure_data_edge know.
LoaderStates == {"PILOT", "SYNC1", "SYNC2", "DATA1", "DATA2", "PAUSE"}

LoaderSound(b, st) ==
  b.type \in {"ROM", "TURBO", "PURE_DATA"} =>
    "state" \in DOMAIN st /\ st.state \in LoaderStates

\* The list, the tape's iterator, and whether the machine is inside of a block.
Ready(list, x, inBlock) ==
  /\ "st" \in DOMAIN x
  /\ inBlock => On(list, x.current) /\ BlockAt(list, x.current).type \in PulseBlocks
  /\ On(list, x.current) =>
       /\ LoaderSound(BlockAt(list, x.current), x.st)
       /\ ~inBlock => x.st = BlockInit(BlockAt(list, x.current))

\* The machine hears the blocks that the iterator plays.
Playhead == "inBlock" \in DOMAIN heard /\ Ready(blocks, it.tape, heard.inBlock)

(* A bit that is loaded.                                                     *)
LEMMA BitLoaded ==
  ASSUME NEW st, "state" \in DOMAIN st
  PROVE  "state" \in DOMAIN LoadBit(st) /\ LoadBit(st).state = "DATA1"
<1>1. LoadBit(st) = [st EXCEPT !.state = "DATA1", !.bit = Head(st.byte),
                               !.byte = Tail(st.byte), !.index = 0]
  BY DEF LoadBit
<1> DEFINE x == Head(st.byte)  y == Tail(st.byte)
<1>2. LoadBit(st) = [st EXCEPT !.state = "DATA1", !.bit = x, !.byte = y, !.index = 0]
  BY <1>1
<1> HIDE DEF x, y
<1>3. QED  BY <1>2

(* After a bit comes another bit or the pause.                               *)
LEMMA NextBitSound ==
  ASSUME NEW b, b.type # "DATA_BLOCK", NEW st, "state" \in DOMAIN st
  PROVE  "state" \in DOMAIN NextBit(b, st) /\ NextBit(b, st).state \in LoaderStates
<1> DEFINE next == st.bytes + 1
           unused == IF next = Len(b.data) - 1 THEN BitsInByte - Timing(b).bits_in_last_byte ELSE 0
           same == [st EXCEPT !.bits = st.bits + 1]
           done == [st EXCEPT !.bits = st.bits + 1, !.bytes = next, !.state = "PAUSE"]
           more == [st EXCEPT !.bytes = next, !.byte = b.data[next + 1], !.bits = unused]
<1>1. NextBit(b, st) \in {LoadBit(same), done, LoadBit(more)}
  BY DEF NextBit
<1>2. "state" \in DOMAIN same /\ "state" \in DOMAIN more
  OBVIOUS
<1>3. "state" \in DOMAIN done /\ done.state = "PAUSE"
  OBVIOUS
<1> HIDE DEF same, done, more
<1>4. QED  BY <1>1, <1>2, <1>3, BitLoaded DEF LoaderStates

(* The state that libspectrum_tape_block_init gives to a block.              *)
LEMMA InitSound ==
  ASSUME NEW b
  PROVE  LoaderSound(b, BlockInit(b))
<1>1. \A state, n : /\ "state" \in DOMAIN BeforeData(state, n)
                    /\ BeforeData(state, n).state = state
  BY DEF BeforeData
<1>2. CASE b.type \in {"ROM", "TURBO"}
  <2>1. BlockInit(b) = BeforeData("PILOT", Timing(b).pilot_pulses)
    BY <1>2 DEF BlockInit
  <2>2. QED  BY <1>1, <2>1 DEF LoaderSound, LoaderStates
<1>3. CASE b.type = "PURE_DATA"
  <2>1. BlockInit(b) = NextBit(b, BeforeData("DATA1", 0))
    BY <1>3 DEF BlockInit
  <2>2. QED  BY <1>1, <1>3, <2>1, NextBitSound DEF LoaderSound
<1>4. QED  BY <1>2, <1>3 DEF LoaderSound

\* The flags of an edge inside of a block.
PulseFlags == {"NO_EDGE", "STOP", "LENGTH_SHORT", "LENGTH_LONG", "LEVEL_LOW", "LEVEL_HIGH"}

(* A loader that is in a state it knows stays in one.                        *)
LEMMA LoaderEdgeSound ==
  ASSUME NEW b, b.type \in {"ROM", "TURBO", "PURE_DATA"}, NEW st, LoaderSound(b, st)
  PROVE  /\ LoaderSound(b, LoaderEdge(b, st).st)
         /\ LoaderEdge(b, st).flags \subseteq PulseFlags
<1>0. "state" \in DOMAIN st /\ st.state \in LoaderStates
  BY DEF LoaderSound
<1>1. CASE st.state = "PILOT"
  <2> DEFINE left == [st EXCEPT !.edge_count = st.edge_count - 1]
             two == [left EXCEPT !.state = "SYNC2"]
             one == [left EXCEPT !.state = "SYNC1"]
  <2>1. /\ LoaderEdge(b, st).st \in {two, one, left}
        /\ LoaderEdge(b, st).flags = {}
    BY <1>1 DEF LoaderEdge, PilotEdge, EdgeOf
  <2>2. /\ "state" \in DOMAIN left /\ left.state = "PILOT"
        /\ "state" \in DOMAIN one /\ one.state = "SYNC1"
        /\ "state" \in DOMAIN two /\ two.state = "SYNC2"
    BY <1>0, <1>1
  <2> HIDE DEF left, one, two
  <2>3. QED  BY <2>1, <2>2 DEF LoaderSound, LoaderStates
<1>2. CASE st.state = "SYNC1"
  BY <1>0, <1>2 DEF LoaderEdge, EdgeOf, LoaderSound, LoaderStates
<1>3. CASE st.state = "SYNC2"
  <2>1. LoaderEdge(b, st) = EdgeOf(NextBit(b, st), Timing(b).sync2_length, {}, FALSE)
    BY <1>3 DEF LoaderEdge
  <2>2. LoaderEdge(b, st).st = NextBit(b, st) /\ LoaderEdge(b, st).flags = {}
    BY <2>1 DEF EdgeOf
  <2>3. QED  BY <1>0, <2>2, NextBitSound DEF LoaderSound
<1>4. CASE st.state \in {"DATA1", "DATA2"}
  <2> DEFINE second == [st EXCEPT !.state = "DATA2"]
  <2>1. LoaderEdge(b, st) = BitEdge(b, st)
    BY <1>4 DEF LoaderEdge
  <2>2. /\ LoaderEdge(b, st).st \in {second, NextBit(b, st)}
        /\ LoaderEdge(b, st).flags \subseteq {"LENGTH_SHORT", "LENGTH_LONG"}
    BY <2>1 DEF BitEdge, EdgeOf
  <2>3. "state" \in DOMAIN second /\ second.state = "DATA2"
    BY <1>0
  <2> HIDE DEF second
  <2>4. QED  BY <1>0, <2>2, <2>3, NextBitSound DEF LoaderSound, LoaderStates, PulseFlags
<1>5. CASE st.state = "PAUSE"
  BY <1>0, <1>5 DEF LoaderEdge, TailPause, EdgeOf, LoaderSound, PulseFlags
<1>6. QED  BY <1>0, <1>1, <1>2, <1>3, <1>4, <1>5 DEF LoaderStates

(* An edge of a block with pulses never says that the block is over: that    *)
(* flag is libspectrum_tape_get_next_edge_internal's.                        *)
LEMMA EdgeSound ==
  ASSUME NEW b, b.type \in PulseBlocks, NEW st, LoaderSound(b, st)
  PROVE  /\ LoaderSound(b, BlockEdge(b, st).st)
         /\ BlockEdge(b, st).flags \subseteq PulseFlags
<1>1. CASE b.type \in {"ROM", "TURBO", "PURE_DATA"}
  <2>1. BlockEdge(b, st) = LoaderEdge(b, st)
    BY <1>1 DEF BlockEdge
  <2>2. QED  BY <1>1, <2>1, LoaderEdgeSound
<1>2. ASSUME b.type \notin {"ROM", "TURBO", "PURE_DATA"}
      PROVE  BlockEdge(b, st).flags \subseteq PulseFlags
  <2>0. \A s, t, fs, end : EdgeOf(s, t, fs, end).flags = fs
    BY DEF EdgeOf
  <2>1. ASSUME NEW s, NEW t
        PROVE  TailPause(s, t).flags \subseteq PulseFlags
    <3>1. TailPause(s, t).flags = IF t = 0 THEN {"NO_EDGE"} ELSE {}
      BY DEF TailPause, EdgeOf
    <3>2. QED  BY <3>1 DEF PulseFlags
  <2>2. \A level : LevelFlag(level) \in PulseFlags
    BY DEF LevelFlag, PulseFlags
  <2>3. CASE b.type = "DATA_BLOCK"
    <3> DEFINE pulses == PulsesOf(b, st.bit)
               next == [st EXCEPT !.index = st.index + 1]
               edge == IF st.state = "TAIL" THEN TailPause(st, b.tail_length)
                       ELSE EdgeOf(IF next.index = Len(pulses) THEN NextBit(b, next) ELSE next,
                                   pulses[next.index], BitFlags(b, st.bit), FALSE)
    <3>1. BlockEdge(b, st) =
            IF "NO_EDGE" \in edge.flags THEN edge
            ELSE [edge EXCEPT !.flags = edge.flags \cup {LevelFlag(st.level)},
                              !.st.level = 1 - edge.st.level]
      BY <2>3 DEF BlockEdge, DataBlockEdge
    <3>2. BitFlags(b, st.bit) \subseteq PulseFlags
      BY DEF BitFlags, PulseFlags
    <3>3. edge.flags \subseteq PulseFlags /\ "flags" \in DOMAIN edge
      <4>1. CASE st.state = "TAIL"
        BY <2>1, <4>1 DEF TailPause, EdgeOf
      <4>2. CASE st.state # "TAIL"
        BY <2>0, <3>2, <4>2 DEF EdgeOf
      <4>3. QED  BY <4>1, <4>2
    <3> HIDE DEF edge
    <3>4. QED  BY <2>2, <3>1, <3>3
  <2>4. CASE b.type = "RAW_DATA"
    <3>1. BlockEdge(b, st) = RawEdge(b, st)
      BY <2>4 DEF BlockEdge
    <3>2. CASE st.state = "PAUSE"
      BY <2>1, <3>1, <3>2 DEF RawEdge
    <3>3. CASE st.state # "PAUSE"
      <4> DEFINE next == RawNextBit(b, st)
      <4>1. RawEdge(b, st) =
              EdgeOf(next, st.length * b.bit_length, {LevelFlag(1 - next.last_bit)}, FALSE)
        BY <3>3 DEF RawEdge
      <4>2. RawEdge(b, st).flags = {LevelFlag(1 - next.last_bit)}
        BY <4>1 DEF EdgeOf
      <4> HIDE DEF next
      <4>3. QED  BY <2>2, <3>1, <4>2
    <3>4. QED  BY <3>2, <3>3
  <2>5. CASE b.type = "GENERALISED_DATA"
    <3>1. BlockEdge(b, st) = GeneralisedEdge(b, st)
      BY <2>5 DEF BlockEdge
    <3>2. ASSUME NEW s, NEW symbol, NEW edge
          PROVE  SymbolEdge(s, symbol, edge).flags \subseteq PulseFlags
      <4>1. SymbolEdge(s, symbol, edge).flags =
              {flag \in {"NO_EDGE", "LEVEL_LOW", "LEVEL_HIGH"} :
                 edge = 0 /\ flag = symbol.edge_type}
        BY DEF SymbolEdge, EdgeOf
      <4>2. QED  BY <4>1 DEF PulseFlags
    <3>3. QED  BY <2>1, <3>1, <3>2, Zenon DEF GeneralisedEdge
  <2>6. CASE b.type = "PURE_TONE"
    BY <2>0, <2>6 DEF BlockEdge, ToneEdge
  <2>7. CASE b.type = "PULSES"
    BY <2>0, <2>7 DEF BlockEdge, ListEdge
  <2>8. CASE b.type = "PAUSE"
    <3>1. BlockEdge(b, st) = PauseEdge(b, st)
      BY <2>8 DEF BlockEdge
    <3>2. PauseEdge(b, st).flags =
            (IF b.level # -1 /\ b.length # 0 THEN {LevelFlag(b.level)} ELSE {})
              \cup (IF b.length = 0 THEN {"STOP"} ELSE {})
      BY DEF PauseEdge, EdgeOf
    <3>3. QED  BY <2>2, <3>1, <3>2 DEF PulseFlags
  <2>9. CASE b.type = "RLE_PULSE"
    BY <2>0, <2>9 DEF BlockEdge, RleEdge
  <2>10. CASE b.type = "PULSE_SEQUENCE"
    <3>1. BlockEdge(b, st) = SequenceEdge(b, st)
      BY <2>10 DEF BlockEdge
    <3>2. \E level : SequenceEdge(b, st).flags \in {{LevelFlag(level)}, {"NO_EDGE"}, {}}
      <4> DEFINE pulses == Repeated(b)
                 next == Least({p \in (st.pos + 1)..Len(pulses) :
                                  p = Len(pulses) \/ pulses[p] # 0})
                 turns == next - st.pos
                 level == IF st.level = -1 THEN (turns - 1) % 2 ELSE (st.level + turns) % 2
                 fs == IF level # st.level THEN {LevelFlag(level)}
                       ELSE IF pulses[next] = 0 THEN {"NO_EDGE"} ELSE {}
      <4>1. SequenceEdge(b, st) =
              EdgeOf([pos |-> next, level |-> level], pulses[next], fs, next = Len(pulses))
        BY Zenon DEF SequenceEdge
      <4> HIDE DEF pulses, next, level
      <4>2. fs \in {{LevelFlag(level)}, {"NO_EDGE"}, {}}
        OBVIOUS
      <4> HIDE DEF fs
      <4>3. SequenceEdge(b, st).flags = fs
        BY <4>1 DEF EdgeOf
      <4>4. QED  BY <4>2, <4>3
    <3>3. QED  BY <2>2, <3>1, <3>2 DEF PulseFlags
  <2>11. QED
    BY <1>2, <2>3, <2>4, <2>5, <2>6, <2>7, <2>8, <2>9, <2>10 DEF PulseBlocks
<1>3. QED  BY <1>1, <1>2 DEF LoaderSound

----------------------------------------------------------------------------
(* Edges that the machine hears.                                            *)

(* An iterator that was set to a block begins it.                            *)
LEMMA StartedReady ==
  ASSUME NEW list \in Seq(Entry), NEW x, {"current", "st"} \subseteq DOMAIN x,
         NEW id, id = Null \/ On(list, id)
  PROVE  Ready(list, StartedAt(list, x, id), FALSE)
<1>1. CASE id = Null
  <2>1. /\ "st" \in DOMAIN StartedAt(list, x, id)
        /\ StartedAt(list, x, id).current = Null
    BY <1>1 DEF StartedAt
  <2>2. QED  BY <2>1, NullNotOn DEF Ready
<1>2. CASE id # Null
  <2> DEFINE st == BlockInit(BlockAt(list, id))
             y == [x EXCEPT !.current = id, !.st = st]
  <2>1. StartedAt(list, x, id) = y
    BY <1>2 DEF StartedAt
  <2>2. LoaderSound(BlockAt(list, id), st)
    BY InitSound
  <2> HIDE DEF st
  <2>3. "st" \in DOMAIN y /\ y.current = id /\ y.st = st
    OBVIOUS
  <2> HIDE DEF y
  <2>4. Ready(list, y, FALSE)
    BY <2>2, <2>3 DEF Ready, st
  <2>5. QED  BY <2>1, <2>4
<1>3. QED  BY <1>1, <1>2

(* The machine is inside of a block until an edge says that it ended.        *)
LEMMA HearsBlock ==
  ASSUME "inBlock" \in DOMAIN heard, NEW t, NEW fs, Hears(t, fs)
  PROVE  "inBlock" \in DOMAIN heard' /\ heard'.inBlock = ("BLOCK" \notin fs)
<1> DEFINE place == Place(blocks, it.tape.current)
           begun == IF heard.inBlock \/ place = 0 THEN heard
                    ELSE [heard EXCEPT !.block = blocks[place].block, !.from = heard.level,
                                       !.wave = <<>>, !.total = 0, !.whole = TRUE]
           level == Hear(heard.level, fs)
           wave == Extend(begun.wave, level, t)
           total == begun.total + t
           inBlock == "BLOCK" \notin fs
<1>1. DOMAIN begun = DOMAIN heard
  OBVIOUS
<1>2. heard' = [begun EXCEPT !.level = level, !.wave = wave, !.total = total,
                             !.inBlock = inBlock]
  BY DEF Hears
<1> HIDE DEF begun, level, wave, total, inBlock
<1>3. "inBlock" \in DOMAIN heard' /\ heard'.inBlock = inBlock
  BY <1>1, <1>2
<1>4. QED  BY <1>3 DEF inBlock

(* A return to the emulator.                                                *)
LEMMA ReturnReady ==
  ASSUME Playhead, NEW iters, NEW t, NEW fs, Return("tape", iters, t, fs),
         Ready(blocks, iters.tape, "BLOCK" \notin fs)
  PROVE  Playhead'
<1>1. it' = iters /\ Hears(t, fs) /\ UNCHANGED blocks
  BY DEF Return
<1>2. "inBlock" \in DOMAIN heard' /\ heard'.inBlock = ("BLOCK" \notin fs)
  BY <1>1, HearsBlock DEF Playhead
<1>3. Ready(blocks', it'.tape, heard'.inBlock)
  BY <1>1, <1>2
<1>4. QED  BY <1>2, <1>3 DEF Playhead

(* The same when the edge set the iterator to a block, if there is one.      *)
LEMMA StartedReturn ==
  ASSUME Inv, Playhead, NEW iters, "tape" \in DOMAIN iters,
         {"current", "st"} \subseteq DOMAIN iters.tape,
         NEW id, id = Null \/ On(blocks, id), NEW t, NEW fs, "BLOCK" \in fs,
         Return("tape", [iters EXCEPT !["tape"] = StartedAt(blocks, iters["tape"], id)], t, fs)
  PROVE  Playhead'
<1> DEFINE x == StartedAt(blocks, iters["tape"], id)
<1>1. Ready(blocks, x, FALSE)
  BY StartedReady DEF Inv
<1> HIDE DEF x
<1>2. [iters EXCEPT !["tape"] = x].tape = x
  OBVIOUS
<1>3. Ready(blocks, [iters EXCEPT !["tape"] = x].tape, "BLOCK" \notin fs)
  BY <1>1, <1>2
<1>4. QED  BY <1>3, ReturnReady DEF x

(* The edge ended the block.                                                *)
LEMMA ReturnLastReady ==
  ASSUME Inv, Playhead, NEW iters, "tape" \in DOMAIN iters,
         {"current", "st"} \subseteq DOMAIN iters.tape, NEW t, NEW fs,
         ReturnLast("tape", iters, t, fs)
  PROVE  Playhead'
<1>1. blocks \in Seq(Entry)
  BY DEF Inv
<1> DEFINE next == After(blocks, iters["tape"].current)
<1>2. next = Null \/ On(blocks, next)
  BY <1>1, NeighboursFound
<1>3. First(blocks) = Null \/ On(blocks, First(blocks))
  BY <1>1, NeighboursFound
<1>4. CASE next # Null
  <2>1. Return("tape", [iters EXCEPT !["tape"] = StartedAt(blocks, iters["tape"], next)], t,
               fs \cup {"BLOCK"})
    BY <1>4 DEF ReturnLast
  <2>2. "BLOCK" \in fs \cup {"BLOCK"}
    OBVIOUS
  <2> HIDE DEF next
  <2>3. QED  BY <1>2, <2>1, <2>2, StartedReturn, Zenon
<1>5. CASE next = Null
  <2>1. Return("tape", [iters EXCEPT !["tape"] = StartedAt(blocks, iters["tape"], First(blocks))],
               t, (fs \ {"NO_EDGE"}) \cup {"BLOCK", "STOP", "TAPE"})
    BY <1>5 DEF ReturnLast
  <2>2. "BLOCK" \in (fs \ {"NO_EDGE"}) \cup {"BLOCK", "STOP", "TAPE"}
    OBVIOUS
  <2>3. QED  BY <1>3, <2>1, <2>2, StartedReturn, Zenon
<1>6. QED  BY <1>4, <1>5

(* The edge moved the tape to a block.                                      *)
LEMMA ReturnMovedReady ==
  ASSUME Inv, Playhead, NEW iters, "tape" \in DOMAIN iters,
         {"current", "st"} \subseteq DOMAIN iters.tape, On(blocks, iters.tape.current),
         ReturnMoved("tape", iters)
  PROVE  Playhead'
<1>1. Return("tape", [iters EXCEPT !["tape"] =
                        StartedAt(blocks, iters["tape"], iters["tape"].current)], 0,
             {"BLOCK", "NO_EDGE"})
  BY DEF ReturnMoved
<1>2. On(blocks, iters["tape"].current) /\ "BLOCK" \in {"BLOCK", "NO_EDGE"}
  OBVIOUS
<1>3. QED  BY <1>1, <1>2, StartedReturn, Zenon

(* The tape's iterator.                                                     *)
LEMMA TapeIterator ==
  ASSUME Inv, Playhead
  PROVE  "tape" \in DOMAIN it /\ {"current", "st", "loop", "count"} \subseteq DOMAIN it.tape
  BY DEF Inv, Playhead, Ready, Iterators, Iterator, Players

(* The iterator passes a block whose edge leaves the union as it was.        *)
LEMMA PassedReady ==
  ASSUME Inv, Playhead, NEW x, {"current", "st"} \subseteq DOMAIN x, NEW t, NEW fs,
         ReturnLast("tape", [it EXCEPT !["tape"] = x], t, fs)
  PROVE  Playhead'
<1>1. "tape" \in DOMAIN [it EXCEPT !["tape"] = x] /\ [it EXCEPT !["tape"] = x].tape = x
  BY TapeIterator
<1>2. QED  BY <1>1, ReturnLastReady, Zenon

(* An edge of a block with pulses.                                          *)
LEMMA PulseReady ==
  ASSUME Inv, Playhead, PulseEdge("tape")
  PROVE  Playhead'
<1> DEFINE b == BlockAt(blocks, it.tape.current)
           e == BlockEdge(b, it.tape.st)
           x == [it.tape EXCEPT !.st = e.st]
<1>1. /\ On(blocks, it.tape.current) /\ b.type \in PulseBlocks
      /\ LET iters == [it EXCEPT !["tape"].st = e.st]
         IN IF e.end THEN ReturnLast("tape", iters, e.tstates, e.flags)
            ELSE Return("tape", iters, e.tstates, e.flags)
  BY DEF PulseEdge, Playing
<1>2. LoaderSound(b, it.tape.st)
  BY <1>1 DEF Playhead, Ready
<1>3. LoaderSound(b, e.st) /\ e.flags \subseteq PulseFlags
  BY <1>1, <1>2, EdgeSound
<1>4. [it EXCEPT !["tape"].st = e.st] = [it EXCEPT !["tape"] = x]
  BY TapeIterator
<1>5. {"current", "st"} \subseteq DOMAIN x /\ x.current = it.tape.current /\ x.st = e.st
  BY TapeIterator
<1>6. CASE e.end
  <2>1. ReturnLast("tape", [it EXCEPT !["tape"] = x], e.tstates, e.flags)
    BY <1>1, <1>4, <1>6
  <2> HIDE DEF x, e
  <2>2. QED  BY <1>5, <2>1, PassedReady, Zenon
<1>7. CASE ~e.end
  <2>1. Return("tape", [it EXCEPT !["tape"] = x], e.tstates, e.flags)
    BY <1>1, <1>4, <1>7
  <2>2. [it EXCEPT !["tape"] = x].tape = x
    BY TapeIterator
  <2>3. "BLOCK" \notin e.flags
    BY <1>3 DEF PulseFlags
  <2> HIDE DEF x, e
  <2>4. Ready(blocks, x, "BLOCK" \notin e.flags)
    BY <1>1, <1>3, <1>5, <2>3 DEF Ready
  <2>5. QED  BY <2>1, <2>2, <2>4, ReturnReady
<1>8. QED  BY <1>6, <1>7

(* A jump, to a block or off the tape: there the tape stays at the jump,     *)
(* which has no pulses to be inside of.                                     *)
LEMMA JumpReady ==
  ASSUME Inv, Playhead, JumpEdge("tape") \/ JumpError("tape")
  PROVE  Playhead'
<1>1. CASE JumpEdge("tape")
  <2> DEFINE id == blocks[JumpTarget("tape")].id
             x == [it.tape EXCEPT !.current = id]
             iters == [it EXCEPT !.tape.current = id]
  <2>1. JumpTarget("tape") \in DOMAIN blocks /\ ReturnMoved("tape", iters)
    BY <1>1 DEF JumpEdge
  <2>2. blocks \in Seq(Entry)
    BY DEF Inv
  <2>3. On(blocks, id)
    BY <2>1, <2>2, PlaceProperties
  <2> HIDE DEF id
  <2>4. "tape" \in DOMAIN iters /\ iters.tape = x
    BY TapeIterator
  <2>5. {"current", "st"} \subseteq DOMAIN x /\ x.current = id
    BY TapeIterator
  <2> HIDE DEF iters, x
  <2>6. QED  BY <2>1, <2>3, <2>4, <2>5, ReturnMovedReady, Zenon
<1>2. CASE JumpError("tape")
  <2>1. /\ BlockAt(blocks, it.tape.current).type = "JUMP"
        /\ it' = [it EXCEPT !.csw = Idle] /\ UNCHANGED blocks
        /\ heard' = [heard EXCEPT !.whole = FALSE, !.inBlock = FALSE]
    BY <1>2 DEF JumpError, Playing, Interrupted
  <2>2. ~heard.inBlock
    BY <2>1 DEF Playhead, Ready, PulseBlocks
  <2>3. "inBlock" \in DOMAIN heard' /\ heard'.inBlock = FALSE
    BY <2>1 DEF Playhead
  <2>4. it'.tape = it.tape
    BY <2>1, TapeIterator
  <2>5. QED  BY <2>1, <2>2, <2>3, <2>4 DEF Playhead, Ready
<1>3. QED  BY <1>1, <1>2

(* The blocks that begin and end a loop.                                    *)
LEMMA LoopReady ==
  ASSUME Inv, Playhead, LoopStartEdge("tape") \/ LoopAgain("tape") \/ LoopEndEdge("tape")
  PROVE  Playhead'
<1>1. CASE LoopStartEdge("tape")
  <2> DEFINE x == LoopStarted(it["tape"])
  <2>1. DOMAIN x = DOMAIN it.tape
    BY DEF LoopStarted
  <2>2. ReturnLast("tape", [it EXCEPT !["tape"] = x], 0, {"NO_EDGE"})
    BY <1>1 DEF LoopStartEdge
  <2> HIDE DEF x
  <2>3. {"current", "st"} \subseteq DOMAIN x
    BY <2>1, TapeIterator
  <2>4. QED  BY <2>2, <2>3, PassedReady, Zenon
<1>2. CASE LoopEndEdge("tape")
  <2> DEFINE x == LoopDone(it["tape"])
  <2>1. DOMAIN x = DOMAIN it.tape
    BY DEF LoopDone
  <2>2. ReturnLast("tape", [it EXCEPT !["tape"] = x], 0, {"NO_EDGE"})
    BY <1>2 DEF LoopEndEdge
  <2> HIDE DEF x
  <2>3. {"current", "st"} \subseteq DOMAIN x
    BY <2>1, TapeIterator
  <2>4. QED  BY <2>2, <2>3, PassedReady, Zenon
<1>3. CASE LoopAgain("tape")
  <2> DEFINE x == LoopBack(it["tape"])
             iters == [it EXCEPT !["tape"] = x]
  <2>1. On(blocks, it.tape.loop) /\ ReturnMoved("tape", iters)
    BY <1>3 DEF LoopAgain
  <2>2. DOMAIN x = DOMAIN it.tape /\ x.current = it.tape.loop
    BY TapeIterator DEF LoopBack
  <2> HIDE DEF x
  <2>3. "tape" \in DOMAIN iters /\ iters.tape = x
    BY TapeIterator
  <2> HIDE DEF iters
  <2>4. {"current", "st"} \subseteq DOMAIN iters.tape /\ On(blocks, iters.tape.current)
    BY <2>1, <2>2, <2>3, TapeIterator
  <2>5. QED  BY <2>1, <2>3, <2>4, ReturnMovedReady, Zenon
<1>4. QED  BY <1>1, <1>2, <1>3

(* An edge of the tape.                                                     *)
LEMMA TapeEdgeReady ==
  ASSUME Inv, Playhead, NextEdge("tape")
  PROVE  Playhead'
<1>1. CASE FlagEdge("tape")
  <2>1. PICK fs : ReturnLast("tape", it, 0, fs)
    BY <1>1, Zenon DEF FlagEdge
  <2>2. QED  BY <2>1, TapeIterator, ReturnLastReady
<1>2. CASE NoBlockEdge("tape")
  <2>1. Return("tape", [it EXCEPT !["tape"] = StartedAt(blocks, it["tape"], First(blocks))], 0,
               {"BLOCK", "STOP", "TAPE"})
    BY <1>2 DEF NoBlockEdge
  <2>2. First(blocks) = Null \/ On(blocks, First(blocks))
    BY NeighboursFound DEF Inv
  <2>3. "BLOCK" \in {"BLOCK", "STOP", "TAPE"} /\ {"current", "st"} \subseteq DOMAIN it.tape
        /\ "tape" \in DOMAIN it
    BY TapeIterator
  <2>4. QED  BY <2>1, <2>2, <2>3, StartedReturn, Zenon
<1>3. QED
  BY <1>1, <1>2, PulseReady, JumpReady, LoopReady, Zenon DEF NextEdge

----------------------------------------------------------------------------
(* Other calls, between edges.                                              *)

(* Place finds the first block with the id.                                  *)
LEMMA PlaceIsFirst ==
  ASSUME NEW list \in Seq(Entry), NEW id, NEW k \in 1..Len(list), list[k].id = id
  PROVE  Place(list, id) \in 1..k
<1> DEFINE I == {i \in 1..Len(list) : list[i].id = id}
<1>1. k \in I /\ I \in SUBSET Nat
  OBVIOUS
<1>2. Place(list, id) = Min(I)
  BY <1>1, Zenon DEF Place, SelectInSeq
<1>3. \E m \in I : \A j \in I : m <= j
  BY <1>1, LeastElement
<1>4. Min(I) \in I /\ \A j \in I : Min(I) <= j
  BY <1>3 DEF Min
<1>5. QED  BY <1>1, <1>2, <1>4

(* A block that is the first with its id in another list, too.               *)
LEMMA SameBlock ==
  ASSUME NEW s \in Seq(Entry), NEW t \in Seq(Entry), NEW id, On(s, id),
         NEW n \in 1..Len(t), t[n] = s[Place(s, id)],
         \A k \in 1..n - 1 : t[k].id # id
  PROVE  On(t, id) /\ BlockAt(t, id) = BlockAt(s, id)
<1>1. t[n].id = id
  BY PlaceProperties
<1>2. Place(t, id) \in 1..n
  BY <1>1, PlaceIsFirst
<1>3. On(t, id)
  BY <1>2 DEF On
<1>4. t[Place(t, id)].id = id
  BY <1>3, PlaceProperties
<1>5. Place(t, id) = n
  BY <1>2, <1>4
<1>6. QED  BY <1>3, <1>5 DEF BlockAt

(* The blocks before the first one with an id.                              *)
LEMMA NoneBefore ==
  ASSUME NEW s \in Seq(Entry), NEW id, On(s, id)
  PROVE  /\ Place(s, id) \in 1..Len(s) /\ s[Place(s, id)].id = id
         /\ \A k \in 1..Place(s, id) - 1 : s[k].id # id
<1>1. Place(s, id) \in 1..Len(s) /\ s[Place(s, id)].id = id
  BY PlaceProperties DEF On
<1>2. ASSUME NEW k \in 1..Place(s, id) - 1, s[k].id = id
      PROVE  FALSE
  <2>1. k \in 1..Len(s)
    BY <1>1
  <2>2. Place(s, id) \in 1..k
    BY <1>2, <2>1, PlaceIsFirst
  <2>3. QED  BY <1>1, <2>2
<1>3. QED  BY <1>1, <1>2

(* The block with an id stays it when blocks are put behind the list.        *)
LEMMA AppendedSame ==
  ASSUME NEW s \in Seq(Entry), NEW t \in Seq(Entry), NEW id, On(s, id)
  PROVE  On(s \o t, id) /\ BlockAt(s \o t, id) = BlockAt(s, id)
<1> DEFINE n == Place(s, id)  u == s \o t
<1>1. n \in 1..Len(s) /\ \A k \in 1..n - 1 : s[k].id # id
  BY NoneBefore
<1>2. /\ u \in Seq(Entry) /\ Len(u) = Len(s) + Len(t)
      /\ \A i \in 1..Len(s) : u[i] = s[i]
  <2>1. /\ s \o t \in Seq(Entry) /\ Len(s \o t) = Len(s) + Len(t)
        /\ \A i \in 1..Len(s) + Len(t) :
             (s \o t)[i] = IF i <= Len(s) THEN s[i] ELSE t[i - Len(s)]
    BY ConcatProperties
  <2>2. \A i \in 1..Len(s) : i \in 1..Len(s) + Len(t) /\ i <= Len(s)
    OBVIOUS
  <2>3. QED  BY <2>1, <2>2
<1> HIDE DEF u
<1>3. n \in 1..Len(u) /\ u[n] = s[n] /\ \A k \in 1..n - 1 : u[k].id # id
  <2>1. \A k \in 1..n - 1 : k \in 1..Len(s)
    BY <1>1
  <2>2. QED  BY <1>1, <1>2, <2>1
<1> HIDE DEF n
<1>4. On(u, id) /\ BlockAt(u, id) = BlockAt(s, id)
  BY <1>2, <1>3, SameBlock DEF n
<1>5. QED  BY <1>4 DEF u

(* When another one is put into the list.                                   *)
LEMMA InsertedSame ==
  ASSUME NEW s \in Seq(Entry), NEW i \in 1..Len(s) + 1, NEW e \in Entry,
         NEW id, id # e.id, On(s, id)
  PROVE  On(InsertAt(s, i, e), id) /\ BlockAt(InsertAt(s, i, e), id) = BlockAt(s, id)
<1> DEFINE a == SubSeq(s, 1, i - 1)  b == SubSeq(s, i, Len(s))
           m == Place(s, id)  t == InsertAt(s, i, e)
           n == IF m < i THEN m ELSE m + 1
<1>1. /\ t \in Seq(Entry) /\ Len(t) = Len(s) + 1
      /\ \A k \in 1..Len(s) + 1 : t[k] = IF k < i THEN s[k] ELSE IF k = i THEN e ELSE s[k - 1]
  <2>1. /\ t \in Seq(Entry) /\ Len(t) = Len(s) + 1
    BY InsertIds
  <2>2. t = (a \o <<e>>) \o b
    BY DEF InsertAt
  <2>3. /\ a \in Seq(Entry) /\ Len(a) = i - 1 /\ \A k \in 1..i - 1 : a[k] = s[k]
    <3>1. \A k \in 1..i - 1 : s[k] \in Entry
      OBVIOUS
    <3>2. QED  BY <3>1, SubSeqProperties
  <2>4. /\ b \in Seq(Entry) /\ Len(b) = Len(s) - i + 1
        /\ \A k \in 1..Len(s) - i + 1 : b[k] = s[i + k - 1]
    <3>1. \A k \in i..Len(s) : s[k] \in Entry
      OBVIOUS
    <3>2. QED  BY <3>1, SubSeqProperties
  <2> HIDE DEF a, b, t
  <2>5. <<e>> \in Seq(Entry) /\ Len(<<e>>) = 1 /\ <<e>>[1] = e
    OBVIOUS
  <2> DEFINE c == a \o <<e>>
  <2>6. /\ c \in Seq(Entry) /\ Len(c) = i
        /\ \A k \in 1..i : c[k] = IF k < i THEN s[k] ELSE e
    <3>1. /\ c \in Seq(Entry) /\ Len(c) = i - 1 + 1
          /\ \A k \in 1..i - 1 + 1 :
               c[k] = IF k <= i - 1 THEN a[k] ELSE <<e>>[k - (i - 1)]
      BY <2>3, <2>5, ConcatProperties
    <3>2. QED  BY <2>3, <2>5, <3>1
  <2> HIDE DEF c
  <2>7. \A k \in 1..Len(s) + 1 : t[k] = IF k <= i THEN c[k] ELSE b[k - i]
    <3>1. \A k \in 1..Len(c) + Len(b) : (c \o b)[k] = IF k <= Len(c) THEN c[k] ELSE b[k - Len(c)]
      BY <2>4, <2>6, ConcatProperties
    <3>2. QED  BY <2>2, <2>4, <2>6, <3>1 DEF c
  <2>8. ASSUME NEW k \in 1..Len(s) + 1
        PROVE  t[k] = IF k < i THEN s[k] ELSE IF k = i THEN e ELSE s[k - 1]
    <3>1. CASE k <= i
      BY <2>6, <2>7, <3>1
    <3>2. CASE ~(k <= i)
      <4>1. k - i \in 1..Len(s) - i + 1 /\ i + (k - i) - 1 = k - 1
        BY <3>2
      <4>2. b[k - i] = s[k - 1]
        BY <2>4, <4>1
      <4>3. QED  BY <2>7, <3>2, <4>2
    <3>3. QED  BY <3>1, <3>2
  <2>9. QED
    BY <2>1, <2>8
<1>2. m \in 1..Len(s) /\ \A k \in 1..m - 1 : s[k].id # id
  BY NoneBefore
<1> HIDE DEF t, m
<1>3. n \in 1..Len(t) /\ t[n] = s[m]
  BY <1>1, <1>2
<1>4. ASSUME NEW k \in 1..n - 1
      PROVE  t[k].id # id
  <2>1. k \in 1..Len(s) + 1 /\ t[k] = IF k < i THEN s[k] ELSE IF k = i THEN e ELSE s[k - 1]
    BY <1>1, <1>2
  <2>2. CASE k < i
    <3>1. k \in 1..m - 1
      BY <1>2, <2>2
    <3>2. QED  BY <1>2, <2>1, <2>2, <3>1
  <2>3. CASE k = i
    BY <2>1, <2>3
  <2>4. CASE k > i
    <3>1. k - 1 \in 1..m - 1
      BY <1>2, <2>4
    <3>2. QED  BY <1>2, <2>1, <2>4, <3>1
  <2>5. QED  BY <2>2, <2>3, <2>4
<1> HIDE DEF n
<1>5. On(t, id) /\ BlockAt(t, id) = BlockAt(s, id)
  BY <1>1, <1>3, <1>4, SameBlock DEF m
<1>6. QED  BY <1>5 DEF t

(* And when another one is taken out of it.                                 *)
LEMMA RemovedSame ==
  ASSUME NEW s \in Seq(Entry), NEW i \in 1..Len(s), NEW id, id # s[i].id, On(s, id)
  PROVE  On(RemoveAt(s, i), id) /\ BlockAt(RemoveAt(s, i), id) = BlockAt(s, id)
<1> DEFINE a == SubSeq(s, 1, i - 1)  b == SubSeq(s, i + 1, Len(s))
           m == Place(s, id)  t == RemoveAt(s, i)
           n == IF m < i THEN m ELSE m - 1
<1>1. /\ t \in Seq(Entry) /\ Len(t) = Len(s) - 1
      /\ \A k \in 1..Len(s) - 1 : t[k] = IF k < i THEN s[k] ELSE s[k + 1]
  <2>1. t \in Seq(Entry) /\ Len(t) = Len(s) - 1
    BY RemoveIds
  <2>2. t = a \o b
    BY DEF RemoveAt
  <2>3. a \in Seq(Entry) /\ Len(a) = i - 1 /\ \A k \in 1..i - 1 : a[k] = s[k]
    <3>1. \A k \in 1..i - 1 : s[k] \in Entry
      OBVIOUS
    <3>2. QED  BY <3>1, SubSeqProperties
  <2>4. /\ b \in Seq(Entry) /\ Len(b) = Len(s) - i
        /\ \A k \in 1..Len(s) - i : b[k] = s[i + k]
    <3>1. \A k \in i + 1..Len(s) : s[k] \in Entry
      OBVIOUS
    <3>2. /\ b \in Seq(Entry) /\ Len(b) = IF i + 1 <= Len(s) THEN Len(s) - (i + 1) + 1 ELSE 0
          /\ \A k \in 1..Len(s) - (i + 1) + 1 : b[k] = s[i + 1 + k - 1]
      BY <3>1, SubSeqProperties
    <3>3. QED  BY <3>2
  <2> HIDE DEF a, b, t
  <2>5. \A k \in 1..Len(s) - 1 : t[k] = IF k <= i - 1 THEN a[k] ELSE b[k - (i - 1)]
    <3>1. \A k \in 1..Len(a) + Len(b) : (a \o b)[k] = IF k <= Len(a) THEN a[k] ELSE b[k - Len(a)]
      BY <2>3, <2>4, ConcatProperties
    <3>2. QED  BY <2>2, <2>3, <2>4, <3>1
  <2>6. QED  BY <2>1, <2>3, <2>4, <2>5
<1>2. m \in 1..Len(s) /\ s[m].id = id /\ \A k \in 1..m - 1 : s[k].id # id
  BY NoneBefore
<1> HIDE DEF t, m
<1>3. m # i
  BY <1>2
<1>4. n \in 1..Len(t) /\ t[n] = s[m]
  BY <1>1, <1>2, <1>3
<1>5. \A k \in 1..n - 1 : t[k].id # id
  BY <1>1, <1>2
<1> HIDE DEF n
<1>6. On(t, id) /\ BlockAt(t, id) = BlockAt(s, id)
  BY <1>1, <1>4, <1>5, SameBlock DEF m
<1>7. QED  BY <1>6 DEF t

(* The list changed around the block that is played.                        *)
LEMMA EditReady ==
  ASSUME Playhead,
         On(blocks', it.tape.current) => On(blocks, it.tape.current),
         On(blocks, it.tape.current) =>
           /\ On(blocks', it.tape.current)
           /\ BlockAt(blocks', it.tape.current) = BlockAt(blocks, it.tape.current),
         it'.tape = it.tape, UNCHANGED heard
  PROVE  Playhead'
<1>1. Ready(blocks', it.tape, heard.inBlock)
  BY DEF Playhead, Ready
<1>2. QED  BY <1>1 DEF Playhead

(* libspectrum_tape_append_block: the first block of a tape that had none is *)
(* begun.                                                                   *)
LEMMA AppendReady ==
  ASSUME Inv, Playhead, PointersOnTape, OtherCall, NEW f, NEW n \in Nat \ {0},
         DOMAIN f = 1..n, \A i \in 1..n : f[i] \in Blocks, AppendBlocks(f), UNCHANGED heard
  PROVE  Playhead'
<1> DEFINE list == blocks \o WithIds(f)
<1>1. blocks \in Seq(Entry)
  BY DEF Inv
<1>2. WithIds(f) \in Seq(Entry)
  BY NewIds
<1>3. /\ blocks' = list
      /\ it' = IF it.tape.current # Null THEN it
               ELSE [it EXCEPT !.tape = StartedAt(list, it.tape, First(list))]
  BY DEF AppendBlocks
<1>4. list \in Seq(Entry)
  BY <1>1, <1>2, ConcatIds, Zenon
<1>5. CASE it.tape.current # Null
  <2>1. On(blocks, it.tape.current)
    BY <1>5 DEF PointersOnTape
  <2>2. On(list, it.tape.current)
        /\ BlockAt(list, it.tape.current) = BlockAt(blocks, it.tape.current)
    BY <1>1, <1>2, <2>1, AppendedSame
  <2>3. QED  BY <1>3, <1>5, <2>1, <2>2, EditReady
<1>6. CASE it.tape.current = Null
  <2> HIDE DEF list
  <2>1. First(list) = Null \/ On(list, First(list))
    BY <1>4, NeighboursFound
  <2>2. Ready(list, StartedAt(list, it.tape, First(list)), FALSE)
    BY <1>4, <2>1, TapeIterator, StartedReady
  <2>3. it'.tape = StartedAt(list, it.tape, First(list))
    BY <1>3, <1>6, TapeIterator
  <2>4. "inBlock" \in DOMAIN heard /\ ~heard.inBlock
    BY <1>1, <1>6, NullNotOn DEF Playhead, Ready
  <2>5. Ready(blocks', it'.tape, heard'.inBlock)
    BY <1>3, <2>2, <2>3, <2>4 DEF Ready
  <2>6. QED  BY <2>4, <2>5 DEF Playhead
<1>7. QED  BY <1>5, <1>6

(* libspectrum_tape_read and the calls that put a block into the list or     *)
(* take one out of it.                                                      *)
LEMMA EditCallReady ==
  ASSUME CarefulCaller, Inv, Playhead, PointersOnTape,
         \/ \E f \in Files : ReadFile(f)
         \/ \E b \in Insertable : AppendBlock(b)
         \/ \E b \in Insertable, position \in 0..Len(blocks) : InsertBlock(b, position)
         \/ \E i \in DOMAIN blocks : RemoveBlock(i)
  PROVE  Playhead'
<1>0. blocks \in Seq(Entry)
  BY DEF Inv
<1>1. ASSUME NEW f \in Files, ReadFile(f)
      PROVE  Playhead'
  <2>1. Len(f) \in Nat \ {0} /\ DOMAIN f = 1..Len(f)
    BY TapeAssumption
  <2>2. \A i \in 1..Len(f) : f[i] \in Blocks
    BY <2>1 DEF Blocks
  <2>3. OtherCall /\ AppendBlocks(f) /\ UNCHANGED heard
    BY <1>1 DEF ReadFile, Extended, Edited
  <2>4. QED  BY <2>1, <2>2, <2>3, AppendReady
<1>2. ASSUME NEW b \in Insertable, AppendBlock(b)
      PROVE  Playhead'
  <2>1. DOMAIN <<b>> = 1..1 /\ \A i \in 1..1 : <<b>>[i] \in Blocks
    BY DEF Blocks
  <2>2. OtherCall /\ AppendBlocks(<<b>>) /\ UNCHANGED heard /\ 1 \in Nat \ {0}
    BY <1>2 DEF AppendBlock, Extended, Edited
  <2>3. QED  BY <2>1, <2>2, AppendReady
<1>3. ASSUME NEW b \in Insertable, NEW position \in 0..Len(blocks), InsertBlock(b, position)
      PROVE  Playhead'
  <2> DEFINE e == WithIds(<<b>>)[1]
             list == InsertAt(blocks, position + 1, e)
  <2>1. blocks' = list /\ UNCHANGED <<it, heard>>
    BY <1>3 DEF InsertBlock, Edited
  <2>2. DOMAIN <<b>> = 1..1 /\ \A i \in 1..1 : <<b>>[i] \in Blocks
    BY DEF Blocks
  <2>3. /\ WithIds(<<b>>) \in Seq(Entry) /\ Len(WithIds(<<b>>)) = 1
        /\ Ids(WithIds(<<b>>)) \cap Used = {}
    BY <2>2, NewIds
  <2>4. e \in Entry /\ e.id \notin Used
    BY <2>3 DEF Ids
  <2>5. it.tape.current \in Used /\ position + 1 \in 1..Len(blocks) + 1
    BY <1>0 DEF Used
  <2> HIDE DEF e
  <2>6. list \in Seq(Entry) /\ Ids(list) = Ids(blocks) \cup {e.id}
    BY <1>0, <2>4, <2>5, InsertIds
  <2>7. On(blocks, it.tape.current) =>
          /\ On(list, it.tape.current)
          /\ BlockAt(list, it.tape.current) = BlockAt(blocks, it.tape.current)
    BY <1>0, <2>4, <2>5, InsertedSame
  <2> HIDE DEF list
  <2>8. On(list, it.tape.current) => On(blocks, it.tape.current)
    BY <1>0, <2>4, <2>5, <2>6, FoundById
  <2>9. QED  BY <2>1, <2>7, <2>8, EditReady
<1>4. ASSUME NEW i \in DOMAIN blocks, RemoveBlock(i)
      PROVE  Playhead'
  <2> DEFINE list == RemoveAt(blocks, i)
  <2>1. blocks' = list /\ UNCHANGED <<it, heard>> /\ blocks[i].id # it.tape.current
    BY <1>4 DEF RemoveBlock, Edited
  <2>2. i \in 1..Len(blocks)
    BY <1>0
  <2>3. list \in Seq(Entry) /\ Ids(list) \subseteq Ids(blocks)
    BY <1>0, <2>2, RemoveIds
  <2>4. On(blocks, it.tape.current) =>
          /\ On(list, it.tape.current)
          /\ BlockAt(list, it.tape.current) = BlockAt(blocks, it.tape.current)
    BY <1>0, <2>1, <2>2, RemovedSame
  <2> HIDE DEF list
  <2>5. On(list, it.tape.current) => On(blocks, it.tape.current)
    BY <1>0, <2>3, FoundById
  <2>6. QED  BY <2>1, <2>4, <2>5, EditReady
<1>5. QED  BY <1>1, <1>2, <1>3, <1>4, Zenon

(* libspectrum_tape_clear, _nth_block and _select_next_block.                *)
LEMMA MoveCallReady ==
  ASSUME Inv, Playhead, Clear \/ (\E i \in DOMAIN blocks : NthBlock(i)) \/ SelectNextBlock
  PROVE  Playhead'
<1>0. blocks \in Seq(Entry)
  BY DEF Inv
<1>1. CASE Clear
  <2> DEFINE none == NoState
             x == [it.tape EXCEPT !.current = Null, !.st = none]
  <2>1. /\ blocks' = <<>> /\ heard' = Silence(heard.level)
        /\ it' = [it EXCEPT !.tape.current = Null, !.tape.st = none]
    BY <1>1 DEF Clear
  <2> HIDE DEF none
  <2>2. it'.tape = x
    BY <2>1, TapeIterator
  <2>3. "st" \in DOMAIN x /\ x.current = Null
    BY TapeIterator
  <2> HIDE DEF x
  <2>4. "inBlock" \in DOMAIN heard' /\ heard'.inBlock = FALSE
    BY <2>1 DEF Silence
  <2>5. <<>> \in Seq(Entry)
    OBVIOUS
  <2>6. Ready(<<>>, x, FALSE)
    BY <2>3, <2>5, NullNotOn DEF Ready
  <2>7. QED  BY <2>1, <2>2, <2>4, <2>6 DEF Playhead
<1>2. ASSUME NEW id, id = Null \/ On(blocks, id), UNCHANGED blocks,
             it' = [it EXCEPT !.tape = StartedAt(blocks, it.tape, id)],
             NEW newOrder, Interrupted(newOrder)
      PROVE  Playhead'
  <2>1. it'.tape = StartedAt(blocks, it.tape, id)
    BY <1>2, TapeIterator
  <2>2. "inBlock" \in DOMAIN heard' /\ heard'.inBlock = FALSE
    BY <1>2 DEF Interrupted, Playhead
  <2>3. Ready(blocks, StartedAt(blocks, it.tape, id), FALSE)
    BY <1>0, <1>2, TapeIterator, StartedReady
  <2>4. QED  BY <1>2, <2>1, <2>2, <2>3 DEF Playhead
<1>3. ASSUME NEW i \in DOMAIN blocks, NthBlock(i)
      PROVE  Playhead'
  <2> DEFINE id == blocks[i].id
  <2>1. /\ it' = [it EXCEPT !.tape = StartedAt(blocks, it.tape, id)] /\ UNCHANGED blocks
        /\ Interrupted(IF i = 1 THEN <<>> ELSE Lost)
    BY <1>3 DEF NthBlock
  <2>2. On(blocks, id)
    BY <1>0, FoundById DEF Ids
  <2> HIDE DEF id
  <2>3. QED  BY <1>2, <2>1, <2>2, Zenon
<1>4. CASE SelectNextBlock
  <2> DEFINE next == After(blocks, it.tape.current)
             id == IF next = Null THEN First(blocks) ELSE next
  <2>1. /\ it' = [it EXCEPT !.tape = StartedAt(blocks, it.tape, id)] /\ UNCHANGED blocks
        /\ Interrupted(IF id = First(blocks) THEN <<>> ELSE Lost)
    BY <1>4 DEF SelectNextBlock
  <2>2. id = Null \/ On(blocks, id)
    BY <1>0, NeighboursFound
  <2> HIDE DEF id
  <2>3. QED  BY <1>2, <2>1, <2>2, Zenon
<1>5. QED  BY <1>1, <1>3, <1>4

(* libspectrum_tape_set_state: the block goes on at its pause.               *)
LEMMA FlashLoadReady ==
  ASSUME Inv, Playhead, FlashLoad
  PROVE  Playhead'
<1> DEFINE st == [it.tape.st EXCEPT !.state = "PAUSE"]
           x == [it.tape EXCEPT !.st = st]
           b == BlockAt(blocks, it.tape.current)
<1>1. /\ it' = [it EXCEPT !.tape.st.state = "PAUSE"] /\ UNCHANGED blocks
      /\ heard' = [heard EXCEPT !.whole = FALSE, !.inBlock = TRUE]
      /\ On(blocks, it.tape.current) /\ b.type \in {"ROM", "TURBO", "PURE_DATA", "RAW_DATA"}
  BY DEF FlashLoad, Playing
<1>2. it'.tape = x
  BY <1>1, TapeIterator
<1>3. LoaderSound(b, st)
  BY <1>1 DEF Playhead, Ready, LoaderSound, LoaderStates
<1> HIDE DEF st
<1>4. "st" \in DOMAIN x /\ x.st = st /\ x.current = it.tape.current
  BY TapeIterator
<1> HIDE DEF x
<1>5. "inBlock" \in DOMAIN heard' /\ heard'.inBlock = TRUE
  BY <1>1 DEF Playhead
<1>6. Ready(blocks, x, TRUE)
  BY <1>1, <1>3, <1>4 DEF Ready, PulseBlocks
<1>7. QED  BY <1>1, <1>2, <1>5, <1>6 DEF Playhead

(* A step keeps what the iterator says of the block it plays.                *)
LEMMA PlayheadStep ==
  ASSUME CarefulCaller, Inv, PointersOnTape, NoJumpWritten, Playhead, [Next]_vars
  PROVE  Playhead'
<1>1. ASSUME it'.tape = it.tape, UNCHANGED <<blocks, heard>>
      PROVE  Playhead'
  BY <1>1, EditReady
<1>2. CASE UNCHANGED vars
  BY <1>1, <1>2 DEF vars, history
<1>3. CASE Next /\ writing
  <2>1. NextEdge("csw")
    BY <1>3, WriterAlone
  <2>2. it'.tape = it.tape /\ UNCHANGED heard
    BY <1>3, <2>1, CswEdgeLeaves
  <2>3. EdgeKeeps
    BY <2>1, EdgeStep DEF Players
  <2>4. QED  BY <1>1, <2>2, <2>3 DEF EdgeKeeps
<1>4. CASE NextEdge("tape")
  BY <1>4, TapeEdgeReady
<1>5. CASE WriteStart
  <2>1. UNCHANGED <<blocks, heard>> /\ it'.tape = it.tape
    BY <1>5, WriteStartKeeps DEF WriteStart, history
  <2>2. QED  BY <1>1, <2>1
<1>6. CASE UserCall
  BY <1>5, <1>6, EditCallReady, MoveCallReady, FlashLoadReady, Zenon DEF UserCall
<1>7. CASE NextEdge("csw") /\ ~writing
  <2>1. Plays("csw")
    BY <1>7, Zenon DEF NextEdge, PulseEdge, JumpEdge, JumpError, LoopStartEdge, LoopAgain,
       LoopEndEdge, FlagEdge, NoBlockEdge, Playing
  <2>2. QED  BY <1>7, <2>1 DEF Plays
<1>8. QED  BY <1>2, <1>3, <1>4, <1>6, <1>7 DEF Next

(* When the next edge begins a block, the state of the union is that block's *)
(* initial state, for callers who do not remove the block that is played:    *)
(* however the tape came to it, and whatever type of block left the union    *)
(* before (tape.c: libspectrum_tape_get_next_edge_internal and every call    *)
(* that sets current_block).                                                *)
THEOREM BlocksBegun ==
  ASSUME CarefulCaller
  PROVE  Spec => []BlocksBeginFresh
<1>1. Init => Playhead
  <2> SUFFICES ASSUME Init PROVE Playhead
    OBVIOUS
  <2>1. blocks = <<>> /\ it.tape = Idle /\ heard = Silence(0)
    BY DEF Init
  <2>2. "st" \in DOMAIN Idle /\ Idle.current = Null
    BY DEF Idle
  <2>3. "inBlock" \in DOMAIN heard /\ heard.inBlock = FALSE
    BY <2>1 DEF Silence
  <2>4. ~On(blocks, Null)
    BY <2>1, InitKeeps, NullNotOn DEF Inv
  <2>5. QED  BY <2>1, <2>2, <2>3, <2>4 DEF Playhead, Ready
<1>2. Inv /\ PointersOnTape /\ NoJumpWritten /\ Playhead /\ [Next]_vars => Playhead'
  BY PlayheadStep
<1>3. Playhead => BlocksBeginFresh
  BY DEF Playhead, Ready, BlocksBeginFresh
<1>4. Spec => []PointersOnTape
  BY PointersKept
<1>5. Spec => []NoJumpWritten
  BY NoJumpKept
<1>6. QED  BY <1>1, <1>2, <1>3, <1>4, <1>5, Invariance, PTL DEF Spec

=============================================================================
