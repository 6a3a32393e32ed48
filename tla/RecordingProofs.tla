-------------------------- MODULE RecordingProofs --------------------------
(***************************************************************************)
(* A recording is what was recorded: rzx.c implements Recording, and plays  *)
(* the bytes of the current frame.                                          *)
(*                                                                         *)
(* The invariant adds to that of RzxProofs what the blocks and the file     *)
(* contain: no run begins with a repetition, a repetition has no bytes of   *)
(* its own, and no frame has as many bytes as the count that marks one.     *)
(***************************************************************************)
EXTENDS RzxProofs

Whole(frames) ==
  /\ frames \in Seq(Frame)
  /\ frames # <<>> => ~frames[1].repeat_last
  /\ \A i \in DOMAIN frames :
       IF frames[i].repeat_last THEN frames[i].in = <<>> ELSE Len(frames[i].in) < RepeatFrame

InputBlocks ==
  [id : Nat \ {Null}, type : {"INPUT"}, tstates : Nat, frames : Seq(Frame),
   non_repeat : Nat \union {Garbage}]

SnapBlocks == [id : Nat \ {Null}, type : {"SNAP"}, snap : Snaps, automatic : BOOLEAN]

SignBlocks == [id : Nat \ {Null}, type : {"SIGN"}]

GoodBlock(b) ==
  \/ b \in InputBlocks /\ Whole(b.frames)
  \/ b \in SnapBlocks
  \/ b \in SignBlocks

GoodStored(w) ==
  /\ w \in StoredBlock
  /\ w.type = "INPUT" /\ w.frames # <<>> => w.frames[1].count # RepeatFrame

Content ==
  /\ \A i \in DOMAIN blocks : GoodBlock(blocks[i])
  /\ \A i \in DOMAIN file : GoodStored(file[i])

Counters ==
  /\ current_frame \in Nat /\ data_frame \in Nat /\ in_count \in Nat
  /\ role \in {"recorder", "player"}

IInv == Inv /\ Content /\ Counters /\ PlaysCurrentFrame

----------------------------------------------------------------------------
(* Lists.                                                                   *)

(* Two lists with the same members are the same.                            *)
LEMMA SameList ==
  ASSUME NEW a, IsList(a), NEW b, IsList(b), Len(a) = Len(b),
         \A i \in 1..Len(a) : a[i] = b[i]
  PROVE  a = b
<1>1. PICK S : a \in Seq(S)
  BY DEF IsList
<1>2. PICK R : b \in Seq(R)
  BY DEF IsList
<1>3. a \in Seq(S \cup R) /\ b \in Seq(S \cup R)
  BY <1>1, <1>2
<1>4. QED  BY <1>3, SeqEqual, Zenon

(* A list with one more member at its end.                                  *)
LEMMA AppendShape ==
  ASSUME NEW list, IsList(list), NEW b
  PROVE  /\ IsList(Append(list, b)) /\ Len(Append(list, b)) = Len(list) + 1
         /\ \A i \in 1..Len(list) : Append(list, b)[i] = list[i]
         /\ Append(list, b)[Len(list) + 1] = b
<1>1. PICK S : list \in Seq(S)
  BY DEF IsList
<1>2. list \in Seq(S \cup {b}) /\ b \in S \cup {b}
  BY <1>1
<1>3. Append(list, b) \in Seq(S \cup {b})
  BY <1>2
<1>4. QED  BY <1>2, <1>3 DEF IsList

(* Two lists, one behind the other.                                         *)
LEMMA ConcatShape ==
  ASSUME NEW list, IsList(list), NEW more, IsList(more)
  PROVE  /\ IsList(list \o more) /\ Len(list \o more) = Len(list) + Len(more)
         /\ \A i \in 1..Len(list) + Len(more) :
              (list \o more)[i] = IF i <= Len(list) THEN list[i] ELSE more[i - Len(list)]
<1>1. PICK S : list \in Seq(S)
  BY DEF IsList
<1>2. PICK R : more \in Seq(R)
  BY DEF IsList
<1>3. list \in Seq(S \cup R) /\ more \in Seq(S \cup R)
  BY <1>1, <1>2
<1>4. list \o more \in Seq(S \cup R)
  BY <1>3
<1>5. QED  BY <1>3, <1>4 DEF IsList

(* A part of a list.                                                        *)
LEMMA SliceShape ==
  ASSUME NEW list, IsList(list), NEW m \in 1..Len(list) + 1, NEW n \in m - 1..Len(list)
  PROVE  /\ IsList(SubSeq(list, m, n)) /\ Len(SubSeq(list, m, n)) = n - m + 1
         /\ \A i \in 1..n - m + 1 : SubSeq(list, m, n)[i] = list[m + i - 1]
<1>1. DOMAIN list = 1..Len(list) /\ Len(list) \in Nat
  BY ListShape
<1> DEFINE new == SubSeq(list, m, n)
<1>2. new = [i \in 1..n - m + 1 |-> list[m + i - 1]] /\ n - m + 1 \in Nat
  BY <1>1 DEF SubSeq
<1> HIDE DEF new
<1>3. /\ \A i \in 1..n - m + 1 : new[i] = list[m + i - 1]
      /\ new = [i \in 1..n - m + 1 |-> new[i]]
  BY <1>2
<1>4. IsList(new) /\ Len(new) = n - m + 1
  BY <1>2, <1>3, Function, Zenon
<1>5. QED  BY <1>3, <1>4 DEF new

(* A list with one more member at a place.                                  *)
LEMMA InsertShape ==
  ASSUME NEW list, IsList(list), NEW k \in 1..Len(list) + 1, NEW b
  PROVE  /\ IsList(InsertAt(list, k, b)) /\ Len(InsertAt(list, k, b)) = Len(list) + 1
         /\ \A i \in 1..Len(list) + 1 :
              InsertAt(list, k, b)[i] =
                IF i < k THEN list[i] ELSE IF i = k THEN b ELSE list[i - 1]
<1>1. DOMAIN list = 1..Len(list) /\ Len(list) \in Nat
  BY ListShape
<1> DEFINE A == SubSeq(list, 1, k - 1)
           B == SubSeq(list, k, Len(list))
<1>2. /\ IsList(A) /\ Len(A) = k - 1 /\ \A i \in 1..k - 1 : A[i] = list[i]
  <2>1. 1 \in 1..Len(list) + 1 /\ k - 1 \in 1 - 1..Len(list) /\ k - 1 - 1 + 1 = k - 1
        /\ \A i \in 1..k - 1 : 1 + i - 1 = i
    BY <1>1
  <2>2. IsList(A) /\ Len(A) = k - 1 - 1 + 1 /\ \A i \in 1..k - 1 - 1 + 1 : A[i] = list[1 + i - 1]
    BY <2>1, SliceShape, Zenon
  <2> HIDE DEF A
  <2>3. QED  BY <2>1, <2>2
<1>3. /\ IsList(B) /\ Len(B) = Len(list) - k + 1
      /\ \A i \in 1..Len(list) - k + 1 : B[i] = list[k + i - 1]
  <2>1. Len(list) \in k - 1..Len(list)
    BY <1>1
  <2>2. QED  BY <2>1, SliceShape, Zenon
<1>4. InsertAt(list, k, b) = (A \o <<b>>) \o B
  BY DEF InsertAt
<1> HIDE DEF A, B
<1>5. IsList(<<b>>) /\ Len(<<b>>) = 1 /\ <<b>>[1] = b
  <2>1. <<b>> \in Seq({b}) /\ Len(<<b>>) = 1 /\ <<b>>[1] = b
    OBVIOUS
  <2>2. QED  BY <2>1 DEF IsList
<1> DEFINE C == A \o <<b>>
<1>6. /\ IsList(C) /\ Len(C) = Len(A) + Len(<<b>>)
      /\ \A i \in 1..Len(A) + Len(<<b>>) : C[i] = IF i <= Len(A) THEN A[i] ELSE <<b>>[i - Len(A)]
  BY <1>2, <1>5, ConcatShape, Zenon
<1> HIDE DEF C
<1>7. Len(C) = k /\ \A i \in 1..k : C[i] = IF i < k THEN list[i] ELSE b
  BY <1>1, <1>2, <1>5, <1>6
<1>8. /\ IsList(C \o B) /\ Len(C \o B) = Len(C) + Len(B)
      /\ \A i \in 1..Len(C) + Len(B) : (C \o B)[i] = IF i <= Len(C) THEN C[i] ELSE B[i - Len(C)]
  BY <1>3, <1>6, ConcatShape, Zenon
<1>9. Len(C) + Len(B) = Len(list) + 1
  BY <1>1, <1>3, <1>7
<1>10. ASSUME NEW i \in 1..Len(list) + 1
       PROVE  (C \o B)[i] = IF i < k THEN list[i] ELSE IF i = k THEN b ELSE list[i - 1]
  <2>1. (C \o B)[i] = IF i <= k THEN C[i] ELSE B[i - k]
    BY <1>7, <1>8, <1>9
  <2> DEFINE D == C \o B
  <2> HIDE DEF D
  <2>2. CASE i <= k
    BY <1>1, <1>7, <2>1, <2>2
  <2>3. CASE i > k
    <3>1. i - k \in 1..Len(list) - k + 1 /\ k + (i - k) - 1 = i - 1 /\ ~(i <= k)
      BY <1>1, <2>3
    <3>2. B[i - k] = list[i - 1]
      BY <1>3, <3>1
    <3>3. QED  BY <1>1, <2>1, <2>3, <3>1, <3>2
  <2>4. i <= k \/ i > k
    BY <1>1
  <2>5. QED  BY <2>2, <2>3, <2>4, Zenon
<1> DEFINE D == C \o B
<1>11. InsertAt(list, k, b) = D
  BY <1>4 DEF C
<1>12. /\ IsList(D) /\ Len(D) = Len(list) + 1
       /\ \A i \in 1..Len(list) + 1 :
            D[i] = IF i < k THEN list[i] ELSE IF i = k THEN b ELSE list[i - 1]
  BY <1>8, <1>9, <1>10
<1> HIDE DEF D
<1>13. QED  BY <1>11, <1>12

(* A list without the member at a place.                                    *)
LEMMA RemoveShape ==
  ASSUME NEW list, IsList(list), NEW k \in 1..Len(list)
  PROVE  /\ IsList(RemoveAt(list, k)) /\ Len(RemoveAt(list, k)) = Len(list) - 1
         /\ \A i \in 1..Len(list) - 1 :
              RemoveAt(list, k)[i] = IF i < k THEN list[i] ELSE list[i + 1]
<1>1. DOMAIN list = 1..Len(list) /\ Len(list) \in Nat
  BY ListShape
<1> DEFINE A == SubSeq(list, 1, k - 1)
           B == SubSeq(list, k + 1, Len(list))
<1>2. /\ IsList(A) /\ Len(A) = k - 1 /\ \A i \in 1..k - 1 : A[i] = list[i]
  <2>1. 1 \in 1..Len(list) + 1 /\ k - 1 \in 1 - 1..Len(list) /\ k - 1 - 1 + 1 = k - 1
        /\ \A i \in 1..k - 1 : 1 + i - 1 = i
    BY <1>1
  <2>2. IsList(A) /\ Len(A) = k - 1 - 1 + 1 /\ \A i \in 1..k - 1 - 1 + 1 : A[i] = list[1 + i - 1]
    BY <2>1, SliceShape, Zenon
  <2> HIDE DEF A
  <2>3. QED  BY <2>1, <2>2
<1>3. /\ IsList(B) /\ Len(B) = Len(list) - k
      /\ \A i \in 1..Len(list) - k : B[i] = list[k + i]
  <2>1. k + 1 \in 1..Len(list) + 1 /\ Len(list) \in (k + 1) - 1..Len(list)
        /\ Len(list) - (k + 1) + 1 = Len(list) - k /\ \A i \in 1..Len(list) - k : (k + 1) + i - 1 = k + i
    BY <1>1
  <2>2. /\ IsList(B) /\ Len(B) = Len(list) - (k + 1) + 1
        /\ \A i \in 1..Len(list) - (k + 1) + 1 : B[i] = list[(k + 1) + i - 1]
    <3> DEFINE m == k + 1  n == Len(list)
    <3>1. m \in 1..Len(list) + 1 /\ n \in m - 1..Len(list)
      BY <2>1
    <3> HIDE DEF m, n
    <3>2. /\ IsList(SubSeq(list, m, n)) /\ Len(SubSeq(list, m, n)) = n - m + 1
          /\ \A i \in 1..n - m + 1 : SubSeq(list, m, n)[i] = list[m + i - 1]
      BY <3>1, SliceShape, Zenon
    <3>3. QED  BY <3>2 DEF m, n
  <2> HIDE DEF B
  <2>3. ASSUME NEW i \in 1..Len(list) - k
        PROVE  B[i] = list[k + i]
    BY <2>1, <2>2, <2>3, Zenon
  <2>4. QED  BY <2>1, <2>2, <2>3, Zenon
<1>4. RemoveAt(list, k) = A \o B
  BY DEF RemoveAt
<1> HIDE DEF A, B
<1>5. /\ IsList(A \o B) /\ Len(A \o B) = Len(A) + Len(B)
      /\ \A i \in 1..Len(A) + Len(B) : (A \o B)[i] = IF i <= Len(A) THEN A[i] ELSE B[i - Len(A)]
  BY <1>2, <1>3, ConcatShape, Zenon
<1>6. Len(A) + Len(B) = Len(list) - 1
  BY <1>1, <1>2, <1>3
<1>7. ASSUME NEW i \in 1..Len(list) - 1
      PROVE  (A \o B)[i] = IF i < k THEN list[i] ELSE list[i + 1]
  <2>1. (A \o B)[i] = IF i <= k - 1 THEN A[i] ELSE B[i - (k - 1)]
    BY <1>2, <1>5, <1>6
  <2>2. CASE i < k
    BY <1>1, <1>2, <2>1, <2>2
  <2>3. CASE i >= k
    <3>1. i - (k - 1) \in 1..Len(list) - k /\ k + (i - (k - 1)) = i + 1 /\ ~(i <= k - 1)
      BY <1>1, <2>3
    <3>2. B[i - (k - 1)] = list[i + 1]
      BY <1>3, <3>1
    <3>3. QED  BY <1>1, <2>1, <2>3, <3>1, <3>2
  <2>4. i < k \/ i >= k
    BY <1>1
  <2>5. QED  BY <2>2, <2>3, <2>4, Zenon
<1> DEFINE D == A \o B
<1>8. /\ IsList(D) /\ Len(D) = Len(list) - 1
      /\ \A i \in 1..Len(list) - 1 : D[i] = IF i < k THEN list[i] ELSE list[i + 1]
  BY <1>5, <1>6, <1>7
<1>9. RemoveAt(list, k) = D
  BY <1>4
<1> HIDE DEF D
<1>10. QED  BY <1>8, <1>9

----------------------------------------------------------------------------
(* Blocks.                                                                  *)

(* The fields of a block are what BlockOK says.                             *)
LEMMA GoodIsOK ==
  ASSUME NEW b, GoodBlock(b)
  PROVE  BlockOK(b) /\ b.id \in Nat \ {Null}
<1>1. CASE b \in InputBlocks /\ Whole(b.frames)
  <2>1. /\ b.type = "INPUT" /\ b.tstates \in Nat /\ b.frames \in Seq(Frame)
        /\ b.non_repeat \in Nat \union {Garbage} /\ b.id \in Nat \ {Null}
    BY <1>1 DEF InputBlocks
  <2>2. \A i \in DOMAIN b.frames : b.frames[i].repeat_last => b.frames[i].in = <<>>
    BY <1>1, Zenon DEF Whole
  <2>3. QED  BY <2>1, <2>2, Zenon DEF BlockOK, IsInput
<1>2. CASE b \in SnapBlocks
  BY <1>2 DEF SnapBlocks, BlockOK, IsSnapshot
<1>3. CASE b \in SignBlocks
  BY <1>3 DEF SignBlocks, BlockOK
<1>4. QED  BY <1>1, <1>2, <1>3 DEF GoodBlock

(* An input block is one of the first kind.                                 *)
LEMMA GoodInput ==
  ASSUME NEW b, GoodBlock(b), IsInput(b)
  PROVE  b \in InputBlocks /\ Whole(b.frames)
BY DEF GoodBlock, SnapBlocks, SignBlocks, IsInput

(* The blocks that the recorder makes.                                      *)
LEMMA NewBlocks ==
  ASSUME NEW id \in Nat \ {Null}
  PROVE  /\ \A t \in Tstates : GoodBlock(InputBlock(id, t, <<>>, 0))
         /\ \A s \in Snaps, automatic \in BOOLEAN : GoodBlock(SnapBlock(id, s, automatic))
<1>1. Whole(<<>>) /\ <<>> \in Seq(Frame)
  <2>1. <<>> \in Seq(Frame) /\ DOMAIN <<>> = {}
    OBVIOUS
  <2>2. QED  BY <2>1 DEF Whole
<1>2. ASSUME NEW t \in Tstates
      PROVE  GoodBlock(InputBlock(id, t, <<>>, 0))
  <2>1. t \in Nat
    BY RzxAssumption
  <2>2. InputBlock(id, t, <<>>, 0) \in InputBlocks /\ InputBlock(id, t, <<>>, 0).frames = <<>>
    BY <1>1, <2>1 DEF InputBlock, InputBlocks
  <2>3. QED  BY <1>1, <2>2 DEF GoodBlock
<1>3. ASSUME NEW s \in Snaps, NEW automatic \in BOOLEAN
      PROVE  GoodBlock(SnapBlock(id, s, automatic))
  <2>1. SnapBlock(id, s, automatic) \in SnapBlocks
    BY DEF SnapBlock, SnapBlocks
  <2>2. QED  BY <2>1, Zenon DEF GoodBlock
<1>4. QED  BY <1>2, <1>3

(* The frames of a file, as they are read.                                  *)
LEMMA FramesRead ==
  ASSUME NEW frames \in Seq(StoredFrame), frames # <<>> => frames[1].count # RepeatFrame
  PROVE  /\ Whole([i \in DOMAIN frames |-> ReadFrame(frames[i])])
         /\ Len([i \in DOMAIN frames |-> ReadFrame(frames[i])]) = Len(frames)
<1> DEFINE new == [i \in DOMAIN frames |-> ReadFrame(frames[i])]
<1>1. Len(frames) \in Nat /\ DOMAIN frames = 1..Len(frames)
  OBVIOUS
<1>2. ASSUME NEW f \in StoredFrame
      PROVE  /\ ReadFrame(f) \in Frame
             /\ ReadFrame(f).repeat_last <=> f.count = RepeatFrame
             /\ IF ReadFrame(f).repeat_last THEN ReadFrame(f).in = <<>>
                ELSE Len(ReadFrame(f).in) < RepeatFrame
  <2>1. /\ f.instructions \in 0..RepeatFrame /\ f.count \in 0..RepeatFrame /\ f.in \in Seq(Nat)
        /\ IF f.count = RepeatFrame THEN f.in = <<>> ELSE f.count = Len(f.in)
    BY DEF StoredFrame
  <2>2. RepeatFrame \in Nat
    BY RzxAssumption
  <2>3. CASE f.count = RepeatFrame
    <3>1. <<>> \in Seq(Nat)
      OBVIOUS
    <3>2. QED  BY <2>1, <2>3, <3>1 DEF ReadFrame, Frame
  <2>4. CASE f.count # RepeatFrame
    BY <2>1, <2>2, <2>4 DEF ReadFrame, Frame
  <2>5. QED  BY <2>3, <2>4
<1>3. \A i \in 1..Len(frames) : frames[i] \in StoredFrame
  OBVIOUS
<1>4. new \in Seq(Frame) /\ Len(new) = Len(frames) /\ DOMAIN new = 1..Len(frames)
  <2>1. new \in [1..Len(frames) -> Frame]
    BY <1>1, <1>2, <1>3
  <2>2. QED  BY <1>1, <2>1
<1>5. \A i \in 1..Len(frames) : new[i] = ReadFrame(frames[i])
  BY <1>1
<1> HIDE DEF new
<1>6. new # <<>> => ~new[1].repeat_last
  <2>1. new # <<>> => Len(frames) >= 1 /\ frames # <<>>
    BY <1>1, <1>4
  <2>2. QED  BY <1>1, <1>2, <1>3, <1>5, <2>1
<1>7. \A i \in DOMAIN new :
        IF new[i].repeat_last THEN new[i].in = <<>> ELSE Len(new[i].in) < RepeatFrame
  BY <1>2, <1>3, <1>4, <1>5
<1>8. QED  BY <1>4, <1>6, <1>7 DEF Whole, new

(* The blocks of a file, as they are read.                                  *)
LEMMA BlockRead ==
  ASSUME NEW id \in Nat \ {Null}, NEW w, GoodStored(w), w.type \notin {"CREATOR", "LINK"}
  PROVE  GoodBlock(ReadBlock(id, w)) /\ ReadBlock(id, w).id = id
<1>1. CASE w.type = "INPUT"
  <2>1. w.tstates \in Nat /\ w.frames \in Seq(StoredFrame)
    BY <1>1 DEF GoodStored, StoredBlock
  <2> DEFINE frames == [i \in DOMAIN w.frames |-> ReadFrame(w.frames[i])]
  <2>2. Whole(frames)
    BY <1>1, <2>1, FramesRead DEF GoodStored
  <2> HIDE DEF frames
  <2>3. InputBlock(id, w.tstates, frames, Garbage) \in InputBlocks
    BY <2>1, <2>2 DEF InputBlock, InputBlocks, Whole
  <2>4. ReadBlock(id, w) = InputBlock(id, w.tstates, frames, Garbage)
    BY <1>1 DEF ReadBlock, frames
  <2>5. QED  BY <2>2, <2>3, <2>4 DEF GoodBlock, InputBlock
<1>2. CASE w.type = "SNAP"
  <2>1. w.snap \in Snaps
    BY <1>2 DEF GoodStored, StoredBlock
  <2>2. ReadBlock(id, w) = SnapBlock(id, w.snap, FALSE)
    BY <1>2 DEF ReadBlock
  <2>3. GoodBlock(SnapBlock(id, w.snap, FALSE)) /\ SnapBlock(id, w.snap, FALSE).id = id
    <3>1. FALSE \in BOOLEAN /\ SnapBlock(id, w.snap, FALSE).id = id
      BY DEF SnapBlock
    <3>2. QED  BY <2>1, <3>1, NewBlocks, Zenon
  <2>4. QED  BY <2>2, <2>3, Zenon
<1>3. CASE w.type = "SIGN"
  <2>1. ReadBlock(id, w) = [id |-> id, type |-> "SIGN"]
    BY <1>3 DEF ReadBlock
  <2>2. QED  BY <2>1 DEF SignBlocks, GoodBlock
<1>4. w.type \in {"INPUT", "SNAP", "SIGN"}
  BY DEF GoodStored, StoredBlock
<1>5. QED  BY <1>1, <1>2, <1>3, <1>4, Zenon

(* The frames of two runs, one behind the other.                            *)
LEMMA FramesJoined ==
  ASSUME NEW f, Whole(f), NEW g, Whole(g)
  PROVE  /\ Whole(f \o g) /\ Len(f \o g) = Len(f) + Len(g)
         /\ DOMAIN (f \o g) = 1..Len(f) + Len(g)
         /\ \A i \in 1..Len(f) + Len(g) :
              (f \o g)[i] = IF i <= Len(f) THEN f[i] ELSE g[i - Len(f)]
<1> DEFINE frames == f \o g
<1>1. f \in Seq(Frame) /\ g \in Seq(Frame)
  BY DEF Whole
<1>2. /\ frames \in Seq(Frame) /\ Len(frames) = Len(f) + Len(g)
      /\ \A i \in 1..Len(f) + Len(g) : frames[i] = IF i <= Len(f) THEN f[i] ELSE g[i - Len(f)]
  BY <1>1, ConcatProperties, Zenon
<1> HIDE DEF frames
<1>3. /\ Len(f) \in Nat /\ Len(g) \in Nat /\ DOMAIN f = 1..Len(f) /\ DOMAIN g = 1..Len(g)
      /\ DOMAIN frames = 1..Len(f) + Len(g)
  BY <1>1, <1>2
<1>4. ASSUME NEW i \in 1..Len(f) + Len(g)
      PROVE  /\ IF frames[i].repeat_last THEN frames[i].in = <<>>
                ELSE Len(frames[i].in) < RepeatFrame
             /\ i = 1 => ~frames[i].repeat_last
  <2>1. CASE i <= Len(f)
    <3>1. i \in DOMAIN f /\ frames[i] = f[i] /\ f # <<>>
      BY <1>1, <1>2, <1>3, <2>1
    <3>2. QED  BY <3>1, Zenon DEF Whole
  <2>2. CASE i > Len(f)
    <3>1. i - Len(f) \in 1..Len(g) /\ ~(i <= Len(f)) /\ (i = 1 => i - Len(f) = 1)
      BY <1>3, <2>2
    <3>2. i - Len(f) \in DOMAIN g /\ frames[i] = g[i - Len(f)]
      BY <1>2, <1>3, <3>1
    <3>3. g # <<>>
      BY <1>1, <1>3, <3>1
    <3>4. QED  BY <3>1, <3>2, <3>3, Zenon DEF Whole
  <2>3. i <= Len(f) \/ i > Len(f)
    BY <1>3
  <2>4. QED  BY <2>1, <2>2, <2>3, Zenon
<1>5. Whole(frames)
  <2>1. frames # <<>> => 1 \in 1..Len(f) + Len(g)
    BY <1>2, <1>3
  <2>2. QED  BY <1>2, <1>3, <1>4, <2>1, Zenon DEF Whole
<1>6. QED  BY <1>2, <1>3, <1>5 DEF frames

(* Two input blocks become one.                                             *)
LEMMA MergeGood ==
  ASSUME NEW a, GoodBlock(a), IsInput(a), NEW b, GoodBlock(b), IsInput(b)
  PROVE  /\ GoodBlock(Merge(a, b)) /\ IsInput(Merge(a, b))
         /\ Merge(a, b).frames = a.frames \o b.frames
         /\ Merge(a, b).tstates = a.tstates /\ Merge(a, b).id = a.id
<1>1. a \in InputBlocks /\ Whole(a.frames) /\ b \in InputBlocks /\ Whole(b.frames)
  BY GoodInput
<1> DEFINE frames == a.frames \o b.frames
           n == IF b.non_repeat = Garbage THEN Garbage ELSE Len(a.frames) + b.non_repeat
<1>2. Whole(frames) /\ frames \in Seq(Frame)
  BY <1>1, FramesJoined, Zenon DEF Whole
<1>3. Merge(a, b) = [a EXCEPT !.frames = frames, !.non_repeat = n]
  BY DEF Merge
<1>4. n \in Nat \union {Garbage}
  BY <1>1 DEF InputBlocks
<1> HIDE DEF frames, n
<1>5. /\ Merge(a, b) \in InputBlocks /\ Merge(a, b).frames = frames
      /\ Merge(a, b).tstates = a.tstates /\ Merge(a, b).id = a.id /\ Merge(a, b).type = "INPUT"
  BY <1>1, <1>2, <1>3, <1>4 DEF InputBlocks
<1>6. QED  BY <1>2, <1>5 DEF GoodBlock, IsInput, frames

----------------------------------------------------------------------------
(* What the blocks contain.                                                 *)

Good(list) == \A i \in DOMAIN list : GoodBlock(list[i])

(* The blocks of an edited list come from the list.                         *)
LEMMA GoodEdits ==
  ASSUME NEW list, IsList(list), Good(list)
  PROVE  /\ \A b : GoodBlock(b) => Good(Append(list, b))
         /\ \A b : \A k \in 1..Len(list) + 1 : GoodBlock(b) => Good(InsertAt(list, k, b))
         /\ \A k \in 1..Len(list) : Good(RemoveAt(list, k)) /\ Good(SubSeq(list, 1, k))
         /\ \A more : IsList(more) /\ Good(more) => Good(list \o more)
<1>1. DOMAIN list = 1..Len(list) /\ Len(list) \in Nat
  BY ListShape
<1>2. ASSUME NEW b, GoodBlock(b)
      PROVE  Good(Append(list, b))
  <2> DEFINE new == Append(list, b)
  <2>1. /\ IsList(new) /\ Len(new) = Len(list) + 1
        /\ \A i \in 1..Len(list) : new[i] = list[i]
        /\ new[Len(list) + 1] = b
    BY AppendShape, Zenon
  <2>2. DOMAIN new = 1..Len(list) + 1
    BY <2>1, ListShape, Zenon
  <2> HIDE DEF new
  <2>3. \A i \in DOMAIN new : i \in 1..Len(list) \/ i = Len(list) + 1
    BY <1>1, <2>2
  <2>4. Good(new)
    BY <1>1, <1>2, <2>1, <2>3 DEF Good
  <2>5. QED  BY <2>4 DEF new
<1>3. ASSUME NEW b, GoodBlock(b), NEW k \in 1..Len(list) + 1
      PROVE  Good(InsertAt(list, k, b))
  <2> DEFINE new == InsertAt(list, k, b)
  <2>1. /\ IsList(new) /\ Len(new) = Len(list) + 1
        /\ \A i \in 1..Len(list) + 1 :
             new[i] = IF i < k THEN list[i] ELSE IF i = k THEN b ELSE list[i - 1]
    BY InsertShape
  <2>2. DOMAIN new = 1..Len(list) + 1
    BY <2>1, ListShape, Zenon
  <2> HIDE DEF new
  <2>3. \A i \in DOMAIN new : /\ i < k => i \in DOMAIN list
                              /\ i # k /\ ~(i < k) => i - 1 \in DOMAIN list
    BY <1>1, <2>2
  <2>4. \A i \in DOMAIN new : GoodBlock(new[i])
    BY <1>3, <2>1, <2>2, <2>3 DEF Good
  <2>5. QED  BY <2>4 DEF new, Good
<1>4. ASSUME NEW k \in 1..Len(list)
      PROVE  Good(RemoveAt(list, k))
  <2> DEFINE new == RemoveAt(list, k)
  <2>1. /\ IsList(new) /\ Len(new) = Len(list) - 1
        /\ \A i \in 1..Len(list) - 1 : new[i] = IF i < k THEN list[i] ELSE list[i + 1]
    BY RemoveShape, Zenon
  <2>2. DOMAIN new = 1..Len(list) - 1
    BY <2>1, ListShape, Zenon
  <2> HIDE DEF new
  <2>3. \A i \in DOMAIN new : i \in DOMAIN list /\ i + 1 \in DOMAIN list
    BY <1>1, <2>2
  <2>4. Good(new)
    BY <2>1, <2>2, <2>3 DEF Good
  <2>5. QED  BY <2>4 DEF new
<1>5. ASSUME NEW k \in 1..Len(list)
      PROVE  Good(SubSeq(list, 1, k))
  <2> DEFINE new == SubSeq(list, 1, k)
  <2>1. 1 \in 1..Len(list) + 1 /\ k \in 1 - 1..Len(list) /\ k - 1 + 1 = k
        /\ \A i \in 1..k : 1 + i - 1 = i /\ i \in DOMAIN list
    BY <1>1
  <2>2. IsList(new) /\ Len(new) = k - 1 + 1 /\ \A i \in 1..k - 1 + 1 : new[i] = list[1 + i - 1]
    BY <2>1, SliceShape, Zenon
  <2>3. DOMAIN new = 1..k
    BY <2>1, <2>2, ListShape
  <2> HIDE DEF new
  <2>4. Good(new)
    BY <2>1, <2>2, <2>3 DEF Good
  <2>5. QED  BY <2>4 DEF new
<1>6. ASSUME NEW more, IsList(more), Good(more)
      PROVE  Good(list \o more)
  <2> DEFINE new == list \o more
  <2>1. /\ IsList(new) /\ Len(new) = Len(list) + Len(more)
        /\ \A i \in 1..Len(list) + Len(more) :
             new[i] = IF i <= Len(list) THEN list[i] ELSE more[i - Len(list)]
    BY <1>6, ConcatShape, Zenon
  <2>2. /\ DOMAIN new = 1..Len(list) + Len(more)
        /\ DOMAIN more = 1..Len(more) /\ Len(more) \in Nat
    BY <1>6, <2>1, ListShape, Zenon
  <2> HIDE DEF new
  <2>3. \A i \in DOMAIN new : /\ i <= Len(list) => i \in DOMAIN list
                              /\ ~(i <= Len(list)) => i - Len(list) \in DOMAIN more
    BY <1>1, <2>2
  <2>4. Good(new)
    BY <1>6, <2>1, <2>2, <2>3 DEF Good
  <2>5. QED  BY <2>4 DEF new
<1>7. QED  BY <1>2, <1>3, <1>4, <1>5, <1>6, Zenon

(* A block joins the ones before it.                                        *)
LEMMA GoodStep ==
  ASSUME NEW acc, IsList(acc), Good(acc), NEW b, GoodBlock(b)
  PROVE  IsList(MergeNext(acc, b)) /\ Good(MergeNext(acc, b))
<1>1. DOMAIN acc = 1..Len(acc) /\ Len(acc) \in Nat
  BY ListShape
<1> DEFINE new == MergeNext(acc, b)
<1>2. CASE acc # <<>> /\ IsInput(b) /\ IsInput(Last(acc))
  <2> DEFINE c == Merge(acc[Len(acc)], b)
  <2>1. new = [acc EXCEPT ![Len(acc)] = c]
    BY <1>2, Zenon DEF MergeNext
  <2>2. Len(acc) \in DOMAIN acc
    <3>1. PICK S : acc \in Seq(S)
      BY DEF IsList
    <3>2. Len(acc) # 0
      BY <1>2, <3>1, EmptySeq, Zenon
    <3>3. QED  BY <1>1, <3>2
  <2>3. Last(acc) = acc[Len(acc)]
    BY DEF Last
  <2>4. GoodBlock(c)
    BY <1>2, <2>2, <2>3, MergeGood DEF Good
  <2> HIDE DEF c, new
  <2>5. DOMAIN new = DOMAIN acc /\ \A i \in DOMAIN new : new[i] = c \/ new[i] = acc[i]
    BY <2>1
  <2>6. new = [i \in 1..Len(acc) |-> new[i]]
    BY <1>1, <2>1
  <2>7. IsList(new)
    BY <1>1, <2>6, Function, Zenon
  <2>8. Good(new)
    BY <2>4, <2>5 DEF Good
  <2>9. QED  BY <2>7, <2>8 DEF new
<1>3. CASE ~(acc # <<>> /\ IsInput(b) /\ IsInput(Last(acc)))
  <2>1. new = Append(acc, b)
    BY <1>3, Zenon DEF MergeNext
  <2>2. QED  BY <2>1, AppendShape, GoodEdits, Zenon
<1>4. QED  BY <1>2, <1>3

(* Both passes of libspectrum_rzx_finalise.                                 *)
LEMMA GoodFinal ==
  ASSUME NEW list, IsList(list), Good(list)
  PROVE  Good(FoldLeft(MergeNext, <<>>, OneSnapshot(list)))
<1> DEFINE first == SelectInSeq(list, IsSnapshot)
           places == {i \in DOMAIN list : IsSnapshot(list[i]) => i = first}
           one == OneSnapshot(list)
<1>1. one = Pick(list, places) /\ places \in SUBSET (DOMAIN list)
  BY Zenon DEF OneSnapshot
<1> HIDE DEF places
<1>2. IsList(one) /\ DOMAIN one = 1..Cardinality(places)
  BY <1>1, PickedList, Zenon
<1>3. DOMAIN one = 1..Len(one) /\ Len(one) \in Nat
  BY <1>2, ListShape
<1>4. ASSUME NEW i \in DOMAIN one
      PROVE  GoodBlock(one[i])
  <2>1. one[i] = list[Nth(places, i)]
    BY <1>1, <1>2, <1>4 DEF Pick
  <2>2. Len(list) \in Nat /\ places \in SUBSET (1..Len(list))
    BY <1>1, ListShape
  <2>3. Nth(places, i) \in places
    BY <1>2, <2>2, NthProperties, Zenon
  <2>4. QED  BY <1>1, <2>1, <2>3 DEF Good
<1> HIDE DEF one
<1>5. PICK trace :
        /\ trace[0] = <<>>
        /\ \A k \in 0..Len(one) - 1 : trace[k + 1] = MergeNext(trace[k], one[k + 1])
        /\ FoldLeft(MergeNext, <<>>, one) = trace[Len(one)]
  BY <1>2, MergeTrace, Zenon
<1> DEFINE Done == {k \in Nat : IsList(trace[k]) /\ Good(trace[k])}
<1>6. 0 \in Done
  BY <1>5, NoBlocks DEF Good
<1>7. ASSUME NEW k \in 0..Len(one) - 1, k \in Done
      PROVE  k + 1 \in Done
  <2>1. k + 1 \in DOMAIN one /\ k + 1 \in Nat
    BY <1>3
  <2>2. IsList(MergeNext(trace[k], one[k + 1])) /\ Good(MergeNext(trace[k], one[k + 1]))
    BY <1>4, <1>7, <2>1, GoodStep
  <2>3. QED  BY <1>5, <2>1, <2>2
<1>8. Len(one) \in Done
  <2>1. Done \in SUBSET Nat
    OBVIOUS
  <2> HIDE DEF Done
  <2>2. 0..Len(one) \subseteq Done
    BY <1>3, <1>6, <1>7, <2>1, Induction
  <2>3. QED  BY <1>3, <2>2
<1>9. QED  BY <1>5, <1>8 DEF one

----------------------------------------------------------------------------
(* The recorder keeps good blocks.                                          *)

(* A frame is stored.                                                       *)
LEMMA FrameAppended ==
  ASSUME NEW frames, Whole(frames), NEW f \in Frame,
         IF f.repeat_last THEN f.in = <<>> /\ frames # <<>> ELSE Len(f.in) < RepeatFrame
  PROVE  Whole(Append(frames, f))
<1> DEFINE new == Append(frames, f)
<1>1. frames \in Seq(Frame) /\ DOMAIN frames = 1..Len(frames) /\ Len(frames) \in Nat
  BY DEF Whole
<1>2. /\ new \in Seq(Frame) /\ Len(new) = Len(frames) + 1
      /\ \A i \in 1..Len(frames) : new[i] = frames[i]
      /\ new[Len(frames) + 1] = f
  BY <1>1, AppendProperties
<1> HIDE DEF new
<1>3. DOMAIN new = 1..Len(frames) + 1
  BY <1>1, <1>2
<1>4. ASSUME NEW i \in DOMAIN new
      PROVE  /\ IF new[i].repeat_last THEN new[i].in = <<>> ELSE Len(new[i].in) < RepeatFrame
             /\ i = 1 => ~new[i].repeat_last
  <2>1. CASE i \in 1..Len(frames)
    <3>1. i \in DOMAIN frames /\ new[i] = frames[i] /\ frames # <<>>
      BY <1>1, <1>2, <2>1
    <3>2. QED  BY <3>1, Zenon DEF Whole
  <2>2. CASE i = Len(frames) + 1
    <3>1. i = 1 => frames = <<>>
      BY <1>1, <2>2
    <3>2. new[i] = f
      BY <1>2, <2>2
    <3>3. QED  BY <3>1, <3>2, Zenon
  <2>3. i \in 1..Len(frames) \/ i = Len(frames) + 1
    BY <1>1, <1>3
  <2>4. QED  BY <2>1, <2>2, <2>3, Zenon
<1>5. 1 \in DOMAIN new
  BY <1>1, <1>3
<1>6. Whole(new)
  BY <1>2, <1>4, <1>5, Zenon DEF Whole
<1>7. QED  BY <1>6 DEF new

(* The input block in which it is stored.                                   *)
LEMMA StoreGood ==
  ASSUME NEW b, GoodBlock(b), IsInput(b), NEW n \in Instructions, NEW in \in InBytes
  PROVE  /\ GoodBlock(StoreInto(b, n, in)) /\ IsInput(StoreInto(b, n, in))
         /\ StoreInto(b, n, in).id = b.id /\ StoreInto(b, n, in).tstates = b.tstates
         /\ StoreInto(b, n, in).frames =
              Append(b.frames,
                     IF Repeats(b, in)
                       THEN [instructions |-> n, in |-> <<>>, repeat_last |-> TRUE]
                       ELSE [instructions |-> n, in |-> in, repeat_last |-> FALSE])
<1> DEFINE again == [instructions |-> n, in |-> <<>>, repeat_last |-> TRUE]
           full == [instructions |-> n, in |-> in, repeat_last |-> FALSE]
           f == IF Repeats(b, in) THEN again ELSE full
           frames == Append(b.frames, f)
<1>1. b \in InputBlocks /\ Whole(b.frames) /\ Len(b.frames) \in Nat
  BY GoodInput DEF Whole
<1>2. f \in Frame /\ IF f.repeat_last THEN f.in = <<>> /\ b.frames # <<>> ELSE Len(f.in) < RepeatFrame
  <2>1. n \in 0..RepeatFrame /\ in \in Seq(Nat) /\ Len(in) < RepeatFrame /\ <<>> \in Seq(Nat)
    BY RzxAssumption
  <2>2. Repeats(b, in) => b.frames # <<>>
    BY DEF Repeats
  <2>3. QED  BY <2>1, <2>2 DEF Frame
<1> HIDE DEF f
<1>3. Whole(frames) /\ frames \in Seq(Frame)
  BY <1>1, <1>2, FrameAppended, Zenon DEF Whole
<1>4. PICK k \in Nat \union {Garbage} :
        StoreInto(b, n, in) = [b EXCEPT !.frames = frames, !.non_repeat = k]
  <2>1. CASE Repeats(b, in)
    <3>1. StoreInto(b, n, in) = [b EXCEPT !.frames = frames]
      BY <2>1 DEF StoreInto, f
    <3> HIDE DEF frames
    <3>2. [b EXCEPT !.frames = frames] = [b EXCEPT !.frames = frames, !.non_repeat = b.non_repeat]
      BY <1>1 DEF InputBlocks
    <3>3. QED  BY <1>1, <3>1, <3>2 DEF InputBlocks
  <2>2. CASE ~Repeats(b, in)
    <3>1. StoreInto(b, n, in) = [b EXCEPT !.frames = frames, !.non_repeat = Len(b.frames)]
      BY <2>2 DEF StoreInto, NonRepeat, f
    <3>2. QED  BY <1>1, <3>1
  <2>3. QED  BY <2>1, <2>2
<1> HIDE DEF frames
<1>5. /\ StoreInto(b, n, in) \in InputBlocks /\ StoreInto(b, n, in).frames = frames
      /\ StoreInto(b, n, in).id = b.id /\ StoreInto(b, n, in).tstates = b.tstates
      /\ StoreInto(b, n, in).type = "INPUT"
  BY <1>1, <1>3, <1>4 DEF InputBlocks
<1>6. QED  BY <1>3, <1>5 DEF GoodBlock, IsInput, frames, f

(* A block in a file.                                                       *)
LEMMA WrittenGood ==
  ASSUME NEW b, GoodBlock(b), IsStored(b)
  PROVE  /\ GoodStored(WrittenBlock(b))
         /\ WrittenBlock(b).type = b.type
<1>1. CASE IsInput(b)
  <2>1. b \in InputBlocks /\ Whole(b.frames) /\ b.frames \in Seq(Frame)
    BY <1>1, GoodInput DEF Whole
  <2> DEFINE frames == [i \in DOMAIN b.frames |-> WrittenFrame(b.frames[i])]
  <2>2. DOMAIN b.frames = 1..Len(b.frames) /\ Len(b.frames) \in Nat
        /\ \A i \in DOMAIN b.frames : b.frames[i] \in Frame
    BY <2>1
  <2>3. ASSUME NEW i \in DOMAIN b.frames
        PROVE  /\ WrittenFrame(b.frames[i]) \in StoredFrame
               /\ i = 1 => WrittenFrame(b.frames[i]).count # RepeatFrame
    <3> DEFINE f == b.frames[i]
    <3>1. /\ IF f.repeat_last THEN f.in = <<>> ELSE Len(f.in) < RepeatFrame
          /\ i = 1 => ~f.repeat_last
      <4>1. i = 1 => b.frames # <<>>
        BY <2>1, <2>2
      <4>2. QED  BY <2>1, <2>3, <4>1, Zenon DEF Whole
    <3>2. f \in Frame
      BY <2>2
    <3> HIDE DEF f
    <3>3. f.instructions \in 0..RepeatFrame /\ f.in \in Seq(Nat) /\ Len(f.in) \in Nat
      BY <3>2 DEF Frame
    <3>4. RepeatFrame \in Nat
      BY RzxAssumption
    <3>5. /\ WrittenFrame(f) \in StoredFrame
          /\ ~f.repeat_last => WrittenFrame(f).count # RepeatFrame
      BY <3>1, <3>3, <3>4 DEF WrittenFrame, StoredFrame
    <3>6. QED  BY <3>1, <3>5 DEF f
  <2>4. frames \in Seq(StoredFrame) /\ (frames # <<>> => frames[1].count # RepeatFrame)
    <3>1. frames \in [1..Len(b.frames) -> StoredFrame]
      BY <2>2, <2>3
    <3>2. frames \in Seq(StoredFrame) /\ Len(frames) = Len(b.frames)
      BY <2>2, <3>1
    <3>3. frames # <<>> => 1 \in DOMAIN b.frames
      BY <2>2, <3>2
    <3>4. \A i \in DOMAIN b.frames : frames[i] = WrittenFrame(b.frames[i])
      OBVIOUS
    <3> HIDE DEF frames
    <3>5. QED  BY <2>3, <3>2, <3>3, <3>4
  <2>5. WrittenBlock(b) = [type |-> "INPUT", tstates |-> b.tstates, frames |-> frames]
    BY <1>1 DEF WrittenBlock
  <2> HIDE DEF frames
  <2>6. b.tstates \in Nat /\ b.type = "INPUT"
    BY <2>1 DEF InputBlocks
  <2>7. QED  BY <2>4, <2>5, <2>6 DEF GoodStored, StoredBlock
<1>2. CASE IsSnapshot(b)
  <2>1. b \in SnapBlocks
    BY <1>2 DEF GoodBlock, InputBlocks, SignBlocks, IsSnapshot
  <2>2. WrittenBlock(b) = [type |-> "SNAP", snap |-> b.snap]
    BY <1>2 DEF WrittenBlock, IsInput, IsSnapshot
  <2>3. QED  BY <2>1, <2>2 DEF GoodStored, StoredBlock, SnapBlocks
<1>3. QED  BY <1>1, <1>2 DEF IsStored

(* The block that is recorded, in the state and among the good blocks.      *)
LEMMA CurrentBlock ==
  ASSUME Inv, Good(blocks), current_input # Null
  PROVE  LET i == Place(current_input)
         IN  /\ i \in DOMAIN blocks /\ blocks[i].id = current_input /\ Input(current_input) = blocks[i]
             /\ IsInput(blocks[i]) /\ GoodBlock(blocks[i])
             /\ Recording => Recorded(blocks[i])
<1>1. PICK i \in DOMAIN blocks : /\ blocks[i].id = current_input /\ IsInput(blocks[i])
                                 /\ Recording => Recorded(blocks[i])
  BY DEF Inv, Points
<1>2. PlaceIn(blocks, blocks[i].id) = i
  BY PlaceFound DEF Inv
<1>3. Place(current_input) = PlaceIn(blocks, current_input)
  BY Zenon DEF Place, PlaceIn
<1>4. Place(current_input) = i
  BY <1>1, <1>2, <1>3, Zenon
<1>5. GoodBlock(blocks[i])
  BY <1>1 DEF Good
<1>6. QED  BY <1>1, <1>4, <1>5, Zenon DEF Input

(* libspectrum_rzx_write writes blocks of the format.                       *)
LEMMA WriteGood ==
  ASSUME Inv, Good(blocks), NEW format
  PROVE  \A i \in DOMAIN Written(format) : GoodStored(Written(format)[i])
<1> DEFINE places == {i \in DOMAIN blocks : IsStored(blocks[i]) /\ ~Lost(format, i)}
           kept == Pick(blocks, places)
<1>1. Written(format) = [i \in DOMAIN kept |-> WrittenBlock(kept[i])]
  BY DEF Written
<1>2. places \in SUBSET (DOMAIN blocks) /\ \A i \in places : IsStored(blocks[i])
  OBVIOUS
<1> HIDE DEF places
<1>3. IsList(blocks) /\ DOMAIN kept = 1..Cardinality(places)
  BY <1>2, PickedList, Zenon DEF Inv
<1>4. ASSUME NEW i \in DOMAIN kept
      PROVE  GoodStored(WrittenBlock(kept[i]))
  <2>1. Len(blocks) \in Nat /\ places \in SUBSET (1..Len(blocks))
    BY <1>2, <1>3, ListShape
  <2>2. Nth(places, i) \in places
    BY <1>3, <1>4, <2>1, NthProperties, Zenon
  <2>3. kept[i] = blocks[Nth(places, i)]
    BY <1>3, <1>4 DEF Pick
  <2>4. GoodBlock(kept[i]) /\ IsStored(kept[i])
    BY <1>2, <2>2, <2>3 DEF Good
  <2>5. QED  BY <2>4, WrittenGood
<1> HIDE DEF kept
<1>5. QED  BY <1>1, <1>4

(* libspectrum_rzx_read reads good blocks.                                  *)
LEMMA ReadGood ==
  ASSUME Inv, \A i \in DOMAIN file : GoodStored(file[i]), NEW n \in 0..Len(file), Read(n)
  PROVE  Good(Loaded(Kept(SubSeq(file, 1, n))))
<1> DEFINE stored == SubSeq(file, 1, n)
           kept == Kept(stored)
           more == Loaded(kept)
           places == {i \in DOMAIN stored : stored[i].type \notin {"CREATOR", "LINK"}}
<1>1. /\ IsList(stored) /\ Len(stored) = n /\ IsList(kept) /\ IsList(more) /\ Len(more) = Len(kept)
      /\ \A i \in 1..Len(kept) :
           /\ more[i] = ReadBlock(Nth(Addresses, i), kept[i])
           /\ Nth(Addresses, i) \in Addresses
  BY ReadShape, Zenon
<1>2. Addresses \subseteq Nat \ {Null}
  BY RzxAssumption DEF Addresses, Null
<1>3. \A i \in DOMAIN stored : GoodStored(stored[i])
  <2>1. IsList(file) /\ DOMAIN file = 1..Len(file) /\ Len(file) \in Nat
    BY ListShape DEF Inv
  <2>2. 1 \in 1..Len(file) + 1 /\ n \in 1 - 1..Len(file) /\ n - 1 + 1 = n
        /\ \A i \in 1..n : 1 + i - 1 = i /\ i \in DOMAIN file
    BY <2>1
  <2>3. \A i \in 1..n - 1 + 1 : stored[i] = file[1 + i - 1]
    BY <2>1, <2>2, SliceShape, Zenon
  <2>4. DOMAIN stored = 1..n
    BY <1>1, ListShape, Zenon
  <2> HIDE DEF stored
  <2>5. QED  BY <2>2, <2>3, <2>4
<1>4. kept = Pick(stored, places) /\ places \in SUBSET (DOMAIN stored)
      /\ \A i \in places : stored[i].type \notin {"CREATOR", "LINK"}
  BY DEF Kept
<1> HIDE DEF stored, kept, more, places
<1>5. ASSUME NEW i \in 1..Len(kept)
      PROVE  GoodStored(kept[i]) /\ kept[i].type \notin {"CREATOR", "LINK"}
  <2>1. DOMAIN kept = 1..Len(kept) /\ DOMAIN kept = 1..Cardinality(places)
        /\ Len(stored) \in Nat /\ places \in SUBSET (1..Len(stored))
    BY <1>1, <1>4, ListShape, PickedList
  <2>2. Nth(places, i) \in places
    BY <2>1, <1>5, NthProperties, Zenon
  <2>3. kept[i] = stored[Nth(places, i)]
    BY <1>4, <1>5, <2>1 DEF Pick
  <2>4. QED  BY <1>3, <1>4, <2>2, <2>3
<1>6. \A i \in DOMAIN more : GoodBlock(more[i])
  <2>1. DOMAIN more = 1..Len(kept)
    BY <1>1, ListShape
  <2>2. ASSUME NEW i \in 1..Len(kept)
        PROVE  GoodBlock(more[i])
    <3>1. Nth(Addresses, i) \in Nat \ {Null} /\ more[i] = ReadBlock(Nth(Addresses, i), kept[i])
      BY <1>1, <1>2
    <3>2. GoodStored(kept[i]) /\ kept[i].type \notin {"CREATOR", "LINK"}
      BY <1>5
    <3>3. QED  BY <3>1, <3>2, BlockRead, Zenon
  <2>3. QED  BY <2>1, <2>2
<1>7. QED  BY <1>6 DEF Good, kept, more, stored

(* A step keeps what blocks and files contain.                              *)
LEMMA ContentKept ==
  ASSUME Inv, Content, [Next]_vars
  PROVE  Content'
<1>1. Good(blocks) /\ IsList(blocks) /\ Len(blocks) \in Nat /\ DOMAIN blocks = 1..Len(blocks)
      /\ \A i \in DOMAIN file : GoodStored(file[i])
  BY ListShape DEF Content, Good, Inv
<1>2. SUFFICES Good(blocks') /\ \A i \in DOMAIN file' : GoodStored(file'[i])
  BY DEF Content, Good
<1>3. ASSUME Len(blocks) < MaxBlocks
      PROVE  FreshId \in Nat \ {Null}
  BY <1>3, FreshAddress, Zenon
<1>4. ASSUME NEW t \in Tstates, StartInput(t)
      PROVE  Good(blocks') /\ file' = file
  <2>1. Len(blocks) < MaxBlocks /\ blocks' = Append(blocks, InputBlock(FreshId, t, <<>>, 0)) /\ file' = file
    BY <1>4 DEF StartInput
  <2>2. QED  BY <1>1, <1>3, <2>1, NewBlocks, GoodEdits, Zenon
<1>5. ASSUME NEW s \in Snaps, NEW automatic \in BOOLEAN, AddSnap(s, automatic)
      PROVE  Good(blocks') /\ file' = file
  <2>1. Len(blocks) < MaxBlocks /\ blocks' = Append(blocks, SnapBlock(FreshId, s, automatic)) /\ file' = file
    BY <1>5 DEF AddSnap
  <2>2. QED  BY <1>1, <1>3, <2>1, NewBlocks, GoodEdits, Zenon
<1>6. ASSUME NEW s \in Snaps, NEW where \in 1..Len(blocks) + 1, InsertSnap(s, where)
      PROVE  Good(blocks') /\ file' = file
  <2>1. /\ Len(blocks) < MaxBlocks /\ file' = file
        /\ blocks' = InsertAt(blocks, where, SnapBlock(FreshId, s, FALSE))
    BY <1>6 DEF InsertSnap
  <2> DEFINE b == SnapBlock(FreshId, s, FALSE)
  <2>2. GoodBlock(b)
    <3>1. FALSE \in BOOLEAN
      OBVIOUS
    <3>2. QED  BY <1>3, <2>1, <3>1, NewBlocks, Zenon
  <2> HIDE DEF b
  <2>3. QED  BY <1>1, <2>1, <2>2, GoodEdits, Zenon DEF b
<1>7. ASSUME NEW n \in Instructions, NEW in \in InBytes, StoreFrame(n, in)
      PROVE  Good(blocks') /\ file' = file
  <2> DEFINE p == Place(current_input)
  <2>1. /\ current_input # Null /\ file' = file
        /\ blocks' = [blocks EXCEPT ![p] = StoreInto(blocks[p], n, in)]
    BY <1>7 DEF StoreFrame
  <2>2. p \in DOMAIN blocks /\ GoodBlock(blocks[p]) /\ IsInput(blocks[p])
    BY <1>1, <2>1, CurrentBlock, Zenon
  <2>3. GoodBlock(StoreInto(blocks[p], n, in))
    BY <2>2, StoreGood
  <2> HIDE DEF p
  <2>4. QED  BY <1>1, <2>1, <2>3 DEF Good
<1>8. ASSUME NEW k \in DOMAIN blocks, Rollback(k) \/ IteratorDelete(k)
      PROVE  Good(blocks') /\ file' = file
  <2>1. file' = file /\ (blocks' = SubSeq(blocks, 1, k) \/ blocks' = RemoveAt(blocks, k))
    BY <1>8 DEF Rollback, IteratorDelete
  <2>2. k \in 1..Len(blocks)
    BY <1>1
  <2>3. QED  BY <1>1, <2>1, <2>2, GoodEdits, Zenon
<1>9. ASSUME Finalise
      PROVE  Good(blocks') /\ file' = file
  BY <1>1, <1>9, GoodFinal, Zenon DEF Finalise
<1>10. ASSUME NEW format \in Formats, Write(format)
       PROVE  blocks' = blocks /\ \A i \in DOMAIN file' : GoodStored(file'[i])
  BY <1>1, <1>10, WriteGood, Zenon DEF Write
<1>11. ASSUME NEW n \in 0..Len(file), Read(n)
       PROVE  Good(blocks') /\ file' = file
  <2> DEFINE more == Loaded(Kept(SubSeq(file, 1, n)))
  <2>1. blocks' = blocks \o more /\ file' = file /\ IsList(more)
    BY <1>11, ReadShape, Zenon
  <2>2. Good(more)
    BY <1>1, <1>11, ReadGood
  <2> HIDE DEF more
  <2>3. QED  BY <1>1, <2>1, <2>2, GoodEdits, Zenon
<1>12. CASE Record
  <2>1. CASE \E s \in Snaps : \/ \E automatic \in BOOLEAN : AddSnap(s, automatic)
                              \/ \E where \in 1..Len(blocks) + 1 : InsertSnap(s, where)
    BY <1>1, <1>5, <1>6, <2>1, Zenon
  <2>2. CASE \E format \in Formats : Write(format)
    BY <1>1, <1>10, <2>2, Zenon
  <2>3. CASE StopInput
    BY <1>1, <2>3, Zenon DEF StopInput
  <2>4. QED
    BY <1>1, <1>4, <1>7, <1>8, <1>9, <1>11, <1>12, <2>1, <2>2, <2>3, Zenon DEF Record
<1>13. CASE Play
  <2>1. UNCHANGED <<blocks, file>>
    BY <1>13 DEF Play, StartPlayback, Playback, PlaybackFrame
  <2>2. QED  BY <1>1, <2>1
<1>14. CASE Free
  <2>1. blocks' = <<>> /\ file' = file /\ DOMAIN <<>> = {}
    BY <1>14 DEF Free
  <2>2. QED  BY <1>1, <2>1 DEF Good
<1>15. CASE UNCHANGED vars
  BY <1>1, <1>15 DEF vars
<1>16. QED  BY <1>12, <1>13, <1>14, <1>15, Zenon DEF Next

----------------------------------------------------------------------------
(* Repetitions.                                                             *)

\* Frame j is stored in full, those behind it up to i repeat it.
Repeated(frames, i, j) == ~frames[j].repeat_last /\ \A k \in j + 1..i : frames[k].repeat_last

(* There is only one such frame.                                            *)
LEMMA SourceIs ==
  ASSUME NEW frames, NEW i \in Nat, NEW j \in 1..i, Repeated(frames, i, j)
  PROVE  SourceOf(frames, i) = j
<1>1. ASSUME NEW m \in 1..i, Repeated(frames, i, m)
      PROVE  m = j
  <2>1. m < j => j \in m + 1..i
    OBVIOUS
  <2>2. j < m => m \in j + 1..i
    OBVIOUS
  <2>3. m < j \/ j < m \/ m = j
    OBVIOUS
  <2>4. QED  BY <1>1, <2>1, <2>2, <2>3, Zenon DEF Repeated
<1>2. QED  BY <1>1, Zenon DEF SourceOf, Repeated

(* There is one for every frame, as the first is stored in full.            *)
LEMMA SourceFound ==
  ASSUME NEW frames, Whole(frames), NEW i \in 1..Len(frames)
  PROVE  /\ SourceOf(frames, i) \in 1..i /\ SourceOf(frames, i) \in DOMAIN frames
         /\ Repeated(frames, i, SourceOf(frames, i))
<1>1. /\ Len(frames) \in Nat /\ DOMAIN frames = 1..Len(frames)
      /\ frames # <<>> /\ i \in Nat /\ 1 \in 1..i
  BY DEF Whole
<1>2. ~frames[1].repeat_last
  BY <1>1, Zenon DEF Whole
<1> DEFINE full == {j \in 1..i : ~frames[j].repeat_last}
<1>3. PICK j \in full : \A k \in full : k <= j
  <2>1. full \in SUBSET Int /\ full # {} /\ i \in Int /\ \A k \in full : k <= i
    BY <1>1, <1>2
  <2> HIDE DEF full
  <2>2. QED  BY <2>1, GreatestElement, Zenon
<1>4. j \in 1..i /\ ~frames[j].repeat_last
  OBVIOUS
<1>5. \A k \in j + 1..i : k \in 1..i /\ ~(k <= j)
  BY <1>4
<1>6. \A k \in j + 1..i : frames[k].repeat_last
  BY <1>3, <1>5, Zenon
<1>7. Repeated(frames, i, j)
  BY <1>4, <1>6 DEF Repeated
<1>8. SourceOf(frames, i) = j
  BY <1>1, <1>4, <1>7, SourceIs, Zenon
<1>9. j \in DOMAIN frames
  BY <1>1, <1>4
<1>10. QED  BY <1>4, <1>7, <1>8, <1>9, Zenon

(* From one frame to the next.                                              *)
LEMMA SourceNext ==
  ASSUME NEW frames, Whole(frames), NEW i \in Nat, i + 1 \in 1..Len(frames),
         i = 0 \/ i \in 1..Len(frames)
  PROVE  SourceOf(frames, i + 1) = IF frames[i + 1].repeat_last THEN SourceOf(frames, i) ELSE i + 1
<1>1. CASE ~frames[i + 1].repeat_last
  <2>1. (i + 1) + 1..i + 1 = {} /\ i + 1 \in 1..i + 1 /\ i + 1 \in Nat
    OBVIOUS
  <2>2. Repeated(frames, i + 1, i + 1)
    BY <1>1, <2>1 DEF Repeated
  <2>3. SourceOf(frames, i + 1) = i + 1
    BY <2>1, <2>2, SourceIs, Zenon
  <2>4. QED  BY <1>1, <2>3, Zenon
<1>2. CASE frames[i + 1].repeat_last
  <2>1. i # 0
    <3>1. i = 0 => frames # <<>> /\ i + 1 = 1
      BY DEF Whole
    <3>2. QED  BY <1>2, <3>1, Zenon DEF Whole
  <2> DEFINE j == SourceOf(frames, i)
  <2>2. j \in 1..i /\ Repeated(frames, i, j)
    BY <2>1, SourceFound, Zenon
  <2> HIDE DEF j
  <2>3. \A k \in j + 1..i + 1 : k \in j + 1..i \/ k = i + 1
    BY <2>2
  <2>4. Repeated(frames, i + 1, j)
    BY <1>2, <2>2, <2>3 DEF Repeated
  <2>5. j \in 1..i + 1 /\ i + 1 \in Nat
    BY <2>2
  <2>6. SourceOf(frames, i + 1) = j
    BY <2>4, <2>5, SourceIs, Zenon
  <2>7. QED  BY <1>2, <2>6, Zenon DEF j
<1>3. QED  BY <1>1, <1>2

----------------------------------------------------------------------------
(* Playback.                                                                *)

(* A pointer after a step to a block that was there before.                 *)
LEMMA InputNext ==
  ASSUME Inv, blocks' = blocks, NEW i \in DOMAIN blocks, current_input' = blocks[i].id
  PROVE  Input(current_input)' = blocks[i]
<1>1. PlaceIn(blocks, blocks[i].id) = i
  BY PlaceFound DEF Inv
<1>2. Place(current_input)' = PlaceIn(blocks', current_input')
  BY DEF Place, PlaceIn, SelectInSeq
<1>3. Place(current_input)' = i
  BY <1>1, <1>2
<1>4. QED  BY <1>3 DEF Input

(* The first frame of a block.                                              *)
LEMMA Entered ==
  ASSUME IInv, NEW i \in DOMAIN blocks, IsInput(blocks[i]), Enter(i), UNCHANGED blocks,
         role' = "player"
  PROVE  Counters' /\ PlaysCurrentFrame'
<1> DEFINE b == blocks[i]
<1>1. /\ current_input' = b.id /\ current_frame' = 0 /\ in_count' = 0
      /\ data_frame' = IF b.frames = <<>> THEN Null ELSE 1
  BY DEF Enter
<1>2. Counters'
  BY <1>1 DEF Counters, Null
<1>3. Input(current_input)' = b
  BY <1>1, InputNext DEF IInv
<1>4. Whole(b.frames)
  BY GoodInput DEF IInv, Content
<1> HIDE DEF b
<1>5. ASSUME data_frame' # Null
      PROVE  /\ current_frame' < Len(b.frames)
             /\ data_frame' = SourceOf(b.frames, current_frame' + 1)
             /\ in_count' <= Len(b.frames[data_frame'].in)
  <2>1. data_frame' = 1 /\ b.frames # <<>> /\ b.frames \in Seq(Frame)
    BY <1>1, <1>4, <1>5, Zenon DEF Whole
  <2>2. Len(b.frames) \in Nat /\ Len(b.frames) > 0 /\ 0 \in Nat /\ 0 + 1 \in 1..Len(b.frames)
        /\ b.frames[1] \in Frame
    BY <2>1
  <2>3. SourceOf(b.frames, 0 + 1) = IF b.frames[0 + 1].repeat_last THEN SourceOf(b.frames, 0) ELSE 0 + 1
    BY <1>4, <2>2, SourceNext
  <2>4. ~b.frames[1].repeat_last
    BY <1>4, <2>1, Zenon DEF Whole
  <2>5. SourceOf(b.frames, 1) = 1
    BY <2>3, <2>4
  <2>6. Len(b.frames[1].in) \in Nat
    BY <2>2 DEF Frame
  <2>7. QED  BY <1>1, <2>1, <2>2, <2>5, <2>6
<1>6. PlaysCurrentFrame'
  BY <1>3, <1>5 DEF PlaysCurrentFrame, Playing, DataFrame
<1>7. QED  BY <1>2, <1>6

(* libspectrum_rzx_start_playback, libspectrum_rzx_playback and             *)
(* libspectrum_rzx_playback_frame: the byte that comes next is one of the   *)
(* current frame.                                                           *)
LEMMA PlaceKept ==
  ASSUME IInv, Play
  PROVE  Counters' /\ PlaysCurrentFrame'
<1>1. ASSUME NEW i \in DOMAIN blocks, StartPlayback(i)
      PROVE  Counters' /\ PlaysCurrentFrame'
  BY <1>1, Entered DEF StartPlayback
<1>2. Inv /\ Good(blocks) /\ Counters /\ PlaysCurrentFrame
  BY DEF IInv, Content, Good
<1>3. ASSUME Playing, current_block # Null
      PROVE  \E i \in DOMAIN blocks :
               /\ current_input = blocks[i].id /\ Input(current_input) = blocks[i]
               /\ IsInput(blocks[i]) /\ GoodBlock(blocks[i]) /\ Whole(blocks[i].frames)
               /\ current_frame < Len(blocks[i].frames)
               /\ data_frame = SourceOf(blocks[i].frames, current_frame + 1)
               /\ in_count <= Len(blocks[i].frames[data_frame].in)
  <2>1. current_input # Null
    BY <1>2, <1>3, Zenon DEF Inv
  <2> DEFINE i == Place(current_input)
  <2>2. /\ i \in DOMAIN blocks /\ blocks[i].id = current_input /\ Input(current_input) = blocks[i]
        /\ IsInput(blocks[i]) /\ GoodBlock(blocks[i])
    BY <1>2, <2>1, CurrentBlock, Zenon
  <2> HIDE DEF i
  <2>3. Whole(blocks[i].frames)
    BY <2>2, GoodInput, Zenon
  <2>4. QED  BY <1>2, <1>3, <2>2, <2>3 DEF PlaysCurrentFrame, DataFrame
<1>4. CASE Playback
  <2>1. /\ Playing /\ in_count < Len(DataFrame.in) /\ in_count' = in_count + 1
        /\ UNCHANGED <<blocks, current_input, current_block, current_frame, data_frame, role>>
    BY <1>4 DEF Playback
  <2>2. Counters'
    BY <1>2, <2>1 DEF Counters
  <2>3. ASSUME current_block # Null
        PROVE  PlaysCurrentFrame'
    <3>1. PICK i \in DOMAIN blocks :
            /\ current_input = blocks[i].id /\ Input(current_input) = blocks[i]
            /\ IsInput(blocks[i]) /\ GoodBlock(blocks[i]) /\ Whole(blocks[i].frames)
            /\ current_frame < Len(blocks[i].frames)
            /\ data_frame = SourceOf(blocks[i].frames, current_frame + 1)
            /\ in_count <= Len(blocks[i].frames[data_frame].in)
      BY <1>3, <2>1, <2>3
    <3> DEFINE b == blocks[i]
    <3>2. Input(current_input)' = b
      BY <1>2, <2>1, <3>1, InputNext
    <3>3. Len(b.frames[data_frame].in) \in Nat
      <4>1. current_frame \in Nat /\ Len(b.frames) \in Nat
        BY <1>2, <3>1 DEF Counters, Whole
      <4>2. current_frame + 1 \in 1..Len(b.frames)
        BY <3>1, <4>1
      <4>3. data_frame \in DOMAIN b.frames
        BY <3>1, <4>2, SourceFound, Zenon
      <4>4. b.frames[data_frame] \in Frame
        BY <3>1, <4>3 DEF Whole
      <4>5. QED  BY <4>4 DEF Frame
    <3>4. in_count < Len(b.frames[data_frame].in)
      BY <2>1, <3>1 DEF DataFrame
    <3> HIDE DEF b
    <3>5. in_count' <= Len(b.frames[data_frame].in)
      BY <1>2, <2>1, <3>3, <3>4 DEF Counters
    <3>6. QED  BY <2>1, <3>1, <3>2, <3>5 DEF PlaysCurrentFrame, DataFrame, b
  <2>4. current_block = Null => PlaysCurrentFrame'
    BY <2>1 DEF PlaysCurrentFrame, Null
  <2>5. QED  BY <2>2, <2>3, <2>4
<1>5. CASE PlaybackFrame
  <2>1. Playing /\ current_block # Null /\ role = "player" /\ UNCHANGED <<blocks, role, file>>
    BY <1>5 DEF PlaybackFrame, Playing
  <2>2. ASSUME current_frame + 1 < Len(Input(current_input).frames),
               current_frame' = current_frame + 1, data_frame' = NextData(current_frame + 1),
               in_count' = 0, UNCHANGED <<current_block, current_input>>
        PROVE  Counters' /\ PlaysCurrentFrame'
    <3>1. PICK i \in DOMAIN blocks :
            /\ current_input = blocks[i].id /\ Input(current_input) = blocks[i]
            /\ Whole(blocks[i].frames)
            /\ data_frame = SourceOf(blocks[i].frames, current_frame + 1)
      BY <1>3, <2>1
    <3> DEFINE frames == blocks[i].frames
    <3>2. Input(current_input)' = blocks[i]
      BY <1>2, <2>1, <2>2, <3>1, InputNext
    <3>3. current_frame + 1 < Len(frames) /\ current_frame \in Nat /\ Len(frames) \in Nat
      BY <1>2, <2>2, <3>1 DEF Counters, Whole
    <3>4. /\ data_frame' = IF frames[current_frame + 1 + 1].repeat_last THEN data_frame
                           ELSE current_frame + 1 + 1
          /\ data_frame = SourceOf(frames, current_frame + 1) /\ Whole(frames)
      BY <2>2, <3>1 DEF NextData
    <3> HIDE DEF frames
    <3>5. /\ current_frame + 1 + 1 \in 1..Len(frames) /\ current_frame + 1 \in 1..Len(frames)
          /\ current_frame + 1 \in Nat
      BY <3>3
    <3>6. data_frame' = SourceOf(frames, current_frame + 1 + 1)
      BY <3>4, <3>5, SourceNext, Zenon
    <3>7. data_frame' \in DOMAIN frames /\ DOMAIN frames = 1..Len(frames)
      <4>1. data_frame' \in DOMAIN frames
        BY <3>4, <3>5, <3>6, SourceFound, Zenon
      <4>2. QED  BY <3>4, <4>1 DEF Whole
    <3>8. Len(frames[data_frame'].in) \in Nat
      <4>1. frames[data_frame'] \in Frame
        BY <3>4, <3>7 DEF Whole
      <4>2. QED  BY <4>1 DEF Frame
    <3>9. Counters'
      BY <1>2, <2>1, <2>2, <3>3, <3>7 DEF Counters
    <3>10. PlaysCurrentFrame'
      BY <2>2, <3>2, <3>3, <3>6, <3>8 DEF PlaysCurrentFrame, DataFrame, frames
    <3>11. QED  BY <3>9, <3>10
  <2>3. ASSUME NEW i \in NextInputs, Enter(i)
        PROVE  Counters' /\ PlaysCurrentFrame'
    <3>1. i \in DOMAIN blocks /\ IsInput(blocks[i]) /\ role' = "player"
      BY <2>1, <2>3 DEF NextInputs
    <3>2. QED  BY <2>1, <2>3, <3>1, Entered
  <2>4. ASSUME current_block' = Null, current_frame' = current_frame + 1,
               UNCHANGED <<current_input, data_frame, in_count>>
        PROVE  Counters' /\ PlaysCurrentFrame'
    BY <1>2, <2>1, <2>4 DEF Counters, PlaysCurrentFrame, Null
  <2>5. QED  BY <1>5, <2>2, <2>3, <2>4, Zenon DEF PlaybackFrame
<1>6. QED  BY <1>1, <1>4, <1>5 DEF Play

----------------------------------------------------------------------------
(* Every behaviour.                                                         *)

(* The recorder counts no bytes, and nothing plays while it records.        *)
LEMMA NothingPlays ==
  ASSUME IInv, Record \/ Free \/ UNCHANGED vars
  PROVE  Counters' /\ PlaysCurrentFrame'
<1>1. CASE Record
  <2>1. Recording /\ UNCHANGED <<playback, role>>
    BY <1>1 DEF Record, StartInput, StopInput, AddSnap, InsertSnap, StoreFrame, Rollback,
                IteratorDelete, Finalise, Write, Read
  <2>2. QED  BY <2>1 DEF IInv, Counters, PlaysCurrentFrame, Playing, Recording, playback
<1>2. CASE Free
  BY <1>2 DEF Free, Counters, PlaysCurrentFrame, Playing, Null
<1>3. CASE UNCHANGED vars
  <2>1. UNCHANGED <<blocks, current_input, current_block, current_frame, data_frame, in_count, role>>
    BY <1>3 DEF vars, playback
  <2>2. Input(current_input)' = Input(current_input)
    BY <2>1 DEF Input, Place, SelectInSeq
  <2>3. QED  BY <2>1, <2>2 DEF IInv, Counters, PlaysCurrentFrame, Playing, DataFrame
<1>4. QED  BY <1>1, <1>2, <1>3

(* The inductive invariant holds in every reachable state.                  *)
THEOREM RecordingInvariance ==
  ASSUME RunsBeginFull
  PROVE  Spec => []IInv
<1>1. Init => IInv
  <2> SUFFICES ASSUME Init
               PROVE  IInv
    OBVIOUS
  <2>1. Inv
    BY InitKeeps
  <2>2. Content
    <3>1. \A i \in DOMAIN ForeignFile : GoodStored(ForeignFile[i])
      BY RzxAssumption DEF RunsBeginFull, GoodStored
    <3>2. blocks = <<>> /\ file = ForeignFile /\ DOMAIN <<>> = {}
      BY DEF Init
    <3>3. QED  BY <3>1, <3>2 DEF Content
  <2>3. Counters /\ PlaysCurrentFrame
    BY DEF Init, Counters, PlaysCurrentFrame, Null
  <2>4. QED  BY <2>1, <2>2, <2>3 DEF IInv
<1>2. ASSUME IInv, [Next]_vars
      PROVE  IInv'
  <2>1. Inv /\ Content
    BY <1>2 DEF IInv
  <2>2. Inv'
    BY <1>2, <2>1, InvStep
  <2>3. Content'
    BY <1>2, <2>1, ContentKept
  <2>4. Counters' /\ PlaysCurrentFrame'
    BY <1>2, NothingPlays, PlaceKept, Zenon DEF Next
  <2>5. QED  BY <2>2, <2>3, <2>4 DEF IInv
<1>3. QED  BY <1>1, <1>2, PTL DEF Spec

(* The blocks are well-formed and distinct, the pointers are addresses or   *)
(* Null and the counters numbers, as long as no run of the file that is     *)
(* read begins with a repetition (rzx.c: struct libspectrum_rzx).           *)
THEOREM RzxTypes ==
  ASSUME RunsBeginFull
  PROVE  Spec => []TypeOK
<1>1. ASSUME IInv
      PROVE  TypeOK
  <2>1. Inv /\ Good(blocks) /\ Counters
    BY <1>1 DEF IInv, Content, Good
  <2>2. \A i \in DOMAIN blocks : BlockOK(blocks[i]) /\ blocks[i].id \in Nat
    BY <2>1, GoodIsOK DEF Good
  <2>3. current_input \in Nat
    <3>1. CASE current_input = Null
      BY <3>1 DEF Null
    <3>2. CASE current_input # Null
      BY <2>1, <2>2, <3>2 DEF Inv, Points
    <3>3. QED  BY <3>1, <3>2
  <2>4. current_block \in Nat
    BY <2>1, <2>3 DEF Inv, Null
  <2>5. QED  BY <2>1, <2>2, <2>3, <2>4 DEF TypeOK, Inv, Distinct, Counters
<1>2. QED  BY <1>1, RecordingInvariance, PTL

(* Under the same hypothesis every byte that libspectrum_rzx_playback hands *)
(* out is one of the current frame or of the frame that it repeats, however *)
(* many repetitions, merges, blocks and files lie before it.                *)
THEOREM PlaybackFaithful ==
  ASSUME RunsBeginFull
  PROVE  Spec => []PlaysCurrentFrame
<1>1. IInv => PlaysCurrentFrame
  BY DEF IInv
<1>2. QED  BY <1>1, RecordingInvariance, PTL

----------------------------------------------------------------------------
(* The frames that were recorded.                                           *)

(* A frame for each frame.                                                  *)
LEMMA DecodedShape ==
  ASSUME NEW frames, Whole(frames)
  PROVE  /\ IsList(Decoded(frames)) /\ Len(Decoded(frames)) = Len(frames)
         /\ \A i \in 1..Len(frames) :
              Decoded(frames)[i] = [instructions |-> frames[i].instructions,
                                    in |-> frames[SourceOf(frames, i)].in]
<1> DEFINE new == Decoded(frames)
<1>1. Len(frames) \in Nat /\ DOMAIN frames = 1..Len(frames)
  BY DEF Whole
<1>2. /\ new = [i \in 1..Len(frames) |-> new[i]]
      /\ \A i \in 1..Len(frames) :
           new[i] = [instructions |-> frames[i].instructions,
                     in |-> frames[SourceOf(frames, i)].in]
  BY <1>1 DEF Decoded
<1> HIDE DEF new
<1>3. IsList(new) /\ Len(new) = Len(frames)
  BY <1>1, <1>2, Function, Zenon
<1>4. QED  BY <1>2, <1>3 DEF new

(* A repetition is of a frame before it, whatever comes behind.             *)
LEMMA SourceAgrees ==
  ASSUME NEW f, Whole(f), NEW g, NEW i \in 1..Len(f), \A k \in 1..i : g[k] = f[k]
  PROVE  SourceOf(g, i) = SourceOf(f, i) /\ g[SourceOf(f, i)] = f[SourceOf(f, i)]
<1> DEFINE j == SourceOf(f, i)
<1>1. j \in 1..i /\ Repeated(f, i, j)
  BY SourceFound, Zenon
<1> HIDE DEF j
<1>2. i \in Nat /\ \A k \in j + 1..i : k \in 1..i
  BY <1>1 DEF Whole
<1>3. Repeated(g, i, j)
  BY <1>1, <1>2 DEF Repeated
<1>4. SourceOf(g, i) = j
  BY <1>1, <1>2, <1>3, SourceIs, Zenon
<1>5. QED  BY <1>1, <1>4 DEF j

(* Runs that are joined keep their frames.                                  *)
LEMMA DecodedJoined ==
  ASSUME NEW f, Whole(f), NEW g, Whole(g)
  PROVE  Decoded(f \o g) = Decoded(f) \o Decoded(g)
<1> DEFINE h == f \o g
<1>1. /\ Whole(h) /\ Len(h) = Len(f) + Len(g)
      /\ \A i \in 1..Len(f) + Len(g) : h[i] = IF i <= Len(f) THEN f[i] ELSE g[i - Len(f)]
  BY FramesJoined
<1> HIDE DEF h
<1>2. Len(f) \in Nat /\ Len(g) \in Nat
  BY DEF Whole
<1>3. /\ IsList(Decoded(h)) /\ Len(Decoded(h)) = Len(h)
      /\ \A i \in 1..Len(h) : Decoded(h)[i] = [instructions |-> h[i].instructions,
                                               in |-> h[SourceOf(h, i)].in]
  BY <1>1, DecodedShape
<1>4. /\ IsList(Decoded(f)) /\ Len(Decoded(f)) = Len(f)
      /\ \A i \in 1..Len(f) : Decoded(f)[i] = [instructions |-> f[i].instructions,
                                               in |-> f[SourceOf(f, i)].in]
  BY DecodedShape
<1>5. /\ IsList(Decoded(g)) /\ Len(Decoded(g)) = Len(g)
      /\ \A i \in 1..Len(g) : Decoded(g)[i] = [instructions |-> g[i].instructions,
                                               in |-> g[SourceOf(g, i)].in]
  BY DecodedShape
<1> DEFINE both == Decoded(f) \o Decoded(g)
<1>6. /\ IsList(both) /\ Len(both) = Len(Decoded(f)) + Len(Decoded(g))
      /\ \A i \in 1..Len(Decoded(f)) + Len(Decoded(g)) :
           both[i] = IF i <= Len(Decoded(f)) THEN Decoded(f)[i]
                     ELSE Decoded(g)[i - Len(Decoded(f))]
  BY <1>4, <1>5, ConcatShape, Zenon
<1> HIDE DEF both
<1>7. ASSUME NEW i \in 1..Len(h)
      PROVE  Decoded(h)[i] = both[i]
  <2>1. CASE i <= Len(f)
    <3>1. i \in 1..Len(f) /\ h[i] = f[i] /\ \A k \in 1..i : h[k] = f[k]
      BY <1>1, <1>2, <2>1
    <3>2. SourceOf(h, i) = SourceOf(f, i) /\ h[SourceOf(f, i)] = f[SourceOf(f, i)]
      BY <3>1, SourceAgrees, Zenon
    <3>3. Decoded(h)[i] = Decoded(f)[i]
      BY <1>3, <1>4, <3>1, <3>2
    <3>4. both[i] = Decoded(f)[i]
      BY <1>1, <1>2, <1>4, <1>5, <1>6, <2>1
    <3>5. QED  BY <3>3, <3>4
  <2>2. CASE i > Len(f)
    <3> DEFINE n == i - Len(f)
               j == SourceOf(g, n)
    <3>1. n \in 1..Len(g) /\ i \in Nat /\ ~(i <= Len(f))
      BY <1>1, <1>2, <2>2
    <3>2. j \in 1..n /\ Repeated(g, n, j)
      BY <3>1, SourceFound, Zenon
    <3>3. h[i] = g[n]
      BY <1>1, <2>2, <3>1
    <3>4. both[i] = Decoded(g)[n]
      BY <1>1, <1>4, <1>5, <1>6, <3>1
    <3> HIDE DEF j
    <3>5. Len(f) + j \in 1..i /\ h[Len(f) + j] = g[j]
      BY <1>1, <1>2, <3>1, <3>2
    <3>6. \A k \in Len(f) + j + 1..i :
             k - Len(f) \in j + 1..n /\ h[k] = g[k - Len(f)]
      BY <1>1, <1>2, <3>1, <3>2
    <3> HIDE DEF n
    <3>7. Repeated(h, i, Len(f) + j)
      BY <3>2, <3>5, <3>6 DEF Repeated
    <3>8. SourceOf(h, i) = Len(f) + j
      BY <3>1, <3>5, <3>7, SourceIs, Zenon
    <3>9. Decoded(h)[i] = Decoded(g)[n]
      BY <1>3, <1>5, <3>1, <3>3, <3>5, <3>8 DEF j
    <3>10. QED  BY <3>4, <3>9
  <2>3. i <= Len(f) \/ i > Len(f)
    BY <1>1, <1>2
  <2>4. QED  BY <2>1, <2>2, <2>3, Zenon
<1>8. Decoded(h) = both
  BY <1>1, <1>3, <1>4, <1>5, <1>6, <1>7, SameList
<1>9. QED  BY <1>8 DEF h, both

----------------------------------------------------------------------------
(* Blocks and what they stand for.                                          *)

(* An item is of the kind of its block.                                     *)
LEMMA ItemIs ==
  ASSUME NEW b, GoodBlock(b)
  PROVE  /\ Item(b).type = b.type
         /\ IsInput(b) => Item(b) = Log!Run(b.tstates, Decoded(b.frames))
         /\ IsSnapshot(b) => Item(b) = Log!Snap(b.snap) /\ b.snap \in Snaps
         /\ IsInput(b) \/ IsSnapshot(b) \/ b.type = "SIGN"
<1>1. b.type \in {"INPUT", "SNAP", "SIGN"}
  BY DEF GoodBlock, InputBlocks, SnapBlocks, SignBlocks
<1>2. IsSnapshot(b) => b.snap \in Snaps
  BY DEF GoodBlock, InputBlocks, SnapBlocks, SignBlocks, IsSnapshot
<1>3. QED  BY <1>1, <1>2 DEF Item, IsInput, IsSnapshot, Log!Run, Log!Snap

(* libspectrum_rzx_store_frame adds the frame as it was handed over.        *)
LEMMA StoreAdds ==
  ASSUME NEW b, GoodBlock(b), Recorded(b), NEW n \in Instructions, NEW in \in InBytes
  PROVE  Item(StoreInto(b, n, in)) =
           [Item(b) EXCEPT !.frames = Append(@, [instructions |-> n, in |-> in])]
<1> DEFINE frames == b.frames
           f == IF Repeats(b, in) THEN [instructions |-> n, in |-> <<>>, repeat_last |-> TRUE]
                ELSE [instructions |-> n, in |-> in, repeat_last |-> FALSE]
           c == StoreInto(b, n, in)
           x == [instructions |-> n, in |-> in]
           new == Append(frames, f)
<1>1. IsInput(b)
  BY DEF Recorded, RecordedBlock, IsInput
<1>2. /\ GoodBlock(c) /\ IsInput(c) /\ c.tstates = b.tstates /\ c.frames = new
  BY <1>1, StoreGood
<1>3. Whole(frames) /\ Whole(new)
  BY <1>1, <1>2, GoodInput
<1>4. Len(frames) \in Nat /\ DOMAIN frames = 1..Len(frames) /\ IsList(frames)
  BY <1>3 DEF Whole, IsList
<1>5. /\ Len(new) = Len(frames) + 1 /\ new[Len(frames) + 1] = f
      /\ \A i \in 1..Len(frames) : new[i] = frames[i]
  <2> HIDE DEF f, frames
  <2>1. IsList(frames)
    BY <1>4
  <2>2. QED  BY <2>1, AppendShape, SMT
<1> HIDE DEF new
<1>6. new[SourceOf(new, Len(frames) + 1)].in = in /\ new[Len(frames) + 1].instructions = n
  <2>1. CASE Repeats(b, in)
    <3> DEFINE r == b.non_repeat + 1
    <3>1. /\ r \in 1..Len(frames) /\ ~frames[r].repeat_last
          /\ \A i \in r + 1..Len(frames) : frames[i].repeat_last
          /\ in = frames[r].in
      BY <1>4, <2>1 DEF Repeats, Recorded, RecordedBlock
    <3>2. f.repeat_last /\ f.instructions = n
      BY <2>1
    <3> HIDE DEF r, f, frames
    <3>3. \A i \in r + 1..Len(frames) + 1 :
             i = Len(frames) + 1 \/ (i \in r + 1..Len(frames) /\ i \in 1..Len(frames))
      BY <1>4, <3>1
    <3>4. Repeated(new, Len(frames) + 1, r)
      BY <1>5, <3>1, <3>2, <3>3 DEF Repeated
    <3>5. r \in 1..Len(frames) + 1 /\ Len(frames) + 1 \in Nat
      BY <1>4, <3>1
    <3>6. SourceOf(new, Len(frames) + 1) = r
      BY <3>4, <3>5, SourceIs, Zenon
    <3>7. QED  BY <1>5, <3>1, <3>2, <3>6
  <2>2. CASE ~Repeats(b, in)
    <3>1. ~f.repeat_last /\ f.in = in /\ f.instructions = n
      BY <2>2
    <3> HIDE DEF f, frames
    <3>2. /\ Len(frames) + 1 \in 1..Len(frames) + 1 /\ Len(frames) + 1 \in Nat
          /\ Len(frames) + 1 + 1..Len(frames) + 1 = {}
      BY <1>4
    <3>3. Repeated(new, Len(frames) + 1, Len(frames) + 1)
      BY <1>5, <3>1, <3>2 DEF Repeated
    <3>4. SourceOf(new, Len(frames) + 1) = Len(frames) + 1
      BY <3>2, <3>3, SourceIs, Zenon
    <3>5. QED  BY <1>5, <3>1, <3>4
  <2>3. QED  BY <2>1, <2>2
<1> HIDE DEF f, frames
<1>7. /\ IsList(Decoded(frames)) /\ Len(Decoded(frames)) = Len(frames)
      /\ \A i \in 1..Len(frames) : Decoded(frames)[i] = [instructions |-> frames[i].instructions,
                                                         in |-> frames[SourceOf(frames, i)].in]
  BY <1>3, DecodedShape
<1>8. /\ IsList(Decoded(new)) /\ Len(Decoded(new)) = Len(new)
      /\ \A i \in 1..Len(new) : Decoded(new)[i] = [instructions |-> new[i].instructions,
                                                   in |-> new[SourceOf(new, i)].in]
  BY <1>3, DecodedShape
<1> HIDE DEF x
<1> DEFINE both == Append(Decoded(frames), x)
<1>9. /\ IsList(both) /\ Len(both) = Len(Decoded(frames)) + 1
      /\ \A i \in 1..Len(Decoded(frames)) : both[i] = Decoded(frames)[i]
      /\ both[Len(Decoded(frames)) + 1] = x
  BY <1>7, AppendShape, Zenon
<1> HIDE DEF both
<1>10. ASSUME NEW i \in 1..Len(new)
       PROVE  Decoded(new)[i] = both[i]
  <2>1. CASE i \in 1..Len(frames)
    <3>1. \A k \in 1..i : new[k] = frames[k]
      BY <1>4, <1>5, <2>1
    <3>2. SourceOf(new, i) = SourceOf(frames, i) /\ new[SourceOf(frames, i)] = frames[SourceOf(frames, i)]
      BY <1>3, <2>1, <3>1, SourceAgrees, Zenon
    <3>3. QED  BY <1>5, <1>7, <1>8, <1>9, <2>1, <3>2
  <2>2. CASE i = Len(frames) + 1
    BY <1>6, <1>7, <1>8, <1>9, <2>2 DEF x
  <2>3. i \in 1..Len(frames) \/ i = Len(frames) + 1
    BY <1>4, <1>5
  <2>4. QED  BY <2>1, <2>2, <2>3, Zenon
<1>11. Decoded(new) = both
  BY <1>5, <1>7, <1>8, <1>9, <1>10, SameList
<1>12. Item(b) = Log!Run(b.tstates, Decoded(frames)) /\ Item(c) = Log!Run(c.tstates, Decoded(new))
  BY <1>1, <1>2, ItemIs DEF frames
<1> HIDE DEF c
<1>13. Item(c) = [Item(b) EXCEPT !.frames = both]
  BY <1>2, <1>11, <1>12 DEF Log!Run
<1>14. Item(b).frames = Decoded(frames)
  BY <1>12 DEF Log!Run
<1>15. QED  BY <1>13, <1>14 DEF c, both, x

(* libspectrum_rzx_write and libspectrum_rzx_read: what is read is what was *)
(* written, wherever the block is.                                          *)
LEMMA ReadIsWritten ==
  ASSUME NEW b, GoodBlock(b), IsStored(b)
  PROVE  Item(ReadBlock(Null, WrittenBlock(b))) = Item(b)
<1>1. CASE IsInput(b)
  <2> DEFINE frames == [i \in DOMAIN b.frames |-> WrittenFrame(b.frames[i])]
             read == [i \in DOMAIN frames |-> ReadFrame(frames[i])]
  <2>1. Whole(b.frames) /\ b.frames \in Seq(Frame)
    BY <1>1, GoodInput DEF Whole
  <2>2. ASSUME NEW i \in DOMAIN b.frames
        PROVE  ReadFrame(WrittenFrame(b.frames[i])) = b.frames[i]
    <3> DEFINE f == b.frames[i]
    <3>1. /\ f \in Frame
          /\ IF f.repeat_last THEN f.in = <<>> ELSE Len(f.in) < RepeatFrame
      BY <2>1, <2>2 DEF Whole
    <3> HIDE DEF f
    <3>2. Len(f.in) \in Nat /\ RepeatFrame \in Nat /\ f.repeat_last \in BOOLEAN
          /\ f = [instructions |-> f.instructions, in |-> f.in, repeat_last |-> f.repeat_last]
      BY <3>1, RzxAssumption DEF Frame
    <3>3. ReadFrame(WrittenFrame(f)) = f
      <4>1. CASE f.repeat_last
        <5>1. f.repeat_last = TRUE
          BY <3>2, <4>1
        <5>2. ReadFrame(WrittenFrame(f)) =
                [instructions |-> f.instructions, in |-> <<>>, repeat_last |-> TRUE]
          BY <4>1 DEF ReadFrame, WrittenFrame
        <5>3. f.in = <<>>
          BY <3>1, <4>1
        <5>4. QED  BY <3>2, <5>1, <5>2, <5>3
      <4>2. CASE ~f.repeat_last
        <5>1. f.repeat_last = FALSE
          BY <3>2, <4>2
        <5>2. Len(f.in) # RepeatFrame
          BY <3>1, <3>2, <4>2
        <5>3. ReadFrame(WrittenFrame(f)) =
                [instructions |-> f.instructions, in |-> f.in, repeat_last |-> FALSE]
          BY <4>2, <5>2 DEF ReadFrame, WrittenFrame
        <5>4. QED  BY <3>2, <5>1, <5>3
      <4>3. QED  BY <4>1, <4>2
    <3>4. QED  BY <3>3 DEF f
  <2>3. read = b.frames
    <3>1. read = [i \in DOMAIN b.frames |-> b.frames[i]]
      BY <2>2
    <3>2. b.frames = [i \in DOMAIN b.frames |-> b.frames[i]]
      BY <2>1
    <3>3. QED  BY <3>1, <3>2
  <2>4. WrittenBlock(b) = [type |-> "INPUT", tstates |-> b.tstates, frames |-> frames]
    BY <1>1 DEF WrittenBlock
  <2> HIDE DEF frames
  <2>5. ReadBlock(Null, WrittenBlock(b)) = InputBlock(Null, b.tstates, read, Garbage)
    BY <2>4 DEF ReadBlock
  <2> HIDE DEF read
  <2>6. QED  BY <1>1, <2>3, <2>5 DEF Item, InputBlock, IsInput
<1>2. CASE IsSnapshot(b)
  <2>1. WrittenBlock(b) = [type |-> "SNAP", snap |-> b.snap]
    BY <1>2 DEF WrittenBlock, IsInput, IsSnapshot
  <2>2. ReadBlock(Null, WrittenBlock(b)) = SnapBlock(Null, b.snap, FALSE)
    BY <2>1 DEF ReadBlock
  <2>3. QED  BY <1>2, <2>2 DEF Item, SnapBlock, IsSnapshot
<1>3. QED  BY <1>1, <1>2 DEF IsStored

(* The address does not show.                                               *)
LEMMA AddressHidden ==
  \A id, w : Item(ReadBlock(id, w)) = Item(ReadBlock(Null, w))
BY DEF ReadBlock, InputBlock, SnapBlock, Item

----------------------------------------------------------------------------
(* Lists of blocks and what they stand for.                                 *)

(* An item for each block.                                                  *)
LEMMA ItemsShape ==
  ASSUME NEW list, IsList(list)
  PROVE  /\ IsList(Items(list)) /\ Len(Items(list)) = Len(list)
         /\ \A i \in 1..Len(list) : Items(list)[i] = Item(list[i])
<1> DEFINE new == Items(list)
<1>1. Len(list) \in Nat /\ DOMAIN list = 1..Len(list)
  BY ListShape
<1>2. /\ new = [i \in 1..Len(list) |-> new[i]]
      /\ \A i \in 1..Len(list) : new[i] = Item(list[i])
  BY <1>1 DEF Items
<1> HIDE DEF new
<1>3. IsList(new) /\ Len(new) = Len(list)
  BY <1>1, <1>2, Function, Zenon
<1>4. QED  BY <1>2, <1>3 DEF new

(* An edit of the blocks is the same edit of the items.                     *)
LEMMA ItemsEdited ==
  ASSUME NEW list, IsList(list)
  PROVE  /\ \A b : Items(Append(list, b)) = Append(Items(list), Item(b))
         /\ \A b : \A k \in 1..Len(list) + 1 :
              Items(InsertAt(list, k, b)) = InsertAt(Items(list), k, Item(b))
         /\ \A k \in 1..Len(list) :
              /\ Items(RemoveAt(list, k)) = RemoveAt(Items(list), k)
              /\ Items(SubSeq(list, 1, k)) = SubSeq(Items(list), 1, k)
         /\ \A more : IsList(more) => Items(list \o more) = Items(list) \o Items(more)
<1> DEFINE items == Items(list)
<1>1. Len(list) \in Nat /\ DOMAIN list = 1..Len(list)
  BY ListShape
<1>2. /\ IsList(items) /\ Len(items) = Len(list)
      /\ \A i \in 1..Len(list) : items[i] = Item(list[i])
  BY ItemsShape
<1> HIDE DEF items
<1>3. ASSUME NEW b
      PROVE  Items(Append(list, b)) = Append(items, Item(b))
  <2> DEFINE A == Append(list, b)
             B == Append(items, Item(b))
             C == Items(A)
  <2>1. /\ IsList(A) /\ Len(A) = Len(list) + 1
        /\ \A i \in 1..Len(list) : A[i] = list[i]
        /\ A[Len(list) + 1] = b
    BY AppendShape, Zenon
  <2>2. /\ IsList(B) /\ Len(B) = Len(items) + 1
        /\ \A i \in 1..Len(items) : B[i] = items[i]
        /\ B[Len(items) + 1] = Item(b)
    BY <1>2, AppendShape, Zenon
  <2>3. IsList(C) /\ Len(C) = Len(A) /\ \A i \in 1..Len(A) : C[i] = Item(A[i])
    BY <2>1, ItemsShape
  <2> HIDE DEF A, B, C
  <2>4. \A i \in 1..Len(A) : i \in 1..Len(list) \/ i = Len(list) + 1
    BY <1>1, <2>1
  <2>5. \A i \in 1..Len(C) : C[i] = B[i]
    BY <1>2, <2>1, <2>2, <2>3, <2>4
  <2>6. C = B
    BY <1>2, <2>1, <2>2, <2>3, <2>5, SameList
  <2>7. QED  BY <2>6 DEF A, B, C
<1>4. ASSUME NEW b, NEW k \in 1..Len(list) + 1
      PROVE  Items(InsertAt(list, k, b)) = InsertAt(items, k, Item(b))
  <2> DEFINE A == InsertAt(list, k, b)
             B == InsertAt(items, k, Item(b))
             C == Items(A)
  <2>1. /\ IsList(A) /\ Len(A) = Len(list) + 1
        /\ \A i \in 1..Len(list) + 1 :
             A[i] = IF i < k THEN list[i] ELSE IF i = k THEN b ELSE list[i - 1]
    BY InsertShape
  <2>2. /\ IsList(B) /\ Len(B) = Len(items) + 1
        /\ \A i \in 1..Len(items) + 1 :
             B[i] = IF i < k THEN items[i] ELSE IF i = k THEN Item(b) ELSE items[i - 1]
    BY <1>2, InsertShape
  <2>3. IsList(C) /\ Len(C) = Len(A) /\ \A i \in 1..Len(A) : C[i] = Item(A[i])
    BY <2>1, ItemsShape
  <2> HIDE DEF A, B, C
  <2>4. \A i \in 1..Len(A) : /\ i < k => i \in 1..Len(list)
                             /\ i # k /\ ~(i < k) => i - 1 \in 1..Len(list)
    BY <1>1, <2>1
  <2>5. ASSUME NEW i \in 1..Len(A)
        PROVE  C[i] = B[i]
    <3>1. CASE i < k
      BY <1>2, <2>1, <2>2, <2>3, <2>4, <3>1
    <3>2. CASE i = k
      BY <1>1, <1>2, <2>1, <2>2, <2>3, <2>4, <3>2
    <3>3. CASE i # k /\ ~(i < k)
      BY <1>2, <2>1, <2>2, <2>3, <2>4, <3>3
    <3>4. QED  BY <3>1, <3>2, <3>3, Zenon
  <2>6. C = B
    BY <1>2, <2>1, <2>2, <2>3, <2>5, SameList
  <2>7. QED  BY <2>6 DEF A, B, C
<1>5. ASSUME NEW k \in 1..Len(list)
      PROVE  Items(RemoveAt(list, k)) = RemoveAt(items, k)
  <2> DEFINE A == RemoveAt(list, k)
             B == RemoveAt(items, k)
             C == Items(A)
  <2>1. /\ IsList(A) /\ Len(A) = Len(list) - 1
        /\ \A i \in 1..Len(list) - 1 : A[i] = IF i < k THEN list[i] ELSE list[i + 1]
    BY RemoveShape, Zenon
  <2>2. /\ IsList(B) /\ Len(B) = Len(items) - 1
        /\ \A i \in 1..Len(items) - 1 : B[i] = IF i < k THEN items[i] ELSE items[i + 1]
    <3>1. k \in 1..Len(items)
      BY <1>2
    <3>2. QED  BY <1>2, <3>1, RemoveShape, Zenon
  <2>3. IsList(C) /\ Len(C) = Len(A) /\ \A i \in 1..Len(A) : C[i] = Item(A[i])
    BY <2>1, ItemsShape
  <2> HIDE DEF A, B, C
  <2>4. \A i \in 1..Len(A) : i \in 1..Len(list) /\ i + 1 \in 1..Len(list)
    BY <1>1, <2>1
  <2>5. \A i \in 1..Len(C) : C[i] = B[i]
    BY <1>2, <2>1, <2>2, <2>3, <2>4
  <2>6. C = B
    BY <1>2, <2>1, <2>2, <2>3, <2>5, SameList
  <2>7. QED  BY <2>6 DEF A, B, C
<1>6. ASSUME NEW k \in 1..Len(list)
      PROVE  Items(SubSeq(list, 1, k)) = SubSeq(items, 1, k)
  <2> DEFINE A == SubSeq(list, 1, k)
             B == SubSeq(items, 1, k)
             C == Items(A)
  <2>0. 1 \in 1..Len(list) + 1 /\ k \in 1 - 1..Len(list) /\ k - 1 + 1 = k
        /\ \A i \in 1..k : 1 + i - 1 = i /\ i \in 1..Len(list)
    BY <1>1
  <2>1. IsList(A) /\ Len(A) = k - 1 + 1 /\ \A i \in 1..k - 1 + 1 : A[i] = list[1 + i - 1]
    BY <2>0, SliceShape, Zenon
  <2>2. IsList(B) /\ Len(B) = k - 1 + 1 /\ \A i \in 1..k - 1 + 1 : B[i] = items[1 + i - 1]
    <3>1. 1 \in 1..Len(items) + 1 /\ k \in 1 - 1..Len(items)
      BY <1>2, <2>0
    <3>2. QED  BY <1>2, <3>1, SliceShape, Zenon
  <2>3. IsList(C) /\ Len(C) = Len(A) /\ \A i \in 1..Len(A) : C[i] = Item(A[i])
    BY <2>1, ItemsShape
  <2> HIDE DEF A, B, C
  <2>4. \A i \in 1..Len(C) : C[i] = B[i]
    BY <1>2, <2>0, <2>1, <2>2, <2>3
  <2>5. C = B
    BY <2>1, <2>2, <2>3, <2>4, SameList
  <2>6. QED  BY <2>5 DEF A, B, C
<1>7. ASSUME NEW more, IsList(more)
      PROVE  Items(list \o more) = items \o Items(more)
  <2> DEFINE A == list \o more
             rest == Items(more)
             B == items \o rest
             C == Items(A)
  <2>0. IsList(rest) /\ Len(rest) = Len(more) /\ Len(more) \in Nat
        /\ \A i \in 1..Len(more) : rest[i] = Item(more[i])
    BY <1>7, ItemsShape, ListShape
  <2>1. /\ IsList(A) /\ Len(A) = Len(list) + Len(more)
        /\ \A i \in 1..Len(list) + Len(more) :
             A[i] = IF i <= Len(list) THEN list[i] ELSE more[i - Len(list)]
    BY <1>7, ConcatShape, Zenon
  <2> HIDE DEF rest
  <2>2. /\ IsList(B) /\ Len(B) = Len(items) + Len(rest)
        /\ \A i \in 1..Len(items) + Len(rest) :
             B[i] = IF i <= Len(items) THEN items[i] ELSE rest[i - Len(items)]
    BY <1>2, <2>0, ConcatShape, Zenon
  <2>3. IsList(C) /\ Len(C) = Len(A) /\ \A i \in 1..Len(A) : C[i] = Item(A[i])
    BY <2>1, ItemsShape
  <2> HIDE DEF A, B, C
  <2>4. \A i \in 1..Len(A) : /\ i <= Len(list) => i \in 1..Len(list)
                             /\ ~(i <= Len(list)) => i - Len(list) \in 1..Len(more)
    BY <1>1, <2>0, <2>1
  <2>5. ASSUME NEW i \in 1..Len(A)
        PROVE  C[i] = B[i]
    <3>1. CASE i <= Len(list)
      BY <1>2, <2>0, <2>1, <2>2, <2>3, <2>4, <3>1
    <3>2. CASE ~(i <= Len(list))
      <4> DEFINE k == i - Len(list)
      <4>1. k \in 1..Len(more) /\ rest[k] = Item(more[k])
        BY <2>0, <2>4, <3>2
      <4>2. A[i] = more[k]
        BY <2>1, <3>2
      <4>3. B[i] = rest[k]
        BY <1>2, <2>0, <2>1, <2>2, <3>2
      <4> HIDE DEF k
      <4>4. C[i] = Item(A[i])
        BY <2>3
      <4>5. QED  BY <4>1, <4>2, <4>3, <4>4, Zenon
    <3>3. QED  BY <3>1, <3>2, Zenon
  <2>6. C = B
    BY <1>2, <2>0, <2>1, <2>2, <2>3, <2>5, SameList
  <2>7. QED  BY <2>6 DEF A, B, C, rest
<1>8. QED  BY <1>3, <1>4, <1>5, <1>6, <1>7, Zenon DEF items

----------------------------------------------------------------------------
(* Members in their order.                                                  *)

(* A member above adds to the rank.                                         *)
LEMMA RankGrows ==
  ASSUME NEW N \in Nat, NEW S \in SUBSET (1..N), NEW i \in 0..N, NEW j \in S, i < j
  PROVE  /\ Rank(S, i) \in Nat /\ Rank(S, j) \in Nat /\ Rank(S, i) < Rank(S, j)
         /\ Rank(S, j) <= Cardinality(S)
<1> DEFINE A == {x \in S : x <= i}
           B == {x \in S : x <= j}
<1>1. A \in SUBSET (1..N) /\ B \in SUBSET (1..N) /\ A \cup {j} \in SUBSET B /\ j \notin A
  <2>0. j \in 1..N /\ j <= j /\ ~(j <= i)
    OBVIOUS
  <2>1. A \in SUBSET (1..N) /\ B \in SUBSET (1..N) /\ j \in B /\ j \notin A
    BY <2>0, Zenon
  <2>2. \A x \in S : x <= i => x <= j
    OBVIOUS
  <2>3. A \in SUBSET B
    BY <2>2
  <2> HIDE DEF A, B
  <2>4. QED  BY <2>1, <2>3
<1>2. B \in SUBSET S
  OBVIOUS
<1> HIDE DEF A, B
<1>3. IsFiniteSet(A) /\ Cardinality(A) \in Nat /\ IsFiniteSet(B) /\ Cardinality(B) \in Nat
      /\ IsFiniteSet(S) /\ Cardinality(S) \in Nat
  <2>1. IsFiniteSet(A) /\ Cardinality(A) \in 0..N /\ IsFiniteSet(B) /\ Cardinality(B) \in 0..N
        /\ IsFiniteSet(S) /\ Cardinality(S) \in 0..N
    BY <1>1, Finite
  <2>2. QED  BY <2>1
<1>4. Cardinality(A \cup {j}) = Cardinality(A) + 1
  <2>1. Cardinality(A \cup {j}) = IF j \in A THEN Cardinality(A) ELSE Cardinality(A)+1
    BY <1>3, FS_AddElement, Zenon
  <2>2. QED  BY <1>1, <2>1
<1>5. Cardinality(A \cup {j}) <= Cardinality(B) /\ Cardinality(B) <= Cardinality(S)
  BY <1>1, <1>2, <1>3, FS_Subset, Zenon
<1>6. Rank(S, i) = Cardinality(A) /\ Rank(S, j) = Cardinality(B)
  BY Zenon DEF Rank, A, B
<1>7. QED  BY <1>3, <1>4, <1>5, <1>6

(* Each member is the one that its rank says.                               *)
LEMMA NthIs ==
  ASSUME NEW N \in Nat, NEW S \in SUBSET (1..N), NEW i \in S
  PROVE  Rank(S, i) \in 1..Cardinality(S) /\ Nth(S, Rank(S, i)) = i
<1>1. i \in 1..N /\ 0 \in 0..N /\ 0 < i
  OBVIOUS
<1>2. Rank(S, 0) \in Nat /\ Rank(S, i) \in Nat /\ Rank(S, 0) < Rank(S, i)
      /\ Rank(S, i) <= Cardinality(S)
  BY <1>1, RankGrows, Zenon
<1>3. Cardinality(S) \in Nat
  <2>1. Cardinality(S) \in 0..N
    BY Finite
  <2>2. QED  BY <2>1
<1>4. Rank(S, i) \in 1..Cardinality(S)
  BY <1>2, <1>3
<1> DEFINE j == Nth(S, Rank(S, i))
<1>5. j \in S /\ Rank(S, j) = Rank(S, i)
  BY <1>4, NthProperties, Zenon
<1> HIDE DEF j
<1>6. j \in 0..N /\ i \in 0..N
  BY <1>5
<1>7. ~(j < i)
  <2>1. j < i => Rank(S, j) < Rank(S, i)
    BY <1>6, RankGrows, Zenon
  <2>2. QED  BY <1>2, <1>5, <2>1
<1>8. ~(i < j)
  <2>1. i < j => Rank(S, i) < Rank(S, j)
    BY <1>5, <1>6, RankGrows, Zenon
  <2>2. QED  BY <1>2, <1>5, <2>1
<1>9. QED  BY <1>4, <1>6, <1>7, <1>8 DEF j

(* All places.                                                              *)
LEMMA PickAll ==
  ASSUME NEW list, IsList(list)
  PROVE  Pick(list, DOMAIN list) = list
<1> DEFINE S == DOMAIN list
           new == Pick(list, S)
<1>1. S = 1..Len(list) /\ Len(list) \in Nat /\ Cardinality(S) = Len(list) /\ S \in SUBSET (1..Len(list))
  BY ListShape
<1>2. IsList(new) /\ DOMAIN new = 1..Cardinality(S)
  BY PickedList
<1>3. ASSUME NEW i \in 1..Len(list)
      PROVE  new[i] = list[i]
  <2>1. {j \in S : j <= i} = 1..i
    BY <1>1
  <2>2. Cardinality(1..i) = i
    <3>1. 1 \in Int /\ i \in Int /\ ~(1 > i) /\ i - 1 + 1 = i
      OBVIOUS
    <3>2. Cardinality(1..i) = IF 1 > i THEN 0 ELSE i - 1 + 1
      BY <3>1, FS_Interval, Zenon
    <3>3. QED  BY <3>1, <3>2
  <2>3. Rank(S, i) = i
    BY <2>1, <2>2 DEF Rank
  <2> HIDE DEF S
  <2>4. i \in S
    BY <1>1
  <2>5. Nth(S, i) = i
    <3>1. Nth(S, Rank(S, i)) = i
      BY <1>1, <2>4, NthIs, Zenon
    <3>2. QED  BY <2>3, <3>1
  <2>6. QED  BY <1>1, <2>5 DEF Pick
<1>4. Len(new) = Len(list)
  <2>1. DOMAIN new = 1..Len(new) /\ Len(new) \in Nat
    BY <1>2, ListShape
  <2> HIDE DEF new, S
  <2>2. QED  BY <1>1, <1>2, <2>1
<1> HIDE DEF new, S
<1>5. new = list
  BY <1>2, <1>3, <1>4, SameList
<1>6. QED  BY <1>5 DEF new, S

(* What is picked from a list cut short is a part of what is picked from    *)
(* the list.                                                                *)
LEMMA PickCut ==
  ASSUME NEW N \in Nat, NEW S \in SUBSET (1..N), NEW n \in 0..N
  PROVE  LET T == {i \in S : i <= n}
         IN  /\ Cardinality(T) = Rank(S, n) /\ Cardinality(T) \in 0..Cardinality(S)
             /\ \A i \in 1..Cardinality(T) : Nth(T, i) = Nth(S, i)
<1> DEFINE T == {i \in S : i <= n}
<1>1. Cardinality(T) = Rank(S, n)
  BY DEF Rank
<1>2. T \in SUBSET S /\ T \in SUBSET (1..N) /\ \A i \in S : i \in T <=> i <= n
  OBVIOUS
<1> HIDE DEF T
<1>3. Cardinality(T) \in Nat /\ Cardinality(S) \in Nat /\ Cardinality(T) <= Cardinality(S)
  <2>1. IsFiniteSet(S) /\ Cardinality(S) \in 0..N /\ Cardinality(T) \in 0..N
    BY <1>2, Finite
  <2>2. Cardinality(T) <= Cardinality(S)
    BY <1>2, <2>1, FS_Subset, Zenon
  <2>3. QED  BY <2>1, <2>2
<1>4. ASSUME NEW i \in 1..Cardinality(T)
      PROVE  Nth(T, i) = Nth(S, i)
  <2> DEFINE j == Nth(S, i)
  <2>1. i \in 1..Cardinality(S) /\ i \in Nat
    BY <1>3
  <2>2. j \in S /\ Rank(S, j) = i
    BY <2>1, NthProperties, Zenon
  <2> HIDE DEF j
  <2>3. j \in 1..N
    BY <2>2
  <2>4. j <= n
    <3>1. n < j => Rank(S, n) < Rank(S, j)
      BY <2>2, RankGrows, Zenon
    <3>2. QED  BY <1>1, <1>3, <2>2, <2>3, <3>1
  <2>5. \A x \in S : x <= j => x <= n
    BY <2>3, <2>4
  <2>6. {x \in T : x <= j} = {x \in S : x <= j}
    BY <1>2, <2>5, Zenon
  <2>7. Rank(T, j) = i
    BY <2>2, <2>6 DEF Rank
  <2>8. j \in T
    BY <1>2, <2>2, <2>4
  <2>9. Nth(T, Rank(T, j)) = j
    BY <1>2, <2>8, NthIs, Zenon
  <2>10. QED  BY <2>7, <2>9 DEF j
<1>5. Cardinality(T) \in 0..Cardinality(S)
  BY <1>3
<1>6. QED  BY <1>1, <1>4, <1>5 DEF T

(* The items of picked blocks are the picked items.                         *)
LEMMA PickItems ==
  ASSUME NEW list, IsList(list), NEW places \in SUBSET (DOMAIN list)
  PROVE  Items(Pick(list, places)) = Pick(Items(list), places)
<1> DEFINE A == Pick(list, places)
           items == Items(list)
           B == Pick(items, places)
           C == Items(A)
<1>1. IsList(A) /\ DOMAIN A = 1..Cardinality(places)
  BY PickedList
<1>2. /\ Len(list) \in Nat /\ DOMAIN list = 1..Len(list)
      /\ IsList(items) /\ Len(items) = Len(list) /\ DOMAIN items = DOMAIN list
      /\ \A i \in 1..Len(list) : items[i] = Item(list[i])
  BY ItemsShape, ListShape DEF Items
<1>3. \A i \in 1..Cardinality(places) : A[i] = list[Nth(places, i)]
  BY DEF Pick
<1>4. \A i \in 1..Cardinality(places) : B[i] = items[Nth(places, i)]
  BY DEF Pick
<1> HIDE DEF items
<1>5. IsList(B) /\ DOMAIN B = 1..Cardinality(places)
  BY <1>2, PickedList
<1>6. IsList(C) /\ Len(C) = Len(A) /\ \A i \in 1..Len(A) : C[i] = Item(A[i])
  BY <1>1, ItemsShape
<1> HIDE DEF A, B, C
<1>7. DOMAIN A = 1..Len(A) /\ Len(A) \in Nat /\ DOMAIN B = 1..Len(B) /\ Len(B) \in Nat
  BY <1>1, <1>5, ListShape
<1>8. Cardinality(places) \in Nat
  <2>1. Cardinality(places) \in 0..Len(list)
    BY <1>2, Finite
  <2>2. QED  BY <2>1
<1>9. Len(A) = Cardinality(places) /\ Len(B) = Cardinality(places)
  BY <1>1, <1>5, <1>7, <1>8
<1>10. ASSUME NEW i \in 1..Len(C)
       PROVE  C[i] = B[i]
  <2>1. i \in 1..Cardinality(places)
    BY <1>6, <1>9
  <2>2. Nth(places, i) \in 1..Len(list)
    BY <1>2, <2>1, NthProperties, Zenon
  <2>3. QED  BY <1>2, <1>3, <1>4, <1>6, <1>9, <2>1, <2>2
<1>11. C = B
  BY <1>5, <1>6, <1>9, <1>10, SameList
<1>12. QED  BY <1>11 DEF A, B, C, items

----------------------------------------------------------------------------
(* Finalising a recording.                                                  *)

(* The promise of Finalise, item by item: as MergeTrace, of another fold.   *)
LEMMA FinalTrace ==
  ASSUME NEW list, IsList(list)
  PROVE  \E trace :
           /\ trace[0] = <<>>
           /\ \A k \in 0..Len(list) - 1 : trace[k + 1] = Log!AddFinal(trace[k], list[k + 1])
           /\ FoldLeft(Log!AddFinal, <<>>, list) = trace[Len(list)]
<1>1. Len(list) \in Nat /\ DOMAIN list = 1..Len(list)
  BY ListShape
<1> DEFINE N == Len(list)
           Solves(f, k) ==
             f = [S \in SUBSET (1..k) |->
                    IF S = {} THEN <<>> ELSE Log!AddFinal(f[S \ {Max(S)}], list[Max(S)])]
           Solved == {k \in 0..N : \E f : Solves(f, k)}
<1>2. 0 \in Solved
  <2> DEFINE f == [S \in SUBSET (1..0) |-> <<>>]
  <2>1. \A S \in SUBSET (1..0) : S = {}
    OBVIOUS
  <2>2. Solves(f, 0)
    BY <2>1
  <2>3. QED  BY <1>1, <2>2
<1>3. ASSUME NEW k \in 0..N - 1, k \in Solved
      PROVE  k + 1 \in Solved
  <2>1. PICK f : Solves(f, k)
    BY <1>3
  <2> DEFINE g == [S \in SUBSET (1..k + 1) |->
                     IF k + 1 \in S THEN Log!AddFinal(f[S \ {k + 1}], list[k + 1]) ELSE f[S]]
  <2>2. k \in Nat /\ k + 1 \in 0..N
    BY <1>1
  <2>3. ASSUME NEW S \in SUBSET (1..k + 1)
        PROVE  g[S] = IF S = {} THEN <<>> ELSE Log!AddFinal(g[S \ {Max(S)}], list[Max(S)])
    <3>1. CASE k + 1 \in S
      <4>1. Max(S) = k + 1
        <5>1. S \in SUBSET Int /\ \A x \in S : x <= k + 1
          BY <2>2
        <5>2. QED  BY <3>1, <5>1, MaxIs, Zenon
      <4>2. S \ {k + 1} \in SUBSET (1..k + 1) /\ k + 1 \notin S \ {k + 1}
        OBVIOUS
      <4>3. g[S \ {k + 1}] = f[S \ {k + 1}]
        BY <4>2
      <4> HIDE DEF Solves
      <4>4. g[S] = Log!AddFinal(f[S \ {k + 1}], list[k + 1])
        BY <3>1
      <4> HIDE DEF g
      <4>5. QED  BY <3>1, <4>1, <4>3, <4>4
    <3>2. CASE k + 1 \notin S
      <4>1. S \in SUBSET (1..k)
        BY <2>2, <3>2
      <4>2. g[S] = f[S]
        BY <3>2
      <4>3. S # {} => S \ {Max(S)} \in SUBSET (1..k + 1) /\ k + 1 \notin S \ {Max(S)}
        BY <3>2
      <4>4. S # {} => g[S \ {Max(S)}] = f[S \ {Max(S)}]
        BY <4>3
      <4>5. f[S] = IF S = {} THEN <<>> ELSE Log!AddFinal(f[S \ {Max(S)}], list[Max(S)])
        BY <2>1, <4>1, Zenon
      <4> HIDE DEF g, Solves
      <4>6. QED  BY <4>2, <4>4, <4>5, Zenon
    <3>3. QED  BY <3>1, <3>2
  <2>4. Solves(g, k + 1)
    <3>1. g = [S \in SUBSET (1..k + 1) |-> g[S]]
      BY Zenon
    <3> HIDE DEF g
    <3>2. QED  BY <2>3, <3>1, Zenon
  <2>5. QED  BY <2>2, <2>4
<1>4. N \in Solved
  <2>1. Solved \in SUBSET Nat
    OBVIOUS
  <2> HIDE DEF Solved
  <2>2. 0..N \subseteq Solved
    BY <1>1, <1>2, <1>3, <2>1, Induction
  <2>3. QED  BY <1>1, <2>2
<1> DEFINE iter == CHOOSE f : Solves(f, N)
<1>5. Solves(iter, N)
  BY <1>4
<1>6. FoldLeft(Log!AddFinal, <<>>, list) = iter[1..N]
  BY <1>1, Zenon DEF FoldLeft, MapThenFoldSet
<1> DEFINE trace == [k \in 0..N |-> iter[1..k]]
<1>7. \A S \in SUBSET (1..N) :
        iter[S] = IF S = {} THEN <<>> ELSE Log!AddFinal(iter[S \ {Max(S)}], list[Max(S)])
  BY <1>5, Zenon
<1> HIDE DEF iter, Solves
<1>8. trace[0] = <<>>
  <2>1. 1..0 = {} /\ 1..0 \in SUBSET (1..N) /\ 0 \in 0..N
    BY <1>1
  <2>2. QED  BY <1>7, <2>1
<1>9. ASSUME NEW k \in 0..N - 1
      PROVE  trace[k + 1] = Log!AddFinal(trace[k], list[k + 1])
  <2>0. /\ 1..k + 1 \in SUBSET (1..N) /\ k + 1 \in 1..k + 1
        /\ (1..k + 1) \ {k + 1} = 1..k /\ k \in 0..N /\ k + 1 \in 0..N
        /\ 1..k + 1 \in SUBSET Int /\ \A x \in 1..k + 1 : x <= k + 1
    BY <1>1
  <2>1. Max(1..k + 1) = k + 1 /\ 1..k + 1 # {}
    BY <2>0, MaxIs, Zenon
  <2>2. iter[1..k + 1] = Log!AddFinal(iter[1..k], list[k + 1])
    BY <1>7, <2>0, <2>1, Zenon
  <2>3. QED  BY <2>0, <2>2
<1>10. trace[N] = iter[1..N]
  BY <1>1
<1> HIDE DEF trace
<1>11. QED  BY <1>6, <1>8, <1>9, <1>10, Zenon

HasSnapshot(list) == \E i \in DOMAIN list : IsSnapshot(list[i])

(* A block joins the ones before it, and so does its item.                  *)
LEMMA FinalStep ==
  ASSUME NEW acc, IsList(acc), Good(acc), NEW b, GoodBlock(b)
  PROVE  /\ HasSnapshot(MergeNext(acc, b)) <=> HasSnapshot(acc) \/ IsSnapshot(b)
         /\ ~(HasSnapshot(acc) /\ IsSnapshot(b)) =>
              Items(MergeNext(acc, b)) = Log!AddFinal(Items(acc), Item(b))
         /\ HasSnapshot(acc) /\ IsSnapshot(b) =>
              Items(acc) = Log!AddFinal(Items(acc), Item(b))
<1> DEFINE items == Items(acc)
           item == Item(b)
           new == MergeNext(acc, b)
           n == Len(acc)
<1>1. n \in Nat /\ DOMAIN acc = 1..n
  BY ListShape
<1>2. IsList(items) /\ Len(items) = n /\ \A i \in 1..n : items[i] = Item(acc[i])
  BY ItemsShape
<1>3. \A i \in 1..n : /\ Log!IsSnap(items[i]) <=> IsSnapshot(acc[i])
                      /\ Log!IsRun(items[i]) <=> IsInput(acc[i])
  BY <1>1, <1>2, ItemIs DEF Good, Log!IsSnap, Log!IsRun, IsSnapshot, IsInput
<1>4. /\ Log!IsSnap(item) <=> IsSnapshot(b)
      /\ Log!IsRun(item) <=> IsInput(b)
      /\ ~(IsInput(b) /\ IsSnapshot(b))
  BY ItemIs DEF Log!IsSnap, Log!IsRun, IsSnapshot, IsInput
<1>5. (acc # <<>> <=> n # 0) /\ (items # <<>> <=> n # 0)
  <2>1. PICK S : acc \in Seq(S)
    BY DEF IsList
  <2>2. PICK R : items \in Seq(R)
    BY <1>2 DEF IsList
  <2> HIDE DEF items
  <2>3. QED  BY <1>2, <2>1, <2>2, EmptySeq
<1>6. n # 0 => n \in 1..n /\ (Log!IsRun(Log!Last(items)) <=> IsInput(Last(acc)))
  BY <1>1, <1>2, <1>3 DEF Last, Log!Last
<1>7. HasSnapshot(acc) <=> \E i \in 1..Len(items) : Log!IsSnap(items[i])
  BY <1>1, <1>2, <1>3, Zenon DEF HasSnapshot
<1> HIDE DEF items, item
<1>8. HasSnapshot(acc) /\ IsSnapshot(b) => items = Log!AddFinal(items, item)
  BY <1>4, <1>7, Zenon DEF Log!AddFinal
<1>9. CASE n # 0 /\ IsInput(b) /\ IsInput(Last(acc))
  <2> DEFINE a == acc[n]
             c == Merge(a, b)
             want == [items EXCEPT ![n].frames = items[n].frames \o item.frames]
             have == Items(new)
  <2>1. Last(acc) = a /\ GoodBlock(a) /\ IsInput(a)
    BY <1>1, <1>6, <1>9 DEF Last, Good
  <2>2. /\ GoodBlock(c) /\ IsInput(c) /\ c.frames = a.frames \o b.frames /\ c.tstates = a.tstates
    BY <1>9, <2>1, MergeGood
  <2>3. new = [acc EXCEPT ![n] = c]
    BY <1>5, <1>9, Zenon DEF MergeNext
  <2>4. Item(c) = [Item(a) EXCEPT !.frames = Item(a).frames \o item.frames]
    <3>1. Whole(a.frames) /\ Whole(b.frames)
      BY <1>9, <2>1, GoodInput
    <3>2. Decoded(a.frames \o b.frames) = Decoded(a.frames) \o Decoded(b.frames)
      BY <3>1, DecodedJoined
    <3>3. /\ Item(a) = Log!Run(a.tstates, Decoded(a.frames))
          /\ item = Log!Run(b.tstates, Decoded(b.frames))
          /\ Item(c) = Log!Run(c.tstates, Decoded(c.frames))
      BY <1>9, <2>1, <2>2, ItemIs DEF item
    <3> HIDE DEF a, c
    <3>4. /\ Item(c) = Log!Run(a.tstates, Decoded(a.frames) \o Decoded(b.frames))
          /\ Item(a).frames = Decoded(a.frames) /\ item.frames = Decoded(b.frames)
      <4>1. Decoded(c.frames) = Decoded(a.frames) \o Decoded(b.frames)
        BY <2>2, <3>2, Zenon
      <4>2. Item(c) = Log!Run(a.tstates, Decoded(a.frames) \o Decoded(b.frames))
        BY <2>2, <3>3, <4>1, Zenon
      <4>3. Item(a).frames = Decoded(a.frames) /\ item.frames = Decoded(b.frames)
        BY <3>3 DEF Log!Run
      <4>4. QED  BY <4>2, <4>3
    <3> DEFINE frames == Item(a).frames \o item.frames
    <3>5. Item(c) = Log!Run(a.tstates, frames)
      <4>1. Decoded(a.frames) \o Decoded(b.frames) = frames
        BY <3>4
      <4> HIDE DEF frames
      <4>2. QED  BY <3>4, <4>1
    <3> HIDE DEF frames
    <3>6. Item(c) = [Item(a) EXCEPT !.frames = frames]
      BY <3>3, <3>5 DEF Log!Run
    <3>7. QED  BY <3>6 DEF frames
  <2> HIDE DEF a, c, new
  <2>5. /\ IsList(new) /\ Len(new) = n /\ DOMAIN new = 1..n
        /\ \A i \in 1..n : new[i] = IF i = n THEN c ELSE acc[i]
    <3>1. \A i \in 1..n : new[i] = IF i = n THEN c ELSE acc[i]
      BY <1>1, <2>3
    <3>2. new = [i \in 1..n |-> new[i]]
      BY <1>1, <2>3
    <3>3. IsList(new) /\ Len(new) = n /\ DOMAIN new = 1..n
      BY <1>1, <3>2, Function, Zenon
    <3>4. QED  BY <3>1, <3>3
  <2>6. IsList(have) /\ Len(have) = n /\ \A i \in 1..n : have[i] = Item(new[i])
    BY <2>5, ItemsShape
  <2>7. DOMAIN items = 1..n
    BY <1>2, ListShape
  <2>8. /\ IsList(want) /\ Len(want) = n
        /\ \A i \in 1..n : want[i] = IF i = n THEN [items[n] EXCEPT !.frames = items[n].frames \o item.frames]
                                     ELSE items[i]
    <3>1. \A i \in 1..n : want[i] = IF i = n THEN [items[n] EXCEPT !.frames = items[n].frames \o item.frames]
                                    ELSE items[i]
      BY <2>7
    <3>2. want = [i \in 1..n |-> want[i]]
      BY <2>7
    <3> HIDE DEF want
    <3>3. IsList(want) /\ Len(want) = n
      BY <1>1, <3>2, Function, Zenon
    <3>4. QED  BY <3>1, <3>3
  <2>9. items[n] = Item(a)
    BY <1>2, <1>6, <1>9 DEF a
  <2>10. Log!AddFinal(items, item) = want
    <3>1. ~Log!IsSnap(item) /\ items # <<>> /\ Log!IsRun(item) /\ Log!IsRun(Log!Last(items))
      BY <1>4, <1>5, <1>6, <1>9
    <3>2. Log!AddFinal(items, item) = [items EXCEPT ![Len(items)].frames = @ \o item.frames]
      BY <3>1, Zenon DEF Log!AddFinal
    <3>3. QED  BY <1>2, <3>2
  <2> HIDE DEF want, have
  <2>11. ASSUME NEW i \in 1..n PROVE have[i] = want[i]
    <3>1. /\ have[i] = Item(new[i]) /\ new[i] = (IF i = n THEN c ELSE acc[i])
          /\ i # n => want[i] = items[i] /\ items[i] = Item(acc[i])
      BY <1>2, <2>5, <2>6, <2>8, Zenon
    <3>2. CASE i = n
      <4>1. want[i] = [items[n] EXCEPT !.frames = items[n].frames \o item.frames]
        BY <2>8, <3>2, Zenon
      <4>2. have[i] = Item(c)
        BY <3>1, <3>2, Zenon
      <4>3. QED  BY <2>4, <2>9, <4>1, <4>2, Zenon
    <3>3. CASE i # n
      BY <3>1, <3>3, Zenon
    <3>4. QED  BY <3>2, <3>3
  <2>12. have = want
    BY <2>6, <2>8, <2>11, SameList
  <2>13. HasSnapshot(new) <=> HasSnapshot(acc)
    <3>1. ~IsSnapshot(c) /\ ~IsSnapshot(acc[n])
      BY <2>1, <2>2 DEF IsInput, IsSnapshot, a
    <3>2. \A i \in 1..n : IsSnapshot(new[i]) <=> IsSnapshot(acc[i])
      BY <2>5, <3>1
    <3>3. QED  BY <1>1, <2>5, <3>2, Zenon DEF HasSnapshot
  <2>14. QED  BY <1>4, <1>8, <1>9, <2>10, <2>12, <2>13 DEF have, new, items, item
<1>10. CASE ~(n # 0 /\ IsInput(b) /\ IsInput(Last(acc)))
  <2>1. new = Append(acc, b)
    BY <1>5, <1>10, Zenon DEF MergeNext
  <2> HIDE DEF new
  <2>2. Items(new) = Append(items, item)
    BY <2>1, ItemsEdited, Zenon DEF items, item
  <2>3. ASSUME ~(HasSnapshot(acc) /\ IsSnapshot(b))
        PROVE  Log!AddFinal(items, item) = Append(items, item)
    <3>1. ~(items # <<>> /\ Log!IsRun(item) /\ Log!IsRun(Log!Last(items)))
      BY <1>4, <1>5, <1>6, <1>10, Zenon
    <3>2. QED  BY <1>4, <1>7, <2>3, <3>1, Zenon DEF Log!AddFinal
  <2>4. /\ IsList(new) /\ Len(new) = n + 1
        /\ \A i \in 1..n : new[i] = acc[i]
        /\ new[n + 1] = b
    BY <2>1, AppendShape
  <2>5. DOMAIN new = 1..n + 1
    BY <2>4, ListShape
  <2>6. HasSnapshot(new) <=> HasSnapshot(acc) \/ IsSnapshot(b)
    <3>1. \A i \in 1..n + 1 : i \in 1..n \/ i = n + 1
      BY <1>1
    <3>2. n + 1 \in 1..n + 1 /\ \A i \in 1..n : i \in 1..n + 1
      BY <1>1
    <3>3. QED  BY <1>1, <2>4, <2>5, <3>1, <3>2 DEF HasSnapshot
  <2>7. QED  BY <1>8, <2>2, <2>3, <2>6 DEF new, items, item
<1>11. QED  BY <1>9, <1>10

(* The operators of the library mean the same in the module Recording.      *)
LEMMA LogOperators ==
  /\ \A list, k, b : Log!InsertAt(list, k, b) = InsertAt(list, k, b)
  /\ \A list, k : Log!RemoveAt(list, k) = RemoveAt(list, k)
  /\ \A list, S : Log!Pick(list, S) = Pick(list, S)
  /\ \A list : Log!FoldLeft(Log!AddFinal, <<>>, list) = FoldLeft(Log!AddFinal, <<>>, list)
<1>1. \A list, k, b : Log!InsertAt(list, k, b) = InsertAt(list, k, b)
  BY Zenon DEF Log!InsertAt, InsertAt
<1>2. \A list, k : Log!RemoveAt(list, k) = RemoveAt(list, k)
  BY Zenon DEF Log!RemoveAt, RemoveAt
<1>3. \A S : Log!Cardinality(S) = Cardinality(S)
  BY Zenon DEF Log!Cardinality, Cardinality
<1>4. \A list, S : Log!Pick(list, S) = Pick(list, S)
  <2>1. \A S, n : Log!Nth(S, n) = Nth(S, n)
    BY <1>3, Zenon DEF Log!Nth, Nth
  <2>2. QED  BY <1>3, <2>1 DEF Log!Pick, Pick
<1>5. \A list : Log!FoldLeft(Log!AddFinal, <<>>, list) = FoldLeft(Log!AddFinal, <<>>, list)
  BY Zenon DEF Log!FoldLeft, FoldLeft, Log!MapThenFoldSet, MapThenFoldSet, Log!Max, Max
<1>6. QED  BY <1>1, <1>2, <1>4, <1>5

(* libspectrum_rzx_finalise keeps every frame and the first snapshot.       *)
LEMMA FinalItems ==
  ASSUME NEW list, IsList(list), Good(list)
  PROVE  Items(FoldLeft(MergeNext, <<>>, OneSnapshot(list)))
           = FoldLeft(Log!AddFinal, <<>>, Items(list))
<1> DEFINE N == Len(list)
           first == SelectInSeq(list, IsSnapshot)
           K == {i \in DOMAIN list : IsSnapshot(list[i]) => i = first}
           one == OneSnapshot(list)
           items == Items(list)
<1>1. N \in Nat /\ DOMAIN list = 1..N
  BY ListShape
<1>2. \A i \in 1..N : IsSnapshot(list[i]) => first \in 1..i /\ IsSnapshot(list[first])
  <2> DEFINE I == {j \in 1..Len(list) : IsSnapshot(list[j])}
  <2>1. first = IF I # {} THEN Min(I) ELSE 0
    BY Zenon DEF SelectInSeq
  <2>2. I \in SUBSET Nat /\ \A j \in I : j \in 1..N /\ IsSnapshot(list[j])
    OBVIOUS
  <2>3. \A i \in 1..N : IsSnapshot(list[i]) => i \in I
    OBVIOUS
  <2> HIDE DEF I, first
  <2>4. ASSUME NEW i \in 1..N, IsSnapshot(list[i])
        PROVE  first \in 1..i /\ IsSnapshot(list[first])
    <3>1. PICK m \in I : \A k \in I : m <= k
      BY <2>2, <2>3, <2>4, LeastElement
    <3>2. Min(I) \in I /\ \A k \in I : Min(I) <= k
      BY <3>1, Zenon DEF Min
    <3>3. first = Min(I)
      BY <2>1, <2>3, <2>4
    <3>4. first \in 1..N /\ IsSnapshot(list[first]) /\ first <= i
      BY <2>2, <2>3, <2>4, <3>2, <3>3
    <3>5. QED  BY <3>4
  <2>5. QED  BY <2>4
<1>3. K \in SUBSET (DOMAIN list) /\ K \in SUBSET (1..N)
      /\ \A i \in 1..N : i \in K <=> (IsSnapshot(list[i]) => i = first)
  BY <1>1
<1>4. one = Pick(list, K)
  BY Zenon DEF OneSnapshot
<1> HIDE DEF K, first, one
<1>5. /\ IsList(one) /\ Len(one) = Cardinality(K) /\ Cardinality(K) \in Nat
      /\ \A i \in 1..Cardinality(K) : one[i] = list[Nth(K, i)]
  <2>1. IsList(one) /\ DOMAIN one = 1..Cardinality(K)
    BY <1>3, <1>4, PickedList
  <2>2. DOMAIN one = 1..Len(one) /\ Len(one) \in Nat
    BY <2>1, ListShape
  <2>3. Cardinality(K) \in Nat
    <3>1. Cardinality(K) \in 0..N
      BY <1>1, <1>3, Finite
    <3>2. QED  BY <1>1, <3>1
  <2>4. \A i \in 1..Cardinality(K) : one[i] = list[Nth(K, i)]
    BY <1>4 DEF Pick
  <2>5. Len(one) = Cardinality(K)
    BY <2>1, <2>2, <2>3
  <2>6. QED  BY <2>1, <2>3, <2>4, <2>5
<1>6. PICK merged :
        /\ merged[0] = <<>>
        /\ \A k \in 0..Len(one) - 1 : merged[k + 1] = MergeNext(merged[k], one[k + 1])
        /\ FoldLeft(MergeNext, <<>>, one) = merged[Len(one)]
  BY <1>5, MergeTrace, Zenon
<1>7. IsList(items) /\ Len(items) = N /\ \A i \in 1..N : items[i] = Item(list[i])
  BY ItemsShape
<1> HIDE DEF items
<1>8. PICK final :
        /\ final[0] = <<>>
        /\ \A k \in 0..Len(items) - 1 : final[k + 1] = Log!AddFinal(final[k], items[k + 1])
        /\ FoldLeft(Log!AddFinal, <<>>, items) = final[Len(items)]
  BY <1>7, FinalTrace, Zenon
<1> DEFINE Matches(acc, n) ==
             /\ IsList(acc) /\ Good(acc) /\ Items(acc) = final[n]
             /\ HasSnapshot(acc) <=> \E i \in 1..n : IsSnapshot(list[i])
           Done == {n \in Nat : Matches(merged[Rank(K, n)], n)}
<1>9. 0 \in Done
  <2>1. \A i \in K : ~(i <= 0)
    BY <1>3
  <2>2. {i \in K : i <= 0} = {}
    BY <2>1, Zenon
  <2>3. Rank(K, 0) = 0
    BY <2>2, FS_EmptySet, Zenon DEF Rank
  <2>4. DOMAIN <<>> = {} /\ 1..0 = {} /\ IsList(<<>>)
    BY NoBlocks
  <2>5. Items(<<>>) = <<>>
    BY <2>4 DEF Items
  <2>6. Matches(<<>>, 0)
    BY <1>8, <2>4, <2>5 DEF Good, HasSnapshot
  <2>7. QED  BY <1>6, <2>3, <2>6
<1>10. ASSUME NEW n \in 0..N - 1, n \in Done
       PROVE  n + 1 \in Done
  <2> DEFINE r == Rank(K, n)
             acc == merged[r]
             b == list[n + 1]
  <2>1. Matches(acc, n)
    BY <1>10
  <2>2. n + 1 \in 1..N /\ n + 1 - 1 = n /\ n \in Nat /\ n + 1 \in Nat /\ n + 1 \in 1..n + 1
        /\ \A i \in 1..n + 1 : i \in 1..n \/ i = n + 1
    BY <1>1
  <2>3. Rank(K, n + 1) = IF n + 1 \in K THEN r + 1 ELSE r
    BY <1>1, <1>3, <2>2, RankStep
  <2>4. GoodBlock(b)
    BY <1>1, <2>2 DEF Good
  <2>5. final[n + 1] = Log!AddFinal(Items(acc), Item(b))
    BY <1>7, <1>8, <2>1, <2>2
  <2> HIDE DEF Matches, Done, acc, b, r
  <2>6. /\ IsList(acc) /\ Good(acc) /\ Items(acc) = final[n]
        /\ HasSnapshot(acc) <=> \E i \in 1..n : IsSnapshot(list[i])
    BY <2>1 DEF Matches
  <2>7. (\E i \in 1..n + 1 : IsSnapshot(list[i])) <=> HasSnapshot(acc) \/ IsSnapshot(b)
    <3>1. \A i \in 1..n : i \in 1..n + 1
      BY <2>2
    <3>2. QED  BY <2>2, <2>6, <3>1, Zenon DEF b
  <2>8. CASE n + 1 \in K
    <3>1. Rank(K, n + 1) \in 1..Cardinality(K) /\ Nth(K, Rank(K, n + 1)) = n + 1
      BY <1>1, <1>3, <2>8, NthIs, Zenon
    <3>2. r + 1 \in 1..Cardinality(K) /\ r \in Nat
      <4>1. r \in Nat
        <5>1. {j \in K : j <= n} \in SUBSET (1..N)
          BY <1>3
        <5>2. Cardinality({j \in K : j <= n}) \in 0..N
          BY <1>1, <5>1, Finite, Zenon
        <5>3. QED  BY <1>1, <5>2 DEF r, Rank
      <4>2. QED  BY <2>3, <2>8, <3>1, <4>1
    <3>3. one[r + 1] = b
      BY <1>5, <2>3, <2>8, <3>1, <3>2 DEF b
    <3>4. merged[r + 1] = MergeNext(acc, b)
      BY <1>5, <1>6, <3>2, <3>3 DEF acc
    <3>5. ~(HasSnapshot(acc) /\ IsSnapshot(b))
      <4> SUFFICES ASSUME NEW i \in 1..n, IsSnapshot(list[i]), IsSnapshot(b)
                   PROVE  FALSE
        BY <2>6, Zenon
      <4>1. n + 1 = first
        BY <1>3, <2>2, <2>8 DEF b
      <4>2. first \in 1..i
        BY <1>1, <1>2
      <4>3. QED  BY <4>1, <4>2
    <3>6. /\ IsList(MergeNext(acc, b)) /\ Good(MergeNext(acc, b))
          /\ Items(MergeNext(acc, b)) = Log!AddFinal(Items(acc), Item(b))
          /\ HasSnapshot(MergeNext(acc, b)) <=> HasSnapshot(acc) \/ IsSnapshot(b)
      BY <2>4, <2>6, <3>5, GoodStep, FinalStep, Zenon
    <3>7. Matches(MergeNext(acc, b), n + 1)
      BY <2>5, <2>7, <3>6, Zenon DEF Matches
    <3>8. QED  BY <2>2, <2>3, <2>8, <3>4, <3>7 DEF Done
  <2>9. CASE n + 1 \notin K
    <3>1. IsSnapshot(b) /\ n + 1 # first
      BY <1>3, <2>2, <2>9 DEF b
    <3>2. first \in 1..n /\ IsSnapshot(list[first])
      BY <1>2, <2>2, <3>1 DEF b
    <3>3. HasSnapshot(acc)
      BY <2>6, <3>2, Zenon
    <3>4. Items(acc) = Log!AddFinal(Items(acc), Item(b))
      BY <2>4, <2>6, <3>1, <3>3, FinalStep, Zenon
    <3>5. Matches(acc, n + 1)
      BY <2>5, <2>6, <2>7, <3>3, <3>4, Zenon DEF Matches
    <3>6. QED  BY <2>2, <2>3, <2>9, <3>5 DEF Done, acc
  <2>10. QED  BY <2>8, <2>9
<1>11. N \in Done
  <2>1. Done \in SUBSET Nat
    OBVIOUS
  <2> HIDE DEF Done
  <2>2. 0..N \subseteq Done
    BY <1>1, <1>9, <1>10, <2>1, Induction
  <2>3. QED  BY <1>1, <2>2
<1>12. Rank(K, N) = Cardinality(K)
  <2>1. \A i \in K : i <= N
    BY <1>1, <1>3
  <2>2. {i \in K : i <= N} = K
    BY <2>1, Zenon
  <2>3. QED  BY <2>2 DEF Rank
<1>13. Items(merged[Len(one)]) = final[N]
  BY <1>5, <1>11, <1>12
<1>14. QED  BY <1>6, <1>7, <1>8, <1>13 DEF one, items

----------------------------------------------------------------------------
(* Each step is a step of Recording.                                        *)

\* The run that frames are added to.
Opened == IF Recording /\ current_input # Null THEN Place(current_input) ELSE 0

(* It is the place of the block that current_input points to.               *)
LEMMA OpenedAt ==
  ASSUME IsList(blocks), Distinct(blocks)
  PROVE  \A i \in DOMAIN blocks :
           Recording /\ current_input # Null /\ blocks[i].id = current_input => Opened = i
<1>1. ASSUME NEW i \in DOMAIN blocks, Recording, current_input # Null, blocks[i].id = current_input
      PROVE  Opened = i
  <2>1. PlaceIn(blocks, blocks[i].id) = i
    BY PlaceFound
  <2>2. Place(current_input) = PlaceIn(blocks, current_input)
    BY Zenon DEF Place, PlaceIn
  <2>3. QED  BY <1>1, <2>1, <2>2 DEF Opened
<1>2. QED  BY <1>1

(* In the state before a step and in the one behind it.                     *)
LEMMA OpenedNow ==
  ASSUME Inv
  PROVE  \/ Recording /\ current_input # Null /\ Opened \in DOMAIN blocks
            /\ blocks[Opened].id = current_input /\ IsInput(blocks[Opened])
            /\ Recorded(blocks[Opened]) /\ Opened = Place(current_input)
         \/ ~(Recording /\ current_input # Null) /\ Opened = 0
<1>1. CASE Recording /\ current_input # Null
  <2>1. PICK i \in DOMAIN blocks : /\ blocks[i].id = current_input /\ IsInput(blocks[i])
                                   /\ Recorded(blocks[i])
    BY <1>1 DEF Inv, Points
  <2>2. Opened = i
    BY <1>1, <2>1, OpenedAt DEF Inv
  <2>3. QED  BY <1>1, <2>1, <2>2 DEF Opened
<1>2. QED  BY <1>1 DEF Opened

LEMMA OpenedNext ==
  ASSUME Inv'
  PROVE  /\ ~(Recording' /\ current_input' # Null) => Opened' = 0
         /\ \A i \in DOMAIN blocks' :
              Recording' /\ current_input' # Null /\ blocks'[i].id = current_input' => Opened' = i
<1>1. ASSUME NEW i \in DOMAIN blocks', Recording', current_input' # Null,
             blocks'[i].id = current_input'
      PROVE  Opened' = i
  <2>1. IsList(blocks') /\ Distinct(blocks')
    BY DEF Inv
  <2>2. PlaceIn(blocks', blocks'[i].id) = i
    BY <2>1, PlaceFound
  <2>3. Place(current_input)' = PlaceIn(blocks', current_input')
    BY DEF Place, PlaceIn, SelectInSeq
  <2>4. Opened' = Place(current_input)'
    BY <1>1 DEF Opened, Null
  <2>5. QED  BY <1>1, <2>2, <2>3, <2>4
<1>2. QED  BY <1>1 DEF Opened, Null

(* What the recording holds before and after.                               *)
LEMMA LogNow ==
  ASSUME IInv
  PROVE  /\ IsList(blocks) /\ Good(blocks) /\ Len(blocks) \in Nat /\ DOMAIN blocks = 1..Len(blocks)
         /\ IsList(Items(blocks)) /\ Len(Items(blocks)) = Len(blocks)
         /\ \A i \in 1..Len(blocks) : Items(blocks)[i] = Item(blocks[i])
BY ItemsShape, ListShape DEF IInv, Inv, Content, Good

(* libspectrum_rzx_start_input.                                             *)
LEMMA StartPromised ==
  ASSUME IInv, Inv', NEW t \in Tstates, StartInput(t)
  PROVE  Log!Start
<1> DEFINE b == InputBlock(FreshId, t, <<>>, 0)
<1>1. /\ Recording' /\ Len(blocks) < MaxBlocks
      /\ blocks' = Append(blocks, b) /\ current_input' = FreshId
  BY DEF StartInput, Recording
<1>2. b.id = FreshId /\ Item(b) = Log!Run(t, <<>>)
  <2>1. Decoded(<<>>) = <<>>
    BY DEF Decoded
  <2>2. QED  BY <2>1 DEF InputBlock, Item, Log!Run
<1>3. FreshId # Null
  BY <1>1, FreshAddress DEF IInv
<1> HIDE DEF b
<1>4. /\ IsList(blocks') /\ Len(blocks') = Len(blocks) + 1 /\ blocks'[Len(blocks) + 1] = b
  BY <1>1, LogNow, AppendShape
<1>5. Items(blocks') = Append(Items(blocks), Log!Run(t, <<>>))
  BY <1>1, <1>2, LogNow, ItemsEdited
<1>6. Len(Items(blocks')) = Len(blocks) + 1
  BY <1>4, ItemsShape
<1>7. Opened' = Len(blocks) + 1
  <2>1. Len(blocks) + 1 \in DOMAIN blocks'
    BY <1>4, ListShape, LogNow
  <2>2. QED  BY <1>1, <1>2, <1>3, <1>4, <2>1, OpenedNext
<1>8. QED  BY <1>5, <1>6, <1>7 DEF Log!Start, Opened

(* libspectrum_rzx_stop_input, and the player, for whom nothing is open.    *)
LEMMA StopPromised ==
  ASSUME Inv', blocks' = blocks, ~Recording' \/ current_input' = Null
  PROVE  Log!Stop
<1>1. Opened' = 0
  BY OpenedNext
<1>2. Items(blocks') = Items(blocks)
  OBVIOUS
<1>3. QED  BY <1>1, <1>2 DEF Log!Stop, Opened

(* libspectrum_rzx_add_snap.                                                *)
LEMMA AddPromised ==
  ASSUME IInv, Inv', NEW s \in Snaps, NEW automatic, AddSnap(s, automatic)
  PROVE  Log!Add
<1>1. blocks' = Append(blocks, SnapBlock(FreshId, s, automatic)) /\ current_input' = Null
  BY DEF AddSnap, InputAfterSnap
<1>2. Item(SnapBlock(FreshId, s, automatic)) = Log!Snap(s)
  BY DEF SnapBlock, Item, Log!Snap
<1>3. Items(blocks') = Append(Items(blocks), Log!Snap(s))
  BY <1>1, <1>2, LogNow, ItemsEdited
<1>4. Opened' = 0
  BY <1>1, OpenedNext
<1>5. QED  BY <1>3, <1>4 DEF Log!Add, Opened

(* libspectrum_rzx_insert_snap.                                             *)
LEMMA InsertPromised ==
  ASSUME IInv, Inv', NEW s \in Snaps, NEW where \in 1..Len(blocks) + 1, InsertSnap(s, where)
  PROVE  Log!Insert
<1> DEFINE b == SnapBlock(FreshId, s, FALSE)
<1>1. blocks' = InsertAt(blocks, where, b) /\ current_input' = current_input /\ Recording /\ Recording'
  BY DEF InsertSnap, Recording
<1>2. Item(b) = Log!Snap(s)
  BY DEF SnapBlock, Item, Log!Snap
<1> HIDE DEF b
<1>3. Items(blocks') = InsertAt(Items(blocks), where, Log!Snap(s))
  BY <1>1, <1>2, LogNow, ItemsEdited
<1>4. /\ IsList(blocks') /\ Len(blocks') = Len(blocks) + 1
      /\ \A i \in 1..Len(blocks) + 1 :
           blocks'[i] = IF i < where THEN blocks[i] ELSE IF i = where THEN b ELSE blocks[i - 1]
  BY <1>1, LogNow, InsertShape
<1>5. Len(blocks) \in Nat /\ DOMAIN blocks = 1..Len(blocks) /\ DOMAIN blocks' = 1..Len(blocks) + 1
      /\ Len(Items(blocks)) = Len(blocks)
  BY <1>4, LogNow, ListShape
<1>6. Opened' = IF Opened >= where THEN Opened + 1 ELSE Opened
  <2>1. CASE current_input # Null
    <3>1. Opened \in 1..Len(blocks) /\ blocks[Opened].id = current_input
      BY <1>1, <1>5, <2>1, OpenedNow DEF IInv
    <3> DEFINE i == IF Opened >= where THEN Opened + 1 ELSE Opened
    <3>2. i \in 1..Len(blocks) + 1 /\ blocks'[i] = blocks[Opened]
      <4>1. CASE Opened >= where
        <5>1. /\ Opened + 1 \in 1..Len(blocks) + 1 /\ ~(Opened + 1 < where) /\ Opened + 1 # where
              /\ (Opened + 1) - 1 = Opened
          BY <1>5, <3>1, <4>1
        <5>2. blocks'[Opened + 1] = blocks[Opened]
          BY <1>4, <5>1
        <5>3. i = Opened + 1
          BY <4>1
        <5> HIDE DEF i
        <5>4. QED  BY <5>1, <5>2, <5>3
      <4>2. CASE ~(Opened >= where)
        <5>1. Opened \in 1..Len(blocks) + 1 /\ Opened < where
          BY <1>5, <3>1, <4>2
        <5>2. QED  BY <1>4, <4>2, <5>1
      <4>3. QED  BY <4>1, <4>2
    <3> HIDE DEF i
    <3>3. Opened' = i
      BY <1>1, <1>5, <2>1, <3>1, <3>2, OpenedNext
    <3>4. QED  BY <3>3 DEF i
  <2>2. CASE current_input = Null
    <3>1. Opened = 0 /\ Opened' = 0
      BY <1>1, <2>2, OpenedNow, OpenedNext DEF IInv
    <3>2. QED  BY <3>1
  <2>3. QED  BY <2>1, <2>2
<1>7. where \in 1..Len(Items(blocks)) + 1
  BY <1>5
<1>8. Items(blocks') = Log!InsertAt(Items(blocks), where, Log!Snap(s))
  BY <1>3, LogOperators
<1>9. QED  BY <1>6, <1>7, <1>8 DEF Log!Insert, Opened

(* libspectrum_rzx_rollback and libspectrum_rzx_rollback_to.                *)
LEMMA RollbackPromised ==
  ASSUME IInv, Inv', NEW k \in DOMAIN blocks, Rollback(k)
  PROVE  Log!Rollback
<1>1. blocks' = SubSeq(blocks, 1, k) /\ current_input' = Null /\ IsSnapshot(blocks[k])
  BY DEF Rollback, InputAfterRollback
<1>2. k \in 1..Len(blocks) /\ k \in 1..Len(Items(blocks)) /\ Items(blocks)[k] = Item(blocks[k])
      /\ GoodBlock(blocks[k])
  BY LogNow DEF Good
<1>3. Items(blocks') = SubSeq(Items(blocks), 1, k)
  BY <1>1, <1>2, LogNow, ItemsEdited
<1>4. Log!IsSnap(Items(blocks)[k])
  BY <1>1, <1>2, ItemIs DEF Log!IsSnap, IsSnapshot
<1>5. Opened' = 0
  BY <1>1, OpenedNext
<1>6. QED  BY <1>2, <1>3, <1>4, <1>5 DEF Log!Rollback, Opened

(* libspectrum_rzx_iterator_delete.                                         *)
LEMMA DeletePromised ==
  ASSUME IInv, Inv', NEW k \in DOMAIN blocks, IteratorDelete(k)
  PROVE  Log!Delete
<1>1. /\ blocks' = RemoveAt(blocks, k) /\ current_input' = current_input
      /\ Recording /\ Recording' /\ blocks[k].id # current_input
  BY DEF IteratorDelete, Recording
<1>2. k \in 1..Len(blocks) /\ Len(blocks) \in Nat /\ DOMAIN blocks = 1..Len(blocks)
      /\ Len(Items(blocks)) = Len(blocks)
  BY LogNow
<1>3. Items(blocks') = RemoveAt(Items(blocks), k)
  BY <1>1, <1>2, LogNow, ItemsEdited
<1>4. /\ IsList(blocks') /\ Len(blocks') = Len(blocks) - 1
      /\ \A i \in 1..Len(blocks) - 1 : blocks'[i] = IF i < k THEN blocks[i] ELSE blocks[i + 1]
  BY <1>1, <1>2, LogNow, RemoveShape
<1>5. DOMAIN blocks' = 1..Len(blocks) - 1
  BY <1>4, ListShape
<1>6. k # Opened /\ Opened' = IF Opened > k THEN Opened - 1 ELSE Opened
  <2>1. CASE current_input # Null
    <3>1. Opened \in 1..Len(blocks) /\ blocks[Opened].id = current_input
      BY <1>1, <1>2, <2>1, OpenedNow DEF IInv
    <3>2. k # Opened
      BY <1>1, <3>1
    <3> DEFINE i == IF Opened > k THEN Opened - 1 ELSE Opened
    <3>3. i \in 1..Len(blocks) - 1 /\ blocks'[i] = blocks[Opened]
      <4>1. CASE Opened > k
        <5>1. /\ Opened - 1 \in 1..Len(blocks) - 1 /\ ~(Opened - 1 < k) /\ Opened - 1 + 1 = Opened
          BY <1>2, <3>1, <4>1
        <5>2. QED  BY <1>4, <4>1, <5>1
      <4>2. CASE ~(Opened > k)
        <5>1. Opened \in 1..Len(blocks) - 1 /\ Opened < k
          BY <1>2, <3>1, <3>2, <4>2
        <5>2. QED  BY <1>4, <4>2, <5>1
      <4>3. QED  BY <4>1, <4>2
    <3> HIDE DEF i
    <3>4. Opened' = i
      BY <1>1, <1>5, <2>1, <3>1, <3>3, OpenedNext
    <3>5. QED  BY <3>2, <3>4 DEF i
  <2>2. CASE current_input = Null
    <3>1. Opened = 0 /\ Opened' = 0
      BY <1>1, <2>2, OpenedNow, OpenedNext DEF IInv
    <3>2. QED  BY <1>2, <3>1
  <2>3. QED  BY <2>1, <2>2
<1>7. k \in 1..Len(Items(blocks)) \ {Opened}
  BY <1>2, <1>6
<1>8. Items(blocks') = Log!RemoveAt(Items(blocks), k)
  BY <1>3, LogOperators
<1>9. QED  BY <1>6, <1>7, <1>8 DEF Log!Delete, Opened

(* libspectrum_rzx_store_frame.                                             *)
LEMMA StorePromised ==
  ASSUME IInv, Inv', NEW n \in Instructions, NEW in \in InBytes, StoreFrame(n, in)
  PROVE  Log!Store
<1> DEFINE p == Opened
           x == [instructions |-> n, in |-> in]
           c == StoreInto(blocks[p], n, in)
           have == Items(blocks')
           items == Items(blocks)
           want == [items EXCEPT ![p].frames = Append(items[p].frames, x)]
<1>1. /\ Recording /\ Recording' /\ current_input # Null /\ current_input' = current_input
      /\ blocks' = [blocks EXCEPT ![Place(current_input)] = StoreInto(@, n, in)]
  BY DEF StoreFrame, Recording
<1>2. /\ p \in DOMAIN blocks /\ blocks[p].id = current_input /\ IsInput(blocks[p])
      /\ Recorded(blocks[p]) /\ p = Place(current_input)
  BY <1>1, OpenedNow DEF IInv
<1>3. /\ IsList(blocks) /\ Len(blocks) \in Nat /\ DOMAIN blocks = 1..Len(blocks)
      /\ IsList(items) /\ Len(items) = Len(blocks) /\ DOMAIN items = 1..Len(blocks)
      /\ \A i \in 1..Len(blocks) : items[i] = Item(blocks[i])
      /\ GoodBlock(blocks[p])
  BY <1>2, LogNow, ListShape DEF Good
<1>4. blocks' = [blocks EXCEPT ![p] = c]
  BY <1>1, <1>2
<1>5. c.id = current_input /\ Item(c) = [Item(blocks[p]) EXCEPT !.frames = Append(@, x)]
  <2>1. GoodBlock(blocks[p]) /\ Recorded(blocks[p]) /\ IsInput(blocks[p])
    BY <1>2, <1>3, Zenon
  <2>2. c.id = blocks[p].id
    <3> DEFINE q == blocks[p]
    <3> HIDE DEF q
    <3>1. StoreInto(q, n, in).id = q.id
      BY <2>1, StoreGood DEF q
    <3>2. QED  BY <3>1 DEF q
  <2> HIDE DEF p
  <2>3. Item(c) = [Item(blocks[p]) EXCEPT !.frames = Append(@, x)]
    BY <2>1, StoreAdds, SMT
  <2>4. QED  BY <1>2, <2>2, <2>3, Zenon
<1> HIDE DEF p, c, items, x
<1>6. /\ IsList(blocks') /\ Len(blocks') = Len(blocks) /\ DOMAIN blocks' = 1..Len(blocks)
      /\ \A i \in 1..Len(blocks) : blocks'[i] = IF i = p THEN c ELSE blocks[i]
  <2>1. \A i \in 1..Len(blocks) : blocks'[i] = IF i = p THEN c ELSE blocks[i]
    BY <1>3, <1>4
  <2>2. blocks' = [i \in 1..Len(blocks) |-> blocks'[i]]
    BY <1>3, <1>4
  <2>3. IsList(blocks') /\ Len(blocks') = Len(blocks) /\ DOMAIN blocks' = 1..Len(blocks)
    BY <1>3, <2>2, Function, Zenon
  <2>4. QED  BY <2>1, <2>3
<1>7. IsList(have) /\ Len(have) = Len(blocks) /\ \A i \in 1..Len(blocks) : have[i] = Item(blocks'[i])
  BY <1>6, ItemsShape
<1>8. /\ IsList(want) /\ Len(want) = Len(blocks)
      /\ \A i \in 1..Len(blocks) :
           want[i] = IF i = p THEN [items[p] EXCEPT !.frames = Append(items[p].frames, x)]
                     ELSE items[i]
  <2>1. \A i \in 1..Len(blocks) :
          want[i] = IF i = p THEN [items[p] EXCEPT !.frames = Append(items[p].frames, x)]
                    ELSE items[i]
    BY <1>3
  <2>2. want = [i \in 1..Len(blocks) |-> want[i]]
    BY <1>3
  <2> HIDE DEF want
  <2>3. IsList(want) /\ Len(want) = Len(blocks)
    BY <1>3, <2>2, Function, Zenon
  <2>4. QED  BY <2>1, <2>3
<1>9. have = want
  <2>1. items[p] = Item(blocks[p])
    BY <1>2, <1>3
  <2> HIDE DEF have, want
  <2>2. ASSUME NEW i \in 1..Len(blocks) PROVE have[i] = want[i]
    <3>1. CASE i = p
      <4>1. have[i] = Item(c)
        BY <1>6, <1>7, <3>1, Zenon
      <4>2. want[i] = [items[p] EXCEPT !.frames = Append(items[p].frames, x)]
        BY <1>8, <3>1, Zenon
      <4>3. Item(c) = [items[p] EXCEPT !.frames = Append(items[p].frames, x)]
        BY <1>5, <2>1, Zenon
      <4>4. QED  BY <4>1, <4>2, <4>3, Zenon
    <3>2. CASE i # p
      <4>1. have[i] = Item(blocks[i])
        BY <1>6, <1>7, <3>2, Zenon
      <4>2. want[i] = items[i]
        BY <1>8, <3>2, Zenon
      <4>3. QED  BY <1>3, <4>1, <4>2, Zenon
    <3>3. QED  BY <3>1, <3>2
  <2>3. QED  BY <1>7, <1>8, <2>2, SameList
<1>10. p # 0 /\ Opened' = p
  <2>1. p \in 1..Len(blocks)
    BY <1>2, <1>3
  <2>2. blocks'[p].id = current_input
    BY <1>5, <1>6, <2>1
  <2>3. Opened' = p
    BY <1>1, <1>6, <2>1, <2>2, OpenedNext
  <2>4. QED  BY <2>1, <2>3
<1>11. x \in [instructions : Instructions, in : InBytes]
  BY DEF x
<1>12. Items(blocks') = [Items(blocks) EXCEPT ![Opened].frames = Append(@, x)]
  BY <1>9 DEF p, items
<1>13. Opened # 0 /\ Opened' = Opened
  BY <1>10 DEF p
<1>14. QED  BY <1>11, <1>12, <1>13, Zenon DEF Log!Store, Opened

(* libspectrum_rzx_finalise.                                                *)
LEMMA FinalisePromised ==
  ASSUME IInv, Inv', Finalise
  PROVE  Log!Finalise
<1>1. blocks' = FoldLeft(MergeNext, <<>>, OneSnapshot(blocks)) /\ current_input' = Null
  BY DEF Finalise
<1>2. Items(FoldLeft(MergeNext, <<>>, OneSnapshot(blocks))) = FoldLeft(Log!AddFinal, <<>>, Items(blocks))
  BY LogNow, FinalItems, Zenon
<1>3. Items(blocks') = Log!FoldLeft(Log!AddFinal, <<>>, Items(blocks))
  BY <1>1, <1>2, LogOperators, Zenon
<1>4. Opened' = 0
  BY <1>1, OpenedNext
<1>5. QED  BY <1>3, <1>4, Zenon DEF Log!Finalise, Opened

(* libspectrum_rzx_free.                                                    *)
LEMMA ClearPromised ==
  ASSUME Inv', Free
  PROVE  Log!Clear
<1>1. blocks' = <<>> /\ current_input' = Null
  BY DEF Free
<1>2. Items(blocks') = <<>>
  BY <1>1 DEF Items
<1>3. Opened' = 0
  BY <1>1, OpenedNext
<1>4. QED  BY <1>2, <1>3 DEF Log!Clear, Opened

\* The items of a file.
Saved(stored) == [i \in DOMAIN Kept(stored) |-> Item(ReadBlock(Null, Kept(stored)[i]))]

(* libspectrum_rzx_write, asked for no format that cannot hold a snapshot.  *)
LEMMA WritePromised ==
  ASSUME IInv, SnapshotsSaveable, NEW format \in Formats, Write(format)
  PROVE  Log!Save
<1> DEFINE items == Items(blocks)
           P == {i \in DOMAIN blocks : IsStored(blocks[i]) /\ ~Lost(format, i)}
           Q == {i \in 1..Len(items) : items[i].type # "SIGN"}
           kept == Pick(blocks, P)
           written == Written(format)
<1>1. /\ IsList(blocks) /\ Len(blocks) \in Nat /\ DOMAIN blocks = 1..Len(blocks) /\ Good(blocks)
      /\ IsList(items) /\ Len(items) = Len(blocks)
      /\ \A i \in 1..Len(blocks) : items[i] = Item(blocks[i])
  BY LogNow
<1>2. P = Q
  <2>1. \A i : ~Lost(format, i)
    BY DEF Lost, SnapshotsSaveable
  <2>2. \A i \in 1..Len(blocks) : items[i].type # "SIGN" <=> IsStored(blocks[i])
    <3> SUFFICES ASSUME NEW i \in 1..Len(blocks)
                 PROVE  Item(blocks[i]).type # "SIGN" <=> IsStored(blocks[i])
      BY <1>1
    <3>1. GoodBlock(blocks[i])
      BY <1>1 DEF Good
    <3>2. QED  BY <3>1, ItemIs DEF IsStored, IsInput, IsSnapshot
  <2>3. QED  BY <1>1, <2>1, <2>2, Zenon
<1>3. P \in SUBSET (DOMAIN blocks) /\ P \in SUBSET (1..Len(blocks)) /\ \A i \in P : IsStored(blocks[i])
  BY <1>1
<1>4. written = [i \in DOMAIN kept |-> WrittenBlock(kept[i])] /\ file' = written
  BY DEF Written, Write
<1>5. Items(kept) = Pick(items, P)
  BY <1>1, <1>3, PickItems, Zenon
<1> HIDE DEF P, Q, items, written
<1>6. IsList(kept) /\ DOMAIN kept = 1..Cardinality(P) /\ DOMAIN kept = 1..Len(kept) /\ Len(kept) \in Nat
  <2>1. IsList(kept) /\ DOMAIN kept = 1..Cardinality(P)
    BY <1>1, <1>3, PickedList, Zenon
  <2>2. QED  BY <2>1, ListShape
<1>7. ASSUME NEW i \in DOMAIN kept
      PROVE  GoodBlock(kept[i]) /\ IsStored(kept[i])
  <2>1. Nth(P, i) \in P
    BY <1>1, <1>3, <1>6, <1>7, NthProperties, Zenon
  <2>2. kept[i] = blocks[Nth(P, i)]
    BY <1>6, <1>7 DEF Pick
  <2>3. QED  BY <1>1, <1>3, <2>1, <2>2 DEF Good
<1> HIDE DEF kept
<1>8. IsList(written) /\ DOMAIN written = DOMAIN kept
  <2>1. written = [i \in 1..Len(kept) |-> written[i]]
    BY <1>4, <1>6
  <2>2. QED  BY <1>6, <2>1, Function, Zenon
<1>9. Kept(written) = written
  <2>1. \A i \in DOMAIN written : written[i].type \notin {"CREATOR", "LINK"}
    <3> SUFFICES ASSUME NEW i \in DOMAIN kept
                 PROVE  WrittenBlock(kept[i]).type \notin {"CREATOR", "LINK"}
      BY <1>4, <1>8
    <3>1. WrittenBlock(kept[i]).type = kept[i].type
      BY <1>7, WrittenGood
    <3>2. QED  BY <1>7, <3>1 DEF IsStored, IsInput, IsSnapshot
  <2>2. {i \in DOMAIN written : written[i].type \notin {"CREATOR", "LINK"}} = DOMAIN written
    BY <2>1, Zenon
  <2>3. Kept(written) = Pick(written, DOMAIN written)
    BY <2>2, Zenon DEF Kept
  <2>4. QED  BY <1>8, <2>3, PickAll, Zenon
<1>10. Saved(written) = Items(kept)
  <2>1. Saved(written) = [i \in DOMAIN kept |-> Item(ReadBlock(Null, written[i]))]
    BY <1>8, <1>9, Zenon DEF Saved
  <2>2. \A i \in DOMAIN kept : Item(ReadBlock(Null, written[i])) = Item(kept[i])
    BY <1>4, <1>7, ReadIsWritten
  <2>3. [i \in DOMAIN kept |-> Item(ReadBlock(Null, written[i]))] = [i \in DOMAIN kept |-> Item(kept[i])]
    BY <2>2
  <2>4. QED  BY <2>1, <2>3 DEF Items
<1>11. ItemsOfFile' = Saved(written)
  BY <1>4 DEF ItemsOfFile, Saved
<1>12. ItemsOfFile' = Log!Pick(items, Q)
  BY <1>2, <1>5, <1>10, <1>11, LogOperators, Zenon
<1>13. Items(blocks)' = items /\ Opened' = Opened
  BY DEF Write, items, Opened, Recording, Place, SelectInSeq
<1>14. QED  BY <1>12, <1>13 DEF Log!Save, Opened, items, Q

(* The members kept of a part of a file are the first of those kept of it.  *)
LEMMA KeptCut ==
  ASSUME NEW stored, IsList(stored), NEW n \in 0..Len(stored)
  PROVE  LET part == SubSeq(stored, 1, n)
         IN  /\ IsList(Kept(stored)) /\ IsList(Kept(part))
             /\ Len(Kept(part)) \in 0..Len(Kept(stored))
             /\ \A i \in 1..Len(Kept(part)) : Kept(part)[i] = Kept(stored)[i]
<1> DEFINE part == SubSeq(stored, 1, n)
           S == {i \in DOMAIN stored : stored[i].type \notin {"CREATOR", "LINK"}}
           T == {i \in DOMAIN part : part[i].type \notin {"CREATOR", "LINK"}}
           U == {i \in S : i <= n}
<1>1. DOMAIN stored = 1..Len(stored) /\ Len(stored) \in Nat
  BY ListShape
<1>2. IsList(part) /\ DOMAIN part = 1..n /\ \A i \in 1..n : part[i] = stored[i]
  <2>1. 1 \in 1..Len(stored) + 1 /\ n \in 1 - 1..Len(stored) /\ n - 1 + 1 = n
        /\ \A i \in 1..n : 1 + i - 1 = i
    BY <1>1
  <2>2. /\ IsList(part) /\ Len(part) = n - 1 + 1
        /\ \A i \in 1..n - 1 + 1 : part[i] = stored[1 + i - 1]
    BY <2>1, SliceShape, Zenon
  <2>3. DOMAIN part = 1..Len(part)
    BY <2>2, ListShape, Zenon
  <2> HIDE DEF part
  <2>4. QED  BY <2>1, <2>2, <2>3
<1>3. Kept(stored) = Pick(stored, S) /\ Kept(part) = Pick(part, T)
  BY DEF Kept
<1>4. S \in SUBSET (DOMAIN stored) /\ T \in SUBSET (DOMAIN part)
  OBVIOUS
<1> HIDE DEF part
<1>5. T = U
  BY <1>1, <1>2
<1>6. S \in SUBSET (1..Len(stored)) /\ \A i \in U : i \in 1..n
  BY <1>1
<1>7. /\ Cardinality(U) \in 0..Cardinality(S)
      /\ \A i \in 1..Cardinality(U) : Nth(U, i) = Nth(S, i)
  BY <1>1, <1>6, PickCut, Zenon
<1>8. /\ IsList(Kept(stored)) /\ DOMAIN Kept(stored) = 1..Cardinality(S)
      /\ IsList(Kept(part)) /\ DOMAIN Kept(part) = 1..Cardinality(T)
  <2> HIDE DEF S, T, U
  <2>1. IsList(Pick(stored, S)) /\ DOMAIN Pick(stored, S) = 1..Cardinality(S)
    BY <1>4, PickedList, Zenon
  <2>2. IsList(Pick(part, T)) /\ DOMAIN Pick(part, T) = 1..Cardinality(T)
    BY <1>2, <1>4, PickedList, Zenon
  <2>3. QED  BY <1>3, <2>1, <2>2
<1>9. Cardinality(S) \in Nat
  <2>1. Cardinality(S) \in 0..Len(stored)
    BY <1>1, <1>6, Finite, Zenon
  <2>2. QED  BY <1>1, <2>1
<1> HIDE DEF S, T, U
<1>10. /\ Len(Kept(stored)) = Cardinality(S) /\ Len(Kept(part)) = Cardinality(U)
  <2>1. /\ DOMAIN Kept(stored) = 1..Len(Kept(stored)) /\ Len(Kept(stored)) \in Nat
        /\ DOMAIN Kept(part) = 1..Len(Kept(part)) /\ Len(Kept(part)) \in Nat
    BY <1>8, ListShape, Zenon
  <2>2. QED  BY <1>5, <1>7, <1>8, <1>9, <2>1
<1>11. ASSUME NEW i \in 1..Cardinality(U)
       PROVE  Kept(part)[i] = Kept(stored)[i]
  <2>1. i \in 1..Cardinality(S)
    BY <1>7, <1>9
  <2>2. Kept(part)[i] = part[Nth(U, i)] /\ Kept(stored)[i] = stored[Nth(S, i)]
    BY <1>3, <1>5, <2>1 DEF Pick
  <2>3. Nth(U, i) \in U
    <3>1. U \in SUBSET (1..Len(stored))
      BY <1>6 DEF U
    <3>2. QED  BY <1>1, <3>1, NthProperties, Zenon
  <2>4. QED  BY <1>2, <1>6, <1>7, <2>2, <2>3
<1>12. QED  BY <1>7, <1>8, <1>10, <1>11 DEF part

(* libspectrum_rzx_read.                                                    *)
LEMMA LoadPromised ==
  ASSUME IInv, Inv', NEW n \in 0..Len(file), Read(n)
  PROVE  Log!Load
<1> DEFINE kept == Kept(SubSeq(file, 1, n))
           all == Kept(file)
           more == Loaded(kept)
           m == Len(kept)
           saved == Saved(file)
           first == SubSeq(saved, 1, m)
<1>1. /\ Recording /\ blocks' = blocks \o more /\ current_input' = current_input
      /\ Recording' /\ file' = file
      /\ IsList(more) /\ Len(more) = Len(kept)
      /\ \A i \in 1..Len(kept) : more[i] = ReadBlock(Nth(Addresses, i), kept[i])
  BY ReadShape, Zenon DEF IInv, Recording
<1>2. /\ IsList(all) /\ IsList(kept) /\ m \in 0..Len(all)
      /\ \A i \in 1..m : kept[i] = all[i]
  <2>1. IsList(file)
    BY DEF IInv, Inv
  <2>2. QED  BY <2>1, KeptCut, Zenon
<1>3. DOMAIN all = 1..Len(all) /\ Len(all) \in Nat
  BY <1>2, ListShape, Zenon
<1>4. saved = [i \in 1..Len(all) |-> Item(ReadBlock(Null, all[i]))]
  BY <1>3, Zenon DEF Saved
<1> HIDE DEF kept, all, more, saved
<1>5. IsList(saved) /\ Len(saved) = Len(all)
      /\ \A i \in 1..Len(all) : saved[i] = Item(ReadBlock(Null, all[i]))
  <2>1. saved = [i \in 1..Len(all) |-> saved[i]]
    BY <1>4
  <2>2. IsList(saved) /\ Len(saved) = Len(all)
    BY <1>3, <2>1, Function, Zenon
  <2>3. QED  BY <1>4, <2>2
<1>6. IsList(first) /\ Len(first) = m /\ \A i \in 1..m : first[i] = saved[i]
  <2>1. 1 \in 1..Len(saved) + 1 /\ m \in 1 - 1..Len(saved) /\ m - 1 + 1 = m
        /\ \A i \in 1..m : 1 + i - 1 = i
    BY <1>2, <1>3, <1>5
  <2>2. /\ IsList(first) /\ Len(first) = m - 1 + 1
        /\ \A i \in 1..m - 1 + 1 : first[i] = saved[1 + i - 1]
    BY <1>5, <2>1, SliceShape, Zenon
  <2> HIDE DEF first, m
  <2>3. QED  BY <2>1, <2>2
<1>7. IsList(Items(more)) /\ Len(Items(more)) = m
      /\ \A i \in 1..m : Items(more)[i] = Item(more[i])
  <2>1. IsList(Items(more)) /\ Len(Items(more)) = Len(more)
        /\ \A i \in 1..Len(more) : Items(more)[i] = Item(more[i])
    BY <1>1, ItemsShape, Zenon
  <2>2. Len(more) = m
    BY <1>1
  <2>3. QED  BY <2>1, <2>2, Zenon
<1> HIDE DEF first
<1>8. Items(more) = first
  <2>1. ASSUME NEW i \in 1..m
        PROVE  Items(more)[i] = first[i]
    <3>1. i \in 1..Len(all)
      BY <1>2, <1>3
    <3>2. Item(more[i]) = Item(ReadBlock(Nth(Addresses, i), all[i]))
      BY <1>1, <1>2
    <3>3. Item(more[i]) = Item(ReadBlock(Null, all[i]))
      BY <3>2, AddressHidden
    <3>4. QED  BY <1>5, <1>6, <1>7, <3>1, <3>3
  <2> HIDE DEF m
  <2>2. QED  BY <1>6, <1>7, <2>1, SameList
<1>9. Items(blocks') = Items(blocks) \o first
  BY <1>1, <1>8, LogNow, ItemsEdited
<1>10. m \in 0..Len(saved)
  BY <1>2, <1>5
<1>11. ItemsOfFile = saved
  BY DEF ItemsOfFile, saved, Saved
<1>12. Opened' = Opened
  <2>1. CASE current_input = Null
    BY <1>1, <2>1, OpenedNow, OpenedNext DEF IInv
  <2>2. CASE current_input # Null
    <3>1. Opened \in 1..Len(blocks) /\ blocks[Opened].id = current_input /\ Len(blocks) \in Nat
      BY <1>1, <2>2, LogNow, OpenedNow DEF IInv
    <3>2. /\ IsList(blocks') /\ Len(blocks') = Len(blocks) + Len(more)
          /\ \A i \in 1..Len(blocks) + Len(more) :
               blocks'[i] = IF i <= Len(blocks) THEN blocks[i] ELSE more[i - Len(blocks)]
      BY <1>1, LogNow, ConcatShape
    <3>3. DOMAIN blocks' = 1..Len(blocks') /\ Len(more) \in Nat
      BY <1>1, <3>2, ListShape
    <3>4. Opened \in 1..Len(blocks) + Len(more) /\ Opened <= Len(blocks)
      BY <3>1, <3>3
    <3>5. Opened \in DOMAIN blocks' /\ blocks'[Opened].id = current_input'
      BY <1>1, <3>1, <3>2, <3>3, <3>4
    <3>6. QED  BY <1>1, <2>2, <3>5, OpenedNext
  <2>3. QED  BY <2>1, <2>2
<1>13. \E k \in 0..Len(ItemsOfFile) : Items(blocks') = Items(blocks) \o SubSeq(ItemsOfFile, 1, k)
  BY <1>9, <1>10, <1>11, Zenon DEF first
<1>14. QED  BY <1>12, <1>13 DEF Log!Load, Opened

(* A step that is no write is an edit that leaves what the file holds.      *)
LEMMA EditPromised ==
  ASSUME Log!Edit, file' = file
  PROVE  [Log!Next]_Log!recordingVars
<1>1. ItemsOfFile' = ItemsOfFile
  BY DEF ItemsOfFile, Kept
<1>2. QED  BY <1>1 DEF Log!Next

(* Each step of the program is one that a recording may take.               *)
LEMMA StepPromised ==
  ASSUME IInv, IInv', SnapshotsSaveable, [Next]_vars
  PROVE  [Log!Next]_Log!recordingVars
<1>0. Inv' /\ Inv
  BY DEF IInv
<1>1. CASE \E t \in Tstates : StartInput(t)
  <2>1. PICK t \in Tstates : StartInput(t)
    BY <1>1
  <2>2. Log!Start /\ file' = file
    BY <1>0, <2>1, StartPromised DEF StartInput
  <2>3. QED  BY <2>2, EditPromised DEF Log!Edit
<1>2. CASE StopInput
  <2>1. Log!Stop /\ file' = file
    BY <1>0, <1>2, StopPromised DEF StopInput
  <2>2. QED  BY <2>1, EditPromised DEF Log!Edit
<1>3. CASE \E s \in Snaps : \E automatic \in BOOLEAN : AddSnap(s, automatic)
  <2>1. PICK s \in Snaps, automatic \in BOOLEAN : AddSnap(s, automatic)
    BY <1>3
  <2>2. Log!Add /\ file' = file
    BY <1>0, <2>1, AddPromised DEF AddSnap
  <2>3. QED  BY <2>2, EditPromised DEF Log!Edit
<1>4. CASE \E s \in Snaps : \E where \in 1..Len(blocks) + 1 : InsertSnap(s, where)
  <2>1. PICK s \in Snaps, where \in 1..Len(blocks) + 1 : InsertSnap(s, where)
    BY <1>4
  <2>2. Log!Insert /\ file' = file
    BY <1>0, <2>1, InsertPromised DEF InsertSnap
  <2>3. QED  BY <2>2, EditPromised DEF Log!Edit
<1>5. CASE \E n \in Instructions, in \in InBytes : StoreFrame(n, in)
  <2>1. PICK n \in Instructions, in \in InBytes : StoreFrame(n, in)
    BY <1>5
  <2>2. Log!Store /\ file' = file
    BY <1>0, <2>1, StorePromised DEF StoreFrame
  <2>3. QED  BY <2>2, EditPromised DEF Log!Edit
<1>6. CASE \E k \in DOMAIN blocks : Rollback(k)
  <2>1. PICK k \in DOMAIN blocks : Rollback(k)
    BY <1>6
  <2>2. Log!Rollback /\ file' = file
    BY <1>0, <2>1, RollbackPromised DEF Rollback
  <2>3. QED  BY <2>2, EditPromised DEF Log!Edit
<1>7. CASE \E k \in DOMAIN blocks : IteratorDelete(k)
  <2>1. PICK k \in DOMAIN blocks : IteratorDelete(k)
    BY <1>7
  <2>2. Log!Delete /\ file' = file
    BY <1>0, <2>1, DeletePromised DEF IteratorDelete
  <2>3. QED  BY <2>2, EditPromised DEF Log!Edit
<1>8. CASE Finalise
  <2>1. Log!Finalise /\ file' = file
    BY <1>0, <1>8, FinalisePromised DEF Finalise
  <2>2. QED  BY <2>1, EditPromised DEF Log!Edit
<1>9. CASE \E format \in Formats : Write(format)
  <2>1. PICK format \in Formats : Write(format)
    BY <1>9
  <2>2. Log!Save
    BY <2>1, WritePromised
  <2>3. QED  BY <2>2 DEF Log!Next
<1>10. CASE \E n \in 0..Len(file) : Read(n)
  <2>1. PICK n \in 0..Len(file) : Read(n)
    BY <1>10
  <2>2. Log!Load /\ file' = file
    BY <1>0, <2>1, LoadPromised DEF Read
  <2>3. QED  BY <2>2, EditPromised DEF Log!Edit
<1>11. CASE Play
  <2>1. blocks' = blocks /\ role' = "player" /\ file' = file
    BY <1>11 DEF Play, StartPlayback, Playback, PlaybackFrame, Playing
  <2>2. Log!Stop
    BY <1>0, <2>1, StopPromised DEF Recording
  <2>3. QED  BY <2>1, <2>2, EditPromised DEF Log!Edit
<1>12. CASE Free
  <2>1. Log!Clear /\ file' = file
    BY <1>0, <1>12, ClearPromised DEF Free
  <2>2. QED  BY <2>1, EditPromised DEF Log!Edit
<1>13. CASE UNCHANGED vars
  <2>1. UNCHANGED <<blocks, current_input, role, file>>
    BY <1>13 DEF vars
  <2>2. ItemsOfFile' = ItemsOfFile
    BY <2>1 DEF ItemsOfFile, Kept
  <2>3. Opened' = Opened
    BY <2>1 DEF Opened, Recording, Place, SelectInSeq
  <2>4. Items(blocks)' = Items(blocks)
    BY <2>1
  <2>5. QED  BY <2>2, <2>3, <2>4 DEF Log!recordingVars, Opened
<1>14. QED
  BY <1>1, <1>2, <1>3, <1>4, <1>5, <1>6, <1>7, <1>8, <1>9, <1>10, <1>11, <1>12, <1>13, Zenon
  DEF Next, Record

(* A recording is what was recorded: repetitions, rollbacks, deletions,     *)
(* merges, and a round through the file keep every byte of every frame.  It *)
(* is so as long as no run of the file begins with a repetition, and        *)
(* libspectrum_rzx_write is asked for no format that cannot hold a snapshot. *)
THEOREM RecordingKept ==
  ASSUME RunsBeginFull, SnapshotsSaveable
  PROVE  Spec => RecordingSpec
<1>1. Init => Log!Init
  <2> SUFFICES ASSUME Init
               PROVE  Log!Init
    OBVIOUS
  <2>1. Items(blocks) = <<>>
    BY DEF Init, Items
  <2>2. Opened = 0
    BY DEF Init, Opened
  <2>3. QED  BY <2>1, <2>2 DEF Log!Init, Opened
<1>2. IInv /\ IInv' /\ [Next]_vars => [Log!Next]_Log!recordingVars
  BY StepPromised, Zenon
<1>3. Spec => []IInv
  BY RecordingInvariance, Zenon
<1>4. QED  BY <1>1, <1>2, <1>3, PTL DEF Spec, RecordingSpec, Log!Spec

=============================================================================
