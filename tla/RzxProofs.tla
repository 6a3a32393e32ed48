----------------------------- MODULE RzxProofs -----------------------------
(***************************************************************************)
(* What the pointers of a recording keep, whatever is recorded, inserted,   *)
(* rolled back, deleted, finalised, written, read and played.               *)
(*                                                                         *)
(* The invariant adds to the properties of Rzx that no two blocks have the  *)
(* same address, and that the block that is recorded was begun by           *)
(* StartInput: its fields are initialised, which those of a block that was  *)
(* read are not.                                                            *)
(***************************************************************************)
EXTENDS Rzx, Extrema, FiniteSetTheorems, SequenceTheorems

IsList(list) == \E S : list \in Seq(S)

Distinct(list) == \A i, j \in DOMAIN list : list[i].id = list[j].id => i = j

\* The block that is recorded.
RecordedBlock ==
  [id : Nat, type : {"INPUT"}, tstates : Tstates,
   frames : Seq([instructions : Instructions, in : InBytes \union {<<>>},
                 repeat_last : BOOLEAN]),
   non_repeat : Nat]

Recorded(b) ==
  /\ b \in RecordedBlock
  /\ b.frames # <<>> =>
       /\ b.non_repeat + 1 \in DOMAIN b.frames
       /\ ~b.frames[b.non_repeat + 1].repeat_last
       /\ \A i \in b.non_repeat + 2..Len(b.frames) : b.frames[i].repeat_last

\* A pointer to the input block, which is being recorded or played.
Points(list, id, recording) ==
  id # Null => \E i \in DOMAIN list :
    /\ list[i].id = id /\ IsInput(list[i])
    /\ recording => Recorded(list[i])

Inv ==
  /\ IsList(blocks) /\ Distinct(blocks) /\ IsList(file)
  /\ Points(blocks, current_input, Recording)
  /\ current_block # Null => current_block = current_input
  /\ Recording => current_block = Null

----------------------------------------------------------------------------
(* Numbers, and the members of a list at some of its places.                *)

\* How many members are not above k.
Rank(S, k) == Cardinality({j \in S : j <= k})

(* Subsets of an interval are finite.                                       *)
LEMMA Finite ==
  ASSUME NEW N \in Nat, NEW S \in SUBSET (1..N)
  PROVE  IsFiniteSet(S) /\ Cardinality(S) \in 0..N
<1>1. 1 \in Int /\ N \in Int
  OBVIOUS
<1>2. IsFiniteSet(1..N) /\ Cardinality(1..N) = IF 1 > N THEN 0 ELSE N - 1 + 1
  BY <1>1, FS_Interval, Zenon
<1>3. IsFiniteSet(S) /\ Cardinality(S) <= Cardinality(1..N)
  BY <1>2, FS_Subset, Zenon
<1>4. Cardinality(S) \in Nat
  BY <1>3, FS_CardinalityType, Zenon
<1>5. QED  BY <1>2, <1>3, <1>4

(* Each member adds one.                                                    *)
LEMMA RankStep ==
  ASSUME NEW N \in Nat, NEW S \in SUBSET (1..N), NEW m \in 1..N
  PROVE  Rank(S, m) = IF m \in S THEN Rank(S, m - 1) + 1 ELSE Rank(S, m - 1)
<1> DEFINE A == {j \in S : j <= m}
           B == {j \in S : j <= m - 1}
<1>1. IsFiniteSet(B)
  <2>1. B \in SUBSET (1..N)
    OBVIOUS
  <2> HIDE DEF B
  <2>2. QED  BY <2>1, Finite, Zenon
<1>2. CASE m \in S
  <2>0. (\A j \in S : j <= m <=> (j <= m - 1 \/ j = m)) /\ ~(m <= m - 1)
    OBVIOUS
  <2>1. A = B \cup {m} /\ m \notin B
    BY <1>2, <2>0, Zenon
  <2> HIDE DEF A, B
  <2>2. Cardinality(B \cup {m}) = IF m \in B THEN Cardinality(B) ELSE Cardinality(B)+1
    BY <1>1, FS_AddElement, Zenon
  <2>3. QED  BY <1>2, <2>1, <2>2 DEF A, B, Rank
<1>3. CASE m \notin S
  <2>0. \A j \in S : j <= m <=> (j <= m - 1 \/ j = m)
    OBVIOUS
  <2>1. A = B
    BY <1>3, <2>0, Zenon
  <2>2. QED  BY <1>3, <2>1 DEF Rank
<1>4. QED  BY <1>2, <1>3

(* There is an n-th smallest member, as long as there are n.                *)
LEMMA NthProperties ==
  ASSUME NEW N \in Nat, NEW S \in SUBSET (1..N), NEW n \in 1..Cardinality(S)
  PROVE  Nth(S, n) \in S /\ Rank(S, Nth(S, n)) = n
<1>1. Cardinality(S) \in Nat /\ n \in Nat /\ n >= 1 /\ n <= Cardinality(S)
  <2>1. Cardinality(S) \in 0..N
    BY Finite
  <2>2. QED  BY <2>1
<1>2. ASSUME NEW k \in Int
      PROVE  Rank(S, k) \in Nat
  <2>1. {j \in S : j <= k} \in SUBSET (1..N)
    OBVIOUS
  <2>2. Cardinality({j \in S : j <= k}) \in 0..N
    BY <2>1, Finite, Zenon
  <2>3. QED  BY <2>2 DEF Rank
<1>3. Rank(S, N) = Cardinality(S) /\ Rank(S, 0) = 0
  <2>0. \A j \in S : j <= N /\ ~(j <= 0)
    OBVIOUS
  <2>1. {j \in S : j <= N} = S /\ {j \in S : j <= 0} = {}
    BY <2>0, Zenon
  <2>2. QED  BY <2>1, FS_EmptySet, Zenon DEF Rank
<1> DEFINE T == {k \in 0..N : Rank(S, k) >= n}
<1>4. PICK m \in T : \A k \in T : m <= k
  <2>1. T \in SUBSET Nat /\ T # {}
    BY <1>1, <1>3
  <2> HIDE DEF T
  <2>2. QED  BY <2>1, LeastElement, Zenon
<1>5. m \in 1..N
  BY <1>1, <1>3, <1>4
<1>6. Rank(S, m) >= n /\ ~(Rank(S, m - 1) >= n)
  BY <1>4, <1>5
<1>7. m \in S /\ Rank(S, m) = n
  <2>1. Rank(S, m) \in Nat /\ Rank(S, m - 1) \in Nat
    BY <1>2, <1>5
  <2>2. QED  BY <1>1, <1>5, <1>6, <2>1, RankStep
<1>8. QED  BY <1>7, Zenon DEF Nth, Rank

----------------------------------------------------------------------------
(* Lists of blocks.                                                         *)

PlaceIn(list, id) == SelectInSeq(list, LAMBDA b : b.id = id)

Member(list, b) == \E i \in DOMAIN list : list[i] = b

\* Every block of the list with the given address is in the other one.
Keeps(list, id, other) ==
  \A i \in DOMAIN list : list[i].id = id => \E j \in DOMAIN other : other[j] = list[i]

(* A list has the places 1..n.                                              *)
LEMMA ListShape ==
  ASSUME NEW list, IsList(list)
  PROVE  /\ Len(list) \in Nat /\ DOMAIN list = 1..Len(list)
         /\ IsFiniteSet(DOMAIN list) /\ Cardinality(DOMAIN list) = Len(list)
<1>1. PICK S : list \in Seq(S)
  BY DEF IsList
<1>2. Len(list) \in Nat /\ DOMAIN list = 1..Len(list)
  BY <1>1
<1>3. IsFiniteSet(1..Len(list)) /\ Cardinality(1..Len(list)) = Len(list)
  <2>1. 1 \in Int /\ Len(list) \in Int
    BY <1>2
  <2>2. IsFiniteSet(1..Len(list))
        /\ Cardinality(1..Len(list)) = IF 1 > Len(list) THEN 0 ELSE Len(list) - 1 + 1
    BY <2>1, FS_Interval, Zenon
  <2>3. QED  BY <1>2, <2>2
<1>4. QED  BY <1>2, <1>3

(* A function over 1..n is a list.                                          *)
LEMMA Function ==
  ASSUME NEW n \in Nat, NEW f, f = [i \in 1..n |-> f[i]]
  PROVE  IsList(f) /\ Len(f) = n /\ DOMAIN f = 1..n
<1> DEFINE S == {f[i] : i \in 1..n}
<1>1. f \in Seq(S) /\ Len(f) = n
  BY IsASeq
<1>2. QED  BY <1>1 DEF IsList

(* Place finds the block with an address.                                   *)
LEMMA PlaceFound ==
  ASSUME NEW list, IsList(list), Distinct(list), NEW i \in DOMAIN list
  PROVE  PlaceIn(list, list[i].id) = i
<1> DEFINE id == list[i].id
           I == {j \in 1..Len(list) : list[j].id = id}
<1>1. PlaceIn(list, id) = IF I # {} THEN Min(I) ELSE 0
  BY Zenon DEF PlaceIn, SelectInSeq
<1>2. DOMAIN list = 1..Len(list) /\ Len(list) \in Nat
  BY ListShape
<1>3. I = {i}
  BY <1>2 DEF Distinct
<1>4. Min({i}) = i
  BY <1>2 DEF Min
<1>5. QED  BY <1>1, <1>3, <1>4, Zenon

(* A pointer stays where its block stays.                                   *)
LEMMA PointsKept ==
  ASSUME NEW list, NEW id, NEW other, NEW r, Points(list, id, r), Keeps(list, id, other)
  PROVE  Points(other, id, r)
BY Zenon DEF Points, Keeps

(* A block of which no other has the address is appended.                   *)
LEMMA Appended ==
  ASSUME NEW list, IsList(list), Distinct(list), NEW b,
         \A i \in DOMAIN list : list[i].id # b.id
  PROVE  /\ IsList(Append(list, b)) /\ Distinct(Append(list, b))
         /\ \A id : Keeps(list, id, Append(list, b))
         /\ \E j \in DOMAIN Append(list, b) : Append(list, b)[j] = b
<1>1. PICK S : list \in Seq(S)
  BY DEF IsList
<1>2. DOMAIN list = 1..Len(list) /\ Len(list) \in Nat
  BY ListShape
<1> DEFINE T == S \cup {b}
           new == Append(list, b)
<1>3. list \in Seq(T) /\ b \in T
  BY <1>1
<1> HIDE DEF T
<1>4. /\ new \in Seq(T) /\ Len(new) = Len(list) + 1
      /\ \A i \in 1..Len(list) : new[i] = list[i]
      /\ new[Len(list) + 1] = b
  BY <1>3, AppendProperties, Zenon
<1> HIDE DEF new
<1>5. DOMAIN new = 1..Len(list) + 1
  BY <1>2, <1>4
<1>6. IsList(new)
  BY <1>4 DEF IsList
<1>7. Distinct(new)
  BY <1>2, <1>4, <1>5 DEF Distinct
<1>8. \A id : Keeps(list, id, new)
  BY <1>2, <1>4, <1>5 DEF Keeps
<1>9. \E j \in DOMAIN new : new[j] = b
  BY <1>2, <1>4, <1>5
<1>10. QED  BY <1>6, <1>7, <1>8, <1>9 DEF new

(* More blocks, with other addresses, follow.                               *)
LEMMA Concatenated ==
  ASSUME NEW list, IsList(list), Distinct(list), NEW more, IsList(more), Distinct(more),
         \A i \in DOMAIN list, j \in DOMAIN more : list[i].id # more[j].id
  PROVE  /\ IsList(list \o more) /\ Distinct(list \o more)
         /\ \A id : Keeps(list, id, list \o more)
<1>1. PICK S : list \in Seq(S)
  BY DEF IsList
<1>2. PICK R : more \in Seq(R)
  BY DEF IsList
<1>3. /\ DOMAIN list = 1..Len(list) /\ Len(list) \in Nat
      /\ DOMAIN more = 1..Len(more) /\ Len(more) \in Nat
  BY ListShape
<1> DEFINE T == S \cup R
           new == list \o more
<1>4. list \in Seq(T) /\ more \in Seq(T)
  BY <1>1, <1>2
<1> HIDE DEF T
<1>5. /\ new \in Seq(T) /\ Len(new) = Len(list) + Len(more)
      /\ \A i \in 1..Len(list) + Len(more) :
           new[i] = IF i <= Len(list) THEN list[i] ELSE more[i - Len(list)]
  BY <1>4, ConcatProperties, Zenon
<1> HIDE DEF new
<1>6. DOMAIN new = 1..Len(list) + Len(more)
  BY <1>3, <1>5
<1>7. IsList(new)
  BY <1>5 DEF IsList
<1>8. Distinct(new)
  <2> SUFFICES ASSUME NEW i \in DOMAIN new, NEW j \in DOMAIN new, new[i].id = new[j].id
               PROVE  i = j
    BY DEF Distinct
  <2>1. CASE i <= Len(list) /\ j <= Len(list)
    BY <1>3, <1>5, <1>6, <2>1 DEF Distinct
  <2>2. CASE i > Len(list) /\ j > Len(list)
    <3>1. /\ i - Len(list) \in DOMAIN more /\ j - Len(list) \in DOMAIN more
          /\ more[i - Len(list)].id = more[j - Len(list)].id
      BY <1>3, <1>5, <1>6, <2>2
    <3>2. i - Len(list) = j - Len(list)
      BY <3>1 DEF Distinct
    <3>3. QED  BY <1>3, <1>6, <3>2
  <2>3. CASE i <= Len(list) /\ j > Len(list)
    <3>1. i \in DOMAIN list /\ j - Len(list) \in DOMAIN more
          /\ list[i].id = more[j - Len(list)].id
      BY <1>3, <1>5, <1>6, <2>3
    <3>2. QED  BY <3>1
  <2>4. CASE i > Len(list) /\ j <= Len(list)
    <3>1. j \in DOMAIN list /\ i - Len(list) \in DOMAIN more
          /\ list[j].id = more[i - Len(list)].id
      BY <1>3, <1>5, <1>6, <2>4
    <3>2. QED  BY <3>1
  <2>5. QED  BY <1>3, <1>6, <2>1, <2>2, <2>3, <2>4
<1>9. \A id : Keeps(list, id, new)
  BY <1>3, <1>5, <1>6 DEF Keeps
<1>10. QED  BY <1>7, <1>8, <1>9 DEF new

(* A part of a list.                                                        *)
LEMMA Slice ==
  ASSUME NEW list, IsList(list), Distinct(list),
         NEW m \in 1..Len(list) + 1, NEW n \in m - 1..Len(list)
  PROVE  /\ IsList(SubSeq(list, m, n)) /\ Distinct(SubSeq(list, m, n))
         /\ DOMAIN SubSeq(list, m, n) = 1..n - m + 1
         /\ \A i \in 1..n - m + 1 :
              m + i - 1 \in DOMAIN list /\ SubSeq(list, m, n)[i] = list[m + i - 1]
<1>1. PICK S : list \in Seq(S)
  BY DEF IsList
<1>2. DOMAIN list = 1..Len(list) /\ Len(list) \in Nat
  BY ListShape
<1> DEFINE new == SubSeq(list, m, n)
<1>3. /\ new = [i \in 1..n - m + 1 |-> list[m + i - 1]]
      /\ n - m + 1 \in Nat
  BY <1>2 DEF SubSeq
<1> HIDE DEF new
<1>4. /\ DOMAIN new = 1..n - m + 1
      /\ \A i \in 1..n - m + 1 : new[i] = list[m + i - 1]
      /\ new = [i \in 1..n - m + 1 |-> new[i]]
  BY <1>3
<1>5. \A i \in 1..n - m + 1 : m + i - 1 \in DOMAIN list
  BY <1>2
<1>6. Distinct(new)
  <2> SUFFICES ASSUME NEW i \in DOMAIN new, NEW j \in DOMAIN new, new[i].id = new[j].id
               PROVE  i = j
    BY DEF Distinct
  <2>1. m + i - 1 = m + j - 1
    BY <1>4, <1>5 DEF Distinct
  <2>2. QED  BY <1>2, <1>4, <2>1
<1>7. IsList(new)
  BY <1>3, <1>4, Function, Zenon
<1>8. QED  BY <1>4, <1>5, <1>6, <1>7 DEF new

(* The blocks behind a place are freed.                                     *)
LEMMA Cut ==
  ASSUME NEW list, IsList(list), Distinct(list), NEW k \in DOMAIN list
  PROVE  IsList(SubSeq(list, 1, k)) /\ Distinct(SubSeq(list, 1, k))
<1>1. k \in 1..Len(list) /\ Len(list) \in Nat
  BY ListShape
<1>2. 1 \in 1..Len(list) + 1 /\ k \in 1 - 1..Len(list)
  BY <1>1
<1>3. QED  BY <1>2, Slice, Zenon

(* What stands before a place and what stands behind it.                    *)
LEMMA Halves ==
  ASSUME NEW list, IsList(list), Distinct(list),
         NEW k \in 1..Len(list) + 1, NEW m \in k..Len(list) + 1
  PROVE  LET A == SubSeq(list, 1, k - 1)
             B == SubSeq(list, m, Len(list))
         IN  /\ IsList(A) /\ Distinct(A) /\ DOMAIN A = 1..k - 1
             /\ \A i \in 1..k - 1 : i \in DOMAIN list /\ A[i] = list[i]
             /\ IsList(B) /\ Distinct(B) /\ DOMAIN B = 1..Len(list) - m + 1
             /\ \A i \in 1..Len(list) - m + 1 :
                  m + i - 1 \in DOMAIN list /\ B[i] = list[m + i - 1]
             /\ \A i \in DOMAIN A, j \in DOMAIN B : A[i].id # B[j].id
<1>1. Len(list) \in Nat /\ DOMAIN list = 1..Len(list)
  BY ListShape
<1> DEFINE A == SubSeq(list, 1, k - 1)
           B == SubSeq(list, m, Len(list))
<1>2. /\ IsList(A) /\ Distinct(A) /\ DOMAIN A = 1..k - 1
      /\ \A i \in 1..k - 1 : i \in DOMAIN list /\ A[i] = list[i]
  <2>1. 1 \in 1..Len(list) + 1 /\ k - 1 \in 1 - 1..Len(list)
    BY <1>1
  <2>2. /\ IsList(A) /\ Distinct(A) /\ DOMAIN A = 1..k - 1 - 1 + 1
        /\ \A i \in 1..k - 1 - 1 + 1 : 1 + i - 1 \in DOMAIN list /\ A[i] = list[1 + i - 1]
    BY <2>1, Slice, Zenon
  <2> HIDE DEF A
  <2>3. k - 1 - 1 + 1 = k - 1 /\ \A i \in Int : 1 + i - 1 = i
    BY <1>1
  <2>4. QED  BY <1>1, <2>2, <2>3
<1>3. /\ IsList(B) /\ Distinct(B) /\ DOMAIN B = 1..Len(list) - m + 1
      /\ \A i \in 1..Len(list) - m + 1 : m + i - 1 \in DOMAIN list /\ B[i] = list[m + i - 1]
  <2>1. m \in 1..Len(list) + 1 /\ Len(list) \in m - 1..Len(list)
    BY <1>1
  <2>2. QED  BY <2>1, Slice, Zenon
<1> HIDE DEF A, B
<1>4. \A i \in DOMAIN A, j \in DOMAIN B : A[i].id # B[j].id
  <2> SUFFICES ASSUME NEW i \in 1..k - 1, NEW j \in 1..Len(list) - m + 1, A[i].id = B[j].id
               PROVE  FALSE
    BY <1>2, <1>3
  <2>1. list[i].id = list[m + j - 1].id
    BY <1>2, <1>3
  <2>2. i = m + j - 1
    BY <1>2, <1>3, <2>1 DEF Distinct
  <2>3. QED  BY <1>1, <2>2
<1>5. QED  BY <1>2, <1>3, <1>4, Zenon DEF A, B

(* Where the members of a concatenation come from.                          *)
LEMMA InConcat ==
  ASSUME NEW list, IsList(list), NEW more, IsList(more), NEW b
  PROVE  Member(list \o more, b) <=> Member(list, b) \/ Member(more, b)
<1>1. PICK S : list \in Seq(S)
  BY DEF IsList
<1>2. PICK R : more \in Seq(R)
  BY DEF IsList
<1>3. /\ DOMAIN list = 1..Len(list) /\ Len(list) \in Nat
      /\ DOMAIN more = 1..Len(more) /\ Len(more) \in Nat
  BY ListShape
<1> DEFINE new == list \o more
<1>4. /\ DOMAIN new = 1..Len(list) + Len(more)
      /\ \A i \in 1..Len(list) + Len(more) :
           new[i] = IF i <= Len(list) THEN list[i] ELSE more[i - Len(list)]
  BY <1>1, <1>2
<1> HIDE DEF new
<1>5. ASSUME NEW i \in DOMAIN list
      PROVE  \E j \in DOMAIN new : new[j] = list[i]
  <2>1. i \in DOMAIN new /\ new[i] = list[i]
    BY <1>3, <1>4
  <2>2. QED  BY <2>1
<1>6. ASSUME NEW i \in DOMAIN more
      PROVE  \E j \in DOMAIN new : new[j] = more[i]
  <2>1. Len(list) + i \in DOMAIN new /\ Len(list) + i - Len(list) = i /\ ~(Len(list) + i <= Len(list))
    BY <1>3, <1>4
  <2>2. new[Len(list) + i] = more[i]
    BY <1>4, <2>1
  <2>3. QED  BY <2>1, <2>2
<1>7. ASSUME NEW j \in DOMAIN new
      PROVE  (\E i \in DOMAIN list : new[j] = list[i]) \/ (\E i \in DOMAIN more : new[j] = more[i])
  <2>1. CASE j <= Len(list)
    BY <1>3, <1>4, <2>1
  <2>2. CASE ~(j <= Len(list))
    <3>1. j - Len(list) \in DOMAIN more /\ new[j] = more[j - Len(list)]
      BY <1>3, <1>4, <2>2
    <3>2. QED  BY <3>1
  <2>3. QED  BY <2>1, <2>2
<1>8. Member(new, b) <=> Member(list, b) \/ Member(more, b)
  <2>1. Member(list, b) => Member(new, b)
    BY <1>5 DEF Member
  <2>2. Member(more, b) => Member(new, b)
    BY <1>6 DEF Member
  <2>3. Member(new, b) => Member(list, b) \/ Member(more, b)
    BY <1>7 DEF Member
  <2>4. QED  BY <2>1, <2>2, <2>3
<1>9. QED  BY <1>8 DEF new

(* One block is freed.                                                      *)
LEMMA Removed ==
  ASSUME NEW list, IsList(list), Distinct(list), NEW k \in DOMAIN list
  PROVE  /\ IsList(RemoveAt(list, k)) /\ Distinct(RemoveAt(list, k))
         /\ \A id : list[k].id # id => Keeps(list, id, RemoveAt(list, k))
<1>1. k \in 1..Len(list) /\ Len(list) \in Nat /\ DOMAIN list = 1..Len(list)
  BY ListShape
<1>2. k \in 1..Len(list) + 1 /\ k + 1 \in k..Len(list) + 1
  BY <1>1
<1> DEFINE A == SubSeq(list, 1, k - 1)
           B == SubSeq(list, k + 1, Len(list))
<1>3. /\ IsList(A) /\ Distinct(A) /\ DOMAIN A = 1..k - 1
      /\ \A i \in 1..k - 1 : i \in DOMAIN list /\ A[i] = list[i]
      /\ IsList(B) /\ Distinct(B) /\ DOMAIN B = 1..Len(list) - (k + 1) + 1
      /\ \A i \in 1..Len(list) - (k + 1) + 1 :
           k + 1 + i - 1 \in DOMAIN list /\ B[i] = list[k + 1 + i - 1]
      /\ \A i \in DOMAIN A, j \in DOMAIN B : A[i].id # B[j].id
  BY <1>2, Halves, Zenon
<1>4. RemoveAt(list, k) = A \o B
  BY DEF RemoveAt
<1> HIDE DEF A, B
<1>5. IsList(A \o B) /\ Distinct(A \o B)
  BY <1>3, Concatenated, Zenon
<1>6. ASSUME NEW id, list[k].id # id, NEW i \in DOMAIN list, list[i].id = id
      PROVE  \E j \in DOMAIN (A \o B) : (A \o B)[j] = list[i]
  <2>1. Member(A, list[i]) \/ Member(B, list[i])
    <3>1. CASE i < k
      <4>1. A[i] = list[i] /\ i \in DOMAIN A
        BY <1>1, <1>3, <3>1
      <4>2. QED  BY <4>1, Zenon DEF Member
    <3>2. CASE i > k
      <4>1. i - k \in 1..Len(list) - (k + 1) + 1 /\ k + 1 + (i - k) - 1 = i
        BY <1>1, <3>2
      <4>2. B[i - k] = list[i] /\ i - k \in DOMAIN B
        BY <1>3, <4>1
      <4>3. QED  BY <4>2, Zenon DEF Member
    <3>3. i # k
      BY <1>6, Zenon
    <3>4. QED  BY <1>1, <3>1, <3>2, <3>3
  <2>2. IsList(A) /\ IsList(B)
    BY <1>3
  <2>3. Member(A \o B, list[i])
    BY <2>1, <2>2, InConcat, Zenon
  <2>4. QED  BY <2>3, Zenon DEF Member
<1>7. QED  BY <1>4, <1>5, <1>6 DEF Keeps

(* A block of which no other has the address is inserted.                   *)
LEMMA Inserted ==
  ASSUME NEW list, IsList(list), Distinct(list), NEW w \in 1..Len(list) + 1, NEW b,
         \A i \in DOMAIN list : list[i].id # b.id
  PROVE  /\ IsList(InsertAt(list, w, b)) /\ Distinct(InsertAt(list, w, b))
         /\ \A id : Keeps(list, id, InsertAt(list, w, b))
<1>1. Len(list) \in Nat /\ DOMAIN list = 1..Len(list)
  BY ListShape
<1> DEFINE A == SubSeq(list, 1, w - 1)
           B == SubSeq(list, w, Len(list))
           C == Append(A, b)
<1>2. w \in w..Len(list) + 1
  BY <1>1
<1>3. /\ IsList(A) /\ Distinct(A) /\ DOMAIN A = 1..w - 1
      /\ \A i \in 1..w - 1 : i \in DOMAIN list /\ A[i] = list[i]
      /\ IsList(B) /\ Distinct(B) /\ DOMAIN B = 1..Len(list) - w + 1
      /\ \A i \in 1..Len(list) - w + 1 : w + i - 1 \in DOMAIN list /\ B[i] = list[w + i - 1]
      /\ \A i \in DOMAIN A, j \in DOMAIN B : A[i].id # B[j].id
  BY <1>2, Halves, Zenon
<1>4. InsertAt(list, w, b) = (A \o <<b>>) \o B
  BY DEF InsertAt
<1>5. A \o <<b>> = C
  <2>1. PICK S : A \in Seq(S)
    BY <1>3 DEF IsList
  <2> HIDE DEF A
  <2>2. A \in Seq(S \cup {b}) /\ b \in S \cup {b}
    BY <2>1
  <2>3. QED  BY <2>2, AppendIsConcat, Zenon
<1> HIDE DEF A, B
<1>6. \A i \in DOMAIN A : A[i].id # b.id
  BY <1>3
<1>7. \A i \in DOMAIN B : B[i].id # b.id
  BY <1>3
<1>8. IsList(C) /\ Distinct(C)
  BY <1>3, <1>6, Appended, Zenon
<1>9. IsList(<<b>>) /\ \A c : Member(<<b>>, c) => c = b
  <2>1. <<b>> \in Seq({b}) /\ DOMAIN <<b>> = {1} /\ <<b>>[1] = b
    OBVIOUS
  <2>2. QED  BY <2>1 DEF IsList, Member
<1>10. \A c : Member(C, c) <=> Member(A, c) \/ Member(<<b>>, c)
  <2>1. IsList(A) /\ IsList(<<b>>)
    BY <1>3, <1>9
  <2>2. \A c : Member(A \o <<b>>, c) <=> Member(A, c) \/ Member(<<b>>, c)
    BY <2>1, InConcat, Zenon
  <2>3. QED  BY <1>5, <2>2
<1> HIDE DEF C
<1>11. \A i \in DOMAIN C, j \in DOMAIN B : C[i].id # B[j].id
  <2> SUFFICES ASSUME NEW i \in DOMAIN C, NEW j \in DOMAIN B
               PROVE  C[i].id # B[j].id
    OBVIOUS
  <2>1. Member(C, C[i])
    BY Zenon DEF Member
  <2>2. CASE Member(A, C[i])
    BY <1>3, <2>2, Zenon DEF Member
  <2>3. CASE C[i] = b
    BY <1>7, <2>3
  <2>4. QED  BY <1>9, <1>10, <2>1, <2>2, <2>3, Zenon
<1>12. IsList(C \o B) /\ Distinct(C \o B)
  BY <1>3, <1>8, <1>11, Concatenated, Zenon
<1>13. ASSUME NEW i \in DOMAIN list
       PROVE  Member(C \o B, list[i])
  <2>1. Member(A, list[i]) \/ Member(B, list[i])
    <3>1. CASE i < w
      <4>1. A[i] = list[i] /\ i \in DOMAIN A
        BY <1>1, <1>3, <3>1
      <4>2. QED  BY <4>1, Zenon DEF Member
    <3>2. CASE i >= w
      <4>1. i - w + 1 \in 1..Len(list) - w + 1 /\ w + (i - w + 1) - 1 = i
        BY <1>1, <3>2
      <4>2. B[i - w + 1] = list[i] /\ i - w + 1 \in DOMAIN B
        BY <1>3, <4>1
      <4>3. QED  BY <4>2, Zenon DEF Member
    <3>3. QED  BY <1>1, <3>1, <3>2
  <2>2. QED  BY <1>3, <1>8, <1>10, <2>1, InConcat, Zenon
<1>14. InsertAt(list, w, b) = C \o B
  BY <1>4, <1>5
<1>15. \A id : Keeps(list, id, C \o B)
  BY <1>13, Zenon DEF Keeps, Member
<1>16. QED  BY <1>12, <1>14, <1>15, Zenon

(* The members at some places keep their addresses apart.                   *)
LEMMA Picked ==
  ASSUME NEW list, IsList(list), Distinct(list), NEW places \in SUBSET (DOMAIN list)
  PROVE  /\ IsList(Pick(list, places)) /\ Distinct(Pick(list, places))
         /\ DOMAIN Pick(list, places) = 1..Cardinality(places)
<1>1. Len(list) \in Nat /\ places \in SUBSET (1..Len(list))
  BY ListShape
<1>2. Cardinality(places) \in Nat
  <2>1. Cardinality(places) \in 0..Len(list)
    BY <1>1, Finite
  <2>2. QED  BY <2>1
<1> DEFINE f == Pick(list, places)
<1>3. f = [n \in 1..Cardinality(places) |-> list[Nth(places, n)]]
  BY DEF Pick
<1> HIDE DEF f
<1>4. f = [n \in 1..Cardinality(places) |-> f[n]]
  BY <1>3
<1>5. IsList(f) /\ DOMAIN f = 1..Cardinality(places)
  BY <1>2, <1>4, Function, Zenon
<1>6. Distinct(f)
  <2> SUFFICES ASSUME NEW m \in 1..Cardinality(places), NEW n \in 1..Cardinality(places),
                      f[m].id = f[n].id
               PROVE  m = n
    BY <1>5 DEF Distinct
  <2>1. /\ Nth(places, m) \in places /\ Rank(places, Nth(places, m)) = m
        /\ Nth(places, n) \in places /\ Rank(places, Nth(places, n)) = n
    BY <1>1, NthProperties, Zenon
  <2>2. Nth(places, m) = Nth(places, n)
    BY <1>3, <2>1 DEF Distinct
  <2>3. QED  BY <2>1, <2>2
<1>7. QED  BY <1>5, <1>6 DEF f

(* So much of it holds where addresses are not yet given.                   *)
LEMMA PickedList ==
  ASSUME NEW list, IsList(list), NEW places \in SUBSET (DOMAIN list)
  PROVE  IsList(Pick(list, places)) /\ DOMAIN Pick(list, places) = 1..Cardinality(places)
<1>1. Len(list) \in Nat /\ places \in SUBSET (1..Len(list))
  BY ListShape
<1>2. Cardinality(places) \in Nat
  <2>1. Cardinality(places) \in 0..Len(list)
    BY <1>1, Finite
  <2>2. QED  BY <2>1
<1> DEFINE f == Pick(list, places)
<1>3. f = [n \in 1..Cardinality(places) |-> list[Nth(places, n)]]
  BY DEF Pick
<1> HIDE DEF f
<1>4. f = [n \in 1..Cardinality(places) |-> f[n]]
  BY <1>3
<1>5. IsList(f) /\ DOMAIN f = 1..Cardinality(places)
  BY <1>2, <1>4, Function, Zenon
<1>6. QED  BY <1>5 DEF f

(* The greatest member.                                                     *)
LEMMA MaxIs ==
  ASSUME NEW S \in SUBSET Int, NEW m \in S, \A k \in S : k <= m
  PROVE  Max(S) = m
<1>1. \A x \in S : (\A y \in S : x >= y) => x = m
  OBVIOUS
<1>2. \A y \in S : m >= y
  OBVIOUS
<1>3. QED  BY <1>1, <1>2, Zenon DEF Max

(* The second pass of libspectrum_rzx_finalise, block by block.             *)
LEMMA MergeTrace ==
  ASSUME NEW list, IsList(list)
  PROVE  \E trace :
           /\ trace[0] = <<>>
           /\ \A k \in 0..Len(list) - 1 : trace[k + 1] = MergeNext(trace[k], list[k + 1])
           /\ FoldLeft(MergeNext, <<>>, list) = trace[Len(list)]
<1>1. Len(list) \in Nat /\ DOMAIN list = 1..Len(list)
  BY ListShape
<1> DEFINE N == Len(list)
           Solves(f, k) ==
             f = [S \in SUBSET (1..k) |->
                    IF S = {} THEN <<>> ELSE MergeNext(f[S \ {Max(S)}], list[Max(S)])]
           Solved == {k \in 0..N : \E f : Solves(f, k)}
<1>2. 0 \in Solved
  <2> DEFINE f == [S \in SUBSET (1..0) |-> <<>>]
  <2>1. \A S \in SUBSET (1..0) : S = {}
    OBVIOUS
  <2>2. Solves(f, 0)
    BY <2>1
  <2>3. QED  BY <1>1, <2>2
<1>3. ASSUME NEW k \in 0..N - 1, k \in Solved
      PROVE  k + 1 \in Solved
  <2>1. PICK f : Solves(f, k)
    BY <1>3
  <2> DEFINE g == [S \in SUBSET (1..k + 1) |->
                     IF k + 1 \in S THEN MergeNext(f[S \ {k + 1}], list[k + 1]) ELSE f[S]]
  <2>2. k \in Nat /\ k + 1 \in 0..N
    BY <1>1
  <2>3. ASSUME NEW S \in SUBSET (1..k + 1)
        PROVE  g[S] = IF S = {} THEN <<>> ELSE MergeNext(g[S \ {Max(S)}], list[Max(S)])
    <3>1. CASE k + 1 \in S
      <4>1. Max(S) = k + 1
        <5>1. S \in SUBSET Int /\ \A x \in S : x <= k + 1
          BY <2>2
        <5>2. QED  BY <3>1, <5>1, MaxIs, Zenon
      <4>2. S \ {k + 1} \in SUBSET (1..k + 1) /\ k + 1 \notin S \ {k + 1}
        OBVIOUS
      <4>3. g[S \ {k + 1}] = f[S \ {k + 1}]
        BY <4>2
      <4> HIDE DEF Solves
      <4>4. g[S] = MergeNext(f[S \ {k + 1}], list[k + 1])
        BY <3>1
      <4> HIDE DEF g
      <4>5. QED  BY <3>1, <4>1, <4>3, <4>4
    <3>2. CASE k + 1 \notin S
      <4>1. S \in SUBSET (1..k)
        BY <2>2, <3>2
      <4>2. g[S] = f[S]
        BY <3>2
      <4>3. S # {} => S \ {Max(S)} \in SUBSET (1..k + 1) /\ k + 1 \notin S \ {Max(S)}
        BY <3>2
      <4>4. S # {} => g[S \ {Max(S)}] = f[S \ {Max(S)}]
        BY <4>3
      <4>5. f[S] = IF S = {} THEN <<>> ELSE MergeNext(f[S \ {Max(S)}], list[Max(S)])
        BY <2>1, <4>1, Zenon
      <4> HIDE DEF g, Solves
      <4>6. QED  BY <4>2, <4>4, <4>5, Zenon
    <3>3. QED  BY <3>1, <3>2
  <2>4. Solves(g, k + 1)
    <3>1. g = [S \in SUBSET (1..k + 1) |-> g[S]]
      BY Zenon
    <3> HIDE DEF g
    <3>2. QED  BY <2>3, <3>1, Zenon
  <2>5. QED  BY <2>2, <2>4
<1>4. N \in Solved
  <2>1. Solved \in SUBSET Nat
    OBVIOUS
  <2> HIDE DEF Solved
  <2>2. 0..N \subseteq Solved
    BY <1>1, <1>2, <1>3, <2>1, Induction
  <2>3. QED  BY <1>1, <2>2
<1> DEFINE iter == CHOOSE f : Solves(f, N)
<1>5. Solves(iter, N)
  BY <1>4
<1>6. FoldLeft(MergeNext, <<>>, list) = iter[1..N]
  BY <1>1, Zenon DEF FoldLeft, MapThenFoldSet
<1> DEFINE trace == [k \in 0..N |-> iter[1..k]]
<1>7. \A S \in SUBSET (1..N) :
        iter[S] = IF S = {} THEN <<>> ELSE MergeNext(iter[S \ {Max(S)}], list[Max(S)])
  BY <1>5, Zenon
<1> HIDE DEF iter, Solves
<1>8. trace[0] = <<>>
  <2>1. 1..0 = {} /\ 1..0 \in SUBSET (1..N) /\ 0 \in 0..N
    BY <1>1
  <2>2. QED  BY <1>7, <2>1
<1>9. ASSUME NEW k \in 0..N - 1
      PROVE  trace[k + 1] = MergeNext(trace[k], list[k + 1])
  <2>0. /\ 1..k + 1 \in SUBSET (1..N) /\ k + 1 \in 1..k + 1
        /\ (1..k + 1) \ {k + 1} = 1..k /\ k \in 0..N /\ k + 1 \in 0..N
        /\ 1..k + 1 \in SUBSET Int /\ \A x \in 1..k + 1 : x <= k + 1
    BY <1>1
  <2>1. Max(1..k + 1) = k + 1 /\ 1..k + 1 # {}
    BY <2>0, MaxIs, Zenon
  <2>2. iter[1..k + 1] = MergeNext(iter[1..k], list[k + 1])
    BY <1>7, <2>0, <2>1, Zenon
  <2>3. QED  BY <2>0, <2>2
<1>10. trace[N] = iter[1..N]
  BY <1>1
<1> HIDE DEF trace
<1>11. QED  BY <1>6, <1>8, <1>9, <1>10, Zenon

(* What it leaves has the addresses of blocks it went through.              *)
LEMMA RunsMerged ==
  ASSUME NEW list, IsList(list), Distinct(list)
  PROVE  /\ IsList(FoldLeft(MergeNext, <<>>, list))
         /\ Distinct(FoldLeft(MergeNext, <<>>, list))
<1>1. Len(list) \in Nat /\ DOMAIN list = 1..Len(list)
  BY ListShape
<1>2. PICK trace :
        /\ trace[0] = <<>>
        /\ \A k \in 0..Len(list) - 1 : trace[k + 1] = MergeNext(trace[k], list[k + 1])
        /\ FoldLeft(MergeNext, <<>>, list) = trace[Len(list)]
  BY MergeTrace, Zenon
<1> DEFINE Merging(acc, k) ==
             /\ IsList(acc) /\ Distinct(acc)
             /\ \A i \in DOMAIN acc : \E j \in 1..k : acc[i].id = list[j].id
           Done == {k \in Nat : Merging(trace[k], k)}
<1>3. 0 \in Done
  <2>1. IsList(<<>>)
    <3>1. <<>> \in Seq({})
      OBVIOUS
    <3>2. QED  BY <3>1 DEF IsList
  <2>2. DOMAIN <<>> = {}
    OBVIOUS
  <2>3. QED  BY <1>2, <2>1, <2>2 DEF Distinct
<1>4. ASSUME NEW k \in 0..Len(list) - 1, k \in Done
      PROVE  k + 1 \in Done
  <2> DEFINE acc == trace[k]
             b == list[k + 1]
             new == trace[k + 1]
  <2>1. new = MergeNext(acc, b)
    BY <1>2
  <2>2. Merging(acc, k)
    BY <1>4
  <2>3. k \in Nat /\ k + 1 \in 1..Len(list) /\ \A j \in 1..k : j \in 1..k + 1 /\ j \in DOMAIN list /\ j # k + 1
    BY <1>1
  <2>4. Len(acc) \in Nat /\ DOMAIN acc = 1..Len(acc)
    BY <2>2, ListShape
  <2> HIDE DEF acc, b, new
  <2>5. CASE acc # <<>> /\ IsInput(b) /\ IsInput(Last(acc))
    <3>1. new = [acc EXCEPT ![Len(acc)] = Merge(@, b)]
      BY <2>1, <2>5, Zenon DEF MergeNext
    <3>2. \A i \in DOMAIN acc : new[i].id = acc[i].id
      BY <3>1 DEF Merge
    <3>3. DOMAIN new = DOMAIN acc
      BY <3>1
    <3>4. IsList(new)
      <4>1. new = [i \in 1..Len(acc) |-> new[i]]
        BY <2>4, <3>1
      <4>2. QED  BY <2>4, <4>1, Function, Zenon
    <3>5. Distinct(new)
      BY <2>2, <3>2, <3>3 DEF Distinct
    <3>6. \A i \in DOMAIN new : \E j \in 1..k + 1 : new[i].id = list[j].id
      BY <2>2, <2>3, <3>2, <3>3
    <3>7. QED  BY <2>3, <3>4, <3>5, <3>6 DEF new
  <2>6. CASE ~(acc # <<>> /\ IsInput(b) /\ IsInput(Last(acc)))
    <3>1. new = Append(acc, b)
      BY <2>1, <2>6, Zenon DEF MergeNext
    <3>2. ASSUME NEW i \in DOMAIN acc
          PROVE  acc[i].id # b.id
      <4>1. PICK j \in 1..k : acc[i].id = list[j].id
        BY <2>2
      <4>2. QED  BY <1>1, <2>3, <4>1 DEF Distinct, b
    <3>3. IsList(new) /\ Distinct(new)
      BY <2>2, <3>1, <3>2, Appended, Zenon
    <3>4. \A i \in DOMAIN new : new[i] = b \/ (i \in DOMAIN acc /\ new[i] = acc[i])
      <4>1. PICK S : acc \in Seq(S)
        BY <2>2 DEF IsList
      <4>2. /\ \A i \in 1..Len(acc) : Append(acc, b)[i] = acc[i]
            /\ Append(acc, b)[Len(acc) + 1] = b /\ DOMAIN Append(acc, b) = 1..Len(acc) + 1
        BY <4>1
      <4>3. QED  BY <2>4, <3>1, <4>2
    <3>5. ASSUME NEW i \in DOMAIN new
          PROVE  \E j \in 1..k + 1 : new[i].id = list[j].id
      <4>1. CASE new[i] = b
        BY <2>3, <4>1 DEF b
      <4>2. CASE i \in DOMAIN acc /\ new[i] = acc[i]
        BY <2>2, <2>3, <4>2
      <4>3. QED  BY <3>4, <4>1, <4>2
    <3>6. QED  BY <2>3, <3>3, <3>5 DEF new
  <2>7. QED  BY <2>5, <2>6
<1>5. Len(list) \in Done
  <2>1. Done \in SUBSET Nat
    OBVIOUS
  <2> HIDE DEF Done
  <2>2. 0..Len(list) \subseteq Done
    BY <1>1, <1>3, <1>4, <2>1, Induction
  <2>3. QED  BY <1>1, <2>2
<1>6. QED  BY <1>2, <1>5

(* Both passes.                                                             *)
LEMMA Finalised ==
  ASSUME NEW list, IsList(list), Distinct(list)
  PROVE  /\ IsList(FoldLeft(MergeNext, <<>>, OneSnapshot(list)))
         /\ Distinct(FoldLeft(MergeNext, <<>>, OneSnapshot(list)))
<1> DEFINE first == SelectInSeq(list, IsSnapshot)
           places == {i \in DOMAIN list : IsSnapshot(list[i]) => i = first}
<1>1. OneSnapshot(list) = Pick(list, places)
  BY Zenon DEF OneSnapshot
<1>2. places \in SUBSET (DOMAIN list)
  OBVIOUS
<1> HIDE DEF places
<1>3. IsList(Pick(list, places)) /\ Distinct(Pick(list, places))
  BY <1>2, Picked
<1>4. QED  BY <1>1, <1>3, RunsMerged, Zenon

----------------------------------------------------------------------------
(* Addresses.                                                               *)

(* There are addresses for as many blocks as may be in a recording.         *)
LEMMA AddressesLeft ==
  ASSUME Inv, Len(blocks) <= MaxBlocks, NEW n \in 1..MaxBlocks
  PROVE  /\ Nth(Addresses, n) \in Addresses
         /\ Rank(Addresses, Nth(Addresses, n)) = n
<1>1. /\ MaxBlocks \in Nat /\ Len(blocks) \in Nat
      /\ IsFiniteSet(DOMAIN blocks) /\ Cardinality(DOMAIN blocks) = Len(blocks)
  BY RzxAssumption, ListShape DEF Inv
<1> DEFINE N == 2 * MaxBlocks + 2
           used == Ids \union {current_input, current_block}
<1>2. IsFiniteSet(Ids) /\ Cardinality(Ids) <= Len(blocks) /\ Cardinality(Ids) \in Nat
  <2> DEFINE f == [i \in DOMAIN blocks |-> blocks[i].id]
  <2>1. f \in Surjection(DOMAIN blocks, Ids)
    BY DEF Surjection, Ids
  <2> HIDE DEF f
  <2>2. IsFiniteSet(Ids) /\ Cardinality(Ids) <= Cardinality(DOMAIN blocks)
    BY <1>1, <2>1, FS_Surjection, Zenon
  <2>3. Cardinality(Ids) \in Nat
    BY <2>2, FS_CardinalityType, Zenon
  <2>4. QED  BY <1>1, <2>2, <2>3
<1>3. IsFiniteSet(used) /\ Cardinality(used) \in Nat /\ Cardinality(used) <= Len(blocks) + 2
  <2> DEFINE U == Ids \cup {current_input}
             V == U \cup {current_block}
  <2>1. /\ IsFiniteSet(U)
        /\ Cardinality(U) = IF current_input \in Ids THEN Cardinality(Ids) ELSE Cardinality(Ids)+1
    BY <1>2, FS_AddElement, Zenon
  <2> HIDE DEF U
  <2>2. /\ IsFiniteSet(V)
        /\ Cardinality(V) = IF current_block \in U THEN Cardinality(U) ELSE Cardinality(U)+1
    BY <2>1, FS_AddElement, Zenon
  <2>3. used = V
    BY Zenon DEF U
  <2> HIDE DEF V, used
  <2>4. Cardinality(V) \in Nat /\ Cardinality(U) \in Nat
    BY <2>1, <2>2, FS_CardinalityType, Zenon
  <2>5. QED  BY <1>1, <1>2, <2>1, <2>2, <2>3, <2>4
<1>4. IsFiniteSet(1..N) /\ Cardinality(1..N) = N /\ N \in Nat
  <2>1. 1 \in Int /\ N \in Int /\ N \in Nat /\ ~(1 > N) /\ N - 1 + 1 = N
    BY <1>1
  <2> HIDE DEF N
  <2>2. IsFiniteSet(1..N) /\ Cardinality(1..N) = IF 1 > N THEN 0 ELSE N - 1 + 1
    BY <2>1, FS_Interval, Zenon
  <2>3. QED  BY <2>1, <2>2
<1>5. Addresses = (1..N) \ used
  BY DEF Addresses
<1> HIDE DEF used
<1>6. /\ IsFiniteSet(Addresses)
      /\ Cardinality(Addresses) = Cardinality(1..N) - Cardinality((1..N) \cap used)
  <2> HIDE DEF N
  <2>1. QED  BY <1>4, <1>5, FS_Difference, Zenon
<1>7. Cardinality((1..N) \cap used) <= Cardinality(used) /\ Cardinality((1..N) \cap used) \in Nat
  <2> HIDE DEF N
  <2>1. IsFiniteSet((1..N) \cap used) /\ Cardinality((1..N) \cap used) <= Cardinality(used)
    BY <1>3, FS_Intersection, Zenon
  <2>2. QED  BY <2>1, FS_CardinalityType, Zenon
<1>8. Cardinality(Addresses) \in Nat /\ Cardinality(Addresses) >= MaxBlocks
  BY <1>1, <1>3, <1>4, <1>6, <1>7
<1>9. Addresses \in SUBSET (1..N) /\ n \in 1..Cardinality(Addresses)
  <2> HIDE DEF N
  <2>1. QED  BY <1>1, <1>5, <1>8
<1>10. N \in Nat
  BY <1>4
<1> HIDE DEF N
<1>11. QED  BY <1>9, <1>10, NthProperties, Zenon

(* malloc gives none that is in use.                                        *)
LEMMA FreshAddress ==
  ASSUME Inv, Len(blocks) < MaxBlocks
  PROVE  /\ FreshId \in Nat \ {Null}
         /\ \A i \in DOMAIN blocks : blocks[i].id # FreshId
<1>1. MaxBlocks \in Nat /\ Len(blocks) \in Nat
  BY RzxAssumption, ListShape DEF Inv
<1>2. Len(blocks) <= MaxBlocks /\ 1 \in 1..MaxBlocks
  BY <1>1
<1>3. FreshId \in Addresses
  BY <1>2, AddressesLeft, Zenon DEF FreshId
<1>4. Addresses \subseteq Nat \ {Null}
  BY <1>1 DEF Addresses, Null
<1>5. QED  BY <1>3, <1>4 DEF Addresses, Ids

----------------------------------------------------------------------------
(* The recorder.                                                            *)

(* A change of the list that keeps what the pointer points to.              *)
LEMMA RecorderKeeps ==
  ASSUME Inv, Recording, UNCHANGED <<playback, role>>, IsList(file'),
         IsList(blocks'), Distinct(blocks'), Points(blocks', current_input', TRUE)
  PROVE  Inv'
<1>1. current_block = Null /\ current_block' = Null /\ Recording'
  BY DEF Inv, playback, Recording
<1>2. Points(blocks', current_input', Recording')
  BY <1>1 DEF Points
<1>3. QED  BY <1>1, <1>2 DEF Inv

(* What the invariant says of the recorder.                                 *)
LEMMA RecorderHas ==
  ASSUME Inv, Recording
  PROVE  /\ IsList(blocks) /\ Distinct(blocks) /\ IsList(file)
         /\ Points(blocks, current_input, TRUE)
         /\ \A list : Points(list, Null, TRUE)
BY DEF Inv, Points

(* libspectrum_rzx_start_input.                                             *)
LEMMA StartInputKeeps ==
  ASSUME Inv, NEW tstates \in Tstates, StartInput(tstates)
  PROVE  Inv'
<1> DEFINE b == InputBlock(FreshId, tstates, <<>>, 0)
<1>1. /\ Recording /\ Len(blocks) < MaxBlocks
      /\ blocks' = Append(blocks, b) /\ current_input' = FreshId
      /\ UNCHANGED <<playback, role, file>>
  BY DEF StartInput
<1>2. FreshId \in Nat \ {Null} /\ \A i \in DOMAIN blocks : blocks[i].id # FreshId
  BY <1>1, FreshAddress
<1>3. b.id = FreshId /\ IsInput(b) /\ Recorded(b)
  BY <1>2 DEF InputBlock, IsInput, Recorded, RecordedBlock
<1> HIDE DEF b
<1>4. IsList(blocks) /\ Distinct(blocks) /\ \A i \in DOMAIN blocks : blocks[i].id # b.id
  BY <1>1, <1>2, <1>3, RecorderHas
<1>5. IsList(blocks') /\ Distinct(blocks') /\ \E j \in DOMAIN blocks' : blocks'[j] = b
  BY <1>1, <1>4, Appended, Zenon
<1>6. Points(blocks', current_input', TRUE)
  BY <1>1, <1>3, <1>5 DEF Points
<1>7. IsList(file')
  BY <1>1, RecorderHas
<1>8. QED  BY <1>1, <1>5, <1>6, <1>7, RecorderKeeps

(* libspectrum_rzx_stop_input, and a file written or an action that leaves  *)
(* the list alone.                                                          *)
LEMMA StopInputKeeps ==
  ASSUME Inv, StopInput
  PROVE  Inv'
<1>1. /\ Recording /\ current_input' = Null /\ UNCHANGED <<blocks, playback, role, file>>
  BY DEF StopInput
<1>2. QED  BY <1>1, RecorderHas, RecorderKeeps

(* libspectrum_rzx_add_snap.                                                *)
LEMMA AddSnapKeeps ==
  ASSUME Inv, NEW s, NEW automatic, AddSnap(s, automatic)
  PROVE  Inv'
<1> DEFINE b == SnapBlock(FreshId, s, automatic)
<1>1. /\ Recording /\ Len(blocks) < MaxBlocks
      /\ blocks' = Append(blocks, b) /\ current_input' = Null
      /\ UNCHANGED <<playback, role, file>>
  BY DEF AddSnap, InputAfterSnap
<1>2. b.id = FreshId
  BY DEF SnapBlock
<1> HIDE DEF b
<1>3. IsList(blocks) /\ Distinct(blocks) /\ \A i \in DOMAIN blocks : blocks[i].id # b.id
  BY <1>1, <1>2, FreshAddress, RecorderHas
<1>4. IsList(blocks') /\ Distinct(blocks')
  BY <1>1, <1>3, Appended, Zenon
<1>5. QED  BY <1>1, <1>4, RecorderHas, RecorderKeeps

(* libspectrum_rzx_insert_snap.                                             *)
LEMMA InsertSnapKeeps ==
  ASSUME Inv, NEW s, NEW where \in 1..Len(blocks) + 1, InsertSnap(s, where)
  PROVE  Inv'
<1> DEFINE b == SnapBlock(FreshId, s, FALSE)
<1>1. /\ Recording /\ Len(blocks) < MaxBlocks
      /\ blocks' = InsertAt(blocks, where, b)
      /\ UNCHANGED <<current_input, playback, role, file>>
  BY DEF InsertSnap
<1>2. b.id = FreshId
  BY DEF SnapBlock
<1> HIDE DEF b
<1>3. IsList(blocks) /\ Distinct(blocks) /\ \A i \in DOMAIN blocks : blocks[i].id # b.id
  BY <1>1, <1>2, FreshAddress, RecorderHas
<1>4. IsList(blocks') /\ Distinct(blocks') /\ Keeps(blocks, current_input, blocks')
  BY <1>1, <1>3, Inserted, Zenon
<1>5. Points(blocks', current_input', TRUE)
  BY <1>1, <1>4, RecorderHas, PointsKept, Zenon
<1>6. QED  BY <1>1, <1>4, <1>5, RecorderHas, RecorderKeeps

(* libspectrum_rzx_rollback and libspectrum_rzx_rollback_to.                *)
LEMMA RollbackKeeps ==
  ASSUME Inv, NEW k \in DOMAIN blocks, Rollback(k)
  PROVE  Inv'
<1>1. /\ Recording /\ current_input' = Null /\ blocks' = SubSeq(blocks, 1, k)
      /\ UNCHANGED <<playback, role, file>>
  BY DEF Rollback, InputAfterRollback
<1>2. IsList(blocks') /\ Distinct(blocks')
  BY <1>1, RecorderHas, Cut
<1>3. QED  BY <1>1, <1>2, RecorderHas, RecorderKeeps

(* libspectrum_rzx_iterator_delete.                                         *)
LEMMA DeleteKeeps ==
  ASSUME Inv, NEW k \in DOMAIN blocks, IteratorDelete(k)
  PROVE  Inv'
<1>1. /\ Recording /\ blocks[k].id # current_input /\ blocks' = RemoveAt(blocks, k)
      /\ UNCHANGED <<current_input, playback, role, file>>
  BY DEF IteratorDelete
<1>2. IsList(blocks) /\ Distinct(blocks)
  BY <1>1, RecorderHas
<1>3. IsList(blocks') /\ Distinct(blocks') /\ Keeps(blocks, current_input, blocks')
  BY <1>1, <1>2, Removed, Zenon
<1>4. Points(blocks', current_input', TRUE)
  BY <1>1, <1>3, RecorderHas, PointsKept, Zenon
<1>5. QED  BY <1>1, <1>3, <1>4, RecorderHas, RecorderKeeps

(* libspectrum_rzx_finalise.                                                *)
LEMMA FinaliseKeeps ==
  ASSUME Inv, Finalise
  PROVE  Inv'
<1>1. /\ Recording /\ current_input' = Null
      /\ blocks' = FoldLeft(MergeNext, <<>>, OneSnapshot(blocks))
      /\ UNCHANGED <<playback, role, file>>
  BY DEF Finalise
<1>2. IsList(blocks') /\ Distinct(blocks')
  BY <1>1, RecorderHas, Finalised
<1>3. QED  BY <1>1, <1>2, RecorderHas, RecorderKeeps

(* libspectrum_rzx_write: the recording stays as it is.                     *)
LEMMA WriteKeeps ==
  ASSUME Inv, NEW format, Write(format)
  PROVE  Inv'
<1> DEFINE places == {i \in DOMAIN blocks : IsStored(blocks[i]) /\ ~Lost(format, i)}
           kept == Pick(blocks, places)
<1>1. /\ Recording /\ file' = [i \in DOMAIN kept |-> WrittenBlock(kept[i])]
      /\ UNCHANGED <<blocks, current_input, playback, role>>
  BY DEF Write, Written
<1>2. IsList(blocks) /\ places \in SUBSET (DOMAIN blocks)
  BY <1>1, RecorderHas
<1> HIDE DEF places
<1>3. Len(kept) \in Nat /\ DOMAIN kept = 1..Len(kept)
  BY <1>2, PickedList, ListShape
<1> HIDE DEF kept
<1>4. file' = [i \in 1..Len(kept) |-> file'[i]]
  BY <1>1, <1>3
<1>5. IsList(file')
  BY <1>3, <1>4, Function, Zenon
<1>6. QED  BY <1>1, <1>5, RecorderHas, RecorderKeeps

(* The blocks that libspectrum_rzx_read adds, and their addresses.          *)
LEMMA ReadShape ==
  ASSUME Inv, NEW n \in 0..Len(file), Read(n)
  PROVE  LET stored == SubSeq(file, 1, n)
             kept == Kept(stored)
             more == Loaded(kept)
         IN  /\ Recording /\ blocks' = blocks \o more
             /\ UNCHANGED <<current_input, playback, role, file>>
             /\ IsList(stored) /\ Len(stored) = n
             /\ IsList(kept) /\ IsList(more) /\ Len(more) = Len(kept)
             /\ \A i \in 1..Len(kept) :
                  /\ more[i] = ReadBlock(Nth(Addresses, i), kept[i])
                  /\ more[i].id = Nth(Addresses, i)
                  /\ Nth(Addresses, i) \in Addresses /\ Rank(Addresses, Nth(Addresses, i)) = i
<1> DEFINE stored == SubSeq(file, 1, n)
           places == {i \in DOMAIN stored : stored[i].type \notin {"CREATOR", "LINK"}}
           kept == Kept(stored)
           more == Loaded(kept)
<1>1. /\ Recording /\ blocks' = blocks \o more /\ Len(blocks') <= MaxBlocks
      /\ UNCHANGED <<current_input, playback, role, file>>
  BY DEF Read
<1>2. IsList(blocks) /\ Distinct(blocks) /\ IsList(file)
  BY <1>1, RecorderHas
<1>3. IsList(stored) /\ Len(stored) = n
  <2>1. Len(file) \in Nat /\ n \in Nat
    BY <1>2, ListShape
  <2>2. stored = [i \in 1..n |-> file[1 + i - 1]]
    BY <2>1 DEF SubSeq
  <2> HIDE DEF stored
  <2>3. stored = [i \in 1..n |-> stored[i]]
    BY <2>2
  <2>4. QED  BY <2>1, <2>3, Function, Zenon
<1>4. kept = Pick(stored, places) /\ places \in SUBSET (DOMAIN stored)
  BY DEF Kept
<1> HIDE DEF stored, places, kept
<1>5. IsList(kept) /\ Len(kept) \in Nat /\ DOMAIN kept = 1..Len(kept)
  BY <1>3, <1>4, PickedList, ListShape
<1>6. more = [i \in 1..Len(kept) |-> ReadBlock(Nth(Addresses, i), kept[i])]
  BY <1>5 DEF Loaded
<1>7. \A i \in 1..Len(kept) :
        more[i] = ReadBlock(Nth(Addresses, i), kept[i]) /\ more[i].id = Nth(Addresses, i)
  <2>1. \A id, w : ReadBlock(id, w).id = id
    BY DEF ReadBlock, InputBlock, SnapBlock
  <2> HIDE DEF more
  <2>2. QED  BY <1>6, <2>1
<1> HIDE DEF more
<1>8. IsList(more) /\ Len(more) = Len(kept)
  <2>1. more = [i \in 1..Len(kept) |-> more[i]]
    BY <1>6
  <2>2. QED  BY <1>5, <2>1, Function, Zenon
<1>9. Len(blocks) \in Nat /\ Len(blocks) + Len(kept) <= MaxBlocks /\ MaxBlocks \in Nat
  <2>1. PICK S : blocks \in Seq(S)
    BY <1>2 DEF IsList
  <2>2. PICK R : more \in Seq(R)
    BY <1>8 DEF IsList
  <2>3. Len(blocks \o more) = Len(blocks) + Len(more) /\ Len(blocks) \in Nat
    BY <2>1, <2>2
  <2>4. QED  BY <1>1, <1>8, <2>3, RzxAssumption
<1>10. \A i \in 1..Len(kept) :
         Nth(Addresses, i) \in Addresses /\ Rank(Addresses, Nth(Addresses, i)) = i
  <2> SUFFICES ASSUME NEW i \in 1..Len(kept)
               PROVE  Nth(Addresses, i) \in Addresses /\ Rank(Addresses, Nth(Addresses, i)) = i
    OBVIOUS
  <2>1. i \in 1..MaxBlocks /\ Len(blocks) <= MaxBlocks
    BY <1>5, <1>9
  <2>2. QED  BY <2>1, AddressesLeft, Zenon
<1>11. QED
  BY <1>1, <1>3, <1>5, <1>7, <1>8, <1>10, Zenon DEF stored, kept, more

(* libspectrum_rzx_read: each block that is read gets an address of its own. *)
LEMMA ReadKeeps ==
  ASSUME Inv, NEW n \in 0..Len(file), Read(n)
  PROVE  Inv'
<1> DEFINE kept == Kept(SubSeq(file, 1, n))
           more == Loaded(kept)
<1>1. /\ Recording /\ blocks' = blocks \o more
      /\ UNCHANGED <<current_input, playback, role, file>>
      /\ IsList(more) /\ Len(more) = Len(kept)
      /\ \A i \in 1..Len(kept) :
           /\ more[i].id = Nth(Addresses, i)
           /\ Nth(Addresses, i) \in Addresses /\ Rank(Addresses, Nth(Addresses, i)) = i
  BY ReadShape, Zenon
<1> HIDE DEF kept, more
<1>2. IsList(blocks) /\ Distinct(blocks) /\ IsList(file)
  BY <1>1, RecorderHas
<1>3. DOMAIN more = 1..Len(kept)
  BY <1>1, ListShape
<1>4. Distinct(more)
  <2> SUFFICES ASSUME NEW i \in 1..Len(kept), NEW j \in 1..Len(kept), more[i].id = more[j].id
               PROVE  i = j
    BY <1>3 DEF Distinct
  <2>1. Nth(Addresses, i) = Nth(Addresses, j)
    BY <1>1
  <2>2. QED  BY <1>1, <2>1
<1>5. \A i \in DOMAIN blocks, j \in DOMAIN more : blocks[i].id # more[j].id
  <2> SUFFICES ASSUME NEW i \in DOMAIN blocks, NEW j \in 1..Len(kept)
               PROVE  blocks[i].id # more[j].id
    BY <1>3
  <2>1. more[j].id \in Addresses /\ blocks[i].id \in Ids
    BY <1>1 DEF Ids
  <2>2. QED  BY <2>1 DEF Addresses
<1>6. IsList(blocks \o more) /\ Distinct(blocks \o more)
      /\ Keeps(blocks, current_input, blocks \o more)
  BY <1>1, <1>2, <1>4, <1>5, Concatenated, Zenon
<1>7. Points(blocks \o more, current_input, TRUE)
  BY <1>1, <1>6, RecorderHas, PointsKept, Zenon
<1>8. QED  BY <1>1, <1>2, <1>6, <1>7, RecorderKeeps

(* A frame stored in the block that is recorded.                            *)
LEMMA Stored ==
  ASSUME NEW b, Recorded(b), NEW n \in Instructions, NEW in \in InBytes
  PROVE  /\ Recorded(StoreInto(b, n, in))
         /\ StoreInto(b, n, in).id = b.id /\ IsInput(StoreInto(b, n, in))
<1> DEFINE Fr == [instructions : Instructions, in : InBytes \union {<<>>}, repeat_last : BOOLEAN]
           again == [instructions |-> n, in |-> <<>>, repeat_last |-> TRUE]
           full == [instructions |-> n, in |-> in, repeat_last |-> FALSE]
<1>1. b \in RecordedBlock /\ b.frames \in Seq(Fr) /\ b.non_repeat \in Nat
  BY DEF Recorded, RecordedBlock
<1>2. again \in Fr /\ full \in Fr
  OBVIOUS
<1> HIDE DEF Fr
<1>3. Len(b.frames) \in Nat /\ DOMAIN b.frames = 1..Len(b.frames)
  BY <1>1
<1>4. ASSUME NEW fr \in Fr
      PROVE  /\ Append(b.frames, fr) \in Seq(Fr)
             /\ Len(Append(b.frames, fr)) = Len(b.frames) + 1
             /\ \A i \in 1..Len(b.frames) : Append(b.frames, fr)[i] = b.frames[i]
             /\ Append(b.frames, fr)[Len(b.frames) + 1] = fr
             /\ DOMAIN Append(b.frames, fr) = 1..Len(b.frames) + 1
  BY <1>1, <1>3, <1>4, AppendProperties
<1>5. CASE Repeats(b, in)
  <2> DEFINE new == Append(b.frames, again)
  <2>1. StoreInto(b, n, in) = [b EXCEPT !.frames = new]
    BY <1>5 DEF StoreInto
  <2>2. /\ new \in Seq(Fr) /\ Len(new) = Len(b.frames) + 1 /\ DOMAIN new = 1..Len(b.frames) + 1
        /\ \A i \in 1..Len(b.frames) : new[i] = b.frames[i]
        /\ new[Len(b.frames) + 1].repeat_last
    BY <1>2, <1>4
  <2> HIDE DEF new
  <2> DEFINE c == [b EXCEPT !.frames = new]
  <2>3. /\ c \in RecordedBlock /\ c.id = b.id /\ c.type = "INPUT"
        /\ c.frames = new /\ c.non_repeat = b.non_repeat
    BY <1>1, <2>2 DEF RecordedBlock, Fr
  <2> HIDE DEF c
  <2>4. /\ b.non_repeat + 1 \in 1..Len(b.frames) /\ ~b.frames[b.non_repeat + 1].repeat_last
        /\ \A i \in b.non_repeat + 2..Len(b.frames) : b.frames[i].repeat_last
    BY <1>3, <1>5 DEF Recorded, Repeats
  <2>5. /\ b.non_repeat + 1 \in DOMAIN new /\ ~new[b.non_repeat + 1].repeat_last
    BY <1>3, <2>2, <2>4
  <2>6. \A i \in b.non_repeat + 2..Len(new) : new[i].repeat_last
    <3> SUFFICES ASSUME NEW i \in b.non_repeat + 2..Len(b.frames) + 1
                 PROVE  new[i].repeat_last
      BY <2>2
    <3>1. \/ i \in b.non_repeat + 2..Len(b.frames) /\ i \in 1..Len(b.frames)
          \/ i = Len(b.frames) + 1
      BY <1>1, <1>3
    <3>2. QED  BY <2>2, <2>4, <3>1
  <2>7. Recorded(c)
    BY <2>3, <2>5, <2>6 DEF Recorded
  <2>8. QED  BY <2>1, <2>3, <2>7 DEF c, IsInput
<1>6. CASE ~Repeats(b, in)
  <2> DEFINE new == Append(b.frames, full)
  <2>1. StoreInto(b, n, in) = [b EXCEPT !.frames = new, !.non_repeat = Len(b.frames)]
    BY <1>6 DEF StoreInto, NonRepeat
  <2>2. /\ new \in Seq(Fr) /\ Len(new) = Len(b.frames) + 1 /\ DOMAIN new = 1..Len(b.frames) + 1
        /\ ~new[Len(b.frames) + 1].repeat_last
    BY <1>2, <1>4
  <2> HIDE DEF new
  <2> DEFINE c == [b EXCEPT !.frames = new, !.non_repeat = Len(b.frames)]
  <2>3. /\ c \in RecordedBlock /\ c.id = b.id /\ c.type = "INPUT"
        /\ c.frames = new /\ c.non_repeat = Len(b.frames)
    BY <1>1, <1>3, <2>2 DEF RecordedBlock, Fr
  <2> HIDE DEF c
  <2>4. /\ c.non_repeat + 1 \in DOMAIN new /\ ~new[c.non_repeat + 1].repeat_last
        /\ c.non_repeat + 2..Len(new) = {}
    BY <1>3, <2>2, <2>3
  <2>5. Recorded(c)
    BY <2>3, <2>4 DEF Recorded
  <2>6. QED  BY <2>1, <2>3, <2>5 DEF c, IsInput
<1>7. QED  BY <1>5, <1>6

(* libspectrum_rzx_store_frame.                                             *)
LEMMA StoreFrameKeeps ==
  ASSUME Inv, NEW n \in Instructions, NEW in \in InBytes, StoreFrame(n, in)
  PROVE  Inv'
<1> DEFINE p == Place(current_input)
<1>1. /\ Recording /\ current_input # Null
      /\ blocks' = [blocks EXCEPT ![p] = StoreInto(blocks[p], n, in)]
      /\ UNCHANGED <<current_input, playback, role, file>>
  BY DEF StoreFrame
<1>2. /\ IsList(blocks) /\ Distinct(blocks) /\ IsList(file)
      /\ DOMAIN blocks = 1..Len(blocks) /\ Len(blocks) \in Nat
  BY <1>1, RecorderHas, ListShape
<1>3. PICK i \in DOMAIN blocks : blocks[i].id = current_input /\ Recorded(blocks[i])
  BY <1>1, RecorderHas DEF Points
<1>4. p = i
  <2>1. PlaceIn(blocks, blocks[i].id) = i
    BY <1>2, PlaceFound
  <2>2. p = PlaceIn(blocks, current_input)
    BY Zenon DEF Place, PlaceIn
  <2>3. QED  BY <1>3, <2>1, <2>2
<1> HIDE DEF p
<1> DEFINE b == StoreInto(blocks[i], n, in)
<1>5. Recorded(b) /\ b.id = current_input /\ IsInput(b)
  BY <1>3, Stored
<1>6. blocks' = [blocks EXCEPT ![i] = b]
  BY <1>1, <1>4
<1> HIDE DEF b
<1>7. DOMAIN blocks' = 1..Len(blocks) /\ \A j \in DOMAIN blocks :
        blocks'[j] = IF j = i THEN b ELSE blocks[j]
  <2>1. PICK S : blocks \in Seq(S)
    BY <1>2 DEF IsList
  <2>2. QED  BY <1>2, <1>6, <2>1
<1>8. IsList(blocks')
  <2>1. PICK S : blocks \in Seq(S)
    BY <1>2 DEF IsList
  <2>2. blocks \in Seq(S \cup {b})
    BY <2>1
  <2>3. blocks' \in Seq(S \cup {b})
    BY <1>6, <2>2
  <2>4. QED  BY <2>3 DEF IsList
<1>9. \A j \in DOMAIN blocks : blocks'[j].id = blocks[j].id
  BY <1>3, <1>5, <1>7
<1>10. Distinct(blocks')
  BY <1>2, <1>7, <1>9 DEF Distinct
<1>11. Points(blocks', current_input', TRUE)
  BY <1>1, <1>2, <1>5, <1>7 DEF Points
<1>12. QED  BY <1>1, <1>2, <1>8, <1>10, <1>11, RecorderKeeps

----------------------------------------------------------------------------
(* The player.                                                              *)

(* Playback is of an input block of the list.                               *)
LEMMA EnterKeeps ==
  ASSUME Inv, NEW i \in DOMAIN blocks, IsInput(blocks[i]), Enter(i),
         role' = "player", UNCHANGED <<blocks, file>>
  PROVE  Inv'
<1>1. current_input' = blocks[i].id /\ current_block' = blocks[i].id
  BY DEF Enter
<1>2. ~Recording'
  BY DEF Recording
<1>3. Points(blocks', current_input', Recording')
  BY <1>1, <1>2 DEF Points
<1>4. QED  BY <1>1, <1>2, <1>3 DEF Inv

(* libspectrum_rzx_start_playback, libspectrum_rzx_playback and             *)
(* libspectrum_rzx_playback_frame.                                          *)
LEMMA PlayKeeps ==
  ASSUME Inv, Play
  PROVE  Inv'
<1>1. ASSUME NEW i \in DOMAIN blocks, StartPlayback(i)
      PROVE  Inv'
  BY <1>1, EnterKeeps DEF StartPlayback
<1>2. CASE Playback
  <2>1. UNCHANGED <<blocks, current_input, current_block, role, file>>
    BY <1>2 DEF Playback
  <2>2. QED  BY <2>1 DEF Inv, Recording, Points
<1>3. CASE PlaybackFrame
  <2>1. role = "player" /\ UNCHANGED <<blocks, role, file>>
    BY <1>3 DEF PlaybackFrame, Playing
  <2>2. CASE UNCHANGED <<current_block, current_input>>
    BY <2>1, <2>2 DEF Inv, Recording, Points
  <2>3. ASSUME NEW i \in NextInputs, Enter(i)
        PROVE  Inv'
    <3>1. i \in DOMAIN blocks /\ IsInput(blocks[i])
      BY <2>3 DEF NextInputs
    <3>2. QED  BY <2>1, <2>3, <3>1, EnterKeeps
  <2>4. CASE current_block' = Null /\ UNCHANGED current_input
    BY <2>1, <2>4 DEF Inv, Recording, Points
  <2>5. QED  BY <1>3, <2>2, <2>3, <2>4, Zenon DEF PlaybackFrame
<1>4. QED  BY <1>1, <1>2, <1>3 DEF Play

----------------------------------------------------------------------------
(* Every behaviour.                                                         *)

(* A recording without blocks.                                              *)
LEMMA NoBlocks ==
  IsList(<<>>) /\ Distinct(<<>>) /\ \A r : Points(<<>>, Null, r)
<1>1. <<>> \in Seq({}) /\ DOMAIN <<>> = {}
  OBVIOUS
<1>2. QED  BY <1>1 DEF IsList, Distinct, Points

(* libspectrum_rzx_alloc.                                                   *)
LEMMA InitKeeps ==
  ASSUME Init
  PROVE  Inv
<1>1. IsList(ForeignFile)
  BY RzxAssumption, Zenon DEF IsList
<1>2. QED  BY <1>1, NoBlocks DEF Init, Inv

(* Every step keeps the invariant.                                          *)
LEMMA InvStep ==
  ASSUME Inv, [Next]_vars
  PROVE  Inv'
<1>1. CASE Record
  <2>1. ASSUME NEW s \in Snaps, \/ \E automatic \in BOOLEAN : AddSnap(s, automatic)
                                \/ \E where \in 1..Len(blocks) + 1 : InsertSnap(s, where)
        PROVE  Inv'
    BY <2>1, AddSnapKeeps, InsertSnapKeeps
  <2>2. ASSUME NEW k \in DOMAIN blocks, Rollback(k) \/ IteratorDelete(k)
        PROVE  Inv'
    BY <2>2, RollbackKeeps, DeleteKeeps
  <2>3. ASSUME NEW t \in Tstates, StartInput(t)
        PROVE  Inv'
    BY <2>3, StartInputKeeps
  <2>4. ASSUME NEW n \in Instructions, NEW in \in InBytes, StoreFrame(n, in)
        PROVE  Inv'
    BY <2>4, StoreFrameKeeps
  <2>5. ASSUME NEW format \in Formats, Write(format)
        PROVE  Inv'
    BY <2>5, WriteKeeps
  <2>6. ASSUME NEW n \in 0..Len(file), Read(n)
        PROVE  Inv'
    BY <2>6, ReadKeeps
  <2>7. QED
    BY <1>1, <2>1, <2>2, <2>3, <2>4, <2>5, <2>6, StopInputKeeps, FinaliseKeeps, Zenon DEF Record
<1>2. CASE Play
  BY <1>2, PlayKeeps
<1>3. CASE Free
  <2>1. /\ blocks' = <<>> /\ current_input' = Null /\ current_block' = Null /\ file' = file
    BY <1>3 DEF Free
  <2>2. QED  BY <2>1, NoBlocks DEF Inv
<1>4. CASE UNCHANGED vars
  BY <1>4 DEF vars, playback, Inv, Recording, Points
<1>5. QED  BY <1>1, <1>2, <1>3, <1>4 DEF Next

(* The inductive invariant holds in every reachable state.                  *)
THEOREM Invariance == Spec => []Inv
BY InitKeeps, InvStep, PTL DEF Spec

(* What a pointer of the invariant points to.                               *)
LEMMA Pointed ==
  ASSUME Inv, current_input # Null
  PROVE  /\ current_input \in Ids /\ IsInput(Input(current_input))
         /\ Recording => Recorded(Input(current_input))
<1>1. PICK i \in DOMAIN blocks : /\ blocks[i].id = current_input /\ IsInput(blocks[i])
                                 /\ Recording => Recorded(blocks[i])
  BY DEF Inv, Points
<1>2. PlaceIn(blocks, blocks[i].id) = i
  BY PlaceFound DEF Inv
<1>3. Place(current_input) = PlaceIn(blocks, current_input)
  BY Zenon DEF Place, PlaceIn
<1>4. Input(current_input) = blocks[i]
  BY <1>1, <1>2, <1>3 DEF Input
<1>5. QED  BY <1>1, <1>4 DEF Ids

(* The block that frames are stored in or played from is in the list after  *)
(* every rollback, deletion, insertion, merge and load, and it is an input  *)
(* block (rzx.c: current_input, current_block).                             *)
THEOREM PointersKept == Spec => []NoDanglingPointer
<1>1. Inv => NoDanglingPointer
  <2> SUFFICES ASSUME Inv PROVE NoDanglingPointer
    OBVIOUS
  <2>1. current_input # Null => current_input \in Ids /\ IsInput(Input(current_input))
    BY Pointed
  <2>2. current_block # Null => current_block = current_input
    BY DEF Inv
  <2>3. QED  BY <2>1, <2>2 DEF NoDanglingPointer
<1>2. QED  BY <1>1, Invariance, PTL

(* The frame that the next one is compared with is the last frame of the    *)
(* block that was stored in full (rzx.c: non_repeat), however many          *)
(* repetitions follow it.                                                   *)
THEOREM RepeatTargetKept == Spec => []RepeatTargetSound
<1>1. Inv => RepeatTargetSound
  <2> SUFFICES ASSUME Inv, Recording, current_input # Null
               PROVE  LET input == Input(current_input)
                      IN  input.frames # <<>> =>
                            /\ input.non_repeat + 1 \in DOMAIN input.frames
                            /\ ~input.frames[input.non_repeat + 1].repeat_last
                            /\ \A i \in input.non_repeat + 2..Len(input.frames) :
                                 input.frames[i].repeat_last
    BY DEF RepeatTargetSound
  <2>1. Recorded(Input(current_input))
    BY Pointed
  <2>2. QED  BY <2>1, Zenon DEF Recorded
<1>2. QED  BY <1>1, Invariance, PTL

=============================================================================
