--------------------------- MODULE SnapshotProofs ---------------------------
(***************************************************************************)
(* What a reader of snapshots takes from a file of ours was in the          *)
(* snapshot that was saved, and it takes all of the file: for every set of  *)
(* snapshots, every file of another program that is read and saved again,   *)
(* and any damage.                                                          *)
(***************************************************************************)
EXTENDS SnapshotFiles, Extrema, SequenceTheorems

-----------------------------------------------------------------------------
(* Sequences.                                                              *)

IsSequence(q) == q \in Seq(Range(q))

(* A sequence over any set is a sequence.                                   *)
LEMMA SequenceOver ==
  ASSUME NEW S, NEW q \in Seq(S)
  PROVE  /\ IsSequence(q) /\ Len(q) \in Nat /\ DOMAIN q = 1 .. Len(q)
         /\ \A i \in 1 .. Len(q) : q[i] \in S
<1>1. Len(q) \in Nat /\ DOMAIN q = 1 .. Len(q) /\ \A i \in 1 .. Len(q) : q[i] \in S
  OBVIOUS
<1>2. q \in [1 .. Len(q) -> Range(q)]
  <2>1. q = [i \in 1 .. Len(q) |-> q[i]]
    OBVIOUS
  <2>2. \A i \in 1 .. Len(q) : q[i] \in Range(q)
    BY <1>1 DEF Range
  <2>3. QED  BY <2>1, <2>2
<1>3. q \in Seq(Range(q))
  BY <1>1, <1>2
<1>4. QED  BY <1>1, <1>3 DEF IsSequence

(* The shape of a sequence.                                                 *)
LEMMA SequenceShape ==
  ASSUME NEW q, IsSequence(q)
  PROVE  Len(q) \in Nat /\ DOMAIN q = 1 .. Len(q) /\ q \in Seq(Range(q))
BY SequenceOver DEF IsSequence

(* A function on 1..n is a sequence.                                        *)
LEMMA ListedSequence ==
  ASSUME NEW n \in Nat, NEW q, DOMAIN q = 1 .. n, q = [i \in 1 .. n |-> q[i]]
  PROVE  IsSequence(q) /\ Len(q) = n
<1>1. q \in [1 .. n -> Range(q)]
  BY DEF Range
<1>2. q \in Seq(Range(q))
  BY <1>1
<1>3. Len(q) = n
  BY <1>1
<1>4. QED  BY <1>2, <1>3 DEF IsSequence

(* Two sequences, one after the other.                                      *)
LEMMA Concatenated ==
  ASSUME NEW a, NEW b, IsSequence(a), IsSequence(b)
  PROVE  /\ IsSequence(a \o b) /\ Len(a \o b) = Len(a) + Len(b)
         /\ \A i \in 1 .. Len(a) + Len(b) :
              (a \o b)[i] = IF i <= Len(a) THEN a[i] ELSE b[i - Len(a)]
<1> DEFINE S == Range(a) \union Range(b)
<1>1. a \in Seq(Range(a)) /\ b \in Seq(Range(b))
  BY DEF IsSequence
<1>2. a \in Seq(S) /\ b \in Seq(S)
  <2> DEFINE A == Range(a)  B == Range(b)
  <2> HIDE DEF A, B
  <2>1. a \in Seq(A) /\ b \in Seq(B)
    BY <1>1 DEF A, B
  <2>2. a \in Seq(A \union B) /\ b \in Seq(A \union B)
    BY <2>1
  <2>3. QED  BY <2>2 DEF A, B
<1> HIDE DEF S
<1>3. a \o b \in Seq(S)
  BY <1>2
<1>4. IsSequence(a \o b)
  BY <1>3, SequenceOver
<1>5. /\ Len(a \o b) = Len(a) + Len(b)
      /\ \A i \in 1 .. Len(a) + Len(b) :
           (a \o b)[i] = IF i <= Len(a) THEN a[i] ELSE b[i - Len(a)]
  BY <1>2, ConcatProperties
<1>6. QED  BY <1>4, <1>5

(* What is left after the first.                                            *)
LEMMA TailSequence ==
  ASSUME NEW q, IsSequence(q), q # <<>>
  PROVE  /\ IsSequence(Tail(q)) /\ Len(Tail(q)) = Len(q) - 1 /\ Len(q) >= 1
         /\ \A i \in 1 .. Len(q) - 1 : Tail(q)[i] = q[i + 1]
         /\ Head(q) = q[1]
<1> DEFINE S == Range(q)
<1>1. q \in Seq(S)
  BY DEF IsSequence
<1> HIDE DEF S
<1>2. Tail(q) \in Seq(S)
  BY <1>1
<1>3. /\ Len(Tail(q)) = Len(q) - 1 /\ Len(q) >= 1
      /\ \A i \in 1 .. Len(q) - 1 : Tail(q)[i] = q[i + 1]
      /\ Head(q) = q[1]
  BY <1>1
<1>4. IsSequence(Tail(q))
  BY <1>2, SequenceOver
<1>5. QED  BY <1>3, <1>4

(* Sequences over a larger set, in three parts, and with the same members.  *)
LEMMA SequenceIn ==
  ASSUME NEW S, NEW q, IsSequence(q), Range(q) \subseteq S
  PROVE  q \in Seq(S)
<1> DEFINE R == Range(q)
<1>1. q \in Seq(R) /\ R \subseteq S
  BY DEF IsSequence
<1> HIDE DEF R
<1>2. QED  BY <1>1

LEMMA ThreeParts ==
  ASSUME NEW a, NEW b, NEW c, IsSequence(a), IsSequence(b), IsSequence(c)
  PROVE  a \o b \o c = a \o (b \o c)
<1> DEFINE A == Range(a)
           B == Range(b)
           C == Range(c)
           S == A \union B \union C
<1> HIDE DEF A, B, C
<1>1. A \subseteq S /\ B \subseteq S /\ C \subseteq S
  OBVIOUS
<1> HIDE DEF S
<1>2. a \in Seq(S) /\ b \in Seq(S) /\ c \in Seq(S)
  BY <1>1, SequenceIn DEF A, B, C
<1>3. QED  BY <1>2, ConcatAssociative

LEMMA SequencesEqual ==
  ASSUME NEW a, NEW b, IsSequence(a), IsSequence(b), Len(a) = Len(b),
         \A i \in 1 .. Len(a) : a[i] = b[i]
  PROVE  a = b
<1> DEFINE A == Range(a)
           B == Range(b)
           S == A \union B
<1> HIDE DEF A, B
<1>1. A \subseteq S /\ B \subseteq S
  OBVIOUS
<1> HIDE DEF S
<1>2. a \in Seq(S) /\ b \in Seq(S)
  BY <1>1, SequenceIn DEF A, B
<1>3. QED  BY <1>2, SeqEqual

-----------------------------------------------------------------------------
(* Pieces put together.                                                    *)

Joins(f, ss, k) ==
  f = [i \in 1 .. k |-> IF i = 1 THEN ss[i] ELSE f[i - 1] \o ss[i]]

(* FlattenSeq piece by piece.                                               *)
LEMMA FlattenTrace ==
  ASSUME NEW ss, IsSequence(ss), Len(ss) # 0
  PROVE  \E f : /\ f[1] = ss[1]
                /\ \A i \in 1 .. Len(ss) - 1 : f[i + 1] = f[i] \o ss[i + 1]
                /\ FlattenSeq(ss) = f[Len(ss)]
<1> DEFINE n == Len(ss)
           Solved == {k \in 0 .. n : \E f : Joins(f, ss, k)}
<1>1. n \in Nat \ {0}
  BY SequenceShape
<1>2. 0 \in Solved
  <2> DEFINE f == [i \in 1 .. 0 |-> ss[i]]
  <2>1. f = [i \in 1 .. 0 |-> IF i = 1 THEN ss[i] ELSE f[i - 1] \o ss[i]]
    OBVIOUS
  <2>2. Joins(f, ss, 0)
    BY <2>1 DEF Joins
  <2>3. QED  BY <1>1, <2>2
<1>3. ASSUME NEW k \in 0 .. n - 1, k \in Solved
      PROVE  k + 1 \in Solved
  <2>1. PICK f : Joins(f, ss, k)
    BY <1>3
  <2>2. k \in Nat /\ k + 1 \in 0 .. n
    BY <1>1
  <2> DEFINE step(g, i) == IF i = 1 THEN ss[i] ELSE g[i - 1] \o ss[i]
             g == [i \in 1 .. k + 1 |-> IF i \in 1 .. k THEN f[i] ELSE step(f, i)]
  <2>3. ASSUME NEW i \in 1 .. k + 1
        PROVE  g[i] = step(g, i)
    <3>1. g[i] = step(f, i)
      <4>1. CASE i \in 1 .. k
        <5>1. f[i] = step(f, i)
          BY <2>1, <4>1, Zenon DEF Joins
        <5>2. QED  BY <4>1, <5>1
      <4>2. CASE i \notin 1 .. k
        BY <4>2
      <4>3. QED  BY <4>1, <4>2
    <3>2. i # 1 => g[i - 1] = f[i - 1]
      <4>1. i # 1 => i - 1 \in 1 .. k /\ i - 1 \in 1 .. k + 1
        BY <2>2
      <4>2. QED  BY <4>1
    <3> HIDE DEF g
    <3>3. QED  BY <3>1, <3>2
  <2>4. g = [i \in 1 .. k + 1 |-> g[i]]
    OBVIOUS
  <2> HIDE DEF g
  <2>5. Joins(g, ss, k + 1)
    BY <2>3, <2>4, Zenon DEF Joins
  <2>6. QED  BY <2>2, <2>5
<1>4. n \in Solved
  <2>1. Solved \in SUBSET Nat
    OBVIOUS
  <2> HIDE DEF Solved
  <2>2. 0 .. n \subseteq Solved
    BY <1>1, <1>2, <1>3, <2>1, Induction
  <2>3. QED  BY <1>1, <2>2
<1> DEFINE f == CHOOSE g : g = [i \in 1 .. Len(ss) |->
                                  IF i = 1 THEN ss[i] ELSE g[i - 1] \o ss[i]]
<1>5. Joins(f, ss, n)
  <2>1. \E g : g = [i \in 1 .. Len(ss) |-> IF i = 1 THEN ss[i] ELSE g[i - 1] \o ss[i]]
    BY <1>4, Zenon DEF Joins
  <2>2. QED  BY <2>1, Zenon DEF Joins
<1>6. FlattenSeq(ss) = f[n]
  BY Zenon DEF FlattenSeq
<1> HIDE DEF f
<1> DEFINE joined(i) == IF i = 1 THEN ss[i] ELSE f[i - 1] \o ss[i]
<1>7. \A i \in 1 .. n : f[i] = joined(i)
  BY <1>5, Zenon DEF Joins
<1> HIDE DEF joined
<1>8. f[1] = ss[1] /\ \A i \in 1 .. n - 1 : f[i + 1] = f[i] \o ss[i + 1]
  <2>1. 1 \in 1 .. n
    BY <1>1
  <2>2. ASSUME NEW i \in 1 .. n - 1
        PROVE  f[i + 1] = f[i] \o ss[i + 1]
    <3> DEFINE x == i + 1
    <3>1. x \in 1 .. n /\ x # 1 /\ x - 1 = i
      BY <1>1
    <3> HIDE DEF x
    <3>2. f[x] = joined(x)
      BY <1>7, <3>1, Zenon
    <3>3. joined(x) = f[x - 1] \o ss[x]
      BY <3>1, Zenon DEF joined
    <3>4. f[x] = f[i] \o ss[x]
      BY <3>1, <3>2, <3>3, Zenon
    <3>5. QED  BY <3>4, Zenon DEF x
  <2>3. f[1] = joined(1)
    BY <1>7, <2>1, Zenon
  <2>4. QED  BY <2>2, <2>3 DEF joined
<1>9. QED  BY <1>6, <1>8, Zenon

\* The members of q are the members of the first k pieces, in order: member x
\* is number off[x] of piece place[x].
Laid(q, ss, k, place, off) ==
  /\ IsSequence(q)
  /\ \A x \in 1 .. Len(q) :
        /\ place[x] \in 1 .. k /\ off[x] \in 1 .. Len(ss[place[x]])
        /\ q[x] = ss[place[x]][off[x]]
  /\ \A x, y \in 1 .. Len(q) :
        x < y => place[x] < place[y] \/ (place[x] = place[y] /\ off[x] < off[y])
  /\ \A i \in 1 .. k : \A j \in 1 .. Len(ss[i]) :
        \E x \in 1 .. Len(q) : place[x] = i /\ off[x] = j

(* One piece more.                                                          *)
LEMMA LaidNext ==
  ASSUME NEW ss, NEW k \in Nat \ {0}, NEW q, NEW place, NEW off,
         Laid(q, ss, k, place, off), IsSequence(ss[k + 1])
  PROVE  \E p, o : Laid(q \o ss[k + 1], ss, k + 1, p, o)
<1> DEFINE L == Len(q)
           e == ss[k + 1]
           m == Len(e)
           r == q \o e
           p == [x \in 1 .. L + m |-> IF x <= L THEN place[x] ELSE k + 1]
           o == [x \in 1 .. L + m |-> IF x <= L THEN off[x] ELSE x - L]
<1>1. /\ IsSequence(q) /\ L \in Nat /\ m \in Nat /\ IsSequence(e)
      /\ \A x \in 1 .. L : place[x] \in 1 .. k /\ off[x] \in 1 .. Len(ss[place[x]])
  BY SequenceShape, Zenon DEF Laid
<1>0. \A i \in 1 .. k : \A j \in 1 .. Len(ss[i]) :
         \E x \in 1 .. L : place[x] = i /\ off[x] = j
  BY DEF Laid
<1>2. IsSequence(r) /\ Len(r) = L + m
      /\ \A i \in 1 .. L + m : r[i] = IF i <= L THEN q[i] ELSE e[i - L]
  BY <1>1, Concatenated, Zenon
<1>3. ASSUME NEW x \in 1 .. L + m
      PROVE  /\ p[x] \in 1 .. k + 1 /\ o[x] \in 1 .. Len(ss[p[x]])
             /\ r[x] = ss[p[x]][o[x]]
  <2>1. CASE x <= L
    <3>1. x \in 1 .. L /\ p[x] = place[x] /\ o[x] = off[x] /\ r[x] = q[x]
      BY <1>1, <1>2, <2>1
    <3>2. place[x] \in 1 .. k + 1
      BY <1>1, <3>1
    <3> HIDE DEF p, o, r
    <3>3. QED  BY <3>1, <3>2, Zenon DEF Laid
  <2>2. CASE ~(x <= L)
    <3>1. p[x] = k + 1 /\ o[x] = x - L /\ x - L \in 1 .. m /\ r[x] = e[x - L] /\ k + 1 \in 1 .. k + 1
      BY <1>1, <1>2, <2>2
    <3> HIDE DEF p, o, r
    <3>2. QED  BY <3>1, Zenon
  <2>3. QED  BY <2>1, <2>2
<1>4. ASSUME NEW x \in 1 .. L + m, NEW y \in 1 .. L + m, x < y
      PROVE  p[x] < p[y] \/ (p[x] = p[y] /\ o[x] < o[y])
  <2>1. CASE y <= L
    <3>1. x \in 1 .. L /\ y \in 1 .. L /\ p[x] = place[x] /\ o[x] = off[x]
          /\ p[y] = place[y] /\ o[y] = off[y]
      BY <1>1, <1>4, <2>1
    <3>2. place[x] < place[y] \/ (place[x] = place[y] /\ off[x] < off[y])
      BY <1>4, <3>1, Zenon DEF Laid
    <3>3. QED  BY <3>1, <3>2
  <2>2. CASE x <= L /\ ~(y <= L)
    <3>1. x \in 1 .. L /\ p[x] = place[x] /\ p[y] = k + 1
      BY <1>1, <2>2
    <3>2. place[x] < k + 1
      BY <1>1, <3>1
    <3>3. QED  BY <3>1, <3>2
  <2>3. CASE ~(x <= L)
    BY <1>1, <1>4, <2>3
  <2>4. QED  BY <1>1, <1>4, <2>1, <2>2, <2>3
<1>5. ASSUME NEW i \in 1 .. k + 1, NEW j \in 1 .. Len(ss[i])
      PROVE  \E x \in 1 .. L + m : p[x] = i /\ o[x] = j
  <2>1. CASE i = k + 1
    <3>1. L + j \in 1 .. L + m /\ p[L + j] = i /\ o[L + j] = j
      BY <1>1, <2>1
    <3>2. QED  BY <3>1, Zenon
  <2>2. CASE i # k + 1
    <3>1. i \in 1 .. k
      BY <2>2
    <3>2. PICK x \in 1 .. L : place[x] = i /\ off[x] = j
      BY <1>0, <3>1, Zenon
    <3>3. x \in 1 .. L + m /\ p[x] = place[x] /\ o[x] = off[x]
      BY <1>1
    <3>4. QED  BY <3>2, <3>3, Zenon
  <2>3. QED  BY <2>1, <2>2
<1> HIDE DEF p, o, r
<1>6. Laid(r, ss, k + 1, p, o)
  <2>1. 1 .. Len(r) = 1 .. L + m
    BY <1>2, Zenon
  <2> HIDE DEF L, m
  <2>2. QED  BY <1>2, <1>3, <1>4, <1>5, <2>1 DEF Laid
<1>7. QED  BY <1>6, Zenon DEF r

(* The members of a sequence made of pieces.                                *)
LEMMA Flattened ==
  ASSUME NEW ss, IsSequence(ss), \A i \in 1 .. Len(ss) : IsSequence(ss[i])
  PROVE  \E place, off : Laid(FlattenSeq(ss), ss, Len(ss), place, off)
<1> DEFINE n == Len(ss)
<1>0. n \in Nat
  BY SequenceShape
<1>1. CASE n = 0
  <2>1. FlattenSeq(ss) = ss
    BY <1>1, Zenon DEF FlattenSeq
  <2>2. 1 .. 0 = {}
    OBVIOUS
  <2>3. Laid(ss, ss, 0, ss, ss)
    BY <1>1, <2>2 DEF Laid
  <2>4. QED  BY <1>1, <2>1, <2>3, Zenon
<1>2. CASE n # 0
  <2>1. PICK f : /\ f[1] = ss[1]
                 /\ \A i \in 1 .. n - 1 : f[i + 1] = f[i] \o ss[i + 1]
                 /\ FlattenSeq(ss) = f[n]
    BY <1>2, FlattenTrace, Zenon
  <2> DEFINE Solved == {0} \union {k \in 1 .. n : \E p, o : Laid(f[k], ss, k, p, o)}
  <2>2. 1 \in Solved
    <3> DEFINE p == [x \in 1 .. Len(ss[1]) |-> 1]
               o == [x \in 1 .. Len(ss[1]) |-> x]
    <3>1. IsSequence(ss[1]) /\ Len(ss[1]) \in Nat /\ 1 \in 1 .. n /\ 1 .. 1 = {1}
      BY <1>0, <1>2, SequenceShape
    <3>2. Laid(ss[1], ss, 1, p, o)
      BY <3>1 DEF Laid
    <3>3. QED  BY <2>1, <3>1, <3>2
  <2>3. ASSUME NEW k \in 0 .. n - 1, k \in Solved
        PROVE  k + 1 \in Solved
    <3>1. CASE k = 0
      BY <2>2, <3>1
    <3>2. CASE k # 0
      <4>1. k \in Nat \ {0} /\ k \in 1 .. n - 1 /\ k + 1 \in 1 .. n
        BY <1>0, <3>2
      <4>2. PICK p, o : Laid(f[k], ss, k, p, o)
        BY <2>3, <3>2
      <4>3. IsSequence(ss[k + 1])
        BY <4>1
      <4>4. \E a, b : Laid(f[k] \o ss[k + 1], ss, k + 1, a, b)
        BY <4>1, <4>2, <4>3, LaidNext, Zenon
      <4>5. f[k + 1] = f[k] \o ss[k + 1]
        BY <2>1, <4>1, Zenon
      <4>6. QED  BY <4>1, <4>4, <4>5
    <3>3. QED  BY <3>1, <3>2
  <2>4. n \in Solved
    <3>1. Solved \in SUBSET Nat /\ 0 \in Solved
      BY <1>0
    <3> HIDE DEF Solved
    <3>2. 0 .. n \subseteq Solved
      BY <1>0, <2>3, <3>1, Induction
    <3>3. QED  BY <1>0, <3>2
  <2>5. \E p, o : Laid(f[n], ss, n, p, o)
    BY <1>2, <2>4
  <2>6. QED  BY <2>1, <2>5, Zenon
<1>3. QED  BY <1>1, <1>2

(* Every member of such a sequence is a member of one of its pieces.        *)
LEMMA FlattenedMembers ==
  ASSUME NEW ss, IsSequence(ss), \A i \in 1 .. Len(ss) : IsSequence(ss[i])
  PROVE  /\ IsSequence(FlattenSeq(ss))
         /\ \A x \in 1 .. Len(FlattenSeq(ss)) :
              \E i \in 1 .. Len(ss) : \E j \in 1 .. Len(ss[i]) :
                 FlattenSeq(ss)[x] = ss[i][j]
<1>1. PICK place, off : Laid(FlattenSeq(ss), ss, Len(ss), place, off)
  BY Flattened, Zenon
<1> DEFINE q == FlattenSeq(ss)  n == Len(ss)
<1> HIDE DEF q, n
<1>2. Laid(q, ss, n, place, off)
  BY <1>1, Zenon DEF q, n
<1>3. /\ IsSequence(q)
      /\ \A x \in 1 .. Len(q) :
           /\ place[x] \in 1 .. n /\ off[x] \in 1 .. Len(ss[place[x]])
           /\ q[x] = ss[place[x]][off[x]]
  BY <1>2, Zenon DEF Laid
<1>4. QED  BY <1>3, Zenon DEF q, n

-----------------------------------------------------------------------------
(* Snapshots: the fields the theorems are about.                           *)

Shape(s) == {"machine", "sp", "pages", "joysticks", "kit"} \subseteq DOMAIN s

\* A snapshot the writers can work on, apart from its machine.
Usable(s) ==
  /\ Shape(s)
  /\ s.sp \in Addresses
  /\ s.joysticks \in Seq(JoystickEntries)
  /\ \A d \in Devices : IsDevice(Device(s, d))
  /\ CardsFit(s)

\* Everything in r that a file can carry comes from s.
From(r, s, f) == PagesFrom(r, s) /\ DevicesFrom(r, s) /\ JoysticksFrom(r, s, f)

\* What memory, devices and joysticks there are has not changed.
Kept(t, s) ==
  Shape(t) /\ t.pages = s.pages /\ t.joysticks = s.joysticks /\ t.kit = s.kit

LEMMA OkIs ==
  ASSUME NEW s
  PROVE  Ok(s).snap = s /\ Ok(s).err = "NONE"
BY Zenon DEF Ok

LEMMA ErrorIs ==
  ASSUME NEW s, NEW e
  PROVE  Error(s, e).snap = s /\ Error(s, e).err = e
BY Zenon DEF Error

(* A switched-off device.                                                   *)
LEMMA OffIsDevice == IsDevice(Off) /\ ~Off.active /\ Off.ram = {}
BY DEF Off, IsDevice

(* A snapshot that was just allocated holds nothing.                        *)
LEMMA AllocIs ==
  LET s == libspectrum_snap_alloc
  IN  /\ Shape(s) /\ s.machine = "none" /\ s.sp = 0 /\ s.joysticks = <<>>
      /\ DOMAIN s.pages = {} /\ \A d : Device(s, d) = Off
BY DEF libspectrum_snap_alloc, Shape, Device, NoDevices, NoPages

LEMMA AllocUsable == Usable(libspectrum_snap_alloc)
<1> DEFINE s == libspectrum_snap_alloc
<1>1. /\ Shape(s) /\ s.sp = 0 /\ s.joysticks = <<>> /\ \A d : Device(s, d) = Off
  BY AllocIs, Zenon
<1> HIDE DEF s
<1>2. s.sp \in Addresses /\ s.joysticks \in Seq(JoystickEntries)
  BY <1>1 DEF Addresses, WordSize
<1>3. CardsFit(s)
  BY <1>1, OffIsDevice DEF CardsFit
<1>4. QED  BY <1>1, <1>2, <1>3, OffIsDevice DEF Usable, s

(* Nothing comes from nowhere.                                              *)
LEMMA AllocFrom ==
  ASSUME NEW s, NEW f
  PROVE  From(libspectrum_snap_alloc, s, f)
<1> DEFINE r == libspectrum_snap_alloc
<1>1. r.joysticks = <<>> /\ DOMAIN r.pages = {} /\ \A d : Device(r, d) = Off
  BY AllocIs, Zenon
<1> HIDE DEF r
<1>2. PagesFrom(r, s)
  BY <1>1, Zenon DEF PagesFrom
<1>3. DevicesFrom(r, s)
  BY <1>1, OffIsDevice DEF DevicesFrom, Active
<1>4. JoysticksFrom(r, s, f)
  BY <1>1 DEF JoysticksFrom
<1>5. QED  BY <1>2, <1>3, <1>4, Zenon DEF From, r

(* What has not changed is as usable, and comes from where it came from.    *)
LEMMA KeptFrom ==
  ASSUME NEW t, NEW r, NEW s, NEW f, Kept(t, r), From(r, s, f)
  PROVE  From(t, s, f)
<1>1. t.pages = r.pages /\ t.joysticks = r.joysticks /\ \A d : Device(t, d) = Device(r, d)
  BY Zenon DEF Kept, Device
<1>2. PagesFrom(t, s)
  BY <1>1, Zenon DEF PagesFrom, From
<1>3. DevicesFrom(t, s)
  BY <1>1, Zenon DEF DevicesFrom, From, Active
<1>4. JoysticksFrom(t, s, f)
  BY <1>1, Zenon DEF JoysticksFrom, From
<1>5. QED  BY <1>2, <1>3, <1>4, Zenon DEF From

LEMMA KeptUsable ==
  ASSUME NEW t, NEW r, Kept(t, r), Usable(r), t.sp \in Addresses
  PROVE  Usable(t)
<1>1. t.joysticks = r.joysticks /\ \A d : Device(t, d) = Device(r, d)
  BY DEF Kept, Device
<1>2. CardsFit(t)
  BY <1>1 DEF CardsFit, Usable
<1>3. QED  BY <1>1, <1>2 DEF Usable, Kept

(* One device is set, and nothing else.                                     *)
LEMMA DeviceSet ==
  ASSUME NEW s, Shape(s), NEW d, NEW k
  PROVE  LET t == SetDevice(s, d, k)
         IN  /\ Shape(t) /\ t.machine = s.machine /\ t.sp = s.sp
             /\ t.pages = s.pages /\ t.joysticks = s.joysticks
             /\ \A e : Device(t, e) = IF e = d THEN k ELSE Device(s, e)
<1> DEFINE K == s.kit
           T == SetDevice(s, d, k).kit
<1>1. LET t == SetDevice(s, d, k)
      IN  /\ Shape(t) /\ t.machine = s.machine /\ t.sp = s.sp
          /\ t.pages = s.pages /\ t.joysticks = s.joysticks
  BY Zenon DEF SetDevice, Shape
<1>2. SetDevice(s, d, k).kit =
        IF k = Off THEN Restrict(s.kit, DOMAIN s.kit \ {d})
                   ELSE Over([e \in {d} |-> k], s.kit)
  BY Zenon DEF SetDevice, Shape
<1>3. ASSUME NEW e
      PROVE  Device(SetDevice(s, d, k), e) = IF e = d THEN k ELSE Device(s, e)
  <2>1. CASE k = Off
    <3>1. T = Restrict(K, DOMAIN K \ {d})
      BY <1>2, <2>1
    <3> HIDE DEF T, K
    <3>2. T = [x \in DOMAIN K \ {d} |-> K[x]]
      BY <3>1, Zenon DEF Restrict
    <3>3. QED  BY <2>1, <3>2 DEF Device, T, K
  <2>2. CASE k # Off
    <3>1. T = Over([x \in {d} |-> k], K)
      BY <1>2, <2>2
    <3> HIDE DEF T, K
    <3>2. T = [x \in {d} \union DOMAIN K |-> IF x \in {d} THEN k ELSE K[x]]
      BY <3>1 DEF Over
    <3>3. QED  BY <2>2, <3>2 DEF Device, T, K
  <2>3. QED  BY <2>1, <2>2
<1>4. QED  BY <1>1, <1>3

LEMMA DeviceSetUsable ==
  ASSUME NEW s, Usable(s), NEW d \in Devices, NEW k, IsDevice(k),
         d \in Cards => k.ram \subseteq 0 .. CardSize[d] - 1
  PROVE  Usable(SetDevice(s, d, k)) /\ SetDevice(s, d, k).machine = s.machine
<1> DEFINE t == SetDevice(s, d, k)
<1>1. /\ Shape(t) /\ t.machine = s.machine /\ t.sp = s.sp /\ t.joysticks = s.joysticks
      /\ \A e : Device(t, e) = IF e = d THEN k ELSE Device(s, e)
  BY DeviceSet DEF Usable
<1> HIDE DEF t
<1>2. \A e \in Devices : IsDevice(Device(t, e))
  BY <1>1 DEF Usable
<1>3. CardsFit(t)
  BY <1>1 DEF CardsFit, Usable
<1>4. QED  BY <1>1, <1>2, <1>3 DEF Usable, t

LEMMA DeviceSetFrom ==
  ASSUME NEW r, Shape(r), NEW s, NEW f, From(r, s, f), NEW d, NEW k,
         k.active => Active(s, d)
  PROVE  From(SetDevice(r, d, k), s, f)
<1> DEFINE t == SetDevice(r, d, k)
<1>1. /\ t.pages = r.pages /\ t.joysticks = r.joysticks
      /\ \A e : Device(t, e) = IF e = d THEN k ELSE Device(r, e)
  BY DeviceSet
<1> HIDE DEF t
<1>2. PagesFrom(t, s)
  BY <1>1, Zenon DEF PagesFrom, From
<1>3. DevicesFrom(t, s)
  BY <1>1, Zenon DEF DevicesFrom, From, Active
<1>4. JoysticksFrom(t, s, f)
  BY <1>1, Zenon DEF JoysticksFrom, From
<1>5. QED  BY <1>2, <1>3, <1>4, Zenon DEF From, t

-----------------------------------------------------------------------------
(* Reading a chunk of a .szx file.                                         *)

\* The chunks that describe a device, and the device.
DeviceOf(id) ==
  CASE id = "B128" -> "beta"
    [] id \in { "ZXAT", "ATRP" } -> "zxatasp"
    [] id \in { "ZXCF", "CFRP" } -> "zxcf"
    [] id = "IF2R" -> "if2"
    [] id = "DOCK" -> "dock"
    [] id = "IF1"  -> "if1"
    [] id = "OPUS" -> "opus"
    [] id = "PLSD" -> "plusd"
    [] id = "AMXM" -> "mouse"
    [] id = "SIDE" -> "simpleide"
    [] id = "DRUM" -> "specdrum"
    [] id \in { "DIDE", "DIRP" } -> "divide"
    [] id \in { "DMMC", "DMRP" } -> "divmmc"
    [] id \in { "SNET", "SNEF", "SNER" } -> "spectranet"
    [] id = "ZXPR" -> "zxprinter"
    [] id = "COVX" -> "covox"
    [] id = "MFCE" -> "multiface"
    [] id = "PLTT" -> "ulaplus"
    [] id = "ZMMC" -> "zxmmc"

DeviceChunks == SzxMemoryPages \union SzxDevices \union { "IF1", "SNEF", "SNER" }

\* What a chunk c of a device does to a snapshot: the device becomes k.
Stores(res, r, c, k) ==
  /\ res = Ok(SetDevice(r, DeviceOf(c.id), k)) /\ DeviceOf(c.id) \in Devices
  /\ IsDevice(k)
  /\ DeviceOf(c.id) \in Cards => k.ram \subseteq 0 .. CardSize[DeviceOf(c.id)] - 1
  /\ c.id = "ZXPR" => k = c.body

(* A device that one chunk describes whole.                                 *)
LEMMA WholeDevice ==
  ASSUME NEW r, NEW c, IsSzxChunk(c),
         c.id \in { "B128", "IF2R", "AMXM", "SIDE", "DRUM", "COVX", "PLTT", "ZMMC",
                    "ZXPR", "OPUS", "PLSD" }
  PROVE  Stores(SzxReadChunk(r, c), r, c, c.body)
<1>1. IsDevice(c.body)
  BY DEF IsSzxChunk, SzxMemoryPages, SzxDevices
<1>2. DeviceOf(c.id) \in Devices \ Cards
  BY DEF DeviceOf, Devices, Cards, CardSize
<1>3. CASE c.id = "B128"
  <2>1. SzxReadChunk(r, c) = read_b128_chunk(r, c.body) /\ DeviceOf(c.id) = "beta"
    BY <1>3 DEF SzxReadChunk, DeviceOf
  <2>2. QED  BY <1>1, <1>2, <2>1, Zenon DEF read_b128_chunk, ReadDevice, Stores
<1>4. CASE c.id = "IF2R"
  <2>1. SzxReadChunk(r, c) = read_if2r_chunk(r, c.body) /\ DeviceOf(c.id) = "if2"
    BY <1>4 DEF SzxReadChunk, DeviceOf
  <2>2. QED  BY <1>1, <1>2, <2>1, Zenon DEF read_if2r_chunk, ReadDevice, Stores
<1>5. CASE c.id = "AMXM"
  <2>1. SzxReadChunk(r, c) = read_amxm_chunk(r, c.body) /\ DeviceOf(c.id) = "mouse"
    BY <1>5 DEF SzxReadChunk, DeviceOf
  <2>2. QED  BY <1>1, <1>2, <2>1, Zenon DEF read_amxm_chunk, ReadDevice, Stores
<1>6. CASE c.id = "SIDE"
  <2>1. SzxReadChunk(r, c) = read_side_chunk(r, c.body) /\ DeviceOf(c.id) = "simpleide"
    BY <1>6 DEF SzxReadChunk, DeviceOf
  <2>2. QED  BY <1>1, <1>2, <2>1, Zenon DEF read_side_chunk, ReadDevice, Stores
<1>7. CASE c.id = "DRUM"
  <2>1. SzxReadChunk(r, c) = read_drum_chunk(r, c.body) /\ DeviceOf(c.id) = "specdrum"
    BY <1>7 DEF SzxReadChunk, DeviceOf
  <2>2. QED  BY <1>1, <1>2, <2>1, Zenon DEF read_drum_chunk, ReadDevice, Stores
<1>8. CASE c.id = "COVX"
  <2>1. SzxReadChunk(r, c) = read_covx_chunk(r, c.body) /\ DeviceOf(c.id) = "covox"
    BY <1>8 DEF SzxReadChunk, DeviceOf
  <2>2. QED  BY <1>1, <1>2, <2>1, Zenon DEF read_covx_chunk, ReadDevice, Stores
<1>9. CASE c.id = "PLTT"
  <2>1. SzxReadChunk(r, c) = read_pltt_chunk(r, c.body) /\ DeviceOf(c.id) = "ulaplus"
    BY <1>9 DEF SzxReadChunk, DeviceOf
  <2>2. QED  BY <1>1, <1>2, <2>1, Zenon DEF read_pltt_chunk, ReadDevice, Stores
<1>10. CASE c.id = "ZMMC"
  <2>1. SzxReadChunk(r, c) = read_zmmc_chunk(r, c.body) /\ DeviceOf(c.id) = "zxmmc"
    BY <1>10 DEF SzxReadChunk, DeviceOf
  <2>2. QED  BY <1>1, <1>2, <2>1, Zenon DEF read_zmmc_chunk, ReadDevice, Stores
<1>11. CASE c.id = "ZXPR"
  <2>1. SzxReadChunk(r, c) = read_zxpr_chunk(r, c.body) /\ DeviceOf(c.id) = "zxprinter"
    BY <1>11 DEF SzxReadChunk, DeviceOf
  <2>2. QED  BY <1>1, <1>2, <2>1, Zenon DEF read_zxpr_chunk, ReadDevice, Stores
<1>12. CASE c.id = "OPUS"
  <2>1. SzxReadChunk(r, c) = read_opus_chunk(r, c.body) /\ DeviceOf(c.id) = "opus"
    BY <1>12 DEF SzxReadChunk, DeviceOf
  <2>2. QED  BY <1>1, <1>2, <2>1, Zenon DEF read_opus_chunk, ReadDevice, Stores
<1>13. CASE c.id = "PLSD"
  <2>1. SzxReadChunk(r, c) = read_plsd_chunk(r, c.body) /\ DeviceOf(c.id) = "plusd"
    BY <1>13 DEF SzxReadChunk, DeviceOf
  <2>2. QED  BY <1>1, <1>2, <2>1, Zenon DEF read_plsd_chunk, ReadDevice, Stores
<1>14. QED  BY <1>3, <1>4, <1>5, <1>6, <1>7, <1>8, <1>9, <1>10, <1>11, <1>12, <1>13

(* The registers of a memory card: the pages stay.                          *)
LEMMA CardRead ==
  ASSUME NEW r, Usable(r), NEW c, IsSzxChunk(c),
         c.id \in { "ZXAT", "ZXCF", "DIDE", "DMMC" }
  PROVE  \E k : Stores(SzxReadChunk(r, c), r, c, k)
<1> DEFINE d == DeviceOf(c.id)
           old == Device(r, d)
           k == [c.body EXCEPT !.ram = old.ram]
<1>1. IsDevice(c.body) /\ d \in Devices /\ d \in Cards /\ c.id # "ZXPR"
  BY DEF IsSzxChunk, SzxMemoryPages, SzxDevices, DeviceOf, Devices, Cards, CardSize
<1>2. SzxReadChunk(r, c) = Ok(SetDevice(r, d, k))
  <2>1. CASE c.id = "ZXAT"
    <3>1. SzxReadChunk(r, c) = read_zxat_chunk(r, c.body) /\ d = "zxatasp"
      BY <2>1 DEF SzxReadChunk, DeviceOf
    <3>2. QED  BY <3>1, Zenon DEF read_zxat_chunk, ReadCard, ReadDevice
  <2>2. CASE c.id = "ZXCF"
    <3>1. SzxReadChunk(r, c) = read_zxcf_chunk(r, c.body) /\ d = "zxcf"
      BY <2>2 DEF SzxReadChunk, DeviceOf
    <3>2. QED  BY <3>1, Zenon DEF read_zxcf_chunk, ReadCard, ReadDevice
  <2>3. CASE c.id = "DIDE"
    <3>1. SzxReadChunk(r, c) = read_dide_chunk(r, c.body) /\ d = "divide"
      BY <2>3 DEF SzxReadChunk, DeviceOf
    <3>2. QED  BY <3>1, Zenon DEF read_dide_chunk, ReadCard, ReadDevice
  <2>4. CASE c.id = "DMMC"
    <3>1. SzxReadChunk(r, c) = read_dmmc_chunk(r, c.body) /\ d = "divmmc"
      BY <2>4 DEF SzxReadChunk, DeviceOf
    <3>2. QED  BY <3>1, Zenon DEF read_dmmc_chunk, ReadCard, ReadDevice
  <2>5. QED  BY <2>1, <2>2, <2>3, <2>4
<1>3. IsDevice(old) /\ old.ram \subseteq 0 .. CardSize[d] - 1
  BY <1>1, Zenon DEF Usable, CardsFit
<1> HIDE DEF d, old
<1>4. IsDevice(k) /\ k.ram = old.ram
  BY <1>1, <1>3 DEF IsDevice
<1> HIDE DEF k
<1>5. QED  BY <1>1, <1>2, <1>3, <1>4, Zenon DEF Stores, d

(* A page of a memory card, unless its number is out of range.              *)
LEMMA CardPageRead ==
  ASSUME NEW r, Usable(r), NEW c, IsSzxChunk(c),
         c.id \in { "ATRP", "CFRP", "DIRP", "DMRP" }
  PROVE  \/ /\ c.body >= CardSize[DeviceOf(c.id)]
            /\ SzxReadChunk(r, c) = Error(r, "CORRUPT")
         \/ \E k : Stores(SzxReadChunk(r, c), r, c, k)
<1> DEFINE d == DeviceOf(c.id)
           old == Device(r, d)
           k == [old EXCEPT !.ram = old.ram \union {c.body}]
<1>1. c.body \in Nat /\ d \in Devices /\ d \in Cards /\ c.id # "ZXPR"
      /\ CardSize[d] \in Nat
  <2>1. c.body \in Nat
    BY DEF IsSzxChunk, SzxMemoryPages
  <2>2. d \in Devices /\ d \in Cards /\ c.id # "ZXPR"
    BY DEF DeviceOf, Devices, Cards, CardSize
  <2>3. CardSize[d] \in Nat
    BY DEF DeviceOf, CardSize, SNAPSHOT_ZXATASP_PAGES, SNAPSHOT_ZXCF_PAGES,
           SNAPSHOT_DIVIDE_PAGES, SNAPSHOT_DIVMMC_PAGES
  <2>4. QED  BY <2>1, <2>2, <2>3
<1>2. SzxReadChunk(r, c) = ReadCardPage(r, d, c.body, CardSize[d])
  <2>1. CASE c.id = "ATRP"
    <3>1. SzxReadChunk(r, c) = read_atrp_chunk(r, c.body) /\ d = "zxatasp"
      BY <2>1 DEF SzxReadChunk, DeviceOf
    <3>2. QED  BY <3>1, Zenon DEF read_atrp_chunk
  <2>2. CASE c.id = "CFRP"
    <3>1. SzxReadChunk(r, c) = read_cfrp_chunk(r, c.body) /\ d = "zxcf"
      BY <2>2 DEF SzxReadChunk, DeviceOf
    <3>2. QED  BY <3>1, Zenon DEF read_cfrp_chunk
  <2>3. CASE c.id = "DIRP"
    <3>1. SzxReadChunk(r, c) = read_dirp_chunk(r, c.body) /\ d = "divide"
      BY <2>3 DEF SzxReadChunk, DeviceOf
    <3>2. QED  BY <3>1, Zenon DEF read_dirp_chunk
  <2>4. CASE c.id = "DMRP"
    <3>1. SzxReadChunk(r, c) = read_dmrp_chunk(r, c.body) /\ d = "divmmc"
      BY <2>4 DEF SzxReadChunk, DeviceOf
    <3>2. QED  BY <3>1, Zenon DEF read_dmrp_chunk
  <2>5. QED  BY <2>1, <2>2, <2>3, <2>4
<1>3. IsDevice(old) /\ old.ram \subseteq 0 .. CardSize[d] - 1
  BY <1>1, Zenon DEF Usable, CardsFit
<1>4. CASE c.body >= CardSize[d]
  <2>1. SzxReadChunk(r, c) = Error(r, "CORRUPT")
    BY <1>2, <1>4, Zenon DEF ReadCardPage
  <2>2. QED  BY <1>4, <2>1, Zenon
<1>5. CASE ~(c.body >= CardSize[d])
  <2>1. SzxReadChunk(r, c) = Ok(SetDevice(r, d, k))
    BY <1>2, <1>5, Zenon DEF ReadCardPage, ReadDevice
  <2> HIDE DEF d, old
  <2>2. IsDevice(k) /\ k.ram = old.ram \union {c.body}
    BY <1>1, <1>3 DEF IsDevice
  <2>3. k.ram \subseteq 0 .. CardSize[d] - 1
    BY <1>1, <1>3, <1>5, <2>2
  <2> HIDE DEF k
  <2>4. QED  BY <1>1, <2>1, <2>2, <2>3, Zenon DEF Stores, d
<1>6. QED  BY <1>4, <1>5

(* The dock, the Interface 1, the Spectranet and the Multiface.             *)
LEMMA OtherDeviceRead ==
  ASSUME NEW r, Usable(r), NEW c, IsSzxChunk(c),
         c.id \in { "DOCK", "IF1", "SNET", "SNEF", "SNER", "MFCE" }
  PROVE  \/ /\ c.id = "DOCK" /\ c.body >= DOCK_PAGES
            /\ SzxReadChunk(r, c) = Error(r, "CORRUPT")
         \/ \E k : Stores(SzxReadChunk(r, c), r, c, k)
<1> DEFINE d == DeviceOf(c.id)
           old == Device(r, d)
           b == c.body
<1>1. d \in Devices /\ d \notin Cards /\ c.id # "ZXPR"
  BY DEF DeviceOf, Devices, Cards, CardSize
<1>2. IsDevice(old)
  BY <1>1, Zenon DEF Usable
<1>3. ASSUME NEW k, IsDevice(k), SzxReadChunk(r, c) = Ok(SetDevice(r, d, k))
      PROVE  \E x : Stores(SzxReadChunk(r, c), r, c, x)
  BY <1>1, <1>3, Zenon DEF Stores
<1>4. CASE c.id = "DOCK"
  <2> DEFINE k == [old EXCEPT !.active = TRUE, !.ram = old.ram \union {b}]
  <2>1. SzxReadChunk(r, c) = read_dock_chunk(r, b) /\ d = "dock" /\ b \in Nat
    <3>1. SzxReadChunk(r, c) = read_dock_chunk(r, b) /\ d = "dock"
      BY <1>4 DEF SzxReadChunk, DeviceOf
    <3>2. b \in Nat
      BY <1>4 DEF IsSzxChunk, SzxMemoryPages
    <3>3. QED  BY <3>1, <3>2
  <2>2. CASE b >= DOCK_PAGES
    <3>1. SzxReadChunk(r, c) = Error(r, "CORRUPT")
      BY <2>1, <2>2, Zenon DEF read_dock_chunk
    <3>2. QED  BY <1>4, <2>2, <3>1, Zenon
  <2>3. CASE ~(b >= DOCK_PAGES)
    <3>1. SzxReadChunk(r, c) = Ok(SetDevice(r, d, k))
      BY <2>1, <2>3, Zenon DEF read_dock_chunk, ReadDevice
    <3>2. IsDevice(k)
      <4> HIDE DEF old
      <4>1. QED  BY <1>2, <2>1 DEF IsDevice
    <3> HIDE DEF k
    <3>3. QED  BY <1>3, <3>1, <3>2, Zenon
  <2>4. QED  BY <2>2, <2>3
<1>5. CASE c.id = "IF1"
  <2> DEFINE custom == old.custom \/ b.length # 0
             image == IF b.length # 0 /\ b.packed THEN b.length ELSE old.image
             k == [old EXCEPT !.active = TRUE, !.paged = b.paged, !.regs = b.drives,
                              !.custom = custom, !.image = image]
  <2>1. SzxReadChunk(r, c) = read_if1_chunk(r, b) /\ d = "if1"
        /\ {b.paged, b.packed} \subseteq BOOLEAN /\ {b.drives, b.length} \subseteq Nat
    <3>1. SzxReadChunk(r, c) = read_if1_chunk(r, b) /\ d = "if1"
      BY <1>5 DEF SzxReadChunk, DeviceOf
    <3>2. {b.paged, b.packed} \subseteq BOOLEAN /\ {b.drives, b.length} \subseteq Nat
      BY <1>5 DEF IsSzxChunk
    <3>3. QED  BY <3>1, <3>2
  <2>2. SzxReadChunk(r, c) = Ok(SetDevice(r, d, k))
    BY <2>1, Zenon DEF read_if1_chunk, ReadDevice
  <2> HIDE DEF old
  <2>3. custom \in BOOLEAN /\ image \in Nat
    BY <1>2, <2>1 DEF IsDevice
  <2> HIDE DEF custom, image
  <2>4. IsDevice(k)
    BY <1>2, <2>1, <2>3 DEF IsDevice
  <2> HIDE DEF k
  <2>5. QED  BY <1>3, <2>2, <2>4, Zenon
<1>6. CASE c.id = "SNET"
  <2> DEFINE k == [b EXCEPT !.image = old.image, !.ram = old.ram]
  <2>1. SzxReadChunk(r, c) = read_snet_chunk(r, b) /\ d = "spectranet" /\ IsDevice(b)
    BY <1>6 DEF SzxReadChunk, DeviceOf, IsSzxChunk, SzxMemoryPages, SzxDevices
  <2>2. SzxReadChunk(r, c) = Ok(SetDevice(r, d, k))
    BY <2>1, Zenon DEF read_snet_chunk, ReadDevice
  <2> HIDE DEF old, b
  <2>3. IsDevice(k)
    BY <1>2, <2>1 DEF IsDevice
  <2> HIDE DEF k
  <2>4. QED  BY <1>3, <2>2, <2>3, Zenon
<1>7. CASE c.id = "SNEF"
  <2> DEFINE k == [old EXCEPT !.image = b]
  <2>1. SzxReadChunk(r, c) = read_snef_chunk(r, b) /\ d = "spectranet" /\ b \in Nat
    <3>1. SzxReadChunk(r, c) = read_snef_chunk(r, b) /\ d = "spectranet"
      BY <1>7 DEF SzxReadChunk, DeviceOf
    <3>2. b \in Nat
      BY <1>7 DEF IsSzxChunk
    <3>3. QED  BY <3>1, <3>2
  <2>2. SzxReadChunk(r, c) = Ok(SetDevice(r, d, k))
    BY <2>1, Zenon DEF read_snef_chunk, ReadDevice
  <2> HIDE DEF old, b
  <2>3. IsDevice(k)
    BY <1>2, <2>1 DEF IsDevice
  <2> HIDE DEF k
  <2>4. QED  BY <1>3, <2>2, <2>3, Zenon
<1>8. CASE c.id = "SNER"
  <2> DEFINE k == [old EXCEPT !.ram = b]
  <2>1. SzxReadChunk(r, c) = read_sner_chunk(r, b) /\ d = "spectranet" /\ b \subseteq Nat
    <3>1. SzxReadChunk(r, c) = read_sner_chunk(r, b) /\ d = "spectranet"
      BY <1>8 DEF SzxReadChunk, DeviceOf
    <3>2. b \subseteq Nat
      BY <1>8 DEF IsSzxChunk
    <3>3. QED  BY <3>1, <3>2
  <2>2. SzxReadChunk(r, c) = Ok(SetDevice(r, d, k))
    BY <2>1, Zenon DEF read_sner_chunk, ReadDevice
  <2> HIDE DEF old, b
  <2>3. IsDevice(k)
    BY <1>2, <2>1 DEF IsDevice
  <2> HIDE DEF k
  <2>4. QED  BY <1>3, <2>2, <2>3, Zenon
<1>9. CASE c.id = "MFCE"
  <2> DEFINE regs == IF b.regs = 128 /\ r.machine \in PLUS3_MEMORY THEN 3 ELSE b.regs
             k == [b EXCEPT !.regs = regs]
  <2>1. SzxReadChunk(r, c) = read_mfce_chunk(r, b) /\ d = "multiface" /\ IsDevice(b)
    BY <1>9 DEF SzxReadChunk, DeviceOf, IsSzxChunk, SzxMemoryPages, SzxDevices
  <2>2. SzxReadChunk(r, c) = Ok(SetDevice(r, d, k))
    BY <2>1, Zenon DEF read_mfce_chunk, ReadDevice
  <2> HIDE DEF b
  <2>3. regs \in Nat
    BY <2>1 DEF IsDevice
  <2> HIDE DEF regs
  <2>4. IsDevice(k)
    BY <2>1, <2>3 DEF IsDevice
  <2> HIDE DEF k
  <2>5. QED  BY <1>3, <2>2, <2>4, Zenon
<1>10. QED  BY <1>4, <1>5, <1>6, <1>7, <1>8, <1>9

\* The pages of cards and cartridges have a limit.
PageLimit(id) == IF id = "DOCK" THEN DOCK_PAGES ELSE CardSize[DeviceOf(id)]

(* A chunk of a device changes that device or, with a page that is out of   *)
(* range, nothing.                                                          *)
LEMMA DeviceRead ==
  ASSUME NEW r, Usable(r), NEW c, IsSzxChunk(c), c.id \in DeviceChunks
  PROVE  \/ /\ c.id \in SzxMemoryPages /\ c.body >= PageLimit(c.id)
            /\ SzxReadChunk(r, c) = Error(r, "CORRUPT")
         \/ \E k : Stores(SzxReadChunk(r, c), r, c, k)
<1>1. CASE c.id \in { "B128", "IF2R", "AMXM", "SIDE", "DRUM", "COVX", "PLTT", "ZMMC",
                      "ZXPR", "OPUS", "PLSD" }
  BY <1>1, WholeDevice, Zenon
<1>2. CASE c.id \in { "ZXAT", "ZXCF", "DIDE", "DMMC" }
  BY <1>2, CardRead, Zenon
<1>3. CASE c.id \in { "ATRP", "CFRP", "DIRP", "DMRP" }
  <2>1. c.id \in SzxMemoryPages /\ c.id # "DOCK"
    BY <1>3 DEF SzxMemoryPages
  <2>2. QED  BY <1>3, <2>1, CardPageRead, Zenon DEF PageLimit
<1>4. CASE c.id \in { "DOCK", "IF1", "SNET", "SNEF", "SNER", "MFCE" }
  <2>1. c.id = "DOCK" => c.id \in SzxMemoryPages
    BY DEF SzxMemoryPages
  <2>2. QED  BY <1>4, <2>1, OtherDeviceRead, Zenon DEF PageLimit
<1>5. \/ c.id \in { "B128", "IF2R", "AMXM", "SIDE", "DRUM", "COVX", "PLTT", "ZMMC",
                    "ZXPR", "OPUS", "PLSD" }
      \/ c.id \in { "ZXAT", "ZXCF", "DIDE", "DMMC" }
      \/ c.id \in { "ATRP", "CFRP", "DIRP", "DMRP" }
      \/ c.id \in { "DOCK", "IF1", "SNET", "SNEF", "SNER", "MFCE" }
  BY DEF DeviceChunks, SzxMemoryPages, SzxDevices
<1>6. QED  BY <1>1, <1>2, <1>3, <1>4, <1>5, Zenon

\* The types of joysticks a snapshot lists.
Types(s) == {s.joysticks[i].type : i \in DOMAIN s.joysticks}

\* t is r with joysticks added whose types are in T.
Listed(t, r, T) ==
  /\ Shape(t) /\ t.machine = r.machine /\ t.sp = r.sp /\ t.pages = r.pages
  /\ t.kit = r.kit
  /\ t.joysticks \in Seq(JoystickEntries)
  /\ \A i \in DOMAIN t.joysticks : t.joysticks[i].type \in Types(r) \union T

(* add_joystick lists one more joystick, or one more connection.            *)
LEMMA JoystickAdded ==
  ASSUME NEW r, Shape(r), r.joysticks \in Seq(JoystickEntries),
         NEW type \in SzxJoysticks, NEW inputs \in SUBSET Inputs
  PROVE  Listed(add_joystick(r, type, inputs), r, {type})
<1> DEFINE J == r.joysticks
           t == add_joystick(r, type, inputs)
<1>1. J \in Seq(JoystickEntries) /\ Types(r) = {J[i].type : i \in DOMAIN J}
  BY Zenon DEF Types
<1>2. CASE \E i \in DOMAIN r.joysticks : r.joysticks[i].type = type
  <2> DEFINE i == CHOOSE j \in DOMAIN r.joysticks : r.joysticks[j].type = type
             K == [J EXCEPT ![i].inputs = @ \union inputs]
  <2>1. t = [r EXCEPT !.joysticks[i].inputs = @ \union inputs]
    BY <1>2, Zenon DEF add_joystick
  <2>2. i \in DOMAIN J
    BY <1>2, Zenon
  <2> HIDE DEF i, t
  <2>3. /\ Shape(t) /\ t.machine = r.machine /\ t.sp = r.sp /\ t.pages = r.pages
        /\ t.kit = r.kit /\ t.joysticks = K
    BY <2>1, Zenon DEF Shape
  <2> HIDE DEF J
  <2>4. K \in Seq(JoystickEntries) /\ DOMAIN K = DOMAIN J
        /\ \A x \in DOMAIN K : K[x].type = J[x].type
    <3> DEFINE old == J[i]
               e == [old EXCEPT !.inputs = @ \union inputs]
    <3>1. old \in JoystickEntries
      BY <1>1, <2>2
    <3> HIDE DEF old
    <3>2. e \in JoystickEntries /\ e.type = old.type
      BY <3>1 DEF JoystickEntries
    <3>3. K = [J EXCEPT ![i] = e]
      BY DEF old
    <3> HIDE DEF K, e
    <3>4. K \in Seq(JoystickEntries) /\ DOMAIN K = DOMAIN J
          /\ \A x \in DOMAIN J : K[x] = IF x = i THEN e ELSE J[x]
      BY <1>1, <2>2, <3>2, <3>3
    <3>5. QED  BY <3>2, <3>4 DEF old
  <2> HIDE DEF K
  <2>5. \A x \in DOMAIN t.joysticks : t.joysticks[x].type \in Types(r) \union {type}
    BY <1>1, <2>3, <2>4
  <2>6. QED  BY <2>3, <2>4, <2>5, Zenon DEF Listed, t
<1>3. CASE ~\E i \in DOMAIN r.joysticks : r.joysticks[i].type = type
  <2> DEFINE e == [type |-> type, inputs |-> inputs]
             K == Append(J, e)
  <2>1. t = [r EXCEPT !.joysticks = Append(@, e)]
    BY <1>3, Zenon DEF add_joystick
  <2> HIDE DEF t
  <2>2. /\ Shape(t) /\ t.machine = r.machine /\ t.sp = r.sp /\ t.pages = r.pages
        /\ t.kit = r.kit /\ t.joysticks = K
    BY <2>1, Zenon DEF Shape
  <2>3. e \in JoystickEntries /\ e.type = type
    BY DEF JoystickEntries, SzxJoysticks
  <2> HIDE DEF J, e
  <2>4. K \in Seq(JoystickEntries) /\ DOMAIN J = 1 .. Len(J) /\ DOMAIN K = 1 .. Len(J) + 1
        /\ Len(J) \in Nat /\ \A x \in 1 .. Len(J) + 1 : K[x] = IF x = Len(J) + 1 THEN e ELSE J[x]
    BY <1>1, <2>3
  <2>5. ASSUME NEW x \in DOMAIN K
        PROVE  K[x].type \in Types(r) \union {type}
    <3>1. CASE x = Len(J) + 1
      BY <2>3, <2>4, <3>1
    <3>2. CASE x # Len(J) + 1
      <4>1. x \in DOMAIN J /\ K[x] = J[x]
        BY <2>4, <3>2
      <4>2. QED  BY <1>1, <4>1
    <3>3. QED  BY <3>1, <3>2
  <2> HIDE DEF K
  <2>6. QED  BY <2>2, <2>4, <2>5, Zenon DEF Listed, t
<1>4. QED  BY <1>2, <1>3

LEMMA NamedAdded ==
  ASSUME NEW r, Shape(r), r.joysticks \in Seq(JoystickEntries),
         NEW type \in SzxJoysticks, NEW inputs \in SUBSET Inputs
  PROVE  Listed(AddNamed(r, type, inputs), r, {type} \ {"NONE"})
<1>1. CASE type = "NONE"
  <2>1. AddNamed(r, type, inputs) = r
    BY <1>1, Zenon DEF AddNamed
  <2>2. Listed(r, r, {type} \ {"NONE"})
    BY DEF Listed, Types
  <2>3. QED  BY <2>1, <2>2, Zenon
<1>2. CASE type # "NONE"
  <2>1. AddNamed(r, type, inputs) = add_joystick(r, type, inputs)
    BY <1>2, Zenon DEF AddNamed
  <2>2. {type} \ {"NONE"} = {type}
    BY <1>2
  <2>3. QED  BY <2>1, <2>2, JoystickAdded, Zenon
<1>3. QED  BY <1>1, <1>2

(* One after the other.                                                     *)
LEMMA ListedBoth ==
  ASSUME NEW r, NEW t, NEW u, NEW T, NEW U, Listed(t, r, T), Listed(u, t, U)
  PROVE  Listed(u, r, T \union U)
<1>1. \A i \in DOMAIN t.joysticks : t.joysticks[i].type \in Types(r) \union T
  BY Zenon DEF Listed
<1>2. Types(t) \subseteq Types(r) \union T
  BY <1>1, Zenon DEF Types
<1>3. \A i \in DOMAIN u.joysticks : u.joysticks[i].type \in Types(t) \union U
  BY Zenon DEF Listed
<1>4. \A i \in DOMAIN u.joysticks : u.joysticks[i].type \in Types(r) \union (T \union U)
  BY <1>2, <1>3, Zenon
<1>5. QED  BY <1>4, Zenon DEF Listed

LEMMA ListedUsable ==
  ASSUME NEW r, NEW t, NEW T, Listed(t, r, T), Usable(r)
  PROVE  Usable(t)
<1>1. \A d : Device(t, d) = Device(r, d)
  BY DEF Listed, Device
<1>2. CardsFit(t)
  BY <1>1 DEF CardsFit, Usable
<1>3. QED  BY <1>1, <1>2 DEF Usable, Listed

LEMMA ListedFrom ==
  ASSUME NEW r, NEW t, NEW T, NEW s, NEW f, Listed(t, r, T), From(r, s, f),
         T \subseteq Types(s)
  PROVE  From(t, s, f)
<1>1. t.pages = r.pages /\ \A d : Device(t, d) = Device(r, d)
  BY DEF Listed, Device
<1>2. PagesFrom(t, s)
  BY <1>1, Zenon DEF PagesFrom, From
<1>3. DevicesFrom(t, s)
  BY <1>1, Zenon DEF DevicesFrom, From, Active
<1>4. ASSUME NEW i \in DOMAIN t.joysticks
      PROVE  \/ \E j \in DOMAIN s.joysticks : s.joysticks[j].type = t.joysticks[i].type
             \/ f = "z80" /\ t.joysticks[i].type = "CURSOR"
  <2>1. t.joysticks[i].type \in Types(r) \union Types(s)
    BY Zenon DEF Listed
  <2>2. CASE t.joysticks[i].type \in Types(s)
    BY <2>2, Zenon DEF Types
  <2>3. CASE t.joysticks[i].type \in Types(r)
    <3>1. PICK x \in DOMAIN r.joysticks : r.joysticks[x].type = t.joysticks[i].type
      BY <2>3, Zenon DEF Types
    <3>2. \/ \E j \in DOMAIN s.joysticks : s.joysticks[j].type = r.joysticks[x].type
          \/ f = "z80" /\ r.joysticks[x].type = "CURSOR"
      BY Zenon DEF From, JoysticksFrom
    <3>3. QED  BY <3>1, <3>2
  <2>4. QED  BY <2>1, <2>2, <2>3
<1>5. QED  BY <1>2, <1>3, <1>4, Zenon DEF From, JoysticksFrom

(* The chunks of the machine itself.                                        *)
LEMMA PlainRead ==
  ASSUME NEW r, Usable(r), NEW c, IsSzxChunk(c),
         c.id \notin DeviceChunks \union { "ZXST", "JOY", "KEYB", "RAMP", "AY" }
  PROVE  LET res == SzxReadChunk(r, c)
         IN  /\ Kept(res.snap, r) /\ res.snap.machine = r.machine
             /\ res.snap.sp \in Addresses
             /\ \/ res.err = "NONE"
                \/ c.id = "ROM" /\ c.body.length # RomLengthRead(r.machine)
<1> DEFINE b == c.body
<1>0. Shape(r) /\ r.sp \in Addresses
  BY Zenon DEF Usable
<1>1. CASE c.id = "Z80R"
  <2>1. SzxReadChunk(r, c) = read_z80r_chunk(r, b)
    BY <1>1 DEF SzxReadChunk
  <2>2. b.sp \in Addresses
    BY <1>1, Zenon DEF IsSzxChunk
  <2>3. LET t == read_z80r_chunk(r, b).snap
        IN  Kept(t, r) /\ t.machine = r.machine /\ t.sp = b.sp
    BY <1>0, Zenon DEF read_z80r_chunk, Ok, Kept, Shape
  <2>4. read_z80r_chunk(r, b).err = "NONE"
    BY Zenon DEF read_z80r_chunk, Ok
  <2>5. QED  BY <2>1, <2>2, <2>3, <2>4, Zenon
<1>2. CASE c.id = "SPCR"
  <2>1. SzxReadChunk(r, c) = read_spcr_chunk(r, b)
    BY <1>2 DEF SzxReadChunk
  <2>2. LET t == read_spcr_chunk(r, b).snap
        IN  Kept(t, r) /\ t.machine = r.machine /\ t.sp = r.sp
    BY <1>0, Zenon DEF read_spcr_chunk, Ok, Kept, Shape
  <2>3. read_spcr_chunk(r, b).err = "NONE"
    BY Zenon DEF read_spcr_chunk, Ok
  <2>4. QED  BY <1>0, <2>1, <2>2, <2>3, Zenon
<1>3. CASE c.id = "SCLD"
  <2>1. SzxReadChunk(r, c) = read_scld_chunk(r, b)
    BY <1>3 DEF SzxReadChunk
  <2>2. LET t == read_scld_chunk(r, b).snap
        IN  Kept(t, r) /\ t.machine = r.machine /\ t.sp = r.sp
    BY <1>0, Zenon DEF read_scld_chunk, Ok, Kept, Shape
  <2>3. read_scld_chunk(r, b).err = "NONE"
    BY Zenon DEF read_scld_chunk, Ok
  <2>4. QED  BY <1>0, <2>1, <2>2, <2>3, Zenon
<1>4. CASE c.id = "ROM"
  <2>1. SzxReadChunk(r, c) = read_rom_chunk(r, b)
    BY <1>4 DEF SzxReadChunk
  <2>2. CASE b.length = RomLengthRead(r.machine)
    <3>1. read_rom_chunk(r, b) =
            Ok([r EXCEPT !.custom_rom = TRUE, !.roms = szx_extract_roms(b.length)])
      BY <2>2, Zenon DEF read_rom_chunk
    <3> DEFINE t == [r EXCEPT !.custom_rom = TRUE, !.roms = szx_extract_roms(b.length)]
    <3>2. Kept(t, r) /\ t.machine = r.machine /\ t.sp = r.sp
      BY <1>0, Zenon DEF Kept, Shape
    <3> HIDE DEF t
    <3>3. SzxReadChunk(r, c) = Ok(t)
      BY <2>1, <3>1, Zenon DEF t
    <3>4. QED  BY <1>0, <3>2, <3>3, OkIs, Zenon
  <2>3. CASE b.length # RomLengthRead(r.machine)
    <3>1. read_rom_chunk(r, b) = Error([r EXCEPT !.custom_rom = TRUE], "UNKNOWN")
      BY <2>3, Zenon DEF read_rom_chunk
    <3> DEFINE t == [r EXCEPT !.custom_rom = TRUE]
    <3>2. Kept(t, r) /\ t.machine = r.machine /\ t.sp = r.sp
      BY <1>0, Zenon DEF Kept, Shape
    <3> HIDE DEF t
    <3>3. SzxReadChunk(r, c) = Error(t, "UNKNOWN")
      BY <2>1, <3>1, Zenon DEF t
    <3>4. SzxReadChunk(r, c).snap = t
      BY <3>3, ErrorIs
    <3>5. QED  BY <1>0, <1>4, <2>3, <3>2, <3>4, Zenon
  <2>4. QED  BY <2>2, <2>3
<1>5. CASE c.id \notin { "Z80R", "SPCR", "SCLD", "ROM" }
  <2>1. SzxReadChunk(r, c) = Ok(r)
    BY <1>5 DEF SzxReadChunk, DeviceChunks, SzxMemoryPages, SzxDevices
  <2>2. Kept(r, r)
    BY <1>0, Zenon DEF Kept
  <2>3. QED  BY <1>0, <2>1, <2>2, OkIs, Zenon
<1>6. QED  BY <1>1, <1>2, <1>3, <1>4, <1>5

(* The header names the machine.                                            *)
LEMMA HeaderRead ==
  ASSUME NEW r, Usable(r), NEW c, c.id = "ZXST"
  PROVE  LET res == SzxReadChunk(r, c)
         IN  /\ Kept(res.snap, r) /\ res.snap.machine = c.body.machine
             /\ res.snap.sp \in Addresses /\ res.err = "NONE"
<1> DEFINE b == c.body
<1>0. Shape(r) /\ r.sp \in Addresses
  BY Zenon DEF Usable
<1>1. SzxReadChunk(r, c) = read_file_header(r, b)
  BY DEF SzxReadChunk
<1>2. LET t == read_file_header(r, b).snap
      IN  Kept(t, r) /\ t.machine = b.machine /\ t.sp = r.sp
  BY <1>0, Zenon DEF read_file_header, Ok, Kept, Shape
<1>3. read_file_header(r, b).err = "NONE"
  BY Zenon DEF read_file_header, Ok
<1>4. QED  BY <1>0, <1>1, <1>2, <1>3, Zenon

\* The joysticks a chunk names.
Named(c) ==
  IF c.id = "JOY"
  THEN (IF c.body.port31 THEN {"KEMPSTON"} ELSE {}) \union
         ({c.body.one} \ {"NONE"}) \union ({c.body.two} \ {"NONE"})
  ELSE {c.body.type} \ {"NONE"}

(* The chunks with joysticks list those they name.                          *)
LEMMA JoysticksRead ==
  ASSUME NEW r, Usable(r), NEW c, IsSzxChunk(c), c.id \in { "JOY", "KEYB" }
  PROVE  LET res == SzxReadChunk(r, c)
         IN  Listed(res.snap, r, Named(c)) /\ res.err = "NONE"
<1> DEFINE b == c.body
<1>0. Shape(r) /\ r.joysticks \in Seq(JoystickEntries)
  BY Zenon DEF Usable
<1>1. CASE c.id = "JOY"
  <2> DEFINE s1 == IF b.port31 THEN add_joystick(r, "KEMPSTON", {}) ELSE r
             s2 == AddNamed(s1, b.one, {"JOYSTICK_1"})
             s3 == AddNamed(s2, b.two, {"JOYSTICK_2"})
             T1 == IF b.port31 THEN {"KEMPSTON"} ELSE {}
             T2 == {b.one} \ {"NONE"}
             T3 == {b.two} \ {"NONE"}
  <2>1. SzxReadChunk(r, c) = read_joy_chunk(r, b)
    BY <1>1 DEF SzxReadChunk
  <2>2. read_joy_chunk(r, b) = Ok(s3)
    BY Zenon DEF read_joy_chunk
  <2>3. b.one \in SzxJoysticks /\ b.two \in SzxJoysticks
    BY <1>1 DEF IsSzxChunk
  <2>4. /\ "KEMPSTON" \in SzxJoysticks /\ {} \in SUBSET Inputs
        /\ {"JOYSTICK_1"} \in SUBSET Inputs /\ {"JOYSTICK_2"} \in SUBSET Inputs
    BY DEF SzxJoysticks, JoystickTypes, Inputs
  <2>5. Listed(s1, r, T1)
    <3>1. CASE b.port31
      BY <1>0, <2>4, <3>1, JoystickAdded, Zenon
    <3>2. CASE ~b.port31
      <4>1. Listed(r, r, {})
        BY <1>0 DEF Listed, Types
      <4>2. QED  BY <3>2, <4>1, Zenon
    <3>3. QED  BY <3>1, <3>2
  <2> HIDE DEF s1
  <2>6. Shape(s1) /\ s1.joysticks \in Seq(JoystickEntries)
    BY <2>5, Zenon DEF Listed
  <2>7. Listed(s2, s1, T2)
    BY <2>3, <2>4, <2>6, NamedAdded, Zenon
  <2> HIDE DEF s2
  <2>8. Shape(s2) /\ s2.joysticks \in Seq(JoystickEntries)
    BY <2>7, Zenon DEF Listed
  <2>9. Listed(s3, s2, T3)
    BY <2>3, <2>4, <2>8, NamedAdded, Zenon
  <2> HIDE DEF s3, T1, T2, T3
  <2>10. Listed(s3, r, (T1 \union T2) \union T3)
    <3>1. Listed(s2, r, T1 \union T2)
      BY <2>5, <2>7, ListedBoth, Zenon
    <3>2. QED  BY <2>9, <3>1, ListedBoth, Zenon
  <2>11. Named(c) = (T1 \union T2) \union T3
    BY <1>1 DEF Named, T1, T2, T3
  <2>12. QED  BY <2>1, <2>2, <2>10, <2>11, OkIs, Zenon
<1>2. CASE c.id = "KEYB"
  <2> DEFINE t == [r EXCEPT !.issue2 = b.issue2]
             u == AddNamed(t, b.type, {"KEYBOARD"})
  <2>1. SzxReadChunk(r, c) = read_keyb_chunk(r, b)
    BY <1>2 DEF SzxReadChunk
  <2>2. read_keyb_chunk(r, b) = Ok(u)
    BY Zenon DEF read_keyb_chunk
  <2>3. /\ Shape(t) /\ t.machine = r.machine /\ t.sp = r.sp /\ t.pages = r.pages
        /\ t.kit = r.kit /\ t.joysticks = r.joysticks
    BY <1>0, Zenon DEF Shape
  <2> HIDE DEF t
  <2>4. b.type \in SzxJoysticks /\ {"KEYBOARD"} \in SUBSET Inputs
    BY <1>2 DEF IsSzxChunk, Inputs
  <2>5. Listed(u, t, {b.type} \ {"NONE"})
    BY <1>0, <2>3, <2>4, NamedAdded, Zenon
  <2> HIDE DEF u
  <2>6. Types(t) = Types(r)
    BY <2>3, Zenon DEF Types
  <2>7. Listed(u, r, {b.type} \ {"NONE"})
    BY <2>3, <2>5, <2>6, Zenon DEF Listed
  <2>8. Named(c) = {b.type} \ {"NONE"}
    BY <1>2 DEF Named
  <2>9. QED  BY <2>1, <2>2, <2>7, <2>8, OkIs, Zenon
<1>3. QED  BY <1>1, <1>2

(* A page of RAM, unless its number is out of range.                        *)
LEMMA RampRead ==
  ASSUME NEW r, Usable(r), NEW c, c.id = "RAMP"
  PROVE  LET res == SzxReadChunk(r, c)
             t   == res.snap
         IN  \/ c.body.page > 63 /\ res = Error(r, "CORRUPT")
             \/ /\ res.err = "NONE" /\ Shape(t) /\ t.machine = r.machine /\ t.sp = r.sp
                /\ t.joysticks = r.joysticks /\ t.kit = r.kit
                /\ t.pages = Over([q \in {c.body.page} |-> c.body.data], r.pages)
<1> DEFINE b == c.body
<1>0. Shape(r)
  BY Zenon DEF Usable
<1>1. SzxReadChunk(r, c) = read_ramp_chunk(r, b)
  BY DEF SzxReadChunk
<1>2. CASE b.page > 63
  <2>1. read_ramp_chunk(r, b) = Error(r, "CORRUPT")
    BY <1>2 DEF read_ramp_chunk
  <2>2. QED  BY <1>1, <1>2, <2>1
<1>3. CASE ~(b.page > 63)
  <2>1. read_ramp_chunk(r, b) = Ok(SetPage(r, b.page, b.data))
    BY <1>3 DEF read_ramp_chunk
  <2> DEFINE t == SetPage(r, b.page, b.data)
  <2>2. /\ Shape(t) /\ t.machine = r.machine /\ t.sp = r.sp
        /\ t.joysticks = r.joysticks /\ t.kit = r.kit
        /\ t.pages = Over([q \in {b.page} |-> b.data], r.pages)
    BY <1>0, Zenon DEF SetPage, Shape
  <2> HIDE DEF t
  <2>3. SzxReadChunk(r, c).snap = t /\ SzxReadChunk(r, c).err = "NONE"
    BY <1>1, <2>1, OkIs, Zenon DEF t
  <2>4. QED  BY <2>2, <2>3, Zenon
<1>4. QED  BY <1>2, <1>3

(* The sound chip of the Fuller box and of the Melodik.                     *)
LEMMA AyRead ==
  ASSUME NEW r, Usable(r), NEW c, IsSzxChunk(c), c.id = "AY"
  PROVE  \E t : LET one == SetDevice(t, "fuller", [Off EXCEPT !.active = c.body.fuller])
                    two == SetDevice(one, "melodik", [Off EXCEPT !.active = c.body.melodik])
                IN  /\ SzxReadChunk(r, c) = Ok(two)
                    /\ Kept(t, r) /\ t.machine = r.machine /\ t.sp = r.sp
<1> DEFINE b == c.body
           t == [r EXCEPT !.ay = b.ay]
<1>0. Shape(r)
  BY Zenon DEF Usable
<1>1. SzxReadChunk(r, c) = read_ay_chunk(r, b)
  BY DEF SzxReadChunk
<1>2. Kept(t, r) /\ t.machine = r.machine /\ t.sp = r.sp
  BY <1>0, Zenon DEF Kept, Shape
<1>3. QED  BY <1>1, <1>2, Zenon DEF read_ay_chunk

(* A reader of .szx chunks keeps the snapshot usable, whatever it is given, *)
(* and only the header says which machine it is.                            *)
LEMMA SzxReads ==
  ASSUME NEW r, Usable(r), NEW c, IsSzxChunk(c)
  PROVE  LET t == SzxReadChunk(r, c).snap
         IN  /\ Usable(t)
             /\ t.machine = IF c.id = "ZXST" THEN c.body.machine ELSE r.machine
<1> DEFINE t == SzxReadChunk(r, c).snap
<1>1. CASE c.id \notin DeviceChunks \union { "ZXST", "JOY", "KEYB", "RAMP", "AY" }
  <2>1. Kept(t, r) /\ t.machine = r.machine /\ t.sp \in Addresses
    BY <1>1, PlainRead, Zenon
  <2> HIDE DEF t
  <2>2. Usable(t)
    BY <2>1, KeptUsable, Zenon
  <2>3. c.id # "ZXST"
    BY <1>1
  <2>4. QED  BY <2>1, <2>2, <2>3, Zenon DEF t
<1>2. CASE c.id = "ZXST"
  <2>1. Kept(t, r) /\ t.machine = c.body.machine /\ t.sp \in Addresses
    BY <1>2, HeaderRead, Zenon
  <2> HIDE DEF t
  <2>2. Usable(t)
    BY <2>1, KeptUsable, Zenon
  <2>3. QED  BY <1>2, <2>1, <2>2, Zenon DEF t
<1>3. CASE c.id \in { "JOY", "KEYB" }
  <2>1. Listed(t, r, Named(c))
    BY <1>3, JoysticksRead, Zenon
  <2> HIDE DEF t
  <2>2. Usable(t)
    BY <2>1, ListedUsable, Zenon
  <2>3. c.id # "ZXST" /\ t.machine = r.machine
    BY <1>3, <2>1 DEF Listed
  <2>4. QED  BY <2>2, <2>3, Zenon DEF t
<1>4. CASE c.id = "RAMP"
  <2>1. c.id # "ZXST"
    BY <1>4
  <2>2. CASE SzxReadChunk(r, c) = Error(r, "CORRUPT")
    <3>1. t = r
      BY <2>2, ErrorIs
    <3>2. QED  BY <2>1, <3>1, Zenon
  <2>3. CASE SzxReadChunk(r, c) # Error(r, "CORRUPT")
    <3>1. Shape(t) /\ t.machine = r.machine /\ t.sp = r.sp /\ t.joysticks = r.joysticks
          /\ t.kit = r.kit
      BY <1>4, <2>3, RampRead, Zenon
    <3> HIDE DEF t
    <3>2. \A d : Device(t, d) = Device(r, d)
      BY <3>1 DEF Device
    <3>3. CardsFit(t)
      BY <3>2 DEF CardsFit, Usable
    <3>4. Usable(t)
      BY <3>1, <3>2, <3>3 DEF Usable
    <3>5. QED  BY <2>1, <3>1, <3>4, Zenon DEF t
  <2>4. QED  BY <2>2, <2>3
<1>5. CASE c.id = "AY"
  <2> DEFINE b == c.body
             fuller == [Off EXCEPT !.active = b.fuller]
             melodik == [Off EXCEPT !.active = b.melodik]
  <2>1. PICK u : /\ SzxReadChunk(r, c) =
                      Ok(SetDevice(SetDevice(u, "fuller", fuller), "melodik", melodik))
                 /\ Kept(u, r) /\ u.machine = r.machine /\ u.sp = r.sp
    BY <1>5, AyRead, Zenon
  <2> DEFINE one == SetDevice(u, "fuller", fuller)
             two == SetDevice(one, "melodik", melodik)
  <2>2. IsDevice(fuller) /\ IsDevice(melodik)
    <3>1. b.fuller \in BOOLEAN /\ b.melodik \in BOOLEAN
      BY <1>5 DEF IsSzxChunk
    <3>2. QED  BY <3>1, OffIsDevice DEF IsDevice
  <2>3. "fuller" \in Devices \ Cards /\ "melodik" \in Devices \ Cards
    BY DEF Devices, Cards, CardSize
  <2> HIDE DEF fuller, melodik
  <2>4. Usable(u)
    BY <2>1, KeptUsable, Zenon DEF Usable
  <2>5. Usable(one) /\ one.machine = u.machine
    BY <2>2, <2>3, <2>4, DeviceSetUsable, Zenon
  <2> HIDE DEF one
  <2>6. Usable(two) /\ two.machine = one.machine
    BY <2>2, <2>3, <2>5, DeviceSetUsable, Zenon
  <2>7. SzxReadChunk(r, c) = Ok(two)
    BY <2>1, Zenon DEF one
  <2> HIDE DEF two
  <2>8. t = two /\ c.id # "ZXST"
    BY <1>5, <2>7, OkIs
  <2>9. QED  BY <2>1, <2>5, <2>6, <2>8, Zenon
<1>6. CASE c.id \in DeviceChunks
  <2>1. c.id # "ZXST"
    BY <1>6 DEF DeviceChunks, SzxMemoryPages, SzxDevices
  <2>2. CASE SzxReadChunk(r, c) = Error(r, "CORRUPT")
    <3>1. t = r
      BY <2>2, ErrorIs
    <3>2. QED  BY <2>1, <3>1, Zenon
  <2>3. CASE SzxReadChunk(r, c) # Error(r, "CORRUPT")
    <3>1. PICK k : Stores(SzxReadChunk(r, c), r, c, k)
      BY <1>6, <2>3, DeviceRead, Zenon
    <3> DEFINE u == SetDevice(r, DeviceOf(c.id), k)
    <3>2. Usable(u) /\ u.machine = r.machine
      BY <3>1, DeviceSetUsable, Zenon DEF Stores
    <3>3. SzxReadChunk(r, c) = Ok(u)
      BY <3>1, Zenon DEF Stores
    <3> HIDE DEF u
    <3>4. t = u
      BY <3>3, OkIs
    <3>5. QED  BY <2>1, <3>2, <3>4, Zenon
  <2>4. QED  BY <2>2, <2>3
<1>7. QED  BY <1>1, <1>2, <1>3, <1>4, <1>5, <1>6, Zenon

\* What a chunk that was written from s says.
SzxHonest(c, s) ==
  /\ c.id = "ZXST" => c.body.machine = s.machine
  /\ c.id \in { "JOY", "KEYB" } => Named(c) \subseteq Types(s)
  /\ c.id = "ROM"  => s.custom_rom /\ c.body.length = RomsWritten(s.machine)[2]
  /\ c.id = "RAMP" => /\ c.body.page \in 0 .. 63 /\ HasPage(s, c.body.page)
                      /\ c.body.data = libspectrum_snap_pages(s, c.body.page)
  /\ c.id = "AY"   => /\ c.body.fuller => Active(s, "fuller")
                      /\ c.body.melodik => Active(s, "melodik")
  /\ c.id \in SzxMemoryPages => c.body < PageLimit(c.id)
  /\ c.id \in DeviceChunks =>
       \/ Active(s, DeviceOf(c.id))
       \/ c.id = "ZXPR" /\ c.body = Device(s, "zxprinter")

(* Reading it makes nothing up.                                             *)
LEMMA SzxFrom ==
  ASSUME NEW r, Usable(r), NEW c, IsSzxChunk(c), NEW s, SzxHonest(c, s),
         NEW f, From(r, s, f)
  PROVE  From(SzxReadChunk(r, c).snap, s, f)
<1> DEFINE t == SzxReadChunk(r, c).snap
<1>0. Shape(r)
  BY Zenon DEF Usable
<1>1. CASE c.id \notin DeviceChunks \union { "JOY", "KEYB", "RAMP", "AY" }
  <2>1. Kept(t, r)
    BY <1>1, PlainRead, HeaderRead, Zenon
  <2> HIDE DEF t
  <2>2. QED  BY <2>1, KeptFrom, Zenon DEF t
<1>3. CASE c.id \in { "JOY", "KEYB" }
  <2>1. Listed(t, r, Named(c)) /\ Named(c) \subseteq Types(s)
    BY <1>3, JoysticksRead, Zenon DEF SzxHonest
  <2> HIDE DEF t
  <2>2. QED  BY <2>1, ListedFrom, Zenon DEF t
<1>4. CASE c.id = "RAMP"
  <2>2. CASE SzxReadChunk(r, c) = Error(r, "CORRUPT")
    <3>1. t = r
      BY <2>2, ErrorIs
    <3>2. QED  BY <3>1, Zenon
  <2>3. CASE SzxReadChunk(r, c) # Error(r, "CORRUPT")
    <3> DEFINE n == c.body.page
               P == r.pages
    <3>1. t.joysticks = r.joysticks /\ t.kit = r.kit
          /\ t.pages = Over([q \in {n} |-> c.body.data], P)
      BY <1>4, <2>3, RampRead, Zenon
    <3>2. IF n \in DOMAIN s.pages THEN c.body.data = s.pages[n]
          ELSE IsLevel(s, n) /\ c.body.data = LevelData
      BY <1>4, Zenon DEF SzxHonest, HasPage, libspectrum_snap_pages
    <3> HIDE DEF t, n
    <3>3. PagesFrom(t, s)
      <4>1. ASSUME NEW p \in DOMAIN t.pages
            PROVE  IF p \in DOMAIN s.pages
                   THEN t.pages[p] \in {s.pages[p], Stacked(s.pages[p])}
                   ELSE \/ t.pages[p] \in {Blank, Stacked(Blank)}
                        \/ IsLevel(s, p) /\ t.pages[p] = LevelData
        <5> HIDE DEF P
        <5>1. t.pages = [x \in {n} \union DOMAIN P |-> IF x \in {n} THEN c.body.data ELSE P[x]]
          BY <3>1 DEF Over
        <5>2. CASE p = n
          BY <3>2, <5>1, <5>2
        <5>3. CASE p # n
          <6>1. p \in DOMAIN P /\ t.pages[p] = P[p]
            BY <5>1, <5>3
          <6>2. QED  BY <6>1, Zenon DEF From, PagesFrom, P
        <5>4. QED  BY <5>2, <5>3
      <4>2. QED  BY <4>1, Zenon DEF PagesFrom
    <3>4. DevicesFrom(t, s)
      <4>1. \A d : Device(t, d) = Device(r, d)
        BY <3>1 DEF Device
      <4>2. QED  BY <4>1, Zenon DEF DevicesFrom, Active, From
    <3>5. JoysticksFrom(t, s, f)
      BY <3>1, Zenon DEF JoysticksFrom, From
    <3>6. QED  BY <3>3, <3>4, <3>5, Zenon DEF From, t
  <2>4. QED  BY <2>2, <2>3
<1>5. CASE c.id = "AY"
  <2> DEFINE b == c.body
             fuller == [Off EXCEPT !.active = b.fuller]
             melodik == [Off EXCEPT !.active = b.melodik]
  <2>1. PICK u : /\ SzxReadChunk(r, c) =
                      Ok(SetDevice(SetDevice(u, "fuller", fuller), "melodik", melodik))
                 /\ Kept(u, r) /\ u.machine = r.machine /\ u.sp = r.sp
    BY <1>5, AyRead, Zenon
  <2> DEFINE one == SetDevice(u, "fuller", fuller)
             two == SetDevice(one, "melodik", melodik)
  <2>2. (fuller.active => Active(s, "fuller")) /\ (melodik.active => Active(s, "melodik"))
    <3>1. (b.fuller => Active(s, "fuller")) /\ (b.melodik => Active(s, "melodik"))
      BY <1>5, Zenon DEF SzxHonest
    <3>2. fuller.active = b.fuller /\ melodik.active = b.melodik
      BY OffIsDevice DEF IsDevice
    <3> HIDE DEF fuller, melodik
    <3>3. QED  BY <3>1, <3>2, Zenon
  <2> HIDE DEF fuller, melodik
  <2>3. Shape(u) /\ From(u, s, f)
    BY <2>1, KeptFrom, Zenon DEF Kept
  <2>4. Shape(one) /\ From(one, s, f)
    BY <2>2, <2>3, DeviceSet, DeviceSetFrom, Zenon
  <2> HIDE DEF one
  <2>5. From(two, s, f)
    BY <2>2, <2>4, DeviceSetFrom, Zenon
  <2>6. SzxReadChunk(r, c) = Ok(two)
    BY <2>1, Zenon DEF one
  <2> HIDE DEF two
  <2>7. t = two
    BY <2>6, OkIs
  <2>8. QED  BY <2>5, <2>7, Zenon
<1>6. CASE c.id \in DeviceChunks
  <2>2. CASE SzxReadChunk(r, c) = Error(r, "CORRUPT")
    <3>1. t = r
      BY <2>2, ErrorIs
    <3>2. QED  BY <3>1, Zenon
  <2>3. CASE SzxReadChunk(r, c) # Error(r, "CORRUPT")
    <3>1. PICK k : Stores(SzxReadChunk(r, c), r, c, k)
      BY <1>6, <2>3, DeviceRead, Zenon
    <3> DEFINE d == DeviceOf(c.id)
               u == SetDevice(r, d, k)
    <3>2. k.active => Active(s, d)
      <4>1. CASE Active(s, d)
        BY <4>1
      <4>2. CASE ~Active(s, d)
        <5>1. c.id = "ZXPR" /\ c.body = Device(s, "zxprinter")
          BY <1>6, <4>2, Zenon DEF SzxHonest
        <5>2. d = "zxprinter"
          BY <5>1 DEF DeviceOf
        <5>3. k = c.body
          BY <3>1, <5>1, Zenon DEF Stores
        <5>4. QED  BY <5>1, <5>2, <5>3, Zenon DEF Active
      <4>3. QED  BY <4>1, <4>2
    <3>3. SzxReadChunk(r, c) = Ok(u)
      BY <3>1, Zenon DEF Stores
    <3> HIDE DEF d
    <3>4. From(u, s, f)
      BY <1>0, <3>2, DeviceSetFrom, Zenon
    <3> HIDE DEF u
    <3>5. t = u
      BY <3>3, OkIs
    <3>6. QED  BY <3>4, <3>5, Zenon
  <2>4. QED  BY <2>2, <2>3
<1>7. QED  BY <1>1, <1>3, <1>4, <1>5, <1>6, Zenon

(* And no chunk of ours is refused, but for the ROMs of four machines.      *)
LEMMA SzxAccepts ==
  ASSUME NEW r, Usable(r), NEW c, IsSzxChunk(c), NEW s, SzxHonest(c, s),
         s.machine \in Machines, c.id = "ROM" => r.machine = s.machine,
         ~Unreadable("szx", s)
  PROVE  SzxReadChunk(r, c).err = "NONE"
<1>1. CASE c.id \notin DeviceChunks \union { "ZXST", "JOY", "KEYB", "RAMP", "AY" }
  <2>1. \/ SzxReadChunk(r, c).err = "NONE"
        \/ c.id = "ROM" /\ c.body.length # RomLengthRead(r.machine)
    BY <1>1, PlainRead, Zenon
  <2>2. ASSUME c.id = "ROM"
        PROVE  c.body.length = RomLengthRead(r.machine)
    <3>1. s.custom_rom /\ c.body.length = RomsWritten(s.machine)[2] /\ r.machine = s.machine
      BY <2>2, Zenon DEF SzxHonest
    <3>2. s.machine \notin { "48_NTSC", "128E", "PENT512", "PENT1024" }
      BY <3>1 DEF Unreadable
    <3>3. RomsWritten(s.machine)[2] = RomLengthRead(s.machine)
      BY <3>2 DEF RomsWritten, RomLengthRead, Machines
    <3>4. QED  BY <3>1, <3>3, Zenon
  <2>3. QED  BY <2>1, <2>2
<1>2. CASE c.id \in { "ZXST", "JOY", "KEYB" }
  BY <1>2, HeaderRead, JoysticksRead, Zenon
<1>3. CASE c.id = "RAMP"
  <2>1. ~(c.body.page > 63)
    BY <1>3 DEF SzxHonest
  <2>2. QED  BY <1>3, <2>1, RampRead, Zenon
<1>4. CASE c.id = "AY"
  <2>1. PICK u : SzxReadChunk(r, c) = Ok(u)
    BY <1>4, AyRead, Zenon
  <2>2. QED  BY <2>1, OkIs
<1>5. CASE c.id \in DeviceChunks
  <2>1. ~(c.id \in SzxMemoryPages /\ c.body >= PageLimit(c.id))
    <3>1. ASSUME c.id \in SzxMemoryPages
          PROVE  c.body \in Nat /\ PageLimit(c.id) \in Nat /\ c.body < PageLimit(c.id)
      <4>1. c.body \in Nat /\ c.body < PageLimit(c.id)
        BY <3>1, Zenon DEF IsSzxChunk, SzxHonest
      <4>2. PageLimit(c.id) \in Nat
        BY <3>1 DEF PageLimit, SzxMemoryPages, DeviceOf, CardSize, DOCK_PAGES,
             SNAPSHOT_ZXATASP_PAGES, SNAPSHOT_ZXCF_PAGES, SNAPSHOT_DIVIDE_PAGES,
             SNAPSHOT_DIVMMC_PAGES
      <4>3. QED  BY <4>1, <4>2
    <3>2. QED  BY <3>1
  <2>2. PICK k : Stores(SzxReadChunk(r, c), r, c, k)
    BY <1>5, <2>1, DeviceRead, Zenon
  <2>3. PICK u : SzxReadChunk(r, c) = Ok(u)
    BY <2>2, Zenon DEF Stores
  <2>4. QED  BY <2>3, OkIs
<1>6. QED  BY <1>1, <1>2, <1>3, <1>4, <1>5, Zenon

-----------------------------------------------------------------------------
(* Writing a .szx file.                                                    *)

SzxGood(c, s) == IsSzxChunk(c) /\ SzxHonest(c, s)
Piece(q, s) == IsSequence(q) /\ \A x \in 1 .. Len(q) : SzxGood(q[x], s)

LEMMA NoPiece ==
  ASSUME NEW s
  PROVE  Piece(<<>>, s)
<1>1. <<>> \in Seq({}) /\ Len(<<>>) = 0
  OBVIOUS
<1>2. IsSequence(<<>>)
  BY <1>1, SequenceOver
<1>3. QED  BY <1>1, <1>2 DEF Piece

LEMMA OnePiece ==
  ASSUME NEW s, NEW c, SzxGood(c, s)
  PROVE  Piece(<<c>>, s)
<1>1. <<c>> \in Seq({c})
  OBVIOUS
<1>2. \A x \in 1 .. Len(<<c>>) : <<c>>[x] = c
  OBVIOUS
<1>3. QED  BY <1>1, <1>2, SequenceOver DEF Piece

LEMMA WhenPiece ==
  ASSUME NEW s, NEW g, NEW q, g => Piece(q, s)
  PROVE  Piece(When(g, q), s)
<1>1. CASE g
  BY <1>1, Zenon DEF When
<1>2. CASE ~g
  BY <1>2, NoPiece, Zenon DEF When
<1>3. QED  BY <1>1, <1>2

LEMMA TwoPieces ==
  ASSUME NEW s, NEW a, NEW b, Piece(a, s), Piece(b, s)
  PROVE  Piece(a \o b, s)
<1>1. IsSequence(a) /\ IsSequence(b) /\ Len(a) \in Nat /\ Len(b) \in Nat
  BY SequenceShape DEF Piece
<1>2. /\ IsSequence(a \o b) /\ Len(a \o b) = Len(a) + Len(b)
      /\ \A i \in 1 .. Len(a) + Len(b) :
           (a \o b)[i] = IF i <= Len(a) THEN a[i] ELSE b[i - Len(a)]
  BY <1>1, Concatenated, Zenon
<1>3. ASSUME NEW i \in 1 .. Len(a) + Len(b)
      PROVE  SzxGood((a \o b)[i], s)
  <2>1. CASE i <= Len(a)
    <3>1. i \in 1 .. Len(a) /\ (a \o b)[i] = a[i]
      BY <1>1, <1>2, <2>1
    <3>2. QED  BY <3>1, Zenon DEF Piece
  <2>2. CASE ~(i <= Len(a))
    <3>1. i - Len(a) \in 1 .. Len(b) /\ (a \o b)[i] = b[i - Len(a)]
      BY <1>1, <1>2, <2>2
    <3>2. QED  BY <3>1, Zenon DEF Piece
  <2>3. QED  BY <2>1, <2>2
<1>4. QED  BY <1>2, <1>3, Zenon DEF Piece

LEMMA ManyPieces ==
  ASSUME NEW s, NEW ss, IsSequence(ss), \A i \in 1 .. Len(ss) : Piece(ss[i], s)
  PROVE  Piece(FlattenSeq(ss), s)
<1> DEFINE q == FlattenSeq(ss)
<1>1. \A i \in 1 .. Len(ss) : IsSequence(ss[i])
  BY Zenon DEF Piece
<1>2. /\ IsSequence(q)
      /\ \A x \in 1 .. Len(q) :
           \E i \in 1 .. Len(ss) : \E j \in 1 .. Len(ss[i]) : q[x] = ss[i][j]
  BY <1>1, FlattenedMembers, Zenon
<1> HIDE DEF q
<1>3. \A x \in 1 .. Len(q) : SzxGood(q[x], s)
  BY <1>2, Zenon DEF Piece
<1>4. QED  BY <1>2, <1>3, Zenon DEF Piece, q

(* The pieces of a list of choices.                                         *)
LEMMA ChosenPieces ==
  ASSUME NEW s, NEW n \in Nat, NEW ss, DOMAIN ss = 1 .. n, ss = [i \in 1 .. n |-> ss[i]],
         \A i \in 1 .. n : Piece(ss[i], s)
  PROVE  Piece(FlattenSeq(ss), s)
<1>1. IsSequence(ss) /\ Len(ss) = n
  BY ListedSequence
<1>2. QED  BY <1>1, ManyPieces, Zenon

(* The chunks of devices.                                                   *)
LEMMA DevicePiece ==
  ASSUME NEW s, NEW id \in SzxDevices, NEW stored, NEW d, DeviceOf(id) = d,
         Active(s, d) => IsDevice(stored)
  PROVE  Piece(DeviceChunk(s, d, id, stored), s)
<1> DEFINE c == Chunk(id, stored)
<1>1. ASSUME Active(s, d)
      PROVE  Piece(<<c>>, s)
  <2>1. c.id = id /\ c.body = stored
    BY Zenon DEF Chunk
  <2> HIDE DEF c
  <2>2. id \in SzxDevices => id \notin SzxMemoryPages \union
              { "ZXST", "Z80R", "JOY", "KEYB", "ROM", "RAMP", "AY", "IF1", "SNEF", "SNER" }
    BY DEF SzxDevices, SzxMemoryPages
  <2>3. IsSzxChunk(c)
    BY <1>1, <2>1, <2>2 DEF IsSzxChunk
  <2>4. SzxHonest(c, s)
    BY <1>1, <2>1, <2>2 DEF SzxHonest
  <2>5. QED  BY <2>3, <2>4, OnePiece, Zenon DEF SzxGood
<1> HIDE DEF c
<1>2. Piece(When(Active(s, d), <<c>>), s)
  BY <1>1, WhenPiece, Zenon
<1>3. QED  BY <1>2, Zenon DEF DeviceChunk, c

(* The pages of cards and of the dock.                                      *)
LEMMA MemoryPiece ==
  ASSUME NEW s, NEW id \in SzxMemoryPages, Active(s, DeviceOf(id)),
         NEW p \in Nat, p < PageLimit(id)
  PROVE  Piece(<<Chunk(id, p)>>, s)
<1> DEFINE c == Chunk(id, p)
<1>1. c.id = id /\ c.body = p
  BY Zenon DEF Chunk
<1> HIDE DEF c
<1>2. id \notin SzxDevices \union
         { "ZXST", "Z80R", "JOY", "KEYB", "ROM", "RAMP", "AY", "IF1", "SNEF", "SNER" }
  BY DEF SzxDevices, SzxMemoryPages
<1>3. IsSzxChunk(c)
  BY <1>1, <1>2 DEF IsSzxChunk
<1>4. SzxHonest(c, s)
  BY <1>1, <1>2 DEF SzxHonest
<1>5. Piece(<<c>>, s)
  BY <1>3, <1>4, OnePiece, Zenon DEF SzxGood
<1>6. QED  BY <1>5, Zenon DEF c

(* A card: its registers, then its pages.                                   *)
LEMMA CardPiece ==
  ASSUME NEW s, Usable(s), NEW d \in Cards, NEW id \in SzxDevices,
         NEW pageId \in SzxMemoryPages, DeviceOf(id) = d, DeviceOf(pageId) = d,
         pageId # "DOCK"
  PROVE  Piece(Card(s, d, id, pageId), s)
<1> DEFINE k == Device(s, d)
           page(i) == When(i - 1 \in k.ram, <<Chunk(pageId, i - 1)>>)
           pages == FlattenSeq([i \in 1 .. k.count |-> page(i)])
           registers == <<Chunk(id, Registers(k))>>
<1>1. d \in Devices
  BY DEF Cards, CardSize, Devices
<1>2. IsDevice(k) /\ k.ram \subseteq 0 .. CardSize[d] - 1
  BY <1>1, Zenon DEF Usable, CardsFit
<1>3. CardSize[d] \in Nat /\ PageLimit(pageId) = CardSize[d]
  BY DEF PageLimit, Cards, CardSize, SNAPSHOT_ZXATASP_PAGES, SNAPSHOT_ZXCF_PAGES,
         SNAPSHOT_DIVIDE_PAGES, SNAPSHOT_DIVMMC_PAGES
<1>4. ASSUME Active(s, d)
      PROVE  Piece(registers \o pages, s)
  <2>1. Piece(registers, s)
    <3>1. IsDevice(Registers(k))
      <4> HIDE DEF k
      <4>1. QED  BY <1>2 DEF Registers, IsDevice
    <3>2. Piece(DeviceChunk(s, d, id, Registers(k)), s)
      BY <3>1, DevicePiece, Zenon
    <3>3. DeviceChunk(s, d, id, Registers(k)) = registers
      BY <1>4, Zenon DEF DeviceChunk, When
    <3>4. QED  BY <3>2, <3>3, Zenon
  <2>2. ASSUME NEW i \in 1 .. k.count
        PROVE  Piece(page(i), s)
    <3> DEFINE p == i - 1
    <3>1. ASSUME p \in k.ram
          PROVE  Piece(<<Chunk(pageId, p)>>, s)
      <4> HIDE DEF k, p
      <4>1. p \in Nat /\ p < PageLimit(pageId)
        BY <1>2, <1>3, <3>1
      <4>2. QED  BY <1>4, <4>1, MemoryPiece, Zenon
    <3> HIDE DEF p, k
    <3>2. Piece(When(p \in k.ram, <<Chunk(pageId, p)>>), s)
      BY <3>1, WhenPiece, Zenon
    <3>3. QED  BY <3>2, Zenon DEF p, k
  <2>3. Piece(pages, s)
    <3> DEFINE n == k.count
               ss == [i \in 1 .. n |-> page(i)]
    <3>1. n \in Nat
      BY <1>2 DEF IsDevice
    <3> HIDE DEF page, n
    <3>2. DOMAIN ss = 1 .. n /\ ss = [i \in 1 .. n |-> ss[i]] /\ \A i \in 1 .. n : ss[i] = page(i)
      OBVIOUS
    <3>3. \A i \in 1 .. n : Piece(page(i), s)
      BY <2>2 DEF n
    <3> HIDE DEF ss
    <3>4. Piece(FlattenSeq(ss), s)
      BY <3>1, <3>2, <3>3, ChosenPieces
    <3>5. QED  BY <3>4, Zenon DEF ss, n
  <2>4. QED  BY <2>1, <2>3, TwoPieces, Zenon
<1>5. Card(s, d, id, pageId) = When(Active(s, d), registers \o pages)
  BY Zenon DEF Card, CardPages
<1> DEFINE all == registers \o pages
<1>6. (Active(s, d) => Piece(all, s)) /\ Card(s, d, id, pageId) = When(Active(s, d), all)
  BY <1>4, <1>5, Zenon
<1> HIDE DEF all
<1>7. Piece(When(Active(s, d), all), s)
  BY <1>6, WhenPiece
<1>8. QED  BY <1>6, <1>7, Zenon

(* The joystick at a connection is one of the list, if there is one.        *)
LEMMA JoystickWritten ==
  ASSUME NEW s, Usable(s), NEW input
  PROVE  /\ write_joystick(s, input) \in SzxJoysticks
         /\ {write_joystick(s, input)} \ {"NONE"} \subseteq Types(s)
<1> DEFINE J == s.joysticks
           n == Len(J)
           ss == [i \in DOMAIN s.joysticks |->
                    When(input \in s.joysticks[i].inputs, <<s.joysticks[i]>>)]
           q == FlattenSeq(ss)
<1>1. J \in Seq(JoystickEntries) /\ n \in Nat /\ DOMAIN J = 1 .. n
  BY DEF Usable
<1>2. IsSequence(ss) /\ Len(ss) = n
  BY <1>1, ListedSequence
<1>3. ASSUME NEW i \in 1 .. n
      PROVE  IsSequence(ss[i]) /\ \A x \in 1 .. Len(ss[i]) : ss[i][x] = J[i]
  <2> DEFINE e == J[i]
  <2>1. ss[i] = When(input \in e.inputs, <<e>>)
    BY <1>1
  <2> HIDE DEF ss, e
  <2>2. ss[i] = <<>> \/ ss[i] = <<e>>
    BY <2>1 DEF When
  <2>3. <<>> \in Seq({e}) /\ <<e>> \in Seq({e})
    OBVIOUS
  <2>4. ss[i] \in Seq({e})
    BY <2>2, <2>3
  <2>5. IsSequence(ss[i]) /\ \A x \in 1 .. Len(ss[i]) : ss[i][x] \in {e}
    BY <2>4, SequenceOver, Zenon
  <2>6. QED  BY <2>5, Zenon DEF e
<1>4. /\ IsSequence(q)
      /\ \A x \in 1 .. Len(q) :
           \E i \in 1 .. Len(ss) : \E j \in 1 .. Len(ss[i]) : q[x] = ss[i][j]
  <2>1. \A i \in 1 .. Len(ss) : IsSequence(ss[i])
    BY <1>2, <1>3, Zenon
  <2> HIDE DEF ss
  <2>2. QED  BY <1>2, <2>1, FlattenedMembers, Zenon
<1>5. ConnectedAt(s, input) = q
  BY Zenon DEF ConnectedAt
<1> HIDE DEF q
<1>6. CASE q = <<>>
  <2>1. write_joystick(s, input) = "NONE"
    BY <1>5, <1>6, Zenon DEF write_joystick
  <2>2. QED  BY <2>1 DEF SzxJoysticks
<1>7. CASE q # <<>>
  <2>1. write_joystick(s, input) = q[1].type
    BY <1>5, <1>7, Zenon DEF write_joystick
  <2>2. 1 \in 1 .. Len(q)
    BY <1>4, <1>7, TailSequence
  <2>3. PICK i \in 1 .. n : q[1] = J[i]
    <3> HIDE DEF ss, J
    <3>1. PICK i \in 1 .. Len(ss) : \E j \in 1 .. Len(ss[i]) : q[1] = ss[i][j]
      BY <1>4, <2>2, Zenon
    <3>2. i \in 1 .. n
      BY <1>2, Zenon
    <3>3. q[1] = J[i]
      BY <1>3, <3>1, <3>2, Zenon
    <3>4. QED  BY <3>2, <3>3, Zenon
  <2>4. J[i] \in JoystickEntries /\ i \in DOMAIN J
    BY <1>1
  <2>5. J[i].type \in SzxJoysticks
    BY <2>4 DEF JoystickEntries, SzxJoysticks
  <2>6. J[i].type \in Types(s)
    BY <2>4, Zenon DEF Types
  <2>7. QED  BY <2>1, <2>3, <2>5, <2>6
<1>8. QED  BY <1>6, <1>7

\* The chunks the conditions of SzxGood are not about.
LEMMA PlainGood ==
  ASSUME NEW s, NEW id \in { "SPCR", "SCLD" }, NEW body
  PROVE  Piece(<<Chunk(id, body)>>, s)
<1> DEFINE c == Chunk(id, body)
<1>1. c.id = id
  BY Zenon DEF Chunk
<1> HIDE DEF c
<1>2. IsSzxChunk(c)
  BY <1>1 DEF IsSzxChunk, SzxMemoryPages, SzxDevices
<1>3. SzxHonest(c, s)
  BY <1>1 DEF SzxHonest, SzxMemoryPages, SzxDevices, DeviceChunks
<1>4. Piece(<<c>>, s)
  BY <1>2, <1>3, OnePiece, Zenon DEF SzxGood
<1>5. QED  BY <1>4, Zenon DEF c

LEMMA MachinePieces ==
  ASSUME NEW s, Usable(s), s.machine \in Machines
  PROVE  /\ Piece(write_file_header(s), s) /\ Piece(write_z80r_chunk(s), s)
         /\ Piece(write_spcr_chunk(s), s) /\ Piece(write_scld_chunk(s), s)
<1>1. Piece(write_file_header(s), s)
  <2> DEFINE c == Chunk("ZXST", [machine |-> s.machine, late |-> s.late])
  <2>1. c.id = "ZXST" /\ c.body.machine = s.machine
    BY DEF Chunk
  <2>2. write_file_header(s) = <<c>>
    BY Zenon DEF write_file_header
  <2> HIDE DEF c
  <2>3. IsSzxChunk(c)
    BY <2>1 DEF IsSzxChunk, SzxMemoryPages, SzxDevices
  <2>4. SzxHonest(c, s)
    BY <2>1 DEF SzxHonest, SzxMemoryPages, SzxDevices, DeviceChunks
  <2>5. QED  BY <2>2, <2>3, <2>4, OnePiece, Zenon DEF SzxGood
<1>2. Piece(write_z80r_chunk(s), s)
  <2> DEFINE body == [regs |-> s.regs, sp |-> s.sp, iff1 |-> s.iff1,
                      iff2 |-> s.iff2, tstates |-> s.tstates,
                      latch |-> s.latch, memptr |-> s.memptr]
             c == Chunk("Z80R", body)
  <2>1. body.sp \in Addresses
    BY DEF Usable
  <2> HIDE DEF body
  <2>2. c.id = "Z80R" /\ c.body = body
    BY DEF Chunk
  <2>3. write_z80r_chunk(s) = <<c>>
    BY Zenon DEF write_z80r_chunk, body
  <2> HIDE DEF c
  <2>4. IsSzxChunk(c)
    BY <2>1, <2>2 DEF IsSzxChunk, SzxMemoryPages, SzxDevices
  <2>5. SzxHonest(c, s)
    BY <2>2 DEF SzxHonest, SzxMemoryPages, SzxDevices, DeviceChunks
  <2>6. QED  BY <2>3, <2>4, <2>5, OnePiece, Zenon DEF SzxGood
<1>3. Piece(write_spcr_chunk(s), s)
  BY PlainGood DEF write_spcr_chunk
<1>4. Piece(write_scld_chunk(s), s)
  <2> DEFINE q == <<Chunk("SCLD", [hsr |-> s.scld_hsr, dec |-> s.scld_dec])>>
  <2>1. Piece(q, s)
    BY PlainGood
  <2> HIDE DEF q
  <2>2. Piece(When(HasScld(s.machine), q), s)
    BY <2>1, WhenPiece
  <2>3. QED  BY <2>2, Zenon DEF write_scld_chunk, q
<1>5. QED  BY <1>1, <1>2, <1>3, <1>4

LEMMA JoystickPieces ==
  ASSUME NEW s, Usable(s)
  PROVE  Piece(write_joy_chunk(s), s) /\ Piece(write_keyb_chunk(s), s)
<1> DEFINE one == write_joystick(s, "JOYSTICK_1")
           two == write_joystick(s, "JOYSTICK_2")
           key == write_joystick(s, "KEYBOARD")
<1>1. /\ {one, two, key} \subseteq SzxJoysticks
      /\ {one} \ {"NONE"} \subseteq Types(s) /\ {two} \ {"NONE"} \subseteq Types(s)
      /\ {key} \ {"NONE"} \subseteq Types(s)
  BY JoystickWritten
<1> HIDE DEF one, two, key
<1>2. Piece(write_joy_chunk(s), s)
  <2> DEFINE port == \E i \in DOMAIN s.joysticks : s.joysticks[i].type = "KEMPSTON"
             body == [port31 |-> port, one |-> one, two |-> two]
             c == Chunk("JOY", body)
  <2>1. port => "KEMPSTON" \in Types(s)
    BY Zenon DEF Types
  <2> HIDE DEF port
  <2>2. c.id = "JOY" /\ c.body.port31 = port /\ c.body.one = one /\ c.body.two = two
    BY Zenon DEF Chunk
  <2>3. write_joy_chunk(s) = <<c>>
    BY Zenon DEF write_joy_chunk, port, one, two
  <2> HIDE DEF c
  <2>4. IsSzxChunk(c)
    BY <1>1, <2>2 DEF IsSzxChunk, SzxMemoryPages, SzxDevices
  <2>5. Named(c) \subseteq Types(s)
    <3>1. Named(c) = (IF port THEN {"KEMPSTON"} ELSE {}) \union ({one} \ {"NONE"})
                       \union ({two} \ {"NONE"})
      BY <2>2, Zenon DEF Named
    <3>2. QED  BY <1>1, <2>1, <3>1
  <2>6. SzxHonest(c, s)
    BY <2>2, <2>5 DEF SzxHonest, SzxMemoryPages, SzxDevices, DeviceChunks
  <2>7. QED  BY <2>3, <2>4, <2>6, OnePiece, Zenon DEF SzxGood
<1>3. Piece(write_keyb_chunk(s), s)
  <2> DEFINE c == Chunk("KEYB", [issue2 |-> s.issue2, type |-> key])
  <2>1. c.id = "KEYB" /\ c.body.type = key
    BY Zenon DEF Chunk
  <2>2. write_keyb_chunk(s) = <<c>>
    BY Zenon DEF write_keyb_chunk, key
  <2> HIDE DEF c
  <2>3. IsSzxChunk(c)
    BY <1>1, <2>1 DEF IsSzxChunk, SzxMemoryPages, SzxDevices
  <2>4. Named(c) \subseteq Types(s)
    BY <1>1, <2>1 DEF Named
  <2>5. SzxHonest(c, s)
    BY <2>1, <2>4 DEF SzxHonest, SzxMemoryPages, SzxDevices, DeviceChunks
  <2>6. QED  BY <2>2, <2>3, <2>5, OnePiece, Zenon DEF SzxGood
<1>4. QED  BY <1>2, <1>3

LEMMA RomPiece ==
  ASSUME NEW s, s.machine \in Machines
  PROVE  Piece(write_rom_chunk(s), s)
<1> DEFINE total == Total(s.roms)
           c == Chunk("ROM", [length |-> total])
           g == s.custom_rom /\ RomsFit(s)
<1>1. ASSUME g
      PROVE  Piece(<<c>>, s)
  <2>1. total = RomsWritten(s.machine)[2]
    <3> HIDE DEF total
    <3>1. <<Len(s.roms), total>> = RomsWritten(s.machine)
      BY <1>1, Zenon DEF RomsFit, total
    <3>2. <<Len(s.roms), total>>[2] = total
      OBVIOUS
    <3>3. QED  BY <3>1, <3>2, Zenon
  <2>2. RomsWritten(s.machine)[2] \in Nat
    BY DEF RomsWritten, Machines
  <2> HIDE DEF total
  <2>3. c.id = "ROM" /\ c.body.length = total
    BY Zenon DEF Chunk
  <2> HIDE DEF c
  <2>4. IsSzxChunk(c)
    BY <2>1, <2>2, <2>3 DEF IsSzxChunk, SzxMemoryPages, SzxDevices
  <2>5. SzxHonest(c, s)
    BY <1>1, <2>1, <2>3 DEF SzxHonest, SzxMemoryPages, SzxDevices, DeviceChunks
  <2>6. QED  BY <2>4, <2>5, OnePiece, Zenon DEF SzxGood
<1>2. write_rom_chunk(s) = When(g, <<c>>)
  BY Zenon DEF write_rom_chunk
<1> HIDE DEF g, c
<1>3. Piece(When(g, <<c>>), s)
  BY <1>1, WhenPiece, Zenon
<1>4. QED  BY <1>2, <1>3, Zenon

(* The pages of RAM, in the order they are written in.                      *)
LEMMA OrderedPages ==
  ASSUME NEW m
  PROVE  PagesInOrder(m) \in Seq(0 .. 63)
<1> DEFINE S == 0 .. 63
           a == When(m # "16", <<2, 0>>)
           b == When(m \in MEMORY_128, <<1, 3, 4, 6, 7>>)
           c == When(m \in SCORP_MEMORY, Consecutive(8, 15))
           d == When(m \in PENT512_MEMORY, Consecutive(8, 31))
           e == When(m \in PENT1024_MEMORY, Consecutive(32, 63))
           g == When(m \in SE_MEMORY, <<8>>)
<1>1. <<>> \in Seq(S) /\ <<5>> \in Seq(S) /\ <<2, 0>> \in Seq(S) /\ <<8>> \in Seq(S)
      /\ <<1, 3, 4, 6, 7>> \in Seq(S)
  OBVIOUS
<1>2. /\ Consecutive(8, 15) \in Seq(S) /\ Consecutive(8, 31) \in Seq(S)
      /\ Consecutive(32, 63) \in Seq(S)
  BY DEF Consecutive
<1>3. /\ a \in Seq(S) /\ b \in Seq(S) /\ c \in Seq(S) /\ d \in Seq(S)
      /\ e \in Seq(S) /\ g \in Seq(S)
  <2> HIDE DEF S
  <2>1. QED  BY <1>1, <1>2, Zenon DEF When
<1>4. PagesInOrder(m) = <<5>> \o a \o b \o c \o d \o e \o g
  BY Zenon DEF PagesInOrder
<1> HIDE DEF S, a, b, c, d, e, g
<1>5. (((((<<5>> \o a) \o b) \o c) \o d) \o e) \o g \in Seq(S)
  BY <1>1, <1>3
<1>6. QED  BY <1>4, <1>5 DEF S

LEMMA RamPiece ==
  ASSUME NEW s
  PROVE  Piece(write_ram_pages(s), s)
<1> DEFINE order == PagesInOrder(s.machine)
           n == Len(order)
           ss == [i \in DOMAIN order |-> write_ramp_chunk(s, order[i])]
<1>1. /\ n \in Nat /\ DOMAIN order = 1 .. n
      /\ \A i \in 1 .. n : order[i] \in 0 .. 63
  <2> DEFINE S == 0 .. 63
  <2>1. order \in Seq(S)
    BY OrderedPages, Zenon
  <2> HIDE DEF order, S
  <2>2. /\ Len(order) \in Nat /\ DOMAIN order = 1 .. Len(order)
        /\ \A i \in 1 .. Len(order) : order[i] \in S
    BY <2>1
  <2>3. QED  BY <2>2, Zenon DEF S
<1> HIDE DEF order, n
<1>2. ASSUME NEW p \in 0 .. 63
      PROVE  Piece(write_ramp_chunk(s, p), s)
  <2> DEFINE data == libspectrum_snap_pages(s, p)
             c == Chunk("RAMP", [page |-> p, data |-> data])
  <2>1. ASSUME HasPage(s, p)
        PROVE  Piece(<<c>>, s)
    <3>1. p \in Nat
      OBVIOUS
    <3>2. c.id = "RAMP" /\ c.body.page = p /\ c.body.data = data
      BY Zenon DEF Chunk
    <3> HIDE DEF c
    <3>3. IsSzxChunk(c)
      BY <3>1, <3>2 DEF IsSzxChunk, SzxMemoryPages, SzxDevices
    <3>4. SzxHonest(c, s)
      <4>1. /\ c.body.page \in 0 .. 63 /\ HasPage(s, c.body.page)
            /\ c.body.data = libspectrum_snap_pages(s, c.body.page)
        BY <2>1, <3>2, Zenon
      <4>2. QED  BY <3>2, <4>1 DEF SzxHonest, SzxMemoryPages, SzxDevices, DeviceChunks
    <3>5. QED  BY <3>3, <3>4, OnePiece, Zenon DEF SzxGood
  <2> HIDE DEF c
  <2>2. Piece(When(HasPage(s, p), <<c>>), s)
    BY <2>1, WhenPiece, Zenon
  <2>3. QED  BY <2>2, Zenon DEF write_ramp_chunk, c
<1>3. /\ DOMAIN ss = 1 .. n /\ ss = [i \in 1 .. n |-> ss[i]]
      /\ \A i \in 1 .. n : ss[i] = write_ramp_chunk(s, order[i])
  BY <1>1
<1> HIDE DEF ss
<1>4. \A i \in 1 .. n : Piece(ss[i], s)
  BY <1>1, <1>2, <1>3, Zenon
<1>5. Piece(FlattenSeq(ss), s)
  BY <1>1, <1>3, <1>4, ChosenPieces, Zenon
<1>6. QED  BY <1>5, Zenon DEF write_ram_pages, ss, order

LEMMA AyPiece ==
  ASSUME NEW s, Usable(s)
  PROVE  Piece(write_ay_chunk(s), s)
<1> DEFINE fuller == Active(s, "fuller")
           melodik == Active(s, "melodik")
           c == Chunk("AY", [fuller |-> fuller, melodik |-> melodik, ay |-> s.ay])
<1>1. fuller \in BOOLEAN /\ melodik \in BOOLEAN
  <2>1. "fuller" \in Devices /\ "melodik" \in Devices
    BY DEF Devices
  <2>2. IsDevice(Device(s, "fuller")) /\ IsDevice(Device(s, "melodik"))
    BY <2>1, Zenon DEF Usable
  <2>3. QED  BY <2>2 DEF Active, IsDevice
<1> HIDE DEF fuller, melodik
<1>2. c.id = "AY" /\ c.body.fuller = fuller /\ c.body.melodik = melodik
  BY Zenon DEF Chunk
<1> HIDE DEF c
<1>3. IsSzxChunk(c)
  <2>1. {c.body.fuller, c.body.melodik} \subseteq BOOLEAN
    BY <1>1, <1>2, Zenon
  <2>2. QED  BY <1>2, <2>1 DEF IsSzxChunk, SzxMemoryPages, SzxDevices
<1>4. SzxHonest(c, s)
  <2>1. (c.body.fuller => Active(s, "fuller")) /\ (c.body.melodik => Active(s, "melodik"))
    BY <1>2, Zenon DEF fuller, melodik
  <2>2. QED  BY <1>2, <2>1 DEF SzxHonest, SzxMemoryPages, SzxDevices, DeviceChunks
<1>5. Piece(<<c>>, s)
  BY <1>3, <1>4, OnePiece, Zenon DEF SzxGood
<1>6. Piece(When(HasAy(s), <<c>>), s)
  BY <1>5, WhenPiece, Zenon
<1>7. QED  BY <1>6, Zenon DEF write_ay_chunk, c, fuller, melodik

(* The devices one chunk describes whole.                                   *)
LEMMA WholePieces ==
  ASSUME NEW s, Usable(s)
  PROVE  /\ Piece(write_b128_chunk(s), s) /\ Piece(write_if2r_chunk(s), s)
         /\ Piece(write_amxm_chunk(s), s) /\ Piece(write_side_chunk(s), s)
         /\ Piece(write_drum_chunk(s), s) /\ Piece(write_covx_chunk(s), s)
         /\ Piece(write_pltt_chunk(s), s) /\ Piece(write_zmmc_chunk(s), s)
         /\ Piece(write_opus_chunk(s), s) /\ Piece(write_plsd_chunk(s), s)
         /\ Piece(write_mfce_chunk(s), s)
<1>0. \A d \in Devices : IsDevice(Device(s, d))
  BY Zenon DEF Usable
<1>1. Piece(write_b128_chunk(s), s)
  <2> DEFINE k == Device(s, "beta")
             image == IF k.custom THEN 16 ELSE 0
             stored == [k EXCEPT !.image = image]
  <2>1. IsDevice(k)
    BY <1>0 DEF Devices
  <2> HIDE DEF k
  <2>2. IsDevice(stored)
    BY <2>1 DEF IsDevice
  <2> HIDE DEF stored
  <2>3. "B128" \in SzxDevices /\ DeviceOf("B128") = "beta"
    BY DEF SzxDevices, DeviceOf
  <2>4. Piece(DeviceChunk(s, "beta", "B128", stored), s)
    BY <2>2, <2>3, DevicePiece, Zenon
  <2>5. QED  BY <2>4, Zenon DEF write_b128_chunk, stored, k
<1>2. Piece(write_if2r_chunk(s), s)
  <2>1. IsDevice(Device(s, "if2")) /\ "IF2R" \in SzxDevices /\ DeviceOf("IF2R") = "if2"
    BY <1>0 DEF Devices, SzxDevices, DeviceOf
  <2>2. QED  BY <2>1, DevicePiece, Zenon DEF write_if2r_chunk
<1>3. Piece(write_amxm_chunk(s), s)
  <2>1. IsDevice(Device(s, "mouse")) /\ "AMXM" \in SzxDevices /\ DeviceOf("AMXM") = "mouse"
    BY <1>0 DEF Devices, SzxDevices, DeviceOf
  <2>2. QED  BY <2>1, DevicePiece, Zenon DEF write_amxm_chunk
<1>4. Piece(write_side_chunk(s), s)
  <2>1. IsDevice(Device(s, "simpleide")) /\ "SIDE" \in SzxDevices
        /\ DeviceOf("SIDE") = "simpleide"
    BY <1>0 DEF Devices, SzxDevices, DeviceOf
  <2>2. QED  BY <2>1, DevicePiece, Zenon DEF write_side_chunk
<1>5. Piece(write_drum_chunk(s), s)
  <2>1. IsDevice(Device(s, "specdrum")) /\ "DRUM" \in SzxDevices
        /\ DeviceOf("DRUM") = "specdrum"
    BY <1>0 DEF Devices, SzxDevices, DeviceOf
  <2>2. QED  BY <2>1, DevicePiece, Zenon DEF write_drum_chunk
<1>6. Piece(write_covx_chunk(s), s)
  <2>1. IsDevice(Device(s, "covox")) /\ "COVX" \in SzxDevices /\ DeviceOf("COVX") = "covox"
    BY <1>0 DEF Devices, SzxDevices, DeviceOf
  <2>2. QED  BY <2>1, DevicePiece, Zenon DEF write_covx_chunk
<1>7. Piece(write_pltt_chunk(s), s)
  <2>1. IsDevice(Device(s, "ulaplus")) /\ "PLTT" \in SzxDevices
        /\ DeviceOf("PLTT") = "ulaplus"
    BY <1>0 DEF Devices, SzxDevices, DeviceOf
  <2>2. QED  BY <2>1, DevicePiece, Zenon DEF write_pltt_chunk
<1>8. Piece(write_zmmc_chunk(s), s)
  <2>1. IsDevice(Device(s, "zxmmc")) /\ "ZMMC" \in SzxDevices /\ DeviceOf("ZMMC") = "zxmmc"
    BY <1>0 DEF Devices, SzxDevices, DeviceOf
  <2>2. QED  BY <2>1, DevicePiece, Zenon DEF write_zmmc_chunk
<1>9. \A k : IsDevice(k) => IsDevice(StoredMgt(k))
  BY DEF StoredMgt, IsDevice
<1>10. Piece(write_opus_chunk(s), s)
  <2>1. IsDevice(Device(s, "opus")) /\ "OPUS" \in SzxDevices /\ DeviceOf("OPUS") = "opus"
    BY <1>0 DEF Devices, SzxDevices, DeviceOf
  <2>2. QED  BY <1>9, <2>1, DevicePiece, Zenon DEF write_opus_chunk
<1>11. Piece(write_plsd_chunk(s), s)
  <2>1. IsDevice(Device(s, "plusd")) /\ "PLSD" \in SzxDevices /\ DeviceOf("PLSD") = "plusd"
    BY <1>0 DEF Devices, SzxDevices, DeviceOf
  <2>2. QED  BY <1>9, <2>1, DevicePiece, Zenon DEF write_plsd_chunk
<1>12. Piece(write_mfce_chunk(s), s)
  <2> DEFINE k == Device(s, "multiface")
             regs == IF k.regs = 1 THEN 1 ELSE 128
             stored == [k EXCEPT !.regs = regs]
  <2>1. IsDevice(k)
    BY <1>0 DEF Devices
  <2> HIDE DEF k
  <2>2. IsDevice(stored)
    BY <2>1 DEF IsDevice
  <2> HIDE DEF stored
  <2>3. "MFCE" \in SzxDevices /\ DeviceOf("MFCE") = "multiface"
    BY DEF SzxDevices, DeviceOf
  <2>4. Piece(DeviceChunk(s, "multiface", "MFCE", stored), s)
    BY <2>2, <2>3, DevicePiece, Zenon
  <2>5. QED  BY <2>4, Zenon DEF write_mfce_chunk, stored, k
<1>13. QED  BY <1>1, <1>2, <1>3, <1>4, <1>5, <1>6, <1>7, <1>8, <1>10, <1>11, <1>12

LEMMA CardPieces ==
  ASSUME NEW s, Usable(s)
  PROVE  /\ Piece(write_zxat_chunk(s), s) /\ Piece(write_zxcf_chunk(s), s)
         /\ Piece(write_dide_chunk(s), s) /\ Piece(write_dmmc_chunk(s), s)
<1>1. Piece(write_zxat_chunk(s), s)
  <2>1. /\ "zxatasp" \in Cards /\ "ZXAT" \in SzxDevices /\ "ATRP" \in SzxMemoryPages
        /\ DeviceOf("ZXAT") = "zxatasp" /\ DeviceOf("ATRP") = "zxatasp" /\ "ATRP" # "DOCK"
    BY DEF Cards, CardSize, SzxDevices, SzxMemoryPages, DeviceOf
  <2>2. QED  BY <2>1, CardPiece, Zenon DEF write_zxat_chunk
<1>2. Piece(write_zxcf_chunk(s), s)
  <2>1. /\ "zxcf" \in Cards /\ "ZXCF" \in SzxDevices /\ "CFRP" \in SzxMemoryPages
        /\ DeviceOf("ZXCF") = "zxcf" /\ DeviceOf("CFRP") = "zxcf" /\ "CFRP" # "DOCK"
    BY DEF Cards, CardSize, SzxDevices, SzxMemoryPages, DeviceOf
  <2>2. QED  BY <2>1, CardPiece, Zenon DEF write_zxcf_chunk
<1>3. Piece(write_dide_chunk(s), s)
  <2>1. /\ "divide" \in Cards /\ "DIDE" \in SzxDevices /\ "DIRP" \in SzxMemoryPages
        /\ DeviceOf("DIDE") = "divide" /\ DeviceOf("DIRP") = "divide" /\ "DIRP" # "DOCK"
    BY DEF Cards, CardSize, SzxDevices, SzxMemoryPages, DeviceOf
  <2>2. QED  BY <2>1, CardPiece, Zenon DEF write_dide_chunk
<1>4. Piece(write_dmmc_chunk(s), s)
  <2>1. /\ "divmmc" \in Cards /\ "DMMC" \in SzxDevices /\ "DMRP" \in SzxMemoryPages
        /\ DeviceOf("DMMC") = "divmmc" /\ DeviceOf("DMRP") = "divmmc" /\ "DMRP" # "DOCK"
    BY DEF Cards, CardSize, SzxDevices, SzxMemoryPages, DeviceOf
  <2>2. QED  BY <2>1, CardPiece, Zenon DEF write_dmmc_chunk
<1>5. QED  BY <1>1, <1>2, <1>3, <1>4

LEMMA If1Piece ==
  ASSUME NEW s, Usable(s), NEW compress \in BOOLEAN
  PROVE  Piece(write_if1_chunk(s, compress), s)
<1> DEFINE k == Device(s, "if1")
           drives == IF k.regs = 0 THEN 8 ELSE k.regs
           length == IF k.custom THEN k.image ELSE 0
           body == [paged |-> k.paged, drives |-> drives, length |-> length,
                    packed |-> compress]
           c == Chunk("IF1", body)
<1>1. IsDevice(k)
  BY DEF Usable, Devices
<1> HIDE DEF k
<1>2. drives \in Nat /\ length \in Nat /\ k.paged \in BOOLEAN
  BY <1>1 DEF IsDevice
<1> HIDE DEF drives, length
<1>3. {body.paged, body.packed} \subseteq BOOLEAN /\ {body.drives, body.length} \subseteq Nat
  BY <1>2
<1> HIDE DEF body
<1>4. c.id = "IF1" /\ c.body = body
  BY Zenon DEF Chunk
<1> HIDE DEF c
<1>5. ASSUME Active(s, "if1")
      PROVE  Piece(<<c>>, s)
  <2>1. IsSzxChunk(c)
    BY <1>3, <1>4 DEF IsSzxChunk, SzxMemoryPages, SzxDevices
  <2>2. DeviceOf(c.id) = "if1"
    BY <1>4 DEF DeviceOf
  <2>3. SzxHonest(c, s)
    BY <1>4, <1>5, <2>2 DEF SzxHonest, SzxMemoryPages, SzxDevices
  <2>4. QED  BY <2>1, <2>3, OnePiece, Zenon DEF SzxGood
<1>6. Piece(When(Active(s, "if1"), <<c>>), s)
  BY <1>5, WhenPiece, Zenon
<1>7. QED  BY <1>6, Zenon DEF write_if1_chunk, DeviceChunk, c, body, drives, length, k

LEMMA PrinterPiece ==
  ASSUME NEW s, Usable(s)
  PROVE  Piece(write_zxpr_chunk(s), s)
<1> DEFINE k == Device(s, "zxprinter")
           c == Chunk("ZXPR", k)
<1>1. IsDevice(k)
  BY DEF Usable, Devices
<1> HIDE DEF k
<1>2. c.id = "ZXPR" /\ c.body = k
  BY Zenon DEF Chunk
<1> HIDE DEF c
<1>3. IsSzxChunk(c)
  BY <1>1, <1>2 DEF IsSzxChunk, SzxMemoryPages, SzxDevices
<1>4. SzxHonest(c, s)
  <2>1. c.body = Device(s, "zxprinter")
    BY <1>2, Zenon DEF k
  <2>2. QED  BY <1>2, <2>1 DEF SzxHonest, SzxMemoryPages
<1>5. Piece(<<c>>, s)
  BY <1>3, <1>4, OnePiece, Zenon DEF SzxGood
<1>6. QED  BY <1>5, Zenon DEF write_zxpr_chunk, c, k

LEMMA DockPiece ==
  ASSUME NEW s
  PROVE  Piece(write_dock_chunks(s), s)
<1> DEFINE k == Device(s, "dock")
           page(i) == When(i - 1 \in k.ram, <<Chunk("DOCK", i - 1)>>)
           ss == [i \in 1 .. DOCK_PAGES |-> page(i)]
<1>1. "DOCK" \in SzxMemoryPages /\ DeviceOf("DOCK") = "dock" /\ PageLimit("DOCK") = 8
      /\ DOCK_PAGES = 8
  BY DEF SzxMemoryPages, DeviceOf, PageLimit, DOCK_PAGES
<1>2. ASSUME k.active
      PROVE  Piece(FlattenSeq(ss), s)
  <2>1. ASSUME NEW i \in 1 .. 8
        PROVE  Piece(page(i), s)
    <3> DEFINE p == i - 1
    <3>1. p \in Nat /\ p < PageLimit("DOCK")
      BY <1>1
    <3> HIDE DEF p
    <3>2. Active(s, DeviceOf("DOCK"))
      BY <1>1, <1>2, Zenon DEF Active
    <3>3. Piece(<<Chunk("DOCK", p)>>, s)
      BY <1>1, <3>1, <3>2, MemoryPiece, Zenon
    <3>4. Piece(When(p \in k.ram, <<Chunk("DOCK", p)>>), s)
      BY <3>3, WhenPiece
    <3>5. QED  BY <3>4, Zenon DEF p
  <2> HIDE DEF page
  <2>2. /\ DOMAIN ss = 1 .. 8 /\ ss = [i \in 1 .. 8 |-> ss[i]]
        /\ \A i \in 1 .. 8 : ss[i] = page(i)
    BY <1>1
  <2> HIDE DEF ss
  <2>3. \A i \in 1 .. 8 : Piece(ss[i], s)
    BY <2>1, <2>2
  <2>4. QED  BY <2>2, <2>3, ChosenPieces
<1>3. write_dock_chunks(s) = When(k.active, FlattenSeq(ss))
  BY Zenon DEF write_dock_chunks
<1> HIDE DEF ss
<1> DEFINE q == FlattenSeq(ss)
<1> HIDE DEF q
<1>4. Piece(When(k.active, q), s)
  BY <1>2, WhenPiece, Zenon DEF q
<1>5. QED  BY <1>3, <1>4, Zenon DEF q

LEMMA SpectranetPiece ==
  ASSUME NEW s, Usable(s)
  PROVE  Piece(write_spectranet_chunks(s), s)
<1> DEFINE k == Device(s, "spectranet")
           registers == [k EXCEPT !.image = 0, !.ram = {}]
           a == Chunk("SNET", registers)
           b == Chunk("SNEF", k.image)
           c == Chunk("SNER", k.ram)
<1>1. IsDevice(k)
  BY DEF Usable, Devices
<1>2. k.active => Active(s, "spectranet")
  BY Zenon DEF Active
<1> HIDE DEF k
<1>3. IsDevice(registers) /\ k.image \in Nat /\ k.ram \subseteq Nat
  BY <1>1 DEF IsDevice
<1> HIDE DEF registers
<1>4. /\ a.id = "SNET" /\ a.body = registers /\ b.id = "SNEF" /\ b.body = k.image
      /\ c.id = "SNER" /\ c.body = k.ram
  BY Zenon DEF Chunk
<1> HIDE DEF a, b, c
<1>5. /\ DeviceOf(a.id) = "spectranet" /\ DeviceOf(b.id) = "spectranet"
      /\ DeviceOf(c.id) = "spectranet"
  BY <1>4 DEF DeviceOf
<1>6. ASSUME k.active
      PROVE  Piece(<<a, b, c>>, s)
  <2>1. SzxGood(a, s)
    <3>1. IsSzxChunk(a)
      BY <1>3, <1>4 DEF IsSzxChunk, SzxMemoryPages, SzxDevices
    <3>2. SzxHonest(a, s)
      BY <1>2, <1>4, <1>5, <1>6 DEF SzxHonest, SzxMemoryPages
    <3>3. QED  BY <3>1, <3>2 DEF SzxGood
  <2>2. SzxGood(b, s)
    <3>1. IsSzxChunk(b)
      BY <1>3, <1>4 DEF IsSzxChunk, SzxMemoryPages, SzxDevices
    <3>2. SzxHonest(b, s)
      BY <1>2, <1>4, <1>5, <1>6 DEF SzxHonest, SzxMemoryPages
    <3>3. QED  BY <3>1, <3>2 DEF SzxGood
  <2>3. SzxGood(c, s)
    <3>1. IsSzxChunk(c)
      BY <1>3, <1>4 DEF IsSzxChunk, SzxMemoryPages, SzxDevices
    <3>2. SzxHonest(c, s)
      BY <1>2, <1>4, <1>5, <1>6 DEF SzxHonest, SzxMemoryPages
    <3>3. QED  BY <3>1, <3>2 DEF SzxGood
  <2>4. <<a, b, c>> \in Seq({a, b, c})
    OBVIOUS
  <2>5. IsSequence(<<a, b, c>>) /\ \A x \in 1 .. Len(<<a, b, c>>) : <<a, b, c>>[x] \in {a, b, c}
    BY <2>4, SequenceOver
  <2>6. QED  BY <2>1, <2>2, <2>3, <2>5 DEF Piece
<1> DEFINE q == <<a, b, c>>
<1> HIDE DEF q
<1>7. Piece(When(k.active, q), s)
  BY <1>6, WhenPiece, Zenon DEF q
<1>8. QED  BY <1>7, Zenon DEF write_spectranet_chunks, q, a, b, c, registers, k

(* A file that was written says nothing that is not in the snapshot, and it *)
(* begins with the machine.                                                 *)
LEMMA SzxWrites ==
  ASSUME NEW s, Usable(s), s.machine \in Machines, NEW compress \in BOOLEAN
  PROVE  LET q == SzxChunks(s, compress)
         IN  Piece(q, s) /\ Len(q) >= 1 /\ q[1].id = "ZXST"
<1> DEFINE ss == << write_file_header(s),
       write_z80r_chunk(s), write_spcr_chunk(s), write_joy_chunk(s),
       write_keyb_chunk(s), write_rom_chunk(s), write_ram_pages(s),
       write_ay_chunk(s), write_scld_chunk(s), write_b128_chunk(s),
       write_zxat_chunk(s), write_zxcf_chunk(s), write_if2r_chunk(s),
       write_dock_chunks(s), write_if1_chunk(s, compress), write_opus_chunk(s),
       write_plsd_chunk(s), write_amxm_chunk(s), write_side_chunk(s),
       write_drum_chunk(s), write_dide_chunk(s), write_dmmc_chunk(s),
       write_spectranet_chunks(s), write_zxpr_chunk(s), write_covx_chunk(s),
       write_mfce_chunk(s), write_pltt_chunk(s), write_zmmc_chunk(s) >>
           q == FlattenSeq(ss)
<1>1. SzxChunks(s, compress) = q
  BY Zenon DEF SzxChunks
<1>2. DOMAIN ss = 1 .. 28 /\ ss = [i \in 1 .. 28 |-> ss[i]]
  OBVIOUS
<1>3. Piece(ss[1], s) /\ Piece(ss[2], s) /\ Piece(ss[3], s) /\ Piece(ss[9], s)
  BY MachinePieces
<1>4. Piece(ss[4], s) /\ Piece(ss[5], s)
  BY JoystickPieces
<1>5. Piece(ss[6], s)
  BY RomPiece
<1>6. Piece(ss[7], s)
  BY RamPiece
<1>7. Piece(ss[8], s)
  BY AyPiece
<1>8. /\ Piece(ss[10], s) /\ Piece(ss[13], s) /\ Piece(ss[16], s) /\ Piece(ss[17], s)
      /\ Piece(ss[18], s) /\ Piece(ss[19], s) /\ Piece(ss[20], s) /\ Piece(ss[25], s)
      /\ Piece(ss[26], s) /\ Piece(ss[27], s) /\ Piece(ss[28], s)
  BY WholePieces
<1>9. Piece(ss[11], s) /\ Piece(ss[12], s) /\ Piece(ss[21], s) /\ Piece(ss[22], s)
  BY CardPieces
<1>10. Piece(ss[14], s)
  BY DockPiece
<1>11. Piece(ss[15], s)
  BY If1Piece
<1>12. Piece(ss[23], s)
  BY SpectranetPiece
<1>13. Piece(ss[24], s)
  BY PrinterPiece
<1>14. IsSequence(ss) /\ Len(ss) = 28
  BY <1>2, ListedSequence
<1>15. ss[1] = <<Chunk("ZXST", [machine |-> s.machine, late |-> s.late])>>
  BY DEF write_file_header
<1> HIDE DEF ss
<1>16. \A i \in 1 .. 28 : Piece(ss[i], s)
  BY <1>3, <1>4, <1>5, <1>6, <1>7, <1>8, <1>9, <1>10, <1>11, <1>12, <1>13
<1>17. Piece(q, s)
  BY <1>14, <1>16, ManyPieces, Zenon
<1>18. Len(q) >= 1 /\ q[1].id = "ZXST"
  <2> HIDE DEF q
  <2>1. \A i \in 1 .. Len(ss) : IsSequence(ss[i])
    BY <1>14, <1>16, Zenon DEF Piece
  <2>2. PICK place, off : Laid(q, ss, Len(ss), place, off)
    BY <1>14, <2>1, Flattened, Zenon DEF q
  <2>3. 1 \in 1 .. Len(ss) /\ 1 \in 1 .. Len(ss[1]) /\ ss[1][1].id = "ZXST"
    BY <1>14, <1>15 DEF Chunk
  <2>4. PICK x \in 1 .. Len(q) : place[x] = 1 /\ off[x] = 1
    BY <2>2, <2>3, Zenon DEF Laid
  <2>5. Len(q) \in Nat /\ Len(q) >= 1 /\ 1 \in 1 .. Len(q)
    BY <1>17, <2>4, SequenceShape DEF Piece
  <2>6. place[1] \in 1 .. Len(ss) /\ off[1] \in 1 .. Len(ss[place[1]])
    BY <2>2, <2>5, Zenon DEF Laid
  <2>7. x = 1
    <3>1. 1 < x => place[1] < place[x] \/ (place[1] = place[x] /\ off[1] < off[x])
      BY <2>2, <2>4, <2>5, Zenon DEF Laid
    <3>2. Len(ss[place[1]]) \in Nat
      BY <2>1, <2>6, SequenceShape
    <3> DEFINE m == Len(ss[place[1]])  a == place[1]  b == off[1]
    <3>3. m \in Nat /\ a \in 1 .. 28 /\ b \in 1 .. m
      BY <1>14, <2>6, <3>2, Zenon
    <3>4. 1 < x => a < 1 \/ b < 1
      BY <2>4, <3>1, Zenon
    <3> HIDE DEF m, a, b
    <3>5. QED  BY <2>5, <3>3, <3>4
  <2>8. q[1] = ss[1][1]
    <3>1. q[x] = ss[place[x]][off[x]]
      BY <2>2, Zenon DEF Laid
    <3>2. QED  BY <2>4, <2>7, <3>1
  <2>9. QED  BY <2>3, <2>5, <2>8, Zenon
<1>19. QED  BY <1>1, <1>17, <1>18, Zenon

-----------------------------------------------------------------------------
(* Reading a chunk of a .z80 file.                                         *)

\* t is s with other settings of the devices, of which those in D may have been
\* switched on.
Changed(t, s, D) ==
  /\ Shape(t) /\ t.machine = s.machine /\ t.sp = s.sp
  /\ t.pages = s.pages /\ t.joysticks = s.joysticks
  /\ \A e \in Devices :
        /\ IsDevice(Device(t, e))
        /\ e \in Cards => Device(t, e).ram = Device(s, e).ram
        /\ Device(t, e).active => Active(s, e) \/ e \in D

LEMMA ChangedUsable ==
  ASSUME NEW t, NEW s, NEW D, Changed(t, s, D), Usable(s)
  PROVE  Usable(t)
<1>1. CardsFit(t)
  <2>1. ASSUME NEW d \in Cards
        PROVE  Device(t, d).ram \subseteq 0 .. CardSize[d] - 1
    <3>1. d \in Devices
      BY DEF Cards, CardSize, Devices
    <3>2. Device(t, d).ram = Device(s, d).ram
      BY <3>1, Zenon DEF Changed
    <3>3. QED  BY <3>2, Zenon DEF Usable, CardsFit
  <2>2. QED  BY <2>1, Zenon DEF CardsFit
<1>2. QED  BY <1>1, Zenon DEF Usable, Changed

LEMMA ChangedFrom ==
  ASSUME NEW t, NEW r, NEW D, Changed(t, r, D), NEW s, NEW f, From(r, s, f),
         \A d \in D : Active(s, d)
  PROVE  From(t, s, f)
<1>1. t.pages = r.pages /\ t.joysticks = r.joysticks
  BY Zenon DEF Changed
<1>2. PagesFrom(t, s)
  BY <1>1, Zenon DEF PagesFrom, From
<1>3. DevicesFrom(t, s)
  BY Zenon DEF DevicesFrom, From, Changed, Active
<1>4. JoysticksFrom(t, s, f)
  BY <1>1, Zenon DEF JoysticksFrom, From
<1>5. QED  BY <1>2, <1>3, <1>4, Zenon DEF From

LEMMA ChangedTwice ==
  ASSUME NEW t, NEW u, NEW r, NEW D, NEW E, Changed(t, u, D), Changed(u, r, E)
  PROVE  Changed(t, r, D \union E)
BY Zenon DEF Changed, Active

LEMMA UnchangedIs ==
  ASSUME NEW t, NEW r, Usable(r), Kept(t, r), t.machine = r.machine, t.sp = r.sp
  PROVE  Changed(t, r, {})
<1>1. \A d : Device(t, d) = Device(r, d)
  BY DEF Kept, Device
<1>2. QED  BY <1>1, Zenon DEF Changed, Kept, Usable, Active

LEMMA OneChanged ==
  ASSUME NEW r, Usable(r), NEW d \in Devices \ Cards, NEW k, IsDevice(k), NEW D,
         k.active => Active(r, d) \/ d \in D
  PROVE  Changed(SetDevice(r, d, k), r, D)
<1> DEFINE t == SetDevice(r, d, k)
<1>1. /\ Shape(t) /\ t.machine = r.machine /\ t.sp = r.sp
      /\ t.pages = r.pages /\ t.joysticks = r.joysticks
      /\ \A e : Device(t, e) = IF e = d THEN k ELSE Device(r, e)
  BY DeviceSet DEF Usable
<1> HIDE DEF t
<1>2. ASSUME NEW e \in Devices
      PROVE  /\ IsDevice(Device(t, e))
             /\ e \in Cards => Device(t, e).ram = Device(r, e).ram
             /\ Device(t, e).active => Active(r, e) \/ e \in D
  <2>1. CASE e = d
    BY <1>1, <2>1
  <2>2. CASE e # d
    BY <1>1, <2>2 DEF Usable, Active
  <2>3. QED  BY <2>1, <2>2
<1>3. QED  BY <1>1, <1>2, Zenon DEF Changed, t

(* Devices are switched on.                                                 *)
LEMMA SwitchedOn ==
  ASSUME NEW r, Usable(r), NEW D \in SUBSET (Devices \ Cards)
  PROVE  Changed(SwitchOn(r, D), r, D)
<1>1. CASE D = {}
  <2>1. SwitchOn(r, D) = r
    BY <1>1, Zenon DEF SwitchOn
  <2>2. Changed(r, r, {})
    BY UnchangedIs DEF Kept, Usable
  <2>3. QED  BY <1>1, <2>1, <2>2, Zenon
<1>2. CASE D # {}
  <2> DEFINE d == CHOOSE e \in D : TRUE
             old == Device(r, d)
             k == [old EXCEPT !.active = TRUE]
  <2>1. d \in D
    BY <1>2, Zenon
  <2>2. SwitchOn(r, D) = SetDevice(r, d, k)
    BY <1>2, Zenon DEF SwitchOn
  <2> HIDE DEF d
  <2>3. IsDevice(old)
    BY <2>1 DEF Usable
  <2> HIDE DEF old
  <2>4. IsDevice(k)
    BY <2>3 DEF IsDevice
  <2> HIDE DEF k
  <2>5. QED  BY <2>1, <2>2, <2>4, OneChanged, Zenon
<1>3. QED  BY <1>1, <1>2

\* The sound device a header names.
SoundOf(b) ==
  CASE {"fuller", "ay"} \subseteq b.hardware -> {"fuller"}
    [] ~({"fuller", "ay"} \subseteq b.hardware) /\ "ay" \in b.hardware -> {"melodik"}
    [] OTHER -> {}

LEMMA PortsRead ==
  ASSUME NEW r, Usable(r), NEW b
  PROVE  Changed(ReadPorts(r, b), r, SoundOf(b))
<1> DEFINE old == Device(r, "plusd")
           k == [old EXCEPT !.paged = TRUE]
           t == IF b.mgt_paged /\ Active(r, "plusd") THEN SetDevice(r, "plusd", k) ELSE r
           u == SwitchOn(t, SoundOf(b))
           m == r.machine
           v == [u EXCEPT
                   !.port_128 = IF m \in MEMORY_128 THEN b.port ELSE @,
                   !.scld_hsr = IF m \in TIMEX_MEMORY THEN b.port ELSE @,
                   !.scld_dec = IF m \in TIMEX_VIDEO THEN b.scld_dec ELSE @,
                   !.ay = IF HasAy(u) THEN b.ay ELSE @,
                   !.port_plus3 = IF b.long /\ m \in PLUS3_MEMORY \union SCORP_MEMORY
                                  THEN b.port_plus3 ELSE @]
<1>1. SoundOf(b) \in SUBSET (Devices \ Cards) /\ "plusd" \in Devices \ Cards
  <2>1. SoundOf(b) \in {{"fuller"}, {"melodik"}, {}}
    BY Zenon DEF SoundOf
  <2>2. QED  BY <2>1 DEF Devices, Cards, CardSize
<1>2. ReadPorts(r, b) = v
  BY Zenon DEF ReadPorts, SoundOf
<1> HIDE DEF v
<1>3. Changed(t, r, {})
  <2>1. CASE b.mgt_paged /\ Active(r, "plusd")
    <3>1. IsDevice(old)
      BY <1>1 DEF Usable
    <3> HIDE DEF old
    <3>2. IsDevice(k)
      BY <3>1 DEF IsDevice
    <3> HIDE DEF k
    <3>3. Changed(SetDevice(r, "plusd", k), r, {})
      BY <1>1, <2>1, <3>2, OneChanged, Zenon
    <3>4. QED  BY <2>1, <3>3, Zenon
  <2>2. CASE ~(b.mgt_paged /\ Active(r, "plusd"))
    <3>1. Changed(r, r, {})
      BY UnchangedIs DEF Kept, Usable
    <3>2. QED  BY <2>2, <3>1, Zenon
  <2>3. QED  BY <2>1, <2>2
<1> HIDE DEF t
<1>4. Usable(t)
  BY <1>3, ChangedUsable, Zenon
<1>5. Changed(u, t, SoundOf(b))
  BY <1>1, <1>4, SwitchedOn, Zenon
<1> HIDE DEF u
<1>6. Changed(u, r, SoundOf(b) \union {})
  BY <1>3, <1>5, ChangedTwice, Zenon
<1>7. Usable(u)
  BY <1>4, <1>5, ChangedUsable, Zenon
<1>8. Kept(v, u) /\ v.machine = u.machine /\ v.sp = u.sp
  <2>1. Shape(u)
    BY <1>7, Zenon DEF Usable
  <2>2. QED  BY <2>1, Zenon DEF v, Kept, Shape
<1>9. Changed(v, u, {})
  BY <1>7, <1>8, UnchangedIs, Zenon
<1>10. Changed(v, r, {} \union (SoundOf(b) \union {}))
  BY <1>6, <1>9, ChangedTwice, Zenon
<1>11. {} \union (SoundOf(b) \union {}) = SoundOf(b)
  OBVIOUS
<1>12. QED  BY <1>2, <1>10, <1>11, Zenon

(* The joystick a header names.                                             *)
LEMMA JoystickNamed ==
  ASSUME NEW b, b.version \in 1 .. 3, b.joystick \in 0 .. 3
  PROVE  LET q == get_joystick_type(b)
         IN  /\ q \in Seq(JoystickEntries)
             /\ b.version = 3 =>
                  \A i \in DOMAIN q :
                     \/ b.joystick = 0 /\ q[i].type = "CURSOR"
                     \/ b.joystick = 1 /\ q[i].type = "KEMPSTON"
                     \/ b.joystick = 2 /\ b.if2_left /\ q[i].type = "SINCLAIR_2"
                     \/ b.joystick = 3 /\ q[i].type = "SINCLAIR_1"
<1> DEFINE type == IF b.version = 3 THEN get_joystick_type_v3(b.joystick, b.if2_left)
                                    ELSE get_joystick_type_v1(b.joystick)
           inputs == IF b.version = 1 THEN {} ELSE {"KEYBOARD", "JOYSTICK_1"}
           e == [type |-> type, inputs |-> inputs]
           q == get_joystick_type(b)
<1>1. b.version = 3 =>
        \/ b.joystick = 0 /\ type = "CURSOR"
        \/ b.joystick = 1 /\ type = "KEMPSTON"
        \/ b.joystick = 2 /\ b.if2_left /\ type = "SINCLAIR_2"
        \/ b.joystick = 3 /\ type = "SINCLAIR_1"
        \/ type = "NONE"
  BY DEF get_joystick_type_v3
<1>2. type \in JoystickTypes \union {"NONE"}
  <2>1. CASE b.version = 3
    BY <1>1, <2>1 DEF JoystickTypes
  <2>2. CASE b.version # 3
    BY <2>2 DEF get_joystick_type_v1, JoystickTypes
  <2>3. QED  BY <2>1, <2>2
<1>3. q = IF type = "NONE" THEN <<>> ELSE <<e>>
  BY Zenon DEF get_joystick_type
<1>4. inputs \in SUBSET Inputs
  BY DEF Inputs
<1> HIDE DEF type, inputs, q
<1>5. e \in JoystickEntries /\ e.type = type
  BY <1>2, <1>4 DEF JoystickEntries
<1> HIDE DEF e
<1>6. CASE type = "NONE"
  BY <1>3, <1>6 DEF q
<1>7. CASE type # "NONE"
  <2>1. q = <<e>> /\ <<e>> \in Seq(JoystickEntries) /\ \A i \in DOMAIN <<e>> : <<e>>[i] = e
    BY <1>3, <1>5, <1>7
  <2>2. q \in Seq(JoystickEntries) /\ \A i \in DOMAIN q : q[i].type = type
    BY <1>5, <2>1
  <2>3. QED  BY <1>1, <1>7, <2>2, Zenon DEF q
<1>8. QED  BY <1>6, <1>7

(* The machine a header names, and the interface.                           *)
LEMMA MachineNamed ==
  ASSUME NEW b, b.version \in 1 .. 3, b.type \in 0 .. 255
  PROVE  LET named == get_machine_type(b)
         IN  \/ named = UnknownMachine
             \/ /\ named[1] \in Machines /\ named # UnknownMachine
                /\ named[2] \in SUBSET {"if1", "plusd"}
<1> DEFINE N == [{1, 2} -> {"x"}]
           Known(named) == /\ named[1] \in Machines /\ named[1] # "unknown"
                           /\ named[2] \in SUBSET {"if1", "plusd"}
<1>1. \A named : Known(named) => named # UnknownMachine
  BY DEF UnknownMachine
<1>2. \A type \in 0 .. 255 :
         get_machine_type_extension(type) = UnknownMachine
           \/ Known(get_machine_type_extension(type))
  BY DEF get_machine_type_extension, Machines
<1>3. \A type \in 0 .. 6 :
         get_machine_type_v2(type) = UnknownMachine \/ Known(get_machine_type_v2(type))
  BY DEF get_machine_type_v2, Machines
<1>4. \A mgt : \A m \in {"48", "128"} :
         get_mgt_type(m, mgt) = UnknownMachine \/ Known(get_mgt_type(m, mgt))
  <2>1. ASSUME NEW m \in {"48", "128"}, NEW mgt
        PROVE  get_mgt_type(m, mgt) = UnknownMachine \/ Known(get_mgt_type(m, mgt))
    <3>1. get_mgt_type(m, mgt) \in {<<m, {}>>, <<m, {"plusd"}>>, UnknownMachine}
      BY Zenon DEF get_mgt_type
    <3>2. Known(<<m, {}>>) /\ Known(<<m, {"plusd"}>>)
      BY DEF Machines
    <3>3. QED  BY <3>1, <3>2, Zenon
  <2>2. QED  BY <2>1
<1>5. ASSUME NEW type \in 0 .. 6, NEW mgt
      PROVE  get_machine_type_v3(type, mgt) = UnknownMachine
               \/ Known(get_machine_type_v3(type, mgt))
  <2>1. CASE type \in {0, 1, 2, 4, 5}
    <3>1. get_machine_type_v3(type, mgt) \in
            {<<"48", {}>>, <<"48", {"if1"}>>, <<"128", {}>>, <<"128", {"if1"}>>}
      BY <2>1 DEF get_machine_type_v3
    <3>2. /\ Known(<<"48", {}>>) /\ Known(<<"48", {"if1"}>>)
          /\ Known(<<"128", {}>>) /\ Known(<<"128", {"if1"}>>)
      BY DEF Machines
    <3> HIDE DEF Known
    <3>3. QED  BY <3>1, <3>2
  <2>2. CASE type \in {3, 6}
    <3>1. get_machine_type_v3(type, mgt) \in {get_mgt_type("48", mgt), get_mgt_type("128", mgt)}
      BY <2>2 DEF get_machine_type_v3
    <3> HIDE DEF Known
    <3>2. QED  BY <1>4, <3>1
  <2>3. QED  BY <2>1, <2>2
<1> HIDE DEF Known
<1>6. LET named == get_machine_type(b) IN named = UnknownMachine \/ Known(named)
  <2>1. CASE b.type >= 7
    <3>1. get_machine_type(b) = get_machine_type_extension(b.type)
      BY <2>1 DEF get_machine_type, Z80_MACHINE_FIRST_EXTENSION
    <3>2. QED  BY <1>2, <3>1
  <2>2. CASE b.type < 7 /\ b.version = 2
    <3>1. get_machine_type(b) = get_machine_type_v2(b.type)
      BY <2>2 DEF get_machine_type, Z80_MACHINE_FIRST_EXTENSION
    <3>2. QED  BY <1>3, <2>2, <3>1
  <2>3. CASE b.type < 7 /\ b.version # 2
    <3>1. get_machine_type(b) = get_machine_type_v3(b.type, b.mgt)
      BY <2>3 DEF get_machine_type, Z80_MACHINE_FIRST_EXTENSION
    <3>2. QED  BY <1>5, <2>3, <3>1
  <2>4. QED  BY <2>1, <2>2, <2>3
<1>7. QED  BY <1>1, <1>6 DEF Known

\* The machine a header leaves, and the devices it may switch on.
NamedMachine(b) ==
  IF "modified" \in b.hardware THEN Modified(get_machine_type(b)[1])
                               ELSE get_machine_type(b)[1]
NamedDevices(b) == get_machine_type(b)[2] \union SoundOf(b)

LEMMA HeaderTaken ==
  ASSUME NEW r, Usable(r), NEW b, b.version \in 1 .. 3, b.type \in 0 .. 255,
         b.joystick \in 0 .. 3, b.sp \in Addresses
  PROVE  LET res == read_header(r, b)
         IN  \/ /\ b.version # 1 /\ get_machine_type(b) = UnknownMachine
                /\ res.err = "UNKNOWN"
                /\ res.snap.pages = r.pages /\ res.snap.kit = r.kit
                /\ res.snap.joysticks = get_joystick_type(b)
             \/ /\ b.version = 1 \/ get_machine_type(b) # UnknownMachine
                /\ res.err = "NONE" /\ Usable(res.snap) /\ res.snap.machine \in Machines
                /\ b.version # 1 => res.snap.machine = NamedMachine(b)
                /\ \E u : /\ u.pages = r.pages /\ u.kit = r.kit
                          /\ u.joysticks = get_joystick_type(b)
                          /\ Changed(res.snap, u, IF b.version = 1 THEN {} ELSE NamedDevices(b))
<1> DEFINE base == ReadBase(r, b)
           named == get_machine_type(b)
           q == get_joystick_type(b)
           res == read_header(r, b)
<1>0. Shape(r)
  BY Zenon DEF Usable
<1>1. /\ Shape(base) /\ base.sp = b.sp /\ base.pages = r.pages /\ base.kit = r.kit
      /\ base.joysticks = q
  BY <1>0, Zenon DEF ReadBase, Shape
<1>2. q \in Seq(JoystickEntries)
  BY JoystickNamed, Zenon
<1>3. ASSUME NEW t, Shape(t), t.sp = base.sp, t.pages = base.pages, t.kit = base.kit,
             t.joysticks = base.joysticks
      PROVE  Usable(t)
  <2> HIDE DEF base, q
  <2>1. t.sp \in Addresses /\ t.joysticks \in Seq(JoystickEntries) /\ t.kit = r.kit
    BY <1>1, <1>2, <1>3, Zenon
  <2>2. \A d : Device(t, d) = Device(r, d)
    BY <2>1 DEF Device
  <2>3. CardsFit(t)
    BY <2>2 DEF CardsFit, Usable
  <2>4. QED  BY <1>3, <2>1, <2>2, <2>3 DEF Usable
<1>4. CASE b.version = 1
  <2> DEFINE t == [base EXCEPT !.machine = "48"]
  <2>1. res = Ok(t)
    BY <1>4, Zenon DEF read_header
  <2>2. /\ Shape(t) /\ t.machine = "48" /\ t.sp = base.sp /\ t.pages = base.pages
        /\ t.kit = base.kit /\ t.joysticks = base.joysticks
    BY <1>1, Zenon DEF Shape
  <2> HIDE DEF t, base
  <2>3. Usable(t)
    BY <1>3, <2>2, Zenon
  <2>4. Changed(t, t, {})
    BY <2>2, <2>3, UnchangedIs, Zenon DEF Kept
  <2>5. "48" \in Machines
    BY DEF Machines
  <2> HIDE DEF res
  <2>6. res.snap = t /\ res.err = "NONE"
    BY <2>1, OkIs
  <2>7. t.pages = r.pages /\ t.kit = r.kit /\ t.joysticks = get_joystick_type(b)
    BY <1>1, <2>2, Zenon
  <2>8. QED  BY <1>4, <2>2, <2>3, <2>4, <2>5, <2>6, <2>7, Zenon DEF res
<1>5. CASE b.version # 1 /\ named = UnknownMachine
  <2>1. res = Error(base, "UNKNOWN")
    BY <1>5, Zenon DEF read_header
  <2> HIDE DEF base, res
  <2>2. res.snap = base /\ res.err = "UNKNOWN"
    BY <2>1, ErrorIs
  <2>3. QED  BY <1>1, <1>5, <2>2, Zenon DEF res
<1>6. CASE b.version # 1 /\ named # UnknownMachine
  <2> DEFINE machine == NamedMachine(b)
             time == IF b.version = 3 THEN ReadTime(b.low, b.high, Quarter(named[1]))
                     ELSE base.tstates
             u == [base EXCEPT !.machine = machine, !.tstates = time]
             v == SwitchOn(u, named[2])
             w == ReadPorts(v, b)
  <2>1. res = Ok(w)
    BY <1>6, Zenon DEF read_header, NamedMachine
  <2>2. named[1] \in Machines /\ named[2] \in SUBSET {"if1", "plusd"}
    BY <1>6, MachineNamed
  <2>3. machine \in Machines
    <3>1. \A m \in Machines : Modified(m) \in Machines
      BY DEF Modified, Machines
    <3>2. QED  BY <2>2, <3>1, Zenon DEF NamedMachine
  <2>4. named[2] \in SUBSET (Devices \ Cards)
    BY <2>2 DEF Devices, Cards, CardSize
  <2> HIDE DEF machine, time, named
  <2>5. /\ Shape(u) /\ u.machine = machine /\ u.sp = base.sp /\ u.pages = base.pages
        /\ u.kit = base.kit /\ u.joysticks = base.joysticks
    BY <1>1, Zenon DEF Shape
  <2> HIDE DEF u, base
  <2>6. Usable(u)
    BY <1>3, <2>5, Zenon
  <2>7. Changed(v, u, named[2])
    BY <2>4, <2>6, SwitchedOn, Zenon
  <2>8. Usable(v)
    BY <2>6, <2>7, ChangedUsable, Zenon
  <2> HIDE DEF v
  <2>9. Changed(w, v, SoundOf(b))
    BY <2>8, PortsRead, Zenon
  <2> HIDE DEF w
  <2>10. Changed(w, u, SoundOf(b) \union named[2])
    BY <2>7, <2>9, ChangedTwice, Zenon
  <2>11. SoundOf(b) \union named[2] = NamedDevices(b)
    BY DEF NamedDevices, named
  <2>12. Usable(w)
    BY <2>6, <2>10, ChangedUsable, Zenon
  <2>13. w.machine = machine
    BY <2>5, <2>10, Zenon DEF Changed
  <2> HIDE DEF res
  <2>14. res.snap = w /\ res.err = "NONE"
    BY <2>1, OkIs
  <2>15. u.pages = r.pages /\ u.kit = r.kit /\ u.joysticks = get_joystick_type(b)
    BY <1>1, <2>5, Zenon
  <2>16. Changed(w, u, NamedDevices(b))
    BY <2>10, <2>11, Zenon
  <2>17. QED  BY <1>6, <2>3, <2>12, <2>13, <2>14, <2>15, <2>16, Zenon DEF res, machine, named
<1>7. QED  BY <1>4, <1>5, <1>6

(* The header of a file of ours.                                            *)
LEMMA HeaderFields ==
  ASSUME NEW s
  PROVE  LET c == write_header(s)[1]
             b == c.body
         IN  /\ write_header(s) = <<c>> /\ c.id = "HEADER"
             /\ b.version = 3 /\ b.type = MachineByte(s) /\ b.sp = s.sp
             /\ b.mgt = (IF Active(s, "plusd") THEN 16 ELSE 0)
             /\ b.joystick = JoystickCode(s)
             /\ b.if2_left = (libspectrum_snap_joystick_list(s, 2) = "SINCLAIR_2")
             /\ b.hardware = UNION { IF s.machine = "16" THEN {"modified"} ELSE {},
                                     IF Active(s, "fuller") THEN {"fuller", "ay"} ELSE {},
                                     IF Active(s, "melodik") THEN {"ay"} ELSE {} }
<1> DEFINE base == write_base_header(s)
           ext  == write_extended_header(s)
           b == Over(base, ext)
           c == Chunk("HEADER", b)
           hardware == UNION { IF s.machine = "16" THEN {"modified"} ELSE {},
                               IF Active(s, "fuller") THEN {"fuller", "ay"} ELSE {},
                               IF Active(s, "melodik") THEN {"ay"} ELSE {} }
           left == (libspectrum_snap_joystick_list(s, 2) = "SINCLAIR_2")
           mgt == IF Active(s, "plusd") THEN 16 ELSE 0
<1>1. DOMAIN base = {"regs", "sp", "iff1", "iff2", "issue2", "border", "joystick"}
  BY DEF write_base_header
<1>2. base.sp = s.sp /\ base.joystick = JoystickCode(s)
  BY Zenon DEF write_base_header
<1>3. {"version", "type", "mgt", "hardware", "if2_left"} \subseteq DOMAIN ext
  <2> HIDE DEF hardware, mgt, left
  <2>1. QED  BY DEF write_extended_header
<1>4. /\ ext.version = 3 /\ ext.type = MachineByte(s) /\ ext.mgt = mgt
      /\ ext.if2_left = left /\ ext.hardware = hardware
  BY Zenon DEF write_extended_header
<1>5. write_header(s) = <<c>>
  BY Zenon DEF write_header
<1> HIDE DEF base, ext, hardware, left, mgt
<1>6. /\ b.sp = base.sp /\ b.joystick = base.joystick /\ b.version = ext.version
      /\ b.type = ext.type /\ b.mgt = ext.mgt /\ b.hardware = ext.hardware
      /\ b.if2_left = ext.if2_left
  BY <1>1, <1>3 DEF Over
<1> HIDE DEF b
<1>7. c.id = "HEADER" /\ c.body = b
  BY Zenon DEF Chunk
<1> HIDE DEF c
<1>8. write_header(s)[1] = c
  BY <1>5
<1>9. QED  BY <1>2, <1>4, <1>5, <1>6, <1>7, <1>8, Zenon DEF hardware, left, mgt

\* Two machines whose blocks have the same numbers.
SameMemory(m, n) ==
  /\ m \in MEMORY_128 <=> n \in MEMORY_128
  /\ m \in SCORP_MEMORY <=> n \in SCORP_MEMORY

(* The machine of our header has the memory of the one that was saved, and   *)
(* the interface is there.                                                  *)
LEMMA MachineWritten ==
  ASSUME NEW s, Usable(s), s.machine \in Machines,
         NEW b, b.version = 3, b.type = MachineByte(s),
         b.mgt = (IF Active(s, "plusd") THEN 16 ELSE 0),
         "modified" \in b.hardware <=> s.machine = "16"
  PROVE  /\ b.type \in 0 .. 255 /\ b.mgt \in 0 .. 255
         /\ get_machine_type(b) # UnknownMachine
         /\ SameMemory(NamedMachine(b), s.machine)
         /\ \A d \in get_machine_type(b)[2] : Active(s, d)
<1> DEFINE named == get_machine_type(b)
           m == s.machine
           plain == [t \in 7 .. 128 |->
                       CASE t = 7 -> "PLUS3" [] t = 9 -> "PENT" [] t = 10 -> "SCORP"
                         [] t = 12 -> "PLUS2" [] t = 13 -> "PLUS2A" [] t = 14 -> "TC2048"
                         [] t = 15 -> "TC2068" [] OTHER -> "TS2068"]
<1>0. b.mgt \in {0, 16}
  OBVIOUS
<1>1. CASE m \in { "16", "48", "48_NTSC" }
  <2>1. b.type = WithInterface(s, 0, 1, 3)
    BY <1>1 DEF MachineByte
  <2>2. CASE Active(s, "plusd")
    <3>1. b.type = 3 /\ b.mgt = 16
      BY <2>1, <2>2 DEF WithInterface
    <3>2. named = get_mgt_type("48", 16)
      BY <3>1 DEF get_machine_type, get_machine_type_v3, Z80_MACHINE_FIRST_EXTENSION
    <3>3. named = <<"48", {"plusd"}>>
      BY <3>2 DEF get_mgt_type
    <3> HIDE DEF named
    <3>4. named[1] = "48" /\ named[2] = {"plusd"} /\ named # UnknownMachine
      BY <3>3 DEF UnknownMachine
    <3>5. SameMemory(NamedMachine(b), m)
      BY <1>1, <3>4 DEF NamedMachine, named, Modified, SameMemory, MEMORY_128, SCORP_MEMORY,
           PLUS3_MEMORY, TRDOS_DISK
    <3>6. QED  BY <2>2, <3>1, <3>4, <3>5 DEF named
  <2>3. CASE ~Active(s, "plusd") /\ Active(s, "if1")
    <3>1. b.type = 1 /\ b.mgt = 0
      BY <2>1, <2>3 DEF WithInterface
    <3>2. named = <<"48", {"if1"}>>
      BY <3>1 DEF get_machine_type, get_machine_type_v3, Z80_MACHINE_FIRST_EXTENSION
    <3> HIDE DEF named
    <3>4. named[1] = "48" /\ named[2] = {"if1"} /\ named # UnknownMachine
      BY <3>2 DEF UnknownMachine
    <3>5. SameMemory(NamedMachine(b), m)
      BY <1>1, <3>4 DEF NamedMachine, named, Modified, SameMemory, MEMORY_128, SCORP_MEMORY,
           PLUS3_MEMORY, TRDOS_DISK
    <3>6. QED  BY <2>3, <3>1, <3>4, <3>5 DEF named
  <2>4. CASE ~Active(s, "plusd") /\ ~Active(s, "if1")
    <3>1. b.type = 0 /\ b.mgt = 0
      BY <2>1, <2>4 DEF WithInterface
    <3>2. named = <<"48", {}>>
      BY <3>1 DEF get_machine_type, get_machine_type_v3, Z80_MACHINE_FIRST_EXTENSION
    <3> HIDE DEF named
    <3>4. named[1] = "48" /\ named[2] = {} /\ named # UnknownMachine
      BY <3>2 DEF UnknownMachine
    <3>5. SameMemory(NamedMachine(b), m)
      BY <1>1, <3>4 DEF NamedMachine, named, Modified, SameMemory, MEMORY_128, SCORP_MEMORY,
           PLUS3_MEMORY, TRDOS_DISK
    <3>6. QED  BY <3>1, <3>4, <3>5 DEF named
  <2>5. QED  BY <2>2, <2>3, <2>4
<1>2. CASE m \in { "128", "SE", "128E" }
  <2>1. b.type = WithInterface(s, 4, 5, 6)
    BY <1>2 DEF MachineByte
  <2>2. CASE Active(s, "plusd")
    <3>1. b.type = 6 /\ b.mgt = 16
      BY <2>1, <2>2 DEF WithInterface
    <3>2. named = get_mgt_type("128", 16)
      BY <3>1 DEF get_machine_type, get_machine_type_v3, Z80_MACHINE_FIRST_EXTENSION
    <3>3. named = <<"128", {"plusd"}>>
      BY <3>2 DEF get_mgt_type
    <3> HIDE DEF named
    <3>4. named[1] = "128" /\ named[2] = {"plusd"} /\ named # UnknownMachine
      BY <3>3 DEF UnknownMachine
    <3>5. SameMemory(NamedMachine(b), m)
      BY <1>2, <3>4 DEF NamedMachine, named, Modified, SameMemory, MEMORY_128, SCORP_MEMORY,
           PLUS3_MEMORY, TRDOS_DISK
    <3>6. QED  BY <2>2, <3>1, <3>4, <3>5 DEF named
  <2>3. CASE ~Active(s, "plusd") /\ Active(s, "if1")
    <3>1. b.type = 5 /\ b.mgt = 0
      BY <2>1, <2>3 DEF WithInterface
    <3>2. named = <<"128", {"if1"}>>
      BY <3>1 DEF get_machine_type, get_machine_type_v3, Z80_MACHINE_FIRST_EXTENSION
    <3> HIDE DEF named
    <3>4. named[1] = "128" /\ named[2] = {"if1"} /\ named # UnknownMachine
      BY <3>2 DEF UnknownMachine
    <3>5. SameMemory(NamedMachine(b), m)
      BY <1>2, <3>4 DEF NamedMachine, named, Modified, SameMemory, MEMORY_128, SCORP_MEMORY,
           PLUS3_MEMORY, TRDOS_DISK
    <3>6. QED  BY <2>3, <3>1, <3>4, <3>5 DEF named
  <2>4. CASE ~Active(s, "plusd") /\ ~Active(s, "if1")
    <3>1. b.type = 4 /\ b.mgt = 0
      BY <2>1, <2>4 DEF WithInterface
    <3>2. named = <<"128", {}>>
      BY <3>1 DEF get_machine_type, get_machine_type_v3, Z80_MACHINE_FIRST_EXTENSION
    <3> HIDE DEF named
    <3>4. named[1] = "128" /\ named[2] = {} /\ named # UnknownMachine
      BY <3>2 DEF UnknownMachine
    <3>5. SameMemory(NamedMachine(b), m)
      BY <1>2, <3>4 DEF NamedMachine, named, Modified, SameMemory, MEMORY_128, SCORP_MEMORY,
           PLUS3_MEMORY, TRDOS_DISK
    <3>6. QED  BY <3>1, <3>4, <3>5 DEF named
  <2>5. QED  BY <2>2, <2>3, <2>4
<1>3. CASE m \notin { "16", "48", "48_NTSC", "128", "SE", "128E" }
  <2>1. b.type \in {7, 9, 10, 12, 13, 14, 15, 128}
    BY <1>3 DEF MachineByte, Machines
  <2>2. named = <<plain[b.type], {}>>
    <3>1. named = get_machine_type_extension(b.type)
      BY <2>1 DEF get_machine_type, Z80_MACHINE_FIRST_EXTENSION
    <3>2. QED  BY <2>1, <3>1 DEF get_machine_type_extension
  <2>3. plain[b.type] # "unknown"
    BY <2>1
  <2>4. SameMemory(plain[b.type], m)
    <3>1. \/ m \in { "PLUS3", "PLUS3E" } /\ b.type = 7
          \/ m \in { "PENT", "PENT512", "PENT1024" } /\ b.type = 9
          \/ m = "SCORP" /\ b.type = 10
          \/ m = "PLUS2" /\ b.type = 12
          \/ m = "PLUS2A" /\ b.type = 13
          \/ m = "TC2048" /\ b.type = 14
          \/ m = "TC2068" /\ b.type = 15
          \/ m = "TS2068" /\ b.type = 128
      BY <1>3 DEF MachineByte, Machines
    <3>2. \/ m \in { "PLUS3", "PLUS3E" } /\ plain[b.type] = "PLUS3"
          \/ m \in { "PENT", "PENT512", "PENT1024" } /\ plain[b.type] = "PENT"
          \/ m = "SCORP" /\ plain[b.type] = "SCORP"
          \/ m = "PLUS2" /\ plain[b.type] = "PLUS2"
          \/ m = "PLUS2A" /\ plain[b.type] = "PLUS2A"
          \/ m \in TIMEX_MEMORY /\ plain[b.type] \in TIMEX_MEMORY
      BY <3>1 DEF TIMEX_MEMORY
    <3> HIDE DEF plain
    <3>3. QED  BY <3>2 DEF SameMemory, MEMORY_128, SCORP_MEMORY, PLUS3_MEMORY, TRDOS_DISK,
                           TIMEX_MEMORY
  <2> HIDE DEF plain, named
  <2>5. named[1] = plain[b.type] /\ named[2] = {} /\ named # UnknownMachine
    BY <2>2, <2>3 DEF UnknownMachine
  <2>6. NamedMachine(b) = plain[b.type]
    BY <1>3, <2>5 DEF NamedMachine, named
  <2>7. b.type \in 0 .. 255 /\ b.mgt \in 0 .. 255
    BY <1>0, <2>1
  <2>8. QED  BY <2>4, <2>5, <2>6, <2>7 DEF named
<1>4. QED  BY <1>1, <1>2, <1>3

(* The joystick of our header is one of the snapshot's, or code 0.          *)
LEMMA JoystickCoded ==
  ASSUME NEW s
  PROVE  /\ JoystickCode(s) \in 0 .. 3
         /\ JoystickCode(s) = 1 => "KEMPSTON" \in Types(s)
         /\ JoystickCode(s) = 3 => "SINCLAIR_1" \in Types(s)
         /\ libspectrum_snap_joystick_list(s, 2) = "SINCLAIR_2" => "SINCLAIR_2" \in Types(s)
<1>1. ASSUME NEW i, libspectrum_snap_joystick_list(s, i) # "NONE"
      PROVE  libspectrum_snap_joystick_list(s, i) \in Types(s)
  BY <1>1, Zenon DEF libspectrum_snap_joystick_list, Types
<1> DEFINE type == libspectrum_snap_joystick_list(s, 1)
           n == CHOOSE i \in 1 .. 4 : Z80_JOYSTICKS[i] = type
<1>2. JoystickCode(s) = IF type \in Range(Z80_JOYSTICKS) THEN n - 1 ELSE 0
  BY Zenon DEF JoystickCode
<1>3. CASE type \in Range(Z80_JOYSTICKS)
  <2>1. DOMAIN Z80_JOYSTICKS = 1 .. 4 /\ Z80_JOYSTICKS[2] = "KEMPSTON"
        /\ Z80_JOYSTICKS[4] = "SINCLAIR_1"
    BY DEF Z80_JOYSTICKS
  <2>2. \E i \in 1 .. 4 : Z80_JOYSTICKS[i] = type
    BY <1>3, <2>1, Zenon DEF Range
  <2>3. n \in 1 .. 4 /\ Z80_JOYSTICKS[n] = type
    BY <2>2, Zenon
  <2> HIDE DEF n, type
  <2>4. n - 1 \in 0 .. 3 /\ (n - 1 = 1 => n = 2) /\ (n - 1 = 3 => n = 4)
    BY <2>3
  <2>5. (n = 2 => type = "KEMPSTON") /\ (n = 4 => type = "SINCLAIR_1")
    BY <2>1, <2>3
  <2>6. /\ type = "KEMPSTON" => "KEMPSTON" \in Types(s)
        /\ type = "SINCLAIR_1" => "SINCLAIR_1" \in Types(s)
    BY <1>1 DEF type
  <2>7. JoystickCode(s) = n - 1
    BY <1>2, <1>3, Zenon
  <2>8. QED  BY <1>1, <2>4, <2>5, <2>6, <2>7
<1>4. CASE type \notin Range(Z80_JOYSTICKS)
  <2>1. JoystickCode(s) = 0
    BY <1>2, <1>4, Zenon
  <2>2. QED  BY <1>1, <2>1
<1>5. QED  BY <1>3, <1>4

(* Our header is read, and makes nothing up.                                *)
LEMMA OwnHeaderTaken ==
  ASSUME NEW r, Usable(r), NEW s, Usable(s), s.machine \in Machines, From(r, s, "z80"),
         NEW c, c = write_header(s)[1]
  PROVE  /\ IsZ80Chunk(c)
         /\ LET res == Z80ReadChunk(r, c)
            IN  /\ res.err = "NONE" /\ Usable(res.snap) /\ res.snap.machine \in Machines
                /\ SameMemory(res.snap.machine, s.machine)
                /\ From(res.snap, s, "z80") /\ res.snap.pages = r.pages
<1> DEFINE b == c.body
           hardware == UNION { IF s.machine = "16" THEN {"modified"} ELSE {},
                               IF Active(s, "fuller") THEN {"fuller", "ay"} ELSE {},
                               IF Active(s, "melodik") THEN {"ay"} ELSE {} }
           res == Z80ReadChunk(r, c)
<1>1. /\ c.id = "HEADER" /\ b.version = 3 /\ b.type = MachineByte(s) /\ b.sp = s.sp
      /\ b.mgt = (IF Active(s, "plusd") THEN 16 ELSE 0)
      /\ b.joystick = JoystickCode(s)
      /\ b.if2_left = (libspectrum_snap_joystick_list(s, 2) = "SINCLAIR_2")
      /\ b.hardware = hardware
  BY HeaderFields
<1>2. /\ "modified" \in hardware <=> s.machine = "16"
      /\ "fuller" \in hardware <=> Active(s, "fuller")
      /\ "ay" \in hardware <=> Active(s, "fuller") \/ Active(s, "melodik")
  OBVIOUS
<1> HIDE DEF hardware
<1>3. /\ b.type \in 0 .. 255 /\ b.mgt \in 0 .. 255
      /\ get_machine_type(b) # UnknownMachine
      /\ SameMemory(NamedMachine(b), s.machine)
      /\ \A d \in get_machine_type(b)[2] : Active(s, d)
  <2> HIDE DEF b
  <2>1. "modified" \in b.hardware <=> s.machine = "16"
    BY <1>1, <1>2, Zenon
  <2>2. QED  BY <1>1, <2>1, MachineWritten, Zenon
<1>4. b.version \in 1 .. 3 /\ b.joystick \in 0 .. 3 /\ b.sp \in Addresses /\ b.version # 1
  BY <1>1, JoystickCoded DEF Usable
<1>5. IsZ80Chunk(c)
  BY <1>1, <1>3, <1>4, Zenon DEF IsZ80Chunk
<1>6. res = read_header(r, b)
  BY <1>1 DEF Z80ReadChunk
<1> HIDE DEF b, res
<1>7. /\ res.err = "NONE" /\ Usable(res.snap) /\ res.snap.machine \in Machines
      /\ res.snap.machine = NamedMachine(b)
      /\ \E u : /\ u.pages = r.pages /\ u.kit = r.kit
                /\ u.joysticks = get_joystick_type(b)
                /\ Changed(res.snap, u, NamedDevices(b))
  <2> DEFINE D == IF b.version = 1 THEN {} ELSE NamedDevices(b)
  <2>1. D = NamedDevices(b)
    BY <1>4, Zenon
  <2> DEFINE taken(x) ==
               /\ x.err = "NONE" /\ Usable(x.snap) /\ x.snap.machine \in Machines
               /\ b.version # 1 => x.snap.machine = NamedMachine(b)
               /\ \E u : /\ u.pages = r.pages /\ u.kit = r.kit
                         /\ u.joysticks = get_joystick_type(b)
                         /\ Changed(x.snap, u, D)
  <2>2. get_machine_type(b) = UnknownMachine \/ taken(read_header(r, b))
    BY <1>3, <1>4, HeaderTaken
  <2> HIDE DEF D
  <2>3. taken(res)
    <3> HIDE DEF taken
    <3>1. QED  BY <1>3, <1>6, <2>2, Zenon
  <2>4. QED  BY <1>4, <2>1, <2>3, Zenon
<1>8. PICK u : /\ u.pages = r.pages /\ u.kit = r.kit
               /\ u.joysticks = get_joystick_type(b)
               /\ Changed(res.snap, u, NamedDevices(b))
  BY <1>7, Zenon
<1>9. From(u, s, "z80")
  <2>1. PagesFrom(u, s)
    BY <1>8, Zenon DEF PagesFrom, From
  <2>2. DevicesFrom(u, s)
    <3>1. \A d : Device(u, d) = Device(r, d)
      BY <1>8 DEF Device
    <3>2. QED  BY <3>1, Zenon DEF DevicesFrom, Active, From
  <2>3. ASSUME NEW i \in DOMAIN u.joysticks
        PROVE  u.joysticks[i].type = "CURSOR" \/ u.joysticks[i].type \in Types(s)
    <3> DEFINE q == get_joystick_type(b)
    <3>1. \/ b.joystick = 0 /\ q[i].type = "CURSOR"
          \/ b.joystick = 1 /\ q[i].type = "KEMPSTON"
          \/ b.joystick = 2 /\ b.if2_left /\ q[i].type = "SINCLAIR_2"
          \/ b.joystick = 3 /\ q[i].type = "SINCLAIR_1"
      BY <1>1, <1>4, <1>8, <2>3, JoystickNamed, Zenon
    <3>2. q[i].type = u.joysticks[i].type
      BY <1>8, Zenon
    <3> HIDE DEF q
    <3>3. QED  BY <1>1, <3>1, <3>2, JoystickCoded
  <2>4. JoysticksFrom(u, s, "z80")
    BY <2>3, Zenon DEF JoysticksFrom, Types
  <2>5. QED  BY <2>1, <2>2, <2>4, Zenon DEF From
<1>10. \A d \in NamedDevices(b) : Active(s, d)
  <2>1. \A d \in SoundOf(b) : Active(s, d)
    BY <1>1, <1>2 DEF SoundOf
  <2>2. QED  BY <1>3, <2>1, Zenon DEF NamedDevices
<1>11. From(res.snap, s, "z80")
  BY <1>8, <1>9, <1>10, ChangedFrom, Zenon
<1>12. res.snap.pages = r.pages
  BY <1>8, Zenon DEF Changed
<1>13. QED  BY <1>3, <1>5, <1>7, <1>11, <1>12, Zenon DEF res

(* A block: of RAM, or a ROM.                                               *)
RamOf(c, m) == IF c.id = "PAGE" THEN PageOfBlock(m, c.body.page) ELSE {}

\* t is r with a page of RAM, or none, in which there is data.
Added(t, r, ram, data) ==
  /\ Shape(t) /\ t.machine = r.machine /\ t.sp = r.sp
  /\ t.joysticks = r.joysticks /\ t.kit = r.kit
  /\ t.pages = Over([p \in ram |-> data], r.pages)

LEMMA BlockTaken ==
  ASSUME NEW r, Usable(r), NEW b, b.page \in 0 .. 255
  PROVE  LET res == read_block(r, b)
             ram == PageOfBlock(r.machine, b.page)
         IN  \/ b.page \notin 1 .. 18 /\ res = Error(r, "UNKNOWN")
             \/ ram \intersect DOMAIN r.pages # {} /\ res = Error(r, "CORRUPT")
             \/ \E t : res = Ok(t) /\ Changed(t, r, {}) /\ b.page = 1
             \/ \E t : res = Ok(t) /\ Added(t, r, ram, b.data)
<1> DEFINE ram == PageOfBlock(r.machine, b.page)
           res == read_block(r, b)
           first(d) == b.page = 1 /\ Active(r, d)
           again == b.page \in 2 .. 18 /\ ram \intersect DOMAIN r.pages # {}
           if1 == Device(r, "if1")
           plusd == Device(r, "plusd")
<1>0. Shape(r) /\ IsDevice(if1) /\ IsDevice(plusd)
      /\ "if1" \in Devices \ Cards /\ "plusd" \in Devices \ Cards
  BY DEF Usable, Devices, Cards, CardSize
<1>1. CASE b.page \notin 1 .. 18
  <2>1. res = Error(r, "UNKNOWN")
    <3>1. b.page # 1 /\ ~(b.page \in 2 .. 18)
      BY <1>1
    <3> HIDE DEF if1, plusd, ram
    <3>2. QED  BY <1>1, <3>1, Zenon DEF read_block
  <2>2. QED  BY <1>1, <2>1, Zenon
<1>2. CASE first("if1")
  <2> DEFINE k == [if1 EXCEPT !.custom = TRUE, !.image = 16]
             t == SetDevice(r, "if1", k)
  <2>1. res = Ok(t)
    <3>1. b.page \in 1 .. 18 /\ ~(b.page \in 2 .. 18)
      BY <1>2
    <3>2. QED  BY <1>2, <3>1, Zenon DEF read_block
  <2>2. IsDevice(k) /\ k.active = Active(r, "if1")
    <3>1. if1.active = Active(r, "if1")
      BY Zenon DEF Active
    <3> HIDE DEF if1
    <3>2. QED  BY <1>0, <3>1 DEF IsDevice
  <2> HIDE DEF k
  <2>3. Changed(t, r, {})
    BY <1>0, <2>2, OneChanged, Zenon
  <2> HIDE DEF t
  <2>4. QED  BY <1>2, <2>1, <2>3, Zenon
<1>3. CASE first("plusd") /\ ~Active(r, "if1")
  <2> DEFINE k == [plusd EXCEPT !.image = 8, !.ram = {0}]
             t == SetDevice(r, "plusd", k)
  <2>1. res = Ok(t)
    <3>1. b.page \in 1 .. 18 /\ ~(b.page \in 2 .. 18)
      BY <1>3
    <3>2. QED  BY <1>3, <3>1, Zenon DEF read_block
  <2>2. IsDevice(k) /\ k.active = Active(r, "plusd")
    <3>1. plusd.active = Active(r, "plusd")
      BY Zenon DEF Active
    <3> DEFINE zero == {0}
    <3>2. zero \in SUBSET Nat
      OBVIOUS
    <3> HIDE DEF plusd, zero
    <3>3. [plusd EXCEPT !.image = 8, !.ram = zero].active = plusd.active
          /\ IsDevice([plusd EXCEPT !.image = 8, !.ram = zero])
      BY <1>0, <3>2 DEF IsDevice
    <3>4. QED  BY <3>1, <3>3 DEF zero
  <2> HIDE DEF k
  <2>3. Changed(t, r, {})
    BY <1>0, <2>2, OneChanged, Zenon
  <2> HIDE DEF t
  <2>4. QED  BY <1>3, <2>1, <2>3, Zenon
<1>4. CASE again
  <2>1. res = Error(r, "CORRUPT")
    <3>1. b.page \in 1 .. 18 /\ b.page # 1
      BY <1>4
    <3>2. QED  BY <1>4, <3>1, Zenon DEF read_block
  <2>2. QED  BY <1>4, <2>1, Zenon
<1>5. CASE b.page \in 1 .. 18 /\ ~first("if1") /\ ~(first("plusd") /\ ~Active(r, "if1")) /\ ~again
  <2> DEFINE t == [r EXCEPT !.pages = Over([p \in ram |-> b.data], @)]
  <2>1. res = Ok(t)
    BY <1>5, Zenon DEF read_block
  <2> HIDE DEF ram
  <2>2. Added(t, r, ram, b.data)
    BY <1>0, Zenon DEF Shape, Added
  <2> HIDE DEF t
  <2>3. QED  BY <1>5, <2>1, <2>2, Zenon DEF ram
<1>6. QED  BY <1>1, <1>2, <1>3, <1>4, <1>5, Zenon

(* Pages are added.                                                         *)
LEMMA AddedIs ==
  ASSUME NEW t, NEW r, NEW ram, NEW data, Added(t, r, ram, data)
  PROVE  /\ \A d : Device(t, d) = Device(r, d)
         /\ \A x \in ram : t.pages[x] = data
         /\ \A x \in DOMAIN r.pages \ ram : t.pages[x] = r.pages[x]
         /\ DOMAIN t.pages = ram \union DOMAIN r.pages
<1> DEFINE P == r.pages
           Q == t.pages
<1>0. t.kit = r.kit /\ Q = Over([p \in ram |-> data], P)
  BY Zenon DEF Added
<1>1. \A d : Device(t, d) = Device(r, d)
  BY <1>0 DEF Device
<1> HIDE DEF P, Q
<1>2. Q = [x \in ram \union DOMAIN P |-> IF x \in ram THEN data ELSE P[x]]
  BY <1>0 DEF Over
<1>3. /\ DOMAIN Q = ram \union DOMAIN P
      /\ \A x \in ram : Q[x] = data
      /\ \A x \in DOMAIN P \ ram : Q[x] = P[x]
  BY <1>2
<1>4. QED  BY <1>1, <1>3 DEF P, Q

LEMMA AddedUsable ==
  ASSUME NEW t, NEW r, NEW ram, NEW data, Added(t, r, ram, data), Usable(r)
  PROVE  Usable(t) /\ t.machine = r.machine
<1>1. \A d : Device(t, d) = Device(r, d)
  BY AddedIs, Zenon
<1>2. /\ Shape(t) /\ t.machine = r.machine /\ t.sp = r.sp
      /\ t.joysticks = r.joysticks
  BY Zenon DEF Added
<1>3. CardsFit(t)
  BY <1>1 DEF CardsFit, Usable
<1>4. QED  BY <1>1, <1>2, <1>3 DEF Usable

LEMMA AddedFrom ==
  ASSUME NEW t, NEW r, NEW s, NEW f, NEW ram, NEW data, Added(t, r, ram, data),
         From(r, s, f), \A p \in ram : p \in DOMAIN s.pages /\ data = s.pages[p]
  PROVE  From(t, s, f)
<1> DEFINE P == r.pages
<1>1. /\ \A d : Device(t, d) = Device(r, d)
      /\ \A x \in ram : t.pages[x] = data
      /\ \A x \in DOMAIN P \ ram : t.pages[x] = P[x]
      /\ DOMAIN t.pages = ram \union DOMAIN P
  BY AddedIs, Zenon
<1>2. t.joysticks = r.joysticks
  BY Zenon DEF Added
<1>3. PagesFrom(t, s)
  <2>1. ASSUME NEW p \in DOMAIN t.pages
        PROVE  IF p \in DOMAIN s.pages
               THEN t.pages[p] \in {s.pages[p], Stacked(s.pages[p])}
               ELSE \/ t.pages[p] \in {Blank, Stacked(Blank)}
                    \/ IsLevel(s, p) /\ t.pages[p] = LevelData
    <3> HIDE DEF P
    <3>1. CASE p \in ram
      BY <1>1, <3>1
    <3>2. CASE p \notin ram
      <4>1. p \in DOMAIN P /\ t.pages[p] = P[p]
        BY <1>1, <3>2
      <4>2. QED  BY <4>1, Zenon DEF From, PagesFrom, P
    <3>3. QED  BY <3>1, <3>2
  <2>2. QED  BY <2>1, Zenon DEF PagesFrom
<1>4. DevicesFrom(t, s)
  BY <1>1, Zenon DEF DevicesFrom, Active, From
<1>5. JoysticksFrom(t, s, f)
  BY <1>2, Zenon DEF JoysticksFrom, From
<1>6. QED  BY <1>3, <1>4, <1>5, Zenon DEF From

(* A reader of .z80 chunks keeps the snapshot usable while it reads.        *)
LEMMA Z80Reads ==
  ASSUME NEW r, Usable(r), NEW c, IsZ80Chunk(c)
  PROVE  LET res == Z80ReadChunk(r, c)
         IN  res.err = "NONE" =>
               /\ Usable(res.snap)
               /\ IF c.id = "HEADER" THEN res.snap.machine \in Machines
                                     ELSE res.snap.machine = r.machine
<1> DEFINE b == c.body
           res == Z80ReadChunk(r, c)
<1>0. Shape(r)
  BY DEF Usable
<1>1. CASE c.id = "HEADER"
  <2>1. res = read_header(r, b)
    BY <1>1 DEF Z80ReadChunk
  <2>2. b.version \in 1 .. 3 /\ b.type \in 0 .. 255 /\ b.joystick \in 0 .. 3
        /\ b.sp \in Addresses
    BY <1>1 DEF IsZ80Chunk
  <2> DEFINE x == read_header(r, b)
  <2>3. \/ x.err = "UNKNOWN"
        \/ x.err = "NONE" /\ Usable(x.snap) /\ x.snap.machine \in Machines
    BY <2>2, HeaderTaken
  <2> HIDE DEF res, x, b
  <2>4. res = x
    BY <2>1 DEF x
  <2>5. QED  BY <1>1, <2>3, <2>4 DEF res
<1>2. CASE c.id = "RAM48"
  <2> DEFINE t == [r EXCEPT !.pages = b]
  <2>1. res = Ok(t)
    <3>1. res = read_v1_block(r, b)
      BY <1>2 DEF Z80ReadChunk
    <3>2. QED  BY <3>1, Zenon DEF read_v1_block
  <2>2. /\ Shape(t) /\ t.machine = r.machine /\ t.sp = r.sp
        /\ t.joysticks = r.joysticks /\ t.kit = r.kit
    BY <1>0, Zenon DEF Shape
  <2> HIDE DEF t
  <2>3. \A d : Device(t, d) = Device(r, d)
    BY <2>2 DEF Device
  <2>4. CardsFit(t)
    BY <2>3 DEF CardsFit, Usable
  <2>5. Usable(t)
    BY <2>2, <2>3, <2>4 DEF Usable
  <2> HIDE DEF res
  <2>6. res.snap = t
    BY <2>1, OkIs
  <2>7. c.id # "HEADER"
    BY <1>2
  <2>8. QED  BY <2>2, <2>5, <2>6, <2>7, Zenon DEF res
<1>3. CASE c.id = "SLT"
  <2> DEFINE t == [r EXCEPT !.slt = b.levels]
  <2>1. res = read_slt(r, b)
    BY <1>3 DEF Z80ReadChunk
  <2>2. res = Ok(t) \/ res = Error(r, "UNKNOWN")
    BY <2>1, Zenon DEF read_slt
  <2>3. Kept(t, r) /\ t.machine = r.machine /\ t.sp = r.sp
    BY <1>0, Zenon DEF Shape, Kept
  <2> HIDE DEF t, res
  <2>4. Usable(t)
    BY <2>3, KeptUsable DEF Usable
  <2>5. (res.snap = t \/ res.snap = r) /\ c.id # "HEADER"
    BY <1>3, <2>2, OkIs, ErrorIs
  <2>6. QED  BY <2>3, <2>4, <2>5, Zenon DEF res
<1>4. CASE c.id = "PAGE"
  <2>1. res = read_block(r, b)
    BY <1>4 DEF Z80ReadChunk
  <2>2. b.page \in 0 .. 255
    BY <1>4 DEF IsZ80Chunk
  <2> DEFINE ram == PageOfBlock(r.machine, b.page)
             x == read_block(r, b)
  <2>3. \/ x = Error(r, "UNKNOWN")
        \/ x = Error(r, "CORRUPT")
        \/ \E t : x = Ok(t) /\ Changed(t, r, {})
        \/ \E t : x = Ok(t) /\ Added(t, r, ram, b.data)
    BY <2>2, BlockTaken, Zenon
  <2> HIDE DEF x, ram, res
  <2>4. res = x
    BY <2>1, Zenon DEF x
  <2>5. Usable(x.snap) /\ x.snap.machine = r.machine
    <3>1. CASE x = Error(r, "UNKNOWN") \/ x = Error(r, "CORRUPT")
      <4>1. x.snap = r
        BY <3>1, ErrorIs
      <4>2. QED  BY <4>1
    <3>2. CASE \E t : x = Ok(t) /\ Changed(t, r, {})
      <4>1. PICK t : x = Ok(t) /\ Changed(t, r, {})
        BY <3>2
      <4>2. Usable(t) /\ t.machine = r.machine
        BY <4>1, ChangedUsable, Zenon DEF Changed
      <4>3. x.snap = t
        BY <4>1, OkIs
      <4>4. QED  BY <4>2, <4>3
    <3>3. CASE \E t : x = Ok(t) /\ Added(t, r, ram, b.data)
      <4>1. PICK t : x = Ok(t) /\ Added(t, r, ram, b.data)
        BY <3>3
      <4>2. Usable(t) /\ t.machine = r.machine
        BY <4>1, AddedUsable, Zenon
      <4>3. x.snap = t
        BY <4>1, OkIs
      <4>4. QED  BY <4>1, <4>2, <4>3
    <3>4. QED  BY <2>3, <3>1, <3>2, <3>3
  <2>6. c.id # "HEADER"
    BY <1>4
  <2>7. QED  BY <2>4, <2>5, <2>6, Zenon DEF res
<1>5. c.id \in { "HEADER", "RAM48", "SLT", "PAGE" }
  BY DEF IsZ80Chunk
<1>6. QED  BY <1>1, <1>2, <1>3, <1>4, <1>5

LEMMA Z80Ends ==
  ASSUME NEW r, Usable(r)
  PROVE  Changed(Z80ReadEnd(r), r, {})
<1> DEFINE old == Device(r, "if1")
           k == [old EXCEPT !.regs = 8]
<1>1. CASE Active(r, "if1")
  <2>1. Z80ReadEnd(r) = SetDevice(r, "if1", k)
    BY <1>1, Zenon DEF Z80ReadEnd
  <2>2. IsDevice(old) /\ "if1" \in Devices \ Cards
    BY DEF Usable, Devices, Cards, CardSize
  <2> HIDE DEF old
  <2>3. IsDevice(k)
    BY <2>2 DEF IsDevice
  <2> HIDE DEF k
  <2>4. Changed(SetDevice(r, "if1", k), r, {})
    BY <1>1, <2>2, <2>3, OneChanged, Zenon
  <2>5. QED  BY <2>1, <2>4, Zenon
<1>2. CASE ~Active(r, "if1")
  <2>1. Z80ReadEnd(r) = r
    BY <1>2, Zenon DEF Z80ReadEnd
  <2>2. Changed(r, r, {})
    BY UnchangedIs DEF Kept, Usable
  <2>3. QED  BY <2>1, <2>2, Zenon
<1>3. QED  BY <1>1, <1>2

\* A block of a file that was written from s, and the blocks that are left.
OwnBlock(c, s) ==
  \/ /\ c.id = "PAGE" /\ c.body.page \in 1 .. 18
     /\ \A p \in RamOf(c, s.machine) : p \in DOMAIN s.pages /\ c.body.data = s.pages[p]
  \/ c.id = "SLT" /\ s.slt # {} /\ ~c.body.directory

OwnBlocks(q, s) ==
  /\ IsSequence(q)
  /\ \A i \in 1 .. Len(q) : OwnBlock(q[i], s)
  /\ \A i, j \in 1 .. Len(q) :
        i # j => RamOf(q[i], s.machine) \intersect RamOf(q[j], s.machine) = {}

(* A block of ours whose page was not read before is taken.                 *)
LEMMA OwnBlockTaken ==
  ASSUME NEW r, Usable(r), NEW s, From(r, s, "z80"), SameMemory(r.machine, s.machine),
         NEW c, OwnBlock(c, s), RamOf(c, s.machine) \intersect DOMAIN r.pages = {}
  PROVE  /\ IsZ80Chunk(c)
         /\ LET res == Z80ReadChunk(r, c)
            IN  /\ From(res.snap, s, "z80")
                /\ \/ res.err = "NONE"
                   \/ s.slt # {}
                /\ res.err = "NONE" =>
                     /\ Usable(res.snap) /\ SameMemory(res.snap.machine, s.machine)
                     /\ DOMAIN res.snap.pages \subseteq
                          DOMAIN r.pages \union RamOf(c, s.machine)
<1> DEFINE b == c.body
           res == Z80ReadChunk(r, c)
<1>1. IsZ80Chunk(c)
  BY DEF IsZ80Chunk, OwnBlock
<1>2. CASE c.id = "SLT"
  <2>1. s.slt # {} /\ ~b.directory
    BY <1>2 DEF OwnBlock
  <2>2. res = Error(r, "UNKNOWN")
    <3>1. res = read_slt(r, b)
      BY <1>2 DEF Z80ReadChunk
    <3>2. QED  BY <2>1, <3>1, Zenon DEF read_slt
  <2> HIDE DEF res
  <2>3. res.snap = r /\ res.err = "UNKNOWN"
    BY <2>2, ErrorIs
  <2>4. res.err # "NONE"
    BY <2>3
  <2>5. QED  BY <1>1, <2>1, <2>3, <2>4, Zenon DEF res
<1>3. CASE c.id = "PAGE"
  <2> DEFINE ram == PageOfBlock(r.machine, b.page)
             data == b.data
             x == read_block(r, b)
  <2>1. b.page \in 1 .. 18 /\ b.page \in 0 .. 255
        /\ \A p \in RamOf(c, s.machine) : p \in DOMAIN s.pages /\ data = s.pages[p]
    BY <1>3 DEF OwnBlock
  <2>2. ram = RamOf(c, s.machine)
    BY <1>3 DEF SameMemory, PageOfBlock, RamOf
  <2>3. res = x
    BY <1>3 DEF Z80ReadChunk
  <2>4. \/ \E t : x = Ok(t) /\ Changed(t, r, {})
        \/ \E t : x = Ok(t) /\ Added(t, r, ram, data)
    BY <2>1, <2>2, BlockTaken, Zenon
  <2> HIDE DEF x, ram, data, res
  <2>5. CASE \E t : x = Ok(t) /\ Changed(t, r, {})
    <3>1. PICK t : x = Ok(t) /\ Changed(t, r, {})
      BY <2>5
    <3>2. /\ Usable(t) /\ t.machine = r.machine /\ t.pages = r.pages
      BY <3>1, ChangedUsable, Zenon DEF Changed
    <3>3. From(t, s, "z80")
      BY <3>1, ChangedFrom
    <3>4. res.snap = t /\ res.err = "NONE"
      BY <2>3, <3>1, OkIs
    <3>5. DOMAIN t.pages \subseteq DOMAIN r.pages \union RamOf(c, s.machine)
      BY <3>2
    <3>6. QED  BY <1>1, <3>2, <3>3, <3>4, <3>5, Zenon DEF res
  <2>6. CASE \E t : x = Ok(t) /\ Added(t, r, ram, data)
    <3>1. PICK t : x = Ok(t) /\ Added(t, r, ram, data)
      BY <2>6
    <3>2. /\ Usable(t) /\ t.machine = r.machine
          /\ DOMAIN t.pages = ram \union DOMAIN r.pages
      BY <3>1, AddedUsable, AddedIs, Zenon
    <3>3. From(t, s, "z80")
      BY <2>1, <2>2, <3>1, AddedFrom
    <3>4. res.snap = t /\ res.err = "NONE"
      BY <2>3, <3>1, OkIs
    <3>5. DOMAIN t.pages \subseteq DOMAIN r.pages \union RamOf(c, s.machine)
      BY <2>2, <3>2
    <3>6. QED  BY <1>1, <3>2, <3>3, <3>4, <3>5, Zenon DEF res
  <2>7. QED  BY <2>4, <2>5, <2>6
<1>4. QED  BY <1>2, <1>3 DEF OwnBlock


\* Blocks that are for no page of RAM.
Bare(q, s) == \A i \in 1 .. Len(q) : RamOf(q[i], s.machine) = {}

(* Blocks of ours one after the other: not both are for pages of RAM.       *)
LEMMA BlocksJoined ==
  ASSUME NEW s, NEW a, NEW b, OwnBlocks(a, s), OwnBlocks(b, s), Bare(a, s) \/ Bare(b, s)
  PROVE  OwnBlocks(a \o b, s) /\ (Bare(a, s) /\ Bare(b, s) => Bare(a \o b, s))
<1> DEFINE q == a \o b
           ram(c) == RamOf(c, s.machine)
<1>0. IsSequence(a) /\ IsSequence(b)
  BY DEF OwnBlocks
<1>1. Len(a) \in Nat /\ Len(b) \in Nat
  BY <1>0, SequenceShape
<1>2. /\ IsSequence(q) /\ Len(q) = Len(a) + Len(b)
      /\ \A i \in 1 .. Len(a) + Len(b) :
           q[i] = IF i <= Len(a) THEN a[i] ELSE b[i - Len(a)]
  BY <1>0, Concatenated
<1> HIDE DEF q
<1>3. \A i \in 1 .. Len(q) :
        \/ i \in 1 .. Len(a) /\ q[i] = a[i]
        \/ i > Len(a) /\ i - Len(a) \in 1 .. Len(b) /\ q[i] = b[i - Len(a)]
  BY <1>1, <1>2
<1>4. \A i \in 1 .. Len(q) : OwnBlock(q[i], s)
  BY <1>3 DEF OwnBlocks
<1>5. ASSUME NEW i \in 1 .. Len(q), NEW j \in 1 .. Len(q), i # j
      PROVE  ram(q[i]) \intersect ram(q[j]) = {}
  <2>1. CASE i \in 1 .. Len(a) /\ q[i] = a[i] /\ j \in 1 .. Len(a) /\ q[j] = a[j]
    <3>1. ram(a[i]) \intersect ram(a[j]) = {}
      BY <1>5, <2>1, Zenon DEF OwnBlocks
    <3>2. QED  BY <2>1, <3>1
  <2>2. CASE /\ i > Len(a) /\ i - Len(a) \in 1 .. Len(b) /\ q[i] = b[i - Len(a)]
             /\ j > Len(a) /\ j - Len(a) \in 1 .. Len(b) /\ q[j] = b[j - Len(a)]
    <3>1. i - Len(a) # j - Len(a)
      BY <1>1, <1>2, <1>5
    <3>2. ram(b[i - Len(a)]) \intersect ram(b[j - Len(a)]) = {}
      BY <2>2, <3>1, Zenon DEF OwnBlocks
    <3>3. QED  BY <2>2, <3>2
  <2>3. CASE /\ i \in 1 .. Len(a) /\ q[i] = a[i]
             /\ j - Len(a) \in 1 .. Len(b) /\ q[j] = b[j - Len(a)]
    <3>1. ram(a[i]) = {} \/ ram(b[j - Len(a)]) = {}
      BY <2>3, Zenon DEF Bare
    <3>2. QED  BY <2>3, <3>1
  <2>4. CASE /\ j \in 1 .. Len(a) /\ q[j] = a[j]
             /\ i - Len(a) \in 1 .. Len(b) /\ q[i] = b[i - Len(a)]
    <3>1. ram(a[j]) = {} \/ ram(b[i - Len(a)]) = {}
      BY <2>4, Zenon DEF Bare
    <3>2. QED  BY <2>4, <3>1
  <2>5. QED  BY <1>3, <2>1, <2>2, <2>3, <2>4
<1>6. OwnBlocks(q, s)
  BY <1>2, <1>4, <1>5, Zenon DEF OwnBlocks
<1>7. Bare(a, s) /\ Bare(b, s) => Bare(q, s)
  BY <1>3 DEF Bare
<1>8. QED  BY <1>6, <1>7, Zenon DEF q

LEMMA NoBlock ==
  ASSUME NEW s
  PROVE  OwnBlocks(<<>>, s) /\ Bare(<<>>, s)
<1>1. IsSequence(<<>>) /\ Len(<<>>) = 0
  BY DEF IsSequence
<1>2. \A i \in 1 .. 0 : FALSE
  OBVIOUS
<1>3. QED  BY <1>1, <1>2 DEF OwnBlocks, Bare

LEMMA OneBlock ==
  ASSUME NEW s, NEW c, OwnBlock(c, s)
  PROVE  OwnBlocks(<<c>>, s) /\ (RamOf(c, s.machine) = {} => Bare(<<c>>, s))
<1>1. <<c>> \in Seq({c}) /\ Len(<<c>>) = 1 /\ <<c>>[1] = c
  OBVIOUS
<1> DEFINE q == <<c>>
<1> HIDE DEF q
<1>2. IsSequence(q)
  BY <1>1, SequenceOver DEF q
<1>3. \A i \in 1 .. Len(q) : i = 1 /\ q[i] = c
  BY <1>1 DEF q
<1>4. \A i \in 1 .. Len(q) : OwnBlock(q[i], s)
  BY <1>3
<1>5. \A i, j \in 1 .. Len(q) :
        i # j => RamOf(q[i], s.machine) \intersect RamOf(q[j], s.machine) = {}
  BY <1>3
<1>6. RamOf(c, s.machine) = {} => Bare(q, s)
  BY <1>3 DEF Bare
<1>7. QED  BY <1>2, <1>4, <1>5, <1>6, Zenon DEF q, OwnBlocks

LEMMA WhenBlock ==
  ASSUME NEW s, NEW g, NEW q, g => OwnBlocks(q, s) /\ Bare(q, s)
  PROVE  OwnBlocks(When(g, q), s) /\ Bare(When(g, q), s)
<1>1. CASE g
  BY <1>1, Zenon DEF When
<1>2. CASE ~g
  BY <1>2, NoBlock, Zenon DEF When
<1>3. QED  BY <1>1, <1>2

(* The pages of a machine and their numbers in the file.                    *)
LEMMA BlockNumbers ==
  ASSUME NEW m
  PROVE  \E n \in Nat :
           /\ DOMAIN BlocksInOrder(m) = 1 .. n
           /\ \A i \in 1 .. n :
                LET o == BlocksInOrder(m)[i]
                IN  o[2] \in 1 .. 18 /\ PageOfBlock(m, o[2]) \subseteq {o[1]}
           /\ \A i, j \in 1 .. n :
                i # j => BlocksInOrder(m)[i][1] # BlocksInOrder(m)[j][1]
<1> DEFINE order == BlocksInOrder(m)
<1>1. CASE m \notin MEMORY_128
  <2>2. m \notin SCORP_MEMORY
    BY <1>1 DEF MEMORY_128, TRDOS_DISK, SCORP_MEMORY
  <2>1. order = << <<2, 4>>, <<0, 5>>, <<5, 8>> >>
    BY <1>1, <2>2, Zenon DEF BlocksInOrder
  <2>3. PageOfBlock(m, 4) = {2} /\ PageOfBlock(m, 5) = {0} /\ PageOfBlock(m, 8) = {5}
    BY <1>1 DEF PageOfBlock
  <2> HIDE DEF order
  <2>4. /\ DOMAIN order = 1 .. 3
        /\ \A i \in 1 .. 3 : \/ order[i] = <<2, 4>> /\ i = 1
                             \/ order[i] = <<0, 5>> /\ i = 2
                             \/ order[i] = <<5, 8>> /\ i = 3
    BY <2>1
  <2>5. \A i \in 1 .. 3 : /\ order[i][2] \in 1 .. 18
                          /\ PageOfBlock(m, order[i][2]) \subseteq {order[i][1]}
    BY <2>3, <2>4
  <2>6. \A i, j \in 1 .. 3 : i # j => order[i][1] # order[j][1]
    BY <2>4
  <2>7. QED  BY <2>4, <2>5, <2>6 DEF order
<1>2. ASSUME m \in MEMORY_128, NEW n \in Nat, n <= 16, m \notin SCORP_MEMORY => n = 8,
             order = [i \in 1 .. n |-> <<i - 1, i + 2>>]
      PROVE  \E k \in Nat :
               /\ DOMAIN BlocksInOrder(m) = 1 .. k
               /\ \A i \in 1 .. k :
                    LET o == BlocksInOrder(m)[i]
                    IN  o[2] \in 1 .. 18 /\ PageOfBlock(m, o[2]) \subseteq {o[1]}
               /\ \A i, j \in 1 .. k :
                    i # j => BlocksInOrder(m)[i][1] # BlocksInOrder(m)[j][1]
  <2> HIDE DEF order
  <2>1. /\ DOMAIN order = 1 .. n
        /\ \A i \in 1 .. n : order[i] = <<i - 1, i + 2>>
    BY <1>2
  <2>2. \A i \in 1 .. n : order[i][1] = i - 1 /\ order[i][2] = i + 2
    BY <2>1
  <2>3. ASSUME NEW i \in 1 .. n
        PROVE  order[i][2] \in 1 .. 18 /\ PageOfBlock(m, order[i][2]) \subseteq {order[i][1]}
    <3>1. i + 2 \in 1 .. 18 /\ i + 2 >= 3 /\ (i + 2) - 3 = i - 1
      BY <1>2
    <3>2. \A p \in 3 .. 18 : PageOfBlock(m, p) \subseteq {p - 3}
      BY <1>2 DEF PageOfBlock
    <3>3. QED  BY <2>2, <3>1, <3>2
  <2>4. \A i, j \in 1 .. n : i # j => order[i][1] # order[j][1]
    BY <2>2
  <2>5. QED  BY <2>1, <2>3, <2>4 DEF order
<1>3. CASE m \in MEMORY_128 /\ m \in SCORP_MEMORY
  <2>1. order = [i \in 1 .. 16 |-> <<i - 1, i + 2>>]
    BY <1>3, Zenon DEF BlocksInOrder
  <2> HIDE DEF order
  <2>2. 16 \in Nat /\ 16 <= 16
    OBVIOUS
  <2>3. QED  BY <1>2, <1>3, <2>1, <2>2
<1>4. CASE m \in MEMORY_128 /\ m \notin SCORP_MEMORY
  <2>1. order = [i \in 1 .. 8 |-> <<i - 1, i + 2>>]
    BY <1>4, Zenon DEF BlocksInOrder
  <2> HIDE DEF order
  <2>2. 8 \in Nat /\ 8 <= 16
    OBVIOUS
  <2>3. QED  BY <1>2, <1>4, <2>1, <2>2
<1>5. QED  BY <1>1, <1>3, <1>4

(* The pages are written in order, each once.                               *)
LEMMA PageBlocks ==
  ASSUME NEW s
  PROVE  LET order == BlocksInOrder(s.machine)
         IN  OwnBlocks(FlattenSeq([i \in DOMAIN order |->
                                     When(order[i][1] \in DOMAIN s.pages,
                                          Page(order[i][2], s.pages[order[i][1]]))]), s)
<1> DEFINE m == s.machine
           order == BlocksInOrder(m)
           there(i) == order[i][1] \in DOMAIN s.pages
           chunk(i) == Chunk("PAGE", [page |-> order[i][2], data |-> s.pages[order[i][1]]])
           ss == [i \in DOMAIN order |->
                    When(order[i][1] \in DOMAIN s.pages,
                         Page(order[i][2], s.pages[order[i][1]]))]
           q == FlattenSeq(ss)
<1>1. PICK n \in Nat :
        /\ DOMAIN order = 1 .. n
        /\ \A i \in 1 .. n : /\ order[i][2] \in 1 .. 18
                             /\ PageOfBlock(m, order[i][2]) \subseteq {order[i][1]}
        /\ \A i, j \in 1 .. n : i # j => order[i][1] # order[j][1]
  BY BlockNumbers
<1>2. ASSUME NEW i \in 1 .. n
      PROVE  /\ ss[i] = (IF there(i) THEN <<chunk(i)>> ELSE <<>>)
             /\ there(i) => OwnBlock(chunk(i), s)
             /\ RamOf(chunk(i), m) \subseteq {order[i][1]}
  <2>1. ss[i] = When(there(i), Page(order[i][2], s.pages[order[i][1]]))
    BY <1>1
  <2> DEFINE number == order[i][2]
             p == order[i][1]
             c == chunk(i)
  <2>2. number \in 1 .. 18 /\ PageOfBlock(m, number) \subseteq {p}
    BY <1>1
  <2>3. /\ c.id = "PAGE" /\ c.body.page = number /\ c.body.data = s.pages[p]
    BY DEF Chunk
  <2> HIDE DEF number, p
  <2>4. RamOf(c, m) \subseteq {p}
    <3> HIDE DEF c
    <3>1. QED  BY <2>2, <2>3 DEF RamOf
  <2>5. p \in DOMAIN s.pages => OwnBlock(c, s)
    <3> HIDE DEF c
    <3>1. QED  BY <2>2, <2>3, <2>4 DEF OwnBlock, m
  <2>6. ss[i] = (IF there(i) THEN <<c>> ELSE <<>>)
    BY <2>1, Zenon DEF When, Page
  <2>7. QED  BY <2>4, <2>5, <2>6 DEF p
<1>3. IsSequence(ss) /\ Len(ss) = n
  <2>1. DOMAIN ss = 1 .. n /\ ss = [i \in 1 .. n |-> ss[i]]
    BY <1>1, Zenon
  <2> HIDE DEF ss
  <2>2. QED  BY <2>1, ListedSequence
<1> HIDE DEF ss, chunk, there
<1>4. ASSUME NEW i \in 1 .. n
      PROVE  /\ IsSequence(ss[i]) /\ Len(ss[i]) \in 0 .. 1
             /\ \A j \in 1 .. Len(ss[i]) :
                  OwnBlock(ss[i][j], s) /\ RamOf(ss[i][j], m) \subseteq {order[i][1]}
  <2>1. CASE there(i)
    <3> DEFINE c == chunk(i)
    <3>1. ss[i] = <<c>> /\ OwnBlock(c, s) /\ RamOf(c, m) \subseteq {order[i][1]}
      BY <1>2, <2>1
    <3> HIDE DEF c
    <3>2. <<c>> \in Seq({c}) /\ Len(<<c>>) = 1 /\ <<c>>[1] = c
      OBVIOUS
    <3>3. IsSequence(<<c>>)
      BY <3>2, SequenceOver
    <3>4. \A j \in 1 .. 1 : j = 1
      OBVIOUS
    <3>5. QED  BY <3>1, <3>2, <3>3, <3>4
  <2>2. CASE ~there(i)
    <3>1. ss[i] = <<>>
      BY <1>2, <2>2
    <3>2. IsSequence(<<>>) /\ Len(<<>>) = 0
      BY DEF IsSequence
    <3>3. \A j \in 1 .. 0 : FALSE
      OBVIOUS
    <3>4. QED  BY <3>1, <3>2, <3>3
  <2>3. QED  BY <2>1, <2>2
<1>5. \E place, off : Laid(FlattenSeq(ss), ss, Len(ss), place, off)
  BY <1>3, <1>4, Flattened
<1>6. PICK place, off : Laid(q, ss, n, place, off)
  BY <1>3, <1>5
<1> HIDE DEF q
<1>7. /\ IsSequence(q)
      /\ \A x \in 1 .. Len(q) :
            /\ place[x] \in 1 .. n /\ off[x] \in 1 .. Len(ss[place[x]])
            /\ q[x] = ss[place[x]][off[x]]
      /\ \A x, y \in 1 .. Len(q) :
            x < y => place[x] < place[y] \/ (place[x] = place[y] /\ off[x] < off[y])
  BY <1>6, Zenon DEF Laid
<1>8. Len(q) \in Nat
  BY <1>7, SequenceShape
<1>9. \A x \in 1 .. Len(q) :
        OwnBlock(q[x], s) /\ RamOf(q[x], m) \subseteq {order[place[x]][1]} /\ off[x] = 1
  <2>1. ASSUME NEW x \in 1 .. Len(q)
        PROVE  OwnBlock(q[x], s) /\ RamOf(q[x], m) \subseteq {order[place[x]][1]} /\ off[x] = 1
    <3> DEFINE i == place[x]
               j == off[x]
    <3>1. i \in 1 .. n /\ j \in 1 .. Len(ss[i]) /\ q[x] = ss[i][j]
      BY <1>7
    <3> HIDE DEF i, j, m
    <3>2. /\ Len(ss[i]) \in 0 .. 1
          /\ OwnBlock(ss[i][j], s) /\ RamOf(ss[i][j], m) \subseteq {order[i][1]}
      BY <1>4, <3>1
    <3>3. j = 1
      BY <3>1, <3>2
    <3>4. QED  BY <3>1, <3>2, <3>3, Zenon DEF i, j
  <2>2. QED  BY <2>1
<1>10. \A x, y \in 1 .. Len(q) : x < y => place[x] < place[y]
  BY <1>7, <1>9
<1>11. \A x, y \in 1 .. Len(q) : x # y => place[x] # place[y]
  <2>1. \A x, y \in 1 .. Len(q) : x # y => x < y \/ y < x
    BY <1>8
  <2>2. \A x \in 1 .. Len(q) : place[x] \in Nat
    BY <1>7
  <2>3. QED  BY <1>10, <2>1, <2>2
<1>12. \A x, y \in 1 .. Len(q) : x # y => RamOf(q[x], m) \intersect RamOf(q[y], m) = {}
  <2>1. ASSUME NEW x \in 1 .. Len(q), NEW y \in 1 .. Len(q), x # y
        PROVE  RamOf(q[x], m) \intersect RamOf(q[y], m) = {}
    <3> DEFINE a == order[place[x]][1]
               b == order[place[y]][1]
    <3>0. place[x] \in 1 .. n /\ place[y] \in 1 .. n /\ place[x] # place[y]
      BY <1>7, <1>11, <2>1
    <3> HIDE DEF order
    <3>1. a # b
      BY <1>1, <3>0
    <3>2. RamOf(q[x], m) \subseteq {a} /\ RamOf(q[y], m) \subseteq {b}
      BY <1>9
    <3> HIDE DEF a, b
    <3>3. QED  BY <3>1, <3>2
  <2>2. QED  BY <2>1
<1>13. OwnBlocks(q, s)
  BY <1>7, <1>9, <1>12, Zenon DEF OwnBlocks, m
<1>14. QED  BY <1>13, Zenon DEF q, ss

(* The blocks of a file are the ROMs, the pages and the levels.             *)
LEMMA Z80Writes ==
  ASSUME NEW s
  PROVE  LET q == write_header(s) \o write_pages(s) \o write_slt(s)
         IN  /\ IsSequence(q) /\ Len(q) >= 1 /\ q[1] = write_header(s)[1]
             /\ OwnBlocks(Tail(q), s)
<1> DEFINE order == BlocksInOrder(s.machine)
           rom(d) == When(Active(s, d) /\ Device(s, d).custom, Page(1, Blank))
           if1 == rom("if1")
           plusd == rom("plusd")
           ram == FlattenSeq([i \in DOMAIN order |->
                                When(order[i][1] \in DOMAIN s.pages,
                                     Page(order[i][2], s.pages[order[i][1]]))])
           pages == write_pages(s)
           slt == write_slt(s)
           rest == pages \o slt
           head == write_header(s)
           c == head[1]
           q == head \o pages \o slt
<1>1. ASSUME NEW d
      PROVE  OwnBlocks(rom(d), s) /\ Bare(rom(d), s)
  <2> DEFINE k == Chunk("PAGE", [page |-> 1, data |-> Blank])
             on == Active(s, d) /\ Device(s, d).custom
  <2>1. k.id = "PAGE" /\ k.body.page = 1
    BY DEF Chunk
  <2>2. Page(1, Blank) = <<k>>
    BY Zenon DEF Page
  <2> HIDE DEF k, on
  <2>3. RamOf(k, s.machine) = {}
    BY <2>1 DEF RamOf, PageOfBlock
  <2>4. OwnBlock(k, s)
    BY <2>1, <2>3 DEF OwnBlock
  <2> DEFINE one == <<k>>
  <2>5. OwnBlocks(one, s) /\ Bare(one, s)
    BY <2>3, <2>4, OneBlock
  <2> HIDE DEF one
  <2>6. OwnBlocks(When(on, one), s) /\ Bare(When(on, one), s)
    BY <2>5, WhenBlock
  <2>7. QED  BY <2>2, <2>6, Zenon DEF on, one
<1>2. OwnBlocks(ram, s)
  BY PageBlocks
<1>3. pages = (if1 \o plusd) \o ram
  BY Zenon DEF write_pages
<1>4. OwnBlocks(if1, s) /\ Bare(if1, s) /\ OwnBlocks(plusd, s) /\ Bare(plusd, s)
  BY <1>1
<1> HIDE DEF if1, plusd, ram, rom
<1>5. OwnBlocks(if1 \o plusd, s) /\ Bare(if1 \o plusd, s)
  BY <1>4, BlocksJoined
<1> DEFINE roms == if1 \o plusd
<1> HIDE DEF roms
<1>6. OwnBlocks(roms \o ram, s)
  <2>1. OwnBlocks(roms, s) /\ Bare(roms, s)
    BY <1>5 DEF roms
  <2>2. QED  BY <1>2, <2>1, BlocksJoined
<1>7. OwnBlocks(pages, s)
  BY <1>3, <1>6, Zenon DEF roms
<1>8. OwnBlocks(slt, s) /\ Bare(slt, s)
  <2> DEFINE k == Chunk("SLT", [levels |-> s.slt, directory |-> FALSE])
             g == s.slt # {}
  <2>1. k.id = "SLT" /\ ~k.body.directory
    BY DEF Chunk
  <2>2. slt = When(g, <<k>>)
    BY Zenon DEF write_slt
  <2> HIDE DEF k, slt
  <2>3. RamOf(k, s.machine) = {}
    BY <2>1 DEF RamOf
  <2>4. g => OwnBlock(k, s)
    BY <2>1 DEF OwnBlock
  <2> DEFINE one == <<k>>
  <2> HIDE DEF g
  <2>5. g => OwnBlocks(one, s) /\ Bare(one, s)
    BY <2>3, <2>4, OneBlock
  <2> HIDE DEF one
  <2>6. OwnBlocks(When(g, one), s) /\ Bare(When(g, one), s)
    BY <2>5, WhenBlock
  <2>7. QED  BY <2>2, <2>6, Zenon DEF one
<1> HIDE DEF pages, slt
<1>9. OwnBlocks(rest, s)
  BY <1>7, <1>8, BlocksJoined
<1>10. head = <<c>>
  BY HeaderFields, Zenon
<1> HIDE DEF head, c
<1>11. /\ IsSequence(head) /\ Len(head) = 1 /\ head[1] = c
  <2>1. <<c>> \in Seq({c}) /\ Len(<<c>>) = 1 /\ <<c>>[1] = c
    OBVIOUS
  <2>2. IsSequence(<<c>>)
    BY <2>1, SequenceOver
  <2>3. QED  BY <1>10, <2>1, <2>2
<1>12. IsSequence(pages) /\ IsSequence(slt) /\ IsSequence(rest)
  BY <1>7, <1>8, <1>9 DEF OwnBlocks
<1>13. q = head \o rest
  BY <1>11, <1>12, ThreeParts
<1> HIDE DEF q, rest
<1>14. /\ IsSequence(q) /\ Len(q) = 1 + Len(rest)
       /\ \A i \in 1 .. 1 + Len(rest) :
            q[i] = IF i <= 1 THEN head[i] ELSE rest[i - 1]
  <2>1. /\ IsSequence(head \o rest) /\ Len(head \o rest) = Len(head) + Len(rest)
        /\ \A i \in 1 .. Len(head) + Len(rest) :
             (head \o rest)[i] = IF i <= Len(head) THEN head[i] ELSE rest[i - Len(head)]
    BY <1>11, <1>12, Concatenated
  <2>2. QED  BY <1>11, <1>13, <2>1
<1>15. Len(rest) \in Nat
  BY <1>12, SequenceShape
<1>16. Len(q) >= 1 /\ q[1] = c
  BY <1>11, <1>14, <1>15
<1>17. Tail(q) = rest
  <2>1. q # <<>>
    BY <1>16
  <2>2. /\ IsSequence(Tail(q)) /\ Len(Tail(q)) = Len(q) - 1
        /\ \A i \in 1 .. Len(q) - 1 : Tail(q)[i] = q[i + 1]
    BY <1>14, <2>1, TailSequence
  <2> DEFINE t == Tail(q)
  <2> HIDE DEF t
  <2>3. /\ IsSequence(t) /\ Len(t) = Len(rest)
        /\ \A i \in 1 .. Len(rest) : t[i] = rest[i]
    <3>1. Len(t) = Len(rest)
      BY <1>14, <1>15, <2>2 DEF t
    <3>2. ASSUME NEW i \in 1 .. Len(rest)
          PROVE  t[i] = rest[i]
      <4>1. i \in 1 .. Len(q) - 1 /\ i + 1 \in 1 .. 1 + Len(rest) /\ ~(i + 1 <= 1)
            /\ (i + 1) - 1 = i
        BY <1>14, <1>15
      <4>2. t[i] = q[i + 1]
        BY <2>2, <4>1 DEF t
      <4>3. QED  BY <1>14, <4>1, <4>2
    <3>3. QED  BY <2>2, <3>1, <3>2 DEF t
  <2>4. t = rest
    BY <1>12, <2>3, SequencesEqual
  <2>5. QED  BY <2>4 DEF t
<1>18. QED  BY <1>9, <1>14, <1>16, <1>17, Zenon DEF q, c, head, pages, slt

-----------------------------------------------------------------------------
(* The .sna format.                                                         *)

(* The pages of the second part: all that the first has not.                *)
LEMMA PagesOfSecondPart ==
  ASSUME NEW page
  PROVE  LET others == OtherPages(page)
         IN  /\ IsSequence(others) /\ Len(others) \in 5 .. 6
             /\ \A p \in 0 .. 7 : p \notin {2, 5, page} =>
                   \E i \in 1 .. Len(others) : others[i] = p
<1> DEFINE left == PagesLeft
           ss == [i \in DOMAIN left |-> When(left[i] # page, <<left[i]>>)]
           q == FlattenSeq(ss)
<1>1. /\ DOMAIN left = 1 .. 6
      /\ left[1] = 0 /\ left[2] = 1 /\ left[3] = 3 /\ left[4] = 4 /\ left[5] = 6
      /\ left[6] = 7
  BY DEF PagesLeft
<1> HIDE DEF left
<1>2. \A i, j \in 1 .. 6 : i # j => left[i] # left[j]
  BY <1>1
<1>3. \A i \in 1 .. 6 : ss[i] = When(left[i] # page, <<left[i]>>)
  BY <1>1, Zenon
<1>4. IsSequence(ss) /\ Len(ss) = 6
  <2>1. DOMAIN ss = 1 .. 6 /\ ss = [i \in 1 .. 6 |-> ss[i]]
    BY <1>1, Zenon
  <2> HIDE DEF ss
  <2>2. QED  BY <2>1, ListedSequence
<1> HIDE DEF ss
<1>5. ASSUME NEW i \in 1 .. 6
      PROVE  /\ IsSequence(ss[i]) /\ Len(ss[i]) \in 0 .. 1
             /\ left[i] # page => Len(ss[i]) = 1 /\ ss[i][1] = left[i]
  <2>1. CASE left[i] = page
    <3>1. ss[i] = <<>>
      BY <1>3, <2>1, Zenon DEF When
    <3>2. IsSequence(<<>>) /\ Len(<<>>) = 0
      BY DEF IsSequence
    <3>3. QED  BY <2>1, <3>1, <3>2
  <2>2. CASE left[i] # page
    <3> DEFINE p == left[i]
    <3>1. ss[i] = <<p>>
      BY <1>3, <2>2, Zenon DEF When
    <3> HIDE DEF p
    <3>2. <<p>> \in Seq({p}) /\ Len(<<p>>) = 1 /\ <<p>>[1] = p
      OBVIOUS
    <3>3. IsSequence(<<p>>)
      BY <3>2, SequenceOver
    <3>4. QED  BY <3>1, <3>2, <3>3 DEF p
  <2>3. QED  BY <2>1, <2>2
<1>6. PICK f : /\ f[1] = ss[1]
               /\ \A i \in 1 .. 5 : f[i + 1] = f[i] \o ss[i + 1]
               /\ q = f[6]
  <2>1. Len(ss) # 0 /\ Len(ss) - 1 = 5
    BY <1>4
  <2>2. QED  BY <1>4, <2>1, FlattenTrace
<1>7. ASSUME NEW i \in 1 .. 5, NEW j \in 1 .. 6, j = i + 1, IsSequence(f[i])
      PROVE  IsSequence(f[j]) /\ Len(f[j]) = Len(f[i]) + Len(ss[j])
  <2>1. f[j] = f[i] \o ss[j]
    BY <1>6, <1>7, Zenon
  <2>2. IsSequence(ss[j])
    BY <1>5
  <2>3. QED  BY <1>7, <2>1, <2>2, Concatenated
<1>8. Len(q) = Len(ss[1]) + Len(ss[2]) + Len(ss[3]) + Len(ss[4]) + Len(ss[5]) + Len(ss[6])
  <2>0. f[1] = ss[1] /\ q = f[6]
    BY <1>6, Zenon
  <2>1. IsSequence(f[1]) /\ Len(f[1]) = Len(ss[1])
    BY <1>5, <2>0
  <2>2. IsSequence(f[2]) /\ Len(f[2]) = Len(f[1]) + Len(ss[2])
    <3>1. 1 \in 1 .. 5 /\ 2 \in 1 .. 6 /\ 2 = 1 + 1
      OBVIOUS
    <3>2. QED  BY <1>7, <2>1, <3>1, Zenon
  <2>3. IsSequence(f[3]) /\ Len(f[3]) = Len(f[2]) + Len(ss[3])
    <3>1. 2 \in 1 .. 5 /\ 3 \in 1 .. 6 /\ 3 = 2 + 1
      OBVIOUS
    <3>2. QED  BY <1>7, <2>2, <3>1, Zenon
  <2>4. IsSequence(f[4]) /\ Len(f[4]) = Len(f[3]) + Len(ss[4])
    <3>1. 3 \in 1 .. 5 /\ 4 \in 1 .. 6 /\ 4 = 3 + 1
      OBVIOUS
    <3>2. QED  BY <1>7, <2>3, <3>1, Zenon
  <2>5. IsSequence(f[5]) /\ Len(f[5]) = Len(f[4]) + Len(ss[5])
    <3>1. 4 \in 1 .. 5 /\ 5 \in 1 .. 6 /\ 5 = 4 + 1
      OBVIOUS
    <3>2. QED  BY <1>7, <2>4, <3>1, Zenon
  <2>6. IsSequence(f[6]) /\ Len(f[6]) = Len(f[5]) + Len(ss[6])
    <3>1. 5 \in 1 .. 5 /\ 6 \in 1 .. 6 /\ 6 = 5 + 1
      OBVIOUS
    <3>2. QED  BY <1>7, <2>5, <3>1, Zenon
  <2> HIDE DEF q
  <2>7. QED  BY <2>0, <2>1, <2>2, <2>3, <2>4, <2>5, <2>6
<1>9. Len(q) \in 5 .. 6
  <2>1. \A i, j \in 1 .. 6 : i # j => Len(ss[i]) = 1 \/ Len(ss[j]) = 1
    BY <1>2, <1>5
  <2> DEFINE l(i) == Len(ss[i])
  <2>2. \A i \in 1 .. 6 : l(i) = 0 \/ l(i) = 1
    BY <1>5
  <2> HIDE DEF l
  <2>3. \A i, j \in 1 .. 6 : i # j => l(i) = 1 \/ l(j) = 1
    BY <2>1 DEF l
  <2>4. l(1) + l(2) + l(3) + l(4) + l(5) + l(6) \in 5 .. 6
    BY <2>2, <2>3
  <2>5. QED  BY <1>8, <2>4 DEF l
<1>10. \E place, off : Laid(FlattenSeq(ss), ss, Len(ss), place, off)
  BY <1>4, <1>5, Flattened
<1>11. PICK place, off : Laid(q, ss, 6, place, off)
  BY <1>4, <1>10
<1> HIDE DEF q
<1>12. /\ IsSequence(q)
       /\ \A x \in 1 .. Len(q) : q[x] = ss[place[x]][off[x]]
       /\ \A i \in 1 .. 6 : \A j \in 1 .. Len(ss[i]) :
            \E x \in 1 .. Len(q) : place[x] = i /\ off[x] = j
  BY <1>11, Zenon DEF Laid
<1>13. ASSUME NEW p \in 0 .. 7, p \notin {2, 5, page}
       PROVE  \E i \in 1 .. Len(q) : q[i] = p
  <2>1. PICK i \in 1 .. 6 : left[i] = p
    BY <1>1, <1>13
  <2>2. Len(ss[i]) = 1 /\ ss[i][1] = p
    BY <1>5, <1>13, <2>1
  <2>3. 1 \in 1 .. Len(ss[i])
    BY <2>2
  <2>4. PICK x \in 1 .. Len(q) : place[x] = i /\ off[x] = 1
    BY <1>12, <2>3, Zenon
  <2>5. q[x] = p
    BY <1>12, <2>2, <2>4, Zenon
  <2>6. QED  BY <2>5
<1>14. OtherPages(page) = q
  BY Zenon DEF OtherPages, q, ss, left
<1>15. QED  BY <1>9, <1>12, <1>13, <1>14

\* A snapshot that has nothing but pages, and an address to go to.
OnlyPages(u, m) ==
  /\ Usable(u) /\ u.machine = m /\ u.joysticks = <<>>
  /\ \A d : Device(u, d) = Off

LEMMA OnlyPagesFrom ==
  ASSUME NEW u, NEW m, OnlyPages(u, m), NEW s, NEW f, PagesFrom(u, s)
  PROVE  From(u, s, f)
<1>1. DevicesFrom(u, s)
  BY OffIsDevice DEF OnlyPages, DevicesFrom, Active
<1>2. JoysticksFrom(u, s, f)
  BY DEF OnlyPages, JoysticksFrom
<1>3. QED  BY <1>1, <1>2, Zenon DEF From

LEMMA OnlyPagesKept ==
  ASSUME NEW u, NEW t, NEW m, OnlyPages(t, m), Shape(u), u.machine = t.machine,
         u.joysticks = t.joysticks, u.kit = t.kit, u.sp \in Addresses
  PROVE  OnlyPages(u, m)
<1>1. \A d : Device(u, d) = Device(t, d)
  BY DEF Device
<1>2. CardsFit(u)
  BY <1>1 DEF CardsFit, Usable, OnlyPages
<1>3. QED  BY <1>1, <1>2 DEF Usable, OnlyPages

LEMMA UnstackedIs ==
  ASSUME NEW sp, sp \in Addresses
  PROVE  Unstacked(sp) \in Addresses
<1>1. WordSize \in Nat \ {0}
  BY SMT DEF WordSize
<1>2. QED  BY <1>1, SMT DEF Addresses, Unstacked

\* What the two formats are read as: PC is on the stack of a 48K machine, and a
\* machine with more has all of its pages.
Outcome48(t, m, q, res) ==
  \/ ~HasStack(t.sp) /\ res = Error(t, "CORRUPT")
  \/ \E u : /\ res = Ok(u) /\ OnlyPages(u, m) /\ DOMAIN u.pages = {0, 2, 5}
            /\ u.pages[5] = q[2].body /\ u.pages[2] = q[3].body
            /\ u.pages[0] = q[4].body

Outcome128(m, q, res) ==
  LET page   == q[5].body % 8
      others == OtherPages(page)
  IN  \E u :
        /\ OnlyPages(u, m)
        /\ \/ /\ res = Error(u, "CORRUPT")
              /\ \/ page = 5 /\ q[4].body # q[2].body
                 \/ page = 2 /\ q[4].body # q[3].body
                 \/ Len(q) < 5 + Len(others)
           \/ /\ res = Ok(u) /\ ~(Len(q) < 5 + Len(others))
              /\ DOMAIN u.pages = 0 .. 7
              /\ \A p \in 0 .. 7 : u.pages[p] = q[PlaceOf(p, page)].body

LEMMA Read48 ==
  ASSUME NEW t, NEW m, OnlyPages(t, m), NEW q
  PROVE  Outcome48(t, m, q, read_48k(t, q))
<1> USE DEF Outcome48
<1> DEFINE at(p) == CHOOSE i \in 2 .. 4 : Memory48[i - 1] = p
           pages == libspectrum_split_to_48k_pages(q)
           sp == Unstacked(t.sp)
           u == [t EXCEPT !.sp = Unstacked(@), !.pages = pages,
                          !.regs = IF pages[PageAt(t.sp)][2] THEN @ ELSE STRAY_PC]
           res == read_48k(t, q)
<1>1. CASE ~HasStack(t.sp)
  <2>1. res = Error(t, "CORRUPT")
    BY <1>1, Zenon DEF read_48k
  <2>2. QED  BY <1>1, <2>1, Zenon
<1>2. CASE HasStack(t.sp)
  <2>1. res = Ok(u)
    BY <1>2, Zenon DEF read_48k
  <2>2. Shape(t) /\ t.sp \in Addresses
    BY DEF OnlyPages, Usable
  <2>3. sp \in Addresses
    BY <2>2, UnstackedIs
  <2>4. at(5) = 2 /\ at(2) = 3 /\ at(0) = 4
    <3>1. /\ Memory48[2 - 1] = 5 /\ Memory48[3 - 1] = 2 /\ Memory48[4 - 1] = 0
          /\ 2 \in 2 .. 4 /\ 3 \in 2 .. 4 /\ 4 \in 2 .. 4
          /\ \A i \in 2 .. 4 : i = 2 \/ i = 3 \/ i = 4
      BY DEF Memory48
    <3>2. QED  BY <3>1
  <2>5. /\ DOMAIN pages = {0, 2, 5}
        /\ pages[5] = q[at(5)].body /\ pages[2] = q[at(2)].body
        /\ pages[0] = q[at(0)].body
    BY Zenon DEF libspectrum_split_to_48k_pages
  <2> HIDE DEF at, pages
  <2>6. /\ Shape(u) /\ u.machine = t.machine /\ u.joysticks = t.joysticks
        /\ u.kit = t.kit /\ u.sp = sp /\ u.pages = pages
    BY <2>2, Zenon DEF Shape
  <2> HIDE DEF u, sp
  <2>7. OnlyPages(u, m)
    BY <2>3, <2>6, OnlyPagesKept
  <2>8. QED  BY <2>1, <2>4, <2>5, <2>6, <2>7
<1>3. QED  BY <1>1, <1>2

(* Every page has its place.                                                *)
LEMMA Placed ==
  ASSUME NEW page, NEW p \in 0 .. 7
  PROVE  LET others == OtherPages(page)
             i == PlaceOf(p, page)
         IN  /\ i \in 2 .. 5 + Len(others)
             /\ p = 5 => i = 2
             /\ p = 2 => i = 3
             /\ p = page /\ p \notin {2, 5} => i = 4
             /\ p \notin {2, 5, page} =>
                  i > 5 /\ i - 5 \in 1 .. Len(others) /\ others[i - 5] = p
<1> DEFINE others == OtherPages(page)
           i == PlaceOf(p, page)
           other == CHOOSE j \in DOMAIN others : others[j] = p
<1>1. /\ IsSequence(others) /\ Len(others) \in 5 .. 6
      /\ p \notin {2, 5, page} => \E j \in 1 .. Len(others) : others[j] = p
  BY PagesOfSecondPart
<1>2. DOMAIN others = 1 .. Len(others)
  BY <1>1, SequenceShape
<1>3. /\ p = 5 => i = 2
      /\ p = 2 => i = 3
      /\ p = page /\ p \notin {2, 5} => i = 4
  <2>1. 5 # 2
    OBVIOUS
  <2>2. QED  BY <2>1, Zenon DEF PlaceOf
<1>4. p \notin {2, 5, page} => i = 5 + other
  <2>1. p \notin {2, 5, page} => p # 5 /\ p # 2 /\ ~(p = page /\ p \notin {2, 5})
    OBVIOUS
  <2>2. QED  BY <2>1, Zenon DEF PlaceOf
<1> HIDE DEF others, i
<1>5. p \notin {2, 5, page} => other \in 1 .. Len(others) /\ others[other] = p
  BY <1>1, <1>2
<1> HIDE DEF other
<1>6. /\ i \in 2 .. 5 + Len(others)
      /\ p \notin {2, 5, page} =>
           i > 5 /\ i - 5 \in 1 .. Len(others) /\ others[i - 5] = p
  <2>1. CASE p \in {2, 5, page}
    BY <1>1, <1>3, <2>1
  <2>2. CASE p \notin {2, 5, page}
    <3>1. i = 5 + other /\ other \in 1 .. Len(others) /\ others[other] = p
      BY <1>4, <1>5, <2>2
    <3>2. i - 5 = other
      BY <3>1
    <3>3. QED  BY <1>1, <3>1, <3>2
  <2>3. QED  BY <2>1, <2>2
<1>7. QED  BY <1>3, <1>6 DEF i, others

LEMMA CopiedIs ==
  ASSUME NEW t, NEW m, OnlyPages(t, m), NEW q, NEW n
  PROVE  LET u == Copied(t, q, n)
         IN  /\ OnlyPages(u, m) /\ DOMAIN u.pages = 0 .. 7
             /\ \A p \in 0 .. 7 :
                  PlaceOf(p, q[5].body % 8) <= n =>
                    u.pages[p] = q[PlaceOf(p, q[5].body % 8)].body
<1> DEFINE page == q[5].body % 8
           pages == [p \in 0 .. 7 |->
                       LET i == PlaceOf(p, q[5].body % 8)
                       IN  IF i <= n THEN q[i].body ELSE Unset]
           u == Copied(t, q, n)
<1>1. Shape(t) /\ t.sp \in Addresses
  BY DEF OnlyPages, Usable
<1>2. u = [t EXCEPT !.port_128 = q[5].body, !.pages = pages]
  BY Zenon DEF Copied
<1>3. /\ DOMAIN pages = 0 .. 7
      /\ \A p \in 0 .. 7 : PlaceOf(p, page) <= n => pages[p] = q[PlaceOf(p, page)].body
  BY Zenon
<1> HIDE DEF pages, u, page
<1>4. /\ Shape(u) /\ u.machine = t.machine /\ u.joysticks = t.joysticks
      /\ u.kit = t.kit /\ u.sp = t.sp /\ u.pages = pages
  BY <1>1, <1>2, Zenon DEF Shape
<1>5. OnlyPages(u, m)
  BY <1>1, <1>4, OnlyPagesKept
<1>6. QED  BY <1>3, <1>4, <1>5, Zenon DEF u, page

LEMMA Read128 ==
  ASSUME NEW t, NEW m, OnlyPages(t, m), NEW q, IsSequence(q)
  PROVE  Outcome128(m, q, read_128k(t, q))
<1> DEFINE res == read_128k(t, q)
           page == q[5].body % 8
           others == OtherPages(page)
           twice == page \in {2, 5} /\ q[4].body # q[PlaceOf(page, page)].body
           short == Len(q) < 5 + Len(others)
           three == Copied(t, q, 3)
           all == Copied(t, q, Len(q))
<1>1. OnlyPages(three, m) /\ OnlyPages(all, m) /\ DOMAIN all.pages = 0 .. 7
      /\ \A p \in 0 .. 7 : PlaceOf(p, page) <= Len(q) =>
                             all.pages[p] = q[PlaceOf(p, page)].body
  <2>1. \A n : OnlyPages(Copied(t, q, n), m)
    BY CopiedIs, Zenon
  <2>2. \A n : DOMAIN Copied(t, q, n).pages = 0 .. 7
    BY CopiedIs
  <2>3. ASSUME NEW n, NEW p \in 0 .. 7, PlaceOf(p, page) <= n
        PROVE  Copied(t, q, n).pages[p] = q[PlaceOf(p, page)].body
    BY <2>3, CopiedIs
  <2>4. QED  BY <2>1, <2>2, <2>3, Zenon
<1>2. /\ twice => res = Error(three, "CORRUPT")
      /\ ~twice /\ short => res = Error(all, "CORRUPT")
      /\ ~twice /\ ~short => res = Ok(all)
  BY Zenon DEF read_128k
<1>3. Len(q) \in Nat /\ Len(others) \in 5 .. 6
  BY SequenceShape, PagesOfSecondPart
<1>4. PlaceOf(5, page) = 2 /\ PlaceOf(2, page) = 3
      /\ \A p \in 0 .. 7 : PlaceOf(p, page) \in 2 .. 5 + Len(others)
  BY Placed
<1>5. twice => \/ page = 5 /\ q[4].body # q[2].body
               \/ page = 2 /\ q[4].body # q[3].body
  BY <1>4
<1> DEFINE bad(u) ==
             /\ res = Error(u, "CORRUPT")
             /\ \/ page = 5 /\ q[4].body # q[2].body
                \/ page = 2 /\ q[4].body # q[3].body
                \/ Len(q) < 5 + Len(others)
           good(u) ==
             /\ res = Ok(u) /\ ~(Len(q) < 5 + Len(others))
             /\ DOMAIN u.pages = 0 .. 7
             /\ \A p \in 0 .. 7 : u.pages[p] = q[PlaceOf(p, page)].body
<1> HIDE DEF res, page, twice, three, all, others
<1>6. ASSUME twice PROVE bad(three)
  BY <1>2, <1>5, <1>6, Zenon
<1>7. ASSUME ~twice, short PROVE bad(all)
  BY <1>2, <1>7, Zenon
<1>8. ASSUME ~twice, ~short PROVE good(all)
  <2>1. \A p \in 0 .. 7 : PlaceOf(p, page) <= Len(q)
    BY <1>3, <1>4, <1>8
  <2>2. \A p \in 0 .. 7 : all.pages[p] = q[PlaceOf(p, page)].body
    BY <1>1, <2>1
  <2>3. QED  BY <1>1, <1>2, <1>8, <2>2, Zenon
<1> HIDE DEF bad, good
<1>9. \E u : OnlyPages(u, m) /\ (bad(u) \/ good(u))
  BY <1>1, <1>6, <1>7, <1>8, Zenon
<1>10. QED  BY <1>9, Zenon DEF Outcome128, bad, good, res, page, others

LEMMA SnaHeaderTaken ==
  ASSUME NEW b, b.sp \in Addresses, NEW m
  PROVE  LET t == sna_read_header([libspectrum_snap_alloc EXCEPT !.machine = m], b)
         IN  OnlyPages(t, m) /\ t.sp = b.sp
<1> DEFINE a == libspectrum_snap_alloc
           c == [a EXCEPT !.machine = m]
           t == sna_read_header(c, b)
<1>1. /\ Shape(a) /\ a.joysticks = <<>> /\ \A d : Device(a, d) = Off
      /\ Usable(a)
  BY AllocIs, AllocUsable
<1> HIDE DEF a
<1>2. Shape(c) /\ c.machine = m /\ c.joysticks = a.joysticks /\ c.kit = a.kit
  BY <1>1, Zenon DEF Shape
<1> HIDE DEF c
<1>3. /\ Shape(t) /\ t.machine = c.machine /\ t.joysticks = c.joysticks
      /\ t.kit = c.kit /\ t.sp = b.sp
  BY <1>2, Zenon DEF sna_read_header, Shape
<1> HIDE DEF t
<1> DEFINE none == a.machine
<1>4. OnlyPages(a, none)
  BY <1>1 DEF OnlyPages
<1>5. \A d : Device(t, d) = Device(a, d)
  BY <1>2, <1>3 DEF Device
<1>6. CardsFit(t)
  BY <1>1, <1>5 DEF CardsFit, Usable
<1>7. OnlyPages(t, m)
  BY <1>1, <1>2, <1>3, <1>5, <1>6 DEF Usable, OnlyPages
<1>8. QED  BY <1>3, <1>7 DEF t, c, a

\* What the readers of .sna files make of their length.
SnaRead(q, res) ==
  LET n == Len(q)
      page == q[5].body % 8
      others == OtherPages(page)
  IN  \E u, m :
        /\ DOMAIN libspectrum_snap_alloc.pages = {}
        /\ OnlyPages(u, m)
        /\ \/ n \notin {4, 10, 11} /\ res = Error(u, "CORRUPT")
           \/ n = 4 /\ m = "48" /\ ~HasStack(q[1].body.sp) /\ res = Error(u, "CORRUPT")
           \/ /\ n = 4 /\ m = "48" /\ res = Ok(u) /\ DOMAIN u.pages = {0, 2, 5}
              /\ u.pages[5] = q[2].body /\ u.pages[2] = q[3].body
              /\ u.pages[0] = q[4].body
           \/ /\ n \in {10, 11} /\ m = "PENT" /\ res = Error(u, "CORRUPT")
              /\ \/ page = 5 /\ q[4].body # q[2].body
                 \/ page = 2 /\ q[4].body # q[3].body
                 \/ n < 5 + Len(others)
           \/ /\ n \in {10, 11} /\ m = "PENT" /\ res = Ok(u)
              /\ ~(n < 5 + Len(others)) /\ DOMAIN u.pages = 0 .. 7
              /\ \A p \in 0 .. 7 : u.pages[p] = q[PlaceOf(p, page)].body

(* The length says which of the two formats it is, if it is one.            *)
LEMMA SnaReads ==
  ASSUME NEW q, IsSequence(q), q[1].body.sp \in Addresses
  PROVE  SnaRead(q, internal_sna_read(libspectrum_snap_alloc, q))
<1> DEFINE a == libspectrum_snap_alloc
           b == q[1].body
           t(m) == sna_read_header([a EXCEPT !.machine = m], b)
           res == internal_sna_read(a, q)
           page == q[5].body % 8
           others == OtherPages(page)
           n == Len(q)
<1>1. \A m : OnlyPages(t(m), m) /\ t(m).sp = b.sp
  BY SnaHeaderTaken, Zenon
<1>2. OnlyPages(a, a.machine) /\ DOMAIN a.pages = {}
  BY AllocIs, AllocUsable DEF OnlyPages
<1>3. CASE n \notin {4, 10, 11}
  <2>1. sna_identify_machine(q) = "unknown"
    BY <1>3 DEF sna_identify_machine
  <2>2. res = Error(a, "CORRUPT")
    BY <2>1, Zenon DEF internal_sna_read
  <2> HIDE DEF res, a
  <2>3. QED  BY <1>2, <1>3, <2>2, Zenon DEF SnaRead, res, a
<1>4. CASE n = 4
  <2> DEFINE r == read_48k(t("48"), q)
             x == t("48")
  <2>1. sna_identify_machine(q) = "48"
    BY <1>4 DEF sna_identify_machine
  <2>2. res = r
    BY <2>1, Zenon DEF internal_sna_read
  <2>3. OnlyPages(x, "48") /\ x.sp = b.sp
    BY <1>1, Zenon
  <2> HIDE DEF x
  <2>4. r = read_48k(x, q)
    BY Zenon DEF x
  <2>5. Outcome48(x, "48", q, r)
    BY <2>3, <2>4, Read48, Zenon
  <2> HIDE DEF r, res, a
  <2>6. CASE ~HasStack(x.sp) /\ r = Error(x, "CORRUPT")
    BY <1>2, <1>4, <2>2, <2>3, <2>6, Zenon DEF SnaRead, res, a
  <2>7. CASE \E u : /\ r = Ok(u) /\ OnlyPages(u, "48") /\ DOMAIN u.pages = {0, 2, 5}
                    /\ u.pages[5] = q[2].body /\ u.pages[2] = q[3].body
                    /\ u.pages[0] = q[4].body
    BY <1>2, <1>4, <2>2, <2>7, Zenon DEF SnaRead, res, a
  <2>8. QED  BY <2>5, <2>6, <2>7, Zenon DEF Outcome48
<1>5. CASE n \in {10, 11}
  <2> DEFINE r == read_128k(t("PENT"), q)
             x == t("PENT")
             bad(u) == /\ r = Error(u, "CORRUPT")
                       /\ \/ page = 5 /\ q[4].body # q[2].body
                          \/ page = 2 /\ q[4].body # q[3].body
                          \/ Len(q) < 5 + Len(others)
             good(u) == /\ r = Ok(u) /\ ~(Len(q) < 5 + Len(others))
                        /\ DOMAIN u.pages = 0 .. 7
                        /\ \A p \in 0 .. 7 : u.pages[p] = q[PlaceOf(p, page)].body
  <2>1. sna_identify_machine(q) = "PENT"
    BY <1>5 DEF sna_identify_machine
  <2>2. res = r
    BY <2>1, Zenon DEF internal_sna_read
  <2>3. OnlyPages(x, "PENT")
    BY <1>1, Zenon
  <2> HIDE DEF x
  <2>4. r = read_128k(x, q)
    BY Zenon DEF x
  <2> HIDE DEF r
  <2>5. Outcome128("PENT", q, r)
    BY <2>3, <2>4, Read128, Zenon
  <2>6. PICK u : OnlyPages(u, "PENT") /\ (bad(u) \/ good(u))
    BY <2>5, Zenon DEF Outcome128
  <2> HIDE DEF res, a
  <2>7. CASE bad(u)
    BY <1>2, <1>5, <2>2, <2>6, <2>7, Zenon DEF SnaRead, res, a
  <2>8. CASE good(u)
    BY <1>2, <1>5, <2>2, <2>6, <2>8, Zenon DEF SnaRead, res, a
  <2>9. QED  BY <2>6, <2>7, <2>8
<1>6. QED  BY <1>3, <1>4, <1>5

\* What is written of a page.
PageData(s, p) == IF p \in DOMAIN s.pages THEN s.pages[p] ELSE Blank

LEMMA PagesFromData ==
  ASSUME NEW u, NEW s,
         \A p \in DOMAIN u.pages : u.pages[p] \in {PageData(s, p), Stacked(PageData(s, p))}
  PROVE  PagesFrom(u, s)
BY Zenon DEF PagesFrom, PageData

\* The two files: for a 48K machine the stack has changed, but is in RAM.
File48(q, s) ==
  /\ IsSequence(q) /\ Len(q) = 4
  /\ q[1].body.sp \in Addresses /\ HasStack(q[1].body.sp)
  /\ q[2].body \in {PageData(s, 5), Stacked(PageData(s, 5))}
  /\ q[3].body \in {PageData(s, 2), Stacked(PageData(s, 2))}
  /\ q[4].body \in {PageData(s, 0), Stacked(PageData(s, 0))}

File128(q, s) ==
  LET page == q[5].body % 8
      others == OtherPages(page)
  IN  /\ IsSequence(q) /\ Len(q) = 5 + Len(others)
      /\ q[1].body.sp \in Addresses
      /\ q[2].body = PageData(s, 5) /\ q[3].body = PageData(s, 2)
      /\ q[4].body = PageData(s, page)
      /\ \A i \in 1 .. Len(others) : q[5 + i].body = PageData(s, others[i])

LEMMA Written48 ==
  ASSUME NEW s, Usable(s), HasRoom(s.sp)
  PROVE  File48(write_48k_sna(s), s)
<1> DEFINE sp == s.sp - 2
           stack == {PageAt(sp), PageAt(sp + 1)}
           data(p) == write_sna_page(s, p).body
           body(i) == IF Memory48[i] \in stack THEN Stacked(data(Memory48[i]))
                                               ELSE data(Memory48[i])
           head == write_sna_header(s, sp)
           one == <<head>>
           three == [i \in 1 .. 3 |->
                       Chunk("PAGE", IF Memory48[i] \in stack
                                     THEN Stacked(data(Memory48[i]))
                                     ELSE data(Memory48[i]))]
           q == write_48k_sna(s)
<1>1. q = one \o three
  BY Zenon DEF write_48k_sna
<1>2. sp \in Addresses /\ HasStack(sp)
  <2>1. s.sp \in Addresses /\ s.sp >= 16386
    BY DEF Usable, HasRoom
  <2> DEFINE x == s.sp
  <2> HIDE DEF x
  <2>2. x \in Addresses /\ x >= 16386
    BY <2>1 DEF x
  <2>3. x - 2 \in Addresses /\ HasStack(x - 2)
    <3>1. WordSize \in Nat
      BY SMT DEF WordSize
    <3>2. QED  BY <2>2, <3>1, SMT DEF Addresses, HasStack
  <2>4. QED  BY <2>3, Zenon DEF x
<1>3. head.body.sp = sp
  BY Zenon DEF write_sna_header, Chunk
<1>4. \A i \in 1 .. 3 : three[i] = Chunk("PAGE", body(i))
  BY Zenon
<1>5. \A p : data(p) = PageData(s, p)
  BY Zenon DEF write_sna_page, Chunk, PageData
<1>6. \A i \in 1 .. 3 : body(i) \in {PageData(s, Memory48[i]), Stacked(PageData(s, Memory48[i]))}
  BY <1>5, Zenon
<1>7. IsSequence(three) /\ Len(three) = 3
  <2>1. DOMAIN three = 1 .. 3 /\ three = [i \in 1 .. 3 |-> three[i]]
    BY Zenon
  <2> HIDE DEF three
  <2>2. QED  BY <2>1, ListedSequence
<1> HIDE DEF sp, body, head, three, q
<1>8. IsSequence(one) /\ Len(one) = 1 /\ one[1] = head
  <2>1. one \in Seq({head}) /\ Len(one) = 1 /\ one[1] = head
    OBVIOUS
  <2> HIDE DEF one
  <2>2. QED  BY <2>1, SequenceOver
<1> HIDE DEF one
<1>9. /\ IsSequence(q) /\ Len(q) = 1 + 3
      /\ \A i \in 1 .. 1 + 3 : q[i] = IF i <= 1 THEN one[i] ELSE three[i - 1]
  <2>1. /\ IsSequence(one \o three) /\ Len(one \o three) = Len(one) + Len(three)
        /\ \A i \in 1 .. Len(one) + Len(three) :
             (one \o three)[i] = IF i <= Len(one) THEN one[i] ELSE three[i - Len(one)]
    BY <1>7, <1>8, Concatenated, Zenon
  <2>2. QED  BY <1>1, <1>7, <1>8, <2>1
<1>10. q[1] = head /\ q[2] = three[1] /\ q[3] = three[2] /\ q[4] = three[3]
  BY <1>8, <1>9
<1>11. \A i \in 1 .. 3 : three[i].body = body(i)
  BY <1>4 DEF Chunk
<1>12. Memory48[1] = 5 /\ Memory48[2] = 2 /\ Memory48[3] = 0
  BY DEF Memory48
<1>13. /\ q[2].body \in {PageData(s, 5), Stacked(PageData(s, 5))}
       /\ q[3].body \in {PageData(s, 2), Stacked(PageData(s, 2))}
       /\ q[4].body \in {PageData(s, 0), Stacked(PageData(s, 0))}
  BY <1>6, <1>10, <1>11, <1>12
<1>14. Len(q) = 4
  BY <1>9
<1>15. QED  BY <1>2, <1>3, <1>9, <1>10, <1>13, <1>14, Zenon DEF File48, q

LEMMA Written128 ==
  ASSUME NEW s, Usable(s)
  PROVE  File128(write_128k_sna(s), s)
<1> DEFINE port == s.port_128
           page == port % 8
           others == OtherPages(page)
           data(p) == write_sna_page(s, p)
           head == write_sna_header(s, s.sp)
           memory == Chunk("128", port)
           five == <<head, data(5), data(2), data(page), memory>>
           rest == [i \in DOMAIN others |-> data(others[i])]
           q == write_128k_sna(s)
<1>1. q = five \o rest
  BY Zenon DEF write_128k_sna
<1>2. s.sp \in Addresses
  BY DEF Usable
<1>3. head.body.sp = s.sp
  BY Zenon DEF write_sna_header, Chunk
<1>4. memory.body = port
  BY DEF Chunk
<1>5. \A p : data(p).body = PageData(s, p)
  BY Zenon DEF write_sna_page, Chunk, PageData
<1>6. IsSequence(others) /\ Len(others) \in 5 .. 6
  BY PagesOfSecondPart
<1>7. DOMAIN others = 1 .. Len(others)
  BY <1>6, SequenceShape
<1>8. IsSequence(rest) /\ Len(rest) = Len(others)
      /\ \A i \in 1 .. Len(others) : rest[i] = data(others[i])
  <2> DEFINE n == Len(others)
  <2>1. /\ DOMAIN rest = DOMAIN others /\ rest = [i \in DOMAIN others |-> rest[i]]
        /\ \A i \in DOMAIN others : rest[i] = data(others[i])
    BY Zenon
  <2> HIDE DEF rest, others, data
  <2>2. DOMAIN rest = 1 .. n /\ rest = [i \in 1 .. n |-> rest[i]]
        /\ \A i \in 1 .. n : rest[i] = data(others[i])
    BY <1>7, <2>1
  <2>3. n \in Nat
    BY <1>6
  <2> HIDE DEF n
  <2>4. IsSequence(rest) /\ Len(rest) = n
    BY <2>2, <2>3, ListedSequence
  <2>5. QED  BY <2>2, <2>4 DEF n
<1> HIDE DEF others, rest, data, head, memory, q
<1>9. /\ IsSequence(five) /\ Len(five) = 5 /\ five[1] = head /\ five[2] = data(5)
      /\ five[3] = data(2) /\ five[4] = data(page) /\ five[5] = memory
  <2> DEFINE b == data(5)  c == data(2)  d == data(page)
  <2> HIDE DEF b, c, d
  <2> DEFINE list == <<head, b, c, d, memory>>
  <2>1. /\ list \in Seq({head, b, c, d, memory}) /\ Len(list) = 5 /\ list[1] = head
        /\ list[2] = b /\ list[3] = c /\ list[4] = d /\ list[5] = memory
    OBVIOUS
  <2> HIDE DEF list
  <2>2. IsSequence(list)
    BY <2>1, SequenceOver
  <2>3. list = five
    BY Zenon DEF list, b, c, d
  <2>4. QED  BY <2>1, <2>2, <2>3 DEF b, c, d
<1> HIDE DEF five
<1>10. /\ IsSequence(q) /\ Len(q) = 5 + Len(others)
       /\ \A i \in 1 .. 5 + Len(others) : q[i] = IF i <= 5 THEN five[i] ELSE rest[i - 5]
  <2>1. /\ IsSequence(five \o rest) /\ Len(five \o rest) = Len(five) + Len(rest)
        /\ \A i \in 1 .. Len(five) + Len(rest) :
             (five \o rest)[i] = IF i <= Len(five) THEN five[i] ELSE rest[i - Len(five)]
    BY <1>8, <1>9, Concatenated, Zenon
  <2>2. QED  BY <1>1, <1>8, <1>9, <2>1
<1>11. q[1] = head /\ q[2] = data(5) /\ q[3] = data(2) /\ q[4] = data(page) /\ q[5] = memory
  BY <1>6, <1>9, <1>10
<1>12. ASSUME NEW i \in 1 .. Len(others)
       PROVE  q[5 + i].body = PageData(s, others[i])
  <2>1. 5 + i \in 1 .. 5 + Len(others) /\ ~(5 + i <= 5) /\ (5 + i) - 5 = i
    BY <1>6
  <2>2. q[5 + i] = rest[i]
    BY <1>10, <2>1
  <2>3. QED  BY <1>5, <1>8, <2>2
<1>13. q[5].body % 8 = page
  BY <1>4, <1>11
<1>14. /\ q[1].body.sp \in Addresses
       /\ q[2].body = PageData(s, 5) /\ q[3].body = PageData(s, 2)
       /\ q[4].body = PageData(s, page)
  BY <1>2, <1>3, <1>5, <1>11
<1> HIDE DEF page
<1>15. File128(q, s)
  BY <1>10, <1>12, <1>13, <1>14, Zenon DEF File128, others
<1>16. QED  BY <1>15, Zenon DEF q

LEMMA OwnSna ==
  ASSUME NEW s, Usable(s)
  PROVE  LET w == libspectrum_sna_write(s)
         IN  \/ w.err = "NONE" /\ (File48(w.file, s) \/ File128(w.file, s))
             \/ w.err = "INVALID"
<1> DEFINE w == libspectrum_sna_write(s)
<1>1. CASE s.machine \in MEMORY_128
  <2> DEFINE q == write_128k_sna(s)
  <2>1. w = [err |-> "NONE", flags |-> SnaLoss(s), file |-> q]
    BY <1>1, Zenon DEF libspectrum_sna_write
  <2>2. File128(q, s)
    BY Written128
  <2> HIDE DEF q, w
  <2>3. w.err = "NONE" /\ w.file = q
    BY <2>1
  <2>4. QED  BY <2>2, <2>3 DEF w
<1>2. CASE s.machine \notin MEMORY_128 /\ HasRoom(s.sp)
  <2> DEFINE q == write_48k_sna(s)
  <2>1. w = [err |-> "NONE", flags |-> SnaLoss(s), file |-> q]
    BY <1>2, Zenon DEF libspectrum_sna_write
  <2>2. File48(q, s)
    BY <1>2, Written48
  <2> HIDE DEF q, w
  <2>3. w.err = "NONE" /\ w.file = q
    BY <2>1
  <2>4. QED  BY <2>2, <2>3 DEF w
<1>3. CASE s.machine \notin MEMORY_128 /\ ~HasRoom(s.sp)
  <2>1. w = [err |-> "INVALID", flags |-> SnaLoss(s), file |-> <<>>]
    BY <1>3, Zenon DEF libspectrum_sna_write
  <2> HIDE DEF w
  <2>2. w.err = "INVALID"
    BY <2>1
  <2>3. QED  BY <2>2 DEF w
<1>4. QED  BY <1>1, <1>2, <1>3

LEMMA SnaReadIs ==
  ASSUME NEW q, NEW res, SnaRead(q, res)
  PROVE  /\ \A s : DevicesFrom(res.snap, s) /\ JoysticksFrom(res.snap, s, "sna")
         /\ res.err = "NONE" => Usable(res.snap) /\ res.snap.machine \in Machines
<1>1. PICK u, m : /\ OnlyPages(u, m)
                  /\ \/ res = Error(u, "CORRUPT")
                     \/ res = Ok(u) /\ m \in {"48", "PENT"}
  BY Zenon DEF SnaRead
<1>2. /\ res.snap = u
      /\ res.err = "NONE" => m \in {"48", "PENT"}
  <2>1. CASE res = Error(u, "CORRUPT")
    <3>1. res.snap = u /\ res.err = "CORRUPT"
      BY <2>1, ErrorIs
    <3>2. QED  BY <3>1
  <2>2. CASE res = Ok(u) /\ m \in {"48", "PENT"}
    BY <2>2, OkIs
  <2>3. QED  BY <1>1, <2>1, <2>2
<1>3. \A s : DevicesFrom(u, s) /\ JoysticksFrom(u, s, "sna")
  BY <1>1, OffIsDevice DEF OnlyPages, DevicesFrom, JoysticksFrom, Active
<1>4. \A x \in {"48", "PENT"} : x \in Machines
  BY DEF Machines
<1>5. Usable(u) /\ u.machine = m
  BY <1>1 DEF OnlyPages
<1>6. QED  BY <1>2, <1>3, <1>4, <1>5

(* A whole file of ours is read.                                            *)
LEMMA OwnSnaWhole ==
  ASSUME NEW s, NEW q, File48(q, s) \/ File128(q, s), NEW res, SnaRead(q, res)
  PROVE  res.err = "NONE" /\ PagesFrom(res.snap, s)
<1> DEFINE page == q[5].body % 8
           others == OtherPages(page)
<1>1. CASE File48(q, s)
  <2>1. /\ Len(q) = 4 /\ HasStack(q[1].body.sp)
        /\ q[2].body \in {PageData(s, 5), Stacked(PageData(s, 5))}
        /\ q[3].body \in {PageData(s, 2), Stacked(PageData(s, 2))}
        /\ q[4].body \in {PageData(s, 0), Stacked(PageData(s, 0))}
    BY <1>1, Zenon DEF File48
  <2>2. ~(Len(q) \notin {4, 10, 11}) /\ ~(Len(q) \in {10, 11})
    BY <2>1
  <2>3. PICK u : /\ res = Ok(u) /\ DOMAIN u.pages = {0, 2, 5}
                 /\ u.pages[5] = q[2].body /\ u.pages[2] = q[3].body
                 /\ u.pages[0] = q[4].body
    BY <2>1, <2>2, Zenon DEF SnaRead
  <2>4. res.snap = u /\ res.err = "NONE"
    BY <2>3, OkIs
  <2>5. \A p \in DOMAIN u.pages : u.pages[p] \in {PageData(s, p), Stacked(PageData(s, p))}
    <3>1. ASSUME NEW p \in DOMAIN u.pages
          PROVE  u.pages[p] \in {PageData(s, p), Stacked(PageData(s, p))}
      <4>1. p = 0 \/ p = 2 \/ p = 5
        BY <2>3
      <4>2. CASE p = 0
        BY <2>1, <2>3, <4>2, Zenon
      <4>3. CASE p = 2
        BY <2>1, <2>3, <4>3, Zenon
      <4>4. CASE p = 5
        BY <2>1, <2>3, <4>4, Zenon
      <4>5. QED  BY <4>1, <4>2, <4>3, <4>4
    <3>2. QED  BY <3>1
  <2>6. QED  BY <2>4, <2>5, PagesFromData
<1>2. CASE File128(q, s)
  <2>1. /\ Len(q) = 5 + Len(others)
        /\ q[2].body = PageData(s, 5) /\ q[3].body = PageData(s, 2)
        /\ q[4].body = PageData(s, page)
        /\ \A i \in 1 .. Len(others) : q[5 + i].body = PageData(s, others[i])
    BY <1>2, Zenon DEF File128
  <2>2. Len(others) \in 5 .. 6
    BY PagesOfSecondPart
  <2>3. /\ ~(Len(q) \notin {4, 10, 11}) /\ ~(Len(q) = 4) /\ ~(Len(q) < 5 + Len(others))
    <3> DEFINE total == Len(q)
               rest == Len(others)
    <3>1. rest \in 5 .. 6 /\ total = 5 + rest
      BY <2>1, <2>2
    <3> HIDE DEF total, rest
    <3>2. ~(total \notin {4, 10, 11}) /\ ~(total = 4) /\ ~(total < 5 + rest)
      BY <3>1
    <3>3. QED  BY <3>2 DEF total, rest
  <2>4. /\ ~(page = 5 /\ q[4].body # q[2].body)
        /\ ~(page = 2 /\ q[4].body # q[3].body)
    BY <2>1
  <2>5. PICK u : /\ res = Ok(u) /\ DOMAIN u.pages = 0 .. 7
                 /\ \A p \in 0 .. 7 : u.pages[p] = q[PlaceOf(p, page)].body
    BY <2>3, <2>4, Zenon DEF SnaRead
  <2>6. res.snap = u /\ res.err = "NONE"
    BY <2>5, OkIs
  <2>7. ASSUME NEW p \in 0 .. 7
        PROVE  q[PlaceOf(p, page)].body = PageData(s, p)
    <3> DEFINE i == PlaceOf(p, page)
    <3>1. /\ p = 5 => i = 2
          /\ p = 2 => i = 3
          /\ p = page /\ p \notin {2, 5} => i = 4
          /\ p \notin {2, 5, page} =>
               i > 5 /\ i - 5 \in 1 .. Len(others) /\ others[i - 5] = p
          /\ i \in 2 .. 5 + Len(others)
      BY Placed
    <3> HIDE DEF i, page, others
    <3>2. ASSUME p = 5 PROVE q[i].body = PageData(s, p)
      BY <2>1, <3>1, <3>2, Zenon
    <3>3. ASSUME p = 2 PROVE q[i].body = PageData(s, p)
      BY <2>1, <3>1, <3>3, Zenon
    <3>4. ASSUME p = page, p \notin {2, 5} PROVE q[i].body = PageData(s, p)
      BY <2>1, <3>1, <3>4, Zenon
    <3>5. ASSUME p \notin {2, 5, page} PROVE q[i].body = PageData(s, p)
      <4> DEFINE k == i - 5
      <4>1. k \in 1 .. Len(others) /\ others[k] = p
        BY <3>1, <3>5
      <4>2. i \in Int
        BY <2>2, <3>1
      <4>3. 5 + k = i
        BY <4>2
      <4> HIDE DEF k
      <4>4. q[5 + k].body = PageData(s, others[k])
        BY <2>1, <4>1, Zenon
      <4>5. QED  BY <4>1, <4>3, <4>4, Zenon
    <3>6. q[i].body = PageData(s, p)
      <4>1. p = 5 \/ p = 2 \/ (p = page /\ p \notin {2, 5}) \/ p \notin {2, 5, page}
        BY Zenon
      <4>2. QED  BY <4>1, <3>2, <3>3, <3>4, <3>5, Zenon
    <3>7. QED  BY <3>6, Zenon DEF i, page
  <2>8. \A p \in DOMAIN u.pages : u.pages[p] \in {PageData(s, p), Stacked(PageData(s, p))}
    <3> HIDE DEF page
    <3>1. QED  BY <2>5, <2>7
  <2>9. QED  BY <2>6, <2>8, PagesFromData
<1>3. QED  BY <1>1, <1>2

(* The beginning of one is refused, or is a file of a 48K machine.          *)
LEMMA OwnSnaTorn ==
  ASSUME NEW s, NEW w, File48(w, s) \/ File128(w, s), NEW n \in 1 .. Len(w) - 1,
         NEW q, IsSequence(q), Len(q) = n, \A i \in 1 .. n : q[i] = w[i],
         NEW res, SnaRead(q, res), res.err = "NONE"
  PROVE  res.snap.machine = "48"
<1> DEFINE page == q[5].body % 8
           others == OtherPages(page)
<1>1. PICK u, m :
        /\ OnlyPages(u, m)
        /\ \/ res = Error(u, "CORRUPT")
           \/ m = "48" /\ res = Ok(u)
           \/ n \in {10, 11} /\ res = Ok(u) /\ ~(n < 5 + Len(others))
  BY Zenon DEF SnaRead
<1>2. res # Error(u, "CORRUPT")
  <2>1. ASSUME res = Error(u, "CORRUPT") PROVE FALSE
    <3>1. res.err = "CORRUPT"
      BY <2>1, ErrorIs
    <3>2. QED  BY <3>1
  <2>2. QED  BY <2>1
<1>3. ~(n \in {10, 11} /\ ~(n < 5 + Len(others)))
  <2>1. CASE File48(w, s)
    <3>1. Len(w) = 4
      BY <2>1 DEF File48
    <3>2. QED  BY <3>1
  <2>2. CASE File128(w, s)
    <3> DEFINE all == OtherPages(w[5].body % 8)
    <3>1. Len(w) = 5 + Len(all)
      BY <2>2, Zenon DEF File128
    <3>2. ASSUME n \in {10, 11} PROVE n < 5 + Len(others)
      <4>1. q[5] = w[5]
        BY <3>2
      <4>2. others = all
        BY <4>1, Zenon
      <4>3. Len(all) \in 5 .. 6
        BY PagesOfSecondPart
      <4> HIDE DEF all, others
      <4>4. QED  BY <3>1, <4>2, <4>3
    <3>3. QED  BY <3>2
  <2>3. QED  BY <2>1, <2>2
<1>4. m = "48" /\ res = Ok(u)
  <2> HIDE DEF others
  <2>1. QED  BY <1>1, <1>2, <1>3, Zenon
<1>5. res.snap = u
  BY <1>4, OkIs
<1>6. QED  BY <1>1, <1>4, <1>5 DEF OnlyPages

-----------------------------------------------------------------------------
(* The chunks that are left of a file that is read into r, in an order the *)
(* reader takes; of a file of ours (mine) they were written from s.  That,  *)
(* and not the file as it was written, is what is true at every step of a   *)
(* reader, whatever the order of the chunks.                                *)

\* A .szx file: its header comes first, and the machine is known when it is read.
SzxInOrder(q, r, s, mine) ==
  /\ IsSequence(q)
  /\ \A i \in 1 .. Len(q) : IsSzxChunk(q[i])
  /\ r.machine \in Machines \/ (Len(q) >= 1 /\ q[1].id = "ZXST")
  /\ mine => /\ \A i \in 1 .. Len(q) : SzxHonest(q[i], s)
             /\ r.machine = s.machine \/ (Len(q) >= 1 /\ q[1].id = "ZXST")

\* The blocks of a .z80 file of ours, none of a page that was read.
Z80Left(q, r, s) ==
  /\ SameMemory(r.machine, s.machine) /\ OwnBlocks(q, s)
  /\ \A i \in 1 .. Len(q) : RamOf(q[i], s.machine) \intersect DOMAIN r.pages = {}

\* A .z80 file, before and after its header.
Z80InOrder(q, r, s, mine) ==
  /\ IsSequence(q)
  /\ \A i \in 1 .. Len(q) : IsZ80Chunk(q[i])
  /\ r.machine \in Machines \/ (Len(q) >= 1 /\ q[1].id = "HEADER")
  /\ mine => \/ /\ r = libspectrum_snap_alloc /\ Len(q) >= 1
                /\ q[1] = write_header(s)[1] /\ OwnBlocks(Tail(q), s)
             \/ Z80Left(q, r, s)

\* A .sna file, or the beginning of one.
SnaInOrder(q, r, s, mine, all) ==
  /\ r = libspectrum_snap_alloc
  /\ IsSequence(q) /\ Len(q) >= 1 /\ q[1].body.sp \in Addresses
  /\ mine => LET w == libspectrum_sna_write(s).file
             IN  /\ libspectrum_sna_write(s).err = "NONE"
                 /\ all => q = w
                 /\ ~all => \E n \in 1 .. Len(w) - 1 : q = SubSeq(w, 1, n)

(* A chunk of a .szx file, when the machine is known or the chunk says it.  *)
LEMMA SzxTaken ==
  ASSUME NEW r, Usable(r), NEW s, s.machine \in Machines, NEW mine \in BOOLEAN,
         NEW c, IsSzxChunk(c), r.machine \in Machines \/ c.id = "ZXST",
         mine => /\ SzxHonest(c, s) /\ From(r, s, "szx")
                 /\ r.machine = s.machine \/ c.id = "ZXST",
         NEW res, res = SzxReadChunk(r, c)
  PROVE  /\ Usable(res.snap) /\ res.snap.machine \in Machines
         /\ mine => /\ From(res.snap, s, "szx") /\ res.snap.machine = s.machine
                    /\ res.err = "NONE" \/ Unreadable("szx", s)
<1> DEFINE t == res.snap
<1>1. /\ Usable(t)
      /\ t.machine = IF c.id = "ZXST" THEN c.body.machine ELSE r.machine
  BY SzxReads, Zenon
<1>2. t.machine \in Machines
  <2>1. c.id = "ZXST" => c.body.machine \in Machines
    BY Zenon DEF IsSzxChunk
  <2>2. QED  BY <1>1, <2>1, Zenon
<1>3. ASSUME mine
      PROVE  /\ From(t, s, "szx") /\ t.machine = s.machine
             /\ res.err = "NONE" \/ Unreadable("szx", s)
  <2>1. From(t, s, "szx")
    BY <1>3, SzxFrom, Zenon
  <2>2. t.machine = s.machine
    <3>1. c.id = "ZXST" => c.body.machine = s.machine
      BY <1>3, Zenon DEF SzxHonest
    <3>2. QED  BY <1>1, <1>3, <3>1, Zenon
  <2>3. ASSUME ~Unreadable("szx", s)
        PROVE  res.err = "NONE"
    <3>1. c.id = "ROM" => r.machine = s.machine
      <4>1. c.id = "ROM" => c.id # "ZXST"
        OBVIOUS
      <4>2. QED  BY <1>3, <4>1, Zenon
    <3>2. QED  BY <1>3, <2>3, <3>1, SzxAccepts, Zenon
  <2>4. QED  BY <2>1, <2>2, <2>3, Zenon
<1>4. QED  BY <1>1, <1>2, <1>3, Zenon

(* What is left when the first chunk is read.                               *)
LEMMA SzxRest ==
  ASSUME NEW q, NEW r, NEW s, NEW mine \in BOOLEAN, SzxInOrder(q, r, s, mine), q # <<>>
  PROVE  /\ Head(q) = q[1] /\ IsSzxChunk(q[1])
         /\ r.machine \in Machines \/ q[1].id = "ZXST"
         /\ mine => /\ SzxHonest(q[1], s)
                    /\ r.machine = s.machine \/ q[1].id = "ZXST"
         /\ \A u : u.machine \in Machines /\ (mine => u.machine = s.machine) =>
                     SzxInOrder(Tail(q), u, s, mine)
<1> DEFINE rest == Tail(q)
<1>1. IsSequence(q)
  BY Zenon DEF SzxInOrder
<1>2. /\ IsSequence(rest) /\ Len(rest) = Len(q) - 1 /\ Len(q) >= 1
      /\ \A i \in 1 .. Len(q) - 1 : rest[i] = q[i + 1]
      /\ Head(q) = q[1]
  BY <1>1, TailSequence
<1>3. Len(q) \in Nat
  BY <1>1, SequenceShape
<1>4. 1 \in 1 .. Len(q)
  BY <1>2, <1>3
<1>5. ASSUME NEW i \in 1 .. Len(rest)
      PROVE  /\ i + 1 \in 1 .. Len(q) /\ rest[i] = q[i + 1]
  BY <1>2, <1>3
<1> HIDE DEF rest
<1>6. \A i \in 1 .. Len(rest) : IsSzxChunk(rest[i])
  BY <1>5, Zenon DEF SzxInOrder
<1>7. mine => \A i \in 1 .. Len(rest) : SzxHonest(rest[i], s)
  BY <1>5, Zenon DEF SzxInOrder
<1>8. \A u : u.machine \in Machines /\ (mine => u.machine = s.machine) =>
               SzxInOrder(rest, u, s, mine)
  BY <1>2, <1>6, <1>7, Zenon DEF SzxInOrder
<1>9. /\ IsSzxChunk(q[1])
      /\ r.machine \in Machines \/ q[1].id = "ZXST"
      /\ mine => /\ SzxHonest(q[1], s)
                 /\ r.machine = s.machine \/ q[1].id = "ZXST"
  BY <1>4, Zenon DEF SzxInOrder
<1>10. QED  BY <1>2, <1>8, <1>9, Zenon DEF rest

(* A chunk of a .z80 file is read, and the others are left.                 *)
LEMMA Z80Taken ==
  ASSUME NEW q, NEW r, Usable(r), NEW s, Usable(s), s.machine \in Machines,
         NEW mine \in BOOLEAN, Z80InOrder(q, r, s, mine), q # <<>>,
         mine => From(r, s, "z80"),
         NEW res, res = Z80ReadChunk(r, Head(q))
  PROVE  /\ mine => /\ From(res.snap, s, "z80")
                    /\ res.err = "NONE" \/ Unreadable("z80", s)
         /\ res.err = "NONE" =>
              Usable(res.snap) /\ Z80InOrder(Tail(q), res.snap, s, mine)
<1> DEFINE rest == Tail(q)
           t == res.snap
           c == q[1]
<1>1. IsSequence(q)
  BY Zenon DEF Z80InOrder
<1>2. /\ IsSequence(rest) /\ Len(rest) = Len(q) - 1 /\ Len(q) >= 1
      /\ \A i \in 1 .. Len(q) - 1 : rest[i] = q[i + 1]
      /\ Head(q) = c
  BY <1>1, TailSequence
<1>3. Len(q) \in Nat
  BY <1>1, SequenceShape
<1>4. 1 \in 1 .. Len(q)
  BY <1>2, <1>3
<1>5. ASSUME NEW i \in 1 .. Len(rest)
      PROVE  i + 1 \in 1 .. Len(q) /\ i + 1 # 1 /\ rest[i] = q[i + 1]
  BY <1>2, <1>3
<1>6. ASSUME NEW i \in 1 .. Len(rest), NEW j \in 1 .. Len(rest), i # j
      PROVE  i + 1 # j + 1
  BY <1>2, <1>3, <1>6
<1>7. IsZ80Chunk(c) /\ (r.machine \in Machines \/ c.id = "HEADER")
  BY <1>4, Zenon DEF Z80InOrder
<1>7a. res = Z80ReadChunk(r, c)
  BY <1>2, Zenon
<1> HIDE DEF rest
<1>8. \A i \in 1 .. Len(rest) : IsZ80Chunk(rest[i])
  BY <1>5, Zenon DEF Z80InOrder
<1>9. res.err = "NONE" => Usable(t) /\ t.machine \in Machines
  <2>1. res.err = "NONE" => /\ Usable(t)
                            /\ IF c.id = "HEADER" THEN t.machine \in Machines
                                                  ELSE t.machine = r.machine
    <3> DEFINE read == Z80ReadChunk(r, c)
    <3>1. read.err = "NONE" => /\ Usable(read.snap)
                               /\ IF c.id = "HEADER" THEN read.snap.machine \in Machines
                                                     ELSE read.snap.machine = r.machine
      BY <1>7, Z80Reads
    <3>2. res = read
      BY <1>7a, Zenon
    <3> HIDE DEF read
    <3>3. QED  BY <3>1, <3>2, Zenon
  <2>2. QED  BY <1>7, <2>1, Zenon
<1>10. ASSUME mine
       PROVE  /\ From(t, s, "z80")
              /\ res.err = "NONE" \/ Unreadable("z80", s)
              /\ res.err = "NONE" => Z80Left(rest, t, s)
  <2>1. CASE /\ r = libspectrum_snap_alloc
             /\ c = write_header(s)[1] /\ OwnBlocks(rest, s)
    <3>1. /\ res.err = "NONE" /\ SameMemory(t.machine, s.machine)
          /\ From(t, s, "z80") /\ t.pages = r.pages
      <4> DEFINE read == Z80ReadChunk(r, c)
      <4>1. From(r, s, "z80")
        BY <1>10, Zenon
      <4>2. /\ read.err = "NONE" /\ SameMemory(read.snap.machine, s.machine)
            /\ From(read.snap, s, "z80") /\ read.snap.pages = r.pages
        BY <2>1, <4>1, OwnHeaderTaken
      <4>3. res = read
        BY <1>7a, Zenon
      <4> HIDE DEF read
      <4>4. QED  BY <4>2, <4>3, Zenon
    <3>2. DOMAIN t.pages = {}
      BY <2>1, <3>1, AllocIs, Zenon
    <3>3. \A i \in 1 .. Len(rest) : RamOf(rest[i], s.machine) \intersect DOMAIN t.pages = {}
      BY <3>2
    <3>4. QED  BY <2>1, <3>1, <3>3, Zenon DEF Z80Left
  <2>2. CASE Z80Left(q, r, s)
    <3>1. /\ OwnBlock(c, s) /\ SameMemory(r.machine, s.machine)
          /\ RamOf(c, s.machine) \intersect DOMAIN r.pages = {}
      BY <1>4, <2>2, Zenon DEF Z80Left, OwnBlocks
    <3>2. /\ From(t, s, "z80")
          /\ res.err = "NONE" \/ s.slt # {}
          /\ res.err = "NONE" =>
               /\ SameMemory(t.machine, s.machine)
               /\ DOMAIN t.pages \subseteq DOMAIN r.pages \union RamOf(c, s.machine)
      <4> DEFINE read == Z80ReadChunk(r, c)
      <4>1. From(r, s, "z80")
        BY <1>10, Zenon
      <4>2. /\ From(read.snap, s, "z80")
            /\ read.err = "NONE" \/ s.slt # {}
            /\ read.err = "NONE" =>
                 /\ SameMemory(read.snap.machine, s.machine)
                 /\ DOMAIN read.snap.pages \subseteq DOMAIN r.pages \union RamOf(c, s.machine)
        BY <3>1, <4>1, OwnBlockTaken
      <4>3. res = read
        BY <1>7a, Zenon
      <4> HIDE DEF read
      <4>4. QED  BY <4>2, <4>3, Zenon
    <3>3. OwnBlocks(rest, s)
      <4>1. \A i \in 1 .. Len(rest) : OwnBlock(rest[i], s)
        BY <1>5, <2>2, Zenon DEF Z80Left, OwnBlocks
      <4>2. ASSUME NEW i \in 1 .. Len(rest), NEW j \in 1 .. Len(rest), i # j
            PROVE  RamOf(rest[i], s.machine) \intersect RamOf(rest[j], s.machine) = {}
        <5>1. i + 1 # j + 1
          BY <1>6, <4>2
        <5>2. QED  BY <1>5, <2>2, <5>1, Zenon DEF Z80Left, OwnBlocks
      <4>3. QED  BY <1>2, <4>1, <4>2, Zenon DEF OwnBlocks
    <3>4. ASSUME res.err = "NONE", NEW i \in 1 .. Len(rest)
          PROVE  RamOf(rest[i], s.machine) \intersect DOMAIN t.pages = {}
      <4>1. RamOf(rest[i], s.machine) \intersect DOMAIN r.pages = {}
        BY <1>5, <2>2, Zenon DEF Z80Left
      <4>2. RamOf(rest[i], s.machine) \intersect RamOf(c, s.machine) = {}
        BY <1>4, <1>5, <2>2, Zenon DEF Z80Left, OwnBlocks
      <4>3. DOMAIN t.pages \subseteq DOMAIN r.pages \union RamOf(c, s.machine)
        BY <3>2, <3>4, Zenon
      <4>4. QED  BY <4>1, <4>2, <4>3
    <3>5. Unreadable("z80", s) <=> s.slt # {}
      BY DEF Unreadable
    <3>6. QED  BY <3>2, <3>3, <3>4, <3>5, Zenon DEF Z80Left
  <2>3. QED  BY <1>10, <2>1, <2>2, Zenon DEF Z80InOrder, rest
<1>11. res.err = "NONE" => Z80InOrder(rest, t, s, mine)
  BY <1>2, <1>8, <1>9, <1>10, Zenon DEF Z80InOrder
<1>12. QED  BY <1>9, <1>10, <1>11, Zenon DEF rest

(* A .sna file is read.                                                     *)
LEMMA SnaTaken ==
  ASSUME NEW q, NEW r, NEW s, Usable(s), NEW mine \in BOOLEAN, NEW all \in BOOLEAN,
         SnaInOrder(q, r, s, mine, all),
         NEW res, res = internal_sna_read(r, q)
  PROVE  /\ res.err = "NONE" => Usable(res.snap) /\ res.snap.machine \in Machines
         /\ DevicesFrom(res.snap, s) /\ JoysticksFrom(res.snap, s, "sna")
         /\ mine /\ all => res.err = "NONE" /\ PagesFrom(res.snap, s)
         /\ mine /\ ~all => res.err # "NONE" \/ res.snap.machine = "48"
<1>1. SnaRead(q, res)
  BY SnaReads, Zenon DEF SnaInOrder
<1>2. /\ DevicesFrom(res.snap, s) /\ JoysticksFrom(res.snap, s, "sna")
      /\ res.err = "NONE" => Usable(res.snap) /\ res.snap.machine \in Machines
  BY <1>1, SnaReadIs, Zenon
<1> DEFINE w == libspectrum_sna_write(s).file
<1>3. ASSUME mine
      PROVE  File48(w, s) \/ File128(w, s)
  <2>1. libspectrum_sna_write(s).err = "NONE"
    BY <1>3, Zenon DEF SnaInOrder
  <2>2. libspectrum_sna_write(s).err # "INVALID"
    BY <2>1
  <2>3. QED  BY <2>2, OwnSna, Zenon
<1>4. mine /\ all => q = w
  BY Zenon DEF SnaInOrder
<1>5. mine /\ ~all => \E n \in 1 .. Len(w) - 1 : q = SubSeq(w, 1, n)
  BY Zenon DEF SnaInOrder
<1>6. IsSequence(q)
  BY Zenon DEF SnaInOrder
<1> HIDE DEF w
<1>7. ASSUME mine, all
      PROVE  res.err = "NONE" /\ PagesFrom(res.snap, s)
  BY <1>1, <1>3, <1>4, <1>7, OwnSnaWhole, Zenon
<1>8. ASSUME mine, ~all, res.err = "NONE"
      PROVE  res.snap.machine = "48"
  <2>1. PICK n \in 1 .. Len(w) - 1 : q = SubSeq(w, 1, n)
    BY <1>5, <1>8, Zenon
  <2>2. IsSequence(w)
    BY <1>3, <1>8, Zenon DEF File48, File128
  <2>3. Len(w) \in Nat /\ w \in Seq(Range(w))
    BY <2>2, SequenceShape
  <2>4. Len(q) = n /\ \A i \in 1 .. n : q[i] = w[i]
    BY <2>1, <2>3
  <2>5. QED  BY <1>1, <1>3, <1>6, <1>8, <2>4, OwnSnaTorn, Zenon
<1>9. QED  BY <1>2, <1>7, <1>8, Zenon

(* What a writer returns is such a file, or one of its own errors.          *)
LEMMA SavedInOrder ==
  ASSUME NEW s, Usable(s), s.machine \in Machines, NEW f \in Formats,
         NEW compress \in BOOLEAN, NEW w, w = Written(f, s, compress)
  PROVE  /\ w.err \notin { "CORRUPT", "UNKNOWN" }
         /\ w.err = "NONE" =>
              LET a == libspectrum_snap_alloc
              IN  /\ f = "szx" => SzxInOrder(w.file, a, s, TRUE)
                  /\ f = "z80" => Z80InOrder(w.file, a, s, TRUE)
                  /\ f = "sna" => SnaInOrder(w.file, a, s, TRUE, TRUE)
<1> DEFINE a == libspectrum_snap_alloc
<1>1. CASE f = "szx"
  <2> DEFINE q == SzxChunks(s, compress)
  <2>1. Piece(q, s) /\ Len(q) >= 1 /\ q[1].id = "ZXST"
    BY SzxWrites
  <2> HIDE DEF q
  <2>2. SzxInOrder(q, a, s, TRUE)
    BY <2>1, Zenon DEF Piece, SzxGood, SzxInOrder
  <2>3. w = libspectrum_szx_write(s, compress)
    BY <1>1 DEF Written
  <2>4. \/ w = [err |-> "NONE", flags |-> SzxLoss(s), file |-> q]
        \/ w = [err |-> "LOGIC", flags |-> SzxLoss(s), file |-> <<>>]
    BY <2>3, Zenon DEF libspectrum_szx_write, q
  <2>5. \/ w.err = "NONE" /\ w.file = q
        \/ w.err = "LOGIC"
    BY <2>4
  <2>6. QED  BY <1>1, <2>2, <2>5
<1>2. CASE f = "z80"
  <2> DEFINE q == write_header(s) \o write_pages(s) \o write_slt(s)
             c == write_header(s)[1]
             rest == Tail(q)
  <2>1. IsSequence(q) /\ Len(q) >= 1 /\ q[1] = c /\ OwnBlocks(rest, s)
    BY Z80Writes
  <2>2. IsZ80Chunk(c)
    <3>1. From(a, s, "z80") /\ Usable(a)
      BY AllocFrom, AllocUsable
    <3>2. QED  BY <3>1, OwnHeaderTaken
  <2>3. c.id = "HEADER"
    BY DEF write_header, Chunk
  <2> HIDE DEF q, c
  <2>4. /\ Len(q) \in Nat
        /\ \A i \in 1 .. Len(rest) : rest[i] = q[i + 1]
        /\ Len(rest) = Len(q) - 1
    <3>1. Len(q) \in Nat
      BY <2>1, SequenceShape
    <3>2. q # <<>>
      BY <2>1
    <3>3. QED  BY <2>1, <3>1, <3>2, TailSequence
  <2>5. ASSUME NEW i \in 1 .. Len(q)
        PROVE  IsZ80Chunk(q[i])
    <3>1. ASSUME i # 1
          PROVE  IsZ80Chunk(q[i])
      <4> DEFINE k == i - 1
      <4>1. k \in 1 .. Len(rest) /\ k + 1 = i
        BY <2>4, <3>1
      <4> HIDE DEF k, rest
      <4>2. OwnBlock(rest[k], s) /\ rest[k] = q[i]
        BY <2>1, <2>4, <4>1, Zenon DEF OwnBlocks
      <4>3. OwnBlock(q[i], s)
        BY <4>2, Zenon
      <4>4. \A n \in 1 .. 18 : n \in 0 .. 255
        OBVIOUS
      <4>5. QED  BY <4>3, <4>4, Zenon DEF OwnBlock, IsZ80Chunk
    <3>2. QED  BY <2>1, <2>2, <3>1, Zenon
  <2>6. Z80InOrder(q, a, s, TRUE)
    BY <2>1, <2>3, <2>5, Zenon DEF Z80InOrder, c
  <2>7. w = libspectrum_z80_write2(s)
    BY <1>2 DEF Written
  <2>8. \/ w = [err |-> "NONE", file |-> q,
                flags |-> StateLoss(s) \union BaseHeaderLoss(s) \union MachineLoss(s)]
        \/ w = [err |-> "CRASH", flags |-> {}, file |-> <<>>]
    BY <2>7, Zenon DEF libspectrum_z80_write2, q
  <2>9. \/ w.err = "NONE" /\ w.file = q
        \/ w.err = "CRASH"
    BY <2>8
  <2>10. QED  BY <1>2, <2>6, <2>9
<1>3. CASE f = "sna"
  <2>1. w = libspectrum_sna_write(s)
    BY <1>3 DEF Written
  <2>2. \/ w.err = "NONE" /\ (File48(w.file, s) \/ File128(w.file, s))
        \/ w.err = "INVALID"
    BY <2>1, OwnSna, Zenon
  <2>3. ASSUME w.err = "NONE"
        PROVE  SnaInOrder(w.file, a, s, TRUE, TRUE)
    <3> DEFINE q == w.file
    <3>1. IsSequence(q) /\ Len(q) >= 1 /\ q[1].body.sp \in Addresses
      <4>1. CASE File48(q, s)
        BY <4>1 DEF File48
      <4>2. CASE File128(q, s)
        <5> DEFINE others == OtherPages(q[5].body % 8)
        <5>1. IsSequence(q) /\ Len(q) = 5 + Len(others) /\ q[1].body.sp \in Addresses
          BY <4>2, Zenon DEF File128
        <5>2. Len(others) \in 5 .. 6
          BY PagesOfSecondPart
        <5> HIDE DEF others
        <5>3. QED  BY <5>1, <5>2
      <4>3. w.err # "INVALID"
        BY <2>3
      <4>4. QED  BY <2>2, <4>1, <4>2, <4>3, Zenon
    <3>2. libspectrum_sna_write(s).err = "NONE" /\ libspectrum_sna_write(s).file = q
      BY <2>1, <2>3, Zenon
    <3> HIDE DEF q
    <3>3. SnaInOrder(q, a, s, TRUE, TRUE)
      BY <3>1, <3>2, Zenon DEF SnaInOrder
    <3>4. QED  BY <3>3, Zenon DEF q
  <2>4. QED  BY <1>3, <2>2, <2>3
<1>4. QED  BY <1>1, <1>2, <1>3 DEF Formats

(* So is a file of another program, whose chunks say what they like.        *)
LEMMA FoundInOrder ==
  ASSUME NEW f, NEW q, IsFile(f, q), NEW s
  PROVE  LET a == libspectrum_snap_alloc
         IN  /\ f \in Formats
             /\ f = "szx" => SzxInOrder(q, a, s, FALSE)
             /\ f = "z80" => Z80InOrder(q, a, s, FALSE)
             /\ f = "sna" => SnaInOrder(q, a, s, FALSE, TRUE)
<1> DEFINE a == libspectrum_snap_alloc
<1>1. IsSequence(q) /\ q # <<>>
  BY Zenon DEF IsFile, IsSequence
<1>2. DOMAIN q = 1 .. Len(q) /\ Len(q) >= 1
  BY <1>1, SequenceShape, TailSequence
<1>3. f \in Formats
  BY DEF IsFile, Formats
<1>4. ASSUME f = "szx" PROVE SzxInOrder(q, a, s, FALSE)
  <2>1. q[1].id = "ZXST" /\ \A i \in DOMAIN q : IsSzxChunk(q[i])
    BY <1>4 DEF IsFile
  <2>2. QED  BY <1>1, <1>2, <2>1, Zenon DEF SzxInOrder
<1>5. ASSUME f = "z80" PROVE Z80InOrder(q, a, s, FALSE)
  <2>1. q[1].id = "HEADER" /\ \A i \in DOMAIN q : IsZ80Chunk(q[i])
    BY <1>5 DEF IsFile
  <2>2. QED  BY <1>1, <1>2, <2>1, Zenon DEF Z80InOrder
<1>6. ASSUME f = "sna" PROVE SnaInOrder(q, a, s, FALSE, TRUE)
  <2>1. q[1].body.sp \in Addresses
    BY <1>6 DEF IsFile
  <2>2. QED  BY <1>1, <1>2, <2>1, Zenon DEF SnaInOrder
<1>7. QED  BY <1>3, <1>4, <1>5, <1>6

-----------------------------------------------------------------------------
(* The invariant.  A snapshot that is saved has the shape of one, and so    *)
(* has the one a reader fills in, as long as no call failed.                *)

Ready ==
  /\ own \in BOOLEAN /\ whole \in BOOLEAN /\ phase \in Phases
  /\ Usable(snap) /\ snap.machine \in Machines
  /\ phase # "failed" => Usable(rd) /\ err = "NONE"
  /\ phase = "idle" => rd = libspectrum_snap_alloc /\ whole
  /\ phase = "read" /\ whole => rd.machine \in Machines
  /\ phase = "reading" => fmt \in Formats

InOrder ==
  phase = "reading" =>
    /\ fmt = "szx" => whole /\ SzxInOrder(file, rd, snap, own)
    /\ fmt = "z80" => whole /\ Z80InOrder(file, rd, snap, own)
    /\ fmt = "sna" => SnaInOrder(file, rd, snap, own, whole)

IInv == Ready /\ InOrder /\ NothingInvented /\ WrittenIsReadable

(* Nothing that comes from the saved snapshot is invented.                  *)
LEMMA FromIsHonest ==
  ASSUME own => From(rd, snap, fmt)
  PROVE  NothingInvented
BY Zenon DEF From, NothingInvented

(* Only a .sna file is torn before it is read.                              *)
LEMMA HonestIsFrom ==
  ASSUME NothingInvented, own, fmt # "sna" \/ whole
  PROVE  From(rd, snap, fmt)
BY Zenon DEF From, NothingInvented, Torn

LEMMA NotFailed ==
  ASSUME phase # "failed"
  PROVE  WrittenIsReadable
BY DEF WrittenIsReadable

LEMMA InitReady == Init => IInv
<1> SUFFICES ASSUME Init PROVE IInv
  OBVIOUS
<1>1. IsSnapshot(snap) /\ snap.machine \in Machines /\ CardsFit(snap)
  BY SetupsAssumption DEF Init
<1>2. Usable(snap)
  <2>1. \A d \in Devices : IsDevice(Device(snap, d))
    BY <1>1, OffIsDevice, Zenon DEF IsSnapshot, Device
  <2>2. Shape(snap)
    <3>1. DOMAIN snap = DOMAIN libspectrum_snap_alloc
      BY <1>1, Zenon DEF IsSnapshot
    <3>2. Shape(libspectrum_snap_alloc)
      BY AllocIs
    <3>3. QED  BY <3>1, <3>2, Zenon DEF Shape
  <2>3. QED  BY <1>1, <2>1, <2>2, Zenon DEF Usable, IsSnapshot
<1>3. /\ phase = "idle" /\ rd = libspectrum_snap_alloc /\ err = "NONE"
      /\ own = TRUE /\ whole = TRUE
  BY DEF Init
<1>4. Ready
  BY <1>1, <1>2, <1>3, AllocUsable DEF Ready, Phases
<1>5. NothingInvented
  BY <1>3, AllocFrom, FromIsHonest, Zenon
<1>6. InOrder /\ WrittenIsReadable
  BY <1>3 DEF InOrder, WrittenIsReadable
<1>7. QED  BY <1>4, <1>5, <1>6, Zenon DEF IInv

-----------------------------------------------------------------------------
(* Each action keeps it.                                                    *)

LEMMA SaveKeeps ==
  ASSUME IInv, NEW f \in Formats, NEW compress \in BOOLEAN, Save(f, compress)
  PROVE  IInv'
<1> DEFINE w == Written(f, snap, compress)
           a == libspectrum_snap_alloc
<1>1. /\ phase = "idle" /\ rd = a /\ whole = TRUE
      /\ Usable(snap) /\ snap.machine \in Machines
  BY Zenon DEF IInv, Ready, Save
<1>2. /\ own' = TRUE /\ fmt' = f /\ file' = w.file /\ err' = w.err
      /\ phase' = (IF w.err = "NONE" THEN "reading" ELSE "failed")
      /\ snap' = snap /\ whole' = TRUE /\ rd' = a
  BY <1>1, Zenon DEF Save
<1>3. /\ w.err \notin { "CORRUPT", "UNKNOWN" }
      /\ w.err = "NONE" =>
           /\ f = "szx" => SzxInOrder(w.file, a, snap, TRUE)
           /\ f = "z80" => Z80InOrder(w.file, a, snap, TRUE)
           /\ f = "sna" => SnaInOrder(w.file, a, snap, TRUE, TRUE)
  BY <1>1, SavedInOrder
<1> HIDE DEF w
<1>4. Ready'
  BY <1>1, <1>2, AllocUsable, Zenon DEF Ready, Phases, a
<1>5. InOrder'
  BY <1>2, <1>3, Zenon DEF InOrder
<1>6. NothingInvented'
  BY <1>2, AllocFrom, Zenon DEF From, NothingInvented
<1>7. WrittenIsReadable'
  BY <1>2, <1>3, Zenon DEF WrittenIsReadable
<1>8. QED  BY <1>4, <1>5, <1>6, <1>7, Zenon DEF IInv

LEMMA PoweredOnUsable == Usable(PoweredOn) /\ PoweredOn.machine \in Machines
<1> DEFINE a == libspectrum_snap_alloc
           s == [a EXCEPT !.machine = "48"]
<1>1. Usable(a)
  BY AllocUsable
<1> HIDE DEF a
<1>2. /\ DOMAIN s = DOMAIN a /\ s.machine = "48" /\ s.sp = a.sp /\ s.pages = a.pages
      /\ s.joysticks = a.joysticks /\ s.kit = a.kit
  BY <1>1, Zenon DEF Usable, Shape
<1> HIDE DEF s
<1>3. \A d : Device(s, d) = Device(a, d)
  BY <1>2, Zenon DEF Device
<1>4. Usable(s)
  BY <1>1, <1>2, <1>3, Zenon DEF Usable, Shape, CardsFit
<1>5. s.machine \in Machines
  BY <1>2 DEF Machines
<1>6. QED  BY <1>4, <1>5, Zenon DEF PoweredOn, s, a

LEMMA FindKeeps ==
  ASSUME IInv, Find
  PROVE  IInv'
<1> DEFINE a == libspectrum_snap_alloc
<1> PICK f \in Foreign : fmt' = f.fmt /\ file' = f.file
  BY Zenon DEF Find
<1>1. rd = a /\ whole = TRUE /\ err = "NONE"
  BY Zenon DEF IInv, Ready, Find
<1>2. /\ own' = FALSE /\ fmt' = f.fmt /\ file' = f.file /\ err' = "NONE"
      /\ phase' = "reading" /\ snap' = PoweredOn /\ whole' = TRUE /\ rd' = a
  BY <1>1, Zenon DEF Find
<1>3. /\ f.fmt \in Formats
      /\ f.fmt = "szx" => SzxInOrder(f.file, a, PoweredOn, FALSE)
      /\ f.fmt = "z80" => Z80InOrder(f.file, a, PoweredOn, FALSE)
      /\ f.fmt = "sna" => SnaInOrder(f.file, a, PoweredOn, FALSE, TRUE)
  BY ForeignAssumption, FoundInOrder
<1>4. Ready'
  BY <1>1, <1>2, <1>3, AllocUsable, PoweredOnUsable, Zenon DEF Ready, Phases, a
<1>5. InOrder'
  BY <1>2, <1>3, Zenon DEF InOrder
<1>6. NothingInvented' /\ WrittenIsReadable'
  BY <1>2 DEF NothingInvented, WrittenIsReadable
<1>7. QED  BY <1>4, <1>5, <1>6, Zenon DEF IInv

(* A reader that goes on with the rest of a file, or gives up.              *)
LEMMA TakeKeeps ==
  ASSUME IInv, phase = "reading", fmt \in {"szx", "z80"}, whole = TRUE,
         NEW res, NEW rest, Take(res, rest), UNCHANGED <<snap, fmt, own, whole>>,
         own => From(res.snap, snap, fmt) /\ (res.err = "NONE" \/ Unreadable(fmt, snap)),
         res.err = "NONE" =>
           /\ Usable(res.snap)
           /\ fmt = "szx" => SzxInOrder(rest, res.snap, snap, own)
           /\ fmt = "z80" => Z80InOrder(rest, res.snap, snap, own)
  PROVE  IInv'
<1>1. /\ own \in BOOLEAN /\ fmt \in Formats /\ fmt # "sna"
      /\ Usable(snap) /\ snap.machine \in Machines
  BY DEF IInv, Ready, Formats
<1>2. /\ rd' = res.snap /\ err' = res.err
      /\ file' = (IF res.err = "NONE" THEN rest ELSE <<>>)
      /\ phase' = (IF res.err = "NONE" THEN "reading" ELSE "failed")
      /\ snap' = snap /\ fmt' = fmt /\ own' = own /\ whole' = TRUE
  BY Zenon DEF Take
<1>3. Ready'
  <2>1. CASE res.err = "NONE"
    BY <1>1, <1>2, <2>1 DEF Ready, Phases
  <2>2. CASE res.err # "NONE"
    BY <1>1, <1>2, <2>2 DEF Ready, Phases
  <2>3. QED  BY <2>1, <2>2
<1>4. InOrder'
  <2>1. ASSUME res.err = "NONE" PROVE InOrder'
    BY <1>1, <1>2, <2>1, Zenon DEF InOrder
  <2>2. ASSUME res.err # "NONE" PROVE InOrder'
    BY <1>2, <2>2 DEF InOrder
  <2>3. QED  BY <2>1, <2>2
<1>5. NothingInvented'
  <2>1. own' => From(rd', snap', fmt')
    BY <1>2
  <2>2. QED  BY <2>1, Zenon DEF From, NothingInvented
<1>6. WrittenIsReadable'
  <2>1. ASSUME own, res.err # "NONE" PROVE Unreadable(fmt, snap)
    BY <2>1, Zenon
  <2>2. QED  BY <1>2, <2>1 DEF WrittenIsReadable
<1>7. QED  BY <1>3, <1>4, <1>5, <1>6, Zenon DEF IInv

LEMMA ReadChunkKeeps ==
  ASSUME IInv, ReadChunk
  PROVE  IInv'
<1> DEFINE res == ReadOne(fmt, rd, Head(file))
<1>1. /\ phase = "reading" /\ fmt # "sna" /\ file # <<>> /\ whole = TRUE
      /\ own \in BOOLEAN /\ fmt \in Formats /\ Usable(rd)
      /\ Usable(snap) /\ snap.machine \in Machines
  <2>1. /\ phase = "reading" /\ fmt # "sna" /\ file # <<>>
        /\ own \in BOOLEAN /\ whole \in BOOLEAN /\ fmt \in Formats
        /\ Usable(snap) /\ snap.machine \in Machines
    BY Zenon DEF IInv, Ready, ReadChunk
  <2>2. Usable(rd)
    BY <2>1 DEF IInv, Ready
  <2>3. whole
    BY <2>1 DEF IInv, InOrder, Formats
  <2>4. QED  BY <2>1, <2>2, <2>3
<1>2. Take(res, Tail(file)) /\ UNCHANGED <<snap, fmt, own, whole>>
  BY Zenon DEF ReadChunk
<1>3. own => From(rd, snap, fmt)
  BY <1>1, HonestIsFrom, Zenon DEF IInv
<1>4. /\ own => /\ From(res.snap, snap, fmt)
                /\ res.err = "NONE" \/ Unreadable(fmt, snap)
      /\ res.err = "NONE" =>
           /\ Usable(res.snap)
           /\ fmt = "szx" => SzxInOrder(Tail(file), res.snap, snap, own)
           /\ fmt = "z80" => Z80InOrder(Tail(file), res.snap, snap, own)
  <2>1. CASE fmt = "szx"
    <3>1. res = SzxReadChunk(rd, Head(file))
      BY <2>1 DEF ReadOne
    <3> HIDE DEF res
    <3>2. SzxInOrder(file, rd, snap, own)
      BY <1>1, <2>1 DEF IInv, InOrder
    <3>3. /\ Head(file) = file[1] /\ IsSzxChunk(file[1])
          /\ rd.machine \in Machines \/ file[1].id = "ZXST"
          /\ own => /\ SzxHonest(file[1], snap)
                    /\ rd.machine = snap.machine \/ file[1].id = "ZXST"
          /\ \A u : u.machine \in Machines /\ (own => u.machine = snap.machine) =>
                      SzxInOrder(Tail(file), u, snap, own)
      BY <1>1, <3>2, SzxRest, Zenon
    <3>4. res = SzxReadChunk(rd, file[1])
      BY <3>1, <3>3, Zenon
    <3>5. own => From(rd, snap, "szx")
      BY <1>3, <2>1, Zenon
    <3>6. /\ Usable(res.snap) /\ res.snap.machine \in Machines
          /\ own => /\ From(res.snap, snap, "szx") /\ res.snap.machine = snap.machine
                    /\ res.err = "NONE" \/ Unreadable("szx", snap)
      <4> DEFINE c == file[1]
      <4>1. /\ IsSzxChunk(c) /\ res = SzxReadChunk(rd, c)
            /\ rd.machine \in Machines \/ c.id = "ZXST"
            /\ own => /\ SzxHonest(c, snap) /\ From(rd, snap, "szx")
                      /\ rd.machine = snap.machine \/ c.id = "ZXST"
        BY <3>3, <3>4, <3>5, Zenon
      <4> HIDE DEF c
      <4>2. own \in BOOLEAN /\ Usable(rd) /\ snap.machine \in Machines
        BY <1>1
      <4>3. QED  BY <4>1, <4>2, SzxTaken
    <3>7. fmt # "z80"
      BY <2>1
    <3>8. SzxInOrder(Tail(file), res.snap, snap, own)
      BY <3>3, <3>6, Zenon
    <3>9. QED  BY <2>1, <3>6, <3>7, <3>8, Zenon DEF res
  <2>2. CASE fmt = "z80"
    <3>1. res = Z80ReadChunk(rd, Head(file))
      BY <2>2 DEF ReadOne
    <3> HIDE DEF res
    <3>2. Z80InOrder(file, rd, snap, own)
      BY <1>1, <2>2 DEF IInv, InOrder
    <3>3. own => From(rd, snap, "z80")
      BY <1>3, <2>2, Zenon
    <3>4. /\ own => /\ From(res.snap, snap, "z80")
                    /\ res.err = "NONE" \/ Unreadable("z80", snap)
          /\ res.err = "NONE" =>
               Usable(res.snap) /\ Z80InOrder(Tail(file), res.snap, snap, own)
      BY <1>1, <3>1, <3>2, <3>3, Z80Taken, Zenon
    <3>5. fmt # "szx"
      BY <2>2
    <3>6. QED  BY <2>2, <3>4, <3>5, Zenon DEF res
  <2>3. fmt = "szx" \/ fmt = "z80"
    BY <1>1 DEF Formats
  <2>4. QED  BY <2>1, <2>2, <2>3, Zenon
<1> HIDE DEF res
<1>5. fmt \in {"szx", "z80"}
  BY <1>1 DEF Formats
<1>6. QED  BY <1>1, <1>2, <1>4, <1>5, TakeKeeps

LEMMA ReadSwappedKeeps ==
  ASSUME IInv, ReadSwapped
  PROVE  IInv'
<1> DEFINE c == file[1]
           d == file[2]
           left == Tail(file)
           rest == Tail(left)
           second == SzxReadChunk(rd, d)
           res == SzxReadChunk(second.snap, c)
<1>1. /\ phase = "reading" /\ fmt = "szx" /\ Len(file) >= 2 /\ c.id # "ZXST"
      /\ second.err = "NONE" /\ Take(res, rest)
      /\ UNCHANGED <<snap, fmt, own, whole>>
  BY Zenon DEF ReadSwapped
<1>2. /\ own \in BOOLEAN /\ whole \in BOOLEAN /\ Usable(rd)
      /\ Usable(snap) /\ snap.machine \in Machines
  BY <1>1 DEF IInv, Ready
<1>3. whole = TRUE /\ SzxInOrder(file, rd, snap, own)
  BY <1>1, <1>2 DEF IInv, InOrder
<1>4. own => From(rd, snap, "szx")
  BY <1>1, <1>3, HonestIsFrom, Zenon DEF IInv
<1>5. /\ file # <<>> /\ left # <<>> /\ left[1] = d
  <2>1. IsSequence(file)
    BY <1>3, Zenon DEF SzxInOrder
  <2>2. file # <<>>
    BY <1>1
  <2>3. Len(file) \in Nat /\ 1 \in 1 .. Len(file) - 1 /\ 1 + 1 = 2
    BY <1>1, <2>1, SequenceShape
  <2>4. /\ Len(left) = Len(file) - 1
        /\ \A i \in 1 .. Len(file) - 1 : left[i] = file[i + 1]
    BY <2>1, <2>2, TailSequence
  <2>5. left[1] = d
    <3>1. left[1] = file[1 + 1]
      BY <2>3, <2>4, Zenon
    <3>2. QED  BY <2>3, <3>1, Zenon
  <2>6. left # <<>>
    <3> HIDE DEF left
    <3>1. Len(left) # 0
      BY <1>1, <2>3, <2>4
    <3>2. Len(<<>>) = 0
      OBVIOUS
    <3>3. QED  BY <3>1, <3>2
  <2>7. QED  BY <2>2, <2>5, <2>6
<1>6. /\ IsSzxChunk(c) /\ rd.machine \in Machines
      /\ own => SzxHonest(c, snap) /\ rd.machine = snap.machine
      /\ \A u : u.machine \in Machines /\ (own => u.machine = snap.machine) =>
                  SzxInOrder(left, u, snap, own)
  BY <1>1, <1>2, <1>3, <1>5, SzxRest, Zenon
<1> HIDE DEF c, left
<1>7. SzxInOrder(left, rd, snap, own)
  BY <1>6, Zenon
<1>8. /\ IsSzxChunk(d)
      /\ own => SzxHonest(d, snap)
      /\ \A u : u.machine \in Machines /\ (own => u.machine = snap.machine) =>
                  SzxInOrder(rest, u, snap, own)
  <2>1. /\ IsSzxChunk(left[1])
        /\ own => SzxHonest(left[1], snap)
        /\ \A u : u.machine \in Machines /\ (own => u.machine = snap.machine) =>
                    SzxInOrder(rest, u, snap, own)
    BY <1>2, <1>5, <1>7, SzxRest, Zenon
  <2> HIDE DEF d, rest
  <2>2. QED  BY <1>5, <2>1, Zenon
<1> HIDE DEF d, rest
<1> DEFINE u == second.snap
<1>9. /\ Usable(u) /\ u.machine \in Machines
      /\ own => From(u, snap, "szx") /\ u.machine = snap.machine
  <2>1. own => /\ SzxHonest(d, snap) /\ From(rd, snap, "szx")
               /\ rd.machine = snap.machine \/ d.id = "ZXST"
    BY <1>4, <1>6, <1>8, Zenon
  <2>2. QED  BY <1>2, <1>6, <1>8, <2>1, SzxTaken
<1> HIDE DEF second, u
<1>10. /\ Usable(res.snap) /\ res.snap.machine \in Machines
       /\ own => /\ From(res.snap, snap, "szx") /\ res.snap.machine = snap.machine
                 /\ res.err = "NONE" \/ Unreadable("szx", snap)
  <2>1. res = SzxReadChunk(u, c)
    BY Zenon DEF u
  <2> HIDE DEF res
  <2>2. own => /\ SzxHonest(c, snap) /\ From(u, snap, "szx")
               /\ u.machine = snap.machine \/ c.id = "ZXST"
    BY <1>6, <1>9, Zenon
  <2>3. QED  BY <1>2, <1>6, <1>9, <2>1, <2>2, SzxTaken
<1> HIDE DEF res
<1>11. SzxInOrder(rest, res.snap, snap, own)
  BY <1>8, <1>10, Zenon
<1>12. /\ own => /\ From(res.snap, snap, fmt)
                 /\ res.err = "NONE" \/ Unreadable(fmt, snap)
       /\ fmt \in {"szx", "z80"} /\ fmt # "z80"
  <2>1. fmt # "z80"
    BY <1>1
  <2>2. QED  BY <1>1, <1>10, <2>1, Zenon
<1>13. res.err = "NONE" =>
         /\ Usable(res.snap)
         /\ fmt = "szx" => SzxInOrder(rest, res.snap, snap, own)
         /\ fmt = "z80" => Z80InOrder(rest, res.snap, snap, own)
  BY <1>10, <1>11, <1>12, Zenon
<1>14. QED  BY <1>1, <1>3, <1>12, <1>13, TakeKeeps

(* What a reader does at the end of a file, where it is and where it was    *)
(* cut.                                                                     *)
LEMMA EndKeeps ==
  ASSUME NEW f, NEW r, Usable(r), NEW t, t = IF f = "z80" THEN Z80ReadEnd(r) ELSE r
  PROVE  /\ Usable(t) /\ t.machine = r.machine
         /\ \A s, g : From(r, s, g) => From(t, s, g)
<1>1. CASE f = "z80"
  <2>1. Changed(t, r, {})
    BY <1>1, Z80Ends
  <2>2. Usable(t)
    BY <2>1, ChangedUsable, Zenon
  <2>3. t.machine = r.machine
    BY <2>1, Zenon DEF Changed
  <2>4. ASSUME NEW s, NEW g, From(r, s, g)
        PROVE  From(t, s, g)
    <3>1. \A e \in {} : Active(s, e)
      OBVIOUS
    <3>2. QED  BY <2>1, <2>4, <3>1, ChangedFrom
  <2>5. QED  BY <2>2, <2>3, <2>4
<1>2. CASE f # "z80"
  BY <1>2, Zenon
<1>3. QED  BY <1>1, <1>2

LEMMA ReadEndKeeps ==
  ASSUME IInv, ReadEnd
  PROVE  IInv'
<1> DEFINE t == IF fmt = "z80" THEN Z80ReadEnd(rd) ELSE rd
<1>1. /\ phase = "reading" /\ fmt # "sna" /\ file = <<>>
      /\ rd' = t /\ phase' = "read"
      /\ UNCHANGED <<snap, fmt, file, own, whole, err>>
  BY Zenon DEF ReadEnd
<1>2. /\ own \in BOOLEAN /\ whole \in BOOLEAN /\ fmt \in Formats /\ Usable(rd)
      /\ err = "NONE" /\ Usable(snap) /\ snap.machine \in Machines
  BY <1>1 DEF IInv, Ready
<1>3. fmt = "szx" \/ fmt = "z80"
  BY <1>1, <1>2 DEF Formats
<1>4. whole /\ (SzxInOrder(file, rd, snap, own) \/ Z80InOrder(file, rd, snap, own))
  BY <1>1, <1>3, Zenon DEF IInv, InOrder
<1>5. rd.machine \in Machines
  <2>1. ~(Len(file) >= 1)
    BY <1>1
  <2>2. QED  BY <1>4, <2>1, Zenon DEF SzxInOrder, Z80InOrder
<1>6. own => From(rd, snap, fmt)
  BY <1>4, HonestIsFrom, Zenon DEF IInv
<1>7. /\ Usable(t) /\ t.machine = rd.machine
      /\ From(rd, snap, fmt) => From(t, snap, fmt)
  BY <1>2, EndKeeps
<1> HIDE DEF t
<1>8. Ready'
  BY <1>1, <1>2, <1>5, <1>7 DEF Ready, Phases
<1>9. NothingInvented'
  BY <1>1, <1>6, <1>7, Zenon DEF From, NothingInvented
<1>10. InOrder' /\ WrittenIsReadable'
  BY <1>1 DEF InOrder, WrittenIsReadable
<1>11. QED  BY <1>8, <1>9, <1>10, Zenon DEF IInv

LEMMA ReadSnaKeeps ==
  ASSUME IInv, ReadSna
  PROVE  IInv'
<1> DEFINE res == internal_sna_read(rd, file)
<1>1. /\ phase = "reading" /\ fmt = "sna"
      /\ rd' = res.snap /\ err' = res.err
      /\ phase' = (IF res.err = "NONE" THEN "read" ELSE "failed")
      /\ UNCHANGED <<snap, fmt, own, whole>>
  BY Zenon DEF ReadSna
<1>2. /\ own \in BOOLEAN /\ whole \in BOOLEAN
      /\ Usable(snap) /\ snap.machine \in Machines
  BY DEF IInv, Ready
<1>3. SnaInOrder(file, rd, snap, own, whole)
  BY <1>1, Zenon DEF IInv, InOrder
<1>4. /\ res.err = "NONE" => Usable(res.snap) /\ res.snap.machine \in Machines
      /\ DevicesFrom(res.snap, snap) /\ JoysticksFrom(res.snap, snap, "sna")
      /\ own /\ whole => res.err = "NONE" /\ PagesFrom(res.snap, snap)
      /\ own /\ ~whole => res.err # "NONE" \/ res.snap.machine = "48"
  BY <1>2, <1>3, SnaTaken
<1> HIDE DEF res
<1>5. Ready'
  <2>1. CASE res.err = "NONE"
    BY <1>1, <1>2, <1>4, <2>1 DEF Ready, Phases
  <2>2. CASE res.err # "NONE"
    BY <1>1, <1>2, <2>2 DEF Ready, Phases
  <2>3. QED  BY <2>1, <2>2
<1>6. phase' # "reading"
  BY <1>1
<1>7. NothingInvented'
  <2>1. /\ DevicesFrom(rd', snap') /\ JoysticksFrom(rd', snap', fmt')
    BY <1>1, <1>4, Zenon
  <2>2. ASSUME own'
        PROVE  Torn' \/ PagesFrom(rd', snap')
    <3>1. CASE whole
      BY <1>1, <1>4, <2>2, <3>1, Zenon
    <3>2. CASE ~whole
      <4>1. res.err # "NONE" => phase' = "failed"
        BY <1>1
      <4>2. rd'.machine = "48" \/ phase' = "failed"
        BY <1>1, <1>4, <2>2, <3>2, <4>1, Zenon
      <4>3. QED  BY <1>1, <3>2, <4>2, Zenon DEF Torn
    <3>3. QED  BY <3>1, <3>2
  <2>3. QED  BY <2>1, <2>2, Zenon DEF NothingInvented
<1>8. WrittenIsReadable'
  <2>1. ASSUME own, whole PROVE err' = "NONE"
    BY <1>1, <1>4, <2>1, Zenon
  <2>2. QED  BY <1>1, <2>1 DEF WrittenIsReadable
<1>9. QED  BY <1>5, <1>6, <1>7, <1>8, Zenon DEF IInv, InOrder

LEMMA CutKeeps ==
  ASSUME IInv, NEW between \in BOOLEAN, Cut(between)
  PROVE  IInv'
<1> DEFINE f == IF between THEN fmt ELSE "szx"
           t == IF f = "z80" THEN Z80ReadEnd(rd) ELSE rd
<1>1. /\ phase = "reading" /\ fmt # "sna" /\ whole' = FALSE
      /\ err' = (IF between THEN "NONE" ELSE "CORRUPT")
      /\ phase' = (IF between THEN "read" ELSE "failed")
      /\ rd' = (IF between /\ fmt = "z80" THEN Z80ReadEnd(rd) ELSE rd)
      /\ UNCHANGED <<snap, fmt, own>>
  BY Zenon DEF Cut
<1>2. rd' = t
  BY <1>1
<1>3. /\ own \in BOOLEAN /\ Usable(rd) /\ Usable(snap) /\ snap.machine \in Machines
  BY <1>1 DEF IInv, Ready
<1>4. own => From(rd, snap, fmt)
  BY <1>1, HonestIsFrom, Zenon DEF IInv
<1> HIDE DEF f
<1>5. Usable(t) /\ (From(rd, snap, fmt) => From(t, snap, fmt))
  BY <1>3, EndKeeps
<1> HIDE DEF t
<1>6. Ready'
  <2>1. CASE between
    BY <1>1, <1>2, <1>3, <1>5, <2>1 DEF Ready, Phases
  <2>2. CASE ~between
    BY <1>1, <1>2, <1>3, <1>5, <2>2 DEF Ready, Phases
  <2>3. QED  BY <2>1, <2>2
<1>7. NothingInvented'
  <2>1. own' => From(rd', snap', fmt')
    BY <1>1, <1>2, <1>4, <1>5, Zenon
  <2>2. QED  BY <2>1, Zenon DEF From, NothingInvented
<1>8. InOrder' /\ WrittenIsReadable'
  BY <1>1 DEF InOrder, WrittenIsReadable
<1>9. QED  BY <1>6, <1>7, <1>8, Zenon DEF IInv

LEMMA CutSnaKeeps ==
  ASSUME IInv, NEW n \in 1 .. 10, CutSna(n)
  PROVE  IInv'
<1> DEFINE q == SubSeq(file, 1, n)
<1>1. /\ phase = "reading" /\ fmt = "sna" /\ whole /\ n \in 1 .. Len(file) - 1
      /\ file' = q /\ whole' = FALSE
      /\ UNCHANGED <<snap, phase, fmt, own, rd, err>>
  BY Zenon DEF CutSna
<1>2. SnaInOrder(file, rd, snap, own, TRUE)
  <2>1. SnaInOrder(file, rd, snap, own, whole)
    BY <1>1, Zenon DEF IInv, InOrder
  <2>2. whole = TRUE
    BY <1>1 DEF IInv, Ready
  <2>3. QED  BY <2>1, <2>2, Zenon
<1>3. IsSequence(file) /\ file[1].body.sp \in Addresses /\ rd = libspectrum_snap_alloc
  BY <1>2, Zenon DEF SnaInOrder
<1>4. Len(file) \in Nat /\ file \in Seq(Range(file))
  BY <1>3, SequenceShape
<1>5. q \in Seq(Range(file)) /\ Len(q) = n /\ n >= 1 /\ q[1] = file[1]
  BY <1>1, <1>4
<1>6. IsSequence(q)
  BY <1>5, SequenceOver
<1>7. own => LET w == libspectrum_sna_write(snap).file
             IN  /\ libspectrum_sna_write(snap).err = "NONE"
                 /\ \E k \in 1 .. Len(w) - 1 : q = SubSeq(w, 1, k)
  BY <1>1, <1>2, Zenon DEF SnaInOrder
<1> HIDE DEF q
<1>8. SnaInOrder(q, rd, snap, own, FALSE)
  BY <1>3, <1>5, <1>6, <1>7, Zenon DEF SnaInOrder
<1>9. InOrder'
  BY <1>1, <1>8 DEF InOrder
<1>10. Ready'
  BY <1>1 DEF IInv, Ready, Formats
<1>11. NothingInvented'
  <2>1. own => From(rd, snap, fmt)
    BY <1>3, AllocFrom, Zenon
  <2>2. own' => From(rd', snap', fmt')
    BY <1>1, <2>1, Zenon
  <2>3. QED  BY <2>2, Zenon DEF From, NothingInvented
<1>12. WrittenIsReadable'
  BY <1>1 DEF WrittenIsReadable
<1>13. QED  BY <1>9, <1>10, <1>11, <1>12, Zenon DEF IInv

LEMMA AdoptKeeps ==
  ASSUME IInv, Adopt
  PROVE  IInv'
<1>1. /\ phase = "read" /\ whole /\ snap' = rd /\ rd' = libspectrum_snap_alloc
      /\ phase' = "idle" /\ UNCHANGED <<own, whole, err>>
  BY Zenon DEF Adopt
<1>2. /\ own \in BOOLEAN /\ whole \in BOOLEAN /\ err = "NONE"
      /\ Usable(rd) /\ rd.machine \in Machines
  BY <1>1 DEF IInv, Ready
<1>3. Ready'
  BY <1>1, <1>2, AllocUsable DEF Ready, Phases
<1>4. NothingInvented'
  <2>1. From(rd', snap', fmt')
    BY <1>1, AllocFrom, Zenon
  <2>2. QED  BY <2>1, Zenon DEF From, NothingInvented
<1>5. InOrder' /\ WrittenIsReadable'
  BY <1>1 DEF InOrder, WrittenIsReadable
<1>6. QED  BY <1>3, <1>4, <1>5, Zenon DEF IInv

LEMMA StutterKeeps ==
  ASSUME IInv, UNCHANGED vars
  PROVE  IInv'
BY Zenon DEF IInv, Ready, InOrder, NothingInvented, WrittenIsReadable, Torn, vars

-----------------------------------------------------------------------------
LEMMA StepKeeps == IInv /\ [Next]_vars => IInv'
<1> SUFFICES ASSUME IInv, [Next]_vars PROVE IInv'
  OBVIOUS
<1>1. ASSUME NEW f \in Formats, NEW compress \in BOOLEAN, Save(f, compress)
      PROVE  IInv'
  BY <1>1, SaveKeeps
<1>2. ASSUME Find PROVE IInv'
  BY <1>2, FindKeeps
<1>3. ASSUME Reading PROVE IInv'
  BY <1>3, ReadChunkKeeps, ReadEndKeeps, ReadSnaKeeps, Zenon DEF Reading
<1>4. ASSUME ReadSwapped PROVE IInv'
  BY <1>4, ReadSwappedKeeps
<1>5. ASSUME NEW between \in BOOLEAN, Cut(between) PROVE IInv'
  BY <1>5, CutKeeps
<1>6. ASSUME NEW n \in 1 .. 10, CutSna(n) PROVE IInv'
  BY <1>6, CutSnaKeeps
<1>7. ASSUME Adopt PROVE IInv'
  BY <1>7, AdoptKeeps
<1>8. ASSUME UNCHANGED vars PROVE IInv'
  BY <1>8, StutterKeeps
<1>9. QED  BY <1>1, <1>2, <1>3, <1>4, <1>5, <1>6, <1>7, <1>8, Zenon DEF Next

LEMMA Invariant == Spec => []IInv
BY InitReady, StepKeeps, PTL DEF Spec

(* Each page, device and joystick a reader has taken from a file of ours    *)
(* is one of the snapshot that was saved, at every chunk, wherever the file *)
(* ends and whatever the order of its chunks: for every snapshot, and for   *)
(* what was read from any file and is saved again.                          *)
THEOREM ReadersInventNothing == Spec => []NothingInvented
<1>1. IInv => NothingInvented
  BY Zenon DEF IInv
<1>2. QED  BY <1>1, Invariant, PTL

(* A file libspectrum_snap_write wrote is read to its end, if it was not cut, *)
(* whatever the order of its chunks; the two exceptions of Unreadable are   *)
(* custom ROMs of four machines in .szx files and level data in .z80 files. *)
THEOREM WritersAreRead == Spec => []WrittenIsReadable
<1>1. IInv => WrittenIsReadable
  BY Zenon DEF IInv
<1>2. QED  BY <1>1, Invariant, PTL

=============================================================================
