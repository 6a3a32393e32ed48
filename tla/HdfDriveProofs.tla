--------------------------- MODULE HdfDriveProofs ---------------------------
(***************************************************************************)
(* What the operations on a drive and its cache preserve, for every sector  *)
(* size and every file, and that a commit loses nothing of an image whose   *)
(* sectors fit the positions of a file.                                     *)
(***************************************************************************)
EXTENDS HdfDrive, TLAPS

(* The empty cache of a drive without dirty sectors is a cache.             *)
LEMMA NoCacheIsCache ==
  ASSUME NEW half \in BOOLEAN
  PROVE  IsCache(half, NoCache) /\ DOMAIN NoCache = {}
  BY DEF IsCache, NoCache

(* Packing a sector buffer, as libspectrum_ide_write_sector_to_hdf does,    *)
(* gives what the image stores; unpacking gives a buffer again.             *)
LEMMA PackType ==
  ASSUME NEW half \in BOOLEAN, NEW block \in Block
  PROVE  Pack(half, block) \in Stored(half)
<1>1. CASE half
  <2>1. \A i \in 0..(BlockSize \div 2) - 1 : 2 * i \in 0..BlockSize - 1
    BY BlockSizeAssumption
  <2>2. QED  BY <1>1, <2>1 DEF Pack, Stored, HalfBlock, Block
<1>2. CASE ~half
  BY <1>2 DEF Pack, Stored
<1>3. QED  BY <1>1, <1>2

(* A stored sector unpacks to a full one.                                   *)
LEMMA UnpackType ==
  ASSUME NEW half \in BOOLEAN, NEW stored \in Stored(half)
  PROVE  Unpack(half, stored) \in Block
<1>1. CASE half
  <2>1. \A i \in 0..BlockSize - 1 : i % 2 = 0 => i \div 2 \in 0..(BlockSize \div 2) - 1
    BY BlockSizeAssumption
  <2>2. \A i \in 0..BlockSize - 1 :
          (IF i % 2 = 0 THEN stored[i \div 2] ELSE 255) \in Byte
    <3>1. stored \in [0..(BlockSize \div 2) - 1 -> Byte]
      BY <1>1 DEF Stored, HalfBlock
    <3>2. \A j \in 0..(BlockSize \div 2) - 1 : stored[j] \in Byte
      BY <3>1
    <3>3. 255 \in Byte
      BY DEF Byte
    <3>4. QED  BY <2>1, <3>2, <3>3
  <2>3. QED  BY <1>1, <2>2 DEF Unpack, Block
<1>2. CASE ~half
  BY <1>2 DEF Unpack, Stored
<1>3. QED  BY <1>1, <1>2

(* The zeroed buffer is a sector.                                           *)
LEMMA ZeroBlockType == ZeroBlock \in Block
  BY DEF ZeroBlock, Block, Byte

(* Writing sectors keeps the cache a cache, and makes exactly them dirty.   *)
LEMMA WriteSectorsType ==
  ASSUME NEW half \in BOOLEAN, NEW cache, IsCache(half, cache),
         NEW S \in SUBSET Nat, NEW block \in Block
  PROVE  /\ IsCache(half, WriteSectors(half, cache, S, block))
         /\ DOMAIN WriteSectors(half, cache, S, block) = DOMAIN cache \union S
  BY PackType DEF IsCache, WriteSectors

----------------------------------------------------------------------------
(* Sectors in the file.                                                     *)

\* What the header of an image says about the place of its sectors.
HasLayout(g) == g.half \in BOOLEAN /\ g.header \in Nat

(* A sector has a size, and is a function from its bytes.                   *)
LEMMA SectorSizeType ==
  ASSUME NEW half \in BOOLEAN
  PROVE  /\ SectorSize(half) \in Nat \ {0}
         /\ Stored(half) = [0..SectorSize(half) - 1 -> Byte]
<1>1. BlockSize \div 2 \in Nat \ {0}
  BY BlockSizeAssumption
<1>2. QED
  BY <1>1, BlockSizeAssumption DEF SectorSize, Stored, HalfBlock, Block

(* data_offset + sector_size * sector_number, in 32 bits, is in the file.   *)
LEMMA PlaceType ==
  ASSUME NEW g, HasLayout(g), NEW s \in Nat
  PROVE  Place(g, s) \in Int /\ Place(g, s) >= -g.header
<1>1. Places(g.half) \in Nat \ {0} /\ g.header \in Nat
  BY PositionAssumption DEF Places, HasLayout
<1>2. \A a \in Nat, b \in Nat \ {0} : a % b \in Nat
  OBVIOUS
<1>3. (g.header + s) % Places(g.half) \in Nat
  BY <1>1, <1>2
<1>4. QED  BY <1>1, <1>3 DEF Place

(* Below 4 GB it is the sector's own position.                              *)
LEMMA PlaceFits ==
  ASSUME NEW g, HasLayout(g), NEW total \in Nat, Fits(g, total), NEW s \in 0..total - 1
  PROVE  Place(g, s) = s
<1>1. Places(g.half) \in Nat \ {0} /\ g.header \in Nat
  BY PositionAssumption DEF Places, HasLayout
<1>2. \A a \in Nat, b \in Nat \ {0} : a < b => a % b = a
  OBVIOUS
<1>3. (g.header + s) % Places(g.half) = g.header + s
  BY <1>1, <1>2 DEF Fits
<1>4. QED  BY <1>1, <1>3 DEF Place

(* What the file holds at a place is a sector or its first bytes, and the   *)
(* first bytes only at its last place.                                      *)
LEMMA BytesAtType ==
  ASSUME NEW g, HasLayout(g), NEW file, IsFile(g, file), NEW p
  PROVE  \E m \in 0..SectorSize(g.half) :
           /\ BytesAt(file, p) \in [0..m - 1 -> Byte]
           /\ p \notin DOMAIN file => m = 0
           /\ p \in DOMAIN file /\ m # SectorSize(g.half) => p + 1 \notin DOMAIN file
           /\ p \in DOMAIN file => m > 0
<1> DEFINE size == SectorSize(g.half)
<1>1. size \in Nat \ {0} /\ Stored(g.half) = [0..size - 1 -> Byte]
  BY SectorSizeType DEF HasLayout
<1>2. CASE p \notin DOMAIN file
  <2>1. BytesAt(file, p) \in [0..0 - 1 -> Byte]
    BY <1>2 DEF BytesAt, NoBytes
  <2>2. QED  BY <1>1, <1>2, <2>1
<1>3. CASE p \in DOMAIN file /\ file[p] \in Stored(g.half)
  BY <1>1, <1>3 DEF BytesAt
<1>4. CASE p \in DOMAIN file /\ file[p] \notin Stored(g.half)
  <2>1. /\ p + 1 \notin DOMAIN file
        /\ \E n \in 1..size - 1 : file[p] \in [0..n - 1 -> Byte]
    BY <1>4 DEF IsFile
  <2>2. PICK n \in 1..size - 1 : file[p] \in [0..n - 1 -> Byte]
    BY <2>1
  <2>3. n \in 0..size /\ n > 0
    BY <1>1
  <2>4. BytesAt(file, p) \in [0..n - 1 -> Byte]
    BY <1>4, <2>2 DEF BytesAt
  <2>5. QED  BY <1>4, <2>1, <2>3, <2>4
<1>5. QED  BY <1>2, <1>3, <1>4

(* A place with the last byte of a sector holds a whole one.                *)
LEMMA HeldIsStored ==
  ASSUME NEW g, HasLayout(g), NEW file, IsFile(g, file), NEW p, HoldsSector(g, file, p)
  PROVE  p \in DOMAIN file /\ file[p] \in Stored(g.half)
<1>1. SectorSize(g.half) \in Nat \ {0} /\ Stored(g.half) = [0..SectorSize(g.half) - 1 -> Byte]
  BY SectorSizeType DEF HasLayout
<1>2. p \in DOMAIN file /\ SectorSize(g.half) - 1 \in DOMAIN file[p]
  BY DEF HoldsSector
<1>3. PICK m \in 0..SectorSize(g.half) : BytesAt(file, p) \in [0..m - 1 -> Byte]
  BY BytesAtType
<1>4. file[p] \in [0..m - 1 -> Byte]
  BY <1>2, <1>3 DEF BytesAt
<1>5. SectorSize(g.half) - 1 \in 0..m - 1
  BY <1>2, <1>4
<1>6. m = SectorSize(g.half)
  BY <1>1, <1>5
<1>7. QED  BY <1>1, <1>2, <1>4, <1>6

(* A buffer is not the outcome of a failed read.                            *)
LEMMA BlockIsNoError ==
  ASSUME NEW block \in Block
  PROVE  block # ReadError
<1>1. 0 \in DOMAIN block
  BY BlockSizeAssumption DEF Block
<1>2. DOMAIN ReadError = {}
  BY DEF ReadError, NoBytes
<1>3. QED  BY <1>1, <1>2

(* What can be read of a sector is a buffer, for the sectors that are dirty *)
(* or in the file.                                                          *)
LEMMA SectorDataType ==
  ASSUME NEW g, HasLayout(g), NEW file, IsFile(g, file),
         NEW cache, IsCache(g.half, cache), NEW s
  PROVE  /\ SectorData(g, file, cache, s) \in Block \union {ReadError}
         /\ SectorData(g, file, cache, s) # ReadError <=>
              s \in DOMAIN cache \/ HoldsSector(g, file, Place(g, s))
<1>1. g.half \in BOOLEAN
  BY DEF HasLayout
<1>2. CASE s \in DOMAIN cache
  <2>1. cache[s] \in Stored(g.half)
    BY <1>2 DEF IsCache
  <2>2. Unpack(g.half, cache[s]) \in Block
    BY <1>1, <2>1, UnpackType
  <2>3. QED  BY <1>2, <2>2, BlockIsNoError DEF SectorData
<1>3. CASE s \notin DOMAIN cache /\ HoldsSector(g, file, Place(g, s))
  <2>1. file[Place(g, s)] \in Stored(g.half)
    BY <1>3, HeldIsStored
  <2>2. Unpack(g.half, file[Place(g, s)]) \in Block
    BY <1>1, <2>1, UnpackType
  <2>3. QED  BY <1>3, <2>2, BlockIsNoError DEF SectorData
<1>4. CASE s \notin DOMAIN cache /\ ~HoldsSector(g, file, Place(g, s))
  BY <1>4 DEF SectorData
<1>5. QED  BY <1>2, <1>3, <1>4

(* A read delivers a sector buffer or the error.                            *)
LEMMA ReadOutcomesType ==
  ASSUME NEW g, HasLayout(g), NEW file, IsFile(g, file),
         NEW cache, IsCache(g.half, cache), NEW s,
         NEW block \in ReadOutcomes(g, file, cache, s)
  PROVE  block = ReadError \/ block \in Block
<1>1. block = SectorData(g, file, cache, s) \/ block = ReadError
  BY DEF ReadOutcomes
<1>2. QED  BY <1>1, SectorDataType

----------------------------------------------------------------------------
(* Commits.                                                                 *)

(* A commit, whatever part of a sector it gets into the file, leaves a file *)
(* without gaps and a cache.                                                *)
LEMMA CommitType ==
  ASSUME NEW g, HasLayout(g), NEW file, IsFile(g, file),
         NEW cache, IsCache(g.half, cache), NEW s \in DOMAIN cache,
         NEW n \in 1..SectorSize(g.half)
  PROVE  /\ IsFile(g, WriteToFile(g, file, s, cache[s], n))
         /\ IsCache(g.half, KeepInCache(g.half, cache, s, n))
         /\ DOMAIN KeepInCache(g.half, cache, s, n) \subseteq DOMAIN cache
<1> DEFINE size == SectorSize(g.half)
           q == Place(g, s)
           F == WriteToFile(g, file, s, cache[s], n)
           D == DOMAIN file \union (-g.header)..q
<1>1. /\ size \in Nat \ {0} /\ Stored(g.half) = [0..size - 1 -> Byte]
      /\ g.header \in Nat /\ n \in 1..size
  BY SectorSizeType DEF HasLayout
<1>2. q \in Int /\ q >= -g.header
  BY PlaceType DEF IsCache
<1>3. cache[s] \in [0..size - 1 -> Byte]
  BY <1>1 DEF IsCache
<1>4. /\ DOMAIN F = D
      /\ \A p \in D : F[p] =
           IF p = q THEN Overwritten(BytesAt(file, p), cache[s], n)
           ELSE IF p < q THEN Padded(g.half, BytesAt(file, p)) ELSE file[p]
  BY DEF WriteToFile
<1>5. ASSUME NEW p \in D
      PROVE  p \in Int /\ p >= -g.header /\ (-g.header)..p \subseteq D
  <2>1. CASE p \in DOMAIN file
    BY <2>1 DEF IsFile
  <2>2. CASE p \in (-g.header)..q
    BY <1>1, <1>2, <2>2
  <2>3. QED  BY <2>1, <2>2
<1>6. q + 1 \notin DOMAIN file => q + 1 \notin D
  BY <1>1, <1>2
<1>7. q \notin DOMAIN file => q + 1 \notin DOMAIN file
  <2>1. SUFFICES ASSUME q + 1 \in DOMAIN file
                 PROVE  q \in DOMAIN file
    OBVIOUS
  <2>2. (-g.header)..q + 1 \subseteq DOMAIN file
    BY <2>1 DEF IsFile
  <2>3. QED  BY <1>1, <1>2, <2>2
<1>8. ASSUME NEW p \in D, p = q
      PROVE  \/ F[p] \in Stored(g.half)
             \/ p + 1 \notin D /\ \E k \in 1..size - 1 : F[p] \in [0..k - 1 -> Byte]
  <2>1. PICK m \in 0..size :
          /\ BytesAt(file, q) \in [0..m - 1 -> Byte]
          /\ q \notin DOMAIN file => m = 0
          /\ q \in DOMAIN file /\ m # size => q + 1 \notin DOMAIN file
    BY BytesAtType
  <2> DEFINE k == IF m < n THEN n ELSE m
  <2>2. k \in 1..size /\ k >= n /\ (0..m - 1) \union (0..n - 1) = 0..k - 1
    BY <1>1
  <2>3. \A i \in 0..k - 1 : (IF i < n THEN cache[s][i] ELSE BytesAt(file, q)[i]) \in Byte
    <3>1. TAKE i \in 0..k - 1
    <3>2. CASE i < n
      BY <1>1, <1>3, <3>2
    <3>3. CASE ~(i < n)
      <4>1. i \in 0..m - 1
        BY <1>1, <2>2, <3>3
      <4>2. QED  BY <2>1, <3>3, <4>1
    <3>4. QED  BY <3>2, <3>3
  <2>4. F[p] = [i \in 0..k - 1 |-> IF i < n THEN cache[s][i] ELSE BytesAt(file, q)[i]]
    <3>1. DOMAIN BytesAt(file, q) = 0..m - 1
      BY <2>1
    <3>2. QED  BY <1>4, <1>8, <2>2, <3>1 DEF Overwritten
  <2>5. F[p] \in [0..k - 1 -> Byte]
    BY <2>3, <2>4
  <2>6. CASE k = size
    BY <1>1, <2>5, <2>6
  <2>7. CASE k # size
    <3>1. m # size /\ k \in 1..size - 1
      BY <1>1, <2>2, <2>7
    <3>2. q + 1 \notin DOMAIN file
      BY <1>7, <2>1, <3>1
    <3>3. QED  BY <1>6, <1>8, <2>5, <3>1, <3>2
  <2>8. QED  BY <2>6, <2>7
<1>9. ASSUME NEW p \in D, p # q, p < q
      PROVE  F[p] \in Stored(g.half)
  <2>1. PICK m \in 0..size : BytesAt(file, p) \in [0..m - 1 -> Byte]
    BY BytesAtType
  <2>2. \A i \in 0..size - 1 :
          (IF i \in DOMAIN BytesAt(file, p) THEN BytesAt(file, p)[i] ELSE 0) \in Byte
    BY <2>1 DEF Byte
  <2>3. F[p] = Padded(g.half, BytesAt(file, p))
    BY <1>4, <1>9
  <2>4. QED  BY <1>1, <2>2, <2>3 DEF Padded
<1>10. ASSUME NEW p \in D, p # q, ~(p < q)
       PROVE  \/ F[p] \in Stored(g.half)
              \/ p + 1 \notin D /\ \E k \in 1..size - 1 : F[p] \in [0..k - 1 -> Byte]
  <2>1. p \in DOMAIN file /\ p \in Int /\ p > q
    BY <1>2, <1>5, <1>10
  <2>2. F[p] = file[p]
    BY <1>4, <1>10
  <2>3. p + 1 \notin DOMAIN file => p + 1 \notin D
    BY <1>1, <1>2, <2>1
  <2>4. \/ file[p] \in Stored(g.half)
        \/ p + 1 \notin DOMAIN file /\ \E k \in 1..size - 1 : file[p] \in [0..k - 1 -> Byte]
    BY <2>1 DEF IsFile
  <2>5. QED  BY <2>2, <2>3, <2>4
<1>11. \A p \in D :
         /\ p \in Int /\ p >= -g.header /\ (-g.header)..p \subseteq D
         /\ \/ F[p] \in Stored(g.half)
            \/ p + 1 \notin D /\ \E k \in 1..size - 1 : F[p] \in [0..k - 1 -> Byte]
  BY <1>5, <1>8, <1>9, <1>10
<1>12. IsFile(g, F)
  BY <1>4, <1>11 DEF IsFile
<1>13. IsCache(g.half, KeepInCache(g.half, cache, s, n))
         /\ DOMAIN KeepInCache(g.half, cache, s, n) \subseteq DOMAIN cache
  BY DEF IsCache, KeepInCache
<1>14. QED  BY <1>12, <1>13

(* A write that gets the whole sector into the file leaves it there, and no *)
(* write touches a sector at another place that holds one.                  *)
LEMMA WriteToFileHolds ==
  ASSUME NEW g, HasLayout(g), NEW file, IsFile(g, file),
         NEW cache, IsCache(g.half, cache), NEW s \in DOMAIN cache,
         NEW n \in 1..SectorSize(g.half), NEW p
  PROVE  LET F == WriteToFile(g, file, s, cache[s], n)
         IN  /\ p = Place(g, s) /\ n = SectorSize(g.half) =>
                  HoldsSector(g, F, p) /\ F[p] = cache[s]
             /\ p # Place(g, s) /\ HoldsSector(g, file, p) =>
                  HoldsSector(g, F, p) /\ F[p] = file[p]
<1> DEFINE size == SectorSize(g.half)
           q == Place(g, s)
           F == WriteToFile(g, file, s, cache[s], n)
           D == DOMAIN file \union (-g.header)..q
<1>1. size \in Nat \ {0} /\ Stored(g.half) = [0..size - 1 -> Byte] /\ g.header \in Nat
  BY SectorSizeType DEF HasLayout
<1>2. q \in Int /\ q >= -g.header
  BY PlaceType DEF IsCache
<1>3. cache[s] \in [0..size - 1 -> Byte]
  BY <1>1 DEF IsCache
<1>4. /\ DOMAIN F = D
      /\ \A r \in D : F[r] =
           IF r = q THEN Overwritten(BytesAt(file, r), cache[s], n)
           ELSE IF r < q THEN Padded(g.half, BytesAt(file, r)) ELSE file[r]
  BY DEF WriteToFile
<1>5. ASSUME p = q, n = size
      PROVE  HoldsSector(g, F, p) /\ F[p] = cache[s]
  <2>1. q \in D
    BY <1>1, <1>2
  <2>2. PICK m \in 0..size : BytesAt(file, q) \in [0..m - 1 -> Byte]
    BY BytesAtType
  <2>3. DOMAIN BytesAt(file, q) \union 0..size - 1 = 0..size - 1
    BY <1>1, <2>2
  <2>4. \A i \in 0..size - 1 : i < size
    BY <1>1
  <2>5. F[p] = [i \in 0..size - 1 |-> IF i < size THEN cache[s][i] ELSE BytesAt(file, q)[i]]
    BY <1>4, <1>5, <2>1, <2>3 DEF Overwritten
  <2>6. F[p] = [i \in 0..size - 1 |-> cache[s][i]]
    BY <2>4, <2>5
  <2>7. F[p] = cache[s]
    BY <1>3, <2>6
  <2>8. size - 1 \in DOMAIN F[p]
    BY <1>1, <1>3, <2>7
  <2>9. QED  BY <1>4, <1>5, <2>1, <2>7, <2>8 DEF HoldsSector
<1>6. ASSUME p # q, HoldsSector(g, file, p)
      PROVE  HoldsSector(g, F, p) /\ F[p] = file[p]
  <2>1. p \in DOMAIN file /\ file[p] \in [0..size - 1 -> Byte]
    BY <1>1, <1>6, HeldIsStored
  <2>2. p \in D /\ BytesAt(file, p) = file[p]
    BY <2>1 DEF BytesAt
  <2>3. Padded(g.half, file[p]) = file[p]
    <3>1. Padded(g.half, file[p]) = [i \in 0..size - 1 |-> file[p][i]]
      BY <2>1 DEF Padded
    <3>2. QED  BY <2>1, <3>1
  <2>4. F[p] = file[p]
    BY <1>4, <1>6, <2>2, <2>3
  <2>5. QED  BY <1>4, <1>6, <2>2, <2>4 DEF HoldsSector
<1>7. QED  BY <1>5, <1>6

(* After a write the sectors that were written read as the buffer, in the   *)
(* form the image can store, and the others as before.                      *)
LEMMA WriteReadsBack ==
  ASSUME NEW g, NEW file, NEW cache, NEW S, NEW block, NEW s
  PROVE  SectorData(g, file, WriteSectors(g.half, cache, S, block), s) =
           IF s \in S THEN AsStored(g.half, block) ELSE SectorData(g, file, cache, s)
<1> DEFINE W == WriteSectors(g.half, cache, S, block)
<1>1. DOMAIN W = DOMAIN cache \union S
  BY DEF WriteSectors
<1>2. CASE s \in S
  <2>1. s \in DOMAIN W /\ W[s] = Pack(g.half, block)
    BY <1>1, <1>2 DEF WriteSectors
  <2>2. QED  BY <1>2, <2>1 DEF SectorData, AsStored
<1>3. CASE s \notin S /\ s \in DOMAIN cache
  <2>1. s \in DOMAIN W /\ W[s] = cache[s]
    BY <1>1, <1>3 DEF WriteSectors
  <2>2. QED  BY <1>3, <2>1 DEF SectorData
<1>4. CASE s \notin S /\ s \notin DOMAIN cache
  BY <1>1, <1>4 DEF SectorData
<1>5. QED  BY <1>2, <1>3, <1>4

(* A commit loses nothing of an image whose sectors have a position of      *)
(* their own in 32 bits: wherever write_to_disk stops, every sector that    *)
(* the machine could read still reads the same.                             *)
THEOREM CommitKeepsContent ==
  ASSUME NEW g, HasLayout(g), NEW total \in Nat, Fits(g, total),
         NEW file, IsFile(g, file),
         NEW cache, IsCache(g.half, cache), DOMAIN cache \subseteq 0..total - 1,
         NEW s \in DOMAIN cache, NEW n \in 1..SectorSize(g.half),
         NEW t \in 0..total - 1, SectorData(g, file, cache, t) # ReadError
  PROVE  SectorData(g, WriteToFile(g, file, s, cache[s], n),
                    KeepInCache(g.half, cache, s, n), t) =
           SectorData(g, file, cache, t)
<1> DEFINE F == WriteToFile(g, file, s, cache[s], n)
           K == KeepInCache(g.half, cache, s, n)
<1>1. Place(g, t) = t /\ Place(g, s) = s
  BY PlaceFits
<1>2. /\ \A r \in DOMAIN K : r \in DOMAIN cache /\ K[r] = cache[r]
      /\ \A r \in DOMAIN cache \ DOMAIN K : r = s /\ n = SectorSize(g.half)
  BY DEF KeepInCache
<1>3. CASE t \in DOMAIN K
  BY <1>2, <1>3 DEF SectorData
<1>4. CASE t \in DOMAIN cache \ DOMAIN K
  <2>1. t = s /\ n = SectorSize(g.half)
    BY <1>2, <1>4
  <2>2. HoldsSector(g, F, t) /\ F[t] = cache[t]
    BY <1>1, <2>1, WriteToFileHolds
  <2>3. QED  BY <1>1, <1>4, <2>2 DEF SectorData
<1>5. CASE t \notin DOMAIN cache
  <2>1. HoldsSector(g, file, t) /\ t # s /\ t \notin DOMAIN K
    BY <1>1, <1>2, <1>5, SectorDataType
  <2>2. HoldsSector(g, F, t) /\ F[t] = file[t]
    BY <1>1, <2>1, WriteToFileHolds
  <2>3. QED  BY <1>1, <1>5, <2>1, <2>2 DEF SectorData
<1>6. QED  BY <1>3, <1>4, <1>5

=============================================================================
