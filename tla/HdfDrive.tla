------------------------------ MODULE HdfDrive ------------------------------
(***************************************************************************)
(* An HDF image in a drive and the write cache in front of it: the part    *)
(* of ide.c that the IDE channel and the MMC card share.                   *)
(*                                                                         *)
(* Writes of the emulated machine go to the cache only                     *)
(* (libspectrum_ide_write_sector_to_hdf); reads look in the cache first    *)
(* (libspectrum_ide_read_sector_from_hdf); a commit moves the cached       *)
(* sectors to the file, one by one, and keeps the ones it could not write  *)
(* (write_to_disk).                                                        *)
(*                                                                         *)
(* A file is a function from places to the bytes that are stored there.    *)
(* Places count sectors from the start of the data: a header longer than a *)
(* sector has the places -1, -2, ... in front of it.  Only the last place  *)
(* of a file may be cut short, by a write that failed half way.  A cache   *)
(* is a function from the numbers of the dirty sectors.  The module is     *)
(* stateless: the components own the state.                                *)
(***************************************************************************)
EXTENDS Integers

CONSTANTS
  BlockSize,       \* bytes in a sector buffer, 512 in the code
  PositionSectors  \* sector buffers in a file of 2^32 bytes, 2^23 in the code

ASSUME BlockSizeAssumption == BlockSize \in Nat /\ BlockSize > 0 /\ BlockSize % 2 = 0

ASSUME PositionAssumption == PositionSectors \in Nat \ {0}

Byte == 0..255

\* A 512 byte sector buffer.
Block == [0..BlockSize - 1 -> Byte]

\* What the image stores for a sector when it holds only the low bytes.
HalfBlock == [0..(BlockSize \div 2) - 1 -> Byte]

ZeroBlock == [i \in 0..BlockSize - 1 |-> 0]

(* drv->sector_size == 256: only the even bytes of a buffer are stored, and *)
(* the odd ones read back as 0xff.                                          *)
Pack(half, block) ==
  IF half THEN [i \in 0..(BlockSize \div 2) - 1 |-> block[2 * i]] ELSE block

Unpack(half, stored) ==
  IF half
    THEN [i \in 0..BlockSize - 1 |-> IF i % 2 = 0 THEN stored[i \div 2] ELSE 255]
    ELSE stored

Stored(half) == IF half THEN HalfBlock ELSE Block

SectorSize(half) == IF half THEN BlockSize \div 2 ELSE BlockSize

(* The files have no gaps, and hold whole sectors but for the last place.   *)
IsFile(g, file) ==
  \A p \in DOMAIN file :
    /\ p \in Int /\ p >= -g.header /\ (-g.header)..p \subseteq DOMAIN file
    /\ \/ file[p] \in Stored(g.half)
       \/ /\ p + 1 \notin DOMAIN file
          /\ \E n \in 1..SectorSize(g.half) - 1 : file[p] \in [0..n - 1 -> Byte]

IsCache(half, cache) ==
  \A s \in DOMAIN cache : s \in Nat /\ cache[s] \in Stored(half)

NoCache == [s \in {} |-> 0]

\* What a buffer reads back as after it has been written to a drive.
AsStored(half, block) == Unpack(half, Pack(half, block))

(* libspectrum_ide_write_sector_to_hdf: the sector enters the cache, or its *)
(* cached copy is overwritten.                                              *)
WriteSectors(half, cache, S, block) ==
  [s \in DOMAIN cache \union S |-> IF s \in S THEN Pack(half, block) ELSE cache[s]]

----------------------------------------------------------------------------
(* Where a sector is in the file: data_offset + sector_size * sector_number *)
(* is computed in 32 unsigned bits, so that the sectors behind the first    *)
(* 2^32 bytes are those at its start again.  g.header is the number of      *)
(* whole sectors of the header; 2^32 is a multiple of the sector size.      *)
Places(half) == IF half THEN 2 * PositionSectors ELSE PositionSectors

Place(g, s) == ((g.header + s) % Places(g.half)) - g.header

\* Every sector of an image with `total` sectors has a place of its own.
Fits(g, total) == g.header + total <= Places(g.half)

NoBytes == [i \in {} |-> 0]

BytesAt(file, p) == IF p \in DOMAIN file THEN file[p] ELSE NoBytes

\* A whole sector is there: its last byte is.
HoldsSector(g, file, p) == p \in DOMAIN file /\ SectorSize(g.half) - 1 \in DOMAIN file[p]

\* No sector: beyond the end of the file, or a failed fseek or fread.
ReadError == NoBytes

(* What the machine can read of a sector, as a buffer.                      *)
SectorData(g, file, cache, s) ==
  IF s \in DOMAIN cache THEN Unpack(g.half, cache[s])
  ELSE IF HoldsSector(g, file, Place(g, s)) THEN Unpack(g.half, file[Place(g, s)])
  ELSE ReadError

\* A mutant of ReadOutcomes: the image is consulted before the cache.
ReadOutcomesFileFirst(g, file, cache, s) ==
  IF HoldsSector(g, file, Place(g, s))
    THEN {ReadError, SectorData(g, file, NoCache, s)}
    ELSE {SectorData(g, file, cache, s)}

(* libspectrum_ide_read_sector_from_hdf: the buffers a read of sector s may *)
(* deliver.  A cached sector cannot fail; the file can, and does beyond its *)
(* end.                                                                     *)
ReadOutcomes(g, file, cache, s) ==
  {SectorData(g, file, cache, s)} \union (IF s \in DOMAIN cache THEN {} ELSE {ReadError})

\* Bytes that are not there when a file grows read as zeros.
Padded(half, bytes) ==
  [i \in 0..SectorSize(half) - 1 |-> IF i \in DOMAIN bytes THEN bytes[i] ELSE 0]

\* The first n bytes of `stored` over what was there.
Overwritten(bytes, stored, n) ==
  [i \in DOMAIN bytes \union 0..n - 1 |-> IF i < n THEN stored[i] ELSE bytes[i]]

(* write_to_disk: fwrite gets n bytes of a sector into the file.            *)
WriteToFile(g, file, s, stored, n) ==
  LET place == Place(g, s) IN
    [p \in DOMAIN file \union (-g.header)..place |->
       IF p = place THEN Overwritten(BytesAt(file, p), stored, n)
       ELSE IF p < place THEN Padded(g.half, BytesAt(file, p)) ELSE file[p]]

(* A sector that was written in full leaves the cache.                      *)
KeepInCache(half, cache, s, n) ==
  IF n = SectorSize(half) THEN [t \in DOMAIN cache \ {s} |-> cache[t]] ELSE cache

\* No wrapped sector was written over the header that libspectrum_ide_insert reads.
HeaderIntact(file, initial) ==
  \A p \in DOMAIN initial : p < 0 => file[p] = initial[p]

(* The disk the machine sees: the sectors of the image that it can read.    *)
Logical(g, file, cache, total) ==
  [s \in {t \in 0..total - 1 : SectorData(g, file, cache, t) # ReadError} |->
     SectorData(g, file, cache, s)]

=============================================================================
