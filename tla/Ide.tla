-------------------------------- MODULE Ide --------------------------------
(***************************************************************************)
(* The emulated IDE channel of ide.c: two drives with a write cache each,   *)
(* one set of task file registers and one sector buffer that they share.    *)
(*                                                                         *)
(* The emulated machine writes registers and commands and moves sector data *)
(* through the data register; the emulator inserts, ejects and commits      *)
(* images and resets the channel at any time in between.                    *)
(*                                                                         *)
(* With CarefulHost the machine obeys the ATA handshake: it moves data only *)
(* while the status of the selected drive shows DRQ without ERR, writes     *)
(* registers and commands only otherwise, and the emulator leaves a drive   *)
(* alone while it transfers.  The code does not enforce any of this.        *)
(*                                                                         *)
(* Registers that the code stores and never uses (feature) are left out.    *)
(***************************************************************************)
EXTENDS HdfDrive

CONSTANTS
  Images,        \* the HDF files
  NoDisk,        \* drive.disk == NULL
  Geometry,      \* of each image: half, header, cylinders, heads, sectors
  InitialFiles,  \* what the files hold at first
  ByteSize,      \* values of a register, 256 in the code
  HeadSize,      \* values of the head field, 16
  MaxCylinders,  \* 65535
  MaxCapacity,   \* the sectors CHS can address, 16514064
  Databuses,     \* the bus widths to consider
  HostRegs,      \* the values the machine writes, by register
  HostHeads,     \* what it writes to the head register
  DataBytes,     \* the bytes it writes
  CarefulHost    \* whether the machine obeys the handshake

Units == {0, 1}  \* LIBSPECTRUM_IDE_MASTER, LIBSPECTRUM_IDE_SLAVE

Registers == {"count", "sector", "low", "high"}

ASSUME IdeAssumption ==
  /\ NoDisk \notin Images
  /\ Geometry \in [Images -> [half : BOOLEAN, header : Nat,
                              cylinders : 0..ByteSize * ByteSize - 1,
                              heads : 0..ByteSize * ByteSize - 1,
                              sectors : 0..ByteSize * ByteSize - 1]]
  /\ DOMAIN InitialFiles = Images
  /\ \A i \in Images : IsFile(Geometry[i], InitialFiles[i])

ASSUME IdeSizeAssumption ==
  /\ ByteSize \in Nat /\ ByteSize > 1
  /\ HeadSize \in Nat /\ HeadSize > 0
  /\ MaxCylinders \in Nat /\ MaxCylinders < ByteSize * ByteSize
  /\ MaxCapacity \in Nat

ASSUME HostAssumption ==
  /\ Databuses \subseteq {"DATA8", "DATA16", "DATA16_BYTESWAP", "DATA16_DATA2"}
  /\ HostRegs \in [Registers -> SUBSET (0..ByteSize - 1)]
  /\ HostHeads \subseteq [head : 0..HeadSize - 1, dev : BOOLEAN, lba : BOOLEAN]
  /\ DataBytes \subseteq Byte
  /\ CarefulHost \in BOOLEAN

StatusFlags == {"ERR", "DRQ", "DRDY", "BSY"}

\* The values of the error register.
OK == 0
DIAGNOSTICS_PASSED == 1
ABRT == 4
ABRT_IDNF == 20
ABRT_UNC == 68
NOT_PRESENT == 255

VARIABLES
  databus,
  drive,          \* per unit: disk, half, cylinders, heads, sectors, status, error
  cache,          \* per unit
  files,          \* the sectors of the image files
  selected,
  reg,            \* sector_count, sector, cylinder_low, cylinder_high, head
  data2,
  phase,
  datacounter,
  buffer,
  sector_number

vars == <<databus, drive, cache, files, selected, reg, data2, phase,
          datacounter, buffer, sector_number>>
transferVars == <<phase, datacounter, buffer, sector_number>>

drv == drive[selected]

\* What the machine learns from the status register.
Transferring(u) ==
  drive[u].disk # NoDisk /\ "DRQ" \in drive[u].status /\ "ERR" \notin drive[u].status

Careful(condition) == CarefulHost => condition

----------------------------------------------------------------------------
(* libspectrum_ide_reset: with no disk at all every register reads 0xff.    *)
ResetRegs(present) ==
  IF present
    THEN [count |-> 1, sector |-> 1, low |-> 0, high |-> 0,
          head |-> 0, dev |-> FALSE, lba |-> FALSE]
    ELSE [count |-> ByteSize - 1, sector |-> ByteSize - 1, low |-> ByteSize - 1,
          high |-> ByteSize - 1, head |-> HeadSize - 1, dev |-> TRUE, lba |-> TRUE]

ResetDrive(d) ==
  [d EXCEPT !.error = IF d.disk # NoDisk THEN DIAGNOSTICS_PASSED ELSE NOT_PRESENT,
            !.status = IF d.disk # NoDisk THEN {"DRDY"} ELSE StatusFlags]

EmptyDrive ==
  [disk |-> NoDisk, half |-> FALSE, cylinders |-> 0, heads |-> 0, sectors |-> 0,
   status |-> StatusFlags, error |-> NOT_PRESENT]

(* libspectrum_ide_alloc, and the reset that gives its fields their values. *)
Init ==
  /\ databus \in Databuses
  /\ drive = [u \in Units |-> EmptyDrive]
  /\ cache = [u \in Units |-> NoCache]
  /\ files = InitialFiles
  /\ selected = 0
  /\ reg = ResetRegs(FALSE)
  /\ data2 = 0
  /\ phase = "READY"
  /\ datacounter = 0
  /\ buffer = ZeroBlock
  /\ sector_number = 0

Reset ==
  /\ selected' = 0
  /\ phase' = "READY"
  /\ reg' = ResetRegs(\E u \in Units : drive[u].disk # NoDisk)
  /\ drive' = [u \in Units |-> ResetDrive(drive[u])]
  /\ UNCHANGED <<databus, cache, files, data2, datacounter, buffer, sector_number>>

\* A mutant of CacheAfterEject: the cache outlives its image.
CacheOutlivesEject(u) == cache[u]

(* libspectrum_ide_eject_from_drive does nothing to an empty drive: a cache *)
(* entry made after the disk was ejected survives.                          *)
CacheAfterEject(u) == IF drive[u].disk = NoDisk THEN cache[u] ELSE NoCache

(* libspectrum_ide_eject; also libspectrum_ide_insert without a file name,  *)
(* or with a file that is not an HDF image.                                 *)
Eject(u) ==
  /\ Careful(~Transferring(u))
  /\ drive' = [drive EXCEPT ![u].disk = NoDisk]
  /\ cache' = [cache EXCEPT ![u] = CacheAfterEject(u)]
  /\ UNCHANGED <<databus, files, selected, reg, data2, transferVars>>

(* libspectrum_ide_insert: eject, then the geometry from the header.  The   *)
(* status of the drive stays what it was.  An image is in one drive only,   *)
(* and stays outside once a sector was written over its header.             *)
Insert(u, image) ==
  /\ Careful(~Transferring(u))
  /\ \A v \in Units \ {u} : drive[v].disk # image
  /\ HeaderIntact(files[image], InitialFiles[image])
  /\ LET g == Geometry[image] IN
       drive' = [drive EXCEPT ![u].disk = image, ![u].half = g.half,
                              ![u].cylinders = g.cylinders, ![u].heads = g.heads,
                              ![u].sectors = g.sectors]
  /\ cache' = [cache EXCEPT ![u] = CacheAfterEject(u)]
  /\ UNCHANGED <<databus, files, selected, reg, data2, transferVars>>

(* libspectrum_ide_commit, for one cached sector: seek and write it, all or *)
(* some of its bytes.  A commit of several is several of these steps, and   *)
(* after each the state is the one of a commit whose other seeks fail.      *)
Commit(u) ==
  /\ drive[u].disk # NoDisk
  /\ \E s \in DOMAIN cache[u], n \in 1..SectorSize(drive[u].half) :
       /\ files' = [files EXCEPT ![drive[u].disk] =
                      WriteToFile(Geometry[drive[u].disk], files[drive[u].disk], s,
                                  cache[u][s], n)]
       /\ cache' = [cache EXCEPT ![u] = KeepInCache(drive[u].half, @, s, n)]
  /\ UNCHANGED <<databus, drive, selected, reg, data2, transferVars>>

----------------------------------------------------------------------------
(* libspectrum_ide_write for the registers without a side effect.           *)
WriteRegister(r, value) ==
  /\ Careful(~Transferring(selected))
  /\ reg' = [reg EXCEPT ![r] = value]
  /\ UNCHANGED <<databus, drive, cache, files, selected, data2, transferVars>>

WriteHead(h) ==
  /\ Careful(~Transferring(selected))
  /\ reg' = [reg EXCEPT !.head = h.head, !.dev = h.dev, !.lba = h.lba]
  /\ selected' = IF h.dev THEN 1 ELSE 0
  /\ UNCHANGED <<databus, drive, cache, files, data2, transferVars>>

WriteData2(byte) ==
  /\ data2' = byte
  /\ UNCHANGED <<databus, drive, cache, files, selected, reg, transferVars>>

----------------------------------------------------------------------------
(* seek: the sector the registers address, -1 when the cylinder, head or    *)
(* sector does not exist.  The LBA sum takes its top four bits from         *)
(* `head & HEAD_HEAD << 24`, which is zero for every head register.         *)
Lba(r) == (r.high * ByteSize + r.low) * ByteSize + r.sector

Chs(d, r) ==
  LET cylinder == r.high * ByteSize + r.low
  IN  IF cylinder < d.cylinders /\ r.head < d.heads /\ r.sector \in 1..d.sectors
        THEN (cylinder * d.heads + r.head) * d.sectors + r.sector - 1
        ELSE -1

Address(d, r) == IF r.lba THEN Lba(r) ELSE Chs(d, r)

Capacity(d) == d.cylinders * d.heads * d.sectors

Seekable(d, r) == Address(d, r) \in 0..Capacity(d) - 1

\* A mutant of AdvanceLba: the sector register does not wrap.
AdvanceLbaNoWrap(r) == [r EXCEPT !.sector = @ + 1]

(* The next address, the carry running into the head field.                 *)
AdvanceLba(r) ==
  LET next == Lba(r) + 1
  IN  [r EXCEPT !.sector = next % ByteSize,
                !.low    = (next \div ByteSize) % ByteSize,
                !.high   = (next \div (ByteSize * ByteSize)) % ByteSize,
                !.head   = IF next = ByteSize * ByteSize * ByteSize
                             THEN (@ + 1) % HeadSize ELSE @]

\* A mutant of AdvanceChs: the cylinder is not advanced with the last head.
AdvanceChsSameCylinder(d, r) ==
  [r EXCEPT !.sector = (@ % d.sectors) + 1,
            !.head = IF r.sector = d.sectors THEN (@ + 1) % d.heads ELSE @]

(* The same in the CHS scheme.  On a drive with more heads than the field   *)
(* holds the carry runs into the DEV bit, though not into `selected`.       *)
AdvanceChs(d, r) ==
  LET sector   == ((r.sector % d.sectors) + 1) % ByteSize
      nextHead == (r.head + 1) % d.heads
      nextLow  == (r.low + 1) % ByteSize
  IN  IF sector # 1 THEN [r EXCEPT !.sector = sector]
      ELSE [r EXCEPT !.sector = 1,
                     !.head = nextHead % HeadSize,
                     !.dev  = @ \/ nextHead = HeadSize,
                     !.low  = IF nextHead = 0 THEN nextLow ELSE @,
                     !.high = IF nextHead = 0 /\ nextLow = 0
                                THEN (@ + 1) % ByteSize ELSE @]

(* The registers after a seek: one sector less to go, and the address of    *)
(* the next one if there is one.  A count of 0 stands for ByteSize sectors. *)
AfterSeek(d, r) ==
  LET count == (r.count - 1) % ByteSize
  IN  [IF count = 0 THEN r
       ELSE IF r.lba THEN AdvanceLba(r) ELSE AdvanceChs(d, r) EXCEPT !.count = count]

Seek(d) ==
  /\ Seekable(d, reg)
  /\ sector_number' = Address(d, reg)
  /\ reg' = AfterSeek(d, reg)

Fail(d, error) == [d EXCEPT !.status = @ \union {"ERR"}, !.error = error]

(* A command or a transfer that cannot go on: phase and datacounter keep    *)
(* the values ph and dc they had reached.                                   *)
FailTransfer(d, error, ph, dc) ==
  /\ drive' = [drive EXCEPT ![selected] = Fail(d, error)]
  /\ phase' = ph
  /\ datacounter' = dc

StartTransfer(d, ph) ==
  /\ drive' = [drive EXCEPT ![selected] = [d EXCEPT !.status = @ \union {"DRQ"}]]
  /\ phase' = ph
  /\ datacounter' = 0

SeekFailure(d, ph, dc) ==
  /\ ~Seekable(d, reg)
  /\ FailTransfer(d, ABRT_IDNF, ph, dc)
  /\ UNCHANGED <<reg, sector_number>>

(* readsector and writesector, on the drive d, phase ph and data counter dc *)
(* that the caller has got to.  Reading from the file of a drive whose disk *)
(* was ejected during the transfer stops the program: there is no step.     *)
ReadSector(d, ph, dc) ==
  \/ SeekFailure(d, ph, dc) /\ UNCHANGED buffer
  \/ /\ Seek(d)
     /\ \E block \in
          IF d.disk # NoDisk
            THEN ReadOutcomes(Geometry[d.disk], files[d.disk], cache[selected], sector_number')
            ELSE {Unpack(d.half, cache[selected][s]) :
                    s \in DOMAIN cache[selected] \intersect {sector_number'}} :
          \/ block = ReadError /\ FailTransfer(d, ABRT_UNC, ph, dc) /\ UNCHANGED buffer
          \/ block # ReadError /\ StartTransfer(d, "PIO_IN") /\ buffer' = block

WriteSector(d, ph, dc) ==
  \/ SeekFailure(d, ph, dc)
  \/ Seek(d) /\ StartTransfer(d, "PIO_OUT")

----------------------------------------------------------------------------
(* The data register.  One access moves one byte, or the even byte of a     *)
(* pair, or a pair with the help of the data2 register.                     *)
BusStep == IF databus \in {"DATA8", "DATA16_DATA2"} THEN 2 ELSE 1

BufferIndex ==
  IF databus # "DATA16_BYTESWAP" THEN datacounter
  ELSE IF datacounter % 2 = 0 THEN datacounter + 1 ELSE datacounter - 1

\* A mutant of EndTransfer: DRQ stays set.
EndTransferKeepsDrq(dc) ==
  /\ phase' = "READY"
  /\ datacounter' = dc
  /\ UNCHANGED <<drive, reg, sector_number>>

(* "all sectors done"                                                       *)
EndTransfer(dc) ==
  /\ phase' = "READY"
  /\ drive' = [drive EXCEPT ![selected].status = @ \ {"DRQ"}]
  /\ datacounter' = dc
  /\ UNCHANGED <<reg, sector_number>>

(* read_data in the PIO input phase; in another phase it reads 0xff.  Once  *)
(* datacounter is past the buffer what happens is undefined: no step.       *)
ReadData ==
  /\ Careful(Transferring(selected))
  /\ phase = "PIO_IN" /\ datacounter < BlockSize
  /\ data2' = IF databus = "DATA16_DATA2" THEN buffer[datacounter + 1] ELSE data2
  /\ LET next == datacounter + BusStep IN
       \/ /\ next < BlockSize /\ datacounter' = next
          /\ UNCHANGED <<drive, reg, phase, buffer, sector_number>>
       \/ next >= BlockSize /\ reg.count # 0 /\ ReadSector(drv, phase, next)
       \/ next >= BlockSize /\ reg.count = 0 /\ EndTransfer(next) /\ UNCHANGED buffer
  /\ UNCHANGED <<databus, cache, files, selected>>

\* A mutant of WriteHdf: the buffer goes to the sector that was sought next.
WriteHdfAfterSeek ==
  cache' = [cache EXCEPT ![selected] =
    WriteSectors(drv.half, @, {sector_number'}, buffer')]

(* write_hdf: the full buffer to the sector of the last seek.               *)
WriteHdf ==
  cache' = [cache EXCEPT ![selected] =
    WriteSectors(drv.half, @, {sector_number}, buffer')]

(* write_data in the PIO output phase; ignored in another.                  *)
WriteData(byte) ==
  /\ Careful(Transferring(selected))
  /\ phase = "PIO_OUT" /\ datacounter < BlockSize
  /\ buffer' = IF databus = "DATA16_DATA2"
                 THEN [buffer EXCEPT ![datacounter] = byte, ![datacounter + 1] = data2]
                 ELSE [buffer EXCEPT ![BufferIndex] = byte]
  /\ LET next == datacounter + BusStep IN
       \/ /\ next < BlockSize /\ datacounter' = next
          /\ UNCHANGED <<drive, reg, phase, sector_number, cache>>
       \/ next >= BlockSize /\ reg.count # 0 /\ WriteSector(drv, phase, next) /\ WriteHdf
       \/ next >= BlockSize /\ reg.count = 0 /\ EndTransfer(next) /\ WriteHdf
  /\ UNCHANGED <<databus, files, selected, data2>>

----------------------------------------------------------------------------
(* execute_command: a drive without a disk ignores it; otherwise the errors *)
(* are cleared before the command runs.  DRQ is not: a failed command keeps *)
(* the DRQ of an earlier transfer.                                          *)
Cleared(d) ==
  [d EXCEPT !.error = OK, !.status = (@ \ {"ERR", "BSY"}) \union {"DRDY"}]

Command ==
  /\ Careful(~Transferring(selected))
  /\ drv.disk # NoDisk
  /\ UNCHANGED <<databus, cache, files, selected, data2>>

ReadSectorCommand == Command /\ ReadSector(Cleared(drv), "READY", datacounter)

WriteSectorCommand ==
  Command /\ WriteSector(Cleared(drv), "READY", datacounter) /\ UNCHANGED buffer

(* identifydevice: little-endian words of the current geometry and capacity *)
(* (words 54 to 58 of the block; the rest comes from the header).           *)
IdentityWords(d) ==
  <<d.cylinders, d.heads, d.sectors, Capacity(d) % 65536, Capacity(d) \div 65536>>

IdentityBlock(d) ==
  [i \in 0..BlockSize - 1 |->
     IF i \div 2 + 1 \notin DOMAIN IdentityWords(d) THEN 0
     ELSE IF i % 2 = 0 THEN IdentityWords(d)[i \div 2 + 1] % 256
     ELSE (IdentityWords(d)[i \div 2 + 1] \div 256) % 256]

IdentifyDevice ==
  /\ Command
  /\ buffer' = IdentityBlock(drv)
  /\ reg' = [reg EXCEPT !.count = 0]
  /\ StartTransfer(Cleared(drv), "PIO_IN")
  /\ UNCHANGED sector_number

\* A mutant of NewCylinders: the new number of heads is forgotten.
NewCylindersOneHead(size, heads, sectors) == size \div sectors

NewCylinders(size, heads, sectors) ==
  LET cylinders == size \div (heads * sectors)
  IN  IF cylinders > MaxCylinders THEN MaxCylinders ELSE cylinders

(* init_device_params: a new geometry within the current capacity.          *)
InitDeviceParams ==
  /\ Command
  /\ phase' = "READY"
  /\ LET size == IF Capacity(drv) > MaxCapacity THEN MaxCapacity ELSE Capacity(drv)
         done == [Cleared(drv) EXCEPT
                    !.heads = reg.head + 1,
                    !.sectors = reg.count,
                    !.cylinders = NewCylinders(size, reg.head + 1, reg.count),
                    !.status = @ \ {"DRQ"}]
     IN  drive' = [drive EXCEPT ![selected] =
                     IF reg.count = 0 THEN Fail(Cleared(drv), ABRT) ELSE done]
  /\ UNCHANGED <<reg, datacounter, buffer, sector_number>>

UnknownCommand ==
  /\ Command
  /\ FailTransfer(Cleared(drv), ABRT, "READY", datacounter)
  /\ UNCHANGED <<reg, buffer, sector_number>>

----------------------------------------------------------------------------
Machine ==
  \/ \E r \in Registers : \E value \in HostRegs[r] : WriteRegister(r, value)
  \/ \E h \in HostHeads : WriteHead(h)
  \/ \E byte \in DataBytes : WriteData2(byte) \/ WriteData(byte)
  \/ ReadData
  \/ ReadSectorCommand
  \/ WriteSectorCommand
  \/ IdentifyDevice
  \/ InitDeviceParams
  \/ UnknownCommand

Emulator ==
  \/ Reset
  \/ \E u \in Units : Eject(u) \/ Commit(u) \/ \E image \in Images : Insert(u, image)

Next == Machine \/ Emulator

Spec == Init /\ [][Next]_vars

----------------------------------------------------------------------------
(* The properties.                                                          *)

DriveRecord ==
  [disk : Images \union {NoDisk}, half : BOOLEAN, cylinders : Nat, heads : Nat,
   sectors : Nat, status : SUBSET StatusFlags,
   error : {OK, DIAGNOSTICS_PASSED, ABRT, ABRT_IDNF, ABRT_UNC, NOT_PRESENT}]

RegRecord ==
  [count : 0..ByteSize - 1, sector : 0..ByteSize - 1, low : 0..ByteSize - 1,
   high : 0..ByteSize - 1, head : 0..HeadSize - 1, dev : BOOLEAN, lba : BOOLEAN]

(* Every register stays within its byte however far a transfer advances it, *)
(* files have no gaps and cached sectors have the size the drive stores.    *)
TypeOK ==
  /\ databus \in Databuses
  /\ drive \in [Units -> DriveRecord]
  /\ DOMAIN cache = Units /\ \A u \in Units : IsCache(drive[u].half, cache[u])
  /\ DOMAIN files = Images /\ \A i \in Images : IsFile(Geometry[i], files[i])
  /\ selected \in Units
  /\ reg \in RegRecord
  /\ data2 \in Byte
  /\ phase \in {"READY", "PIO_IN", "PIO_OUT"}
  /\ datacounter \in 0..BlockSize
  /\ buffer \in Block
  /\ sector_number \in Nat

(* For a machine that obeys the handshake, the status register of the       *)
(* selected drive tells the truth about the channel: it asks for data       *)
(* exactly while a data access has a place in the sector buffer.  A failed  *)
(* command, a failed seek in a long transfer, a switch of drives or an      *)
(* insert without a reset never leave DRQ on a drive that is not served.    *)
HandshakeSound ==
  Transferring(selected) <=> phase # "READY" /\ datacounter < BlockSize

(* "Eject a hard disk from a drive and free its cache": no dirty sector     *)
(* is left in a drive without a disk, to reach the next image.              *)
CacheNeedsDisk ==
  \A u \in Units : drive[u].disk = NoDisk => DOMAIN cache[u] = {}

(* Whatever geometries INITIALIZE DEVICE PARAMETERS sets one after the      *)
(* other, the machine never dirties a sector beyond the header's capacity.  *)
DirtySectorsOnDisk ==
  \A u \in Units : drive[u].disk # NoDisk =>
    \A s \in DOMAIN cache[u] : s < Capacity(Geometry[drive[u].disk])

(* The registers can address every sector of every image: the head field    *)
(* counts its heads (a further one carries into the DEV bit), and LBA, of   *)
(* which the code takes three registers, reaches beyond its last sector.    *)
AddressableImages ==
  \A i \in Images :
    /\ Geometry[i].heads <= HeadSize
    /\ Capacity(Geometry[i]) < ByteSize * ByteSize * ByteSize

(* A transfer of several sectors goes through consecutive sectors, in both  *)
(* address schemes and across heads, cylinders and register carries.        *)
ConsecutiveSectors ==
  [][reg'.count # reg.count /\ (ReadData \/ \E byte \in DataBytes : WriteData(byte))
       => sector_number' = sector_number + 1]_vars

\* The images whose sectors the 32 bits of a file position tell apart.
Small(i) == Fits(Geometry[i], Capacity(Geometry[i]))

SectorOf(u, s) == SectorData(Geometry[drive[u].disk], files[drive[u].disk], cache[u], s)

(* "write_hdf": the only sector of an inserted disk, of those below 4 GB,   *)
(* that a step can change is the one the selected drive was told to write,  *)
(* and it takes the buffer that the machine filled; a commit, with any      *)
(* failures, changes no sector that can be read.  Only ejecting or          *)
(* inserting the disk of the drive itself does more.                        *)
OnlyAddressedSectorChanges ==
  [][\A u \in Units : drive[u].disk # NoDisk /\ Small(drive[u].disk) =>
       \/ \A s \in 0..Capacity(Geometry[drive[u].disk]) - 1 :
            \/ SectorOf(u, s) = ReadError
            \/ drive'[u].disk = drive[u].disk /\ SectorOf(u, s)' = SectorOf(u, s)
            \/ /\ u = selected /\ phase = "PIO_OUT" /\ s = sector_number
               /\ SectorOf(u, s)' = AsStored(drive[u].half, buffer')
       \/ Eject(u)
       \/ \E image \in Images : Insert(u, image)]_vars

=============================================================================
