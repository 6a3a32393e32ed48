----------------------------- MODULE IdeProofs -----------------------------
(***************************************************************************)
(* The IDE channel of a machine that obeys the handshake keeps its types,   *)
(* asks for data exactly when it has a place for it, dirties only sectors   *)
(* of inserted images, and moves several sectors in their order: for every  *)
(* block size, width of a register, geometry, set of images and choice of   *)
(* what the machine writes.                                                 *)
(*                                                                         *)
(* The parts need one another.  An emptied drive has an empty cache because *)
(* only a drive that asks is written to, and only one with a disk asks; the *)
(* registers of a drive that nobody serves say so because a drive that asks *)
(* is never deselected; and what is written lies on the disk because the    *)
(* seek that began the transfer found it there.                             *)
(***************************************************************************)
EXTENDS Ide, HdfDriveProofs

\* A drive whose status asks for data.
Asks(u) == "DRQ" \in drive[u].status /\ "ERR" \notin drive[u].status

DriveType ==
  /\ drive \in [Units -> DriveRecord]
  /\ \A u \in Units : drive[u].disk # NoDisk =>
       /\ drive[u].half = Geometry[drive[u].disk].half
       /\ Capacity(drive[u]) <= Capacity(Geometry[drive[u].disk])

StorageType ==
  /\ DOMAIN cache = Units
  /\ \A u \in Units : IsCache(drive[u].half, cache[u])
  /\ DOMAIN files = Images
  /\ \A i \in Images : IsFile(Geometry[i], files[i])

RegistersType ==
  databus \in Databuses /\ selected \in Units /\ reg \in RegRecord /\ data2 \in Byte

TransferType ==
  /\ phase \in {"READY", "PIO_IN", "PIO_OUT"}
  /\ datacounter \in 0..BlockSize
  /\ BusStep = 2 => datacounter % 2 = 0
  /\ buffer \in Block
  /\ sector_number \in Nat

OnlySelectedAsks ==
  \A u \in Units : Asks(u) => drive[u].disk # NoDisk /\ u = selected

WritesToDisk ==
  phase = "PIO_OUT" /\ Transferring(selected) =>
    sector_number < Capacity(Geometry[drv.disk])

Inv ==
  /\ DriveType /\ StorageType /\ RegistersType /\ TransferType
  /\ OnlySelectedAsks /\ HandshakeSound
  /\ WritesToDisk /\ CacheNeedsDisk /\ DirtySectorsOnDisk

----------------------------------------------------------------------------
(* Arithmetic.                                                              *)

(* The remainder is below the divisor.                                      *)
LEMMA ModType ==
  ASSUME NEW a \in Int, NEW n \in Nat, n > 0
  PROVE  a % n \in 0..n - 1
  OBVIOUS

(* Products of natural numbers.                                             *)
LEMMA ProductType ==
  ASSUME NEW a \in Nat, NEW b \in Nat
  PROVE  a * b \in Nat /\ (a > 0 /\ b > 0 => a * b > 0)
  OBVIOUS

(* A product grows with its factor.                                         *)
LEMMA ProductMonotone ==
  ASSUME NEW a \in Nat, NEW b \in Nat, NEW n \in Nat, a <= b
  PROVE  a * n <= b * n
  OBVIOUS

(* Division rounds down.                                                    *)
LEMMA Quotient ==
  ASSUME NEW a \in Nat, NEW n \in Nat, n > 0
  PROVE  a \div n \in Nat /\ (a \div n) * n <= a
  OBVIOUS

(* The capacity of a drive is a number of sectors.                          *)
LEMMA CapacityType ==
  ASSUME NEW d, d.cylinders \in Nat, d.heads \in Nat, d.sectors \in Nat
  PROVE  Capacity(d) \in Nat
  BY ProductType DEF Capacity

(* A geometry that init_device_params sets has no more sectors than the one *)
(* before it.                                                               *)
LEMMA NewCylindersFit ==
  ASSUME NEW size \in Nat, NEW heads \in Nat, NEW sectors \in Nat, heads > 0, sectors > 0
  PROVE  /\ NewCylinders(size, heads, sectors) \in Nat
         /\ NewCylinders(size, heads, sectors) <= MaxCylinders
         /\ NewCylinders(size, heads, sectors) * heads * sectors <= size
<1> DEFINE track == heads * sectors
           quotient == size \div track
           cylinders == NewCylinders(size, heads, sectors)
<1>1. track \in Nat /\ track > 0
  BY ProductType
<1>2. quotient \in Nat /\ quotient * track <= size
  BY <1>1, Quotient
<1>3. cylinders \in Nat /\ cylinders <= quotient /\ cylinders <= MaxCylinders
  BY <1>2, IdeSizeAssumption DEF NewCylinders
<1>4. cylinders * track <= quotient * track
  BY <1>1, <1>2, <1>3, ProductMonotone
<1>5. cylinders * heads * sectors = cylinders * track
  BY <1>3
<1>6. cylinders * track \in Nat /\ quotient * track \in Nat
  BY <1>1, <1>2, <1>3, ProductType
<1>7. QED  BY <1>2, <1>3, <1>4, <1>5, <1>6

----------------------------------------------------------------------------
(* Addresses.                                                               *)

(* After a seek the registers are registers again, however the address was  *)
(* carried on, and the sector lies within the geometry of the drive.        *)
LEMMA AfterSeekType ==
  ASSUME NEW d \in DriveRecord, NEW r \in RegRecord, Seekable(d, r)
  PROVE  /\ Address(d, r) \in Nat /\ Address(d, r) < Capacity(d)
         /\ AfterSeek(d, r) \in RegRecord
<1> DEFINE count == (r.count - 1) % ByteSize
<1>1. Address(d, r) \in 0..Capacity(d) - 1 /\ Capacity(d) \in Nat
  BY CapacityType DEF Seekable, DriveRecord
<1>2. count \in 0..ByteSize - 1
  BY ModType, IdeSizeAssumption DEF RegRecord
<1>3. r.lba => AdvanceLba(r) \in RegRecord
  <2> DEFINE next == Lba(r) + 1
  <2>1. next \in Nat
    <3>1. r.high * ByteSize \in Nat
      BY ProductType, IdeSizeAssumption DEF RegRecord
    <3>2. (r.high * ByteSize + r.low) * ByteSize \in Nat
      BY <3>1, ProductType, IdeSizeAssumption DEF RegRecord
    <3>3. QED  BY <3>2 DEF Lba, RegRecord
  <2>2. ByteSize * ByteSize \in Nat /\ ByteSize * ByteSize > 0
    BY ProductType, IdeSizeAssumption
  <2>3. next \div ByteSize \in Nat /\ next \div (ByteSize * ByteSize) \in Nat
    BY <2>1, <2>2, Quotient, IdeSizeAssumption
  <2>4. /\ next % ByteSize \in 0..ByteSize - 1
        /\ (next \div ByteSize) % ByteSize \in 0..ByteSize - 1
        /\ (next \div (ByteSize * ByteSize)) % ByteSize \in 0..ByteSize - 1
        /\ (r.head + 1) % HeadSize \in 0..HeadSize - 1
    BY <2>1, <2>3, ModType, IdeSizeAssumption DEF RegRecord
  <2> HIDE DEF next
  <2>5. QED  BY <2>4 DEF AdvanceLba, RegRecord, next
<1>4. ~r.lba => AdvanceChs(d, r) \in RegRecord
  <2> SUFFICES ASSUME ~r.lba PROVE AdvanceChs(d, r) \in RegRecord
    OBVIOUS
  <2>1. r.head < d.heads /\ r.sector \in 1..d.sectors
    BY <1>1 DEF Address, Chs
  <2>2. /\ r.sector % d.sectors \in 0..d.sectors - 1
        /\ (r.head + 1) % d.heads \in 0..d.heads - 1
    BY <2>1, ModType DEF RegRecord, DriveRecord
  <2>3. /\ ((r.sector % d.sectors) + 1) % ByteSize \in 0..ByteSize - 1
        /\ ((r.head + 1) % d.heads) % HeadSize \in 0..HeadSize - 1
        /\ (r.low + 1) % ByteSize \in 0..ByteSize - 1
        /\ (r.high + 1) % ByteSize \in 0..ByteSize - 1
        /\ 1 \in 0..ByteSize - 1
    BY <2>2, ModType, IdeSizeAssumption DEF RegRecord, DriveRecord
  <2>4. QED  BY <2>3 DEF AdvanceChs, RegRecord
<1>5. AfterSeek(d, r) \in RegRecord
  BY <1>2, <1>3, <1>4 DEF AfterSeek, RegRecord
<1>6. QED  BY <1>1, <1>5

----------------------------------------------------------------------------
(* The initial channel, without a disk.                                     *)
LEMMA InitInv == Init => Inv
<1> SUFFICES ASSUME Init PROVE Inv
  OBVIOUS
<1>1. DriveType
  BY DEF Init, DriveType, DriveRecord, EmptyDrive, StatusFlags
<1>2. StorageType
  BY IdeAssumption, NoCacheIsCache DEF Init, StorageType, EmptyDrive
<1>3. RegistersType
  BY IdeSizeAssumption DEF Init, RegistersType, RegRecord, ResetRegs, Units, Byte
<1>4. TransferType
  BY ZeroBlockType, BlockSizeAssumption DEF Init, TransferType
<1>5. OnlySelectedAsks
  BY DEF Init, OnlySelectedAsks, Asks, EmptyDrive, StatusFlags
<1>6. HandshakeSound /\ WritesToDisk
  BY DEF Init, HandshakeSound, WritesToDisk, Transferring, EmptyDrive, Units
<1>7. CacheNeedsDisk /\ DirtySectorsOnDisk
  BY NoCacheIsCache DEF Init, CacheNeedsDisk, DirtySectorsOnDisk, EmptyDrive
<1>8. QED
  BY <1>1, <1>2, <1>3, <1>4, <1>5, <1>6, <1>7 DEF Inv

----------------------------------------------------------------------------
(* What a command finds and leaves in the selected drive.                   *)

Errors == {ABRT, ABRT_IDNF, ABRT_UNC}

(* The drive that is served, before and after its error is cleared.         *)
LEMMA DrvType ==
  ASSUME Inv, NEW d \in {drv, Cleared(drv)}
  PROVE  /\ d \in DriveRecord
         /\ d.disk = drv.disk /\ d.half = drv.half
         /\ d.cylinders = drv.cylinders /\ d.heads = drv.heads /\ d.sectors = drv.sectors
         /\ Capacity(d) = Capacity(drv)
<1>1. drv \in DriveRecord
  BY DEF Inv, DriveType, RegistersType, drv
<1>2. Cleared(drv) \in DriveRecord
  BY <1>1 DEF Cleared, DriveRecord, StatusFlags
<1>3. QED  BY <1>1, <1>2 DEF Cleared, DriveRecord, Capacity

(* The sector that a command or a transfer seeks is one of the image.       *)
LEMMA SeekType ==
  ASSUME Inv, NEW d \in {drv, Cleared(drv)}, drv.disk # NoDisk, Seek(d)
  PROVE  /\ reg' \in RegRecord /\ sector_number' \in Nat
         /\ sector_number' < Capacity(Geometry[drv.disk])
<1>1. d \in DriveRecord /\ Capacity(d) = Capacity(drv)
  BY DrvType
<1>2. reg \in RegRecord
  BY DEF Inv, RegistersType
<1>3. Seekable(d, reg) /\ sector_number' = Address(d, reg) /\ reg' = AfterSeek(d, reg)
  BY DEF Seek
<1>4. sector_number' \in Nat /\ sector_number' < Capacity(d) /\ reg' \in RegRecord
  BY <1>1, <1>2, <1>3, AfterSeekType
<1>5. Capacity(drv) <= Capacity(Geometry[drv.disk])
  BY DEF Inv, DriveType, RegistersType, drv
<1>6. drv.disk \in Images /\ Capacity(d) \in Nat
  BY <1>1, CapacityType, DrvType DEF DriveRecord
<1>7. Capacity(Geometry[drv.disk]) \in Nat
  BY <1>6, IdeAssumption, IdeSizeAssumption, ProductType, CapacityType
<1>8. QED  BY <1>1, <1>4, <1>5, <1>6, <1>7

(* The header of an image says where its sectors are and how many.          *)
LEMMA GeometryHasLayout ==
  ASSUME NEW i \in Images
  PROVE  HasLayout(Geometry[i]) /\ Capacity(Geometry[i]) \in Nat
<1>1. /\ Geometry[i].half \in BOOLEAN /\ Geometry[i].header \in Nat
      /\ Geometry[i].cylinders \in Nat /\ Geometry[i].heads \in Nat
      /\ Geometry[i].sectors \in Nat
  BY IdeAssumption, IdeSizeAssumption
<1>2. \A a, b, c \in Nat : a * b * c \in Nat
  OBVIOUS
<1>3. QED  BY <1>1, <1>2 DEF HasLayout, Capacity

(* read_hdf fails with an error code or starts a transfer.                  *)
LEMMA ReadSectorShape ==
  ASSUME Inv, NEW d \in {drv, Cleared(drv)}, drv.disk # NoDisk,
         NEW ph, NEW dc, ReadSector(d, ph, dc)
  PROVE  /\ \/ \E error \in Errors : FailTransfer(d, error, ph, dc)
            \/ StartTransfer(d, "PIO_IN")
         /\ reg' \in RegRecord /\ sector_number' \in Nat /\ buffer' \in Block
<1>1. reg \in RegRecord /\ sector_number \in Nat /\ buffer \in Block
  BY DEF Inv, RegistersType, TransferType
<1>2. CASE SeekFailure(d, ph, dc) /\ UNCHANGED buffer
  BY <1>1, <1>2 DEF SeekFailure, Errors
<1>3. CASE Seek(d)
  <2>1. reg' \in RegRecord /\ sector_number' \in Nat
    BY <1>3, SeekType
  <2>2. d.disk = drv.disk /\ d.half = drv.half /\ drv \in DriveRecord
    BY DrvType
  <2>3. /\ d.disk \in Images /\ d.disk # NoDisk /\ d.half = Geometry[d.disk].half
        /\ IsFile(Geometry[d.disk], files[d.disk]) /\ IsCache(d.half, cache[selected])
    BY <2>2 DEF Inv, DriveType, StorageType, RegistersType, drv, DriveRecord
  <2>4. PICK block \in ReadOutcomes(Geometry[d.disk], files[d.disk], cache[selected],
                                    sector_number') :
          \/ block = ReadError /\ FailTransfer(d, ABRT_UNC, ph, dc) /\ UNCHANGED buffer
          \/ block # ReadError /\ StartTransfer(d, "PIO_IN") /\ buffer' = block
    BY <1>3, <2>3 DEF ReadSector, SeekFailure, Seek
  <2>5. block = ReadError \/ block \in Block
    <3> DEFINE g == Geometry[d.disk]  file == files[d.disk]  dirty == cache[selected]
               target == sector_number'
    <3>1. HasLayout(g) /\ IsFile(g, file) /\ IsCache(g.half, dirty)
      BY <2>3, GeometryHasLayout
    <3>2. block \in ReadOutcomes(g, file, dirty, target)
      BY <2>4
    <3> HIDE DEF g, file, dirty, target
    <3>3. QED  BY <3>1, <3>2, ReadOutcomesType
  <2>6. QED  BY <1>1, <2>1, <2>4, <2>5 DEF Errors
<1>4. QED  BY <1>2, <1>3 DEF ReadSector

(* So does a write; a sector it accepts lies on the disk.                   *)
LEMMA WriteSectorShape ==
  ASSUME Inv, NEW d \in {drv, Cleared(drv)}, drv.disk # NoDisk,
         NEW ph, NEW dc, WriteSector(d, ph, dc)
  PROVE  /\ \/ \E error \in Errors : FailTransfer(d, error, ph, dc)
            \/ /\ StartTransfer(d, "PIO_OUT")
               /\ sector_number' < Capacity(Geometry[drv.disk])
         /\ reg' \in RegRecord /\ sector_number' \in Nat
<1>1. reg \in RegRecord /\ sector_number \in Nat
  BY DEF Inv, RegistersType, TransferType
<1>2. CASE SeekFailure(d, ph, dc)
  BY <1>1, <1>2 DEF SeekFailure, Errors
<1>3. CASE Seek(d) /\ StartTransfer(d, "PIO_OUT")
  BY <1>3, SeekType
<1>4. QED  BY <1>2, <1>3 DEF WriteSector

----------------------------------------------------------------------------
(* What one access of a careful machine does to the selected drive: the     *)
(* transfer goes on, is refused, begins or ends, or the geometry changes.   *)

Advances ==
  /\ Transferring(selected) /\ phase # "READY"
  /\ UNCHANGED <<drive, phase, sector_number>>
  /\ datacounter' < BlockSize

Refuses(d, error) ==
  /\ drive' = [drive EXCEPT ![selected] = Fail(d, error)]
  /\ phase' = "READY" \/ datacounter' >= BlockSize

Begins(d, ph) ==
  /\ "ERR" \notin d.status
  /\ StartTransfer(d, ph)
  /\ ph = "PIO_OUT" => sector_number' < Capacity(Geometry[drv.disk])

Finishes ==
  /\ drive' = [drive EXCEPT ![selected].status = @ \ {"DRQ"}]
  /\ phase' = "READY"

Reshapes ==
  /\ \E cylinders, heads, sectors \in Nat :
       /\ cylinders * heads * sectors <= Capacity(drv)
       /\ heads <= HeadSize /\ cylinders <= MaxCylinders
       /\ drive' = [drive EXCEPT ![selected] =
            [Cleared(drv) EXCEPT !.heads = heads, !.sectors = sectors,
                                 !.cylinders = cylinders, !.status = @ \ {"DRQ"}]]
  /\ phase' = "READY"

Access ==
  \/ ReadData \/ (\E byte \in DataBytes : WriteData(byte))
  \/ ReadSectorCommand \/ WriteSectorCommand \/ IdentifyDevice
  \/ InitDeviceParams \/ UnknownCommand

Served(d) ==
  \/ Advances
  \/ \E error \in Errors : Refuses(d, error)
  \/ \E ph \in {"PIO_IN", "PIO_OUT"} : Begins(d, ph)
  \/ Finishes
  \/ Reshapes

(* Only a drive with a disk is accessed, and nothing else changes.          *)
LEMMA AccessFrame ==
  ASSUME Access, CarefulHost
  PROVE  drv.disk # NoDisk /\ UNCHANGED <<databus, selected, files>>
  BY DEF Access, ReadData, WriteData, ReadSectorCommand, WriteSectorCommand,
     IdentifyDevice, InitDeviceParams, UnknownCommand, Command, Careful, Transferring, drv

(* A new command clears ERR.                                                *)
LEMMA ClearedHasNoError ==
  ASSUME Inv
  PROVE  "ERR" \notin Cleared(drv).status
  BY DrvType DEF Cleared, DriveRecord

(* The geometry of init_device_params fits into the one it replaces.        *)
LEMMA ParamsShape ==
  ASSUME Inv, InitDeviceParams
  PROVE  Refuses(Cleared(drv), ABRT) \/ Reshapes
<1>1. reg \in RegRecord /\ drv \in DriveRecord /\ Capacity(drv) \in Nat
  BY DrvType, CapacityType DEF Inv, RegistersType, DriveRecord
<1>2. CASE reg.count = 0
  BY <1>2 DEF InitDeviceParams, Refuses
<1>3. CASE reg.count # 0
  <2> DEFINE size == IF Capacity(drv) > MaxCapacity THEN MaxCapacity ELSE Capacity(drv)
             cylinders == NewCylinders(size, reg.head + 1, reg.count)
  <2>1. size \in Nat /\ size <= Capacity(drv)
    BY <1>1, IdeSizeAssumption
  <2>2. reg.head + 1 \in Nat /\ reg.head + 1 > 0 /\ reg.count \in Nat /\ reg.count > 0
    BY <1>1, <1>3, IdeSizeAssumption DEF RegRecord
  <2> HIDE DEF size
  <2>3. /\ cylinders \in Nat /\ cylinders * (reg.head + 1) * reg.count <= size
        /\ cylinders <= MaxCylinders
    BY <2>1, <2>2, NewCylindersFit
  <2>4. /\ phase' = "READY"
        /\ drive' = [drive EXCEPT ![selected] =
             [Cleared(drv) EXCEPT !.heads = reg.head + 1, !.sectors = reg.count,
                                  !.cylinders = cylinders, !.status = @ \ {"DRQ"}]]
    BY <1>3, Zenon DEF InitDeviceParams, size
  <2> HIDE DEF cylinders
  <2>5. cylinders * (reg.head + 1) * reg.count \in Nat
    BY <2>2, <2>3, ProductType
  <2>6. cylinders * (reg.head + 1) * reg.count <= Capacity(drv)
    BY <1>1, <2>1, <2>3, <2>5
  <2>7. reg.head + 1 <= HeadSize
    BY <1>1, IdeSizeAssumption DEF RegRecord
  <2>8. QED  BY <2>2, <2>3, <2>4, <2>6, <2>7, Zenon DEF Reshapes
<1>4. QED  BY <1>2, <1>3

(* Every access serves the drive, cleared or not.                           *)
LEMMA AccessShape ==
  ASSUME Inv, Access, CarefulHost
  PROVE  \E d \in {drv, Cleared(drv)} : Served(d)
<1>1. drv.disk # NoDisk /\ drv \in {drv, Cleared(drv)} /\ Cleared(drv) \in {drv, Cleared(drv)}
  BY AccessFrame
<1>2. CASE ReadData
  <2>1. Transferring(selected) /\ "ERR" \notin drv.status
    BY <1>2 DEF ReadData, Careful, Transferring, drv
  <2> DEFINE next == datacounter + BusStep
  <2>0. next \in Nat /\ BlockSize \in Nat
    BY BlockSizeAssumption DEF Inv, TransferType, BusStep
  <2>2. CASE next < BlockSize
    <3>1. ~(next >= BlockSize)
      BY <2>0, <2>2
    <3>2. /\ datacounter' = next /\ phase # "READY"
          /\ UNCHANGED <<drive, phase, sector_number>>
      BY <1>2, <3>1, Zenon DEF ReadData
    <3>3. QED  BY <2>1, <2>2, <3>2 DEF Served, Advances
  <2>3. CASE next >= BlockSize /\ ReadSector(drv, phase, next)
    <3>1. \/ \E error \in Errors : FailTransfer(drv, error, phase, next)
          \/ StartTransfer(drv, "PIO_IN")
      BY <1>1, <2>3, ReadSectorShape
    <3>2. QED
      BY <2>1, <2>3, <3>1 DEF Served, Refuses, Begins, FailTransfer
  <2>4. CASE EndTransfer(next)
    BY <2>4 DEF EndTransfer, Served, Finishes
  <2>5. QED  BY <1>2, <2>2, <2>3, <2>4 DEF ReadData
<1>3. ASSUME NEW byte \in DataBytes, WriteData(byte)
      PROVE  Served(drv)
  <2>1. Transferring(selected) /\ "ERR" \notin drv.status
    BY <1>3 DEF WriteData, Careful, Transferring, drv
  <2> DEFINE next == datacounter + BusStep
  <2>0. next \in Nat /\ BlockSize \in Nat
    BY BlockSizeAssumption DEF Inv, TransferType, BusStep
  <2>2. CASE next < BlockSize
    <3>1. ~(next >= BlockSize)
      BY <2>0, <2>2
    <3>2. /\ datacounter' = next /\ phase # "READY"
          /\ UNCHANGED <<drive, phase, sector_number>>
      BY <1>3, <3>1, Zenon DEF WriteData
    <3>3. QED  BY <2>1, <2>2, <3>2 DEF Served, Advances
  <2>3. CASE next >= BlockSize /\ WriteSector(drv, phase, next)
    <3>1. \/ \E error \in Errors : FailTransfer(drv, error, phase, next)
          \/ /\ StartTransfer(drv, "PIO_OUT")
             /\ sector_number' < Capacity(Geometry[drv.disk])
      BY <1>1, <2>3, WriteSectorShape
    <3>2. QED
      BY <2>1, <2>3, <3>1 DEF Served, Refuses, Begins, FailTransfer
  <2>4. CASE EndTransfer(next)
    BY <2>4 DEF EndTransfer, Served, Finishes
  <2>5. QED  BY <1>3, <2>2, <2>3, <2>4 DEF WriteData
<1>4. CASE ReadSectorCommand
  <2>1. \/ \E error \in Errors : FailTransfer(Cleared(drv), error, "READY", datacounter)
        \/ StartTransfer(Cleared(drv), "PIO_IN")
    BY <1>1, <1>4, ReadSectorShape DEF ReadSectorCommand
  <2>2. QED
    BY <2>1, ClearedHasNoError DEF Served, Refuses, Begins, FailTransfer
<1>5. CASE WriteSectorCommand
  <2>1. \/ \E error \in Errors : FailTransfer(Cleared(drv), error, "READY", datacounter)
        \/ /\ StartTransfer(Cleared(drv), "PIO_OUT")
           /\ sector_number' < Capacity(Geometry[drv.disk])
    BY <1>1, <1>5, WriteSectorShape DEF WriteSectorCommand
  <2>2. QED
    BY <2>1, ClearedHasNoError DEF Served, Refuses, Begins, FailTransfer
<1>6. CASE IdentifyDevice
  BY <1>6, ClearedHasNoError DEF IdentifyDevice, Served, Begins
<1>7. CASE InitDeviceParams
  BY <1>7, ParamsShape DEF Served, Errors
<1>8. CASE UnknownCommand
  BY <1>8 DEF UnknownCommand, Served, Refuses, FailTransfer, Errors
<1>9. QED
  BY <1>2, <1>3, <1>4, <1>5, <1>6, <1>7, <1>8 DEF Access

(* Of the other steps these change a drive or the selection.                *)
LEMMA OtherShape ==
  ASSUME Next, ~Access
  PROVE  \/ UNCHANGED <<drive, selected, phase, datacounter, sector_number>>
         \/ Reset
         \/ \E u \in Units : Eject(u) \/ \E image \in Images : Insert(u, image)
         \/ \E h \in HostHeads : WriteHead(h)
  BY DEF Next, Machine, Emulator, Access, WriteRegister, WriteData2, Commit, transferVars

----------------------------------------------------------------------------
(* The registers keep their types.                                          *)
LEMMA RegistersStep ==
  ASSUME Inv, Next, CarefulHost
  PROVE  RegistersType'
<1>0. RegistersType /\ TransferType
  BY DEF Inv
<1>1. CASE Access
  <2>0. drv.disk # NoDisk /\ UNCHANGED <<databus, selected>> /\ drv \in {drv, Cleared(drv)}
    BY <1>1, AccessFrame
  <2>1. CASE ReadData
    <3>1. reg' \in RegRecord
      BY <1>0, <2>0, <2>1, ReadSectorShape DEF ReadData, EndTransfer, RegistersType
    <3>2. databus = "DATA16_DATA2" => datacounter + 1 \in 0..BlockSize - 1
      BY <1>0, <2>1, BlockSizeAssumption DEF ReadData, TransferType, BusStep
    <3>3. data2' \in Byte
      BY <1>0, <2>1, <3>2 DEF ReadData, RegistersType, TransferType, Block
    <3>4. QED  BY <1>0, <2>0, <3>1, <3>3 DEF RegistersType
  <2>2. ASSUME NEW byte \in DataBytes, WriteData(byte)
        PROVE  RegistersType'
    <3>1. reg' \in RegRecord
      BY <1>0, <2>0, <2>2, WriteSectorShape DEF WriteData, EndTransfer, RegistersType
    <3>2. QED  BY <1>0, <2>0, <2>2, <3>1 DEF RegistersType, WriteData
  <2>3. CASE ReadSectorCommand
    BY <1>0, <2>0, <2>3, ReadSectorShape DEF ReadSectorCommand, Command, RegistersType
  <2>4. CASE WriteSectorCommand
    BY <1>0, <2>0, <2>4, WriteSectorShape DEF WriteSectorCommand, Command, RegistersType
  <2>5. CASE IdentifyDevice
    BY <1>0, <2>0, <2>5, IdeSizeAssumption
       DEF IdentifyDevice, Command, RegistersType, RegRecord
  <2>6. CASE InitDeviceParams \/ UnknownCommand
    BY <1>0, <2>0, <2>6 DEF InitDeviceParams, UnknownCommand, Command, RegistersType
  <2>7. QED  BY <1>1, <2>1, <2>2, <2>3, <2>4, <2>5, <2>6 DEF Access
<1>2. CASE Reset
  BY <1>0, <1>2, IdeSizeAssumption DEF Reset, ResetRegs, RegistersType, RegRecord, Units
<1>3. CASE \E u \in Units : Eject(u) \/ Commit(u) \/ \E image \in Images : Insert(u, image)
  <2>1. ASSUME NEW u \in Units, Commit(u)
        PROVE  UNCHANGED <<databus, selected, reg, data2>>
    BY <2>1, Zenon DEF Commit
  <2>2. ASSUME NEW u \in Units, Eject(u) \/ \E image \in Images : Insert(u, image)
        PROVE  UNCHANGED <<databus, selected, reg, data2>>
    BY <2>2 DEF Eject, Insert
  <2>3. UNCHANGED <<databus, selected, reg, data2>>
    BY <1>3, <2>1, <2>2
  <2>4. QED  BY <1>0, <2>3 DEF RegistersType
<1>4. ASSUME NEW r \in Registers, NEW value \in HostRegs[r], WriteRegister(r, value)
      PROVE  RegistersType'
  BY <1>0, <1>4, HostAssumption DEF WriteRegister, RegistersType, RegRecord, Registers
<1>5. ASSUME NEW h \in HostHeads, WriteHead(h)
      PROVE  RegistersType'
  BY <1>0, <1>5, HostAssumption DEF WriteHead, RegistersType, RegRecord, Units
<1>6. ASSUME NEW byte \in DataBytes, WriteData2(byte)
      PROVE  RegistersType'
  BY <1>0, <1>6, HostAssumption DEF WriteData2, RegistersType
<1>7. QED
  BY <1>1, <1>2, <1>3, <1>4, <1>5, <1>6 DEF Next, Machine, Emulator, Access

----------------------------------------------------------------------------
(* The transfer stays inside the sector buffer.                             *)

(* The identity of a drive fills a sector buffer.                           *)
LEMMA IdentityType ==
  ASSUME NEW d \in DriveRecord
  PROVE  IdentityBlock(d) \in Block
<1>1. Capacity(d) \in Nat
  BY CapacityType DEF DriveRecord
<1>2. \A w \in DOMAIN IdentityWords(d) : IdentityWords(d)[w] \in Nat
  <2>1. /\ d.cylinders \in Nat /\ d.heads \in Nat /\ d.sectors \in Nat
        /\ Capacity(d) % 65536 \in Nat /\ Capacity(d) \div 65536 \in Nat
    BY <1>1 DEF DriveRecord
  <2>2. QED  BY <2>1 DEF IdentityWords
<1>3. \A n \in Nat : n % 256 \in Byte /\ n \div 256 \in Nat
  BY DEF Byte
<1>4. 0 \in Byte
  BY DEF Byte
<1>5. QED  BY <1>2, <1>3, <1>4 DEF IdentityBlock, Block

(* A transfer of one or two bytes stays in the buffer.                      *)
LEMMA NextCounter ==
  ASSUME TransferType, datacounter < BlockSize
  PROVE  /\ datacounter + BusStep \in 0..BlockSize
         /\ BusStep = 2 => (datacounter + BusStep) % 2 = 0
  BY BlockSizeAssumption DEF TransferType, BusStep

(* Every step keeps the position of the transfer in the buffer.             *)
LEMMA TransferStep ==
  ASSUME Inv, Next, CarefulHost
  PROVE  TransferType'
<1>0. TransferType /\ drv \in DriveRecord
  BY DrvType DEF Inv
<1>1. CASE Access
  <2>0. /\ drv.disk # NoDisk /\ UNCHANGED <<databus, selected>>
        /\ drv \in {drv, Cleared(drv)} /\ BusStep' = BusStep
    BY <1>1, AccessFrame DEF BusStep
  <2>1. CASE ReadData
    <3>0. datacounter < BlockSize /\ phase = "PIO_IN"
      BY <2>1 DEF ReadData
    <3>1. CASE ReadSector(drv, phase, datacounter + BusStep)
      BY <1>0, <2>0, <3>0, <3>1, ReadSectorShape, NextCounter, BlockSizeAssumption
         DEF TransferType, FailTransfer, StartTransfer
    <3>2. CASE UNCHANGED <<buffer, sector_number>> /\ phase' \in {"READY", "PIO_IN"}
                 /\ datacounter' = datacounter + BusStep
      BY <1>0, <2>0, <3>0, <3>2, NextCounter DEF TransferType
    <3>3. QED  BY <2>1, <3>0, <3>1, <3>2 DEF ReadData, EndTransfer
  <2>2. ASSUME NEW byte \in DataBytes, WriteData(byte)
        PROVE  TransferType'
    <3>0. datacounter < BlockSize /\ phase = "PIO_OUT"
      BY <2>2 DEF WriteData
    <3>1. buffer' \in Block
      BY <1>0, <2>2, HostAssumption DEF WriteData, TransferType, Block, Inv, RegistersType
    <3>2. CASE WriteSector(drv, phase, datacounter + BusStep)
      BY <1>0, <2>0, <3>0, <3>1, <3>2, WriteSectorShape, NextCounter, BlockSizeAssumption
         DEF TransferType, FailTransfer, StartTransfer
    <3>3. CASE UNCHANGED sector_number /\ phase' \in {"READY", "PIO_OUT"}
                 /\ datacounter' = datacounter + BusStep
      BY <1>0, <2>0, <3>0, <3>1, <3>3, NextCounter DEF TransferType
    <3>4. QED  BY <2>2, <3>0, <3>2, <3>3 DEF WriteData, EndTransfer
  <2>3. CASE ReadSectorCommand
    BY <1>0, <2>0, <2>3, ReadSectorShape, BlockSizeAssumption
       DEF ReadSectorCommand, TransferType, FailTransfer, StartTransfer
  <2>4. CASE WriteSectorCommand
    BY <1>0, <2>0, <2>4, WriteSectorShape, BlockSizeAssumption
       DEF WriteSectorCommand, TransferType, FailTransfer, StartTransfer
  <2>5. CASE IdentifyDevice
    BY <1>0, <2>0, <2>5, IdentityType, BlockSizeAssumption
       DEF IdentifyDevice, TransferType, StartTransfer
  <2>6. CASE InitDeviceParams \/ UnknownCommand
    BY <1>0, <2>0, <2>6 DEF InitDeviceParams, UnknownCommand, TransferType, FailTransfer
  <2>7. QED  BY <1>1, <2>1, <2>2, <2>3, <2>4, <2>5, <2>6 DEF Access
<1>2. CASE UNCHANGED <<databus, datacounter, buffer, sector_number>>
             /\ phase' \in {phase, "READY"}
  BY <1>0, <1>2 DEF TransferType, BusStep
<1>3. CASE Emulator
  <2>1. CASE Reset
    BY <1>2, <2>1, Zenon DEF Reset, transferVars
  <2>2. CASE \E u \in Units : Eject(u)
    BY <1>2, <2>2, Zenon DEF Eject, transferVars
  <2>3. CASE \E u \in Units : Commit(u)
    BY <1>2, <2>3, Zenon DEF Commit, transferVars
  <2>4. CASE \E u \in Units, image \in Images : Insert(u, image)
    BY <1>2, <2>4, Zenon DEF Insert, transferVars
  <2>5. QED  BY <1>3, <2>1, <2>2, <2>3, <2>4, Zenon DEF Emulator
<1>4. CASE Machine
  <2>1. CASE \E r \in Registers : \E value \in HostRegs[r] : WriteRegister(r, value)
    BY <1>2, <2>1, Zenon DEF WriteRegister, transferVars
  <2>2. CASE (\E h \in HostHeads : WriteHead(h)) \/ (\E byte \in DataBytes : WriteData2(byte))
    BY <1>2, <2>2, Zenon DEF WriteHead, WriteData2, transferVars
  <2>3. QED  BY <1>1, <1>4, <2>1, <2>2, Zenon DEF Machine, Access
<1>5. QED  BY <1>3, <1>4, Zenon DEF Next

----------------------------------------------------------------------------
(* The drives keep their types, and no geometry is larger than the image.   *)
LEMMA DriveStep ==
  ASSUME Inv, Next, CarefulHost
  PROVE  DriveType'
<1>0. /\ DriveType /\ selected \in Units
      /\ drv = drive[selected] /\ drv \in DriveRecord
  BY DrvType DEF Inv, RegistersType, drv
<1>1. CASE Access
  <2>1. PICK d \in {drv, Cleared(drv)} : Served(d)
    BY <1>1, AccessShape
  <2>2. /\ d \in DriveRecord /\ d.disk = drv.disk /\ d.half = drv.half
        /\ d.cylinders = drv.cylinders /\ d.heads = drv.heads /\ d.sectors = drv.sectors
    BY DrvType
  <2>3. ASSUME NEW e \in DriveRecord, e.disk = drv.disk, e.half = drv.half,
               Capacity(e) <= Capacity(drv), drive' = [drive EXCEPT ![selected] = e]
        PROVE  DriveType'
    <3>1. Capacity(e) \in Nat /\ Capacity(drv) \in Nat
      BY <1>0, CapacityType DEF DriveRecord
    <3>2. drv.disk # NoDisk => Capacity(Geometry[drv.disk]) \in Nat
      BY <1>0, IdeAssumption, IdeSizeAssumption, ProductType, CapacityType DEF DriveRecord
    <3>3. QED  BY <1>0, <2>3, <3>1, <3>2 DEF DriveType
  <2>4. Capacity(drv) \in Nat /\ Capacity(d) = Capacity(drv)
    BY <1>0, DrvType, CapacityType DEF DriveRecord
  <2>5. CASE Advances
    BY <1>0, <2>5 DEF Advances, DriveType
  <2>6. ASSUME NEW error \in Errors, Refuses(d, error)
        PROVE  DriveType'
    <3>1. /\ Fail(d, error) \in DriveRecord
          /\ Fail(d, error).disk = drv.disk /\ Fail(d, error).half = drv.half
          /\ Capacity(Fail(d, error)) = Capacity(drv)
      BY <2>2, <2>4 DEF Fail, DriveRecord, StatusFlags, Errors, Capacity
    <3>2. Capacity(Fail(d, error)) <= Capacity(drv)
      BY <2>4, <3>1
    <3>3. drive' = [drive EXCEPT ![selected] = Fail(d, error)]
      BY <2>6, Zenon DEF Refuses
    <3>4. QED  BY <2>3, <3>1, <3>2, <3>3, Zenon
  <2>7. ASSUME NEW ph, Begins(d, ph)
        PROVE  DriveType'
    <3> DEFINE e == [d EXCEPT !.status = @ \union {"DRQ"}]
    <3>1. /\ e \in DriveRecord /\ e.disk = drv.disk /\ e.half = drv.half
          /\ Capacity(e) = Capacity(drv)
      BY <2>2, <2>4 DEF DriveRecord, StatusFlags, Capacity
    <3>2. drive' = [drive EXCEPT ![selected] = e]
      BY <2>7, Zenon DEF Begins, StartTransfer
    <3> HIDE DEF e
    <3>3. Capacity(e) <= Capacity(drv)
      BY <2>4, <3>1
    <3>4. QED  BY <2>3, <3>1, <3>2, <3>3, Zenon
  <2>8. CASE Finishes
    <3> DEFINE e == [drv EXCEPT !.status = @ \ {"DRQ"}]
    <3>1. /\ e \in DriveRecord /\ e.disk = drv.disk /\ e.half = drv.half
          /\ Capacity(e) = Capacity(drv)
      BY <1>0 DEF DriveRecord, StatusFlags, Capacity
    <3>2. drive' = [drive EXCEPT ![selected] = e]
      BY <1>0, <2>8 DEF Finishes, DriveType
    <3> HIDE DEF e
    <3>3. Capacity(e) <= Capacity(drv)
      BY <2>4, <3>1
    <3>4. QED  BY <2>3, <3>1, <3>2, <3>3, Zenon
  <2>9. CASE Reshapes
    <3>1. PICK cylinders, heads, sectors \in Nat :
            /\ cylinders * heads * sectors <= Capacity(drv)
            /\ drive' = [drive EXCEPT ![selected] =
                 [Cleared(drv) EXCEPT !.heads = heads, !.sectors = sectors,
                                      !.cylinders = cylinders, !.status = @ \ {"DRQ"}]]
      BY <2>9, Zenon DEF Reshapes
    <3> DEFINE e == [Cleared(drv) EXCEPT !.heads = heads, !.sectors = sectors,
                                         !.cylinders = cylinders, !.status = @ \ {"DRQ"}]
    <3>2. /\ Cleared(drv) \in DriveRecord
          /\ Cleared(drv).disk = drv.disk /\ Cleared(drv).half = drv.half
      BY DrvType
    <3>3. /\ e \in DriveRecord /\ e.disk = drv.disk /\ e.half = drv.half
          /\ Capacity(e) = cylinders * heads * sectors
      BY <3>2 DEF DriveRecord, StatusFlags, Capacity
    <3>4. drive' = [drive EXCEPT ![selected] = e]
      BY <3>1, Zenon
    <3> HIDE DEF e
    <3>5. QED  BY <2>3, <3>1, <3>3, <3>4
  <2>10. QED  BY <2>1, <2>5, <2>6, <2>7, <2>8, <2>9 DEF Served
<1>2. CASE UNCHANGED drive
  BY <1>0, <1>2 DEF DriveType
<1>3. CASE Reset
  <2>1. ASSUME NEW u \in Units
        PROVE  /\ ResetDrive(drive[u]) \in DriveRecord
               /\ ResetDrive(drive[u]).disk = drive[u].disk
               /\ ResetDrive(drive[u]).half = drive[u].half
               /\ Capacity(ResetDrive(drive[u])) = Capacity(drive[u])
    <3>1. drive[u] \in DriveRecord
      BY <1>0 DEF DriveType
    <3>2. QED  BY <3>1 DEF ResetDrive, DriveRecord, StatusFlags, Capacity
  <2>2. drive' = [u \in Units |-> ResetDrive(drive[u])]
    BY <1>3 DEF Reset
  <2>3. QED  BY <1>0, <2>1, <2>2 DEF DriveType
<1>4. ASSUME NEW u \in Units, Eject(u)
      PROVE  DriveType'
  BY <1>0, <1>4 DEF Eject, DriveType, DriveRecord, Capacity
<1>5. ASSUME NEW u \in Units, NEW image \in Images, Insert(u, image)
      PROVE  DriveType'
  <2> DEFINE g == Geometry[image]
             e == [drive[u] EXCEPT !.disk = image, !.half = g.half, !.cylinders = g.cylinders,
                                   !.heads = g.heads, !.sectors = g.sectors]
  <2>1. /\ g.half \in BOOLEAN /\ g.cylinders \in Nat /\ g.heads \in Nat /\ g.sectors \in Nat
    BY IdeAssumption, IdeSizeAssumption, ProductType
  <2>2. e \in DriveRecord /\ e.disk = image /\ e.half = g.half /\ Capacity(e) = Capacity(g)
    BY <1>0, <1>5, <2>1 DEF DriveType, DriveRecord, Capacity
  <2>3. drive' = [drive EXCEPT ![u] = e]
    BY <1>0, <1>5 DEF Insert, DriveType
  <2>4. Capacity(g) \in Nat
    BY <2>1, CapacityType
  <2> HIDE DEF e
  <2>5. QED  BY <1>0, <2>2, <2>3, <2>4 DEF DriveType
<1>6. ASSUME NEW h \in HostHeads, WriteHead(h)
      PROVE  DriveType'
  BY <1>2, <1>6 DEF WriteHead
<1>7. QED
  BY <1>1, <1>2, <1>3, <1>4, <1>5, <1>6, OtherShape, Zenon

----------------------------------------------------------------------------
(* The drives ask only when they are served.                                *)

(* DRQ and a transfer phase go together.                                    *)
LEMMA AsksMeansTransferring ==
  ASSUME Inv, NEW u \in Units
  PROVE  Asks(u) <=> Transferring(u)
  BY DEF Inv, OnlySelectedAsks, Asks, Transferring

(* An access of the machine leaves the other drive alone, and the disk in   *)
(* the selected one.                                                        *)
LEMMA AccessLeavesOthers ==
  ASSUME Inv, Access, CarefulHost
  PROVE  /\ selected' = selected /\ drv'.disk = drv.disk /\ drv'.half = drv.half
         /\ \A u \in Units \ {selected} : drive'[u] = drive[u]
<1>0. /\ drv.disk # NoDisk /\ selected' = selected
      /\ drive \in [Units -> DriveRecord] /\ selected \in Units /\ drv = drive[selected]
  BY AccessFrame DEF Inv, DriveType, RegistersType, drv
<1>1. PICK d \in {drv, Cleared(drv)} : Served(d)
  BY AccessShape
<1>2. d \in DriveRecord /\ d.disk = drv.disk /\ d.half = drv.half /\ Cleared(drv) \in DriveRecord
      /\ Cleared(drv).disk = drv.disk /\ Cleared(drv).half = drv.half
  BY DrvType
<1>3. ASSUME NEW e, e.disk = drv.disk, e.half = drv.half,
             drive' = [drive EXCEPT ![selected] = e]
      PROVE  /\ drv'.disk = drv.disk /\ drv'.half = drv.half
             /\ \A u \in Units \ {selected} : drive'[u] = drive[u]
  BY <1>0, <1>3 DEF drv
<1>4. CASE Advances
  BY <1>0, <1>4 DEF Advances, drv
<1>5. ASSUME NEW error \in Errors, Refuses(d, error)
      PROVE  /\ drv'.disk = drv.disk /\ drv'.half = drv.half
             /\ \A u \in Units \ {selected} : drive'[u] = drive[u]
  <2>1. Fail(d, error).disk = drv.disk /\ Fail(d, error).half = drv.half
    BY <1>2 DEF Fail, DriveRecord
  <2>2. drive' = [drive EXCEPT ![selected] = Fail(d, error)]
    BY <1>5, Zenon DEF Refuses
  <2>3. QED  BY <1>3, <2>1, <2>2, Zenon
<1>6. ASSUME NEW ph, Begins(d, ph)
      PROVE  /\ drv'.disk = drv.disk /\ drv'.half = drv.half
             /\ \A u \in Units \ {selected} : drive'[u] = drive[u]
  <2> DEFINE e == [d EXCEPT !.status = @ \union {"DRQ"}]
  <2>1. e.disk = drv.disk /\ e.half = drv.half
    BY <1>2 DEF DriveRecord
  <2>2. drive' = [drive EXCEPT ![selected] = e]
    BY <1>6, Zenon DEF Begins, StartTransfer
  <2> HIDE DEF e
  <2>3. QED  BY <1>3, <2>1, <2>2, Zenon
<1>7. CASE Finishes
  BY <1>0, <1>7 DEF Finishes, drv, DriveRecord
<1>8. CASE Reshapes
  <2>1. PICK cylinders, heads, sectors \in Nat :
          drive' = [drive EXCEPT ![selected] =
             [Cleared(drv) EXCEPT !.heads = heads, !.sectors = sectors,
                                  !.cylinders = cylinders, !.status = @ \ {"DRQ"}]]
    BY <1>8, Zenon DEF Reshapes
  <2> DEFINE e == [Cleared(drv) EXCEPT !.heads = heads, !.sectors = sectors,
                                       !.cylinders = cylinders, !.status = @ \ {"DRQ"}]
  <2>2. e.disk = drv.disk /\ e.half = drv.half
    BY <1>2 DEF DriveRecord
  <2>3. drive' = [drive EXCEPT ![selected] = e]
    BY <2>1, Zenon
  <2> HIDE DEF e
  <2>4. QED  BY <1>0, <1>3, <2>2, <2>3, Zenon
<1>9. QED  BY <1>0, <1>1, <1>4, <1>5, <1>6, <1>7, <1>8, Zenon DEF Served

(* The three facts about who is served.                                     *)
ServedSound == OnlySelectedAsks /\ HandshakeSound /\ WritesToDisk

(* An access keeps them: what it makes of the status of the drive fits what *)
(* it makes of the phase and the counter.                                   *)
LEMMA ServedByAccess ==
  ASSUME Inv, Next, CarefulHost, Access
  PROVE  ServedSound'
<1>0. /\ drv.disk # NoDisk /\ drv = drive[selected] /\ drv \in DriveRecord
      /\ selected \in Units /\ drive \in [Units -> DriveRecord] /\ OnlySelectedAsks
  BY AccessFrame, DrvType DEF drv, Inv, DriveType, RegistersType
<1>1. /\ selected' = selected /\ drv'.disk = drv.disk /\ drv' = drive'[selected]
      /\ \A u \in Units \ {selected} : drive'[u] = drive[u]
  BY AccessLeavesOthers DEF drv
<1>2. OnlySelectedAsks'
  <2>1. ASSUME NEW u \in Units, u # selected
        PROVE  ~Asks(u)'
    BY <1>0, <1>1, <2>1 DEF OnlySelectedAsks, Asks
  <2>2. QED  BY <1>0, <1>1, <2>1 DEF OnlySelectedAsks
<1>3. ASSUME Asks(selected)', phase' # "READY", datacounter' < BlockSize,
             phase' = "PIO_OUT" => sector_number' < Capacity(Geometry[drv.disk])
      PROVE  ServedSound'
  BY <1>0, <1>1, <1>2, <1>3
     DEF ServedSound, HandshakeSound, WritesToDisk, Transferring, Asks
<1>4. ASSUME ~Asks(selected)', ~(phase' # "READY" /\ datacounter' < BlockSize)
      PROVE  ServedSound'
  BY <1>0, <1>1, <1>2, <1>4
     DEF ServedSound, HandshakeSound, WritesToDisk, Transferring, Asks
<1>5. PICK d \in {drv, Cleared(drv)} : Served(d)
  BY AccessShape
<1>6. d \in DriveRecord /\ Cleared(drv) \in DriveRecord
  BY DrvType
<1>7. CASE Advances
  <2>1. phase = "PIO_OUT" => sector_number < Capacity(Geometry[drv.disk])
    BY <1>7 DEF Inv, WritesToDisk, Advances
  <2>2. QED  BY <1>1, <1>3, <1>7, <2>1 DEF Advances, Transferring, Asks
<1>8. ASSUME NEW error \in Errors, Refuses(d, error)
      PROVE  ServedSound'
  <2>1. drive'[selected].status = d.status \union {"ERR"}
    BY <1>0, <1>6, <1>8 DEF Refuses, Fail, DriveRecord
  <2>2. datacounter' \in Nat /\ BlockSize \in Nat
    BY TransferStep, BlockSizeAssumption DEF TransferType
  <2>3. QED  BY <1>1, <1>4, <1>8, <2>1, <2>2 DEF Refuses, Asks
<1>9. ASSUME NEW ph \in {"PIO_IN", "PIO_OUT"}, Begins(d, ph)
      PROVE  ServedSound'
  <2>1. drive'[selected].status = d.status \union {"DRQ"} /\ "ERR" \notin d.status
    BY <1>0, <1>6, <1>9 DEF Begins, StartTransfer, DriveRecord
  <2>2. phase' = ph /\ datacounter' = 0 /\ 0 < BlockSize
    BY <1>9, BlockSizeAssumption DEF Begins, StartTransfer
  <2>3. QED  BY <1>1, <1>3, <1>9, <2>1, <2>2 DEF Begins, Asks
<1>10. CASE Finishes
  <2>1. "DRQ" \notin drive'[selected].status /\ phase' = "READY"
    BY <1>0, <1>10 DEF Finishes, DriveRecord
  <2>2. QED  BY <1>1, <1>4, <2>1 DEF Asks
<1>11. CASE Reshapes
  <2>1. "DRQ" \notin drive'[selected].status /\ phase' = "READY"
    BY <1>0, <1>6, <1>11 DEF Reshapes, DriveRecord
  <2>2. QED  BY <1>1, <1>4, <2>1 DEF Asks
<1>12. QED
  BY <1>5, <1>7, <1>8, <1>9, <1>10, <1>11, Zenon DEF Served

(* So does every other step: a careful host leaves a drive that asks alone. *)
LEMMA ServedStep ==
  ASSUME Inv, Next, CarefulHost
  PROVE  ServedSound'
<1>0. /\ selected \in Units /\ drive \in [Units -> DriveRecord]
      /\ OnlySelectedAsks /\ HandshakeSound /\ WritesToDisk
      /\ \A u \in Units : Asks(u) <=> Transferring(u)
  BY AsksMeansTransferring DEF Inv, DriveType, RegistersType
<1>1. CASE Access
  BY <1>1, ServedByAccess
<1>2. CASE UNCHANGED <<drive, selected, phase, datacounter, sector_number>>
  BY <1>0, <1>2 DEF ServedSound, OnlySelectedAsks, HandshakeSound, WritesToDisk,
     Asks, Transferring, drv
<1>3. CASE Reset
  <2>1. ASSUME NEW u \in Units
        PROVE  ~Asks(u)'
    <3>1. drive'[u] = ResetDrive(drive[u])
      BY <1>3 DEF Reset
    <3>2. drive[u] \in DriveRecord
      BY <1>0
    <3>3. drive'[u].status \in {{"DRDY"}, StatusFlags}
      BY <3>1, <3>2 DEF ResetDrive, DriveRecord
    <3>4. QED  BY <3>3 DEF Asks, StatusFlags
  <2>2. selected' \in Units /\ phase' = "READY"
    BY <1>3 DEF Reset, Units
  <2>3. QED
    BY <2>1, <2>2 DEF ServedSound, OnlySelectedAsks, HandshakeSound, WritesToDisk,
       Asks, Transferring
<1>4. ASSUME NEW u \in Units, NEW e, ~Transferring(u), e.status = drive[u].status,
             drive' = [drive EXCEPT ![u] = e],
             UNCHANGED <<selected, phase, datacounter, sector_number>>
      PROVE  ServedSound'
  <2>1. ~Asks(u)' /\ ~Asks(u)
    BY <1>0, <1>4 DEF Asks
  <2>2. \A v \in Units \ {u} : drive'[v] = drive[v]
    BY <1>0, <1>4
  <2>3. QED
    BY <1>0, <1>4, <2>1, <2>2 DEF ServedSound, OnlySelectedAsks, HandshakeSound,
       WritesToDisk, Asks, Transferring, drv
<1>5. ASSUME NEW u \in Units, Eject(u)
      PROVE  ServedSound'
  <2> DEFINE e == [drive[u] EXCEPT !.disk = NoDisk]
  <2>1. e.status = drive[u].status
    BY <1>0 DEF DriveRecord
  <2>2. /\ drive' = [drive EXCEPT ![u] = e] /\ ~Transferring(u)
        /\ UNCHANGED <<selected, phase, datacounter, sector_number>>
    BY <1>0, <1>5 DEF Eject, Careful, transferVars
  <2> HIDE DEF e
  <2>3. QED  BY <1>4, <2>1, <2>2, Zenon
<1>6. ASSUME NEW u \in Units, NEW image \in Images, Insert(u, image)
      PROVE  ServedSound'
  <2> DEFINE g == Geometry[image]
             e == [drive[u] EXCEPT !.disk = image, !.half = g.half, !.cylinders = g.cylinders,
                                   !.heads = g.heads, !.sectors = g.sectors]
  <2>1. e.status = drive[u].status
    BY <1>0 DEF DriveRecord
  <2>2. /\ drive' = [drive EXCEPT ![u] = e] /\ ~Transferring(u)
        /\ UNCHANGED <<selected, phase, datacounter, sector_number>>
    BY <1>0, <1>6 DEF Insert, Careful, transferVars
  <2> HIDE DEF e
  <2>3. QED  BY <1>4, <2>1, <2>2, Zenon
<1>7. ASSUME NEW h \in HostHeads, WriteHead(h)
      PROVE  ServedSound'
  <2>1. \A u \in Units : ~Asks(u)
    BY <1>0, <1>7 DEF WriteHead, Careful, OnlySelectedAsks
  <2>2. /\ selected' \in Units
        /\ UNCHANGED <<drive, phase, datacounter, sector_number>>
    BY <1>7 DEF WriteHead, Units, transferVars
  <2>3. ~(phase # "READY" /\ datacounter < BlockSize)
    BY <1>0, <2>1 DEF HandshakeSound
  <2>4. QED
    BY <2>1, <2>2, <2>3 DEF ServedSound, OnlySelectedAsks, HandshakeSound,
       WritesToDisk, Asks, Transferring
<1>8. QED
  BY <1>1, <1>2, <1>3, <1>5, <1>6, <1>7, OtherShape, Zenon

----------------------------------------------------------------------------
(* Caches and files.                                                        *)

(* What the invariant says of one cache.                                    *)
CacheSound(u) ==
  /\ IsCache(drive[u].half, cache[u])
  /\ drive[u].disk = NoDisk => DOMAIN cache[u] = {}
  /\ drive[u].disk # NoDisk =>
       \A s \in DOMAIN cache[u] : s < Capacity(Geometry[drive[u].disk])

FilesSound == DOMAIN files = Images /\ \A i \in Images : IsFile(Geometry[i], files[i])

StorageSound == DOMAIN cache = Units /\ FilesSound /\ \A u \in Units : CacheSound(u)

(* StorageSound is the conjunction of the checked properties.               *)
LEMMA StorageParts ==
  StorageSound <=> StorageType /\ CacheNeedsDisk /\ DirtySectorsOnDisk
  BY DEF StorageSound, StorageType, FilesSound, CacheSound, CacheNeedsDisk, DirtySectorsOnDisk

(* A drive keeps its sound cache as long as it keeps its disk.              *)
LEMMA SameCache ==
  ASSUME NEW u, CacheSound(u), cache'[u] = cache[u],
         drive'[u].disk = drive[u].disk, drive'[u].half = drive[u].half
  PROVE  CacheSound(u)'
  BY DEF CacheSound

(* An empty cache is sound.                                                 *)
LEMMA EmptyCache ==
  ASSUME NEW u, DOMAIN cache'[u] = {}
  PROVE  CacheSound(u)'
  BY DEF CacheSound, IsCache

(* write_hdf: the sector that enters the cache is the one a seek found on   *)
(* the disk.                                                                *)
LEMMA StorageWrite ==
  ASSUME Inv, Next, CarefulHost, NEW byte \in DataBytes, WriteData(byte), WriteHdf
  PROVE  CacheSound(selected)'
<1> DEFINE written == WriteSectors(drv.half, cache[selected], {sector_number}, buffer')
<1>1. /\ StorageSound /\ selected \in Units /\ drv = drive[selected] /\ drv \in DriveRecord
      /\ sector_number \in Nat /\ WritesToDisk
  BY StorageParts, DrvType DEF Inv, RegistersType, TransferType, drv
<1>2. Access
  BY DEF Access
<1>3. /\ drv.disk # NoDisk /\ selected' = selected /\ drive'[selected].disk = drv.disk
      /\ drive'[selected].half = drv.half
  BY <1>2, AccessFrame, AccessLeavesOthers DEF drv
<1>4. buffer' \in Block
  BY TransferStep DEF TransferType
<1>5. cache'[selected] = written
  BY <1>1 DEF WriteHdf, StorageSound
<1>6. drv.half \in BOOLEAN /\ IsCache(drv.half, cache[selected]) /\ {sector_number} \in SUBSET Nat
  BY <1>1 DEF DriveRecord, StorageSound, CacheSound
<1>7. IsCache(drv.half, written) /\ DOMAIN written = DOMAIN cache[selected] \union {sector_number}
  <2> DEFINE half == drv.half  c == cache[selected]  block == buffer'  S == {sector_number}
  <2>1. half \in BOOLEAN /\ IsCache(half, c) /\ S \in SUBSET Nat /\ block \in Block
    BY <1>4, <1>6
  <2> HIDE DEF half, c, block, S
  <2>2. /\ IsCache(half, WriteSectors(half, c, S, block))
        /\ DOMAIN WriteSectors(half, c, S, block) = DOMAIN c \union S
    BY <2>1, WriteSectorsType
  <2>3. QED  BY <2>2 DEF half, c, block, S
<1>8. Transferring(selected) /\ phase = "PIO_OUT"
  BY DEF WriteData, Careful
<1>9. \A s \in DOMAIN written : s < Capacity(Geometry[drv.disk])
  <2>1. sector_number < Capacity(Geometry[drv.disk])
    BY <1>1, <1>8, Zenon DEF WritesToDisk
  <2>2. \A s \in DOMAIN cache[selected] : s < Capacity(Geometry[drv.disk])
    BY <1>1, <1>3, Zenon DEF StorageSound, CacheSound, drv
  <2>3. QED  BY <1>7, <2>1, <2>2, Zenon
<1> HIDE DEF written
<1>10. QED  BY <1>3, <1>5, <1>7, <1>9 DEF CacheSound

(* Every step keeps images and caches sound.                                *)
LEMMA StorageStep ==
  ASSUME Inv, Next, CarefulHost
  PROVE  StorageSound'
<1>0. /\ StorageSound /\ DriveType /\ selected \in Units
      /\ drive \in [Units -> DriveRecord] /\ drv = drive[selected]
  BY StorageParts DEF Inv, DriveType, RegistersType, drv
<1>1. ASSUME UNCHANGED <<cache, files>>,
             \A u \in Units : drive'[u].disk = drive[u].disk /\ drive'[u].half = drive[u].half
      PROVE  StorageSound'
  BY <1>0, <1>1, SameCache DEF StorageSound, FilesSound
<1>2. CASE Access
  <2>1. /\ UNCHANGED <<files, selected>>
        /\ \A u \in Units : drive'[u].disk = drive[u].disk /\ drive'[u].half = drive[u].half
    BY <1>0, <1>2, AccessFrame, AccessLeavesOthers DEF drv
  <2>2. ASSUME NEW byte \in DataBytes, WriteData(byte), WriteHdf
        PROVE  StorageSound'
    <3>1. CacheSound(selected)'
      BY <2>2, StorageWrite
    <3>2. DOMAIN cache' = Units /\ \A u \in Units \ {selected} : cache'[u] = cache[u]
      BY <1>0, <2>2 DEF WriteHdf, StorageSound
    <3>3. \A u \in Units \ {selected} : CacheSound(u)'
      BY <1>0, <2>1, <3>2, SameCache DEF StorageSound
    <3>4. QED  BY <1>0, <2>1, <3>1, <3>2, <3>3 DEF StorageSound, FilesSound
  <2>3. UNCHANGED cache \/ \E byte \in DataBytes : WriteData(byte) /\ WriteHdf
    BY <1>2, Zenon DEF Access, ReadData, WriteData, ReadSectorCommand, WriteSectorCommand,
       IdentifyDevice, InitDeviceParams, UnknownCommand, Command
  <2>4. QED  BY <1>1, <2>1, <2>2, <2>3
<1>3. CASE Reset
  <2>1. ASSUME NEW u \in Units
        PROVE  drive'[u].disk = drive[u].disk /\ drive'[u].half = drive[u].half
    <3>1. drive'[u] = ResetDrive(drive[u]) /\ drive[u] \in DriveRecord
      BY <1>0, <1>3 DEF Reset
    <3>2. QED  BY <3>1 DEF ResetDrive, DriveRecord
  <2>2. QED  BY <1>1, <1>3, <2>1 DEF Reset
<1>4. ASSUME NEW u \in Units, Commit(u)
      PROVE  StorageSound'
  <2> DEFINE disk == drive[u].disk  g == Geometry[disk]  file == files[disk]
             dirty == cache[u]
  <2>1. PICK s \in DOMAIN dirty, n \in 1..SectorSize(drive[u].half) :
          /\ files' = [files EXCEPT ![disk] = WriteToFile(g, file, s, dirty[s], n)]
          /\ cache' = [cache EXCEPT ![u] = KeepInCache(drive[u].half, dirty, s, n)]
    BY <1>4 DEF Commit
  <2>2. disk \in Images /\ drive[u].half = g.half /\ disk # NoDisk /\ UNCHANGED drive
    BY <1>0, <1>4 DEF Commit, DriveType, DriveRecord
  <2>3. IsFile(g, file) /\ CacheSound(u) /\ IsCache(g.half, dirty) /\ HasLayout(g)
    BY <1>0, <2>2, GeometryHasLayout DEF StorageSound, FilesSound, CacheSound
  <2>4. /\ IsFile(g, WriteToFile(g, file, s, dirty[s], n))
        /\ IsCache(g.half, KeepInCache(g.half, dirty, s, n))
        /\ DOMAIN KeepInCache(g.half, dirty, s, n) \subseteq DOMAIN dirty
    <3>1. s \in DOMAIN dirty /\ n \in 1..SectorSize(g.half)
      BY <2>1, <2>2
    <3> HIDE DEF g, file, dirty
    <3>2. QED  BY <2>3, <3>1, CommitType
  <2>5. CacheSound(u)'
    BY <1>0, <2>1, <2>2, <2>3, <2>4 DEF CacheSound, StorageSound
  <2>6. \A v \in Units \ {u} : CacheSound(v)'
    BY <1>0, <2>1, <2>2, SameCache DEF StorageSound
  <2>7. FilesSound'
    BY <1>0, <2>1, <2>2, <2>4 DEF StorageSound, FilesSound
  <2>8. DOMAIN cache' = Units
    BY <1>0, <2>1 DEF StorageSound
  <2>9. QED  BY <2>5, <2>6, <2>7, <2>8 DEF StorageSound
<1>5. ASSUME NEW u \in Units, UNCHANGED files,
             cache' = [cache EXCEPT ![u] = CacheAfterEject(u)],
             \A v \in Units \ {u} : drive'[v] = drive[v]
      PROVE  StorageSound'
  <2>1. DOMAIN CacheAfterEject(u) = {}
    BY <1>0, NoCacheIsCache DEF CacheAfterEject, StorageSound, CacheSound
  <2>2. CacheSound(u)'
    BY <1>0, <1>5, <2>1, EmptyCache DEF StorageSound
  <2>3. \A v \in Units \ {u} : CacheSound(v)'
    BY <1>0, <1>5, SameCache DEF StorageSound
  <2>4. QED  BY <1>0, <1>5, <2>2, <2>3 DEF StorageSound, FilesSound
<1>6. ASSUME NEW u \in Units, Eject(u)
      PROVE  StorageSound'
  BY <1>0, <1>5, <1>6 DEF Eject
<1>7. ASSUME NEW u \in Units, NEW image \in Images, Insert(u, image)
      PROVE  StorageSound'
  BY <1>0, <1>5, <1>7 DEF Insert
<1>8. CASE UNCHANGED <<drive, cache, files>>
  BY <1>1, <1>8
<1>9. \/ Access \/ Reset \/ UNCHANGED <<drive, cache, files>>
      \/ \E u \in Units : Eject(u) \/ Commit(u) \/ \E image \in Images : Insert(u, image)
  <2>1. ASSUME NEW r \in Registers, NEW value \in HostRegs[r], WriteRegister(r, value)
        PROVE  UNCHANGED <<drive, cache, files>>
    BY <2>1 DEF WriteRegister
  <2>2. ASSUME NEW h \in HostHeads, WriteHead(h)
        PROVE  UNCHANGED <<drive, cache, files>>
    BY <2>2 DEF WriteHead
  <2>3. ASSUME NEW byte \in DataBytes, WriteData2(byte)
        PROVE  UNCHANGED <<drive, cache, files>>
    BY <2>3 DEF WriteData2
  <2>4. QED  BY <2>1, <2>2, <2>3, Zenon DEF Next, Machine, Emulator, Access
<1>10. QED  BY <1>2, <1>3, <1>4, <1>6, <1>7, <1>8, <1>9, Zenon

----------------------------------------------------------------------------
(* The theorems.                                                            *)

(* The invariant is inductive.                                              *)
LEMMA StepInv ==
  ASSUME Inv, [Next]_vars, CarefulHost
  PROVE  Inv'
<1>1. CASE Next
  <2>1. /\ RegistersType' /\ TransferType' /\ DriveType' /\ ServedSound' /\ StorageSound'
    BY <1>1, RegistersStep, TransferStep, DriveStep, ServedStep, StorageStep
  <2>2. StorageType' /\ CacheNeedsDisk' /\ DirtySectorsOnDisk'
    BY <2>1, StorageParts, PTL
  <2>3. QED  BY <2>1, <2>2 DEF Inv, ServedSound
<1>2. CASE UNCHANGED vars
  BY <1>2 DEF vars, Inv, DriveType, StorageType, RegistersType, TransferType, BusStep,
     OnlySelectedAsks, Asks, HandshakeSound, WritesToDisk, Transferring, drv,
     CacheNeedsDisk, DirtySectorsOnDisk
<1>3. QED  BY <1>1, <1>2

(* Every state of the channel of a careful host satisfies all the parts.    *)
THEOREM Invariance ==
  ASSUME CarefulHost
  PROVE  Spec => []Inv
<1>1. Init => Inv
  BY InitInv
<1>2. Inv /\ [Next]_vars => Inv'
  BY StepInv
<1>3. QED  BY <1>1, <1>2, PTL DEF Spec

(* The types: however far a transfer advances the address every register    *)
(* stays within its byte, the counter within the buffer and every file      *)
(* without gaps.                                                            *)
THEOREM TypesKept ==
  ASSUME CarefulHost
  PROVE  Spec => []TypeOK
<1>1. Inv => TypeOK
  BY DEF Inv, TypeOK, DriveType, StorageType, RegistersType, TransferType
<1>2. QED  BY Invariance, <1>1, PTL

(* The status register of the selected drive asks for data exactly while a  *)
(* data access has a place in the sector buffer.                            *)
THEOREM HandshakeKept ==
  ASSUME CarefulHost
  PROVE  Spec => []HandshakeSound
<1>1. Inv => HandshakeSound
  BY DEF Inv
<1>2. QED  BY Invariance, <1>1, PTL

(* A drive without a disk holds no dirty sector for the next image.         *)
THEOREM CacheEmptied ==
  ASSUME CarefulHost
  PROVE  Spec => []CacheNeedsDisk
<1>1. Inv => CacheNeedsDisk
  BY DEF Inv
<1>2. QED  BY Invariance, <1>1, PTL

(* Whatever geometry INITIALIZE DEVICE PARAMETERS sets, no sector beyond    *)
(* the capacity in the header of the image becomes dirty.                   *)
THEOREM DirtySectorsFit ==
  ASSUME CarefulHost
  PROVE  Spec => []DirtySectorsOnDisk
<1>1. Inv => DirtySectorsOnDisk
  BY DEF Inv
<1>2. QED  BY Invariance, <1>1, PTL

----------------------------------------------------------------------------
(* What the machine can read of a disk.                                     *)

(* An image is in one drive only: a commit of one drive writes to no file   *)
(* under the cache of the other.                                            *)
OneDrivePerImage ==
  \A u, v \in Units : drive[u].disk # NoDisk /\ drive[u].disk = drive[v].disk => u = v

(* No step puts an image into a second drive.                               *)
LEMMA OneDriveStep ==
  ASSUME Inv, OneDrivePerImage, [Next]_vars, CarefulHost
  PROVE  OneDrivePerImage'
<1>0. drive \in [Units -> DriveRecord] /\ selected \in Units /\ drv = drive[selected]
  BY DEF Inv, DriveType, RegistersType, drv
<1>1. ASSUME \A u \in Units : drive'[u].disk = drive[u].disk
      PROVE  OneDrivePerImage'
  BY <1>1 DEF OneDrivePerImage
<1>2. CASE Access
  BY <1>0, <1>1, <1>2, AccessLeavesOthers DEF drv
<1>3. CASE Reset
  <2>1. ASSUME NEW u \in Units
        PROVE  drive'[u].disk = drive[u].disk
    <3>1. drive'[u] = ResetDrive(drive[u]) /\ drive[u] \in DriveRecord
      BY <1>0, <1>3 DEF Reset
    <3>2. QED  BY <3>1 DEF ResetDrive, DriveRecord
  <2>2. QED  BY <1>1, <2>1
<1>4. ASSUME NEW u \in Units, Eject(u)
      PROVE  OneDrivePerImage'
  <2>1. drive'[u].disk = NoDisk /\ \A v \in Units \ {u} : drive'[v] = drive[v]
    BY <1>0, <1>4 DEF Eject, DriveRecord
  <2>2. QED  BY <2>1 DEF OneDrivePerImage
<1>5. ASSUME NEW u \in Units, NEW image \in Images, Insert(u, image)
      PROVE  OneDrivePerImage'
  <2>1. /\ drive'[u].disk = image
        /\ \A v \in Units \ {u} : drive'[v] = drive[v] /\ drive[v].disk # image
    BY <1>0, <1>5 DEF Insert, DriveRecord
  <2>2. QED  BY <2>1 DEF OneDrivePerImage
<1>6. CASE UNCHANGED drive
  BY <1>6 DEF OneDrivePerImage
<1>7. ASSUME NEW h \in HostHeads, WriteHead(h)
      PROVE  UNCHANGED drive
  BY <1>7 DEF WriteHead
<1>8. UNCHANGED vars => UNCHANGED drive
  BY DEF vars
<1>9. QED  BY <1>2, <1>3, <1>4, <1>5, <1>6, <1>7, <1>8, OtherShape, Zenon

(* A step that leaves a disk, its file and its cache alone leaves what can  *)
(* be read of a sector.                                                     *)
LEMMA SameSector ==
  ASSUME NEW u, NEW s, cache'[u] = cache[u], drive'[u].disk = drive[u].disk,
         files'[drive[u].disk] = files[drive[u].disk]
  PROVE  SectorOf(u, s)' = SectorOf(u, s)
  BY DEF SectorOf

(* The step of OnlyAddressedSectorChanges, of one drive.                    *)
Unharmed(u) ==
  drive[u].disk # NoDisk /\ Small(drive[u].disk) =>
    \/ \A s \in 0..Capacity(Geometry[drive[u].disk]) - 1 :
         \/ SectorOf(u, s) = ReadError
         \/ drive'[u].disk = drive[u].disk /\ SectorOf(u, s)' = SectorOf(u, s)
         \/ /\ u = selected /\ phase = "PIO_OUT" /\ s = sector_number
            /\ SectorOf(u, s)' = AsStored(drive[u].half, buffer')
    \/ Eject(u)
    \/ \E image \in Images : Insert(u, image)

(* A step that keeps the disks, the files and the cache of a drive.         *)
LEMMA SameUnharmed ==
  ASSUME NEW u, cache'[u] = cache[u], drive'[u].disk = drive[u].disk,
         drive[u].disk # NoDisk => files'[drive[u].disk] = files[drive[u].disk]
  PROVE  Unharmed(u)
<1>1. ASSUME drive[u].disk # NoDisk, NEW s
      PROVE  SectorOf(u, s)' = SectorOf(u, s)
  BY <1>1, SameSector
<1>2. QED  BY <1>1 DEF Unharmed

(* A commit changes no sector that a drive can read.                        *)
LEMMA CommitUnharmed ==
  ASSUME Inv, OneDrivePerImage, NEW v \in Units, Commit(v), NEW u \in Units
  PROVE  Unharmed(u)
<1> DEFINE disk == drive[v].disk  g == Geometry[disk]  file == files[disk]
           dirty == cache[v]  total == Capacity(g)
<1>1. PICK s \in DOMAIN dirty, n \in 1..SectorSize(drive[v].half) :
        /\ files' = [files EXCEPT ![disk] = WriteToFile(g, file, s, dirty[s], n)]
        /\ cache' = [cache EXCEPT ![v] = KeepInCache(drive[v].half, dirty, s, n)]
  BY DEF Commit
<1>2. /\ disk # NoDisk /\ UNCHANGED drive /\ disk \in Images
      /\ drive[v].half = g.half /\ DOMAIN cache = Units /\ DOMAIN files = Images
      /\ IsFile(g, file) /\ IsCache(g.half, dirty)
  BY DEF Commit, Inv, DriveType, DriveRecord, StorageType
<1>3. CASE u # v
  <2>1. cache'[u] = cache[u] /\ drive[u].disk # disk
    BY <1>1, <1>2, <1>3 DEF OneDrivePerImage
  <2>2. drive[u].disk # NoDisk => files'[drive[u].disk] = files[drive[u].disk]
    BY <1>1, <1>2, <2>1
  <2>3. QED  BY <1>2, <2>1, <2>2, SameUnharmed
<1>4. CASE u = v
  <2>1. SUFFICES ASSUME Small(disk), NEW t \in 0..total - 1, SectorOf(v, t) # ReadError
                 PROVE  SectorOf(v, t)' = SectorOf(v, t)
    BY <1>2, <1>4 DEF Unharmed
  <2>2. HasLayout(g) /\ total \in Nat /\ Fits(g, total)
    BY <1>2, <2>1, GeometryHasLayout DEF Small
  <2>3. DOMAIN dirty \subseteq 0..total - 1
    BY <1>2, <2>2 DEF Inv, DirtySectorsOnDisk, IsCache
  <2>4. SectorOf(v, t) = SectorData(g, file, dirty, t)
    BY DEF SectorOf
  <2>5. SectorOf(v, t)' = SectorData(g, WriteToFile(g, file, s, dirty[s], n),
                                     KeepInCache(g.half, dirty, s, n), t)
    BY <1>1, <1>2 DEF SectorOf
  <2>6. SectorData(g, WriteToFile(g, file, s, dirty[s], n),
                   KeepInCache(g.half, dirty, s, n), t) = SectorData(g, file, dirty, t)
    <3>1. n \in 1..SectorSize(g.half) /\ SectorData(g, file, dirty, t) # ReadError
      BY <1>1, <1>2, <2>1, <2>4
    <3>2. s \in DOMAIN dirty /\ t \in 0..total - 1 /\ IsFile(g, file) /\ IsCache(g.half, dirty)
      BY <1>1, <1>2, <2>1
    <3> HIDE DEF g, file, dirty, total
    <3>3. QED  BY <2>2, <2>3, <3>1, <3>2, CommitKeepsContent
  <2>7. QED  BY <2>4, <2>5, <2>6
<1>5. QED  BY <1>3, <1>4

(* The last byte of a write changes the addressed sector only.              *)
LEMMA WriteUnharmed ==
  ASSUME Inv, NEW byte \in DataBytes, WriteData(byte), WriteHdf, CarefulHost
  PROVE  Unharmed(selected)
<1> DEFINE g == Geometry[drv.disk]  file == files[drv.disk]  dirty == cache[selected]
           block == buffer'
<1>1. Access
  BY DEF Access
<1>2. /\ drv.disk # NoDisk /\ UNCHANGED <<files, selected>>
      /\ drive'[selected].disk = drv.disk /\ drv = drive[selected] /\ drv.half = g.half
  BY <1>1, AccessFrame, AccessLeavesOthers DEF drv, Inv, DriveType, RegistersType
<1>3. cache'[selected] = WriteSectors(g.half, dirty, {sector_number}, block)
  BY <1>2 DEF WriteHdf, Inv, StorageType, RegistersType
<1>4. phase = "PIO_OUT"
  BY DEF WriteData
<1>5. ASSUME NEW s
      PROVE  /\ SectorOf(selected, s) = SectorData(g, file, dirty, s)
             /\ SectorOf(selected, s)' =
                  SectorData(g, file, WriteSectors(g.half, dirty, {sector_number}, block), s)
  BY <1>2, <1>3 DEF SectorOf
<1>6. ASSUME NEW s
      PROVE  SectorOf(selected, s)' =
               IF s = sector_number THEN AsStored(g.half, block) ELSE SectorOf(selected, s)
  <2> DEFINE half == g.half  S == {sector_number}
             after == WriteSectors(half, dirty, S, block)
  <2>1. half = g.half /\ after = WriteSectors(half, dirty, S, block)
    OBVIOUS
  <2>2. SectorData(g, file, after, s) =
          IF s \in S THEN AsStored(half, block) ELSE SectorData(g, file, dirty, s)
    <3> HIDE DEF g, file, dirty, block, half, S, after
    <3>1. QED  BY <2>1 DEF SectorData, WriteSectors, AsStored
  <2>3. QED  BY <1>5, <2>2
<1>7. QED  BY <1>2, <1>4, <1>6 DEF Unharmed

(* No other access changes any sector.                                      *)
LEMMA MachineUnharmed ==
  ASSUME Inv, CarefulHost, Machine, NEW u \in Units
  PROVE  Unharmed(u)
<1>0. selected \in Units /\ drv = drive[selected] /\ DOMAIN cache = Units
  BY DEF Inv, RegistersType, StorageType, drv
<1>1. ASSUME cache'[u] = cache[u], UNCHANGED files, drive'[u].disk = drive[u].disk
      PROVE  Unharmed(u)
  BY <1>1, SameUnharmed
<1>2. CASE Access
  <2>1. UNCHANGED files /\ drive'[u].disk = drive[u].disk
    BY <1>0, <1>2, AccessFrame, AccessLeavesOthers DEF drv
  <2>2. ASSUME NEW byte \in DataBytes, WriteData(byte), WriteHdf
        PROVE  Unharmed(u)
    <3>1. CASE u = selected
      BY <2>2, <3>1, WriteUnharmed
    <3>2. CASE u # selected
      <4>1. cache'[u] = cache[u]
        BY <1>0, <2>2, <3>2 DEF WriteHdf
      <4>2. QED  BY <1>1, <2>1, <4>1
    <3>3. QED  BY <3>1, <3>2
  <2>3. UNCHANGED cache \/ \E byte \in DataBytes : WriteData(byte) /\ WriteHdf
    BY <1>2, Zenon DEF Access, ReadData, WriteData, ReadSectorCommand, WriteSectorCommand,
       IdentifyDevice, InitDeviceParams, UnknownCommand, Command
  <2>4. QED  BY <1>1, <2>1, <2>2, <2>3
<1>3. ASSUME UNCHANGED <<drive, cache, files>>
      PROVE  Unharmed(u)
  BY <1>1, <1>3
<1>4. ASSUME NEW r \in Registers, NEW value \in HostRegs[r], WriteRegister(r, value)
      PROVE  UNCHANGED <<drive, cache, files>>
  BY <1>4 DEF WriteRegister
<1>5. ASSUME NEW h \in HostHeads, WriteHead(h)
      PROVE  UNCHANGED <<drive, cache, files>>
  BY <1>5 DEF WriteHead
<1>6. ASSUME NEW byte \in DataBytes, WriteData2(byte)
      PROVE  UNCHANGED <<drive, cache, files>>
  BY <1>6 DEF WriteData2
<1>7. QED  BY <1>2, <1>3, <1>4, <1>5, <1>6, Zenon DEF Machine, Access

(* A reset changes nothing on the disks, and an eject or an insert nothing  *)
(* on the disk of the other drive.                                          *)
LEMMA EmulatorUnharmed ==
  ASSUME Inv, OneDrivePerImage, Emulator, NEW u \in Units
  PROVE  Unharmed(u)
<1>0. drive \in [Units -> DriveRecord] /\ DOMAIN cache = Units
  BY DEF Inv, DriveType, StorageType
<1>1. CASE Reset
  <2>1. drive'[u] = ResetDrive(drive[u]) /\ drive[u] \in DriveRecord
    BY <1>0, <1>1 DEF Reset
  <2>2. drive'[u].disk = drive[u].disk /\ UNCHANGED <<cache, files>>
    BY <1>1, <2>1 DEF Reset, ResetDrive, DriveRecord
  <2>3. QED  BY <2>2, SameUnharmed
<1>2. ASSUME NEW v \in Units, Eject(v)
      PROVE  Unharmed(u)
  <2>1. CASE v = u
    BY <1>2, <2>1 DEF Unharmed
  <2>2. CASE v # u
    <3>1. cache'[u] = cache[u] /\ drive'[u] = drive[u] /\ UNCHANGED files
      BY <1>0, <1>2, <2>2 DEF Eject
    <3>2. QED  BY <3>1, SameUnharmed
  <2>3. QED  BY <2>1, <2>2
<1>3. ASSUME NEW v \in Units, NEW image \in Images, Insert(v, image)
      PROVE  Unharmed(u)
  <2>1. CASE v = u
    BY <1>3, <2>1 DEF Unharmed
  <2>2. CASE v # u
    <3>1. cache'[u] = cache[u] /\ drive'[u] = drive[u] /\ UNCHANGED files
      BY <1>0, <1>3, <2>2 DEF Insert
    <3>2. QED  BY <3>1, SameUnharmed
  <2>3. QED  BY <2>1, <2>2
<1>4. QED  BY <1>1, <1>2, <1>3, CommitUnharmed, Zenon DEF Emulator

(* The only sector of an inserted disk, of those below 4 GB, that a step    *)
(* can change, as it reads back, is the one the selected drive was told to  *)
(* write, and it takes the buffer that the machine filled; only ejecting or *)
(* inserting the disk of the drive itself does more.                        *)
THEOREM OtherSectorsKept ==
  ASSUME CarefulHost
  PROVE  Spec => OnlyAddressedSectorChanges
<1> DEFINE Step == \A u \in Units : drive[u].disk # NoDisk /\ Small(drive[u].disk) =>
             \/ \A s \in 0..Capacity(Geometry[drive[u].disk]) - 1 :
                  \/ SectorOf(u, s) = ReadError
                  \/ drive'[u].disk = drive[u].disk /\ SectorOf(u, s)' = SectorOf(u, s)
                  \/ /\ u = selected /\ phase = "PIO_OUT" /\ s = sector_number
                     /\ SectorOf(u, s)' = AsStored(drive[u].half, buffer')
             \/ Eject(u)
             \/ \E image \in Images : Insert(u, image)
<1>1. Init => OneDrivePerImage
  BY DEF Init, OneDrivePerImage, EmptyDrive
<1>2. Inv /\ OneDrivePerImage /\ [Next]_vars => OneDrivePerImage'
  BY OneDriveStep
<1>3. Inv /\ OneDrivePerImage /\ Next => \A u \in Units : Unharmed(u)
  BY MachineUnharmed, EmulatorUnharmed, Zenon DEF Next
<1>4. Inv /\ OneDrivePerImage /\ [Next]_vars => [Step]_vars
  BY <1>3, Zenon DEF Unharmed
<1>5. QED
  BY <1>1, <1>2, <1>4, Invariance, PTL DEF Spec, OnlyAddressedSectorChanges

----------------------------------------------------------------------------
(* Consecutive sectors: after a seek the registers hold the next address.   *)

(* A number is its quotient and its remainder.                              *)
LEMMA DivMod ==
  ASSUME NEW n \in Nat, NEW m \in Nat, m > 0
  PROVE  n = (n \div m) * m + (n % m) /\ n % m \in 0..m - 1 /\ n \div m \in Nat
  OBVIOUS

(* And no others.                                                           *)
LEMMA DivUnique ==
  ASSUME NEW q \in Nat, NEW m \in Nat, NEW r \in 0..m - 1, m > 0
  PROVE  (q * m + r) \div m = q /\ (q * m + r) % m = r
<1> DEFINE n == q * m + r
           p == n \div m
           s == n % m
<1>1. q * m \in Nat /\ n \in Nat
  BY ProductType
<1>2. n = p * m + s /\ s \in 0..m - 1 /\ p \in Nat
  BY <1>1, DivMod
<1>3. p * m \in Nat
  BY <1>2, ProductType
<1> HIDE DEF p, s
<1>4. ASSUME p < q PROVE FALSE
  <2>1. p + 1 <= q
    BY <1>2, <1>4
  <2>2. (p + 1) * m <= q * m
    BY <1>2, <2>1, ProductMonotone
  <2>3. (p + 1) * m = p * m + m
    BY <1>2
  <2>4. QED  BY <1>1, <1>2, <1>3, <2>2, <2>3
<1>5. ASSUME q < p PROVE FALSE
  <2>1. q + 1 <= p
    BY <1>2, <1>5
  <2>2. (q + 1) * m <= p * m
    BY <1>2, <2>1, ProductMonotone
  <2>3. (q + 1) * m = q * m + m
    OBVIOUS
  <2>4. QED  BY <1>1, <1>2, <1>3, <2>2, <2>3
<1>6. p = q
  BY <1>2, <1>4, <1>5
<1>7. s = r
  BY <1>1, <1>2, <1>6
<1>8. QED  BY <1>6, <1>7 DEF p, s

(* A small number is its own remainder.                                     *)
LEMMA SmallMod ==
  ASSUME NEW m \in Nat, NEW r \in 0..m - 1
  PROVE  r % m = r /\ m % m = 0
  OBVIOUS

(* Three digits hold a number below the cube of their base.                 *)
LEMMA ThreeDigits ==
  ASSUME NEW n \in Nat, NEW m \in Nat, m > 0, n < m * m * m
  PROVE  (((n \div (m * m)) % m) * m + ((n \div m) % m)) * m + (n % m) = n
<1> DEFINE q == n \div m
           a == q \div m
           b == q % m
           c == n % m
<1>1. n = q * m + c /\ c \in 0..m - 1 /\ q \in Nat
  BY DivMod
<1>2. q = a * m + b /\ b \in 0..m - 1 /\ a \in Nat
  BY <1>1, DivMod
<1> HIDE DEF q, a, b, c
<1>3. m * m \in Nat /\ m * m > 0 /\ a * (m * m) \in Nat /\ b * m \in Nat /\ a * m \in Nat
  BY <1>2, ProductType
<1>4. b * m + c \in 0..m * m - 1
  <2>1. b + 1 <= m
    BY <1>2
  <2>2. (b + 1) * m <= m * m
    BY <1>2, <2>1, ProductMonotone
  <2>3. (b + 1) * m = b * m + m
    BY <1>2
  <2>4. QED  BY <1>1, <1>3, <2>2, <2>3
<1>5. n = a * (m * m) + (b * m + c)
  <2>1. (a * m + b) * m = a * (m * m) + b * m
    BY <1>2
  <2>2. QED  BY <1>1, <1>2, <1>3, <2>1
<1>6. n \div (m * m) = a
  BY <1>2, <1>3, <1>4, <1>5, DivUnique
<1>7. a < m
  <2>1. ASSUME m <= a PROVE FALSE
    <3>1. m * (m * m) <= a * (m * m)
      BY <1>2, <1>3, <2>1, ProductMonotone
    <3>2. m * (m * m) = m * m * m
      OBVIOUS
    <3>3. QED  BY <1>3, <1>4, <1>5, <3>1, <3>2
  <2>2. QED  BY <1>2, <2>1
<1>8. a % m = a
  BY <1>2, <1>7, SmallMod
<1>9. (a * m + b) * m + c = n
  BY <1>1, <1>2
<1>10. ((n \div (m * m)) % m) * m + ((n \div m) % m) = a * m + b
  BY <1>6, <1>8 DEF q, b
<1>11. QED  BY <1>9, <1>10 DEF c

(* A geometry whose heads and cylinders the registers can count.            *)
Countable(d) == d.heads <= HeadSize /\ d.cylinders < ByteSize * ByteSize

(* The LBA of the advanced registers is the next one.                       *)
LEMMA LbaAdvances ==
  ASSUME NEW r \in RegRecord, r.lba, Lba(r) + 1 < ByteSize * ByteSize * ByteSize
  PROVE  AdvanceLba(r).lba /\ Lba(AdvanceLba(r)) = Lba(r) + 1
<1> DEFINE next == Lba(r) + 1
           q == (next \div ByteSize) % ByteSize
           p == (next \div (ByteSize * ByteSize)) % ByteSize
           c == next % ByteSize
<1>1. next \in Nat
  <2>1. r.high * ByteSize \in Nat
    BY ProductType, IdeSizeAssumption DEF RegRecord
  <2>2. (r.high * ByteSize + r.low) * ByteSize \in Nat
    BY <2>1, ProductType, IdeSizeAssumption DEF RegRecord
  <2>3. QED  BY <2>2 DEF Lba, RegRecord
<1>2. (p * ByteSize + q) * ByteSize + c = next
  <2>1. next < ByteSize * ByteSize * ByteSize /\ ByteSize \in Nat /\ ByteSize > 0
    BY IdeSizeAssumption
  <2> HIDE DEF next
  <2>2. QED  BY <1>1, <2>1, ThreeDigits, Zenon
<1>3. /\ AdvanceLba(r).sector = c /\ AdvanceLba(r).low = q /\ AdvanceLba(r).high = p
      /\ AdvanceLba(r).lba = r.lba
  BY DEF AdvanceLba, RegRecord
<1> HIDE DEF p, q, c
<1>4. Lba(AdvanceLba(r)) = (p * ByteSize + q) * ByteSize + c
  BY <1>3 DEF Lba
<1>5. QED  BY <1>2, <1>3, <1>4

(* The number of a sector, from its place on a drive.                       *)
ChsPlace(cylinder, head, sector, heads, sectors) ==
  (cylinder * heads + head) * sectors + sector - 1

(* The first sector of the next track follows the last one of a track.      *)
LEMMA ChsCarries ==
  ASSUME NEW cylinder \in Nat, NEW heads \in Nat, NEW sectors \in Nat, NEW head \in Nat
  PROVE  ChsPlace(cylinder, head + 1, 1, heads, sectors)
            = ChsPlace(cylinder, head, sectors, heads, sectors) + 1
<1> DEFINE x == cylinder * heads
<1>1. x \in Nat
  BY ProductType
<1> HIDE DEF x
<1>2. (x + head) * sectors \in Nat
  BY <1>1, ProductType
<1>3. (x + (head + 1)) * sectors = (x + head) * sectors + sectors
  BY <1>1
<1>4. QED  BY <1>2, <1>3 DEF x, ChsPlace

(* So does the first one of the next cylinder, after its last track.        *)
LEMMA ChsCarriesOver ==
  ASSUME NEW cylinder \in Nat, NEW heads \in Nat, NEW sectors \in Nat, NEW head \in Nat,
         head + 1 = heads
  PROVE  ChsPlace(cylinder + 1, 0, 1, heads, sectors)
            = ChsPlace(cylinder, head, sectors, heads, sectors) + 1
<1>1. cylinder * heads \in Nat /\ (cylinder + 1) * heads = cylinder * heads + heads
  BY ProductType
<1>2. (cylinder + 1) * heads + 0 = cylinder * heads + (head + 1)
  BY <1>1
<1>3. ChsPlace(cylinder + 1, 0, 1, heads, sectors)
         = ChsPlace(cylinder, head + 1, 1, heads, sectors)
  BY <1>2, Zenon DEF ChsPlace
<1>4. QED  BY <1>3, ChsCarries

(* So is the CHS address, or there is no such sector.                       *)
LEMMA ChsAdvances ==
  ASSUME NEW d \in DriveRecord, NEW r \in RegRecord, ~r.lba, Countable(d), Chs(d, r) # -1
  PROVE  /\ ~AdvanceChs(d, r).lba
         /\ Chs(d, AdvanceChs(d, r)) \in {Chs(d, r) + 1, -1}
<1> DEFINE cylinder == r.high * ByteSize + r.low
           a == AdvanceChs(d, r)
           sector == ((r.sector % d.sectors) + 1) % ByteSize
           nextHead == (r.head + 1) % d.heads
           nextLow == (r.low + 1) % ByteSize
<1>1. /\ cylinder < d.cylinders /\ r.head < d.heads /\ r.sector \in 1..d.sectors
      /\ Chs(d, r) = (cylinder * d.heads + r.head) * d.sectors + r.sector - 1
  BY DEF Chs
<1>2. /\ r.sector \in 0..ByteSize - 1 /\ r.low \in 0..ByteSize - 1
      /\ r.high \in 0..ByteSize - 1 /\ r.head \in 0..HeadSize - 1
      /\ d.heads \in Nat /\ d.sectors \in Nat /\ d.cylinders \in Nat
      /\ ByteSize \in Nat /\ ByteSize > 1 /\ HeadSize \in Nat
  BY IdeSizeAssumption DEF RegRecord, DriveRecord
<1>3. cylinder \in Nat
  BY <1>2, ProductType
<1>4. a = IF sector # 1 THEN [r EXCEPT !.sector = sector]
          ELSE [r EXCEPT !.sector = 1,
                         !.head = nextHead % HeadSize,
                         !.dev  = @ \/ nextHead = HeadSize,
                         !.low  = IF nextHead = 0 THEN nextLow ELSE @,
                         !.high = IF nextHead = 0 /\ nextLow = 0
                                    THEN (@ + 1) % ByteSize ELSE @]
  BY Zenon DEF AdvanceChs
<1> HIDE DEF a
<1>5. ~a.lba
  BY <1>4 DEF RegRecord
<1>6. CASE r.sector < d.sectors
  <2>1. r.sector % d.sectors = r.sector
    BY <1>1, <1>2, <1>6, SmallMod
  <2>0. sector = (r.sector + 1) % ByteSize
    BY <2>1
  <2> HIDE DEF sector
  <2>2. r.sector + 1 < ByteSize => sector = r.sector + 1
    BY <1>2, <2>0, SmallMod
  <2>3. r.sector + 1 = ByteSize => sector = 0
    BY <1>2, <2>0, SmallMod
  <2>4. sector # 1 /\ sector \in {0, r.sector + 1}
    <3>1. r.sector \in Nat /\ r.sector > 0
      BY <1>1, <1>2
    <3>2. r.sector + 1 < ByteSize \/ r.sector + 1 = ByteSize
      BY <1>2
    <3> HIDE DEF cylinder
    <3>3. QED  BY <2>2, <2>3, <3>1, <3>2
  <2>5. /\ a.sector = sector /\ a.high = r.high /\ a.low = r.low /\ a.head = r.head
    BY <1>4, <2>4 DEF RegRecord
  <2>6. CASE sector = 0
    <3>1. Chs(d, a) = -1
      BY <1>2, <2>5, <2>6 DEF Chs
    <3>2. QED  BY <1>5, <3>1 DEF a
  <2>7. CASE sector = r.sector + 1
    <3>1. sector \in 1..d.sectors
      BY <1>1, <1>2, <1>6, <2>7
    <3>2. Chs(d, a) = (cylinder * d.heads + r.head) * d.sectors + sector - 1
      BY <1>1, <2>5, <3>1 DEF Chs
    <3>3. (cylinder * d.heads + r.head) * d.sectors \in Nat
      BY <1>2, <1>3, ProductType
    <3>4. Chs(d, a) = Chs(d, r) + 1
      BY <1>1, <1>2, <2>7, <3>2, <3>3
    <3>5. QED  BY <3>4, <1>5 DEF a
  <2>8. QED  BY <1>5, <2>4, <2>6, <2>7 DEF a
<1>7. CASE r.sector = d.sectors
  <2>1. sector = 1
    BY <1>1, <1>2, <1>7, SmallMod
  <2>2. /\ a.sector = 1 /\ a.head = nextHead % HeadSize
        /\ a.low = (IF nextHead = 0 THEN nextLow ELSE r.low)
        /\ a.high = (IF nextHead = 0 /\ nextLow = 0 THEN (r.high + 1) % ByteSize ELSE r.high)
    BY <1>4, <2>1 DEF RegRecord
  <2>3. Chs(d, r) = (cylinder * d.heads + r.head) * d.sectors + d.sectors - 1
    BY <1>1, <1>7
  <2>4. 1 \in 1..d.sectors
    BY <1>1, <1>2, <1>7
  <2>5. CASE r.head + 1 < d.heads
    <3>1. nextHead = r.head + 1 /\ nextHead # 0
      BY <1>2, <2>5, SmallMod
    <3>2. a.head = r.head + 1
      BY <1>2, <2>2, <2>5, <3>1, SmallMod DEF Countable
    <3>3. a.low = r.low /\ a.high = r.high
      BY <2>2, <3>1
    <3>4. Chs(d, a) = (cylinder * d.heads + (r.head + 1)) * d.sectors + 1 - 1
      BY <1>1, <2>2, <2>4, <2>5, <3>2, <3>3 DEF Chs
    <3>5. Chs(d, a) = Chs(d, r) + 1
      <4> HIDE DEF cylinder
      <4> DEFINE h == r.head  hs == d.heads  ss == d.sectors
      <4>1. h \in Nat /\ hs \in Nat /\ ss \in Nat
        BY <1>2
      <4>2. ChsPlace(cylinder, h + 1, 1, hs, ss) = ChsPlace(cylinder, h, ss, hs, ss) + 1
        <5> HIDE DEF h, hs, ss
        <5>1. QED  BY <1>3, <4>1, ChsCarries
      <4>3. QED  BY <2>3, <3>4, <4>2, Zenon DEF ChsPlace
    <3>6. QED  BY <1>5, <3>5 DEF a
  <2>6. CASE r.head + 1 = d.heads
    <3>1. nextHead = 0
      BY <1>2, <2>6, SmallMod
    <3>2. a.head = 0
      BY <1>2, <2>2, <3>1, SmallMod
    <3>3. a.high * ByteSize + a.low = cylinder + 1
      <4>1. CASE r.low + 1 < ByteSize
        <5>1. nextLow = r.low + 1 /\ nextLow # 0
          BY <1>2, <4>1, SmallMod
        <5>2. QED  BY <1>2, <2>2, <3>1, <5>1
      <4>2. CASE r.low + 1 = ByteSize
        <5>1. nextLow = 0
          BY <1>2, <4>2, SmallMod
        <5>2. ASSUME r.high + 1 = ByteSize PROVE FALSE
          <6>1. cylinder = ByteSize * ByteSize - 1
            <7>1. (r.high + 1) * ByteSize = r.high * ByteSize + ByteSize
              BY <1>2
            <7>2. r.high * ByteSize \in Nat /\ ByteSize * ByteSize \in Nat
              BY <1>2, ProductType
            <7>3. QED  BY <1>2, <4>2, <5>2, <7>1, <7>2
          <6>2. ByteSize * ByteSize \in Nat
            BY <1>2, ProductType
          <6> HIDE DEF cylinder
          <6>3. QED  BY <1>1, <1>2, <1>3, <6>1, <6>2 DEF Countable
        <5>3. (r.high + 1) % ByteSize = r.high + 1
          BY <1>2, <5>2, SmallMod
        <5>4. (r.high + 1) * ByteSize = r.high * ByteSize + ByteSize
          BY <1>2
        <5>5. r.high * ByteSize \in Nat
          BY <1>2, ProductType
        <5>6. QED  BY <1>2, <2>2, <3>1, <4>2, <5>1, <5>3, <5>4, <5>5
      <4>3. QED  BY <1>2, <4>1, <4>2
    <3>4. Chs(d, a) = IF cylinder + 1 < d.cylinders
                        THEN ((cylinder + 1) * d.heads + 0) * d.sectors + 1 - 1 ELSE -1
      <4>1. 0 < d.heads
        BY <1>1, <1>2
      <4> HIDE DEF cylinder
      <4>2. QED  BY <2>2, <2>4, <3>2, <3>3, <4>1 DEF Chs
    <3>5. cylinder + 1 < d.cylinders => Chs(d, a) = Chs(d, r) + 1
      <4> HIDE DEF cylinder
      <4> DEFINE h == r.head  hs == d.heads  ss == d.sectors
      <4>1. h \in Nat /\ hs \in Nat /\ ss \in Nat /\ h + 1 = hs
        BY <1>2, <2>6
      <4>2. ChsPlace(cylinder + 1, 0, 1, hs, ss) = ChsPlace(cylinder, h, ss, hs, ss) + 1
        <5> HIDE DEF h, hs, ss
        <5>1. QED  BY <1>3, <4>1, ChsCarriesOver
      <4>3. QED  BY <2>3, <3>4, <4>2, Zenon DEF ChsPlace
    <3>6. Chs(d, a) \in {Chs(d, r) + 1, -1}
      BY <3>4, <3>5, Zenon
    <3>7. QED  BY <1>5, <3>6 DEF a
  <2>7. r.head + 1 < d.heads \/ r.head + 1 = d.heads
    <3>1. r.head < d.heads
      BY <1>1, Zenon
    <3>2. r.head \in Nat /\ d.heads \in Nat
      BY <1>2
    <3>3. QED  BY <3>1, <3>2
  <2>8. QED  BY <2>5, <2>6, <2>7, Zenon
<1>8. QED  BY <1>1, <1>2, <1>6, <1>7

(* After a seek the registers hold the address of the next sector, or none  *)
(* of a sector of the drive (the carries of ide.c: seek).                   *)
LEMMA SeekAdvances ==
  ASSUME NEW d \in DriveRecord, Countable(d), NEW r \in RegRecord, Seekable(d, r),
         Capacity(d) < ByteSize * ByteSize * ByteSize, AfterSeek(d, r).count # 0
  PROVE  \/ Address(d, AfterSeek(d, r)) = Address(d, r) + 1
         \/ ~Seekable(d, AfterSeek(d, r))
<1> DEFINE count == (r.count - 1) % ByteSize
           a == IF r.lba THEN AdvanceLba(r) ELSE AdvanceChs(d, r)
           s == AfterSeek(d, r)
<1>1. Address(d, r) \in 0..Capacity(d) - 1 /\ Capacity(d) \in Nat
  BY CapacityType DEF Seekable, DriveRecord
<1>2. s = [IF count = 0 THEN r ELSE a EXCEPT !.count = count]
  BY Zenon DEF AfterSeek
<1>3. {"count", "sector", "low", "high", "head", "lba"} \subseteq DOMAIN a
  BY DEF AdvanceLba, AdvanceChs, RegRecord
<1>4. count # 0
  <2> HIDE DEF a, count
  <2>1. count = 0 => s = [r EXCEPT !.count = count]
    BY <1>2
  <2> HIDE DEF s
  <2>2. count = 0 => s.count = count
    BY <2>1 DEF RegRecord
  <2>3. QED  BY <2>2 DEF s
<1>5. s = [a EXCEPT !.count = count]
  BY <1>2, <1>4
<1> HIDE DEF s, count, a
<1>6. s.sector = a.sector /\ s.low = a.low /\ s.high = a.high /\ s.head = a.head /\ s.lba = a.lba
  BY <1>3, <1>5
<1>7. Lba(s) = Lba(a) /\ Chs(d, s) = Chs(d, a)
  BY <1>6, Zenon DEF Lba, Chs
<1>8. Address(d, s) = Address(d, a)
  BY <1>6, <1>7, Zenon DEF Address
<1>9. CASE r.lba
  <2>1. a = AdvanceLba(r)
    BY <1>9 DEF a
  <2>2. Address(d, r) = Lba(r)
    BY <1>9 DEF Address
  <2>3. ByteSize * ByteSize * ByteSize \in Nat
    BY ProductType, IdeSizeAssumption
  <2> DEFINE cube == ByteSize * ByteSize * ByteSize
  <2>4. Lba(r) + 1 < cube
    <3> HIDE DEF cube
    <3>1. Capacity(d) < cube
      BY DEF cube
    <3>2. cube \in Nat
      BY <2>3 DEF cube
    <3>3. QED  BY <1>1, <2>2, <3>1, <3>2
  <2>5. a.lba /\ Lba(a) = Lba(r) + 1
    BY <1>9, <2>1, <2>4, LbaAdvances, Zenon
  <2>6. Address(d, a) = Address(d, r) + 1
    BY <2>2, <2>5 DEF Address
  <2>7. QED  BY <1>8, <2>6 DEF s
<1>10. CASE ~r.lba
  <2>1. a = AdvanceChs(d, r)
    BY <1>10 DEF a
  <2>2. Address(d, r) = Chs(d, r) /\ Chs(d, r) # -1
    BY <1>1, <1>10 DEF Address
  <2>3. ~a.lba /\ Chs(d, a) \in {Chs(d, r) + 1, -1}
    BY <1>10, <2>1, <2>2, ChsAdvances, Zenon
  <2>4. Address(d, a) \in {Address(d, r) + 1, -1}
    BY <2>2, <2>3 DEF Address
  <2>5. Address(d, s) = -1 => ~Seekable(d, s)
    BY <1>1 DEF Seekable
  <2>6. QED  BY <1>8, <2>4, <2>5 DEF s
<1>11. QED  BY <1>9, <1>10

(* A step of the state of a drive that leaves its geometry alone leaves the *)
(* address of the registers alone.                                          *)
LEMMA SameAddress ==
  ASSUME NEW d, NEW e, NEW r, e.cylinders = d.cylinders, e.heads = d.heads,
         e.sectors = d.sectors
  PROVE  Address(e, r) = Address(d, r) /\ (Seekable(e, r) <=> Seekable(d, r))
<1>1. Chs(e, r) = Chs(d, r) /\ Capacity(e) = Capacity(d)
  BY Zenon DEF Chs, Capacity
<1>2. QED  BY <1>1, Zenon DEF Address, Seekable

----------------------------------------------------------------------------
(* The invariant of a long transfer.                                        *)

\* Whatever a command makes of the geometry, the registers can count it.
GeometryFits == \A u \in Units : Countable(drive[u])

\* While there are sectors to go the registers hold the address of the next.
NextInRegisters ==
  Transferring(selected) /\ reg.count # 0 =>
    Address(drv, reg) = sector_number + 1 \/ ~Seekable(drv, reg)

(* A geometry that fits is exchanged for one that fits.                     *)
LEMMA GeometryStep ==
  ASSUME AddressableImages, Inv, GeometryFits, Next, CarefulHost
  PROVE  GeometryFits'
<1>0. /\ drive \in [Units -> DriveRecord] /\ selected \in Units
      /\ drv = drive[selected] /\ drv \in DriveRecord /\ Countable(drv)
  BY DrvType DEF Inv, DriveType, RegistersType, drv, GeometryFits
<1>1. ASSUME NEW u \in Units, NEW e, Countable(e), drive' = [drive EXCEPT ![u] = e]
      PROVE  GeometryFits'
  BY <1>0, <1>1 DEF GeometryFits, Countable
<1>2. CASE UNCHANGED drive
  BY <1>2 DEF GeometryFits, Countable
<1>3. CASE Access
  <2>1. PICK d \in {drv, Cleared(drv)} : Served(d)
    BY <1>3, AccessShape
  <2>2. /\ d \in DriveRecord /\ Countable(d)
        /\ Cleared(drv) \in DriveRecord
    BY <1>0, DrvType DEF Countable
  <2>3. CASE Advances
    BY <1>2, <2>3 DEF Advances
  <2>4. ASSUME NEW error \in Errors, Refuses(d, error)
        PROVE  GeometryFits'
    <3>1. Countable(Fail(d, error))
      BY <2>2 DEF Fail, DriveRecord, Countable
    <3>2. drive' = [drive EXCEPT ![selected] = Fail(d, error)]
      BY <2>4, Zenon DEF Refuses
    <3>3. QED  BY <1>0, <1>1, <3>1, <3>2, Zenon
  <2>5. ASSUME NEW ph, Begins(d, ph)
        PROVE  GeometryFits'
    <3> DEFINE e == [d EXCEPT !.status = @ \union {"DRQ"}]
    <3>1. Countable(e)
      BY <2>2 DEF DriveRecord, Countable
    <3>2. drive' = [drive EXCEPT ![selected] = e]
      BY <2>5, Zenon DEF Begins, StartTransfer
    <3> HIDE DEF e
    <3>3. QED  BY <1>0, <1>1, <3>1, <3>2, Zenon
  <2>6. CASE Finishes
    <3> DEFINE e == [drv EXCEPT !.status = @ \ {"DRQ"}]
    <3>1. Countable(e)
      BY <1>0 DEF DriveRecord, Countable
    <3>2. drive' = [drive EXCEPT ![selected] = e]
      BY <1>0, <2>6 DEF Finishes
    <3> HIDE DEF e
    <3>3. QED  BY <1>0, <1>1, <3>1, <3>2, Zenon
  <2>7. CASE Reshapes
    <3>1. PICK cylinders, heads, sectors \in Nat :
            /\ heads <= HeadSize /\ cylinders <= MaxCylinders
            /\ drive' = [drive EXCEPT ![selected] =
                 [Cleared(drv) EXCEPT !.heads = heads, !.sectors = sectors,
                                      !.cylinders = cylinders, !.status = @ \ {"DRQ"}]]
      BY <2>7, Zenon DEF Reshapes
    <3> DEFINE e == [Cleared(drv) EXCEPT !.heads = heads, !.sectors = sectors,
                                         !.cylinders = cylinders, !.status = @ \ {"DRQ"}]
    <3>2. e.heads = heads /\ e.cylinders = cylinders
      BY <2>2 DEF DriveRecord
    <3>3. ByteSize * ByteSize \in Nat
      BY ProductType, IdeSizeAssumption
    <3>4. drive' = [drive EXCEPT ![selected] = e]
      BY <3>1, Zenon
    <3> HIDE DEF e
    <3>5. Countable(e)
      BY <3>1, <3>2, <3>3, IdeSizeAssumption DEF Countable
    <3>6. QED  BY <1>0, <1>1, <3>4, <3>5, Zenon
  <2>8. QED  BY <2>1, <2>3, <2>4, <2>5, <2>6, <2>7, Zenon DEF Served
<1>4. CASE Reset
  <2>1. ASSUME NEW u \in Units
        PROVE  Countable(drive[u])'
    <3>1. drive[u] \in DriveRecord /\ Countable(drive[u]) /\ drive'[u] = ResetDrive(drive[u])
      BY <1>0, <1>4 DEF Reset, GeometryFits
    <3>2. QED  BY <3>1 DEF ResetDrive, DriveRecord, Countable
  <2>2. QED  BY <2>1 DEF GeometryFits
<1>5. ASSUME NEW u \in Units, Eject(u)
      PROVE  GeometryFits'
  <2> DEFINE e == [drive[u] EXCEPT !.disk = NoDisk]
  <2>1. Countable(e)
    BY <1>0 DEF DriveRecord, Countable, GeometryFits
  <2>2. drive' = [drive EXCEPT ![u] = e]
    BY <1>0, <1>5 DEF Eject
  <2> HIDE DEF e
  <2>3. QED  BY <1>1, <2>1, <2>2, Zenon
<1>6. ASSUME NEW u \in Units, NEW image \in Images, Insert(u, image)
      PROVE  GeometryFits'
  <2> DEFINE g == Geometry[image]
             e == [drive[u] EXCEPT !.disk = image, !.half = g.half, !.cylinders = g.cylinders,
                                   !.heads = g.heads, !.sectors = g.sectors]
  <2>1. g.heads <= HeadSize /\ g.cylinders \in 0..ByteSize * ByteSize - 1
    BY IdeAssumption DEF AddressableImages
  <2>2. e.heads = g.heads /\ e.cylinders = g.cylinders
    BY <1>0 DEF DriveRecord
  <2>3. ByteSize * ByteSize \in Nat
    BY ProductType, IdeSizeAssumption
  <2>4. drive' = [drive EXCEPT ![u] = e]
    BY <1>0, <1>6 DEF Insert
  <2> HIDE DEF e, g
  <2>5. Countable(e)
    BY <2>1, <2>2, <2>3 DEF Countable
  <2>6. QED  BY <1>1, <2>4, <2>5, Zenon
<1>7. ASSUME NEW h \in HostHeads, WriteHead(h)
      PROVE  GeometryFits'
  BY <1>2, <1>7 DEF WriteHead
<1>8. QED
  BY <1>2, <1>3, <1>4, <1>5, <1>6, <1>7, OtherShape, Zenon

(* A seek that starts a transfer leaves the next address behind.            *)
LEMMA SeekLeavesNext ==
  ASSUME AddressableImages, Inv, GeometryFits, NEW d \in {drv, Cleared(drv)},
         drv.disk # NoDisk, NEW ph, Seek(d), StartTransfer(d, ph), selected' = selected
  PROVE  NextInRegisters'
<1>1. /\ drive \in [Units -> DriveRecord] /\ selected \in Units
      /\ drv = drive[selected] /\ Countable(drv) /\ reg \in RegRecord
  BY DEF Inv, DriveType, RegistersType, drv, GeometryFits
<1>2. d \in DriveRecord /\ Countable(d) /\ Capacity(d) = Capacity(drv)
  BY <1>1, DrvType DEF Countable
<1>3. Capacity(d) < ByteSize * ByteSize * ByteSize
  <2>1. drv.disk \in Images /\ Capacity(drv) <= Capacity(Geometry[drv.disk])
    BY <1>1 DEF Inv, DriveType, DriveRecord
  <2>2. Capacity(Geometry[drv.disk]) < ByteSize * ByteSize * ByteSize
    BY <2>1 DEF AddressableImages
  <2>3. Capacity(drv) \in Nat /\ Capacity(Geometry[drv.disk]) \in Nat
    BY <1>1, <2>1, IdeAssumption, IdeSizeAssumption, ProductType, CapacityType DEF DriveRecord
  <2>4. ByteSize * ByteSize * ByteSize \in Nat
    BY ProductType, IdeSizeAssumption
  <2> DEFINE cube == ByteSize * ByteSize * ByteSize
             image == Capacity(Geometry[drv.disk])
  <2>5. image < cube /\ cube \in Nat /\ image \in Nat /\ Capacity(drv) <= image
    BY <2>1, <2>2, <2>3, <2>4
  <2> HIDE DEF cube, image
  <2>6. Capacity(d) < cube
    BY <1>2, <2>3, <2>5
  <2>7. QED  BY <2>6 DEF cube
<1>4. /\ drv'.cylinders = d.cylinders /\ drv'.heads = d.heads /\ drv'.sectors = d.sectors
  BY <1>1, <1>2 DEF StartTransfer, drv, DriveRecord
<1>5. Seekable(d, reg) /\ sector_number' = Address(d, reg) /\ reg' = AfterSeek(d, reg)
  BY DEF Seek
<1>6. reg'.count # 0 => Address(d, reg') = sector_number' + 1 \/ ~Seekable(d, reg')
  BY <1>1, <1>2, <1>3, <1>5, SeekAdvances, Zenon
<1>7. Address(drv', reg') = Address(d, reg') /\ (Seekable(drv', reg') <=> Seekable(d, reg'))
  BY <1>4, SameAddress, Zenon
<1>8. QED  BY <1>6, <1>7, Zenon DEF NextInRegisters

(* A step that leaves no transfer behind.                                   *)
LEMMA NoTransfer ==
  ASSUME HandshakeSound', phase' = "READY" \/ ~(datacounter' < BlockSize)
  PROVE  NextInRegisters'
  BY DEF HandshakeSound, NextInRegisters

(* A step that leaves the transfer alone.                                   *)
LEMMA SameTransfer ==
  ASSUME NextInRegisters, drive'[selected] = drive[selected],
         UNCHANGED <<selected, reg, sector_number>>
  PROVE  NextInRegisters'
<1>1. drv' = drv
  BY DEF drv
<1>2. QED  BY <1>1 DEF NextInRegisters, Transferring

(* An access of the machine.                                                *)
LEMMA NextByAccess ==
  ASSUME AddressableImages, Inv, Inv', GeometryFits, NextInRegisters, Access, CarefulHost
  PROVE  NextInRegisters'
<1>0. /\ drv.disk # NoDisk /\ selected' = selected /\ selected \in Units
      /\ drive \in [Units -> DriveRecord] /\ drv = drive[selected] /\ drv \in DriveRecord
      /\ drv \in {drv, Cleared(drv)} /\ Cleared(drv) \in {drv, Cleared(drv)}
      /\ Cleared(drv) \in DriveRecord /\ HandshakeSound'
  BY AccessFrame, DrvType DEF Inv, DriveType, RegistersType, drv
<1>1. ASSUME NEW d \in DriveRecord, NEW error, NEW ph, NEW dc, FailTransfer(d, error, ph, dc)
      PROVE  NextInRegisters'
  <2>1. drive'[selected].status = d.status \union {"ERR"}
    BY <1>0, <1>1 DEF FailTransfer, Fail, DriveRecord
  <2>2. QED  BY <1>0, <2>1 DEF NextInRegisters, Transferring
<1>2. ASSUME NEW d \in {drv, Cleared(drv)}, NEW ph, NEW dc, ReadSector(d, ph, dc)
      PROVE  NextInRegisters'
  <2>1. d \in DriveRecord
    BY <1>0
  <2>2. \/ SeekFailure(d, ph, dc)
        \/ /\ Seek(d)
           /\ FailTransfer(d, ABRT_UNC, ph, dc) \/ StartTransfer(d, "PIO_IN")
    BY <1>2, Zenon DEF ReadSector
  <2>3. QED  BY <1>0, <1>1, <2>1, <2>2, SeekLeavesNext, Zenon DEF SeekFailure
<1>3. ASSUME NEW d \in {drv, Cleared(drv)}, NEW ph, NEW dc, WriteSector(d, ph, dc)
      PROVE  NextInRegisters'
  <2>1. d \in DriveRecord
    BY <1>0
  <2>2. SeekFailure(d, ph, dc) \/ (Seek(d) /\ StartTransfer(d, "PIO_OUT"))
    BY <1>3, Zenon DEF WriteSector
  <2>3. QED  BY <1>0, <1>1, <2>1, <2>2, SeekLeavesNext, Zenon DEF SeekFailure
<1>4. ASSUME NEW dc, EndTransfer(dc)
      PROVE  NextInRegisters'
  BY <1>0, <1>4, NoTransfer DEF EndTransfer
<1>5. CASE UNCHANGED <<drive, reg, sector_number>>
  BY <1>0, <1>5, SameTransfer
<1>6. CASE ReadData
  BY <1>0, <1>2, <1>4, <1>5, <1>6, Zenon DEF ReadData
<1>7. ASSUME NEW byte \in DataBytes, WriteData(byte)
      PROVE  NextInRegisters'
  BY <1>0, <1>3, <1>4, <1>5, <1>7, Zenon DEF WriteData
<1>8. CASE ReadSectorCommand
  BY <1>0, <1>2, <1>8, Zenon DEF ReadSectorCommand
<1>9. CASE WriteSectorCommand
  BY <1>0, <1>3, <1>9, Zenon DEF WriteSectorCommand
<1>10. CASE IdentifyDevice
  <2>1. reg'.count = 0
    BY <1>10 DEF IdentifyDevice, Inv, RegistersType, RegRecord
  <2>2. QED  BY <2>1 DEF NextInRegisters
<1>11. CASE InitDeviceParams
  BY <1>0, <1>11, NoTransfer DEF InitDeviceParams
<1>12. CASE UnknownCommand
  BY <1>0, <1>1, <1>12, Zenon DEF UnknownCommand
<1>13. QED
  BY <1>6, <1>7, <1>8, <1>9, <1>10, <1>11, <1>12, Zenon DEF Access

(* Every step.                                                              *)
LEMMA NextAddressStep ==
  ASSUME AddressableImages, Inv, Inv', GeometryFits, NextInRegisters, Next, CarefulHost
  PROVE  NextInRegisters'
<1>0. drive \in [Units -> DriveRecord] /\ selected \in Units /\ HandshakeSound /\ HandshakeSound'
  BY DEF Inv, DriveType, RegistersType
<1>1. CASE Access
  BY <1>1, NextByAccess
<1>2. ASSUME ~Transferring(selected), UNCHANGED <<phase, datacounter>>
      PROVE  NextInRegisters'
  <2>1. phase = "READY" \/ ~(datacounter < BlockSize)
    BY <1>0, <1>2 DEF HandshakeSound
  <2>2. QED  BY <1>0, <1>2, <2>1, NoTransfer
<1>3. CASE Reset
  BY <1>0, <1>3, NoTransfer DEF Reset
<1>4. ASSUME NEW u \in Units, UNCHANGED <<selected, reg, phase, datacounter, sector_number>>,
             ~Transferring(u), \A v \in Units \ {u} : drive'[v] = drive[v]
      PROVE  NextInRegisters'
  <2>1. CASE u = selected
    BY <1>2, <1>4, <2>1
  <2>2. CASE u # selected
    BY <1>0, <1>4, <2>2, SameTransfer
  <2>3. QED  BY <2>1, <2>2
<1>5. ASSUME NEW u \in Units, Eject(u)
      PROVE  NextInRegisters'
  <2>1. /\ UNCHANGED <<selected, reg, phase, datacounter, sector_number>> /\ ~Transferring(u)
        /\ \A v \in Units \ {u} : drive'[v] = drive[v]
    BY <1>0, <1>5 DEF Eject, Careful, transferVars
  <2>2. QED  BY <1>4, <2>1, Zenon
<1>6. ASSUME NEW u \in Units, NEW image \in Images, Insert(u, image)
      PROVE  NextInRegisters'
  <2>1. /\ UNCHANGED <<selected, reg, phase, datacounter, sector_number>> /\ ~Transferring(u)
        /\ \A v \in Units \ {u} : drive'[v] = drive[v]
    BY <1>0, <1>6 DEF Insert, Careful, transferVars
  <2>2. QED  BY <1>4, <2>1, Zenon
<1>7. ASSUME NEW u \in Units, Commit(u)
      PROVE  NextInRegisters'
  BY <1>7, SameTransfer DEF Commit, transferVars
<1>8. ASSUME NEW r \in Registers, NEW value \in HostRegs[r], WriteRegister(r, value)
      PROVE  NextInRegisters'
  BY <1>2, <1>8 DEF WriteRegister, Careful, transferVars
<1>9. ASSUME NEW h \in HostHeads, WriteHead(h)
      PROVE  NextInRegisters'
  BY <1>2, <1>9 DEF WriteHead, Careful, transferVars
<1>10. ASSUME NEW byte \in DataBytes, WriteData2(byte)
      PROVE  NextInRegisters'
  BY <1>10, SameTransfer DEF WriteData2, transferVars
<1>11. QED
  BY <1>1, <1>3, <1>5, <1>6, <1>7, <1>8, <1>9, <1>10, Zenon DEF Next, Machine, Emulator, Access

(* A transfer of several sectors goes through consecutive sectors, in both  *)
(* address schemes and through every carry between the registers: for each  *)
(* access of the data register that begins another sector (ide.c: seek in   *)
(* read_data and write_data).  The registers must be able to count the      *)
(* heads and the sectors of the images; the run ide_lba is about one with   *)
(* more.                                                                    *)
THEOREM SectorsInOrder ==
  ASSUME CarefulHost, AddressableImages
  PROVE  Spec => ConsecutiveSectors
<1> DEFINE Step == (ReadData \/ \E byte \in DataBytes : WriteData(byte)) /\ reg'.count # reg.count
                     => sector_number' = sector_number + 1
<1>1. Init => GeometryFits /\ NextInRegisters
  <2> SUFFICES ASSUME Init PROVE GeometryFits /\ NextInRegisters
    OBVIOUS
  <2>1. ByteSize * ByteSize > 0
    BY IdeSizeAssumption, ProductType
  <2>2. \A u \in Units : drive[u].heads = 0 /\ drive[u].cylinders = 0 /\ drive[u].disk = NoDisk
    BY DEF Init, EmptyDrive
  <2>3. selected \in Units
    BY DEF Init, Units
  <2>4. QED
    BY <2>1, <2>2, <2>3, IdeSizeAssumption DEF GeometryFits, Countable,
        NextInRegisters, Transferring
<1>2. Inv /\ Inv' /\ GeometryFits /\ NextInRegisters /\ [Next]_vars
        => GeometryFits' /\ NextInRegisters'
  <2> SUFFICES ASSUME Inv, Inv', GeometryFits, NextInRegisters, [Next]_vars
               PROVE  GeometryFits' /\ NextInRegisters'
    OBVIOUS
  <2>1. CASE Next
    BY <2>1, GeometryStep, NextAddressStep
  <2>2. CASE UNCHANGED vars
    BY <2>2, SameTransfer DEF vars, GeometryFits, Countable
  <2>3. QED  BY <2>1, <2>2
<1>3. Inv /\ NextInRegisters => Step
  <2> SUFFICES ASSUME Inv, NextInRegisters,
                      ReadData \/ \E byte \in DataBytes : WriteData(byte),
                      reg'.count # reg.count
               PROVE  sector_number' = sector_number + 1
    OBVIOUS
  <2>1. Transferring(selected)
    BY DEF ReadData, WriteData, Careful
  <2>2. reg.count # 0 /\ Seek(drv)
    BY Zenon DEF ReadData, WriteData, ReadSector, WriteSector, SeekFailure, EndTransfer
  <2>3. QED  BY <2>1, <2>2, Zenon DEF NextInRegisters, Seek
<1>4. Inv /\ NextInRegisters /\ [Next]_vars => [Step]_vars
  BY <1>3, Zenon
<1>5. QED
  BY <1>1, <1>2, <1>4, Invariance, PTL DEF Spec, ConsecutiveSectors

=============================================================================
