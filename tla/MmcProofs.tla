----------------------------- MODULE MmcProofs -----------------------------
(***************************************************************************)
(* The MMC card keeps its types and its safety invariants, for every block  *)
(* size, set of images, commands and arguments, and is a block device.      *)
(*                                                                         *)
(* The invariants need one another: a range to erase lies on the card       *)
(* because a sequence is never pending on an idle card or between APP_CMD   *)
(* and the command after it; the dirty sectors lie on the card because the  *)
(* range to erase does.                                                     *)
(***************************************************************************)
EXTENDS Mmc, HdfDriveProofs, SequenceTheorems

Inv ==
  /\ TypeOK
  /\ DataPhaseIsWrite
  /\ ReadyMeansInitialised
  /\ EraseRangeOnCard
  /\ DirtySectorsOnCard

(* The four argument bytes form a natural number.                           *)
LEMMA ArgumentType ==
  ASSUME current_argument \in [1..4 -> Byte]
  PROVE  Argument \in Nat
<1>1. \A i \in 1..4 : current_argument[i] \in Nat
  BY DEF Byte
<1>2. /\ current_argument[1] \in Nat /\ current_argument[2] \in Nat
      /\ current_argument[3] \in Nat /\ current_argument[4] \in Nat
  BY <1>1
<1>3. QED  BY <1>2 DEF Argument

(* The R1 status is one byte.                                               *)
LEMMA R1ByteType ==
  ASSUME NEW status
  PROVE  R1Byte(status) \in Byte
  BY DEF R1Byte, Bit, Byte

(* The response that carries a sector.                                      *)
LEMMA BlockResponseType ==
  ASSUME NEW status, NEW block \in Block
  PROVE  <<R1Byte(status), Token>> \o BytesOf(block) \o <<0, 0>> \in Seq(Byte)
<1>1. R1Byte(status) \in Byte /\ Token \in Byte /\ 0 \in Byte
  BY R1ByteType DEF Token, Byte
<1>2. BytesOf(block) \in Seq(Byte)
  <2>1. \A i \in 1..BlockSize : block[i - 1] \in Byte
    BY BlockSizeAssumption DEF Block
  <2>2. QED  BY <2>1, BlockSizeAssumption DEF BytesOf
<1>3. <<R1Byte(status), Token>> \in Seq(Byte) /\ <<0, 0>> \in Seq(Byte)
  BY <1>1
<1>4. QED  BY <1>2, <1>3

----------------------------------------------------------------------------
(* A freshly allocated card satisfies the invariant.                        *)
LEMMA InitInv == Init => Inv
<1> SUFFICES ASSUME Init PROVE Inv
  OBVIOUS
<1>1. DriveTypeOK
  <2>1. files = InitialFiles
    BY Zenon DEF Init
  <2>2. DOMAIN files = Images /\ \A i \in Images : IsFile(Geometry[i], files[i])
    BY <2>1, FilesAssumption, Zenon
  <2>3. total_sectors \in Nat
    BY Zenon DEF Init
  <2>4. QED  BY <2>2, <2>3, Zenon DEF Init, DriveTypeOK
<1>2. InputTypeOK
  BY ZeroBlockType, BlockSizeAssumption DEF Init, InputTypeOK, Byte
<1>3. ProtocolTypeOK
  BY DEF Init, ProtocolTypeOK, R1Flags, CommandStates, IN_IDLE_STATE
<1>4. response \in Seq(Byte)
  BY DEF Init
<1>5. DataPhaseIsWrite
  BY DEF Init, DataPhaseIsWrite
<1>6. ReadyMeansInitialised
  BY DEF Init, ReadyMeansInitialised, Idle
<1>7. EraseRangeOnCard
  BY DEF Init, EraseRangeOnCard, Idle
<1>8. DirtySectorsOnCard
  BY DEF Init, DirtySectorsOnCard, NoCache
<1>9. QED
  BY <1>1, <1>2, <1>3, <1>4, <1>5, <1>6, <1>7, <1>8 DEF Inv, TypeOK

----------------------------------------------------------------------------
(* Which steps touch which part of the state.                               *)

(* Of the commands only ERASE writes to the cache.                          *)
LEMMA ExecuteFrame ==
  ASSUME Execute
  PROVE  /\ \E status : ExecuteTail(status)
         /\ UNCHANGED <<cache, send_buffer>> \/ Erase
  BY Zenon DEF Execute, SdSendOpCond, UnknownAcmd, GoIdleState, SendIfCond, SendCsd,
       SendCid, ReadSingleBlock, WriteBlock, AppCmd, ReadOcr, UnknownCommand,
       EraseWrBlkStart, EraseWrBlkEnd, Erase

(* Five actions touch the drive or its cache.                               *)
LEMMA DriveFrame ==
  ASSUME Next
  PROVE  \/ UNCHANGED <<driveVars, cache>>
         \/ Eject \/ (\E image \in Images : Insert(image)) \/ Commit
         \/ Erase \/ ReceiveDataCrc2
<1>1. CASE Execute
  BY <1>1, ExecuteFrame, Zenon DEF ExecuteTail
<1>2. CASE Reset
  BY <1>2, Zenon DEF Reset
<1>3. CASE ReadResponse
  BY <1>3, Zenon DEF ReadResponse
<1>4. CASE \E index \in CommandBytes : ReceiveCommand(index)
  BY <1>4, Zenon DEF ReceiveCommand
<1>5. CASE \E i \in 1..4 : \E byte \in ArgBytes[i] : ReceiveArgument(i, byte)
  BY <1>5, Zenon DEF ReceiveArgument
<1>6. CASE ReceiveToken
  BY <1>6, Zenon DEF ReceiveToken
<1>7. CASE \E byte \in DataBytes : ReceiveData(byte)
  BY <1>7, Zenon DEF ReceiveData
<1>8. CASE ReceiveDataCrc1
  BY <1>8, Zenon DEF ReceiveDataCrc1
<1>9. QED
  BY <1>1, <1>2, <1>3, <1>4, <1>5, <1>6, <1>7, <1>8, Zenon DEF Next

(* The geometry says whether the image holds half sectors, and where they   *)
(* start.                                                                   *)
LEMMA HalfType ==
  ASSUME disk \in Images
  PROVE  Half \in BOOLEAN /\ Half = Geometry[disk].half
  BY GeometryAssumption DEF Half

LEMMA LayoutType ==
  ASSUME NEW i \in Images
  PROVE  HasLayout(Geometry[i]) /\ Geometry[i].total \in Nat
  BY GeometryAssumption DEF HasLayout

(* The drive keeps its types, and every dirty sector lies on the card.      *)
LEMMA DriveStep ==
  ASSUME Inv, Next
  PROVE  DriveTypeOK' /\ DirtySectorsOnCard'
<1>0. /\ DriveTypeOK /\ InputTypeOK /\ ProtocolTypeOK
      /\ DataPhaseIsWrite /\ EraseRangeOnCard /\ DirtySectorsOnCard
  BY DEF Inv, TypeOK
<1>1. CASE UNCHANGED <<driveVars, cache>>
  BY <1>0, <1>1 DEF driveVars, DriveTypeOK, DirtySectorsOnCard, Half
<1>2. CASE Eject
  BY <1>0, <1>2 DEF Eject, DriveTypeOK, DirtySectorsOnCard, NoCache
<1>3. ASSUME NEW image \in Images, Insert(image)
      PROVE  DriveTypeOK' /\ DirtySectorsOnCard'
  <2>1. Geometry[image].half \in BOOLEAN /\ Geometry[image].total \in Nat
    BY GeometryAssumption
  <2>2. disk' = image /\ disk' # NoDisk /\ Half' \in BOOLEAN
    BY <1>3, <2>1, GeometryAssumption DEF Insert, Half
  <2>3. IsCache(Half', cache') /\ DOMAIN cache' = {}
    BY <1>3, <2>2, NoCacheIsCache DEF Insert
  <2>4. c_size' \in 0..CSizeLimit
    <3> DEFINE g == Geometry[image]
    <3>1. c_size' = IF SizeSupported(g) THEN CSizeOf(g.total) ELSE c_size
      BY <1>3, Zenon DEF Insert
    <3>2. SizeSupported(g) => CSizeOf(g.total) \in 0..CSizeLimit - 1
      BY Zenon DEF SizeSupported
    <3>3. c_size \in 0..CSizeLimit
      BY <1>0, Zenon DEF DriveTypeOK
    <3>4. CSizeLimit \in Nat
      BY SizeAssumption
    <3> HIDE DEF g
    <3>5. QED  BY <3>1, <3>2, <3>3, <3>4
  <2>5. files' = files /\ total_sectors' \in Nat
    BY <1>3, <2>1 DEF Insert
  <2>6. QED  BY <1>0, <1>3, <2>2, <2>3, <2>4, <2>5 DEF DriveTypeOK, DirtySectorsOnCard
<1>4. CASE Commit
  <2> DEFINE g == Geometry[disk]
  <2>1. disk \in Images /\ HasLayout(g) /\ Half = g.half
    BY <1>0, <1>4, HalfType, LayoutType DEF Commit, DriveTypeOK
  <2>2. PICK s \in DOMAIN cache, n \in 1..SectorSize(Half) :
          /\ files' = [files EXCEPT ![disk] = WriteToFile(g, files[disk], s, cache[s], n)]
          /\ cache' = KeepInCache(Half, cache, s, n)
    BY <1>4, Zenon DEF Commit
  <2>3. /\ UNCHANGED <<disk, total_sectors, c_size>>
        /\ Half' = Half
    BY <1>4 DEF Commit, Half
  <2> DEFINE written == WriteToFile(g, files[disk], s, cache[s], n)
  <2>4. IsFile(g, files[disk]) /\ IsCache(g.half, cache)
    BY <1>0, <2>1, GeometryAssumption DEF DriveTypeOK
  <2>5. /\ IsFile(g, written)
        /\ IsCache(Half, cache') /\ DOMAIN cache' \subseteq DOMAIN cache
    <3>1. n \in 1..SectorSize(g.half)
      BY <2>1, Zenon
    <3>2. /\ IsFile(g, written)
          /\ IsCache(g.half, KeepInCache(g.half, cache, s, n))
          /\ DOMAIN KeepInCache(g.half, cache, s, n) \subseteq DOMAIN cache
      <4> HIDE DEF g
      <4>1. QED  BY <2>1, <2>4, <3>1, CommitType
    <3>3. QED  BY <2>1, <2>2, <3>2, Zenon
  <2>6. \A i \in Images : IsFile(Geometry[i], files'[i])
    <3>1. \A i \in Images : files'[i] = IF i = disk THEN written ELSE files[i]
      BY <1>0, <2>1, <2>2 DEF DriveTypeOK
    <3>2. \A i \in Images : IsFile(Geometry[i], files[i])
      BY <1>0 DEF DriveTypeOK
    <3> HIDE DEF written
    <3>3. QED  BY <2>5, <3>1, <3>2, Zenon
  <2>7. DOMAIN files' = Images
    BY <1>0, <2>2 DEF DriveTypeOK
  <2>8. DriveTypeOK'
    BY <1>0, <2>3, <2>5, <2>6, <2>7 DEF DriveTypeOK
  <2>9. DirtySectorsOnCard'
    BY <1>0, <1>4, <2>3, <2>5 DEF DirtySectorsOnCard, Commit
  <2>10. QED  BY <2>8, <2>9
<1>5. CASE Erase
  <2>1. PICK status : ExecuteTail(status)
    BY <1>5, Zenon DEF Erase
  <2>2. UNCHANGED driveVars /\ disk \in Images /\ disk # NoDisk
    BY <1>0, <2>1 DEF ExecuteTail, Receive, DriveTypeOK
  <2>3. UNCHANGED <<disk, files, total_sectors, c_size>> /\ Half' = Half
    BY <2>2 DEF driveVars, Half
  <2>4. CASE cache' = cache
    BY <1>0, <2>2, <2>3, <2>4 DEF DriveTypeOK, DirtySectorsOnCard
  <2>5. CASE /\ erase_sequence = "WR_BLK_END"
             /\ cache' = WriteSectors(Half, cache, erase_block_start..erase_block_end, ZeroBlock)
    <3>1. /\ erase_block_start \in Nat /\ erase_block_end \in Nat
          /\ erase_block_end < total_sectors /\ total_sectors \in Nat
      BY <1>0, <2>5 DEF EraseRangeOnCard, ProtocolTypeOK, DriveTypeOK
    <3>2. /\ erase_block_start..erase_block_end \subseteq Nat
          /\ erase_block_start..erase_block_end \subseteq 0..total_sectors - 1
      BY <3>1
    <3>3. Half \in BOOLEAN /\ IsCache(Half, cache)
      BY <1>0, <2>2, HalfType DEF DriveTypeOK
    <3>4. /\ IsCache(Half, cache')
          /\ DOMAIN cache' = DOMAIN cache \union erase_block_start..erase_block_end
      <4> DEFINE S == erase_block_start..erase_block_end
      <4>1. S \in SUBSET Nat
        BY <3>2
      <4>2. /\ IsCache(Half, WriteSectors(Half, cache, S, ZeroBlock))
            /\ DOMAIN WriteSectors(Half, cache, S, ZeroBlock) = DOMAIN cache \union S
        <5> HIDE DEF S
        <5>1. QED  BY <3>3, <4>1, WriteSectorsType, ZeroBlockType
      <4>3. QED  BY <2>5, <4>2, Zenon
    <3>5. DriveTypeOK'
      BY <1>0, <2>3, <3>4 DEF DriveTypeOK
    <3>6. DirtySectorsOnCard'
      BY <1>0, <2>2, <2>3, <3>2, <3>4 DEF DirtySectorsOnCard
    <3>7. QED  BY <3>5, <3>6
  <2>6. QED  BY <1>5, <2>4, <2>5, Zenon DEF Erase
<1>6. CASE ReceiveDataCrc2
  <2>1. UNCHANGED driveVars /\ disk \in Images /\ disk # NoDisk
    BY <1>0, <1>6 DEF ReceiveDataCrc2, Receive, DriveTypeOK
  <2>2. UNCHANGED <<disk, files, total_sectors, c_size>> /\ Half' = Half
    BY <2>1 DEF driveVars, Half
  <2>3. CASE cache' = cache
    BY <1>0, <2>1, <2>2, <2>3 DEF DriveTypeOK, DirtySectorsOnCard
  <2>4. CASE /\ ~(Argument >= total_sectors)
             /\ cache' = WriteSectors(Half, cache, {Argument}, send_buffer)
    <3>1. Argument \in Nat /\ total_sectors \in Nat /\ send_buffer \in Block
      BY <1>0, ArgumentType DEF InputTypeOK, DriveTypeOK
    <3>2. {Argument} \subseteq Nat /\ {Argument} \subseteq 0..total_sectors - 1
      BY <2>4, <3>1
    <3>3. Half \in BOOLEAN /\ IsCache(Half, cache)
      BY <1>0, <2>1, HalfType DEF DriveTypeOK
    <3>4. IsCache(Half, cache') /\ DOMAIN cache' = DOMAIN cache \union {Argument}
      <4>1. /\ IsCache(Half, WriteSectors(Half, cache, {Argument}, send_buffer))
            /\ DOMAIN WriteSectors(Half, cache, {Argument}, send_buffer)
                 = DOMAIN cache \union {Argument}
        <5> DEFINE half == Half  c == cache  S == {Argument}  block == send_buffer
        <5>1. half \in BOOLEAN /\ IsCache(half, c) /\ S \in SUBSET Nat /\ block \in Block
          BY <3>1, <3>2, <3>3, Zenon
        <5> HIDE DEF half, c, S, block
        <5>2. /\ IsCache(half, WriteSectors(half, c, S, block))
              /\ DOMAIN WriteSectors(half, c, S, block) = DOMAIN c \union S
          BY <5>1, WriteSectorsType
        <5>3. QED  BY <5>2, Zenon DEF half, c, S, block
      <4>2. QED  BY <2>4, <4>1, Zenon
    <3>5. DriveTypeOK'
      BY <1>0, <2>2, <3>4 DEF DriveTypeOK
    <3>6. DirtySectorsOnCard'
      BY <1>0, <2>1, <2>2, <3>2, <3>4 DEF DirtySectorsOnCard
    <3>7. QED  BY <3>5, <3>6
  <2>5. QED  BY <1>6, <2>3, <2>4, Zenon DEF ReceiveDataCrc2, WriteSingleBlock
<1>7. QED
  BY <1>1, <1>2, <1>3, <1>4, <1>5, <1>6, DriveFrame, Zenon

----------------------------------------------------------------------------
(* The command, its argument and its data keep their types: a data byte is  *)
(* stored inside send_buffer.                                               *)
LEMMA InputStep ==
  ASSUME Inv, Next
  PROVE  InputTypeOK'
<1>0. /\ DriveTypeOK /\ InputTypeOK /\ ProtocolTypeOK
      /\ DataPhaseIsWrite /\ EraseRangeOnCard /\ DirtySectorsOnCard
  BY DEF Inv, TypeOK
<1>1. CASE UNCHANGED inputVars
  BY <1>0, <1>1 DEF inputVars, InputTypeOK
<1>2. ASSUME NEW index \in CommandBytes, ReceiveCommand(index)
      PROVE  InputTypeOK'
  <2>1. index \in 0..63
    BY InputAssumption, Zenon
  <2>2. QED  BY <1>0, <1>2, <2>1, Zenon DEF ReceiveCommand, InputTypeOK
<1>3. ASSUME NEW i \in 1..4, NEW byte \in ArgBytes[i], ReceiveArgument(i, byte)
      PROVE  InputTypeOK'
  <2>1. byte \in Byte
    BY InputAssumption, Zenon
  <2>2. current_argument' \in [1..4 -> Byte]
    BY <1>0, <1>3, <2>1 DEF ReceiveArgument, InputTypeOK
  <2>3. QED  BY <1>0, <1>3, <2>2, Zenon DEF ReceiveArgument, InputTypeOK
<1>4. CASE Execute
  <2>1. UNCHANGED <<current_command, current_argument, data_count>>
    BY <1>4, ExecuteFrame, Zenon DEF ExecuteTail
  <2>2. send_buffer' \in Block
    <3>1. CASE UNCHANGED <<cache, send_buffer>>
      BY <1>0, <3>1, Zenon DEF InputTypeOK
    <3>2. CASE Erase
      BY <1>0, <3>2, ZeroBlockType, Zenon DEF InputTypeOK, Erase
    <3>3. QED  BY <1>4, <3>1, <3>2, ExecuteFrame, Zenon
  <2>3. QED  BY <1>0, <2>1, <2>2, Zenon DEF InputTypeOK
<1>5. CASE ReceiveToken
  <2>1. data_count' \in 0..BlockSize
    BY <1>5, BlockSizeAssumption DEF ReceiveToken
  <2>2. QED  BY <1>0, <1>5, <2>1, Zenon DEF ReceiveToken, InputTypeOK
<1>6. ASSUME NEW byte \in DataBytes, ReceiveData(byte)
      PROVE  InputTypeOK'
  <2>1. byte \in Byte
    BY InputAssumption, Zenon
  <2>2. data_count \in 0..BlockSize - 1
    BY <1>0, <1>6, BlockSizeAssumption DEF ReceiveData, Receive, DataPhaseIsWrite, InputTypeOK
  <2>3. send_buffer' \in Block
    BY <1>0, <1>6, <2>1, <2>2 DEF ReceiveData, InputTypeOK, Block
  <2>4. data_count' \in 0..BlockSize
    BY <1>6, <2>2, BlockSizeAssumption DEF ReceiveData
  <2>5. QED  BY <1>0, <1>6, <2>3, <2>4, Zenon DEF ReceiveData, InputTypeOK
<1>7. QED
  BY <1>1, <1>2, <1>3, <1>4, <1>5, <1>6, Zenon
     DEF Next, Reset, Eject, Insert, Commit, ReadResponse, ReceiveDataCrc1, ReceiveDataCrc2

----------------------------------------------------------------------------
(* A standard command that is not an erase command leaves no erase sequence *)
(* pending.                                                                 *)
LEMMA StandardEndsErase ==
  ASSUME Inv, NEW index, Standard(index), index \notin EraseCommands
  PROVE  erase_sequence' = "NONE" /\ erase_block_start' = 0 /\ erase_block_end' = 0
<1>1. CASE OutOfSequence
  BY <1>1, Zenon DEF Standard, NoErase
<1>2. CASE ~OutOfSequence
  <2>1. erase_sequence = "NONE"
    BY <1>2, Zenon DEF Standard, OutOfSequence
  <2>2. erase_block_start = 0 /\ erase_block_end = 0
    BY <2>1, Zenon DEF Inv, EraseRangeOnCard
  <2>3. UNCHANGED eraseVars
    BY <1>2, Zenon DEF Standard
  <2>4. QED  BY <2>1, <2>2, <2>3 DEF eraseVars
<1>3. QED  BY <1>1, <1>2

(* What any command leaves behind: a status without errors, and the data    *)
(* phase only for WRITE_BLOCK.                                              *)
LEMMA ExecuteTailStep ==
  ASSUME Inv, NEW status, ExecuteTail(status)
  PROVE  /\ r1_status' \subseteq R1Flags
         /\ Idle(r1_status') <=> Idle(status)
         /\ command_state' \in CommandStates
         /\ DataPhaseIsWrite'
         /\ disk' = disk /\ disk # NoDisk
         /\ total_sectors' = total_sectors
<1>1. r1_status' = status \intersect {IN_IDLE_STATE}
  BY Zenon DEF ExecuteTail
<1>2. /\ command_state' = IF current_command = WRITE_BLOCK
                            THEN "WAITING_FOR_DATA_TOKEN" ELSE "WAITING_FOR_COMMAND"
      /\ disk # NoDisk
  BY Zenon DEF ExecuteTail, Receive
<1>3. current_command' = current_command
  BY Zenon DEF ExecuteTail
<1>4. disk' = disk /\ total_sectors' = total_sectors
  BY DEF ExecuteTail, driveVars
<1>5. command_state' \in CommandStates
  BY <1>2 DEF CommandStates
<1>6. DataPhaseIsWrite'
  BY <1>2, <1>3 DEF DataPhaseIsWrite
<1>7. QED  BY <1>1, <1>2, <1>4, <1>5, <1>6, Zenon DEF Idle, R1Flags

(* The idle bit survives the masking of the status.                         *)
LEMMA StatusIdle == Idle(Status) <=> Idle(r1_status)
  BY DEF Status, Idle, IN_IDLE_STATE, ERASE_RESET

(* The protocol part of the invariant.                                      *)
Protocol == ProtocolTypeOK /\ DataPhaseIsWrite /\ ReadyMeansInitialised /\ EraseRangeOnCard

(* A command that neither touches the idle state nor is an erase command    *)
(* keeps the protocol invariants.                                           *)
LEMMA PlainCommandStep ==
  ASSUME Inv, NEW index, Standard(index), index \notin EraseCommands,
         NEW status, ExecuteTail(status),
         \/ Idle(status)
         \/ ~Idle(r1_status) /\ (cmd8_issued' = cmd8_issued \/ cmd8_issued'),
         cmd8_issued' \in BOOLEAN
  PROVE  Protocol'
<1>1. erase_sequence' = "NONE" /\ erase_block_start' = 0 /\ erase_block_end' = 0
  BY StandardEndsErase
<1>2. cmd55_issued' \in BOOLEAN
  BY DEF Standard
<1>3. ReadyMeansInitialised'
  <2>1. ~Idle(r1_status) => cmd8_issued /\ disk # NoDisk
    BY DEF Inv, ReadyMeansInitialised
  <2>2. /\ Idle(r1_status') <=> Idle(status)
        /\ disk' = disk
    BY ExecuteTailStep
  <2>3. QED  BY <2>1, <2>2 DEF ReadyMeansInitialised, Idle
<1>4. EraseRangeOnCard'
  BY <1>1 DEF EraseRangeOnCard
<1>5. ProtocolTypeOK'
  BY <1>1, <1>2, ExecuteTailStep DEF ProtocolTypeOK
<1>6. QED  BY <1>3, <1>4, <1>5, ExecuteTailStep DEF Protocol

(* An erase command keeps the status and CMD8; it is enough to look at what *)
(* becomes of the sequence.                                                 *)
LEMMA EraseCommandStep ==
  ASSUME Inv, NEW index, Standard(index), index \in EraseCommands,
         ExecuteTail(r1_status), UNCHANGED cmd8_issued,
         erase_sequence' \in {"NONE", "WR_BLK_START", "WR_BLK_END"},
         erase_block_start' \in Nat, erase_block_end' \in Nat,
         erase_sequence' = "WR_BLK_START" => erase_block_start' < total_sectors,
         erase_sequence' = "WR_BLK_END" =>
           erase_block_start' <= erase_block_end' /\ erase_block_end' < total_sectors,
         erase_sequence' = "NONE" => erase_block_start' = 0 /\ erase_block_end' = 0,
         erase_sequence' # "NONE" => ~Idle(r1_status)
  PROVE  Protocol'
<1>1. cmd55_issued' = FALSE
  <2>1. index # APP_CMD
    BY DEF EraseCommands, ERASE_WR_BLK_START, ERASE_WR_BLK_END, ERASE, APP_CMD
  <2>2. cmd55_issued' = (index = APP_CMD)
    BY DEF Standard
  <2>3. QED  BY <2>1, <2>2, Zenon
<1>2. /\ Idle(r1_status') <=> Idle(r1_status)
      /\ disk' = disk /\ total_sectors' = total_sectors
  BY ExecuteTailStep
<1>3. ReadyMeansInitialised'
  BY <1>2 DEF Inv, ReadyMeansInitialised, Idle
<1>4. EraseRangeOnCard'
  BY <1>1, <1>2 DEF EraseRangeOnCard, Idle
<1>5. ProtocolTypeOK'
  BY <1>1, ExecuteTailStep DEF Inv, TypeOK, ProtocolTypeOK
<1>6. QED  BY <1>3, <1>4, <1>5, ExecuteTailStep DEF Protocol

(* Every command keeps the protocol invariants.                             *)
LEMMA ExecuteStep ==
  ASSUME Inv, Execute
  PROVE  Protocol'
<1>0. /\ ProtocolTypeOK /\ EraseRangeOnCard /\ ReadyMeansInitialised
      /\ current_argument \in [1..4 -> Byte] /\ total_sectors \in Nat
  BY DEF Inv, TypeOK, InputTypeOK, DriveTypeOK
<1>a. Argument \in Nat
  BY <1>0, ArgumentType
<1>b. cmd8_issued \in BOOLEAN /\ (~Idle(Status) => ~Idle(r1_status))
  BY <1>0, StatusIdle DEF ProtocolTypeOK
<1>c. /\ GO_IDLE_STATE \notin EraseCommands /\ SEND_IF_COND \notin EraseCommands
      /\ SEND_CSD \notin EraseCommands /\ SEND_CID \notin EraseCommands
      /\ READ_SINGLE_BLOCK \notin EraseCommands /\ WRITE_BLOCK \notin EraseCommands
      /\ APP_CMD \notin EraseCommands /\ READ_OCR \notin EraseCommands
      /\ \A index \in CommandBytes \ Supported : index \notin EraseCommands
      /\ EraseCommands = {ERASE_WR_BLK_START, ERASE_WR_BLK_END, ERASE}
  BY DEF EraseCommands, Supported, ERASE_WR_BLK_START, ERASE_WR_BLK_END, ERASE,
     GO_IDLE_STATE, SEND_IF_COND, SEND_CSD, SEND_CID, READ_SINGLE_BLOCK, WRITE_BLOCK,
     APP_CMD, READ_OCR
<1>1. ASSUME IsAcmd, NEW status, ExecuteTail(status), status \subseteq r1_status,
             Idle(r1_status) /\ ~Idle(status) => cmd8_issued,
             cmd55_issued' = FALSE, UNCHANGED <<cmd8_issued, eraseVars>>
      PROVE  Protocol'
  <2>1. erase_sequence = "NONE" /\ erase_block_start = 0 /\ erase_block_end = 0
    BY <1>0, <1>1 DEF IsAcmd, EraseRangeOnCard
  <2>2. erase_sequence' = "NONE" /\ erase_block_start' = 0 /\ erase_block_end' = 0
    BY <1>1, <2>1 DEF eraseVars
  <2>3. (Idle(r1_status') <=> Idle(status)) /\ disk' = disk /\ disk # NoDisk
    BY <1>1, ExecuteTailStep
  <2>4. ReadyMeansInitialised'
    BY <1>0, <1>1, <2>3 DEF ReadyMeansInitialised, Idle
  <2>5. EraseRangeOnCard'
    BY <2>2 DEF EraseRangeOnCard
  <2>6. ProtocolTypeOK'
    BY <1>0, <1>1, <2>2, ExecuteTailStep DEF ProtocolTypeOK
  <2>7. QED  BY <1>1, <2>4, <2>5, <2>6, ExecuteTailStep DEF Protocol
<1>2. CASE SdSendOpCond
  <2>1. CASE LeavesIdle
    BY <1>1, <1>2, <2>1, Zenon DEF SdSendOpCond, LeavesIdle
  <2>2. CASE ~LeavesIdle
    BY <1>1, <1>2, <2>2, Zenon DEF SdSendOpCond
  <2>3. QED  BY <2>1, <2>2
<1>3. CASE UnknownAcmd
  BY <1>1, <1>3, Zenon DEF UnknownAcmd
<1>4. CASE GoIdleState
  <2>1. Idle(Status \union {IN_IDLE_STATE})
    BY DEF Idle
  <2>2. Standard(GO_IDLE_STATE) /\ ExecuteTail(Status \union {IN_IDLE_STATE})
    BY <1>4, Zenon DEF GoIdleState
  <2>3. cmd8_issued' \in BOOLEAN
    BY <1>4, Zenon DEF GoIdleState
  <2>4. QED  BY <1>c, <2>1, <2>2, <2>3, PlainCommandStep, Zenon
<1>5. CASE SendIfCond
  BY <1>b, <1>c, <1>5, PlainCommandStep, Zenon DEF SendIfCond
<1>6. CASE SendCsd
  BY <1>b, <1>c, <1>6, PlainCommandStep, Zenon DEF SendCsd
<1>7. CASE SendCid
  BY <1>b, <1>c, <1>7, PlainCommandStep, Zenon DEF SendCid
<1>8. CASE ReadSingleBlock
  BY <1>b, <1>c, <1>8, PlainCommandStep, Zenon DEF ReadSingleBlock
<1>9. CASE WriteBlock
  BY <1>b, <1>c, <1>9, PlainCommandStep, Zenon DEF WriteBlock
<1>10. CASE AppCmd
  BY <1>b, <1>c, <1>10, PlainCommandStep, Zenon DEF AppCmd
<1>11. CASE ReadOcr
  BY <1>b, <1>c, <1>11, PlainCommandStep, Zenon DEF ReadOcr
<1>12. CASE UnknownCommand
  BY <1>b, <1>c, <1>12, PlainCommandStep, Zenon DEF UnknownCommand
<1>13. CASE EraseWrBlkStart
  <2>1. /\ Standard(ERASE_WR_BLK_START) /\ ERASE_WR_BLK_START \in EraseCommands
        /\ ExecuteTail(r1_status) /\ UNCHANGED cmd8_issued
    BY <1>c, <1>13, Zenon DEF EraseWrBlkStart
  <2>2. CASE UNCHANGED eraseVars
    BY <1>0, <2>1, <2>2, EraseCommandStep DEF ProtocolTypeOK, EraseRangeOnCard, eraseVars
  <2>3. CASE NoErase
    BY <2>1, <2>3, EraseCommandStep DEF NoErase
  <2>4. CASE /\ ~Idle(r1_status) /\ Argument < total_sectors
             /\ erase_sequence' = "WR_BLK_START" /\ erase_block_start' = Argument
             /\ UNCHANGED erase_block_end
    BY <1>0, <1>a, <2>1, <2>4, EraseCommandStep DEF ProtocolTypeOK
  <2>5. QED
    BY <1>13, <2>2, <2>3, <2>4, Zenon DEF EraseWrBlkStart, RefuseErase, FailErase
<1>14. CASE EraseWrBlkEnd
  <2>1. /\ Standard(ERASE_WR_BLK_END) /\ ERASE_WR_BLK_END \in EraseCommands
        /\ ExecuteTail(r1_status) /\ UNCHANGED cmd8_issued
    BY <1>c, <1>14, Zenon DEF EraseWrBlkEnd
  <2>2. CASE UNCHANGED eraseVars
    BY <1>0, <2>1, <2>2, EraseCommandStep DEF ProtocolTypeOK, EraseRangeOnCard, eraseVars
  <2>3. CASE NoErase
    BY <2>1, <2>3, EraseCommandStep DEF NoErase
  <2>4. CASE /\ ~Idle(r1_status) /\ EndInRange
             /\ erase_sequence' = "WR_BLK_END" /\ erase_block_end' = Argument
             /\ UNCHANGED erase_block_start
    BY <1>0, <1>a, <2>1, <2>4, EraseCommandStep DEF ProtocolTypeOK, EndInRange
  <2>5. QED
    BY <1>14, <2>2, <2>3, <2>4, Zenon DEF EraseWrBlkEnd, RefuseErase, FailErase
<1>15. CASE Erase
  <2>1. /\ Standard(ERASE) /\ ERASE \in EraseCommands
        /\ ExecuteTail(r1_status) /\ UNCHANGED cmd8_issued
    BY <1>c, <1>15, Zenon DEF Erase
  <2>2. CASE UNCHANGED eraseVars
    BY <1>0, <2>1, <2>2, EraseCommandStep DEF ProtocolTypeOK, EraseRangeOnCard, eraseVars
  <2>3. CASE NoErase
    BY <2>1, <2>3, EraseCommandStep DEF NoErase
  <2>4. QED  BY <1>15, <2>2, <2>3, Zenon DEF Erase, RefuseErase, FailErase
<1>16. QED
  BY <1>2, <1>3, <1>4, <1>5, <1>6, <1>7, <1>8, <1>9, <1>10, <1>11, <1>12, <1>13,
     <1>14, <1>15, Zenon DEF Execute

(* The steps that execute no command: bytes on the way in, data, and what   *)
(* the emulator does with the card.                                         *)
LEMMA ProtocolStep ==
  ASSUME Inv, Next
  PROVE  Protocol'
<1>0. /\ ProtocolTypeOK /\ DataPhaseIsWrite /\ ReadyMeansInitialised /\ EraseRangeOnCard
      /\ data_count \in 0..BlockSize
  BY DEF Inv, TypeOK, InputTypeOK
<1>1. ASSUME ResetCard
      PROVE  Protocol'
  <2>1. /\ r1_status' = {IN_IDLE_STATE} /\ command_state' = "WAITING_FOR_COMMAND"
        /\ cmd8_issued' = FALSE /\ cmd55_issued' = FALSE
        /\ erase_sequence' = "NONE" /\ erase_block_start' = 0 /\ erase_block_end' = 0
    BY <1>1, Zenon DEF ResetCard, NoErase
  <2>2. ProtocolTypeOK'
    BY <2>1 DEF ProtocolTypeOK, CommandStates, R1Flags
  <2>3. DataPhaseIsWrite' /\ ReadyMeansInitialised' /\ EraseRangeOnCard'
    BY <2>1 DEF DataPhaseIsWrite, ReadyMeansInitialised, EraseRangeOnCard, Idle
  <2>4. QED  BY <2>2, <2>3 DEF Protocol
<1>2. ASSUME UNCHANGED <<disk, total_sectors, command_state, current_command, data_count,
                         r1_status, cmd8_issued, cmd55_issued, eraseVars>>
      PROVE  Protocol'
  BY <1>0, <1>2 DEF Protocol, ProtocolTypeOK, DataPhaseIsWrite, ReadyMeansInitialised,
     EraseRangeOnCard, eraseVars
<1>3. ASSUME UNCHANGED <<driveVars, cmd8_issued, cmd55_issued, eraseVars>>,
             r1_status' \subseteq R1Flags, Idle(r1_status') <=> Idle(r1_status),
             command_state' \in CommandStates, DataPhaseIsWrite'
      PROVE  Protocol'
  BY <1>0, <1>3 DEF Protocol, ProtocolTypeOK, ReadyMeansInitialised, EraseRangeOnCard,
     eraseVars, driveVars, Idle
<1>4. CASE Reset \/ Eject \/ \E image \in Images : Insert(image)
  BY <1>1, <1>4, Zenon DEF Reset, Eject, Insert
<1>5. CASE Commit
  BY <1>2, <1>5, Zenon DEF Commit, inputVars
<1>6. CASE ReadResponse
  <2>1. UNCHANGED <<disk, total_sectors, command_state, current_command, data_count,
                    r1_status, cmd8_issued, cmd55_issued, eraseVars>>
    BY <1>6 DEF ReadResponse, driveVars, inputVars
  <2>2. QED  BY <1>2, <2>1
<1>7. ASSUME NEW index \in CommandBytes, ReceiveCommand(index)
      PROVE  Protocol'
  <2>1. command_state' = "WAITING_FOR_DATA0"
    BY <1>7, Zenon DEF ReceiveCommand, Receive
  <2>2. DataPhaseIsWrite' /\ command_state' \in CommandStates
    BY <2>1 DEF DataPhaseIsWrite, CommandStates
  <2>3. UNCHANGED <<driveVars, r1_status, cmd8_issued, cmd55_issued, eraseVars>>
    BY <1>7, Zenon DEF ReceiveCommand
  <2>4. QED  BY <1>0, <1>3, <2>2, <2>3 DEF ProtocolTypeOK
<1>8. ASSUME NEW i \in 1..4, NEW byte \in ArgBytes[i], ReceiveArgument(i, byte)
      PROVE  Protocol'
  <2>1. command_state' = ArgumentStates[i + 1]
    BY <1>8, Zenon DEF ReceiveArgument, Receive
  <2>2. command_state' \in {"WAITING_FOR_DATA1", "WAITING_FOR_DATA2",
                            "WAITING_FOR_DATA3", "WAITING_FOR_CRC"}
    BY <2>1 DEF ArgumentStates
  <2>3. DataPhaseIsWrite' /\ command_state' \in CommandStates
    BY <2>2 DEF DataPhaseIsWrite, CommandStates
  <2>4. UNCHANGED <<driveVars, r1_status, cmd8_issued, cmd55_issued, eraseVars>>
    BY <1>8, Zenon DEF ReceiveArgument
  <2>5. QED  BY <1>0, <1>3, <2>3, <2>4 DEF ProtocolTypeOK
<1>9. CASE Execute
  BY <1>9, ExecuteStep
<1>10. CASE ReceiveToken
  <2>1. /\ command_state = "WAITING_FOR_DATA_TOKEN" /\ command_state' = "WAITING_FOR_DATA"
        /\ data_count' = 0 /\ current_command' = current_command
    BY <1>10, Zenon DEF ReceiveToken, Receive
  <2>2. DataPhaseIsWrite' /\ command_state' \in CommandStates
    BY <1>0, <2>1, BlockSizeAssumption DEF DataPhaseIsWrite, CommandStates
  <2>3. UNCHANGED <<driveVars, r1_status, cmd8_issued, cmd55_issued, eraseVars>>
    BY <1>10, Zenon DEF ReceiveToken
  <2>4. QED  BY <1>0, <1>3, <2>2, <2>3 DEF ProtocolTypeOK
<1>11. ASSUME NEW byte \in DataBytes, ReceiveData(byte)
       PROVE  Protocol'
  <2>1. /\ command_state = "WAITING_FOR_DATA"
        /\ command_state' = IF data_count + 1 = BlockSize THEN "WAITING_FOR_DATA_CRC1"
                                                          ELSE "WAITING_FOR_DATA"
        /\ data_count' = data_count + 1 /\ current_command' = current_command
    BY <1>11, Zenon DEF ReceiveData, Receive
  <2>2. DataPhaseIsWrite' /\ command_state' \in CommandStates
    BY <1>0, <2>1, BlockSizeAssumption DEF DataPhaseIsWrite, CommandStates
  <2>3. UNCHANGED <<driveVars, r1_status, cmd8_issued, cmd55_issued, eraseVars>>
    BY <1>11, Zenon DEF ReceiveData
  <2>4. QED  BY <1>0, <1>3, <2>2, <2>3 DEF ProtocolTypeOK
<1>12. CASE ReceiveDataCrc1
  <2>1. /\ command_state = "WAITING_FOR_DATA_CRC1"
        /\ command_state' = "WAITING_FOR_DATA_CRC2" /\ current_command' = current_command
    BY <1>12 DEF ReceiveDataCrc1, Receive, inputVars
  <2>2. DataPhaseIsWrite' /\ command_state' \in CommandStates
    BY <1>0, <2>1 DEF DataPhaseIsWrite, CommandStates
  <2>3. UNCHANGED <<driveVars, r1_status, cmd8_issued, cmd55_issued, eraseVars>>
    BY <1>12, Zenon DEF ReceiveDataCrc1
  <2>4. QED  BY <1>0, <1>3, <2>2, <2>3 DEF ProtocolTypeOK
<1>13. CASE ReceiveDataCrc2
  <2>1. command_state' = "WAITING_FOR_COMMAND"
    BY <1>13, Zenon DEF ReceiveDataCrc2, Receive
  <2>2. DataPhaseIsWrite' /\ command_state' \in CommandStates
    BY <2>1 DEF DataPhaseIsWrite, CommandStates
  <2>3. UNCHANGED <<driveVars, cmd8_issued, cmd55_issued, eraseVars>>
    BY <1>13, Zenon DEF ReceiveDataCrc2
  <2>4. \/ r1_status' = r1_status
        \/ r1_status' = r1_status \union {ILLEGAL_COMMAND}
        \/ r1_status' = r1_status \union {PARAMETER_ERROR}
    BY <1>13, Zenon DEF ReceiveDataCrc2, WriteSingleBlock
  <2>5. r1_status' \subseteq R1Flags /\ (Idle(r1_status') <=> Idle(r1_status))
    BY <1>0, <2>4 DEF ProtocolTypeOK, Idle, R1Flags, IN_IDLE_STATE, ILLEGAL_COMMAND,
       PARAMETER_ERROR
  <2>6. QED  BY <1>3, <2>2, <2>3, <2>5
<1>14. QED
  BY <1>4, <1>5, <1>6, <1>7, <1>8, <1>9, <1>10, <1>11, <1>12, <1>13, Zenon DEF Next

----------------------------------------------------------------------------
(* Every response consists of bytes, whatever sector is read.               *)
LEMMA ResponseStep ==
  ASSUME Inv, Next
  PROVE  response' \in Seq(Byte)
<1>0. /\ response \in Seq(Byte) /\ DriveTypeOK /\ current_argument \in [1..4 -> Byte]
  BY DEF Inv, TypeOK, InputTypeOK
<1>1. \A status : R1(status) \in Seq(Byte)
  BY R1ByteType DEF R1
<1>2. \A status : \A b \in Byte : <<R1Byte(status), b>> \in Seq(Byte)
  BY R1ByteType
<1>3. 0 \in Byte /\ 1 \in Byte /\ 5 \in Byte /\ Token \in Byte
  BY DEF Byte, Token
<1>4. ASSUME response' = <<>>
      PROVE  response' \in Seq(Byte)
  BY <1>4
<1>5. CASE UNCHANGED response
  BY <1>0, <1>5
<1>6. CASE Reset \/ Eject \/ \E image \in Images : Insert(image)
  BY <1>4, <1>6, Zenon DEF Reset, Eject, Insert, ResetCard
<1>7. CASE ReadResponse
  BY <1>0, <1>7 DEF ReadResponse
<1>8. CASE ReceiveDataCrc2
  <2>1. \/ response' = R1(r1_status') \/ response' = <<5, 1>> \/ response' = response
    BY <1>8, Zenon DEF ReceiveDataCrc2, WriteSingleBlock
  <2>2. <<5, 1>> \in Seq(Byte)
    BY <1>3
  <2>3. QED  BY <1>0, <1>1, <2>1, <2>2, Zenon
<1>9. CASE SdSendOpCond \/ UnknownAcmd \/ GoIdleState \/ WriteBlock \/ AppCmd
           \/ UnknownCommand \/ EraseWrBlkStart \/ EraseWrBlkEnd
  BY <1>1, <1>9, Zenon DEF SdSendOpCond, UnknownAcmd, GoIdleState, WriteBlock, AppCmd,
     UnknownCommand, EraseWrBlkStart, EraseWrBlkEnd, RefuseErase, FailErase, Refuse
<1>10. CASE Erase
  BY <1>1, <1>2, <1>3, <1>10, Zenon DEF Erase, RefuseErase, FailErase, Refuse
<1>11. CASE SendIfCond
  <2>1. current_argument[4] \in Byte
    BY <1>0
  <2>2. R7(Status, 0, 0, 1, current_argument[4]) \in Seq(Byte)
    BY <1>3, <2>1, R1ByteType DEF R7
  <2>3. QED  BY <1>11, <2>2, Zenon DEF SendIfCond
<1>12. CASE ReadOcr
  <2>1. R7(Status, 192, 0, 0, 0) \in Seq(Byte)
    BY R1ByteType DEF R7, Byte
  <2>2. QED  BY <1>12, <2>1, Zenon DEF ReadOcr
<1>13. CASE SendCsd
  <2>1. c_size \div 256 \in Byte /\ c_size % 256 \in Byte
    <3>1. c_size \in 0..CSizeLimit
      BY <1>0, Zenon DEF DriveTypeOK
    <3>2. c_size \in Nat /\ c_size < 65536
      BY <3>1, SizeAssumption
    <3>3. QED  BY <3>2 DEF Byte
  <2>2. <<R1Byte(Status), Token, c_size \div 256, c_size % 256>> \in Seq(Byte)
    BY <1>3, <2>1, R1ByteType
  <2>3. \/ response' = R1(Status \union {ILLEGAL_COMMAND})
        \/ response' = <<R1Byte(Status), Token, c_size \div 256, c_size % 256>>
    BY <1>13, Zenon DEF SendCsd, Refuse
  <2>4. QED  BY <1>1, <2>2, <2>3, Zenon
<1>14. CASE SendCid
  BY <1>1, <1>2, <1>3, <1>14, Zenon DEF SendCid, Refuse
<1>15. CASE ReadSingleBlock
  <2> DEFINE g == Geometry[disk]
  <2>1. disk \in Images /\ disk # NoDisk /\ HasLayout(g)
    BY <1>0, <1>15, LayoutType DEF ReadSingleBlock, ExecuteTail, Receive, DriveTypeOK
  <2>2. IsFile(g, files[disk]) /\ IsCache(g.half, cache)
    BY <1>0, <2>1 DEF DriveTypeOK, Half
  <2>3. ASSUME NEW block \in ReadOutcomes(g, files[disk], cache, Argument),
               response' = IF block = ReadError
                             THEN <<R1Byte(Status), 1>>
                             ELSE <<R1Byte(Status), Token>> \o BytesOf(block) \o <<0, 0>>
        PROVE  response' \in Seq(Byte)
    <3>1. block = ReadError \/ block \in Block
      BY <2>1, <2>2, ReadOutcomesType
    <3>2. ASSUME block \in Block
          PROVE  <<R1Byte(Status), Token>> \o BytesOf(block) \o <<0, 0>> \in Seq(Byte)
      BY <3>2, BlockResponseType
    <3>3. QED  BY <1>2, <1>3, <2>3, <3>1, <3>2, Zenon
  <2>4. QED  BY <1>1, <1>15, <2>3, Zenon DEF ReadSingleBlock, Refuse
<1>16. CASE Execute
  BY <1>9, <1>10, <1>11, <1>12, <1>13, <1>14, <1>15, <1>16, Zenon DEF Execute
<1>17. QED
  BY <1>5, <1>6, <1>7, <1>8, <1>16, Zenon DEF Next, Commit, ReceiveCommand,
     ReceiveArgument, ReceiveToken, ReceiveData, ReceiveDataCrc1

----------------------------------------------------------------------------
(* The invariant is inductive.                                              *)
LEMMA StepInv == Inv /\ [Next]_vars => Inv'
<1> SUFFICES ASSUME Inv, [Next]_vars PROVE Inv'
  OBVIOUS
<1>1. CASE Next
  BY <1>1, DriveStep, InputStep, ProtocolStep, ResponseStep, Zenon
     DEF Inv, TypeOK, Protocol
<1>2. CASE UNCHANGED vars
  BY <1>2 DEF vars, driveVars, inputVars, eraseVars, Inv, TypeOK, DriveTypeOK,
     InputTypeOK, ProtocolTypeOK, DataPhaseIsWrite, ReadyMeansInitialised,
     EraseRangeOnCard, DirtySectorsOnCard, Half, Idle
<1>3. QED  BY <1>1, <1>2

(* The inductive invariant holds in every reachable state.                  *)
THEOREM Invariance == Spec => []Inv
  BY InitInv, StepInv, PTL DEF Spec

(* Type correctness: in particular data_count never leaves send_buffer and  *)
(* the cache holds only sectors of the size of the inserted image.          *)
THEOREM TypeCorrect == Spec => []TypeOK
<1>1. Inv => TypeOK
  BY DEF Inv
<1>2. QED  BY <1>1, Invariance, PTL

(* The branch of do_command_data that "should never happen" never does.     *)
THEOREM DataPhase == Spec => []DataPhaseIsWrite
<1>1. Inv => DataPhaseIsWrite
  BY DEF Inv
<1>2. QED  BY <1>1, Invariance, PTL

(* No card leaves the idle state without CMD8 and an image.                 *)
THEOREM Initialised == Spec => []ReadyMeansInitialised
<1>1. Inv => ReadyMeansInitialised
  BY DEF Inv
<1>2. QED  BY <1>1, Invariance, PTL

(* The loop of erase() runs over sectors of the card only.                  *)
THEOREM OnCard == Spec => []EraseRangeOnCard
<1>1. Inv => EraseRangeOnCard
  BY DEF Inv
<1>2. QED  BY <1>1, Invariance, PTL

(* Nothing outside the card is ever dirty, whatever was written, erased,    *)
(* ejected and inserted.                                                    *)
THEOREM DirtyOnCard == Spec => []DirtySectorsOnCard
<1>1. Inv => DirtySectorsOnCard
  BY DEF Inv
<1>2. QED  BY <1>1, Invariance, PTL

(* Only write_single_block and erase make a sector dirty, both refuse on an *)
(* idle card, and both end the command.                                     *)
THEOREM WritesNeedReady == Spec => NoWriteWhileIdle
<1> DEFINE Dirtied == \E s \in DOMAIN cache' : s \notin DOMAIN cache \/ cache'[s] # cache[s]
           Allowed == ~Idle(r1_status) /\ command_state' = "WAITING_FOR_COMMAND"
<1>1. ASSUME Next PROVE Dirtied => Allowed
  <2>1. CASE UNCHANGED <<driveVars, cache>>
    BY <2>1, Zenon
  <2>2. CASE Eject \/ \E image \in Images : Insert(image)
    <3>1. DOMAIN cache' = {}
      BY <2>2 DEF Eject, Insert, NoCache
    <3>2. QED  BY <3>1, Zenon
  <2>3. CASE Commit
    <3>1. PICK t \in DOMAIN cache, n \in 1..SectorSize(Half) : cache' = KeepInCache(Half, cache, t, n)
      BY <2>3, Zenon DEF Commit
    <3>2. \A s \in DOMAIN cache' : s \in DOMAIN cache /\ cache'[s] = cache[s]
      BY <3>1 DEF KeepInCache
    <3>3. QED  BY <3>2, Zenon
  <2>4. CASE Erase
    <3>1. CASE cache' = cache
      BY <3>1, Zenon
    <3>2. CASE ~Idle(r1_status)
      <4>1. current_command = ERASE /\ command_state' =
              IF current_command = WRITE_BLOCK THEN "WAITING_FOR_DATA_TOKEN"
                                               ELSE "WAITING_FOR_COMMAND"
        BY <2>4, Zenon DEF Erase, Standard, ExecuteTail, Receive
      <4>2. QED  BY <3>2, <4>1 DEF ERASE, WRITE_BLOCK
    <3>3. QED  BY <2>4, <3>1, <3>2, Zenon DEF Erase
  <2>5. CASE ReceiveDataCrc2
    BY <2>5, Zenon DEF ReceiveDataCrc2, Receive, WriteSingleBlock
  <2>6. QED  BY <1>1, <2>1, <2>2, <2>3, <2>4, <2>5, DriveFrame, Zenon
<1>2. [Next]_vars => [Dirtied => Allowed]_vars
  BY <1>1, Zenon
<1>3. QED  BY <1>2, PTL DEF Spec, NoWriteWhileIdle

-----------------------------------------------------------------------------
(***************************************************************************)
(* The MMC card is a block device: every step of the command state machine, *)
(* of the emulator and of a commit that writes a sector or a part of one    *)
(* is, through the mapping of Mmc!Device, a step of BlockDevice or none.    *)
(* The device has the images whose sectors all have a place of their own    *)
(* below 2^32 bytes; a bigger card in the slot is no disk for it.           *)
(*                                                                         *)
(* Three facts are needed beyond the invariant: the buffer holds what the   *)
(* host sent, or zeros, so that what a write stores is data of the host;    *)
(* no response is longer than the one that carries a sector, so that what   *)
(* is left of a response is never mistaken for a reply; and total_sectors   *)
(* is what the header of the inserted image says.                           *)
(***************************************************************************)
BufferFromHost == send_buffer \in [0..BlockSize - 1 -> DataBytes \union {0}]

ResponseFits == Len(response) <= BlockSize + 4

CardSize == disk # NoDisk => total_sectors = Geometry[disk].total

DeviceInv == Inv /\ BufferFromHost /\ ResponseFits /\ CardSize

\* The state of the device.
Slot == IF disk \in SmallCards THEN disk ELSE NoDisk

Content == IF disk \in SmallCards THEN LogicalCard(disk, files[disk], cache) ELSE NoCache

Saved == [i \in SmallCards |-> LogicalCard(i, files[i], NoCache)]

Reply == IF disk \in SmallCards THEN ReadReply ELSE ReadError

HostBlock == [0..BlockSize - 1 -> DataBytes \union {0, 255}]

SectorResponse(block) == <<R1Byte(Status), Token>> \o BytesOf(block) \o <<0, 0>>

(* READ_SINGLE_BLOCK found the sector.                                      *)
SectorRead(block) ==
  /\ disk \in Images /\ Argument \in Nat /\ Argument < total_sectors
  /\ block \in Block /\ block # ReadError
  /\ block \in ReadOutcomes(Geometry[disk], files[disk], cache, Argument)
  /\ response' = SectorResponse(block)
  /\ UNCHANGED <<driveVars, cache>>

----------------------------------------------------------------------------
(* Responses.                                                               *)

(* A sector has at least two bytes.                                         *)
LEMMA EvenBlock == BlockSize \in Nat /\ BlockSize >= 2
  BY BlockSizeAssumption

(* No command answers with more than five bytes, but for a sector.          *)
LEMMA ShortResponses ==
  ASSUME NEW a, NEW b, NEW c, NEW d, NEW e
  PROVE  /\ Len(<<>>) \in 0..5 /\ Len(<<a>>) \in 0..5 /\ Len(<<a, b>>) \in 0..5
         /\ Len(<<a, b, c, d>>) \in 0..5 /\ Len(<<a, b, c, d, e>>) \in 0..5
  OBVIOUS

(* The response that carries a sector: the only long one.                   *)
LEMMA SectorResponseShape ==
  ASSUME NEW block \in Block
  PROVE  /\ SectorResponse(block) \in Seq(Byte)
         /\ Len(SectorResponse(block)) = BlockSize + 4
         /\ \A i \in 0..BlockSize - 1 : SectorResponse(block)[i + 3] = block[i]
<1> DEFINE head == <<R1Byte(Status), Token>>
           tail == <<0, 0>>
           bytes == BytesOf(block)
<1>1. R1Byte(Status) \in Byte /\ Token \in Byte /\ 0 \in Byte
  BY R1ByteType DEF Token, Byte
<1>2. bytes \in Seq(Byte) /\ Len(bytes) = BlockSize
  <2>1. \A i \in 1..BlockSize : block[i - 1] \in Byte
    BY EvenBlock DEF Block
  <2>2. QED  BY <2>1, EvenBlock DEF BytesOf
<1>3. \A i \in 1..BlockSize : bytes[i] = block[i - 1]
  BY DEF BytesOf
<1>4. head \in Seq(Byte) /\ Len(head) = 2 /\ tail \in Seq(Byte) /\ Len(tail) = 2
  BY <1>1
<1> HIDE DEF head, bytes, tail
<1>5. /\ head \o bytes \in Seq(Byte) /\ Len(head \o bytes) = BlockSize + 2
      /\ \A i \in 1..BlockSize : (head \o bytes)[i + 2] = bytes[i]
  <2>1. /\ head \o bytes \in Seq(Byte) /\ Len(head \o bytes) = Len(head) + Len(bytes)
        /\ \A i \in 1..Len(head) + Len(bytes) : (head \o bytes)[i] =
             IF i <= Len(head) THEN head[i] ELSE bytes[i - Len(head)]
    BY <1>2, <1>4, ConcatProperties
  <2>2. \A i \in 1..BlockSize : i + 2 \in 1..Len(head) + Len(bytes)
                               /\ ~(i + 2 <= Len(head)) /\ (i + 2) - Len(head) = i
    BY <1>2, <1>4, EvenBlock
  <2>3. Len(head) + Len(bytes) = BlockSize + 2
    BY <1>2, <1>4, EvenBlock
  <2>4. QED  BY <2>1, <2>2, <2>3
<1> DEFINE front == head \o bytes
<1> HIDE DEF front
<1>6. /\ front \in Seq(Byte) /\ Len(front) = BlockSize + 2
      /\ \A i \in 1..BlockSize : front[i + 2] = bytes[i]
  BY <1>5 DEF front
<1>7. /\ front \o tail \in Seq(Byte) /\ Len(front \o tail) = BlockSize + 4
      /\ \A i \in 1..BlockSize + 2 : (front \o tail)[i] = front[i]
  <2>1. /\ front \o tail \in Seq(Byte) /\ Len(front \o tail) = Len(front) + Len(tail)
        /\ \A i \in 1..Len(front) + Len(tail) : (front \o tail)[i] =
             IF i <= Len(front) THEN front[i] ELSE tail[i - Len(front)]
    BY <1>4, <1>6, ConcatProperties
  <2>2. /\ Len(front) + Len(tail) = BlockSize + 4
        /\ \A i \in 1..BlockSize + 2 : i \in 1..Len(front) + Len(tail) /\ i <= Len(front)
    BY <1>4, <1>6, EvenBlock
  <2>3. QED  BY <2>1, <2>2
<1>8. SectorResponse(block) = front \o tail
  BY DEF SectorResponse, front, head, bytes, tail
<1>9. ASSUME NEW i \in 0..BlockSize - 1
      PROVE  (front \o tail)[i + 3] = block[i]
  <2>1. i + 1 \in 1..BlockSize /\ i + 3 \in 1..BlockSize + 2 /\ (i + 1) + 2 = i + 3 /\ (i + 1) - 1 = i
    BY EvenBlock
  <2>2. (front \o tail)[i + 3] = front[i + 3]
    BY <1>7, <2>1
  <2>3. front[(i + 1) + 2] = bytes[i + 1]
    BY <1>6, <2>1
  <2>4. bytes[i + 1] = block[i]
    BY <1>3, <2>1
  <2>5. QED  BY <2>1, <2>2, <2>3, <2>4
<1>10. QED  BY <1>7, <1>8, <1>9

(* Every step keeps the response, takes a byte from it, answers briefly or  *)
(* answers with a sector.                                                   *)
Brief == Len(response') \in 0..5

(* What a step can do to the response.                                      *)
LEMMA ResponseCases ==
  ASSUME Inv, Next
  PROVE  \/ UNCHANGED response
         \/ ReadResponse
         \/ Brief
         \/ \E block \in Block : SectorRead(block)
<1>0. DriveTypeOK /\ current_argument \in [1..4 -> Byte]
  BY DEF Inv, TypeOK, InputTypeOK
<1>1. ASSUME \/ response' = <<>>
             \/ \E a : response' = <<a>>
             \/ \E a, b : response' = <<a, b>>
             \/ \E a, b, c, d : response' = <<a, b, c, d>>
             \/ \E a, b, c, d, e : response' = <<a, b, c, d, e>>
      PROVE  Brief
  BY <1>1, ShortResponses, Zenon DEF Brief
<1>2. CASE Reset \/ Eject \/ \E image \in Images : Insert(image)
  BY <1>1, <1>2, Zenon DEF Reset, Eject, Insert, ResetCard
<1>3. CASE ReceiveDataCrc2
  <2>1. UNCHANGED response \/ response' = R1(r1_status') \/ response' = <<5, 1>>
    BY <1>3, Zenon DEF ReceiveDataCrc2, WriteSingleBlock
  <2>2. QED  BY <1>1, <2>1, Zenon DEF R1
<1>4. CASE SdSendOpCond \/ UnknownAcmd \/ GoIdleState \/ WriteBlock \/ AppCmd
           \/ UnknownCommand \/ EraseWrBlkStart \/ EraseWrBlkEnd
  BY <1>1, <1>4, Zenon DEF SdSendOpCond, UnknownAcmd, GoIdleState, WriteBlock, AppCmd,
     UnknownCommand, EraseWrBlkStart, EraseWrBlkEnd, RefuseErase, FailErase, Refuse, R1
<1>5. CASE Erase \/ SendIfCond \/ ReadOcr \/ SendCsd \/ SendCid
  <2>1. CASE Erase
    BY <1>1, <2>1, Zenon DEF Erase, RefuseErase, FailErase, Refuse, R1
  <2>2. CASE SendIfCond \/ ReadOcr
    BY <1>1, <2>2, Zenon DEF SendIfCond, ReadOcr, Refuse, R1, R7
  <2>3. CASE SendCsd \/ SendCid
    BY <1>1, <2>3, Zenon DEF SendCsd, SendCid, Refuse, R1
  <2>4. QED  BY <1>5, <2>1, <2>2, <2>3
<1>6. CASE ReadSingleBlock
  <2> DEFINE g == Geometry[disk]
  <2>1. disk \in Images /\ disk # NoDisk /\ HasLayout(g)
    BY <1>0, <1>6, LayoutType DEF ReadSingleBlock, ExecuteTail, Receive, DriveTypeOK
  <2>2. IsFile(g, files[disk]) /\ IsCache(g.half, cache) /\ Argument \in Nat
    BY <1>0, <2>1, ArgumentType DEF DriveTypeOK, Half
  <2>3. UNCHANGED <<driveVars, cache>>
    BY <1>6, Zenon DEF ReadSingleBlock, ExecuteTail
  <2>4. ASSUME NEW block \in ReadOutcomes(g, files[disk], cache, Argument),
               Argument < total_sectors,
               response' = IF block = ReadError THEN <<R1Byte(Status), 1>>
                                                ELSE SectorResponse(block)
        PROVE  Brief \/ \E b \in Block : SectorRead(b)
    <3>1. CASE block = ReadError
      BY <1>1, <2>4, <3>1, Zenon
    <3>2. CASE block # ReadError
      <4>1. block \in Block
        BY <2>1, <2>2, <2>4, <3>2, ReadOutcomesType
      <4>2. SectorRead(block)
        BY <2>1, <2>2, <2>3, <2>4, <3>2, <4>1, Zenon DEF SectorRead
      <4>3. QED  BY <4>1, <4>2
    <3>3. QED  BY <3>1, <3>2
  <2>5. \/ \E a : response' = <<a>>
        \/ /\ Argument < total_sectors
           /\ \E block \in ReadOutcomes(g, files[disk], cache, Argument) :
                response' = IF block = ReadError THEN <<R1Byte(Status), 1>>
                                                 ELSE SectorResponse(block)
    BY <1>6, Zenon DEF ReadSingleBlock, Refuse, R1, SectorResponse
  <2>6. QED  BY <1>1, <2>4, <2>5, Zenon
<1>7. CASE Execute
  BY <1>4, <1>5, <1>6, <1>7, Zenon DEF Execute
<1>8. QED
  BY <1>2, <1>3, <1>7, Zenon DEF Next, Commit, ReceiveCommand,
     ReceiveArgument, ReceiveToken, ReceiveData, ReceiveDataCrc1

----------------------------------------------------------------------------
(* What is left to read of a response as a reply of the device.             *)

(* A short response is no reply of the device.                              *)
LEMMA BriefReply ==
  ASSUME Brief
  PROVE  ReadReply' = ReadError
<1>1. \A n \in 0..5 : n # BlockSize + 4
  BY EvenBlock
<1>2. Len(response') # BlockSize + 4
  BY <1>1, Zenon DEF Brief
<1>3. QED  BY <1>2, Zenon DEF ReadReply

(* Once the host took a byte, what is left is no reply any more.            *)
LEMMA TailReply ==
  ASSUME DeviceInv, ReadResponse
  PROVE  ReadReply' = ReadError /\ ResponseFits'
<1>1. /\ response \in Seq(Byte) /\ response # <<>> /\ response' = Tail(response)
      /\ Len(response) <= BlockSize + 4
  BY DEF DeviceInv, ResponseFits, Inv, TypeOK, ReadResponse
<1>2. Len(response') = Len(response) - 1 /\ Len(response) \in Nat
  BY <1>1
<1>3. \A n \in Nat : n <= BlockSize + 4 => n - 1 # BlockSize + 4 /\ n - 1 <= BlockSize + 4
  BY EvenBlock
<1>4. Len(response') # BlockSize + 4 /\ Len(response') <= BlockSize + 4
  BY <1>1, <1>2, <1>3, Zenon
<1>5. QED  BY <1>4, Zenon DEF ReadReply, ResponseFits

(* The response with a sector is the reply with that sector.                *)
LEMMA SectorReply ==
  ASSUME NEW block \in Block, SectorRead(block)
  PROVE  ReadReply' = block
<1>1. /\ response' = SectorResponse(block) /\ Len(SectorResponse(block)) = BlockSize + 4
      /\ \A i \in 0..BlockSize - 1 : SectorResponse(block)[i + 3] = block[i]
  BY SectorResponseShape DEF SectorRead
<1>2. ReadReply' = [i \in 0..BlockSize - 1 |-> SectorResponse(block)[i + 3]]
  BY <1>1, Zenon DEF ReadReply
<1>3. block = [i \in 0..BlockSize - 1 |-> block[i]]
  BY DEF Block
<1>4. QED  BY <1>1, <1>2, <1>3

----------------------------------------------------------------------------
(* Sectors.                                                                 *)

\* A buffer written to an image and read back.
LEMMA AsStoredType ==
  ASSUME NEW half \in BOOLEAN,
         NEW block \in [0..BlockSize - 1 -> DataBytes \union {0}]
  PROVE  AsStored(half, block) \in HostBlock
<1>1. CASE half
  <2>1. \A i \in 0..BlockSize - 1 : i % 2 = 0 =>
          /\ i \div 2 \in 0..(BlockSize \div 2) - 1
          /\ 2 * (i \div 2) = i
    BY BlockSizeAssumption
  <2> DEFINE packed == [i \in 0..(BlockSize \div 2) - 1 |-> block[2 * i]]
  <2>2. AsStored(half, block) =
          [i \in 0..BlockSize - 1 |-> IF i % 2 = 0 THEN packed[i \div 2] ELSE 255]
    <3>1. Pack(half, block) = packed
      BY <1>1, Zenon DEF Pack
    <3> HIDE DEF packed
    <3>2. Unpack(half, packed) =
            [i \in 0..BlockSize - 1 |-> IF i % 2 = 0 THEN packed[i \div 2] ELSE 255]
      BY <1>1, Zenon DEF Unpack
    <3>3. QED  BY <3>1, <3>2, Zenon DEF AsStored
  <2>3. ASSUME NEW i \in 0..BlockSize - 1
        PROVE  (IF i % 2 = 0 THEN packed[i \div 2] ELSE 255) \in DataBytes \union {0, 255}
    <3>1. CASE i % 2 = 0
      <4>1. packed[i \div 2] = block[2 * (i \div 2)]
        BY <2>1, <3>1
      <4>2. packed[i \div 2] = block[i]
        BY <2>1, <3>1, <4>1
      <4>3. QED  BY <3>1, <4>2
    <3>2. CASE i % 2 # 0
      BY <3>2
    <3>3. QED  BY <3>1, <3>2
  <2> HIDE DEF packed
  <2>4. QED  BY <2>2, <2>3 DEF HostBlock
<1>2. CASE ~half
  BY <1>2 DEF AsStored, Unpack, Pack, HostBlock
<1>3. QED  BY <1>1, <1>2

Written(f, S, data) == [s \in DOMAIN f \union S |-> IF s \in S THEN data ELSE f[s]]

(* What a drive can hold: the header, the file and the cache.               *)
IsDrive(g, file, dirty, total) ==
  /\ HasLayout(g) /\ total \in Nat
  /\ IsFile(g, file) /\ IsCache(g.half, dirty) /\ DOMAIN dirty \subseteq 0..total - 1

(* The machine sees the sectors that it can read.                           *)
LEMMA LogicalSectors ==
  ASSUME NEW g, NEW file, NEW dirty, NEW total, NEW s
  PROVE  /\ s \in DOMAIN Logical(g, file, dirty, total) <=>
              s \in 0..total - 1 /\ SectorData(g, file, dirty, s) # ReadError
         /\ s \in DOMAIN Logical(g, file, dirty, total) =>
              Logical(g, file, dirty, total)[s] = SectorData(g, file, dirty, s)
  BY DEF Logical

\* A buffer for some sectors of a drive.
Writable(g, total, S, block) ==
  g.half \in BOOLEAN /\ total \in Nat /\ S \subseteq 0..total - 1 /\ block \in Block

(* Writing to the cache writes to what can be read.                         *)
LEMMA WriteContent ==
  ASSUME NEW g, NEW file, NEW dirty, NEW total, NEW S, NEW block, Writable(g, total, S, block)
  PROVE  Logical(g, file, WriteSectors(g.half, dirty, S, block), total) =
           Written(Logical(g, file, dirty, total), S, AsStored(g.half, block))
<1> DEFINE before == Logical(g, file, dirty, total)
           W == WriteSectors(g.half, dirty, S, block)
           after == Logical(g, file, W, total)
           stored == AsStored(g.half, block)
<1>1. stored # ReadError
  <2>1. stored \in Block
    BY PackType, UnpackType DEF AsStored, Writable
  <2> HIDE DEF stored
  <2>2. QED  BY <2>1, BlockIsNoError
<1>2. \A s : SectorData(g, file, W, s) =
               IF s \in S THEN stored ELSE SectorData(g, file, dirty, s)
  <2> HIDE DEF W, stored
  <2>1. \A s : SectorData(g, file, WriteSectors(g.half, dirty, S, block), s) =
                 IF s \in S THEN AsStored(g.half, block) ELSE SectorData(g, file, dirty, s)
    BY WriteReadsBack
  <2>2. QED  BY <2>1 DEF W, stored
<1>3. \A s : /\ s \in DOMAIN before <=>
                   s \in 0..total - 1 /\ SectorData(g, file, dirty, s) # ReadError
             /\ s \in DOMAIN before => before[s] = SectorData(g, file, dirty, s)
  BY LogicalSectors, Zenon
<1>4. after = [s \in {t \in 0..total - 1 : SectorData(g, file, W, t) # ReadError} |->
                 SectorData(g, file, W, s)]
  BY Zenon DEF Logical
<1> HIDE DEF before, W, stored, after
<1>5. {t \in 0..total - 1 : SectorData(g, file, W, t) # ReadError} = DOMAIN before \union S
  BY <1>1, <1>2, <1>3 DEF Writable
<1>6. \A s \in DOMAIN before \union S :
        SectorData(g, file, W, s) = IF s \in S THEN stored ELSE before[s]
  BY <1>2, <1>3
<1>7. after = [s \in DOMAIN before \union S |-> IF s \in S THEN stored ELSE before[s]]
  BY <1>4, <1>5, <1>6
<1>8. QED  BY <1>7, Zenon DEF before, after, W, stored, Written

----------------------------------------------------------------------------
(* A commit of n bytes of sector s.                                         *)

(* It changes no sector that can be read, and one that could not be read    *)
(* and now can is one of the image.                                         *)
LEMMA CommitContent ==
  ASSUME NEW g, NEW file, NEW dirty, NEW total, IsDrive(g, file, dirty, total), Fits(g, total),
         NEW s \in DOMAIN dirty, NEW n \in 1..SectorSize(g.half), NEW x
  PROVE  LET F == WriteToFile(g, file, s, dirty[s], n)
             K == KeepInCache(g.half, dirty, s, n)
             before == Logical(g, file, dirty, total)
             after == Logical(g, F, K, total)
             held == Logical(g, F, NoCache, total)
         IN  /\ x \in DOMAIN before => x \in DOMAIN after /\ after[x] = before[x]
             /\ x \in DOMAIN after \ DOMAIN before => x \in DOMAIN held /\ after[x] = held[x]
<1> DEFINE F == WriteToFile(g, file, s, dirty[s], n)
           K == KeepInCache(g.half, dirty, s, n)
           before == Logical(g, file, dirty, total)
           after == Logical(g, F, K, total)
           held == Logical(g, F, NoCache, total)
<1>1. x \in 0..total - 1 /\ SectorData(g, file, dirty, x) # ReadError =>
        SectorData(g, F, K, x) = SectorData(g, file, dirty, x)
  BY CommitKeepsContent DEF IsDrive
<1>2. DOMAIN K \subseteq DOMAIN dirty
  BY CommitType DEF IsDrive
<1>3. x \notin DOMAIN K => SectorData(g, F, K, x) = SectorData(g, F, NoCache, x)
  <2>1. x \notin DOMAIN NoCache
    BY DEF NoCache
  <2> HIDE DEF F, K
  <2>2. QED  BY <2>1 DEF SectorData
<1>4. x \in DOMAIN dirty => SectorData(g, file, dirty, x) # ReadError
  BY SectorDataType DEF IsDrive
<1>5. /\ x \in DOMAIN before <=>
           x \in 0..total - 1 /\ SectorData(g, file, dirty, x) # ReadError
      /\ x \in DOMAIN before => before[x] = SectorData(g, file, dirty, x)
  BY LogicalSectors, Zenon
<1>6. /\ x \in DOMAIN after <=> x \in 0..total - 1 /\ SectorData(g, F, K, x) # ReadError
      /\ x \in DOMAIN after => after[x] = SectorData(g, F, K, x)
  BY LogicalSectors, Zenon
<1>7. /\ x \in DOMAIN held <=> x \in 0..total - 1 /\ SectorData(g, F, NoCache, x) # ReadError
      /\ x \in DOMAIN held => held[x] = SectorData(g, F, NoCache, x)
  BY LogicalSectors, Zenon
<1>8. DOMAIN dirty \subseteq 0..total - 1
  BY DEF IsDrive
<1> HIDE DEF F, K, before, after, held
<1>9. x \in DOMAIN before => x \in DOMAIN after /\ after[x] = before[x]
  BY <1>1, <1>5, <1>6
<1>10. x \in DOMAIN after \ DOMAIN before => x \in DOMAIN held /\ after[x] = held[x]
  BY <1>2, <1>3, <1>4, <1>5, <1>6, <1>7
<1>11. QED  BY <1>9, <1>10 DEF F, K, before, after, held

(* The bytes of a buffer of which some stored bytes were replaced.          *)
LEMMA UnpackOverwritten ==
  ASSUME NEW half \in BOOLEAN, NEW old \in Stored(half), NEW new \in Stored(half),
         NEW n \in 1..SectorSize(half), NEW i \in 0..BlockSize - 1
  PROVE  Unpack(half, Overwritten(old, new, n))[i] \in
           {Unpack(half, old)[i], Unpack(half, new)[i]}
<1> DEFINE over == Overwritten(old, new, n)
<1>1. SectorSize(half) \in Nat \ {0} /\ Stored(half) = [0..SectorSize(half) - 1 -> Byte]
  BY SectorSizeType
<1>2. \A j \in 0..SectorSize(half) - 1 : over[j] \in {old[j], new[j]}
  BY <1>1 DEF Overwritten
<1> HIDE DEF over
<1>3. CASE half
  <2>1. i % 2 = 0 => i \div 2 \in 0..SectorSize(half) - 1
    BY <1>3, BlockSizeAssumption DEF SectorSize
  <2>2. \A f : Unpack(half, f)[i] = IF i % 2 = 0 THEN f[i \div 2] ELSE 255
    BY <1>3 DEF Unpack
  <2>3. QED  BY <1>2, <2>1, <2>2 DEF over
<1>4. CASE ~half
  <2>1. i \in 0..SectorSize(half) - 1
    BY <1>4 DEF SectorSize
  <2>2. \A f : Unpack(half, f) = f
    BY <1>4 DEF Unpack
  <2>3. QED  BY <1>2, <2>1, <2>2 DEF over
<1>5. QED  BY <1>3, <1>4

(* Each byte of the image stays or becomes the one of the dirty sector.     *)
LEMMA CommitSaved ==
  ASSUME NEW g, NEW file, NEW dirty, NEW total, IsDrive(g, file, dirty, total), Fits(g, total),
         NEW s \in DOMAIN dirty, NEW n \in 1..SectorSize(g.half),
         NEW x \in DOMAIN Logical(g, file, NoCache, total)
  PROVE  LET before == Logical(g, file, NoCache, total)
             after == Logical(g, WriteToFile(g, file, s, dirty[s], n), NoCache, total)
         IN  /\ x \in DOMAIN after
             /\ \A i \in DOMAIN before[x] :
                  after[x][i] \in {before[x][i], Logical(g, file, dirty, total)[x][i]}
<1> DEFINE F == WriteToFile(g, file, s, dirty[s], n)
           before == Logical(g, file, NoCache, total)
           after == Logical(g, F, NoCache, total)
           content == Logical(g, file, dirty, total)
<1>1. /\ g.half \in BOOLEAN /\ HasLayout(g) /\ total \in Nat
      /\ IsFile(g, file) /\ IsCache(g.half, dirty) /\ IsCache(g.half, NoCache)
      /\ x \notin DOMAIN NoCache /\ DOMAIN dirty \subseteq 0..total - 1
  BY NoCacheIsCache DEF IsDrive, HasLayout
<1>2. /\ x \in 0..total - 1 /\ SectorData(g, file, NoCache, x) # ReadError
      /\ before[x] = SectorData(g, file, NoCache, x)
  BY LogicalSectors, Zenon
<1>3. Place(g, x) = x /\ Place(g, s) = s
  BY <1>1, <1>2, PlaceFits
<1>4. HoldsSector(g, file, x)
  BY <1>1, <1>2, <1>3, SectorDataType
<1>5. before[x] = Unpack(g.half, file[x]) /\ file[x] \in Stored(g.half) /\ x \in DOMAIN file
  BY <1>1, <1>2, <1>3, <1>4, HeldIsStored DEF SectorData
<1>6. DOMAIN before[x] = 0..BlockSize - 1
  BY <1>1, <1>5, UnpackType DEF Block
<1>7. HoldsSector(g, F, x) => x \in DOMAIN after /\ after[x] = Unpack(g.half, F[x])
  <2>1. IsFile(g, F)
    BY <1>1, CommitType
  <2> HIDE DEF F
  <2>2. ASSUME HoldsSector(g, F, x)
        PROVE  SectorData(g, F, NoCache, x) = Unpack(g.half, F[x])
                 /\ SectorData(g, F, NoCache, x) # ReadError
    <3>1. SectorData(g, F, NoCache, x) # ReadError
      BY <1>1, <1>3, <2>1, <2>2, SectorDataType
    <3>2. QED  BY <1>1, <1>3, <2>2, <3>1 DEF SectorData
  <2>3. QED  BY <1>2, <2>2, LogicalSectors, Zenon
<1>8. CASE x # s
  <2>1. HoldsSector(g, F, x) /\ F[x] = file[x]
    <3>1. x # Place(g, s)
      BY <1>3, <1>8
    <3>2. QED  BY <1>1, <1>4, <3>1, WriteToFileHolds
  <2>2. after[x] = before[x]
    BY <1>5, <1>7, <2>1
  <2>3. QED  BY <1>7, <2>1, <2>2
<1>9. CASE x = s
  <2>1. F[x] = Overwritten(file[x], dirty[s], n)
    <3>1. x \in DOMAIN F /\ BytesAt(file, x) = file[x]
      BY <1>3, <1>5, <1>9 DEF WriteToFile, BytesAt
    <3>2. QED  BY <1>3, <1>9, <3>1 DEF WriteToFile
  <2>2. HoldsSector(g, F, x)
    <3>1. SectorSize(g.half) - 1 \in DOMAIN F[x]
      <4> HIDE DEF F
      <4>1. QED  BY <1>4, <2>1 DEF HoldsSector, Overwritten
    <3>2. x \in DOMAIN F
      BY <1>5 DEF WriteToFile
    <3>3. QED  BY <3>1, <3>2 DEF HoldsSector
  <2>3. dirty[s] \in Stored(g.half)
    BY <1>1 DEF IsCache
  <2>4. content[x] = Unpack(g.half, dirty[s])
    <3>1. SectorData(g, file, dirty, x) = Unpack(g.half, dirty[s])
      BY <1>9 DEF SectorData
    <3>2. SectorData(g, file, dirty, x) # ReadError
      BY <1>1, <1>9, SectorDataType
    <3>3. QED  BY <1>2, <3>1, <3>2, LogicalSectors
  <2>5. after[x] = Unpack(g.half, Overwritten(file[x], dirty[s], n)) /\ x \in DOMAIN after
    BY <1>7, <2>1, <2>2
  <2>6. \A i \in 0..BlockSize - 1 :
          Unpack(g.half, Overwritten(file[x], dirty[s], n))[i] \in
            {Unpack(g.half, file[x])[i], Unpack(g.half, dirty[s])[i]}
    BY <1>1, <1>5, <2>3, UnpackOverwritten
  <2> HIDE DEF before, after, content, F
  <2>7. \A i \in DOMAIN before[x] : after[x][i] \in {before[x][i], content[x][i]}
    BY <1>5, <1>6, <2>4, <2>5, <2>6
  <2>8. QED  BY <2>5, <2>7 DEF before, after, content, F
<1>10. QED  BY <1>8, <1>9

----------------------------------------------------------------------------
(* The steps of the device, in terms of the card.                           *)

(* The device is a function of the drive and its cache.                     *)
LEMMA SameDevice ==
  ASSUME UNCHANGED <<disk, files, cache>>
  PROVE  UNCHANGED <<Slot, Content, Saved>>
  BY DEF Slot, Content, Saved, LogicalCard

(* Its images are small cards, and no disk is none of them.                 *)
LEMMA NoDiskNotSmall ==
  /\ SmallCards \subseteq Images /\ NoDisk \notin SmallCards
  /\ \A i \in SmallCards : Fits(Geometry[i], Geometry[i].total)
  BY GeometryAssumption DEF SmallCards

(* A step that keeps them and the reply is no step of the device.           *)
LEMMA DeviceStutter ==
  ASSUME UNCHANGED <<Slot, Content, Saved, Reply>>
  PROVE  UNCHANGED Device!deviceVars
  BY Zenon DEF Device!deviceVars, Slot, Content, Saved, Reply

(* Nor is one that keeps the response.                                      *)
LEMMA SameReply ==
  ASSUME UNCHANGED <<disk, response>>
  PROVE  Reply' = Reply
<1>1. ReadReply' = ReadReply
  BY DEF ReadReply
<1>2. QED  BY <1>1 DEF Reply

(* What is no reply of the card is none of the device.                      *)
LEMMA NoReplyOfDevice ==
  ASSUME ReadReply' = ReadError
  PROVE  Reply' = ReadError
  BY DEF Reply

(* Any other response replaces a reply: Forget.                             *)
LEMMA DeviceForget ==
  ASSUME UNCHANGED <<Slot, Content, Saved>>, Reply' = ReadError
  PROVE  Device!Next
  BY Zenon DEF Device!Next, Device!Forget, Slot, Content, Saved, Reply

(* A reply with a sector of the content: Read.                              *)
LEMMA DeviceRead ==
  ASSUME UNCHANGED <<Slot, Content, Saved>>, Slot # NoDisk,
         NEW s \in DOMAIN Content, Reply' = Content[s]
  PROVE  Device!Next
<1>1. Device!Read(s)
  BY Zenon DEF Device!Read, Slot, Content, Saved, Reply
<1>2. QED  BY <1>1, Zenon DEF Device!Next, Content

(* A run of sectors replaced in the content: Write.                         *)
LEMMA DeviceWrite ==
  ASSUME UNCHANGED <<Slot, Saved>>, Slot # NoDisk, Reply' = ReadError,
         NEW s \in DOMAIN Content', NEW t \in DOMAIN Content', s <= t,
         NEW data \in HostBlock, Content'[s] = data,
         Content' = [x \in DOMAIN Content \union s..t |-> IF x \in s..t THEN data ELSE Content[x]]
  PROVE  Device!Next
<1>1. Device!Write(s..t, Content'[s])
  <2>1. Device!Write(s..t, data)
    BY Zenon DEF Device!Write, Slot, Content, Saved, Reply
  <2>2. QED  BY <2>1, Zenon
<1>2. Content'[s] \in HostBlock
  BY Zenon
<1>3. \E a, b \in DOMAIN Content' :
        a <= b /\ Content'[a] \in HostBlock /\ Device!Write(a..b, Content'[a])
  BY <1>1, <1>2, Zenon
<1>4. QED  BY ONLY <1>3, Zenon DEF Device!Next, Content, HostBlock

(* A part of the content copied to the image: Save.                         *)
LEMMA DeviceSave ==
  ASSUME UNCHANGED <<Slot, Reply>>, Slot # NoDisk,
         \A s \in DOMAIN Content : s \in DOMAIN Content' /\ Content'[s] = Content[s],
         \A s \in DOMAIN Content' \ DOMAIN Content :
           s \in DOMAIN Saved'[Slot] /\ Content'[s] = Saved'[Slot][s],
         \A i \in SmallCards \ {Slot} : Saved'[i] = Saved[i],
         \A s \in DOMAIN Saved[Slot] :
           /\ s \in DOMAIN Saved'[Slot]
           /\ \A i \in DOMAIN Saved[Slot][s] :
                Saved'[Slot][s][i] \in {Saved[Slot][s][i], Content[s][i]}
  PROVE  Device!Next
<1>1. DOMAIN Saved' = SmallCards
  BY DEF Saved
<1>2. Device!Save
  BY <1>1, Zenon DEF Device!Save, Slot, Content, Saved, Reply
<1>3. QED  BY <1>2, Zenon DEF Device!Next

(* The content of the image that is now inserted: Insert.                   *)
LEMMA DeviceInsert ==
  ASSUME NEW image \in SmallCards, Slot' = image, Content' = Saved[image], UNCHANGED Saved,
         Reply' = ReadError
  PROVE  Device!Next
<1>1. Device!Insert(image)
  BY Zenon DEF Device!Insert, Slot, Content, Saved, Reply
<1>2. QED  BY <1>1, Zenon DEF Device!Next

(* No disk and no content: Eject.                                           *)
LEMMA DeviceEject ==
  ASSUME disk' \notin SmallCards, UNCHANGED Saved
  PROVE  Device!Next
<1>1. Slot' = NoDisk /\ Content' = Device!Empty /\ Reply' = ReadError
  BY DEF Slot, Content, Reply, Device!Empty, NoCache
<1>2. Device!Eject
  BY <1>1, Zenon DEF Device!Eject, Slot, Content, Saved, Reply
<1>3. QED  BY <1>2, Zenon DEF Device!Next

----------------------------------------------------------------------------
(* The steps of the card.                                                   *)

(* libspectrum_mmc_eject.                                                   *)
LEMMA EjectIsDeviceStep ==
  ASSUME Eject
  PROVE  Device!Next
<1>1. disk' = NoDisk /\ UNCHANGED files
  BY DEF Eject
<1>2. UNCHANGED Saved
  BY <1>1 DEF Saved, LogicalCard
<1>3. QED  BY <1>1, <1>2, NoDiskNotSmall, DeviceEject

(* libspectrum_mmc_insert; a card that is not small ejects the disk.        *)
LEMMA InsertIsDeviceStep ==
  ASSUME NEW image \in Images, Insert(image)
  PROVE  Device!Next
<1>1. disk' = image /\ cache' = NoCache /\ UNCHANGED files /\ response' = <<>>
  BY DEF Insert, ResetCard
<1>2. UNCHANGED Saved
  BY <1>1 DEF Saved, LogicalCard
<1>3. Reply' = ReadError
  BY <1>1, ShortResponses, BriefReply, NoReplyOfDevice DEF Brief
<1>4. CASE image \in SmallCards
  <2>1. Slot' = image
    BY <1>1, <1>4 DEF Slot
  <2>2. Content' = LogicalCard(image, files[image], NoCache)
    BY <1>1, <1>4, Zenon DEF Content, LogicalCard
  <2>3. Content' = Saved[image]
    BY <1>4, <2>2 DEF Saved
  <2>4. QED  BY <1>2, <1>3, <1>4, <2>1, <2>3, DeviceInsert, Zenon
<1>5. CASE image \notin SmallCards
  BY <1>1, <1>2, <1>5, DeviceEject
<1>6. QED  BY <1>4, <1>5

(* A drive with a card, as the lemmas on sectors want it.                   *)
LEMMA CardIsDrive ==
  ASSUME Inv, CardSize, disk \in Images
  PROVE  /\ IsDrive(Geometry[disk], files[disk], cache, Geometry[disk].total)
         /\ Half = Geometry[disk].half /\ Half \in BOOLEAN
         /\ HasLayout(Geometry[disk])
         /\ Geometry[disk].total \in Nat
<1>1. disk # NoDisk
  BY GeometryAssumption
<1>2. HasLayout(Geometry[disk]) /\ Geometry[disk].total \in Nat
  BY LayoutType
<1>3. IsFile(Geometry[disk], files[disk]) /\ IsCache(Half, cache)
  BY <1>1 DEF Inv, TypeOK, DriveTypeOK
<1>4. DOMAIN cache \subseteq 0..Geometry[disk].total - 1
  BY <1>1 DEF Inv, DirtySectorsOnCard, CardSize
<1>5. QED  BY <1>2, <1>3, <1>4, HalfType DEF IsDrive

(* libspectrum_mmc_commit, whatever part of a sector it writes.             *)
LEMMA CommitIsDeviceStep ==
  ASSUME DeviceInv, Commit
  PROVE  Device!Next \/ UNCHANGED Device!deviceVars
<1>1. disk \in Images /\ disk # NoDisk /\ UNCHANGED <<disk, response>> /\ DOMAIN files = Images
  BY DEF DeviceInv, Inv, TypeOK, DriveTypeOK, Commit
<1> DEFINE g == Geometry[disk]
           file == files[disk]
           total == Geometry[disk].total
<1>2. IsDrive(g, file, cache, total) /\ Half = g.half
  BY <1>1, CardIsDrive DEF DeviceInv
<1>3. PICK s \in DOMAIN cache, n \in 1..SectorSize(Half) :
        /\ files' = [files EXCEPT ![disk] = WriteToFile(g, files[disk], s, cache[s], n)]
        /\ cache' = KeepInCache(Half, cache, s, n)
  BY Zenon DEF Commit
<1> DEFINE F == WriteToFile(g, file, s, cache[s], n)
           K == KeepInCache(g.half, cache, s, n)
<1>4. /\ files'[disk] = F /\ cache' = K
      /\ \A i \in Images \ {disk} : files'[i] = files[i]
  BY <1>1, <1>2, <1>3
<1>5. UNCHANGED <<Slot, Reply>>
  BY <1>1, SameReply DEF Slot
<1>6. \A i \in SmallCards \ {disk} : Saved'[i] = Saved[i]
  BY <1>4, NoDiskNotSmall DEF Saved, LogicalCard
<1>7. CASE disk \notin SmallCards
  <2>1. Content' = Content
    BY <1>1, <1>7 DEF Content
  <2>2. Saved' = Saved
    BY <1>6, <1>7 DEF Saved
  <2>3. QED  BY <1>5, <2>1, <2>2, DeviceStutter
<1>8. CASE disk \in SmallCards
  <2>1. Fits(g, total) /\ n \in 1..SectorSize(g.half)
    BY <1>2, <1>8, NoDiskNotSmall, Zenon
  <2>2. Slot = disk
    BY <1>8 DEF Slot
  <2>3. /\ Content = Logical(g, file, cache, total)
        /\ Content' = Logical(g, F, K, total)
        /\ Saved[disk] = Logical(g, file, NoCache, total)
        /\ Saved'[disk] = Logical(g, F, NoCache, total)
    BY <1>1, <1>4, <1>8 DEF Content, Saved, LogicalCard
  <2> HIDE DEF g, file, total
  <2>4. \A x : /\ x \in DOMAIN Content => x \in DOMAIN Content' /\ Content'[x] = Content[x]
               /\ x \in DOMAIN Content' \ DOMAIN Content =>
                    x \in DOMAIN Saved'[disk] /\ Content'[x] = Saved'[disk][x]
    BY <1>2, <2>1, <2>3, CommitContent
  <2>5. \A x \in DOMAIN Saved[disk] :
          /\ x \in DOMAIN Saved'[disk]
          /\ \A i \in DOMAIN Saved[disk][x] :
               Saved'[disk][x][i] \in {Saved[disk][x][i], Content[x][i]}
    BY <1>2, <2>1, <2>3, CommitSaved
  <2>6. QED  BY <1>1, <1>5, <1>6, <2>2, <2>4, <2>5, DeviceSave, Zenon
<1>9. QED  BY <1>7, <1>8

(* READ_SINGLE_BLOCK, from the cache or from the image.                     *)
LEMMA ReadIsDeviceStep ==
  ASSUME DeviceInv, NEW block \in Block, SectorRead(block)
  PROVE  Device!Next \/ UNCHANGED Device!deviceVars
<1>1. ReadReply' = block
  BY SectorReply
<1>2. UNCHANGED disk /\ UNCHANGED <<Slot, Content, Saved>>
  BY SameDevice DEF SectorRead, driveVars
<1>3. CASE disk \notin SmallCards
  <2>1. Reply' = Reply
    BY <1>2, <1>3 DEF Reply
  <2>2. QED  BY <1>2, <2>1, DeviceStutter
<1>4. CASE disk \in SmallCards
  <2>1. Slot # NoDisk /\ Reply' = block
    BY <1>1, <1>2, <1>4, NoDiskNotSmall DEF Slot, Reply
  <2>2. Argument \in 0..Geometry[disk].total - 1
    <3>1. disk \in Images /\ disk # NoDisk
      BY <1>4, NoDiskNotSmall
    <3>2. total_sectors = Geometry[disk].total /\ Geometry[disk].total \in Nat
      BY <3>1, LayoutType DEF DeviceInv, CardSize
    <3>3. QED  BY <3>2 DEF SectorRead
  <2>3. block = SectorData(Geometry[disk], files[disk], cache, Argument) /\ block # ReadError
    BY DEF SectorRead, ReadOutcomes
  <2>4. Content = Logical(Geometry[disk], files[disk], cache, Geometry[disk].total)
    BY <1>4, Zenon DEF Content, LogicalCard
  <2>5. Argument \in DOMAIN Content /\ Content[Argument] = block
    BY <2>2, <2>3, <2>4, LogicalSectors
  <2>6. QED  BY <1>2, <2>1, <2>5, DeviceRead, Zenon
<1>5. QED  BY <1>3, <1>4

(* A write of one buffer to consecutive sectors of the cache.               *)
LEMMA WriteIsDeviceStep ==
  ASSUME DeviceInv, disk \in Images, UNCHANGED <<disk, files>>, Brief,
         NEW s \in Nat, NEW t \in Nat, s <= t, t < total_sectors,
         NEW block \in [0..BlockSize - 1 -> DataBytes \union {0}],
         cache' = WriteSectors(Half, cache, s..t, block)
  PROVE  Device!Next
<1> DEFINE g == Geometry[disk]
           total == Geometry[disk].total
           data == AsStored(Half, block)
           S == s..t
<1>1. HasLayout(g) /\ Half = g.half /\ Half \in BOOLEAN /\ total \in Nat
  BY CardIsDrive DEF DeviceInv
<1>2. data \in HostBlock
  BY <1>1, AsStoredType
<1>3. Reply' = ReadError
  BY BriefReply, NoReplyOfDevice
<1>4. UNCHANGED <<Slot, Saved>>
  BY DEF Slot, Saved, LogicalCard
<1>5. CASE disk \notin SmallCards
  BY <1>3, <1>4, <1>5, DeviceEject
<1>6. CASE disk \in SmallCards
  <2>1. Slot # NoDisk
    BY <1>6, NoDiskNotSmall DEF Slot
  <2>2. Content = Logical(g, files[disk], cache, total)
    BY <1>6, Zenon DEF Content, LogicalCard
  <2>3. Content' = Logical(g, files[disk], WriteSectors(Half, cache, S, block), total)
    BY <1>6 DEF Content, LogicalCard
  <2>4. S \subseteq 0..total - 1 /\ s \in S /\ t \in S
    <3>1. disk # NoDisk
      BY GeometryAssumption
    <3>2. t < total
      BY <3>1 DEF DeviceInv, CardSize
    <3>3. QED  BY <1>1, <3>2
  <2>5. block \in Block
    <3>1. DataBytes \union {0} \subseteq Byte
      BY InputAssumption DEF Byte
    <3>2. \A i \in 0..BlockSize - 1 : block[i] \in Byte
      BY <3>1
    <3>3. QED  BY <3>2 DEF Block
  <2> HIDE DEF data, S, g, total
  <2>6. Logical(g, files[disk], WriteSectors(g.half, cache, S, block), total) =
          Written(Logical(g, files[disk], cache, total), S, AsStored(g.half, block))
    <3>1. Writable(g, total, S, block)
      BY <1>1, <2>4, <2>5 DEF HasLayout, Writable
    <3>2. QED  BY <3>1, WriteContent, SMT
  <2>7. Content' = [x \in DOMAIN Content \union S |-> IF x \in S THEN data ELSE Content[x]]
    BY <1>1, <2>2, <2>3, <2>6, Zenon DEF data, Written
  <2>8. s \in DOMAIN Content' /\ t \in DOMAIN Content' /\ Content'[s] = data
    BY <2>4, <2>7
  <2>9. QED  BY <1>2, <1>3, <1>4, <2>1, <2>7, <2>8, DeviceWrite, Zenon DEF S
<1>7. QED  BY <1>5, <1>6

(* ERASE: zeros in every sector of the range, or a refusal.                 *)
LEMMA EraseIsDeviceStep ==
  ASSUME DeviceInv, Erase
  PROVE  cache' = cache \/ Device!Next
<1>1. PICK status : ExecuteTail(status)
  BY Zenon DEF Erase
<1>2. disk \in Images /\ UNCHANGED <<disk, files>>
  BY <1>1 DEF ExecuteTail, Receive, driveVars, DeviceInv, Inv, TypeOK, DriveTypeOK
<1>3. ASSUME erase_sequence = "WR_BLK_END", response' = <<R1Byte(r1_status), 1>>,
             cache' = WriteSectors(Half, cache, erase_block_start..erase_block_end, ZeroBlock)
      PROVE  Device!Next
  <2>1. /\ erase_block_start \in Nat /\ erase_block_end \in Nat
        /\ erase_block_start <= erase_block_end /\ erase_block_end < total_sectors
    BY <1>3 DEF DeviceInv, Inv, TypeOK, ProtocolTypeOK, EraseRangeOnCard
  <2>2. ZeroBlock \in [0..BlockSize - 1 -> DataBytes \union {0}]
    BY DEF ZeroBlock
  <2>3. Brief
    BY <1>3, ShortResponses DEF Brief
  <2>4. QED  BY <1>2, <1>3, <2>1, <2>2, <2>3, WriteIsDeviceStep, Zenon
<1>4. QED  BY <1>3, Zenon DEF Erase

(* The last byte of a data packet: the buffer becomes a sector.             *)
LEMMA DataIsDeviceStep ==
  ASSUME DeviceInv, ReceiveDataCrc2
  PROVE  cache' = cache \/ Device!Next
<1>1. disk \in Images /\ UNCHANGED <<disk, files>>
  BY DEF ReceiveDataCrc2, Receive, driveVars, DeviceInv, Inv, TypeOK, DriveTypeOK
<1>2. ASSUME cache' = WriteSectors(Half, cache, {Argument}, send_buffer), response' = <<5, 1>>,
             ~(Argument >= total_sectors)
      PROVE  Device!Next
  <2>1. Argument \in Nat /\ Argument < total_sectors
    BY <1>2, ArgumentType DEF DeviceInv, Inv, TypeOK, InputTypeOK, DriveTypeOK
  <2>2. {Argument} = Argument..Argument /\ Argument <= Argument
    BY <2>1
  <2>3. Brief
    BY <1>2, ShortResponses DEF Brief
  <2>4. send_buffer \in [0..BlockSize - 1 -> DataBytes \union {0}]
    BY DEF DeviceInv, BufferFromHost
  <2>5. cache' = WriteSectors(Half, cache, Argument..Argument, send_buffer)
    BY <1>2, <2>2, Zenon
  <2>6. QED  BY <1>1, <2>1, <2>2, <2>3, <2>4, <2>5, WriteIsDeviceStep, Zenon
<1>3. QED  BY <1>2, Zenon DEF ReceiveDataCrc2, WriteSingleBlock

(* Every step of the card is a step of the device, or none.                 *)
LEMMA StepRefines ==
  ASSUME DeviceInv, Next
  PROVE  [Device!Next]_(Device!deviceVars)
<1>0. Inv
  BY DEF DeviceInv
<1>1. ASSUME UNCHANGED <<disk, files, cache>>
      PROVE  [Device!Next]_(Device!deviceVars)
  <2>1. UNCHANGED <<Slot, Content, Saved>>
    BY <1>1, SameDevice
  <2>2. CASE UNCHANGED response
    BY <1>1, <2>1, <2>2, SameReply, DeviceStutter
  <2>3. CASE ReadReply' = ReadError
    BY <2>1, <2>3, NoReplyOfDevice, DeviceForget
  <2>4. ASSUME NEW block \in Block, SectorRead(block)
        PROVE  [Device!Next]_(Device!deviceVars)
    BY <2>4, ReadIsDeviceStep
  <2>5. QED  BY <1>0, <2>2, <2>3, <2>4, ResponseCases, BriefReply, TailReply
<1>2. UNCHANGED <<driveVars, cache>> => UNCHANGED <<disk, files, cache>>
  BY DEF driveVars
<1>3. CASE Erase
  <2>1. UNCHANGED <<disk, files>>
    BY <1>3, Zenon DEF Erase, ExecuteTail, driveVars
  <2>2. QED  BY <1>1, <1>3, <2>1, EraseIsDeviceStep
<1>4. CASE ReceiveDataCrc2
  <2>1. UNCHANGED <<disk, files>>
    BY <1>4, Zenon DEF ReceiveDataCrc2, driveVars
  <2>2. QED  BY <1>1, <1>4, <2>1, DataIsDeviceStep
<1>5. CASE Commit
  BY <1>5, CommitIsDeviceStep
<1>6. QED
  BY <1>0, <1>1, <1>2, <1>3, <1>4, <1>5, DriveFrame, EjectIsDeviceStep, InsertIsDeviceStep,
     Zenon

----------------------------------------------------------------------------
(* The three further facts.                                                 *)

(* total_sectors changes with the image.                                    *)
LEMMA CardSizeStep ==
  ASSUME DeviceInv, Next
  PROVE  CardSize'
<1>0. CardSize /\ Inv
  BY DEF DeviceInv
<1>1. CASE UNCHANGED <<disk, total_sectors>>
  BY <1>0, <1>1 DEF CardSize
<1>2. CASE UNCHANGED driveVars
  BY <1>1, <1>2 DEF driveVars
<1>3. CASE Eject
  BY <1>3 DEF Eject, CardSize
<1>4. ASSUME NEW image \in Images, Insert(image)
      PROVE  CardSize'
  BY <1>4 DEF Insert, CardSize
<1>5. CASE Commit
  BY <1>1, <1>5 DEF Commit
<1>6. CASE Erase \/ ReceiveDataCrc2
  BY <1>2, <1>6, Zenon DEF Erase, ExecuteTail, ReceiveDataCrc2
<1>7. QED  BY <1>2, <1>3, <1>4, <1>5, <1>6, DriveFrame

(* The buffer changes by a byte of the host or back to zeros.               *)
LEMMA BufferStep ==
  ASSUME DeviceInv, Next
  PROVE  BufferFromHost'
<1>0. BufferFromHost /\ Inv
  BY DEF DeviceInv
<1>1. CASE UNCHANGED send_buffer
  BY <1>0, <1>1 DEF BufferFromHost
<1>2. CASE send_buffer' = ZeroBlock
  BY <1>2 DEF BufferFromHost, ZeroBlock
<1>3. ASSUME NEW byte \in DataBytes, ReceiveData(byte)
      PROVE  BufferFromHost'
  BY <1>0, <1>3 DEF BufferFromHost, ReceiveData
<1>4. CASE Execute
  BY <1>1, <1>2, <1>4, ExecuteFrame, Zenon DEF Erase
<1>5. QED
  BY <1>1, <1>3, <1>4, Zenon DEF Next, Reset, Eject, Insert, Commit, ReadResponse,
     ReceiveCommand, ReceiveArgument, ReceiveToken, ReceiveDataCrc1, ReceiveDataCrc2, inputVars

(* Only a sector makes a long response, and it fits.                        *)
LEMMA ResponseFitsStep ==
  ASSUME DeviceInv, Next
  PROVE  ResponseFits'
<1>1. CASE UNCHANGED response
  BY <1>1 DEF DeviceInv, ResponseFits
<1>2. CASE Brief
  <2>1. \A n \in 0..5 : n <= BlockSize + 4
    BY EvenBlock
  <2>2. QED  BY <1>2, <2>1, Zenon DEF Brief, ResponseFits
<1>3. ASSUME NEW block \in Block, SectorRead(block)
      PROVE  ResponseFits'
  <2>1. Len(response') = BlockSize + 4
    BY <1>3, SectorResponseShape DEF SectorRead
  <2>2. BlockSize + 4 <= BlockSize + 4
    BY EvenBlock
  <2>3. QED  BY <2>1, <2>2, Zenon DEF ResponseFits
<1>4. QED  BY <1>1, <1>2, <1>3, ResponseCases, TailReply DEF DeviceInv

(* The card starts as a device without a disk and without a reply.          *)
LEMMA InitRefines ==
  ASSUME Init
  PROVE  Device!Init /\ BufferFromHost /\ ResponseFits /\ CardSize
<1>1. disk = NoDisk /\ response = <<>> /\ send_buffer = ZeroBlock
  BY DEF Init
<1>2. Len(response) = 0 /\ 0 <= BlockSize + 4
  BY <1>1, EvenBlock
<1>3. Slot = NoDisk /\ Content = Device!Empty /\ Reply = ReadError /\ NoDisk \notin SmallCards
  BY <1>1, NoDiskNotSmall DEF Slot, Content, Reply, NoCache, Device!Empty
<1>4. DOMAIN Saved = SmallCards
  BY DEF Saved
<1>5. Device!Init
  BY <1>3, <1>4, Zenon DEF Device!Init, Slot, Content, Saved, Reply
<1>6. QED  BY <1>1, <1>2, <1>5 DEF BufferFromHost, ResponseFits, CardSize, ZeroBlock

(* For the images below 4 GB the card implements the block device, whatever *)
(* other images are inserted between them: what the host reads is what it   *)
(* last wrote, a commit of a sector or a part of it changes nothing that    *)
(* can be read, and an ejected image holds what it held or what was         *)
(* committed.                                                               *)
THEOREM CardIsBlockDevice == Spec => DeviceSpec
<1> DEFINE Further == BufferFromHost /\ ResponseFits /\ CardSize
<1>1. Init => Device!Init /\ Further
  BY InitRefines
<1>2. DeviceInv /\ [Next]_vars => [Device!Next]_(Device!deviceVars)
  <2>1. UNCHANGED vars => UNCHANGED <<Slot, Content, Saved, Reply>>
    BY SameDevice, SameReply DEF vars, driveVars
  <2>2. QED  BY <2>1, StepRefines, DeviceStutter
<1>3. Inv /\ Further /\ [Next]_vars => Further'
  <2>1. UNCHANGED vars => UNCHANGED <<send_buffer, response, disk, total_sectors>>
    BY DEF vars, inputVars, driveVars
  <2>2. QED
    BY <2>1, BufferStep, ResponseFitsStep, CardSizeStep
       DEF DeviceInv, BufferFromHost, ResponseFits, CardSize
<1> HIDE DEF Further
<1>4. Spec => []Further
  BY <1>1, <1>3, Invariance, PTL DEF Spec
<1>5. Inv /\ Further => DeviceInv
  BY DEF DeviceInv, Further
<1>6. QED
  BY <1>1, <1>2, <1>4, <1>5, Invariance, PTL DEF Spec, DeviceSpec, Device!Spec

=============================================================================
