-------------------------------- MODULE Mmc --------------------------------
(***************************************************************************)
(* The emulated MMC/SDHC card of mmc.c in SPI mode.                         *)
(*                                                                         *)
(* The host talks to the card one byte at a time: libspectrum_mmc_write     *)
(* feeds the command state machine (command byte, four argument bytes, CRC *)
(* and, for WRITE_BLOCK, a token, a block and its CRC), libspectrum_mmc_read *)
(* takes the next byte of the last response.  The emulator inserts, ejects, *)
(* resets and commits the card between any two bytes.                      *)
(*                                                                         *)
(* The response buffer and its two pointers are the sequence of bytes still *)
(* to be read.  Bytes that the state machine ignores (no card, not a        *)
(* command, not the token) change nothing and have no action.               *)
(***************************************************************************)
EXTENDS HdfDrive, Sequences

CONSTANTS
  Images,        \* the HDF files the emulator may insert
  NoDisk,        \* drive.disk == NULL
  Geometry,      \* of each image: its sector size, header and number of sectors
  InitialFiles,  \* what the image files hold at first
  SectorUnit,    \* sectors per unit of C_SIZE, 1024 in the code
  CSizeLimit,    \* the first C_SIZE an SDHC card cannot have, 65375
  CommandBytes,  \* the command indices the host sends
  ArgBytes,      \* the bytes it sends as argument 1..4
  DataBytes      \* the bytes it sends as data

\* The command indices of enum command_byte and application_command_byte.
GO_IDLE_STATE      == 0
SEND_IF_COND       == 8
SEND_CSD           == 9
SEND_CID           == 10
READ_SINGLE_BLOCK  == 17
WRITE_BLOCK        == 24
ERASE_WR_BLK_START == 32
ERASE_WR_BLK_END   == 33
ERASE              == 38
SD_SEND_OP_COND    == 41
APP_CMD            == 55
READ_OCR           == 58

EraseCommands == {ERASE_WR_BLK_START, ERASE_WR_BLK_END, ERASE}

\* Known to the card as application commands but not implemented.
UnimplementedAcmds == {13, 22, 23, 42, 51}

Supported == EraseCommands \union
  {GO_IDLE_STATE, SEND_IF_COND, SEND_CSD, SEND_CID, READ_SINGLE_BLOCK,
   WRITE_BLOCK, APP_CMD, READ_OCR}

ASSUME SizeAssumption ==
  /\ SectorUnit \in Nat \ {0}
  /\ CSizeLimit \in Nat /\ CSizeLimit < 65536

ASSUME InputAssumption ==
  /\ CommandBytes \subseteq 0..63
  /\ ArgBytes \in [1..4 -> SUBSET Byte]
  /\ DataBytes \subseteq Byte

ASSUME GeometryAssumption ==
  /\ NoDisk \notin Images
  /\ Geometry \in [Images -> [half : BOOLEAN, header : Nat, total : Nat]]

ASSUME FilesAssumption ==
  /\ DOMAIN InitialFiles = Images
  /\ \A i \in Images : IsFile(Geometry[i], InitialFiles[i])

\* The bits of the R1 status.
IN_IDLE_STATE == "in_idle_state"
ERASE_RESET == "erase_reset"
ILLEGAL_COMMAND == "illegal_command"
ERASE_SEQ_ERROR == "erase_seq_error"
PARAMETER_ERROR == "parameter_error"
R1Flags ==
  {IN_IDLE_STATE, ERASE_RESET, ILLEGAL_COMMAND, ERASE_SEQ_ERROR, PARAMETER_ERROR}

\* The states of the command state machine; the argument states are 0..3.
CommandStates ==
  {"WAITING_FOR_COMMAND", "WAITING_FOR_DATA0", "WAITING_FOR_DATA1",
   "WAITING_FOR_DATA2", "WAITING_FOR_DATA3", "WAITING_FOR_CRC",
   "WAITING_FOR_DATA_TOKEN", "WAITING_FOR_DATA", "WAITING_FOR_DATA_CRC1",
   "WAITING_FOR_DATA_CRC2"}

VARIABLES
  disk,              \* the file open in card->drive, or NoDisk
  files,             \* the sectors of the image files
  cache,             \* card->cache
  total_sectors,
  c_size,
  r1_status,
  command_state,
  current_command,
  current_argument,
  data_count,
  send_buffer,
  response,          \* response_buffer_next up to response_buffer_end
  cmd8_issued,
  cmd55_issued,
  erase_sequence,
  erase_block_start,
  erase_block_end

driveVars == <<disk, files, total_sectors, c_size>>
eraseVars == <<erase_sequence, erase_block_start, erase_block_end>>
inputVars == <<current_command, current_argument, data_count, send_buffer>>
vars == <<driveVars, cache, r1_status, command_state, inputVars, response,
          cmd8_issued, cmd55_issued, eraseVars>>

Idle(status) == IN_IDLE_STATE \in status

(* drive.sector_size == 256 *)
Half == Geometry[disk].half

(* The argument as libspectrum_dword, big-endian.                           *)
Argument ==
  current_argument[4] + 256 * current_argument[3]
    + 65536 * current_argument[2] + 16777216 * current_argument[1]

NoErase == erase_sequence' = "NONE" /\ erase_block_start' = 0 /\ erase_block_end' = 0

----------------------------------------------------------------------------
(* libspectrum_mmc_alloc.  c_size is not initialised: any value.  The other *)
(* fields that alloc leaves alone are written before they are read.         *)
Init ==
  /\ disk = NoDisk /\ files = InitialFiles /\ cache = NoCache
  /\ total_sectors = 0
  /\ c_size \in 0..CSizeLimit
  /\ r1_status = {IN_IDLE_STATE}
  /\ command_state = "WAITING_FOR_COMMAND"
  /\ current_command = 0
  /\ current_argument = [i \in 1..4 |-> 0]
  /\ data_count = 0
  /\ send_buffer = ZeroBlock
  /\ response = <<>>
  /\ cmd8_issued = FALSE /\ cmd55_issued = FALSE
  /\ erase_sequence = "NONE" /\ erase_block_start = 0 /\ erase_block_end = 0

(* libspectrum_mmc_reset.                                                   *)
ResetCard ==
  /\ r1_status' = {IN_IDLE_STATE}
  /\ command_state' = "WAITING_FOR_COMMAND"
  /\ response' = <<>>
  /\ cmd8_issued' = FALSE /\ cmd55_issued' = FALSE
  /\ NoErase

Reset == ResetCard /\ UNCHANGED <<driveVars, cache, inputVars>>

(* libspectrum_mmc_eject, and libspectrum_mmc_insert without a file name or *)
(* with a file that cannot be opened or has no HDF header: the uncommitted  *)
(* writes are thrown away with the image.                                   *)
Eject ==
  /\ disk' = NoDisk
  /\ cache' = NoCache
  /\ ResetCard
  /\ UNCHANGED <<files, total_sectors, c_size, inputVars>>

CSizeOf(total) == (total \div SectorUnit) - 1

(* For an empty image CSizeOf is -1, in the code 0xffffffff: too big.       *)
SizeSupported(g) ==
  /\ ~g.half
  /\ g.total % SectorUnit = 0
  /\ CSizeOf(g.total) \in 0..CSizeLimit - 1

(* libspectrum_mmc_insert.  The image is in the drive, with its sector      *)
(* count, also when its size turns out to be unsupported and an error is    *)
(* returned; only c_size keeps its old value then.  What the header says    *)
(* once a sector was written over it is not modelled: it stays outside.     *)
Insert(image) ==
  /\ HeaderIntact(files[image], InitialFiles[image])
  /\ disk' = image
  /\ cache' = NoCache
  /\ total_sectors' = Geometry[image].total
  /\ c_size' = IF SizeSupported(Geometry[image])
                 THEN CSizeOf(Geometry[image].total) ELSE c_size
  /\ ResetCard
  /\ UNCHANGED <<files, inputVars>>

(* libspectrum_mmc_commit, for one cached sector: seek and write it, all or *)
(* some of its bytes.  A commit of several is several of these steps, in    *)
(* the order of the hash table, and after each the state is the one of a    *)
(* commit whose other seeks fail.                                           *)
Commit ==
  /\ disk # NoDisk
  /\ \E s \in DOMAIN cache, n \in 1..SectorSize(Half) :
       /\ files' = [files EXCEPT
                      ![disk] = WriteToFile(Geometry[disk], files[disk], s, cache[s], n)]
       /\ cache' = KeepInCache(Half, cache, s, n)
  /\ UNCHANGED <<disk, total_sectors, c_size, r1_status, command_state,
                 inputVars, response, cmd8_issued, cmd55_issued, eraseVars>>

(* libspectrum_mmc_read; without a byte left it returns 0xff.               *)
ReadResponse ==
  /\ response # <<>>
  /\ response' = Tail(response)
  /\ UNCHANGED <<driveVars, cache, r1_status, command_state, inputVars,
                 cmd8_issued, cmd55_issued, eraseVars>>

----------------------------------------------------------------------------
(* libspectrum_mmc_write, up to the CRC of a command.                       *)

Receive(state, next) ==
  /\ disk # NoDisk
  /\ command_state = state
  /\ command_state' = next

(* parse_command: only bytes 01xxxxxx start a command.                      *)
ReceiveCommand(index) ==
  /\ Receive("WAITING_FOR_COMMAND", "WAITING_FOR_DATA0")
  /\ current_command' = index
  /\ UNCHANGED <<driveVars, cache, r1_status, current_argument, data_count,
                 send_buffer, response, cmd8_issued, cmd55_issued, eraseVars>>

ArgumentStates ==
  <<"WAITING_FOR_DATA0", "WAITING_FOR_DATA1", "WAITING_FOR_DATA2",
    "WAITING_FOR_DATA3", "WAITING_FOR_CRC">>

ReceiveArgument(i, byte) ==
  /\ Receive(ArgumentStates[i], ArgumentStates[i + 1])
  /\ current_argument' = [current_argument EXCEPT ![i] = byte]
  /\ UNCHANGED <<driveVars, cache, r1_status, current_command, data_count,
                 send_buffer, response, cmd8_issued, cmd55_issued, eraseVars>>

----------------------------------------------------------------------------
(* do_command, run when the CRC byte arrives.  A command finds the status   *)
(* `status`, adds its errors to it, answers with it, and the errors are     *)
(* dropped again before libspectrum_mmc_write returns.                      *)

Bit(status, flag, mask) == IF flag \in status THEN mask ELSE 0

\* card->r1_status as the byte that set_response_buffer_r1 stores.
R1Byte(status) ==
  Bit(status, IN_IDLE_STATE, 1) + Bit(status, ERASE_RESET, 2)
    + Bit(status, ILLEGAL_COMMAND, 4) + Bit(status, ERASE_SEQ_ERROR, 16)
    + Bit(status, PARAMETER_ERROR, 64)

R1(status) == <<R1Byte(status)>>

R7(status, b3, b2, b1, b0) == <<R1Byte(status), b3, b2, b1, b0>>

Token == 254

\* A mutant of ExecuteTail: a data phase follows an erase as well.
ExecuteTailEraseData(status) ==
  /\ Receive("WAITING_FOR_CRC",
             IF current_command \in {WRITE_BLOCK, ERASE} THEN "WAITING_FOR_DATA_TOKEN"
                                                         ELSE "WAITING_FOR_COMMAND")
  /\ r1_status' = status \intersect {IN_IDLE_STATE}
  /\ UNCHANGED <<driveVars, current_command, current_argument, data_count>>

(* What every command ends with in libspectrum_mmc_write.                   *)
ExecuteTail(status) ==
  /\ Receive("WAITING_FOR_CRC",
             IF current_command = WRITE_BLOCK THEN "WAITING_FOR_DATA_TOKEN"
                                              ELSE "WAITING_FOR_COMMAND")
  /\ r1_status' = status \intersect {IN_IDLE_STATE}
  /\ UNCHANGED <<driveVars, current_command, current_argument, data_count>>

\* The command is refused: R1 with the given error, nothing else happens.
Refuse(status, error) == response' = R1(status \union {error})

IsAcmd == cmd55_issued /\ current_command \in UnimplementedAcmds \union {SD_SEND_OP_COND}

\* A mutant of LeavesIdle: CMD8 is not asked for.
LeavesIdleOnHcs == (current_argument[1] \div 64) % 2 = 1

(* do_application_command: SD_SEND_OP_COND ends the idle state of a card    *)
(* that was asked for its interface condition and whose host supports high  *)
(* capacity (HCS, bit 6 of the first argument byte).                        *)
LeavesIdle == cmd8_issued /\ (current_argument[1] \div 64) % 2 = 1

SdSendOpCond ==
  /\ IsAcmd /\ current_command = SD_SEND_OP_COND
  /\ LET status == IF LeavesIdle THEN r1_status \ {IN_IDLE_STATE} ELSE r1_status IN
       /\ response' = R1(status)
       /\ ExecuteTail(status)
  /\ cmd55_issued' = FALSE
  /\ UNCHANGED <<cache, send_buffer, cmd8_issued, eraseVars>>

UnknownAcmd ==
  /\ IsAcmd /\ current_command \in UnimplementedAcmds
  /\ Refuse(r1_status, ILLEGAL_COMMAND)
  /\ ExecuteTail(r1_status)
  /\ cmd55_issued' = FALSE
  /\ UNCHANGED <<cache, send_buffer, cmd8_issued, eraseVars>>

(* Any command but the erase commands ends an erase sequence under way, and *)
(* says so in its status.                                                   *)
OutOfSequence == erase_sequence # "NONE" /\ current_command \notin EraseCommands

Status == IF OutOfSequence THEN r1_status \union {ERASE_RESET} ELSE r1_status

(* do_command for a standard command, also one that follows APP_CMD and is  *)
(* no application command.                                                  *)
Standard(index) ==
  /\ ~IsAcmd
  /\ current_command = index
  /\ cmd55_issued' = (index = APP_CMD)
  /\ index \notin EraseCommands =>
       IF OutOfSequence THEN NoErase ELSE UNCHANGED eraseVars

GoIdleState ==
  /\ Standard(GO_IDLE_STATE)
  /\ LET status == Status \union {IN_IDLE_STATE} IN
       response' = R1(status) /\ ExecuteTail(status)
  /\ cmd8_issued' = FALSE
  /\ UNCHANGED <<cache, send_buffer>>

SendIfCond ==
  /\ Standard(SEND_IF_COND)
  /\ response' = R7(Status, 0, 0, 1, current_argument[4])
  /\ ExecuteTail(Status)
  /\ cmd8_issued' = TRUE
  /\ UNCHANGED <<cache, send_buffer>>

(* send_csd; of the register only the C_SIZE bytes vary.                    *)
SendCsd ==
  /\ Standard(SEND_CSD)
  /\ IF Idle(Status)
       THEN Refuse(Status, ILLEGAL_COMMAND)
       ELSE response' = <<R1Byte(Status), Token, c_size \div 256, c_size % 256>>
  /\ ExecuteTail(Status)
  /\ UNCHANGED <<cache, send_buffer, cmd8_issued>>

(* send_cid; the register is a constant.                                    *)
SendCid ==
  /\ Standard(SEND_CID)
  /\ IF Idle(Status)
       THEN Refuse(Status, ILLEGAL_COMMAND)
       ELSE response' = <<R1Byte(Status), Token>>
  /\ ExecuteTail(Status)
  /\ UNCHANGED <<cache, send_buffer, cmd8_issued>>

BytesOf(block) == [i \in 1..BlockSize |-> block[i - 1]]

ReadSingleBlock ==
  /\ Standard(READ_SINGLE_BLOCK)
  /\ \/ Idle(Status) /\ Refuse(Status, ILLEGAL_COMMAND)
     \/ ~Idle(Status) /\ Argument >= total_sectors /\ Refuse(Status, PARAMETER_ERROR)
     \/ /\ ~Idle(Status) /\ Argument < total_sectors
        /\ \E block \in ReadOutcomes(Geometry[disk], files[disk], cache, Argument) :
             response' = IF block = ReadError
                           THEN <<R1Byte(Status), 1>>
                           ELSE <<R1Byte(Status), Token>> \o BytesOf(block) \o <<0, 0>>
  /\ ExecuteTail(Status)
  /\ UNCHANGED <<cache, send_buffer, cmd8_issued>>

(* WRITE_BLOCK, APP_CMD, READ_OCR and the commands nobody knows.            *)
WriteBlock ==
  /\ Standard(WRITE_BLOCK)
  /\ response' = R1(Status)
  /\ ExecuteTail(Status)
  /\ UNCHANGED <<cache, send_buffer, cmd8_issued>>

AppCmd ==
  /\ Standard(APP_CMD)
  /\ response' = R1(Status)
  /\ ExecuteTail(Status)
  /\ UNCHANGED <<cache, send_buffer, cmd8_issued>>

ReadOcr ==
  /\ Standard(READ_OCR)
  /\ response' = R7(Status, 192, 0, 0, 0)
  /\ ExecuteTail(Status)
  /\ UNCHANGED <<cache, send_buffer, cmd8_issued>>

UnknownCommand ==
  /\ \E index \in CommandBytes \ Supported : Standard(index)
  /\ Refuse(Status, ILLEGAL_COMMAND)
  /\ ExecuteTail(Status)
  /\ UNCHANGED <<cache, send_buffer, cmd8_issued>>

----------------------------------------------------------------------------
(* The erase sequence: start, end, erase.                                   *)

\* An erase command that fails after the idle check also ends the sequence.
FailErase(error) == Refuse(r1_status, error) /\ NoErase

\* An uninitialised card refuses the command and keeps the sequence.
RefuseErase == Refuse(r1_status, ILLEGAL_COMMAND) /\ UNCHANGED eraseVars

(* erase_wr_blk_start                                                       *)
EraseWrBlkStart ==
  /\ Standard(ERASE_WR_BLK_START)
  /\ \/ Idle(r1_status) /\ RefuseErase
     \/ ~Idle(r1_status) /\ erase_sequence # "NONE" /\ FailErase(ERASE_SEQ_ERROR)
     \/ /\ ~Idle(r1_status) /\ erase_sequence = "NONE"
        /\ Argument >= total_sectors /\ FailErase(PARAMETER_ERROR)
     \/ /\ ~Idle(r1_status) /\ erase_sequence = "NONE" /\ Argument < total_sectors
        /\ response' = R1(r1_status)
        /\ erase_sequence' = "WR_BLK_START"
        /\ erase_block_start' = Argument
        /\ UNCHANGED erase_block_end
  /\ ExecuteTail(r1_status)
  /\ UNCHANGED <<cache, send_buffer, cmd8_issued>>

\* A mutant of EndInRange: the order of the two ends is not checked.
EndBelowTotal == Argument < total_sectors

EndInRange == Argument < total_sectors /\ erase_block_start <= Argument

(* erase_wr_blk_end                                                         *)
EraseWrBlkEnd ==
  /\ Standard(ERASE_WR_BLK_END)
  /\ \/ Idle(r1_status) /\ RefuseErase
     \/ ~Idle(r1_status) /\ erase_sequence # "WR_BLK_START" /\ FailErase(ERASE_SEQ_ERROR)
     \/ /\ ~Idle(r1_status) /\ erase_sequence = "WR_BLK_START"
        /\ ~EndInRange /\ FailErase(PARAMETER_ERROR)
     \/ /\ ~Idle(r1_status) /\ erase_sequence = "WR_BLK_START" /\ EndInRange
        /\ response' = R1(r1_status)
        /\ erase_sequence' = "WR_BLK_END"
        /\ erase_block_end' = Argument
        /\ UNCHANGED erase_block_start
  /\ ExecuteTail(r1_status)
  /\ UNCHANGED <<cache, send_buffer, cmd8_issued>>

(* erase: every sector of the range is written with zeros, through the      *)
(* buffer that WRITE_BLOCK data arrives in.                                 *)
Erase ==
  /\ Standard(ERASE)
  /\ \/ Idle(r1_status) /\ RefuseErase /\ UNCHANGED <<cache, send_buffer>>
     \/ /\ ~Idle(r1_status) /\ erase_sequence # "WR_BLK_END"
        /\ FailErase(ERASE_SEQ_ERROR) /\ UNCHANGED <<cache, send_buffer>>
     \/ /\ ~Idle(r1_status) /\ erase_sequence = "WR_BLK_END"
        /\ send_buffer' = ZeroBlock
        /\ cache' = WriteSectors(Half, cache, erase_block_start..erase_block_end, ZeroBlock)
        /\ response' = <<R1Byte(r1_status), 1>>
        /\ NoErase
  /\ ExecuteTail(r1_status)
  /\ UNCHANGED cmd8_issued

----------------------------------------------------------------------------
(* The data phase of WRITE_BLOCK.                                           *)

\* A mutant of ReceiveToken: data_count is left where the last block ended.
ReceiveTokenKeepsCount ==
  /\ Receive("WAITING_FOR_DATA_TOKEN", "WAITING_FOR_DATA")
  /\ UNCHANGED <<driveVars, cache, r1_status, inputVars, response,
                 cmd8_issued, cmd55_issued, eraseVars>>

ReceiveToken ==
  /\ Receive("WAITING_FOR_DATA_TOKEN", "WAITING_FOR_DATA")
  /\ data_count' = 0
  /\ UNCHANGED <<driveVars, cache, r1_status, current_command, current_argument,
                 send_buffer, response, cmd8_issued, cmd55_issued, eraseVars>>

ReceiveData(byte) ==
  /\ Receive("WAITING_FOR_DATA",
             IF data_count + 1 = BlockSize THEN "WAITING_FOR_DATA_CRC1" ELSE "WAITING_FOR_DATA")
  /\ send_buffer' = [send_buffer EXCEPT ![data_count] = byte]
  /\ data_count' = data_count + 1
  /\ UNCHANGED <<driveVars, cache, r1_status, current_command, current_argument,
                 response, cmd8_issued, cmd55_issued, eraseVars>>

ReceiveDataCrc1 ==
  /\ Receive("WAITING_FOR_DATA_CRC1", "WAITING_FOR_DATA_CRC2")
  /\ UNCHANGED <<driveVars, cache, r1_status, inputVars, response,
                 cmd8_issued, cmd55_issued, eraseVars>>

\* A mutant of WriteSingleBlock: the card writes before it is initialised.
WriteSingleBlockUnchecked ==
  IF Argument >= total_sectors
    THEN /\ r1_status' = r1_status \union {PARAMETER_ERROR}
         /\ response' = R1(r1_status')
         /\ UNCHANGED cache
    ELSE /\ cache' = WriteSectors(Half, cache, {Argument}, send_buffer)
         /\ response' = <<5, 1>>
         /\ UNCHANGED r1_status

\* A mutant of WriteSingleBlock: the sector number is not checked.
WriteSingleBlockAnywhere ==
  IF Idle(r1_status)
    THEN /\ r1_status' = r1_status \union {ILLEGAL_COMMAND}
         /\ response' = R1(r1_status')
         /\ UNCHANGED cache
    ELSE /\ cache' = WriteSectors(Half, cache, {Argument}, send_buffer)
         /\ response' = <<5, 1>>
         /\ UNCHANGED r1_status

(* write_single_block.  Unlike after the CRC of a command, the errors it    *)
(* puts into r1_status stay there.                                          *)
WriteSingleBlock ==
  IF Idle(r1_status) \/ Argument >= total_sectors
    THEN /\ r1_status' = r1_status \union
              {IF Idle(r1_status) THEN ILLEGAL_COMMAND ELSE PARAMETER_ERROR}
         /\ response' = R1(r1_status')
         /\ UNCHANGED cache
    ELSE /\ cache' = WriteSectors(Half, cache, {Argument}, send_buffer)
         /\ response' = <<5, 1>>
         /\ UNCHANGED r1_status

(* do_command_data; any command but WRITE_BLOCK would be the failure of the *)
(* state machine that its default case reports.                             *)
ReceiveDataCrc2 ==
  /\ Receive("WAITING_FOR_DATA_CRC2", "WAITING_FOR_COMMAND")
  /\ IF current_command = WRITE_BLOCK
       THEN WriteSingleBlock ELSE UNCHANGED <<cache, r1_status, response>>
  /\ UNCHANGED <<driveVars, inputVars, cmd8_issued, cmd55_issued, eraseVars>>

----------------------------------------------------------------------------
Execute ==
  \/ SdSendOpCond \/ UnknownAcmd
  \/ GoIdleState \/ SendIfCond \/ SendCsd \/ SendCid
  \/ ReadSingleBlock \/ WriteBlock \/ AppCmd \/ ReadOcr \/ UnknownCommand
  \/ EraseWrBlkStart \/ EraseWrBlkEnd \/ Erase

Next ==
  \/ Reset
  \/ Eject
  \/ \E image \in Images : Insert(image)
  \/ Commit
  \/ ReadResponse
  \/ \E index \in CommandBytes : ReceiveCommand(index)
  \/ \E i \in 1..4 : \E byte \in ArgBytes[i] : ReceiveArgument(i, byte)
  \/ Execute
  \/ ReceiveToken
  \/ \E byte \in DataBytes : ReceiveData(byte)
  \/ ReceiveDataCrc1
  \/ ReceiveDataCrc2

Spec == Init /\ [][Next]_vars

----------------------------------------------------------------------------
DriveTypeOK ==
  /\ disk \in Images \union {NoDisk}
  /\ DOMAIN files = Images
  /\ \A i \in Images : IsFile(Geometry[i], files[i])
  /\ disk # NoDisk => IsCache(Half, cache)
  /\ total_sectors \in Nat
  /\ c_size \in 0..CSizeLimit

InputTypeOK ==
  /\ current_command \in 0..63
  /\ current_argument \in [1..4 -> Byte]
  /\ data_count \in 0..BlockSize
  /\ send_buffer \in Block

ProtocolTypeOK ==
  /\ r1_status \subseteq R1Flags
  /\ command_state \in CommandStates
  /\ cmd8_issued \in BOOLEAN
  /\ cmd55_issued \in BOOLEAN
  /\ erase_sequence \in {"NONE", "WR_BLK_START", "WR_BLK_END"}
  /\ erase_block_start \in Nat
  /\ erase_block_end \in Nat

(* Every field of the card has its type: the file has no gaps, the cache    *)
(* holds sectors of the size of the inserted image, data_count stays inside *)
(* send_buffer and every response is made of bytes.                         *)
TypeOK == DriveTypeOK /\ InputTypeOK /\ ProtocolTypeOK /\ response \in Seq(Byte)

(* The card is in a data state only for WRITE_BLOCK, so that the branch of  *)
(* do_command_data that "should never happen" does not, and a data byte     *)
(* always has a place in the 512 byte send_buffer.                          *)
DataPhaseIsWrite ==
  /\ command_state \in {"WAITING_FOR_DATA_TOKEN", "WAITING_FOR_DATA",
                        "WAITING_FOR_DATA_CRC1", "WAITING_FOR_DATA_CRC2"}
       => current_command = WRITE_BLOCK
  /\ command_state = "WAITING_FOR_DATA" => data_count < BlockSize

(* A card that has left the idle state is in the drive and was sent CMD8    *)
(* since the last reset or GO_IDLE_STATE: the comment on SD_SEND_OP_COND.   *)
ReadyMeansInitialised ==
  ~Idle(r1_status) => cmd8_issued /\ disk # NoDisk

(* The range an ERASE command would clear lies on the card, whatever was    *)
(* sent, reset, ejected or inserted since it was programmed; a programmed   *)
(* range belongs to an initialised card and no APP_CMD came in between.     *)
EraseRangeOnCard ==
  /\ erase_sequence = "WR_BLK_START" => erase_block_start < total_sectors
  /\ erase_sequence = "WR_BLK_END" =>
       erase_block_start <= erase_block_end /\ erase_block_end < total_sectors
  /\ erase_sequence # "NONE" => ~Idle(r1_status) /\ ~cmd55_issued
  /\ erase_sequence = "NONE" => erase_block_start = 0 /\ erase_block_end = 0

(* Only sectors of the inserted image are ever dirty, and no sector is when *)
(* there is no image: eject leaves nothing to write to the next image.      *)
DirtySectorsOnCard ==
  /\ DOMAIN cache \subseteq 0..total_sectors - 1
  /\ disk = NoDisk => DOMAIN cache = {}

(* A sector becomes dirty or a dirty one changes only on an initialised     *)
(* card, and never between the bytes of a command or of its data.           *)
NoWriteWhileIdle ==
  [][(\E s \in DOMAIN cache' : s \notin DOMAIN cache \/ cache'[s] # cache[s])
     => ~Idle(r1_status) /\ command_state' = "WAITING_FOR_COMMAND"]_vars

(* The comment "reset command error flags except in_idle": while the host   *)
(* sends a command, the status holds no error of an earlier one.            *)
ErrorFlagsReset ==
  command_state \in {ArgumentStates[i] : i \in 1..5} => r1_status \subseteq {IN_IDLE_STATE}

----------------------------------------------------------------------------
(* The promise of the card as a storage device.                             *)

ReadReply ==
  IF Len(response) = BlockSize + 4
    THEN [i \in 0..BlockSize - 1 |-> response[i + 3]] ELSE ReadError

\* The cards whose sectors the 32 bits of a file position tell apart.
SmallCards == {i \in Images : Fits(Geometry[i], Geometry[i].total)}

LogicalCard(i, file, dirty) == Logical(Geometry[i], file, dirty, Geometry[i].total)

Device == INSTANCE BlockDevice WITH
  Images   <- SmallCards,
  Contents <- [0..BlockSize - 1 -> DataBytes \union {0, 255}],
  NoReply  <- ReadError,
  disk     <- IF disk \in SmallCards THEN disk ELSE NoDisk,
  content  <- IF disk \in SmallCards THEN LogicalCard(disk, files[disk], cache) ELSE NoCache,
  saved    <- [i \in SmallCards |-> LogicalCard(i, files[i], NoCache)],
  reply    <- IF disk \in SmallCards THEN ReadReply ELSE ReadError

(* For the cards below 4 GB, whatever other cards are in the slot between   *)
(* them: what the host reads is what it last wrote, a commit with any       *)
(* failures changes no readable sector, and an ejected image holds what it  *)
(* held or what was committed.                                              *)
DeviceSpec == Device!Spec

(* "We emulate a SDHC card which has a maximum size of (32 Gb - 80 Mb)": a  *)
(* commit changes no readable sector of a card whose size was accepted.     *)
CommitKeepsCard ==
  [][Commit /\ SizeSupported(Geometry[disk]) =>
       LET before == LogicalCard(disk, files[disk], cache) IN
         \A s \in DOMAIN before : LogicalCard(disk, files'[disk], cache')[s] = before[s]]_vars

=============================================================================
