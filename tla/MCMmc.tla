------------------------------- MODULE MCMmc -------------------------------
(***************************************************************************)
(* Small MMC cards for TLC: blocks of two bytes, C_SIZE in units of two     *)
(* sectors.  Every command is sent in every state; data other than zeros    *)
(* only to an initialised card, with the commands that touch sectors.       *)
(***************************************************************************)
EXTENDS Mmc

CONSTANTS card, odd

\* `card` is a proper image whose file ends after a header of one sector, and
\* just fits the positions of a file; `odd` stores low bytes only, so that it is
\* refused but stays in the drive.
MCGeometry ==
  [i \in Images |-> IF i = card THEN [half |-> FALSE, header |-> 1, total |-> 2]
                                ELSE [half |-> TRUE, header |-> 0, total |-> 7]]

MCInitialFiles ==
  [i \in Images |-> IF i = card THEN [p \in {-1} |-> ZeroBlock]
                                ELSE [p \in {0} |-> Pack(TRUE, ZeroBlock)]]

\* A card of an accepted size, with four sectors on three places.
LargeGeometry == [i \in Images |-> [half |-> FALSE, header |-> 1, total |-> 4]]

LargeFiles == [i \in Images |-> [p \in -1..1 |-> ZeroBlock]]

LargeArgBytes == <<{0, 64}, {0}, {0}, {0, 3}>>

ProtocolCommands ==
  {GO_IDLE_STATE, SEND_IF_COND, SEND_CSD, SEND_CID, READ_SINGLE_BLOCK, WRITE_BLOCK,
   ERASE_WR_BLK_START, ERASE_WR_BLK_END, ERASE, SD_SEND_OP_COND, APP_CMD, READ_OCR, 13}

\* The first byte carries HCS, the last one the sector.
ProtocolArgBytes == <<{0, 64}, {0}, {0}, {0, 1}>>

StorageCommands ==
  {READ_SINGLE_BLOCK, WRITE_BLOCK, ERASE_WR_BLK_START, ERASE_WR_BLK_END, ERASE}

\* Bound: a whole block is all zeros or all ones, and while there are ones, on
\* their way, in the cache or in a file, the card stays in the drive,
\* initialised, and is sent only the commands that touch sectors.
NoData ==
  /\ send_buffer = ZeroBlock
  /\ \A s \in DOMAIN cache : cache[s] \in {ZeroBlock, Pack(TRUE, ZeroBlock)}
  /\ \A s \in DOMAIN files[card] : files[card][s] = ZeroBlock

DataOnInitialisedCard ==
  \/ NoData
  \/ /\ disk = card /\ IN_IDLE_STATE \notin r1_status /\ cmd8_issued /\ ~cmd55_issued
     /\ current_command \in StorageCommands
     /\ current_argument \in {<<0, 0, 0, s>> : s \in {0, 1}}
     /\ command_state # "WAITING_FOR_DATA" => send_buffer[0] = send_buffer[1]

\* The commands that look at their argument.
ArgumentCommands == StorageCommands \union {SD_SEND_OP_COND}

\* Bound: a host that sends a command has read the last response, or leaves a
\* whole block; it sends zeros as the argument of a command that does not act
\* on one, and as the sector of the refused image.
HostInCommand ==
  \A i \in 1..5 : command_state = ArgumentStates[i] =>
    /\ Len(response) \in {0, BlockSize + 4}
    /\ current_command \notin ArgumentCommands => \A j \in 1..i - 1 : current_argument[j] = 0
    /\ disk = odd => current_argument[4] = 0

=============================================================================
