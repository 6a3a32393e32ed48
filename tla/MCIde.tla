------------------------------- MODULE MCIde -------------------------------
(***************************************************************************)
(* Small IDE channels for TLC: blocks of two bytes, tracks of one sector    *)
(* and registers of two values, so that LBA counts to eight and a count of  *)
(* 0 means two sectors.  The data bus picks the scenario:                   *)
(* with DATA16_DATA2 the machine addresses the sectors of `hdd` in every    *)
(* way, with DATA16_BYTESWAP it works on the data of `tiny` in either drive *)
(* and the emulator commits it.                                             *)
(***************************************************************************)
EXTENDS Ide

CONSTANTS hdd, tiny

Tracks(half, header, cylinders, heads) ==
  [half |-> half, header |-> header, cylinders |-> cylinders, heads |-> heads, sectors |-> 1]

\* `hdd` has a sector more than there are positions in a file; `tiny` stores the
\* low bytes of two sectors behind a header of one.
MCGeometry ==
  [i \in Images |-> IF i = hdd THEN Tracks(FALSE, 0, 3, 2) ELSE Tracks(TRUE, 1, 2, 1)]

\* All the machine writes are zeros.
MCFiles ==
  [i \in Images |-> IF i = hdd THEN [p \in 0..5 |-> ZeroBlock]
                               ELSE [p \in -1..1 |-> Pack(TRUE, [b \in 0..1 |-> 1])]]

AllRegs == [r \in Registers |-> {0, 1}]

MCRegs == [AllRegs EXCEPT !.high = {}]

MCHeads ==
  {[head |-> 0, dev |-> FALSE, lba |-> FALSE], [head |-> 1, dev |-> FALSE, lba |-> FALSE]}
    \union {[head |-> 0, dev |-> dev, lba |-> TRUE] : dev \in BOOLEAN}

\* An image with more sectors than the three address registers can count.
LargeGeometry == [i \in Images |-> Tracks(FALSE, 0, 3, 3)]

LargeFiles == [i \in Images |-> NoCache]

LargeHeads == {[head |-> 0, dev |-> FALSE, lba |-> TRUE]}

Disks == {drive[u].disk : u \in Units}

\* Bound: one drive, and at most one dirty sector at a time.
Transfers ==
  /\ Disks \subseteq {hdd, NoDisk} /\ drive[1].disk = NoDisk /\ selected = 0
  /\ \A s, t \in DOMAIN cache[0] : s = t

\* Bound: LBA up to the first sector that is not there, after a reset too; no
\* command is unknown, and the file can be read.
Storage ==
  /\ Disks \subseteq {tiny, NoDisk}
  /\ \A u \in Units : drive[u].error \notin {ABRT, ABRT_UNC}
  /\ \/ reg \in {ResetRegs(present) : present \in BOOLEAN}
     \/ reg.lba /\ reg.head = 0 /\ Lba(reg) <= 2

Scenarios == IF databus = "DATA16_BYTESWAP" THEN Storage ELSE Transfers

=============================================================================
