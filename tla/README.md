# libspectrum in TLA+

libspectrum is the library under a ZX Spectrum emulator: it reads and writes the files
of tapes, snapshots and input recordings, and it *is* a few devices: the IDE channel,
the MMC card, the tape that plays edges.  This directory holds TLA+ models of the parts
that have behaviour over time or conditions that must agree, the TLC runs that check
them, and proofs checked by TLAPS.  Source paths are relative to `src/`.

The library is single-threaded and starts nothing on its own: every step is a call
of the emulator.  What is hard is the order of the calls.  The emulated machine
decides which byte it sends next, the user decides when a disk is ejected or a
recording is rolled back, files fail or are short, and each component keeps
pointers, counters and flags that outlive the call that set them.

## Inventory

| component | state | operations | hard |
|---|---|---|---|
| HDF image and write cache (`ide.c`, shared with `mmc.c`) | image file, hash table of dirty sectors | read and write a sector, commit | a commit in which some sectors fail or get half way into the file, files shorter than their geometry, half-sector images, positions in 32 bits |
| IDE channel (`ide.c`) | two drives with status, error and geometry; shared task file registers, phase, data counter, 512 byte buffer, `sector_number` | register read/write, data read/write over four buses, six commands, insert, eject, commit, dirty, reset | multi-sector transfers, address carries, two drives sharing one buffer, ejects in mid transfer |
| MMC card (`mmc.c`) | command state, current command and argument, `send_buffer`, response pointers, idle flag, CMD8/CMD55 flags, erase range, drive, cache | one byte in, one byte out, insert, eject, commit, reset | a byte-wise protocol interrupted at any byte, flags that must survive or end with a command |
| RZX recordings (`rzx.c`) | list of blocks, current input block, playback position | start/stop input, store frame, snapshots, rollback, iterator delete, finalise, read, write, playback | pointers into a list that is rolled back and merged; frames stored as repetitions |
| Tape block list (`tape.c`) | list of blocks, current block, loop block and count | select, next, jump, loop, insert, remove | loops and jumps through a list under edit |
| Tape edges (`tape.c`, `tape_block.c`) | per block type a state machine over pulses, bits, bytes, pauses | `libspectrum_tape_get_next_edge` | last bits, zero lengths, levels, sum of edges |
| TZX, TAP and PZX tapes (`tzx_read.c`, `tzx_write.c`, `tap.c`, `pzx_read.c`) | none between calls; the tape being built, the position in the file, the list of signal levels of a PZX file | write a tape, read a file, block by block | blocks that a format lacks become others, rounding to ms and words, counts of one byte, the meaning of a last byte, truncated files, errors after half a tape |
| Other tape formats (`warajevo_read.c`, `csw.c`, `wav.c`, `z80em.c`) | none between calls; the writer's iterator and balance of tstates, the decompression command that is being put together | read; write `.csw` | pulses that are not whole samples, samples that go on over blocks, a bit machine, a list of places in the file |
| Snapshots in szx, z80 and sna files (`snapshot.c`, `szx.c`, `z80.c`, `sna.c`, `libspectrum.c`) | none between calls; the snapshot being built | write a snapshot with flags for what is lost, read a file chunk by chunk | 17 machines, 24 devices and three formats that keep different parts of them; chunks in any order; version and hardware codes; flags that must tell what is lost |
| Other snapshot formats (`sp.c`, `snp.c`, `zxs.c`, `plusd.c`) | none | read | |
| Microdrive (`microdrive.c`) | cartridge image | sector accessors, checksums, read, write | checksum modulo 255 |
| Growing buffer (`buffer.c`), containers (`zip.c`, `zlib.c`, `bzip2.c`), DCK (`dck.c`), signatures (`crypto.c`), identification and timings (`libspectrum.c`, `timings.c`), utilities, glib replacement (`myglib/`) | none or plain data | | |

Interactions.  `mmc.c` calls the sector functions of `ide.c` on its own drive and
cache, so both devices use the module HdfDrive.  `rzx.c` embeds snapshots through
`libspectrum_snap_read/write`.  `tape.c` dispatches to `tape_block.c`; the readers
append blocks to a tape, and the writer of `.tzx` files plays RLE blocks through an
iterator of the tape.  Nothing else shares state; every object has one owner.

What makes each component correct: a device never loses or mixes up a sector, its
status registers tell the machine the truth, and it accepts writes only in the
states that allow them; a recording plays back what was recorded; a tape plays the
pulses its blocks describe, in the order its control blocks describe; a reader
either builds the whole object or reports an error and leaks or keeps nothing half
done; a writer's file reads back as what was written.

## Modules

| module | models |
|---|---|
| `HdfDrive` | sectors in an image file, the write cache over it, commit; stateless operators |
| `BlockDevice` | abstract: a removable block device with unsaved writes |
| `Mmc` | `mmc.c`, every command and every byte |
| `Ide` | `ide.c`, every register, command and data access |
| `Recording` | abstract: an input recording as the emulator sees it |
| `Rzx` | `rzx.c`: recording, editing, files, playback |
| `Places` | the members of a list at some of its places; the two modules above share it |
| `TapeBlocks` | the blocks of a tape: how each type starts, its edges, its length |
| `TapePulses` | abstract: the pulses a block stands for, the order of play, what a machine hears |
| `Tape` | the block list and the iterators that play it, with the writer of `.csw` files |
| `Machines` | what `libspectrum.c` and `timings.c` say of each machine: capabilities, tstates in a frame |
| `Snapshot` | the parts of a snapshot, its devices, and `Lost`: the parts in which two snapshots differ |
| `Szx`, `Z80`, `Sna` | the writer and the reader of each snapshot format |
| `SnapshotFiles` | snapshots saved, damaged, read and saved again |
| `Samples` | the writer of `.csw` files and the readers of `.csw`, Z80Em and `.wav` files |
| `TapeFormats` | bytes, words, bits and results that the tape formats share |
| `Tzx`, `Tap`, `Pzx` | the writer and the reader of each tape format (`.pzx` has only a reader) |
| `Warajevo` | the reader of Warajevo's `.tap` files, with its decompression |
| `TapeFiles` | tapes saved, cut short, read and saved again |
| `TapeExamples` | constructors of blocks, and the tapes of one block that two instances share |
| `MCMmc`, `MCIde`, `MCRzx`, `MCTape`, `MCSnapshotFiles`, `MCTapeFiles` | the small instances |
| `HdfDriveProofs`, `MmcProofs`, `IdeProofs`, `TapeProofs`, `RzxProofs`, `RecordingProofs`, `SnapshotProofs` | theorems |
| `Extrema` | the least and the greatest member of a set, induction over a set of numbers, for the proofs |

### HdfDrive
A file is a function from places to the bytes stored there; the cache (a hash table in
the code) a function from dirty sectors.  Places count sectors from the start of the
data, so that the header has the places -1, -2, ..., and is taken to be whole sectors; the
last place of a file may be cut short.  `Place` is the position of a sector,
`data_offset + sector_size * sector_number`, which `ide.c:276` and `ide.c:425` compute in
32 unsigned bits: behind 2^32 bytes (`PositionSectors` sector buffers, 2^23 in the code)
sectors come to lie on the header and on the first sectors again.  Images of 4 GB and
more are accepted (`mmc.c:187`), and LBA counts to 2^24.  An image for which `Fits`
holds, its header included, has a place for each sector, and what the two components
promise about readable sectors is said of such images; `mmc_large` shows another one.

`Pack`/`Unpack` are the conversions for images that store only every other byte.  A read
may fail unless the sector is cached.  A commit goes sector by sector, in any order, and
may stop anywhere: `WriteToFile` gets the first n bytes of a sector into the file, for
`fwrite` may be short (`ide.c:281`) or `fseek` fail (n = 0), and a file that grows is
filled with zeros up to that place.  `KeepInCache` drops a sector only when it was
written in full. Buffering below `fwrite` is outside.  An image whose header a wrapped
sector was written over (`HeaderIntact`) is not inserted again; what the code would read
from it is not modelled.

### Mmc
`libspectrum_mmc_write` and `libspectrum_mmc_read` take one byte each.  The actions
are the branches of the first: a command byte, four argument bytes, the CRC that
executes the command (`Execute`, one disjunct per command), the data token, the data
bytes and the two CRC bytes, the second of which writes the sector.  The response
buffer and its two pointers are the sequence of bytes not yet read.  `r1_status` is
its set of flags.  `Insert`, `Eject`, `Commit` and `ResetCard` may come between any
two bytes.  An insert may fail after `drive.disk` is set (an image with half
sectors); the action has both outcomes, as the code does.

### Ide
Both drives, their caches, the registers, `phase`, `datacounter`, `buffer` and
`sector_number`.  One action per register write, command, data access and emulator
call.  Data accesses differ by bus: one byte, two bytes in either order, or two with
a latch (`data2`).  Seeking, addressing and the advance of the registers follow the
code to the operator precedence in the LBA calculation.

`CarefulHost` is an assumption about the machine, not about the code: it moves data
only while the selected drive shows DRQ without ERR, writes registers only
otherwise, and nobody ejects a disk during a transfer.  The code enforces none of
this; where the properties need it the run sets it, and `ide_eject` shows what
happens without it.  `OnlyAddressedSectorChanges` is about the images that `Fits`.

### Rzx
A block is a record with an id; pointers are ids (`current_input`, `current_block`)
or frame indexes (`data_frame`), so a pointer may outlive its block.  `StoreFrame` is
the whole of `libspectrum_rzx_store_frame`: a frame equal to the last one stored in
full becomes a repetition.  `Finalise` is both of its passes: the places that stay, and
a fold of `MergeNext` over the blocks at them.  `Write` and `Read`
keep what a file keeps: repetition counts, no signatures, no `automatic` flag; a read
may end with an error after any block, and creator blocks and links are skipped.
`role` is the caller's: an object is recorded into or played, and the input is
stopped before its block is deleted or merged.  `rzx.c` does not guard against either.

### TapeBlocks, TapePulses and Tape
`TapeBlocks` has one operator per `..._edge`, `..._next_bit`, `..._init` and
`..._block_length` function.  The ROM, turbo, pure data and PZX data blocks share
`NextBit`, as their functions in the code are copies of each other.  A byte is the
sequence of its bits and a pulse length a small number; `TapeBlocks` is parameterised
by the bits in a byte and the constants of the ROM loader.  `TapePulses` says the same
without state machines: `RefPulses` lists the pulses of a block, `RefWave` is the
signal they make after a given level, and `PlayOrder` the order in which loops and
jumps play a tape.  `Hear` is the emulator's use of the flags as `doc/libspectrum.txt`
describes them.

In `Tape` a block of the list has an id, and the pointers of `tape->state` are ids.
`it.tape` is `tape->state`; `it.csw` is the iterator on the stack of
`csw_write_body`.  `libspectrum_tape_get_next_edge_internal` serves both, so its
branches are actions with the player as parameter (`PulseEdge`, `JumpEdge`,
`LoopAgain`, ...), each with the step to the next block and its initialisation
(`ReturnLast`, `ReturnMoved`).  While the writer is in its loop nobody else calls.
The other actions are the calls that read, append, insert, remove, clear, select and
`set_state`.  `flags`, `heard` and `order` are what the emulator knows: the last
flags, what it heard since the block began, and which blocks ended.

`CarefulCaller` is an assumption about the emulator: it removes neither the current
block nor the first one of a running loop, does not clear a tape inside a loop, and
does not write a `.csw` file of a tape with jumps, or with a LOOP_END before any
LOOP_START (the writer's `loop_block` is never set, `WriteStart` starts it with a
null pointer or garbage).  The code enforces none of this.

`csw` holds the locals of `csw_write_body`: the tstates in a sample, the balance that
is carried from edge to edge, the bytes written.  `CswKeepsTime` reads them back and
compares them with the pulses of `TapePulses`: every edge is at the last sample before
its time.  It is about tapes whose pulses are all at least a sample long and all turn
the level (`Sampleable`); the writer drops a shorter pulse and so inverts what follows,
takes no notice of the flags that set a level, and stops at the first pause of no
length.  `NoSampleRate` are tapes for which it divides by zero: `find_sample_rate` asks
a RLE_PULSE block for a bit length, which it does not have, and gets -1, so a tape that
was read from a `.csw` file cannot be saved as one.

What the reading showed and no run states: a RAW_DATA block plays one sample before its
first one, at the opposite level, and does not turn the level of its last run
(`tape.c:904` returns before the flip that the comment at line 877 relies on), so
`EdgesFollowBlock` and `LengthIsSum` leave it out.  `libspectrum_tape_block_length`
takes the mean pulse of a PZX bit twice and no tail, and adds the bytes of a five-byte
RLE code one by one, so `LengthIsSum` leaves DATA_BLOCK and RLE_PULSE out.  A pulse
sequence with one empty pulse between two others returns an edge without a level flag
where the level stays (`tape.c:1134`); between two others the instance has empty pulses
only in pairs.  A block of no pulses counts past its end; no tape of the instance has
one.

### Snapshot, Szx, Z80, Sna and SnapshotFiles
A snapshot is a record with a field for each part that a format treats in a way of
its own; what all formats copy byte by byte (the registers of the processor, those of
a sound chip) is one number.  A page of memory is its identity, or `Stacked` with the
program counter that `.sna` files push there.  A file is a sequence of chunks: a
record with an identifier and what the chunk holds (`Szx`), a header and pages
(`Z80`), a header, pages and a tail whose lengths tell the machines apart (`Sna`).
`Written` of a format is its writer with every condition on machines, devices and
flags; `SzxReadChunk`, `Z80ReadChunk` and `internal_sna_read` are the readers with
their checks, versions and codes.  The snapshot written and the snapshot read are
different objects, as in the code.

`pages[]` has 16 entries (`internals.h:157`), but `szx.c` takes pages up to 63 from a
file (`szx.c:1333`) and writes 32 or 64 of a Pentagon 512 or 1024 (`szx.c:3344`).
Behind the array is `slt[]`, the pointers to level data (the order of `accessor.pl`), so
a page from 16 on that was read is there to be written again, and level l of such a
Pentagon is written as page 16 + l (`IsLevel`): 16K from where its data begins
(`LevelData`), whatever its length. The code is outside of what C defines here; the
model is the layout every build has.

`SnapshotFiles` lets a file be saved, cut between or within chunks, have two
neighbouring chunks swapped (the order in a `.szx` file is free), be read, and what
was read be saved again.  Its reader is a loop with one chunk per step, so that a
reader that gives up leaves what it had.

`Lost` compares before and after.  `SilentInSzx`, `SilentInZ80` and `SilentInSna` are
the parts that a writer drops without a flag; they are exact in the sense that the run
fails without any of them.  Among them: `.szx` keeps no level data, no late timings of
most machines and no Interface 1 of unknown size; `.z80` keeps the second joystick as a
cursor joystick, and PENT512 and PENT1024 as a Pentagon; `.sna` flags only a loss, never
which; a level of a Pentagon 512 or 1024 becomes a page, which `LossIsFlagged` and
`NothingInvented` name as well.  `Unreadable` are the files that are written and then
refused: custom ROMs of 48_NTSC, 128E, PENT512 and PENT1024 in `.szx`, whose two halves
of `szx.c` count different ROMs, and level data in `.z80`.  A `.z80` file of a snapshot
without its 48K pages reads through a null pointer (`Z80HasData`, error "CRASH").

### TapeFormats, Tzx, Tap, Pzx, Samples, Warajevo and TapeFiles
The blocks are those of `TapeBlocks`.  Files of `.tzx` and `.pzx` are sequences of
chunks with their fields.  Chunks keep what the formats truncate: times in whole ms,
lengths in a byte or word, bits packed in bytes, tables whose size 0 stands for the
largest.  `.tap` files and their kin are byte sequences, since their framing is in
the bytes: a cut `.tap` file really is a shorter sequence.  `BitsInByte` is a
parameter; with two bits a byte counts to 3 and a word to 15, so that lists and data
longer than their counts are cases of the instance.

`tzx_write_block` gives the chunks a block becomes: a PZX data block a generalised
one, a RLE block the pulses heard when it is played, a PZX pause a pause or a pulse.
Some blocks become several chunks.  What lies behind a list (`Heap`) is an arbitrary
value: `generalised_write` reads beyond the shorter list of a bit, and a PZX stop
block has no level of its own.  `fits` of a chunk tells whether the count in front of its
list is the length of the list: pulses, choices, strings and hardware are counted in one
byte and written whole (`tzx_write.c:290`, 532, 592, 608), and so are data of a ROM block
in a word.  What is left of such a list is read as the next block; the model lets the
reader give up there with "UNKNOWN", where the code may take the bytes for a block.
`after` of a SELECT chunk is the number of bytes behind it that its length claims: the
writer gives three too many, and adds the full length of each text, of which it writes
the length modulo a byte (`tzx_write.c:525`, 937).  The reader checks that they are there
and does not skip them.

`Performance` is the signal a tape makes, in `PlayOrder`, with its stops marked;
`LossyInTzx` lists what a `.tzx` file cannot hold or what the writer gets wrong, and
the run fails without any of its cases: low pauses that are not whole ms, or so short
that they become a stop (`tzx_write.c:480`); high pauses and pulses of a word or
more; DATA_BLOCK with bits of unequal pulses or a pulse of no length after the first;
RLE_PULSE anywhere but at the start; a JUMP over a block that becomes several chunks.
`Unreadable` are files of ours that a reader may refuse: lists longer than
their counts (`TooMany`), a SELECT whose length reaches behind the end of the file
(`BeyondSelect`), and data of more than a word's length.  `WrittenIsReadable` says that
there are no others; it does not say what these are read as.

A Warajevo file is the place of its first block and a function from places to blocks,
each with the place of the next one.  `decompress_block` is the code's bit machine; its
states, which the code names after the bits it has seen, are the bits.  A copy that
overlaps what it copies reads memory not yet written (`memcpy`), and a copy that passes
the end of the block ends the program ("CRASH"): the code checks the end of the source
only.  A place that is not in the file ends the reader with the blocks read so far
(`warajevo_read.c:213`); an error in a block frees the tape, which is the caller's
(`warajevo_read.c:235`, `Freed`).  The instance has a compressor of its own, so that
`meant` is known for each compressed block: `WarajevoUnpacks` says that the reader's
bits are the compressor's, in a block of its own or at the end of one whose samples go
on.  `ReadSamples` reads a `.csw`, Z80Em or `.wav` file in one step; a `.csw` header
extension makes the reader take twice as many bytes from behind the file.

The writer of `.tzx` files returns the first error of a block (`Trouble`): a RLE_PULSE
block of scale 0, as of a `.csw` file without a rate, divides by zero; one whose data
ends in a zero and less than four bytes is refused.

What else the reading showed: `.tzx` and `.tap` errors clear the whole tape, blocks
that were on it before included, and a `.pzx` error keeps the blocks read so far;
`pzx_read_string` moves to the end of the buffer, so only the first information string
of a `.pzx` file is ever read (`pzx_read.c:655`); the time of a TZX message is read in
seconds and written in ms, so `Stable` leaves it out; PURE_DATA of one byte may keep 0
bits in its last byte (`tzx_read.c:475`); an empty data block ends the `.tap` writer in
a null pointer ("CRASH").

## Runs

| run | bounds | shows |
|---|---|---|
| `mmc` | card of 2 sectors, a second image that is refused, blocks of 2 bytes, 13 command codes, two values in the first and last argument byte, data {0, 1}; data other than 0 only on an initialised card with storage commands | types and the index into `send_buffer`; only WRITE_BLOCK has a data phase; no card leaves idle without CMD8; erase ranges and dirty sectors on the card; no write while idle or in mid command; the card implements `BlockDevice` |
| `mmc_flags` | as `mmc` | violation: errors of a data block are reported by the next command |
| `mmc_large` | a card of 4 sectors in a file of 3 places, one of them the header | violation: a commit changes other readable sectors than those written |
| `ide` | registers of 2 values, two buses.  `Transfers`: one drive, 3 cylinders, 2 heads, 1 sector per track on 5 places, one dirty sector.  `Storage`: both drives, a half-sector image of 2 sectors with a header | types; no dirty sector beyond the header's capacity; the status register tells the truth; no cache without a disk; consecutive sectors in LBA and CHS across every carry; only the addressed sector changes |
| `ide_eject` | one image of 2 sectors, 8-bit bus, careless host | violation: a sector survives the eject of its disk |
| `ide_lba` | 9 sectors, LBA registers that count to 8 | violation: LBA bits of the head register are lost |
| `rzx` | 3 blocks, 3 frames, three frame contents, a signed file with a repetition; after a write, blocks and file together hold at most 3 blocks and each 2 frames | types; no dangling pointer; the repetition target; playback hands out the right frame; the object implements `Recording` through edits and files |
| `rzx_write` | one snapshot that cannot be saved as .sna | violation: the file lacks it and no error is returned |
| `tape` | 5 blocks, 3 calls between edges; tapes of every block type, bytes of 2 bits, and all sequences of up to 3 blocks with a pulse, loops and jumps | types; pointers on the tape; a block begins in its initial state; edges are the pulses of the block; the block length is their sum; the order of play; a `.csw` file keeps the time of every edge; the tape ends; the writer returns |
| `tape_writer` | a tone and a jump back, careless caller | violation: the writer moves the tape |
| `snapshot_files` | all 17 machines with one thing out of the ordinary, or a device that depends on the machine; every device on 48 and 128; two files; 2 saves; foreign files of each version and code; pages 15, 16, 63 and 64 in foreign `.szx` files, Pentagons with all their pages or a level | types; what is lost was flagged; our files can be read; nothing is made up, in cut files too; a second save loses nothing; reading ends |
| `tape_files` | tapes of every block type, bytes of 2 bits, 2 tstates to a ms, lists and texts around the limit of a byte, 3 saves; foreign `.tzx`, `.pzx`, `.tap`, `.csw`, `.wav`, Z80Em and Warajevo files | types of what was read; a `.tzx` file plays as the tape did; our files can be read; a second save changes nothing; `.tap` files keep the data of a tape, cut anywhere; Warajevo blocks unpack to what was packed; reading ends |

Why the bounds suffice.  Sector and block contents are never looked at, only copied,
so one value besides the zero or 0xff of a gap tells copies apart.  Blocks of two
bytes have a first byte, a last one and both halves.  A register of two values
carries after one step, a count of 0 then means two sectors as it means 256 in the
code, and CHS with 3x2x1 carries into head and cylinder.  Two sectors have a first,
a last and an order.  A repetition, its target and a frame without bytes between them
need three frames; a merge needs two input blocks with a snapshot between them.

Two runs have a CONSTRAINT that keeps two questions in one state space.  With
`DataOnInitialisedCard` the protocol is explored with zero data on every card in every
state, and other data only where commands reach storage; `HostInCommand` lets a host
that sends a command leave a response unread only when it is a whole block, and send
zeros as an argument nobody looks at.  With `SmallAfterWrite`
recordings are edited at their full size until they are written, and a small object
may go on from a file.  Neither is a condition of the code; beyond them lie only larger
mixtures of what both sides explore.

A reader looks at one chunk at a time and at what the earlier ones left, so one oddity
in a snapshot or a tape meets every check; devices that share a chunk or a bit of a
header (`Together`) appear in pairs.  A tape of one block of each type shows every
conversion, tapes of three the loops, jumps and calls whose targets a conversion
moves.  `TapKeepsData` has blocks on both sides of the word's limit.

The one IDE channel of `ide` has two scenarios, told apart by its bus
(`Scenarios`): in `Transfers` the machine addresses the sectors of a larger image in every
way in one drive, with at most one dirty sector, in `Storage` it works on the data of a
tiny image in either drive.  The address arithmetic is per drive and does not look at the
bus.  Sectors of one byte cannot be torn, so what half a sector in the file does to what
can be read is explored in `mmc`, with the same `WriteToFile`.

Two bits in a byte have a first, a last and an unused one; a pilot of two pulses has
one that is not the last.  Three calls read a tape, edit or wind it, and edit, wind or
write it again; the tapes with two bodies in one loop, two loops and a jump over a
block have the orders that three blocks cannot show.

A file of another program is read into an emulator that was only switched on
(`PoweredOn`): nothing relates what is read from it to what was there before, and one
beginning for all of them keeps the run small enough for its liveness property.

Fairness.  The code does nothing unless it is called, so the devices and recordings
promise only what each call does, and no fairness is assumed for them.  A reader of a
file is a loop of the library, which runs to its end once called: `SnapshotFiles!Spec`
and `TapeFiles!Spec` have `WF_vars(Reading)`, under which `ReadingEnds`, but for a
Warajevo file whose list of blocks goes round: the code reads it for ever, the model
until the tape has `MaxBytes` bytes (48).  Playing is different: an emulator that runs
the tape keeps asking for edges, and `csw_write_body` calls from a loop.
`Tape!FairSpec` says that such calls never stop; it is `[]<><<NextEdge>>_vars` and no
`WF`: a next edge can always be asked for (the run checks for deadlock), so the two
agree, and TLC is spared an ENABLED per state.  Under it the tape comes to its end and
the writer returns. Stuttering steps of the machine that change nothing (ignored bytes,
refused reads) have no action.

## What is proved

The theorems hold for every block size, image, geometry and set of bytes the host
sends, every tape that a caller reads or inserts, every recording, every snapshot, and
every file of another program; the assumptions are the named
ASSUMEs of `HdfDrive`, `Mmc`, `Ide`, `Tape`, `Rzx` and `SnapshotFiles`.  The last say
that a snapshot an emulator saves has a machine, an SP of 16 bits, and RAM pages of its
memory cards that the cards have; and that a file of another program begins as its
format does and has fields of the width they have in the file (`IsFile`).

* `HdfDriveProofs!CommitKeepsContent`: however much of a sector gets into the file, a
  commit does not change what the machine can read, for images that `Fits`.  Then
  `Place` is one to one (`PlaceFits`): `WriteToFile` touches no other sector of the
  image, and a sector that is torn stays in the cache.  The files keep their form
  (`IsFile`: no gaps, whole sectors but for the last place) for every image,
  wrapped positions included.
* `MmcProofs!Invariance`: `Inv`, the conjunction of the type invariant and the
  protocol properties of `mmc`, is inductive.  The parts need each other:
  `EraseRangeOnCard` needs that an erase sequence is only in progress on a ready,
  inserted card; `DirtySectorsOnCard` uses it in the erase step; the type of
  `data_count` needs `DataPhaseIsWrite`, since only WRITE_BLOCK passes through the
  token that resets the counter.  The proof has one lemma per part of the state
  (drive, input, protocol, response), each with a case per action.
  `TypeCorrect`, `DataPhase`, `Initialised`, `OnCard` and `DirtyOnCard` state the parts
  as theorems of `Spec`, `WritesNeedReady` the action property.
* `MmcProofs!CardIsBlockDevice`: `Mmc` implements `BlockDevice`, under the mapping of
  `Mmc!Device` (content: what the cache and the image show through `Unpack`; saved: the
  images alone; reply: the sector in a response from which nothing was taken).  The
  images are those below 4 GB (`SmallCards`); a larger one in the slot is no disk of the
  device.  `mmc_large` shows that the code does not keep the promise for such a card. It
  needs `Inv` and two more facts, proved with it: the buffer holds bytes of the host or
  zeros (`BufferFromHost`), so that a write stores host data; no response is longer than
  the one with a sector (`ResponseFits`), so that its tail is no reply.  Each action of
  the card is one step of the device: each write of a commit is a `Save` of the bytes
  that got into the file (`CommitContent`, `CommitSaved`), ERASE is one `Write` of the
  whole range.
* `IdeProofs!Invariance`, under the assumption `CarefulHost`: `Inv` is inductive.  Its
  parts beyond the properties of the runs are `OnlySelectedAsks` (a drive that asks
  for data has a disk and is selected) and `WritesToDisk` (the sector a transfer
  writes to next lies on the disk).  They need each other: a careful host leaves a
  drive that asks alone, so nothing but an access can make `HandshakeSound` false; a
  write happens only in a drive that asks, so the cache of an empty drive stays empty;
  the seek that began the transfer compares with the current geometry, which
  `NewCylindersFit` and the part `DriveType` keep within the header's.  `AccessShape`
  reduces the seven accesses to five things that can happen to the selected drive.
  `TypesKept`, `HandshakeKept`, `CacheEmptied`, `DirtySectorsFit` are its parts.
* `IdeProofs!OtherSectorsKept`: `OnlyAddressedSectorChanges`, from the same invariant,
  `CommitKeepsContent`, `WriteReadsBack`, and that an image is in one drive only; for the
  disks whose capacity has its places below 4 GB (`Small`).
* `IdeProofs!SectorsInOrder`: `ConsecutiveSectors`, for images whose heads and sectors the
  registers can count (`AddressableImages`: at most 16 heads, fewer than 2^24 sectors).
  `ide_lba` shows that the code needs the second half; a seventeenth head would be carried
  into the DEV bit.  The invariant is `NextInRegisters`: in a transfer with
  sectors to go the registers hold the address of the next one, or an address that the
  next seek refuses.  `SeekAdvances` is the arithmetic of the carries: in LBA the three
  registers are the digits of a number (`ThreeDigits`); in CHS a track, a cylinder and the
  low register may end at once (`ChsAdvances`).  No carry is lost because no geometry has
  more cylinders than the two registers count (`GeometryFits`), neither the header's nor
  one that INITIALIZE DEVICE PARAMETERS sets.
* `TapeProofs!Invariance`: `Inv` is inductive.  Beyond the type of the list it says that
  an iterator whose loop pointer is a block of the list has passes left; that the ids in
  use are bounded, so that a new block gets an id no stale pointer has; and that the
  writer's iterator is idle unless the writer runs.  The passes are what makes
  `LOOP_END` count down and never wrap.  `TypesKept` is its part.
* `TapeProofs!PointersKept`, under the assumption `CarefulCaller`: every step keeps both
  pointers of the tape on the list, the edges of the writer included.
* `TapeProofs!WriterIsolated`, also for a careful caller: no jump is on the list while
  the writer runs (`NoJumpWritten`), and every other edge of the writer leaves the
  tape's iterator alone.  The run `tape_writer` shows that the assumption is needed.
* `TapeProofs!BlocksBegun` is `BlocksBeginFresh`, for a careful caller.  The invariant is
  `Playhead`: the machine is inside of a block only while the tape is at a block with
  pulses, and otherwise `block_state` is the initial state of the current block.  An edge
  that ends a block must set the state and no other edge may say that the block is over
  (`EdgeSound`, for every type of block); the loaders also never leave the states they
  know, so that their `LIBSPECTRUM_ERROR_LOGIC` is not reached.  Reads, insertions and
  removals shift the list, but the current pointer finds the same block in it
  (`AppendedSame`, `InsertedSame`, `RemovedSame`).
* `RzxProofs!Invariance`: `Inv` is inductive.  It says that the blocks are a list with
  distinct addresses; that `current_input` is the address of an input block on it, and
  `current_block` the same or none; that while recording the block was begun by
  `StartInput`, so its fields are initialised and its `non_repeat` is the last frame
  stored in full (`Recorded`): blocks that were read have neither.  Rollback and snapshots
  drop the pointer, deletion and `Finalise` wait until it is dropped, the others only move
  the block.  That malloc has an address to give is a count: of `2 * MaxBlocks + 2`
  addresses, blocks and pointers hold at most `MaxBlocks + 2`.
* `RzxProofs!PointersKept` and `RepeatTargetKept` are `NoDanglingPointer` and
  `RepeatTargetSound`, from `Inv`.
* `RecordingProofs!RecordingInvariance`: `IInv` adds to `Inv` what blocks and file contain.
  `Good` blocks have runs that do not begin with a repetition (`Whole`); a repetition has
  no bytes of its own, no frame has as many bytes as the count that marks one, and the
  blocks of the file are of the same kind.  This is what makes a merge harmless: the
  first frame of what is joined is stored in full, so nothing in it repeats a frame of
  another run.  The hypothesis `RunsBeginFull` says it of a file of another program:
  `rzx_read_frames` does not look, and such a file would repeat what no frame holds.
  `RzxTypes` is `TypeOK`.
* `RecordingProofs!PlaybackFaithful`: `PlaysCurrentFrame` is a part of `IInv`; `data_frame`
  is the last frame stored in full at or before the current one, step by step through
  repetitions and from block to block.
* `RecordingProofs!RecordingKept`: `Rzx` implements `Recording`, one lemma per action
  (`StartPromised` to `LoadPromised`), each one step of the log or none: a stored frame
  shows the bytes handed over whether it is kept or repeats (`StoreAdds`); a run read back
  is the run written (`ReadIsWritten`); what is left out of the file or skipped by the
  reader is no item of the log (`PickCut`, `PickItems`).  The second hypothesis,
  `SnapshotsSaveable`, excludes what `rzx_write` shows: a snapshot that the format cannot
  hold is left out of the file without an error.  `Finalise` is a fold on both sides;
  `FinalTrace` writes each fold as the list of its intermediate values, and `FinalItems`
  shows that they agree at every place, by the induction over a set of places of
  `Extrema!Induction`, which is proved from the least element of a set and needs no
  operator parameter.

* `SnapshotProofs!ReadersInventNothing` and `WritersAreRead` are `NothingInvented` and
  `WrittenIsReadable`, for every snapshot that is saved and for what was read from any
  file and is saved again.  Neither is inductive: both speak of the snapshot that is being
  read, and what the next chunk does to it depends on the chunk.  `IInv` adds `InOrder`,
  which says of the chunks that are left what stays true in any order: a `.szx` chunk of
  ours names only pages, devices and joysticks of the snapshot (`SzxHonest`), and the
  header comes before the chunks that need the machine (`SzxInOrder`); the blocks that
  are left of a `.z80` file hold the pages their numbers stand for on a machine with the
  memory of the one saved (`SameMemory`), each page once and none that was read
  (`Z80Left`), for a page that is there twice is an error; a `.sna` file is what the
  writer wrote, or a beginning of it.  Per format one lemma says that the writer makes
  such files (`SzxWrites`, from the 28 writers of chunks; `Z80Writes`; `OwnSna`) and one
  that the reader keeps it so and takes what it is given (`SzxTaken`, `Z80Taken`,
  `SnaTaken`); `SzxReads`, `Z80Reads` and `SnaReads` are the part that holds for files of
  other programs, whose snapshots must be fit to be saved (`Usable`).  `SavedInOrder` needs
  that a header names the machine in a way the reader understands (`OwnHeaderTaken`).
  The lengths of `.sna` files tell their machines apart: what is cut from a 128K file is
  too short to be another one, or is a 48K file (`OwnSnaTorn`), whose top page is the page
  that was paged in; a longer beginning is refused when its pages are allocated but not
  filled.  `Torn` names these two cases, in which the pages are not those of the snapshot.

Only model-checked: what a tape plays (`EdgesFollowBlock`, `LengthIsSum`,
`PlaysInOrder`, `CswKeepsTime`), the other properties of `SnapshotFiles` and everything
about `TapeFiles`.  `LossIsFlagged` and `Stable` compare every part of two snapshots,
which only a proof for each of the 24 devices in each format could do.
`SnapshotFiles!TypeOK`, with pages up to 63, is a part of none of them.  Liveness
(`TapeEnds`, `WriteReturns`, `ReadingEnds`) stays with TLC: the prover has no ENABLED.
What a tape plays is compared with functions that are recursive over the pulses, bits
and bytes of a block, what a file keeps with functions over its chunks; each would need
an induction of its own over the data, as `FinalItems` is for the one fold of
`Finalise`.

## Disagreements with docs and comments

The six violation runs; PROJECT.json quotes the lines.  `mmc.c:735` (error flags reset),
`mmc.c:185` (cards up to 32 GB), `ide.c:323` (eject frees the cache), `ide.c:653`
(sector number of LBA), `doc/libspectrum.txt:122` (functions return error codes),
`csw.c:244` (the writer's iterator leaves the tape alone).

## Not modelled yet, and the plan

Left out of modelled components: the compression of pages and samples (run-length codes
of `.z80`, zlib), as the contents of a page are never looked at; the swapped AF of
creator chunks; what lies behind level data shorter than a page; headers of `.z80` files
that are cut; PZX chunks longer or shorter than their fields; blocks that are made of
what is left of a list longer than its count; what the code reads from an image whose
header was written over; the buffers of stdio.

In this order: the snapshot formats that are only read (`.sp`, `.snp`, `.zxs`, +D);
`Microdrive` checksums; `Buffer` growth.

Not planned: compression and cryptography wrappers, constant tables, generated
accessors, the containers of `myglib` (functions and sequences stand for them).
