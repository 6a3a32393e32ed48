---------------------------- MODULE TapeFormats ----------------------------
(***************************************************************************)
(* What the readers and writers of tape files share: numbers as wide as     *)
(* they are in a file, times in ms, and what a reader makes of a piece of   *)
(* a file.                                                                  *)
(***************************************************************************)
EXTENDS TapePulses

CONSTANTS
  TstatesPerMs,   \* tstates_per_ms of utilities.c
  MsPerSecond

ASSUME FileAssumption ==
  TstatesPerMs \in Nat \ {0} /\ MsPerSecond \in Nat \ {0}

ByteValues == 2 ^ BitsInByte
WordValues == ByteValues * ByteValues

Byte(n) == n % ByteValues
Word(n) == n % WordValues

libspectrum_ms_to_tstates(ms) == ms * TstatesPerMs
libspectrum_tstates_to_ms(t)  == t \div TstatesPerMs

libspectrum_bits_to_bytes(bits) == (bits + BitsInByte - 1) \div BitsInByte

\* The blocks that a piece of the file adds to the tape, and the error.
Adds(b)  == [blocks |-> <<b>>, err |-> "NONE"]
Skipped  == [blocks |-> <<>>, err |-> "NONE"]
Fails(e) == [blocks |-> <<>>, err |-> e]
=============================================================================
