------------------------------ MODULE Samples ------------------------------
(***************************************************************************)
(* Tapes as samples: .csw files, as csw_write_body makes them of the edges  *)
(* of a tape and as libspectrum_csw_read takes them (csw.c), and the files  *)
(* that are only read, Z80Em's (z80em.c) and .wav (wav.c).                  *)
(*                                                                         *)
(* A file is a record.  Its data is what zlib keeps: compression is not     *)
(* modelled.                                                                *)
(***************************************************************************)
EXTENDS TapeFormats

CONSTANTS
  CpuClock,     \* 3500000, tstates in a second
  DefaultRate,  \* 44100, samples in a second
  ScaleLimit    \* 0x80000, tstates in a sample

ASSUME SamplesAssumption ==
  {CpuClock, DefaultRate, ScaleLimit} \subseteq Nat \ {0} /\ DefaultRate <= CpuClock

-----------------------------------------------------------------------------
(* Writing .csw files.                                                      *)

\* The last block of samples on the tape, in the order of the list.
LastSampled(tape) == SelectLastInSeq(tape, LAMBDA b : b.type \in {"RAW_DATA", "RLE_PULSE"})

(* find_sample_rate.  Of a RLE_PULSE block it asks for the bit_length, which *)
(* only RAW_DATA has: the accessor returns -1 as an unsigned number.        *)
find_sample_rate(tape) ==
  LET last == LastSampled(tape)
  IN IF last = 0 THEN DefaultRate
     ELSE IF tape[last].type = "RLE_PULSE" THEN 0 ELSE CpuClock \div tape[last].bit_length

\* Where the code divides by zero.
NoSampleRate(tape) ==
  \/ \E i \in DOMAIN tape : tape[i].type = "RAW_DATA" /\ tape[i].bit_length = 0
  \/ find_sample_rate(tape) = 0

\* The locals of csw_write_body: tstates in a sample, those that are not written yet,
\* and the bytes that are.
Body(scale) == [scale |-> scale, balance |-> 0, data |-> <<>>]

DwordBytes(n) == [i \in 1..4 |-> (n \div 256 ^ (i - 1)) % 256]

RleCode(n) ==
  IF n = 0 THEN <<>> ELSE IF n <= 255 THEN <<n>> ELSE <<0>> \o DwordBytes(n)

\* A mutant of CswEdge: what is left of a sample is lost.
CswEdgeRounded(body, t, flags) ==
  LET balance == body.balance + t
  IN IF "NO_EDGE" \in flags THEN [body EXCEPT !.balance = balance]
     ELSE [body EXCEPT !.balance = 0, !.data = @ \o RleCode(balance \div body.scale)]

(* One edge in csw_write_body.                                               *)
CswEdge(body, t, flags) ==
  LET balance == body.balance + t
  IN IF "NO_EDGE" \in flags THEN [body EXCEPT !.balance = balance]
     ELSE [body EXCEPT !.balance = balance % body.scale,
                       !.data = @ \o RleCode(balance \div body.scale)]

CswFile(rate, data) == [version |-> 2, rate |-> rate, compression |-> 2, extension |-> 0,
                        data |-> data]

-----------------------------------------------------------------------------
(* Reading.                                                                  *)
SamplesScale(rate) == IF rate = 0 THEN 0 ELSE CpuClock \div rate

(* libspectrum_csw_read.  The bytes of a header extension are counted the    *)
(* wrong way: the block has twice as many bytes from behind the file        *)
(* (`heap`).  Bound: a file with one is not compressed.                     *)
libspectrum_csw_read(f, heap) ==
  CASE f.version \notin {1, 2} -> Fails("SIGNATURE")
    [] f.version = 1 /\ f.compression # 1 -> Fails("CORRUPT")
    [] f.version = 2 /\ f.compression \notin {1, 2} -> Fails("CORRUPT")
    [] OTHER ->
         LET scale == SamplesScale(f.rate)
             behind == IF f.version = 2 THEN 2 * f.extension ELSE 0
             data == f.data \o [i \in 1..behind |-> heap]
         IN IF scale >= ScaleLimit THEN Fails("UNKNOWN")
            ELSE IF data = <<>> THEN Skipped
            ELSE Adds([type |-> "RLE_PULSE", scale |-> scale, data |-> data])

\* libspectrum_z80em_read.
libspectrum_z80em_read(f) == Adds([type |-> "RLE_PULSE", scale |-> 7, data |-> f.data])

(* libspectrum_wav_read: eight frames to a byte, the first one in the        *)
(* highest bit.  audiofile may find fewer frames than it promised.           *)
libspectrum_wav_read(f) ==
  LET bytes == libspectrum_bits_to_bytes(Len(f.frames))
      used == Len(f.frames) % BitsInByte
      frame(n) == IF n \in DOMAIN f.frames THEN f.frames[n] ELSE 0
  IN IF f.frames = <<>> \/ Len(f.frames) # f.promised THEN Fails("CORRUPT")
     ELSE Adds([type |-> "RAW_DATA", bit_length |-> CpuClock \div f.rate, pause |-> 0,
                   bits_in_last_byte |-> IF used = 0 THEN BitsInByte ELSE used,
                   data |-> [i \in 1..bytes |->
                               [k \in 1..BitsInByte |-> frame((i - 1) * BitsInByte + k)]]])
=============================================================================
