------------------------------ MODULE Machines ------------------------------
(***************************************************************************)
(* The machines libspectrum knows and what it says about each of them      *)
(* (libspectrum.c, timings.c).  Readers and writers of every file format   *)
(* decide by these capabilities which memory, ports and devices a snapshot *)
(* has.                                                                    *)
(***************************************************************************)
EXTENDS Naturals

Machines ==
  { "16", "48", "48_NTSC", "TC2048", "TC2068", "TS2068", "128", "PLUS2",
    "PLUS2A", "PLUS3", "PLUS3E", "128E", "PENT", "PENT512", "PENT1024",
    "SCORP", "SE" }

-----------------------------------------------------------------------------
(* The machines with each capability.                                      *)

PLUS3_MEMORY    == { "PLUS2A", "PLUS3", "PLUS3E", "128E" }
SCORP_MEMORY    == { "SCORP" }
SE_MEMORY       == { "SE" }
PENT1024_MEMORY == { "PENT1024" }
PENT512_MEMORY  == { "PENT512", "PENT1024" }
TIMEX_MEMORY    == { "TC2048", "TC2068", "TS2068" }
TIMEX_VIDEO     == TIMEX_MEMORY \union { "SE" }
TRDOS_DISK      == { "PENT", "PENT512", "PENT1024", "SCORP" }

\* 0x7ffd paging; the SE has it "to be considered a 128k machine".
MEMORY_128 ==
  { "128", "PLUS2", "SE" } \union PLUS3_MEMORY \union TRDOS_DISK

AY == MEMORY_128 \union { "TC2068", "TS2068" }

-----------------------------------------------------------------------------
(* The length of a frame, from the line and frame timings of each machine. *)

libspectrum_timings_tstates_per_line(m) ==
  IF m \in MEMORY_128 \ ({ "SE" } \union TRDOS_DISK) THEN 228 ELSE 224

libspectrum_timings_lines_per_frame(m) ==
  CASE m = "48_NTSC" -> 264
    [] m = "TS2068" -> 262
    [] m \in { "PENT", "PENT512", "PENT1024" } -> 320
    [] m \in { "128", "PLUS2" } \union PLUS3_MEMORY -> 311
    [] OTHER -> 312

libspectrum_timings_tstates_per_frame(m) ==
  libspectrum_timings_tstates_per_line(m)
    * libspectrum_timings_lines_per_frame(m)
=============================================================================
