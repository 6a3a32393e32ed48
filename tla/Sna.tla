-------------------------------- MODULE Sna ---------------------------------
(***************************************************************************)
(* The .sna format (sna.c): a header, the 48K of memory the Z80 sees and,  *)
(* for a machine with more, a second header and the other pages.  Nothing  *)
(* in a file says which of the two it is: its length does.                 *)
(***************************************************************************)
EXTENDS Snapshot

\* The registers with a PC that is whatever the stack holds.
STRAY_PC == 255

\* The page at each 16K of the address space, and the page an address is in.
Memory48 == <<5, 2, 0>>
PageAt(address) == Memory48[address \div 16384]

\* Pages the second part of a file has, in order: those the first has not.
PagesLeft == <<0, 1, 3, 4, 6, 7>>

OtherPages(page) ==
  FlattenSeq([i \in DOMAIN PagesLeft |-> When(PagesLeft[i] # page, <<PagesLeft[i]>>)])

-----------------------------------------------------------------------------
(* Writing.                                                                *)

NotInSna ==
  { "plusd", "beta", "opus", "zxatasp", "zxcf", "simpleide", "divide", "if2",
    "dock", "fuller", "melodik", "specdrum", "spectranet", "usource",
    "disciple", "didaktik", "covox", "multiface", "divmmc", "zxmmc" }

\* Something is always lost.
SnaLoss(s) ==
  {"MINOR"} \union
    IF \/ \E d \in NotInSna : Active(s, d)
       \/ s.custom_rom
       \/ s.machine \notin { "16", "48", "PENT" }
    THEN {"MAJOR"} ELSE {}

write_sna_header(s, sp) ==
  Chunk("SNA", [regs |-> s.regs, iff |-> s.iff2, sp |-> sp, border |-> s.border])

\* A page that is not there is 16K of 0xff.
write_sna_page(s, p) ==
  Chunk("PAGE", IF p \in DOMAIN s.pages THEN s.pages[p] ELSE Blank)

\* PC goes on the stack, whose two bytes may be in two pages.
write_48k_sna(s) ==
  LET sp == s.sp - 2
      stack == {PageAt(sp), PageAt(sp + 1)}
      data(p) == write_sna_page(s, p).body
  IN  <<write_sna_header(s, sp)>> \o
        [i \in 1 .. 3 |->
           Chunk("PAGE", IF Memory48[i] \in stack THEN Stacked(data(Memory48[i]))
                         ELSE data(Memory48[i]))]

write_128k_sna(s) ==
  LET page   == s.port_128 % 8
      others == OtherPages(page)
  IN  <<write_sna_header(s, s.sp), write_sna_page(s, 5), write_sna_page(s, 2),
        write_sna_page(s, page), Chunk("128", s.port_128)>> \o
        [i \in DOMAIN others |-> write_sna_page(s, others[i])]

\* Below 0x4002 there is no RAM to put PC in.
HasRoom(sp) == sp >= 16386

libspectrum_sna_write(s) ==
  CASE s.machine \in MEMORY_128 ->
         [err |-> "NONE", flags |-> SnaLoss(s), file |-> write_128k_sna(s)]
    [] s.machine \notin MEMORY_128 /\ HasRoom(s.sp) ->
         [err |-> "NONE", flags |-> SnaLoss(s), file |-> write_48k_sna(s)]
    [] OTHER -> [err |-> "INVALID", flags |-> SnaLoss(s), file |-> <<>>]

-----------------------------------------------------------------------------
(* Reading: the whole file at once, for its length says what it is.        *)

\* 49179 bytes; 131103 and 147487.
sna_identify_machine(file) ==
  CASE Len(file) = 4 -> "48"
    [] Len(file) \in {10, 11} -> "PENT"
    [] OTHER -> "unknown"

\* One flag for both flip-flops.
sna_read_header(s, b) ==
  [s EXCEPT !.regs = b.regs, !.iff1 = b.iff, !.iff2 = b.iff, !.sp = b.sp,
            !.border = b.border]

\* The first part in the pages of a new snapshot, none of which is in use.
libspectrum_split_to_48k_pages(file) ==
  [p \in {0, 2, 5} |-> file[CHOOSE i \in 2 .. 4 : Memory48[i - 1] = p].body]

HasStack(sp)  == sp >= 16384 /\ sp # WordSize - 1
Unstacked(sp) == (sp + 2) % WordSize

\* A mutant: PC is taken from the stack, but stays there.
read_48k_stacked(s, file) ==
  Ok([s EXCEPT !.pages = libspectrum_split_to_48k_pages(file)])

\* PC comes from the stack, so SP cannot be where there are not two bytes; it
\* is the PC that was saved only if a writer put it there.
read_48k(s, file) ==
  LET pages == libspectrum_split_to_48k_pages(file)
  IN  IF HasStack(s.sp)
      THEN Ok([s EXCEPT
             !.sp = Unstacked(@), !.pages = pages,
             !.regs = IF pages[PageAt(s.sp)][2] THEN @ ELSE STRAY_PC])
      ELSE Error(s, "CORRUPT")

\* Where a page is in a file with this page in the third place.
PlaceOf(p, page) ==
  LET others == OtherPages(page)
  IN  CASE p = 5 -> 2
        [] p = 2 -> 3
        [] p = page /\ p \notin {2, 5} -> 4
        [] OTHER -> 5 + CHOOSE i \in DOMAIN others : others[i] = p

\* The pages are allocated, and those in the first n places are copied.
Copied(s, file, n) ==
  [s EXCEPT !.port_128 = file[5].body,
            !.pages = [p \in 0 .. 7 |->
               LET i == PlaceOf(p, file[5].body % 8)
               IN  IF i <= n THEN file[i].body ELSE Unset]]

\* A page the first part has twice must be the same both times; the second
\* part has to have every page that is left.
read_128k(s, file) ==
  LET page  == file[5].body % 8
      twice == page \in {2, 5} /\ file[4].body # file[PlaceOf(page, page)].body
      short == Len(file) < 5 + Len(OtherPages(page))
  IN  CASE twice -> Error(Copied(s, file, 3), "CORRUPT")
        [] ~twice /\ short -> Error(Copied(s, file, Len(file)), "CORRUPT")
        [] OTHER -> Ok(Copied(s, file, Len(file)))

internal_sna_read(s, file) ==
  LET machine == sna_identify_machine(file)
      t == sna_read_header([s EXCEPT !.machine = machine], file[1].body)
  IN  CASE machine = "unknown" -> Error(s, "CORRUPT")
        [] machine = "48" -> read_48k(t, file)
        [] machine = "PENT" -> read_128k(t, file)
=============================================================================
