------------------------------ MODULE MCMemory ------------------------------
(***************************************************************************)
(* The memory management for TLC.  The parts share no state, so a          *)
(* behaviour is one of one part, and the variables of the others keep      *)
(* their first values.                                                     *)
(*                                                                         *)
(* Nine pages for the buddy system are a block of order 3 and a single     *)
(* page whose right buddy would lie outside the zone.  The mappings have   *)
(* two and four pages, so that six can be asked for at once and blocks are *)
(* split and merged between two writes of entries.  The sizes asked of     *)
(* kmalloc are classes, sizes between them, one that is rounded down and   *)
(* one that is too large.  Two programs cannot both be loaded with the     *)
(* ten pages there are.  The maps of the BIOS have three entries that      *)
(* touch, overlap, end within a page, cross the limits of the zones and    *)
(* pass the end of the addresses.                                          *)
(***************************************************************************)
EXTENDS Highmem, Kmalloc, UserPages

VARIABLES part,
          boot, map, zones, pgt_end, cut, frames
zvars == <<boot, map, zones, pgt_end, cut, frames>>

MCSize == [o \in 0..MaxOrder |-> 2^o]

MCClassSize == [o \in 0..3 |-> 2^(o + 2)]

Entry(from, to, usable) == [base |-> from, size |-> to - from, usable |-> usable]
MCMaps == {m \in {<<Entry(a, b, TRUE), Entry(b, c, u), Entry(c, d, TRUE)>> :
                    a \in {0, 2, 8, 16}, b \in {6, 16, 36, 44, 66, 104},
                    c \in {12, 36, 44, 62, 63, 64, 102, 126, 128},
                    d \in {65, 104, 127, 128, 132, 200, 252, 300}, u \in BOOLEAN} :
             \A i \in 1..3 : m[i].size > 0}
Z == INSTANCE Zones WITH
  PAGE_SIZE <- 4, W <- 256, ZONE_DMA_LIMIT <- 64, ZONE_NORMAL_LIMIT <- 128,
  ZONE_HIGHMEM_SIZE <- 64, PTRS_PER_PGT <- 16, SizeofPage <- 1, MaxOrder <- 2,
  Load <- 16, End <- 20, Maps <- MCMaps, free <- frames
-----------------------------------------------------------------------------
MCInit == /\ part \in {"buddy", "kmalloc", "highmem", "program", "zones"}
          /\ HighInit /\ KmallocInit /\ UserInit /\ Z!Init
          /\ part # "zones" => map = CHOOSE m \in MCMaps : TRUE
MCNext ==
  /\ UNCHANGED part
  /\ \/ part = "buddy" /\ Next /\ UNCHANGED <<entry, mapping, kmalloc_vars, user_vars, zvars>>
     \/ part = "highmem" /\ HighNext /\ UNCHANGED <<kmalloc_vars, user_vars, zvars>>
     \/ part = "kmalloc" /\ KmallocNext /\ UNCHANGED <<high_vars, user_vars, zvars>>
     \/ part = "program" /\ UserNext /\ UNCHANGED <<high_vars, kmalloc_vars, zvars>>
     \/ part = "zones" /\ (Z!Next \/ (boot \in {"done", "BUG"} /\ UNCHANGED zvars))
        /\ UNCHANGED <<high_vars, kmalloc_vars, user_vars>>
MCSpec == MCInit /\ [][MCNext]_<<part, high_vars, kmalloc_vars, user_vars, zvars>>

\* Every usable page is in its zone and found there.
ZonesCover == Z!ZonesCover
=============================================================================
