------------------------------- MODULE Zones -------------------------------
(***************************************************************************)
(* From the map of the BIOS to the free pages: mm_init of kernel/mm/init.c *)
(* and page_alloc_init, one step per function, on addresses of a small     *)
(* machine.  Unsigned arithmetic wraps at W, which stands for 4 GB.  A     *)
(* BUG_ON that fires halts the machine.                                    *)
(***************************************************************************)
EXTENDS Integers, Sequences, FiniteSets, FiniteSetsExt

CONSTANTS PAGE_SIZE, W,
          ZONE_DMA_LIMIT, ZONE_NORMAL_LIMIT, ZONE_HIGHMEM_SIZE,
          PTRS_PER_PGT,
          SizeofPage,     \* sizeof(mem_map_t)
          MaxOrder,
          Load, End,      \* where the kernel is, up to its page directory
          Maps            \* the maps of the BIOS: [base, size, usable]

VARIABLES boot,  \* the function of mm_init under way, or BUG
          map,
          zones, \* zones_list: [base, size, mmap], mmap the first page struct
          pgt_end, \* __kernel_pgt_end
          cut,   \* the memory cut for the page structs: [base, size]
          free   \* the pages of the buddy systems
vars == <<boot, map, zones, pgt_end, cut, free>>

PAGE_FLOOR(a) == a - (a % PAGE_SIZE)
PAGE_ALIGN(a) == PAGE_FLOOR(a + PAGE_SIZE - 1)
ceil_div(a, b) == (a + b - 1) \div b
None == [base |-> 0, size |-> 0]

Init == /\ boot = "mem_zones_create" /\ map \in Maps
        /\ zones = <<>> /\ pgt_end = 0 /\ cut = None /\ free = {}
-----------------------------------------------------------------------------
(* mem_zones_create *)

Zone(base, size) == IF size >= PAGE_SIZE THEN <<[base |-> base, size |-> size, mmap |-> 0]>>
                    ELSE <<>>
\* Mutant: the limit of the normal zones is forgotten.
add_to_zones_list_dma ==
  LET add[r \in Nat \X Nat] ==
        LET aligned == PAGE_ALIGN(r[1])
            left == (r[2] - (aligned - r[1])) % W
        IN IF left < PAGE_SIZE THEN <<>>
           ELSE IF aligned < ZONE_DMA_LIMIT /\ aligned + r[2] >= ZONE_DMA_LIMIT
           THEN Zone(aligned, ZONE_DMA_LIMIT - aligned)
                \o add[<<ZONE_DMA_LIMIT, (r[1] + r[2] - ZONE_DMA_LIMIT) % W>>]
           ELSE Zone(aligned, PAGE_FLOOR(left))
  IN add
add_to_zones_list ==
  LET Crosses(a, size, limit) == a < limit /\ (a + size) % W >= limit
      add[r \in Nat \X Nat] ==
        LET aligned == PAGE_ALIGN(r[1])
            left == (r[2] - (aligned - r[1])) % W
            Split(limit) == Zone(aligned, limit - aligned)
                            \o add[<<limit, (r[1] + r[2] - limit) % W>>]
        IN IF left < PAGE_SIZE THEN <<>>
           ELSE IF Crosses(aligned, r[2], ZONE_DMA_LIMIT) THEN Split(ZONE_DMA_LIMIT)
           ELSE IF Crosses(aligned, r[2], ZONE_NORMAL_LIMIT) THEN Split(ZONE_NORMAL_LIMIT)
           ELSE Zone(aligned, PAGE_FLOOR(left))
  IN add

\* The entries used: in ascending order, up to the first that reaches 4 GB.
Below(e) == e.base + e.size < W
InOrder(i) == i = 1 \/ map[i].base >= map[i - 1].base
Taken == {i \in DOMAIN map : map[i].usable /\ InOrder(i) /\
            \A j \in 1..i : map[j].usable /\ InOrder(j) => Below(map[j])}
mem_zones_create ==
  LET upto[i \in 0..Len(map)] ==
        IF i = 0 THEN <<>>
        ELSE upto[i - 1] \o IF i \in Taken THEN add_to_zones_list[<<map[i].base, map[i].size>>]
                            ELSE <<>>
  IN /\ boot = "mem_zones_create" /\ boot' = "paging_init"
     /\ zones' = upto[Len(map)]
     /\ UNCHANGED <<map, pgt_end, cut, free>>

TypeOf(a) == IF a < ZONE_DMA_LIMIT THEN "DMA" ELSE IF a < ZONE_NORMAL_LIMIT THEN "NORMAL"
             ELSE "HIGHMEM"
\* fast_zone_entry: from the first zone of a type along next, which
\* init_fast_zone_entry cuts where a higher type begins.
Chain(type) ==
  LET of == {i \in DOMAIN zones : TypeOf(zones[i].base) = type}
  IN {i \in of : \A j \in Min(of)..i : j \in of}
-----------------------------------------------------------------------------
(* mem_info_init, paging_init, mem_map_create *)

usable_limit == LET u == {i \in DOMAIN map : map[i].usable}
                    limit == map[Max(u)].base + map[Max(u)].size
                IN Min({limit, W})
virt_mem_size == Min({usable_limit, ZONE_NORMAL_LIMIT})
tables(size) == ceil_div(size \div PAGE_SIZE, PTRS_PER_PGT)

\* The page tables are behind the page directory, which points at them one
\* after the other from PAGE_OFFSET on.
pgt_base == End + PAGE_SIZE
directory(i) == pgt_base + PAGE_SIZE * i
paging_init ==
  /\ boot = "paging_init" /\ boot' = "mem_map_create"
  /\ pgt_end' = pgt_base + PAGE_SIZE * (tables(ZONE_HIGHMEM_SIZE) + tables(virt_mem_size))
  /\ UNCHANGED <<map, zones, cut, free>>

usable_size == LET s[i \in 0..Len(zones)] == IF i = 0 THEN 0 ELSE s[i - 1] + zones[i].size
               IN s[Len(zones)]
\* The memory a zone can give: what is behind the kernel, in the kernel's zone.
real_size(i) ==
  LET z == zones[i]
  IN IF Load >= z.base /\ pgt_end <= z.base + z.size THEN z.size + z.base - pgt_end ELSE z.size
Low == Chain("DMA") \cup Chain("NORMAL")
fix_zone == CHOOSE i \in Low : \A j \in Low : real_size(i) > real_size(j)
                                              \/ (real_size(i) = real_size(j) /\ i <= j)
need_size == LET s == (SizeofPage * usable_size) \div (PAGE_SIZE + SizeofPage)
             IN s - (s % SizeofPage)

\* The BUG_ON looks at the last zone, not at the one that was found.
mem_map_create ==
  /\ boot = "mem_map_create"
  /\ IF Low = {} \/ real_size(Max(Low)) <= PAGE_ALIGN(need_size)
     THEN boot' = "BUG" /\ UNCHANGED <<zones, cut>>
     ELSE LET size == PAGE_ALIGN(need_size)
              small == [zones EXCEPT ![fix_zone].size = @ - size]
              base == small[fix_zone].base + small[fix_zone].size
              at[i \in 1..Len(zones)] == IF i = 1 THEN base
                    ELSE at[i - 1] + SizeofPage * (small[i - 1].size \div PAGE_SIZE)
          IN /\ boot' = "page_alloc_init"
             /\ zones' = [i \in DOMAIN zones |-> [small[i] EXCEPT !.mmap = at[i]]]
             /\ cut' = [base |-> base, size |-> size]
  /\ UNCHANGED <<map, pgt_end, free>>
-----------------------------------------------------------------------------
(* page_alloc_init *)

PagesOf(z) == {a \in z.base..z.base + z.size - 1 : a % PAGE_SIZE = 0}
phys_to_zone(a) ==
  LET hit == {i \in Chain(TypeOf(a)) : zones[i].base <= a /\ a < zones[i].base + zones[i].size}
  IN IF hit = {} THEN 0 ELSE Min(hit)
phys_to_page(a) == LET i == phys_to_zone(PAGE_FLOOR(a))
                   IN zones[i].mmap + SizeofPage * ((a - zones[i].base) \div PAGE_SIZE)
mmap_end(i) == zones[i].mmap + SizeofPage * (zones[i].size \div PAGE_SIZE)
page_to_phys(p) ==
  LET i == Min({j \in DOMAIN zones : p >= zones[j].mmap /\ p < mmap_end(j)})
  IN zones[i].base + PAGE_SIZE * ((p - zones[i].mmap) \div SizeofPage)

\* The blocks of a new buddy system: [first page, end).
Blocks(z) ==
  LET order(n) == IF n > 2^MaxOrder THEN MaxOrder
                  ELSE CHOOSE o \in 0..MaxOrder : 2^o <= n /\ (n < 2^(o + 1))
      next[a \in Nat] == IF a >= z.base + z.size THEN {}
        ELSE LET to == a + PAGE_SIZE * 2^order((z.base + z.size - a) \div PAGE_SIZE)
             IN {<<a, to>>} \cup next[to]
  IN next[z.base]

\* alloc_region takes the blocks that overlap the region apart and frees the
\* pages before and behind it; each end must still belong to the zone.
alloc_region(base, end) ==
  LET i == phys_to_zone(base)
      hit == {b \in Blocks(zones[i]) : (base >= b[1] /\ base < b[2]) \/ (b[1] > base /\ end > b[1])}
      max == Max({b[2] : b \in hit})
      all == UNION {PagesOf(zones[j]) : j \in DOMAIN zones}
  IN IF i = 0 \/ phys_to_zone(end) # i \/ phys_to_zone(max) # i
     THEN boot' = "BUG" /\ UNCHANGED free
     ELSE /\ boot' = "done"
          /\ free' = all \ {a \in all : base <= a /\ a < end}

page_alloc_init ==
  /\ boot = "page_alloc_init"
  /\ alloc_region(PAGE_FLOOR(Load), pgt_end)
  /\ UNCHANGED <<map, zones, pgt_end, cut>>

Next == mem_zones_create \/ paging_init \/ mem_map_create \/ page_alloc_init
Spec == Init /\ [][Next]_vars
-----------------------------------------------------------------------------
\* No sum or difference of add_to_zones_list goes below zero or above 4 GB, and
\* no region ends within the page that its alignment skips before a limit.
Regular(e) ==
  LET aligned == PAGE_ALIGN(e.base)
  IN /\ aligned <= e.base + e.size /\ aligned + e.size < W
     /\ \A limit \in {ZONE_DMA_LIMIT, ZONE_NORMAL_LIMIT} :
          aligned < limit /\ aligned + e.size >= limit => e.base + e.size >= limit
UsablePages == {a \in 0..W - 1 : a % PAGE_SIZE = 0 /\
  \E i \in Taken : map[i].base <= a /\ a + PAGE_SIZE <= map[i].base + map[i].size}
ZonePages == UNION {PagesOf(zones[i]) : i \in DOMAIN zones}

\* The tables that kmap writes to, from the directory entry that
\* kernel_pgt_highmem_base reads.
KmapTables == {directory(ZONE_NORMAL_LIMIT \div (PAGE_SIZE * PTRS_PER_PGT) + i) :
                 i \in 0..tables(ZONE_HIGHMEM_SIZE) - 1}

\* A boot that ends without BUG_ON has put every usable page into the zone of
\* its type, where it is found again by its address and by its structure, or
\* into the memory map, which sticks out by one structure at most; and neither
\* the kernel nor the memory map is free, nor, with memory up to the limit of
\* the normal zones, the page tables of kmap.
ZonesCover ==
  boot = "done" /\ (\A i \in DOMAIN map : Regular(map[i])) =>
    /\ UsablePages = ZonePages \cup PagesOf(cut) /\ ZonePages \cap PagesOf(cut) = {}
    /\ \A i \in DOMAIN zones :
         /\ i \in Chain(TypeOf(zones[i].base))
         /\ \A a \in PagesOf(zones[i]) :
              TypeOf(a) = TypeOf(zones[i].base) /\ page_to_phys(phys_to_page(a)) = a
    /\ mmap_end(Len(zones)) <= cut.base + cut.size + SizeofPage
    /\ cut.base >= pgt_end \/ cut.base + cut.size <= Load
    /\ \A a \in Load..pgt_end - 1 : PAGE_FLOOR(a) \notin free
    /\ free \subseteq ZonePages
    /\ tables(virt_mem_size) = tables(ZONE_NORMAL_LIMIT) => KmapTables \cap free = {}
=============================================================================
