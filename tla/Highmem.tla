------------------------------ MODULE Highmem ------------------------------
(***************************************************************************)
(* kernel/mm/highmem.c: kmap and ioremap take blocks of kernel addresses   *)
(* and point their page table entries at the pages asked for.  The buddy   *)
(* system of the addresses repeats page_alloc.c function for function,     *)
(* with hmap for zone->mmap_base and high_area for the free lists, so it   *)
(* is Buddy, and Page is an address behind ZONE_NORMAL_LIMIT.  It runs     *)
(* with interrupts off.  The entries are written after that, one by one,   *)
(* and other tasks may map and unmap in between.                           *)
(***************************************************************************)
EXTENDS Buddy

CONSTANTS Frames,     \* physical pages kmap and ioremap are asked for
          MapOrders,  \* the orders kmap is asked for
          Sizes       \* the sizes, in pages, ioremap is asked for

ASSUME HighAssumption == Frames \subseteq Nat /\ MapOrders \subseteq 0..MaxOrder

VARIABLES entry,      \* the physical page every page table entry points at
          mapping     \* of every block handed out: the pages asked for, and
                      \* how many entries are written (the i of the loop)
high_vars == <<vars, entry, mapping>>

HighInit == Init /\ entry = [a \in Page |-> NULL] /\ mapping = [b \in {} |-> NULL]
-----------------------------------------------------------------------------
get_order(size, o) == o \in Order /\ Size[o] >= size /\ (o # 0 => Size[o - 1] < size)

build_buddy_system == Build \/ BuildDone
reduce_high_map == reduce
expand_high_map == expand
dealloc_high_map(b) == dealloc_pages(b[1], b[2])
dealloc_high_map_end == DeallocDone
alloc_high_map(order) == alloc_pages(order)

kmap(order) == order \in MapOrders /\ alloc_high_map(order)
ioremap(size) == \E order \in Order : get_order(size, order) /\ alloc_high_map(order)

\* alloc_high_map returns the block, and the caller knows what to map there.
Given(b, m) == [c \in DOMAIN mapping \cup {b} |-> IF c = b THEN m ELSE mapping[c]]
alloc_high_map_return(frame) ==
  /\ AllocDone
  /\ mapping' = Given(<<op.page, op.order>>, [frame |-> frame, next |-> 0])
  /\ UNCHANGED entry

\* One turn of the loop of kmap and ioremap.
mk_pgt(b) ==
  /\ op.pc = "none" /\ mapping[b].next < Size[b[2]]
  /\ entry' = [entry EXCEPT ![b[1] + mapping[b].next] = mapping[b].frame + mapping[b].next]
  /\ mapping' = [mapping EXCEPT ![b].next = @ + 1]
  /\ UNCHANGED vars

\* What kmap has returned is given back; the entries stay as they are.
kunmap(b) ==
  /\ mapping[b].next = Size[b[2]]
  /\ dealloc_high_map(b)
  /\ mapping' = [c \in DOMAIN mapping \ {b} |-> mapping[c]]
  /\ UNCHANGED entry

HighNext ==
  \/ /\ \/ build_buddy_system \/ reduce_high_map \/ expand_high_map \/ dealloc_high_map_end
        \/ \E order \in MapOrders : kmap(order)
        \/ \E size \in Sizes : ioremap(size)
     /\ UNCHANGED <<entry, mapping>>
  \/ \E frame \in Frames : alloc_high_map_return(frame)
  \/ \E b \in DOMAIN mapping : mk_pgt(b) \/ kunmap(b)
HighSpec == HighInit /\ [][HighNext]_high_vars
-----------------------------------------------------------------------------
\* However the tasks that map and unmap take turns, every entry that was
\* written for a block that is still handed out leads to the page asked for.
MappingAgrees ==
  \A b \in DOMAIN mapping : \A i \in 0..mapping[b].next - 1 :
    entry[b[1] + i] = mapping[b].frame + i
=============================================================================
