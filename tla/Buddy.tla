------------------------------- MODULE Buddy -------------------------------
(***************************************************************************)
(* The buddy system of one memory zone (kernel/mm/page_alloc.c).  A page   *)
(* is the index of its struct page from zone->mmap_base.  Every operation  *)
(* runs inside irq_save/irq_restore; its loops are modelled turn by turn,  *)
(* with the variables of the loop in op, and nothing else happens between  *)
(* two turns.  The blocks that callers hold are in held: a caller gives    *)
(* back a block it got, with the order it asked for.                       *)
(***************************************************************************)
EXTENDS Lists, FiniteSets

CONSTANTS NrPages, MaxOrder, Size

ASSUME PagesAssumption == NrPages \in Nat
ASSUME SizeAssumption ==
  /\ MaxOrder \in Nat
  /\ Size \in [0..MaxOrder -> Nat]
  /\ Size[0] = 1
  /\ \A o \in 1..MaxOrder : Size[o] = 2 * Size[o-1]

VARIABLES
  free_area,  \* free_area[o]: the list of free blocks of order o
  private,    \* pages with MMAP_BITS_PRIVATE: heads of blocks
  used,       \* pages with MMAP_BITS_USED
  held,       \* the blocks <<page, order>> that are handed out
  op          \* the operation in progress and its local variables

vars == <<free_area, private, used, held, op>>

Page == 0 .. NrPages - 1
Order == 0 .. MaxOrder
NULL == -1

\* The operation in progress: "build" (build_zone_buddy_system), "reduce" (the
\* inner loop of alloc_pages), "merge" (the loop of dealloc_pages) or "none".
Op == [pc : {"none", "build", "reduce", "merge"}, page : 0..NrPages,
       order : Order, want : Order]
NoOp == [pc |-> "none", page |-> 0, order |-> 0, want |-> 0]

TypeOK ==
  /\ free_area \in [Order -> Seq(Page)]
  /\ private \subseteq Page
  /\ used \subseteq Page
  /\ held \subseteq Page \X Order
  /\ op \in Op

Init ==
  /\ free_area = [o \in Order |-> <<>>]
  /\ private = {}
  /\ used = {}
  /\ held = {}
  /\ op = [NoOp EXCEPT !.pc = "build"]
-----------------------------------------------------------------------------
(* _build_zone_buddy_system: the largest block that fits, from the bottom. *)

\* Mutant: rounding up instead of down.
get_order_ceil(n, o) == Size[o] >= n \/ o = MaxOrder

get_order_floor(n, o) == Size[o] <= n /\ \A m \in Order : m > o => n < Size[m]

Build ==
  /\ op.pc = "build" /\ op.page < NrPages
  /\ \E o \in Order :
       /\ get_order_floor(NrPages - op.page, o)
       /\ private' = private \cup {op.page}
       /\ free_area' = [free_area EXCEPT ![o] = list_add(op.page, @)]
       /\ op' = [op EXCEPT !.page = @ + Size[o]]
  /\ UNCHANGED <<used, held>>

BuildDone ==
  /\ op.pc = "build" /\ op.page = NrPages
  /\ op' = NoOp
  /\ UNCHANGED <<free_area, private, used, held>>
-----------------------------------------------------------------------------
(* alloc_pages *)

\* The first order, from the one asked for, with a free block.
FirstFit(order, o) ==
  /\ o >= order /\ free_area[o] # <<>>
  /\ \A n \in order..(o - 1) : free_area[n] = <<>>

\* pop_from_free_area on the first list that is not empty.  When all of them
\* are empty alloc_pages returns NULL and changes nothing.
alloc_pages(order) ==
  /\ op.pc = "none"
  /\ \E o \in Order :
       /\ FirstFit(order, o)
       /\ free_area' = [free_area EXCEPT ![o] = Tail(@)]
       /\ op' = [pc |-> "reduce", page |-> Head(free_area[o]),
                 order |-> o, want |-> order]
  /\ UNCHANGED <<private, used, held>>

\* Mutants: the lower half is put on the list; the flag is forgotten.
reduce_lower ==
  /\ op.pc = "reduce" /\ op.order # op.want
  /\ private' = private \cup {op.page + Size[op.order - 1]}
  /\ free_area' = [free_area EXCEPT ![op.order - 1] = list_add(op.page, @)]
  /\ op' = [op EXCEPT !.order = @ - 1]
  /\ UNCHANGED <<used, held>>
reduce_unflagged ==
  /\ op.pc = "reduce" /\ op.order # op.want
  /\ free_area' = [free_area EXCEPT ![op.order - 1] =
                     list_add(op.page + Size[op.order - 1], @)]
  /\ op' = [op EXCEPT !.order = @ - 1]
  /\ UNCHANGED <<private, used, held>>

\* reduce: the upper half becomes a free block.
reduce ==
  /\ op.pc = "reduce" /\ op.order # op.want
  /\ LET buddy2 == op.page + Size[op.order - 1]
     IN /\ private' = private \cup {buddy2}
        /\ free_area' = [free_area EXCEPT ![op.order - 1] = list_add(buddy2, @)]
  /\ op' = [op EXCEPT !.order = @ - 1]
  /\ UNCHANGED <<used, held>>

AllocDone ==
  /\ op.pc = "reduce" /\ op.order = op.want
  /\ used' = used \cup {op.page}
  /\ held' = held \cup {<<op.page, op.order>>}
  /\ op' = NoOp
  /\ UNCHANGED <<free_area, private>>
-----------------------------------------------------------------------------
(* dealloc_pages *)

\* Mutants: a block looks for its buddy on the right only; a buddy in use is
\* taken for free.
get_buddy_right(me, order) ==
  LET buddy == me + Size[order]
  IN IF \/ me % (2 * Size[order]) # 0
        \/ buddy + Size[order] > NrPages
        \/ buddy \notin private \ used
        \/ order # 0 /\ buddy + Size[order - 1] \in private
     THEN NULL ELSE buddy
get_buddy_used(me, order) ==
  LET left  == me % (2 * Size[order]) = 0
      buddy == IF left THEN me + Size[order] ELSE me - Size[order]
  IN IF \/ left /\ buddy + Size[order] > NrPages
        \/ buddy \notin private
     THEN NULL ELSE buddy

\* get_buddy: the other half of the block of twice the size, if it lies in
\* the zone and is a free block of exactly this order.
get_buddy(me, order) ==
  LET left  == me % (2 * Size[order]) = 0
      buddy == IF left THEN me + Size[order] ELSE me - Size[order]
  IN IF \/ left /\ buddy + Size[order] > NrPages
        \/ buddy \notin private
        \/ buddy \in used
        \/ order # 0 /\ buddy + Size[order - 1] \in private
     THEN NULL ELSE buddy

dealloc_pages(page, order) ==
  /\ op.pc = "none"
  /\ <<page, order>> \in held
  /\ used' = used \ {page}
  /\ held' = held \ {<<page, order>>}
  /\ op' = [pc |-> "merge", page |-> page, order |-> order, want |-> 0]
  /\ UNCHANGED <<free_area, private>>

\* remove_from_free_area and expand: the right one of the two buddies is no
\* longer the head of a block.
expand ==
  LET buddy2 == get_buddy(op.page, op.order)
      left   == IF op.page < buddy2 THEN op.page ELSE buddy2
      right  == IF op.page < buddy2 THEN buddy2 ELSE op.page
  IN /\ op.pc = "merge" /\ op.order # MaxOrder /\ buddy2 # NULL
     /\ free_area' = [free_area EXCEPT ![op.order] = list_del(buddy2, @)]
     /\ private' = private \ {right}
     /\ op' = [op EXCEPT !.page = left, !.order = @ + 1]
     /\ UNCHANGED <<used, held>>

DeallocDone ==
  /\ op.pc = "merge"
  /\ op.order = MaxOrder \/ get_buddy(op.page, op.order) = NULL
  /\ free_area' = [free_area EXCEPT ![op.order] = list_add(op.page, @)]
  /\ op' = NoOp
  /\ UNCHANGED <<private, used, held>>
-----------------------------------------------------------------------------
Next ==
  \/ Build \/ BuildDone
  \/ \E order \in Order : alloc_pages(order)
  \/ reduce \/ AllocDone
  \/ \E page \in Page, order \in Order : dealloc_pages(page, order)
  \/ expand \/ DeallocDone

Spec == Init /\ [][Next]_vars
-----------------------------------------------------------------------------
Pages(p, o) == p .. (p + Size[o] - 1)

\* The free blocks, and the block that the operation in progress works on.
FreeBlocks == UNION {{<<p, o>> : p \in ToSet(free_area[o])} : o \in Order}
OpBlock == IF op.pc \in {"reduce", "merge"} THEN {<<op.page, op.order>>} ELSE {}
Blocks == FreeBlocks \cup held \cup OpBlock

\* At every moment the free blocks, the blocks handed out and the block in
\* work cut the zone into aligned pieces that do not overlap and leave no
\* page out (during the build: no page below the one reached).
Tiling ==
  /\ \A b \in Blocks : b[1] % Size[b[2]] = 0
  /\ \A b, c \in Blocks : b # c => Pages(b[1], b[2]) \cap Pages(c[1], c[2]) = {}
  /\ UNION {Pages(b[1], b[2]) : b \in Blocks}
       = 0 .. ((IF op.pc = "build" THEN op.page ELSE NrPages) - 1)
  /\ \A o \in Order : Linked(free_area[o])

\* The flag bits that get_buddy relies on agree with the lists: a page is
\* private exactly when it is the head of a block, and used exactly when it
\* is the head of a block that is handed out.
FlagsAgree ==
  /\ private = {b[1] : b \in Blocks}
  /\ used = {b[1] : b \in held}

\* Free memory is never fragmented below need: between operations, an aligned
\* run of 2^o free pages lies inside one free block, so alloc_pages returns
\* NULL only when there is no such run.
FullyMerged ==
  op.pc = "none" =>
    \A o \in Order : \A p \in Page :
      ( /\ p % Size[o] = 0 /\ p + Size[o] <= NrPages
        /\ \A b \in held : Pages(b[1], b[2]) \cap Pages(p, o) = {} )
        => \E b \in FreeBlocks : Pages(p, o) \subseteq Pages(b[1], b[2])

\* The zone implements the allocator its callers rely on.
Promise == INSTANCE PageAllocator
ImplementsPromise == Promise!Spec
=============================================================================
