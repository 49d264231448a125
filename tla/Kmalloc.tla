------------------------------ MODULE Kmalloc ------------------------------
(***************************************************************************)
(* kernel/mm/kmalloc.c: a page is cut into pieces of one size class, and   *)
(* goes back to the page allocator with its last piece.  Every function    *)
(* runs with interrupts off, so that a call is one step.  The used list of *)
(* a page is only asked whether it is empty, so it is a set here.          *)
(***************************************************************************)
EXTENDS Lists

CONSTANTS LowPages,       \* the pages get_free_page has to give
          PageSize,
          HeadSize,    \* sizeof(page_head_t)
          ObjSize,     \* sizeof(obj_head_t)
          KMALLOC_MAX_ORDER,
          ClassSize,   \* 1UL << (order + KMALLOC_SHIFT)
          Requests     \* the sizes asked for

ASSUME KmallocAssumption ==
  /\ KMALLOC_MAX_ORDER \in Nat
  /\ ClassSize \in [0..KMALLOC_MAX_ORDER + 1 -> Nat \ {0}]
  /\ \A o \in 0..KMALLOC_MAX_ORDER : ClassSize[o + 1] = 2 * ClassSize[o]
  /\ HeadSize \in Nat /\ ObjSize \in Nat /\ PageSize \in Nat
  /\ HeadSize + ObjSize + ClassSize[KMALLOC_MAX_ORDER] <= PageSize
  /\ Requests \subseteq Nat

VARIABLES page_list,   \* the pages of every size class, in order
          page_head,   \* the page_head of every page
          pieces       \* the pieces handed out, with the size asked for
kmalloc_vars == <<page_list, page_head, pieces>>

SizeClass == 0..KMALLOC_MAX_ORDER
UnusedPage == [index |-> 0, used |-> {}, free |-> <<>>]
KmallocInit == /\ page_list = [o \in SizeClass |-> <<>>]
               /\ page_head = [p \in LowPages |-> UnusedPage]
               /\ pieces = {}
-----------------------------------------------------------------------------
\* The turns of the loop that halves size >> KMALLOC_SHIFT until it is 0; one
\* more than the largest class takes is too many, however many there are.
Turns(size) ==
  IF \A b \in DOMAIN ClassSize : ClassSize[b] <= size THEN KMALLOC_MAX_ORDER + 2
  ELSE CHOOSE b \in DOMAIN ClassSize :
         size < ClassSize[b] /\ (b = 0 \/ ClassSize[b - 1] <= size)
kmalloc_index(size) ==
  LET index == (IF size % ClassSize[0] = 0 THEN -1 ELSE 0) + Turns(size)
  IN IF index > KMALLOC_MAX_ORDER THEN -1 ELSE index

\* Mutant: the room of the obj_head is not counted.
PieceCount_headless(order) == (PageSize - HeadSize) \div ClassSize[order]
PieceCount(order) == (PageSize - HeadSize) \div (ObjSize + ClassSize[order])
\* Every piece is added at the front of the free list.
init_page(order) ==
  [index |-> order, used |-> {},
   free  |-> [i \in 1..PieceCount(order) |->
                HeadSize + (PieceCount(order) - i) * (ObjSize + ClassSize[order])]]

\* Takes the first free piece of page p; a page without a free piece left
\* is moved to the front, where the next request finds it full.
Take(p, h, list, size) ==
  LET obj  == Head(h.free)
      left == Tail(h.free)
  IN /\ page_head' = [page_head EXCEPT ![p] = [h EXCEPT !.used = @ \cup {obj}, !.free = left]]
     /\ page_list' = [page_list EXCEPT ![h.index] =
                        IF left = <<>> THEN list_add(p, list_del(p, list)) ELSE list]
     /\ pieces' = pieces \cup {[page |-> p, at |-> obj + ObjSize, size |-> size]}

kmalloc(size) ==
  LET index == kmalloc_index(size)
      list  == page_list[index]
      fits  == list # <<>> /\ page_head[Head(list)].free # <<>>
      inuse == {p \in LowPages : \E o \in SizeClass : Contains(page_list[o], p)}
  IN /\ index # -1
     /\ \/ fits /\ Take(Head(list), page_head[Head(list)], list, size)
        \/ ~fits /\ \E p \in LowPages \ inuse :
             Take(p, init_page(index), list_add(p, list), size)
        \/ ~fits /\ UNCHANGED kmalloc_vars   \* no free page: NULL

kfree(piece) ==
  LET p == piece.page
      obj == piece.at - ObjSize
      h == [page_head[p] EXCEPT !.used = @ \ {obj}, !.free = list_add(obj, @)]
      list == page_list[h.index]
  IN /\ page_head' = [page_head EXCEPT ![p] = h]
     /\ page_list' = [page_list EXCEPT ![h.index] =
                        IF h.used = {} THEN list_del(p, list)
                        ELSE list_add(p, list_del(p, list))]
     /\ pieces' = pieces \ {piece}

KmallocNext ==
  \/ \E size \in Requests : kmalloc(size)
  \/ \E piece \in pieces : kfree(piece)
KmallocSpec == KmallocInit /\ [][KmallocNext]_kmalloc_vars
-----------------------------------------------------------------------------
\* The sizes kmalloc_index rounds down: multiples of the smallest class that
\* are no class themselves.
RoundedDown(size) == size % ClassSize[0] = 0 /\ \A o \in SizeClass : size # ClassSize[o]

\* Two pieces that are handed out never overlap, nor does one overlap the page
\* head or the links of another or leave its page, except for the sizes that
\* kmalloc_index rounds down; and exactly the pages that hold a piece are on
\* the list of their class.
PiecesDisjoint ==
  /\ \A a, b \in pieces : a # b => a.page # b.page \/ a.at # b.at
  /\ \A a \in {piece \in pieces : ~RoundedDown(piece.size)} :
       /\ a.at >= HeadSize + ObjSize /\ a.at + a.size <= PageSize
       /\ \A b \in pieces \ {a} :
            a.page = b.page /\ a.at < b.at => a.at + a.size <= b.at - ObjSize
  /\ \A o \in SizeClass : \A p \in LowPages :
       Contains(page_list[o], p) <=>
         page_head[p].index = o /\ \E piece \in pieces : piece.page = p
=============================================================================
