--------------------------- MODULE PageAllocator ---------------------------
(***************************************************************************)
(* What alloc_pages and dealloc_pages promise their callers: a block of    *)
(* 2^order pages, aligned to its size, that overlaps no other block handed *)
(* out and stays the caller's until it is given back.                      *)
(***************************************************************************)
EXTENDS Integers

CONSTANTS NrPages,    \* pages of the zone
          MaxOrder,   \* MAX_ORDER
          Size        \* Size[o] = 1 << o

VARIABLE held         \* the blocks <<first page, order>> that are handed out

Page == 0 .. NrPages - 1
Order == 0 .. MaxOrder

\* The pages of the block of the given order that starts at page p.
Pages(p, o) == p .. (p + Size[o] - 1)

Init == held = {}

Alloc(p, o) ==
  /\ p % Size[o] = 0 /\ p + Size[o] <= NrPages
  /\ \A b \in held : Pages(b[1], b[2]) \cap Pages(p, o) = {}
  /\ held' = held \cup {<<p, o>>}

Free(p, o) ==
  /\ <<p, o>> \in held
  /\ held' = held \ {<<p, o>>}

Next == \E p \in Page, o \in Order : Alloc(p, o) \/ Free(p, o)

Spec == Init /\ [][Next]_held
=============================================================================
