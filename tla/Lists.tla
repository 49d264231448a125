------------------------------- MODULE Lists -------------------------------
(***************************************************************************)
(* The circular doubly linked lists of include/list.h.  A list head is     *)
(* modelled by the sequence of the entries found by walking head->next, so *)
(* the entry after the head is the first element.  An entry is linked at   *)
(* most once, so deleting it means deleting its only occurrence.           *)
(***************************************************************************)
EXTENDS Integers, Sequences, SequencesExt

\* list_add: the new entry becomes the one right after the head.
list_add(e, l) == <<e>> \o l

\* list_del: the entry leaves whichever list it is linked on.
list_del(e, l) == RemoveFirst(l, e)

\* list_splice: the entries of l are put in front of those of head.
list_splice(l, head) == l \o head

\* No entry is linked twice on the list.
Linked(l) == \A i, j \in 1..Len(l) : l[i] = l[j] => i = j
=============================================================================
