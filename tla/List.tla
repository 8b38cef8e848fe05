-------------------------------- MODULE List --------------------------------
(***************************************************************************)
(* The linked lists of lib/kernel/list.c, as sequences.  The kernel uses   *)
(* one CPU and its list operations turn interrupts off: each is one step.  *)
(***************************************************************************)
EXTENDS Naturals, Sequences

elem_find(list, t) == \E i \in DOMAIN list : list[i] = t

Distinct(list) == \A i, j \in DOMAIN list : list[i] = list[j] => i = j

list_push(list, t) == <<t>> \o list

\* The caller has made sure that t is in the list.
list_remove(list, t) ==
  LET at == CHOOSE i \in DOMAIN list : list[i] = t
  IN [i \in 1 .. (Len(list) - 1) |-> IF i < at THEN list[i] ELSE list[i + 1]]
=============================================================================
