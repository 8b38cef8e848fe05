-------------------------------- MODULE Tree --------------------------------
(***************************************************************************)
(* What a file system promises its callers: a tree of directories and      *)
(* files that changes by one whole operation at a time.  tree maps the     *)
(* paths that exist to what is there: NoData for a directory, the bytes of *)
(* a file.                                                                 *)
(***************************************************************************)
EXTENDS Naturals, Sequences, TLC

CONSTANTS Paths, Counts, NoData

VARIABLE tree

IsDir(p) == p = <<>> \/ (p \in DOMAIN tree /\ tree[p] = NoData)

IsFile(p) == p \in DOMAIN tree /\ tree[p] # NoData

Children(p) == {q \in DOMAIN tree : q # <<>> /\ SubSeq(q, 1, Len(q) - 1) = p}

Parent(p) == SubSeq(p, 1, Len(p) - 1)

Init == tree = << >>

\* A new file is empty; a new path has a directory above it.
Add(p, what) ==
  /\ p \notin DOMAIN tree
  /\ IsDir(Parent(p))
  /\ tree' = tree @@ (p :> what)

Remove(p) ==
  /\ p \in DOMAIN tree
  /\ Children(p) = {}
  /\ tree' = [q \in DOMAIN tree \ {p} |-> tree[q]]

\* The bytes of a file are numbered by those who write it.
Extend(p, count) ==
  /\ IsFile(p)
  /\ tree' = [tree EXCEPT ![p] = [i \in 1 .. (Len(@) + count) |-> IF i <= Len(@) THEN @[i] ELSE i]]

Next ==
  \E p \in Paths :
    \/ Add(p, <<>>)
    \/ Add(p, NoData)
    \/ Remove(p)
    \/ \E count \in Counts : Extend(p, count)

Spec == Init /\ [][Next]_tree
=============================================================================
