------------------------------- MODULE MCMount -------------------------------
(* Two commands, two devices, three process numbers, a table of two slots. A  *)
(* state in which an old copy was written over a newer table is reached and   *)
(* not left, as nothing is claimed from there on; one handler at most ends    *)
(* behind the back of the table.                                              *)
EXTENDS Mount, TLC
CONSTANTS p1, p2, x1, x2, x3
Perms == Permutations({p1, p2}) \cup Permutations({x1, x2, x3})
Explored == ~spoilt /\ Cardinality(outside) <= 1
=============================================================================
