------------------------------ MODULE MCMiniFS ------------------------------
(***************************************************************************)
(* Instances of MiniFS for TLC.                                            *)
(***************************************************************************)
EXTENDS MiniFS, TLC

CONSTANTS na, nb, v1, v2

\* No operation treats one name differently from another.
Symmetry == Permutations(Names)

\* Nothing reads data but programs, so it is enough to follow what a write of
\* v2 does to the volume until it has ended: for what comes later a write of v1
\* has done the same.  And once a rollback has undone what is visible nothing
\* is claimed any more.
Followed ==
    /\ ~misled
    /\ plan = <<>> => \A b \in Blocks : DataCell(v2) \notin Range(disk.content[b])
=============================================================================
