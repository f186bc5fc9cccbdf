------------------------- MODULE MCNodeChildrenInner -------------------------
(* An instance of NodeChildrenInner for TLC. *)
EXTENDS NodeChildrenInner, TLC

\* Nodes and references are only compared; so are infos and arrays.
Symmetry == Permutations(Node) \cup Permutations(RefId) \cup Permutations(Arrays) \cup Permutations(Info)
=============================================================================
