--------------------------- MODULE MCColumnLayout ---------------------------
(* One writer with all the inputs, or two with fewer.                      *)
EXTENDS ColumnLayout

(* Writers differ in nothing but their name.                               *)
Symmetry == Permutations(Writers)

InUse(w) == cols[w] # <<>> \/ builder[w] # {} \/ pending[w] # <<>>

CONSTANTS
    SharedRows,     \* bound: rows of a topic that two writers use
    SharedTypes,    \* types of its columns
    SharedLengths   \* lengths of its arrays

(* Bounds of a topic that two writers use.                                 *)
SharedBound ==
    (\E v, w \in Writers : v # w /\ InUse(v) /\ InUse(w)) =>
        /\ finished <= SharedRows
        /\ observed \in {0} \cup SharedLengths
        /\ \A w \in Writers : \A i \in DOMAIN cols[w] : cols[w][i].type \in SharedTypes
=============================================================================
