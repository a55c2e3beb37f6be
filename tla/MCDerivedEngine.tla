--------------------------- MODULE MCDerivedEngine --------------------------
EXTENDS DerivedEngine, TLC

CONSTANTS x, y, z   \* output names, interchangeable

TheNames == {x, y, z}
AnyName == Permutations(TheNames)
TheBatches == {<<1>>, <<1, 2>>, <<2>>}
OneOrTwo == {<<n>> : n \in TheNames} \cup {ns \in TheNames \X TheNames : ns[1] # ns[2]}

(* Bound: a node with two inputs and one output joins two topics, given    *)
(* in one order; nodes with two outputs join any two.                      *)
Joins ==
    \A n \in DOMAIN nodes :
        nodes[n].mimo /\ Len(nodes[n].outs) = 1 => nodes[n].inputs[1] < nodes[n].inputs[2]
=============================================================================
