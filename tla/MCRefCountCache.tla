-------------------------- MODULE MCRefCountCache --------------------------
(* Small instances of RefCountCache for TLC. *)
EXTENDS RefCountRefinement

CONSTANTS k1, k2

(* A producer of k1 acquires k2, or by mistake its own key. *)
OrderedNests == {<<k1, k2>>, <<k1, k1>>}

(* Producers nest along one order of the keys, their own key excepted; two
   threads nesting in opposite orders would wait for each other. *)
ASSUME NestsOrdered ==
    \E rank \in [Key -> 1..Cardinality(Key)] :
        \A p \in Nests : p[1] # p[2] => rank[p[1]] < rank[p[2]]
=============================================================================
