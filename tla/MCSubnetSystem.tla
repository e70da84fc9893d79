--------------------------- MODULE MCSubnetSystem ---------------------------
(* Instances of SubnetSystem: three workers, two of which share a prefix.   *)
EXTENDS SubnetSystem, TLC

CONSTANTS w1, w2, w3, p1, p2, c1, c2

MCWorker == {w1, w2, w3}
MCPrefix == w1 :> c1 @@ w2 :> c1 @@ w3 :> c2
MCTwoProcs == w1 :> p1 @@ w2 :> p2 @@ w3 :> p1
MCOneProc == w1 :> p1 @@ w2 :> p1 @@ w3 :> p1

\* In MCOneProc the workers that share a prefix can trade places.
Symmetry == Permutations({w1, w2})

=============================================================================
