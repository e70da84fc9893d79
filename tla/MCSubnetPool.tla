---------------------------- MODULE MCSubnetPool ----------------------------
(* Instances of SubnetPool: octets at and around the boundaries.            *)
EXTENDS SubnetPool

MCAddress == [1..3 -> {0, 128, 255}] \X {0, 3, 7, 8, 128, 247, 248, 251, 252, 253, 254, 255}
MCOctets == {[i \in 1..4 |-> IF i = 4 THEN x[2] ELSE x[1][i]] : x \in MCAddress}

=============================================================================
