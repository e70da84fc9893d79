----------------------------- MODULE MCOperator -----------------------------
(* Instances of Operator.                                                   *)
EXTENDS Operator, TLC

CONSTANTS n1, n2, w1, w2, p1, m1, m2, c1, c2, x1

Asks(p, macs) == [provider |-> p, macs |-> macs]
Dhcp(c) == [exists |-> TRUE, alloc |-> "dhcp", prefix |-> c]

\* One NC with one worker; one NC per worker.
OneNc == w1 :> n1
TwoNcs == w1 :> n1 @@ w2 :> n2
OneProc == w1 :> p1
BothInP1 == w1 :> p1 @@ w2 :> p1

\* spec.networkNamespaceName is set.
Named1 == n1 :> x1
OneNamed == n1 :> x1 @@ n2 :> None

\* What users ask for.
KeaOneMac == n1 :> {Asks("kea", {m1})}
KeaOrOther == n1 :> {Asks("kea", {m1}), Asks("other", {m1})}
KeaShared == n1 :> {Asks("kea", {m1})} @@ n2 :> {Asks("kea", {m1})}
AnySpec ==
    n1 :> {Asks("unset", {m1}), Asks("other", {m1}), Asks("kea", {}), Asks("kea", {m1, m2})}

\* What becomes of the NetworkNamespace.
FixedNn == x1 :> {Dhcp(c1)}
LatePrefix == x1 :> {Dhcp(None), Dhcp(BadPrefix), Dhcp(c1)}
GoneNn == x1 :> {Dhcp(c1), [Dhcp(c1) EXCEPT !.exists = FALSE]}
AnyNn == x1 :> {Dhcp(c1), [Dhcp(c1) EXCEPT !.alloc = "static"],
                [Dhcp(c1) EXCEPT !.alloc = "unset"],
                [Dhcp(c1) EXCEPT !.exists = FALSE]}

\* Subnets that Kea has from the start.
NoSubnets == {[s \in Server |-> [c \in Cidr |-> 0]]}
OtherIds == {Primary :> (c1 :> 2) @@ Secondary :> (c1 :> 1)}
Both == {Primary :> (c1 :> 1 @@ c2 :> 2)}

\* Where machines live.
LocalM1 == m1 :> {c1} @@ m2 :> {}
NoLease1 == m1 :> {}
Moved1 == m1 :> {c1, c2}

=============================================================================
