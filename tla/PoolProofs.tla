----------------------------- MODULE PoolProofs -----------------------------
(***************************************************************************)
(* CalculatePoolFromCIDR is correct for every IPv4 prefix of at most 29    *)
(* bits.                                                                   *)
(***************************************************************************)
EXTENDS SubnetPool, TLAPS

USE PoolAssumption

HostOctets == {0, 1, 3, 7, 15, 31, 63, 127, 255}
Octet == 0..255

\* An octet of the host mask is one of nine numbers; the last one of a prefix
\* of at most 29 bits has at least its three lowest bits set.
LEMMA HostOctetCases ==
    ASSUME NEW len \in 0..32, NEW i \in 1..4
    PROVE  /\ HostMask(len)[i] \in {0, 1, 3, 7, 15, 31, 63, 127, 255}
           /\ len <= 29 /\ i = 4 => HostMask(len)[i] \in {7, 15, 31, 63, 127, 255}
  <1>1. HostBits(len, i) \in 0..8
    BY DEF HostBits
  <1>2. len <= 29 /\ i = 4 => HostBits(len, i) \in 3..8
    BY DEF HostBits
  <1>3. \A k \in 0..8 : /\ HostOctet[k] \in {0, 1, 3, 7, 15, 31, 63, 127, 255}
                        /\ k >= 3 => HostOctet[k] \in {7, 15, 31, 63, 127, 255}
    BY DEF HostOctet
  <1>4. HostMask(len)[i] = HostOctet[HostBits(len, i)]
    BY DEF HostMask
  <1>5. QED
    BY <1>1, <1>2, <1>3, <1>4

\* Clearing the host bits of an octet leaves room for them below 256.
LEMMA ClearedOctet ==
    \A x \in Octet, h \in HostOctets : Clear(x, h) \in Octet /\ Clear(x, h) + h \in Octet
  BY DEF Clear, HostOctets, Octet

\* The octets of the network and of the broadcast address.
LEMMA NetworkOctets ==
    ASSUME NEW a \in Octets, NEW len \in 0..32
    PROVE  /\ Network(a, len) \in Octets
           /\ Broadcast(Network(a, len), len) \in Octets
           /\ \A i \in 1..4 :
                Broadcast(Network(a, len), len)[i] = Network(a, len)[i] + HostMask(len)[i]
  <1>1. ASSUME NEW i \in 1..4
        PROVE  Network(a, len)[i] \in Octet /\ Network(a, len)[i] + HostMask(len)[i] \in Octet
    <2>1. a[i] \in Octet
      BY DEF Octets, Octet
    <2>2. HostMask(len)[i] \in HostOctets
      BY HostOctetCases DEF HostOctets
    <2>3. Network(a, len)[i] = Clear(a[i], HostMask(len)[i])
      BY DEF Network
    <2>4. QED
      BY <2>1, <2>2, <2>3, ClearedOctet
  <1>2. Network(a, len) = [i \in 1..4 |-> Network(a, len)[i]]
    BY DEF Network
  <1>3. Broadcast(Network(a, len), len) =
            [i \in 1..4 |-> Network(a, len)[i] + HostMask(len)[i]]
    BY DEF Broadcast
  <1>4. Octets = [1..4 -> Octet]
    BY DEF Octets, Octet
  <1>5. Network(a, len) \in [1..4 -> Octet]
    BY <1>1, <1>2
  <1>6. Broadcast(Network(a, len), len) \in [1..4 -> Octet]
    BY <1>1, <1>3
  <1>7. QED
    BY <1>3, <1>4, <1>5, <1>6

\* The octet-wise comparison of isIPLess, spelled out.
LEMMA LessByOctets ==
    ASSUME NEW a, NEW b,
           \/ a[1] < b[1]
           \/ a[1] = b[1] /\ a[2] < b[2]
           \/ a[1] = b[1] /\ a[2] = b[2] /\ a[3] < b[3]
           \/ a[1] = b[1] /\ a[2] = b[2] /\ a[3] = b[3] /\ a[4] < b[4]
    PROVE  isIPLess(a, b)
  <1>1. CASE a[1] < b[1]
    BY <1>1 DEF isIPLess
  <1>2. CASE a[1] = b[1] /\ a[2] < b[2]
    BY <1>2 DEF isIPLess
  <1>3. CASE a[1] = b[1] /\ a[2] = b[2] /\ a[3] < b[3]
    BY <1>3 DEF isIPLess
  <1>4. CASE a[1] = b[1] /\ a[2] = b[2] /\ a[3] = b[3] /\ a[4] < b[4]
    BY <1>4 DEF isIPLess
  <1>5. QED
    BY <1>1, <1>2, <1>3, <1>4

\* The order of the addresses, from the order of their octets.
LEMMA OctetOrder ==
    ASSUME NEW net, NEW bc, NEW g, NEW s, NEW e,
           NEW n1 \in Octet, NEW n2 \in Octet, NEW n3 \in Octet, NEW n4 \in Octet,
           NEW b1 \in Octet, NEW b2 \in Octet, NEW b3 \in Octet, NEW b4 \in Octet,
           n1 <= b1, n2 <= b2, n3 <= b3, n4 + 7 <= b4,
           net[1] = n1, net[2] = n2, net[3] = n3, net[4] = n4,
           bc[1] = b1, bc[2] = b2, bc[3] = b3, bc[4] = b4,
           g[1] = n1, g[2] = n2, g[3] = n3, g[4] = n4 + 1,
           s[1] = n1, s[2] = n2, s[3] = n3, s[4] = n4 + 4,
           e[1] = b1, e[2] = b2, e[3] = b3, e[4] = b4 - 1
    PROVE  /\ Before(net, g) /\ Before(g, s) /\ Before(s, e) /\ Before(e, bc)
           /\ isIPLess(s, e)
  <1>1. Before(net, g) /\ Before(g, s) /\ Before(s, e) /\ Before(e, bc)
    BY DEF Before, High, Low, Octet
  <1>2. \/ n1 < b1
        \/ n1 = b1 /\ n2 < b2
        \/ n1 = b1 /\ n2 = b2 /\ n3 < b3
        \/ n1 = b1 /\ n2 = b2 /\ n3 = b3 /\ n4 + 4 < b4 - 1
    BY DEF Octet
  <1>3. isIPLess(s, e)
    BY <1>2, LessByOctets
  <1>4. QED
    BY <1>1, <1>3

\* Up to /29 nothing wraps: the pool starts four above the network address and
\* ends one below the broadcast address.
LEMMA NoWrap ==
    ASSUME NEW a \in Octets, NEW len \in 0..29
    PROVE  LET net == Network(a, len)
               bc == Broadcast(net, len)
           IN /\ net[4] + 7 <= bc[4]
              /\ Add(net, 1) = [net EXCEPT ![4] = net[4] + 1]
              /\ Add(net, 4) = [net EXCEPT ![4] = net[4] + 4]
              /\ Add(bc, -1) = [bc EXCEPT ![4] = bc[4] - 1]
  <1> DEFINE net == Network(a, len)
             bc == Broadcast(net, len)
  <1>1. net \in Octets /\ bc \in Octets /\ bc[4] = net[4] + HostMask(len)[4]
    <2>1. len \in 0..32 /\ 4 \in 1..4
      OBVIOUS
    <2>2. QED
      BY <2>1, NetworkOctets
  <1>2. HostMask(len)[4] \in {7, 15, 31, 63, 127, 255}
    BY HostOctetCases
  <1>3. net[4] \in 0..255 /\ bc[4] \in 0..255
    BY <1>1 DEF Octets
  <1> HIDE DEF net, bc
  <1>4. net[4] + 7 <= bc[4]
    BY <1>1, <1>2, <1>3, SMTT(40)
  <1>5. (net[4] + 1) % 256 = net[4] + 1 /\ (net[4] + 4) % 256 = net[4] + 4
    BY <1>3, <1>4, SMTT(40)
  <1>6. (bc[4] + -1) % 256 = bc[4] - 1
    BY <1>3, <1>4, SMTT(40)
  <1>7. QED
    BY <1>4, <1>5, <1>6 DEF Add, net, bc

\* The pool of every network of at most 29 prefix bits.
LEMMA PoolBounds ==
    ASSUME Length \subseteq 0..29
    PROVE  Spec => [](PoolInNetwork /\ LargeAccepted)
  <1> DEFINE Inv == /\ cidr \in [addr : Octets, len : 0..29]
                    /\ pool = Pending \/ pool = CalculatePoolFromCIDR(cidr.addr, cidr.len)
  <1>1. Init => Inv
    BY DEF Init
  <1>2. Inv /\ [Next]_vars => Inv'
    BY DEF Next, Calculate, vars
  <1>3. Inv => PoolInNetwork /\ LargeAccepted
    <2> SUFFICES ASSUME Inv PROVE PoolInNetwork /\ LargeAccepted
      OBVIOUS
    <2>1. CASE pool = Pending
      BY <2>1 DEF Pending, PoolInNetwork, LargeAccepted
    <2>2. CASE pool = CalculatePoolFromCIDR(cidr.addr, cidr.len)
      <3> DEFINE net == Network(cidr.addr, cidr.len)
                 bc == Broadcast(net, cidr.len)
                 m == HostMask(cidr.len)
      <3>1. cidr.addr \in Octets /\ cidr.len \in 0..29
        OBVIOUS
      <3>2. net \in Octets /\ bc \in Octets /\ \A i \in 1..4 : bc[i] = net[i] + m[i]
        <4>1. cidr.len \in 0..32
          BY <3>1
        <4>2. QED
          BY <3>1, <4>1, NetworkOctets
      <3>3. \A i \in 1..4 : m[i] \in 0..255
        BY <3>1, HostOctetCases
      <3>4. /\ net[4] + 7 <= bc[4]
            /\ Add(net, 1) = [net EXCEPT ![4] = net[4] + 1]
            /\ Add(net, 4) = [net EXCEPT ![4] = net[4] + 4]
            /\ Add(bc, -1) = [bc EXCEPT ![4] = bc[4] - 1]
        BY <3>1, NoWrap
      <3>5. pool = IF isIPLess(Add(net, 4), Add(bc, -1))
                   THEN [ok |-> TRUE, done |-> TRUE, gateway |-> Add(net, 1),
                         start |-> Add(net, 4), end |-> Add(bc, -1)]
                   ELSE Refused
        BY <2>2 DEF CalculatePoolFromCIDR, PoolFrom
      <3> DEFINE g == Add(net, 1)
                 s == Add(net, 4)
                 e == Add(bc, -1)
      <3>6. PoolInNetwork <=> (pool.ok => /\ Before(net, pool.gateway)
                                          /\ Before(pool.gateway, pool.start)
                                          /\ Before(pool.start, pool.end)
                                          /\ Before(pool.end, bc))
        BY DEF PoolInNetwork
      <3> HIDE DEF net, bc, m
      <3>7. /\ g[1] = net[1] /\ s[1] = net[1] /\ e[1] = bc[1]
            /\ g[2] = net[2] /\ s[2] = net[2] /\ e[2] = bc[2]
            /\ g[3] = net[3] /\ s[3] = net[3] /\ e[3] = bc[3]
            /\ g[4] = net[4] + 1 /\ s[4] = net[4] + 4 /\ e[4] = bc[4] - 1
        BY <3>2, <3>4 DEF Octets
      <3> HIDE DEF g, s, e
      <3>8. ASSUME NEW i \in 1..4
            PROVE  net[i] \in Octet /\ bc[i] \in Octet /\ net[i] <= bc[i]
        <4>1. net[i] \in Octet /\ bc[i] \in Octet
          BY <3>2 DEF Octets, Octet
        <4>2. bc[i] = net[i] + m[i] /\ m[i] \in Octet
          BY <3>2, <3>3 DEF Octet
        <4>3. \A x, y, z \in Octet : y = x + z => x <= y
          BY DEF Octet
        <4>4. QED
          BY <4>1, <4>2, <4>3
      <3>9. /\ Before(net, g) /\ Before(g, s) /\ Before(s, e) /\ Before(e, bc)
            /\ isIPLess(s, e)
        <4>1. 1 \in 1..4 /\ 2 \in 1..4 /\ 3 \in 1..4 /\ 4 \in 1..4
          OBVIOUS
        <4>2. QED
          BY <3>4, <3>7, <3>8, <4>1, OctetOrder
      <3>10. pool = [ok |-> TRUE, done |-> TRUE, gateway |-> g, start |-> s, end |-> e]
        BY <3>5, <3>9 DEF g, s, e
      <3>11. QED
        BY <3>6, <3>9, <3>10 DEF LargeAccepted
    <2>3. QED
      BY <2>1, <2>2
  <1>4. QED
    BY <1>1, <1>2, <1>3, PTL DEF Spec

\* For prefixes of at most 29 bits, the pool and the gateway lie strictly inside
\* the network and in the right order, octet by octet with Go's wrap-around.
THEOREM PoolCorrect ==
    ASSUME Length \subseteq 0..29
    PROVE  Spec => []PoolInNetwork
    BY PoolBounds, PTL

\* For prefixes of at most 29 bits, CalculatePoolFromCIDR never refuses.
THEOREM PoolFound ==
    ASSUME Length \subseteq 0..29
    PROVE  Spec => []LargeAccepted
    BY PoolBounds, PTL

=============================================================================
