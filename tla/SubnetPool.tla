----------------------------- MODULE SubnetPool -----------------------------
(***************************************************************************)
(* CalculatePoolFromCIDR of internal/util/subnet/subnet.go: the gateway    *)
(* and the DHCP pool that the controller puts into a new Kea subnet.  An   *)
(* address is its four octets; octets are Go bytes and wrap at 256.        *)
(***************************************************************************)
EXTENDS Integers

CONSTANTS
    Address,    \* IPv4 addresses written in front of the "/"
    Length      \* prefix lengths written behind it

Octets == [1..4 -> 0..255]

ASSUME PoolAssumption == Address \subseteq Octets /\ Length \subseteq 0..32

VARIABLES
    cidr,       \* the argument
    pool        \* the result

vars == <<cidr, pool>>

Pending == [ok |-> FALSE, done |-> FALSE]
Refused == [ok |-> FALSE, done |-> TRUE]

-----------------------------------------------------------------------------
\* 255 minus an octet of the netmask: the octet's host bits are all set.
HostOctet == [k \in 0..8 |-> CASE k = 0 -> 0 [] k = 1 -> 1 [] k = 2 -> 3 [] k = 3 -> 7
                               [] k = 4 -> 15 [] k = 5 -> 31 [] k = 6 -> 63
                               [] k = 7 -> 127 [] k = 8 -> 255]

HostBits(len, i) ==
    IF 8 * i <= len THEN 0 ELSE IF 8 * i - len >= 8 THEN 8 ELSE 8 * i - len

HostMask(len) == [i \in 1..4 |-> HostOctet[HostBits(len, i)]]

\* net.ParseCIDR clears the host bits.
Clear(x, h) == x - (x % (h + 1))

Network(a, len) == [i \in 1..4 |-> Clear(a[i], HostMask(len)[i])]

\* ip[i] | ^mask[i], where ip[i] has none of the host bits.
Broadcast(net, len) == [i \in 1..4 |-> net[i] + HostMask(len)[i]]

\* Byte arithmetic on the last octet.
Add(a, n) == [a EXCEPT ![4] = (@ + n) % 256]

isIPLessEach(a, b) == \A i \in 1..4 : a[i] < b[i]

isIPLess(a, b) ==
    \E i \in 1..4 : a[i] < b[i] /\ \A j \in 1..4 : j < i => a[j] = b[j]

PoolFrom3(net, bc) == [gateway |-> Add(net, 1), start |-> Add(net, 1), end |-> Add(bc, -1)]

PoolFrom(net, bc) == [gateway |-> Add(net, 1), start |-> Add(net, 4), end |-> Add(bc, -1)]

CalculatePoolFromCIDR(a, len) ==
    LET net == Network(a, len)
        p == PoolFrom(net, Broadcast(net, len))
    IN IF isIPLess(p.start, p.end)
       THEN [ok |-> TRUE, done |-> TRUE, gateway |-> p.gateway, start |-> p.start, end |-> p.end]
       ELSE Refused

Init ==
    /\ cidr \in [addr : Address, len : Length]
    /\ pool = Pending

Calculate ==
    /\ ~pool.done
    /\ pool' = CalculatePoolFromCIDR(cidr.addr, cidr.len)
    /\ UNCHANGED cidr

Next == Calculate

Spec == Init /\ [][Next]_vars

-----------------------------------------------------------------------------
(* Properties *)

\* Numeric order of addresses, by halves of 16 bits.
High(a) == a[1] * 256 + a[2]
Low(a) == a[3] * 256 + a[4]
Before(a, b) == High(a) < High(b) \/ (High(a) = High(b) /\ Low(a) < Low(b))

\* The pool and the gateway are host addresses of the network and the gateway
\* is not in the pool, so Kea can neither hand out the network, the broadcast
\* or the gateway address nor refuse the subnet.
PoolInNetwork ==
    pool.ok =>
        LET net == Network(cidr.addr, cidr.len) IN
        /\ Before(net, pool.gateway)
        /\ Before(pool.gateway, pool.start)
        /\ Before(pool.start, pool.end)
        /\ Before(pool.end, Broadcast(net, cidr.len))

\* Every prefix up to /29 has room for a pool and gets one.
LargeAccepted == pool.done /\ cidr.len <= 29 => pool.ok

=============================================================================
