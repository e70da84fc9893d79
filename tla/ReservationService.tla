------------------------- MODULE ReservationService -------------------------
(***************************************************************************)
(* The lease and reservation half of internal/services/kea/service.go, as  *)
(* processMACReservations and cleanupReservations of the controller drive  *)
(* it: for each MAC address, look up its lease, then make sure that a      *)
(* reservation exists; on deletion, delete the reservation.  Every Kea     *)
(* command is one step.                                                    *)
(*                                                                         *)
(* An IPv4 address is represented by the prefix it lies in: each MAC has   *)
(* its own address in each prefix, so addresses never clash.               *)
(***************************************************************************)
EXTENDS SubnetService, Sequences

CONSTANT Mac     \* normalised MAC addresses

VARIABLES
    hosts,       \* Kea: the reservations of each server
    lostHosts,   \* Kea: reservation commands whose answer was lost
    lease,       \* Kea: the prefix in which a MAC holds its newest lease, or None
    loc          \* the local variables of each worker's reconcile

Host == [mac : Mac, sid : Nat, ip : Cidr \cup {None}]
HostCmd == [op : {"add", "del"}, srv : Server, host : Host]

hvars == <<hosts, lostHosts, lease>>

(***************************************************************************)
(* todo: MACs not yet handled.  mac, hsid, ip: the MAC in hand, the subnet *)
(* id and the address for its reservation.  done, ips: macToSubnetID and   *)
(* macToIP (addresses outside the prefix are dropped, so a set of MACs is  *)
(* enough).  errs: the MACs of the error messages, in order.               *)
(***************************************************************************)
Locals ==
    [todo : SUBSET Mac, mac : Mac \cup {None}, hsid : Nat, ip : Cidr \cup {None},
     done : SUBSET Mac, ips : SUBSET Mac, errs : Seq(Mac)]

NoLocals ==
    [todo |-> {}, mac |-> None, hsid |-> 0, ip |-> None,
     done |-> {}, ips |-> {}, errs |-> <<>>]

-----------------------------------------------------------------------------
(* Kea's side of the reservation commands. *)

HasHost(s, m, id) == \E h \in hosts[s] : h.mac = m /\ h.sid = id

\* Kea refuses a reservation in an unknown subnet and a second one for a MAC.
CanReserve(s, h) ==
    /\ h.sid # 0 /\ \E c \in Cidr : subnets[s][c] = h.sid
    /\ ~HasHost(s, h.mac, h.sid)

Execute(op, s, h) ==
    CASE op = "add" /\ CanReserve(s, h) -> hosts[s] \cup {h}
      [] op = "del" -> {x \in hosts[s] : x.mac # h.mac \/ x.sid # h.sid}
      [] OTHER -> hosts[s]

SendHost(d, op, h) ==
    /\ Deliver(d)
    /\ hosts' = [s \in Server |-> IF s = d.ans THEN Execute(op, s, h) ELSE hosts[s]]
    /\ lostHosts' = lostHosts \cup [op : {op}, srv : d.lost, host : {h}]

\* A server executes a reservation command whose answer the client never saw.
LateHost(a) ==
    /\ hosts' = [hosts EXCEPT ![a.srv] = Execute(a.op, a.srv, a.host)]
    /\ lostHosts' = lostHosts \ {a}
    /\ UNCHANGED <<svars, lease, loc>>

-----------------------------------------------------------------------------
(* processMACReservations, one MAC at a time, in the order of a Go map. *)

Local(w, l) == loc' = [loc EXCEPT ![w] = l]

\* "continue": the MAC in hand is finished, with or without an error.
MacSkipped(w) ==
    /\ Goto(w, "mac")
    /\ Local(w, [loc[w] EXCEPT !.mac = None, !.hsid = 0, !.ip = None])

MacFailed(w) ==
    /\ Goto(w, "mac")
    /\ Local(w, [loc[w] EXCEPT !.mac = None, !.hsid = 0, !.ip = None,
                               !.errs = Append(@, loc[w].mac)])

MacDone(w) ==
    /\ Goto(w, "mac")
    /\ Local(w, [loc[w] EXCEPT !.mac = None, !.hsid = 0, !.ip = None,
                               !.done = @ \cup {loc[w].mac},
                               !.ips = IF loc[w].ip = None THEN @ ELSE @ \cup {loc[w].mac}])

\* The subnet id and the address to reserve, from what the lease lookup found.
\* A lease outside the prefix loses its address but keeps its subnet id.
UseLease(w, l, c, id) ==
    /\ Goto(w, "exists")
    /\ Local(w, [l EXCEPT !.hsid = IF id > 0 THEN id ELSE sid[w],
                          !.ip = IF c = arg[w] THEN c ELSE None])

\* The loop takes the next MAC.  GetLeaseIPv4ForMAC: lease4-get-by-hw-address,
\* and without a usable answer or without a lease, the address of any
\* reservation of the MAC.
GetLeaseIPv4ForMAC(w) ==
    /\ pc[w] = "mac"
    /\ \E m \in loc[w].todo, d \in Send :
        LET c == IF d.ans = None THEN None ELSE lease[m]
            l == [loc[w] EXCEPT !.todo = @ \ {m}, !.mac = m] IN
        /\ Deliver(d)
        /\ \/ c # None /\ UseLease(w, l, c, subnets[d.ans][c])
           \/ c = None /\ Goto(w, "stored") /\ Local(w, l)
    /\ UNCHANGED <<subnets, lostAdds, lock, arg, sid, hvars>>

GetStoredAddress(w) ==
    /\ pc[w] = "stored"
    /\ \E d \in Send :
        LET stored == IF d.ans = None THEN {}
                      ELSE {h \in hosts[d.ans] : h.mac = loc[w].mac /\ h.ip # None}
        IN /\ Deliver(d)
           /\ \/ \E h \in stored : UseLease(w, loc[w], h.ip, h.sid)
              \/ stored = {} /\ UseLease(w, loc[w], None, 0)
    /\ UNCHANGED <<subnets, lostAdds, lock, arg, sid, hvars>>

\* EnsureReservationForMACIP: macReservationExists asks reservation-get-by-id
\* and, without a usable answer, reservation-get-all.  No answer means "no".
Exists(w) ==
    /\ pc[w] = "exists"
    /\ \E d \in Send :
        /\ Deliver(d)
        /\ \/ d.ans = None /\ Goto(w, "existsAll") /\ UNCHANGED loc
           \/ /\ d.ans # None /\ HasHost(d.ans, loc[w].mac, loc[w].hsid)
              /\ MacDone(w)
           \/ /\ d.ans # None /\ ~HasHost(d.ans, loc[w].mac, loc[w].hsid)
              /\ Goto(w, "resAdd") /\ UNCHANGED loc
    /\ UNCHANGED <<subnets, lostAdds, lock, arg, sid, hvars>>

ExistsAll(w) ==
    /\ pc[w] = "existsAll"
    /\ \E d \in Send :
        LET found == d.ans # None /\ HasHost(d.ans, loc[w].mac, loc[w].hsid) IN
        /\ Deliver(d)
        /\ \/ found /\ MacDone(w)
           \/ ~found /\ Goto(w, "resAdd") /\ UNCHANGED loc
    /\ UNCHANGED <<subnets, lostAdds, lock, arg, sid, hvars>>

\* reservation-add; created only on an answer with result 0.
Reserved(d, h) == d.ans # None /\ CanReserve(d.ans, h)

ReservationAdd(w) ==
    /\ pc[w] = "resAdd"
    /\ \E d \in Send :
        LET h == [mac |-> loc[w].mac, sid |-> loc[w].hsid, ip |-> loc[w].ip] IN
        /\ SendHost(d, "add", h)
        /\ \/ Reserved(d, h) /\ MacDone(w)
           \/ ~Reserved(d, h) /\ MacFailed(w)
    /\ UNCHANGED <<subnets, lostAdds, lock, arg, sid, lease>>

-----------------------------------------------------------------------------
(* cleanupReservations: its errors are all ignored. *)

CleanupSkipped(w) ==
    /\ pc[w] = "cleanup" /\ Goto(w, "unfinalize")
    /\ UNCHANGED <<subnets, lostAdds, lock, arg, sid, faults, loc, hvars>>

CleanupList(w) ==
    /\ pc[w] = "cleanup"
    /\ \E d \in Send :
        LET id == GetSubnetID(d, arg[w]) IN
        /\ Deliver(d)
        /\ \/ id > 0 /\ Goto(w, "delMac") /\ sid' = [sid EXCEPT ![w] = id]
           \/ id <= 0 /\ Goto(w, "unfinalize") /\ sid' = sid
    /\ UNCHANGED <<subnets, lostAdds, lock, arg, loc, hvars>>

DeleteReservationForMAC(w) ==
    /\ pc[w] = "delMac"
    /\ \/ \E m \in loc[w].todo, d \in Send :
            /\ SendHost(d, "del", [mac |-> m, sid |-> sid[w], ip |-> None])
            /\ Local(w, [loc[w] EXCEPT !.todo = @ \ {m}])
            /\ UNCHANGED pc
       \/ /\ loc[w].todo = {}
          /\ Goto(w, "unfinalize")
          /\ UNCHANGED <<hosts, lostHosts, loc, faults>>
    /\ UNCHANGED <<subnets, lostAdds, lock, arg, sid, lease>>

=============================================================================
