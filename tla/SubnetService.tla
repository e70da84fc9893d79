---------------------------- MODULE SubnetService ----------------------------
(***************************************************************************)
(* Service.GetOrCreateSubnet of internal/services/kea/service.go, run by   *)
(* several reconcile workers at once.  Workers of one operator process     *)
(* share one mutex per CIDR.  Workers of different processes (replicas     *)
(* without leader election) share nothing but the Kea servers.             *)
(* Every Kea command is one step, so the steps of other workers, of other  *)
(* processes and of late commands fall between any two of them.            *)
(***************************************************************************)
EXTENDS KeaDelivery, Integers

CONSTANTS
    Proc,        \* operator processes
    Worker,      \* reconcile workers
    ProcOf,      \* the process a worker runs in
    Cidr,        \* IPv4 prefixes
    EmptyListOk, \* subnet4-list answers result 0 when Kea has no subnet
    MaxFaults    \* bound on faulty deliveries, API faults and crashes

ASSUME SubnetAssumption ==
    /\ ProcOf \in [Worker -> Proc]
    /\ None \notin Worker
    /\ EmptyListOk \in BOOLEAN
    /\ MaxFaults \in Nat

VARIABLES
    subnets,     \* Kea: per server, the id of each configured CIDR, 0 if none
    lostAdds,    \* Kea: subnet4-add commands whose answer was lost
    lock,        \* Service.subnetLocks of each process: the mutex's holder
    pc,          \* where each worker is
    arg,         \* cfg.Subnet of the worker's call
    sid,         \* the worker's subnetID variable
    faults       \* faults so far

svars == <<subnets, lostAdds, lock, pc, arg, sid, faults>>

Err == -1

\* Labels of GetOrCreateSubnet that hold the mutex, and all of its labels.
Locked == {"get", "next", "add", "reget"}
GocLabel == Locked \cup {"lock", "ok", "failed"}

AddCmd == [srv : Server, cidr : Cidr, id : Nat]

-----------------------------------------------------------------------------
(* Kea's side of the subnet commands. *)

\* Kea refuses a prefix it already has and an id that is in use.
CanAdd(f, c, id) == f[c] = 0 /\ \A x \in Cidr : f[x] # id

AddSubnet(f, c, id) == IF CanAdd(f, c, id) THEN [f EXCEPT ![c] = id] ELSE f

\* subnet4-list cannot be used: no answer, or an empty list with result 3.
ListFails(d) ==
    \/ d.ans = None
    \/ ~EmptyListOk /\ \A c \in Cidr : subnets[d.ans][c] = 0

\* Once a failover was raced BaseUrl may stay changed, without any new fault.
Deliver(d) ==
    \/ faults + Cost(d) <= MaxFaults /\ faults' = faults + Cost(d)
    \/ Racing /\ faults > 0 /\ d.lost = {} /\ UNCHANGED faults

-----------------------------------------------------------------------------
(* Service *)

\* The id of the prefix, 0 for "no matching Kea subnet", Err for any other error.
GetSubnetID(d, c) == IF ListFails(d) THEN Err ELSE subnets[d.ans][c]

\* getNextSubnetID: one more than the largest id, 1 when listing fails.
NextIDsMax(f) ==
    {id \in {1} \cup {f[c] : c \in Cidr} : \A c \in Cidr : f[c] <= id}

NextIDs(f) ==
    {id \in {1} \cup {f[c] + 1 : c \in Cidr} : \A c \in Cidr : f[c] < id}

getNextSubnetID(d) == IF ListFails(d) THEN {1} ELSE NextIDs(subnets[d.ans])

Goto(w, l) == pc' = [pc EXCEPT ![w] = l]

\* The return of GetOrCreateSubnet, with its deferred Unlock.
ReturnNoUnlock(w, id) ==
    /\ Goto(w, IF id > 0 THEN "ok" ELSE "failed")
    /\ sid' = [sid EXCEPT ![w] = IF id > 0 THEN id ELSE 0]
    /\ lock' = lock

ReturnRawId(w, id) ==
    /\ Goto(w, IF id > 0 THEN "ok" ELSE "failed")
    /\ sid' = [sid EXCEPT ![w] = id]
    /\ lock' = [lock EXCEPT ![ProcOf[w]][arg[w]] = None]

Return(w, id) ==
    /\ Goto(w, IF id > 0 THEN "ok" ELSE "failed")
    /\ sid' = [sid EXCEPT ![w] = IF id > 0 THEN id ELSE 0]
    /\ lock' = [lock EXCEPT ![ProcOf[w]][arg[w]] = None]

AcquireUnguarded(w) ==
    /\ pc[w] = "lock"
    /\ lock' = [lock EXCEPT ![ProcOf[w]][arg[w]] = w]
    /\ Goto(w, "get")
    /\ UNCHANGED <<subnets, lostAdds, arg, sid, faults>>

Acquire(w) ==
    /\ pc[w] = "lock"
    /\ lock[ProcOf[w]][arg[w]] = None
    /\ lock' = [lock EXCEPT ![ProcOf[w]][arg[w]] = w]
    /\ Goto(w, "get")
    /\ UNCHANGED <<subnets, lostAdds, arg, sid, faults>>

\* The first GetSubnetID.  Only "no matching" leads to a create.
Get(w) ==
    /\ pc[w] = "get"
    /\ \E d \in Send :
        LET id == GetSubnetID(d, arg[w]) IN
        /\ Deliver(d)
        /\ \/ id = 0 /\ Goto(w, "next") /\ UNCHANGED <<lock, sid>>
           \/ id # 0 /\ Return(w, id)
    /\ UNCHANGED <<subnets, lostAdds, arg>>

\* CreateSubnet, first half: choose the id.
PickID(w) ==
    /\ pc[w] = "next"
    /\ \E d \in Send : \E id \in getNextSubnetID(d) :
        Deliver(d) /\ sid' = [sid EXCEPT ![w] = id]
    /\ Goto(w, "add")
    /\ UNCHANGED <<subnets, lostAdds, lock, arg>>

\* CreateSubnet succeeded: an answer came and it was result 0.
CreatedIfAnswered(w, d) == d.ans # None

Created(w, d) == d.ans # None /\ CanAdd(subnets[d.ans], arg[w], sid[w])

\* CreateSubnet, second half: subnet4-add.
Add(w) ==
    /\ pc[w] = "add"
    /\ \E d \in Send :
        /\ Deliver(d)
        /\ subnets' = [s \in Server |->
               IF s = d.ans THEN AddSubnet(subnets[s], arg[w], sid[w]) ELSE subnets[s]]
        /\ lostAdds' = lostAdds \cup
               [srv : d.lost, cidr : {arg[w]}, id : {sid[w]}]
        /\ \/ Created(w, d) /\ Return(w, sid[w])
           \/ ~Created(w, d) /\ Goto(w, "reget") /\ UNCHANGED <<lock, sid>>
    /\ UNCHANGED arg

\* The create failed: re-resolve by CIDR before giving up.
RegetUntilFound(w) ==
    /\ pc[w] = "reget"
    /\ \E d \in Send :
        LET id == GetSubnetID(d, arg[w]) IN
        /\ Deliver(d)
        /\ \/ id > 0 /\ Return(w, id)
           \/ id <= 0 /\ UNCHANGED <<pc, sid, lock>>
    /\ UNCHANGED <<subnets, lostAdds, arg>>

Reget(w) ==
    /\ pc[w] = "reget"
    /\ \E d \in Send : Deliver(d) /\ Return(w, GetSubnetID(d, arg[w]))
    /\ UNCHANGED <<subnets, lostAdds, arg>>

GetOrCreateSubnet(w) == Acquire(w) \/ Get(w) \/ PickID(w) \/ Add(w) \/ Reget(w)

\* A server executes a command whose answer the client never saw.
LateAdd(a) ==
    /\ CanAdd(subnets[a.srv], a.cidr, a.id)
    /\ subnets' = [subnets EXCEPT ![a.srv][a.cidr] = a.id]
    /\ UNCHANGED <<lostAdds, lock, pc, arg, sid, faults>>

=============================================================================
