----------------------------- MODULE CleanProofs -----------------------------
(***************************************************************************)
(* Operator: reservations are protected by finalizers, and the operator    *)
(* implements ReservationLedger, with any number of NCs, MACs, prefixes,   *)
(* edits, deletions and crashes, as long as Kea and the API server answer. *)
(***************************************************************************)
EXTENDS OperatorProofs

USE DeliveryAssumption, SubnetAssumption, ReconcilerAssumption, OperatorAssumption

-----------------------------------------------------------------------------
(* What is needed of the environment. *)

\* One process, so one worker for each NC.
OneWorker == \A v, w \in Worker : NcOf[v] = NcOf[w] => v = w

\* An NC keeps its MACs: cleanupReservations knows only those of the last copy.
FixedMacs == \A n \in NC : \A t, u \in Specs[n] : t.macs = u.macs

\* The NetworkNamespaces that an NC may get.
Candidates(n) == IF NnName[n] = None THEN NN ELSE {NnName[n]}

\* Each MAC has one prefix: that of every NetworkNamespace its NCs may get, which
\* are not deleted and keep it, and that of its leases.
Housed(home) ==
    /\ \A n \in NC : \A m \in MayList(n) :
        /\ Candidates(n) # {}
        /\ \A x \in Candidates(n) : \A st \in NnStates[x] : st.exists /\ st.prefix = home[m]
    /\ \A m \in Mac : LeaseIn[m] \subseteq {home[m]}

-----------------------------------------------------------------------------
(* The inductive invariant. *)

Cleaning == {"cleanup", "delMac", "unfinalize"}
AtMacs == {"reresolve", "mac"} \cup WithMac

\* Without faults every command is executed at once, by the primary.
Quiet ==
    /\ lostAdds = {} /\ lostHosts = {}
    /\ \A s \in Server \ {Primary} : hosts[s] = {}

\* The NetworkNamespaces and the leases are those foreseen.
Foreseen ==
    /\ \A x \in NN : nn[x] \in NnStates[x]
    /\ \A m \in Mac : lease[m] \in LeaseIn[m] \cup {None}

Doomed(o) == o.deleting \/ ~o.fin

\* The finalizer stays while a reconcile runs or may start, and once a clean-up
\* runs or may start it will go.
Finalizers ==
    \A w \in Worker :
        /\ pc[w] \notin Cleaning \cup {"idle"} => api[NcOf[w]].fin
        /\ cache[w].fin /\ ~cache[w].deleting => api[NcOf[w]].fin
        /\ cache[w].deleting => Doomed(api[NcOf[w]])
        /\ pc[w] \in Cleaning =>
             snap[w].deleting /\ Doomed(cache[w]) /\ Doomed(api[NcOf[w]])
        /\ pc[w] \notin Cleaning => ~snap[w].deleting
        /\ cache[w].exists => cache[w].macs = MayList(NcOf[w])

\* A worker has the id of its prefix, and of the subnet for the MAC in hand.
Ids(home) ==
    \A w \in Worker :
        /\ pc[w] \in WithPrefix => \A m \in MayList(NcOf[w]) : arg[w] = home[m]
        /\ pc[w] \in {"ok", "delMac"} \cup AtMacs =>
             sid[w] # 0 /\ sid[w] = subnets[Primary][arg[w]]
        /\ pc[w] \in {"exists", "existsAll", "resAdd"} =>
             loc[w].hsid = subnets[Primary][home[loc[w].mac]]
        /\ pc[w] = "cleanup" => loc[w].todo = MayList(NcOf[w])

\* Worker w has not yet looked for the reservation of m in its clean-up.
Uncleaned(w, m) == pc[w] # "unfinalize" /\ (pc[w] = "delMac" => m \in loc[w].todo)

\* Every reservation is in its MAC's subnet, and some NC will clean it up.
Protected(home) ==
    \A h \in hosts[Primary] :
        /\ h.sid # 0 /\ h.sid = subnets[Primary][home[h.mac]]
        /\ \E n \in NC : /\ api[n].fin /\ h.mac \in MayList(n)
                         /\ \A w \in Worker : NcOf[w] = n => Uncleaned(w, h.mac)

CleanInv(home) == Quiet /\ Foreseen /\ Finalizers /\ Ids(home) /\ Protected(home)

-----------------------------------------------------------------------------
(* Lemmas about one step. *)

\* Without faults every delivery is executed and answered by the primary.
LEMMA NoFault ==
    ASSUME MaxFaults = 0, Types, NEW d \in Send, Deliver(d)
    PROVE  d = Clean /\ d.ans = Primary /\ d.lost = {}
<1>1. faults = 0
    BY DEF Types, SubnetTypes
<1>2. d = Clean
    BY <1>1 DEF Deliver, Cost
<1> QED BY <1>2 DEF Clean

\* Subnets are added by Add, or late.
LEMMA SubnetsEffect ==
    ASSUME [Next]_vars
    PROVE  \/ UNCHANGED <<subnets, lostAdds>>
           \/ \E w \in Worker : Add(w)
           \/ \E a \in lostAdds : LateAdd(a)
<1>1. ASSUME NEW w \in Worker, GetOrCreateSubnet(w)
      PROVE  UNCHANGED <<subnets, lostAdds>> \/ Add(w)
    BY <1>1 DEF GetOrCreateSubnet, Acquire, Get, PickID, Reget
<1>2. ASSUME NEW w \in Worker,
             \/ Watch(w) \/ TimerFires(w) \/ Resync(w) \/ Skip(w)
             \/ StrictError(w) \/ EnsureFinalizer(w) \/ StartReconcile(w) \/ StartDeletion(w)
      PROVE  UNCHANGED <<subnets, lostAdds>>
    BY <1>2, SMTT(40) DEF Watch, TimerFires, Resync, Skip, StrictError, EnsureFinalizer, StartReconcile,
        StartDeletion, svars
<1>3. ASSUME NEW w \in Worker,
             \/ Unprepared(w) \/ SubnetError(w) \/ Finish(w) \/ RemoveFinalizer(w)
             \/ GetSubnetInfo(w) \/ Reresolve(w)
      PROVE  UNCHANGED <<subnets, lostAdds>>
    BY <1>3, ZenonT(40) DEF Unprepared, SubnetError, Finish, RemoveFinalizer, GetSubnetInfo, Reresolve
<1>4. ASSUME NEW w \in Worker,
             \/ GetLeaseIPv4ForMAC(w) \/ GetStoredAddress(w) \/ Exists(w) \/ ExistsAll(w)
             \/ ReservationAdd(w) \/ CleanupList(w) \/ DeleteReservationForMAC(w)
      PROVE  UNCHANGED <<subnets, lostAdds>>
    BY <1>4 DEF GetLeaseIPv4ForMAC, GetStoredAddress, Exists, ExistsAll, ReservationAdd,
        CleanupList, DeleteReservationForMAC
<1>5. ASSUME KeaStep PROVE UNCHANGED <<subnets, lostAdds>> \/ \E a \in lostAdds : LateAdd(a)
    BY <1>5 DEF KeaStep, LateHost, svars
<1>6. ASSUME NEW n, Create(n) \/ Edit(n) \/ Delete(n) \/ EditNamespace(n) \/ Lease(n) \/ Crash(n)
      PROVE  UNCHANGED <<subnets, lostAdds>>
    BY <1>6 DEF Create, Edit, Delete, EditNamespace, Lease, Crash, svars
<1>7. UNCHANGED vars => UNCHANGED <<subnets, lostAdds>>
    BY DEF vars, svars
<1> QED BY <1>1, <1>2, <1>3, <1>4, <1>5, <1>6, <1>7, NextCases

\* NetworkNamespaces change by an edit only, leases on the machines' side only.
LEMMA OutsideEffect ==
    ASSUME Types, [Next]_vars
    PROVE  /\ nn' = nn \/ \E x \in NN : EditNamespace(x)
           /\ lease' = lease \/ \E m \in Mac : Lease(m)
<1>1. ASSUME NEW w \in Worker,
             \/ Watch(w) \/ TimerFires(w) \/ Resync(w) \/ Skip(w)
             \/ StrictError(w) \/ EnsureFinalizer(w) \/ StartReconcile(w) \/ StartDeletion(w)
      PROVE  nn' = nn /\ lease' = lease
    BY <1>1, SMTT(40) DEF Watch, TimerFires, Resync, Skip, StrictError, EnsureFinalizer, StartReconcile,
        StartDeletion, hvars
<1>2. ASSUME NEW w \in Worker,
             \/ Unprepared(w) \/ SubnetError(w) \/ Finish(w) \/ RemoveFinalizer(w)
             \/ GetSubnetInfo(w) \/ Reresolve(w)
             \/ GetOrCreateSubnet(w) /\ UNCHANGED <<hvars, loc, kvars>>
      PROVE  nn' = nn /\ lease' = lease
    BY <1>2, ZenonT(40) DEF Unprepared, SubnetError, Finish, RemoveFinalizer, GetSubnetInfo, Reresolve,
        hvars, kvars
<1>3. ASSUME NEW w \in Worker, UNCHANGED kvars,
             \/ GetLeaseIPv4ForMAC(w) \/ GetStoredAddress(w) \/ Exists(w) \/ ExistsAll(w)
             \/ ReservationAdd(w) \/ CleanupList(w) \/ DeleteReservationForMAC(w)
      PROVE  nn' = nn /\ lease' = lease
    BY <1>3 DEF GetLeaseIPv4ForMAC, GetStoredAddress, Exists, ExistsAll, ReservationAdd,
        CleanupList, DeleteReservationForMAC, hvars, kvars
<1>4. ASSUME KeaStep PROVE nn' = nn /\ lease' = lease
    BY <1>4 DEF KeaStep, LateHost, hvars, kvars
<1>5. ASSUME NEW n, Create(n) \/ Edit(n) \/ Delete(n) \/ Crash(n)
      PROVE  nn' = nn /\ lease' = lease
    BY <1>5 DEF Create, Edit, Delete, Crash, hvars
<1>6. ASSUME NEW x, EditNamespace(x) PROVE lease' = lease
    BY <1>6 DEF EditNamespace, hvars
<1>7. ASSUME NEW m, Lease(m) PROVE nn' = nn
    BY <1>7 DEF Lease, kvars
<1>8. UNCHANGED vars => nn' = nn /\ lease' = lease
    BY DEF vars, kvars, hvars
<1> QED BY <1>1, <1>2, <1>3, <1>4, <1>5, <1>6, <1>7, <1>8, NextCases

\* Only its own worker gives an NC its finalizer, or takes it.
LEMMA FinalizerEffect ==
    ASSUME Types, [Next]_vars, NEW n \in NC
    PROVE  /\ api[n].fin /\ ~api'[n].fin => \E w \in Worker : NcOf[w] = n /\ RemoveFinalizer(w)
           /\ Doomed(api[n]) /\ ~Doomed(api'[n]) =>
                 \E w \in Worker : NcOf[w] = n /\ EnsureFinalizer(w)
<1>1. CASE StatusOnly(n)
    BY <1>1, Zenon DEF StatusOnly, SameButStatus, Doomed
<1>2. CASE \E w \in Worker : NcOf[w] = n /\ EnsureFinalizer(w) /\ api'[n].fin
    BY <1>2 DEF Doomed
<1>3. CASE /\ \E w \in Worker : NcOf[w] = n /\ RemoveFinalizer(w)
           /\ \/ api'[n] = Absent
              \/ ~api'[n].fin
    BY <1>3, AbsentFacts DEF Doomed
<1>4. CASE ~api[n].exists /\ \E s \in Specs[n] : api'[n] = Created1(s)
    <2>1. ~api[n].fin
        BY <1>4, ObjectFacts DEF Types, KubeTypes
    <2> QED BY <1>4, <2>1, Created1Type DEF Doomed
<1>5. CASE api'[n].deleting = api[n].deleting /\ api'[n].fin = api[n].fin
    BY <1>5 DEF Doomed
<1>6. CASE ~api[n].fin /\ api'[n] = Absent
    BY <1>6, AbsentFacts DEF Doomed
<1>7. CASE api'[n].deleting /\ api'[n].fin = api[n].fin
    BY <1>7 DEF Doomed
<1> QED BY <1>1, <1>2, <1>3, <1>4, <1>5, <1>6, <1>7, ApiFields, Zenon

\* The primary's subnets keep their ids.
LEMMA IdsStay ==
    ASSUME MaxFaults = 0, Types, Quiet, [Next]_vars, NEW c \in Cidr, subnets[Primary][c] # 0
    PROVE  subnets'[Primary][c] = subnets[Primary][c]
<1>1. CASE UNCHANGED <<subnets, lostAdds>>
    BY <1>1
<1>2. ASSUME NEW w \in Worker, Add(w) PROVE subnets'[Primary][c] = subnets[Primary][c]
    <2>1. PICK d \in Send :
            /\ Deliver(d)
            /\ subnets' = [s \in Server |->
                   IF s = d.ans THEN AddSubnet(subnets[s], arg[w], sid[w]) ELSE subnets[s]]
        BY <1>2 DEF Add
    <2>2. subnets[Primary] \in [Cidr -> Nat] /\ arg[w] \in Cidr
        BY <1>2, ServerFact DEF Types, SubnetTypes, Placed, Add, WithPrefix, GocLabel, Locked
    <2>3. subnets'[Primary] = subnets[Primary]
          \/ subnets'[Primary] = AddSubnet(subnets[Primary], arg[w], sid[w])
        BY <2>1, ServerFact
    <2> QED BY <2>2, <2>3 DEF AddSubnet, CanAdd
<1> QED BY <1>1, <1>2, SubnetsEffect DEF Quiet

LEMMA QuietStep ==
    ASSUME MaxFaults = 0, Types, Quiet, [Next]_vars
    PROVE  Quiet'
<1>1. lostAdds' = {}
    <2>1. ASSUME NEW w \in Worker, Add(w) PROVE lostAdds' = {}
        <3>1. PICK d \in Send :
                Deliver(d) /\ lostAdds' = lostAdds \cup [srv : d.lost, cidr : {arg[w]}, id : {sid[w]}]
            BY <2>1 DEF Add
        <3> QED BY <3>1, NoFault DEF Quiet
    <2> QED BY <2>1, SubnetsEffect DEF Quiet
<1>2. ASSUME NEW d \in Send, NEW op, NEW h, SendHost(d, op, h)
      PROVE  lostHosts' = {} /\ \A s \in Server \ {Primary} : hosts'[s] = {}
    <2>1. d.ans = Primary /\ d.lost = {}
        BY <1>2, NoFault DEF SendHost
    <2> QED BY <1>2, <2>1 DEF SendHost, Quiet
<1>3. ASSUME NEW w \in Worker, ReservationAdd(w) \/ DeleteReservationForMAC(w)
      PROVE  lostHosts' = {} /\ \A s \in Server \ {Primary} : hosts'[s] = {}
    <2>1. \/ UNCHANGED <<hosts, lostHosts>>
          \/ \E d \in Send : \E op, h : SendHost(d, op, h)
        BY <1>3 DEF ReservationAdd, DeleteReservationForMAC
    <2> QED BY <1>2, <2>1 DEF Quiet
<1>4. lostHosts' = {} /\ \A s \in Server \ {Primary} : hosts'[s] = {}
    BY <1>3, HostEffect DEF Quiet
<1> QED BY <1>1, <1>4 DEF Quiet

LEMMA ForeseenStep ==
    ASSUME Types, Foreseen, [Next]_vars
    PROVE  Foreseen'
<1>1. ASSUME NEW x \in NN PROVE nn'[x] \in NnStates[x]
    <2>1. ASSUME NEW y \in NN, EditNamespace(y) PROVE nn'[x] \in NnStates[x]
        BY <2>1 DEF EditNamespace, Foreseen, Types, KubeTypes
    <2> QED BY <2>1, OutsideEffect DEF Foreseen
<1>2. ASSUME NEW m \in Mac PROVE lease'[m] \in LeaseIn[m] \cup {None}
    <2>1. ASSUME NEW y \in Mac, Lease(y) PROVE lease'[m] \in LeaseIn[m] \cup {None}
        BY <2>1 DEF Lease, Foreseen, Types, HostTypes
    <2> QED BY <2>1, OutsideEffect DEF Foreseen
<1> QED BY <1>1, <1>2 DEF Foreseen

\* The worker that starts to clean up has a copy that is deleted.
LEMMA StartsClean ==
    ASSUME Types, NEW w \in Worker, OwnStep(w), pc[w] = "idle", ~snap[w].deleting
    PROVE  /\ cache' = cache
           /\ pc'[w] \in Cleaning =>
                /\ StartDeletion(w) /\ cache[w].deleting /\ cache[w].exists
                /\ snap'[w].deleting /\ api' = api
           /\ pc'[w] \notin Cleaning =>
                /\ StartReconcile(w) /\ cache[w].fin
                /\ ~cache[w].deleting
                /\ ~snap'[w].deleting
<1>1. StartReconcile(w) \/ StartDeletion(w)
    BY OwnIdle
<1>2. pc \in [Worker -> Label] /\ snap \in [Worker -> ObjectType(edits)]
    BY DEF Types, SubnetTypes, KubeTypes
<1>3. CASE StartReconcile(w)
    <2>1. pc'[w] \in {"lock", "unprepared"} /\ cache' = cache
        BY <1>2, <1>3 DEF StartReconcile, Goto
    <2>2. /\ cache[w].fin
          /\ ~cache[w].deleting
        BY <1>3 DEF StartReconcile, Claimed
    <2>3. \/ snap'[w] = snap[w] \/ snap'[w] = Absent
          \/ SameButStatus(snap'[w], cache[w])
        BY OwnEffect
    <2>4. ~snap'[w].deleting
        BY <2>2, <2>3, AbsentFacts DEF SameButStatus
    <2> QED BY <1>3, <2>1, <2>2, <2>4 DEF Cleaning
<1>4. CASE StartDeletion(w)
    <2>1. pc'[w] \in Cleaning /\ cache' = cache /\ api' = api /\ snap'[w] = cache[w]
        BY <1>2, <1>4 DEF StartDeletion, Goto, Cleaning
    <2>2. cache[w].deleting /\ cache[w].exists
        BY <1>4 DEF StartDeletion, Ours
    <2> QED BY <1>4, <2>1, <2>2
<1> QED BY <1>1, <1>3, <1>4

LEMMA FinalizersStep ==
    ASSUME OneWorker, FixedMacs, Types, Listed, Finalizers, [Next]_vars
    PROVE  Finalizers'
<1> SUFFICES ASSUME NEW w \in Worker
             PROVE  /\ pc'[w] \notin Cleaning \cup {"idle"} => api'[NcOf[w]].fin
                    /\ cache'[w].fin /\ ~cache'[w].deleting => api'[NcOf[w]].fin
                    /\ cache'[w].deleting => Doomed(api'[NcOf[w]])
                    /\ pc'[w] \in Cleaning =>
                         snap'[w].deleting /\ Doomed(cache'[w]) /\ Doomed(api'[NcOf[w]])
                    /\ pc'[w] \notin Cleaning => ~snap'[w].deleting
                    /\ cache'[w].exists => cache'[w].macs = MayList(NcOf[w])
    BY DEF Finalizers, Doomed
<1> DEFINE n == NcOf[w]
<1>1. n \in NC /\ pc \in [Worker -> Label]
    BY DEF Types, SubnetTypes
<1>2. /\ pc[w] \notin Cleaning \cup {"idle"} => api[n].fin
      /\ cache[w].fin /\ ~cache[w].deleting => api[n].fin
      /\ cache[w].deleting => Doomed(api[n])
      /\ pc[w] \in Cleaning => snap[w].deleting /\ Doomed(cache[w]) /\ Doomed(api[n])
      /\ pc[w] \notin Cleaning => ~snap[w].deleting
      /\ cache[w].exists => cache[w].macs = MayList(n)
    BY DEF Finalizers
<1>3. ASSUME api[n].fin, ~api'[n].fin
      PROVE  RemoveFinalizer(w) /\ pc[w] = "unfinalize" /\ pc'[w] = "idle"
    <2>1. RemoveFinalizer(w)
        BY <1>1, <1>3, FinalizerEffect DEF OneWorker
    <2> QED BY <1>1, <2>1 DEF RemoveFinalizer, Leave, Goto
<1>4. ASSUME Doomed(api[n]), ~Doomed(api'[n])
      PROVE  /\ pc[w] = "idle" /\ pc'[w] = pc[w]
             /\ ~cache[w].deleting
             /\ cache' = cache
    <2>1. EnsureFinalizer(w)
        BY <1>1, <1>4, FinalizerEffect DEF OneWorker
    <2> QED BY <2>1 DEF EnsureFinalizer, Dequeue, Claimed
<1>5. "idle" \notin Cleaning /\ "unfinalize" \in Cleaning
    BY DEF Cleaning
<1>6. \/ cache'[w] = cache[w]
      \/ cache'[w] = api[n] /\ api' = api
      \/ cache'[w] = Absent /\ api' = api
    BY CacheEffect
<1>7. ASSUME cache'[w].fin, ~cache'[w].deleting PROVE api'[n].fin
    BY <1>2, <1>3, <1>5, <1>6, <1>7, AbsentFacts DEF Doomed
<1>8. ASSUME cache'[w].deleting PROVE Doomed(api'[n])
    <2>1. CASE cache'[w] = cache[w]
        BY <1>2, <1>4, <1>8, <2>1
    <2>2. CASE cache'[w] = api[n] /\ api' = api
        BY <1>8, <2>2 DEF Doomed
    <2> QED BY <1>6, <1>8, <2>1, <2>2, AbsentFacts
<1>9. ASSUME cache'[w].exists PROVE cache'[w].macs = MayList(n)
    <2>1. ASSUME api[n].exists PROVE api[n].macs = MayList(n)
        <3>1. PICK t \in Specs[n] : api[n].macs = t.macs
            BY <1>1, <2>1 DEF Listed
        <3> QED BY <1>1, <3>1 DEF FixedMacs, MayList
    <2> QED BY <1>2, <1>6, <1>9, <2>1, AbsentFacts
<1>10. CASE pc'[w] = pc[w] /\ snap'[w] = snap[w]
    <2>1. ASSUME pc'[w] \notin Cleaning \cup {"idle"} PROVE api'[n].fin
        BY <1>2, <1>3, <1>5, <1>10, <2>1
    <2>2. ASSUME pc'[w] \in Cleaning
          PROVE  snap'[w].deleting /\ Doomed(cache'[w]) /\ Doomed(api'[n])
        <3>1. snap[w].deleting /\ Doomed(cache[w]) /\ Doomed(api[n]) /\ pc[w] # "idle"
            BY <1>2, <1>5, <1>10, <2>2
        <3>2. Doomed(api'[n])
            BY <1>4, <3>1
        <3>3. Doomed(cache'[w])
            BY <1>6, <3>1, AbsentFacts DEF Doomed
        <3> QED BY <1>10, <3>1, <3>2, <3>3
    <2>3. ASSUME pc'[w] \notin Cleaning PROVE ~snap'[w].deleting
        BY <1>2, <1>10, <2>3
    <2> QED BY <1>7, <1>8, <1>9, <2>1, <2>2, <2>3
<1>11. CASE pc'[w] = "idle" /\ snap'[w] = Absent
    BY <1>5, <1>7, <1>8, <1>9, <1>11, AbsentFacts
<1>12. CASE OwnStep(w) /\ pc[w] = "idle"
    <2>1. ~snap[w].deleting
        BY <1>2, <1>5, <1>12
    <2>2. /\ cache' = cache
          /\ pc'[w] \in Cleaning =>
               /\ StartDeletion(w) /\ cache[w].deleting /\ cache[w].exists
               /\ snap'[w].deleting /\ api' = api
          /\ pc'[w] \notin Cleaning =>
               /\ StartReconcile(w) /\ cache[w].fin
               /\ ~cache[w].deleting
               /\ ~snap'[w].deleting
        BY <1>12, <2>1, StartsClean
    <2>3. ASSUME pc'[w] \notin Cleaning PROVE api'[n].fin
        BY <1>2, <1>3, <1>12, <2>2, <2>3
    <2>4. ASSUME pc'[w] \in Cleaning
          PROVE  snap'[w].deleting /\ Doomed(cache'[w]) /\ Doomed(api'[n])
        BY <1>2, <2>2, <2>4 DEF Doomed
    <2>5. ASSUME pc'[w] \notin Cleaning PROVE ~snap'[w].deleting
        BY <2>2, <2>5
    <2> QED BY <1>7, <1>8, <1>9, <2>3, <2>4, <2>5
<1>13. CASE /\ OwnStep(w) /\ UNCHANGED kvars
            /\ pc'[w] \in Cleaning <=> pc[w] \in Cleaning
            /\ pc[w] # "idle"
    <2>1. api' = api /\ cache' = cache /\ snap' = snap
        BY <1>13 DEF kvars
    <2> QED BY <1>2, <1>13, <2>1
<1>14. CASE OwnStep(w) /\ pc[w] # "idle"
    <2>1. \/ pc'[w] = "idle" /\ snap'[w] = Absent
          \/ /\ pc'[w] \in GocLabel \cup {"reresolve", "mac"} \cup WithMac
             /\ pc[w] \in (GocLabel \ {"failed"}) \cup {"reresolve", "mac"} \cup WithMac
             /\ UNCHANGED kvars
          \/ /\ pc[w] \in {"cleanup", "delMac"} /\ pc'[w] \in {"delMac", "unfinalize"}
             /\ UNCHANGED kvars
        BY <1>14, OwnEffect
    <2> QED BY <1>11, <1>13, <1>14, <2>1 DEF GocLabel, Locked, WithMac, Cleaning
<1> QED BY <1>10, <1>11, <1>12, <1>14, WorkerEffect

\* The NetworkNamespace of an NC with MACs is there and has their prefix.
LEMMA NamespaceOf ==
    ASSUME NEW home \in [Mac -> Cidr], Housed(home), Foreseen, NEW n \in NC, NEW m \in MayList(n)
    PROVE  /\ getNetworkNamespace(n) # {}
           /\ \A x \in getNetworkNamespace(n) : x \in NN /\ nn[x].prefix = home[m]
<1>1. Candidates(n) \subseteq NN /\ Candidates(n) # {}
    BY DEF Candidates, Housed
<1>2. getNetworkNamespace(n) = {x \in Candidates(n) : nn[x].exists}
    BY DEF getNetworkNamespace, Candidates
<1>3. ASSUME NEW x \in Candidates(n) PROVE nn[x].exists /\ nn[x].prefix = home[m]
    BY <1>1, <1>3 DEF Housed, Foreseen
<1> QED BY <1>1, <1>2, <1>3

\* A running reconcile keeps its prefix.
LEMMA OwnArg ==
    ASSUME Types, NEW w \in Worker, OwnStep(w), pc[w] # "idle", pc'[w] # "idle"
    PROVE  arg'[w] = arg[w]
<1>1. ~StartReconcile(w) /\ ~StartDeletion(w)
    BY DEF StartReconcile, StartDeletion, Dequeue
<1>2. ~(Unprepared(w) \/ SubnetError(w) \/ Finish(w) \/ RemoveFinalizer(w))
    <2> SUFFICES ASSUME Unprepared(w) \/ SubnetError(w) \/ Finish(w) \/ RemoveFinalizer(w)
                 PROVE  FALSE
        BY SMTT(40)
    <2>1. Leave(w)
        BY DEF Unprepared, SubnetError, Finish, RemoveFinalizer
    <2> QED BY <2>1 DEF Leave, Goto, Types, SubnetTypes
<1>3. CASE GetSubnetInfo(w) \/ Reresolve(w)
    BY <1>3 DEF GetSubnetInfo, Reresolve
<1>4. CASE GetOrCreateSubnet(w)
    BY <1>4, GocEffect
<1>5. CASE \/ GetLeaseIPv4ForMAC(w) \/ GetStoredAddress(w) \/ Exists(w) \/ ExistsAll(w)
           \/ ReservationAdd(w) \/ CleanupList(w) \/ DeleteReservationForMAC(w)
    BY <1>5, MacStepEffect
<1> QED BY <1>1, <1>2, <1>3, <1>4, <1>5 DEF OwnStep

LEMMA ArgStep ==
    ASSUME NEW home \in [Mac -> Cidr], Housed(home), Types, Foreseen, Ids(home), [Next]_vars,
           NEW w \in Worker, pc'[w] \in WithPrefix, NEW m \in MayList(NcOf[w])
    PROVE  arg'[w] = home[m]
<1>1. pc \in [Worker -> Label] /\ arg \in [Worker -> Cidr \cup {None, BadPrefix}] /\ NcOf[w] \in NC
    BY DEF Types, SubnetTypes
<1>2. pc'[w] # "idle" /\ pc'[w] # "unfinalize" /\ pc'[w] # "unprepared"
    BY LabelFacts
<1>3. CASE pc'[w] = pc[w] /\ arg'[w] = arg[w]
    BY <1>3 DEF Ids
<1>4. CASE OwnStep(w) /\ pc[w] = "idle"
    <2>1. CASE StartReconcile(w)
        <3>1. PICK x \in Claimed(w) : arg' = [arg EXCEPT ![w] = nn[x].prefix]
            BY <2>1 DEF StartReconcile
        <3>2. x \in getNetworkNamespace(NcOf[w])
            BY <3>1 DEF Claimed
        <3>3. nn[x].prefix = home[m]
            BY <1>1, <3>2, NamespaceOf
        <3> QED BY <1>1, <3>1, <3>3
    <2>2. CASE StartDeletion(w)
        <3>1. PICK x \in getNetworkNamespace(NcOf[w]) : arg' = [arg EXCEPT ![w] = nn[x].prefix]
            BY <1>1, <1>2, <2>2 DEF StartDeletion, Goto
        <3>2. nn[x].prefix = home[m]
            BY <1>1, NamespaceOf
        <3> QED BY <1>1, <3>1, <3>2
    <2> QED BY <1>4, <2>1, <2>2, OwnIdle
<1>5. CASE OwnStep(w) /\ pc[w] # "idle"
    <2>1. arg'[w] = arg[w]
        BY <1>2, <1>5, OwnArg
    <2>2. pc[w] \in WithPrefix
        BY <1>2, <1>5, OwnEffect DEF WithPrefix
    <2> QED BY <2>1, <2>2 DEF Ids
<1> QED BY <1>2, <1>3, <1>4, <1>5, WorkerEffect

LEMMA TodoStep ==
    ASSUME NEW home, Types, Finalizers, Ids(home), [Next]_vars,
           NEW w \in Worker, pc'[w] = "cleanup"
    PROVE  loc'[w].todo = MayList(NcOf[w])
<1>1. CASE pc'[w] = pc[w] /\ loc'[w] = loc[w]
    BY <1>1 DEF Ids
<1>2. CASE OwnStep(w) /\ pc[w] = "idle"
    <2>1. StartDeletion(w) /\ cache[w].exists
        BY <1>2, StartsClean DEF Finalizers, Cleaning
    <2>2. loc'[w].todo = cache[w].macs
        BY <2>1 DEF StartDeletion, Local, NoLocals, Types, HostTypes
    <2> QED BY <2>1, <2>2 DEF Finalizers
<1>3. ~(OwnStep(w) /\ pc[w] # "idle")
    BY OwnEffect DEF GocLabel, Locked, WithMac
<1> QED BY <1>1, <1>2, <1>3, WorkerEffect

\* An id that GetOrCreateSubnet returns is that of the prefix on the primary.
LEMMA GocId ==
    ASSUME MaxFaults = 0, Types, NEW w \in Worker, GetOrCreateSubnet(w), pc'[w] = "ok"
    PROVE  sid'[w] # 0 /\ sid'[w] = subnets'[Primary][arg[w]]
<1> USE DEF Types
<1>1. /\ pc \in [Worker -> Label] /\ sid \in [Worker -> Nat] /\ arg[w] \in Cidr
      /\ subnets[Primary] \in [Cidr -> Nat]
    BY GocEffect, ServerFact DEF SubnetTypes, Placed, WithPrefix
<1>2. ASSUME NEW id \in Nat \cup {Err}, Return(w, id) PROVE id > 0 /\ sid'[w] = id
    BY <1>1, <1>2 DEF Return, Goto
<1>3. ASSUME NEW d \in Send, Deliver(d), Return(w, GetSubnetID(d, arg[w])), subnets' = subnets
      PROVE  sid'[w] # 0 /\ sid'[w] = subnets'[Primary][arg[w]]
    <2>1. GetSubnetID(d, arg[w]) \in Nat \cup {Err}
        BY <1>1, GetSubnetIDType
    <2>2. GetSubnetID(d, arg[w]) > 0 /\ sid'[w] = GetSubnetID(d, arg[w])
        BY <1>2, <1>3, <2>1
    <2>3. subnets[d.ans][arg[w]] = GetSubnetID(d, arg[w]) /\ d.ans = Primary
        BY <1>1, <1>3, <2>2, GetSubnetIDType, NoFault
    <2> QED BY <1>3, <2>1, <2>2, <2>3
<1>4. CASE Acquire(w) \/ PickID(w)
    BY <1>1, <1>4 DEF Acquire, PickID, Goto
<1>5. CASE Get(w)
    <2>1. PICK d \in Send : Deliver(d) /\ (Goto(w, "next") \/ Return(w, GetSubnetID(d, arg[w])))
        BY <1>5 DEF Get
    <2>2. ~Goto(w, "next") /\ subnets' = subnets
        BY <1>1, <1>5 DEF Get, Goto
    <2> QED BY <1>3, <2>1, <2>2
<1>6. CASE Reget(w)
    BY <1>3, <1>6 DEF Reget
<1>7. CASE Add(w)
    <2>1. PICK d \in Send :
            /\ Deliver(d)
            /\ subnets' = [s \in Server |->
                   IF s = d.ans THEN AddSubnet(subnets[s], arg[w], sid[w]) ELSE subnets[s]]
            /\ \/ Created(w, d) /\ Return(w, sid[w])
               \/ Goto(w, "reget")
        BY <1>7 DEF Add
    <2>2. Created(w, d) /\ Return(w, sid[w])
        BY <1>1, <2>1 DEF Goto
    <2>3. d.ans = Primary /\ CanAdd(subnets[Primary], arg[w], sid[w])
        BY <2>1, <2>2, NoFault DEF Created
    <2>4. subnets'[Primary][arg[w]] = sid[w]
        BY <1>1, <2>1, <2>3, ServerFact DEF AddSubnet
    <2>5. sid[w] > 0 /\ sid'[w] = sid[w]
        BY <1>1, <1>2, <2>2
    <2> QED BY <1>1, <2>4, <2>5
<1> QED BY <1>4, <1>5, <1>6, <1>7 DEF GetOrCreateSubnet

LEMMA SidStep ==
    ASSUME NEW home, MaxFaults = 0, Types, Quiet, Ids(home), [Next]_vars,
           NEW w \in Worker, pc'[w] \in {"ok", "delMac"} \cup AtMacs
    PROVE  sid'[w] # 0 /\ sid'[w] = subnets'[Primary][arg'[w]]
<1> USE DEF Types
<1>1. pc \in [Worker -> Label] /\ sid \in [Worker -> Nat] /\ pc'[w] # "idle"
    BY DEF SubnetTypes, AtMacs, WithMac
<1>2. ASSUME pc[w] \in {"ok", "delMac"} \cup AtMacs, sid'[w] = sid[w], arg'[w] = arg[w]
      PROVE  sid'[w] # 0 /\ sid'[w] = subnets'[Primary][arg'[w]]
    <2>1. arg[w] \in Cidr
        BY <1>2 DEF Placed, WithPrefix, AtMacs, GocLabel
    <2>2. sid[w] # 0 /\ sid[w] = subnets[Primary][arg[w]]
        BY <1>2 DEF Ids
    <2> QED BY <1>2, <2>1, <2>2, IdsStay
<1>3. CASE OwnStep(w) /\ pc[w] = "idle"
    <2>1. pc'[w] \in {"lock", "unprepared", "cleanup", "unfinalize"}
        BY <1>1, <1>3, OwnEffect, SMTT(40) DEF GocLabel, Locked, WithMac
    <2> QED BY <2>1 DEF AtMacs, WithMac
<1>4. CASE Unprepared(w) \/ SubnetError(w) \/ Finish(w) \/ RemoveFinalizer(w)
    <2>1. Leave(w)
        BY <1>4 DEF Unprepared, SubnetError, Finish, RemoveFinalizer
    <2> QED BY <1>1, <2>1 DEF Leave, Goto
<1>5. CASE GetSubnetInfo(w)
    BY <1>2, <1>5 DEF GetSubnetInfo
<1>6. CASE Reresolve(w)
    <2>1. PICK d \in Send :
            /\ Deliver(d)
            /\ sid' = [sid EXCEPT ![w] = IF GetSubnetID(d, arg[w]) > 0
                                         THEN GetSubnetID(d, arg[w]) ELSE sid[w]]
        BY <1>6 DEF Reresolve
    <2>2. pc[w] = "reresolve" /\ arg' = arg /\ subnets' = subnets
        BY <1>6 DEF Reresolve
    <2>3. arg[w] \in Cidr
        BY <2>2 DEF Placed, WithPrefix
    <2>4. CASE GetSubnetID(d, arg[w]) > 0
        <3>1. subnets[Primary][arg[w]] = GetSubnetID(d, arg[w])
            BY <2>1, <2>3, <2>4, GetSubnetIDType, NoFault
        <3> QED BY <1>1, <2>1, <2>2, <2>4, <3>1
    <2>5. CASE ~(GetSubnetID(d, arg[w]) > 0)
        BY <1>1, <1>2, <2>1, <2>2, <2>5 DEF AtMacs
    <2> QED BY <2>4, <2>5
<1>7. CASE GetOrCreateSubnet(w)
    <2>1. pc'[w] = "ok" /\ arg' = arg
        BY <1>7, GocEffect, SMTT(40) DEF GocLabel, Locked, AtMacs, WithMac
    <2> QED BY <1>7, <2>1, GocId
<1>8. CASE GetLeaseIPv4ForMAC(w) \/ GetStoredAddress(w) \/ Exists(w) \/ ExistsAll(w) \/ ReservationAdd(w)
    <2>1. sid' = sid /\ arg' = arg /\ pc[w] \in AtMacs
        BY <1>8 DEF GetLeaseIPv4ForMAC, GetStoredAddress, Exists, ExistsAll, ReservationAdd,
            AtMacs, WithMac
    <2> QED BY <1>2, <2>1
<1>9. CASE DeleteReservationForMAC(w)
    BY <1>2, <1>9 DEF DeleteReservationForMAC
<1>10. CASE CleanupList(w)
    <2>1. PICK d \in Send :
            /\ Deliver(d)
            /\ \/ GetSubnetID(d, arg[w]) > 0 /\ sid' = [sid EXCEPT ![w] = GetSubnetID(d, arg[w])]
               \/ Goto(w, "unfinalize")
        BY <1>10 DEF CleanupList
    <2>2. pc[w] = "cleanup" /\ arg' = arg /\ subnets' = subnets
        BY <1>10 DEF CleanupList
    <2>3. arg[w] \in Cidr
        BY <2>2 DEF Placed, WithPrefix
    <2>4. ~Goto(w, "unfinalize")
        BY <1>1 DEF Goto, AtMacs, WithMac
    <2>5. subnets[Primary][arg[w]] = GetSubnetID(d, arg[w])
        BY <2>1, <2>3, <2>4, GetSubnetIDType, NoFault
    <2> QED BY <1>1, <2>1, <2>2, <2>4, <2>5
<1>11. CASE OwnStep(w) /\ pc[w] # "idle"
    <2>1. ~StartReconcile(w) /\ ~StartDeletion(w)
        BY <1>11 DEF StartReconcile, StartDeletion, Dequeue
    <2> QED BY <1>4, <1>5, <1>6, <1>7, <1>8, <1>9, <1>10, <1>11, <2>1 DEF OwnStep
<1> QED BY <1>1, <1>2, <1>3, <1>11, WorkerEffect

\* UseLease takes the id that the lookup found, or else the reconcile's own.
LEMMA UseLeaseEffect ==
    ASSUME Types, NEW w \in Worker, NEW l \in Locals, NEW c, NEW id, UseLease(w, l, c, id)
    PROVE  /\ pc'[w] = "exists" /\ loc'[w].mac = l.mac
           /\ loc'[w].hsid = IF id > 0 THEN id ELSE sid[w]
    BY DEF UseLease, Goto, Local, Locals, Types, SubnetTypes, HostTypes

LEMMA HsidStep ==
    ASSUME NEW home \in [Mac -> Cidr], Housed(home), MaxFaults = 0, Types, Listed,
           Quiet, Foreseen, Ids(home), Protected(home), [Next]_vars,
           NEW w \in Worker, pc'[w] \in {"exists", "existsAll", "resAdd"}
    PROVE  loc'[w].hsid = subnets'[Primary][home[loc'[w].mac]]
<1> USE DEF Types
<1>1. /\ pc \in [Worker -> Label] /\ loc \in [Worker -> Locals] /\ sid \in [Worker -> Nat]
      /\ subnets[Primary] \in [Cidr -> Nat] /\ NcOf[w] \in NC
    BY ServerFact DEF SubnetTypes, HostTypes
<1>2. ASSUME NEW m \in MayList(NcOf[w]), pc[w] \in AtMacs
      PROVE  /\ m \in Mac /\ home[m] \in Cidr
             /\ sid[w] # 0 /\ sid[w] = subnets[Primary][home[m]]
    <2>1. m \in Mac
        BY <1>1 DEF MayList
    <2>2. arg[w] = home[m]
        BY <1>2 DEF Ids, WithPrefix, AtMacs
    <2> QED BY <1>2, <2>1, <2>2 DEF Ids
<1>3. pc[w] \in WithMac => loc[w].mac \in MayList(NcOf[w])
    BY DEF Listed
<1>4. ASSUME pc[w] \in {"exists", "existsAll", "resAdd"}, loc'[w] = loc[w]
      PROVE  loc'[w].hsid = subnets'[Primary][home[loc'[w].mac]]
    <2>1. loc[w].hsid = subnets[Primary][home[loc[w].mac]]
        BY <1>4 DEF Ids
    <2>2. home[loc[w].mac] \in Cidr /\ subnets[Primary][home[loc[w].mac]] # 0
        BY <1>2, <1>3, <1>4 DEF AtMacs, WithMac
    <2> QED BY <1>4, <2>1, <2>2, IdsStay
<1>5. CASE GetLeaseIPv4ForMAC(w)
    <2>1. pc[w] = "mac" /\ subnets' = subnets
        BY <1>5, SMTT(40) DEF GetLeaseIPv4ForMAC
    <2> DEFINE l(m) == [loc[w] EXCEPT !.todo = @ \ {m}, !.mac = m]
    <2>2. PICK m \in loc[w].todo, d \in Send :
            /\ Deliver(d)
            /\ \/ /\ d.ans # None /\ lease[m] # None
                  /\ UseLease(w, l(m), lease[m], subnets[d.ans][lease[m]])
               \/ Goto(w, "stored")
        BY <1>5 DEF GetLeaseIPv4ForMAC
    <2>3. m \in MayList(NcOf[w])
        BY DEF Listed
    <2>4. l(m) \in Locals /\ l(m).mac = m
        <3>1. m \in Mac
            BY <1>2, <2>1, <2>3 DEF AtMacs
        <3>2. loc[w] \in Locals
            BY <1>1
        <3> QED BY <3>1, <3>2 DEF Locals
    <2>5. /\ lease[m] # None /\ d.ans = Primary
          /\ UseLease(w, l(m), lease[m], subnets[d.ans][lease[m]])
        BY <1>1, <2>2, NoFault DEF Goto
    <2>6. lease[m] = home[m]
        BY <1>2, <2>1, <2>3, <2>5 DEF Foreseen, Housed, AtMacs
    <2> HIDE DEF l
    <2>7. loc'[w].mac = m /\ loc'[w].hsid \in {subnets[Primary][home[m]], sid[w]}
        BY <2>4, <2>5, <2>6, UseLeaseEffect
    <2> QED BY <1>2, <2>1, <2>3, <2>7 DEF AtMacs
<1>6. CASE GetStoredAddress(w)
    <2>1. pc[w] = "stored" /\ subnets' = subnets
        BY <1>6 DEF GetStoredAddress
    <2>2. PICK d \in Send :
            /\ Deliver(d)
            /\ \/ /\ d.ans # None
                  /\ \E h \in hosts[d.ans] : h.mac = loc[w].mac /\ UseLease(w, loc[w], h.ip, h.sid)
               \/ UseLease(w, loc[w], None, 0)
        BY <1>6 DEF GetStoredAddress
    <2>3. CASE UseLease(w, loc[w], None, 0)
        <3>1. loc'[w].mac = loc[w].mac /\ loc'[w].hsid = sid[w]
            BY <1>1, <2>3, UseLeaseEffect
        <3> QED BY <1>2, <1>3, <2>1, <3>1 DEF AtMacs, WithMac
    <2>4. ASSUME NEW h \in hosts[Primary], h.mac = loc[w].mac, UseLease(w, loc[w], h.ip, h.sid)
          PROVE  loc'[w].hsid = subnets'[Primary][home[loc'[w].mac]]
        <3>1. loc'[w].mac = loc[w].mac /\ loc'[w].hsid \in {h.sid, sid[w]}
            BY <1>1, <2>4, UseLeaseEffect
        <3>2. h.sid = subnets[Primary][home[loc[w].mac]]
            BY <2>4 DEF Protected
        <3> QED BY <1>2, <1>3, <2>1, <3>1, <3>2 DEF AtMacs, WithMac
    <2> QED BY <2>2, <2>3, <2>4, NoFault
<1>7. CASE Exists(w) \/ ExistsAll(w)
    <2>1. MacDone(w) \/ loc' = loc
        BY <1>7 DEF Exists, ExistsAll
    <2>2. ~MacDone(w) /\ pc[w] \in {"exists", "existsAll"}
        BY <1>1, <1>7 DEF MacDone, Goto, Exists, ExistsAll
    <2> QED BY <1>4, <2>1, <2>2
<1>8. ~ReservationAdd(w)
    BY <1>1 DEF ReservationAdd, MacDone, MacFailed, Goto
<1>9. ~CleanupList(w)
    BY <1>1 DEF CleanupList, Goto
<1>10. ~DeleteReservationForMAC(w)
    BY <1>1 DEF DeleteReservationForMAC, Goto
<1>11. ~(StartReconcile(w) \/ StartDeletion(w))
    BY <1>1 DEF StartReconcile, StartDeletion, Goto
<1>12. ~(Unprepared(w) \/ SubnetError(w) \/ Finish(w) \/ RemoveFinalizer(w))
    <2> SUFFICES ASSUME Unprepared(w) \/ SubnetError(w) \/ Finish(w) \/ RemoveFinalizer(w)
                 PROVE  FALSE
        BY SMTT(40)
    <2>1. Leave(w)
        BY DEF Unprepared, SubnetError, Finish, RemoveFinalizer
    <2> QED BY <1>1, <2>1 DEF Leave, Goto
<1>13. ~(GetSubnetInfo(w) \/ Reresolve(w))
    BY <1>1 DEF GetSubnetInfo, Reresolve, Goto
<1>14. ~GetOrCreateSubnet(w)
    BY GocEffect DEF GocLabel, Locked
<1>15. CASE OwnStep(w)
    BY <1>5, <1>6, <1>7, <1>8, <1>9, <1>10, <1>11, <1>12, <1>13, <1>14, <1>15 DEF OwnStep
<1> QED BY <1>4, <1>15, WorkerEffect

LEMMA IdsStep ==
    ASSUME NEW home \in [Mac -> Cidr], Housed(home), MaxFaults = 0, Types, Listed,
           CleanInv(home), [Next]_vars
    PROVE  Ids(home)'
<1> USE DEF CleanInv
<1>1. ASSUME NEW w \in Worker
      PROVE  /\ pc'[w] \in WithPrefix => \A m \in MayList(NcOf[w]) : arg'[w] = home[m]
             /\ pc'[w] \in {"ok", "delMac"} \cup AtMacs =>
                  sid'[w] # 0 /\ sid'[w] = subnets'[Primary][arg'[w]]
             /\ pc'[w] \in {"exists", "existsAll", "resAdd"} =>
                  loc'[w].hsid = subnets'[Primary][home[loc'[w].mac]]
             /\ pc'[w] = "cleanup" => loc'[w].todo = MayList(NcOf[w])
    BY ArgStep, SidStep, HsidStep, TodoStep
<1> QED BY <1>1 DEF Ids

\* A clean-up goes on by CleanupList and DeleteReservationForMAC.
LEMMA OwnCleaning ==
    ASSUME Types, NEW w \in Worker, OwnStep(w), pc[w] \in {"cleanup", "delMac"}
    PROVE  CleanupList(w) \/ DeleteReservationForMAC(w)
<1>1. ~(Unprepared(w) \/ SubnetError(w) \/ Finish(w) \/ RemoveFinalizer(w))
    BY DEF Unprepared, SubnetError, Finish, RemoveFinalizer
<1>2. ~(GetSubnetInfo(w) \/ Reresolve(w) \/ StartReconcile(w) \/ StartDeletion(w))
    BY DEF GetSubnetInfo, Reresolve, StartReconcile, StartDeletion, Dequeue
<1>3. ~GetOrCreateSubnet(w)
    BY GocEffect, SMTT(40) DEF GocLabel, Locked
<1>4. ~(\/ GetLeaseIPv4ForMAC(w) \/ GetStoredAddress(w) \/ Exists(w) \/ ExistsAll(w)
        \/ ReservationAdd(w))
    BY DEF GetLeaseIPv4ForMAC, GetStoredAddress, Exists, ExistsAll, ReservationAdd
<1> QED BY <1>1, <1>2, <1>3, <1>4 DEF OwnStep

\* DeleteReservationForMAC deletes every reservation of its MAC.
LEMMA DeletesAll ==
    ASSUME NEW home, MaxFaults = 0, Types, Ids(home), Protected(home),
           NEW w \in Worker, pc[w] = "delMac", NEW m \in MayList(NcOf[w]), NEW d \in Send,
           SendHost(d, "del", [mac |-> m, sid |-> sid[w], ip |-> None])
    PROVE  hosts'[Primary] = {h \in hosts[Primary] : h.mac # m}
<1> DEFINE g == [mac |-> m, sid |-> sid[w], ip |-> None]
<1>1. hosts'[Primary] = Execute("del", Primary, g)
    BY NoFault, ServerFact DEF SendHost
<1>2. Execute("del", Primary, g) = {h \in hosts[Primary] : h.mac # g.mac \/ h.sid # g.sid}
    BY DEF Execute
<1>3. g.mac = m /\ g.sid = sid[w]
    OBVIOUS
<1>4. arg[w] = home[m] /\ sid[w] = subnets[Primary][arg[w]]
    BY DEF Ids, WithPrefix
<1>5. \A h \in hosts[Primary] : h.mac = m => h.sid = sid[w]
    BY <1>4 DEF Protected
<1> QED BY <1>1, <1>2, <1>3, <1>5

\* A clean-up passes no reservation over.
LEMMA UncleanedStep ==
    ASSUME NEW home \in [Mac -> Cidr], Housed(home), MaxFaults = 0, Types, Listed,
           CleanInv(home), [Next]_vars, NEW w \in Worker,
           NEW h \in hosts[Primary], h \in hosts'[Primary],
           h.mac \in MayList(NcOf[w]), Uncleaned(w, h.mac)
    PROVE  pc'[w] # "unfinalize" /\ (pc'[w] = "delMac" => h.mac \in loc'[w].todo)
<1> USE DEF CleanInv
<1>1. /\ pc \in [Worker -> Label] /\ NcOf[w] \in NC /\ loc \in [Worker -> Locals]
      /\ subnets[Primary] \in [Cidr -> Nat]
    BY ServerFact DEF Types, SubnetTypes, HostTypes
<1>2. CASE pc'[w] = pc[w] /\ loc'[w] = loc[w]
    BY <1>2 DEF Uncleaned
<1>3. CASE pc'[w] \notin {"delMac", "unfinalize"}
    BY <1>3
<1>4. CASE OwnStep(w) /\ pc[w] = "idle" /\ pc'[w] \in {"delMac", "unfinalize"}
    <2>1. StartDeletion(w)
        BY <1>1, <1>4, OwnIdle, ZenonT(40) DEF StartReconcile, Goto
    <2>2. /\ getNetworkNamespace(NcOf[w]) # {}
          /\ \A x \in getNetworkNamespace(NcOf[w]) : nn[x].prefix = home[h.mac]
        BY <1>1, NamespaceOf
    <2>3. home[h.mac] \in Cidr
        BY <1>1 DEF MayList
    <2> QED BY <1>1, <1>4, <2>1, <2>2, <2>3 DEF StartDeletion, Goto
<1>5. CASE CleanupList(w)
    <2>1. /\ pc[w] = "cleanup" /\ loc' = loc
        BY <1>5 DEF CleanupList
    <2>2. arg[w] = home[h.mac] /\ loc[w].todo = MayList(NcOf[w])
        BY <2>1 DEF Ids, WithPrefix
    <2>3. h.sid # 0 /\ h.sid = subnets[Primary][arg[w]]
        BY <2>2 DEF Protected
    <2>4. arg[w] \in Cidr
        BY <2>1 DEF Types, Placed, WithPrefix
    <2>5. PICK d \in Send :
            Deliver(d) /\ (Goto(w, "delMac") \/ GetSubnetID(d, arg[w]) <= 0)
        BY <1>5 DEF CleanupList
    <2>6. ~(GetSubnetID(d, arg[w]) <= 0)
        BY <1>1, <2>3, <2>4, <2>5, NoFault DEF GetSubnetID, ListFails
    <2> QED BY <1>1, <2>1, <2>2, <2>5, <2>6 DEF Goto
<1>6. CASE DeleteReservationForMAC(w)
    <2>1. pc[w] = "delMac" /\ h.mac \in loc[w].todo /\ loc[w].todo \subseteq MayList(NcOf[w])
        BY <1>6 DEF DeleteReservationForMAC, Uncleaned, Listed
    <2>2. PICK m \in loc[w].todo, d \in Send :
            /\ SendHost(d, "del", [mac |-> m, sid |-> sid[w], ip |-> None])
            /\ Local(w, [loc[w] EXCEPT !.todo = @ \ {m}])
            /\ UNCHANGED pc
        BY <1>6, <2>1 DEF DeleteReservationForMAC
    <2>3. h.mac # m
        BY <2>1, <2>2, DeletesAll
    <2>4. loc'[w] = [loc[w] EXCEPT !.todo = @ \ {m}] /\ loc[w] \in Locals
        BY <1>1, <2>2 DEF Local
    <2>5. loc'[w].todo = loc[w].todo \ {m}
        BY <2>4 DEF Locals
    <2> QED BY <2>1, <2>2, <2>3, <2>5
<1>7. CASE OwnStep(w) /\ pc[w] # "idle" /\ pc'[w] \in {"delMac", "unfinalize"}
    <2>1. pc[w] \in {"cleanup", "delMac"}
        BY <1>7, OwnEffect DEF GocLabel, Locked, WithMac
    <2> QED BY <1>5, <1>6, <1>7, <2>1, OwnCleaning
<1> QED BY <1>2, <1>3, <1>4, <1>7, WorkerEffect

LEMMA ProtectedStep ==
    ASSUME OneWorker, NEW home \in [Mac -> Cidr], Housed(home), MaxFaults = 0, Types, Listed,
           CleanInv(home), [Next]_vars
    PROVE  Protected(home)'
<1> USE DEF CleanInv
<1> SUFFICES ASSUME NEW h \in hosts'[Primary]
             PROVE  /\ h.sid # 0 /\ h.sid = subnets'[Primary][home[h.mac]]
                    /\ \E n \in NC :
                         /\ api'[n].fin /\ h.mac \in MayList(n)
                         /\ \A w \in Worker : NcOf[w] = n => Uncleaned(w, h.mac)'
    BY DEF Protected, Uncleaned
<1>1. CASE h \in hosts[Primary]
    <2>1. h.sid # 0 /\ h.sid = subnets[Primary][home[h.mac]]
        BY <1>1 DEF Protected
    <2>2. PICK n \in NC : /\ api[n].fin /\ h.mac \in MayList(n)
                          /\ \A w \in Worker : NcOf[w] = n => Uncleaned(w, h.mac)
        BY <1>1 DEF Protected
    <2>3. home[h.mac] \in Cidr
        BY <2>2 DEF MayList
    <2>4. h.sid = subnets'[Primary][home[h.mac]]
        BY <2>1, <2>3, IdsStay
    <2>5. api'[n].fin
        <3> SUFFICES ASSUME ~api'[n].fin PROVE FALSE
            OBVIOUS
        <3>1. PICK w \in Worker : NcOf[w] = n /\ RemoveFinalizer(w)
            BY <2>2, FinalizerEffect
        <3> QED BY <2>2, <3>1 DEF RemoveFinalizer, Uncleaned
    <2>6. ASSUME NEW w \in Worker, NcOf[w] = n PROVE Uncleaned(w, h.mac)'
        BY <1>1, <2>2, <2>6, UncleanedStep DEF Uncleaned
    <2> QED BY <2>1, <2>2, <2>4, <2>5, <2>6
<1>2. ASSUME NEW w \in Worker, ReservationAdd(w), UNCHANGED kvars, h \notin hosts[Primary]
      PROVE  /\ h.sid # 0 /\ h.sid = subnets'[Primary][home[h.mac]]
             /\ \E n \in NC :
                  /\ api'[n].fin /\ h.mac \in MayList(n)
                  /\ \A v \in Worker : NcOf[v] = n => Uncleaned(v, h.mac)'
    <2> DEFINE g == [mac |-> loc[w].mac, sid |-> loc[w].hsid, ip |-> loc[w].ip]
    <2>1. PICK d \in Send : SendHost(d, "add", g)
        BY <1>2 DEF ReservationAdd
    <2>2. hosts'[Primary] = Execute("add", Primary, g)
        BY <2>1, NoFault, ServerFact DEF SendHost
    <2>3. h = g /\ CanReserve(Primary, g)
        BY <1>2, <2>2 DEF Execute
    <2>4. h.sid # 0 /\ h.mac = loc[w].mac /\ h.sid = loc[w].hsid
        BY <2>3 DEF CanReserve
    <2>5. pc[w] = "resAdd" /\ pc'[w] = "mac" /\ subnets' = subnets /\ api' = api
        BY <1>2 DEF ReservationAdd, MacDone, MacFailed, Goto, Types, SubnetTypes, kvars
    <2>6. loc[w].hsid = subnets[Primary][home[loc[w].mac]]
        BY <2>5 DEF Ids
    <2>7. NcOf[w] \in NC /\ api[NcOf[w]].fin /\ loc[w].mac \in MayList(NcOf[w])
        BY <2>5 DEF Finalizers, Cleaning, Listed, WithMac
    <2>8. ASSUME NEW v \in Worker, NcOf[v] = NcOf[w] PROVE Uncleaned(v, h.mac)'
        BY <2>5, <2>8 DEF OneWorker, Uncleaned
    <2> QED BY <2>4, <2>5, <2>6, <2>7, <2>8
<1>3. ASSUME NEW w \in Worker, DeleteReservationForMAC(w) PROVE h \in hosts[Primary]
    <2>1. CASE hosts' = hosts
        BY <2>1
    <2>2. CASE \E d \in Send : \E m \in loc[w].todo :
                 SendHost(d, "del", [mac |-> m, sid |-> sid[w], ip |-> None])
        BY <1>3, <2>2, DeletesAll DEF DeleteReservationForMAC, Listed
    <2> QED BY <1>3, <2>1, <2>2 DEF DeleteReservationForMAC
<1> QED BY <1>1, <1>2, <1>3, HostEffect DEF Quiet

LEMMA CleanInit ==
    ASSUME NEW home, Init
    PROVE  CleanInv(home)
<1>1. /\ hosts = [s \in Server |-> {}] /\ lostHosts = {} /\ lostAdds = {}
      /\ \A m \in Mac : lease[m] = None
      /\ \A x \in NN : nn[x] \in NnStates[x]
    BY DEF Init
<1>2. \A w \in Worker : pc[w] = "idle" /\ cache[w] = Absent /\ snap[w] = Absent
    BY DEF Init
<1>3. /\ "idle" \notin Cleaning /\ "idle" \notin AtMacs \cup WithPrefix
    BY LabelFacts DEF Cleaning, AtMacs, WithMac
<1>4. Quiet /\ Foreseen /\ Protected(home)
    BY <1>1, ServerFact DEF Quiet, Foreseen, Protected
<1>5. Finalizers
    BY <1>2, <1>3, AbsentFacts DEF Finalizers
<1>6. Ids(home)
    BY <1>2, <1>3 DEF Ids
<1> QED BY <1>4, <1>5, <1>6 DEF CleanInv

LEMMA CleanAlways ==
    ASSUME MaxFaults = 0, OneWorker, FixedMacs, NEW home \in [Mac -> Cidr], Housed(home)
    PROVE  Spec => []CleanInv(home)
<1>1. Init => CleanInv(home)
    BY CleanInit
<1>2. Types /\ Listed /\ CleanInv(home) /\ [Next]_vars => CleanInv(home)'
    <2> SUFFICES ASSUME Types, Listed, CleanInv(home), [Next]_vars PROVE CleanInv(home)'
        OBVIOUS
    <2>1. Quiet'
        BY QuietStep DEF CleanInv
    <2>2. Foreseen'
        BY ForeseenStep DEF CleanInv
    <2>3. Finalizers'
        BY FinalizersStep DEF CleanInv
    <2>4. Ids(home)'
        BY IdsStep
    <2>5. Protected(home)'
        BY ProtectedStep
    <2> QED BY <2>1, <2>2, <2>3, <2>4, <2>5 DEF CleanInv
<1> QED BY <1>1, <1>2, TypesAlways, ListedAlways, PTL DEF Spec

(***************************************************************************)
(* Reservations are protected by finalizers: with a crash at any point and *)
(* however NCs are edited, deleted, created again and share MACs, a        *)
(* reservation in Kea has an NC with the operator's finalizer that has yet *)
(* to clean it up.  That a lost answer, a second process, a MAC taken out  *)
(* of a spec or a NetworkNamespace that goes first leaves a reservation    *)
(* behind is why the hypotheses are there.                                 *)
(***************************************************************************)
THEOREM NoOrphans ==
    ASSUME MaxFaults = 0, OneWorker, FixedMacs, NEW home \in [Mac -> Cidr], Housed(home)
    PROVE  Spec => []NoOrphanReservations
<1>1. CleanInv(home) => NoOrphanReservations
    <2> SUFFICES ASSUME CleanInv(home), NEW s \in Server, NEW h \in hosts[s]
                 PROVE  \E n \in NC : api[n].fin /\ \E t \in Specs[n] : h.mac \in t.macs
        BY DEF NoOrphanReservations
    <2>1. s = Primary
        BY DEF CleanInv, Quiet
    <2>2. PICK n \in NC : api[n].fin /\ h.mac \in MayList(n)
        BY <2>1 DEF CleanInv, Protected
    <2> QED BY <2>2 DEF MayList
<1> QED BY <1>1, CleanAlways, PTL

-----------------------------------------------------------------------------
(* The refinement of ReservationLedger. *)

ClaimedNCs == {n \in NC : api[n].fin}
LeavingNCs == {n \in NC : Leaving(n)}
ReservedMacs == {m \in Mac : \E s \in Server : \E h \in hosts[s] : h.mac = m}

\* The steps of the ledger, in the terms of the operator.
LEMMA LedgerSteps ==
    ASSUME \/ UNCHANGED <<ClaimedNCs, LeavingNCs, ReservedMacs>>
           \/ \E n \in NC :
                ClaimedNCs' = ClaimedNCs \cup {n} /\ UNCHANGED <<LeavingNCs, ReservedMacs>>
           \/ \E n \in ClaimedNCs :
                LeavingNCs' = LeavingNCs \cup {n} /\ UNCHANGED <<ClaimedNCs, ReservedMacs>>
           \/ \E gone \in SUBSET NC :
                /\ gone \cap ClaimedNCs = {}
                /\ LeavingNCs' = LeavingNCs \ gone /\ UNCHANGED <<ClaimedNCs, ReservedMacs>>
           \/ \E m \in Mac : \E n \in ClaimedNCs :
                /\ m \in MayList(n) /\ ReservedMacs' = ReservedMacs \cup {m}
                /\ UNCHANGED <<ClaimedNCs, LeavingNCs>>
           \/ \E m \in Mac : \E n \in LeavingNCs :
                /\ m \in MayList(n) /\ ReservedMacs' = ReservedMacs \ {m}
                /\ UNCHANGED <<ClaimedNCs, LeavingNCs>>
           \/ \E n \in LeavingNCs :
                /\ \A m \in ReservedMacs \cap MayList(n) :
                      \E v \in ClaimedNCs \ {n} : m \in MayList(v)
                /\ ClaimedNCs' = ClaimedNCs \ {n} /\ UNCHANGED ReservedMacs
                /\ LeavingNCs' \in {LeavingNCs, LeavingNCs \ {n}}
    PROVE  [Ledger!Next]_(Ledger!vars)
<1> DEFINE Lists == [n \in NC |-> UNION {t.macs : t \in Specs[n]}]
<1>1. \A n \in NC : Lists[n] = MayList(n)
    BY DEF MayList
<1>2. ClaimedNCs \subseteq NC /\ LeavingNCs \subseteq NC
    BY DEF ClaimedNCs, LeavingNCs
<1>3. CASE UNCHANGED <<ClaimedNCs, LeavingNCs, ReservedMacs>>
    BY <1>3 DEF Ledger!vars, ClaimedNCs, LeavingNCs, ReservedMacs
<1>4. ASSUME NEW n \in NC, ClaimedNCs' = ClaimedNCs \cup {n}, UNCHANGED <<LeavingNCs, ReservedMacs>>
      PROVE  Ledger!Next
    <2>1. Ledger!Claim(n)
        BY <1>4 DEF Ledger!Claim, ClaimedNCs, LeavingNCs, ReservedMacs
    <2> QED BY <2>1 DEF Ledger!Next
<1>5. ASSUME NEW n \in ClaimedNCs, LeavingNCs' = LeavingNCs \cup {n},
             UNCHANGED <<ClaimedNCs, ReservedMacs>>
      PROVE  Ledger!Next
    <2>1. Ledger!Leave(n)
        BY <1>5 DEF Ledger!Leave, ClaimedNCs, LeavingNCs, ReservedMacs
    <2> QED BY <1>2, <2>1 DEF Ledger!Next
<1>6. ASSUME NEW gone \in SUBSET NC, gone \cap ClaimedNCs = {},
             LeavingNCs' = LeavingNCs \ gone, UNCHANGED <<ClaimedNCs, ReservedMacs>>
      PROVE  Ledger!Next
    <2>1. Ledger!Forget(gone)
        BY <1>6 DEF Ledger!Forget, ClaimedNCs, LeavingNCs, ReservedMacs
    <2> QED BY <2>1 DEF Ledger!Next
<1>7. ASSUME NEW m \in Mac, NEW n \in ClaimedNCs, m \in MayList(n),
             ReservedMacs' = ReservedMacs \cup {m}, UNCHANGED <<ClaimedNCs, LeavingNCs>>
      PROVE  Ledger!Next
    <2>1. \E k \in ClaimedNCs : m \in Lists[k]
        BY <1>1, <1>2, <1>7
    <2>2. Ledger!Reserve(m)
        BY <1>7, <2>1 DEF Ledger!Reserve, ClaimedNCs, LeavingNCs, ReservedMacs
    <2> QED BY <2>2 DEF Ledger!Next
<1>8. ASSUME NEW m \in Mac, NEW n \in LeavingNCs, m \in MayList(n),
             ReservedMacs' = ReservedMacs \ {m}, UNCHANGED <<ClaimedNCs, LeavingNCs>>
      PROVE  Ledger!Next
    <2>1. \E k \in LeavingNCs : m \in Lists[k]
        BY <1>1, <1>2, <1>8
    <2>2. Ledger!Release(m)
        BY <1>8, <2>1 DEF Ledger!Release, ClaimedNCs, LeavingNCs, ReservedMacs
    <2> QED BY <2>2 DEF Ledger!Next
<1>9. ASSUME NEW n \in LeavingNCs,
             \A m \in ReservedMacs \cap MayList(n) : \E v \in ClaimedNCs \ {n} : m \in MayList(v),
             ClaimedNCs' = ClaimedNCs \ {n}, UNCHANGED ReservedMacs,
             LeavingNCs' \in {LeavingNCs, LeavingNCs \ {n}}
      PROVE  Ledger!Next
    <2>1. \A m \in ReservedMacs \cap Lists[n] : \E v \in ClaimedNCs \ {n} : m \in Lists[v]
        <3> HIDE DEF Lists
        <3>1. Lists[n] = MayList(n) /\ \A v \in ClaimedNCs : Lists[v] = MayList(v)
            BY <1>1, <1>2
        <3> QED BY <1>9, <3>1
    <2>2. Ledger!Unclaim(n)
        BY <1>9, <2>1 DEF Ledger!Unclaim, ClaimedNCs, LeavingNCs, ReservedMacs
    <2> QED BY <1>2, <2>2 DEF Ledger!Next
<1> QED BY <1>3, <1>4, <1>5, <1>6, <1>7, <1>8, <1>9

LEMMA OnPrimary ==
    ASSUME NEW f, \A s \in Server \ {Primary} : f[s] = {}
    PROVE  {m \in Mac : \E s \in Server : \E h \in f[s] : h.mac = m}
             = {m \in Mac : \E h \in f[Primary] : h.mac = m}
<1>1. \A m \in Mac : (\E s \in Server : \E h \in f[s] : h.mac = m)
                       <=> \E h \in f[Primary] : h.mac = m
    BY ServerFact
<1> QED BY <1>1

\* A reservation is made for the NC of its worker.
LEMMA AddsReservation ==
    ASSUME MaxFaults = 0, Types, Listed, Quiet, Quiet', Finalizers,
           NEW w \in Worker, ReservationAdd(w)
    PROVE  /\ loc[w].mac \in Mac /\ NcOf[w] \in ClaimedNCs /\ loc[w].mac \in MayList(NcOf[w])
           /\ ReservedMacs' \in {ReservedMacs, ReservedMacs \cup {loc[w].mac}}
<1> DEFINE g == [mac |-> loc[w].mac, sid |-> loc[w].hsid, ip |-> loc[w].ip]
<1>1. pc[w] = "resAdd" /\ NcOf[w] \in NC
    BY DEF ReservationAdd
<1>2. api[NcOf[w]].fin /\ loc[w].mac \in MayList(NcOf[w]) /\ loc[w].mac \in Mac
    BY <1>1 DEF Finalizers, Cleaning, Listed, WithMac, Types, Placed
<1>3. PICK d \in Send : SendHost(d, "add", g)
    BY DEF ReservationAdd
<1>4. hosts'[Primary] = Execute("add", Primary, g)
    BY <1>3, NoFault, ServerFact DEF SendHost
<1>5. hosts'[Primary] \in {hosts[Primary], hosts[Primary] \cup {g}}
    BY <1>4 DEF Execute
<1>6. /\ ReservedMacs = {m \in Mac : \E h \in hosts[Primary] : h.mac = m}
      /\ ReservedMacs' = {m \in Mac : \E h \in hosts'[Primary] : h.mac = m}
    BY OnPrimary DEF Quiet, ReservedMacs
<1>7. g.mac = loc[w].mac
    OBVIOUS
<1> HIDE DEF g
<1>8. ReservedMacs' \in {ReservedMacs, ReservedMacs \cup {loc[w].mac}}
    BY <1>2, <1>5, <1>6, <1>7
<1> QED BY <1>1, <1>2, <1>8 DEF ClaimedNCs

\* A reservation is taken away for an NC that is deleted.
LEMMA DropsReservation ==
    ASSUME NEW home, MaxFaults = 0, Types, Listed, CleanInv(home), Quiet',
           NEW w \in Worker, DeleteReservationForMAC(w)
    PROVE  /\ NcOf[w] \in LeavingNCs
           /\ \/ ReservedMacs' = ReservedMacs
              \/ \E m \in Mac : m \in MayList(NcOf[w]) /\ ReservedMacs' = ReservedMacs \ {m}
<1> USE DEF CleanInv
<1>1. pc[w] = "delMac" /\ NcOf[w] \in NC /\ loc[w].todo \subseteq MayList(NcOf[w])
    BY DEF DeleteReservationForMAC, Listed
<1>2. NcOf[w] \in LeavingNCs
    BY <1>1 DEF Finalizers, Cleaning, LeavingNCs, Leaving
<1>3. CASE hosts' = hosts
    BY <1>2, <1>3 DEF ReservedMacs
<1>4. ASSUME NEW m \in loc[w].todo, NEW d \in Send,
             SendHost(d, "del", [mac |-> m, sid |-> sid[w], ip |-> None])
      PROVE  m \in Mac /\ m \in MayList(NcOf[w]) /\ ReservedMacs' = ReservedMacs \ {m}
    <2>1. m \in Mac /\ m \in MayList(NcOf[w])
        BY <1>1, <1>4 DEF MayList
    <2>2. hosts'[Primary] = {h \in hosts[Primary] : h.mac # m}
        BY <1>1, <1>4, <2>1, DeletesAll
    <2>3. /\ ReservedMacs = {x \in Mac : \E h \in hosts[Primary] : h.mac = x}
          /\ ReservedMacs' = {x \in Mac : \E h \in hosts'[Primary] : h.mac = x}
        BY OnPrimary DEF Quiet, ReservedMacs
    <2> QED BY <2>1, <2>2, <2>3
<1> QED BY <1>2, <1>3, <1>4 DEF DeleteReservationForMAC

\* What the cache or a reconcile still shows of a deletion concerns an NC that is
\* deleted or has been let go.
LEMMA LeavingDoomed ==
    ASSUME Types, Finalizers, NEW n \in NC, Leaving(n)
    PROVE  Doomed(api[n])
<1>1. CASE api[n].deleting
    BY <1>1 DEF Doomed
<1>2. ASSUME NEW w \in Worker, NcOf[w] = n, cache[w].deleting \/ snap[w].deleting
      PROVE  Doomed(api[n])
    BY <1>2 DEF Finalizers
<1> QED BY <1>1, <1>2 DEF Leaving

LEMMA EnsureClaims ==
    ASSUME Types, NEW w \in Worker, EnsureFinalizer(w)
    PROVE  /\ ClaimedNCs' \in {ClaimedNCs, ClaimedNCs \cup {NcOf[w]}}
           /\ LeavingNCs' = LeavingNCs /\ ReservedMacs' = ReservedMacs
<1>1. /\ cache' = cache /\ snap' = snap /\ hosts' = hosts
    BY DEF EnsureFinalizer, hvars
<1>2. api \in [NC -> Record(edits)] /\ NcOf[w] \in NC
    BY DEF Types, KubeTypes, ObjectType
<1>3. ReservedMacs' = ReservedMacs
    BY <1>1 DEF ReservedMacs
<1>4. CASE api' = api
    BY <1>1, <1>3, <1>4 DEF ClaimedNCs, LeavingNCs, Leaving
<1>5. CASE api' = [api EXCEPT ![NcOf[w]].fin = TRUE]
    <2>1. /\ \A n \in NC \ {NcOf[w]} : api'[n] = api[n]
          /\ api'[NcOf[w]] = [api[NcOf[w]] EXCEPT !.fin = TRUE]
        BY <1>2, <1>5
    <2>2. api[NcOf[w]] \in Record(edits)
        BY <1>2
    <2>3. api'[NcOf[w]].fin = TRUE /\ api'[NcOf[w]].deleting = api[NcOf[w]].deleting
        BY <2>1, <2>2 DEF Record
    <2>4. ClaimedNCs' = ClaimedNCs \cup {NcOf[w]}
        BY <1>2, <2>1, <2>3 DEF ClaimedNCs
    <2>5. \A n \in NC : api'[n].deleting = api[n].deleting
        BY <2>1, <2>3
    <2>6. LeavingNCs' = LeavingNCs
        BY <1>1, <2>5 DEF LeavingNCs, Leaving
    <2> QED BY <1>3, <2>4, <2>6
<1> QED BY <1>4, <1>5 DEF EnsureFinalizer

LEMMA DeleteLeaves ==
    ASSUME Types, Finalizers, NEW n \in NC, Delete(n)
    PROVE  /\ UNCHANGED <<ClaimedNCs, ReservedMacs>>
           /\ \/ LeavingNCs' = LeavingNCs
              \/ n \in ClaimedNCs /\ LeavingNCs' = LeavingNCs \cup {n}
<1>1. /\ cache' = cache /\ snap' = snap /\ hosts' = hosts
    BY DEF Delete, hvars
<1>2. api \in [NC -> Record(edits)] /\ api[n] \in Record(edits)
    BY DEF Types, KubeTypes, ObjectType
<1>3. ReservedMacs' = ReservedMacs
    BY <1>1 DEF ReservedMacs
<1>4. /\ \A k \in NC \ {n} : api'[k] = api[k]
      /\ api'[n] = IF api[n].fin THEN [api[n] EXCEPT !.deleting = TRUE] ELSE Absent
      /\ ~api[n].deleting
    BY <1>2 DEF Delete
<1>5. \A k \in NC \ {n} : Leaving(k)' <=> Leaving(k)
    BY <1>1, <1>4 DEF Leaving
<1>6. CASE api[n].fin
    <2>1. api'[n] = [api[n] EXCEPT !.deleting = TRUE]
        BY <1>4, <1>6
    <2>2. api'[n].deleting = TRUE /\ api'[n].fin = api[n].fin
        BY <1>2, <2>1 DEF Record
    <2>3. ClaimedNCs' = ClaimedNCs /\ n \in ClaimedNCs
        BY <1>4, <1>6, <2>2 DEF ClaimedNCs
    <2>4. Leaving(n)'
        BY <2>2 DEF Leaving
    <2>5. LeavingNCs' = LeavingNCs \cup {n}
        BY <1>5, <2>4 DEF LeavingNCs
    <2> QED BY <1>3, <2>3, <2>5
<1>7. CASE ~api[n].fin
    <2>1. ~api'[n].deleting /\ ~api'[n].fin
        BY <1>4, <1>7, AbsentFacts
    <2>2. ClaimedNCs' = ClaimedNCs
        BY <1>4, <1>7, <2>1 DEF ClaimedNCs
    <2>3. Leaving(n)' <=> Leaving(n)
        BY <1>1, <1>4, <2>1 DEF Leaving
    <2>4. LeavingNCs' = LeavingNCs
        BY <1>5, <2>3 DEF LeavingNCs
    <2> QED BY <1>3, <2>2, <2>4
<1> QED BY <1>6, <1>7

\* The operator lets an NC go when no reservation depends on it.
LEMMA RemoveUnclaims ==
    ASSUME OneWorker, NEW home, Types, CleanInv(home),
           NEW w \in Worker, RemoveFinalizer(w), NEW n \in NC, n = NcOf[w]
    PROVE  /\ ReservedMacs' = ReservedMacs
           /\ LeavingNCs' \in {LeavingNCs, LeavingNCs \ {n}}
           /\ \/ UNCHANGED <<ClaimedNCs, LeavingNCs>>
              \/ n \notin ClaimedNCs /\ UNCHANGED ClaimedNCs
              \/ /\ n \in LeavingNCs /\ ClaimedNCs' = ClaimedNCs \ {n}
                 /\ \A m \in ReservedMacs \cap MayList(n) :
                       \E v \in ClaimedNCs \ {n} : m \in MayList(v)
<1> USE DEF CleanInv
<1>1. pc[w] = "unfinalize" /\ cache' = cache /\ hosts' = hosts
    BY DEF RemoveFinalizer, hvars
<1>2. /\ snap \in [Worker -> ObjectType(edits)] /\ api \in [NC -> Record(edits)]
      /\ api[n] \in Record(edits)
    BY DEF Types, KubeTypes, ObjectType
<1>3. snap'[w] = Absent /\ \A v \in Worker \ {w} : snap'[v] = snap[v]
    BY <1>2 DEF RemoveFinalizer, Leave
<1>4. snap[w].deleting /\ Doomed(api[n]) /\ n \in LeavingNCs
    BY <1>1 DEF Finalizers, Cleaning, LeavingNCs, Leaving
<1>5. \A k \in NC \ {n} : api'[k] = api[k]
    BY <1>2 DEF RemoveFinalizer
<1>6. \A k \in NC \ {n} : Leaving(k)' <=> Leaving(k)
    BY <1>1, <1>3, <1>5 DEF Leaving
<1>7. LeavingNCs' \in {LeavingNCs, LeavingNCs \ {n}}
    BY <1>4, <1>6 DEF LeavingNCs
<1>8. ReservedMacs' = ReservedMacs
    BY <1>1 DEF ReservedMacs
<1>9. ASSUME NEW m \in ReservedMacs \cap MayList(n)
      PROVE  \E v \in ClaimedNCs \ {n} : m \in MayList(v)
    <2>1. PICK h \in hosts[Primary] : h.mac = m
        BY <1>9 DEF Quiet, ReservedMacs
    <2>2. PICK v \in NC : /\ api[v].fin /\ h.mac \in MayList(v)
                          /\ \A u \in Worker : NcOf[u] = v => Uncleaned(u, h.mac)
        BY <2>1 DEF Protected
    <2>3. v # n
        BY <1>1, <2>2 DEF Uncleaned
    <2> QED BY <2>1, <2>2, <2>3 DEF ClaimedNCs
<1>10. CASE api' = api
    <2>1. ClaimedNCs' = ClaimedNCs
        BY <1>10 DEF ClaimedNCs
    <2>2. CASE api[n].fin
        <3>1. Leaving(n)'
            BY <1>4, <1>10, <2>2 DEF Doomed, Leaving
        <3>2. LeavingNCs' = LeavingNCs
            BY <1>4, <1>6, <3>1 DEF LeavingNCs
        <3> QED BY <1>7, <1>8, <2>1, <3>2
    <2>3. CASE ~api[n].fin
        BY <1>7, <1>8, <2>1, <2>3 DEF ClaimedNCs
    <2> QED BY <2>2, <2>3
<1>11. CASE api'[n] = Unfinalized(api[n])
    <2>1. \/ api'[n] = Absent
          \/ api'[n] = [api[n] EXCEPT !.fin = FALSE]
        BY <1>11 DEF Unfinalized
    <2>2. ASSUME api'[n] = [api[n] EXCEPT !.fin = FALSE] PROVE api'[n].fin = FALSE
        BY <1>2, <2>2 DEF Record
    <2>3. ~api'[n].fin
        BY <2>1, <2>2, AbsentFacts
    <2>4. ClaimedNCs' = ClaimedNCs \ {n}
        BY <1>5, <2>3 DEF ClaimedNCs
    <2> QED BY <1>4, <1>7, <1>8, <1>9, <2>4
<1> QED BY <1>2, <1>10, <1>11 DEF RemoveFinalizer

\* Any other step changes neither finalizers nor deletions on the API server.
LEMMA OtherFields ==
    ASSUME Types, [Next]_vars, NEW n \in NC,
           \A w \in Worker : ~EnsureFinalizer(w) /\ ~RemoveFinalizer(w), ~Delete(n)
    PROVE  /\ api'[n].fin <=> api[n].fin
           /\ api'[n].deleting <=> api[n].deleting
<1>1. CASE StatusOnly(n)
    BY <1>1, Zenon DEF StatusOnly, SameButStatus
<1>2. CASE ~api[n].exists /\ \E s \in Specs[n] : api'[n] = Created1(s)
    <2>1. ~api[n].fin /\ ~api[n].deleting
        BY <1>2, ObjectFacts DEF Types, KubeTypes
    <2> QED BY <1>2, <2>1, Created1Type
<1>3. CASE api'[n].deleting = api[n].deleting /\ api'[n].fin = api[n].fin
    BY <1>3
<1> QED BY <1>1, <1>2, <1>3, ApiFields, Zenon

LEMMA OthersForget ==
    ASSUME Types, Finalizers, [Next]_vars,
           \A w \in Worker : ~EnsureFinalizer(w) /\ ~RemoveFinalizer(w),
           \A n \in NC : ~Delete(n)
    PROVE  /\ ClaimedNCs' = ClaimedNCs
           /\ LeavingNCs' \subseteq LeavingNCs
           /\ (LeavingNCs \ LeavingNCs') \cap ClaimedNCs = {}
<1>1. \A n \in NC : (api'[n].fin <=> api[n].fin) /\ (api'[n].deleting <=> api[n].deleting)
    BY OtherFields
<1>2. ASSUME NEW n \in NC, Leaving(n)' PROVE Leaving(n)
    <2>1. CASE api'[n].deleting
        BY <1>1, <2>1 DEF Leaving
    <2>2. ASSUME NEW w \in Worker, NcOf[w] = n, cache'[w].deleting PROVE Leaving(n)
        BY <2>2, CacheEffect, AbsentFacts DEF Leaving
    <2>3. ASSUME NEW w \in Worker, NcOf[w] = n, snap'[w].deleting PROVE Leaving(n)
        <3>1. \/ snap'[w] = snap[w] \/ snap'[w] = Absent
              \/ SameButStatus(snap'[w], cache[w])
            BY WorkerEffect, OwnEffect
        <3> QED BY <2>3, <3>1, AbsentFacts DEF Leaving, SameButStatus
    <2> QED BY <1>2, <2>1, <2>2, <2>3 DEF Leaving
<1>3. ASSUME NEW n \in NC, Leaving(n), ~Leaving(n)' PROVE ~api[n].fin
    <2>1. ~api[n].deleting
        BY <1>1, <1>3 DEF Leaving
    <2> QED BY <1>3, <2>1, LeavingDoomed DEF Doomed
<1>4. ClaimedNCs' = ClaimedNCs
    BY <1>1 DEF ClaimedNCs
<1>5. LeavingNCs' \subseteq LeavingNCs
    BY <1>2 DEF LeavingNCs
<1>6. (LeavingNCs \ LeavingNCs') \cap ClaimedNCs = {}
    BY <1>3 DEF LeavingNCs, ClaimedNCs
<1> QED BY <1>4, <1>5, <1>6

\* Every step of the operator is a step of the ledger, or leaves it alone.
LEMMA LedgerStep ==
    ASSUME OneWorker, NEW home, MaxFaults = 0, Types, Listed,
           CleanInv(home), CleanInv(home)', [Next]_vars
    PROVE  [Ledger!Next]_(Ledger!vars)
<1> USE DEF CleanInv
<1>1. Quiet'
    OBVIOUS
<1>2. ASSUME NEW w \in Worker, ReservationAdd(w), UNCHANGED kvars
      PROVE  [Ledger!Next]_(Ledger!vars)
    <2>1. UNCHANGED <<ClaimedNCs, LeavingNCs>>
        BY <1>2 DEF kvars, ClaimedNCs, LeavingNCs, Leaving
    <2>2. /\ loc[w].mac \in Mac /\ NcOf[w] \in ClaimedNCs /\ loc[w].mac \in MayList(NcOf[w])
          /\ ReservedMacs' \in {ReservedMacs, ReservedMacs \cup {loc[w].mac}}
        BY <1>1, <1>2, AddsReservation
    <2> QED BY <2>1, <2>2, LedgerSteps
<1>3. ASSUME NEW w \in Worker, DeleteReservationForMAC(w), UNCHANGED kvars
      PROVE  [Ledger!Next]_(Ledger!vars)
    <2>1. UNCHANGED <<ClaimedNCs, LeavingNCs>>
        BY <1>3 DEF kvars, ClaimedNCs, LeavingNCs, Leaving
    <2>2. /\ NcOf[w] \in LeavingNCs
          /\ \/ ReservedMacs' = ReservedMacs
             \/ \E m \in Mac : m \in MayList(NcOf[w]) /\ ReservedMacs' = ReservedMacs \ {m}
        BY <1>1, <1>3, DropsReservation
    <2> QED BY <2>1, <2>2, LedgerSteps
<1>4. ASSUME NEW w \in Worker, EnsureFinalizer(w) PROVE [Ledger!Next]_(Ledger!vars)
    <2>1. /\ ClaimedNCs' \in {ClaimedNCs, ClaimedNCs \cup {NcOf[w]}}
          /\ LeavingNCs' = LeavingNCs /\ ReservedMacs' = ReservedMacs
        BY <1>4, EnsureClaims
    <2> QED BY <2>1, LedgerSteps
<1>5. ASSUME NEW w \in Worker, RemoveFinalizer(w) PROVE [Ledger!Next]_(Ledger!vars)
    <2>1. PICK n \in NC : n = NcOf[w]
        OBVIOUS
    <2>2. /\ ReservedMacs' = ReservedMacs
          /\ LeavingNCs' \in {LeavingNCs, LeavingNCs \ {n}}
          /\ \/ UNCHANGED <<ClaimedNCs, LeavingNCs>>
             \/ n \notin ClaimedNCs /\ UNCHANGED ClaimedNCs
             \/ /\ n \in LeavingNCs /\ ClaimedNCs' = ClaimedNCs \ {n}
                /\ \A m \in ReservedMacs \cap MayList(n) :
                      \E v \in ClaimedNCs \ {n} : m \in MayList(v)
        BY <1>5, <2>1, RemoveUnclaims
    <2>3. CASE n \notin ClaimedNCs /\ UNCHANGED ClaimedNCs
        <3>1. CASE LeavingNCs' = LeavingNCs
            BY <2>2, <2>3, <3>1, LedgerSteps
        <3>2. CASE LeavingNCs' = LeavingNCs \ {n}
            <4>1. {n} \in SUBSET NC /\ {n} \cap ClaimedNCs = {}
                BY <2>3
            <4> QED BY <2>2, <2>3, <3>2, <4>1, LedgerSteps
        <3> QED BY <2>2, <3>1, <3>2
    <2> QED BY <2>2, <2>3, LedgerSteps
<1>6. ASSUME NEW n \in NC, Delete(n) PROVE [Ledger!Next]_(Ledger!vars)
    BY <1>6, DeleteLeaves, LedgerSteps
<1>7. CASE /\ \A w \in Worker : ~EnsureFinalizer(w) /\ ~RemoveFinalizer(w)
           /\ \A n \in NC : ~Delete(n)
           /\ UNCHANGED <<hosts, lostHosts>>
    <2>1. ReservedMacs' = ReservedMacs
        BY <1>7 DEF ReservedMacs
    <2>2. /\ ClaimedNCs' = ClaimedNCs
          /\ LeavingNCs' \subseteq LeavingNCs
          /\ (LeavingNCs \ LeavingNCs') \cap ClaimedNCs = {}
        BY <1>7, OthersForget
    <2> DEFINE gone == LeavingNCs \ LeavingNCs'
    <2>3. gone \in SUBSET NC /\ LeavingNCs' = LeavingNCs \ gone
        BY <2>2 DEF LeavingNCs
    <2> QED BY <2>1, <2>2, <2>3, LedgerSteps
<1> QED BY <1>2, <1>3, <1>4, <1>5, <1>6, <1>7, HostEffect DEF Quiet

(***************************************************************************)
(* The operator implements the ledger, under the same hypotheses: it makes *)
(* reservations only for NCs with its finalizer, takes one away only on    *)
(* behalf of an NC that is deleted, and lets an NC go only once no         *)
(* reservation depends on it.                                              *)
(***************************************************************************)
THEOREM Refinement ==
    ASSUME MaxFaults = 0, OneWorker, FixedMacs, NEW home \in [Mac -> Cidr], Housed(home)
    PROVE  Spec => ImplementsLedger
<1>1. Init => Ledger!Init
    <2> SUFFICES ASSUME Init PROVE Ledger!Init
        OBVIOUS
    <2>1. ASSUME NEW n \in NC PROVE ~api[n].fin /\ ~api[n].deleting
        <3>1. PICK s \in Specs[n] : api[n] = Created1(s)
            BY DEF Init
        <3> QED BY <3>1, Created1Type
    <2>2. \A w \in Worker : cache[w] = Absent /\ snap[w] = Absent
        BY DEF Init
    <2>3. ClaimedNCs = {} /\ LeavingNCs = {}
        BY <2>1, <2>2, AbsentFacts DEF ClaimedNCs, LeavingNCs, Leaving
    <2>4. ReservedMacs = {}
        BY DEF Init, ReservedMacs
    <2> QED BY <2>3, <2>4 DEF Ledger!Init, ClaimedNCs, LeavingNCs, ReservedMacs
<1>2. Types /\ Listed /\ CleanInv(home) /\ CleanInv(home)' /\ [Next]_vars
        => [Ledger!Next]_(Ledger!vars)
    BY LedgerStep
<1> QED BY <1>1, <1>2, TypesAlways, ListedAlways, CleanAlways, PTL
        DEF Spec, ImplementsLedger, Ledger!Spec

=============================================================================
