----------------------------- MODULE Reconciler -----------------------------
(***************************************************************************)
(* NetworkConfigurationReconciler.Reconcile of internal/controller/v1alpha1,*)
(* with the work queue and the informer cache of controller-runtime around *)
(* it.  A worker stands for one NetworkConfiguration (NC) in one operator  *)
(* process: the work queue never runs two reconciles of one key at once.   *)
(* A reconcile works on the cached copy of its NC, makes its Kea calls one *)
(* step at a time and writes the API server without a version check.       *)
(***************************************************************************)
EXTENDS ReservationService, FiniteSets

CONSTANTS
    NC,             \* NetworkConfiguration names of one namespace
    NcOf,           \* the NC that a worker reconciles
    NN,             \* NetworkNamespace names
    NnName,         \* spec.networkNamespaceName of each NC, or None
    BadPrefix,      \* a status.ipv4Prefix that CalculatePoolFromCIDR refuses
    Strict,         \* KEA_STRICT_DEFAULTS
    MaxConcurrent   \* MAX_CONCURRENT_RECONCILES

ASSUME ReconcilerAssumption ==
    /\ NcOf \in [Worker -> NC] /\ NnName \in [NC -> NN \cup {None}]
    /\ None \notin NN \cup Cidr \cup Mac /\ BadPrefix \notin Cidr \cup {None}
    /\ Strict \in BOOLEAN
    /\ MaxConcurrent \in Nat \ {0}

\* Reconciles of one process call Send whenever they like.
ASSUME OverlapAssumption == Secondary # None /\ ~Racing => MaxConcurrent = 1

VARIABLES
    api,            \* API server: the NCs
    nn,             \* API server: the NetworkNamespaces
    cache,          \* informer cache: each worker's copy of its NC
    queued,         \* work queue: the worker's key is in it
    timer,          \* work queue: an AddAfter or AddRateLimited is pending
    snap            \* the reconcile's own copy of its NC ("nc")

kvars == <<api, nn, cache, queued, timer, snap>>

Provider == {"kea", "unset", "other"}
Status ==
    [cond : [ready : {"none", "True", "False"}, gen : Nat, msg : Seq(Mac \cup STRING)],
     phase : {"", "Reconciling", "Ready", "Error"}, msg : Seq(Mac \cup STRING),
     ifs : SUBSET [mac : Mac, reserved : BOOLEAN, ip : BOOLEAN]]
Object ==
    [exists : BOOLEAN, deleting : BOOLEAN, fin : BOOLEAN, gen : Nat,
     provider : Provider, macs : SUBSET Mac, status : Status]
Namespace ==
    [exists : BOOLEAN, alloc : {"dhcp", "unset", "static"},
     prefix : Cidr \cup {None, BadPrefix}]

NoStatus ==
    [cond |-> [ready |-> "none", gen |-> 0, msg |-> <<>>],
     phase |-> "", msg |-> <<>>, ifs |-> {}]
Absent ==
    [exists |-> FALSE, deleting |-> FALSE, fin |-> FALSE, gen |-> 0,
     provider |-> "unset", macs |-> {}, status |-> NoStatus]

-----------------------------------------------------------------------------
(* Status patches.  Each is a JSON merge patch of the fields that differ   *)
(* from the reconcile's own copy; its error is ignored.                    *)

\* Fields that are as in the copy are left out of the patch.
Merge(cur, base, new) == IF new = base THEN cur ELSE new

\* setCondition writes the condition, updateStatus all the rest.
Merged(cur, base, new, sent) ==
    [cond |-> IF "cond" \in sent THEN Merge(cur.cond, base.cond, new.cond) ELSE cur.cond,
     phase |-> IF "rest" \in sent THEN Merge(cur.phase, base.phase, new.phase) ELSE cur.phase,
     msg |-> IF "rest" \in sent THEN Merge(cur.msg, base.msg, new.msg) ELSE cur.msg,
     ifs |-> IF "rest" \in sent THEN Merge(cur.ifs, base.ifs, new.ifs) ELSE cur.ifs]

\* Which of the two patches reach the API server.
Reach == {sent \in SUBSET {"cond", "rest"} :
              faults + (IF sent = {"cond", "rest"} THEN 0 ELSE 1) <= MaxFaults}

PatchStatus(w, base, new, sent) ==
    LET n == NcOf[w] IN
    /\ faults' = faults + (IF sent = {"cond", "rest"} THEN 0 ELSE 1)
    /\ api' = IF api[n].exists
              THEN [api EXCEPT ![n].status = Merged(@, base.status, new, sent)]
              ELSE api

\* The reconcile's copy afterwards: what the API server answered, if it did.
AfterPatch(w, o, new, sent) ==
    LET n == NcOf[w]
        changed == new.phase # o.status.phase \/ new.msg # o.status.msg IN
    CASE ~api[n].exists -> o
      [] api[n].exists /\ "rest" \in sent /\ changed ->
            [o EXCEPT !.status = Merged(api[n].status, o.status, new, sent)]
      [] OTHER -> [o EXCEPT !.status.cond = IF "cond" \in sent THEN new.cond ELSE @]

Condition(r, o, why) == [ready |-> r, gen |-> o.gen, msg |-> why]

\* The status of a failed or a finished reconcile; interfaces as given.
Failure(o, why, ifs) ==
    [cond |-> Condition("False", o, why), phase |-> "Error", msg |-> why, ifs |-> ifs]

-----------------------------------------------------------------------------
(* Starting a reconcile. *)

Busy(p) == {v \in Worker : ProcOf[v] = p /\ pc[v] # "idle"}

\* The queue hands the key to a free goroutine.
Dequeue(w) ==
    /\ queued[w] /\ pc[w] = "idle"
    /\ Cardinality(Busy(ProcOf[w])) < MaxConcurrent
    /\ queued' = [queued EXCEPT ![w] = FALSE]

\* getNetworkNamespace: the named one, or else whichever is listed first.
getNetworkNamespace(n) ==
    {x \in IF NnName[n] = None THEN NN ELSE {NnName[n]} : nn[x].exists}

OursExists(o) == o.exists

Ours(o) == o.exists /\ o.provider # "other"

\* Triage: not found, another provider, no NetworkNamespace, another IP type.
Skip(w) ==
    /\ Dequeue(w)
    /\ \/ ~Ours(cache[w])
       \/ ~cache[w].deleting /\ getNetworkNamespace(NcOf[w]) = {}
       \/ ~cache[w].deleting /\ \E x \in getNetworkNamespace(NcOf[w]) : nn[x].alloc = "static"
    /\ UNCHANGED <<svars, hvars, loc, api, nn, cache, timer, snap>>

\* What is past triage, and the NetworkNamespace it goes on with.
Claimed(w) ==
    IF Ours(cache[w]) /\ ~cache[w].deleting
    THEN {x \in getNetworkNamespace(NcOf[w]) : nn[x].alloc # "static"} ELSE {}

Refused(w, x) == Strict /\ (cache[w].provider = "unset" \/ nn[x].alloc = "unset")

\* KEA_STRICT_DEFAULTS refuses a default: an error status and no requeue.
StrictError(w) ==
    /\ Dequeue(w)
    /\ \E x \in Claimed(w), sent \in Reach :
        /\ Refused(w, x)
        /\ PatchStatus(w, cache[w],
               Failure(cache[w], <<"strict">>, cache[w].status.ifs), sent)
    /\ UNCHANGED <<subnets, lostAdds, lock, pc, arg, sid, hvars, loc, nn, cache, timer, snap>>

\* A finalizer update may be refused for a stale copy, or fail on an API fault.
Conflict(o, n) ==
    /\ api[n] # o \/ faults < MaxFaults
    /\ faults' = IF api[n] # o THEN faults ELSE faults + 1

\* No finalizer yet: add it and return; the update event brings the NC back.
EnsureFinalizer(w) ==
    /\ Dequeue(w)
    /\ \E x \in Claimed(w) : ~Refused(w, x)
    /\ ~cache[w].fin
    /\ LET n == NcOf[w] IN
       \/ /\ api[n].exists /\ ~api[n].deleting
          /\ api' = [api EXCEPT ![n].fin = TRUE]
          /\ UNCHANGED <<timer, faults>>
       \/ /\ Conflict(cache[w], n)
          /\ timer' = [timer EXCEPT ![w] = TRUE]
          /\ UNCHANGED api
    /\ UNCHANGED <<subnets, lostAdds, lock, pc, arg, sid, hvars, loc, nn, cache, snap>>

\* A generation not seen before is announced as "Reconciling".  Then, with a
\* usable prefix and a MAC address, GetOrCreateSubnet is called.
StartReconcile(w) ==
    /\ Dequeue(w)
    /\ cache[w].fin
    /\ \E x \in Claimed(w) :
        /\ ~Refused(w, x)
        /\ arg' = [arg EXCEPT ![w] = nn[x].prefix]
        /\ Goto(w, IF nn[x].prefix \in Cidr /\ cache[w].macs # {}
                   THEN "lock" ELSE "unprepared")
    /\ LET o == cache[w]
           new == [cond |-> Condition("False", o, <<"reconciling">>),
                   phase |-> "Reconciling", msg |-> <<"reconciling">>, ifs |-> o.status.ifs]
       IN \/ /\ o.status.cond.ready # "none" /\ o.status.cond.gen = o.gen
             /\ snap' = [snap EXCEPT ![w] = o]
             /\ UNCHANGED <<api, faults>>
          \/ /\ o.status.cond.ready = "none" \/ o.status.cond.gen # o.gen
             /\ \E sent \in Reach :
                /\ PatchStatus(w, o, new, sent)
                /\ snap' = [snap EXCEPT ![w] = AfterPatch(w, o, new, sent)]
    /\ UNCHANGED <<subnets, lostAdds, lock, sid, hvars, loc, nn, cache, timer>>

\* handleDeletion; without a NetworkNamespace or a prefix nothing is cleaned up.
StartDeletion(w) ==
    LET known == getNetworkNamespace(NcOf[w]) IN
    /\ Dequeue(w)
    /\ Ours(cache[w]) /\ cache[w].deleting
    /\ \/ \E x \in known :
            /\ arg' = [arg EXCEPT ![w] = nn[x].prefix]
            /\ Goto(w, IF nn[x].prefix \in Cidr THEN "cleanup" ELSE "unfinalize")
       \/ known = {} /\ Goto(w, "unfinalize") /\ UNCHANGED arg
    /\ snap' = [snap EXCEPT ![w] = cache[w]]
    /\ Local(w, [NoLocals EXCEPT !.todo = cache[w].macs])
    /\ UNCHANGED <<subnets, lostAdds, lock, sid, faults, hvars, api, nn, cache, timer>>

-----------------------------------------------------------------------------
(* The rest of Reconcile. *)

\* The goroutine is free again, its local variables are gone.
Leave(w) ==
    /\ Goto(w, "idle")
    /\ arg' = [arg EXCEPT ![w] = None]
    /\ sid' = [sid EXCEPT ![w] = 0]
    /\ Local(w, NoLocals)
    /\ snap' = [snap EXCEPT ![w] = Absent]

RequeueNever(w) == UNCHANGED timer

RequeueAfter(w) == timer' = [timer EXCEPT ![w] = TRUE]

\* updateStatus without setCondition: no usable prefix, or no MAC address.
\* A missing prefix is noticed before missing MACs, a bad one after them.
Unprepared(w) ==
    LET o == snap[w]
        noPrefix == arg[w] = None \/ (arg[w] = BadPrefix /\ o.macs # {})
        new == [o.status EXCEPT !.phase = IF noPrefix THEN "Error" ELSE "Ready",
                                !.msg = IF noPrefix THEN <<"prefix">> ELSE <<"no MACs">>]
    IN
    /\ pc[w] = "unprepared"
    /\ \E sent \in Reach : "cond" \in sent /\ PatchStatus(w, o, new, sent)
    /\ \/ noPrefix /\ RequeueAfter(w)
       \/ ~noPrefix /\ UNCHANGED timer
    /\ Leave(w)
    /\ UNCHANGED <<subnets, lostAdds, lock, hvars, nn, cache, queued>>

\* GetOrCreateSubnet failed.
SubnetError(w) ==
    /\ pc[w] = "failed"
    /\ \E sent \in Reach :
        PatchStatus(w, snap[w], Failure(snap[w], <<"subnet">>, snap[w].status.ifs), sent)
    /\ RequeueAfter(w)
    /\ Leave(w)
    /\ UNCHANGED <<subnets, lostAdds, lock, hvars, nn, cache, queued>>

\* resolveSubnetInfo: an id that the answering server does not know is stale
\* and is resolved again by prefix.  The details fetched are not modelled.
GetSubnetInfo(w) ==
    /\ pc[w] = "ok"
    /\ \E d \in Send :
        LET stale == d.ans # None /\ \A c \in Cidr : subnets[d.ans][c] # sid[w] IN
        /\ Deliver(d)
        /\ Goto(w, IF stale THEN "reresolve" ELSE "mac")
    /\ Local(w, [NoLocals EXCEPT !.todo = snap[w].macs])
    /\ UNCHANGED <<subnets, lostAdds, lock, arg, sid, hvars, kvars>>

Reresolve(w) ==
    /\ pc[w] = "reresolve"
    /\ \E d \in Send :
        LET id == GetSubnetID(d, arg[w]) IN
        Deliver(d) /\ sid' = [sid EXCEPT ![w] = IF id > 0 THEN id ELSE @]
    /\ Goto(w, "mac")
    /\ UNCHANGED <<subnets, lostAdds, lock, arg, loc, hvars, kvars>>

\* One interface per MAC of the spec: reserved or not, with an address or not.
buildStatusInterfaces(o, l) ==
    {[mac |-> m, reserved |-> m \in l.done, ip |-> m \in l.ips] : m \in o.macs}

\* The message counts the MACs with an address.
buildSuccessMessage(o, l) ==
    IF l.ips = o.macs THEN <<"all have an IP">>
    ELSE IF l.ips # {} THEN <<"some have an IP">> ELSE <<"no IPs yet">>

\* The final condition and status.
Finish(w) ==
    LET o == snap[w]
        l == loc[w]
        ifs == buildStatusInterfaces(o, l)
        why == buildSuccessMessage(o, l)
        good == [cond |-> Condition("True", o, <<"configured">>), phase |-> "Ready", msg |-> why, ifs |-> ifs]
    IN
    /\ pc[w] = "mac" /\ l.todo = {}
    /\ \E sent \in Reach :
        PatchStatus(w, o, IF l.errs = <<>> THEN good ELSE Failure(o, l.errs, ifs), sent)
    /\ RequeueAfter(w)
    /\ Leave(w)
    /\ UNCHANGED <<subnets, lostAdds, lock, hvars, nn, cache, queued>>

\* Removing the finalizer lets the API server drop a deleted object.
Unfinalized(o) == IF o.deleting THEN Absent ELSE [o EXCEPT !.fin = FALSE]

RemoveFinalizer(w) ==
    /\ pc[w] = "unfinalize"
    /\ \/ api' = [api EXCEPT ![NcOf[w]] = Unfinalized(@)] /\ UNCHANGED <<timer, faults>>
       \/ Conflict(snap[w], NcOf[w]) /\ RequeueAfter(w) /\ UNCHANGED api
    /\ Leave(w)
    /\ UNCHANGED <<subnets, lostAdds, lock, hvars, nn, cache, queued>>

-----------------------------------------------------------------------------
(* The work queue and the informer. *)

\* A watch event: the cache catches up with the API server and the key is queued.
Watch(w) ==
    /\ cache[w] # api[NcOf[w]]
    /\ cache' = [cache EXCEPT ![w] = api[NcOf[w]]]
    /\ queued' = [queued EXCEPT ![w] = TRUE]
    /\ UNCHANGED <<svars, hvars, loc, api, nn, timer, snap>>

\* A delayed add comes due.
TimerFires(w) ==
    /\ timer[w]
    /\ timer' = [timer EXCEPT ![w] = FALSE]
    /\ queued' = [queued EXCEPT ![w] = TRUE]
    /\ UNCHANGED <<svars, hvars, loc, api, nn, cache, snap>>

\* The informer's periodic resync queues every cached object.
Resync(w) ==
    /\ cache[w].exists /\ ~queued[w]
    /\ queued' = [queued EXCEPT ![w] = TRUE]
    /\ UNCHANGED <<svars, hvars, loc, api, nn, cache, timer, snap>>

Start(w) ==
    Skip(w) \/ StrictError(w) \/ EnsureFinalizer(w) \/ StartReconcile(w) \/ StartDeletion(w)

\* The steps of the service that leave the Kubernetes side alone.
ServiceStep(w) ==
    \/ GetOrCreateSubnet(w) /\ UNCHANGED <<hvars, loc, kvars>>
    \/ /\ \/ GetLeaseIPv4ForMAC(w) \/ GetStoredAddress(w)
          \/ Exists(w) \/ ExistsAll(w) \/ ReservationAdd(w)
          \/ CleanupList(w) \/ DeleteReservationForMAC(w)
       /\ UNCHANGED kvars

Reconcile(w) ==
    \/ Unprepared(w) \/ SubnetError(w) \/ GetSubnetInfo(w)
    \/ Reresolve(w) \/ Finish(w) \/ RemoveFinalizer(w) \/ ServiceStep(w)

=============================================================================
