------------------------------ MODULE Operator ------------------------------
(***************************************************************************)
(* The operator in its cluster: users create, edit and delete              *)
(* NetworkConfigurations, another controller changes NetworkNamespaces,    *)
(* machines obtain and lose DHCP leases, operator processes crash.         *)
(***************************************************************************)
EXTENDS Reconciler

CONSTANTS
    Specs,        \* the [provider, macs] a user may give to each NC
    NnStates,     \* the states each NetworkNamespace may take
    InitIds,      \* the subnet ids that the servers may have from the start
    LeaseIn,      \* the prefixes in which a MAC's machine may get a lease
    Deletable,    \* the NCs that users may delete
    Recreate,     \* users create an NC again after its deletion
    MaxEdits,     \* bound on user and NetworkNamespace edits
    MaxCrashes    \* bound on process crashes

ASSUME OperatorAssumption ==
    /\ \A n \in NC : Specs[n] \subseteq [provider : Provider, macs : SUBSET Mac]
    /\ \A x \in NN : NnStates[x] \subseteq Namespace
    /\ InitIds \subseteq [Server -> [Cidr -> Nat]]
    /\ LeaseIn \in [Mac -> SUBSET Cidr]
    /\ Deletable \subseteq NC
    /\ Recreate \in BOOLEAN /\ MaxEdits \in Nat /\ MaxCrashes \in Nat

VARIABLES edits, crashes

vars == <<svars, hvars, loc, kvars, edits, crashes>>

Created1(s) ==
    [Absent EXCEPT !.exists = TRUE, !.gen = 1, !.provider = s.provider, !.macs = s.macs]

\* The operator starts in a cluster that already has NCs, with an empty cache.
Init ==
    /\ subnets \in InitIds
    /\ lostAdds = {}
    /\ lock = [p \in Proc |-> [c \in Cidr |-> None]]
    /\ pc = [w \in Worker |-> "idle"]
    /\ arg = [w \in Worker |-> None]
    /\ sid = [w \in Worker |-> 0]
    /\ faults = 0
    /\ hosts = [s \in Server |-> {}]
    /\ lostHosts = {}
    /\ lease = [m \in Mac |-> None]
    /\ loc = [w \in Worker |-> NoLocals]
    /\ api \in [NC -> {Created1(s) : s \in UNION {Specs[n] : n \in NC}}]
    /\ \A n \in NC : api[n] \in {Created1(s) : s \in Specs[n]}
    /\ nn \in [NN -> UNION {NnStates[x] : x \in NN}]
    /\ \A x \in NN : nn[x] \in NnStates[x]
    /\ cache = [w \in Worker |-> Absent]
    /\ queued = [w \in Worker |-> FALSE]
    /\ timer = [w \in Worker |-> FALSE]
    /\ snap = [w \in Worker |-> Absent]
    /\ edits = 0 /\ crashes = 0

-----------------------------------------------------------------------------
(* The environment. *)

EditBudget == edits < MaxEdits /\ edits' = edits + 1

Create(n) ==
    /\ Recreate /\ ~api[n].exists /\ EditBudget
    /\ \E s \in Specs[n] : api' = [api EXCEPT ![n] = Created1(s)]
    /\ UNCHANGED <<svars, hvars, loc, nn, cache, queued, timer, snap, crashes>>

Edit(n) ==
    /\ api[n].exists /\ EditBudget
    /\ \E s \in Specs[n] :
        /\ s # [provider |-> api[n].provider, macs |-> api[n].macs]
        /\ api' = [api EXCEPT ![n].provider = s.provider, ![n].macs = s.macs, ![n].gen = @ + 1]
    /\ UNCHANGED <<svars, hvars, loc, nn, cache, queued, timer, snap, crashes>>

Delete(n) ==
    /\ n \in Deletable /\ api[n].exists /\ ~api[n].deleting
    /\ api' = [api EXCEPT ![n] = IF @.fin THEN [@ EXCEPT !.deleting = TRUE] ELSE Absent]
    /\ UNCHANGED <<svars, hvars, loc, nn, cache, queued, timer, snap, edits, crashes>>

EditNamespace(x) ==
    /\ EditBudget
    /\ \E s \in NnStates[x] \ {nn[x]} : nn' = [nn EXCEPT ![x] = s]
    /\ UNCHANGED <<svars, hvars, loc, api, cache, queued, timer, snap, crashes>>

\* A machine gets a lease in a configured subnet, or its lease expires.
Lease(m) ==
    /\ \E c \in {x \in LeaseIn[m] : subnets[Primary][x] # 0} \cup {None} :
        c # lease[m] /\ lease' = [lease EXCEPT ![m] = c]
    /\ UNCHANGED <<svars, hosts, lostHosts, loc, kvars, edits, crashes>>

\* A process dies and is started again: queue, cache and locals are gone.
Crash(p) ==
    LET Mine(f, new) == [w \in Worker |-> IF ProcOf[w] = p THEN new ELSE f[w]] IN
    /\ crashes < MaxCrashes /\ crashes' = crashes + 1
    /\ lock' = [lock EXCEPT ![p] = [c \in Cidr |-> None]]
    /\ pc' = Mine(pc, "idle") /\ arg' = Mine(arg, None) /\ sid' = Mine(sid, 0)
    /\ loc' = Mine(loc, NoLocals) /\ snap' = Mine(snap, Absent)
    /\ cache' = Mine(cache, Absent)
    /\ queued' = Mine(queued, FALSE) /\ timer' = Mine(timer, FALSE)
    /\ UNCHANGED <<subnets, lostAdds, faults, hvars, api, nn, edits>>

WorkerStep(w) ==
    /\ Watch(w) \/ TimerFires(w) \/ Resync(w) \/ Start(w) \/ Reconcile(w)
    /\ UNCHANGED <<edits, crashes>>

KeaStep ==
    /\ \/ \E a \in lostAdds : LateAdd(a) /\ UNCHANGED <<hvars, loc>>
       \/ \E a \in lostHosts : LateHost(a)
    /\ UNCHANGED <<kvars, edits, crashes>>

Next ==
    \/ \E w \in Worker : WorkerStep(w)
    \/ KeaStep
    \/ \E n \in NC : Create(n) \/ Edit(n) \/ Delete(n)
    \/ \E x \in NN : EditNamespace(x)
    \/ \E m \in Mac : Lease(m)
    \/ \E p \in Proc : Crash(p)

Spec == Init /\ [][Next]_vars

(***************************************************************************)
(* Fairness.  Watch events arrive, delayed adds come due, and a running    *)
(* reconcile goes on, since every call has a timeout.  The work queue is   *)
(* first in, first out, so a queued key is taken even if goroutines are    *)
(* free only from time to time; a Go mutex is handed to its oldest waiter. *)
(* Nothing is assumed of users, leases, crashes, lost commands, or of the  *)
(* informer's resync (ten hours).                                          *)
(***************************************************************************)
Fairness ==
    \A w \in Worker :
        /\ WF_vars(Watch(w) /\ UNCHANGED <<edits, crashes>>)
        /\ WF_vars(TimerFires(w) /\ UNCHANGED <<edits, crashes>>)
        /\ SF_vars(Start(w) /\ UNCHANGED <<edits, crashes>>)
        /\ WF_vars(Reconcile(w) /\ UNCHANGED <<edits, crashes>>)
        /\ SF_vars(Acquire(w) /\ UNCHANGED <<hvars, loc, kvars, edits, crashes>>)

FairSpec == Spec /\ Fairness

-----------------------------------------------------------------------------
(* Properties *)

Label == GocLabel \cup
    {"idle", "unprepared", "reresolve", "mac", "stored", "exists", "existsAll",
     "resAdd", "cleanup", "delMac", "unfinalize"}

IsObject(o) ==
    /\ DOMAIN o = DOMAIN Absent /\ DOMAIN o.status = DOMAIN NoStatus
    /\ o.provider \in Provider /\ o.macs \subseteq Mac /\ o.gen \in 0..(MaxEdits + 1)
    /\ o.status.cond.gen \in 0..(MaxEdits + 1)
    /\ o.deleting => o.fin
    /\ o.fin => o.exists

TypeOK ==
    /\ subnets \in [Server -> [Cidr -> Nat]]
    /\ lostAdds \subseteq AddCmd
    /\ lock \in [Proc -> [Cidr -> Worker \cup {None}]]
    /\ pc \in [Worker -> Label]
    /\ arg \in [Worker -> Cidr \cup {None, BadPrefix}]
    /\ sid \in [Worker -> Nat]
    /\ faults \in 0..MaxFaults
    /\ \A s \in Server : hosts[s] \subseteq Host
    /\ lostHosts \subseteq HostCmd
    /\ lease \in [Mac -> Cidr \cup {None}]
    /\ \A w \in Worker :
        /\ loc[w].todo \cup loc[w].done \cup loc[w].ips \subseteq Mac
        /\ IsObject(cache[w]) /\ IsObject(snap[w])
    /\ \A n \in NC : IsObject(api[n])
    /\ queued \in [Worker -> BOOLEAN] /\ timer \in [Worker -> BOOLEAN]
    /\ edits \in 0..MaxEdits /\ crashes \in 0..MaxCrashes

Ready(n) ==
    /\ api[n].exists /\ ~api[n].deleting
    /\ api[n].status.cond.ready = "True" /\ api[n].status.cond.gen = api[n].gen

\* An NC whose Ready condition is True for its current generation has a
\* reservation for each of its MACs on a Kea server, whatever failed, was lost
\* or came late on the way (Reconcile sets the condition last).
ReadyMeansReserved ==
    \A n \in NC : Ready(n) =>
        \A m \in api[n].macs : \E s \in Server : \E h \in hosts[s] : h.mac = m

\* A reservation is protected by a finalizer: while Kea has one for a MAC, an NC
\* that may list the MAC exists and carries the finalizer, so that deleting it
\* leads to the cleanup (README: the operator "removes on delete"; controller:
\* "if the NC has our finalizer, we must run cleanup").
NoOrphanReservations ==
    \A s \in Server : \A h \in hosts[s] :
        \E n \in NC : api[n].fin /\ \E t \in Specs[n] : h.mac \in t.macs

\* A deletion is known while the API server, a cache or a reconcile shows it.
Leaving(n) ==
    \/ api[n].deleting
    \/ \E w \in Worker : NcOf[w] = n /\ (cache[w].deleting \/ snap[w].deleting)

\* The reservations as an abstract ledger.
Ledger == INSTANCE ReservationLedger WITH
    Lists <- [n \in NC |-> UNION {t.macs : t \in Specs[n]}],
    claimed <- {n \in NC : api[n].fin},
    leaving <- {n \in NC : Leaving(n)},
    reserved <- {m \in Mac : \E s \in Server : \E h \in hosts[s] : h.mac = m}

\* Reservations are made only for claimed NCs, are removed only on behalf of an
\* NC that is deleted, and an NC is let go only once no reservation depends on
\* it, with several NCs that share MACs and a crash at any point.
ImplementsLedger == Ledger!Spec

\* Triage: an NC as first created with another provider, or with no provider
\* under KEA_STRICT_DEFAULTS, gets neither a finalizer nor, if no other NC
\* lists its MACs, a reservation.  (The README's own example and the sample
\* manifests, with "provider: example", are such NCs: see the findings.)
OnlyClaimedNCs ==
    \A n \in NC :
        /\ api[n].gen = 1
        /\ api[n].provider = "other" \/ (Strict /\ api[n].provider = "unset")
        => /\ ~api[n].fin
           /\ \A s \in Server : \A h \in hosts[s] : h.mac \in api[n].macs =>
                  \E v \in NC \ {n} : h.mac \in api[v].macs

\* Every reservation lies in the subnet of a NetworkNamespace's prefix
\* (README: "create a reservation for that IP in the namespace's subnet").
InNamespaceSubnet ==
    \A s \in Server : \A h \in hosts[s] :
        \E x \in NN : nn[x].prefix \in Cidr /\ subnets[s][nn[x].prefix] = h.sid

\* The user asked for reservations and every NetworkNamespace allows them.
Wanted(n) ==
    /\ Ours(api[n]) /\ ~api[n].deleting /\ api[n].macs # {}
    /\ \A x \in NN : nn[x].exists /\ nn[x].alloc = "dhcp" /\ nn[x].prefix \in Cidr

\* In the end every NC that can be configured is Ready at its current
\* generation and stays so (the requeues and watch events suffice).
EventuallyReady == \A n \in NC : <>[](Wanted(n) => Ready(n))

\* After a failover to the secondary is over, every NC that can be configured
\* has its reservations on the primary, in the subnet of its prefix there.  No
\* lease is asked for, as in the code; the README says one is (see the findings).
EventuallyOnPrimary ==
    \A n \in NC : <>[](Wanted(n) => \A m \in api[n].macs :
        \E x \in NN : HasHost(Primary, m, subnets[Primary][nn[x].prefix]))

\* A deleted NC goes away, its finalizer removed, unless the user has meanwhile
\* turned it over to another provider: triage then skips it, deletion and all.
DeletionCompletes ==
    \A n \in NC : api[n].deleting ~> ~api[n].deleting \/ ~Ours(api[n])

=============================================================================
