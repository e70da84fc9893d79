---------------------------- MODULE SubnetSystem ----------------------------
(***************************************************************************)
(* GetOrCreateSubnet under its real load: every worker calls it for the    *)
(* prefix of its NetworkConfiguration, again and again (a requeue after an *)
(* error, the periodic resync after a success), while processes crash and  *)
(* commands are lost, late or rejected.                                    *)
(***************************************************************************)
EXTENDS SubnetService

CONSTANTS
    Prefix,      \* the prefix each worker's NetworkConfiguration asks for
    MaxInitId    \* largest id of a subnet that Kea has from the start

ASSUME SystemAssumption == Prefix \in [Worker -> Cidr] /\ MaxInitId \in Nat

\* Workers of one process call Send whenever they like.
ASSUME OverlapAssumption ==
    Secondary # None /\ ~Racing => \A v, w \in Worker : ProcOf[v] = ProcOf[w] => v = w

Label == GocLabel \cup {"idle"}

TypeOK ==
    /\ subnets \in [Server -> [Cidr -> Nat]]
    /\ lostAdds \subseteq AddCmd
    /\ lock \in [Proc -> [Cidr -> Worker \cup {None}]]
    /\ pc \in [Worker -> Label]
    /\ arg \in [Worker -> Cidr]
    /\ sid \in [Worker -> Nat]
    /\ faults \in 0..MaxFaults

Distinct(f) == \A c, x \in Cidr : f[c] = f[x] /\ f[c] # 0 => c = x

Init ==
    /\ subnets \in [Server -> [Cidr -> 0..MaxInitId]]
    /\ \A s \in Server : Distinct(subnets[s])
    /\ lostAdds = {}
    /\ lock = [p \in Proc |-> [c \in Cidr |-> None]]
    /\ pc = [w \in Worker |-> "idle"]
    /\ arg = Prefix
    /\ sid = [w \in Worker |-> 0]
    /\ faults = 0

\* A reconcile calls GetOrCreateSubnet.
Call(w) ==
    /\ pc[w] = "idle"
    /\ Goto(w, "lock")
    /\ UNCHANGED <<subnets, lostAdds, lock, arg, sid, faults>>

\* The reconcile ends; its object comes back after a delay.
Done(w) ==
    /\ pc[w] \in {"ok", "failed"}
    /\ Goto(w, "idle")
    /\ UNCHANGED <<subnets, lostAdds, lock, arg, sid, faults>>

\* A process dies: its goroutines and its mutexes are gone.
Crash(p) ==
    /\ faults < MaxFaults
    /\ faults' = faults + 1
    /\ pc' = [w \in Worker |-> IF ProcOf[w] = p THEN "idle" ELSE pc[w]]
    /\ lock' = [lock EXCEPT ![p] = [c \in Cidr |-> None]]
    /\ UNCHANGED <<subnets, lostAdds, arg, sid>>

Next ==
    \/ \E w \in Worker : Call(w) \/ GetOrCreateSubnet(w) \/ Done(w)
    \/ \E a \in lostAdds : LateAdd(a)
    \/ \E p \in Proc : Crash(p)

Spec == Init /\ [][Next]_svars

(***************************************************************************)
(* Fairness.  Send has a timeout, so every step of a call ends.  A Go      *)
(* mutex hands over to the longest waiter once it has starved for 1 ms, so *)
(* Acquire is strongly fair.  A reconcile that ended is queued again by    *)
(* RequeueAfter.  Nothing is assumed of lost commands or of crashes.       *)
(***************************************************************************)
Fairness ==
    \A w \in Worker :
        /\ WF_svars(Call(w)) /\ SF_svars(Acquire(w))
        /\ WF_svars(Get(w) \/ PickID(w) \/ Add(w) \/ Reget(w) \/ Done(w))

FairSpec == Spec /\ Fairness

-----------------------------------------------------------------------------
(* Properties *)

\* A worker inside GetOrCreateSubnet's critical section owns the mutex of its
\* prefix in its process (service.go, lock.Lock ... defer lock.Unlock).
LockHeld ==
    \A w \in Worker : pc[w] \in Locked => lock[ProcOf[w]][arg[w]] = w

\* The id that GetOrCreateSubnet returned is the id that prefix has on one of
\* the servers, however the answers to list and add were lost or delayed.
ResultIsReal ==
    \A w \in Worker : pc[w] = "ok" =>
        sid[w] # 0 /\ \E s \in Server : subnets[s][arg[w]] = sid[w]

\* Concurrent callers agree: the same prefix means the same id, different
\* prefixes mean different ids.  Needs a single server: see the README.
Agreement ==
    \A v, w \in Worker : pc[v] = "ok" /\ pc[w] = "ok" =>
        (arg[v] = arg[w] <=> sid[v] = sid[w])

\* One process: a worker is about to add a prefix only if some server does not
\* have it, or had not when an add of it lost its answer (service.go: a burst of
\* reconciles "issues a single subnet4-add instead of one per reconcile").
SingleAdd ==
    \A w \in Worker : pc[w] \in {"next", "add"} =>
        \E s \in Server :
            \/ subnets[s][arg[w]] = 0
            \/ \E a \in lostAdds : a.srv = s /\ a.cidr = arg[w]

\* Every call of GetOrCreateSubnet returns, unless its process crashes.
CallsReturn ==
    \A w \in Worker : pc[w] = "lock" ~> pc[w] \in {"ok", "failed", "idle"}

\* Id collisions between prefixes, replicas and late commands do not last:
\* in the end every requested prefix is configured on the primary.
EventuallyProvisioned ==
    \A w \in Worker : <>[](subnets[Primary][Prefix[w]] # 0)

\* The abstract promise, for a single server.
Registry == INSTANCE SubnetRegistry WITH
    reg <- subnets[Primary],
    out <- [w \in Worker |-> CASE pc[w] = "ok" -> sid[w]
                               [] pc[w] = "failed" -> -1
                               [] OTHER -> 0]

Implements == Registry!Spec

=============================================================================
