----------------------------- MODULE ReadyProofs -----------------------------
(***************************************************************************)
(* Operator: the Ready condition is never a false promise, with any number *)
(* of faults, crashes, edits, servers, processes and NCs.                  *)
(***************************************************************************)
EXTENDS OperatorProofs

USE DeliveryAssumption, SubnetAssumption, ReconcilerAssumption, OperatorAssumption

-----------------------------------------------------------------------------
(* The inductive invariant. *)

Gone(n) == ~api[n].exists \/ api[n].deleting

HasReservation(m) == \E s \in Server : \E h \in hosts[s] : h.mac = m

\* A copy of an NC is of an earlier generation, or has the NC's MACs.
CopyOf(n, o) ==
    /\ o.gen <= api[n].gen
    /\ o.gen = api[n].gen => o.macs = api[n].macs

\* A true condition speaks of this or an earlier generation, and of this one
\* only with every MAC reserved.
Promised ==
    \A n \in NC : ~Gone(n) /\ api[n].status.cond.ready = "True" =>
        /\ api[n].status.cond.gen <= api[n].gen
        /\ api[n].status.cond.gen = api[n].gen => \A m \in api[n].macs : HasReservation(m)

Copies ==
    \A w \in Worker : ~Gone(NcOf[w]) => CopyOf(NcOf[w], cache[w]) /\ CopyOf(NcOf[w], snap[w])

\* What a reconcile has seen reserved stays so; without an error it has seen all
\* MACs of its copy but those still to do and the one in hand.
Progress ==
    \A w \in Worker :
        /\ loc[w].done \subseteq MayList(NcOf[w])
        /\ ~Gone(NcOf[w]) => \A m \in loc[w].done : HasReservation(m)
        /\ loc[w].errs = <<>> =>
            /\ pc[w] \in {"reresolve", "mac"} =>
                  snap[w].macs \subseteq loc[w].done \cup loc[w].todo
            /\ pc[w] \in WithMac =>
                  snap[w].macs \subseteq loc[w].done \cup loc[w].todo \cup {loc[w].mac}

\* Only the reservations of a deleted NC are deleted, at once or late.
OnlyCleanup ==
    /\ \A w \in Worker : cache[w].deleting \/ pc[w] \in {"cleanup", "delMac"} => Gone(NcOf[w])
    /\ \A a \in lostHosts :
        a.op = "del" => \E n \in Deletable : Gone(n) /\ a.host.mac \in MayList(n)

ReadyInv == Promised /\ Copies /\ Progress /\ OnlyCleanup

\* No other NC lists a MAC of an NC that users may delete.
DeletedAlone ==
    \A n \in Deletable : \A v \in NC \ {n} : MayList(n) \cap MayList(v) = {}

-----------------------------------------------------------------------------
(* Lemmas about one step. *)

\* An NC that is not gone was not gone before; its generation counts its edits.
LEMMA AliveStep ==
    ASSUME ~Recreate, Types, Listed, [Next]_vars, NEW n \in NC, ~Gone(n)'
    PROVE  /\ ~Gone(n)
           /\ \/ /\ api'[n].gen = api[n].gen /\ api'[n].macs = api[n].macs
                 /\ \/ api'[n].status.cond = api[n].status.cond
                    \/ api'[n].status.cond.ready = "False"
                    \/ \E w \in Worker :
                         /\ NcOf[w] = n /\ Finish(w) /\ loc[w].errs = <<>>
                         /\ api'[n].status.cond = Condition("True", snap[w], <<"configured">>)
              \/ /\ api'[n].gen = api[n].gen + 1
                 /\ api'[n].status.cond = api[n].status.cond
<1>1. api'[n] # Absent /\ api'[n].exists /\ ~api'[n].deleting
    BY AbsentFacts DEF Gone
<1>2. CASE StatusOnly(n)
    BY <1>1, <1>2, Zenon DEF StatusOnly, SameButStatus, Gone
<1>3. CASE SameButFin(api'[n], api[n])
    BY <1>1, <1>3 DEF SameButFin, Gone
<1>4. CASE /\ api'[n].gen = api[n].gen + 1
           /\ api'[n].exists = api[n].exists /\ api'[n].deleting = api[n].deleting
           /\ api'[n].status = api[n].status
    BY <1>1, <1>4 DEF Gone
<1> QED BY <1>1, <1>2, <1>3, <1>4, ApiFields, Zenon

LEMMA ExecuteKeeps ==
    ASSUME NEW s, NEW h \in hosts[s], NEW op, NEW g, op # "del" \/ g.mac # h.mac
    PROVE  h \in Execute(op, s, g)
    BY DEF Execute

\* A gone NC is one that users may delete.
LEMMA GoneDeletable ==
    ASSUME Listed, NEW n \in NC, Gone(n)
    PROVE  n \in Deletable
    BY DEF Listed, Gone

\* No step takes away the reservation of a MAC that an NC lists and keeps.
LEMMA ReservationKept ==
    ASSUME DeletedAlone, Types, Listed, OnlyCleanup, [Next]_vars,
           NEW n \in NC, ~Gone(n), NEW m \in MayList(n), HasReservation(m)
    PROVE  HasReservation(m)'
<1> USE DEF Types
<1>1a. PICK s \in Server : \E h \in hosts[s] : h.mac = m
    BY DEF HasReservation
<1>1. PICK h \in hosts[s] : h.mac = m
    BY <1>1a
<1>2. SUFFICES h \in hosts'[s]
    BY <1>1 DEF HasReservation
<1>3. ASSUME NEW v \in NC, Gone(v), NEW x \in MayList(v) PROVE x # m
    <2>1. v \in Deletable /\ v # n
        BY <1>3, GoneDeletable
    <2> QED BY <1>3, <2>1 DEF DeletedAlone
<1>4. CASE UNCHANGED <<hosts, lostHosts>>
    BY <1>4
<1>5. ASSUME NEW w \in Worker, ReservationAdd(w) PROVE h \in hosts'[s]
    <2>1. PICK d \in Send : \E g : SendHost(d, "add", g)
        BY <1>5 DEF ReservationAdd
    <2> QED BY <2>1, ExecuteKeeps DEF SendHost
<1>6. ASSUME NEW w \in Worker, DeleteReservationForMAC(w) PROVE h \in hosts'[s]
    <2>1. pc[w] = "delMac" /\ NcOf[w] \in NC
        BY <1>6 DEF DeleteReservationForMAC
    <2>2. Gone(NcOf[w]) /\ loc[w].todo \subseteq MayList(NcOf[w])
        BY <2>1 DEF OnlyCleanup, Listed
    <2>3. ASSUME NEW x \in loc[w].todo, NEW d \in Send,
                 SendHost(d, "del", [mac |-> x, sid |-> sid[w], ip |-> None])
          PROVE  h \in hosts'[s]
        <3>1. [mac |-> x, sid |-> sid[w], ip |-> None].mac # h.mac
            BY <1>1, <1>3, <2>1, <2>2
        <3> QED BY <2>3, <3>1, ExecuteKeeps DEF SendHost
    <2> QED BY <1>4, <1>6, <2>3 DEF DeleteReservationForMAC
<1>7. ASSUME NEW a \in lostHosts, LateHost(a) PROVE h \in hosts'[s]
    <2>1. a.op # "del" \/ a.host.mac # h.mac
        BY <1>1, <1>3 DEF OnlyCleanup
    <2>2. hosts'[s] = hosts[s] \/ (s = a.srv /\ hosts'[s] = Execute(a.op, s, a.host))
        BY <1>7 DEF LateHost, HostTypes
    <2> QED BY <2>1, <2>2, ExecuteKeeps
<1> QED BY <1>4, <1>5, <1>6, <1>7, HostEffect

LEMMA AppendNonEmpty ==
    ASSUME NEW s \in Seq(Mac), NEW m \in Mac
    PROVE  Append(s, m) # <<>>
<1>1. Len(Append(s, m)) = Len(s) + 1 /\ Len(s) \in Nat
    OBVIOUS
<1>2. Len(<<>>) = 0
    OBVIOUS
<1> QED BY <1>1, <1>2

\* Where the loop notes a MAC as done, its reservation is there.
LEMMA DoneReserved ==
    ASSUME Types, NEW w \in Worker, Exists(w) \/ ExistsAll(w) \/ ReservationAdd(w),
           MacDone(w), loc'[w].errs = loc[w].errs, NEW m, m = loc[w].mac
    PROVE  HasReservation(m)'
<1> USE DEF Types
<1>1. pc'[w] = "mac"
    BY DEF MacDone, Goto, SubnetTypes
<1>2. CASE Exists(w)
    <2>1. hosts' = hosts
        BY <1>2 DEF Exists, hvars
    <2>2. PICK d \in Send :
            \/ d.ans # None /\ HasHost(d.ans, loc[w].mac, loc[w].hsid)
            \/ Goto(w, "existsAll") \/ Goto(w, "resAdd")
        BY <1>2 DEF Exists
    <2>3. d.ans # None /\ HasHost(d.ans, loc[w].mac, loc[w].hsid)
        BY <1>1, <2>2 DEF Goto, SubnetTypes
    <2> QED BY <2>1, <2>3, SendType DEF HasHost, HasReservation
<1>3. CASE ExistsAll(w)
    <2>1. hosts' = hosts
        BY <1>3 DEF ExistsAll, hvars
    <2>2. PICK d \in Send :
            \/ d.ans # None /\ HasHost(d.ans, loc[w].mac, loc[w].hsid)
            \/ Goto(w, "resAdd")
        BY <1>3 DEF ExistsAll
    <2>3. d.ans # None /\ HasHost(d.ans, loc[w].mac, loc[w].hsid)
        BY <1>1, <2>2 DEF Goto, SubnetTypes
    <2> QED BY <2>1, <2>3, SendType DEF HasHost, HasReservation
<1>4. CASE ReservationAdd(w)
    <2> DEFINE h == [mac |-> loc[w].mac, sid |-> loc[w].hsid, ip |-> loc[w].ip]
    <2>1. PICK d \in Send : SendHost(d, "add", h) /\ (Reserved(d, h) \/ MacFailed(w))
        BY <1>4 DEF ReservationAdd
    <2>2. ~MacFailed(w)
        <3> SUFFICES ASSUME MacFailed(w) PROVE FALSE
            OBVIOUS
        <3>1. loc'[w] = [loc[w] EXCEPT !.mac = None, !.hsid = 0, !.ip = None,
                                       !.errs = Append(@, loc[w].mac)]
            BY DEF MacFailed, Local, HostTypes
        <3>2. loc[w] \in Locals /\ loc[w].mac \in Mac
            BY <1>4 DEF ReservationAdd, HostTypes, Placed, WithMac
        <3>3. loc'[w].errs = Append(loc[w].errs, loc[w].mac) /\ loc[w].errs \in Seq(Mac)
            BY <3>1, <3>2 DEF Locals
        <3> QED BY <3>2, <3>3
    <2>3. d.ans \in Server /\ CanReserve(d.ans, h)
        BY <2>1, <2>2, SendType DEF Reserved
    <2>4. h \in hosts'[d.ans]
        BY <2>1, <2>3 DEF SendHost, Execute
    <2> QED BY <2>3, <2>4 DEF HasReservation
<1> QED BY <1>2, <1>3, <1>4

-----------------------------------------------------------------------------
(* The invariant is inductive. *)

LEMMA ReadyInit == Init => ReadyInv
<1> SUFFICES ASSUME Init PROVE ReadyInv
    OBVIOUS
<1>1. ASSUME NEW n \in NC
      PROVE  /\ api[n].exists /\ api[n].gen = 1 /\ api[n].status.cond.ready = "none"
             /\ ~api[n].deleting
    <2>1. PICK s \in Specs[n] : api[n] = Created1(s)
        BY DEF Init
    <2>2. NoStatus.cond.ready = "none"
        BY DEF NoStatus
    <2> QED BY <2>1, <2>2, Created1Type
<1>2. ASSUME NEW w \in Worker
      PROVE  cache[w] = Absent /\ snap[w] = Absent /\ loc[w] = NoLocals /\ pc[w] = "idle"
    BY DEF Init
<1>3. Promised
    BY <1>1 DEF Promised
<1>4. Copies
    BY <1>1, <1>2, AbsentFacts DEF Copies, CopyOf
<1>5. Progress
    BY <1>2 DEF Progress, NoLocals, WithMac
<1>6. OnlyCleanup
    BY <1>2, AbsentFacts DEF Init, OnlyCleanup
<1> QED BY <1>3, <1>4, <1>5, <1>6 DEF ReadyInv

LEMMA CopiesStep ==
    ASSUME ~Recreate, Types, Listed, Copies, [Next]_vars
    PROVE  Copies'
<1> SUFFICES ASSUME NEW w \in Worker, ~Gone(NcOf[w])'
             PROVE  CopyOf(NcOf[w], cache[w])' /\ CopyOf(NcOf[w], snap[w])'
    BY DEF Copies
<1> DEFINE n == NcOf[w]
<1>1. n \in NC /\ ~Gone(n)
    BY AliveStep
<1>2. /\ api[n].gen \in Nat \ {0} /\ cache[w].gen \in Nat /\ snap[w].gen \in Nat
      /\ edits \in Nat
    BY <1>1, ObjectFacts DEF Types, KubeTypes, Listed, Gone
<1>3. \/ api'[n].gen = api[n].gen /\ api'[n].macs = api[n].macs
      \/ api'[n].gen = api[n].gen + 1
    BY AliveStep
<1>4. ASSUME NEW g \in Nat, NEW m, g <= api[n].gen, g = api[n].gen => m = api[n].macs
      PROVE  g <= api'[n].gen /\ (g = api'[n].gen => m = api'[n].macs)
    BY <1>2, <1>3, <1>4
<1>5. /\ cache[w].gen <= api[n].gen /\ (cache[w].gen = api[n].gen => cache[w].macs = api[n].macs)
      /\ snap[w].gen <= api[n].gen /\ (snap[w].gen = api[n].gen => snap[w].macs = api[n].macs)
    BY <1>1 DEF Copies, CopyOf
<1>6. 0 <= api'[n].gen /\ 0 # api'[n].gen
    BY <1>2, <1>3
<1>7. cache'[w].gen <= api'[n].gen /\ (cache'[w].gen = api'[n].gen => cache'[w].macs = api'[n].macs)
    <2>1. CASE cache'[w] = cache[w]
        BY <1>2, <1>4, <1>5, <2>1
    <2>2. CASE cache'[w] = api[n] /\ api' = api
        BY <1>2, <2>2
    <2>3. CASE cache'[w] = Absent
        BY <1>6, <2>3, AbsentFacts
    <2> QED BY <2>1, <2>2, <2>3, CacheEffect
<1>8. snap'[w].gen <= api'[n].gen /\ (snap'[w].gen = api'[n].gen => snap'[w].macs = api'[n].macs)
    <2>1. CASE snap'[w] = snap[w]
        BY <1>2, <1>4, <1>5, <2>1
    <2>2. CASE SameButStatus(snap'[w], cache[w])
        <3>1. /\ cache[w].gen <= api'[n].gen
              /\ cache[w].gen = api'[n].gen => cache[w].macs = api'[n].macs
            BY <1>2, <1>4, <1>5
        <3> QED BY <2>2, <3>1 DEF SameButStatus
    <2>3. CASE snap'[w] = Absent
        BY <1>6, <2>3, AbsentFacts
    <2> QED BY <2>1, <2>2, <2>3, WorkerEffect, OwnEffect
<1> QED BY <1>7, <1>8 DEF CopyOf

LEMMA PromisedStep ==
    ASSUME ~Recreate, DeletedAlone, Types, Listed, ReadyInv, [Next]_vars
    PROVE  Promised'
<1> USE DEF ReadyInv
<1> SUFFICES ASSUME NEW n \in NC, ~Gone(n)', api'[n].status.cond.ready = "True"
             PROVE  /\ api'[n].status.cond.gen <= api'[n].gen
                    /\ api'[n].status.cond.gen = api'[n].gen =>
                          \A m \in api'[n].macs : HasReservation(m)'
    BY DEF Promised
<1>1. /\ ~Gone(n) /\ api[n].gen \in Nat /\ api[n].status.cond.gen \in Nat
      /\ \A w \in Worker : snap[w].gen \in Nat
    BY AliveStep, ObjectFacts DEF Types, KubeTypes
<1>2. ASSUME NEW m \in api[n].macs, HasReservation(m) PROVE HasReservation(m)'
    <2>1. m \in MayList(n)
        BY DEF Listed, MayList
    <2> QED BY <1>1, <1>2, <2>1, ReservationKept
<1>3. CASE api'[n].gen = api[n].gen + 1 /\ api'[n].status.cond = api[n].status.cond
    BY <1>1, <1>3 DEF Promised
<1>4. CASE /\ api'[n].gen = api[n].gen /\ api'[n].macs = api[n].macs
           /\ api'[n].status.cond = api[n].status.cond
    BY <1>1, <1>2, <1>4 DEF Promised
<1>5. ASSUME api'[n].gen = api[n].gen, api'[n].macs = api[n].macs,
             NEW w \in Worker, NcOf[w] = n, Finish(w), loc[w].errs = <<>>,
             api'[n].status.cond = Condition("True", snap[w], <<"configured">>)
      PROVE  /\ api'[n].status.cond.gen <= api'[n].gen
             /\ api'[n].status.cond.gen = api'[n].gen =>
                   \A m \in api'[n].macs : HasReservation(m)'
    <2>1. api'[n].status.cond.gen = snap[w].gen
        BY <1>5 DEF Condition
    <2>2. /\ snap[w].gen <= api[n].gen
          /\ snap[w].gen = api[n].gen => snap[w].macs = api[n].macs
        BY <1>1, <1>5 DEF Copies, CopyOf
    <2>3. pc[w] = "mac" /\ loc[w].todo = {}
        BY <1>5 DEF Finish
    <2>4. snap[w].macs \subseteq loc[w].done
        BY <1>5, <2>3 DEF Progress
    <2>5. \A m \in loc[w].done : HasReservation(m)
        BY <1>1, <1>5 DEF Progress
    <2> QED BY <1>2, <1>5, <2>1, <2>2, <2>4, <2>5
<1> QED BY <1>3, <1>4, <1>5, AliveStep

LEMMA ProgressStep ==
    ASSUME ~Recreate, DeletedAlone, Types, Types', Listed, ReadyInv, [Next]_vars
    PROVE  Progress'
<1> USE DEF ReadyInv
<1> SUFFICES ASSUME NEW w \in Worker
             PROVE  /\ loc'[w].done \subseteq MayList(NcOf[w])
                    /\ ~Gone(NcOf[w])' => \A m \in loc'[w].done : HasReservation(m)'
                    /\ loc'[w].errs = <<>> =>
                        /\ pc'[w] \in {"reresolve", "mac"} =>
                              snap'[w].macs \subseteq loc'[w].done \cup loc'[w].todo
                        /\ pc'[w] \in WithMac =>
                              snap'[w].macs \subseteq loc'[w].done \cup loc'[w].todo \cup {loc'[w].mac}
    BY DEF Progress
<1> DEFINE Kept == /\ loc'[w].done \subseteq MayList(NcOf[w])
                   /\ ~Gone(NcOf[w])' => \A m \in loc'[w].done : HasReservation(m)'
           Covered == loc'[w].errs = <<>> =>
                        /\ pc'[w] \in {"reresolve", "mac"} =>
                              snap'[w].macs \subseteq loc'[w].done \cup loc'[w].todo
                        /\ pc'[w] \in WithMac =>
                              snap'[w].macs \subseteq loc'[w].done \cup loc'[w].todo \cup {loc'[w].mac}
<1> SUFFICES Kept /\ Covered
    OBVIOUS
<1>1. NcOf[w] \in NC /\ loc[w].done \subseteq MayList(NcOf[w])
    BY DEF Progress
<1>2. ASSUME ~Gone(NcOf[w])', NEW m \in loc[w].done PROVE HasReservation(m)'
    BY <1>1, <1>2, AliveStep, ReservationKept DEF Progress
<1>3. ASSUME loc'[w].done = {} \/ loc'[w].done = loc[w].done PROVE Kept
    BY <1>1, <1>2, <1>3
<1>4. ASSUME pc'[w] \notin {"reresolve", "mac"} \cup WithMac PROVE Covered
    BY <1>4
<1>5. NoLocals.done = {} /\ pc \in [Worker -> Label] /\ loc \in [Worker -> Locals]
    BY DEF NoLocals, Types, SubnetTypes, HostTypes
<1>6. CASE pc'[w] = pc[w] /\ loc'[w] = loc[w] /\ snap'[w] = snap[w]
    <2>1. Covered
        BY <1>6 DEF Progress
    <2> QED BY <1>3, <1>6, <2>1
<1>7. CASE pc'[w] = "idle" /\ loc'[w] = NoLocals
    BY <1>3, <1>4, <1>5, <1>7 DEF WithMac
<1>8. CASE StartReconcile(w)
    <2>1. pc'[w] \in {"lock", "unprepared"} /\ loc' = loc
        BY <1>5, <1>8 DEF StartReconcile, Goto
    <2> QED BY <1>3, <1>4, <2>1 DEF WithMac
<1>9. CASE StartDeletion(w)
    <2>1. pc'[w] \in {"cleanup", "unfinalize"}
        BY <1>5, <1>9 DEF StartDeletion, Goto
    <2>2. loc'[w].done = {}
        BY <1>5, <1>9 DEF StartDeletion, Local, NoLocals
    <2> QED BY <1>3, <1>4, <2>1, <2>2 DEF WithMac
<1>10. CASE Unprepared(w) \/ SubnetError(w) \/ Finish(w) \/ RemoveFinalizer(w)
    <2>1. Leave(w)
        BY <1>10 DEF Unprepared, SubnetError, Finish, RemoveFinalizer
    <2>2. pc'[w] = "idle" /\ loc'[w] = NoLocals
        BY <1>5, <2>1 DEF Leave, Goto, Local
    <2> QED BY <1>7, <2>2, SMTT(40)
<1>11. CASE GetSubnetInfo(w)
    <2>1. pc'[w] \in {"reresolve", "mac"} /\ snap'[w] = snap[w]
        BY <1>5, <1>11 DEF GetSubnetInfo, Goto, kvars
    <2>2. loc'[w].done = {} /\ loc'[w].todo = snap[w].macs
        BY <1>5, <1>11 DEF GetSubnetInfo, Local, NoLocals
    <2> QED BY <1>3, <2>1, <2>2 DEF WithMac
<1>12. CASE Reresolve(w)
    <2>1. pc[w] = "reresolve" /\ pc'[w] = "mac" /\ loc' = loc /\ snap' = snap
        BY <1>5, <1>12 DEF Reresolve, Goto, kvars
    <2>2. Covered
        BY <2>1 DEF Progress, WithMac
    <2> QED BY <1>3, <2>1, <2>2
<1>13. CASE GetOrCreateSubnet(w) /\ UNCHANGED <<hvars, loc, kvars>>
    <2>1. pc'[w] \in GocLabel /\ loc' = loc
        BY <1>13, GocEffect
    <2> QED BY <1>3, <1>4, <2>1 DEF GocLabel, Locked, WithMac
<1>14. CASE /\ UNCHANGED kvars
            /\ \/ GetLeaseIPv4ForMAC(w) \/ GetStoredAddress(w) \/ Exists(w) \/ ExistsAll(w)
               \/ ReservationAdd(w) \/ CleanupList(w) \/ DeleteReservationForMAC(w)
    <2>1. pc'[w] \in {"mac", "delMac", "unfinalize"} \cup WithMac /\ snap' = snap
        BY <1>14, MacStepEffect DEF kvars
    <2>2. CASE pc'[w] \in WithMac
        <3>1. /\ loc'[w].done = loc[w].done /\ loc'[w].errs = loc[w].errs
              /\ \/ /\ pc[w] = "mac" /\ loc'[w].mac \in loc[w].todo
                    /\ loc'[w].todo = loc[w].todo \ {loc'[w].mac}
                 \/ /\ pc[w] \in WithMac /\ loc'[w].mac = loc[w].mac
                    /\ loc'[w].todo = loc[w].todo
            BY <1>14, <2>2, MacStepLocals
        <3>2. loc'[w].errs = <<>> =>
                snap'[w].macs \subseteq loc'[w].done \cup loc'[w].todo \cup {loc'[w].mac}
            BY <2>1, <3>1 DEF Progress
        <3> QED BY <1>3, <2>2, <3>1, <3>2 DEF WithMac
    <2>3. CASE pc'[w] = "mac"
        <3>1. /\ pc[w] \in WithMac /\ loc'[w].todo = loc[w].todo
              /\ \/ /\ Exists(w) \/ ExistsAll(w) \/ ReservationAdd(w)
                    /\ MacDone(w)
                    /\ loc'[w].done = loc[w].done \cup {loc[w].mac}
                    /\ loc'[w].errs = loc[w].errs
                 \/ /\ loc'[w].errs = Append(loc[w].errs, loc[w].mac)
                    /\ loc'[w].done = loc[w].done
            BY <1>14, <2>3, MacStepLocals
        <3>2. loc[w].mac \in MayList(NcOf[w])
            BY <3>1 DEF Listed
        <3>3. CASE /\ Exists(w) \/ ExistsAll(w) \/ ReservationAdd(w)
                   /\ MacDone(w)
                   /\ loc'[w].done = loc[w].done \cup {loc[w].mac}
                   /\ loc'[w].errs = loc[w].errs
            <4>1. \A m : m = loc[w].mac => HasReservation(m)'
                BY <3>3, DoneReserved
            <4>2. Kept
                BY <1>1, <1>2, <3>2, <3>3, <4>1
            <4>3. loc'[w].errs = <<>> => snap'[w].macs \subseteq loc'[w].done \cup loc'[w].todo
                BY <2>1, <3>1, <3>3 DEF Progress
            <4> QED BY <2>3, <4>2, <4>3 DEF WithMac
        <3>4. CASE /\ loc'[w].errs = Append(loc[w].errs, loc[w].mac)
                   /\ loc'[w].done = loc[w].done
            <4>1. loc[w].mac \in Mac /\ loc[w].errs \in Seq(Mac)
                BY <1>5, <3>1 DEF Types, Placed, Locals
            <4>2. loc'[w].errs # <<>>
                BY <3>4, <4>1, AppendNonEmpty
            <4> QED BY <1>3, <3>4, <4>2
        <3> QED BY <3>1, <3>3, <3>4
    <2>4. CASE pc'[w] \in {"delMac", "unfinalize"}
        <3>1. loc'[w].done = loc[w].done
            BY <1>14, <2>4, MacStepLocals
        <3> QED BY <1>3, <1>4, <2>4, <3>1 DEF WithMac
    <2> QED BY <2>1, <2>2, <2>3, <2>4
<1> HIDE DEF Kept, Covered
<1>15. CASE OwnStep(w)
    BY <1>8, <1>9, <1>10, <1>11, <1>12, <1>13, <1>14, <1>15, Zenon DEF OwnStep
<1> QED BY <1>6, <1>7, <1>15, WorkerEffect

\* A gone NC stays gone.
LEMMA GoneStays ==
    ASSUME ~Recreate, Types, Listed, [Next]_vars, NEW n \in NC, Gone(n)
    PROVE  Gone(n)'
    BY AliveStep

LEMMA OnlyCleanupStep ==
    ASSUME ~Recreate, Types, Listed, OnlyCleanup, [Next]_vars
    PROVE  OnlyCleanup'
<1>1. ASSUME NEW w \in Worker, cache'[w].deleting PROVE Gone(NcOf[w])'
    <2>1. NcOf[w] \in NC
        OBVIOUS
    <2>2. CASE cache[w].deleting
        BY <2>1, <2>2, GoneStays DEF OnlyCleanup
    <2>3. CASE api[NcOf[w]].deleting
        BY <2>1, <2>3, GoneStays DEF Gone
    <2> QED BY <1>1, <2>2, <2>3, CacheEffect, AbsentFacts
<1>2. ASSUME NEW w \in Worker, pc'[w] \in {"cleanup", "delMac"} PROVE Gone(NcOf[w])'
    <2>1. NcOf[w] \in NC /\ pc \in [Worker -> Label]
        BY DEF Types, SubnetTypes
    <2>2. CASE pc[w] \in {"cleanup", "delMac"} \/ cache[w].deleting
        BY <2>1, <2>2, GoneStays DEF OnlyCleanup
    <2>3. CASE OwnStep(w) /\ pc[w] = "idle"
        <3>1. StartReconcile(w) \/ StartDeletion(w)
            BY <2>3, OwnIdle
        <3>2. ~StartReconcile(w)
            BY <1>2, <2>1 DEF StartReconcile, Goto
        <3>3. cache[w].deleting
            BY <3>1, <3>2 DEF StartDeletion
        <3> QED BY <2>2, <3>3
    <2>4. CASE OwnStep(w) /\ pc[w] # "idle"
        BY <1>2, <2>2, <2>4, OwnEffect DEF GocLabel, Locked, WithMac
    <2> QED BY <1>2, <2>2, <2>3, <2>4, WorkerEffect
<1>3. ASSUME NEW a \in lostHosts', a.op = "del"
      PROVE  \E n \in Deletable : Gone(n)' /\ a.host.mac \in MayList(n)
    <2>1. CASE a \in lostHosts
        BY <1>3, <2>1, GoneStays DEF OnlyCleanup
    <2>2. ASSUME NEW w \in Worker, ReservationAdd(w), a \notin lostHosts PROVE FALSE
        <3>1. PICK d \in Send : \E g : SendHost(d, "add", g)
            BY <2>2 DEF ReservationAdd
        <3>2. PICK g : SendHost(d, "add", g)
            BY <3>1
        <3>3. a \in [op : {"add"}, srv : d.lost, host : {g}]
            BY <2>2, <3>2 DEF SendHost
        <3> QED BY <1>3, <3>3
    <2>3. ASSUME NEW w \in Worker, DeleteReservationForMAC(w), a \notin lostHosts
          PROVE  Gone(NcOf[w]) /\ a.host.mac \in MayList(NcOf[w]) /\ NcOf[w] \in Deletable
        <3>1. pc[w] = "delMac" /\ NcOf[w] \in NC
            BY <2>3 DEF DeleteReservationForMAC
        <3>2. Gone(NcOf[w]) /\ loc[w].todo \subseteq MayList(NcOf[w])
            BY <3>1 DEF OnlyCleanup, Listed
        <3>3. PICK m \in loc[w].todo, d \in Send :
                SendHost(d, "del", [mac |-> m, sid |-> sid[w], ip |-> None])
            BY <2>3 DEF DeleteReservationForMAC
        <3>4. a.host = [mac |-> m, sid |-> sid[w], ip |-> None]
            BY <2>3, <3>3 DEF SendHost
        <3> QED BY <3>1, <3>2, <3>4, GoneDeletable
    <2>4. ASSUME NEW w \in Worker, DeleteReservationForMAC(w), a \notin lostHosts
          PROVE  Gone(NcOf[w])'
        BY <2>3, <2>4, GoneStays
    <2>5. ASSUME NEW b \in lostHosts, LateHost(b) PROVE a \in lostHosts
        BY <2>5 DEF LateHost
    <2> QED BY <2>1, <2>2, <2>3, <2>4, <2>5, HostEffect
<1> QED BY <1>1, <1>2, <1>3 DEF OnlyCleanup

-----------------------------------------------------------------------------

(***************************************************************************)
(* The condition of Finish is a promise: whatever is lost, late, repeated, *)
(* edited or crashed, an NC with a true Ready condition for its generation *)
(* has all its reservations.  Two things are needed of the users.  An NC   *)
(* that users delete shares no MAC with another: cleanupReservations       *)
(* deletes the other NC's reservations too.  And an NC is not created      *)
(* again: a cleanup of the first, delayed, deletes those of the second.    *)
(***************************************************************************)
THEOREM ReadyReserved ==
    ASSUME ~Recreate, DeletedAlone
    PROVE  Spec => []ReadyMeansReserved
<1>1. Types /\ Types' /\ Listed /\ ReadyInv /\ [Next]_vars => ReadyInv'
    <2> SUFFICES ASSUME Types, Types', Listed, ReadyInv, [Next]_vars PROVE ReadyInv'
        OBVIOUS
    <2>1. Promised'
        BY PromisedStep
    <2>2. Copies'
        BY CopiesStep DEF ReadyInv
    <2>3. Progress'
        BY ProgressStep
    <2>4. OnlyCleanup'
        BY OnlyCleanupStep DEF ReadyInv
    <2> QED BY <2>1, <2>2, <2>3, <2>4 DEF ReadyInv
<1>2. ReadyInv => ReadyMeansReserved
    BY DEF ReadyInv, Promised, ReadyMeansReserved, Ready, Gone, HasReservation
<1> QED BY <1>1, <1>2, ReadyInit, TypesAlways, ListedAlways, PTL DEF Spec

=============================================================================
