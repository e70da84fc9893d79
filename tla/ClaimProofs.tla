----------------------------- MODULE ClaimProofs -----------------------------
(***************************************************************************)
(* Operator: an NC that the operator must not claim stays untouched, with  *)
(* any faults, crashes and edits, and any number of other NCs.             *)
(***************************************************************************)
EXTENDS OperatorProofs

USE DeliveryAssumption, SubnetAssumption, ReconcilerAssumption, OperatorAssumption

\* NCs that triage or KEA_STRICT_DEFAULTS turns away, as first created.
Foreign(n) ==
    /\ api[n].gen = 1
    /\ api[n].provider = "other" \/ (Strict /\ api[n].provider = "unset")

\* No reconcile of such an NC ever leaves triage, so it has no finalizer and
\* every reservation, made or on its way, is some other NC's.
Unclaimed ==
    /\ \A n \in NC : Foreign(n) => ~api[n].fin
    /\ \A w \in Worker :
        /\ pc[w] # "idle" => ~Foreign(NcOf[w])
        /\ Foreign(NcOf[w]) =>
              /\ ~cache[w].fin
              /\ cache[w].exists => cache[w].provider = api[NcOf[w]].provider
    /\ \A s \in Server : \A h \in hosts[s] : \E v \in NC : h.mac \in MayList(v) /\ ~Foreign(v)
    /\ \A a \in lostHosts :
        a.op = "add" => \E v \in NC : a.host.mac \in MayList(v) /\ ~Foreign(v)

\* An NC that is not foreign never becomes so: edits count up the generation.
LEMMA ForeignStep ==
    ASSUME ~Recreate, Types, Listed, [Next]_vars, NEW n \in NC, Foreign(n)'
    PROVE  /\ Foreign(n) /\ api'[n].provider = api[n].provider
           /\ \/ api'[n].fin = api[n].fin
              \/ ~api'[n].fin
              \/ \E w \in Worker : NcOf[w] = n /\ EnsureFinalizer(w)
<1>1. api'[n].gen = 1 /\ api[n].gen \in Nat
    BY ObjectFacts DEF Foreign, Types, KubeTypes
<1>2. api'[n] # Absent
    BY <1>1, AbsentFacts
<1>3. ASSUME api[n].exists, api'[n].gen = api[n].gen + 1 PROVE FALSE
    BY <1>1, <1>3 DEF Listed
<1>4. ASSUME api'[n].gen = api[n].gen, api'[n].provider = api[n].provider PROVE Foreign(n)
    BY <1>4 DEF Foreign
<1>5. CASE StatusOnly(n)
    BY <1>4, <1>5 DEF StatusOnly, SameButStatus
<1>6. ASSUME SameButFin(api'[n], api[n])
      PROVE  Foreign(n) /\ api'[n].provider = api[n].provider
    BY <1>4, <1>6 DEF SameButFin
<1> QED BY <1>2, <1>3, <1>4, <1>5, <1>6, ApiFields, Zenon

\* A reconcile goes past triage only on a copy that has the finalizer.
LEMMA PastTriage ==
    ASSUME Types, NEW w \in Worker, OwnStep(w), pc[w] = "idle"
    PROVE  cache[w].fin
<1>1. StartReconcile(w) \/ StartDeletion(w)
    BY OwnIdle
<1>2. cache[w].deleting => cache[w].fin
    BY ObjectFacts DEF Types, KubeTypes
<1> QED BY <1>1, <1>2 DEF StartReconcile, StartDeletion

LEMMA UnclaimedInit == Init => Unclaimed
<1> SUFFICES ASSUME Init PROVE Unclaimed
    OBVIOUS
<1>1. \A n \in NC : ~api[n].fin
    BY Created1Type DEF Init
<1>2. \A w \in Worker : cache[w] = Absent /\ pc[w] = "idle"
    BY DEF Init
<1>3. lostHosts = {} /\ \A s \in Server : hosts[s] = {}
    BY DEF Init
<1> QED BY <1>1, <1>2, <1>3, AbsentFacts DEF Unclaimed

LEMMA UnclaimedStep ==
    ASSUME ~Recreate, Types, Listed, Unclaimed, [Next]_vars
    PROVE  Unclaimed'
<1>1. ASSUME NEW n \in NC, Foreign(n)'
      PROVE  Foreign(n) /\ api'[n].provider = api[n].provider /\ ~api[n].fin
    BY <1>1, ForeignStep DEF Unclaimed
<1>2. ASSUME NEW n \in NC, Foreign(n)' PROVE ~api'[n].fin
    <2>1. ASSUME NEW w \in Worker, NcOf[w] = n, EnsureFinalizer(w) PROVE FALSE
        <3>1. PICK x \in Claimed(w) : ~Refused(w, x)
            BY <2>1 DEF EnsureFinalizer
        <3>2. cache[w].exists /\ cache[w].provider # "other"
            BY <3>1 DEF Claimed, Ours
        <3>3. cache[w].provider = api[n].provider
            BY <1>1, <1>2, <2>1, <3>2 DEF Unclaimed
        <3>4. Strict /\ cache[w].provider = "unset"
            BY <1>1, <1>2, <3>2, <3>3 DEF Foreign
        <3> QED BY <3>1, <3>4 DEF Refused
    <2> QED BY <1>1, <1>2, <2>1, ForeignStep
<1>3. ASSUME NEW w \in Worker, pc'[w] # "idle" PROVE ~Foreign(NcOf[w])'
    <2> SUFFICES ASSUME Foreign(NcOf[w])' PROVE FALSE
        OBVIOUS
    <2>1. Foreign(NcOf[w])
        BY <1>1
    <2>2. pc[w] = "idle" /\ ~cache[w].fin
        BY <2>1 DEF Unclaimed
    <2> QED BY <1>3, <2>2, WorkerEffect, PastTriage
<1>4. ASSUME NEW w \in Worker, Foreign(NcOf[w])'
      PROVE  /\ ~cache'[w].fin
             /\ cache'[w].exists => cache'[w].provider = api'[NcOf[w]].provider
    <2>1. /\ Foreign(NcOf[w]) /\ api'[NcOf[w]].provider = api[NcOf[w]].provider
          /\ ~api[NcOf[w]].fin
        BY <1>1, <1>4
    <2> QED BY <2>1, CacheEffect, AbsentFacts DEF Unclaimed
<1>5. ASSUME NEW m, \E v \in NC : m \in MayList(v) /\ ~Foreign(v)
      PROVE  \E v \in NC : m \in MayList(v) /\ ~Foreign(v)'
    BY <1>1, <1>5
<1>6. ASSUME NEW w \in Worker, ReservationAdd(w)
      PROVE  \E v \in NC : loc[w].mac \in MayList(v) /\ ~Foreign(v)
    <2>1. pc[w] = "resAdd"
        BY <1>6 DEF ReservationAdd
    <2>2. loc[w].mac \in MayList(NcOf[w])
        BY <2>1 DEF Listed, WithMac
    <2>3. ~Foreign(NcOf[w])
        BY <2>1 DEF Unclaimed
    <2> QED BY <2>2, <2>3
<1>7. /\ \A s \in Server : \A h \in hosts'[s] : \E v \in NC : h.mac \in MayList(v) /\ ~Foreign(v)
      /\ \A a \in lostHosts' :
            a.op = "add" => \E v \in NC : a.host.mac \in MayList(v) /\ ~Foreign(v)
    <2> USE DEF Types
    <2>1. CASE UNCHANGED <<hosts, lostHosts>>
        BY <2>1 DEF Unclaimed
    <2>2. ASSUME NEW w \in Worker, ReservationAdd(w)
          PROVE  <1>7!1 /\ <1>7!2
        <3> DEFINE h == [mac |-> loc[w].mac, sid |-> loc[w].hsid, ip |-> loc[w].ip]
        <3>1. h \in Host
            BY <2>2 DEF ReservationAdd, HostTypes, Locals, Host, Placed, WithMac
        <3>2. PICK d \in Send : SendHost(d, "add", h)
            BY <2>2 DEF ReservationAdd
        <3>3. h.mac = loc[w].mac
            OBVIOUS
        <3> HIDE DEF h
        <3>4. ASSUME NEW s \in Server PROVE hosts'[s] \subseteq hosts[s] \cup {h}
            BY <3>1, <3>2, ExecuteType DEF SendHost
        <3>5. lostHosts' \subseteq lostHosts \cup [op : {"add"}, srv : d.lost, host : {h}]
            BY <3>2 DEF SendHost
        <3>6. \A a \in lostHosts' : a \in lostHosts \/ a.host = h
            BY <3>5
        <3> QED BY <1>6, <2>2, <3>3, <3>4, <3>6 DEF Unclaimed
    <2>3. ASSUME NEW w \in Worker, DeleteReservationForMAC(w)
          PROVE  <1>7!1 /\ <1>7!2
        <3>1. CASE UNCHANGED <<hosts, lostHosts>>
            BY <2>1, <3>1
        <3>2. ASSUME NEW m \in loc[w].todo, NEW d \in Send,
                     SendHost(d, "del", [mac |-> m, sid |-> sid[w], ip |-> None])
              PROVE  <1>7!1 /\ <1>7!2
            <4> DEFINE h == [mac |-> m, sid |-> sid[w], ip |-> None]
            <4>1. h \in Host
                BY DEF HostTypes, SubnetTypes, Locals, Host
            <4> HIDE DEF h
            <4>2. SendHost(d, "del", h)
                BY <3>2 DEF h
            <4>3. ASSUME NEW s \in Server PROVE hosts'[s] \subseteq hosts[s]
                BY <4>1, <4>2, ExecuteType DEF SendHost
            <4>4. \A a \in lostHosts' : a \in lostHosts \/ a.op = "del"
                BY <4>2 DEF SendHost
            <4> QED BY <4>3, <4>4 DEF Unclaimed
        <3> QED BY <2>3, <3>1, <3>2 DEF DeleteReservationForMAC
    <2>4. ASSUME NEW a \in lostHosts, LateHost(a)
          PROVE  <1>7!1 /\ <1>7!2
        <3>1. a.srv \in Server /\ a.host \in Host /\ a.op \in {"add", "del"}
            BY DEF HostTypes, HostCmd
        <3>2. /\ \A s \in Server \ {a.srv} : hosts'[s] = hosts[s]
              /\ hosts'[a.srv] = Execute(a.op, a.srv, a.host)
              /\ lostHosts' \subseteq lostHosts
            BY <2>4, <3>1 DEF LateHost, HostTypes
        <3>3. hosts'[a.srv] \subseteq hosts[a.srv] \cup (IF a.op = "add" THEN {a.host} ELSE {})
            BY <3>1, <3>2, ExecuteType
        <3> QED BY <3>1, <3>2, <3>3, SMTT(40) DEF Unclaimed
    <2> QED BY <2>1, <2>2, <2>3, <2>4, HostEffect
<1>8. \A s \in Server : \A h \in hosts'[s] : \E v \in NC : h.mac \in MayList(v) /\ ~Foreign(v)'
    BY <1>5, <1>7
<1>9. \A a \in lostHosts' :
          a.op = "add" => \E v \in NC : a.host.mac \in MayList(v) /\ ~Foreign(v)'
    BY <1>5, <1>7
<1> QED BY <1>2, <1>3, <1>4, <1>8, <1>9 DEF Unclaimed

-----------------------------------------------------------------------------
\* An NC that lists a MAC of another NC lists it for ever.
SharedMacsStay ==
    \A n, v \in NC : n # v =>
        \A m \in MayList(n) \cap MayList(v) : v \notin Deletable /\ \A t \in Specs[v] : m \in t.macs

\* Triage of Reconcile: as long as an NC has its first generation, names another
\* provider or, under KEA_STRICT_DEFAULTS, none, it has no finalizer and no
\* reservation of its own, for any number of NCs, workers, processes and
\* servers, whatever is lost or late and whoever crashes.  Users do not create
\* an NC again under an old name, whose reservations a lost clean-up may have
\* left behind; and MACs that several NCs list stay listed, since the property
\* takes the MACs that the others list now for those they listed before.
THEOREM OnlyClaimed ==
    ASSUME ~Recreate, SharedMacsStay
    PROVE  Spec => []OnlyClaimedNCs
<1>1. Types /\ Listed /\ Unclaimed => OnlyClaimedNCs
    <2> SUFFICES ASSUME Types, Listed, Unclaimed, NEW n \in NC, Foreign(n)
                 PROVE  /\ ~api[n].fin
                        /\ \A s \in Server : \A h \in hosts[s] : h.mac \in api[n].macs =>
                              \E v \in NC \ {n} : h.mac \in api[v].macs
        BY DEF OnlyClaimedNCs, Foreign
    <2>1. ~api[n].fin
        BY DEF Unclaimed
    <2>2. ASSUME NEW s \in Server, NEW h \in hosts[s], h.mac \in api[n].macs
          PROVE  \E v \in NC \ {n} : h.mac \in api[v].macs
        <3>1. PICK v \in NC : h.mac \in MayList(v) /\ ~Foreign(v)
            BY DEF Unclaimed
        <3>2. h.mac \in MayList(n)
            BY <2>2 DEF Listed, MayList
        <3>3. v # n /\ v \notin Deletable /\ \A t \in Specs[v] : h.mac \in t.macs
            BY <3>1, <3>2 DEF SharedMacsStay
        <3>4. h.mac \in api[v].macs
            BY <3>3 DEF Listed
        <3> QED BY <3>3, <3>4
    <2> QED BY <2>1, <2>2
<1>2. Types /\ Listed /\ Unclaimed /\ [Next]_vars => Unclaimed'
    BY UnclaimedStep
<1> QED BY <1>1, <1>2, UnclaimedInit, TypesAlways, ListedAlways, PTL DEF Spec

=============================================================================
