--------------------------- MODULE OperatorProofs ---------------------------
(***************************************************************************)
(* Type correctness of Operator, for any number of processes, workers,     *)
(* NetworkConfigurations, NetworkNamespaces, MACs, servers, faults, edits  *)
(* and crashes, and the lemmas on the model's operators that the proofs of *)
(* its safety properties share.                                            *)
(***************************************************************************)
EXTENDS Operator, TLAPS

USE DeliveryAssumption, SubnetAssumption, ReconcilerAssumption, OperatorAssumption

-----------------------------------------------------------------------------
(* The inductive type invariant. *)

\* The messages that Reconcile writes: words of its own, or MACs.
Message == {"strict", "reconciling", "prefix", "no MACs", "subnet", "configured",
            "all have an IP", "some have an IP", "no IPs yet"}
Text == Seq(Mac \cup Message)

\* Conditions, statuses and objects after at most e edits.
CondType(e) == [ready : {"none", "True", "False"}, gen : 0..(e + 1), msg : Text]
StatusType(e) ==
    [cond : CondType(e), phase : {"", "Reconciling", "Ready", "Error"}, msg : Text,
     ifs : SUBSET [mac : Mac, reserved : BOOLEAN, ip : BOOLEAN]]
Record(e) ==
    [exists : BOOLEAN, deleting : BOOLEAN, fin : BOOLEAN, gen : 0..(e + 1),
     provider : Provider, macs : SUBSET Mac, status : StatusType(e)]
ObjectType(e) ==
    {o \in Record(e) : (o.deleting => o.fin) /\ (o.fin => o.exists)}

SubnetTypes ==
    /\ subnets \in [Server -> [Cidr -> Nat]]
    /\ lostAdds \subseteq AddCmd
    /\ lock \in [Proc -> [Cidr -> Worker \cup {None}]]
    /\ pc \in [Worker -> Label]
    /\ arg \in [Worker -> Cidr \cup {None, BadPrefix}]
    /\ sid \in [Worker -> Nat]
    /\ faults \in 0..MaxFaults

HostTypes ==
    /\ hosts \in [Server -> SUBSET Host]
    /\ lostHosts \subseteq HostCmd
    /\ lease \in [Mac -> Cidr \cup {None}]
    /\ loc \in [Worker -> Locals]

KubeTypes ==
    /\ api \in [NC -> ObjectType(edits)]
    /\ nn \in [NN -> Namespace]
    /\ cache \in [Worker -> ObjectType(edits)]
    /\ snap \in [Worker -> ObjectType(edits)]
    /\ queued \in [Worker -> BOOLEAN] /\ timer \in [Worker -> BOOLEAN]
    /\ edits \in 0..MaxEdits /\ crashes \in 0..MaxCrashes

\* Where a reconcile talks to Kea it has a usable prefix, and where it handles
\* a MAC, it has one in hand.
WithMac == {"stored", "exists", "existsAll", "resAdd"}
WithPrefix == GocLabel \cup WithMac \cup {"reresolve", "mac", "cleanup", "delMac"}

Placed ==
    \A w \in Worker :
        /\ pc[w] \in WithPrefix => arg[w] \in Cidr
        /\ pc[w] \in WithMac => loc[w].mac \in Mac

Types == SubnetTypes /\ HostTypes /\ KubeTypes /\ Placed

-----------------------------------------------------------------------------
(* Types of the operators. *)

\* What keaClient.Send can hand back: a server's answer or none, and lost
\* commands only at known servers.
LEMMA SendType ==
    \A d \in Send : d.ans \in Server \cup {None} /\ d.lost \subseteq Server
    BY DEF Send, OneSend, RacingSend, Clean, Server

LEMMA ServerFact == None \notin Server /\ Primary \in Server
    BY DEF Server

\* Every Kea delivery keeps the fault count within its bound.
LEMMA DeliverType ==
    ASSUME NEW d \in Send, faults \in 0..MaxFaults, Deliver(d)
    PROVE  faults' \in 0..MaxFaults
    BY DEF Deliver, Cost

LEMMA TextFacts == Seq(Mac) \subseteq Text /\ <<>> \in Text
    BY DEF Text

LEMMA MessageType == \A s \in Message : <<s>> \in Text
    BY DEF Text

\* No object, and its status, are objects and statuses at any time.
LEMMA AbsentType ==
    ASSUME NEW e \in Nat
    PROVE  Absent \in ObjectType(e) /\ NoStatus \in StatusType(e)
<1>1. NoStatus.cond \in CondType(e)
    BY TextFacts DEF NoStatus, CondType
<1>2. NoStatus \in StatusType(e)
    BY <1>1, TextFacts DEF NoStatus, StatusType
<1>3. Absent \in Record(e)
    BY <1>2 DEF Absent, Record, Provider
<1>4. Absent.deleting = FALSE /\ Absent.fin = FALSE
    BY DEF Absent
<1> QED BY <1>2, <1>3, <1>4 DEF ObjectType

LEMMA AbsentFacts ==
    /\ ~Absent.exists
    /\ ~Absent.deleting
    /\ ~Absent.fin
    /\ Absent.gen = 0 /\ Absent.macs = {} /\ Absent.status = NoStatus
<1>1. Absent.exists = FALSE /\ Absent.deleting = FALSE /\ Absent.fin = FALSE
    BY DEF Absent
<1>2. Absent.gen = 0 /\ Absent.macs = {} /\ Absent.status = NoStatus
    BY DEF Absent
<1> QED BY <1>1, <1>2

LEMMA ObjectGrows ==
    ASSUME NEW e \in Nat
    PROVE  /\ ObjectType(e) \subseteq ObjectType(e + 1)
           /\ StatusType(e) \subseteq StatusType(e + 1)
<1>1. CondType(e) \subseteq CondType(e + 1)
    BY DEF CondType
<1>2. StatusType(e) \subseteq StatusType(e + 1)
    BY <1>1 DEF StatusType
<1>3. Record(e) \subseteq Record(e + 1)
    BY <1>2 DEF Record
<1> QED BY <1>2, <1>3 DEF ObjectType

LEMMA ObjectFacts ==
    ASSUME NEW e \in Nat, NEW o \in ObjectType(e)
    PROVE  /\ o.exists \in BOOLEAN /\ o.deleting \in BOOLEAN /\ o.fin \in BOOLEAN
           /\ o.gen \in 0..(e + 1) /\ o.provider \in Provider /\ o.macs \in SUBSET Mac
           /\ o.status \in StatusType(e)
           /\ o.status.cond \in CondType(e) /\ o.status.cond.gen \in 0..(e + 1)
           /\ o.status.msg \in Text
           /\ o.status.ifs \in SUBSET [mac : Mac, reserved : BOOLEAN, ip : BOOLEAN]
           /\ o.deleting => o.fin
           /\ o.fin => o.exists
    BY DEF ObjectType, Record, StatusType, CondType

LEMMA IsObjectFact ==
    ASSUME NEW e \in 0..MaxEdits, NEW o \in ObjectType(e)
    PROVE  IsObject(o)
<1>1. DOMAIN o = DOMAIN Absent
    BY DEF ObjectType, Record, Absent
<1>2. DOMAIN o.status = DOMAIN NoStatus
    BY DEF ObjectType, Record, StatusType, NoStatus
<1> QED BY <1>1, <1>2, ObjectFacts DEF IsObject

\* Replacing the status of an object leaves the rest of it alone.
LEMMA WithStatus ==
    ASSUME NEW e \in Nat, NEW o \in ObjectType(e), NEW st \in StatusType(e)
    PROVE  LET p == [o EXCEPT !.status = st] IN
           /\ p \in ObjectType(e) /\ p.status = st
           /\ p.exists = o.exists /\ p.deleting = o.deleting /\ p.fin = o.fin
           /\ p.gen = o.gen /\ p.provider = o.provider /\ p.macs = o.macs
    BY DEF ObjectType, Record

-----------------------------------------------------------------------------
(* Types of the steps' parts. *)

LEMMA LabelFacts ==
    /\ GocLabel = {"get", "next", "add", "reget", "lock", "ok", "failed"}
    /\ GocLabel \subseteq Label /\ WithPrefix \subseteq Label
    /\ "idle" \notin WithPrefix /\ "unfinalize" \notin WithPrefix
    /\ "unprepared" \notin WithPrefix
    BY DEF GocLabel, Locked, Label, WithPrefix, WithMac

\* A step of w leaves the others where they are, and has what its next label
\* requires.
LEMMA PlacedStep ==
    ASSUME Placed, NEW w \in Worker,
           \A v \in Worker \ {w} : pc'[v] = pc[v] /\ arg'[v] = arg[v] /\ loc'[v] = loc[v],
           pc'[w] \in WithPrefix => arg'[w] \in Cidr,
           pc'[w] \in WithMac => loc'[w].mac \in Mac
    PROVE  Placed'
    BY DEF Placed

\* getNextSubnetID computes a positive id.
LEMMA NextIDType ==
    ASSUME SubnetTypes, NEW d \in Send, NEW id \in getNextSubnetID(d)
    PROVE  id \in Nat \ {0}
<1>1. CASE ListFails(d)
    BY <1>1 DEF getNextSubnetID
<1>2. CASE ~ListFails(d)
    <2>1. d.ans \in Server
        BY <1>2, SendType DEF ListFails
    <2>2. subnets[d.ans] \in [Cidr -> Nat]
        BY <2>1 DEF SubnetTypes
    <2> QED BY <1>2, <2>2 DEF getNextSubnetID, NextIDs
<1> QED BY <1>1, <1>2

\* GetSubnetID answers an id, "no match" or an error; a positive answer is the
\* prefix's id on the server that answered.
LEMMA GetSubnetIDType ==
    ASSUME SubnetTypes, NEW d \in Send, NEW c \in Cidr
    PROVE  /\ GetSubnetID(d, c) \in Nat \cup {Err}
           /\ GetSubnetID(d, c) > 0 =>
                  d.ans \in Server /\ subnets[d.ans][c] = GetSubnetID(d, c)
<1>1. CASE ListFails(d)
    BY <1>1 DEF GetSubnetID, Err
<1>2. CASE ~ListFails(d)
    <2>1. d.ans \in Server
        BY <1>2, SendType DEF ListFails
    <2> QED BY <1>2, <2>1 DEF GetSubnetID, SubnetTypes
<1> QED BY <1>1, <1>2

\* The return of GetOrCreateSubnet keeps the types.
LEMMA ReturnType ==
    ASSUME SubnetTypes, NEW w \in Worker, NEW id \in Nat \cup {Err}, Return(w, id)
    PROVE  /\ pc' \in [Worker -> Label]
           /\ sid' \in [Worker -> Nat]
           /\ lock' \in [Proc -> [Cidr -> Worker \cup {None}]]
<1>1. pc' \in [Worker -> Label]
    BY DEF SubnetTypes, Return, Goto, Label, GocLabel, Locked
<1>2. sid' \in [Worker -> Nat]
    BY DEF SubnetTypes, Return, Err
<1>3. lock' \in [Proc -> [Cidr -> Worker \cup {None}]]
    BY DEF SubnetTypes, Return
<1> QED BY <1>1, <1>2, <1>3

LEMMA AddSubnetType ==
    ASSUME NEW f \in [Cidr -> Nat], NEW c \in Cidr, NEW id \in Nat
    PROVE  AddSubnet(f, c, id) \in [Cidr -> Nat]
    BY DEF AddSubnet

\* A status patch touches the status of the worker's own NC only, and its
\* condition only by the one it carries.
LEMMA PatchEffect ==
    ASSUME KubeTypes, faults \in 0..MaxFaults, NEW w \in Worker,
           NEW base \in ObjectType(edits), NEW new \in StatusType(edits),
           NEW sent \in Reach, PatchStatus(w, base, new, sent)
    PROVE  /\ faults' \in 0..MaxFaults
           /\ api' \in [NC -> ObjectType(edits)]
           /\ \A n \in NC :
                  /\ api'[n].exists = api[n].exists /\ api'[n].deleting = api[n].deleting
                  /\ api'[n].fin = api[n].fin /\ api'[n].gen = api[n].gen
                  /\ api'[n].provider = api[n].provider /\ api'[n].macs = api[n].macs
                  /\ \/ api'[n].status.cond = api[n].status.cond
                     \/ /\ n = NcOf[w] /\ api'[n].status.cond = new.cond
                        /\ new.cond # base.status.cond
<1> DEFINE k == NcOf[w]
           st == Merged(api[k].status, base.status, new, sent)
<1>1. k \in NC /\ edits \in Nat
    BY DEF KubeTypes
<1>2. /\ faults' \in 0..MaxFaults
      /\ api' = IF api[k].exists THEN [api EXCEPT ![k].status = st] ELSE api
    BY DEF PatchStatus, Reach
<1>3. api[k] \in ObjectType(edits) /\ api[k].status \in StatusType(edits)
    BY <1>1, ObjectFacts DEF KubeTypes
<1>4. base.status \in StatusType(edits)
    BY <1>1, ObjectFacts
<1>5. st \in StatusType(edits)
    <2>1. st.cond \in CondType(edits)
        BY <1>3, <1>4 DEF StatusType, Merged, Merge
    <2>2. st.phase \in {"", "Reconciling", "Ready", "Error"}
        BY <1>3, <1>4 DEF StatusType, Merged, Merge
    <2>3. st.msg \in Text
        BY <1>3, <1>4 DEF StatusType, Merged, Merge
    <2>4. st.ifs \in SUBSET [mac : Mac, reserved : BOOLEAN, ip : BOOLEAN]
        BY <1>3, <1>4 DEF StatusType, Merged, Merge
    <2> QED BY <2>1, <2>2, <2>3, <2>4 DEF StatusType, Merged
<1>6. st.cond = api[k].status.cond \/ (st.cond = new.cond /\ new.cond # base.status.cond)
    BY DEF Merged, Merge
<1> HIDE DEF st, k
<1>7. CASE ~api[k].exists
    BY <1>2, <1>7 DEF KubeTypes
<1>8. CASE api[k].exists
    <2>1. api' = [api EXCEPT ![k] = [@ EXCEPT !.status = st]]
        BY <1>2, <1>8
    <2>2. api'[k] = [api[k] EXCEPT !.status = st] /\ \A n \in NC \ {k} : api'[n] = api[n]
        BY <1>1, <2>1 DEF KubeTypes
    <2>3. api' \in [NC -> ObjectType(edits)]
        BY <2>1, <1>1, <1>3, <1>5, WithStatus DEF KubeTypes
    <2>4. /\ api'[k].status = st
          /\ api'[k].exists = api[k].exists /\ api'[k].deleting = api[k].deleting
          /\ api'[k].fin = api[k].fin /\ api'[k].gen = api[k].gen
          /\ api'[k].provider = api[k].provider /\ api'[k].macs = api[k].macs
        BY <2>2, <1>1, <1>3, <1>5, WithStatus
    <2>5. \A n \in NC : n = k \/ api'[n] = api[n]
        BY <2>2
    <2> QED BY <1>2, <1>6, <2>3, <2>4, <2>5 DEF k
<1> QED BY <1>7, <1>8

\* What the reconcile keeps of the API server's answer differs from its copy in
\* the status only.
LEMMA AfterPatchEffect ==
    ASSUME KubeTypes, NEW w \in Worker, NEW o \in ObjectType(edits),
           NEW new \in StatusType(edits), NEW sent
    PROVE  LET p == AfterPatch(w, o, new, sent) IN
           /\ p \in ObjectType(edits)
           /\ p.exists = o.exists /\ p.deleting = o.deleting /\ p.fin = o.fin
           /\ p.gen = o.gen /\ p.provider = o.provider /\ p.macs = o.macs
<1> DEFINE k == NcOf[w]
           st == Merged(api[k].status, o.status, new, sent)
           ct == [o.status EXCEPT !.cond = IF "cond" \in sent THEN new.cond ELSE @]
<1>1. k \in NC /\ edits \in Nat
    BY DEF KubeTypes
<1>2. api[k].status \in StatusType(edits) /\ o.status \in StatusType(edits)
    BY <1>1, ObjectFacts DEF KubeTypes
<1>3. st \in StatusType(edits)
    <2>1. st.cond \in CondType(edits)
        BY <1>2 DEF StatusType, Merged, Merge
    <2>2. st.phase \in {"", "Reconciling", "Ready", "Error"}
        BY <1>2 DEF StatusType, Merged, Merge
    <2>3. st.msg \in Text
        BY <1>2 DEF StatusType, Merged, Merge
    <2>4. st.ifs \in SUBSET [mac : Mac, reserved : BOOLEAN, ip : BOOLEAN]
        BY <1>2 DEF StatusType, Merged, Merge
    <2> QED BY <2>1, <2>2, <2>3, <2>4 DEF StatusType, Merged
<1>4. ct \in StatusType(edits)
    BY <1>2 DEF StatusType
<1>5. \/ AfterPatch(w, o, new, sent) = o
      \/ AfterPatch(w, o, new, sent) = [o EXCEPT !.status = st]
      \/ AfterPatch(w, o, new, sent) = [o EXCEPT !.status = ct]
    BY DEF AfterPatch
<1> HIDE DEF st, ct
<1>6. CASE AfterPatch(w, o, new, sent) = o
    BY <1>6
<1>7. CASE AfterPatch(w, o, new, sent) = [o EXCEPT !.status = st]
    BY <1>1, <1>3, <1>7, WithStatus
<1>8. CASE AfterPatch(w, o, new, sent) = [o EXCEPT !.status = ct]
    BY <1>1, <1>4, <1>8, WithStatus
<1> QED BY <1>5, <1>6, <1>7, <1>8

\* The statuses that a reconcile writes.
LEMMA FailureType ==
    ASSUME NEW e \in Nat, NEW o \in ObjectType(e), NEW why \in Text,
           NEW ifs \in SUBSET [mac : Mac, reserved : BOOLEAN, ip : BOOLEAN]
    PROVE  Failure(o, why, ifs) \in StatusType(e)
<1>1. Condition("False", o, why) \in CondType(e)
    BY ObjectFacts DEF Condition, CondType
<1> QED BY <1>1 DEF Failure, StatusType

LEMMA NewStatusType ==
    ASSUME NEW e \in Nat, NEW o \in ObjectType(e), NEW why \in Text,
           NEW r \in {"True", "False"}, NEW ph \in {"Reconciling", "Ready"}, NEW msg \in Text,
           NEW ifs \in SUBSET [mac : Mac, reserved : BOOLEAN, ip : BOOLEAN]
    PROVE  [cond |-> Condition(r, o, why), phase |-> ph, msg |-> msg, ifs |-> ifs] \in StatusType(e)
<1>1. Condition(r, o, why) \in CondType(e)
    BY ObjectFacts DEF Condition, CondType
<1> QED BY <1>1 DEF StatusType

\* The locals at the start of a reconcile, and of its loop over MACs.
LEMMA LocalsType ==
    /\ NoLocals \in Locals
    /\ \A t \in SUBSET Mac : [NoLocals EXCEPT !.todo = t] \in Locals
<1>1. NoLocals \in Locals
    BY DEF NoLocals, Locals
<1> QED BY <1>1 DEF Locals

\* A step that ends a reconcile.
LEMMA LeaveTyped ==
    ASSUME Types, NEW w \in Worker, Leave(w), faults' \in 0..MaxFaults,
           UNCHANGED <<subnets, lostAdds, lock, hvars, edits>>
    PROVE  SubnetTypes' /\ HostTypes' /\ Placed' /\ snap' \in [Worker -> ObjectType(edits)']
<1>1. SubnetTypes'
    BY DEF Leave, Goto, Types, SubnetTypes, Label
<1>3. HostTypes'
    BY LocalsType DEF Leave, Local, Types, HostTypes, hvars
<1>4. /\ \A v \in Worker \ {w} : pc'[v] = pc[v] /\ arg'[v] = arg[v] /\ loc'[v] = loc[v]
      /\ pc'[w] = "idle"
    BY DEF Leave, Goto, Local, Types, SubnetTypes, HostTypes
<1>5. Placed'
    <2>1. pc'[w] \notin WithPrefix /\ pc'[w] \notin WithMac
        BY <1>4, LabelFacts DEF WithPrefix
    <2> QED BY <1>4, <2>1, PlacedStep DEF Types
<1>6. snap' \in [Worker -> ObjectType(edits)']
    BY AbsentType DEF Leave, Types, KubeTypes
<1> QED BY <1>1, <1>3, <1>5, <1>6

-----------------------------------------------------------------------------
(* Types of the steps. *)

LEMMA GocTyped ==
    ASSUME Types, NEW w \in Worker, GetOrCreateSubnet(w),
           UNCHANGED <<hvars, loc, kvars, edits, crashes>>
    PROVE  Types'
<1> USE DEF Types
<1>1. HostTypes' /\ KubeTypes'
    BY DEF HostTypes, KubeTypes, hvars, kvars
<1>2. pc[w] \in {"lock", "get", "next", "add", "reget"}
    BY DEF GetOrCreateSubnet, Acquire, Get, PickID, Add, Reget
<1>3. arg[w] \in Cidr /\ sid[w] \in Nat
    BY <1>2 DEF Placed, WithPrefix, GocLabel, Locked, SubnetTypes
<1>4. SubnetTypes' /\ arg' = arg /\ \E l \in GocLabel : Goto(w, l)
    <2> USE DEF GocLabel, Locked
    <2>1. CASE Acquire(w)
        BY <2>1, <1>3 DEF Acquire, Goto, SubnetTypes, Label
    <2>2. CASE Get(w)
        <3>1. PICK d \in Send :
                /\ Deliver(d)
                /\ \/ Goto(w, "next") /\ UNCHANGED <<lock, sid>>
                   \/ Return(w, GetSubnetID(d, arg[w]))
            BY <2>2 DEF Get
        <3>2. GetSubnetID(d, arg[w]) \in Nat \cup {Err} /\ faults' \in 0..MaxFaults
            BY <1>3, <3>1, GetSubnetIDType, DeliverType DEF SubnetTypes
        <3>3. CASE Goto(w, "next") /\ UNCHANGED <<lock, sid>>
            BY <2>2, <3>2, <3>3 DEF Get, Goto, SubnetTypes, Label
        <3>4. CASE Return(w, GetSubnetID(d, arg[w]))
            <4>1. SubnetTypes'
                BY <2>2, <3>2, <3>4, ReturnType DEF Get, SubnetTypes
            <4> QED BY <2>2, <3>4, <4>1 DEF Get, Return
        <3> QED BY <3>1, <3>3, <3>4
    <2>3. CASE PickID(w)
        <3>1. PICK d \in Send : \E id \in getNextSubnetID(d) :
                Deliver(d) /\ sid' = [sid EXCEPT ![w] = id]
            BY <2>3 DEF PickID
        <3>2. PICK id \in getNextSubnetID(d) : Deliver(d) /\ sid' = [sid EXCEPT ![w] = id]
            BY <3>1
        <3>3. id \in Nat /\ faults' \in 0..MaxFaults
            BY <3>2, NextIDType, DeliverType DEF SubnetTypes
        <3> QED BY <2>3, <3>2, <3>3 DEF PickID, Goto, SubnetTypes, Label
    <2>4. CASE Add(w)
        <3>1. PICK d \in Send :
                /\ Deliver(d)
                /\ subnets' = [s \in Server |->
                       IF s = d.ans THEN AddSubnet(subnets[s], arg[w], sid[w]) ELSE subnets[s]]
                /\ lostAdds' = lostAdds \cup [srv : d.lost, cidr : {arg[w]}, id : {sid[w]}]
                /\ \/ Return(w, sid[w])
                   \/ Goto(w, "reget") /\ UNCHANGED <<lock, sid>>
            BY <2>4 DEF Add
        <3>2. subnets' \in [Server -> [Cidr -> Nat]]
            <4>1. \A s \in Server : AddSubnet(subnets[s], arg[w], sid[w]) \in [Cidr -> Nat]
                BY <1>3, AddSubnetType DEF SubnetTypes
            <4> QED BY <3>1, <4>1 DEF SubnetTypes
        <3>3. lostAdds' \subseteq AddCmd /\ faults' \in 0..MaxFaults
            BY <1>3, <3>1, SendType, DeliverType DEF SubnetTypes, AddCmd
        <3>4. CASE Goto(w, "reget") /\ UNCHANGED <<lock, sid>>
            BY <2>4, <3>2, <3>3, <3>4 DEF Add, Goto, SubnetTypes, Label
        <3>5. CASE Return(w, sid[w])
            <4>1. SubnetTypes'
                BY <1>3, <2>4, <3>2, <3>3, <3>5, ReturnType DEF Add, SubnetTypes
            <4> QED BY <2>4, <3>5, <4>1 DEF Add, Return
        <3> QED BY <3>1, <3>4, <3>5
    <2>5. CASE Reget(w)
        <3>1. PICK d \in Send : Deliver(d) /\ Return(w, GetSubnetID(d, arg[w]))
            BY <2>5 DEF Reget
        <3>2. GetSubnetID(d, arg[w]) \in Nat \cup {Err} /\ faults' \in 0..MaxFaults
            BY <1>3, <3>1, GetSubnetIDType, DeliverType DEF SubnetTypes
        <3>3. SubnetTypes'
            BY <2>5, <3>1, <3>2, ReturnType DEF Reget, SubnetTypes
        <3> QED BY <2>5, <3>1, <3>3 DEF Reget, Return
    <2> QED BY <2>1, <2>2, <2>3, <2>4, <2>5 DEF GetOrCreateSubnet
<1>5. Placed'
    <2>1. PICK l \in GocLabel : pc' = [pc EXCEPT ![w] = l]
        BY <1>4 DEF Goto
    <2>2. pc'[w] = l /\ \A v \in Worker \ {w} : pc'[v] = pc[v]
        BY <2>1 DEF SubnetTypes
    <2>3. l \notin WithMac
        BY DEF GocLabel, Locked, WithMac
    <2> QED BY <1>3, <1>4, <2>2, <2>3, PlacedStep
<1> QED BY <1>1, <1>4, <1>5

\* The work queue and the informer: Watch, TimerFires, Resync, and the
\* reconciles that end at once.
LEMMA QueueTyped ==
    ASSUME Types, NEW w \in Worker, UNCHANGED <<edits, crashes>>,
           Watch(w) \/ TimerFires(w) \/ Resync(w) \/ Skip(w)
    PROVE  Types'
<1> USE DEF Types
<1>1. NcOf[w] \in NC
    OBVIOUS
<1>2. UNCHANGED <<svars, hvars, loc, nn, snap, api>>
    BY DEF Watch, TimerFires, Resync, Skip
<1>3. SubnetTypes' /\ HostTypes' /\ Placed'
    BY <1>2 DEF svars, hvars, SubnetTypes, HostTypes, Placed
<1>4. cache' \in [Worker -> ObjectType(edits)]
    BY <1>1 DEF Watch, TimerFires, Resync, Skip, KubeTypes
<1>5. queued' \in [Worker -> BOOLEAN] /\ timer' \in [Worker -> BOOLEAN]
    BY DEF Watch, TimerFires, Resync, Skip, Dequeue, KubeTypes
<1> QED BY <1>2, <1>3, <1>4, <1>5 DEF KubeTypes

\* Setting or removing the finalizer keeps an object an object.
LEMMA FinalizerType ==
    ASSUME NEW e \in Nat, NEW o \in ObjectType(e)
    PROVE  /\ o.exists => [o EXCEPT !.fin = TRUE] \in ObjectType(e)
           /\ Unfinalized(o) \in ObjectType(e)
           /\ [o EXCEPT !.deleting = FALSE] \in ObjectType(e)
           /\ o.fin => [o EXCEPT !.deleting = TRUE] \in ObjectType(e)
<1>1. o \in Record(e) /\ (o.deleting => o.fin) /\ (o.fin => o.exists)
    BY DEF ObjectType
<1>2. ASSUME o.exists PROVE [o EXCEPT !.fin = TRUE] \in ObjectType(e)
    BY <1>1, <1>2 DEF ObjectType, Record
<1>3. ASSUME ~o.deleting PROVE [o EXCEPT !.fin = FALSE] \in ObjectType(e)
    BY <1>1, <1>3 DEF ObjectType, Record
<1>4. Unfinalized(o) \in ObjectType(e)
    BY <1>3, AbsentType DEF Unfinalized
<1>5. [o EXCEPT !.deleting = FALSE] \in ObjectType(e)
    BY <1>1 DEF ObjectType, Record
<1>6. ASSUME o.fin PROVE [o EXCEPT !.deleting = TRUE] \in ObjectType(e)
    BY <1>1, <1>6 DEF ObjectType, Record
<1> QED BY <1>2, <1>4, <1>5, <1>6

\* Starting a reconcile: StrictError, EnsureFinalizer, StartReconcile,
\* StartDeletion.
LEMMA StartTyped ==
    ASSUME Types, NEW w \in Worker, UNCHANGED <<edits, crashes>>,
           StrictError(w) \/ EnsureFinalizer(w) \/ StartReconcile(w) \/ StartDeletion(w)
    PROVE  Types'
<1> USE DEF Types
<1>1. /\ NcOf[w] \in NC /\ edits \in Nat /\ cache[w] \in ObjectType(edits)
      /\ cache[w].status.ifs \in SUBSET [mac : Mac, reserved : BOOLEAN, ip : BOOLEAN]
      /\ cache[w].macs \subseteq Mac
    BY ObjectFacts DEF KubeTypes
<1>2. queued' \in [Worker -> BOOLEAN]
    BY DEF StrictError, EnsureFinalizer, StartReconcile, StartDeletion, Dequeue, KubeTypes
<1>3. CASE StrictError(w)
    <2>1. PICK sent \in Reach :
            PatchStatus(w, cache[w], Failure(cache[w], <<"strict">>, cache[w].status.ifs), sent)
        BY <1>3 DEF StrictError
    <2>2. Failure(cache[w], <<"strict">>, cache[w].status.ifs) \in StatusType(edits)
        <3>1. <<"strict">> \in Text
            BY MessageType DEF Message
        <3> QED BY <1>1, <3>1, FailureType
    <2>3. faults' \in 0..MaxFaults /\ api' \in [NC -> ObjectType(edits)]
        BY <1>1, <2>1, <2>2, PatchEffect DEF SubnetTypes
    <2>4. SubnetTypes' /\ HostTypes' /\ Placed'
        BY <1>3, <2>3 DEF StrictError, SubnetTypes, HostTypes, Placed, hvars
    <2> QED BY <1>2, <1>3, <2>3, <2>4 DEF StrictError, KubeTypes
<1>4. CASE EnsureFinalizer(w)
    <2>1. faults' \in 0..MaxFaults
        BY <1>4 DEF EnsureFinalizer, Conflict, SubnetTypes
    <2>2. api' \in [NC -> ObjectType(edits)]
        <3>1. CASE UNCHANGED api
            BY <3>1 DEF KubeTypes
        <3>2. CASE api[NcOf[w]].exists /\ api' = [api EXCEPT ![NcOf[w]].fin = TRUE]
            <4>1. [api[NcOf[w]] EXCEPT !.fin = TRUE] \in ObjectType(edits)
                BY <1>1, <3>2, FinalizerType DEF KubeTypes
            <4> QED BY <1>1, <3>2, <4>1 DEF KubeTypes
        <3> QED BY <1>4, <3>1, <3>2 DEF EnsureFinalizer
    <2>3. timer' \in [Worker -> BOOLEAN]
        BY <1>4 DEF EnsureFinalizer, KubeTypes
    <2>4. SubnetTypes' /\ HostTypes' /\ Placed'
        BY <1>4, <2>1 DEF EnsureFinalizer, SubnetTypes, HostTypes, Placed, hvars
    <2> QED BY <1>2, <1>4, <2>2, <2>3, <2>4 DEF EnsureFinalizer, KubeTypes
<1>5. CASE StartReconcile(w)
    <2>1. PICK x \in Claimed(w) :
            /\ arg' = [arg EXCEPT ![w] = nn[x].prefix]
            /\ Goto(w, IF nn[x].prefix \in Cidr /\ cache[w].macs # {}
                       THEN "lock" ELSE "unprepared")
        BY <1>5 DEF StartReconcile
    <2>2. nn[x].prefix \in Cidr \cup {None, BadPrefix}
        BY <1>1, <2>1 DEF Claimed, getNetworkNamespace, KubeTypes, Namespace
    <2> DEFINE new == [cond |-> Condition("False", cache[w], <<"reconciling">>),
                       phase |-> "Reconciling", msg |-> <<"reconciling">>,
                       ifs |-> cache[w].status.ifs]
    <2>3. new \in StatusType(edits)
        <3>1. <<"reconciling">> \in Text
            BY MessageType DEF Message
        <3> QED BY <1>1, <3>1, NewStatusType
    <2>4. \/ snap' = [snap EXCEPT ![w] = cache[w]] /\ UNCHANGED <<api, faults>>
          \/ \E sent \in Reach :
                /\ PatchStatus(w, cache[w], new, sent)
                /\ snap' = [snap EXCEPT ![w] = AfterPatch(w, cache[w], new, sent)]
        BY <1>5 DEF StartReconcile
    <2> HIDE DEF new
    <2>5. /\ faults' \in 0..MaxFaults /\ api' \in [NC -> ObjectType(edits)]
          /\ snap' \in [Worker -> ObjectType(edits)]
        <3>1. CASE snap' = [snap EXCEPT ![w] = cache[w]] /\ UNCHANGED <<api, faults>>
            BY <1>1, <3>1 DEF KubeTypes, SubnetTypes
        <3>2. ASSUME NEW sent \in Reach, PatchStatus(w, cache[w], new, sent),
                     snap' = [snap EXCEPT ![w] = AfterPatch(w, cache[w], new, sent)]
              PROVE  /\ faults' \in 0..MaxFaults /\ api' \in [NC -> ObjectType(edits)]
                     /\ snap' \in [Worker -> ObjectType(edits)]
            <4>1. faults' \in 0..MaxFaults /\ api' \in [NC -> ObjectType(edits)]
                BY <1>1, <2>3, <3>2, PatchEffect DEF SubnetTypes
            <4>2. AfterPatch(w, cache[w], new, sent) \in ObjectType(edits)
                BY <1>1, <2>3, AfterPatchEffect
            <4> QED BY <3>2, <4>1, <4>2 DEF KubeTypes
        <3> QED BY <2>4, <3>1, <3>2
    <2>6. SubnetTypes'
        BY <1>5, <2>1, <2>2, <2>5 DEF StartReconcile, Goto, SubnetTypes, Label, GocLabel
    <2>7. HostTypes'
        BY <1>5 DEF StartReconcile, HostTypes, hvars
    <2>8. Placed'
        <3>1. /\ \A v \in Worker \ {w} : pc'[v] = pc[v] /\ arg'[v] = arg[v] /\ loc'[v] = loc[v]
              /\ pc'[w] = "unprepared" \/ (pc'[w] = "lock" /\ arg'[w] \in Cidr)
            BY <1>5, <2>1 DEF StartReconcile, Goto, SubnetTypes
        <3>2. pc'[w] \notin WithMac /\ (pc'[w] \in WithPrefix => arg'[w] \in Cidr)
            BY <3>1 DEF WithMac, WithPrefix, GocLabel, Locked
        <3> QED BY <3>1, <3>2, PlacedStep
    <2> QED BY <1>2, <1>5, <2>5, <2>6, <2>7, <2>8 DEF StartReconcile, KubeTypes
<1>6. CASE StartDeletion(w)
    <2>1. \/ \E x \in getNetworkNamespace(NcOf[w]) :
                /\ arg' = [arg EXCEPT ![w] = nn[x].prefix]
                /\ Goto(w, IF nn[x].prefix \in Cidr THEN "cleanup" ELSE "unfinalize")
          \/ Goto(w, "unfinalize") /\ UNCHANGED arg
        BY <1>6 DEF StartDeletion
    <2>2. /\ arg' \in [Worker -> Cidr \cup {None, BadPrefix}]
          /\ pc' \in [Worker -> Label]
          /\ \A v \in Worker \ {w} : pc'[v] = pc[v] /\ arg'[v] = arg[v]
          /\ pc'[w] = "unfinalize" \/ (pc'[w] = "cleanup" /\ arg'[w] \in Cidr)
        <3>1. \A x \in getNetworkNamespace(NcOf[w]) : nn[x].prefix \in Cidr \cup {None, BadPrefix}
            BY <1>1 DEF getNetworkNamespace, KubeTypes, Namespace
        <3> QED BY <2>1, <3>1, ZenonT(40) DEF Goto, SubnetTypes, Label
    <2>3. SubnetTypes'
        BY <1>6, <2>2 DEF StartDeletion, SubnetTypes
    <2>4. [NoLocals EXCEPT !.todo = cache[w].macs] \in Locals
        BY <1>1, LocalsType
    <2>5. HostTypes'
        BY <1>6, <2>4 DEF StartDeletion, Local, HostTypes, hvars
    <2>6. Placed'
        <3>1. \A v \in Worker \ {w} : loc'[v] = loc[v]
            BY <1>6 DEF StartDeletion, Local, HostTypes
        <3>2. pc'[w] \notin WithMac /\ (pc'[w] \in WithPrefix => arg'[w] \in Cidr)
            BY <2>2 DEF WithMac, WithPrefix, GocLabel, Locked
        <3> QED BY <2>2, <3>1, <3>2, PlacedStep
    <2> QED BY <1>1, <1>2, <1>6, <2>3, <2>5, <2>6 DEF StartDeletion, KubeTypes
<1> QED BY <1>3, <1>4, <1>5, <1>6

LEMMA InterfacesType ==
    ASSUME NEW e \in Nat, NEW o \in ObjectType(e), NEW l \in Locals
    PROVE  /\ buildStatusInterfaces(o, l) \in SUBSET [mac : Mac, reserved : BOOLEAN, ip : BOOLEAN]
           /\ buildSuccessMessage(o, l) \in Text
<1>1. o.macs \subseteq Mac
    BY ObjectFacts
<1>2. buildStatusInterfaces(o, l) \in SUBSET [mac : Mac, reserved : BOOLEAN, ip : BOOLEAN]
    <2>1. \A m \in o.macs : m \in Mac /\ (m \in l.done) \in BOOLEAN /\ (m \in l.ips) \in BOOLEAN
        BY <1>1
    <2>2. \A m \in Mac, r \in BOOLEAN, i \in BOOLEAN :
              [mac |-> m, reserved |-> r, ip |-> i] \in [mac : Mac, reserved : BOOLEAN, ip : BOOLEAN]
        OBVIOUS
    <2>3. \A m \in o.macs : [mac |-> m, reserved |-> m \in l.done, ip |-> m \in l.ips]
                               \in [mac : Mac, reserved : BOOLEAN, ip : BOOLEAN]
        BY <2>1, <2>2, Zenon
    <2>4. buildStatusInterfaces(o, l) \subseteq [mac : Mac, reserved : BOOLEAN, ip : BOOLEAN]
        <3> SUFFICES ASSUME NEW i \in buildStatusInterfaces(o, l)
                     PROVE  i \in [mac : Mac, reserved : BOOLEAN, ip : BOOLEAN]
            BY Zenon
        <3>1. \E m \in o.macs : i = [mac |-> m, reserved |-> m \in l.done, ip |-> m \in l.ips]
            BY Zenon DEF buildStatusInterfaces
        <3> QED BY <2>3, <3>1, Zenon
    <2> QED BY <2>4
<1>3. buildSuccessMessage(o, l) \in Text
    BY MessageType DEF buildSuccessMessage, Message
<1> QED BY <1>2, <1>3

\* The steps that end a reconcile: Unprepared, SubnetError, Finish,
\* RemoveFinalizer.
LEMMA EndTyped ==
    ASSUME Types, NEW w \in Worker, UNCHANGED <<edits, crashes>>,
           Unprepared(w) \/ SubnetError(w) \/ Finish(w) \/ RemoveFinalizer(w)
    PROVE  Types'
<1> USE DEF Types
<1>1. /\ NcOf[w] \in NC /\ edits \in Nat /\ snap[w] \in ObjectType(edits)
      /\ snap[w].status \in StatusType(edits)
      /\ snap[w].status.ifs \in SUBSET [mac : Mac, reserved : BOOLEAN, ip : BOOLEAN]
      /\ loc[w] \in Locals
    BY ObjectFacts DEF KubeTypes, HostTypes
<1>2. timer' \in [Worker -> BOOLEAN]
    BY ZenonT(40) DEF Unprepared, SubnetError, Finish, RemoveFinalizer, RequeueAfter, KubeTypes
<1>3. /\ Leave(w)
      /\ UNCHANGED <<subnets, lostAdds, lock, hvars, nn, cache, queued>>
    BY DEF Unprepared, SubnetError, Finish, RemoveFinalizer
<1>4. SUFFICES faults' \in 0..MaxFaults /\ api' \in [NC -> ObjectType(edits)]
    <2>1. ASSUME faults' \in 0..MaxFaults PROVE
          SubnetTypes' /\ HostTypes' /\ Placed' /\ snap' \in [Worker -> ObjectType(edits)']
        BY <1>3, <2>1, LeaveTyped
    <2> QED BY <1>2, <1>3, <2>1 DEF KubeTypes
<1>5. SUFFICES ASSUME ~RemoveFinalizer(w)
               PROVE  \E st \in StatusType(edits), sent \in Reach :
                          PatchStatus(w, snap[w], st, sent)
    <2>1. ASSUME NEW st \in StatusType(edits), NEW sent \in Reach,
                 PatchStatus(w, snap[w], st, sent)
          PROVE  faults' \in 0..MaxFaults /\ api' \in [NC -> ObjectType(edits)]
        BY <1>1, <2>1, PatchEffect DEF SubnetTypes
    <2>2. CASE RemoveFinalizer(w)
        <3>1. faults' \in 0..MaxFaults
            BY <2>2 DEF RemoveFinalizer, Conflict, SubnetTypes
        <3>2. Unfinalized(api[NcOf[w]]) \in ObjectType(edits)
            BY <1>1, FinalizerType DEF KubeTypes
        <3> QED BY <1>1, <2>2, <3>1, <3>2 DEF RemoveFinalizer, KubeTypes
    <2> QED BY <2>1, <2>2
<1>6. CASE Unprepared(w)
    <2>1. \A ph \in {"Error", "Ready"}, msg \in Text :
              [snap[w].status EXCEPT !.phase = ph, !.msg = msg] \in StatusType(edits)
        BY <1>1 DEF StatusType
    <2>2. <<"prefix">> \in Text /\ <<"no MACs">> \in Text
        BY MessageType DEF Message
    <2> DEFINE noPrefix == arg[w] = None \/ (arg[w] = BadPrefix /\ snap[w].macs # {})
               new == [snap[w].status EXCEPT
                          !.phase = IF noPrefix THEN "Error" ELSE "Ready",
                          !.msg = IF noPrefix THEN <<"prefix">> ELSE <<"no MACs">>]
    <2>3. new \in StatusType(edits)
        BY <2>1, <2>2, ZenonT(40)
    <2>4. \E sent \in Reach : PatchStatus(w, snap[w], new, sent)
        BY <1>6 DEF Unprepared
    <2> QED BY <2>3, <2>4
<1>7. CASE SubnetError(w)
    <2>1. <<"subnet">> \in Text
        BY MessageType DEF Message
    <2>2. Failure(snap[w], <<"subnet">>, snap[w].status.ifs) \in StatusType(edits)
        BY <1>1, <2>1, FailureType
    <2> QED BY <1>7, <2>2 DEF SubnetError
<1>8. CASE Finish(w)
    <2> DEFINE o == snap[w]
               ifs == buildStatusInterfaces(o, loc[w])
               why == buildSuccessMessage(o, loc[w])
               good == [cond |-> Condition("True", o, <<"configured">>), phase |-> "Ready",
                        msg |-> why, ifs |-> ifs]
               new == IF loc[w].errs = <<>> THEN good ELSE Failure(o, loc[w].errs, ifs)
    <2>1. ifs \in SUBSET [mac : Mac, reserved : BOOLEAN, ip : BOOLEAN] /\ why \in Text
        BY <1>1, InterfacesType
    <2>2. <<"configured">> \in Text /\ loc[w].errs \in Text
        BY <1>1, TextFacts, MessageType DEF Message, Locals
    <2>3. good \in StatusType(edits)
        <3> HIDE DEF ifs, why
        <3> QED BY <1>1, <2>1, <2>2, NewStatusType
    <2>4. Failure(o, loc[w].errs, ifs) \in StatusType(edits)
        <3> HIDE DEF ifs
        <3> QED BY <1>1, <2>1, <2>2, FailureType
    <2>5. new \in StatusType(edits)
        BY <2>3, <2>4
    <2>6. \E sent \in Reach : PatchStatus(w, snap[w], new, sent)
        BY <1>8 DEF Finish
    <2> HIDE DEF new
    <2> QED BY <2>5, <2>6
<1> QED BY <1>5, <1>6, <1>7, <1>8

\* resolveSubnetInfo.
LEMMA InfoTyped ==
    ASSUME Types, NEW w \in Worker, UNCHANGED <<edits, crashes>>,
           GetSubnetInfo(w) \/ Reresolve(w)
    PROVE  Types'
<1> USE DEF Types
<1>1. KubeTypes'
    BY DEF GetSubnetInfo, Reresolve, KubeTypes, kvars
<1>2. arg[w] \in Cidr /\ arg' = arg
    BY DEF GetSubnetInfo, Reresolve, Placed, WithPrefix, GocLabel
<1>3. faults' \in 0..MaxFaults
    BY DeliverType DEF GetSubnetInfo, Reresolve, SubnetTypes
<1>4. \E l \in {"reresolve", "mac"} : Goto(w, l)
    BY DEF GetSubnetInfo, Reresolve
<1>5. sid' \in [Worker -> Nat]
    <2>1. \A d \in Send : GetSubnetID(d, arg[w]) \in Nat \cup {Err}
        BY <1>2, GetSubnetIDType
    <2>2. CASE GetSubnetInfo(w)
        BY <2>2 DEF GetSubnetInfo, SubnetTypes
    <2>3. CASE Reresolve(w)
        <3>1. PICK d \in Send : sid' = [sid EXCEPT ![w] = IF GetSubnetID(d, arg[w]) > 0
                                                     THEN GetSubnetID(d, arg[w]) ELSE @]
            BY <2>3 DEF Reresolve
        <3> QED BY <2>1, <3>1 DEF SubnetTypes, Err
    <2> QED BY <2>2, <2>3
<1>6. SubnetTypes'
    BY <1>2, <1>3, <1>4, <1>5 DEF GetSubnetInfo, Reresolve, SubnetTypes, Goto, Label
<1>7. loc' \in [Worker -> Locals] /\ \A v \in Worker \ {w} : loc'[v] = loc[v]
    <2>1. snap[w].macs \in SUBSET Mac
        BY ObjectFacts DEF KubeTypes
    <2>2. [NoLocals EXCEPT !.todo = snap[w].macs] \in Locals
        BY <2>1, LocalsType
    <2>3. CASE GetSubnetInfo(w)
        <3>1. loc' = [loc EXCEPT ![w] = [NoLocals EXCEPT !.todo = snap[w].macs]]
            BY <2>3 DEF GetSubnetInfo, Local
        <3> QED BY <2>2, <3>1 DEF HostTypes
    <2>4. CASE Reresolve(w)
        BY <2>4 DEF Reresolve, HostTypes
    <2> QED BY <2>3, <2>4
<1>8. HostTypes'
    BY <1>7 DEF GetSubnetInfo, Reresolve, HostTypes, hvars
<1>9. Placed'
    <2>1. pc'[w] \in {"reresolve", "mac"} /\ \A v \in Worker \ {w} : pc'[v] = pc[v]
        BY <1>4 DEF Goto, SubnetTypes
    <2>2. pc'[w] \notin WithMac
        BY <2>1 DEF WithMac
    <2> QED BY <1>2, <1>7, <2>1, <2>2, PlacedStep
<1> QED BY <1>1, <1>6, <1>8, <1>9

\* Kea's reaction to a reservation command: adding, deleting or refusing.
LEMMA ExecuteType ==
    ASSUME HostTypes, NEW s \in Server, NEW h \in Host, NEW op
    PROVE  /\ Execute(op, s, h) \in SUBSET Host
           /\ Execute(op, s, h) \subseteq hosts[s] \cup (IF op = "add" THEN {h} ELSE {})
           /\ op # "del" => hosts[s] \subseteq Execute(op, s, h)
<1>1. hosts[s] \subseteq Host
    BY DEF HostTypes
<1> QED BY <1>1 DEF Execute

LEMMA SendHostType ==
    ASSUME HostTypes, NEW d \in Send, NEW h \in Host, NEW op \in {"add", "del"},
           SendHost(d, op, h)
    PROVE  hosts' \in [Server -> SUBSET Host] /\ lostHosts' \subseteq HostCmd
<1>1. \A s \in Server : Execute(op, s, h) \in SUBSET Host
    BY ExecuteType
<1>2. hosts' \in [Server -> SUBSET Host]
    BY <1>1 DEF SendHost, HostTypes
<1>3. d.lost \subseteq Server
    BY SendType
<1>4. [op : {op}, srv : d.lost, host : {h}] \subseteq HostCmd
    BY <1>3 DEF HostCmd
<1> QED BY <1>2, <1>4 DEF SendHost, HostTypes

\* The reservation steps move one worker to a label of the loop and change its
\* own locals only.
LEMMA MacStepEffect ==
    ASSUME Types, NEW w \in Worker,
           \/ GetLeaseIPv4ForMAC(w) \/ GetStoredAddress(w) \/ Exists(w) \/ ExistsAll(w)
           \/ ReservationAdd(w) \/ CleanupList(w) \/ DeleteReservationForMAC(w)
    PROVE  /\ arg[w] \in Cidr /\ arg' = arg
           /\ faults' \in 0..MaxFaults
           /\ pc[w] \in {"mac", "cleanup", "delMac"} \cup WithMac
           /\ pc' \in [Worker -> Label]
           /\ \A v \in Worker \ {w} : pc'[v] = pc[v]
           /\ pc'[w] \in {"mac", "delMac", "unfinalize"} \cup WithMac
           /\ loc' \in [Worker -> Locals]
           /\ \A v \in Worker \ {w} : loc'[v] = loc[v]
           /\ pc'[w] \in WithMac => loc'[w].mac \in Mac
           /\ sid' \in [Worker -> Nat]
<1> DEFINE P == /\ pc' \in [Worker -> Label]
                /\ \A v \in Worker \ {w} : pc'[v] = pc[v]
                /\ pc'[w] \in {"mac", "delMac", "unfinalize"} \cup WithMac
           L == /\ loc' \in [Worker -> Locals]
                /\ \A v \in Worker \ {w} : loc'[v] = loc[v]
                /\ pc'[w] \in WithMac => loc'[w].mac \in Mac
<1> USE DEF Types
<1>1. arg[w] \in Cidr /\ arg' = arg /\ pc[w] \in {"mac", "cleanup", "delMac"} \cup WithMac
    BY DEF GetLeaseIPv4ForMAC, GetStoredAddress, Exists, ExistsAll, ReservationAdd,
           CleanupList, DeleteReservationForMAC, Placed, WithPrefix, WithMac
<1>2. faults' \in 0..MaxFaults
    <2>1. faults' = faults \/ \E d \in Send : Deliver(d)
        BY DEF GetLeaseIPv4ForMAC, GetStoredAddress, Exists, ExistsAll, ReservationAdd,
               CleanupList, DeleteReservationForMAC, SendHost
    <2> QED BY <2>1, DeliverType, SMTT(40) DEF SubnetTypes
<1>3. pc[w] \in WithMac => loc[w].mac \in Mac
    BY DEF Placed
<1>4. ASSUME NEW l \in {"mac", "delMac", "unfinalize"} \cup WithMac, Goto(w, l)
      PROVE  P /\ pc'[w] = l
    BY <1>4 DEF Goto, SubnetTypes, Label, WithMac
<1>5. ASSUME NEW l \in Locals, Local(w, l)
      PROVE  /\ loc' \in [Worker -> Locals] /\ loc'[w] = l
             /\ \A v \in Worker \ {w} : loc'[v] = loc[v]
    BY <1>5 DEF Local, HostTypes
<1>6. loc[w] \in Locals /\ sid[w] \in Nat /\ sid \in [Worker -> Nat]
    BY DEF HostTypes, SubnetTypes
<1>7. ASSUME pc[w] \in WithMac, MacDone(w) \/ MacFailed(w) PROVE P /\ L
    <2>1. loc[w].mac \in Mac
        BY <1>3, <1>7
    <2>2. /\ [loc[w] EXCEPT !.mac = None, !.hsid = 0, !.ip = None,
                            !.errs = Append(@, loc[w].mac)] \in Locals
          /\ [loc[w] EXCEPT !.mac = None, !.hsid = 0, !.ip = None,
                            !.done = @ \cup {loc[w].mac},
                            !.ips = IF loc[w].ip = None THEN @ ELSE @ \cup {loc[w].mac}] \in Locals
        <3>1. /\ loc[w].errs \in Seq(Mac) /\ loc[w].done \subseteq Mac /\ loc[w].ips \subseteq Mac
              /\ Append(loc[w].errs, loc[w].mac) \in Seq(Mac)
            BY <1>6, <2>1 DEF Locals
        <3>2. \A e \in Seq(Mac) :
                 [loc[w] EXCEPT !.mac = None, !.hsid = 0, !.ip = None, !.errs = e] \in Locals
            BY <1>6 DEF Locals
        <3>3. \A x \in SUBSET Mac, y \in SUBSET Mac :
                 [loc[w] EXCEPT !.mac = None, !.hsid = 0, !.ip = None,
                                !.done = x, !.ips = y] \in Locals
            BY <1>6 DEF Locals
        <3> QED BY <2>1, <3>1, <3>2, <3>3
    <2>3. P /\ pc'[w] = "mac"
        BY <1>4, <1>7 DEF MacDone, MacFailed
    <2>4. loc' \in [Worker -> Locals] /\ \A v \in Worker \ {w} : loc'[v] = loc[v]
        BY <1>5, <1>7, <2>2 DEF MacDone, MacFailed
    <2> QED BY <2>3, <2>4 DEF WithMac
<1>8. ASSUME NEW l \in Locals, l.mac \in Mac, NEW c \in Cidr \cup {None}, NEW id \in Nat,
             UseLease(w, l, c, id)
      PROVE  P /\ L
    <2>1. [l EXCEPT !.hsid = IF id > 0 THEN id ELSE sid[w],
                    !.ip = IF c = arg[w] THEN c ELSE None] \in Locals
        BY <1>6, <1>1 DEF Locals
    <2>2. [l EXCEPT !.hsid = IF id > 0 THEN id ELSE sid[w],
                    !.ip = IF c = arg[w] THEN c ELSE None].mac = l.mac
        BY DEF Locals
    <2>3. P
        BY <1>4, <1>8 DEF UseLease, WithMac
    <2> QED BY <1>5, <1>8, <2>1, <2>2, <2>3 DEF UseLease
<1>9. CASE GetLeaseIPv4ForMAC(w)
    <2>1. PICK m \in loc[w].todo, d \in Send :
            LET c == IF d.ans = None THEN None ELSE lease[m]
                l == [loc[w] EXCEPT !.todo = @ \ {m}, !.mac = m] IN
            \/ c # None /\ UseLease(w, l, c, subnets[d.ans][c])
            \/ c = None /\ Goto(w, "stored") /\ Local(w, l)
        BY <1>9 DEF GetLeaseIPv4ForMAC
    <2> DEFINE c == IF d.ans = None THEN None ELSE lease[m]
               l == [loc[w] EXCEPT !.todo = @ \ {m}, !.mac = m]
    <2>2. m \in Mac /\ l \in Locals /\ l.mac = m
        BY <1>6 DEF Locals
    <2>3. c \in Cidr \cup {None}
        BY <2>2 DEF HostTypes
    <2>4. CASE c # None /\ UseLease(w, l, c, subnets[d.ans][c])
        <3>1. d.ans \in Server /\ c \in Cidr
            BY <2>3, <2>4, SendType
        <3>2. subnets[d.ans][c] \in Nat
            BY <3>1 DEF SubnetTypes
        <3> HIDE DEF c, l
        <3>3. P /\ L
            BY <1>8, <2>2, <2>3, <2>4, <3>2, SMTT(40)
        <3> QED BY <1>1, <1>2, <1>6, <1>9, <3>3 DEF GetLeaseIPv4ForMAC
    <2>5. CASE Goto(w, "stored") /\ Local(w, l)
        <3> HIDE DEF l
        <3>1. P
            BY <1>4, <2>5 DEF WithMac
        <3>2. L
            BY <1>5, <2>2, <2>5
        <3> QED BY <1>1, <1>2, <1>6, <1>9, <3>1, <3>2 DEF GetLeaseIPv4ForMAC
    <2> QED BY <2>1, <2>4, <2>5, SMTT(40)
<1>10. CASE GetStoredAddress(w)
    <2>1. PICK d \in Send :
            \/ \E h \in {g \in hosts[d.ans] : d.ans # None} : UseLease(w, loc[w], h.ip, h.sid)
            \/ UseLease(w, loc[w], None, 0)
        BY <1>10 DEF GetStoredAddress
    <2>2. loc[w].mac \in Mac
        BY <1>3, <1>10 DEF GetStoredAddress, WithMac
    <2>3. CASE UseLease(w, loc[w], None, 0)
        <3>1. P /\ L
            BY <1>6, <1>8, <2>2, <2>3
        <3> QED BY <1>1, <1>2, <1>6, <1>10, <3>1 DEF GetStoredAddress
    <2>4. ASSUME d.ans # None, NEW h \in hosts[d.ans], UseLease(w, loc[w], h.ip, h.sid)
          PROVE  P /\ L
        <3>1. h.ip \in Cidr \cup {None} /\ h.sid \in Nat
            BY <2>4, SendType DEF HostTypes, Host
        <3> QED BY <1>6, <1>8, <2>2, <2>4, <3>1
    <2>5. P /\ L
        BY <1>6, <1>8, <2>1, <2>2, <2>4
    <2> QED BY <1>1, <1>2, <1>6, <1>10, <2>5 DEF GetStoredAddress
<1>11. CASE Exists(w) \/ ExistsAll(w)
    <2>1. pc[w] \in WithMac
        BY <1>11 DEF Exists, ExistsAll, WithMac
    <2>2. \/ MacDone(w)
          \/ \E l \in {"existsAll", "resAdd"} : Goto(w, l) /\ UNCHANGED loc
        BY <1>11 DEF Exists, ExistsAll
    <2>3. P /\ L
        <3>1. CASE MacDone(w)
            BY <1>7, <2>1, <3>1
        <3>2. ASSUME NEW l \in {"existsAll", "resAdd"}, Goto(w, l), UNCHANGED loc
              PROVE  P /\ L
            <4>1. P
                BY <1>4, <3>2 DEF WithMac
            <4> QED BY <1>3, <2>1, <3>2, <4>1 DEF HostTypes
        <3> QED BY <2>2, <3>1, <3>2
    <2> QED BY <1>1, <1>2, <1>6, <1>11, <2>3 DEF Exists, ExistsAll
<1>12. CASE ReservationAdd(w)
    <2>1. pc[w] \in WithMac /\ (MacDone(w) \/ MacFailed(w))
        BY <1>12 DEF ReservationAdd, WithMac
    <2>2. P /\ L
        BY <1>7, <2>1
    <2> QED BY <1>1, <1>2, <1>6, <1>12, <2>2 DEF ReservationAdd
<1>13. CASE CleanupList(w)
    <2>1. PICK d \in Send :
            \/ /\ GetSubnetID(d, arg[w]) > 0 /\ Goto(w, "delMac")
               /\ sid' = [sid EXCEPT ![w] = GetSubnetID(d, arg[w])]
            \/ Goto(w, "unfinalize") /\ sid' = sid
        BY <1>13 DEF CleanupList
    <2>2. P /\ pc'[w] \notin WithMac
        BY <1>4, <2>1 DEF WithMac
    <2>3. sid' \in [Worker -> Nat]
        BY <1>1, <1>6, <2>1, GetSubnetIDType DEF Err
    <2> QED BY <1>1, <1>2, <1>13, <2>2, <2>3 DEF CleanupList, HostTypes
<1>14. CASE DeleteReservationForMAC(w)
    <2>1. \/ \E m \in loc[w].todo : Local(w, [loc[w] EXCEPT !.todo = @ \ {m}]) /\ UNCHANGED pc
          \/ Goto(w, "unfinalize") /\ UNCHANGED loc
        BY <1>14 DEF DeleteReservationForMAC
    <2>2. P /\ pc'[w] \notin WithMac
        <3>1. CASE Goto(w, "unfinalize")
            BY <1>4, <3>1 DEF WithMac
        <3>2. CASE UNCHANGED pc
            BY <1>14, <3>2 DEF DeleteReservationForMAC, SubnetTypes, WithMac
        <3> QED BY <2>1, <3>1, <3>2
    <2>3. loc' \in [Worker -> Locals] /\ \A v \in Worker \ {w} : loc'[v] = loc[v]
        <3>1. \A m \in loc[w].todo : [loc[w] EXCEPT !.todo = @ \ {m}] \in Locals
            BY <1>6 DEF Locals
        <3> QED BY <1>5, <2>1, <3>1 DEF HostTypes
    <2> QED BY <1>1, <1>2, <1>6, <1>14, <2>2, <2>3 DEF DeleteReservationForMAC
<1> QED BY <1>9, <1>10, <1>11, <1>12, <1>13, <1>14, SMTT(40)

\* The steps of the reservation half of the service.
LEMMA ServiceTyped ==
    ASSUME Types, NEW w \in Worker, UNCHANGED <<kvars, edits, crashes>>,
           \/ GetLeaseIPv4ForMAC(w) \/ GetStoredAddress(w) \/ Exists(w) \/ ExistsAll(w)
           \/ ReservationAdd(w) \/ CleanupList(w) \/ DeleteReservationForMAC(w)
    PROVE  Types'
<1> USE DEF Types
<1>1. KubeTypes'
    BY SMTT(40) DEF KubeTypes, kvars
<1>2. /\ UNCHANGED <<subnets, lostAdds, lock, arg, lease>>
      /\ \/ UNCHANGED <<hosts, lostHosts>>
         \/ ReservationAdd(w)
         \/ DeleteReservationForMAC(w)
    BY DEF GetLeaseIPv4ForMAC, GetStoredAddress, Exists, ExistsAll, ReservationAdd,
           CleanupList, DeleteReservationForMAC, hvars
<1>3. SubnetTypes'
    BY <1>2, MacStepEffect DEF SubnetTypes
<1>4. Placed'
    BY <1>2, MacStepEffect, PlacedStep
<1>5. hosts' \in [Server -> SUBSET Host] /\ lostHosts' \subseteq HostCmd
    <2>1. CASE UNCHANGED <<hosts, lostHosts>>
        BY <2>1 DEF HostTypes
    <2>2. CASE ReservationAdd(w)
        <3>1. [mac |-> loc[w].mac, sid |-> loc[w].hsid, ip |-> loc[w].ip] \in Host
            BY <2>2 DEF ReservationAdd, HostTypes, Locals, Host, Placed, WithMac
        <3> QED BY <2>2, <3>1, SendHostType DEF ReservationAdd
    <2>3. CASE DeleteReservationForMAC(w)
        <3>1. \A m \in loc[w].todo : [mac |-> m, sid |-> sid[w], ip |-> None] \in Host
            BY DEF HostTypes, SubnetTypes, Locals, Host
        <3> QED BY <2>1, <2>3, <3>1, SendHostType DEF DeleteReservationForMAC
    <2> QED BY <1>2, <2>1, <2>2, <2>3
<1>6. HostTypes'
    BY <1>2, <1>5, MacStepEffect DEF HostTypes
<1> QED BY <1>1, <1>3, <1>4, <1>6

\* Commands that Kea executes late.
LEMMA KeaTyped ==
    ASSUME Types, KeaStep
    PROVE  Types'
<1> USE DEF Types
<1>1. KubeTypes'
    BY DEF KeaStep, KubeTypes, kvars
<1>2. ASSUME NEW a \in lostAdds, LateAdd(a), UNCHANGED <<hvars, loc>> PROVE Types'
    <2>1. a.srv \in Server /\ a.cidr \in Cidr /\ a.id \in Nat
        BY DEF SubnetTypes, AddCmd
    <2>2. subnets' \in [Server -> [Cidr -> Nat]]
        BY <1>2, <2>1 DEF LateAdd, SubnetTypes
    <2>3. SubnetTypes' /\ HostTypes' /\ Placed'
        BY <1>2, <2>2 DEF LateAdd, SubnetTypes, HostTypes, Placed, hvars
    <2> QED BY <1>1, <2>3
<1>3. ASSUME NEW a \in lostHosts, LateHost(a) PROVE Types'
    <2>1. a.srv \in Server /\ a.host \in Host
        BY DEF HostTypes, HostCmd
    <2>2. Execute(a.op, a.srv, a.host) \in SUBSET Host
        BY <2>1, ExecuteType
    <2>3. hosts' \in [Server -> SUBSET Host] /\ lostHosts' \subseteq HostCmd
        BY <1>3, <2>1, <2>2 DEF LateHost, HostTypes
    <2>4. SubnetTypes' /\ HostTypes' /\ Placed'
        BY <1>3, <2>3 DEF LateHost, SubnetTypes, HostTypes, Placed, svars
    <2> QED BY <1>1, <2>4
<1> QED BY <1>2, <1>3 DEF KeaStep

\* What users create is an object of generation 1, not deleted, without the
\* finalizer and without a condition.
LEMMA Created1Type ==
    ASSUME NEW e \in Nat, NEW n \in NC, NEW s \in Specs[n]
    PROVE  /\ Created1(s) \in ObjectType(e)
           /\ ~Created1(s).deleting
           /\ ~Created1(s).fin
           /\ Created1(s).exists
           /\ Created1(s).gen = 1
           /\ Created1(s).provider = s.provider /\ Created1(s).macs = s.macs
           /\ Created1(s).status = NoStatus
<1>1. s.provider \in Provider /\ s.macs \in SUBSET Mac /\ 1 \in 0..(e + 1)
    OBVIOUS
<1>2. \A o \in Record(e) :
          /\ [o EXCEPT !.exists = TRUE] \in Record(e)
          /\ [o EXCEPT !.gen = 1, !.provider = s.provider, !.macs = s.macs] \in Record(e)
    <2> SUFFICES ASSUME NEW o \in Record(e)
                 PROVE  /\ [o EXCEPT !.exists = TRUE] \in Record(e)
                        /\ [o EXCEPT !.gen = 1, !.provider = s.provider, !.macs = s.macs]
                               \in Record(e)
        OBVIOUS
    <2>1. [o EXCEPT !.exists = TRUE] \in Record(e)
        BY DEF Record
    <2>2. [o EXCEPT !.gen = 1, !.provider = s.provider, !.macs = s.macs] \in Record(e)
        BY <1>1 DEF Record
    <2> QED BY <2>1, <2>2
<1>3. Created1(s) \in Record(e)
    BY <1>2, AbsentType DEF Created1, ObjectType
<1>4. /\ Created1(s).gen = 1 /\ Created1(s).provider = s.provider /\ Created1(s).macs = s.macs
      /\ Created1(s).status = NoStatus
      /\ Created1(s).exists = TRUE /\ Created1(s).deleting = FALSE /\ Created1(s).fin = FALSE
    BY DEF Created1, Absent
<1>5. Created1(s) \in ObjectType(e)
    BY <1>3, <1>4 DEF ObjectType
<1> QED BY <1>4, <1>5

\* Users, the other controller, leases and crashes.
LEMMA EnvironmentTyped ==
    ASSUME Types,
           \/ \E n \in NC : Create(n) \/ Edit(n) \/ Delete(n)
           \/ \E x \in NN : EditNamespace(x)
           \/ \E m \in Mac : Lease(m)
           \/ \E p \in Proc : Crash(p)
    PROVE  Types'
<1> USE DEF Types
<1>1. edits \in Nat
    BY DEF KubeTypes
<1>2. ASSUME EditBudget
      PROVE  /\ edits' \in 0..MaxEdits /\ edits' = edits + 1
             /\ ObjectType(edits) \subseteq ObjectType(edits')
             /\ \A n \in NC : api[n] \in ObjectType(edits')
             /\ cache \in [Worker -> ObjectType(edits')]
             /\ snap \in [Worker -> ObjectType(edits')]
    <2>1. edits' \in 0..MaxEdits /\ edits' = edits + 1
        BY <1>2 DEF EditBudget, KubeTypes
    <2>2. ObjectType(edits) \subseteq ObjectType(edits')
        BY <1>1, <2>1, ObjectGrows
    <2> QED BY <2>1, <2>2 DEF KubeTypes
<1>3. ASSUME NEW n \in NC, Create(n) PROVE Types'
    <2>1. SubnetTypes' /\ HostTypes' /\ Placed'
        BY <1>3 DEF Create, SubnetTypes, HostTypes, Placed, svars, hvars
    <2>2. PICK s \in Specs[n] : api' = [api EXCEPT ![n] = Created1(s)]
        BY <1>3 DEF Create
    <2>3. EditBudget
        BY <1>3 DEF Create
    <2>4. Created1(s) \in ObjectType(edits')
        BY <1>2, <2>3, Created1Type
    <2>5. api' \in [NC -> ObjectType(edits')]
        BY <1>2, <2>2, <2>3, <2>4 DEF KubeTypes
    <2> QED BY <1>2, <1>3, <2>1, <2>3, <2>5 DEF Create, KubeTypes
<1>4. ASSUME NEW n \in NC, Edit(n) PROVE Types'
    <2>1. SubnetTypes' /\ HostTypes' /\ Placed'
        BY <1>4 DEF Edit, SubnetTypes, HostTypes, Placed, svars, hvars
    <2>2. PICK s \in Specs[n] :
            api' = [api EXCEPT ![n] = [api[n] EXCEPT !.provider = s.provider, !.macs = s.macs,
                                                     !.gen = api[n].gen + 1]]
        BY <1>4, ZenonT(40) DEF Edit, KubeTypes
    <2>3. EditBudget
        BY <1>4 DEF Edit
    <2>4. s.provider \in Provider /\ s.macs \subseteq Mac
        OBVIOUS
    <2>5. [api[n] EXCEPT !.provider = s.provider, !.macs = s.macs, !.gen = api[n].gen + 1]
              \in ObjectType(edits')
        <3>1. api[n] \in ObjectType(edits') /\ api[n].gen + 1 \in 0..(edits' + 1)
            BY <1>1, <1>2, <2>3, ObjectFacts DEF KubeTypes
        <3> QED BY <2>4, <3>1 DEF ObjectType, Record
    <2>6. api' \in [NC -> ObjectType(edits')]
        BY <1>2, <2>2, <2>3, <2>5 DEF KubeTypes
    <2> QED BY <1>2, <1>4, <2>1, <2>3, <2>6 DEF Edit, KubeTypes
<1>5. ASSUME NEW n \in NC, Delete(n) PROVE Types'
    <2>1. SubnetTypes' /\ HostTypes' /\ Placed'
        BY <1>5 DEF Delete, SubnetTypes, HostTypes, Placed, svars, hvars
    <2>2. api' = [api EXCEPT ![n] = IF api[n].fin THEN [api[n] EXCEPT !.deleting = TRUE] ELSE Absent]
        BY <1>5 DEF Delete
    <2>3. (IF api[n].fin THEN [api[n] EXCEPT !.deleting = TRUE] ELSE Absent) \in ObjectType(edits)
        BY <1>1, FinalizerType, AbsentType DEF KubeTypes
    <2>4. api' \in [NC -> ObjectType(edits)]
        BY <2>2, <2>3 DEF KubeTypes
    <2> QED BY <1>5, <2>1, <2>4 DEF Delete, KubeTypes
<1>6. ASSUME NEW x \in NN, EditNamespace(x) PROVE Types'
    <2>1. SubnetTypes' /\ HostTypes' /\ Placed'
        BY <1>6 DEF EditNamespace, SubnetTypes, HostTypes, Placed, svars, hvars
    <2>2. EditBudget
        BY <1>6 DEF EditNamespace
    <2>3. nn' \in [NN -> Namespace]
        BY <1>6 DEF EditNamespace, KubeTypes
    <2>4. api' \in [NC -> ObjectType(edits')]
        BY <1>2, <1>6, <2>2 DEF EditNamespace, KubeTypes
    <2> QED BY <1>2, <1>6, <2>1, <2>2, <2>3, <2>4 DEF EditNamespace, KubeTypes
<1>7. ASSUME NEW m \in Mac, Lease(m) PROVE Types'
    <2>1. SubnetTypes' /\ Placed' /\ KubeTypes'
        BY <1>7 DEF Lease, SubnetTypes, Placed, KubeTypes, svars, kvars
    <2>2. LeaseIn[m] \subseteq Cidr
        OBVIOUS
    <2>3. lease' \in [Mac -> Cidr \cup {None}]
        BY <1>7, <2>2 DEF Lease, HostTypes
    <2> QED BY <1>7, <2>1, <2>3 DEF Lease, HostTypes
<1>8. ASSUME NEW p \in Proc, Crash(p) PROVE Types'
    <2>1. SubnetTypes'
        BY <1>8 DEF Crash, SubnetTypes, Label
    <2>2. HostTypes'
        BY <1>8, LocalsType DEF Crash, HostTypes, hvars
    <2>3. cache' \in [Worker -> ObjectType(edits)] /\ snap' \in [Worker -> ObjectType(edits)]
        BY <1>1, <1>8, AbsentType DEF Crash, KubeTypes
    <2>4. queued' \in [Worker -> BOOLEAN] /\ timer' \in [Worker -> BOOLEAN]
        BY <1>8 DEF Crash, KubeTypes
    <2>5. Placed'
        <3>1. \A w \in Worker : \/ pc'[w] = "idle"
                                \/ pc'[w] = pc[w] /\ arg'[w] = arg[w] /\ loc'[w] = loc[w]
            BY <1>8 DEF Crash
        <3>2. "idle" \notin WithPrefix /\ WithMac \subseteq WithPrefix
            BY LabelFacts DEF WithPrefix
        <3> QED BY <3>1, <3>2 DEF Placed
    <2>6. edits' = edits /\ api' = api /\ nn' = nn /\ crashes' \in 0..MaxCrashes
        BY <1>8 DEF Crash, KubeTypes
    <2>7. KubeTypes'
        BY <2>3, <2>4, <2>6 DEF KubeTypes
    <2> QED BY <2>1, <2>2, <2>5, <2>7
<1> QED BY <1>3, <1>4, <1>5, <1>6, <1>7, <1>8

-----------------------------------------------------------------------------
(* Type correctness. *)

LEMMA InitTypes == Init => Types
<1> SUFFICES ASSUME Init PROVE Types
    OBVIOUS
<1>1. SubnetTypes
    BY DEF Init, SubnetTypes, Label
<1>2. HostTypes
    BY LocalsType DEF Init, HostTypes
<1>3. KubeTypes
    <2>1. Absent \in ObjectType(0) /\ edits = 0 /\ crashes = 0
        BY AbsentType DEF Init
    <2>2. \A n \in NC : api[n] \in ObjectType(0)
        BY Created1Type DEF Init
    <2>3. api \in [NC -> ObjectType(0)] /\ nn \in [NN -> Namespace]
        BY <2>2 DEF Init
    <2>4. /\ cache \in [Worker -> ObjectType(0)] /\ snap \in [Worker -> ObjectType(0)]
          /\ queued \in [Worker -> BOOLEAN] /\ timer \in [Worker -> BOOLEAN]
        BY <2>1 DEF Init
    <2> QED BY <2>1, <2>3, <2>4 DEF KubeTypes
<1>4. Placed
    <2>1. \A w \in Worker : pc[w] = "idle"
        BY DEF Init
    <2>2. "idle" \notin WithPrefix /\ WithMac \subseteq WithPrefix
        BY LabelFacts DEF WithPrefix
    <2> QED BY <2>1, <2>2 DEF Placed
<1> QED BY <1>1, <1>2, <1>3, <1>4 DEF Types

\* The disjuncts of the next-state relation, grouped as the proofs treat them.
LEMMA NextCases ==
    ASSUME [Next]_vars
    PROVE  \/ \E w \in Worker :
                  /\ UNCHANGED <<edits, crashes>>
                  /\ \/ Watch(w) \/ TimerFires(w) \/ Resync(w) \/ Skip(w)
                     \/ StrictError(w) \/ EnsureFinalizer(w) \/ StartReconcile(w) \/ StartDeletion(w)
                     \/ Unprepared(w) \/ SubnetError(w) \/ Finish(w) \/ RemoveFinalizer(w)
                     \/ GetSubnetInfo(w) \/ Reresolve(w)
                     \/ GetOrCreateSubnet(w) /\ UNCHANGED <<hvars, loc, kvars>>
                     \/ /\ UNCHANGED kvars
                        /\ \/ GetLeaseIPv4ForMAC(w) \/ GetStoredAddress(w) \/ Exists(w) \/ ExistsAll(w)
                           \/ ReservationAdd(w) \/ CleanupList(w) \/ DeleteReservationForMAC(w)
           \/ KeaStep
           \/ \E n \in NC : Create(n) \/ Edit(n) \/ Delete(n)
           \/ \E x \in NN : EditNamespace(x)
           \/ \E m \in Mac : Lease(m)
           \/ \E p \in Proc : Crash(p)
           \/ UNCHANGED vars
    BY Zenon DEF Next, WorkerStep, Start, Reconcile, ServiceStep

LEMMA NextTypes == Types /\ [Next]_vars => Types'
<1> SUFFICES ASSUME Types, [Next]_vars PROVE Types'
    OBVIOUS
<1>1. ASSUME NEW w \in Worker, UNCHANGED <<edits, crashes>>,
             Watch(w) \/ TimerFires(w) \/ Resync(w) \/ Skip(w)
      PROVE  Types'
    BY <1>1, QueueTyped
<1>2. ASSUME NEW w \in Worker, UNCHANGED <<edits, crashes>>,
             StrictError(w) \/ EnsureFinalizer(w) \/ StartReconcile(w) \/ StartDeletion(w)
      PROVE  Types'
    BY <1>2, StartTyped
<1>3. ASSUME NEW w \in Worker, UNCHANGED <<edits, crashes>>,
             Unprepared(w) \/ SubnetError(w) \/ Finish(w) \/ RemoveFinalizer(w)
      PROVE  Types'
    BY <1>3, EndTyped
<1>4. ASSUME NEW w \in Worker, UNCHANGED <<edits, crashes>>, GetSubnetInfo(w) \/ Reresolve(w)
      PROVE  Types'
    BY <1>4, InfoTyped
<1>5. ASSUME NEW w \in Worker, UNCHANGED <<edits, crashes>>,
             GetOrCreateSubnet(w), UNCHANGED <<hvars, loc, kvars>>
      PROVE  Types'
    BY <1>5, GocTyped
<1>6. ASSUME NEW w \in Worker, UNCHANGED <<edits, crashes>>, UNCHANGED kvars,
             \/ GetLeaseIPv4ForMAC(w) \/ GetStoredAddress(w) \/ Exists(w) \/ ExistsAll(w)
             \/ ReservationAdd(w) \/ CleanupList(w) \/ DeleteReservationForMAC(w)
      PROVE  Types'
    BY <1>6, ServiceTyped
<1>7. ASSUME UNCHANGED vars PROVE Types'
    BY <1>7 DEF vars, svars, hvars, kvars, Types, SubnetTypes, HostTypes, KubeTypes, Placed
<1> QED BY <1>1, <1>2, <1>3, <1>4, <1>5, <1>6, <1>7, KeaTyped, EnvironmentTyped, NextCases, Zenon

LEMMA TypesAlways == Spec => []Types
    BY InitTypes, NextTypes, PTL DEF Spec

\* Every reachable state is well typed: in particular an object that is deleted
\* still has the finalizer, generations count the edits, and the worker that
\* talks to Kea has a prefix and a MAC to talk about.
THEOREM TypeCorrect == Spec => []TypeOK
<1>1. Types => TypeOK
    <2> SUFFICES ASSUME Types PROVE TypeOK
        OBVIOUS
    <2>1. edits \in 0..MaxEdits /\ \A w \in Worker : IsObject(cache[w]) /\ IsObject(snap[w])
        BY IsObjectFact DEF Types, KubeTypes
    <2>2. \A n \in NC : IsObject(api[n])
        BY <2>1, IsObjectFact DEF Types, KubeTypes
    <2>3. \A w \in Worker : loc[w].todo \cup loc[w].done \cup loc[w].ips \subseteq Mac
        BY DEF Types, HostTypes, Locals
    <2> QED BY <2>1, <2>2, <2>3 DEF Types, SubnetTypes, HostTypes, KubeTypes, TypeOK
<1> QED BY <1>1, TypesAlways, PTL

-----------------------------------------------------------------------------
(* What a step can do to each part of the state. *)

SameButStatus(p, o) ==
    /\ p.exists = o.exists /\ p.deleting = o.deleting /\ p.fin = o.fin
    /\ p.gen = o.gen /\ p.provider = o.provider /\ p.macs = o.macs

\* The steps of Start that write a status, and those of Reconcile that do, with
\* the condition they write.
LEMMA StatusEffect ==
    ASSUME Types, NEW w \in Worker,
           \/ StrictError(w) \/ StartReconcile(w)
           \/ Unprepared(w) \/ SubnetError(w) \/ Finish(w)
    PROVE  \A n \in NC :
              /\ SameButStatus(api'[n], api[n])
              /\ \/ api'[n].status.cond = api[n].status.cond
                 \/ n = NcOf[w] /\ api'[n].status.cond.ready = "False"
                 \/ /\ n = NcOf[w] /\ Finish(w) /\ loc[w].errs = <<>>
                    /\ api'[n].status.cond = Condition("True", snap[w], <<"configured">>)
<1> USE DEF Types
<1>1. /\ NcOf[w] \in NC /\ edits \in Nat /\ faults \in 0..MaxFaults
      /\ cache[w] \in ObjectType(edits) /\ snap[w] \in ObjectType(edits)
      /\ cache[w].status.ifs \in SUBSET [mac : Mac, reserved : BOOLEAN, ip : BOOLEAN]
      /\ snap[w].status \in StatusType(edits)
      /\ snap[w].status.ifs \in SUBSET [mac : Mac, reserved : BOOLEAN, ip : BOOLEAN]
      /\ loc[w] \in Locals
    BY ObjectFacts DEF KubeTypes, HostTypes, SubnetTypes
<1>2. CASE StrictError(w)
    <2>1. PICK sent \in Reach :
            PatchStatus(w, cache[w], Failure(cache[w], <<"strict">>, cache[w].status.ifs), sent)
        BY <1>2 DEF StrictError
    <2>2. <<"strict">> \in Text
        BY MessageType DEF Message
    <2>3. Failure(cache[w], <<"strict">>, cache[w].status.ifs) \in StatusType(edits)
        BY <1>1, <2>2, FailureType
    <2>4. Failure(cache[w], <<"strict">>, cache[w].status.ifs).cond.ready = "False"
        BY DEF Failure, Condition
    <2> QED BY <1>1, <2>1, <2>3, <2>4, PatchEffect DEF SameButStatus
<1>3. CASE StartReconcile(w)
    <2> DEFINE new == [cond |-> Condition("False", cache[w], <<"reconciling">>),
                       phase |-> "Reconciling", msg |-> <<"reconciling">>,
                       ifs |-> cache[w].status.ifs]
    <2>1. api' = api \/ \E sent \in Reach : PatchStatus(w, cache[w], new, sent)
        BY <1>3 DEF StartReconcile
    <2>2. <<"reconciling">> \in Text
        BY MessageType DEF Message
    <2>3. new \in StatusType(edits)
        BY <1>1, <2>2, NewStatusType
    <2>4. new.cond.ready = "False"
        BY DEF Condition
    <2> HIDE DEF new
    <2>5. CASE api' = api
        BY <2>5 DEF SameButStatus
    <2> QED BY <1>1, <2>1, <2>3, <2>4, <2>5, PatchEffect DEF SameButStatus
<1>4. CASE Unprepared(w)
    <2>1. \A ph \in {"Error", "Ready"}, msg \in Text :
              /\ [snap[w].status EXCEPT !.phase = ph, !.msg = msg] \in StatusType(edits)
              /\ [snap[w].status EXCEPT !.phase = ph, !.msg = msg].cond = snap[w].status.cond
        BY <1>1 DEF StatusType
    <2>2. <<"prefix">> \in Text /\ <<"no MACs">> \in Text
        BY MessageType DEF Message
    <2> DEFINE noPrefix == arg[w] = None \/ (arg[w] = BadPrefix /\ snap[w].macs # {})
               new == [snap[w].status EXCEPT
                          !.phase = IF noPrefix THEN "Error" ELSE "Ready",
                          !.msg = IF noPrefix THEN <<"prefix">> ELSE <<"no MACs">>]
    <2>3. new \in StatusType(edits) /\ new.cond = snap[w].status.cond
        BY <2>1, <2>2, ZenonT(40)
    <2>4. \E sent \in Reach : PatchStatus(w, snap[w], new, sent)
        BY <1>4 DEF Unprepared
    <2> HIDE DEF new
    <2> QED BY <1>1, <2>3, <2>4, PatchEffect DEF SameButStatus
<1>5. CASE SubnetError(w)
    <2>1. PICK sent \in Reach :
            PatchStatus(w, snap[w], Failure(snap[w], <<"subnet">>, snap[w].status.ifs), sent)
        BY <1>5 DEF SubnetError
    <2>2. <<"subnet">> \in Text
        BY MessageType DEF Message
    <2>3. Failure(snap[w], <<"subnet">>, snap[w].status.ifs) \in StatusType(edits)
        BY <1>1, <2>2, FailureType
    <2>4. Failure(snap[w], <<"subnet">>, snap[w].status.ifs).cond.ready = "False"
        BY DEF Failure, Condition
    <2> QED BY <1>1, <2>1, <2>3, <2>4, PatchEffect DEF SameButStatus
<1>6. CASE Finish(w)
    <2> DEFINE o == snap[w]
               ifs == buildStatusInterfaces(o, loc[w])
               why == buildSuccessMessage(o, loc[w])
               good == [cond |-> Condition("True", o, <<"configured">>), phase |-> "Ready",
                        msg |-> why, ifs |-> ifs]
               bad == Failure(o, loc[w].errs, ifs)
    <2>1. ifs \in SUBSET [mac : Mac, reserved : BOOLEAN, ip : BOOLEAN] /\ why \in Text
        BY <1>1, InterfacesType
    <2>2. <<"configured">> \in Text /\ loc[w].errs \in Text
        BY <1>1, TextFacts, MessageType DEF Message, Locals
    <2>3. good \in StatusType(edits) /\ good.cond = Condition("True", o, <<"configured">>)
        <3> HIDE DEF ifs, why
        <3> QED BY <1>1, <2>1, <2>2, NewStatusType
    <2>4. bad \in StatusType(edits)
        <3> HIDE DEF ifs
        <3> QED BY <1>1, <2>1, <2>2, FailureType
    <2>5. bad.cond.ready = "False"
        BY DEF Failure, Condition
    <2>6. PICK sent \in Reach :
            PatchStatus(w, snap[w], IF loc[w].errs = <<>> THEN good ELSE bad, sent)
        BY <1>6 DEF Finish
    <2> HIDE DEF good, bad
    <2>7. CASE loc[w].errs = <<>>
        BY <1>1, <1>6, <2>3, <2>6, <2>7, PatchEffect DEF SameButStatus
    <2>8. CASE loc[w].errs # <<>>
        BY <1>1, <2>4, <2>5, <2>6, <2>8, PatchEffect DEF SameButStatus
    <2> QED BY <2>7, <2>8
<1> QED BY <1>2, <1>3, <1>4, <1>5, <1>6

\* A step that leaves all of NC n but its status alone.  Only a reconcile that
\* had no error sets the Ready condition to True.
StatusOnly(n) ==
    /\ SameButStatus(api'[n], api[n])
    /\ \/ api'[n].status.cond = api[n].status.cond
       \/ api'[n].status.cond.ready = "False"
       \/ \E w \in Worker :
            /\ NcOf[w] = n /\ Finish(w) /\ loc[w].errs = <<>>
            /\ api'[n].status.cond = Condition("True", snap[w], <<"configured">>)

\* How an NC on the API server can change: its status, its finalizer, or by a
\* user's hand.
LEMMA ApiEffect ==
    ASSUME Types, [Next]_vars, NEW n \in NC
    PROVE  \/ StatusOnly(n)
           \/ /\ \E w \in Worker : NcOf[w] = n /\ EnsureFinalizer(w)
              /\ api[n].exists /\ ~api[n].deleting
              /\ api'[n] = [api[n] EXCEPT !.fin = TRUE]
           \/ /\ \E w \in Worker : NcOf[w] = n /\ RemoveFinalizer(w)
              /\ api'[n] = Unfinalized(api[n])
           \/ /\ Recreate /\ ~api[n].exists
              /\ \E s \in Specs[n] : api'[n] = Created1(s)
           \/ /\ api[n].exists
              /\ \E s \in Specs[n] :
                    api'[n] = [api[n] EXCEPT !.provider = s.provider, !.macs = s.macs,
                                             !.gen = api[n].gen + 1]
           \/ /\ Delete(n) /\ n \in Deletable /\ api[n].exists /\ ~api[n].deleting
              /\ api'[n] = IF api[n].fin THEN [api[n] EXCEPT !.deleting = TRUE] ELSE Absent
<1> USE DEF Types
<1>1. CASE api' = api
    BY <1>1 DEF StatusOnly, SameButStatus
<1>2. ASSUME NEW w \in Worker,
             \/ StrictError(w) \/ StartReconcile(w)
             \/ Unprepared(w) \/ SubnetError(w) \/ Finish(w)
      PROVE  StatusOnly(n)
    BY <1>2, StatusEffect DEF StatusOnly
<1>3. api \in [NC -> ObjectType(edits)] /\ \A w \in Worker : NcOf[w] \in NC
    BY DEF KubeTypes
<1>4. ASSUME NEW w \in Worker, EnsureFinalizer(w), api' # api
      PROVE  \/ api'[n] = api[n]
             \/ /\ NcOf[w] = n /\ api[n].exists /\ ~api[n].deleting
                /\ api'[n] = [api[n] EXCEPT !.fin = TRUE]
    BY <1>3, <1>4 DEF EnsureFinalizer
<1>5. ASSUME NEW w \in Worker, RemoveFinalizer(w), api' # api
      PROVE  \/ api'[n] = api[n]
             \/ NcOf[w] = n /\ api'[n] = Unfinalized(api[n])
    BY <1>3, <1>5 DEF RemoveFinalizer
<1>6. ASSUME NEW k \in NC, Create(k)
      PROVE  \/ api'[n] = api[n]
             \/ /\ Recreate /\ ~api[n].exists
                /\ \E s \in Specs[n] : api'[n] = Created1(s)
    BY <1>3, <1>6 DEF Create
<1>7. ASSUME NEW k \in NC, Edit(k)
      PROVE  \/ api'[n] = api[n]
             \/ /\ api[n].exists
                /\ \E s \in Specs[n] :
                      api'[n] = [api[n] EXCEPT !.provider = s.provider, !.macs = s.macs,
                                               !.gen = api[n].gen + 1]
    <2>1. PICK s \in Specs[k] :
            api' = [api EXCEPT ![k] = [api[k] EXCEPT !.provider = s.provider, !.macs = s.macs,
                                                     !.gen = api[k].gen + 1]]
        BY <1>7, ZenonT(40) DEF Edit, KubeTypes
    <2> QED BY <1>3, <1>7, <2>1 DEF Edit
<1>8. ASSUME NEW k \in NC, Delete(k)
      PROVE  \/ api'[n] = api[n]
             \/ /\ Delete(n) /\ n \in Deletable /\ api[n].exists /\ ~api[n].deleting
                /\ api'[n] = IF api[n].fin THEN [api[n] EXCEPT !.deleting = TRUE] ELSE Absent
    BY <1>3, <1>8 DEF Delete
<1>9. api'[n] = api[n] => StatusOnly(n)
    BY DEF StatusOnly, SameButStatus
<1>10. \/ api' = api
       \/ \E w \in Worker : \/ StrictError(w) \/ StartReconcile(w)
                            \/ Unprepared(w) \/ SubnetError(w) \/ Finish(w)
       \/ \E w \in Worker : EnsureFinalizer(w) \/ RemoveFinalizer(w)
       \/ \E k \in NC : Create(k) \/ Edit(k) \/ Delete(k)
    BY NextCases DEF Watch, TimerFires, Resync, Skip, StartDeletion, GetSubnetInfo, Reresolve,
        kvars, KeaStep, EditNamespace, Lease, Crash, vars
<1> QED BY <1>1, <1>2, <1>4, <1>5, <1>6, <1>7, <1>8, <1>9, <1>10, Zenon

\* The same, field by field.
SameButFin(p, o) ==
    /\ p.exists = o.exists /\ p.deleting = o.deleting /\ p.gen = o.gen
    /\ p.provider = o.provider /\ p.macs = o.macs /\ p.status = o.status

LEMMA ApiFields ==
    ASSUME Types, [Next]_vars, NEW n \in NC
    PROVE  \/ StatusOnly(n)
           \/ /\ \E w \in Worker : NcOf[w] = n /\ EnsureFinalizer(w)
              /\ api[n].exists /\ ~api[n].deleting
              /\ api'[n].fin /\ SameButFin(api'[n], api[n])
           \/ /\ \E w \in Worker : NcOf[w] = n /\ RemoveFinalizer(w)
              /\ \/ api[n].deleting /\ api'[n] = Absent
                 \/ ~api[n].deleting /\ ~api'[n].fin /\ SameButFin(api'[n], api[n])
           \/ /\ Recreate /\ ~api[n].exists
              /\ \E s \in Specs[n] : api'[n] = Created1(s)
           \/ /\ api[n].exists
              /\ \E s \in Specs[n] : api'[n].provider = s.provider /\ api'[n].macs = s.macs
              /\ api'[n].gen = api[n].gen + 1
              /\ api'[n].exists = api[n].exists /\ api'[n].deleting = api[n].deleting
              /\ api'[n].fin = api[n].fin /\ api'[n].status = api[n].status
           \/ /\ Delete(n) /\ n \in Deletable /\ api[n].exists /\ ~api[n].deleting
              /\ \/ ~api[n].fin /\ api'[n] = Absent
                 \/ /\ api[n].fin
                    /\ api'[n].deleting
                    /\ api'[n].exists = api[n].exists /\ api'[n].fin = api[n].fin
                    /\ api'[n].gen = api[n].gen /\ api'[n].provider = api[n].provider
                    /\ api'[n].macs = api[n].macs /\ api'[n].status = api[n].status
<1>1. api[n] \in Record(edits)
    BY DEF Types, KubeTypes, ObjectType
<1>2. ASSUME api'[n] = [api[n] EXCEPT !.fin = TRUE]
      PROVE  api'[n].fin = TRUE /\ SameButFin(api'[n], api[n])
    BY <1>1, <1>2 DEF Record, SameButFin
<1>3. ASSUME api'[n] = [api[n] EXCEPT !.fin = FALSE]
      PROVE  api'[n].fin = FALSE /\ SameButFin(api'[n], api[n])
    BY <1>1, <1>3 DEF Record, SameButFin
<1>4. ASSUME NEW s, api'[n] = [api[n] EXCEPT !.provider = s.provider, !.macs = s.macs,
                                             !.gen = api[n].gen + 1]
      PROVE  /\ api'[n].provider = s.provider /\ api'[n].macs = s.macs
             /\ api'[n].gen = api[n].gen + 1
             /\ api'[n].exists = api[n].exists /\ api'[n].deleting = api[n].deleting
             /\ api'[n].fin = api[n].fin /\ api'[n].status = api[n].status
    BY <1>1, <1>4 DEF Record
<1>5. ASSUME api'[n] = [api[n] EXCEPT !.deleting = TRUE]
      PROVE  /\ api'[n].deleting = TRUE
             /\ api'[n].exists = api[n].exists /\ api'[n].fin = api[n].fin
             /\ api'[n].gen = api[n].gen /\ api'[n].provider = api[n].provider
             /\ api'[n].macs = api[n].macs /\ api'[n].status = api[n].status
    BY <1>1, <1>5 DEF Record
<1>6. ASSUME api'[n] = Unfinalized(api[n])
      PROVE  \/ api[n].deleting /\ api'[n] = Absent
             \/ ~api[n].deleting /\ api'[n] = [api[n] EXCEPT !.fin = FALSE]
    BY <1>6 DEF Unfinalized
<1>7. ASSUME api'[n] = IF api[n].fin THEN [api[n] EXCEPT !.deleting = TRUE] ELSE Absent
      PROVE  \/ ~api[n].fin /\ api'[n] = Absent
             \/ api[n].fin /\ api'[n] = [api[n] EXCEPT !.deleting = TRUE]
    BY <1>7
<1> QED BY <1>2, <1>3, <1>4, <1>5, <1>6, <1>7, ApiEffect, ZenonT(40)

\* The cache only ever takes over what the API server has, or is emptied.
LEMMA CacheEffect ==
    ASSUME Types, [Next]_vars, NEW w \in Worker
    PROVE  \/ cache'[w] = cache[w]
           \/ cache'[w] = api[NcOf[w]] /\ api' = api
           \/ cache'[w] = Absent /\ api' = api
<1>1. ASSUME NEW v \in Worker, Watch(v)
      PROVE  cache'[w] = cache[w] \/ (cache'[w] = api[NcOf[w]] /\ api' = api)
    BY <1>1 DEF Watch, Types, KubeTypes
<1>2. ASSUME NEW p \in Proc, Crash(p)
      PROVE  cache'[w] = cache[w] \/ (cache'[w] = Absent /\ api' = api)
    BY <1>2 DEF Crash, Types, KubeTypes
<1>3. \/ cache' = cache
      \/ \E v \in Worker : Watch(v)
      \/ \E p \in Proc : Crash(p)
    BY NextCases, ZenonT(40) DEF TimerFires, Resync, Skip, StrictError, EnsureFinalizer, StartReconcile,
        StartDeletion, Unprepared, SubnetError, Finish, RemoveFinalizer, GetSubnetInfo,
        Reresolve, kvars, KeaStep, Create, Edit, Delete, EditNamespace, Lease, vars
<1> QED BY <1>1, <1>2, <1>3

\* The steps of worker w that leave the label "idle" or go on from another one.
OwnStep(w) ==
    \/ StartReconcile(w) \/ StartDeletion(w)
    \/ Unprepared(w) \/ SubnetError(w) \/ Finish(w) \/ RemoveFinalizer(w)
    \/ GetSubnetInfo(w) \/ Reresolve(w)
    \/ GetOrCreateSubnet(w) /\ UNCHANGED <<hvars, loc, kvars>>
    \/ /\ UNCHANGED kvars
       /\ \/ GetLeaseIPv4ForMAC(w) \/ GetStoredAddress(w) \/ Exists(w) \/ ExistsAll(w)
          \/ ReservationAdd(w) \/ CleanupList(w) \/ DeleteReservationForMAC(w)

\* GetOrCreateSubnet moves its own worker, to one of its own labels.
LEMMA GocEffect ==
    ASSUME Types, NEW w \in Worker, GetOrCreateSubnet(w)
    PROVE  /\ pc[w] \in GocLabel \ {"ok", "failed"} /\ pc'[w] \in GocLabel /\ arg' = arg
           /\ \A v \in Worker \ {w} : pc'[v] = pc[v] /\ sid'[v] = sid[v]
<1> USE DEF Types, SubnetTypes
<1>1. pc[w] \in GocLabel \ {"ok", "failed"} /\ arg' = arg
    BY DEF GetOrCreateSubnet, Acquire, Get, PickID, Add, Reget, GocLabel, Locked
<1>2. \E l \in GocLabel : Goto(w, l)
    BY DEF GetOrCreateSubnet, Acquire, Get, PickID, Add, Reget, Return, GocLabel, Locked
<1>3. sid' = sid \/ \E i : sid' = [sid EXCEPT ![w] = i]
    BY DEF GetOrCreateSubnet, Acquire, Get, PickID, Add, Reget, Return
<1> QED BY <1>1, <1>2, <1>3 DEF Goto

\* A worker's place and locals change by its own steps and by a crash only.
LEMMA WorkerEffect ==
    ASSUME Types, [Next]_vars, NEW w \in Worker
    PROVE  \/ /\ pc'[w] = pc[w] /\ arg'[w] = arg[w] /\ sid'[w] = sid[w]
              /\ loc'[w] = loc[w] /\ snap'[w] = snap[w]
           \/ /\ pc'[w] = "idle" /\ loc'[w] = NoLocals /\ snap'[w] = Absent
              /\ cache'[w] = Absent /\ \E p \in Proc : Crash(p)
           \/ OwnStep(w) /\ UNCHANGED <<edits, crashes>>
<1> USE DEF Types
<1> DEFINE Still == /\ pc'[w] = pc[w] /\ arg'[w] = arg[w] /\ sid'[w] = sid[w]
                    /\ loc'[w] = loc[w] /\ snap'[w] = snap[w]
<1>1. ASSUME NEW v \in Worker, OwnStep(v), v # w PROVE Still
    <2>1. CASE StartReconcile(v)
        BY <1>1, <2>1 DEF StartReconcile, Goto, SubnetTypes, HostTypes, KubeTypes
    <2>2. CASE StartDeletion(v)
        BY <1>1, <2>2 DEF StartDeletion, Goto, Local, SubnetTypes, HostTypes, KubeTypes
    <2>3. CASE Unprepared(v) \/ SubnetError(v) \/ Finish(v) \/ RemoveFinalizer(v)
        <3>1. Leave(v)
            BY <2>3 DEF Unprepared, SubnetError, Finish, RemoveFinalizer
        <3> QED BY <1>1, <3>1 DEF Leave, Goto, Local, SubnetTypes, HostTypes, KubeTypes
    <2>4. CASE GetSubnetInfo(v) \/ Reresolve(v)
        BY <1>1, <2>4 DEF GetSubnetInfo, Reresolve, Goto, Local, SubnetTypes, HostTypes, kvars
    <2>5. CASE GetOrCreateSubnet(v) /\ UNCHANGED <<hvars, loc, kvars>>
        BY <1>1, <2>5, GocEffect DEF kvars
    <2>6. CASE /\ UNCHANGED kvars
               /\ \/ GetLeaseIPv4ForMAC(v) \/ GetStoredAddress(v) \/ Exists(v) \/ ExistsAll(v)
                  \/ ReservationAdd(v) \/ CleanupList(v) \/ DeleteReservationForMAC(v)
        <3>1. sid' = sid \/ \E i : sid' = [sid EXCEPT ![v] = i]
            BY <2>6 DEF GetLeaseIPv4ForMAC, GetStoredAddress, Exists, ExistsAll, ReservationAdd,
                   CleanupList, DeleteReservationForMAC
        <3>2. sid'[w] = sid[w]
            BY <1>1, <3>1 DEF SubnetTypes
        <3>3. pc'[w] = pc[w] /\ arg' = arg /\ loc'[w] = loc[w]
            BY <1>1, <2>6, MacStepEffect
        <3> QED BY <2>6, <3>2, <3>3, SMTT(40) DEF kvars
    <2> QED BY <1>1, <2>1, <2>2, <2>3, <2>4, <2>5, <2>6 DEF OwnStep
<1>2. ASSUME NEW p \in Proc, Crash(p)
      PROVE  \/ Still
             \/ pc'[w] = "idle" /\ loc'[w] = NoLocals /\ snap'[w] = Absent /\ cache'[w] = Absent
    BY <1>2 DEF Crash
<1>3. \/ UNCHANGED <<pc, arg, sid, loc, snap>>
      \/ \E v \in Worker : OwnStep(v) /\ UNCHANGED <<edits, crashes>>
      \/ \E p \in Proc : Crash(p)
    BY NextCases, ZenonT(40) DEF OwnStep, Watch, TimerFires, Resync, Skip, StrictError, EnsureFinalizer,
        KeaStep, LateAdd, LateHost, Create, Edit, Delete, EditNamespace, Lease, vars, svars, kvars
<1> QED BY <1>1, <1>2, <1>3

\* The reservations change by reservation commands only, at once or late.
LEMMA HostEffect ==
    ASSUME [Next]_vars
    PROVE  \/ UNCHANGED <<hosts, lostHosts>>
           \/ \E w \in Worker : ReservationAdd(w) /\ UNCHANGED <<kvars, edits, crashes>>
           \/ \E w \in Worker : DeleteReservationForMAC(w) /\ UNCHANGED <<kvars, edits, crashes>>
           \/ \E a \in lostHosts : LateHost(a) /\ UNCHANGED <<kvars, edits, crashes>>
<1> DEFINE Still == UNCHANGED <<hosts, lostHosts>>
<1>1. ASSUME NEW w \in Worker, Watch(w) \/ TimerFires(w) \/ Resync(w) \/ Skip(w) PROVE Still
    BY <1>1 DEF Watch, TimerFires, Resync, Skip, hvars
<1>2. ASSUME NEW w \in Worker,
             StrictError(w) \/ EnsureFinalizer(w) \/ StartReconcile(w) \/ StartDeletion(w)
      PROVE  Still
    BY <1>2 DEF StrictError, EnsureFinalizer, StartReconcile, StartDeletion, hvars
<1>3. ASSUME NEW w \in Worker,
             \/ Unprepared(w) \/ SubnetError(w) \/ Finish(w) \/ RemoveFinalizer(w)
             \/ GetSubnetInfo(w) \/ Reresolve(w)
      PROVE  Still
    BY <1>3 DEF Unprepared, SubnetError, Finish, RemoveFinalizer, GetSubnetInfo, Reresolve, hvars
<1>4. ASSUME NEW w \in Worker,
             \/ GetLeaseIPv4ForMAC(w) \/ GetStoredAddress(w) \/ Exists(w) \/ ExistsAll(w)
             \/ CleanupList(w)
      PROVE  Still
    BY <1>4 DEF GetLeaseIPv4ForMAC, GetStoredAddress, Exists, ExistsAll, CleanupList, hvars
<1>5. ASSUME \/ \E n \in NC : Create(n) \/ Edit(n) \/ Delete(n)
             \/ \E x \in NN : EditNamespace(x)
             \/ \E m \in Mac : Lease(m)
             \/ \E p \in Proc : Crash(p)
             \/ UNCHANGED vars
      PROVE  Still
    BY <1>5 DEF Create, Edit, Delete, EditNamespace, Lease, Crash, vars, hvars
<1>6. ASSUME KeaStep
      PROVE  \/ Still
             \/ \E a \in lostHosts : LateHost(a) /\ UNCHANGED <<kvars, edits, crashes>>
    BY <1>6 DEF KeaStep, hvars
<1>7. ASSUME UNCHANGED hvars PROVE Still
    BY <1>7 DEF hvars
<1> HIDE DEF Still
<1>8. \/ Still
      \/ \E w \in Worker : ReservationAdd(w) /\ UNCHANGED <<kvars, edits, crashes>>
      \/ \E w \in Worker : DeleteReservationForMAC(w) /\ UNCHANGED <<kvars, edits, crashes>>
      \/ \E a \in lostHosts : LateHost(a) /\ UNCHANGED <<kvars, edits, crashes>>
    BY <1>1, <1>2, <1>3, <1>4, <1>5, <1>6, <1>7, NextCases
<1> QED BY <1>8 DEF Still

-----------------------------------------------------------------------------
(* Which MACs the objects and the reconciles can hold. *)

\* How a step of the reservation half changes the worker's locals.
LEMMA MacStepLocals ==
    ASSUME Types, NEW w \in Worker,
           \/ GetLeaseIPv4ForMAC(w) \/ GetStoredAddress(w) \/ Exists(w) \/ ExistsAll(w)
           \/ ReservationAdd(w) \/ CleanupList(w) \/ DeleteReservationForMAC(w)
    PROVE  /\ loc'[w].todo \subseteq loc[w].todo
           /\ pc'[w] \in WithMac =>
                 /\ loc'[w].done = loc[w].done /\ loc'[w].errs = loc[w].errs
                 /\ \/ /\ pc[w] = "mac" /\ loc'[w].mac \in loc[w].todo
                       /\ loc'[w].todo = loc[w].todo \ {loc'[w].mac}
                    \/ /\ pc[w] \in WithMac /\ loc'[w].mac = loc[w].mac
                       /\ loc'[w].todo = loc[w].todo
           /\ pc'[w] = "mac" =>
                 /\ pc[w] \in WithMac /\ loc'[w].todo = loc[w].todo
                 /\ \/ /\ Exists(w) \/ ExistsAll(w) \/ ReservationAdd(w)
                       /\ MacDone(w)
                       /\ loc'[w].done = loc[w].done \cup {loc[w].mac}
                       /\ loc'[w].errs = loc[w].errs
                    \/ /\ loc'[w].errs = Append(loc[w].errs, loc[w].mac)
                       /\ loc'[w].done = loc[w].done
           /\ pc'[w] \in {"delMac", "unfinalize"} =>
                 pc[w] \in {"cleanup", "delMac"} /\ loc'[w].done = loc[w].done
<1> USE DEF Types
<1>1. loc[w] \in Locals /\ loc \in [Worker -> Locals] /\ pc \in [Worker -> Label]
    BY DEF HostTypes, SubnetTypes
<1>2. ASSUME NEW l, Goto(w, l) PROVE pc'[w] = l
    BY <1>1, <1>2 DEF Goto
<1>3. ASSUME NEW l, Local(w, l) PROVE loc'[w] = l
    BY <1>1, <1>3 DEF Local
<1>4. ASSUME MacDone(w)
      PROVE  /\ pc'[w] = "mac" /\ loc'[w].todo = loc[w].todo /\ loc'[w].errs = loc[w].errs
             /\ loc'[w].done = loc[w].done \cup {loc[w].mac}
    <2>1. /\ pc'[w] = "mac"
          /\ loc'[w] = [loc[w] EXCEPT !.mac = None, !.hsid = 0, !.ip = None,
                               !.done = @ \cup {loc[w].mac},
                               !.ips = IF loc[w].ip = None THEN @ ELSE @ \cup {loc[w].mac}]
        BY <1>2, <1>3, <1>4 DEF MacDone
    <2> QED BY <1>1, <2>1 DEF Locals
<1>5. ASSUME MacFailed(w)
      PROVE  /\ pc'[w] = "mac" /\ loc'[w].todo = loc[w].todo /\ loc'[w].done = loc[w].done
             /\ loc'[w].errs = Append(loc[w].errs, loc[w].mac)
    <2>1. /\ pc'[w] = "mac"
          /\ loc'[w] = [loc[w] EXCEPT !.mac = None, !.hsid = 0, !.ip = None,
                               !.errs = Append(@, loc[w].mac)]
        BY <1>2, <1>3, <1>5 DEF MacFailed
    <2> QED BY <1>1, <2>1 DEF Locals
<1>6. ASSUME NEW l \in Locals, NEW c, NEW id, UseLease(w, l, c, id)
      PROVE  /\ pc'[w] = "exists" /\ loc'[w].todo = l.todo /\ loc'[w].mac = l.mac
             /\ loc'[w].done = l.done /\ loc'[w].errs = l.errs
    <2>1. /\ pc'[w] = "exists"
          /\ loc'[w] = [l EXCEPT !.hsid = IF id > 0 THEN id ELSE sid[w],
                                 !.ip = IF c = arg[w] THEN c ELSE None]
        BY <1>2, <1>3, <1>6, SMTT(40) DEF UseLease
    <2> QED BY <2>1 DEF Locals
<1>7. CASE GetLeaseIPv4ForMAC(w)
    <2>1. PICK m \in loc[w].todo :
            LET l == [loc[w] EXCEPT !.todo = @ \ {m}, !.mac = m] IN
            \/ \E c, id : UseLease(w, l, c, id)
            \/ Goto(w, "stored") /\ Local(w, l)
        BY <1>7 DEF GetLeaseIPv4ForMAC
    <2> DEFINE l == [loc[w] EXCEPT !.todo = @ \ {m}, !.mac = m]
    <2>2. /\ l \in Locals /\ l.mac = m /\ l.todo = loc[w].todo \ {m}
          /\ l.done = loc[w].done /\ l.errs = loc[w].errs
        BY <1>1 DEF Locals
    <2> HIDE DEF l
    <2>3. /\ pc'[w] \in {"exists", "stored"} /\ loc'[w].todo = l.todo /\ loc'[w].mac = l.mac
          /\ loc'[w].done = l.done /\ loc'[w].errs = l.errs
        BY <1>2, <1>3, <1>6, <2>1, <2>2 DEF l
    <2> QED BY <1>7, <2>2, <2>3, ZenonT(40) DEF GetLeaseIPv4ForMAC, WithMac
<1>8. CASE GetStoredAddress(w)
    <2>1. \E c, id : UseLease(w, loc[w], c, id)
        BY <1>8 DEF GetStoredAddress
    <2>2. /\ pc'[w] = "exists" /\ loc'[w].todo = loc[w].todo /\ loc'[w].mac = loc[w].mac
          /\ loc'[w].done = loc[w].done /\ loc'[w].errs = loc[w].errs
        BY <1>1, <1>6, <2>1
    <2> QED BY <1>8, <2>2 DEF GetStoredAddress, WithMac
<1>9. CASE Exists(w) \/ ExistsAll(w)
    <2>1. pc[w] \in WithMac
        BY <1>9 DEF Exists, ExistsAll, WithMac
    <2>2. MacDone(w) \/ \E l \in {"existsAll", "resAdd"} : Goto(w, l) /\ UNCHANGED loc
        BY <1>9 DEF Exists, ExistsAll
    <2>3. CASE MacDone(w)
        BY <1>4, <1>9, <2>1, <2>3 DEF WithMac
    <2>4. CASE \E l \in {"existsAll", "resAdd"} : Goto(w, l) /\ UNCHANGED loc
        BY <1>2, <2>1, <2>4
    <2> QED BY <2>2, <2>3, <2>4
<1>10. CASE ReservationAdd(w)
    <2>1. pc[w] \in WithMac /\ (MacDone(w) \/ MacFailed(w))
        BY <1>10 DEF ReservationAdd, WithMac
    <2> QED BY <1>4, <1>5, <1>10, <2>1 DEF WithMac
<1>11. CASE CleanupList(w)
    <2>1. pc[w] = "cleanup" /\ pc'[w] \in {"delMac", "unfinalize"} /\ loc' = loc
        BY <1>2, <1>11 DEF CleanupList
    <2> QED BY <2>1 DEF WithMac
<1>12. CASE DeleteReservationForMAC(w)
    <2>1. pc[w] = "delMac" /\ pc'[w] \in {"delMac", "unfinalize"}
        BY <1>2, <1>12 DEF DeleteReservationForMAC
    <2>2. loc' = loc \/ \E m \in loc[w].todo : loc'[w] = [loc[w] EXCEPT !.todo = @ \ {m}]
        BY <1>3, <1>12 DEF DeleteReservationForMAC
    <2>3. loc'[w].todo \subseteq loc[w].todo /\ loc'[w].done = loc[w].done
        <3>1. ASSUME NEW m \in loc[w].todo, loc'[w] = [loc[w] EXCEPT !.todo = @ \ {m}]
              PROVE  loc'[w].todo = loc[w].todo \ {m} /\ loc'[w].done = loc[w].done
            BY <1>1, <3>1 DEF Locals
        <3> QED BY <2>2, <3>1
    <2> QED BY <2>1, <2>3 DEF WithMac
<1> QED BY <1>7, <1>8, <1>9, <1>10, <1>11, <1>12

\* The MACs that an NC may ever list.
MayList(n) == UNION {t.macs : t \in Specs[n]}

\* An NC on the API server is as some user wrote it, and no reconcile handles a
\* MAC that its NC never listed.
Listed ==
    /\ \A n \in NC :
        /\ \/ ~api[n].exists /\ api[n].gen = 0 /\ api[n].macs = {}
           \/ /\ api[n].exists /\ api[n].gen >= 1
              /\ \E t \in Specs[n] : api[n].provider = t.provider /\ api[n].macs = t.macs
        /\ n \notin Deletable => api[n].exists /\ ~api[n].deleting
    /\ \A w \in Worker :
        /\ cache[w].macs \subseteq MayList(NcOf[w]) /\ snap[w].macs \subseteq MayList(NcOf[w])
        /\ loc[w].todo \subseteq MayList(NcOf[w])
        /\ pc[w] \in WithMac => loc[w].mac \in MayList(NcOf[w])

\* A reconcile starts by StartReconcile or StartDeletion.
LEMMA OwnIdle ==
    ASSUME NEW w \in Worker, OwnStep(w), pc[w] = "idle"
    PROVE  StartReconcile(w) \/ StartDeletion(w)
<1>1. ~(Unprepared(w) \/ SubnetError(w) \/ Finish(w) \/ RemoveFinalizer(w))
    BY DEF Unprepared, SubnetError, Finish, RemoveFinalizer
<1>2. ~(GetSubnetInfo(w) \/ Reresolve(w))
    BY DEF GetSubnetInfo, Reresolve
<1>3. ~GetOrCreateSubnet(w)
    BY DEF GetOrCreateSubnet, Acquire, Get, PickID, Add, Reget
<1>4. ~(\/ GetLeaseIPv4ForMAC(w) \/ GetStoredAddress(w) \/ Exists(w) \/ ExistsAll(w)
        \/ ReservationAdd(w) \/ CleanupList(w) \/ DeleteReservationForMAC(w))
    BY DEF GetLeaseIPv4ForMAC, GetStoredAddress, Exists, ExistsAll, ReservationAdd,
           CleanupList, DeleteReservationForMAC
<1> QED BY <1>1, <1>2, <1>3, <1>4 DEF OwnStep

\* What a worker's copy of its NC and its label become by its own steps.
LEMMA OwnEffect ==
    ASSUME Types, NEW w \in Worker, OwnStep(w)
    PROVE  /\ \/ snap'[w] = snap[w] \/ snap'[w] = Absent
              \/ /\ pc[w] = "idle" /\ SameButStatus(snap'[w], cache[w])
                 /\ cache[w].exists /\ cache' = cache
           /\ \/ pc[w] = "idle" /\ pc'[w] \in {"lock", "unprepared", "cleanup", "unfinalize"}
              \/ pc'[w] = "idle" /\ snap'[w] = Absent
              \/ /\ pc'[w] \in GocLabel \cup {"reresolve", "mac"} \cup WithMac
                 /\ pc[w] \in (GocLabel \ {"failed"}) \cup {"reresolve", "mac"} \cup WithMac
                 /\ UNCHANGED kvars
              \/ /\ pc[w] \in {"cleanup", "delMac"} /\ pc'[w] \in {"delMac", "unfinalize"}
                 /\ UNCHANGED kvars
<1> USE DEF Types
<1>1. pc \in [Worker -> Label] /\ snap \in [Worker -> ObjectType(edits)]
      /\ cache[w] \in ObjectType(edits) /\ edits \in Nat
    BY DEF SubnetTypes, KubeTypes
<1>2. CASE StartReconcile(w)
    <2>1. pc[w] = "idle" /\ pc'[w] \in {"lock", "unprepared"} /\ cache' = cache
        BY <1>1, <1>2 DEF StartReconcile, Dequeue, Goto
    <2>2. cache[w].exists
        BY <1>2 DEF StartReconcile, Claimed, Ours
    <2> DEFINE new == [cond |-> Condition("False", cache[w], <<"reconciling">>),
                       phase |-> "Reconciling", msg |-> <<"reconciling">>,
                       ifs |-> cache[w].status.ifs]
    <2>3. \/ snap'[w] = cache[w]
          \/ \E sent \in Reach : snap'[w] = AfterPatch(w, cache[w], new, sent)
        BY <1>1, <1>2 DEF StartReconcile
    <2>4. new \in StatusType(edits)
        <3>1. <<"reconciling">> \in Text
            BY MessageType DEF Message
        <3>2. cache[w].status.ifs \in SUBSET [mac : Mac, reserved : BOOLEAN, ip : BOOLEAN]
            BY <1>1, ObjectFacts
        <3> QED BY <1>1, <3>1, <3>2, NewStatusType
    <2> HIDE DEF new
    <2>5. SameButStatus(snap'[w], cache[w])
        BY <1>1, <2>3, <2>4, AfterPatchEffect DEF SameButStatus
    <2> QED BY <2>1, <2>2, <2>5
<1>3. CASE StartDeletion(w)
    <2>1. pc[w] = "idle" /\ pc'[w] \in {"cleanup", "unfinalize"} /\ cache' = cache /\ cache[w].exists
        BY <1>1, <1>3 DEF StartDeletion, Dequeue, Goto, Ours
    <2>2. SameButStatus(snap'[w], cache[w])
        BY <1>1, <1>3 DEF StartDeletion, SameButStatus
    <2> QED BY <2>1, <2>2
<1>4. CASE Unprepared(w) \/ SubnetError(w) \/ Finish(w) \/ RemoveFinalizer(w)
    <2>1. Leave(w)
        BY <1>4 DEF Unprepared, SubnetError, Finish, RemoveFinalizer
    <2> QED BY <1>1, <2>1 DEF Leave, Goto
<1>5. CASE GetSubnetInfo(w) \/ Reresolve(w)
    BY <1>1, <1>5 DEF GetSubnetInfo, Reresolve, Goto, kvars, GocLabel
<1>6. CASE GetOrCreateSubnet(w) /\ UNCHANGED <<hvars, loc, kvars>>
    BY <1>6, GocEffect DEF kvars
<1>7. CASE /\ UNCHANGED kvars
           /\ \/ GetLeaseIPv4ForMAC(w) \/ GetStoredAddress(w) \/ Exists(w) \/ ExistsAll(w)
              \/ ReservationAdd(w) \/ CleanupList(w) \/ DeleteReservationForMAC(w)
    <2>1. snap'[w] = snap[w]
        BY <1>7 DEF kvars
    <2>2. pc[w] \in {"mac", "cleanup", "delMac"} \cup WithMac
        BY <1>7, MacStepEffect
    <2>3. pc'[w] \in {"mac", "delMac", "unfinalize"} \cup WithMac
        BY <1>7, MacStepEffect
    <2>4. /\ pc'[w] \in WithMac => pc[w] \in {"mac"} \cup WithMac
          /\ pc'[w] = "mac" => pc[w] \in WithMac
          /\ pc'[w] \in {"delMac", "unfinalize"} => pc[w] \in {"cleanup", "delMac"}
        BY <1>7, MacStepLocals
    <2> QED BY <1>7, <2>1, <2>2, <2>3, <2>4
<1> QED BY <1>2, <1>3, <1>4, <1>5, <1>6, <1>7 DEF OwnStep

\* The locals that count for a step of its own.
LEMMA OwnLocals ==
    ASSUME Types, NEW w \in Worker, OwnStep(w)
    PROVE  /\ \/ loc'[w].todo \subseteq loc[w].todo
              \/ pc[w] = "ok" /\ loc'[w].todo = snap[w].macs
              \/ pc[w] = "idle" /\ loc'[w].todo = cache[w].macs
           /\ pc'[w] \in WithMac =>
                 \/ pc[w] = "mac" /\ loc'[w].mac \in loc[w].todo
                 \/ pc[w] \in WithMac /\ loc'[w].mac = loc[w].mac
<1> USE DEF Types
<1>1. pc \in [Worker -> Label] /\ loc \in [Worker -> Locals]
    BY DEF SubnetTypes, HostTypes
<1>2. CASE StartReconcile(w)
    <2>1. pc'[w] \in {"lock", "unprepared"} /\ loc' = loc
        BY <1>1, <1>2 DEF StartReconcile, Goto
    <2> QED BY <2>1 DEF WithMac
<1>3. CASE StartDeletion(w)
    <2>1. pc[w] = "idle" /\ pc'[w] \in {"cleanup", "unfinalize"}
        BY <1>1, <1>3 DEF StartDeletion, Dequeue, Goto
    <2>2. loc'[w].todo = cache[w].macs
        BY <1>1, <1>3 DEF StartDeletion, Local, NoLocals
    <2> QED BY <2>1, <2>2 DEF WithMac
<1>4. CASE Unprepared(w) \/ SubnetError(w) \/ Finish(w) \/ RemoveFinalizer(w)
    <2>1. Leave(w)
        BY <1>4 DEF Unprepared, SubnetError, Finish, RemoveFinalizer
    <2>2. pc'[w] = "idle" /\ loc'[w] = NoLocals
        BY <1>1, <2>1 DEF Leave, Goto, Local
    <2> QED BY <2>2 DEF WithMac, NoLocals
<1>5. CASE GetSubnetInfo(w)
    <2>1. pc[w] = "ok" /\ pc'[w] \in {"reresolve", "mac"}
        BY <1>1, <1>5 DEF GetSubnetInfo, Goto
    <2>2. loc'[w].todo = snap[w].macs
        BY <1>1, <1>5 DEF GetSubnetInfo, Local, NoLocals
    <2> QED BY <2>1, <2>2 DEF WithMac
<1>6. CASE Reresolve(w)
    <2>1. pc'[w] = "mac" /\ loc' = loc
        BY <1>1, <1>6 DEF Reresolve, Goto
    <2> QED BY <2>1 DEF WithMac
<1>7. CASE GetOrCreateSubnet(w) /\ UNCHANGED <<hvars, loc, kvars>>
    BY <1>7, GocEffect DEF GocLabel, Locked, WithMac
<1>8. CASE /\ UNCHANGED kvars
           /\ \/ GetLeaseIPv4ForMAC(w) \/ GetStoredAddress(w) \/ Exists(w) \/ ExistsAll(w)
              \/ ReservationAdd(w) \/ CleanupList(w) \/ DeleteReservationForMAC(w)
    BY <1>8, MacStepLocals
<1> QED BY <1>2, <1>3, <1>4, <1>5, <1>6, <1>7, <1>8 DEF OwnStep

LEMMA ListedAlways == Spec => []Listed
<1>1. Init => Listed
    <2> SUFFICES ASSUME Init PROVE Listed
        OBVIOUS
    <2>1. ASSUME NEW n \in NC
          PROVE  /\ api[n].exists /\ api[n].gen >= 1
                 /\ \E t \in Specs[n] : api[n].provider = t.provider /\ api[n].macs = t.macs
                 /\ ~api[n].deleting
        <3>1. PICK s \in Specs[n] : api[n] = Created1(s)
            BY DEF Init
        <3> QED BY <3>1, Created1Type
    <2>2. ASSUME NEW w \in Worker
          PROVE  cache[w] = Absent /\ snap[w] = Absent /\ loc[w] = NoLocals /\ pc[w] = "idle"
        BY DEF Init
    <2>3. NoLocals.todo = {} /\ "idle" \notin WithMac
        BY DEF NoLocals, WithMac
    <2> QED BY <2>1, <2>2, <2>3, AbsentFacts DEF Listed
<1>2. Types /\ Types' /\ Listed /\ [Next]_vars => Listed'
    <2> SUFFICES ASSUME Types, Types', Listed, [Next]_vars PROVE Listed'
        OBVIOUS
    <2>1. ASSUME NEW n \in NC
          PROVE  /\ \/ ~api'[n].exists /\ api'[n].gen = 0 /\ api'[n].macs = {}
                    \/ /\ api'[n].exists /\ api'[n].gen >= 1
                       /\ \E t \in Specs[n] : api'[n].provider = t.provider /\ api'[n].macs = t.macs
                 /\ n \notin Deletable => api'[n].exists /\ ~api'[n].deleting
        <3>1. api[n] \in ObjectType(edits) /\ edits \in Nat /\ api[n].gen \in Nat
            BY ObjectFacts DEF Types, KubeTypes
        <3>2. CASE StatusOnly(n)
            BY <3>2 DEF Listed, StatusOnly, SameButStatus
        <3>3. CASE SameButFin(api'[n], api[n])
            BY <3>3 DEF Listed, SameButFin
        <3>4. CASE (n \in Deletable \/ api[n].deleting) /\ api'[n] = Absent
            BY <3>4, AbsentFacts DEF Listed
        <3>5. CASE ~api[n].exists /\ \E s \in Specs[n] : api'[n] = Created1(s)
            BY <3>1, <3>5, Created1Type
        <3>6. CASE /\ api[n].exists
                   /\ \E s \in Specs[n] : api'[n].provider = s.provider /\ api'[n].macs = s.macs
                   /\ api'[n].gen = api[n].gen + 1
                   /\ api'[n].exists = api[n].exists /\ api'[n].deleting = api[n].deleting
            BY <3>1, <3>6 DEF Listed
        <3>7. CASE /\ n \in Deletable /\ api[n].exists
                   /\ api'[n].exists = api[n].exists
                   /\ api'[n].gen = api[n].gen /\ api'[n].provider = api[n].provider
                   /\ api'[n].macs = api[n].macs
            BY <3>7 DEF Listed
        <3> QED BY <3>2, <3>3, <3>4, <3>5, <3>6, <3>7, ApiFields, Zenon
    <2>2. ASSUME NEW n \in NC PROVE api[n].macs \subseteq MayList(n)
        BY DEF Listed, MayList
    <2>3. ASSUME NEW w \in Worker
          PROVE  /\ cache'[w].macs \subseteq MayList(NcOf[w]) /\ snap'[w].macs \subseteq MayList(NcOf[w])
                 /\ loc'[w].todo \subseteq MayList(NcOf[w])
                 /\ pc'[w] \in WithMac => loc'[w].mac \in MayList(NcOf[w])
        <3>1. /\ cache[w].macs \subseteq MayList(NcOf[w]) /\ snap[w].macs \subseteq MayList(NcOf[w])
              /\ loc[w].todo \subseteq MayList(NcOf[w])
              /\ pc[w] \in WithMac => loc[w].mac \in MayList(NcOf[w])
            BY DEF Listed
        <3>2. cache'[w].macs \subseteq MayList(NcOf[w])
            BY <2>2, <3>1, CacheEffect, AbsentFacts
        <3>3. NoLocals.todo = {} /\ "idle" \notin WithMac
            BY DEF NoLocals, WithMac
        <3>4. CASE OwnStep(w)
            <4>1. snap'[w].macs \subseteq MayList(NcOf[w])
                BY <3>1, <3>4, OwnEffect, AbsentFacts DEF SameButStatus
            <4>2. loc'[w].todo \subseteq MayList(NcOf[w])
                BY <3>1, <3>4, OwnLocals
            <4>3. pc'[w] \in WithMac => loc'[w].mac \in MayList(NcOf[w])
                BY <3>1, <3>4, OwnLocals
            <4> QED BY <3>2, <4>1, <4>2, <4>3
        <3> QED BY <3>1, <3>2, <3>3, <3>4, WorkerEffect, AbsentFacts
    <2> QED BY <2>1, <2>3 DEF Listed
<1> QED BY <1>1, <1>2, TypesAlways, PTL DEF Spec

=============================================================================
