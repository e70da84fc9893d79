---------------------------- MODULE SubnetProofs ----------------------------
(***************************************************************************)
(* Theorems about SubnetSystem, for any number of workers, processes,      *)
(* prefixes and faults.                                                    *)
(***************************************************************************)
EXTENDS SubnetSystem, TLAPS

USE DeliveryAssumption, SubnetAssumption, SystemAssumption

-----------------------------------------------------------------------------
(* Lemmas about one delivery and about the operators. *)

\* What keaClient.Send can hand back: a server's answer or none, and lost
\* commands only at known servers.
LEMMA SendType ==
    \A d \in Send : /\ d.ans \in Server \cup {None}
                    /\ d.lost \subseteq Server
  BY DEF Send, OneSend, RacingSend, Clean, Server

\* Every Kea delivery keeps the fault count within its bound.
LEMMA DeliverType ==
    ASSUME NEW d \in Send, faults \in 0..MaxFaults, Deliver(d)
    PROVE  faults' \in 0..MaxFaults
  BY DEF Deliver, Cost

\* getNextSubnetID computes a positive id.
LEMMA NextIDType ==
    ASSUME TypeOK, NEW d \in Send, NEW id \in getNextSubnetID(d)
    PROVE  id \in Nat \ {0}
  <1>1. CASE ListFails(d)
    BY <1>1 DEF getNextSubnetID
  <1>2. CASE ~ListFails(d)
    <2>1. d.ans \in Server
      BY <1>2, SendType DEF ListFails
    <2>2. subnets[d.ans] \in [Cidr -> Nat]
      BY <2>1 DEF TypeOK
    <2>3. QED
      BY <1>2, <2>2 DEF getNextSubnetID, NextIDs
  <1>3. QED
    BY <1>1, <1>2

\* GetSubnetID answers an id, "no match" or an error.
LEMMA GetSubnetIDType ==
    ASSUME TypeOK, NEW d \in Send, NEW c \in Cidr
    PROVE  GetSubnetID(d, c) \in Nat \cup {Err}
  BY SendType DEF GetSubnetID, ListFails, TypeOK

\* A positive answer of GetSubnetID is the prefix's id on some server.
LEMMA GetSubnetIDReal ==
    ASSUME TypeOK, NEW d \in Send, NEW c \in Cidr, GetSubnetID(d, c) > 0
    PROVE  \E s \in Server : subnets[s][c] = GetSubnetID(d, c)
  BY SendType DEF GetSubnetID, ListFails, Err

\* The return of GetOrCreateSubnet keeps the types.
LEMMA ReturnType ==
    ASSUME TypeOK, NEW w \in Worker, NEW id \in Nat \cup {Err}, Return(w, id)
    PROVE  /\ pc' \in [Worker -> Label]
           /\ sid' \in [Worker -> Nat]
           /\ lock' \in [Proc -> [Cidr -> Worker \cup {None}]]
  BY DEF TypeOK, Return, Goto, Label, GocLabel, Locked, Err

\* Adding a subnet to a server keeps the type of its table.
LEMMA AddSubnetType ==
    ASSUME NEW f \in [Cidr -> Nat], NEW c \in Cidr, NEW id \in Nat
    PROVE  AddSubnet(f, c, id) \in [Cidr -> Nat]
  BY DEF AddSubnet

-----------------------------------------------------------------------------
\* The types of the model's variables, over every interleaving.
THEOREM TypeCorrect == Spec => []TypeOK
  <1>1. Init => TypeOK
    BY DEF Init, TypeOK, Label, AddCmd
  <1>2. TypeOK /\ [Next]_svars => TypeOK'
    <2> SUFFICES ASSUME TypeOK, [Next]_svars PROVE TypeOK'
      OBVIOUS
    <2>1. ASSUME NEW w \in Worker, Call(w) PROVE TypeOK'
      BY <2>1 DEF Call, Goto, TypeOK, Label, GocLabel
    <2>2. ASSUME NEW w \in Worker, Acquire(w) PROVE TypeOK'
      BY <2>2 DEF Acquire, Goto, TypeOK, Label, GocLabel, Locked
    <2>3. ASSUME NEW w \in Worker, Get(w) PROVE TypeOK'
      <3>1. PICK d \in Send :
              /\ Deliver(d)
              /\ \/ Goto(w, "next") /\ UNCHANGED <<lock, sid>>
                 \/ Return(w, GetSubnetID(d, arg[w]))
        BY <2>3 DEF Get
      <3>2. GetSubnetID(d, arg[w]) \in Nat \cup {Err}
        BY GetSubnetIDType DEF TypeOK
      <3>3. /\ pc' \in [Worker -> Label]
            /\ sid' \in [Worker -> Nat]
            /\ lock' \in [Proc -> [Cidr -> Worker \cup {None}]]
        <4>1. CASE Goto(w, "next") /\ UNCHANGED <<lock, sid>>
          BY <4>1 DEF TypeOK, Goto, Label, GocLabel, Locked
        <4>2. CASE Return(w, GetSubnetID(d, arg[w]))
          BY <4>2, <3>2, ReturnType
        <4>3. QED
          BY <3>1, <4>1, <4>2
      <3>4. faults' \in 0..MaxFaults
        BY <3>1, DeliverType DEF TypeOK
      <3>5. QED
        BY <2>3, <3>3, <3>4 DEF Get, TypeOK
    <2>4. ASSUME NEW w \in Worker, PickID(w) PROVE TypeOK'
      <3>1. PICK d \in Send : \E id \in getNextSubnetID(d) :
              Deliver(d) /\ sid' = [sid EXCEPT ![w] = id]
        BY <2>4 DEF PickID
      <3>2. PICK id \in getNextSubnetID(d) : sid' = [sid EXCEPT ![w] = id]
        BY <3>1
      <3>3. id \in Nat
        BY NextIDType
      <3>4. faults' \in 0..MaxFaults
        BY <3>1, DeliverType DEF TypeOK
      <3>5. QED
        BY <2>4, <3>2, <3>3, <3>4
        DEF PickID, Goto, TypeOK, Label, GocLabel, Locked
    <2>5. ASSUME NEW w \in Worker, Add(w) PROVE TypeOK'
      <3>1. PICK d \in Send :
              /\ Deliver(d)
              /\ subnets' = [s \in Server |->
                     IF s = d.ans THEN AddSubnet(subnets[s], arg[w], sid[w])
                     ELSE subnets[s]]
              /\ lostAdds' = lostAdds \cup
                     [srv : d.lost, cidr : {arg[w]}, id : {sid[w]}]
              /\ \/ Return(w, sid[w])
                 \/ Goto(w, "reget") /\ UNCHANGED <<lock, sid>>
        BY <2>5 DEF Add
      <3>2. arg[w] \in Cidr /\ sid[w] \in Nat
        BY DEF TypeOK
      <3>3. subnets' \in [Server -> [Cidr -> Nat]]
        <4>1. \A s \in Server : AddSubnet(subnets[s], arg[w], sid[w]) \in [Cidr -> Nat]
          BY <3>2, AddSubnetType DEF TypeOK
        <4>2. QED
          BY <3>1, <4>1 DEF TypeOK
      <3>4. lostAdds' \subseteq AddCmd
        BY <3>1, <3>2, SendType DEF TypeOK, AddCmd
      <3>5. /\ pc' \in [Worker -> Label]
            /\ sid' \in [Worker -> Nat]
            /\ lock' \in [Proc -> [Cidr -> Worker \cup {None}]]
        <4>1. CASE Goto(w, "reget") /\ UNCHANGED <<lock, sid>>
          BY <4>1 DEF TypeOK, Goto, Label, GocLabel, Locked
        <4>2. CASE Return(w, sid[w])
          BY <4>2, <3>2, ReturnType
        <4>3. QED
          BY <3>1, <4>1, <4>2
      <3>6. faults' \in 0..MaxFaults
        BY <3>1, DeliverType DEF TypeOK
      <3>7. QED
        BY <2>5, <3>3, <3>4, <3>5, <3>6 DEF Add, TypeOK
    <2>6. ASSUME NEW w \in Worker, Reget(w) PROVE TypeOK'
      <3>1. PICK d \in Send : Deliver(d) /\ Return(w, GetSubnetID(d, arg[w]))
        BY <2>6 DEF Reget
      <3>2. GetSubnetID(d, arg[w]) \in Nat \cup {Err}
        BY GetSubnetIDType DEF TypeOK
      <3>3. /\ pc' \in [Worker -> Label]
            /\ sid' \in [Worker -> Nat]
            /\ lock' \in [Proc -> [Cidr -> Worker \cup {None}]]
        BY <3>1, <3>2, ReturnType
      <3>4. faults' \in 0..MaxFaults
        BY <3>1, DeliverType DEF TypeOK
      <3>5. QED
        BY <2>6, <3>3, <3>4 DEF Reget, TypeOK
    <2>7. ASSUME NEW w \in Worker, Done(w) PROVE TypeOK'
      BY <2>7 DEF Done, Goto, TypeOK, Label
    <2>8. ASSUME NEW a \in lostAdds, LateAdd(a) PROVE TypeOK'
      <3>1. a.srv \in Server /\ a.cidr \in Cidr /\ a.id \in Nat
        BY DEF TypeOK, AddCmd
      <3>2. subnets' \in [Server -> [Cidr -> Nat]]
        BY <2>8, <3>1 DEF LateAdd, TypeOK
      <3>3. QED
        BY <2>8, <3>2 DEF LateAdd, TypeOK
    <2>9. ASSUME NEW p \in Proc, Crash(p) PROVE TypeOK'
      BY <2>9 DEF Crash, TypeOK, Label
    <2>10. CASE UNCHANGED svars
      BY <2>10 DEF svars, TypeOK
    <2>11. QED
      BY <2>1, <2>2, <2>3, <2>4, <2>5, <2>6, <2>7, <2>8, <2>9, <2>10
      DEF Next, GetOrCreateSubnet
  <1>3. QED
    BY <1>1, <1>2, PTL DEF Spec

-----------------------------------------------------------------------------
(* What a step can do to the servers' tables. *)

\* A step leaves a server's table alone or gives one prefix without an id a
\* free one: Kea refuses every other subnet4-add.
LEMMA TableStep ==
    ASSUME TypeOK, [Next]_svars, NEW s \in Server
    PROVE  \/ subnets'[s] = subnets[s]
           \/ \E c \in Cidr, id \in Nat :
                  /\ CanAdd(subnets[s], c, id)
                  /\ subnets'[s] = [subnets[s] EXCEPT ![c] = id]
  <1>1. ASSUME NEW w \in Worker, Add(w)
        PROVE  \/ subnets'[s] = subnets[s]
               \/ /\ CanAdd(subnets[s], arg[w], sid[w])
                  /\ subnets'[s] = [subnets[s] EXCEPT ![arg[w]] = sid[w]]
    BY <1>1 DEF Add, AddSubnet
  <1>2. ASSUME NEW a \in lostAdds, LateAdd(a)
        PROVE  \/ subnets'[s] = subnets[s]
               \/ /\ CanAdd(subnets[s], a.cidr, a.id)
                  /\ subnets'[s] = [subnets[s] EXCEPT ![a.cidr] = a.id]
    BY <1>2 DEF LateAdd, TypeOK, AddCmd
  <1>3. CASE subnets' = subnets
    BY <1>3
  <1>4. \A w \in Worker : arg[w] \in Cidr /\ sid[w] \in Nat
    BY DEF TypeOK
  <1>5. \A a \in lostAdds : a.cidr \in Cidr /\ a.id \in Nat
    BY DEF TypeOK, AddCmd
  <1>6. \/ subnets' = subnets
        \/ \E w \in Worker : Add(w)
        \/ \E a \in lostAdds : LateAdd(a)
    BY DEF Next, svars, GetOrCreateSubnet, Call, Acquire, Get, PickID, Reget, Done, Crash
  <1>7. CASE \E w \in Worker : Add(w)
    <2>1. PICK w \in Worker : Add(w)
      BY <1>7
    <2>2. arg[w] \in Cidr /\ sid[w] \in Nat
      BY <1>4
    <2>3. QED
      BY <2>1, <2>2, <1>1
  <1>8. CASE \E a \in lostAdds : LateAdd(a)
    <2>1. PICK a \in lostAdds : LateAdd(a)
      BY <1>8
    <2>2. a.cidr \in Cidr /\ a.id \in Nat
      BY <1>5
    <2>3. QED
      BY <2>1, <2>2, <1>2
  <1>9. QED
    BY <1>3, <1>6, <1>7, <1>8

\* A prefix keeps the id it has.
LEMMA IdsStay ==
    ASSUME TypeOK, [Next]_svars, NEW s \in Server, NEW c \in Cidr, subnets[s][c] # 0
    PROVE  subnets'[s][c] = subnets[s][c]
  <1>1. subnets[s] \in [Cidr -> Nat]
    BY DEF TypeOK
  <1>2. ASSUME NEW x \in Cidr, NEW id \in Nat, CanAdd(subnets[s], x, id),
               subnets'[s] = [subnets[s] EXCEPT ![x] = id]
        PROVE  subnets'[s][c] = subnets[s][c]
    BY <1>1, <1>2 DEF CanAdd
  <1>3. QED
    BY <1>2, TableStep

\* No server ever gives one id to two prefixes.
LEMMA DistinctStep ==
    ASSUME TypeOK, [Next]_svars, NEW s \in Server, Distinct(subnets[s])
    PROVE  Distinct(subnets'[s])
  <1>1. subnets[s] \in [Cidr -> Nat]
    BY DEF TypeOK
  <1>2. CASE subnets'[s] = subnets[s]
    BY <1>2 DEF Distinct
  <1>3. ASSUME NEW c \in Cidr, NEW id \in Nat, CanAdd(subnets[s], c, id),
               subnets'[s] = [subnets[s] EXCEPT ![c] = id]
        PROVE  Distinct(subnets'[s])
    BY <1>1, <1>3 DEF CanAdd, Distinct
  <1>4. QED
    BY <1>2, <1>3, TableStep

\* A worker's cfg.Subnet never changes in this system.
LEMMA ArgStays == [Next]_svars => arg' = arg
  BY DEF Next, svars, GetOrCreateSubnet, Call, Acquire, Get, PickID, Add, Reget,
         Done, LateAdd, Crash

-----------------------------------------------------------------------------
(* Mutual exclusion of Service.subnetLocks. *)

\* A return touches the caller and its own mutex only.
LEMMA ReturnLock ==
    ASSUME TypeOK, LockHeld, NEW w \in Worker, pc[w] \in Locked, NEW id \in Nat \cup {Err},
           Return(w, id), arg' = arg
    PROVE  LockHeld'
  <1> SUFFICES ASSUME NEW v \in Worker, pc'[v] \in Locked
               PROVE  lock'[ProcOf[v]][arg[v]] = v
    BY DEF LockHeld
  <1>1. v # w /\ pc[v] \in Locked
    BY DEF Return, Goto, TypeOK, Locked
  <1>2. lock[ProcOf[v]][arg[v]] = v /\ lock[ProcOf[w]][arg[w]] = w
    BY <1>1 DEF LockHeld
  <1>3. ProcOf[v] # ProcOf[w] \/ arg[v] # arg[w]
    BY <1>1, <1>2
  <1>4. QED
    BY <1>2, <1>3 DEF Return, TypeOK

\* Workers inside GetOrCreateSubnet's critical section own their mutex, so two
\* of one process never are in it for the same prefix.
THEOREM LockSafety == Spec => []LockHeld
  <1>1. Init => LockHeld
    BY DEF Init, LockHeld, Locked
  <1>2. TypeOK /\ LockHeld /\ [Next]_svars => LockHeld'
    <2> SUFFICES ASSUME TypeOK, LockHeld, [Next]_svars PROVE LockHeld'
      OBVIOUS
    <2>1. ASSUME NEW w \in Worker, Call(w) PROVE LockHeld'
      BY <2>1 DEF Call, Goto, TypeOK, LockHeld, Locked
    <2>2. ASSUME NEW w \in Worker, Acquire(w) PROVE LockHeld'
      <3> SUFFICES ASSUME NEW v \in Worker, pc'[v] \in Locked
                   PROVE  lock'[ProcOf[v]][arg[v]] = v
        BY <2>2 DEF LockHeld, Acquire
      <3>1. CASE v = w
        BY <2>2, <3>1 DEF Acquire, TypeOK
      <3>2. CASE v # w
        <4>1. lock[ProcOf[v]][arg[v]] = v
          BY <2>2, <3>2 DEF Acquire, Goto, TypeOK, LockHeld
        <4>2. ProcOf[v] # ProcOf[w] \/ arg[v] # arg[w]
          BY <2>2, <4>1 DEF Acquire
        <4>3. QED
          BY <2>2, <4>1, <4>2 DEF Acquire, TypeOK
      <3>3. QED
        BY <3>1, <3>2
    <2>3. ASSUME NEW w \in Worker, Get(w) PROVE LockHeld'
      <3>1. PICK d \in Send :
              \/ Goto(w, "next") /\ UNCHANGED <<lock, sid>>
              \/ Return(w, GetSubnetID(d, arg[w]))
        BY <2>3 DEF Get
      <3>2. arg' = arg /\ pc[w] \in Locked
        BY <2>3 DEF Get, Locked
      <3>3. CASE Goto(w, "next") /\ UNCHANGED <<lock, sid>>
        BY <3>2, <3>3 DEF Goto, TypeOK, LockHeld
      <3>4. CASE Return(w, GetSubnetID(d, arg[w]))
        BY <3>2, <3>4, ReturnLock, GetSubnetIDType DEF TypeOK
      <3>5. QED
        BY <3>1, <3>3, <3>4
    <2>4. ASSUME NEW w \in Worker, PickID(w) PROVE LockHeld'
      BY <2>4 DEF PickID, Goto, TypeOK, LockHeld, Locked
    <2>5. ASSUME NEW w \in Worker, Add(w) PROVE LockHeld'
      <3>1. \/ Return(w, sid[w])
            \/ Goto(w, "reget") /\ UNCHANGED <<lock, sid>>
        BY <2>5 DEF Add
      <3>2. arg' = arg /\ pc[w] \in Locked /\ sid[w] \in Nat
        BY <2>5 DEF Add, Locked, TypeOK
      <3>3. CASE Goto(w, "reget") /\ UNCHANGED <<lock, sid>>
        BY <3>2, <3>3 DEF Goto, TypeOK, LockHeld
      <3>4. CASE Return(w, sid[w])
        BY <3>2, <3>4, ReturnLock
      <3>5. QED
        BY <3>1, <3>3, <3>4
    <2>6. ASSUME NEW w \in Worker, Reget(w) PROVE LockHeld'
      <3>1. PICK d \in Send : Return(w, GetSubnetID(d, arg[w]))
        BY <2>6 DEF Reget
      <3>2. arg' = arg /\ pc[w] \in Locked
        BY <2>6 DEF Reget, Locked
      <3>3. QED
        BY <3>1, <3>2, ReturnLock, GetSubnetIDType DEF TypeOK
    <2>7. ASSUME NEW w \in Worker, Done(w) PROVE LockHeld'
      BY <2>7 DEF Done, Goto, TypeOK, LockHeld, Locked
    <2>8. ASSUME NEW a \in lostAdds, LateAdd(a) PROVE LockHeld'
      BY <2>8 DEF LateAdd, LockHeld
    <2>9. ASSUME NEW p \in Proc, Crash(p) PROVE LockHeld'
      BY <2>9 DEF Crash, TypeOK, LockHeld, Locked
    <2>10. CASE UNCHANGED svars
      BY <2>10 DEF svars, LockHeld
    <2>11. QED
      BY <2>1, <2>2, <2>3, <2>4, <2>5, <2>6, <2>7, <2>8, <2>9, <2>10
      DEF Next, GetOrCreateSubnet
  <1>3. QED
    BY <1>1, <1>2, TypeCorrect, PTL DEF Spec

-----------------------------------------------------------------------------
(* The ids that GetOrCreateSubnet returns. *)

\* What a return says about the caller and about everybody else.
LEMMA ReturnOk ==
    ASSUME TypeOK, NEW w \in Worker, NEW id \in Nat \cup {Err}, Return(w, id),
           NEW v \in Worker, pc'[v] = "ok"
    PROVE  \/ v # w /\ pc[v] = "ok" /\ sid'[v] = sid[v]
           \/ v = w /\ id > 0 /\ sid'[v] = id
  <1>1. CASE v # w
    BY <1>1 DEF Return, Goto, TypeOK
  <1>2. CASE v = w
    <2>1. pc'[w] = IF id > 0 THEN "ok" ELSE "failed"
      BY DEF Return, Goto, TypeOK
    <2>2. id > 0
      BY <1>2, <2>1
    <2>3. sid'[w] = id
      BY <2>2 DEF Return, TypeOK
    <2>4. QED
      BY <1>2, <2>2, <2>3
  <1>3. QED
    BY <1>1, <1>2

\* A worker in "ok" was there before, or has just been told an id that its
\* prefix has on some server.
LEMMA OkStep ==
    ASSUME TypeOK, [Next]_svars, NEW v \in Worker, pc'[v] = "ok"
    PROVE  \/ pc[v] = "ok" /\ sid'[v] = sid[v]
           \/ sid'[v] # 0 /\ \E s \in Server : subnets'[s][arg[v]] = sid'[v]
  <1> DEFINE Goal == \/ pc[v] = "ok" /\ sid'[v] = sid[v]
                     \/ sid'[v] # 0 /\ \E s \in Server : subnets'[s][arg[v]] = sid'[v]
  <1>1. ASSUME NEW w \in Worker, NEW d \in Send, Return(w, GetSubnetID(d, arg[w])),
               subnets' = subnets
        PROVE  Goal
    <2>1. arg[w] \in Cidr
      BY DEF TypeOK
    <2>2. GetSubnetID(d, arg[w]) \in Nat \cup {Err}
      BY <2>1, GetSubnetIDType
    <2>3. CASE pc[v] = "ok" /\ sid'[v] = sid[v]
      BY <2>3
    <2>4. CASE v = w /\ GetSubnetID(d, arg[w]) > 0 /\ sid'[v] = GetSubnetID(d, arg[w])
      <3>1. \E s \in Server : subnets[s][arg[w]] = GetSubnetID(d, arg[w])
        BY <2>1, <2>4, GetSubnetIDReal
      <3>2. GetSubnetID(d, arg[w]) # 0
        BY <2>2, <2>4 DEF Err
      <3>3. QED
        BY <1>1, <2>4, <3>1, <3>2
    <2>5. QED
      BY <1>1, <2>2, <2>3, <2>4, ReturnOk
  <1>2. ASSUME NEW w \in Worker, Get(w) PROVE Goal
    <2>1. PICK d \in Send : \/ Goto(w, "next") /\ UNCHANGED <<lock, sid>>
                            \/ Return(w, GetSubnetID(d, arg[w]))
      BY <1>2 DEF Get
    <2>2. CASE Goto(w, "next") /\ UNCHANGED <<lock, sid>>
      BY <2>2 DEF Goto, TypeOK
    <2>3. CASE Return(w, GetSubnetID(d, arg[w]))
      BY <1>1, <1>2, <2>3 DEF Get
    <2>4. QED
      BY <2>1, <2>2, <2>3
  <1>3. ASSUME NEW w \in Worker, Add(w) PROVE Goal
    <2>1. PICK d \in Send :
            /\ subnets' = [s \in Server |->
                   IF s = d.ans THEN AddSubnet(subnets[s], arg[w], sid[w])
                   ELSE subnets[s]]
            /\ \/ Created(w, d) /\ Return(w, sid[w])
               \/ Goto(w, "reget") /\ UNCHANGED <<lock, sid>>
      BY <1>3 DEF Add
    <2>2. CASE Goto(w, "reget") /\ UNCHANGED <<lock, sid>>
      BY <2>2 DEF Goto, TypeOK
    <2>3. CASE Created(w, d) /\ Return(w, sid[w])
      <3>1. arg[w] \in Cidr /\ sid[w] \in Nat
        BY DEF TypeOK
      <3>2. d.ans \in Server /\ subnets[d.ans] \in [Cidr -> Nat]
        BY <2>3, SendType DEF Created, TypeOK
      <3>3. subnets'[d.ans][arg[w]] = sid[w]
        BY <2>1, <2>3, <3>1, <3>2 DEF Created, AddSubnet
      <3>4. \/ pc[v] = "ok" /\ sid'[v] = sid[v]
            \/ v = w /\ sid[w] > 0 /\ sid'[v] = sid[w]
        BY <2>3, <3>1, ReturnOk
      <3>5. QED
        BY <3>1, <3>2, <3>3, <3>4
    <2>4. QED
      BY <2>1, <2>2, <2>3
  <1>4. ASSUME NEW w \in Worker, Reget(w) PROVE Goal
    BY <1>1, <1>4 DEF Reget
  <1>5. ASSUME NEW w \in Worker, Call(w) \/ Acquire(w) \/ PickID(w) \/ Done(w)
        PROVE  Goal
    <2>1. CASE Call(w) \/ Acquire(w) \/ Done(w)
      BY <2>1 DEF Call, Acquire, Done, Goto, TypeOK
    <2>2. CASE PickID(w)
      BY <2>2 DEF PickID, Goto, TypeOK
    <2>3. QED
      BY <1>5, <2>1, <2>2
  <1>6. ASSUME NEW a \in lostAdds, LateAdd(a) PROVE Goal
    BY <1>6 DEF LateAdd
  <1>7. ASSUME NEW p \in Proc, Crash(p) PROVE Goal
    BY <1>7 DEF Crash, TypeOK
  <1>8. CASE UNCHANGED svars
    BY <1>8 DEF svars
  <1>9. QED
    BY <1>2, <1>3, <1>4, <1>5, <1>6, <1>7, <1>8 DEF Next, GetOrCreateSubnet

\* Whatever was lost, late or rejected, an id that GetOrCreateSubnet returned
\* is one that its prefix has on a server.
THEOREM ResultsReal == Spec => []ResultIsReal
  <1>1. Init => ResultIsReal
    BY DEF Init, ResultIsReal
  <1>2. TypeOK /\ ResultIsReal /\ [Next]_svars => ResultIsReal'
    <2> SUFFICES ASSUME TypeOK, ResultIsReal, [Next]_svars,
                        NEW v \in Worker, pc'[v] = "ok"
                 PROVE  sid'[v] # 0 /\ \E s \in Server : subnets'[s][arg'[v]] = sid'[v]
      BY DEF ResultIsReal
    <2>1. arg' = arg /\ arg[v] \in Cidr
      BY ArgStays DEF TypeOK
    <2>2. CASE pc[v] = "ok" /\ sid'[v] = sid[v]
      <3>1. PICK s \in Server : sid[v] # 0 /\ subnets[s][arg[v]] = sid[v]
        BY <2>2 DEF ResultIsReal
      <3>2. subnets'[s][arg[v]] = sid[v]
        BY <2>1, <3>1, IdsStay
      <3>3. QED
        BY <2>1, <2>2, <3>1, <3>2
    <2>3. QED
      BY <2>1, <2>2, OkStep
  <1>3. QED
    BY <1>1, <1>2, TypeCorrect, PTL DEF Spec

-----------------------------------------------------------------------------
(* One Kea server. *)

\* The ids of one server stay distinct.
LEMMA IdsDistinct == Spec => [](\A s \in Server : Distinct(subnets[s]))
  <1> DEFINE D == \A s \in Server : Distinct(subnets[s])
  <1>1. Init => D
    BY DEF Init
  <1>2. TypeOK /\ D /\ [Next]_svars => D'
    BY DistinctStep
  <1> HIDE DEF D
  <1>3. Spec => []D
    BY <1>1, <1>2, TypeCorrect, PTL DEF Spec
  <1>4. QED
    BY <1>3 DEF D

\* With one server, concurrent callers of any number of processes agree on
\* the ids: one per prefix, and none shared.
THEOREM CallersAgree == ASSUME Secondary = None PROVE Spec => []Agreement
  <1>1. Server = {Primary}
    BY DEF Server
  <1>2. TypeOK /\ ResultIsReal /\ (\A s \in Server : Distinct(subnets[s])) => Agreement
    BY <1>1 DEF TypeOK, ResultIsReal, Distinct, Agreement
  <1>3. QED
    BY <1>2, TypeCorrect, ResultsReal, IdsDistinct, PTL

\* In one process a worker adds a prefix only while some server does not have it,
\* or after an add of it whose answer was lost: the mutex makes the lookup and
\* the create one critical section.
THEOREM OneAdd ==
    ASSUME \A v, w \in Worker : ProcOf[v] = ProcOf[w]
    PROVE  Spec => []SingleAdd
  <1>1. Init => SingleAdd
    BY DEF Init, SingleAdd
  <1>2. TypeOK /\ LockHeld /\ SingleAdd /\ [Next]_svars => SingleAdd'
    <2> SUFFICES ASSUME TypeOK, LockHeld, SingleAdd, [Next]_svars,
                        NEW v \in Worker, pc'[v] \in {"next", "add"}
                 PROVE  \E s \in Server :
                            \/ subnets'[s][arg[v]] = 0
                            \/ \E a \in lostAdds' : a.srv = s /\ a.cidr = arg[v]
      BY ArgStays DEF SingleAdd
    <2> DEFINE Lost(s) == \E a \in lostAdds : a.srv = s /\ a.cidr = arg[v]
    <2>1. arg[v] \in Cidr /\ \A s \in Server : subnets[s] \in [Cidr -> Nat]
      BY DEF TypeOK
    <2>2. lostAdds \subseteq lostAdds'
      BY DEF Next, svars, GetOrCreateSubnet, Call, Acquire, Get, PickID, Add, Reget,
             Done, LateAdd, Crash
    <2>3. pc[v] \in {"next", "add"} \/ Get(v)
      <3>1. ASSUME NEW w \in Worker, Call(w) \/ Acquire(w) \/ Done(w) \/ PickID(w)
            PROVE  pc[v] \in {"next", "add"}
        BY <3>1 DEF Call, Acquire, Done, PickID, Goto, TypeOK
      <3>2. ASSUME NEW w \in Worker, Get(w), w # v PROVE pc[v] \in {"next", "add"}
        BY <3>2 DEF Get, Goto, Return, TypeOK
      <3>3. ASSUME NEW w \in Worker, Add(w) \/ Reget(w) PROVE pc[v] \in {"next", "add"}
        BY <3>3 DEF Add, Reget, Goto, Return, TypeOK
      <3>4. ASSUME NEW p \in Proc, Crash(p) PROVE pc[v] \in {"next", "add"}
        BY <3>4 DEF Crash, TypeOK
      <3>5. ASSUME NEW a \in lostAdds, LateAdd(a) PROVE pc[v] \in {"next", "add"}
        BY <3>5 DEF LateAdd
      <3>6. CASE UNCHANGED svars
        BY <3>6 DEF svars
      <3>7. QED
        BY <3>1, <3>2, <3>3, <3>4, <3>5, <3>6 DEF Next, GetOrCreateSubnet
    <2>4. CASE Get(v)
      <3>1. PICK d \in Send : \/ GetSubnetID(d, arg[v]) = 0
                              \/ Return(v, GetSubnetID(d, arg[v]))
        BY <2>4 DEF Get
      <3>2. ~Return(v, GetSubnetID(d, arg[v]))
        BY DEF Return, Goto, TypeOK
      <3>3. d.ans \in Server /\ subnets[d.ans][arg[v]] = 0
        BY <3>1, <3>2, SendType, <2>1 DEF GetSubnetID, ListFails, Err
      <3>4. QED
        BY <2>4, <3>3 DEF Get
    <2>5. CASE pc[v] \in {"next", "add"}
      <3>1. PICK s \in Server : subnets[s][arg[v]] = 0 \/ Lost(s)
        BY <2>5 DEF SingleAdd
      <3>2. ASSUME NEW w \in Worker, Add(w), subnets[s][arg[v]] = 0
            PROVE  subnets'[s][arg[v]] = 0
        <4>1. w # v
          BY <3>2 DEF Add, Goto, Return, TypeOK
        <4>2. arg[w] # arg[v]
          BY <2>5, <3>2, <4>1 DEF Add, LockHeld, Locked
        <4>3. QED
          BY <2>1, <3>2, <4>2 DEF Add, AddSubnet, TypeOK
      <3>3. ASSUME NEW a \in lostAdds, LateAdd(a), subnets[s][arg[v]] = 0
            PROVE  subnets'[s][arg[v]] = 0 \/ Lost(s)
        BY <2>1, <3>3 DEF LateAdd, TypeOK, AddCmd
      <3>4. \/ subnets' = subnets
            \/ \E w \in Worker : Add(w)
            \/ \E a \in lostAdds : LateAdd(a)
        BY DEF Next, svars, GetOrCreateSubnet, Call, Acquire, Get, PickID, Reget,
               Done, Crash
      <3>5. QED
        BY <2>2, <3>1, <3>2, <3>3, <3>4
    <2>6. QED
      BY <2>3, <2>4, <2>5
  <1>3. QED
    BY <1>1, <1>2, TypeCorrect, LockSafety, PTL DEF Spec

-----------------------------------------------------------------------------
(* The abstract promise. *)

\* Every worker keeps asking for its own prefix.
LEMMA ArgIsPrefix == Spec => [](arg = Prefix)
  <1>1. Init => arg = Prefix
    BY DEF Init
  <1>2. arg = Prefix /\ [Next]_svars => (arg = Prefix)'
    BY ArgStays
  <1>3. QED
    BY <1>1, <1>2, PTL DEF Spec

\* With one server, GetOrCreateSubnet implements the registry: an id is given
\* once, is never shared, and every answer is the caller's own id or an error.
THEOREM Refinement == ASSUME Secondary = None PROVE Spec => Implements
  <1>1. Server = {Primary}
    BY DEF Server
  <1>2. Init => Registry!Init
    <2> SUFFICES ASSUME Init PROVE Registry!Init
      OBVIOUS
    <2>1. subnets[Primary] \in [Cidr -> Nat]
      BY <1>1 DEF Init
    <2>2. Registry!Distinct(subnets[Primary])
      BY <1>1 DEF Init, Distinct, Registry!Distinct
    <2>3. QED
      BY <2>1, <2>2 DEF Init, Registry!Init
  <1>3. ASSUME TypeOK, ResultIsReal', arg = Prefix, [Next]_svars
        PROVE  [Registry!Next]_(Registry!vars)
    <2>1. Registry!Assign
      <3>1. CASE subnets'[Primary] = subnets[Primary]
        BY <3>1 DEF Registry!Assign
      <3>2. ASSUME NEW c \in Cidr, NEW id \in Nat, CanAdd(subnets[Primary], c, id),
                   subnets'[Primary] = [subnets[Primary] EXCEPT ![c] = id]
            PROVE  Registry!Assign
        <4>1. subnets[Primary] \in [Cidr -> Nat]
          BY <1>1, <1>3 DEF TypeOK
        <4>2. subnets'[Primary][c] = id /\ id # 0 /\ subnets[Primary][c] = 0
          BY <3>2, <4>1 DEF CanAdd
        <4>3. \A x \in Cidr : subnets[Primary][x] # id
          BY <3>2 DEF CanAdd
        <4>4. QED
          BY <3>2, <4>2, <4>3 DEF Registry!Assign
      <3>3. QED
        BY <1>1, <1>3, <3>1, <3>2, TableStep
    <2>2. Registry!Answer
      <3>1. ASSUME NEW w \in Worker, pc'[w] = "ok"
            PROVE  sid'[w] # 0 /\ sid'[w] = subnets'[Primary][Prefix[w]]
        BY <1>1, <1>3, <3>1, ArgStays DEF ResultIsReal
      <3>2. QED
        BY <3>1 DEF Registry!Answer
    <2>3. QED
      BY <2>1, <2>2 DEF Registry!Next
  <1>4. Registry!Init /\ [][Registry!Next]_(Registry!vars) => Implements
    BY DEF Implements, Registry!Spec
  <1>5. QED
    BY <1>2, <1>3, <1>4, TypeCorrect, ResultsReal, ArgIsPrefix, PTL DEF Spec

=============================================================================
