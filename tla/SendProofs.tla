----------------------------- MODULE SendProofs -----------------------------
(***************************************************************************)
(* With one Send at a time, the swap of BaseUrl is invisible: requests go  *)
(* to the right servers, BaseUrl is restored and the transport is kept.    *)
(* That a Send does what KeaDelivery says, and reports what the server     *)
(* that answered it said, needs no such limit.  For any number of senders, *)
(* faults and certificate rotations.                                       *)
(***************************************************************************)
EXTENDS KeaClientSend, FiniteSetTheorems, TLAPS

\* The URL of the sender's current loop index.
Want(w) == IF i[w] = 1 THEN Str(Primary) ELSE Str(Secondary)

\* At most one Send is running.
Alone == \A v, w \in Sender : pc[v] # "idle" /\ pc[w] # "idle" => v = w

\* What the running Send has made of BaseUrl.
BaseIs(w) ==
    CASE pc[w] = "set" ->
            /\ base["ptr"] = IF word[w] = "len" THEN Want(w)["ptr"] ELSE Primary
            /\ base["len"] = Primary
      [] pc[w] = "build" -> base = Want(w)
      [] pc[w] = "restore" ->
            /\ base["ptr"] = IF word[w] = "len" THEN Primary ELSE Want(w)["ptr"]
            /\ base["len"] = Want(w)["len"]
      [] OTHER -> base = Str(Primary)

\* A running or finished Send's own variables.
LocalsAre(w) ==
    /\ first[w] = Str(Primary) /\ orig[w] = Str(Primary) /\ fp[w] = Str(Primary)
    /\ pc[w] \in {"idle", "rebuild", "do", "done"} => word[w] = "ptr"
    /\ pc[w] \in {"idle", "fp", "hash", "rebuild", "sethash", "urls"} => i[w] = 1
    /\ i[w] = 2 => Secondary # None
    /\ pc[w] = "build" /\ word[w] = "len" => target[w]["ptr"] = Want(w)["ptr"]
    /\ pc[w] \in {"restore", "do"} => target[w] = Want(w)

\* The transport, once there is one, belongs to the primary's fingerprint.
Settled ==
    /\ ~tlsNeeded => transport = None
    /\ made /\ tlsNeeded => transport # None /\ \A x \in Word : hash[x] = Str(Primary)

\* Only the constructor builds the transport.
TlsIs(w) ==
    /\ pc[w] \in {"fp", "hash", "rebuild"} /\ ~made => transport = None
    /\ pc[w] = "rebuild" => ~made \/ ~tlsNeeded
    /\ pc[w] = "sethash" =>
        /\ ~made /\ tlsNeeded /\ transport # None
        /\ word[w] = "len" => hash["ptr"] = Str(Primary)
    /\ pc[w] \in {"urls", "orig", "set", "build", "restore", "do", "done"} => made

\* Nothing is built before the constructor runs.
Fresh == Active = {} => made \/ transport = None

\* What the caller of a finished Send is told (Truthful).
Told(w) ==
    IF said[w] = NoAnswer THEN ans[w] = None /\ got[w] = Unrecognized
    ELSE ans[w] # None /\ got[w] = [result |-> said[w].result, args |-> said[w].args = "object"]

\* What a Send has done to the servers so far.
SoFar(w) ==
    /\ pc[w] # "done" => said[w] = NoAnswer /\ got[w] = Unrecognized
    /\ pc[w] = "done" => Told(w)
    /\ pc[w] # "done" => ans[w] = None
    /\ pc[w] # "done" /\ i[w] = 1 => lost[w] = {}
    /\ pc[w] # "done" /\ i[w] = 2 => lost[w] \subseteq {Primary}
    /\ pc[w] = "done" => \E d \in Send : ans[w] = d.ans /\ lost[w] \subseteq d.lost

Inv ==
    /\ TypeOK /\ Alone /\ Restored /\ Settled /\ Fresh
    /\ \A w \in Sender :
        (pc[w] # "idle" => BaseIs(w) /\ TlsIs(w)) /\ LocalsAre(w) /\ SoFar(w)

LEMMA Servers ==
    /\ Primary \in Server /\ Server \subseteq {Primary, Secondary}
    /\ Secondary # None => Secondary \in Server
    /\ None \notin Server
    BY DeliveryAssumption DEF Server

LEMMA UrlExt ==
    ASSUME NEW u \in Url, NEW v \in Url
    PROVE  u = v <=> u["ptr"] = v["ptr"] /\ u["len"] = v["len"]
    BY DEF Url, Word

LEMMA StrFacts ==
    ASSUME NEW s \in Server
    PROVE  Str(s) \in Url /\ Str(s)["ptr"] = s /\ Str(s)["len"] = s
    BY DEF Str, Url, Word

LEMMA ReachedOne ==
    ASSUME NEW s \in Server
    PROVE  Reached(Str(s)) = {s}
<1>1. \A r \in Server : Str(r) = Str(s) => r = s
    BY StrFacts
<1> QED BY <1>1 DEF Reached

LEMMA Deliveries ==
    /\ Clean \in Send /\ Clean.ans = Primary /\ Clean.lost = {}
    /\ \E d \in Send : d.ans = None /\ d.lost = Server
    /\ \A s \in Server \ {Primary} : \E d \in Send : d.ans = s /\ d.lost = {Primary}
<1>1. [ans |-> None, lost |-> Server] \in Send
    BY DEF Send, OneSend, RacingSend
<1>2. ASSUME NEW s \in Server \ {Primary}
      PROVE  [ans |-> s, lost |-> {Primary}] \in Send
    BY <1>2, Servers DEF Send, OneSend, RacingSend
<1>3. Clean \in Send
    BY Servers DEF Send, OneSend, RacingSend, Clean
<1> QED BY <1>1, <1>2, <1>3 DEF Clean

\* Every body in which a server puts an answer is understood, and no other.
LEMMA Parses ==
    /\ \A a \in Answer : \A body \in Bodies(a) :
        parseResponse(body) = [result |-> a.result, args |-> a.args = "object"]
    /\ \A body \in Bodies(NoAnswer) : parseResponse(body) = Unrecognized
    /\ NoAnswer \notin Answer
    /\ \A a \in Answer : [result |-> a.result, args |-> a.args = "object"] # Unrecognized
<1>1. NoAnswer \notin Answer
    BY DEF NoAnswer, Answer, Result
<1>2. ASSUME NEW a \in Answer, NEW body \in Bodies(a)
      PROVE  parseResponse(body) = [result |-> a.result, args |-> a.args = "object"]
  <2>1. ResponseOf(a) = [result |-> a.result, args |-> a.args = "object"]
    BY DEF Answer, Result, ResponseOf
  <2>2. \A b \in Answer : b \in Lax
    BY DEF Answer, Result, Item, Lax
  <2>3. CASE body = Single(a)
    BY <2>1, <2>2, <2>3 DEF Single, parseResponse, First, Whole
  <2>4. CASE body = Array(<<a>>) \/ body = Wrapped(<<a>>)
    BY <2>1, <2>2, <2>4 DEF Array, Wrapped, parseResponse, First, Whole
  <2>5. CASE \E b \in Answer : body = Array(<<a, b>>) \/ body = Wrapped(<<a, b>>)
    BY <2>1, <2>2, <2>5 DEF Array, Wrapped, parseResponse, First, Whole
  <2> QED BY <1>1, <2>3, <2>4, <2>5 DEF Bodies
<1>3. ASSUME NEW body \in Bodies(NoAnswer)
      PROVE  parseResponse(body) = Unrecognized
    BY <1>3 DEF Bodies, Other, Array, parseResponse, First, Whole
<1>4. \A a \in Answer : [result |-> a.result, args |-> a.args = "object"] # Unrecognized
    BY DEF Answer, Result, Unrecognized
<1> QED BY <1>1, <1>2, <1>3, <1>4

\* A sender may start only when no other is running.
LEMMA OneAtATime ==
    ASSUME MaxConcurrent = 1, NEW w \in Sender, Call(w)
    PROVE  Active = {}
<1>1. IsFiniteSet(Active)
    BY SendAssumption, FS_Subset DEF Active
<1>2. Cardinality(Active) \in Nat /\ Cardinality(Active) < 1
    BY <1>1, FS_CardinalityType DEF Call
<1> QED BY <1>1, <1>2, FS_EmptySet

LEMMA InitInv == Init => Inv
<1> SUFFICES ASSUME Init
             PROVE  Inv
    OBVIOUS
<1> USE Servers, StrFacts DEF Init
<1>1. TypeOK
  <2>1. hash \in [Word -> Url \cup {Str(None)}]
    OBVIOUS
  <2>2. base \in Url /\ pc \in [Sender -> Access \cup {"idle", "do", "done"}]
        /\ word \in [Sender -> Word]
    BY DEF Word
  <2>3. tlsNeeded \in BOOLEAN /\ made \in BOOLEAN
    OBVIOUS
  <2> QED BY <2>1, <2>2, <2>3 DEF TypeOK
<1>2. Alone /\ Restored /\ Settled /\ Fresh
    BY DEF Alone, Restored, Settled, Fresh, Active
<1>3. ASSUME NEW w \in Sender
      PROVE  pc[w] = "idle" /\ LocalsAre(w) /\ SoFar(w)
    BY DEF LocalsAre, SoFar
<1> QED BY <1>1, <1>2, <1>3 DEF Inv

LEMMA StoreWord ==
    ASSUME TypeOK, NEW w \in Sender, NEW s \in Url, Store(w, s)
    PROVE  base' \in Url
    BY DEF TypeOK, Store, Url, Word

LEMMA LoadWord ==
    ASSUME TypeOK, NEW w \in Sender, NEW f \in [Sender -> Url]
    PROVE  Load(f, w) \in [Sender -> Url]
    BY DEF TypeOK, Load, Url, Word

LEMMA StepType ==
    ASSUME TypeOK, NEW w \in Sender, Step(w), i[w] = 2 => Secondary # None
    PROVE  TypeOK'
<1> USE Servers DEF TypeOK, locals, tls
<1>1. CASE NewKeaClientWithOptions(w) \/ Call(w)
    BY <1>1 DEF NewKeaClientWithOptions, Call, Goto, Access
<1>2. CASE ReadUrls(w)
    BY <1>2, LoadWord DEF ReadUrls, NextWord, Goto, Access, Word
<1>3. CASE ReadOriginal(w)
    BY <1>3, LoadWord DEF ReadOriginal, NextWord, Goto, Access, Word
<1>4. CASE SetBase(w)
  <2>1. BaseOf(w) \in Url
    BY StrFacts DEF BaseOf
  <2> QED BY <1>4, <2>1, StoreWord DEF SetBase, NextWord, Goto, Access, Word
<1>5. CASE BuildBaseURL(w)
    BY <1>5, LoadWord DEF BuildBaseURL, NextWord, Goto, Access, Word
<1>6. CASE RestoreBase(w)
    BY <1>6, StoreWord DEF RestoreBase, NextWord, Goto, Access, Word
<1>7. CASE Failed(w)
    BY <1>7 DEF Failed, Reached, Goto, Access
<1>8. CASE Answered(w)
  <2>1. PICK s \in Reached(target[w]), a \in Answer \cup {NoAnswer} :
            \E body \in Bodies(a) :
                /\ said' = [said EXCEPT ![w] = a]
                /\ got' = [got EXCEPT ![w] = parseResponse(body)]
                /\ \/ ans' = [ans EXCEPT ![w] = s] /\ UNCHANGED lost
                   \/ /\ \E done \in SUBSET {s} : lost' = [lost EXCEPT ![w] = @ \cup done]
                      /\ UNCHANGED ans
    BY <1>8 DEF Answered
  <2>2. s \in Server
    BY <2>1 DEF Reached
  <2>3. \A body \in Bodies(a) :
            parseResponse(body) \in [result : Result, args : BOOLEAN] \cup {Unrecognized}
    <3>1. CASE a \in Answer
      <4>1. [result |-> a.result, args |-> a.args = "object"] \in [result : Result, args : BOOLEAN]
        BY <3>1 DEF Answer
      <4> QED BY <3>1, <4>1, Parses
    <3>2. CASE a = NoAnswer
        BY <3>2, Parses
    <3> QED BY <2>1, <3>1, <3>2
  <2> QED BY <1>8, <2>1, <2>2, <2>3 DEF Answered, Goto, Access
<1>9. CASE Return(w)
    BY <1>9, StrFacts DEF Return, Goto, Access
<1>10. CASE Fingerprint(w)
    BY <1>10, LoadWord DEF Fingerprint, NextWord, Goto, Access, Word
<1>11. CASE CompareHash(w)
    BY <1>11 DEF CompareHash, Built, Goto, Access, Word
<1>12. CASE BuildTransport(w)
    BY <1>12 DEF BuildTransport, Built, Goto, Access
<1>13. CASE SetHash(w)
    BY <1>13 DEF SetHash, Built, Goto, Access, Word
<1> QED BY <1>1, <1>2, <1>3, <1>4, <1>5, <1>6, <1>7, <1>8, <1>9, <1>10, <1>11, <1>12, <1>13
    DEF Step

\* Only one sender is running, and a step changes only that sender's variables.
LEMMA Others ==
    ASSUME MaxConcurrent = 1, TypeOK, Alone, NEW w \in Sender, Step(w), NEW v \in Sender, v # w
    PROVE  /\ pc[v] = "idle"
           /\ pc'[v] = pc[v] /\ word'[v] = word[v] /\ first'[v] = first[v] /\ i'[v] = i[v]
           /\ orig'[v] = orig[v] /\ target'[v] = target[v] /\ fp'[v] = fp[v]
           /\ ans'[v] = ans[v] /\ lost'[v] = lost[v] /\ said'[v] = said[v] /\ got'[v] = got[v]
<1> USE DEF TypeOK, Step, NewKeaClientWithOptions, Call, Fingerprint, CompareHash, Built,
        BuildTransport, SetHash, ReadUrls, ReadOriginal, SetBase, BuildBaseURL, RestoreBase,
        Failed, Answered, Return, NextWord, Goto, Load, locals, tls
<1>1. pc[v] = "idle"
  <2>1. CASE Call(w)
    BY <2>1, OneAtATime DEF Active
  <2>2. CASE ~Call(w)
    BY <2>2 DEF Alone, Active
  <2> QED BY <2>1, <2>2
<1>2. pc'[v] = pc[v] /\ word'[v] = word[v]
    OBVIOUS
<1>3. first'[v] = first[v] /\ orig'[v] = orig[v] /\ target'[v] = target[v] /\ fp'[v] = fp[v]
    OBVIOUS
<1>4. i'[v] = i[v] /\ ans'[v] = ans[v] /\ lost'[v] = lost[v]
    OBVIOUS
<1>5. said'[v] = said[v] /\ got'[v] = got[v]
    OBVIOUS
<1> QED BY <1>1, <1>2, <1>3, <1>4, <1>5

\* What the step of the running sender establishes for that sender.
Good(w) ==
    /\ IF pc[w] = "idle" THEN base = Str(Primary) /\ (made \/ transport = None)
       ELSE BaseIs(w) /\ TlsIs(w)
    /\ Settled
    /\ LocalsAre(w)
    /\ SoFar(w)

LEMMA GoodStep ==
    ASSUME TypeOK, TypeOK', NEW w \in Sender, Good(w), Step(w)
    PROVE  Good(w)'
<1> USE Servers DEF locals, tls
<1>1. CASE NewKeaClientWithOptions(w) \/ Call(w)
  <2>1. pc[w] = "idle"
    BY <1>1 DEF NewKeaClientWithOptions, Call, Active
  <2> QED BY <1>1, <2>1 DEF TypeOK, Good, BaseIs, TlsIs, Settled, LocalsAre, SoFar, Want,
        NewKeaClientWithOptions, Call, Goto
<1>2. CASE ReadUrls(w)
  <2>1. base = Str(Primary) /\ first[w] = Str(Primary) /\ i[w] = 1
    BY <1>2 DEF Good, BaseIs, LocalsAre, ReadUrls
  <2>2. first'[w] = Str(Primary)
    BY <1>2, <2>1, UrlExt, StrFacts DEF TypeOK, ReadUrls, Load, Url, Word
  <2> QED BY <1>2, <2>1, <2>2
      DEF TypeOK, Good, BaseIs, TlsIs, Settled, LocalsAre, SoFar, Want, ReadUrls, NextWord, Goto, Word
<1>3. CASE ReadOriginal(w)
  <2>1. base = Str(Primary) /\ orig[w] = Str(Primary)
    BY <1>3 DEF Good, BaseIs, LocalsAre, ReadOriginal
  <2>2. orig'[w] = Str(Primary)
    BY <1>3, <2>1, UrlExt, StrFacts DEF TypeOK, ReadOriginal, Load, Url, Word
  <2> QED BY <1>3, <2>1, <2>2, StrFacts
      DEF TypeOK, Good, BaseIs, TlsIs, Settled, LocalsAre, SoFar, Want, ReadOriginal, NextWord, Goto, Word
<1>4. CASE SetBase(w)
  <2>1. BaseOf(w) = Want(w) /\ Want(w)' = Want(w) /\ Want(w) \in Url
    BY <1>4, StrFacts DEF TypeOK, Good, LocalsAre, Want, BaseOf, SetBase
  <2>2. BaseIs(w)'
    BY <1>4, <2>1, UrlExt, StrFacts
    DEF TypeOK, Good, BaseIs, SetBase, Store, NextWord, Goto, Url, Word
  <2> QED BY <1>4, <2>1, <2>2
      DEF TypeOK, Good, TlsIs, Settled, LocalsAre, SoFar, SetBase, NextWord, Goto, Word
<1>5. CASE BuildBaseURL(w)
  <2>1. base = Want(w) /\ Want(w)' = Want(w) /\ Want(w) \in Url
    BY <1>5, StrFacts DEF TypeOK, Good, BaseIs, LocalsAre, Want, BuildBaseURL
  <2>2. word[w] = "ptr" => target'[w]["ptr"] = Want(w)["ptr"]
    BY <1>5, <2>1 DEF TypeOK, BuildBaseURL, Load, Url, Word
  <2>3. word[w] = "len" => target'[w] = Want(w)
    BY <1>5, <2>1, UrlExt DEF TypeOK, Good, LocalsAre, BuildBaseURL, Load, Url, Word
  <2> QED BY <1>5, <2>1, <2>2, <2>3
      DEF TypeOK, Good, BaseIs, TlsIs, Settled, LocalsAre, SoFar, BuildBaseURL, NextWord, Goto, Word
<1>6. CASE RestoreBase(w)
  <2>1. orig[w] = Str(Primary) /\ Want(w)' = Want(w) /\ Want(w) \in Url
    BY <1>6, StrFacts DEF TypeOK, Good, LocalsAre, Want, RestoreBase
  <2>2. BaseIs(w)'
    BY <1>6, <2>1, UrlExt, StrFacts
    DEF TypeOK, Good, BaseIs, RestoreBase, Store, NextWord, Goto, Url, Word
  <2> QED BY <1>6, <2>1, <2>2
      DEF TypeOK, Good, TlsIs, Settled, LocalsAre, SoFar, RestoreBase, NextWord, Goto, Word
<1>7. CASE Failed(w)
  <2>1. base' = Str(Primary) /\ pc'[w] \in {"orig", "done"}
    BY <1>7 DEF TypeOK, Good, BaseIs, Failed, Goto
  <2>2. BaseIs(w)' /\ LocalsAre(w)' /\ TlsIs(w)' /\ Settled'
    BY <1>7, <2>1 DEF TypeOK, Good, BaseIs, LocalsAre, TlsIs, Settled, Want, Failed, Goto
  <2>3. Reached(target[w]) \subseteq {IF i[w] = 1 THEN Primary ELSE Secondary}
    <3>1. target[w] = Want(w) /\ i[w] \in 1..2 /\ (i[w] = 2 => Secondary # None)
        BY <1>7 DEF TypeOK, Good, LocalsAre, Failed
    <3>2. CASE i[w] = 1
        BY <3>1, <3>2, ReachedOne DEF Want
    <3>3. CASE i[w] = 2
        BY <3>1, <3>3, ReachedOne DEF Want
    <3> QED BY <3>1, <3>2, <3>3
  <2>4. SoFar(w)'
    <3>1. lost'[w] \subseteq lost[w] \cup {IF i[w] = 1 THEN Primary ELSE Secondary}
        BY <1>7, <2>3 DEF TypeOK, Failed
    <3>2. CASE pc'[w] = "orig"
        BY <1>7, <2>1, <3>1, <3>2 DEF TypeOK, Good, SoFar, Failed, Goto
    <3>3. CASE pc'[w] = "done"
      <4>1. ans'[w] = None /\ lost'[w] \subseteq Server
        BY <1>7 DEF TypeOK, Good, SoFar, Failed
      <4>2. Told(w)'
        BY <1>7, <4>1 DEF Good, SoFar, Told, Failed
      <4> QED BY <3>3, <4>1, <4>2, Deliveries DEF SoFar
    <3> QED BY <2>1, <3>2, <3>3
  <2> QED BY <2>1, <2>2, <2>4 DEF Good
<1>8. CASE Answered(w)
  <2>1. base' = Str(Primary) /\ pc'[w] = "done"
    BY <1>8 DEF TypeOK, Good, BaseIs, Answered, Goto
  <2>2. BaseIs(w)' /\ LocalsAre(w)' /\ TlsIs(w)' /\ Settled'
    BY <1>8, <2>1 DEF TypeOK, Good, BaseIs, LocalsAre, TlsIs, Settled, Want, Answered, Goto
  <2>3. Reached(target[w]) \subseteq {IF i[w] = 1 THEN Primary ELSE Secondary}
    <3>1. target[w] = Want(w) /\ i[w] \in 1..2 /\ (i[w] = 2 => Secondary # None)
        BY <1>8 DEF TypeOK, Good, LocalsAre, Answered
    <3>2. CASE i[w] = 1
        BY <3>1, <3>2, ReachedOne DEF Want
    <3>3. CASE i[w] = 2
        BY <3>1, <3>3, ReachedOne DEF Want
    <3> QED BY <3>1, <3>2, <3>3
  <2>4. \/ ans'[w] = None
        \/ ans'[w] = (IF i[w] = 1 THEN Primary ELSE Secondary) /\ lost'[w] = lost[w]
    BY <1>8, <2>3 DEF TypeOK, Good, SoFar, Answered
  <2>5. \E d \in Send : ans'[w] = d.ans /\ lost'[w] \subseteq d.lost
    <3>1. CASE ans'[w] = None
      <4>1. lost'[w] \subseteq Server
        BY <1>8 DEF TypeOK
      <4> QED BY <3>1, <4>1, Deliveries
    <3>2. CASE i[w] = 1 /\ ans'[w] = Primary /\ lost'[w] = lost[w]
      <4>1. lost'[w] = {}
        BY <1>8, <3>2 DEF Good, SoFar, Answered
      <4> QED BY <3>2, <4>1, Deliveries
    <3>3. CASE i[w] = 2 /\ ans'[w] = Secondary /\ lost'[w] = lost[w]
      <4>1. lost'[w] \subseteq {Primary}
        BY <1>8, <3>3 DEF Good, SoFar, Answered
      <4>2. Secondary \in Server \ {Primary}
        BY <3>3, DeliveryAssumption DEF Good, LocalsAre
      <4> QED BY <3>3, <4>1, <4>2, Deliveries
    <3> QED BY <2>4, <3>1, <3>2, <3>3 DEF TypeOK
  <2>6. Told(w)'
    <3>1. PICK s \in Reached(target[w]), a \in Answer \cup {NoAnswer} :
            \E body \in Bodies(a) :
                /\ said' = [said EXCEPT ![w] = a]
                /\ got' = [got EXCEPT ![w] = parseResponse(body)]
                /\ \/ parseResponse(body) # Unrecognized /\ ans' = [ans EXCEPT ![w] = s]
                   \/ parseResponse(body) = Unrecognized /\ UNCHANGED ans
        BY <1>8 DEF Answered
    <3>2. s # None /\ ans[w] = None
        BY <1>8, <3>1 DEF Reached, Good, SoFar, Answered
    <3>3. CASE a \in Answer
        BY <3>1, <3>2, <3>3, Parses DEF TypeOK, Told
    <3>4. CASE a = NoAnswer
        BY <3>1, <3>2, <3>4, Parses DEF TypeOK, Told
    <3> QED BY <3>1, <3>3, <3>4
  <2> QED BY <2>1, <2>2, <2>5, <2>6 DEF Good, SoFar
<1>9. CASE Return(w)
    BY <1>9, StrFacts
    DEF TypeOK, Good, BaseIs, TlsIs, Settled, LocalsAre, SoFar, Want, Return, Goto
<1>10. CASE Fingerprint(w)
  <2>1. base = Str(Primary) /\ fp[w] = Str(Primary)
    BY <1>10 DEF Good, BaseIs, LocalsAre, Fingerprint
  <2>2. fp'[w] = Str(Primary)
    BY <1>10, <2>1, UrlExt, StrFacts DEF TypeOK, Fingerprint, Load, Url, Word
  <2> QED BY <1>10, <2>1, <2>2
      DEF TypeOK, Good, BaseIs, TlsIs, Settled, LocalsAre, SoFar, Want, Fingerprint, NextWord,
          Goto, Word
<1>11. CASE CompareHash(w)
  <2>1. base = Str(Primary) /\ fp[w] = Str(Primary) /\ (~made => transport = None)
    BY <1>11 DEF Good, BaseIs, TlsIs, LocalsAre, CompareHash
  <2>2. word[w] \in Word /\ (made /\ tlsNeeded => pc'[w] # "rebuild")
    BY <1>11, <2>1 DEF TypeOK, Good, Settled, CompareHash, Built, Goto
  <2> QED BY <1>11, <2>1, <2>2
      DEF TypeOK, Good, BaseIs, TlsIs, Settled, LocalsAre, SoFar, Want, CompareHash, Built,
          Goto, Word
<1>12. CASE BuildTransport(w)
  <2>1. base = Str(Primary) /\ fp[w] = Str(Primary) /\ (~made \/ ~tlsNeeded) /\ word[w] = "ptr"
    BY <1>12 DEF Good, BaseIs, TlsIs, LocalsAre, BuildTransport
  <2>2. CASE ~tlsNeeded
    BY <1>12, <2>1, <2>2
    DEF TypeOK, Good, BaseIs, TlsIs, Settled, LocalsAre, SoFar, Want, BuildTransport, Built, Goto
  <2>3. CASE tlsNeeded
    BY <1>12, <2>1, <2>3, SendAssumption
    DEF TypeOK, Good, BaseIs, TlsIs, Settled, LocalsAre, SoFar, Want, BuildTransport, Goto
  <2> QED BY <2>2, <2>3
<1>13. CASE SetHash(w)
  <2>1. /\ base = Str(Primary) /\ fp[w] = Str(Primary)
        /\ ~made /\ tlsNeeded /\ transport # None
    BY <1>13 DEF Good, BaseIs, TlsIs, LocalsAre, SetHash
  <2>2. CASE word[w] = "ptr"
    <3>1. hash'["ptr"] = Str(Primary)
        BY <1>13, <2>1, <2>2 DEF TypeOK, SetHash, Word
    <3> QED BY <1>13, <2>1, <2>2, <3>1
      DEF TypeOK, Good, BaseIs, TlsIs, Settled, LocalsAre, SoFar, Want, SetHash
  <2>3. CASE word[w] = "len"
    <3>1. \A x \in Word : hash'[x] = Str(Primary)
        BY <1>13, <2>1, <2>3 DEF TypeOK, Good, TlsIs, SetHash, Word
    <3> QED BY <1>13, <2>1, <2>3, <3>1
      DEF TypeOK, Good, BaseIs, TlsIs, Settled, LocalsAre, SoFar, Want, SetHash, Built, Goto
  <2> QED BY <2>2, <2>3 DEF TypeOK, Word
<1> QED BY <1>1, <1>2, <1>3, <1>4, <1>5, <1>6, <1>7, <1>8, <1>9, <1>10, <1>11, <1>12, <1>13
    DEF Step

LEMMA NextInv ==
    ASSUME MaxConcurrent = 1, Inv, [Next]_vars
    PROVE  Inv'
<1>1. CASE UNCHANGED vars
    BY <1>1 DEF Inv, vars, locals, tls, TypeOK, Alone, Restored, Settled, Fresh, Active, BaseIs,
        TlsIs, LocalsAre, SoFar, Told, Want
<1>2. CASE Rotate
    BY <1>2 DEF Rotate, Inv, locals, TypeOK, Alone, Restored, Settled, Fresh, Active, BaseIs,
        TlsIs, LocalsAre, SoFar, Told, Want
<1>3. ASSUME NEW w \in Sender, Step(w)
      PROVE  Inv'
  <2>1. TypeOK'
    BY <1>3, StepType DEF Inv, LocalsAre
  <2>2. Good(w)
    <3>1. CASE pc[w] # "idle"
        BY <3>1 DEF Inv, Good
    <3>2. CASE pc[w] = "idle"
      <4>1. Active = {}
        BY <1>3, <3>2, OneAtATime
        DEF Step, NewKeaClientWithOptions, Fingerprint, CompareHash, BuildTransport, SetHash,
            ReadUrls, ReadOriginal, SetBase, BuildBaseURL, RestoreBase, Failed, Answered, Return
      <4> QED BY <3>2, <4>1 DEF Inv, Good, Restored, Fresh
    <3> QED BY <3>1, <3>2
  <2>3. Good(w)'
    BY <1>3, <2>1, <2>2, GoodStep DEF Inv
  <2>4. \A v \in Sender : v # w => pc'[v] = "idle" /\ LocalsAre(v)' /\ SoFar(v)'
    <3> SUFFICES ASSUME NEW v \in Sender, v # w
                 PROVE  pc'[v] = "idle" /\ LocalsAre(v)' /\ SoFar(v)'
        OBVIOUS
    <3>1. pc[v] = "idle" /\ pc'[v] = "idle"
        BY <1>3, Others DEF Inv
    <3>2. LocalsAre(v)'
        BY <1>3, <3>1, Others DEF Inv, LocalsAre, Want
    <3>3. SoFar(v)'
        BY <1>3, <3>1, Others DEF Inv, SoFar
    <3> QED BY <3>1, <3>2, <3>3
  <2>5. Alone' /\ Restored' /\ Fresh'
    BY <2>3, <2>4 DEF Alone, Restored, Fresh, Active, Good
  <2> QED BY <2>1, <2>3, <2>4, <2>5 DEF Inv, Good
<1> QED BY <1>1, <1>2, <1>3 DEF Next

LEMMA SerialInv ==
    ASSUME MaxConcurrent = 1
    PROVE  Spec => []Inv
    BY InitInv, NextInv, PTL DEF Spec

\* With MAX_CONCURRENT_RECONCILES = 1, whatever fails: every request of a Send
\* goes to the server the comments of Send say, in their order.
THEOREM SerialFirst ==
    ASSUME MaxConcurrent = 1
    PROVE  Spec => []PrimaryFirst
<1>1. Inv => PrimaryFirst
    BY DEF Inv, PrimaryFirst, LocalsAre, Want
<1> QED BY <1>1, SerialInv, PTL

\* With MAX_CONCURRENT_RECONCILES = 1, BaseUrl is the primary again whenever no
\* Send is running, however the last one failed.
THEOREM SerialRestored ==
    ASSUME MaxConcurrent = 1
    PROVE  Spec => []Restored
<1>1. Inv => Restored
    BY DEF Inv
<1> QED BY <1>1, SerialInv, PTL

\* With MAX_CONCURRENT_RECONCILES = 1, a Send is one of KeaDelivery's
\* deliveries, which the other modules take it to be.
LEMMA SerialSend ==
    ASSUME MaxConcurrent = 1
    PROVE  Spec => []Delivers
<1>1. Inv => Delivers
    BY DEF Inv, Delivers, SoFar
<1> QED BY <1>1, SerialInv, PTL

\* With MAX_CONCURRENT_RECONCILES = 1 the transport of the client's creation
\* serves every Send: a failover never reaches the fingerprint.
THEOREM SerialTransport ==
    ASSUME MaxConcurrent = 1
    PROVE  Spec => TransportKept
<1>1. ASSUME Inv, [Next]_vars
      PROVE  [made => transport' = transport]_vars
  <2>1. ASSUME NEW w \in Sender, BuildTransport(w)
        PROVE  made => transport' = transport
    BY <1>1, <2>1 DEF Inv, TlsIs, BuildTransport
  <2> QED BY <1>1, <2>1
      DEF Next, vars, tls, locals, Rotate, Step, NewKeaClientWithOptions, Call, Fingerprint,
          CompareHash, SetHash, ReadUrls, ReadOriginal, SetBase, BuildBaseURL, RestoreBase,
          Failed, Answered, Return
<1> QED BY <1>1, InitInv, NextInv, PTL DEF Spec, TransportKept

\* Whatever the other senders do to BaseUrl: a Send makes one request and, only
\* if there is a secondary, a second one, and an answer ends it.
Requests ==
    \A w \in Sender :
        /\ i[w] = 2 => Secondary # None
        /\ pc[w] # "done" => ans[w] = None
        /\ i[w] = 1 /\ (pc[w] # "done" \/ ans[w] # None) => lost[w] = {}
        /\ pc[w] # "done" \/ ans[w] # None => \E s \in Server : lost[w] \subseteq {s}

LEMMA RequestsStep ==
    ASSUME TypeOK, Requests, NEW w \in Sender, Step(w)
    PROVE  Requests'
<1> USE DEF TypeOK, Requests, locals, tls
<1>1. ASSUME NEW u \in Url, NEW done \in SUBSET Reached(u)
      PROVE  \E s \in Server : done \subseteq {s}
  <2>1. \A r, s \in Server : Str(r) = Str(s) => r = s
    BY StrFacts
  <2> QED BY <2>1, Servers DEF Reached
<1>2. CASE Failed(w)
  <2>1. PICK done \in SUBSET Reached(target[w]) : lost' = [lost EXCEPT ![w] = @ \cup done]
    BY <1>2 DEF Failed
  <2>2. \E s \in Server : done \subseteq {s}
    BY <1>1
  <2>3. i[w] = 1 => lost'[w] = done
    BY <1>2, <2>1 DEF Failed
  <2>4. /\ ans' = ans
        /\ \/ i[w] = 1 /\ i' = [i EXCEPT ![w] = 2] /\ Secondary # None
           \/ i' = i /\ pc' = [pc EXCEPT ![w] = "done"] /\ ans'[w] = None
    BY <1>2, Zenon DEF Failed, Goto
  <2>5. \A v \in Sender : v # w => pc'[v] = pc[v] /\ lost'[v] = lost[v]
    BY <1>2, <2>1 DEF Failed, Goto
  <2>6. CASE i[w] = 1 /\ i' = [i EXCEPT ![w] = 2] /\ Secondary # None
    <3>1. i'[w] = 2 /\ ans'[w] = None /\ \E s \in Server : lost'[w] \subseteq {s}
        BY <1>2, <2>2, <2>3, <2>4, <2>6 DEF Failed
    <3>2. \A v \in Sender : v # w =>
            pc'[v] = pc[v] /\ lost'[v] = lost[v] /\ i'[v] = i[v] /\ ans'[v] = ans[v]
        BY <2>4, <2>5, <2>6
    <3> QED BY <2>6, <3>1, <3>2
  <2>7. CASE i' = i /\ pc' = [pc EXCEPT ![w] = "done"] /\ ans'[w] = None
    BY <2>4, <2>5, <2>7
  <2> QED BY <2>4, <2>6, <2>7
<1>3. CASE Answered(w)
  <2>1. /\ i' = i /\ pc' = [pc EXCEPT ![w] = "done"]
        /\ \/ lost' = lost
           \/ ans' = ans
        /\ \A v \in Sender : v # w => ans'[v] = ans[v] /\ lost'[v] = lost[v]
    BY <1>3 DEF Answered, Goto
  <2> QED BY <1>3, <2>1 DEF Answered
<1>4. CASE Return(w)
    BY <1>4, Servers DEF Return, Goto
<1>5. CASE ~Failed(w) /\ ~Answered(w) /\ ~Return(w)
  <2>1. i' = i /\ ans' = ans /\ lost' = lost
    BY <1>5 DEF Step, NewKeaClientWithOptions, Call, Fingerprint, CompareHash, BuildTransport,
        SetHash, ReadUrls, ReadOriginal, SetBase, BuildBaseURL, RestoreBase
  <2>2. \A v \in Sender : pc[v] # "done" <=> pc'[v] # "done"
    BY <1>5 DEF Step, NewKeaClientWithOptions, Call, Active, Fingerprint, CompareHash,
        BuildTransport, SetHash, Built, ReadUrls, ReadOriginal, SetBase, BuildBaseURL,
        RestoreBase, NextWord, Goto
  <2> QED BY <2>1, <2>2
<1> QED BY <1>2, <1>3, <1>4, <1>5

LEMMA RequestsInv == Spec => [](TypeOK /\ Requests)
<1>1. Init => TypeOK /\ Requests
  <2>1. Init => Requests
    BY Servers DEF Init, Requests
  <2> QED BY <2>1, InitInv DEF Inv
<1>2. TypeOK /\ Requests /\ [Next]_vars => (TypeOK /\ Requests)'
  <2>1. ASSUME TypeOK, Requests, NEW w \in Sender, Step(w)
        PROVE  (TypeOK /\ Requests)'
    BY <2>1, StepType, RequestsStep DEF Requests
  <2>2. ASSUME TypeOK, Requests, UNCHANGED vars
        PROVE  (TypeOK /\ Requests)'
    BY <2>2 DEF TypeOK, Requests, vars, locals, tls
  <2>3. ASSUME TypeOK, Requests, Rotate
        PROVE  (TypeOK /\ Requests)'
    BY <2>3 DEF TypeOK, Requests, Rotate, locals
  <2> QED BY <2>1, <2>2, <2>3 DEF Next
<1> QED BY <1>1, <1>2, PTL DEF Spec

\* However many Sends overlap, each is one of KeaDelivery's deliveries: one that
\* keeps the order of the servers unless there is a secondary and Sends race.
THEOREM EverySend == Spec => []Delivers
<1>1. CASE Racing
  <2>1. TypeOK /\ Requests => Delivers
    <3>1. ASSUME TypeOK, Requests, NEW w \in Sender, pc[w] = "done"
          PROVE  [ans |-> ans[w], lost |-> lost[w]] \in Send
        BY <1>1, <3>1 DEF TypeOK, Requests, Send, RacingSend
    <3> QED BY <3>1 DEF Delivers
  <2> QED BY <2>1, RequestsInv, PTL
<1>2. CASE Secondary = None
  <2>1. TypeOK /\ Requests => Delivers
    <3>1. Server = {Primary}
        BY <1>2, DeliveryAssumption DEF Server
    <3> QED BY <1>2, <3>1, Deliveries DEF TypeOK, Requests, Delivers
  <2> QED BY <2>1, RequestsInv, PTL
<1>3. CASE MaxConcurrent = 1
    BY <1>3, SerialSend
<1> QED BY <1>1, <1>2, <1>3, SendAssumption

\* No Send makes a second request.
NoFailover == \A w \in Sender : i[w] = 1

\* BaseUrl, and whatever was read from it, is the primary's URL.
Undisturbed ==
    /\ base = Str(Primary)
    /\ \A w \in Sender :
        first[w] = Str(Primary) /\ orig[w] = Str(Primary) /\ target[w] = Str(Primary)

LEMMA UndisturbedStep ==
    ASSUME TypeOK, Undisturbed, NoFailover, [Next]_vars
    PROVE  Undisturbed'
<1>1. ASSUME NEW u \in Url, u = Str(Primary), NEW x \in Word
      PROVE  [u EXCEPT ![x] = Str(Primary)[x]] = Str(Primary)
    BY <1>1 DEF Url
<1>2. Str(Primary) \in Url
    BY StrFacts, Servers
<1> USE <1>1, <1>2 DEF TypeOK, Undisturbed, locals, tls
<1>3. ASSUME NEW w \in Sender, ReadUrls(w) \/ ReadOriginal(w) \/ BuildBaseURL(w)
      PROVE  Undisturbed'
    BY <1>3 DEF ReadUrls, ReadOriginal, BuildBaseURL, Load
<1>4. ASSUME NEW w \in Sender, SetBase(w) \/ RestoreBase(w)
      PROVE  Undisturbed'
    BY <1>4 DEF NoFailover, SetBase, RestoreBase, Store, BaseOf
<1>5. ASSUME NEW w \in Sender, Step(w)
      PROVE  Undisturbed'
  <2>1. CASE Return(w)
    BY <2>1 DEF Return
  <2>2. CASE Failed(w) \/ Answered(w)
    BY <2>2 DEF Failed, Answered
  <2>3. CASE \/ NewKeaClientWithOptions(w) \/ Call(w) \/ Fingerprint(w) \/ CompareHash(w)
             \/ BuildTransport(w) \/ SetHash(w)
    BY <2>3 DEF NewKeaClientWithOptions, Call, Fingerprint, CompareHash, BuildTransport, SetHash
  <2> QED BY <1>3, <1>4, <1>5, <2>1, <2>2, <2>3 DEF Step
<1>6. CASE Rotate \/ UNCHANGED vars
    BY <1>6 DEF Rotate, vars
<1> QED BY <1>5, <1>6 DEF Next

\* However many Sends overlap, until one of them fails over the swaps of BaseUrl
\* change nothing: every request goes to the primary, so that Deliver in
\* SubnetService need not let a Send stray as long as there was no fault.
THEOREM HarmlessUntilFailover == Spec /\ []NoFailover => []Undisturbed
<1>1. Init => Undisturbed
    BY DEF Init, Undisturbed
<1>2. TypeOK /\ Undisturbed /\ NoFailover /\ [Next]_vars => Undisturbed'
    BY UndisturbedStep
<1> QED BY <1>1, <1>2, RequestsInv, PTL DEF Spec

\* Whatever the other senders do to BaseUrl, a Send is told nothing before it is
\* done, and a second request is made only if there is a secondary.
OwnVerdict ==
    \A w \in Sender :
        /\ i[w] = 2 => Secondary # None
        /\ pc[w] # "done" => said[w] = NoAnswer /\ got[w] = Unrecognized /\ ans[w] = None
        /\ pc[w] = "done" => Told(w)

LEMMA OwnVerdictStep ==
    ASSUME TypeOK, OwnVerdict, NEW w \in Sender, Step(w)
    PROVE  OwnVerdict'
<1> USE DEF TypeOK, OwnVerdict, locals, tls
<1>1. CASE Failed(w)
    BY <1>1 DEF Failed, Goto, Told
<1>2. CASE Answered(w)
  <2>1. PICK s \in Reached(target[w]), a \in Answer \cup {NoAnswer} :
            \E body \in Bodies(a) :
                /\ said' = [said EXCEPT ![w] = a]
                /\ got' = [got EXCEPT ![w] = parseResponse(body)]
                /\ \/ parseResponse(body) # Unrecognized /\ ans' = [ans EXCEPT ![w] = s]
                   \/ parseResponse(body) = Unrecognized /\ UNCHANGED ans
    BY <1>2 DEF Answered
  <2>2. s # None /\ ans[w] = None
    BY <1>2, <2>1, Servers DEF Reached, Answered
  <2>3. Told(w)'
    <3>1. CASE a \in Answer
        BY <2>1, <2>2, <3>1, Parses DEF Told
    <3>2. CASE a = NoAnswer
        BY <2>1, <2>2, <3>2, Parses DEF Told
    <3> QED BY <2>1, <3>1, <3>2
  <2>4. ASSUME NEW v \in Sender, v # w
        PROVE  /\ pc'[v] = pc[v] /\ said'[v] = said[v] /\ got'[v] = got[v] /\ ans'[v] = ans[v]
               /\ Told(v)' <=> Told(v)
    <3>1. pc'[v] = pc[v] /\ said'[v] = said[v] /\ got'[v] = got[v] /\ ans'[v] = ans[v]
        BY <1>2, <2>1, <2>4 DEF Answered, Goto
    <3> QED BY <3>1 DEF Told
  <2>5. pc'[w] = "done" /\ i' = i
    BY <1>2 DEF Answered, Goto
  <2> QED BY <2>3, <2>4, <2>5
<1>3. CASE Return(w)
    BY <1>3 DEF Return, Goto, Told
<1>4. CASE ~Failed(w) /\ ~Answered(w) /\ ~Return(w)
  <2>1. i' = i /\ ans' = ans /\ said' = said /\ got' = got
    BY <1>4 DEF Step, NewKeaClientWithOptions, Call, Fingerprint, CompareHash, BuildTransport,
        SetHash, ReadUrls, ReadOriginal, SetBase, BuildBaseURL, RestoreBase
  <2>2. \A v \in Sender : pc[v] # "done" <=> pc'[v] # "done"
    BY <1>4 DEF Step, NewKeaClientWithOptions, Call, Active, Fingerprint, CompareHash,
        BuildTransport, SetHash, Built, ReadUrls, ReadOriginal, SetBase, BuildBaseURL,
        RestoreBase, NextWord, Goto
  <2> QED BY <2>1, <2>2 DEF Told
<1> QED BY <1>1, <1>2, <1>3, <1>4

LEMMA AnyConcurrency == Spec => [](TypeOK /\ OwnVerdict)
<1>1. Init => TypeOK /\ OwnVerdict
  <2>1. Init => OwnVerdict
    BY DEF Init, OwnVerdict
  <2> QED BY <2>1, InitInv DEF Inv
<1>2. TypeOK /\ OwnVerdict /\ [Next]_vars => (TypeOK /\ OwnVerdict)'
  <2>1. ASSUME TypeOK, OwnVerdict, NEW w \in Sender, Step(w)
        PROVE  (TypeOK /\ OwnVerdict)'
    BY <2>1, StepType, OwnVerdictStep DEF OwnVerdict
  <2>2. ASSUME TypeOK, OwnVerdict, UNCHANGED vars
        PROVE  (TypeOK /\ OwnVerdict)'
    BY <2>2 DEF TypeOK, OwnVerdict, Told, vars, locals, tls
  <2>3. ASSUME TypeOK, OwnVerdict, Rotate
        PROVE  (TypeOK /\ OwnVerdict)'
    BY <2>3 DEF TypeOK, OwnVerdict, Told, Rotate, locals
  <2> QED BY <2>1, <2>2, <2>3 DEF Next
<1> QED BY <1>1, <1>2, PTL DEF Spec

\* However many Sends race on BaseUrl, every variable keeps its type: a torn
\* URL is still made of the words of the two servers' URLs.
THEOREM SendTypes == Spec => []TypeOK
    BY AnyConcurrency, PTL

\* However many Sends race on BaseUrl, the caller of each learns what the server
\* that answered this Send said, and no error is taken for an answer.
THEOREM SendTruthful == Spec => []Truthful
<1>1. OwnVerdict => Truthful
    BY DEF OwnVerdict, Truthful, Told
<1> QED BY <1>1, AnyConcurrency, PTL

=============================================================================
