---------------------------- MODULE KeaClientSend ----------------------------
(***************************************************************************)
(* keaClient.Send of pkg/clients/keaclient/keaclient.go, step by step.  All *)
(* reconciles of a process share one keaClient.  Send hands each URL it    *)
(* tries to buildBaseURL through the shared field BaseUrl and puts the old *)
(* value back, without a lock: a data race.  A Go string is two machine    *)
(* words, so every access to BaseUrl is two steps.  So is every access to  *)
(* lastConfigHash, by which buildHTTPClient, called at the start of each   *)
(* Send, decides whether the TLS transport must be built anew.             *)
(*                                                                         *)
(* KeaDelivery states what a Send does to the servers and is what the      *)
(* other modules rely on; Delivers says that Send does nothing else.       *)
(***************************************************************************)
EXTENDS KeaDelivery, KeaResponse, Integers, FiniteSets

CONSTANTS
    Sender,         \* goroutines that call Send
    MaxConcurrent,  \* MAX_CONCURRENT_RECONCILES: how many of them at once
    Generation      \* contents the certificate files may have

ASSUME SendAssumption ==
    /\ IsFiniteSet(Sender) /\ MaxConcurrent \in Nat \ {0}
    /\ Generation # {} /\ None \notin Generation
    /\ Secondary # None /\ ~Racing => MaxConcurrent = 1

Word == {"ptr", "len"}
Url == [Word -> Server]
Str(s) == [x \in Word |-> s]

VARIABLES
    base,     \* c.BaseUrl
    pc,       \* where each sender is
    word,     \* which word of a string comes next
    first,    \* urls[0] of each sender
    i,        \* its loop index
    orig,     \* its originalBase
    target,   \* its base, the URL that is posted to
    ans,      \* the server whose answer it returns, or None
    lost,     \* the servers that got its command but whose answer was lost
    said,     \* the answer in the body it read, or NoAnswer
    got,      \* the Response it returns, or Unrecognized with an error
    tlsNeeded,\* some TLS setting is configured, for good
    made,     \* NewKeaClientWithOptions has returned
    disk,     \* what the certificate files hold
    transport,\* what HttpClient.Transport was built from, or None
    hash,     \* c.lastConfigHash: for each word, the URL in the string it is of
    fp        \* the URL in each sender's newHash; its other parts never change

locals == <<first, i, orig, target, ans, lost, said, got>>
tls == <<tlsNeeded, made, disk, transport, hash, fp>>
vars == <<base, pc, word, locals, tls>>

Access == {"fp", "hash", "rebuild", "sethash", "urls", "orig", "set", "build", "restore"}

Init ==
    /\ base = Str(Primary)
    /\ pc = [w \in Sender |-> "idle"]
    /\ word = [w \in Sender |-> "ptr"]
    /\ first = [w \in Sender |-> Str(Primary)]
    /\ i = [w \in Sender |-> 1]
    /\ orig = [w \in Sender |-> Str(Primary)]
    /\ target = [w \in Sender |-> Str(Primary)]
    /\ ans = [w \in Sender |-> None]
    /\ lost = [w \in Sender |-> {}]
    /\ said = [w \in Sender |-> NoAnswer]
    /\ got = [w \in Sender |-> Unrecognized]
    /\ tlsNeeded \in BOOLEAN
    /\ made = FALSE
    /\ disk \in Generation
    /\ transport = None
    /\ hash = [x \in Word |-> Str(None)]
    /\ fp = [w \in Sender |-> Str(Primary)]

Goto(w, l) == pc' = [pc EXCEPT ![w] = l]

\* The sender goes on to label l once both words are done.
NextWord(w, l) ==
    \/ word[w] = "ptr" /\ word' = [word EXCEPT ![w] = "len"] /\ UNCHANGED pc
    \/ word[w] = "len" /\ word' = [word EXCEPT ![w] = "ptr"] /\ Goto(w, l)

\* The string f[w] after the next word of BaseUrl was loaded into it.
Load(f, w) == [f EXCEPT ![w] = [@ EXCEPT ![word[w]] = base[word[w]]]]

Store(w, s) == base' = [base EXCEPT ![word[w]] = s[word[w]]]

-----------------------------------------------------------------------------
Active == {w \in Sender : pc[w] # "idle"}

\* The goroutine that sets the process up creates the client.
NewKeaClientWithOptions(w) ==
    /\ ~made
    /\ Active = {}
    /\ Goto(w, "fp")
    /\ UNCHANGED <<base, word, locals, tls>>

Call(w) ==
    /\ made
    /\ pc[w] = "idle"
    /\ Cardinality(Active) < MaxConcurrent
    /\ Goto(w, "fp")
    /\ UNCHANGED <<base, word, locals, tls>>

\* The files of the mounted secret are replaced.
Rotate ==
    /\ disk' \in Generation \ {disk}
    /\ UNCHANGED <<base, pc, word, locals, tlsNeeded, made, transport, hash, fp>>

\* buildHTTPClient: confParts, with c.BaseUrl in it.
Fingerprint(w) ==
    /\ pc[w] = "fp"
    /\ fp' = Load(fp, w)
    /\ NextWord(w, "hash")
    /\ UNCHANGED <<base, locals, tlsNeeded, made, disk, transport, hash>>

\* buildHTTPClient returns, to the constructor or to Send.
Built(w) ==
    /\ Goto(w, IF made THEN "urls" ELSE "idle")
    /\ made' = TRUE

\* The transport is built for every Send.
NeverSame(w) ==
    /\ pc[w] = "hash"
    /\ Goto(w, "rebuild")
    /\ UNCHANGED <<base, word, locals, tls>>

\* c.lastConfigHash == newHash && c.HttpClient.Transport != nil
CompareHash(w) ==
    /\ pc[w] = "hash"
    /\ \/ /\ transport # None /\ hash[word[w]] = fp[w]
          /\ \/ word[w] = "ptr" /\ word' = [word EXCEPT ![w] = "len"] /\ UNCHANGED <<pc, made>>
             \/ word[w] = "len" /\ word' = [word EXCEPT ![w] = "ptr"] /\ Built(w)
       \/ /\ ~(transport # None /\ hash[word[w]] = fp[w])
          /\ word' = [word EXCEPT ![w] = "ptr"]
          /\ Goto(w, "rebuild")
          /\ UNCHANGED made
    /\ UNCHANGED <<base, locals, tlsNeeded, disk, transport, hash, fp>>

\* The certificates are read and the transport replaced, unless no TLS setting
\* asks for one.
BuildTransport(w) ==
    /\ pc[w] = "rebuild"
    /\ \/ ~tlsNeeded /\ Built(w) /\ UNCHANGED transport
       \/ tlsNeeded /\ transport' = disk /\ Goto(w, "sethash") /\ UNCHANGED made
    /\ UNCHANGED <<base, word, locals, tlsNeeded, disk, hash, fp>>

\* c.lastConfigHash = newHash
SetHash(w) ==
    /\ pc[w] = "sethash"
    /\ hash' = [hash EXCEPT ![word[w]] = fp[w]]
    /\ \/ word[w] = "ptr" /\ word' = [word EXCEPT ![w] = "len"] /\ UNCHANGED <<pc, made>>
       \/ word[w] = "len" /\ word' = [word EXCEPT ![w] = "ptr"] /\ Built(w)
    /\ UNCHANGED <<base, locals, tlsNeeded, disk, transport, fp>>

\* urls := []string{c.BaseUrl}, to which SecondaryUrl is appended.
ReadUrls(w) ==
    /\ pc[w] = "urls"
    /\ first' = Load(first, w)
    /\ NextWord(w, "orig")
    /\ UNCHANGED <<base, i, orig, target, ans, lost, said, got, tls>>

\* originalBase := c.BaseUrl
ReadOriginal(w) ==
    /\ pc[w] = "orig"
    /\ orig' = Load(orig, w)
    /\ NextWord(w, "set")
    /\ UNCHANGED <<base, first, i, target, ans, lost, said, got, tls>>

BaseOf(w) == IF i[w] = 1 THEN first[w] ELSE Str(Secondary)

\* c.BaseUrl = baseUrl
SetBase(w) ==
    /\ pc[w] = "set"
    /\ Store(w, BaseOf(w))
    /\ NextWord(w, "build")
    /\ UNCHANGED <<locals, tls>>

\* buildBaseURL loads c.BaseUrl once.
BuildBaseURL(w) ==
    /\ pc[w] = "build"
    /\ target' = Load(target, w)
    /\ NextWord(w, "restore")
    /\ UNCHANGED <<base, first, i, orig, ans, lost, said, got, tls>>

\* c.BaseUrl = originalBase
RestoreNothing(w) ==
    /\ pc[w] = "restore"
    /\ NextWord(w, "do")
    /\ UNCHANGED <<base, locals, tls>>

RestoreBase(w) ==
    /\ pc[w] = "restore"
    /\ Store(w, orig[w])
    /\ NextWord(w, "do")
    /\ UNCHANGED <<locals, tls>>

\* The server a URL leads to.  A pointer with another string's length is no
\* URL of any server.
Reached(u) == {s \in Server : u = Str(s)}

\* A request fails on the wire, having reached its server or not: try the
\* secondary, if there is one and it has not been tried.
FailedUnbounded(w) ==
    /\ pc[w] = "do"
    /\ \E done \in SUBSET Reached(target[w]) : lost' = [lost EXCEPT ![w] = @ \cup done]
    /\ i' = [i EXCEPT ![w] = @ + 1]
    /\ Goto(w, "orig")
    /\ UNCHANGED <<base, word, first, orig, target, ans, said, got, tls>>

Failed(w) ==
    /\ pc[w] = "do"
    /\ \E done \in SUBSET Reached(target[w]) : lost' = [lost EXCEPT ![w] = @ \cup done]
    /\ \/ i[w] = 1 /\ Secondary # None /\ i' = [i EXCEPT ![w] = 2] /\ Goto(w, "orig")
       \/ ~(i[w] = 1 /\ Secondary # None) /\ Goto(w, "done") /\ UNCHANGED i
    /\ UNCHANGED <<base, word, first, orig, target, ans, said, got, tls>>

\* A response was read: Send returns it if parseResponse makes sense of it,
\* otherwise an error (the server may have executed the command all the same).
\* It also sets c.currentUrl, which nothing reads.
Answered(w) ==
    /\ pc[w] = "do"
    /\ \E s \in Reached(target[w]), a \in Answer \cup {NoAnswer} : \E body \in Bodies(a) :
        /\ said' = [said EXCEPT ![w] = a]
        /\ got' = [got EXCEPT ![w] = parseResponse(body)]
        /\ \/ /\ parseResponse(body) # Unrecognized
              /\ ans' = [ans EXCEPT ![w] = s]
              /\ UNCHANGED lost
           \/ /\ parseResponse(body) = Unrecognized
              /\ \E done \in SUBSET {s} : lost' = [lost EXCEPT ![w] = @ \cup done]
              /\ UNCHANGED ans
    /\ Goto(w, "done")
    /\ UNCHANGED <<base, word, first, i, orig, target, tls>>

\* The caller takes the result; Send's local variables are gone.
Return(w) ==
    /\ pc[w] = "done"
    /\ Goto(w, "idle")
    /\ first' = [first EXCEPT ![w] = Str(Primary)]
    /\ i' = [i EXCEPT ![w] = 1]
    /\ orig' = [orig EXCEPT ![w] = Str(Primary)]
    /\ target' = [target EXCEPT ![w] = Str(Primary)]
    /\ ans' = [ans EXCEPT ![w] = None]
    /\ lost' = [lost EXCEPT ![w] = {}]
    /\ said' = [said EXCEPT ![w] = NoAnswer]
    /\ got' = [got EXCEPT ![w] = Unrecognized]
    /\ fp' = [fp EXCEPT ![w] = Str(Primary)]
    /\ UNCHANGED <<base, word, tlsNeeded, made, disk, transport, hash>>

Step(w) ==
    \/ NewKeaClientWithOptions(w) \/ Call(w)
    \/ Fingerprint(w) \/ CompareHash(w) \/ BuildTransport(w) \/ SetHash(w)
    \/ ReadUrls(w) \/ ReadOriginal(w) \/ SetBase(w) \/ BuildBaseURL(w)
    \/ RestoreBase(w) \/ Failed(w) \/ Answered(w) \/ Return(w)

Next == Rotate \/ \E w \in Sender : Step(w)

Spec == Init /\ [][Next]_vars

-----------------------------------------------------------------------------
(* Properties *)

TypeOK ==
    /\ base \in Url
    /\ pc \in [Sender -> Access \cup {"idle", "do", "done"}]
    /\ word \in [Sender -> Word]
    /\ first \in [Sender -> Url] /\ orig \in [Sender -> Url] /\ target \in [Sender -> Url]
    /\ i \in [Sender -> 1..2]
    /\ ans \in [Sender -> Server \cup {None}]
    /\ lost \in [Sender -> SUBSET Server]
    /\ said \in [Sender -> Answer \cup {NoAnswer}]
    /\ got \in [Sender -> [result : Result, args : BOOLEAN] \cup {Unrecognized}]
    /\ tlsNeeded \in BOOLEAN /\ made \in BOOLEAN
    /\ disk \in Generation /\ transport \in Generation \cup {None}
    /\ hash \in [Word -> Url \cup {Str(None)}]
    /\ fp \in [Sender -> Url]

\* The first request of a Send goes to the primary, the second to the
\* secondary (Send: "Try primary URL first, then secondary if available").
PrimaryFirst ==
    \A w \in Sender : pc[w] = "do" =>
        target[w] = IF i[w] = 1 THEN Str(Primary) ELSE Str(Secondary)

\* Nothing of a failover stays behind: when no Send is running, BaseUrl is the
\* primary ("Temporarily set BaseUrl", "Restore original").
Restored == Active = {} => base = Str(Primary)

\* A Send does to the servers what KeaDelivery says, which every other module
\* builds on.  One at a time, no server gets the command twice and the primary's
\* answer is returned only if the secondary never got the command.
Delivers ==
    \A w \in Sender : pc[w] = "done" =>
        \E d \in Send : ans[w] = d.ans /\ lost[w] \subseteq d.lost

\* The caller learns the verdict of the server that answered, and its arguments
\* if they are an object, in whichever of the formats parseResponse knows the
\* answer came; what is no answer is an error, never a success.
Truthful ==
    \A w \in Sender : pc[w] = "done" =>
        IF said[w] = NoAnswer THEN ans[w] = None /\ got[w] = Unrecognized
        ELSE /\ ans[w] # None
             /\ got[w] = [result |-> said[w].result, args |-> said[w].args = "object"]

\* Once the client exists its transport, and with it the keep-alive connections,
\* is kept ("avoid rebuilding transport when unchanged"): the swaps of BaseUrl
\* never reach the fingerprint, and new certificate files wait for a restart.
TransportKept == [][made => transport' = transport]_vars

=============================================================================
