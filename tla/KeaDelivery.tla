----------------------------- MODULE KeaDelivery -----------------------------
(***************************************************************************)
(* What one call of keaClient.Send (pkg/clients/keaclient/keaclient.go)    *)
(* can do to the Kea servers.  Send posts the command to the primary and,  *)
(* if that request fails on the wire, to the secondary.  It stops at the   *)
(* first server whose answer it can read.  A request whose answer is lost  *)
(* (timeout, reset connection) may still be executed by that server, at    *)
(* once or after Send has returned.                                        *)
(*                                                                         *)
(* So it is for one Send at a time, and for a single server.  Sends that   *)
(* overlap share BaseUrl without a lock: the failover of one may turn      *)
(* another to either server, or to none, and leave BaseUrl changed.        *)
(***************************************************************************)
CONSTANTS
    Primary,    \* keaClient.BaseUrl
    Secondary,  \* keaClient.SecondaryUrl, or None when it is empty
    None,       \* no server, no worker, no value
    Racing      \* there is a secondary, and Sends of one process overlap

ASSUME DeliveryAssumption == Primary # None /\ Primary # Secondary
ASSUME RacingAssumption == Racing \in BOOLEAN /\ (Racing => Secondary # None)

Server == {Primary, Secondary} \ {None}

(***************************************************************************)
(* A delivery: the server whose answer Send returns (None when there is no *)
(* usable answer) and the servers that got the command but whose answer    *)
(* was lost.  An answer with a non-zero result that is not the command's   *)
(* own verdict (a busy or misconfigured agent), or one that parseResponse  *)
(* rejects before execution, is [ans |-> None, lost |-> {}]: Send does not *)
(* fail over on it.                                                        *)
(***************************************************************************)
Clean == [ans |-> Primary, lost |-> {}]

\* The primary first, then the secondary.
OneSend ==
    {Clean, [ans |-> None, lost |-> {}], [ans |-> None, lost |-> Server]}
        \cup {[ans |-> s, lost |-> {Primary}] : s \in Server \ {Primary}}

\* Two requests at most, each to whatever server BaseUrl leads to.
RacingSend ==
    {d \in [ans : Server \cup {None}, lost : SUBSET Server] :
        d.ans = None \/ \E s \in Server : d.lost \subseteq {s}}

Send == IF Racing THEN RacingSend ELSE OneSend

Cost(d) == IF d = Clean THEN 0 ELSE 1

=============================================================================
