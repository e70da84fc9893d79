--------------------------- MODULE SubnetRegistry ---------------------------
(***************************************************************************)
(* What GetOrCreateSubnet promises its callers, whatever they interleave   *)
(* with: a prefix gets at most one id, once and for all; no two prefixes   *)
(* share an id; and a caller is told the id of its own prefix or an error. *)
(***************************************************************************)
EXTENDS Integers

CONSTANTS Worker, Cidr, Prefix   \* Prefix[w]: the prefix worker w asks for

VARIABLES
    reg,    \* the id of each prefix, 0 while it has none
    out     \* per worker: 0 no answer yet, -1 an error, otherwise the id

vars == <<reg, out>>

Distinct(f) == \A c, x \in Cidr : f[c] = f[x] /\ f[c] # 0 => c = x

Init ==
    /\ reg \in [Cidr -> Nat] /\ Distinct(reg)
    /\ out = [w \in Worker |-> 0]

\* At most one prefix gets its id in a step, and that id was free.
Assign ==
    \/ reg' = reg
    \/ \E c \in Cidr :
        /\ reg[c] = 0
        /\ reg'[c] \in Nat \ {0}
        /\ \A x \in Cidr : reg[x] # reg'[c]
        /\ reg' = [reg EXCEPT ![c] = reg'[c]]

\* Callers come, go and are answered; a new answer is the registered id.
Answer ==
    /\ out' = [w \in Worker |-> out'[w]]
    /\ \A w \in Worker :
        out'[w] \in {out[w], 0, -1} \/ (out'[w] # 0 /\ out'[w] = reg'[Prefix[w]])

Next == Assign /\ Answer

Spec == Init /\ [][Next]_vars

=============================================================================
