# A TLA+ verification of the kea-operator

The kea-operator is a Kubernetes operator. For every NetworkConfiguration (NC)
it makes sure that the ISC Kea DHCP server has a subnet for the IPv4 prefix of
the namespace's NetworkNamespace (NN) and a reservation for every MAC address
the NC lists. This directory models that behaviour in TLA+, checks it with TLC
on small instances, and proves its safety with TLAPS for every instance. Paths
are relative to the repository's root; definitions keep the names of the
functions they translate, and `PROJECT.json` gives the source lines of each.

## 1. The system

| Part | State | Operations | Talks to |
| --- | --- | --- | --- |
| Controller (`internal/controller/v1alpha1`) | none of its own; a copy of the NC during a reconcile | `Reconcile`, `handleDeletion`, `cleanupReservations`, `processMACReservations`, `resolveSubnetInfo`, `buildStatusInterfaces`, `setCondition`, `updateStatus` | API server (through the informer cache for reads), service |
| Service (`internal/services/kea`) | one mutex per prefix | `GetOrCreateSubnet`, `GetSubnetID`, `GetSubnetInfo`, `GetLeaseIPv4ForMAC`, `EnsureReservationForMACIP`, `DeleteReservationForMAC` | Kea client |
| Kea client (`pkg/clients/keaclient`) | `BaseUrl`, `SecondaryUrl`, the HTTP client and its configuration fingerprint; shared by all goroutines | `Send`, `buildBaseURL`, `buildHTTPClient`, `parseResponse` | Kea servers over HTTP |
| Pool calculation (`internal/util/subnet`) | none | `CalculatePoolFromCIDR` | - |
| Start-up (`cmd`, `internal/clients`, `internal/services/initialchecks`) | the client singleton | `OptionFromEnv`, `InitializeClients` (twice), `InitialChecks`, `checkKea`, manager start | Kea, API server, a secret, certificate files |
| controller-runtime (external) | work queue, delayed queue, informer cache | events, requeues, `MaxConcurrentReconciles` goroutines | - |
| Kea (external) | subnets, reservations, leases, per server | `subnet4-list/-get/-add`, `lease4-get-by-hw-address`, `reservation-add/-del/-get-by-id/-get-all` | - |

What is hard here: up to five reconciles share one service and one client
without more synchronisation than the per-prefix mutex; leader election is off
by default, so replicas work side by side; every Kea command may fail, be
executed although its answer is lost, or be executed late; a second Kea server
may take over in the middle of a reconcile and number its subnets differently;
the operator works on cached objects, ignores most errors and relies on
requeues; machines, users and the NetworkNamespace controller change the
world between any two steps; and at start-up the Kea client is put together from
several sources, checked, and put together again. The full list, with lines, is under "hazards" in
`PROJECT.json`.

What makes the parts correct: callers of `GetOrCreateSubnet` agree on one id per
prefix and every prefix is provisioned in the end; `Send` tries the right
servers, tells its caller what the answering server said and leaves nothing
behind; the operator starts once everything it needs is there, and talks to Kea
no less safely than when it checked; an NC is shown as Ready only with its
reservations made; reservations do not outlive the finalizer that cleans them
up; resources of other operators are untouched; everything that can be
configured is configured in the end, and deletions complete.

## 2. Modules

    KeaDelivery ── SubnetService ── SubnetSystem ── MCSubnetSystem
        │               │               ├── SubnetProofs
        │               │               └─> SubnetRegistry   (abstract, refined)
        │               └── ReservationService ── Reconciler ── Operator ── MCOperator
        │                                                          ├─> ReservationLedger
        │                                                          │   (abstract, refined)
        │                                                          └── OperatorProofs
        │                                                                  ├── ClaimProofs
        │                                                                  ├── ReadyProofs
        │                                                                  └── CleanProofs
        └── KeaClientSend ── SendProofs
    KeaResponse ────┘
    Startup ── MCStartup
        └── StartupProofs
    SubnetPool ── MCSubnetPool
        └── PoolProofs

**KeaDelivery** says what a `Send` can do to the servers: the server whose
answer is returned, and the servers that got the command without the caller
learning it. All other modules use it for every Kea command. There are two
cases, told apart by the constant `Racing`. One `Send` at a time, or a single
server: the primary first, then the secondary, each at most once (`OneSend`).
Overlapping `Send`s of one process and a secondary (`Racing`): because `BaseUrl`
is swapped without a lock, two requests at most, each to whichever server, the
same one twice included, or to none (`RacingSend`). The `OverlapAssumption`s of
SubnetSystem and Reconciler and the `SendAssumption` of KeaClientSend make
`Racing` obligatory wherever reconciles of one process may overlap and there is
a secondary. **KeaClientSend** is `Send` itself, step by step, and its property `Delivers` says that it does
nothing but what KeaDelivery allows. A Go string is two machine words and the
accesses to `BaseUrl` are not synchronised, so every load and store of it is two
steps; a URL with the pointer of one string and the length of another reaches
no server. Each `Send` begins with `buildHTTPClient` (`Fingerprint`,
`CompareHash`, `BuildTransport`, `SetHash`), which decides by a fingerprint of
the configuration, the `BaseUrl` of the moment included, whether the transport is
built anew; the fingerprint's other parts never change after construction and are
left out. `Rotate` replaces the certificate files. **KeaResponse** is
`parseResponse` on the shapes a body may have: a list, an object with
`responses`, a single object, or something else, with a result that may be
missing or mistyped and arguments that may be an object or a list.

**SubnetService** is `GetOrCreateSubnet`: take the prefix's mutex (`Acquire`),
list (`Get`), choose an id (`PickID`), add (`Add`), and after a failed add list
again (`Reget`). Each Kea command is a step of its own. Kea's side of the
commands (`CanAdd`, `AddSubnet`) is external: a prefix or an id in use is
refused. `LateAdd` executes a command whose answer was lost. `Deliver` counts
every delivery that is not executed and answered by the primary as a fault,
except that with `Racing`, after a first fault, a `Send` may stray to the other
server or fail at no further cost: a raced failover can leave `BaseUrl` changed
for good. **SubnetSystem**
puts workers of several processes around it, which call it again and again, and
lets processes crash. **SubnetRegistry** is the promise: a prefix gets one id,
once and for all, no two prefixes share one, and a caller is told the id of its
prefix or an error.

**ReservationService** adds leases and reservations: for each MAC, in any order
(the code iterates over a Go map), `GetLeaseIPv4ForMAC`, `GetStoredAddress` (its
fallback), `Exists` and `ExistsAll` (`macReservationExists`), `ReservationAdd`;
on deletion `CleanupList` and `DeleteReservationForMAC`. An address is
represented by the prefix in which it lies: each MAC has an address of its own
in each prefix, so addresses never clash; a reservation that Kea refuses for
another reason is a faulty answer.

**Reconciler** is the controller with the work queue and the informer cache. A
worker stands for one NC in one process, since the queue never runs two
reconciles of one key at once. Reading the cache, triage, the finalizer and the
"Reconciling" status are one step (`Skip`, `StrictError`, `EnsureFinalizer`,
`StartReconcile`, `StartDeletion`): none of it talks to Kea, and the API server
only receives. The NN's own cache is not modelled: reading a stale NN is reading
it before `EditNamespace` happens. The two status patches at the end of a
reconcile are one step in which either of them may fail. A patch sends only the
fields that differ from the reconcile's copy and carries no version. The
finalizer functions are external (`vitistack/common`): on a stale copy the model
lets them both succeed and be refused.

**Operator** closes the system: users, the NetworkNamespace controller, leases,
crashes. An NC carries no finalizer but the operator's. **ReservationLedger** is
the promise: a MAC is reserved only for an NC with the operator's finalizer, a
reservation is taken away only on behalf of an NC that lists the MAC and is
deleted, and the finalizer goes only when no reservation depends on it. It is
refined with the finalizers in the API server as claims and the reservations in
Kea as entries; an NC is leaving as long as any copy of it, the object, the cache
or the reconcile's snapshot, carries the deletion (a crash, which wipes out
caches and snapshots, makes it forget several NCs at once: `Forget`).

**Startup** is `main` from the first `InitializeClients` to the running manager.
A client is reduced to what Kea sees of it: scheme, trust, certificate and
password, computed from the environment, the secret and the files by the
functions of `keaoptions.go` and `keaclient.go`. Kea is up, up without
`version-get`, failing, or down; the API server, the CRDs, the secret and the
mounted files change as well, at any moment, so that the two constructions of
the client may find different things. Every exit leads to a restart.

**SubnetPool** is `CalculatePoolFromCIDR` on octets with byte arithmetic.

Definitions such as `ReturnNoUnlock` or `CleanupSkipped`, placed in front of the
definition they vary, are deliberate faults; each property is shown to fail
under one of them (`mutants` in `PROJECT.json`).

## 3. Runs

| Run | Configuration | Checks |
| --- | --- | --- |
| `subnet_replicas` | `SubnetReplicas` | two replicas, one Kea server: `TypeOK`, `Agreement`, `Implements` (the registry), `CallsReturn`, `EventuallyProvisioned` |
| `subnet_ha` | `SubnetHA` | one process, two Kea servers, racing `Send`s: `ResultIsReal`, `SingleAdd` |
| `send_serial` | `SendSerial` | one `Send` at a time, two servers, answers in all formats, new certificate files: `TypeOK`, `PrimaryFirst`, `Restored`, `Delivers`, `Truthful`, `TransportKept` |
| `pool_large` | `PoolLarge` | `PoolInNetwork`, `LargeAccepted` for lengths up to 29 |
| `op_safe` | `OpSafe` | strict defaults, any provider, any NN, leases, edits, a fault: `TypeOK`, `ReadyMeansReserved`, `OnlyClaimedNCs` |
| `op_clean` | `OpClean` | two NCs that share a MAC, reconciled at once, deletion, a crash: `NoOrphanReservations`, `ImplementsLedger` (the ledger) |
| `op_ha` | `OpHA` | two Kea servers, a late prefix, a change of provider, deletion and re-creation, a fault, a crash, fairness: `EventuallyReady`, `DeletionCompletes`, `EventuallyOnPrimary` |
| `startup` | `Startup` | seven environments, three kinds of Kea server, any three changes: `TypeOK`, `AuthExclusive`, `NoDowngrade`, `EventuallyRuns` |

What each shows: `subnet_replicas` that `GetOrCreateSubnet` copes with lost, late
and refused commands, crashes and id collisions, and that its callers can rely on
the id they get; `subnet_ha` that a failover, and the race on `BaseUrl` that comes
with it, never makes an id unreal or the mutex useless (that the primary is
provisioned in the end is not claimed there: after a race `BaseUrl` may stay at
the secondary; `op_ha` shows it for one reconcile at a time); `send_serial` that the temporary
change of `BaseUrl` is invisible as long as nobody else looks, that a failed
command is never taken for a successful one whatever the format of the answer,
and that the transport with its connections is built once; `pool_large` that
pools are well placed; `op_safe` that a Ready condition is never ahead of Kea and
that triage leaves other operators' objects alone; `op_clean` that the finalizer
is there before the first reservation and goes after the last, also when another
NC lists the same MAC; `op_ha` that
requeues and watch events bring every NC that can be configured to Ready, with
its reservations on the primary once the failover is over, even when Kea executes
the deletion of an earlier life of the NC late; `startup` that the order in which
the operator's surroundings become available does not matter, and that whatever
the second construction of the client finds, https does not become http and
Kea's certificate does not go unchecked.

Four runs end in a counterexample and show where the code does not do what its
comments or its README say (details under "findings"):

| Run | What happens |
| --- | --- |
| `subnet_empty` | Kea answers an empty `subnet4-list` with result 3; `GetSubnetID` takes that for a failure, so the first subnet is never created. |
| `send_race` | Two `Send`s interleave around `BaseUrl`; it ends up as the secondary, or torn, for good. |
| `op_namespace_gone` | The NN is deleted first; clean-up is skipped, the finalizer removed, the reservation stays. |
| `op_moved` | A lease from another network loses its address but not its subnet id, so the reservation is made there. |

Three passing runs show the code at variance with what is written about it; the
property says what the code does, and a finding quotes the text:

* `OnlyClaimedNCs` (`op_safe`): an NC with a provider other than kea gets nothing.
  The repository's README (line 134) and both sample manifests have such a
  provider in the NC of which the README says that its reservations are made.
* `EventuallyOnPrimary` (`op_ha`): every MAC gets its reservation, lease or no
  lease. The README (line 145) says that without a lease none is made.
* `NoDowngrade` (`startup`): the scheme of a bare host depends on certificate paths
  only. The comment at `keaclient.go:261` says https is the default "if TLS certs
  are configured"; with those of a secret it is http.

Where the properties end: some of them are checked on instances chosen so that
they hold, and the models show why they do not hold beyond:

* `PoolInNetwork` needs a length of at most 29. In a /30 whose last octet is 252
  the byte addition `252 + 4` wraps to `0`, which passes the check that start is
  less than end although the pool lies outside the network.
* `DeletionCompletes` leaves out NCs that another provider has. Provider triage
  precedes the deletion branch, so an NC whose provider is changed after it got
  the finalizer is skipped for as long as that lasts and does not go away,
  although the comment at line 111 of the controller says "Handle deletion before
  triage". `op_ha` has such changes, before and after the deletion.
* `NoOrphanReservations` needs Kea to answer during the clean-up, whose errors
  are ignored (README: best effort), one process (with two replicas, which run
  side by side without leader election, one may add a reservation after the other
  has cleaned up and removed the finalizer), specs that keep their MACs, and one
  NN per namespace when the NC names none: the fallback takes the first item of
  an unordered list, so clean-up may look in another NN's prefix.
* `ReadyMeansReserved` asks for a reservation of each MAC, not of the address the
  status shows. A MAC without a lease gets a reservation without an address, and
  `EnsureReservationForMACIP` never upgrades one: once the machine has a lease
  the status shows its address, the NC is Ready, and nothing reserves the
  address, although the repository's README speaks of "a reservation for the IP
  of its current lease".
* `EventuallyOnPrimary` is checked for a machine without a lease (leases that come
  and go make the run about twelve times as large) and, like all liveness with two
  servers, for one reconcile at a time.
* `PrimaryFirst`, `Restored` and `EventuallyProvisioned` on the primary need the
  same, or a single server.
* `TransportKept` needs one `Send` at a time. With concurrent ones a swapped
  `BaseUrl` gets into the fingerprint, and the transport is rebuilt whenever the
  URL it sees changes.
* `Truthful` is about Kea's answers. `parseResponse` takes every JSON object, `{}`
  included, and `null` for a response with result 0, so an object from something
  else between operator and Kea counts as success.
* `NoDowngrade` does not say that Kea serves the client that runs. The client is
  built a second time after the check, from the secret and the files of that
  moment, and nothing checks it again. If the secret cannot be read then
  (`InitializeClients` passes over it in silence), or the secret or the files were
  replaced in between, the operator runs until its next restart with a client
  that was never checked: without its certificate, with the password instead, or
  trusting other authorities.
* `EventuallyRuns` needs a configuration that can work. A bare host name with
  certificates from a secret cannot: `buildBaseURL` looks at certificate paths
  only and chooses http. Nor can certificate paths whose files do not load
  together with a password: the paths alone switch basic auth off.

Another limit: `resolveSubnetInfo` takes an id that the peer uses for another
prefix for valid, so with two servers whose ids are swapped the reservation is
made in the other prefix's subnet. `op_ha` uses ids that are merely different.

**Bounds.** Three workers, two of which share a prefix, in one or two processes,
are the smallest instance in which callers meet on the mutex, collide on an id
across prefixes, and race between replicas; ids up to 2 exist from the start.
`subnet_ha` uses the symmetry of the two workers that share a prefix; it checks
no liveness.
The operator runs use one NC per worker and one or two MACs; distinct NCs meet
only at the mutex, at the queue and in Kea, which is what the two NCs of
`op_clean` are for; there one NC names its NN and the other uses the fallback.
`MaxFaults` bounds lost, late, refused and misdirected commands and failed API
writes, `MaxEdits` edits, `MaxCrashes` crashes (in SubnetSystem a crash counts
as a fault). One fault at any point is enough to make any single step fail, a
failover included, and to leave one command to be executed late; the theorems of
section 4 hold for any number of faults. `op_clean` has no faults besides the
crash, and `op_safe` no deletion: an NC that is being deleted counts as not
Ready, so without re-creation the states after a deletion add nothing to its
properties, and with re-creation a clean-up command that Kea executes late
removes the reservation of an NC that was created again in the meantime, until
the next requeue, which is what `EventuallyOnPrimary` in `op_ha` shows to come.
`Startup` has the code's five attempts and three changes, enough for Kea, the
API server and the secret to fail between any steps and to come back. Nothing
else is bounded: ids grow only as far as subnets are added. `SubnetPool` is a
function, checked at all octet boundaries. Operator, start-up and pool runs have
`CHECK_DEADLOCK FALSE`: once an NC is gone and nothing is left to do, the
operator is idle, a started process has no next step, and the pool calculation
ends.

**Fairness.** Every Kea and API call has a timeout, so a running reconcile goes
on (weak fairness of its steps). Watch events arrive and delayed requeues come
due (weak fairness). The work queue is first in, first out and a Go mutex in
starvation mode is handed to its oldest waiter, so taking a key from the queue
and acquiring the mutex are strongly fair. Nothing is assumed of users, leases,
crashes, commands whose answers were lost, or the informer's ten-hour resync.
Faults are finite in number, so liveness says: once faults stop. In Startup the
steps of `main`, whose calls all return, and the kubelet's restart are weakly
fair; nothing is assumed of the surroundings.

## 4. Proofs

TLAPS checks all of the following for every value of the constants.

`SubnetProofs` (from `DeliveryAssumption`, `SubnetAssumption`,
`SystemAssumption`):

* `TypeCorrect` - `TypeOK` is inductive by itself.
* `LockSafety` - a worker in the critical section owns its mutex. Inductive with
  `TypeOK`; needed for `OneAdd`.
* `ResultsReal` - an id that was returned is the prefix's id on a server. The
  argument: subnets are only added (`IdsStay`), and both ways to succeed, a list
  that shows the id and an add that was accepted, make it real.
* `CallersAgree` (one server) - with `ResultsReal`, since ids on one server are
  distinct: `Distinct` is preserved because every way to add a subnet, late
  commands included, goes through `CanAdd`.
* `OneAdd` (one process, any servers) - the inductive invariant says that a worker
  between its list and its add either has a server where the prefix is still
  missing, or someone lost an answer; the mutex excludes everybody else.
* `Refinement` (one server) - every step is a step of `SubnetRegistry` or a
  stutter, with the primary's table as registry.

With two servers `Agreement` and the refinement do not hold: peers number their
subnets independently.

`SendProofs`:

* `SerialFirst`, `SerialRestored` - with one `Send` at a time, `PrimaryFirst` and
  `Restored` (and `Delivers`, lemma `SerialSend`). The inductive invariant describes
  each word of `BaseUrl` at each label of the one running `Send` (`BaseIs`), its
  local strings (`LocalsAre`), what it has done to the servers (`SoFar`), and the
  fingerprint.
* `SerialTransport` - under the same assumption the fingerprint that is computed
  always has the primary's URL, so after construction it equals the stored one
  and the transport stays.
* `EverySend` - `Delivers` for any concurrency: by `SerialSend`, or, with a single
  server or with `Racing`, from what a `Send` does whatever happens to `BaseUrl`
  (`Requests`: a second request only with a secondary, and nothing after an
  answer).
* `HarmlessUntilFailover` - however many `Send`s overlap, until one of them makes a
  second request every copy of `BaseUrl` is the primary's URL. This is why
  `Deliver` lets `Send`s stray only after a fault, and why `MaxFaults = 0` means
  that every delivery is clean.
* `SendTypes`, `SendTruthful` - `TypeOK` and `Truthful` for any concurrency: what a
  `Send` reports depends on its own variables only (`OwnVerdict`). `Truthful` rests
  on the lemma `Parses`: every body Kea may send yields its first item's verdict.

Together with `send_race` they say exactly when the race matters: with a
secondary, more than one concurrent reconcile, and a failed request. The other
modules rely on KeaDelivery, whose `RacingSend` covers that configuration, so
their theorems hold for it too; their liveness is checked without it.

`PoolProofs`:

* `PoolCorrect`, `PoolFound` - for all prefixes of at most 29 bits, over all
  addresses, `PoolInNetwork` and `LargeAccepted`: the network's last octet is a
  multiple of 8, so no addition wraps.

`StartupProofs`:

* `StartupTypes`, `OneAuthentication`, `StartupNoDowngrade` - `TypeOK`,
  `AuthExclusive` and `NoDowngrade` for all environments, servers, secrets, files,
  numbers of attempts and changes at any moment. The inductive invariant says
  that the client in use was built by `NewKeaClientWithOptions` from this
  environment with some secret and some files (`Origin`), that its scheme and
  whether it checks certificates come from the environment alone (`Fixed`), and
  that from the check on so do those of the checked client, whose scheme is Kea's.

The controller (from `DeliveryAssumption`, `SubnetAssumption`,
`ReconcilerAssumption`, `OperatorAssumption`):

* `OperatorProofs!TypeCorrect` - `TypeOK`, for any faults, edits, crashes and
  numbers of everything. The inductive form (`Types`) bounds every copy of an
  object by the edits so far and says which labels a worker's locals belong to.
  The module also holds the lemmas the other three share: which actions can
  change an NC (`ApiFields`), a cache, the reservations (`HostEffect`), a worker.
* `ClaimProofs!OnlyClaimed` - NCs of other operators are left alone. Inductive
  with `Unclaimed`: no reconcile of such an NC leaves triage, its cached copy has
  its provider and no finalizer, and each reservation, made or on its way, is
  some other NC's. Hypotheses: names are not used again (`~Recreate`: the
  reservation that a lost clean-up left behind would seem to be the new NC's),
  and MACs that several NCs list stay listed by NCs that are not deleted
  (`SharedMacsStay`: the property takes the MACs listed now for those listed
  before).
* `ReadyProofs!ReadyReserved` - the Ready condition is never a false promise, for
  any faults, late commands, crashes, edits, servers and replicas. Inductive with
  `ReadyInv`: a true condition is of this or an earlier generation (`Promised`);
  cached and working copies are of an earlier generation or have the NC's MACs
  (`Copies`); what a reconcile has seen reserved stays so, and without an error
  it has seen all MACs but those still to do (`Progress`); deletions of
  reservations, also late ones, are of deleted NCs only (`OnlyCleanup`).
  Hypotheses: an NC that users may delete shares no MAC with another
  (`DeletedAlone`), since clean-up takes the other's reservation, too, until its
  next requeue; and no re-creation, since a late clean-up command of the first
  NC hits the second. Both are behaviour of the code, found when the invariant
  would not go through; that the requeue repairs the latter is checked by `op_ha`.
* `CleanProofs!NoOrphans` - `NoOrphanReservations`, with crashes at any point,
  edits, leases, deletions, re-creation and NCs that share MACs. Inductive with
  `CleanInv`: every reservation is in its MAC's subnet and has an NC with the
  finalizer whose clean-up, if it runs, has not passed that MAC (`Protected`); a
  running or startable reconcile has its NC's finalizer, and once a clean-up runs
  or may start the finalizer is going (`Finalizers`); ids in hand are those of
  the prefix (`Ids`). Hypotheses, each necessary and each met by the instance of
  `op_clean`: no lost command (`MaxFaults = 0`, clean-up ignores errors), one
  process (`OneWorker`: another replica's reconcile may still add a reservation
  after the clean-up), specs that keep their MACs (`FixedMacs`), and one prefix
  for each MAC, of NNs that exist (`Housed`: clean-up looks in the prefix of the
  NN of that moment; `op_namespace_gone` shows what happens otherwise).
* `CleanProofs!Refinement` - the operator implements ReservationLedger under the
  same hypotheses. From the invariant, step by step: a reservation is added only
  for an NC with the finalizer (`AddsReservation`), taken away only for one that
  is leaving (`DropsReservation`), the finalizer comes as `Claim`, the user's
  deletion as `Leave`, its removal as `Unclaim`, for which `Protected` is needed
  to show that the other claimants account for what is left (`RemoveUnclaims`);
  all other steps forget deletions or change nothing (`OthersForget`).

Each of these invariants was checked with TLC on the instance of the run that
checks its property before it was proved.

Only model-checked: the liveness properties (`CallsReturn`,
`EventuallyProvisioned`, `EventuallyReady`, `DeletionCompletes`,
`EventuallyOnPrimary`, `EventuallyRuns`), since fairness is out of the prover's
reach. Every invariant, action property and refinement that a passing run checks
is also a theorem.

## 5. Not modelled

Texts of log, status and error messages beyond what tells two of them apart;
gateway, DNS and client-class options; normalisation of MAC addresses; the
contents of Kea's answers beyond result and kind of arguments; invalid
certificates in a secret; ports, server names, timeouts
and keep-alives (comments disagree with each other on the default of
`KEA_TIMEOUT_SECONDS`: 10 at `NewKeaClientFromEnv`, 30 in `applyDefaults`); the
options of the client that the operator does not use; flags and defaults;
metrics, webhook and health endpoints; the conversion helpers, which only
tests call; the chart and manifests. `c.currentUrl` is written and never read.

## 6. Plan

1. `NoOrphanReservations` and the ledger with MACs that are taken out of a spec, in
   a form that allows what the code leaves behind then.
2. `ReadyMeansReserved` with re-creation, as long as no clean-up command is late.
