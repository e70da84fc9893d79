---------------------------- MODULE StartupProofs ----------------------------
(***************************************************************************)
(* The safety properties of Startup for all environments, Kea servers,     *)
(* files and secrets, and any number of retries, changes and crashes.      *)
(***************************************************************************)
EXTENDS Startup, TLAPS

\* The configuration for a secret with these contents.
Config(keys) == OptionTLSFromSecret(OptionFromEnv(env), keys)

\* Past checkKea.
Passed == {"kubernetes", "manager", "again", "start", "running"}

\* Every client was made by NewKeaClientWithOptions, if from files of before.
Origin ==
    \/ client = NoClient
    \/ \E keys \in SUBSET Material, f \in SUBSET File :
        client = NewKeaClientWithOptions(Config(keys), f)

\* What a client takes from the environment alone, so that it is the same each
\* time one is built.
Fixed(k) == k.scheme = buildBaseURL(Config({})) /\ k.skip = env.insecure

Inv ==
    /\ TypeOK
    /\ Origin
    /\ phase \notin {"init", "exited"} => Fixed(client)
    /\ phase \in Passed => Fixed(checked) /\ checked.scheme = needs.scheme

LEMMA ConfigType ==
    ASSUME NEW e \in Env, NEW keys \in SUBSET Material
    PROVE  LET c == OptionTLSFromSecret(OptionFromEnv(e), keys) IN
           /\ c.url \in Scheme \cup {"bare", ""}
           /\ c.paths \in SUBSET Material /\ c.pem = keys
           /\ c.insecure \in BOOLEAN /\ c.user = e.user /\ c.user \in BOOLEAN
    BY DEF Env, OptionFromEnv, OptionTLSFromSecret

LEMMA ClientType ==
    ASSUME NEW e \in Env, NEW keys \in SUBSET Material, NEW f \in SUBSET File
    PROVE  NewKeaClientWithOptions(OptionTLSFromSecret(OptionFromEnv(e), keys), f) \in Client
<1> DEFINE c == OptionTLSFromSecret(OptionFromEnv(e), keys)
<1>1. /\ c.url \in Scheme \cup {"bare", ""}
      /\ c.insecure \in BOOLEAN /\ c.user \in BOOLEAN
    BY ConfigType
<1> HIDE DEF c
<1>2. buildBaseURL(c) \in Scheme \cup {"none"}
    BY <1>1 DEF buildBaseURL, Scheme
<1>3. Trusts(c, f) \in BOOLEAN /\ Presents(c, f) \in BOOLEAN
    BY DEF Trusts, Presents, loadClientCertWithFallback, Pair
<1>4. SendsBasic(c) \in BOOLEAN
    BY <1>1 DEF SendsBasic
<1>5. NewKeaClientWithOptions(c, f) \in Client
    BY <1>1, <1>2, <1>3, <1>4 DEF NewKeaClientWithOptions, Client
<1> QED BY <1>5 DEF c

LEMMA Types ==
    ASSUME TypeOK
    PROVE  /\ env \in Env /\ files \in SUBSET File /\ secret \in SUBSET Material
           /\ ReadSecret \in SUBSET Material
           /\ InitializeClients \in Client /\ NoClient \in Client
<1>1. env \in Env /\ files \in SUBSET File /\ secret \in SUBSET Material
    BY StartupAssumption DEF TypeOK
<1>2. ReadSecret \in SUBSET Material
    BY <1>1 DEF ReadSecret
<1>3. InitializeClients \in Client
    BY <1>1, <1>2, ClientType DEF InitializeClients
<1>4. NoClient \in Client
    BY DEF NoClient, Client
<1> QED BY <1>1, <1>2, <1>3, <1>4

LEMMA TypeStep ==
    ASSUME TypeOK, [Next]_vars
    PROVE  TypeOK'
<1> USE Types, StartupAssumption DEF TypeOK, world
<1>1. CASE Main
    BY <1>1 DEF Main, FirstClients, checkKea, InitialChecks, NewManager, SecondClients,
        StartManager, Proceed
<1>2. CASE Restart
    BY <1>2 DEF Restart
<1>3. CASE World
  <2>1. changes' \in 0..MaxChanges
    BY <1>3 DEF World, Crash, KeaChanges, ApiChanges, CrdsInstalled, SecretChanges, FilesMounted,
        Budget
  <2>2. CASE ApiChanges
    BY <2>1, <2>2 DEF ApiChanges
  <2>3. CASE Crash \/ KeaChanges \/ CrdsInstalled
    BY <2>1, <2>3 DEF Crash, KeaChanges, CrdsInstalled
  <2>4. CASE SecretChanges \/ FilesMounted
    BY <2>1, <2>4 DEF SecretChanges, FilesMounted
  <2> QED BY <1>3, <2>2, <2>3, <2>4 DEF World
<1>4. CASE UNCHANGED vars
    BY <1>4 DEF vars
<1> QED BY <1>1, <1>2, <1>3, <1>4 DEF Next

LEMMA InitInv == Init => Inv
<1> SUFFICES ASSUME Init
             PROVE  Inv
    OBVIOUS
<1>1. TypeOK
    BY StartupAssumption DEF Init, TypeOK, NoClient, Client
<1> QED BY <1>1 DEF Init, Inv, Origin, Passed

\* Neither the files nor the secret decide on the scheme or on the checks.
LEMMA BuiltFixed == Fixed(InitializeClients)
<1>1. \A keys : buildBaseURL(Config(keys)) = buildBaseURL(Config({}))
    BY DEF buildBaseURL, Config, OptionTLSFromSecret, OptionFromEnv
<1>2. \A keys : Config(keys).insecure = env.insecure
    BY DEF Config, OptionTLSFromSecret, OptionFromEnv
<1> QED BY <1>1, <1>2 DEF Fixed, InitializeClients, NewKeaClientWithOptions, Config

LEMMA NextInv ==
    ASSUME Inv, [Next]_vars
    PROVE  Inv'
<1>1. TypeOK'
    BY TypeStep DEF Inv
<1>2. ReadSecret \in SUBSET Material /\ files \in SUBSET File
    BY Types DEF Inv
<1>3. Fixed(InitializeClients)
    BY BuiltFixed
<1>4. \E keys \in SUBSET Material, f \in SUBSET File :
        InitializeClients = NewKeaClientWithOptions(Config(keys), f)
    BY <1>2 DEF InitializeClients, Config
<1> USE DEF Inv, Passed, world
<1>5. CASE FirstClients
    BY <1>1, <1>3, <1>4, <1>5 DEF FirstClients, Origin, Fixed, Config
<1>6. CASE SecondClients
    BY <1>1, <1>3, <1>4, <1>6 DEF SecondClients, Origin, Fixed, Config
<1>7. CASE checkKea
    BY <1>1, <1>7 DEF checkKea, pingKea, Accepts, Connects, Origin, Fixed, Config
<1>8. CASE InitialChecks \/ NewManager \/ StartManager
    BY <1>1, <1>8 DEF InitialChecks, NewManager, StartManager, Proceed, Origin, Fixed,
        Config
<1>9. CASE Restart
    BY <1>1, <1>9 DEF Restart, Origin
<1>10. CASE World
    BY <1>1, <1>10 DEF World, Crash, KeaChanges, ApiChanges, CrdsInstalled, SecretChanges,
        FilesMounted, Origin, Fixed, Config
<1>11. CASE UNCHANGED vars
    BY <1>1, <1>11 DEF vars, Origin, Fixed, Config
<1> QED BY <1>5, <1>6, <1>7, <1>8, <1>9, <1>10, <1>11 DEF Next, Main

\* A client certificate is shown only if one was configured, and then Send adds
\* no password.
LEMMA OriginExclusive ==
    ASSUME TypeOK, Origin
    PROVE  AuthExclusive
<1>1. CASE client = NoClient
    BY <1>1 DEF NoClient, AuthExclusive
<1>2. ASSUME NEW keys \in SUBSET Material, NEW f \in SUBSET File,
             client = NewKeaClientWithOptions(Config(keys), f)
      PROVE  AuthExclusive
    BY <1>2 DEF NewKeaClientWithOptions, Presents, SendsBasic, Pair, AuthExclusive
<1> QED BY <1>1, <1>2 DEF Origin

LEMMA StartupInv == Spec => []Inv
    BY InitInv, NextInv, PTL DEF Spec

\* In every state of every start-up the state is well formed.
THEOREM StartupTypes == Spec => []TypeOK
<1>1. Inv => TypeOK
    BY DEF Inv
<1> QED BY <1>1, StartupInv, PTL

\* Whatever the environment, the secret and the files are, and become, the
\* operator's client uses one way of authentication at most.
THEOREM OneAuthentication == Spec => []AuthExclusive
<1>1. Inv => AuthExclusive
    BY OriginExclusive DEF Inv
<1> QED BY <1>1, StartupInv, PTL

\* Whatever becomes of the secret and the files between the two times that the
\* client is built, a running operator speaks the protocol that Kea answered the
\* check in, and checks Kea's certificate if it did so then.
THEOREM StartupNoDowngrade == Spec => []NoDowngrade
<1>1. Inv => NoDowngrade
    BY DEF Inv, NoDowngrade, Passed, Fixed
<1> QED BY <1>1, StartupInv, PTL

=============================================================================
