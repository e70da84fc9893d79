------------------------------- MODULE Startup -------------------------------
(***************************************************************************)
(* The start of an operator process (cmd/main.go): the Kea client is built *)
(* from the environment and, if KEA_TLS_SECRET_NAME is set, from a secret; *)
(* Kea and the API server are checked; the manager is created; the client  *)
(* is built a second time and handed to the controller.  Whatever fails on *)
(* the way ends the process and the kubelet starts it again.  Kea, the API *)
(* server, the CRDs and the secret come and go meanwhile.                  *)
(***************************************************************************)
EXTENDS Integers

CONSTANTS
    Envs,         \* the environments the process may be given
    Needs,        \* what the Kea server may ask of its clients
    FileSets,     \* the certificate files that may be mounted
    Secrets,      \* the contents the secret may have; {} if there is none
    MaxRetries,   \* checkKea's attempts
    MaxChanges    \* bound on changes of the world and crashes

Material == {"ca", "cert", "key"}
Scheme == {"http", "https"}

\* KEA_URL and KEA_BASE_URL by their schemes ("bare": none, "": not set);
\* KEA_TLS_ENABLED, the KEA_TLS_*_FILE that are set, KEA_TLS_INSECURE,
\* KEA_BASIC_AUTH_USERNAME and KEA_TLS_SECRET_NAME.
Env == [full : Scheme \cup {"bare", ""}, base : Scheme \cup {"bare", ""}, tls : BOOLEAN,
        paths : SUBSET Material, insecure : BOOLEAN, user : BOOLEAN, secret : BOOLEAN]
Need == [scheme : Scheme, auth : {"none", "basic", "cert"}, private : BOOLEAN]

\* The CA file, and the key pairs that can be loaded: the configured one, and
\* client.crt and tls.crt of the same directory.
File == {"ca", "configured", "client", "tls"}

ASSUME StartupAssumption ==
    /\ Envs \subseteq Env /\ Needs \subseteq Need /\ FileSets \subseteq SUBSET File
    /\ Secrets \subseteq SUBSET Material
    /\ MaxRetries \in Nat \ {0} /\ MaxChanges \in Nat

VARIABLES
    env,      \* the environment of the pod
    needs,    \* what Kea asks for
    files,    \* the files mounted into the pod
    kea,      \* Kea: it answers, knows no version-get, answers with errors, or not at all
    api,      \* the API server answers
    crds,     \* the CRDs are installed
    secret,   \* the secret's contents
    phase,    \* where main is
    tries,    \* attempts of checkKea so far
    client,   \* clients.KeaClient
    checked,  \* the client that passed checkKea
    changes   \* changes and crashes so far

world == <<env, needs, files, kea, api, crds, secret>>
vars == <<world, phase, tries, client, checked, changes>>

-----------------------------------------------------------------------------
(* The client that a configuration yields. *)

\* The basic auth user is tested against the client certificate before that is
\* set, so it is always taken over.
OptionFromEnv(e) ==
    [url |-> IF e.full # "" THEN e.full ELSE e.base,
     paths |-> IF e.tls THEN e.paths ELSE {},
     insecure |-> e.insecure, user |-> e.user, pem |-> {}]

OptionTLSFromSecret(c, keys) == [c EXCEPT !.pem = keys]

\* A certificate out of a secret is as good a sign of TLS as a file of its own.
SchemeByMaterial(c) ==
    CASE c.url = "" -> "none"
      [] c.url = "bare" -> IF (c.paths \cup c.pem) \cap {"ca", "cert"} # {} THEN "https" ELSE "http"
      [] OTHER -> c.url

\* The scheme of the URL that requests go to; an empty URL is an error.
buildBaseURL(c) ==
    CASE c.url = "" -> "none"
      [] c.url = "bare" -> IF c.paths \cap {"ca", "cert"} # {} THEN "https" ELSE "http"
      [] OTHER -> c.url

loadClientCertWithFallback(f) == f \cap {"configured", "client", "tls"} # {}

Pair(m) == {"cert", "key"} \subseteq m

\* What the TLS transport trusts and presents.  Without any TLS setting it is
\* the default transport, which does neither.
Trusts(c, f) == IF "ca" \in c.pem THEN TRUE ELSE "ca" \in c.paths /\ "ca" \in f
Presents(c, f) ==
    IF Pair(c.pem) THEN TRUE ELSE Pair(c.paths) /\ loadClientCertWithFallback(f)

\* Send adds basic auth, whatever certificate there is.
BasicIfUser(c) == c.user

\* Send adds basic auth unless a client certificate was configured.
SendsBasic(c) == c.user /\ "cert" \notin c.paths /\ "cert" \notin c.pem

NewKeaClientWithOptions(c, f) ==
    [scheme |-> buildBaseURL(c), ca |-> Trusts(c, f), skip |-> c.insecure,
     cert |-> Presents(c, f), basic |-> SendsBasic(c)]

NoClient == [scheme |-> "none", ca |-> FALSE, skip |-> FALSE, cert |-> FALSE, basic |-> FALSE]
Client == [scheme : Scheme \cup {"none"}, ca : BOOLEAN, skip : BOOLEAN, cert : BOOLEAN,
           basic : BOOLEAN]

\* BuildKeaClientFromSecret: a secret that cannot be read is passed over in
\* silence, like one without any of the three keys.
ReadSecret == IF env.secret /\ api THEN secret ELSE {}

InitializeClients ==
    NewKeaClientWithOptions(OptionTLSFromSecret(OptionFromEnv(env), ReadSecret), files)

-----------------------------------------------------------------------------
(* Kea's side of a connection. *)

\* A CA of one's own replaces those of the system.
Connects(k) ==
    /\ k.scheme = needs.scheme
    /\ k.scheme = "https" => k.skip \/ k.ca = needs.private

Accepts(k) ==
    /\ Connects(k)
    /\ needs.auth = "basic" => k.basic
    /\ needs.auth = "cert" => k.cert

-----------------------------------------------------------------------------
Init ==
    /\ env \in Envs /\ needs \in Needs /\ files \in FileSets /\ secret \in Secrets
    /\ kea \in {"up", "old", "failing", "down"} /\ api \in BOOLEAN /\ crds \in BOOLEAN
    /\ phase = "init" /\ tries = 0 /\ changes = 0
    /\ client = NoClient /\ checked = NoClient

\* os.Exit(1) unless the condition holds.
Proceed(ok, next) == phase' = IF ok THEN next ELSE "exited"

FirstClients ==
    /\ phase = "init"
    /\ client' = InitializeClients
    /\ phase' = "check"
    /\ UNCHANGED <<world, tries, checked, changes>>

\* pingKea: only result 0 will do.
PingSupported == Accepts(client) /\ kea = "up"

\* pingKea: version-get succeeds, or is said to be unsupported.
pingKea == Accepts(client) /\ kea \in {"up", "old"}

\* One attempt too many.
OneMoreTry ==
    /\ phase = "check"
    /\ \/ /\ tries <= MaxRetries /\ ~pingKea
          /\ tries' = tries + 1
          /\ UNCHANGED <<phase, checked>>
       \/ /\ tries <= MaxRetries /\ pingKea
          /\ phase' = "kubernetes" /\ checked' = client
          /\ UNCHANGED tries
    /\ UNCHANGED <<world, client, changes>>

checkKea ==
    /\ phase = "check"
    /\ \/ /\ tries < MaxRetries /\ ~pingKea
          /\ tries' = tries + 1
          /\ UNCHANGED <<phase, checked>>
       \/ /\ tries < MaxRetries /\ pingKea
          /\ phase' = "kubernetes" /\ checked' = client
          /\ UNCHANGED tries
       \/ /\ tries = MaxRetries
          /\ phase' = "exited"
          /\ UNCHANGED <<tries, checked>>
    /\ UNCHANGED <<world, client, changes>>

InitialChecks ==
    /\ phase = "kubernetes"
    /\ Proceed(api /\ crds, "manager")
    /\ UNCHANGED <<world, tries, client, checked, changes>>

NewManager ==
    /\ phase = "manager"
    /\ Proceed(api, "again")
    /\ UNCHANGED <<world, tries, client, checked, changes>>

SecondClients ==
    /\ phase = "again"
    /\ client' = InitializeClients
    /\ phase' = "start"
    /\ UNCHANGED <<world, tries, checked, changes>>

\* setupReconcilers takes the client; the caches must sync.
StartManager ==
    /\ phase = "start"
    /\ Proceed(api, "running")
    /\ UNCHANGED <<world, tries, client, checked, changes>>

Main ==
    FirstClients \/ checkKea \/ InitialChecks \/ NewManager \/ SecondClients \/ StartManager

\* The kubelet starts the container again.
Restart ==
    /\ phase = "exited"
    /\ phase' = "init" /\ tries' = 0 /\ client' = NoClient /\ checked' = NoClient
    /\ UNCHANGED <<world, changes>>

-----------------------------------------------------------------------------
(* The world. *)

Budget == changes < MaxChanges /\ changes' = changes + 1

Crash ==
    /\ phase = "running" /\ Budget
    /\ phase' = "exited"
    /\ UNCHANGED <<world, tries, client, checked>>

KeaChanges ==
    /\ Budget
    /\ kea' \in {"up", "old", "failing", "down"} \ {kea}
    /\ UNCHANGED <<env, needs, files, api, crds, secret, phase, tries, client, checked>>

ApiChanges ==
    /\ Budget
    /\ api' = ~api
    /\ UNCHANGED <<env, needs, files, kea, crds, secret, phase, tries, client, checked>>

CrdsInstalled ==
    /\ Budget /\ ~crds
    /\ crds' = TRUE
    /\ UNCHANGED <<env, needs, files, kea, api, secret, phase, tries, client, checked>>

SecretChanges ==
    /\ Budget
    /\ secret' \in Secrets \ {secret}
    /\ UNCHANGED <<env, needs, files, kea, api, crds, phase, tries, client, checked>>

\* The files of a mounted secret are replaced, whatever the process is doing.
FilesMounted ==
    /\ Budget
    /\ files' \in FileSets \ {files}
    /\ UNCHANGED <<env, needs, kea, api, crds, secret, phase, tries, client, checked>>

World == Crash \/ KeaChanges \/ ApiChanges \/ CrdsInstalled \/ SecretChanges \/ FilesMounted

Next == Main \/ Restart \/ World

\* Every call of main has a timeout, and the kubelet restarts the container.
Spec == Init /\ [][Next]_vars /\ WF_vars(Main) /\ WF_vars(Restart)

-----------------------------------------------------------------------------
(* Properties *)

TypeOK ==
    /\ env \in Envs /\ needs \in Needs /\ files \in FileSets /\ secret \in Secrets
    /\ kea \in {"up", "old", "failing", "down"} /\ api \in BOOLEAN /\ crds \in BOOLEAN
    /\ phase \in {"init", "check", "kubernetes", "manager", "again", "start", "running", "exited"}
    /\ tries \in 0..MaxRetries /\ changes \in 0..MaxChanges
    /\ client \in Client /\ checked \in Client

\* The operator never shows Kea a client certificate and a password at once,
\* wherever the two come from (README: "basic auth is ignored if client
\* certificate configured").  OptionFromEnv's own test never takes effect.
AuthExclusive == ~(client.cert /\ client.basic)

\* The client that runs is not the one that was checked: the secret or the files
\* may be gone, back or replaced when it is built a second time.  Yet it speaks
\* the protocol in which Kea answered the check ("verifies connectivity to Kea
\* DHCP at startup using the configured client"), and no certificate it checked
\* then goes unchecked: what cannot be read never turns https into http.
NoDowngrade ==
    phase = "running" => client.scheme = needs.scheme /\ client.skip = checked.skip

\* Nothing is missing: a client built now would be served.
Good == kea \in {"up", "old"} /\ api /\ crds /\ Accepts(InitializeClients)

\* In whatever order Kea, the API server, the CRDs, the files and the secret
\* become available, the operator runs in the end.
EventuallyRuns == <>[](Good => phase = "running")

=============================================================================
