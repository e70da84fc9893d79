------------------------------ MODULE MCStartup ------------------------------
(* Instances of Startup.                                                    *)
EXTENDS Startup

Plain == [full |-> "", base |-> "bare", tls |-> FALSE, paths |-> {}, insecure |-> FALSE,
          user |-> FALSE, secret |-> FALSE]
Mtls == [Plain EXCEPT !.tls = TRUE, !.paths = Material]

\* A bare host, with a password or not; mutual TLS by files, with a password
\* left over or with TLS not enabled; a secret, with a password left over, for
\* an https URL and for a bare host.
SomeEnvs ==
    {Plain, [Plain EXCEPT !.user = TRUE], [Mtls EXCEPT !.user = TRUE], [Mtls EXCEPT !.tls = FALSE],
     [Plain EXCEPT !.full = "https", !.user = TRUE, !.insecure = TRUE],
     [Plain EXCEPT !.full = "https", !.secret = TRUE, !.user = TRUE],
     [Plain EXCEPT !.secret = TRUE, !.user = TRUE]}

SomeNeeds ==
    {[scheme |-> "http", auth |-> "basic", private |-> FALSE],
     [scheme |-> "https", auth |-> "basic", private |-> TRUE],
     [scheme |-> "https", auth |-> "cert", private |-> TRUE]}

SomeFiles == {{}, {"ca", "tls"}}
SomeSecrets == {{}, {"cert"}, Material}

=============================================================================
