--------------------------- MODULE MCConnections ----------------------------
(* One connection and three upstreams: an API that takes a bearer token, one
   with a header of its own, and a mail server, which has no test, in a
   private network.  A second key is added; then the first is retired while
   the environment still names it, so that nothing can be sealed. *)
EXTENDS Connections, TLC

CONSTANTS n1, api, hook, mail, w1, w2, s1, s2, p1, p2

OneName == {n1}
AllHosts == {api, hook, mail}
BlockedHosts == {mail}
HostTypes == api :> "http" @@ hook :> "http" @@ mail :> "email_smtp"
Injects == api :> "bearer" @@ hook :> "header" @@ mail :> "none"
TwoWorkspaces == {w1, w2}
TwoScopes == {{w1}, {w1, w2}}
TwoSecrets == {s1, s2}
TwoCalls == {p1, p2}
ThreeRings == {[ids |-> {1}, current |-> 1], [ids |-> {1, 2}, current |-> 2],
               [ids |-> {2}, current |-> 1]}
TwoTiers == {1, 2}
Symmetric == Permutations(TwoSecrets) \cup Permutations(TwoCalls)
=============================================================================
