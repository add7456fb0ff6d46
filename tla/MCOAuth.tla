------------------------------ MODULE MCOAuth -------------------------------
(* One public and one confidential client, one that asks for a URI the
   server refuses, one account, two calls at once. *)
EXTENDS OAuth, TLC

CONSTANTS c1, c2, c3, a1, p1, p2, u1, u2, plain

ThreeClients == {c1, c2, c3}
OneConfidential == {c2}
AskedUris == c1 :> {u1} @@ c2 :> {u1, u2} @@ c3 :> {u1, plain}
GoodUris == {u1, u2}
OneAccount == {a1}
TwoCalls == {p1, p2}
Symmetric == Permutations(TwoCalls)
=============================================================================
