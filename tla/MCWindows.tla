----------------------------- MODULE MCWindows ------------------------------
(* Two accounts, two names, tables of one key, half seconds. *)
EXTENDS Windows, TLC

CONSTANTS a1, a2, r1, n1, n2, p1, p2

TwoAccounts == {a1, a2}
OneRequest == {r1}
TwoNames == {n1, n2}
TwoLogins == {p1, p2}
NoneOneTwo == {0, 1, 2}
Symmetric == Permutations(TwoAccounts)
             \cup Permutations(TwoNames) \cup Permutations(TwoLogins)
=============================================================================
