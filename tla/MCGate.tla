------------------------------- MODULE MCGate -------------------------------
(* A request and the rest of the server share one connection; an account   *)
(* with one agent.                                                         *)
EXTENDS Gate, TLC

CONSTANTS r1, a1, g1

OneRequest == {r1}
OneAccount == {a1}
OneAgent == {g1}
TwoLabels == {"initial", "spare"}
=============================================================================
