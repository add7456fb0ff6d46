------------------------------ MODULE MCHosting ------------------------------
(* Two workspaces that may declare the same service. *)
EXTENDS Hosting

CONSTANTS w1, w2, app, s1

TwoWorkspaces == {w1, w2}
OneName == {app}
OneSync == {s1}
=============================================================================
