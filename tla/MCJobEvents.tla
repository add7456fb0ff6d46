----------------------------- MODULE MCJobEvents -----------------------------
(* One job, one caller that waits for it and one stream. *)
EXTENDS JobEvents

CONSTANTS j1, w1, c1

OneJob == {j1}
OneWaiter == {w1}
OneStream == {c1}
=============================================================================
