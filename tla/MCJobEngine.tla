---------------------------- MODULE MCJobEngine ----------------------------
(* A service worker and a --once worker, two jobs and one caller. *)
EXTENDS JobEngine, TLC

CONSTANTS service, manual, c1

MCWorkers == {service, manual}
MCOnce == {manual}
MCCallers == {c1}
=============================================================================
