----------------------- MODULE MCJobEngineLoopFailure -----------------------
(* The instance of MCJobEngine, with failures of the loop. *)
EXTENDS JobEngineLoopFailure, TLC

CONSTANTS service, manual, c1

MCWorkers == {service, manual}
MCOnce == {manual}
MCCallers == {c1}
=============================================================================
