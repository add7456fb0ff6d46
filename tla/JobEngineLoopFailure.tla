------------------------ MODULE JobEngineLoopFailure ------------------------
(***************************************************************************)
(* JobEngine with one more failure: a statement of the loop itself raises  *)
(* (claim() on a connection the server has closed, a statement timeout).   *)
(* _tick_schedules and _tick_automations catch what they raise; _claim is  *)
(* not covered, so the exception leaves _loop past the gather that would   *)
(* have awaited the tasks.  run()'s finally clauses remove the listeners,  *)
(* unlock, and then wait in pool.close() for the connections the tasks     *)
(* still hold: from the unlock to the last task's end the worker executes  *)
(* jobs without holding WORKER_LOCK.                                       *)
(***************************************************************************)
EXTENDS JobEngine

LoopFails(w) ==
    /\ wstate[w] = "scan"
    /\ HasSlot(w)
    /\ lockHolder' = NoWorker
    /\ wstate' = [wstate EXCEPT ![w] = "closing"]
    /\ newq' = newq \ {w}
    /\ ctl' = [ctl EXCEPT ![w] = {}]
    /\ UNCHANGED <<status, stopping, wake, runVars, call>>

(* pool.close() has every connection back; the process exits. *)
CloseDone(w) ==
    /\ wstate[w] = "closing"
    /\ Live(w) = {}
    /\ wstate' = [wstate EXCEPT ![w] = "down"]
    /\ Forget(w)
    /\ UNCHANGED <<status, lockHolder, call>>

FailureNext ==
    \/ Next
    \/ \E w \in Workers : LoopFails(w) \/ CloseDone(w)

FailureSpec == Init /\ [][FailureNext]_vars
=============================================================================
