---------------------------- MODULE JobLifecycle ----------------------------
(***************************************************************************)
(* What the job queue promises, without workers, locks or messages: each   *)
(* job has a status and is or is not being executed.  At most one          *)
(* execution exists per job, only an execution ends a running job, only a  *)
(* queued job is cancelled outright, a terminal status is final, and a     *)
(* running job goes back to the queue only when nothing executes at all.   *)
(***************************************************************************)
EXTENDS Naturals

CONSTANT Jobs
VARIABLES status, live
lvars == <<status, live>>

Terminal == {"complete", "failed", "cancelled"}

Init ==
    /\ status = [j \in Jobs |-> "none"]
    /\ live = [j \in Jobs |-> FALSE]

Submit(j) ==
    /\ status[j] = "none"
    /\ status' = [status EXCEPT ![j] = "queued"]
    /\ UNCHANGED live

Claim(j) ==
    /\ status[j] = "queued"
    /\ ~live[j]
    /\ status' = [status EXCEPT ![j] = "running"]
    /\ live' = [live EXCEPT ![j] = TRUE]

Finish(j, r) ==
    /\ live[j]
    /\ status[j] = "running"
    /\ status' = [status EXCEPT ![j] = r]
    /\ live' = [live EXCEPT ![j] = FALSE]

CancelQueued(j) ==
    /\ status[j] = "queued"
    /\ ~live[j]
    /\ status' = [status EXCEPT ![j] = "cancelled"]
    /\ UNCHANGED live

(* Executions disappear with the process that ran them, or one by one. *)
Abandon(S) ==
    /\ live' = [j \in Jobs |-> live[j] /\ j \notin S]
    /\ UNCHANGED status

Requeue ==
    /\ \A j \in Jobs : ~live[j]
    /\ status' = [j \in Jobs |-> IF status[j] = "running" THEN "queued"
                                 ELSE status[j]]
    /\ UNCHANGED live

Next ==
    \/ \E j \in Jobs : Submit(j) \/ Claim(j) \/ CancelQueued(j)
    \/ \E j \in Jobs, r \in Terminal : Finish(j, r)
    \/ \E S \in SUBSET Jobs : Abandon(S)
    \/ Requeue

Spec == Init /\ [][Next]_lvars
=============================================================================
