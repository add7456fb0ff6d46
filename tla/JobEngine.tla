------------------------------ MODULE JobEngine ------------------------------
(***************************************************************************)
(* The job queue of Datum-Sync: the rows of the jobs table, the worker     *)
(* processes that claim and execute them (worker.py, runner.py), and the   *)
(* API calls that submit and cancel (jobs.py).                             *)
(*                                                                         *)
(* PostgreSQL is modelled by what the code uses of it: a statement or a    *)
(* transaction is one step, the advisory lock belongs to a session and is  *)
(* released with it, NOTIFY reaches the sessions that LISTEN when it       *)
(* commits and nobody else, and is delivered some time later.              *)
(*                                                                         *)
(* A job's number is the rank of its submitted_at.  Jobs may be inserted   *)
(* in any order, because submitted_at is the transaction's start.          *)
(***************************************************************************)
EXTENDS Integers, FiniteSets

CONSTANTS
    NJobs,        \* how many jobs are ever submitted
    Workers,      \* worker processes that may be started on this database
    OnceWorkers,  \* those started with --once
    Concurrency,  \* --concurrency: tasks one worker runs at a time
    Callers,      \* concurrent API calls of DELETE .../jobs/id/{id}
    NoWorker      \* nobody holds WORKER_LOCK

ASSUME NJobsAssumption == NJobs \in Nat \ {0}
ASSUME OnceAssumption == OnceWorkers \subseteq Workers
ASSUME ConcurrencyAssumption == Concurrency \in Nat \ {0}
ASSUME NoWorkerAssumption == NoWorker \notin Workers

VARIABLES
    status,      \* jobs.status, "none" before the INSERT
    lockHolder,  \* the worker whose session holds WORKER_LOCK
    wstate,      \* where each worker is in Worker.run / Worker._loop
    stopping,    \* Worker.stopping
    wake,        \* one of the waiters of _loop has fired
    newq,        \* listening workers with an undelivered "queued" notification
    task,        \* where each worker's _execute task for each job is
    cancelled,   \* Runner._cancelled
    result,      \* RunResult.status, once known
    ctl,         \* undelivered job_control notifications, per worker
    call         \* the cancel calls in progress

vars == <<status, lockHolder, wstate, stopping, wake, newq, task, cancelled,
          result, ctl, call>>
procVars == <<lockHolder, wstate, stopping>>
runVars == <<task, cancelled, result>>

Jobs == 1..NJobs
Terminal == {"complete", "failed", "cancelled"}
Statuses == {"none", "queued", "running"} \cup Terminal

(* "locked" holds the lock, "requeued" has run requeue_orphans, "scan" is in  *)
(* the claiming loop, "scanned" has been told the queue is empty, "wait" is   *)
(* suspended on the waiters, "drain" awaits the tasks left after stop(), and  *)
(* "closing" has left run()'s loop by an exception (JobEngineLoopFailure).    *)
WorkerStates == {"down", "locked", "requeued", "scan", "scanned", "wait",
                 "drain", "closing"}

(* "prep" is _execute up to the Runner, "spawn" the runner before the child   *)
(* exists, "child" while it runs, "drain" after its exit while the pipes are  *)
(* emptied, "post" from run()'s return to finish().                           *)
TaskStates == {"none", "prep", "spawn", "child", "drain", "post"}
Active == {"spawn", "child", "drain"}    \* the job is in Worker._active

CallSteps == {"idle", "flip", "reread", "signal", "done"}
Answers == Statuses \cup {"signalled"}
NoCall == [pc |-> "idle", job |-> 0, answer |-> "none"]

InLoop(w) == wstate[w] \in {"scan", "scanned", "wait", "drain"}
Listening(w) == InLoop(w)
Live(w) == {j \in Jobs : task[w][j] # "none"}
Executing(j) == \E w \in Workers : task[w][j] # "none"
Queued == {j \in Jobs : status[j] = "queued"}

TypeOK ==
    /\ status \in [Jobs -> Statuses]
    /\ lockHolder \in Workers \cup {NoWorker}
    /\ wstate \in [Workers -> WorkerStates]
    /\ stopping \in [Workers -> BOOLEAN]
    /\ wake \in [Workers -> BOOLEAN]
    /\ newq \in SUBSET Workers
    /\ task \in [Workers -> [Jobs -> TaskStates]]
    /\ cancelled \in [Workers -> [Jobs -> BOOLEAN]]
    /\ result \in [Workers -> [Jobs -> Terminal \cup {"none"}]]
    /\ ctl \in [Workers -> SUBSET Jobs]
    /\ call \in [Callers -> [pc : CallSteps, job : 0..NJobs, answer : Answers]]

Init ==
    /\ status = [j \in Jobs |-> "none"]
    /\ lockHolder = NoWorker
    /\ wstate = [w \in Workers |-> "down"]
    /\ stopping = [w \in Workers |-> FALSE]
    /\ wake = [w \in Workers |-> FALSE]
    /\ newq = {}
    /\ task = [w \in Workers |-> [j \in Jobs |-> "none"]]
    /\ cancelled = [w \in Workers |-> [j \in Jobs |-> FALSE]]
    /\ result = [w \in Workers |-> [j \in Jobs |-> "none"]]
    /\ ctl = [w \in Workers |-> {}]
    /\ call = [c \in Callers |-> NoCall]

-----------------------------------------------------------------------------
(* Submission.  The row is committed before the "queued" notification is      *)
(* sent, and the API process may die in between: the notification then goes   *)
(* to nobody.                                                                 *)

Submit(j) ==
    /\ status[j] = "none"
    /\ status' = [status EXCEPT ![j] = "queued"]
    /\ \E told \in {{}, {w \in Workers : Listening(w)}} : newq' = newq \cup told
    /\ UNCHANGED <<procVars, wake, runVars, ctl, call>>

(* _on_event *)
DeliverWake(w) ==
    /\ w \in newq
    /\ newq' = newq \ {w}
    /\ wake' = [wake EXCEPT ![w] = TRUE]
    /\ UNCHANGED <<status, procVars, runVars, ctl, call>>

-----------------------------------------------------------------------------
(* The worker process.                                                        *)

(* The memory of a worker that is gone: its tasks, its runners, its events.   *)
Forget(w) ==
    /\ stopping' = [stopping EXCEPT ![w] = FALSE]
    /\ wake' = [wake EXCEPT ![w] = FALSE]
    /\ newq' = newq \ {w}
    /\ task' = [task EXCEPT ![w] = [j \in Jobs |-> "none"]]
    /\ cancelled' = [cancelled EXCEPT ![w] = [j \in Jobs |-> FALSE]]
    /\ result' = [result EXCEPT ![w] = [j \in Jobs |-> "none"]]
    /\ ctl' = [ctl EXCEPT ![w] = {}]

(* Variant: the second worker is not refused. *)
StartUnlocked(w) ==
    /\ wstate[w] = "down"
    /\ lockHolder' = w
    /\ wstate' = [wstate EXCEPT ![w] = "locked"]
    /\ UNCHANGED <<status, stopping, wake, newq, runVars, ctl, call>>

(* A second worker is refused: it exits and nothing has changed. *)
Start(w) ==
    /\ lockHolder = NoWorker
    /\ wstate[w] = "down"
    /\ lockHolder' = w
    /\ wstate' = [wstate EXCEPT ![w] = "locked"]
    /\ UNCHANGED <<status, stopping, wake, newq, runVars, ctl, call>>

(* requeue_orphans is one UPDATE; its log lines change nothing modelled. *)
Requeue(w) ==
    /\ wstate[w] = "locked"
    /\ status' = [j \in Jobs |-> IF status[j] = "running" THEN "queued"
                                 ELSE status[j]]
    /\ wstate' = [wstate EXCEPT ![w] = "requeued"]
    /\ UNCHANGED <<lockHolder, stopping, wake, newq, runVars, ctl, call>>

(* Variant: stop() is not looked at. *)
LoopTopUnstopped(w) == IF stopping[w] THEN "scan" ELSE "scan"

LoopTop(w) == IF stopping[w] THEN "drain" ELSE "scan"

(* add_listener on both channels, then the first test of the while loop. *)
Listen(w) ==
    /\ wstate[w] = "requeued"
    /\ wstate' = [wstate EXCEPT ![w] = LoopTop(w)]
    /\ UNCHANGED <<status, lockHolder, stopping, wake, newq, runVars, ctl, call>>

HasSlot(w) == Cardinality(Live(w)) < Concurrency

(* claim() and the task created for its row.  SKIP LOCKED can only pass over  *)
(* a row that a cancel is flipping, which is the same as cancelling first.    *)
Claim(w) ==
    /\ wstate[w] = "scan"
    /\ HasSlot(w)
    /\ \E j \in Queued :
        /\ \A k \in Queued : j <= k
        /\ status' = [status EXCEPT ![j] = "running"]
        /\ task' = [task EXCEPT ![w][j] = "prep"]
        /\ cancelled' = [cancelled EXCEPT ![w][j] = FALSE]
        /\ result' = [result EXCEPT ![w][j] = "none"]
    /\ UNCHANGED <<procVars, wake, newq, ctl, call>>

(* claim() returned None; the answer has yet to travel back to the loop. *)
ClaimNone(w) ==
    /\ wstate[w] = "scan"
    /\ HasSlot(w)
    /\ Queued = {}
    /\ wstate' = [wstate EXCEPT ![w] = "scanned"]
    /\ UNCHANGED <<status, lockHolder, stopping, wake, newq, runVars, ctl, call>>

(* wake.clear() and the waiters: after an empty scan, a wake that arrived     *)
(* since the scan is lost here; with every slot taken there was no await in   *)
(* between.                                                                   *)
Suspend(w) ==
    /\ \/ wstate[w] = "scanned" /\ (w \in OnceWorkers => Live(w) # {})
       \/ wstate[w] = "scan" /\ ~HasSlot(w)
    /\ wake' = [wake EXCEPT ![w] = FALSE]
    /\ wstate' = [wstate EXCEPT ![w] = "wait"]
    /\ UNCHANGED <<status, lockHolder, stopping, newq, runVars, ctl, call>>

WakeUp(w) ==
    /\ wstate[w] = "wait"
    /\ wake[w]
    /\ wstate' = [wstate EXCEPT ![w] = LoopTop(w)]
    /\ UNCHANGED <<status, lockHolder, stopping, wake, newq, runVars, ctl, call>>

(* Variant: the wait has no timeout. *)
PollOnlyWoken(w) ==
    /\ wstate[w] = "wait"
    /\ wake[w]
    /\ wstate' = [wstate EXCEPT ![w] = LoopTop(w)]
    /\ UNCHANGED <<status, lockHolder, stopping, wake, newq, runVars, ctl, call>>

(* POLL_SECONDS have passed. *)
PollTimeout(w) ==
    /\ wstate[w] = "wait"
    /\ wstate' = [wstate EXCEPT ![w] = LoopTop(w)]
    /\ UNCHANGED <<status, lockHolder, stopping, wake, newq, runVars, ctl, call>>

(* SIGTERM or SIGINT. *)
Stop(w) ==
    /\ wstate[w] \notin {"down", "closing"}
    /\ ~stopping[w]
    /\ stopping' = [stopping EXCEPT ![w] = TRUE]
    /\ wake' = [wake EXCEPT ![w] = TRUE]
    /\ UNCHANGED <<status, lockHolder, wstate, newq, runVars, ctl, call>>

Leave(w) ==
    /\ lockHolder' = NoWorker
    /\ wstate' = [wstate EXCEPT ![w] = "down"]
    /\ Forget(w)
    /\ UNCHANGED <<status, call>>

(* A --once worker with nothing left to wait for returns from _loop. *)
ExitOnce(w) ==
    /\ w \in OnceWorkers
    /\ wstate[w] = "scanned"
    /\ Live(w) = {}
    /\ Leave(w)

(* Variant: _loop returns without the gather. *)
ExitEarly(w) ==
    /\ wstate[w] = "drain"
    /\ lockHolder' = NoWorker
    /\ wstate' = [wstate EXCEPT ![w] = "closing"]
    /\ UNCHANGED <<status, stopping, wake, newq, runVars, ctl, call>>

(* gather() has returned: remove the listeners, unlock, close the pool. *)
Exit(w) ==
    /\ wstate[w] = "drain"
    /\ Live(w) = {}
    /\ Leave(w)

(* The process dies.  The server ends its session, which frees the lock, and  *)
(* the kernel kills its children (PR_SET_PDEATHSIG).                          *)
Crash(w) ==
    /\ wstate[w] \notin {"down", "closing"}
    /\ Leave(w)

-----------------------------------------------------------------------------
(* One task: Worker._execute and Runner.run.                                  *)

(* A task that ends wakes the loop if the loop is waiting on it. *)
TaskEnds(w, j) ==
    /\ task' = [task EXCEPT ![w][j] = "none"]
    /\ cancelled' = [cancelled EXCEPT ![w][j] = FALSE]
    /\ result' = [result EXCEPT ![w][j] = "none"]
    /\ wake' = [wake EXCEPT ![w] = @ \/ wstate[w] = "wait"]

(* finish() updates the row by id, whatever its status is. *)
FinishAs(w, j, r) ==
    /\ status' = [status EXCEPT ![j] = r]
    /\ TaskEnds(w, j)
    /\ UNCHANGED <<procVars, newq, ctl, call>>

(* Workspace unpublished, upload missing, or a connection not resolved. *)
PrepFail(w, j) ==
    /\ task[w][j] = "prep"
    /\ FinishAs(w, j, "failed")

Advance(w, j, from, to, r) ==
    /\ task[w][j] = from
    /\ task' = [task EXCEPT ![w][j] = to]
    /\ result' = [result EXCEPT ![w][j] = r]
    /\ UNCHANGED <<status, procVars, wake, newq, cancelled, ctl, call>>

(* The Runner is in _active from here on. *)
PrepOk(w, j) == Advance(w, j, "prep", "spawn", "none")

Spawn(w, j) == Advance(w, j, "spawn", "child", "none")

(* Variant: a status that finish() would refuse with ValueError. *)
RunnerErrorRaw(w, j) == \E from \in {"spawn", "child"} :
    Advance(w, j, from, "post", "error")

(* mkdir or exec fails, or the child closes its stdin early.  finish() runs    *)
(* before the runner leaves _active, but nobody reads its flag any more.       *)
RunnerError(w, j) == \E from \in {"spawn", "child"} :
    Advance(w, j, from, "post", "failed")

(* The child exits, by itself or because _terminate signalled its group. *)
ChildExit(w, j) == \E r \in {"complete", "failed"} :
    Advance(w, j, "child", "drain", r)

(* timeout_seconds have passed: the child is terminated, and the result is     *)
(* "failed" whether or not a cancel was on its way.                            *)
Timeout(w, j) == Advance(w, j, "child", "post", "failed")

(* Variant: _cancelled is not looked at. *)
RunReturnIgnoringCancel(w, j) ==
    Advance(w, j, "drain", "post", result[w][j])

(* The pipes are empty.  A cancel that arrived by now wins over the outcome. *)
RunReturn(w, j) ==
    Advance(w, j, "drain", "post",
            IF cancelled[w][j] THEN "cancelled" ELSE result[w][j])

Finish(w, j) ==
    /\ task[w][j] = "post"
    /\ FinishAs(w, j, result[w][j])

(* services.register refused the URL of a complete run. *)
FinishUnpublished(w, j) ==
    /\ task[w][j] = "post"
    /\ result[w][j] = "complete"
    /\ FinishAs(w, j, "failed")

(* An exception that _execute does not catch, from a statement outside the     *)
(* runner: the task is dropped and the row stays "running".                    *)
TaskFails(w, j) ==
    /\ task[w][j] \in {"prep", "post"}
    /\ TaskEnds(w, j)
    /\ UNCHANGED <<status, procVars, newq, ctl, call>>

(* _on_control.  A job that is not in _active is not cancelled and the signal  *)
(* is gone; before the child exists only the flag is set.                      *)
DeliverCancel(w, j) ==
    /\ j \in ctl[w]
    /\ ctl' = [ctl EXCEPT ![w] = @ \ {j}]
    /\ cancelled' = [cancelled EXCEPT ![w][j] = @ \/ task[w][j] \in Active]
    /\ UNCHANGED <<status, procVars, wake, newq, task, result, call>>

-----------------------------------------------------------------------------
(* jobs.cancel, statement by statement.                                       *)

Answer(c, j, a) == call' = [call EXCEPT ![c] = [pc |-> "done", job |-> j, answer |-> a]]
Goto(c, j, pc) == call' = [call EXCEPT ![c] = [pc |-> pc, job |-> j, answer |-> "none"]]

CancelRead(c, j) ==
    /\ call[c].pc = "idle"
    /\ status[j] # "none"
    /\ \/ status[j] = "queued" /\ Goto(c, j, "flip")
       \/ status[j] = "running" /\ Goto(c, j, "signal")
       \/ status[j] \in Terminal /\ Answer(c, j, status[j])
    /\ UNCHANGED <<status, procVars, wake, newq, runVars, ctl>>

(* Variant: the UPDATE without AND status = 'queued'. *)
FlipUnguarded(c) ==
    /\ call[c].pc = "flip"
    /\ status' = [status EXCEPT ![call[c].job] = "cancelled"]
    /\ Answer(c, call[c].job, "cancelled")
    /\ UNCHANGED <<procVars, wake, newq, runVars, ctl>>

(* UPDATE ... WHERE id = $1 AND status = 'queued' *)
CancelFlip(c) ==
    /\ call[c].pc = "flip"
    /\ \/ /\ status[call[c].job] = "queued"
          /\ status' = [status EXCEPT ![call[c].job] = "cancelled"]
          /\ Answer(c, call[c].job, "cancelled")
       \/ /\ status[call[c].job] # "queued"
          /\ Goto(c, call[c].job, "reread")
          /\ UNCHANGED status
    /\ UNCHANGED <<procVars, wake, newq, runVars, ctl>>

CancelReread(c) ==
    /\ call[c].pc = "reread"
    /\ LET j == call[c].job IN
        \/ status[j] = "running" /\ Goto(c, j, "signal")
        \/ status[j] # "running" /\ Answer(c, j, status[j])
    /\ UNCHANGED <<status, procVars, wake, newq, runVars, ctl>>

CancelSignal(c) ==
    /\ call[c].pc = "signal"
    /\ ctl' = [w \in Workers |-> IF Listening(w) THEN ctl[w] \cup {call[c].job}
                                 ELSE ctl[w]]
    /\ Answer(c, call[c].job, "signalled")
    /\ UNCHANGED <<status, procVars, wake, newq, runVars>>

CancelReturn(c) ==
    /\ call[c].pc = "done"
    /\ call' = [call EXCEPT ![c] = NoCall]
    /\ UNCHANGED <<status, procVars, wake, newq, runVars, ctl>>

-----------------------------------------------------------------------------
WorkerStep(w) ==
    \/ DeliverWake(w) \/ Start(w) \/ Requeue(w) \/ Listen(w) \/ Claim(w)
    \/ ClaimNone(w) \/ Suspend(w) \/ WakeUp(w) \/ PollTimeout(w)
    \/ ExitOnce(w) \/ Exit(w) \/ Stop(w) \/ Crash(w)

TaskStep(w, j) ==
    \/ PrepFail(w, j) \/ PrepOk(w, j) \/ Spawn(w, j) \/ RunnerError(w, j)
    \/ ChildExit(w, j) \/ Timeout(w, j) \/ RunReturn(w, j) \/ Finish(w, j)
    \/ FinishUnpublished(w, j) \/ TaskFails(w, j) \/ DeliverCancel(w, j)

CallStep(c) ==
    \/ \E j \in Jobs : CancelRead(c, j)
    \/ CancelFlip(c) \/ CancelReread(c) \/ CancelSignal(c) \/ CancelReturn(c)

Next ==
    \/ \E j \in Jobs : Submit(j)
    \/ \E w \in Workers : WorkerStep(w)
    \/ \E w \in Workers, j \in Jobs : TaskStep(w, j)
    \/ \E c \in Callers : CallStep(c)

Spec == Init /\ [][Next]_vars

-----------------------------------------------------------------------------
(* Fairness.  The event loop keeps running every coroutine that can run, the  *)
(* server answers, and systemd (or the operator) starts the service again.    *)
(* Nobody owes the system a submission, a cancel call or a --once worker, and *)
(* processes are not killed, stopped or hit by a database error for ever.     *)

WorkerProgress(w) ==
    \/ Requeue(w) \/ Listen(w) \/ Claim(w) \/ ClaimNone(w) \/ Suspend(w)
    \/ WakeUp(w) \/ PollTimeout(w) \/ ExitOnce(w) \/ Exit(w)

(* timeout_seconds is positive and finite, so a child's run ends. *)
TaskProgress(w, j) ==
    \/ PrepFail(w, j) \/ PrepOk(w, j) \/ Spawn(w, j) \/ RunnerError(w, j)
    \/ ChildExit(w, j) \/ Timeout(w, j) \/ RunReturn(w, j) \/ Finish(w, j)
    \/ FinishUnpublished(w, j)

Disturbance ==
    \E w \in Workers :
        Stop(w) \/ Crash(w) \/ \E j \in Jobs : TaskFails(w, j)

Fairness ==
    /\ \A w \in Workers : WF_vars(WorkerProgress(w))
    /\ \A w \in Workers \ OnceWorkers : WF_vars(Start(w))
    /\ \A w \in Workers, j \in Jobs : WF_vars(TaskProgress(w, j))

FairSpec == Spec /\ Fairness

-----------------------------------------------------------------------------
(* Properties.                                                                *)

(* Exactly the worker that is up holds WORKER_LOCK. *)
LockInv ==
    \A w \in Workers :
        /\ wstate[w] # "down" <=> lockHolder = w
        /\ wstate[w] # "closing"

(* Tasks exist only in a worker's loop, on rows that say "running". *)
TaskInv ==
    \A w \in Workers, j \in Jobs :
        task[w][j] # "none" => InLoop(w) /\ status[j] = "running"

(* The outcome is known once the child is gone, and a cancelled run is not    *)
(* carried to finish() as complete.                                           *)
OutcomeInv ==
    \A w \in Workers, j \in Jobs :
        /\ task[w][j] \in {"drain", "post"} => result[w][j] \in Terminal
        /\ cancelled[w][j] => task[w][j] \in Active \cup {"post"}
        /\ cancelled[w][j] /\ task[w][j] = "post" => result[w][j] # "complete"

CallInv ==
    \A c \in Callers :
        /\ call[c].pc # "idle" => call[c].job \in Jobs
        /\ call[c].pc = "done" /\ call[c].answer \in Terminal
            => status[call[c].job] = call[c].answer

(* The inductive invariant of worker.py and jobs.py: the advisory lock makes  *)
(* one process the owner of every execution, and an execution the owner of    *)
(* its row.                                                                   *)
IndInv == TypeOK /\ LockInv /\ TaskInv /\ OutcomeInv /\ CallInv

(* jobs.py requeue_orphans: when a worker is about to requeue, "every         *)
(* 'running' row necessarily belongs to a dead predecessor" -- no task of any *)
(* process is executing such a job.                                           *)
RunningRowsAreOrphans ==
    \A w \in Workers : wstate[w] = "locked" =>
        \A j \in Jobs : status[j] = "running" => ~Executing(j)

(* worker.py _execute and jobs.py finish: an execution always finds its row   *)
(* "running", and no job has executions in two processes, so the              *)
(* unconditional UPDATE of finish() never overwrites another outcome.         *)
ExecutionOwnsRow ==
    /\ \A w \in Workers, j \in Jobs : task[w][j] # "none" => status[j] = "running"
    /\ \A v, w \in Workers, j \in Jobs :
        task[v][j] # "none" /\ task[w][j] # "none" => v = w

(* jobs.py cancel: a caller who is told "cancelled" -- or any other terminal  *)
(* status -- is told the job's last status, whatever a worker does meanwhile. *)
AnswerHolds ==
    \A c \in Callers : call[c].pc = "done" /\ call[c].answer \in Terminal
        => status[call[c].job] = call[c].answer

(* jobs.py TERMINAL: no worker step, restart or cancel changes a row that is  *)
(* complete, failed or cancelled.                                             *)
TerminalIsFinal ==
    [][\A j \in Jobs : status[j] \in Terminal => status'[j] = status[j]]_vars

(* runner.py cancel and run: once a cancel has reached the runner of a live   *)
(* execution, that execution never ends its job as "complete".                *)
CancelHonoured ==
    [][\A w \in Workers, j \in Jobs :
        cancelled[w][j] /\ status[j] = "running" => status'[j] # "complete"]_vars

(* A job whose task died in an uncaught exception: its row says "running"     *)
(* while a worker is up, and only that worker's restart will requeue it.      *)
Stranded(j) ==
    /\ status[j] = "running"
    /\ ~Executing(j)
    /\ \E w \in Workers : InLoop(w)

Quiet == <>[][~Disturbance]_vars

(* worker.py _loop: every queued job is eventually claimed and ended, through *)
(* lost wake-ups, restarts and cancels, unless its task dies uncaught.        *)
QueuedJobSettles ==
    Quiet => \A j \in Jobs :
        status[j] = "queued" ~> (status[j] \in Terminal \/ Stranded(j))

(* worker.py stop: a stopped worker drains its tasks and leaves, also when    *)
(* the wake of stop() is cleared by the loop.                                 *)
StopTerminates ==
    \A w \in Workers : stopping[w] ~> wstate[w] = "down"

Lifecycle == INSTANCE JobLifecycle WITH live <- [j \in Jobs |-> Executing(j)]

(* The queue with its workers, lock and messages implements JobLifecycle.     *)
ImplementsLifecycle == Lifecycle!Spec
=============================================================================
