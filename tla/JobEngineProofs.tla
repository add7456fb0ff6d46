--------------------------- MODULE JobEngineProofs ---------------------------
(***************************************************************************)
(* The safety of JobEngine for any number of jobs, workers, slots and      *)
(* callers.  Everything rests on IndInv: the lock makes at most one        *)
(* process live, so an execution owns its row, so the unconditional UPDATE *)
(* of finish() only ever ends a running job.                               *)
(***************************************************************************)
EXTENDS JobEngine, TLAPS

USE NJobsAssumption, OnceAssumption, ConcurrencyAssumption, NoWorkerAssumption

(* The initial state of an empty database satisfies the inductive invariant. *)
LEMMA InitInd == Init => IndInv
  BY DEF Init, IndInv, TypeOK, LockInv, TaskInv, OutcomeInv, CallInv, InLoop,
         Jobs, Statuses, Terminal, WorkerStates, TaskStates, Active, CallSteps,
         Answers, NoCall

(* jobs.submit inserts a row nobody executes and wakes whoever listens. *)
LEMMA SubmitInd ==
  ASSUME IndInv, NEW j \in Jobs, Submit(j) PROVE IndInv'
  BY DEF Submit, Listening, IndInv, TypeOK, LockInv, TaskInv, OutcomeInv,
         CallInv, InLoop, Jobs, Statuses, Terminal, procVars, runVars

-----------------------------------------------------------------------------
(* Steps of a worker process.                                                 *)

(* A process that is gone leaves no task behind and frees the lock. *)
LEMMA LeaveInd ==
  ASSUME IndInv, NEW w \in Workers, wstate[w] # "down", Leave(w)
  PROVE  IndInv'
<1> USE DEF Leave, Forget, IndInv, TypeOK
<1>1. TypeOK'
  BY DEF WorkerStates, TaskStates
<1>2. LockInv'
  BY DEF LockInv
<1>3. TaskInv'
  BY DEF TaskInv, InLoop
<1>4. OutcomeInv'
  BY DEF OutcomeInv
<1>5. CallInv'
  BY DEF CallInv
<1> QED
  BY <1>1, <1>2, <1>3, <1>4, <1>5

(* A move of the loop from one place to another, the lock held throughout. *)
LEMMA MoveInd ==
  ASSUME IndInv, NEW w \in Workers, wstate[w] # "down",
         NEW to \in WorkerStates \ {"down", "closing"},
         InLoop(w) => to \in {"scan", "scanned", "wait", "drain"},
         wstate' = [wstate EXCEPT ![w] = to],
         wake' \in [Workers -> BOOLEAN],
         UNCHANGED <<status, lockHolder, stopping, newq, runVars, ctl, call>>
  PROVE  IndInv'
<1> USE DEF IndInv, TypeOK, runVars
<1>1. TypeOK' /\ LockInv'
  BY DEF LockInv
<1>2. TaskInv'
  BY DEF TaskInv, InLoop
<1>3. OutcomeInv' /\ CallInv'
  BY DEF OutcomeInv, CallInv
<1> QED
  BY <1>1, <1>2, <1>3

(* requeue_orphans: no worker but this one is up and it has no task yet. *)
LEMMA RequeueInd ==
  ASSUME IndInv, NEW w \in Workers, Requeue(w) PROVE IndInv'
<1> USE DEF Requeue, IndInv, TypeOK, runVars
<1>1. TypeOK' /\ LockInv'
  BY DEF LockInv, Statuses, WorkerStates
<1>2. TaskInv'
  <2>1. \A v \in Workers : InLoop(v) => v = w
    BY DEF LockInv, InLoop
  <2>2. \A v \in Workers, j \in Jobs : task[v][j] = "none"
    BY <2>1 DEF TaskInv, InLoop
  <2> QED
    BY <2>2 DEF TaskInv
<1>3. OutcomeInv'
  BY DEF OutcomeInv
<1>4. CallInv'
  BY DEF CallInv, Terminal
<1> QED
  BY <1>1, <1>2, <1>3, <1>4

(* claim(): the row was queued, so nobody executed it. *)
LEMMA ClaimInd ==
  ASSUME IndInv, NEW w \in Workers, Claim(w) PROVE IndInv'
<1> PICK j \in Jobs :
      /\ status[j] = "queued"
      /\ status' = [status EXCEPT ![j] = "running"]
      /\ task' = [task EXCEPT ![w][j] = "prep"]
      /\ cancelled' = [cancelled EXCEPT ![w][j] = FALSE]
      /\ result' = [result EXCEPT ![w][j] = "none"]
  BY DEF Claim, Queued
<1>0. wstate[w] = "scan" /\ UNCHANGED <<procVars, wake, newq, ctl, call>>
  BY DEF Claim
<1> USE <1>0 DEF IndInv, TypeOK, procVars
<1>1. TypeOK' /\ LockInv'
  BY DEF LockInv, Statuses, TaskStates
<1>2. TaskInv'
  BY DEF TaskInv, InLoop
<1>3. OutcomeInv'
  BY DEF OutcomeInv
<1>4. CallInv'
  BY DEF CallInv, Terminal
<1> QED
  BY <1>1, <1>2, <1>3, <1>4

(* Every step of a worker process preserves the invariant: a worker that takes *)
(* the lock finds no other one up, and a claimed row had no execution.        *)
LEMMA WorkerInd ==
  ASSUME IndInv, NEW w \in Workers, WorkerStep(w) PROVE IndInv'
<1>1. CASE DeliverWake(w)
  BY <1>1 DEF DeliverWake, IndInv, TypeOK, LockInv, TaskInv, OutcomeInv, CallInv,
     InLoop, procVars, runVars
<1>2. CASE Stop(w)
  BY <1>2 DEF Stop, IndInv, TypeOK, LockInv, TaskInv, OutcomeInv, CallInv,
     InLoop, runVars
<1>3. CASE Start(w)
  BY <1>3 DEF Start, IndInv, TypeOK, LockInv, TaskInv, OutcomeInv, CallInv,
     InLoop, WorkerStates, runVars
<1>4. CASE Requeue(w)
  BY <1>4, RequeueInd
<1>5. CASE Listen(w) \/ ClaimNone(w) \/ Suspend(w) \/ WakeUp(w) \/ PollTimeout(w)
  <2>1. \E to \in {"scan", "scanned", "wait", "drain"} :
          wstate' = [wstate EXCEPT ![w] = to]
    BY <1>5 DEF Listen, ClaimNone, Suspend, WakeUp, PollTimeout, LoopTop
  <2>2. /\ wstate[w] # "down"
        /\ wake' \in [Workers -> BOOLEAN]
        /\ UNCHANGED <<status, lockHolder, stopping, newq, runVars, ctl, call>>
    BY <1>5 DEF Listen, ClaimNone, Suspend, WakeUp, PollTimeout, IndInv, TypeOK
  <2> QED
    BY <2>1, <2>2, MoveInd DEF WorkerStates
<1>6. CASE Claim(w)
  BY <1>6, ClaimInd
<1>7. CASE ExitOnce(w) \/ Exit(w) \/ Crash(w)
  BY <1>7, LeaveInd DEF ExitOnce, Exit, Crash
<1> QED
  BY <1>1, <1>2, <1>3, <1>4, <1>5, <1>6, <1>7 DEF WorkerStep

-----------------------------------------------------------------------------
(* Steps of a task.                                                           *)

(* A task that goes on without touching its row. *)
LEMMA AdvanceInd ==
  ASSUME IndInv, NEW w \in Workers, NEW j \in Jobs,
         NEW from \in TaskStates \ {"none"}, NEW to \in TaskStates \ {"none"},
         NEW r \in Terminal \cup {"none"},
         to \in {"drain", "post"} => r \in Terminal,
         to \notin Active \cup {"post"} => ~cancelled[w][j],
         cancelled[w][j] /\ to = "post" => r # "complete",
         Advance(w, j, from, to, r)
  PROVE  IndInv'
<1> USE DEF Advance, IndInv, TypeOK, procVars
<1>1. TypeOK' /\ LockInv'
  BY DEF LockInv
<1>2. TaskInv'
  BY DEF TaskInv, InLoop
<1>3. OutcomeInv'
  BY DEF OutcomeInv
<1>4. CallInv'
  BY DEF CallInv
<1> QED
  BY <1>1, <1>2, <1>3, <1>4

(* finish(): the row was running, and this was its only execution. *)
LEMMA FinishInd ==
  ASSUME IndInv, NEW w \in Workers, NEW j \in Jobs, NEW r \in Terminal,
         task[w][j] # "none", FinishAs(w, j, r)
  PROVE  IndInv'
<1> USE DEF FinishAs, TaskEnds, IndInv, TypeOK, procVars
<1>1. TypeOK'
  BY DEF Statuses, TaskStates
<1>2. LockInv'
  BY DEF LockInv
<1>3. TaskInv'
  BY DEF LockInv, TaskInv, InLoop
<1>4. OutcomeInv'
  BY DEF OutcomeInv
<1>5. CallInv'
  BY DEF CallInv, TaskInv, Terminal
<1> QED
  BY <1>1, <1>2, <1>3, <1>4, <1>5

(* Every step of a task preserves the invariant: it touches only its own job,  *)
(* whose row is "running" because the task is live.                           *)
LEMMA TaskStepInd ==
  ASSUME IndInv, NEW w \in Workers, NEW j \in Jobs, TaskStep(w, j) PROVE IndInv'
<1> USE DEF TaskStates, Terminal, Active
<1>1. CASE PrepFail(w, j)
  BY <1>1, FinishInd DEF PrepFail
<1>2. CASE PrepOk(w, j) \/ Spawn(w, j)
  BY <1>2, AdvanceInd DEF PrepOk, Spawn
<1>3. CASE RunnerError(w, j) \/ Timeout(w, j)
  BY <1>3, AdvanceInd DEF RunnerError, Timeout
<1>4. CASE ChildExit(w, j)
  BY <1>4, AdvanceInd DEF ChildExit
<1>5. CASE RunReturn(w, j)
  <2>1. task[w][j] = "drain"
    BY <1>5 DEF RunReturn, Advance
  <2>2. result[w][j] \in Terminal
    BY <2>1 DEF IndInv, OutcomeInv
  <2>3. CASE cancelled[w][j]
    BY <1>5, <2>3, AdvanceInd DEF RunReturn
  <2>4. CASE ~cancelled[w][j]
    BY <1>5, <2>2, <2>4, AdvanceInd DEF RunReturn
  <2> QED
    BY <2>3, <2>4
<1>6. CASE Finish(w, j)
  <2>1. result[w][j] \in Terminal
    BY <1>6 DEF Finish, IndInv, OutcomeInv
  <2> QED
    BY <1>6, <2>1, FinishInd DEF Finish
<1>7. CASE FinishUnpublished(w, j)
  BY <1>7, FinishInd DEF FinishUnpublished
<1>8. CASE TaskFails(w, j)
  <2> USE <1>8 DEF TaskFails, TaskEnds, IndInv, TypeOK, procVars
  <2>1. TypeOK' /\ LockInv' /\ CallInv'
    BY DEF LockInv, CallInv
  <2>2. TaskInv' /\ OutcomeInv'
    BY DEF TaskInv, OutcomeInv, InLoop
  <2> QED
    BY <2>1, <2>2
<1>9. CASE DeliverCancel(w, j)
  <2> USE <1>9 DEF DeliverCancel, IndInv, TypeOK, procVars
  <2>1. TypeOK' /\ LockInv' /\ CallInv' /\ TaskInv'
    BY DEF LockInv, CallInv, TaskInv, InLoop
  <2>2. OutcomeInv'
    BY DEF OutcomeInv
  <2> QED
    BY <2>1, <2>2
<1> QED
  BY <1>1, <1>2, <1>3, <1>4, <1>5, <1>6, <1>7, <1>8, <1>9 DEF TaskStep

-----------------------------------------------------------------------------
(* Statements of jobs.cancel.                                                 *)

(* A call that moves on or answers without touching a row. *)
LEMMA RecordCallInd ==
  ASSUME IndInv, NEW c \in Callers, NEW pc \in CallSteps, NEW j \in Jobs,
         NEW a \in Answers,
         pc = "done" /\ a \in Terminal => status[j] = a,
         call' = [call EXCEPT ![c] = [pc |-> pc, job |-> j, answer |-> a]],
         ctl' \in [Workers -> SUBSET Jobs],
         UNCHANGED <<status, procVars, wake, newq, runVars>>
  PROVE  IndInv'
<1> USE DEF IndInv, TypeOK, procVars, runVars
<1>1. TypeOK'
  BY DEF Jobs
<1>2. LockInv' /\ TaskInv' /\ OutcomeInv'
  BY DEF LockInv, TaskInv, InLoop, OutcomeInv
<1>3. CallInv'
  BY DEF CallInv
<1> QED
  BY <1>1, <1>2, <1>3

(* The UPDATE that cancels a queued row: nobody executes it. *)
LEMMA FlipInd ==
  ASSUME IndInv, NEW c \in Callers, NEW j \in Jobs, status[j] = "queued",
         status' = [status EXCEPT ![j] = "cancelled"],
         call' = [call EXCEPT ![c] =
                    [pc |-> "done", job |-> j, answer |-> "cancelled"]],
         UNCHANGED <<procVars, wake, newq, runVars, ctl>>
  PROVE  IndInv'
<1> USE DEF IndInv, TypeOK, procVars, runVars, Statuses, Terminal
<1>1. TypeOK'
  BY DEF Jobs, CallSteps, Answers
<1>2. LockInv' /\ TaskInv' /\ OutcomeInv'
  BY DEF LockInv, TaskInv, InLoop, OutcomeInv
<1>3. CallInv'
  BY DEF CallInv
<1> QED
  BY <1>1, <1>2, <1>3

(* Every statement of jobs.cancel preserves the invariant: only a queued row, *)
(* which nobody executes, is flipped.                                         *)
LEMMA CallStepInd ==
  ASSUME IndInv, NEW c \in Callers, CallStep(c) PROVE IndInv'
<1> USE DEF Statuses, CallSteps, Answers, Terminal
<1>1. ASSUME NEW j \in Jobs, CancelRead(c, j) PROVE IndInv'
  BY <1>1, RecordCallInd DEF CancelRead, Answer, Goto, IndInv, TypeOK
<1>2. CASE CancelFlip(c)
  <2>1. call[c].job \in Jobs
    BY <1>2 DEF CancelFlip, IndInv, CallInv
  <2>2. CASE status[call[c].job] = "queued"
    BY <1>2, <2>1, <2>2, FlipInd DEF CancelFlip, Answer
  <2>3. CASE status[call[c].job] # "queued"
    BY <1>2, <2>1, <2>3, RecordCallInd DEF CancelFlip, Goto, IndInv, TypeOK
  <2> QED
    BY <2>2, <2>3
<1>3. CASE CancelReread(c)
  <2>1. call[c].job \in Jobs
    BY <1>3 DEF CancelReread, IndInv, CallInv
  <2> QED
    BY <1>3, <2>1, RecordCallInd DEF CancelReread, Answer, Goto, IndInv, TypeOK
<1>4. CASE CancelSignal(c)
  <2>1. call[c].job \in Jobs
    BY <1>4 DEF CancelSignal, IndInv, CallInv
  <2>2. ctl' \in [Workers -> SUBSET Jobs]
    BY <1>4, <2>1 DEF CancelSignal, IndInv, TypeOK
  <2> QED
    BY <1>4, <2>1, <2>2, RecordCallInd DEF CancelSignal, Answer
<1>5. CASE CancelReturn(c)
  <2> USE <1>5 DEF CancelReturn, NoCall, IndInv, TypeOK, procVars, runVars
  <2>1. TypeOK'
    OBVIOUS
  <2>2. LockInv' /\ TaskInv' /\ OutcomeInv'
    BY DEF LockInv, TaskInv, InLoop, OutcomeInv
  <2>3. CallInv'
    BY DEF CallInv
  <2> QED
    BY <2>1, <2>2, <2>3
<1> QED
  BY <1>1, <1>2, <1>3, <1>4, <1>5 DEF CallStep

-----------------------------------------------------------------------------
(* worker.py and jobs.py: IndInv holds in every reachable state, for any       *)
(* number of jobs, workers, slots and cancel calls.                           *)
THEOREM Invariance == Spec => []IndInv
<1>1. IndInv /\ [Next]_vars => IndInv'
  <2> SUFFICES ASSUME IndInv, [Next]_vars PROVE IndInv'
    OBVIOUS
  <2>1. CASE \E j \in Jobs : Submit(j)
    BY <2>1, SubmitInd
  <2>2. CASE \E w \in Workers : WorkerStep(w)
    BY <2>2, WorkerInd
  <2>3. CASE \E w \in Workers, j \in Jobs : TaskStep(w, j)
    BY <2>3, TaskStepInd
  <2>4. CASE \E c \in Callers : CallStep(c)
    BY <2>4, CallStepInd
  <2>5. CASE UNCHANGED vars
    BY <2>5 DEF vars, IndInv, TypeOK, LockInv, TaskInv, OutcomeInv, CallInv,
       InLoop
  <2> QED
    BY <2>1, <2>2, <2>3, <2>4, <2>5 DEF Next
<1> QED
  BY InitInd, <1>1, PTL DEF Spec

(* Type correctness of the queue: every variable keeps its type for ever. *)
THEOREM TypeCorrect == Spec => []TypeOK
  BY Invariance, PTL DEF IndInv

(* requeue_orphans is safe: when a worker holds the lock and is about to       *)
(* requeue, no process executes a job whose row says "running".               *)
THEOREM OrphansOnly == Spec => []RunningRowsAreOrphans
<1>1. IndInv => RunningRowsAreOrphans
  <2> SUFFICES ASSUME IndInv, NEW w \in Workers, wstate[w] = "locked",
                      NEW v \in Workers, NEW j \in Jobs
               PROVE  task[v][j] = "none"
    BY DEF RunningRowsAreOrphans, Executing
  <2>1. InLoop(v) => v = w
    BY DEF InLoop, IndInv, LockInv
  <2> QED
    BY <2>1 DEF InLoop, IndInv, TaskInv
<1> QED
  BY Invariance, <1>1, PTL

(* Two processes never have tasks at the same time: both would hold the lock. *)
LEMMA OneOwner ==
  ASSUME IndInv, NEW v \in Workers, NEW w \in Workers, NEW i \in Jobs,
         NEW j \in Jobs, task[v][i] # "none", task[w][j] # "none"
  PROVE  v = w
<1>1. wstate[v] # "down" /\ wstate[w] # "down"
  BY DEF IndInv, TaskInv, InLoop
<1> QED
  BY <1>1 DEF IndInv, LockInv

(* An execution finds its row "running" and has no rival in another process.  *)
THEOREM Ownership == Spec => []ExecutionOwnsRow
<1>1. IndInv => ExecutionOwnsRow
  BY OneOwner DEF IndInv, TaskInv, ExecutionOwnsRow
<1> QED
  BY Invariance, <1>1, PTL

(* What jobs.cancel answers as a terminal status stays the job's status. *)
THEOREM CancelAnswers == Spec => []AnswerHolds
<1>1. IndInv => AnswerHolds
  BY DEF IndInv, CallInv, AnswerHolds
<1> QED
  BY Invariance, <1>1, PTL

-----------------------------------------------------------------------------
(* Action properties.                                                         *)

(* No step takes a terminal row elsewhere: cancel flips only queued rows,      *)
(* claim takes queued ones, requeue_orphans running ones, and finish() is      *)
(* reached only by the execution that owns a running one.                     *)
LEMMA TerminalStep ==
  ASSUME IndInv, [Next]_vars, NEW k \in Jobs, status[k] \in Terminal
  PROVE  status'[k] = status[k]
<1> USE DEF IndInv, TypeOK, TaskInv, Terminal
<1>1. CASE \E j \in Jobs : Submit(j)
  BY <1>1 DEF Submit
<1>2. CASE \E w \in Workers : WorkerStep(w)
  <2> PICK w \in Workers : WorkerStep(w)
    BY <1>2
  <2>1. CASE Requeue(w)
    BY <2>1 DEF Requeue
  <2>2. CASE Claim(w)
    BY <2>2 DEF Claim, Queued
  <2> QED
    BY <2>1, <2>2 DEF WorkerStep, DeliverWake, Start, Listen, ClaimNone, Suspend,
       WakeUp, PollTimeout, ExitOnce, Exit, Stop, Crash, Leave
<1>3. CASE \E w \in Workers, j \in Jobs : TaskStep(w, j)
  <2> PICK w \in Workers, j \in Jobs : TaskStep(w, j)
    BY <1>3
  <2> QED
    BY DEF TaskStep, PrepFail, PrepOk, Spawn, RunnerError, ChildExit, Timeout,
       RunReturn, Finish, FinishUnpublished, TaskFails, DeliverCancel, FinishAs,
       Advance
<1>4. CASE \E c \in Callers : CallStep(c)
  <2> PICK c \in Callers : CallStep(c)
    BY <1>4
  <2>1. CASE CancelFlip(c)
    BY <2>1 DEF CancelFlip
  <2> QED
    BY <2>1 DEF CallStep, CancelRead, CancelReread, CancelSignal, CancelReturn
<1>5. CASE UNCHANGED vars
  BY <1>5 DEF vars
<1> QED
  BY <1>1, <1>2, <1>3, <1>4, <1>5 DEF Next

(* A row that is complete, failed or cancelled never changes status again. *)
THEOREM Finality == Spec => TerminalIsFinal
<1>1. IndInv /\ [Next]_vars
        => [\A j \in Jobs : status[j] \in Terminal => status'[j] = status[j]]_vars
  BY TerminalStep
<1> QED
  BY Invariance, <1>1, PTL DEF Spec, TerminalIsFinal

(* A step ends a job as "complete" only by finish() in the execution that owns *)
(* it, whose outcome a cancel that reached the runner has already replaced.    *)
LEMMA CancelStep ==
  ASSUME IndInv, [Next]_vars, NEW v \in Workers, NEW k \in Jobs,
         cancelled[v][k], status[k] = "running"
  PROVE  status'[k] # "complete"
<1> USE DEF IndInv, TypeOK
<1>1. CASE \E j \in Jobs : Submit(j)
  BY <1>1 DEF Submit
<1>2. CASE \E w \in Workers : WorkerStep(w)
  <2> PICK w \in Workers : WorkerStep(w)
    BY <1>2
  <2>1. CASE Requeue(w)
    BY <2>1 DEF Requeue
  <2>2. CASE Claim(w)
    BY <2>2 DEF Claim, Queued
  <2> QED
    BY <2>1, <2>2 DEF WorkerStep, DeliverWake, Start, Listen, ClaimNone, Suspend,
       WakeUp, PollTimeout, ExitOnce, Exit, Stop, Crash, Leave
<1>3. CASE \E w \in Workers, j \in Jobs : TaskStep(w, j)
  <2> PICK w \in Workers, j \in Jobs : TaskStep(w, j)
    BY <1>3
  <2>1. CASE Finish(w, j)
    <3>1. task[w][j] = "post" /\ task[v][k] \in Active \cup {"post"}
      BY <2>1 DEF Finish, OutcomeInv
    <3>2. w = v
      BY <3>1, OneOwner DEF Active
    <3>3. j = k => result[w][j] # "complete"
      BY <3>1, <3>2 DEF OutcomeInv
    <3> QED
      BY <2>1, <3>3 DEF Finish, FinishAs
  <2> QED
    BY <2>1 DEF TaskStep, PrepFail, PrepOk, Spawn, RunnerError, ChildExit,
       Timeout, RunReturn, FinishUnpublished, TaskFails, DeliverCancel, FinishAs,
       Advance
<1>4. CASE \E c \in Callers : CallStep(c)
  <2> PICK c \in Callers : CallStep(c)
    BY <1>4
  <2>1. CASE CancelFlip(c)
    BY <2>1 DEF CancelFlip
  <2> QED
    BY <2>1 DEF CallStep, CancelRead, CancelReread, CancelSignal, CancelReturn
<1>5. CASE UNCHANGED vars
  BY <1>5 DEF vars
<1> QED
  BY <1>1, <1>2, <1>3, <1>4, <1>5 DEF Next

(* An execution whose runner has been cancelled never completes its job. *)
THEOREM Cancellation == Spec => CancelHonoured
<1>1. IndInv /\ [Next]_vars
        => [\A w \in Workers, j \in Jobs :
              cancelled[w][j] /\ status[j] = "running"
                => status'[j] # "complete"]_vars
  BY CancelStep
<1> QED
  BY Invariance, <1>1, PTL DEF Spec, CancelHonoured

-----------------------------------------------------------------------------
(* Refinement: the queue implements JobLifecycle.                             *)

(* A step that leaves rows and tasks alone is a stutter of the lifecycle. *)
LEMMA StutterStep ==
  ASSUME UNCHANGED <<status, task>>
  PROVE  UNCHANGED <<status, [j \in Jobs |-> Executing(j)]>>
  BY DEF Executing

(* A task that moves on stays an execution of the same job. *)
LEMMA AdvanceLive ==
  ASSUME IndInv, NEW w \in Workers, NEW j \in Jobs,
         NEW from \in TaskStates \ {"none"}, NEW to \in TaskStates \ {"none"},
         NEW r, Advance(w, j, from, to, r)
  PROVE  UNCHANGED <<status, [k \in Jobs |-> Executing(k)]>>
<1>1. \A k \in Jobs : Executing(k) <=> Executing(k)'
  BY DEF Advance, Executing, IndInv, TypeOK
<1>2. [k \in Jobs |-> Executing(k)]' = [k \in Jobs |-> Executing(k)]
  BY <1>1 DEF Executing
<1> QED
  BY <1>2 DEF Advance

(* claim() starts the one execution of a queued job. *)
LEMMA ClaimRefines ==
  ASSUME IndInv, NEW w \in Workers, Claim(w) PROVE Lifecycle!Next
<1> DEFINE live == [k \in Jobs |-> Executing(k)]
<1> PICK j \in Jobs :
      /\ status[j] = "queued"
      /\ status' = [status EXCEPT ![j] = "running"]
      /\ task' = [task EXCEPT ![w][j] = "prep"]
  BY DEF Claim, Queued
<1>1. ~Executing(j)
  BY DEF Executing, IndInv, TaskInv
<1>2. \A k \in Jobs : Executing(k)' <=> Executing(k) \/ k = j
  BY DEF Executing, IndInv, TypeOK
<1>3. live' = [live EXCEPT ![j] = TRUE]
  BY <1>1, <1>2 DEF Executing
<1>4. Lifecycle!Claim(j)
  BY <1>1, <1>3 DEF Lifecycle!Claim
<1> QED
  BY <1>4 DEF Lifecycle!Next

(* finish() ends the one execution of a running job. *)
LEMMA FinishRefines ==
  ASSUME IndInv, NEW w \in Workers, NEW j \in Jobs, NEW r \in Terminal,
         task[w][j] # "none", FinishAs(w, j, r)
  PROVE  Lifecycle!Next
<1> DEFINE live == [k \in Jobs |-> Executing(k)]
<1>1. Executing(j) /\ status[j] = "running"
  BY DEF Executing, IndInv, TaskInv
<1>2. \A k \in Jobs : Executing(k)' <=> Executing(k) /\ k # j
  BY OneOwner DEF FinishAs, TaskEnds, Executing, IndInv, TypeOK
<1>3. live' = [live EXCEPT ![j] = FALSE]
  BY <1>1, <1>2 DEF Executing
<1>4. Lifecycle!Finish(j, r)
  BY <1>1, <1>3 DEF Lifecycle!Finish, FinishAs
<1> QED
  BY <1>4 DEF Lifecycle!Next, Lifecycle!Terminal, Terminal

(* A process that goes, or a task that dies, abandons its executions. *)
LEMMA LeaveRefines ==
  ASSUME IndInv, NEW w \in Workers, Leave(w) PROVE Lifecycle!Next
<1> DEFINE live == [k \in Jobs |-> Executing(k)]
<1>1. \A k \in Jobs : Executing(k)' <=> Executing(k) /\ k \notin Live(w)
  BY OneOwner DEF Leave, Forget, Live, Executing, IndInv, TypeOK
<1>2. live' = [k \in Jobs |-> live[k] /\ k \notin Live(w)]
  BY <1>1 DEF Executing
<1>3. Lifecycle!Abandon(Live(w))
  BY <1>2 DEF Lifecycle!Abandon, Leave
<1> QED
  BY <1>3 DEF Lifecycle!Next, Live

(* The same for one task that dies in an uncaught exception. *)
LEMMA TaskFailsRefines ==
  ASSUME IndInv, NEW w \in Workers, NEW j \in Jobs, TaskFails(w, j)
  PROVE  Lifecycle!Next
<1> DEFINE live == [k \in Jobs |-> Executing(k)]
<1>1. \A k \in Jobs : Executing(k)' <=> Executing(k) /\ k \notin {j}
  BY OneOwner DEF TaskFails, TaskEnds, Executing, IndInv, TypeOK
<1>2. live' = [k \in Jobs |-> live[k] /\ k \notin {j}]
  BY <1>1 DEF Executing
<1>3. Lifecycle!Abandon({j})
  BY <1>2 DEF Lifecycle!Abandon, TaskFails
<1> QED
  BY <1>3 DEF Lifecycle!Next

(* requeue_orphans runs while nothing executes. *)
LEMMA RequeueRefines ==
  ASSUME IndInv, NEW w \in Workers, Requeue(w) PROVE Lifecycle!Next
<1>1. \A k \in Jobs : ~Executing(k)
  <2>1. \A v \in Workers : InLoop(v) => v = w
    BY DEF Requeue, IndInv, LockInv, InLoop
  <2> QED
    BY <2>1 DEF Requeue, Executing, IndInv, TaskInv, InLoop
<1>2. UNCHANGED [k \in Jobs |-> Executing(k)]
  BY DEF Requeue, Executing, runVars
<1>3. Lifecycle!Requeue
  BY <1>1, <1>2 DEF Lifecycle!Requeue, Requeue
<1> QED
  BY <1>3 DEF Lifecycle!Next

(* Every step of the queue is a step of the lifecycle or a stutter. *)
LEMMA StepRefines ==
  ASSUME IndInv, [Next]_vars PROVE [Lifecycle!Next]_(Lifecycle!lvars)
<1> USE DEF Lifecycle!lvars
<1>1. ASSUME NEW j \in Jobs, Submit(j) PROVE Lifecycle!Next
  <2>1. Lifecycle!Submit(j)
    BY <1>1 DEF Submit, Lifecycle!Submit, Executing, runVars
  <2> QED
    BY <2>1 DEF Lifecycle!Next
<1>2. ASSUME NEW w \in Workers, WorkerStep(w)
      PROVE  [Lifecycle!Next]_(Lifecycle!lvars)
  <2>1. CASE Requeue(w)
    BY <2>1, RequeueRefines
  <2>2. CASE Claim(w)
    BY <2>2, ClaimRefines
  <2>3. CASE ExitOnce(w) \/ Exit(w) \/ Crash(w)
    BY <2>3, LeaveRefines DEF ExitOnce, Exit, Crash
  <2>4. CASE \/ DeliverWake(w) \/ Start(w) \/ Listen(w) \/ ClaimNone(w)
             \/ Suspend(w) \/ WakeUp(w) \/ PollTimeout(w) \/ Stop(w)
    <3>1. UNCHANGED <<status, task>>
      BY <2>4 DEF DeliverWake, Start, Listen, ClaimNone, Suspend, WakeUp,
         PollTimeout, Stop, runVars
    <3> QED
      BY <3>1, StutterStep
  <2> QED
    BY <1>2, <2>1, <2>2, <2>3, <2>4 DEF WorkerStep
<1>3. ASSUME NEW w \in Workers, NEW j \in Jobs, TaskStep(w, j)
      PROVE  [Lifecycle!Next]_(Lifecycle!lvars)
  <2>1. CASE PrepFail(w, j) \/ Finish(w, j) \/ FinishUnpublished(w, j)
    <3>1. PICK r \in Terminal : task[w][j] # "none" /\ FinishAs(w, j, r)
      BY <2>1 DEF PrepFail, Finish, FinishUnpublished, IndInv, OutcomeInv, Terminal
    <3> QED
      BY <3>1, FinishRefines
  <2>2. CASE TaskFails(w, j)
    BY <2>2, TaskFailsRefines
  <2>3. CASE DeliverCancel(w, j)
    BY <2>3, StutterStep DEF DeliverCancel
  <2>4. CASE PrepOk(w, j) \/ Spawn(w, j) \/ RunnerError(w, j) \/ ChildExit(w, j)
             \/ Timeout(w, j) \/ RunReturn(w, j)
    BY <2>4, AdvanceLive DEF PrepOk, Spawn, RunnerError, ChildExit, Timeout,
       RunReturn, TaskStates
  <2> QED
    BY <1>3, <2>1, <2>2, <2>3, <2>4 DEF TaskStep
<1>4. ASSUME NEW c \in Callers, CallStep(c)
      PROVE  [Lifecycle!Next]_(Lifecycle!lvars)
  <2>1. CASE CancelFlip(c) /\ status[call[c].job] = "queued"
    <3>1. call[c].job \in Jobs
      BY <2>1 DEF CancelFlip, IndInv, CallInv
    <3>2. ~Executing(call[c].job)
      BY <2>1, <3>1 DEF Executing, IndInv, TaskInv
    <3>3. UNCHANGED [k \in Jobs |-> Executing(k)]
      BY <2>1 DEF CancelFlip, Executing, runVars
    <3>4. Lifecycle!CancelQueued(call[c].job)
      BY <2>1, <3>1, <3>2, <3>3 DEF CancelFlip, Lifecycle!CancelQueued
    <3> QED
      BY <3>1, <3>4 DEF Lifecycle!Next
  <2>2. CASE ~(CancelFlip(c) /\ status[call[c].job] = "queued")
    <3>1. UNCHANGED <<status, task>>
      BY <1>4, <2>2 DEF CallStep, CancelRead, CancelFlip, CancelReread,
         CancelSignal, CancelReturn, runVars
    <3> QED
      BY <3>1, StutterStep
  <2> QED
    BY <2>1, <2>2
<1>5. CASE UNCHANGED vars
  BY <1>5, StutterStep DEF vars
<1> QED
  BY <1>1, <1>2, <1>3, <1>4, <1>5 DEF Next

(* worker.py with jobs.py implements the abstract life of a job: one           *)
(* execution at a time, terminal statuses final, nothing requeued while        *)
(* anything executes.                                                         *)
THEOREM Refinement == Spec => ImplementsLifecycle
<1>1. Init => Lifecycle!Init
  BY DEF Init, Lifecycle!Init, Executing
<1>2. IndInv /\ [Next]_vars => [Lifecycle!Next]_(Lifecycle!lvars)
  BY StepRefines
<1> QED
  BY Invariance, <1>1, <1>2, PTL DEF Spec, ImplementsLifecycle, Lifecycle!Spec
=============================================================================
