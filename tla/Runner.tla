------------------------------- MODULE Runner -------------------------------
(***************************************************************************)
(* One run of one job (runner.py): the child process with its two pipes,   *)
(* the two pumps that read them, the timeout, cancel(), and the write of   *)
(* the outcome that Worker._execute makes afterwards.                      *)
(*                                                                         *)
(* Both pumps write to the job's log through the one connection that       *)
(* _execute holds.  asyncpg serves one statement at a time on a connection *)
(* and raises when a second is begun, which ends the pump that began it.   *)
(* A descendant is a process that the workspace started and that inherits  *)
(* the child's group and pipes.                                            *)
(*                                                                         *)
(* Process.wait() of asyncio (Python 3.11 and 3.12) returns when the child *)
(* has exited and both pipes are at their end, or at once when the return  *)
(* code is already known; a stream that nobody reads is paused when its    *)
(* buffer is full, and does not see its end.                               *)
(***************************************************************************)
EXTENDS Integers, Sequences, FiniteSets

CONSTANTS
    Writes,          \* the streams the workspace writes to
    Descends,        \* whether the workspace starts a descendant
    StatementsFail,  \* whether a statement on the connection may raise
    PipeLines,       \* bound: lines a pipe holds before its writer blocks
    MaxLines         \* bound: lines the workspace writes to a stream

Streams == {"out", "err"}

ConstantsOK ==
    /\ Writes \subseteq Streams
    /\ Descends \in BOOLEAN /\ StatementsFail \in BOOLEAN
    /\ PipeLines \in Nat \ {0} /\ MaxLines \in Nat

ASSUME ConstantsAssumption == ConstantsOK

VARIABLES
    run,        \* where run() is
    result,     \* the status of its RunResult
    child,      \* none, alive, dead
    code,       \* the child's return code once it is dead
    said,       \* what the child reported last: nothing, result, error
    desc,       \* the descendant: none, alive, dead
    pipe,       \* per stream, the lines not yet read
    written,    \* per stream, how many lines the workspace wrote
    logged,     \* per stream, how many rows of job_log came from it
    pump,       \* per stream, what its pump is doing
    conn,       \* who has a statement in progress: nobody or a stream
    collected,  \* what _pump_events has collected
    cancelled,  \* _cancelled
    kill,       \* per caller of _terminate, where it is
    settled     \* the outcome's write: pending, written, raised

runnerVars == <<run, result, child, code, said, desc, pipe, written, logged, pump, conn,
          collected, cancelled, kill, settled>>

procVars == <<child, code, said, desc, pipe, written>>
pumpVars == <<pump, conn, collected, logged>>
runVars == <<run, result, settled>>
killVars == <<cancelled, kill>>

PumpStates == {"unborn", "read", "insert", "between", "notify", "eof", "dead", "stopped"}
Killers == {"timeout", "cancel"}

RunnerInit ==
    /\ run = "spawn" /\ result = "none" /\ settled = "pending"
    /\ child = "none" /\ code = 0 /\ said = "nothing" /\ desc = "none"
    /\ pipe = [s \in Streams |-> << >>]
    /\ written = [s \in Streams |-> 0]
    /\ logged = [s \in Streams |-> 0]
    /\ pump = [s \in Streams |-> "unborn"]
    /\ conn = "nobody" /\ collected = {}
    /\ cancelled = FALSE
    /\ kill = [k \in Killers |-> "idle"]

-----------------------------------------------------------------------------
(* The child (child.py) and what it starts.                                   *)

Alive == child = "alive" /\ run # "feed"    \* it reads its whole spec first
Room(s) == Len(pipe[s]) < PipeLines

(* emit() writes an event, anything else the workspace prints goes to fd 2.    *)
ChildWrites(s, line) ==
    /\ Alive /\ said = "nothing"
    /\ s \in Writes
    /\ Room(s)
    /\ written[s] < MaxLines
    /\ pipe' = [pipe EXCEPT ![s] = Append(@, line)]
    /\ written' = [written EXCEPT ![s] = @ + IF line = "log" THEN 1 ELSE 0]
    /\ UNCHANGED <<child, code, said, desc, pumpVars, runVars, killVars>>

(* send("result") or send("error") *)
ChildReports(what) ==
    /\ Alive /\ said = "nothing"
    /\ Room("out")
    /\ pipe' = [pipe EXCEPT !["out"] = Append(@, what)]
    /\ said' = what
    /\ UNCHANGED <<child, code, desc, written, pumpVars, runVars, killVars>>

(* _main returns 0 after a result, 1 after an error; a workspace that exits by *)
(* itself, or is killed, reports nothing and has any code.                     *)
ChildExits(c) ==
    /\ child = "alive"
    /\ said = "result" => c = 0
    /\ said = "error" => c = 1
    /\ child' = "dead" /\ code' = c
    /\ UNCHANGED <<said, desc, pipe, written, pumpVars, runVars, killVars>>

(* Process.wait(): exited, and no pipe has a writer or is paused. *)
Ended(s) == child = "dead" /\ desc # "alive" /\ Room(s)
Waited == \A s \in Streams : Ended(s)

DescendantStarts ==
    /\ Descends /\ Alive
    /\ desc = "none"
    /\ desc' = "alive"
    /\ UNCHANGED <<child, code, said, pipe, written, pumpVars, runVars, killVars>>

DescendantExits ==
    /\ desc = "alive"
    /\ desc' = "dead"
    /\ UNCHANGED <<child, code, said, pipe, written, pumpVars, runVars, killVars>>

-----------------------------------------------------------------------------
(* The pumps.  A statement is begun only on an idle connection; anything else  *)
(* raises, and so does every statement once _execute has released it.          *)

Usable == conn = "nobody" /\ settled = "pending"

BeginStatement(s, stage) ==
    IF Usable
    THEN /\ pump' = [pump EXCEPT ![s] = stage] /\ conn' = s
    ELSE /\ pump' = [pump EXCEPT ![s] = "dead"] /\ conn' = conn

(* async for raw in stream: jobs.log is INSERT then notify, progress only the  *)
(* notify, a result or an error is kept.                                       *)
PumpReads(s) ==
    /\ pump[s] = "read"
    /\ pipe[s] # << >>
    /\ pipe' = [pipe EXCEPT ![s] = Tail(@)]
    /\ LET line == Head(pipe[s]) IN
        \/ line = "log" /\ BeginStatement(s, "insert") /\ UNCHANGED collected
        \/ line = "progress" /\ BeginStatement(s, "notify") /\ UNCHANGED collected
        \/ /\ line \in {"result", "error"}
           /\ collected' = collected \cup {line}
           /\ UNCHANGED <<pump, conn>>
    /\ UNCHANGED <<child, code, said, desc, written, logged, runVars, killVars>>

InsertDone(s) ==
    /\ pump[s] = "insert"
    /\ pump' = [pump EXCEPT ![s] = "between"]
    /\ conn' = "nobody"
    /\ logged' = [logged EXCEPT ![s] = @ + 1]
    /\ UNCHANGED <<procVars, collected, runVars, killVars>>

NotifyBegins(s) ==
    /\ pump[s] = "between"
    /\ BeginStatement(s, "notify")
    /\ UNCHANGED <<procVars, collected, logged, runVars, killVars>>

NotifyDone(s) ==
    /\ pump[s] = "notify"
    /\ pump' = [pump EXCEPT ![s] = "read"]
    /\ conn' = "nobody"
    /\ UNCHANGED <<procVars, collected, logged, runVars, killVars>>

(* The database refuses the statement, or is gone. *)
StatementRaises(s) ==
    /\ StatementsFail
    /\ conn = s
    /\ pump' = [pump EXCEPT ![s] = "dead"]
    /\ conn' = "nobody"
    /\ UNCHANGED <<procVars, collected, logged, runVars, killVars>>

(* The pipe ends when nobody can write to it any more. *)
PumpEnds(s) ==
    /\ pump[s] = "read"
    /\ pipe[s] = << >>
    /\ Ended(s)
    /\ pump' = [pump EXCEPT ![s] = "eof"]
    /\ UNCHANGED <<procVars, conn, collected, logged, runVars, killVars>>

(* Variant: the pumps are not awaited. *)
GatheredAtOnce == TRUE

(* asyncio.gather: done when both are, or as soon as one has raised. *)
Gathered ==
    \/ \E s \in Streams : pump[s] = "dead"
    \/ \A s \in Streams : pump[s] = "eof"

-----------------------------------------------------------------------------
(* _terminate, called by cancel() and on timeout.                              *)

(* SIGTERM to the group: a process may handle it and carry on. *)
Terminated ==
    /\ \/ child' = "dead" /\ code' = 1
       \/ UNCHANGED <<child, code>>
    /\ desc' \in {desc, IF desc = "alive" THEN "dead" ELSE desc}

(* proc is None, or has a return code: nothing to do. *)
TerminateBegins(k) ==
    \/ /\ child # "alive"
       /\ kill' = [kill EXCEPT ![k] = "done"]
       /\ UNCHANGED <<child, code, desc>>
    \/ /\ child = "alive"
       /\ kill' = [kill EXCEPT ![k] = "grace"]
       /\ Terminated

(* Variant: the group is not killed. *)
GraceOverUnkilled(k) ==
    /\ kill[k] = "grace" /\ ~Waited
    /\ kill' = [kill EXCEPT ![k] = "done"]
    /\ UNCHANGED <<procVars, pumpVars, runVars, cancelled>>

(* Variant: proc.wait() has no timeout. *)
GraceUnending(k) ==
    /\ kill[k] = "grace" /\ Waited
    /\ kill' = [kill EXCEPT ![k] = "done"]
    /\ UNCHANGED <<procVars, pumpVars, runVars, cancelled>>

(* KILL_GRACE_SECONDS pass: SIGKILL to the group, which is not found once the  *)
(* child has been reaped, and then the child is waited for without a timeout.  *)
GraceOver(k) ==
    /\ kill[k] = "grace" /\ ~Waited
    /\ \/ /\ child = "alive"
          /\ kill' = [kill EXCEPT ![k] = "reap"]
          /\ child' = "dead" /\ code' = 1
          /\ desc' = IF desc = "alive" THEN "dead" ELSE desc
       \/ /\ child = "dead"
          /\ kill' = [kill EXCEPT ![k] = "done"]
          /\ UNCHANGED <<child, code, desc>>
    /\ UNCHANGED <<said, pipe, written, pumpVars, runVars, cancelled>>

(* proc.wait() returns, within the grace period or after SIGKILL. *)
Reaped(k) ==
    /\ kill[k] \in {"grace", "reap"} /\ Waited
    /\ kill' = [kill EXCEPT ![k] = "done"]
    /\ UNCHANGED <<procVars, pumpVars, runVars, cancelled>>

(* The worker's _active names the runner until run() has returned. *)
Cancel ==
    /\ ~cancelled
    /\ run \notin {"returned", "raised"}
    /\ cancelled' = TRUE
    /\ TerminateBegins("cancel")
    /\ UNCHANGED <<said, pipe, written, pumpVars, runVars>>

-----------------------------------------------------------------------------
(* run().                                                                      *)

Spawn ==
    /\ run = "spawn"
    /\ run' = "feed"
    /\ child' = "alive"
    /\ UNCHANGED <<result, settled, code, said, desc, pipe, written, pumpVars, killVars>>

Raise == run' = "raised" /\ UNCHANGED <<result, settled>>

(* create_subprocess_exec or mkdir raises. *)
SpawnFails ==
    /\ run = "spawn"
    /\ Raise
    /\ UNCHANGED <<procVars, pumpVars, killVars>>

(* The spec is written to stdin, the pumps are started and wait() is called. *)
Feed ==
    /\ run = "feed"
    /\ run' = IF child = "dead" THEN "drain" ELSE "wait"
    /\ pump' = [s \in Streams |-> "read"]
    /\ UNCHANGED <<result, settled, procVars, conn, collected, logged, killVars>>

(* drain() raises: the child is gone. *)
FeedFails ==
    /\ run = "feed" /\ child = "dead"
    /\ Raise
    /\ UNCHANGED <<procVars, pumpVars, killVars>>

Timeout ==
    /\ run = "wait" /\ ~Waited
    /\ run' = "killing"
    /\ TerminateBegins("timeout")
    /\ UNCHANGED <<result, settled, said, pipe, written, pumpVars, cancelled>>

(* pump.cancel() reaches the pumps only while the gather is not done. *)
TimeoutReturns ==
    /\ run = "killing" /\ kill["timeout"] = "done"
    /\ IF Gathered THEN UNCHANGED <<pump, conn>>
       ELSE /\ pump' = [s \in Streams |-> IF pump[s] = "eof" THEN "eof" ELSE "stopped"]
            /\ conn' = "nobody"
    /\ run' = "returned" /\ result' = "failed"
    /\ UNCHANGED <<settled, procVars, collected, logged, killVars>>

(* proc.wait() returned; now the pumps are awaited, without a timeout. *)
ChildWaited ==
    /\ run = "wait" /\ Waited
    /\ run' = "drain"
    /\ UNCHANGED <<result, settled, procVars, pumpVars, killVars>>

(* Variant: the return code is not looked at. *)
OutcomesByEvents ==
    IF cancelled THEN {"cancelled"}
    ELSE IF "error" \in collected THEN {"failed"} ELSE {"complete", "failed"}

(* Variant: a status that the jobs table does not have. *)
OutcomesRaw == IF code = 0 THEN {"complete", "failed"} ELSE {"killed"}

(* The last branch is _reconcile, which may refuse the artifacts. *)
Outcomes ==
    IF cancelled THEN {"cancelled"}
    ELSE IF "error" \in collected \/ code # 0 THEN {"failed"}
    ELSE {"complete", "failed"}

Return ==
    /\ run = "drain"
    /\ Gathered
    /\ run' = "returned"
    /\ result' \in Outcomes
    /\ UNCHANGED <<settled, procVars, pumpVars, killVars>>

(* Worker._execute: register and finish use the same connection. *)
Settle ==
    /\ run \in {"returned", "raised"}
    /\ settled = "pending"
    /\ settled' = IF conn = "nobody" THEN "written" ELSE "raised"
    /\ UNCHANGED <<run, result, procVars, pumpVars, killVars>>

-----------------------------------------------------------------------------
Child ==
    \/ \E line \in {"log", "progress"} : ChildWrites("out", line)
    \/ ChildWrites("err", "log")
    \/ \E what \in {"result", "error"} : ChildReports(what)
    \/ \E c \in {0, 1} : ChildExits(c)
    \/ DescendantStarts \/ DescendantExits

Pump(s) ==
    \/ PumpReads(s) \/ InsertDone(s) \/ NotifyBegins(s) \/ NotifyDone(s)
    \/ PumpEnds(s)

Terminate(k) == GraceOver(k) \/ Reaped(k)

Run ==
    \/ Spawn \/ SpawnFails \/ Feed \/ FeedFails \/ Timeout \/ TimeoutReturns
    \/ ChildWaited \/ Return \/ Settle

RunnerNext ==
    \/ Child \/ Run \/ Cancel
    \/ \E s \in Streams : Pump(s) \/ StatementRaises(s)
    \/ \E k \in Killers : Terminate(k)

RunnerSpec == RunnerInit /\ [][RunnerNext]_runnerVars

(* The event loop runs what is ready, timers fire and statements return; the   *)
(* workspace owes nothing.                                                     *)
RunnerFairSpec ==
    /\ RunnerSpec
    /\ WF_runnerVars(Run)
    /\ \A s \in Streams : WF_runnerVars(Pump(s))
    /\ \A k \in Killers : WF_runnerVars(Terminate(k))

-----------------------------------------------------------------------------
RunnerTypeOK ==
    /\ run \in {"spawn", "feed", "wait", "killing", "drain", "returned", "raised"}
    /\ result \in {"none", "complete", "failed", "cancelled"}
    /\ child \in {"none", "alive", "dead"} /\ desc \in {"none", "alive", "dead"}
    /\ code \in {0, 1}
    /\ said \in {"nothing", "result", "error"}
    /\ pump \in [Streams -> PumpStates]
    /\ conn \in Streams \cup {"nobody"}
    /\ pipe \in [Streams -> Seq({"log", "progress", "result", "error"})]
    /\ \A s \in Streams : Len(pipe[s]) <= PipeLines
    /\ written \in [Streams -> Nat] /\ logged \in [Streams -> Nat]
    /\ cancelled \in BOOLEAN
    /\ collected \subseteq {"result", "error"}
    /\ kill \in [Killers -> {"idle", "grace", "reap", "done"}]
    /\ settled \in {"pending", "written", "raised"}

(* runner.py _terminate: "Returning before the child is really dead is how a   *)
(* 'killed' job goes on holding its slot" -- whatever mix of timeout, cancel   *)
(* and failure ended it, run() leaves no child behind.                         *)
ChildGoneAtReturn ==
    run \in {"returned", "raised"} => child # "alive"

(* runner.py run: a job is complete only if its workspace did not fail and     *)
(* nobody cancelled it before run() returned, also when the event that said so *)
(* was lost with its pump.                                                     *)
NoFalseSuccess ==
    result = "complete" =>
        code = 0 /\ said # "error" /\ ~cancelled /\ kill["timeout"] = "idle"

PumpsLive == \A s \in Streams : pump[s] # "dead"

(* runner.py run: while no pump has died, a complete run returns what its      *)
(* workspace returned, and has every line of either stream in the job's log    *)
(* (spec/workspace-contract.md: "stdout/stderr captured to job log").          *)
NothingLost ==
    result = "complete" /\ PumpsLive =>
        /\ said = "result" => "result" \in collected
        /\ \A s \in Streams : logged[s] = written[s]

(* worker.py _execute: while no pump has died, the connection is free when the *)
(* outcome is to be written; otherwise the job stays 'running' with nobody     *)
(* executing it.                                                               *)
OutcomeIsWritten == settled = "raised" => ~PumpsLive

(* A statement in progress is a live pump's, and every pump that is in one is  *)
(* the one that has the connection.                                            *)
ConnInv == \A s \in Streams : conn = s <=> pump[s] \in {"insert", "notify"}

(* Where run() is says what has become of the child, of _terminate and of the  *)
(* result; a child that reported an error did not exit with 0.                 *)
PhaseInv ==
    /\ run = "spawn" => child = "none"
    /\ child = "none" => run \in {"spawn", "raised"}
    /\ run = "drain" => child = "dead"
    /\ kill["timeout"] # "idle" =>
        run = "killing" \/ (run = "returned" /\ result = "failed")
    /\ kill["timeout"] \in {"reap", "done"} => child = "dead"
    /\ result # "none" <=> run = "returned"
    /\ settled # "pending" => run \in {"returned", "raised"}
    /\ child = "dead" /\ said = "error" => code = 1

(* The pumps exist from Feed on; one that saw the end of its pipe left nothing *)
(* in it, and when run() has returned none is at work unless one has died.     *)
PumpInv ==
    /\ \A s \in Streams : pump[s] = "unborn" <=> run \in {"spawn", "feed", "raised"}
    /\ \A s \in Streams : pump[s] = "eof" => pipe[s] = << >> /\ child = "dead"
    /\ \A s \in Streams : pump[s] = "stopped" => run = "returned" /\ result = "failed"
    /\ run = "returned" /\ PumpsLive => \A s \in Streams : pump[s] \in {"eof", "stopped"}

LogLines(q) == {i \in DOMAIN q : q[i] = "log"}
Working(s) == pump[s] \notin {"dead", "stopped"}

(* Every line that was written is in the log, in the pipe or in the hand of    *)
(* the pump, and so is the result.                                             *)
LineInv ==
    /\ \A s \in Streams : Working(s) =>
        written[s] = logged[s] + Cardinality(LogLines(pipe[s]))
                               + IF pump[s] = "insert" THEN 1 ELSE 0
    /\ said = "result" /\ Working("out") =>
        "result" \in collected \/ \E i \in DOMAIN pipe["out"] : pipe["out"][i] = "result"

(* What holds of every run: the types, no child left behind, and while both    *)
(* pumps live nothing is lost and the outcome is written; with what is true    *)
(* along the way and makes it so.                                              *)
RunnerInv ==
    /\ RunnerTypeOK /\ ConnInv /\ PhaseInv /\ PumpInv /\ LineInv
    /\ ChildGoneAtReturn /\ NothingLost /\ OutcomeIsWritten

(* spec/workspace-contract.md: "timeout_seconds enforced via SIGTERM then      *)
(* SIGKILL" -- a run whose child was started returns, whatever the workspace   *)
(* and what it started do, unless a pump dies.                                 *)
RunReturns == run = "feed" ~> run \in {"returned", "raised"} \/ ~PumpsLive
=============================================================================
