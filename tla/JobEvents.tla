------------------------------ MODULE JobEvents ------------------------------
(***************************************************************************)
(* Waiting for a job: await_job, which run_sync and so /stream, /download  *)
(* and the MCP tools rest on (execute.py), and the event stream job_events *)
(* (events.py), against the statements that write and announce a job       *)
(* (jobs.py).                                                              *)
(*                                                                         *)
(* Every statement is a step.  The worker appears only as what a caller    *)
(* can observe: row changes, log rows and notifications; JobEngine has its *)
(* inside.  A notification reaches the listeners of its job when it is     *)
(* sent; a late delivery is a late step of the listener.                   *)
(***************************************************************************)
EXTENDS Integers, Sequences

CONSTANTS
    Jobs,       \* committed jobs
    Waiters,    \* calls of run_sync that have submitted their job
    Streams,    \* clients of the event stream
    MaxLogs,    \* bound: log rows a run writes
    MaxDeaths,  \* bound: deaths of the worker
    MaxRejoin,  \* bound: reconnections of a stream
    QueueMax    \* QUEUE_MAX

ASSUME BoundAssumption ==
    /\ MaxLogs \in Nat /\ MaxDeaths \in Nat /\ MaxRejoin \in Nat
    /\ QueueMax \in Nat \ {0}

(* "none" stands for the job of a client that has named none yet. *)
ASSUME NoJobAssumption == "none" \notin Jobs

VARIABLES
    job,       \* the rows: status, logs; live (a run exists), whether submit
               \* has announced it, what is written and not yet announced
               \* (pend), whether the end was announced
    worker,    \* the worker process: up, and how often it died
    waiter,    \* per call: step, job, the event `done`, answer
    stream     \* per client: step, job, queue, cursor and what it was shown

vars == <<job, worker, waiter, stream>>

Terminal == {"complete", "failed", "cancelled"}
Statuses == {"queued", "running"} \cup Terminal

(* jobs.notify: what a listener looks at is the kind, the log id, the status. *)
Status(s) == [event |-> "status", id |-> 0, status |-> s]
LogEvent(i) == [event |-> "log", id |-> i, status |-> "none"]
Progress == [event |-> "progress", id |-> 0, status |-> "none"]
Silent == [event |-> "none", id |-> 0, status |-> "none"]

(* A row as submit commits it, before its announcement. *)
Submitted == [status |-> "queued", logs |-> 0, live |-> FALSE, greeted |-> FALSE,
              pend |-> Silent, announced |-> FALSE]
NoWait == [pc |-> "idle", job |-> "none", done |-> FALSE, ans |-> "none"]
NoStream == [pc |-> "off", job |-> "none", queue |-> <<>>, cursor |-> 0,
             got |-> <<>>, shown |-> "none", joins |-> 0]

Init ==
    /\ job = [j \in Jobs |-> Submitted]
    /\ worker = [up |-> TRUE, deaths |-> 0]
    /\ waiter = [w \in Waiters |-> NoWait]
    /\ stream = [c \in Streams |-> NoStream]

-----------------------------------------------------------------------------
(* on_notify of job_events: a full queue loses its oldest event.           *)

(* Variant: the queue has no limit. *)
PutUnbounded(x, e) == [x EXCEPT !.queue = Append(@, e)]

(* Variant: a full queue refuses the new event. *)
PutNewest(x, e) ==
    IF Len(x.queue) = QueueMax THEN x ELSE [x EXCEPT !.queue = Append(@, e)]

Put(x, e) ==
    IF Len(x.queue) = QueueMax
    THEN [x EXCEPT !.queue = Append(Tail(@), e)]
    ELSE [x EXCEPT !.queue = Append(@, e)]

Attached(c, j) == stream[c].job = j /\ stream[c].pc \in {"row", "replay", "tail"}

(* on_notify of await_job: a terminal status of the job wanted. *)
Wakes(w, j, e) ==
    /\ waiter[w].job = j
    /\ waiter[w].pc \in {"row", "wait"}
    /\ e.status \in Terminal

Notify(j, e) ==
    /\ stream' = [c \in Streams |-> IF Attached(c, j) THEN Put(stream[c], e)
                                    ELSE stream[c]]
    /\ waiter' = [w \in Waiters |->
                    [waiter[w] EXCEPT !.done = @ \/ Wakes(w, j, e)]]

-----------------------------------------------------------------------------
(* The writers of a job.                                                   *)

(* submit's last statement, outside its transaction: a worker may already   *)
(* have claimed the row, or finished it.                                    *)
Greet(j) ==
    /\ ~job[j].greeted
    /\ job' = [job EXCEPT ![j].greeted = TRUE]
    /\ Notify(j, Status("queued"))
    /\ UNCHANGED worker

(* claim: the row and its announcement commit together. *)
Claim(j) ==
    /\ worker.up
    /\ job[j].status = "queued"
    /\ job' = [job EXCEPT ![j].status = "running", ![j].live = TRUE]
    /\ Notify(j, Status("running"))
    /\ UNCHANGED worker

(* log: the row first. *)
LogRow(j) ==
    /\ job[j].live /\ job[j].pend = Silent
    /\ job[j].logs < MaxLogs
    /\ job' = [job EXCEPT ![j].logs = @ + 1, ![j].pend = LogEvent(job[j].logs + 1)]
    /\ UNCHANGED <<worker, waiter, stream>>

(* progress: announced and never stored. *)
Report(j) ==
    /\ job[j].live /\ job[j].pend = Silent
    /\ Notify(j, Progress)
    /\ UNCHANGED <<job, worker>>

(* finish: the row first. *)
FinishRow(j, s) ==
    /\ job[j].live /\ job[j].pend = Silent
    /\ s \in Terminal
    /\ job' = [job EXCEPT ![j].status = s, ![j].pend = Status(s)]
    /\ UNCHANGED <<worker, waiter, stream>>

(* cancel flips a queued row; the guard of its UPDATE makes the read before *)
(* it immaterial.  A running job is asked to stop and ends by FinishRow.    *)
CancelRow(j) ==
    /\ job[j].status = "queued" /\ job[j].pend = Silent
    /\ job' = [job EXCEPT ![j].status = "cancelled", ![j].pend = Status("cancelled")]
    /\ UNCHANGED <<worker, waiter, stream>>

(* What has been written is announced. *)
Tell(j) ==
    /\ job[j].pend # Silent
    /\ job' = [job EXCEPT ![j].pend = Silent,
                          ![j].live = @ /\ job[j].status = "running",
                          ![j].announced = job[j].pend.status \in Terminal]
    /\ Notify(j, job[j].pend)
    /\ UNCHANGED worker

(* It is not: the process dies, or pg_notify refuses a payload beyond its   *)
(* limit (an error text is not cut, and a cut message can still be too long *)
(* once it is escaped).                                                     *)
TellFails(j) ==
    /\ job[j].pend # Silent
    /\ job' = [job EXCEPT ![j].pend = Silent,
                          ![j].live = @ /\ job[j].status = "running"]
    /\ UNCHANGED <<worker, waiter, stream>>

WorkerDies ==
    /\ worker.up /\ worker.deaths < MaxDeaths
    /\ worker' = [up |-> FALSE, deaths |-> worker.deaths + 1]
    /\ job' = [j \in Jobs |-> IF job[j].live
                              THEN [job[j] EXCEPT !.live = FALSE, !.pend = Silent]
                              ELSE job[j]]
    /\ UNCHANGED <<waiter, stream>>

(* requeue_orphans: every running row goes back to the queue and gets a log *)
(* row, which is announced; the change of status is not.                    *)
WorkerStarts ==
    /\ ~worker.up
    /\ worker' = [worker EXCEPT !.up = TRUE]
    /\ job' = [j \in Jobs |-> IF job[j].status = "running"
                              THEN [job[j] EXCEPT !.status = "queued", !.logs = @ + 1,
                                                  !.pend = LogEvent(job[j].logs + 1)]
                              ELSE job[j]]
    /\ UNCHANGED <<waiter, stream>>

-----------------------------------------------------------------------------
(* await_job and the end of run_sync.                                      *)

(* LISTEN, on a connection of its own. *)
WaitListen(w, j) ==
    /\ waiter[w].pc = "idle"
    /\ waiter' = [waiter EXCEPT ![w].pc = "row", ![w].job = j]
    /\ UNCHANGED <<job, worker, stream>>

(* What run_sync makes of the row await_job returns. *)
Verdict(j) == IF job[j].status = "complete" THEN "ok" ELSE "502"

Answer(w, a) == waiter' = [waiter EXCEPT ![w].pc = "answered", ![w].ans = a]

(* Variant: the first read is not looked at. *)
WaitRowBlind(w) ==
    /\ waiter[w].pc = "row"
    /\ waiter' = [waiter EXCEPT ![w].pc = "wait"]
    /\ UNCHANGED <<job, worker, stream>>

WaitRow(w) ==
    /\ waiter[w].pc = "row"
    /\ IF job[waiter[w].job].status \in Terminal
       THEN Answer(w, Verdict(waiter[w].job))
       ELSE waiter' = [waiter EXCEPT ![w].pc = "wait"]
    /\ UNCHANGED <<job, worker, stream>>

(* The event is set: the row is read again. *)
WaitWake(w) ==
    /\ waiter[w].pc = "wait" /\ waiter[w].done
    /\ Answer(w, Verdict(waiter[w].job))
    /\ UNCHANGED <<job, worker, stream>>

WaitTimeout(w) ==
    /\ waiter[w].pc = "wait" /\ ~waiter[w].done
    /\ Answer(w, "504")
    /\ UNCHANGED <<job, worker, stream>>

-----------------------------------------------------------------------------
(* job_events, over a connection of its own.  A heartbeat changes nothing.  *)

(* stream_job_events and LISTEN; a client that comes back sends the id of   *)
(* the last log line it has (Last-Event-ID), which is the cursor.           *)
Open(c, j) ==
    /\ stream[c].pc = "off"
    /\ stream[c].job \in {"none", j}
    /\ stream' = [stream EXCEPT ![c].pc = "row", ![c].job = j]
    /\ UNCHANGED <<job, worker, waiter>>

ReadRow(c) ==
    /\ stream[c].pc = "row"
    /\ stream' = [stream EXCEPT ![c].pc = "replay",
                                ![c].shown = job[stream[c].job].status]
    /\ UNCHANGED <<job, worker, waiter>>

(* get_log: the rows after the cursor, oldest first. *)
After(j, cursor) == [i \in 1..(job[j].logs - cursor) |-> cursor + i]

(* Variant: the end is decided on a newer row than the one that was shown. *)
ReplayFresh(c) ==
    /\ stream[c].pc = "replay"
    /\ LET x == stream[c]
       IN  stream' = [stream EXCEPT ![c] =
                        [x EXCEPT !.got = @ \o After(x.job, x.cursor),
                                  !.cursor = job[x.job].logs,
                                  !.pc = IF job[x.job].status \in Terminal
                                         THEN "ended" ELSE "tail"]]
    /\ UNCHANGED <<job, worker, waiter>>

Replay(c) ==
    /\ stream[c].pc = "replay"
    /\ LET x == stream[c]
       IN  stream' = [stream EXCEPT ![c] =
                        [x EXCEPT !.got = @ \o After(x.job, x.cursor),
                                  !.cursor = job[x.job].logs,
                                  !.pc = IF x.shown \in Terminal THEN "ended"
                                         ELSE "tail"]]
    /\ UNCHANGED <<job, worker, waiter>>

(* Variant: what was replayed from job_log is sent again. *)
ShowLogTwice(x, e) ==
    IF e.event = "log" THEN [x EXCEPT !.cursor = e.id, !.got = Append(@, e.id)]
    ELSE x

(* A log event up to the cursor is skipped; progress carries nothing durable. *)
ShowLog(x, e) ==
    IF e.event = "log" /\ e.id > x.cursor
    THEN [x EXCEPT !.cursor = e.id, !.got = Append(@, e.id)]
    ELSE x

(* A status event only says that the row changed: the row is read again. *)
ShowStatus(x, e) ==
    IF e.event # "status" THEN x
    ELSE LET now == job[x.job].status
         IN  [x EXCEPT !.shown = now, !.pc = IF now \in Terminal THEN "ended" ELSE @]

Take(c) ==
    /\ stream[c].pc = "tail"
    /\ stream[c].queue # <<>>
    /\ LET e == Head(stream[c].queue)
           x == [stream[c] EXCEPT !.queue = Tail(@)]
       IN  stream' = [stream EXCEPT ![c] = ShowStatus(ShowLog(x, e), e)]
    /\ UNCHANGED <<job, worker, waiter>>

(* The connection to the client breaks; the listener and its queue go. *)
Hangup(c) ==
    /\ stream[c].pc \in {"row", "replay", "tail"}
    /\ stream[c].joins < MaxRejoin
    /\ stream' = [stream EXCEPT ![c].pc = "off", ![c].queue = <<>>,
                                ![c].joins = @ + 1]
    /\ UNCHANGED <<job, worker, waiter>>

-----------------------------------------------------------------------------
Waiting(w) == WaitRow(w) \/ WaitWake(w) \/ WaitTimeout(w)
Streaming(c) == ReadRow(c) \/ Replay(c) \/ Take(c)

Next ==
    \/ \E j \in Jobs :
        \/ Greet(j) \/ Claim(j) \/ LogRow(j) \/ Report(j) \/ CancelRow(j)
        \/ Tell(j) \/ TellFails(j)
        \/ \E s \in Terminal : FinishRow(j, s)
        \/ \E w \in Waiters : WaitListen(w, j)
        \/ \E c \in Streams : Open(c, j)
    \/ \E w \in Waiters : Waiting(w)
    \/ \E c \in Streams : Streaming(c) \/ Hangup(c)
    \/ WorkerDies \/ WorkerStarts

Spec == Init /\ [][Next]_vars

(* A call that waits and a stream that has a client go on: both are tasks   *)
(* of the event loop, and the wait has a timer.  Nothing is assumed of the  *)
(* worker or of clients.                                                    *)
FairSpec ==
    /\ Spec
    /\ \A w \in Waiters : WF_vars(Waiting(w))
    /\ \A c \in Streams : WF_vars(Streaming(c))

-----------------------------------------------------------------------------
Event == [event : {"none", "status", "log", "progress"}, id : Nat,
          status : Statuses \cup {"none"}]
JobRow == [status : Statuses, logs : Nat, live : BOOLEAN, greeted : BOOLEAN,
           pend : Event, announced : BOOLEAN]
WaitRecord == [pc : {"idle", "row", "wait", "answered"}, job : Jobs \cup {"none"},
               done : BOOLEAN, ans : {"none", "ok", "502", "504"}]
StreamRecord == [pc : {"off", "row", "replay", "tail", "ended"},
                 job : Jobs \cup {"none"}, queue : Seq(Event), cursor : Nat,
                 got : Seq(Nat), shown : Statuses \cup {"none"}, joins : Nat]

(* Type invariant, with the limit of a stream's queue. *)
TypeOK ==
    /\ job \in [Jobs -> JobRow]
    /\ worker \in [up : BOOLEAN, deaths : Nat]
    /\ waiter \in [Waiters -> WaitRecord]
    /\ stream \in [Streams -> StreamRecord]
    /\ \A c \in Streams : Len(stream[c].queue) <= QueueMax

(* A run exists only while its row is running or its end is still to be     *)
(* announced, and only inside a worker that is up; an end is announced as   *)
(* it was written and then nothing more is said of the job; an announced    *)
(* log line is in the table.                                                *)
RowOK(r) ==
    /\ r.live => \/ r.status = "running"
                 \/ r.status \in Terminal /\ r.pend = Status(r.status)
    /\ r.pend.status \in Terminal => r.pend.status = r.status
    /\ r.pend.event = "log" => r.pend.id <= r.logs
    /\ r.announced => r.status \in Terminal /\ r.pend = Silent /\ ~r.live
JobInv == \A j \in Jobs : RowOK(job[j]) /\ (job[j].live => worker.up)

(* A call that waits has a job; it is woken only when that job has ended,   *)
(* and has an answer only once it has stopped waiting.                      *)
WaitInv ==
    \A w \in Waiters : LET x == waiter[w] IN
        /\ x.pc = "idle" => ~x.done
        /\ x.pc # "idle" => x.job \in Jobs
        /\ x.done => job[x.job].status \in Terminal
        /\ x.ans # "none" => x.pc = "answered"

(* What a stream holds against the row r of its job: it is never ahead of   *)
(* the log table, nor are the log events that are queued for it, and an     *)
(* end it has shown is the one in the row.                                  *)
Behind(x, r) ==
    /\ x.cursor <= r.logs
    /\ \A i \in DOMAIN x.queue : x.queue[i].event = "log" => x.queue[i].id <= r.logs
    /\ x.shown \in Terminal => x.shown = r.status
StreamInv ==
    \A c \in Streams : LET x == stream[c] IN
        /\ x.job = "none" => x.pc = "off" /\ x.cursor = 0 /\ x.shown = "none"
        /\ x.job \in Jobs => Behind(x, job[x.job])
        /\ x.pc = "off" => x.queue = <<>>
        /\ x.pc = "ended" => x.shown \in Terminal
        /\ \A i \in DOMAIN x.got : x.got[i] <= x.cursor

(* await_job never sleeps through the end of its job: once the terminal     *)
(* status has been announced, a caller that waits has been woken, because   *)
(* it subscribed before it read the row (execute.py:98).                    *)
NoLostWakeup ==
    \A w \in Waiters :
        waiter[w].pc = "wait" /\ job[waiter[w].job].announced => waiter[w].done

(* A caller that was told how a job ended was told what the row says, now   *)
(* and for good: run_sync by its answer, the stream by its last frame.      *)
ToldTheTruth ==
    /\ \A w \in Waiters :
        /\ waiter[w].ans = "ok" => job[waiter[w].job].status = "complete"
        /\ waiter[w].ans = "502" => job[waiter[w].job].status \in {"failed", "cancelled"}
    /\ \A c \in Streams : stream[c].pc = "ended" =>
         stream[c].shown \in Terminal /\ stream[c].shown = job[stream[c].job].status

(* A client sees each log line at most once and in order, across the        *)
(* replay, the live tail, a full queue and its own reconnections.           *)
LogOnceInOrder ==
    \A c \in Streams : \A i, k \in DOMAIN stream[c].got :
        i < k => stream[c].got[i] < stream[c].got[k]

(* What holds of those who wait, in every state: the types with the limit   *)
(* of the queue, no wake-up lost, no log line twice or out of order, and    *)
(* how rows, calls and streams stand to each other, which those rest on.    *)
EventsInv ==
    /\ TypeOK /\ JobInv /\ WaitInv /\ StreamInv
    /\ NoLostWakeup /\ LogOnceInOrder

(* A stream ends once the end of its job has been announced: a queue that   *)
(* is full loses its oldest event, never the last one (events.py:76).       *)
StreamEnds ==
    \A c \in Streams, j \in Jobs :
        (Attached(c, j) /\ job[j].announced) ~> ~Attached(c, j)
=============================================================================
