----------------------------- MODULE Automations -----------------------------
(***************************************************************************)
(* Automations: rows that react to finished jobs by submitting jobs or     *)
(* sending requests (automations.py), and the worker tick that drives them *)
(* (Worker._tick_automations).                                             *)
(*                                                                         *)
(* A document is abstracted to its name, the set of workspaces its trigger *)
(* matches (the repository and workspace filters), the statuses it         *)
(* matches, and its actions: the workspace a run_workspace action runs, or *)
(* Http for an http_request.  Jobs are numbered in the order they are      *)
(* inserted.  Tickers is a singleton while WORKER_LOCK does its work;      *)
(* consider() is written to be safe with more.                             *)
(***************************************************************************)
EXTENDS Integers, Sequences, FiniteSets

CONSTANTS
    Rows,        \* ids of automations
    Documents,   \* YAML documents: [name, on, when, acts]
    Workspaces,  \* published repository/workspace pairs
    Http,        \* an http_request action
    Nobody,      \* triggered_by IS NULL
    Tickers,     \* processes running _tick_automations
    Outcomes,    \* the terminal statuses jobs end with
    NJobs,       \* bound: jobs ever submitted
    Batch        \* BATCH

ASSUME NJobsAssumption == NJobs \in Nat \ {0}
ASSUME BatchAssumption == Batch \in Nat \ {0}
ASSUME OutcomesAssumption == Outcomes \subseteq {"complete", "failed", "cancelled"}
ASSUME HttpAssumption == Http \notin Workspaces
ASSUME ActsAssumption == \A d \in Documents : d.acts \in Seq(Workspaces \cup {Http})
ASSUME NoRowAssumption == "none" \notin Rows

Jobs == 1..NJobs
Terminal == {"complete", "failed", "cancelled"}
NoRow == [state |-> "absent", enabled |-> FALSE]

VARIABLES
    row,     \* automations: absent, a document with its switch, or deleted
    job,     \* jobs: workspace, triggered_by, status
    done,    \* jobs with completed_at set, in that order
    known,   \* per job, the rows with created_at <= its completed_at
    seen,    \* jobs with automations_at set
    batch,   \* per ticker, the ids run_pending fetched and has yet to consider
    cur,     \* per ticker, the job it has claimed, 0 between jobs
    todo,    \* per ticker, the rows (as read) that are to fire on cur
    chain,   \* per ticker, the row firing and the actions it has left
    sent     \* how often each action of each row was tried for each job

vars == <<row, job, done, known, seen, batch, cur, todo, chain, sent>>
rowVars == <<row, known>>
tickVars == <<batch, cur, todo, chain>>

NoJob == [ws |-> Http, by |-> Nobody, status |-> "none"]
NoChain == [id |-> "none", name |-> Nobody, left |-> << >>]

Init ==
    /\ row = [a \in Rows |-> NoRow]
    /\ job = [j \in Jobs |-> NoJob]
    /\ done = << >>
    /\ known = [j \in Jobs |-> {}]
    /\ seen = {}
    /\ batch = [t \in Tickers |-> {}]
    /\ cur = [t \in Tickers |-> 0]
    /\ todo = [t \in Tickers |-> {}]
    /\ chain = [t \in Tickers |-> NoChain]
    /\ sent = [j \in Jobs |-> [a \in Rows |-> 0]]

-----------------------------------------------------------------------------
(* Authoring.                                                                 *)

(* _reject_self_trigger, inside parse *)
SelfTriggers(d) == \E i \in DOMAIN d.acts : d.acts[i] \in d.on

Stored(a) == row[a].state = "stored"
NameFree(a, d) == \A b \in Rows \ {a} : Stored(b) => row[b].doc.name # d.name

Create(a, d, on) ==
    /\ row[a].state = "absent"
    /\ ~SelfTriggers(d)
    /\ NameFree(a, d)
    /\ row' = [row EXCEPT ![a] = [state |-> "stored", enabled |-> on, doc |-> d]]
    /\ UNCHANGED <<job, done, known, seen, tickVars, sent>>

Replace(a, d, on) ==
    /\ Stored(a)
    /\ ~SelfTriggers(d)
    /\ NameFree(a, d)
    /\ row' = [row EXCEPT ![a] = [state |-> "stored", enabled |-> on, doc |-> d]]
    /\ UNCHANGED <<job, done, known, seen, tickVars, sent>>

SetEnabled(a, on) ==
    /\ Stored(a)
    /\ row' = [row EXCEPT ![a].enabled = on]
    /\ UNCHANGED <<job, done, known, seen, tickVars, sent>>

(* Variant: the row is only marked. *)
DeleteMarked(a) ==
    /\ Stored(a)
    /\ row' = [row EXCEPT ![a].state = "deleted"]
    /\ UNCHANGED <<job, done, known, seen, tickVars, sent>>

Delete(a) ==
    /\ Stored(a)
    /\ row' = [row EXCEPT ![a] = [state |-> "deleted", enabled |-> FALSE]]
    /\ UNCHANGED <<job, done, known, seen, tickVars, sent>>

-----------------------------------------------------------------------------
(* Jobs come and go outside this component (JobEngine).                       *)

Free == {j \in Jobs : job[j].status = "none"}
Insert(w, by) ==
    \E n \in Free :
        /\ \A k \in Free : n <= k
        /\ job' = [job EXCEPT ![n] = [ws |-> w, by |-> by, status |-> "active"]]

SubmitByUser(w) ==
    /\ Insert(w, Nobody)
    /\ UNCHANGED <<row, done, known, seen, tickVars, sent>>

Complete(j, s) ==
    /\ job[j].status = "active"
    /\ job' = [job EXCEPT ![j].status = s]
    /\ done' = Append(done, j)
    /\ known' = [known EXCEPT ![j] = {a \in Rows : Stored(a)}]
    /\ UNCHANGED <<row, seen, tickVars, sent>>

-----------------------------------------------------------------------------
(* The tick.                                                                  *)

Idle(t) == batch[t] = {} /\ cur[t] = 0

Unseen(j) == j \notin seen

(* ORDER BY completed_at *)
Before(j, k) == \E i \in DOMAIN done : \E m \in DOMAIN done :
                    i < m /\ done[i] = j /\ done[m] = k

Finished == {done[i] : i \in DOMAIN done}
Pending == {j \in Finished : Unseen(j)}

(* LIMIT BATCH *)
Oldest(S) == {j \in S : Cardinality({k \in S : Before(k, j)}) < Batch}

(* Variant: the limit is applied before automations_at IS NULL. *)
RunPendingLimitFirst(t) ==
    /\ Idle(t)
    /\ batch' = [batch EXCEPT ![t] = {j \in Oldest(Finished) : Unseen(j)}]
    /\ batch'[t] # {}
    /\ UNCHANGED <<row, job, done, known, seen, cur, todo, chain, sent>>

(* SELECT ... WHERE automations_at IS NULL ORDER BY completed_at LIMIT BATCH *)
RunPending(t) ==
    /\ Idle(t)
    /\ Pending # {}
    /\ batch' = [batch EXCEPT ![t] = Oldest(Pending)]
    /\ UNCHANGED <<row, job, done, known, seen, cur, todo, chain, sent>>

(* The ids are considered in the order they were fetched in. *)
FirstOf(S, j) == j \in S /\ \A k \in S \ {j} : Before(j, k)

(* Variant: the WHERE clause of run_pending is trusted. *)
ConsiderUnclaimed(t) ==
    /\ cur[t] = 0
    /\ \E j \in batch[t] :
        /\ FirstOf(batch[t], j)
        /\ batch' = [batch EXCEPT ![t] = @ \ {j}]
        /\ seen' = seen \cup {j}
        /\ cur' = [cur EXCEPT ![t] = j]
    /\ UNCHANGED <<row, job, done, known, todo, chain, sent>>

(* consider: the row is terminal already; the UPDATE claims it or passes. *)
Consider(t) ==
    /\ cur[t] = 0
    /\ \E j \in batch[t] :
        /\ FirstOf(batch[t], j)
        /\ batch' = [batch EXCEPT ![t] = @ \ {j}]
        /\ seen' = seen \cup {j}
        /\ cur' = [cur EXCEPT ![t] = IF Unseen(j) THEN j ELSE 0]
    /\ UNCHANGED <<row, job, done, known, todo, chain, sent>>

Matches(d, j) == job[j].ws \in d.on /\ job[j].status \in d.when

(* Variant: no runtime loop guard. *)
NeverLoops(name, j) == FALSE /\ job[j].by = name

WouldLoop(name, j) == job[j].by = name

(* Variant: without created_at <= completed_at. *)
EligibleEver(j) == {a \in Rows : Stored(a) /\ row[a].enabled /\ j \in Jobs}

(* WHERE enabled AND created_at <= $1 *)
Eligible(j) == {a \in Rows : Stored(a) /\ row[a].enabled /\ a \in known[j]}

(* The rows are read once; edits made after this are not seen for cur. *)
Fetch(t) ==
    /\ cur[t] # 0
    /\ todo[t] = {}
    /\ chain[t] = NoChain
    /\ LET firing == {a \in Eligible(cur[t]) :
                        /\ Matches(row[a].doc, cur[t])
                        /\ ~WouldLoop(row[a].doc.name, cur[t])}
       IN  /\ todo' = [todo EXCEPT ![t] =
                         {[id |-> a, name |-> row[a].doc.name,
                           left |-> row[a].doc.acts] : a \in firing}]
           /\ cur' = [cur EXCEPT ![t] = IF firing = {} THEN 0 ELSE @]
    /\ UNCHANGED <<row, job, done, known, seen, batch, chain, sent>>

Fire(t) ==
    /\ chain[t] = NoChain
    /\ \E x \in todo[t] :
        /\ chain' = [chain EXCEPT ![t] = x]
        /\ todo' = [todo EXCEPT ![t] = @ \ {x}]
    /\ UNCHANGED <<row, job, done, known, seen, batch, cur, sent>>

(* One action: a submission that is accepted, or one that is refused (the      *)
(* workspace is gone) or a request with any outcome; either way the next       *)
(* action follows.                                                             *)
Perform(t) ==
    /\ chain[t].left # << >>
    /\ LET act == Head(chain[t].left) IN
        \/ act # Http /\ Insert(act, chain[t].name)
        \/ UNCHANGED job
    /\ chain' = [chain EXCEPT ![t].left = Tail(@)]
    /\ sent' = [sent EXCEPT ![cur[t]][chain[t].id] = @ + 1]
    /\ UNCHANGED <<row, done, known, seen, batch, cur, todo>>

(* INSERT INTO automation_runs, whose foreign key is the automation. *)
Record(t) ==
    /\ chain[t] # NoChain
    /\ chain[t].left = << >>
    /\ Stored(chain[t].id)
    /\ chain' = [chain EXCEPT ![t] = NoChain]
    /\ cur' = [cur EXCEPT ![t] = IF todo[t] = {} THEN 0 ELSE @]
    /\ UNCHANGED <<row, job, done, known, seen, batch, todo, sent>>

Abandon(t) ==
    /\ batch' = [batch EXCEPT ![t] = {}]
    /\ cur' = [cur EXCEPT ![t] = 0]
    /\ todo' = [todo EXCEPT ![t] = {}]
    /\ chain' = [chain EXCEPT ![t] = NoChain]
    /\ UNCHANGED <<row, job, done, known, seen, sent>>

(* The row was deleted meanwhile: the INSERT raises out of run_pending, and    *)
(* _tick_automations swallows it.                                              *)
RecordFails(t) ==
    /\ chain[t] # NoChain
    /\ chain[t].left = << >>
    /\ ~Stored(chain[t].id)
    /\ Abandon(t)

(* The worker dies: what it had fetched and claimed is forgotten. *)
Crash(t) ==
    /\ ~Idle(t)
    /\ Abandon(t)

-----------------------------------------------------------------------------
Author ==
    \E a \in Rows :
        \/ \E d \in Documents, on \in BOOLEAN : Create(a, d, on) \/ Replace(a, d, on)
        \/ \E on \in BOOLEAN : SetEnabled(a, on)
        \/ Delete(a)

Outside ==
    \/ \E w \in Workspaces : SubmitByUser(w)
    \/ \E j \in Jobs, s \in Outcomes : Complete(j, s)

Tick(t) ==
    \/ RunPending(t) \/ Consider(t) \/ Fetch(t) \/ Fire(t) \/ Perform(t)
    \/ Record(t) \/ RecordFails(t)

Next == Author \/ Outside \/ \E t \in Tickers : Tick(t) \/ Crash(t)

Spec == Init /\ [][Next]_vars

(* The worker loop ticks at least every POLL_SECONDS. *)
FairSpec == Spec /\ \A t \in Tickers : WF_vars(Tick(t))

-----------------------------------------------------------------------------
Acts == Workspaces \cup {Http}
Names == {d.name : d \in Documents} \cup {Nobody}
StoredRow == [state : {"stored"}, enabled : BOOLEAN, doc : Documents]
GoneRow == [state : {"absent", "deleted"}, enabled : {FALSE}]
JobRow == [ws : Acts, by : Names, status : {"none", "active"} \cup Terminal]
Chain == [id : Rows \cup {"none"}, name : Names, left : Seq(Acts)]

(* Type invariant. *)
TypeOK ==
    /\ row \in [Rows -> GoneRow \cup StoredRow]
    /\ job \in [Jobs -> JobRow]
    /\ done \in Seq(Jobs)
    /\ known \in [Jobs -> SUBSET Rows]
    /\ seen \subseteq Jobs
    /\ batch \in [Tickers -> SUBSET Jobs]
    /\ cur \in [Tickers -> Jobs \cup {0}]
    /\ todo \in [Tickers -> SUBSET Chain]
    /\ chain \in [Tickers -> Chain]
    /\ sent \in [Jobs -> [Rows -> Nat]]

(* Only finished jobs are fetched and claimed, and a tick has chains only   *)
(* for the job that it has claimed.                                         *)
Ended(j) == job[j].status \in Terminal
Claims(t) ==
    /\ \A j \in batch[t] : Ended(j)
    /\ cur[t] # 0 => cur[t] \in seen
    /\ cur[t] = 0 => todo[t] = {} /\ chain[t] = NoChain
TickInv ==
    /\ \A i \in DOMAIN done : Ended(done[i])
    /\ \A j \in seen : Ended(j)
    /\ \A t \in Tickers : Claims(t)

(* A chain x may fire on job j: it knew of j, and did not submit it. *)
MayFire(x, j) == x.id \in Rows /\ x.id \in known[j] /\ job[j].by # x.name

(* The account of the actions tried for a claimed job c, with the chains T  *)
(* still to fire and the chain y that fires: none before the rows are read, *)
(* none for a row in T, and for y those that it has not left.               *)
Account(c, T, y) ==
    /\ T = {} /\ y = NoChain => \A a \in Rows : sent[c][a] = 0
    /\ \A x \in T :
        /\ MayFire(x, c)
        /\ x.id # y.id
        /\ sent[c][x.id] = 0
        /\ \E d \in Documents : x.left = d.acts
        /\ \A z \in T : z.id = x.id => z = x
    /\ y # NoChain =>
        /\ MayFire(y, c)
        /\ \E d \in Documents : sent[c][y.id] + Len(y.left) = Len(d.acts)
LedgerInv ==
    /\ \A j \in Jobs \ seen : \A a \in Rows : sent[j][a] = 0
    /\ \A t \in Tickers : cur[t] # 0 => Account(cur[t], todo[t], chain[t])

(* automations.py consider: "deliberately at-most-once".  Through crashes,     *)
(* edits and concurrent ticks, an automation's chain is performed at most once *)
(* per job: no job sees more attempts than the longest chain has actions, and  *)
(* no two ticks work on one job.                                               *)
AtMostOnce ==
    /\ \A s, t \in Tickers : cur[s] # 0 /\ cur[s] = cur[t] => s = t
    /\ \A j \in Jobs, a \in Rows :
        sent[j][a] > 0 => \E d \in Documents : sent[j][a] <= Len(d.acts)

(* automations.py consider: an automation never delivers for a job that had    *)
(* finished before it was written, however late the job is considered.         *)
NoRetroactive ==
    \A j \in Jobs, a \in Rows : sent[j][a] > 0 => a \in known[j]

(* automations.py header: "a job an automation caused never re-fires that same *)
(* automation" -- nothing fires on a job submitted under its own name, also    *)
(* when its document was edited between that submission and its completion.    *)
NoDirectLoop ==
    \A t \in Tickers : chain[t] # NoChain => job[cur[t]].by # chain[t].name

(* What holds in every state of the tick: the types, nothing delivered for  *)
(* a job older than the automation, no automation at work on a job of its   *)
(* own, and the account of the actions, which these rest on.                *)
AutomationsInv == TypeOK /\ TickInv /\ LedgerInv /\ NoRetroactive /\ NoDirectLoop

Quiet == <>[][\A t \in Tickers : ~Crash(t)]_vars

(* automations.py run_pending: a finished job is eventually considered,        *)
(* however often workers die and ticks are abandoned before that.              *)
EventuallyConsidered ==
    Quiet => \A j \in Jobs : job[j].status \in Terminal ~> j \in seen
=============================================================================
