----------------------------- MODULE Submission -----------------------------
(***************************************************************************)
(* Submitting jobs through the API and listing them: the job endpoints of  *)
(* api.py, jobs.submit and submit_idempotent, run_sync up to its wait      *)
(* (execute.py; JobEvents has the wait), uploads.py.                       *)
(*                                                                         *)
(* Each statement against the database is a step, and the process or the   *)
(* connection of a request may die between any two.  Job ids are numbered  *)
(* in the order of the commits: an id that was rolled back was never seen. *)
(***************************************************************************)
EXTENDS Integers, Sequences, FiniteSets

CONSTANTS
    Requests,   \* HTTP requests that submit; each is sent once
    Keys,       \* values of the Idempotency-Key header
    Accounts,   \* submitted_by
    Repos,      \* repositories jobs are submitted to
    Scope,      \* the repositories the reader of the job list may see
    Services,   \* per repository, the services its workspace publishes
    Limit       \* the page size of the job list

ASSUME LimitAssumption == Limit \in Nat \ {0}
ASSUME ScopeAssumption == Scope \subseteq Repos

VARIABLES
    jobs,      \* the committed rows, a sequence indexed by job id
    keys,      \* idempotency_keys: per key and account the job, or 0
    up,        \* whether some process holds the worker lock
    req,       \* per request: step, kind, operands, answer
    files,     \* uploads stored, named by the request that stored them
    page       \* the job list: step, repositories read, rows returned

vars == <<jobs, keys, up, req, files, page>>

NoKey == "nokey"
NoFile == "nofile"
Ids == 1..Len(jobs)
NoRequest == [pc |-> "idle", kind |-> "none", key |-> NoKey, account |-> "none",
              repo |-> "none", file |-> NoFile, job |-> 0, ans |-> "none"]
NoPage == [pc |-> "idle", allowed |-> {}, before |-> {}, rows |-> {}]

ASSUME NoKeyAssumption == NoKey \notin Keys
ASSUME NoFileAssumption == NoFile \notin Requests

Init ==
    /\ jobs = <<>>
    /\ keys = [x \in Keys \X Accounts |-> 0]
    /\ up = FALSE
    /\ req = [q \in Requests |-> NoRequest]
    /\ files = {}
    /\ page = NoPage

Move(q, r) == req' = [req EXCEPT ![q] = r]
Answer(q, a) == Move(q, [req[q] EXCEPT !.pc = "done", !.ans = a])

-----------------------------------------------------------------------------
(* manifest_for: a service the workspace does not publish is refused. *)
ServiceOf(kind) == IF kind = "submit" THEN "job_submitter" ELSE "data_upload"
Published(service, r) == service \in Services[r]

(* submit, and data_upload up to its files: the manifest is looked at first. *)
Begin(q, kind, k, a, r) ==
    /\ req[q].pc = "idle"
    /\ LET x == [req[q] EXCEPT !.kind = kind, !.key = k, !.account = a, !.repo = r]
       IN  Move(q, IF Published(ServiceOf(kind), r)
                   THEN [x EXCEPT !.pc = IF kind = "upload" THEN "save" ELSE "lookup"]
                   ELSE [x EXCEPT !.pc = "done", !.ans = "404"])
    /\ UNCHANGED <<jobs, keys, up, files, page>>

(* data_streaming, data_download: run_sync has no key, and wants a worker. *)
BeginSync(q, service, a, r) ==
    /\ req[q].pc = "idle"
    /\ LET x == [req[q] EXCEPT !.kind = "sync", !.account = a, !.repo = r]
       IN  Move(q, CASE ~Published(service, r) -> [x EXCEPT !.pc = "done", !.ans = "404"]
                     [] Published(service, r) /\ ~up -> [x EXCEPT !.pc = "done", !.ans = "503"]
                     [] OTHER -> [x EXCEPT !.pc = "lookup"])
    /\ UNCHANGED <<jobs, keys, up, files, page>>

(* resubmit_job: the parameters of the row, by whoever asks, without a key. *)
Resubmit(q, j, a) ==
    /\ req[q].pc = "idle"
    /\ j \in Ids
    /\ Move(q, [req[q] EXCEPT !.kind = "resubmit", !.account = a, !.pc = "lookup",
                              !.repo = jobs[j].repo, !.file = jobs[j].file])
    /\ UNCHANGED <<jobs, keys, up, files, page>>

(* data_upload stores each file under a fresh id before it submits.  A      *)
(* file that is too large refuses the request and leaves those before it.   *)
SaveFile(q) ==
    /\ req[q].pc = "save"
    /\ \/ /\ files' = files \cup {q}
          /\ Move(q, [req[q] EXCEPT !.pc = "lookup", !.file = q])
       \/ /\ files' \in {files, files \cup {q}}
          /\ Answer(q, "413")
    /\ UNCHANGED <<jobs, keys, up, page>>

-----------------------------------------------------------------------------
(* jobs.submit: the published manifest and the parameters, then the key. *)

Invalid(q) ==
    /\ req[q].pc = "lookup"
    /\ Answer(q, "400")
    /\ UNCHANGED <<jobs, keys, up, files, page>>

(* _existing_for_key *)
Existing(x) == IF x.key = NoKey THEN 0 ELSE keys[<<x.key, x.account>>]

Lookup(q) ==
    /\ req[q].pc = "lookup"
    /\ Move(q, IF Existing(req[q]) # 0
               THEN [req[q] EXCEPT !.pc = "done", !.ans = "202", !.job = Existing(req[q])]
               ELSE [req[q] EXCEPT !.pc = "insert"])
    /\ UNCHANGED <<jobs, keys, up, files, page>>

(* Variant: a transaction whose process died is never rolled back. *)
KeyHeldForGood(q) ==
    \E p \in Requests \ {q} : /\ req[p].pc = "commit" \/ req[p].ans = "lost"
                              /\ req[q].key # NoKey /\ Existing(req[q]) = 0
                              /\ req[p].key = req[q].key

(* Another transaction has inserted the key and has not ended. *)
KeyHeld(q) ==
    \E p \in Requests \ {q} : /\ req[p].pc = "commit" /\ req[q].key # NoKey
                              /\ req[p].key = req[q].key
                              /\ req[p].account = req[q].account

(* Variant: the conflict goes unnoticed and the transaction commits. *)
InsertBlind(q) ==
    /\ req[q].pc = "insert"
    /\ ~KeyHeld(q)
    /\ Move(q, [req[q] EXCEPT !.pc = "commit"])
    /\ UNCHANGED <<jobs, keys, up, files, page>>

(* INSERT jobs, INSERT idempotency_keys ... ON CONFLICT DO NOTHING: waits   *)
(* for an uncommitted insert of the same key; a key that is taken by then   *)
(* raises _KeyRace, which rolls the job back.                               *)
Insert(q) ==
    /\ req[q].pc = "insert"
    /\ ~KeyHeld(q)
    /\ Move(q, [req[q] EXCEPT !.pc = IF Existing(req[q]) # 0 THEN "race" ELSE "commit"])
    /\ UNCHANGED <<jobs, keys, up, files, page>>

(* Variant: the answer names the next job. *)
CommitOff(q) ==
    /\ req[q].pc = "commit"
    /\ jobs' = Append(jobs, [repo |-> req[q].repo, file |-> req[q].file,
                             key |-> req[q].key, account |-> req[q].account])
    /\ Move(q, [req[q] EXCEPT !.pc = "announce", !.job = Len(jobs) + 2])
    /\ UNCHANGED <<keys, up, files, page>>

Commit(q) ==
    /\ req[q].pc = "commit"
    /\ jobs' = Append(jobs, [repo |-> req[q].repo, file |-> req[q].file,
                             key |-> req[q].key, account |-> req[q].account])
    /\ keys' = IF req[q].key = NoKey THEN keys
               ELSE [keys EXCEPT ![<<req[q].key, req[q].account>>] = Len(jobs) + 1]
    /\ Move(q, [req[q] EXCEPT !.pc = "announce", !.job = Len(jobs) + 1])
    /\ UNCHANGED <<up, files, page>>

(* submit_idempotent: the loser answers with the winner's job. *)
ResolveRace(q) ==
    /\ req[q].pc = "race"
    /\ Move(q, [req[q] EXCEPT !.pc = "done", !.job = Existing(req[q]),
                              !.ans = IF Existing(req[q]) # 0 THEN "202" ELSE "400"])
    /\ UNCHANGED <<jobs, keys, up, files, page>>

(* notify, after the transaction; run_sync then waits (JobEvents). *)
Announce(q) ==
    /\ req[q].pc = "announce"
    /\ Answer(q, "202")
    /\ UNCHANGED <<jobs, keys, up, files, page>>

(* Variant: the file goes with the request that brought it. *)
DropClean(q) ==
    /\ req[q].pc \notin {"idle", "done"}
    /\ Answer(q, "lost")
    /\ files' = files \ {q}
    /\ UNCHANGED <<jobs, keys, up, page>>

(* The process or its connection dies: an open transaction rolls back, what *)
(* is committed stays, and the client has no answer and may ask again.      *)
Drop(q) ==
    /\ req[q].pc \notin {"idle", "done"}
    /\ Answer(q, "lost")
    /\ UNCHANGED <<jobs, keys, up, files, page>>

(* worker_is_running reads pg_locks; workers come and go. *)
WorkerToggles ==
    /\ up' = ~up
    /\ UNCHANGED <<jobs, keys, req, files, page>>

-----------------------------------------------------------------------------
(* list_jobs for a reader confined to Scope: the repositories that occur in *)
(* jobs are read first, the page second.                                    *)

ListBegin ==
    /\ page.pc = "idle"
    /\ LET allowed == IF Scope = Repos THEN Repos
                      ELSE {jobs[j].repo : j \in Ids} \cap Scope
       IN  page' = [page EXCEPT !.pc = IF allowed = {} THEN "done" ELSE "rows",
                                !.allowed = allowed,
                                !.before = {j \in Ids : jobs[j].repo \in Scope}]
    /\ UNCHANGED <<jobs, keys, up, req, files>>

Newest(S, n) == {j \in S : Cardinality({i \in S : i > j}) < n}

(* Variant: LIMIT first, the filter on what is left. *)
PageOfLimited(allowed) == {j \in Newest(Ids, Limit) : jobs[j].repo \in allowed}

(* ORDER BY submitted_at DESC LIMIT, after the filter. *)
PageOf(allowed) == Newest({j \in Ids : jobs[j].repo \in allowed}, Limit)

ListRows ==
    /\ page.pc = "rows"
    /\ page' = [page EXCEPT !.pc = "done", !.rows = PageOf(page.allowed)]
    /\ UNCHANGED <<jobs, keys, up, req, files>>

-----------------------------------------------------------------------------
Serve(q) ==
    \/ SaveFile(q) \/ Invalid(q) \/ Lookup(q) \/ Insert(q) \/ Commit(q)
    \/ ResolveRace(q) \/ Announce(q)

Next ==
    \/ \E q \in Requests :
        \/ Serve(q) \/ Drop(q)
        \/ \E a \in Accounts, r \in Repos :
              \/ \E kind \in {"submit", "upload"}, k \in Keys \cup {NoKey} :
                     Begin(q, kind, k, a, r)
              \/ \E service \in {"data_streaming", "data_download"} :
                     BeginSync(q, service, a, r)
        \/ \E j \in Ids, a \in Accounts : Resubmit(q, j, a)
    \/ WorkerToggles
    \/ ListBegin \/ ListRows

Spec == Init /\ [][Next]_vars

(* A request that is being served goes on. *)
FairSpec == Spec /\ \A q \in Requests : WF_vars(Serve(q))

-----------------------------------------------------------------------------
JobRow == [repo : Repos, file : Requests \cup {NoFile}, key : Keys \cup {NoKey},
           account : Accounts]
RequestRow(n) ==
    [pc : {"idle", "save", "lookup", "insert", "commit", "race", "announce", "done"},
     kind : {"none", "submit", "upload", "sync", "resubmit"}, key : Keys \cup {NoKey},
     account : Accounts \cup {"none"}, repo : Repos \cup {"none"},
     file : Requests \cup {NoFile}, job : 0..n,
     ans : {"none", "202", "400", "404", "413", "503", "lost"}]

(* Rows, requests and the page have their types; a request that has begun   *)
(* has an account and a repository.                                         *)
TypeOK ==
    /\ jobs \in Seq(JobRow)
    /\ keys \in [Keys \X Accounts -> 0..Len(jobs)]
    /\ up \in BOOLEAN
    /\ req \in [Requests -> RequestRow(Len(jobs))]
    /\ \A q \in Requests : IF req[q].pc = "idle" THEN req[q] = NoRequest
                           ELSE req[q].account \in Accounts /\ req[q].repo \in Repos
    /\ files \subseteq Requests
    /\ page \in [pc : {"idle", "rows", "done"}, allowed : SUBSET Repos,
                 before : SUBSET Ids, rows : SUBSET Ids]

(* One job per idempotency key and account, whatever order two submissions, *)
(* a lost answer and a repeated request come in: the loser of a race leaves *)
(* no job behind, and every answer names the key's job (jobs.py:123-139).   *)
OneJobPerKey ==
    /\ \A j \in Ids : jobs[j].key # NoKey => keys[<<jobs[j].key, jobs[j].account>>] = j
    /\ \A q \in Requests : req[q].ans = "202" /\ req[q].key # NoKey =>
         /\ req[q].job = keys[<<req[q].key, req[q].account>>]
         /\ jobs[req[q].job].account = req[q].account

(* The key a request carries, of its account: who has inserted it and who   *)
(* answers for it.  A transaction in progress is the only one that has it,  *)
(* and from its commit the key names a job made for it.                     *)
KeyInv ==
    /\ \A k \in Keys, a \in Accounts : keys[<<k, a>>] # 0 =>
          jobs[keys[<<k, a>>]].key = k /\ jobs[keys[<<k, a>>]].account = a
    /\ \A q \in Requests : req[q].pc = "commit" => Existing(req[q]) = 0 /\ ~KeyHeld(q)
    /\ \A q \in Requests : req[q].pc = "race" => Existing(req[q]) # 0
    /\ \A q \in Requests :
          (req[q].pc = "announce" \/ req[q].ans = "202") /\ req[q].key # NoKey =>
              Existing(req[q]) # 0 /\ req[q].job = Existing(req[q])

(* A job that names an upload finds it when it runs, although the request   *)
(* that stored the file may have died, and also when the job is one that    *)
(* was submitted again from an older one.                                   *)
UploadsKept ==
    /\ \A j \in Ids : jobs[j].file = NoFile \/ jobs[j].file \in files
    /\ \A q \in Requests : req[q].file = NoFile \/ req[q].file \in files

(* The job list of a scoped reader is the newest page of what it may see:   *)
(* nothing outside its scope, and a job that was there when the request     *)
(* began is missing only if a full page of newer ones is shown.             *)
ListingComplete ==
    /\ page.allowed \subseteq Scope
    /\ page.pc # "done" => page.rows = {}
    /\ page.pc = "rows" => \A j \in page.before : jobs[j].repo \in page.allowed
    /\ page.pc = "done" =>
          /\ \A j \in page.rows : jobs[j].repo \in Scope
          /\ \A j \in page.before \ page.rows :
                Cardinality({i \in page.rows : i > j}) >= Limit

(* What readers of the rows rely on: the types, a job finds its upload, and *)
(* the list of a scoped reader is complete; and what submitters do: keys.   *)
SubmissionInv == TypeOK /\ KeyInv /\ UploadsKept /\ ListingComplete

(* Every submission is answered: a transaction that waits for another's key *)
(* is released by its commit, its rollback or its death.                    *)
Answered ==
    \A q \in Requests : req[q].pc \notin {"idle", "done"} ~> req[q].pc = "done"
=============================================================================
