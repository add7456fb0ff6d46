------------------------------- MODULE Hosting -------------------------------
(***************************************************************************)
(* How a workspace directory becomes a published workspace and a run of it *)
(* a URL: `repository sync` (repository.py) with the publish gate          *)
(* (publish.py), and the jobs that register hosted services (services.py). *)
(*                                                                         *)
(* A directory is absent, broken (it does not load, or its documentation,  *)
(* connections or smoke test are refused), or good with the names of the   *)
(* service outputs that its manifest declares.  A job's service            *)
(* directories are one tree: not there, being copied, or whole.            *)
(***************************************************************************)
EXTENDS Integers, FiniteSets

CONSTANTS
    Workspaces,   \* repository/workspace pairs
    Names,        \* service names, the URL segment
    Syncs,        \* concurrent runs of sync
    NJobs,        \* bound: jobs
    NEdits,       \* bound: edits of directories
    Nobody

ASSUME JobsAssumption == NJobs \in Nat /\ NEdits \in Nat
ASSUME NobodyAssumption == Nobody \notin Workspaces

Jobs == 1..NJobs

VARIABLES
    disk,    \* the directories
    edits,   \* how many edits were made
    pub,     \* workspaces: none, or the published manifest
    host,    \* hosted_services: owner and source_job by name
    sync,    \* the runs of sync
    gone,    \* per sync, the directories missing at some time since its scan
    job,     \* jobs: workspace, status, declared names, names to register
    tree     \* per job, its service directories under the artifact directory

vars == <<disk, edits, pub, host, sync, gone, job, tree>>

Absent == [kind |-> "absent", outs |-> {}]
Broken == [kind |-> "broken", outs |-> {}]
Good(S) == [kind |-> "good", outs |-> S]
Directories == {Absent, Broken} \cup {Good(S) : S \in SUBSET Names}
NoHost == [ws |-> Nobody, job |-> 0]
NoSync == [pc |-> "idle", read |-> [w \in Workspaces |-> Absent], left |-> {},
           loaded |-> {}, stale |-> {}, prune |-> FALSE]
NoJob == [ws |-> Nobody, st |-> "none", outs |-> {}, left |-> {}]

Published(w) == pub[w].kind = "good"

Init ==
    /\ disk = [w \in Workspaces |-> Absent]
    /\ edits = 0
    /\ pub = [w \in Workspaces |-> Absent]
    /\ host = [n \in Names |-> NoHost]
    /\ sync = [s \in Syncs |-> NoSync]
    /\ gone = [s \in Syncs |-> {}]
    /\ job = [j \in Jobs |-> NoJob]
    /\ tree = [j \in Jobs |-> "none"]

(* An author adds, changes or removes a directory. *)
Edit(w, d) ==
    /\ edits < NEdits
    /\ d # disk[w]
    /\ disk' = [disk EXCEPT ![w] = d]
    /\ edits' = edits + 1
    /\ gone' = [s \in Syncs |-> IF d = Absent THEN gone[s] \cup {w} ELSE gone[s]]
    /\ UNCHANGED <<pub, host, sync, job, tree>>

-----------------------------------------------------------------------------
(* sync                                                                        *)

(* Variant: every directory is taken. *)
LoadsAnything(d) == d.kind # "absent"

Loads(d) == d.kind = "good"

(* scan: every directory is loaded or reported. *)
Scan(s, prune) ==
    /\ sync[s].pc = "idle"
    /\ sync' = [sync EXCEPT ![s] = [NoSync EXCEPT !.pc = "scanned", !.prune = prune,
                  !.read = disk, !.left = {w \in Workspaces : Loads(disk[w])}]]
    /\ gone' = [gone EXCEPT ![s] = {w \in Workspaces : disk[w] = Absent}]
    /\ UNCHANGED <<disk, edits, pub, host, job, tree>>

(* Variant: stale is what did not load. *)
StaleByLoading(s) == {w \in Workspaces : Published(w) /\ w \notin sync[s].left}

(* _find_stale: published, and not on disk now, whether or not it loaded. *)
Stale(s) == {w \in Workspaces : Published(w) /\ s \in Syncs /\ disk[w] = Absent}

FindStale(s) ==
    /\ sync[s].pc = "scanned"
    /\ sync' = [sync EXCEPT ![s].pc = "gate", ![s].stale = Stale(s)]
    /\ UNCHANGED <<disk, edits, pub, host, gone, job, tree>>

(* check_services: every name is free or already this workspace's. *)
NamesFree(w, S) == \A n \in S : host[n].ws \in {w, Nobody}

GatePasses(s, w) ==
    /\ sync[s].pc = "gate"
    /\ w \in sync[s].left
    /\ NamesFree(w, sync[s].read[w].outs)
    /\ sync' = [sync EXCEPT ![s].left = @ \ {w}, ![s].loaded = @ \cup {w}]
    /\ UNCHANGED <<disk, edits, pub, host, gone, job, tree>>

(* A name that is taken, or a connection or a smoke test that fails. *)
GateRefuses(s, w) ==
    /\ sync[s].pc = "gate"
    /\ w \in sync[s].left
    /\ sync' = [sync EXCEPT ![s].left = @ \ {w}]
    /\ UNCHANGED <<disk, edits, pub, host, gone, job, tree>>

(* One transaction: _upsert what passed, then prune what is stale. *)
Apply(s) ==
    /\ sync[s].pc = "gate"
    /\ sync[s].left = {}
    /\ LET pruned == IF sync[s].prune THEN sync[s].stale ELSE {}
       IN  /\ pub' = [w \in Workspaces |->
                        IF w \in pruned THEN Absent
                        ELSE IF w \in sync[s].loaded THEN sync[s].read[w]
                        ELSE pub[w]]
           /\ host' = [n \in Names |-> IF host[n].ws \in pruned THEN NoHost ELSE host[n]]
    /\ sync' = [sync EXCEPT ![s] = NoSync]
    /\ gone' = [gone EXCEPT ![s] = {}]
    /\ UNCHANGED <<disk, edits, job, tree>>

(* --dry-run, or the command is stopped. *)
EndsUnapplied(s) ==
    /\ sync[s].pc # "idle"
    /\ sync' = [sync EXCEPT ![s] = NoSync]
    /\ gone' = [gone EXCEPT ![s] = {}]
    /\ UNCHANGED <<disk, edits, pub, host, job, tree>>

-----------------------------------------------------------------------------
(* Jobs, as far as hosting needs them (JobEngine and Runner have the rest).    *)

Set(j, r) == job' = [job EXCEPT ![j] = r]

Submit(j, w) ==
    /\ job[j] = NoJob
    /\ Published(w)
    /\ Set(j, [NoJob EXCEPT !.ws = w, !.st = "queued"])
    /\ UNCHANGED <<disk, edits, pub, host, sync, gone, tree>>

(* load_manifest_for: the workspace may have been unpublished meanwhile. *)
Start(j) ==
    /\ job[j].st = "queued"
    /\ \/ /\ Published(job[j].ws)
          /\ Set(j, [job[j] EXCEPT !.st = "running", !.outs = pub[job[j].ws].outs])
       \/ /\ ~Published(job[j].ws)
          /\ Set(j, [job[j] EXCEPT !.st = "failed"])
    /\ UNCHANGED <<disk, edits, pub, host, sync, gone, tree>>

RunFails(j) ==
    /\ job[j].st = "running"
    /\ Set(j, [job[j] EXCEPT !.st = "failed"])
    /\ UNCHANGED <<disk, edits, pub, host, sync, gone, tree>>

(* Variant: copytree(..., dirs_exist_ok=True). *)
CopyOver(j) ==
    /\ job[j].st = "running" /\ job[j].outs # {}
    /\ tree' = [tree EXCEPT ![j] = "part"]
    /\ Set(j, [job[j] EXCEPT !.st = "copying"])
    /\ UNCHANGED <<disk, edits, pub, host, sync, gone>>

(* child._store: copytree raises if an earlier execution left the directory. *)
Copy(j) ==
    /\ job[j].st = "running" /\ job[j].outs # {}
    /\ \/ /\ tree[j] = "none"
          /\ tree' = [tree EXCEPT ![j] = "part"]
          /\ Set(j, [job[j] EXCEPT !.st = "copying"])
       \/ /\ tree[j] # "none"
          /\ Set(j, [job[j] EXCEPT !.st = "failed"])
          /\ UNCHANGED tree
    /\ UNCHANGED <<disk, edits, pub, host, sync, gone>>

RunCompletes(j) ==
    /\ job[j].st = "copying" \/ (job[j].st = "running" /\ job[j].outs = {})
    /\ tree' = [tree EXCEPT ![j] = IF job[j].st = "copying" THEN "whole" ELSE @]
    /\ Set(j, [job[j] EXCEPT !.st = "registering", !.left = job[j].outs])
    /\ UNCHANGED <<disk, edits, pub, host, sync, gone>>

(* Variant: ON CONFLICT (name) DO UPDATE without its WHERE. *)
MayClaimAny(n, w) == host[n].ws \in Workspaces \cup {Nobody, w}

(* The WHERE of the upsert. *)
MayClaim(n, w) == host[n].ws \in {w, Nobody}

(* register: one statement per artifact, outside a transaction. *)
Register(j, n) ==
    /\ job[j].st = "registering"
    /\ n \in job[j].left
    /\ \/ /\ MayClaim(n, job[j].ws)
          /\ host' = [host EXCEPT ![n] = [ws |-> job[j].ws, job |-> j]]
          /\ Set(j, [job[j] EXCEPT !.left = @ \ {n}])
       \/ /\ ~MayClaim(n, job[j].ws)
          /\ Set(j, [job[j] EXCEPT !.st = "failed"])
          /\ UNCHANGED host
    /\ UNCHANGED <<disk, edits, pub, sync, gone, tree>>

Finish(j) ==
    /\ job[j].st = "registering"
    /\ job[j].left = {}
    /\ Set(j, [job[j] EXCEPT !.st = "complete"])
    /\ UNCHANGED <<disk, edits, pub, host, sync, gone, tree>>

(* The worker dies and its successor requeues what it was executing. *)
WorkerDies ==
    /\ \E j \in Jobs : job[j].st \in {"running", "copying", "registering"}
    /\ job' = [j \in Jobs |->
                 IF job[j].st \in {"running", "copying", "registering"}
                 THEN [NoJob EXCEPT !.ws = job[j].ws, !.st = "queued"] ELSE job[j]]
    /\ UNCHANGED <<disk, edits, pub, host, sync, gone, tree>>

-----------------------------------------------------------------------------
SyncStep(s) ==
    \/ \E prune \in BOOLEAN : Scan(s, prune)
    \/ FindStale(s)
    \/ \E w \in Workspaces : GatePasses(s, w) \/ GateRefuses(s, w)
    \/ Apply(s) \/ EndsUnapplied(s)

JobStep(j) ==
    \/ \E w \in Workspaces : Submit(j, w)
    \/ Start(j) \/ RunFails(j) \/ Copy(j) \/ RunCompletes(j)
    \/ \E n \in Names : Register(j, n)
    \/ Finish(j)

Next ==
    \/ \E w \in Workspaces, d \in Directories : Edit(w, d)
    \/ \E s \in Syncs : SyncStep(s)
    \/ \E j \in Jobs : JobStep(j)
    \/ WorkerDies

Spec == Init /\ [][Next]_vars

-----------------------------------------------------------------------------
HostRow == [ws : Workspaces, job : Jobs]
SyncRow == [pc : {"idle", "scanned", "gate"}, read : [Workspaces -> Directories],
            left : SUBSET Workspaces, loaded : SUBSET Workspaces, stale : SUBSET Workspaces,
            prune : BOOLEAN]
JobRow == [ws : Workspaces \cup {Nobody},
           st : {"none", "queued", "running", "copying", "registering", "complete", "failed"},
           outs : SUBSET Names, left : SUBSET Names]

(* Every variable has its type; no broken directory is published. *)
TypeOK ==
    /\ disk \in [Workspaces -> Directories]
    /\ edits \in 0..NEdits
    /\ pub \in [Workspaces -> Directories \ {Broken}]
    /\ host \in [Names -> HostRow \cup {NoHost}]
    /\ sync \in [Syncs -> SyncRow]
    /\ gone \in [Syncs -> SUBSET Workspaces]
    /\ job \in [Jobs -> JobRow]
    /\ tree \in [Jobs -> {"none", "part", "whole"}]

(* What a sync in progress publishes has loaded, and what it would prune was *)
(* missing at some time since its scan.                                     *)
SyncInv ==
    \A s \in Syncs :
        /\ \A w \in sync[s].left \cup sync[s].loaded : sync[s].read[w].kind = "good"
        /\ sync[s].stale \subseteq gone[s]
        /\ sync[s].pc # "idle" => \A w \in Workspaces : disk[w] = Absent => w \in gone[s]

(* A job that exists has its workspace, and registers nothing before its     *)
(* tree is whole.                                                           *)
JobInv ==
    \A j \in Jobs :
        /\ job[j].st # "none" => job[j].ws \in Workspaces
        /\ job[j].left \subseteq job[j].outs
        /\ job[j].st \in {"none", "queued", "running", "copying"} => job[j].left = {}
        /\ job[j].st = "registering" /\ job[j].left # {} => tree[j] = "whole"

(* services.py register: the WHERE "is what stops one workspace taking over    *)
(* another's URL" -- through prunes, republishing and jobs of either, a URL    *)
(* changes its workspace only by ceasing to exist in between.                  *)
NoTakeover ==
    [][\A n \in Names : host[n] # NoHost /\ host'[n] # NoHost
        => host'[n].ws = host[n].ws]_vars

(* services.py register: "there is no moment where the URL serves a            *)
(* half-copied tree" -- also when the worker dies after the registration and   *)
(* the job is executed again in the same artifact directory.                   *)
ServedTreeIsWhole ==
    \A n \in Names : host[n] # NoHost => tree[host[n].job] = "whole"

(* What holds in every state: the types, what syncs and jobs in progress     *)
(* rely on, and that a URL serves a whole tree.                             *)
HostingInv == TypeOK /\ SyncInv /\ JobInv /\ ServedTreeIsWhole

(* repository.py _on_disk: a workspace that is broken, or that the gate        *)
(* refuses, stays published; only one whose directory was missing at some time *)
(* since the scan is ever withdrawn.                                           *)
OnlyRemovedIsPruned ==
    [][\A w \in Workspaces : Published(w) /\ ~Published(w)'
        => \E s \in Syncs : sync[s].prune /\ w \in gone[s]]_vars
=============================================================================
