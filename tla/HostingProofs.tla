--------------------------- MODULE HostingProofs ----------------------------
(***************************************************************************)
(* Hosting for any number of workspaces, service names, runs of sync, jobs *)
(* and edits: a URL serves a whole tree and stays with its workspace, and  *)
(* only a workspace whose directory was missing is withdrawn.              *)
(*                                                                         *)
(* The second part is about Runner.                                        *)
(***************************************************************************)
EXTENDS Hosting, Runner, FiniteSetTheorems, FunctionTheorems, SequenceTheorems, TLAPS

USE JobsAssumption

(* Directories tell their kind. *)
LEMMA DirectoryKinds ==
  /\ Absent \in Directories \ {Broken} /\ Absent.kind = "absent"
  /\ \A d \in Directories : d.kind = "good" => d \in Directories \ {Broken} /\ d # Absent
  /\ \A d \in Directories : d.outs \in SUBSET Names
  BY DEF Directories, Absent, Broken, Good

(* The records that stand for nothing have their types. *)
LEMMA NothingYet ==
  /\ NoSync \in SyncRow /\ NoSync.pc = "idle" /\ NoSync.left = {} /\ NoSync.loaded = {}
  /\ NoSync.stale = {}
  /\ NoJob \in JobRow /\ NoJob.st = "none" /\ NoJob.left = {} /\ NoJob.outs = {}
<1>1. [w \in Workspaces |-> Absent] \in [Workspaces -> Directories]
  BY DirectoryKinds
<1>2. NoSync \in SyncRow /\ NoSync.pc = "idle" /\ NoSync.left = {} /\ NoSync.loaded = {}
      /\ NoSync.stale = {}
  BY <1>1 DEF NoSync, SyncRow
<1>3. NoJob \in JobRow /\ NoJob.st = "none" /\ NoJob.left = {} /\ NoJob.outs = {}
  BY DEF NoJob, JobRow
<1> QED
  BY <1>2, <1>3

(* Nothing is published, hosted, synchronised or submitted. *)
LEMMA InitInd == Init => HostingInv
<1> SUFFICES ASSUME Init PROVE HostingInv
  OBVIOUS
<1> USE DEF Init
<1>1. TypeOK
  BY DirectoryKinds, NothingYet DEF TypeOK
<1>2. SyncInv
  BY NothingYet DEF SyncInv
<1>3. JobInv
  BY NothingYet DEF JobInv
<1>4. ServedTreeIsWhole
  BY DEF ServedTreeIsWhole
<1> QED
  BY <1>1, <1>2, <1>3, <1>4 DEF HostingInv

-----------------------------------------------------------------------------
(* An edit: a directory that goes is noted by every sync in progress. *)
LEMMA EditInd ==
  ASSUME HostingInv, NEW w \in Workspaces, NEW d \in Directories, Edit(w, d)
  PROVE  HostingInv'
<1> USE DEF HostingInv, Edit
<1>1. \A s \in Syncs : gone'[s] = IF d = Absent THEN gone[s] \cup {w} ELSE gone[s]
  OBVIOUS
<1>2. TypeOK'
  BY <1>1 DEF TypeOK
<1>3. \A v \in Workspaces : disk'[v] = IF v = w THEN d ELSE disk[v]
  BY DEF TypeOK
<1>4. SyncInv'
  BY <1>1, <1>3 DEF SyncInv
<1>5. JobInv' /\ ServedTreeIsWhole'
  BY DEF JobInv, ServedTreeIsWhole
<1> QED
  BY <1>2, <1>4, <1>5

(* A step of one sync that publishes nothing. *)
LEMMA SyncMove ==
  ASSUME HostingInv, NEW s \in Syncs, NEW r \in SyncRow, NEW g \in SUBSET Workspaces,
         sync' = [sync EXCEPT ![s] = r], gone' = [gone EXCEPT ![s] = g],
         \A w \in r.left \cup r.loaded : r.read[w].kind = "good",
         r.stale \subseteq g,
         r.pc # "idle" => \A w \in Workspaces : disk[w] = Absent => w \in g,
         UNCHANGED <<disk, edits, pub, host, job, tree>>
  PROVE  HostingInv'
<1> USE DEF HostingInv
<1>1. \A t \in Syncs : /\ sync'[t] = IF t = s THEN r ELSE sync[t]
                       /\ gone'[t] = IF t = s THEN g ELSE gone[t]
  BY DEF TypeOK
<1>2. TypeOK'
  BY DEF TypeOK
<1>3. SyncInv'
  BY <1>1 DEF SyncInv
<1>4. JobInv' /\ ServedTreeIsWhole'
  BY DEF JobInv, ServedTreeIsWhole
<1> QED
  BY <1>2, <1>3, <1>4

(* scan: what loaded is good, and what is missing now is noted. *)
LEMMA ScanInd ==
  ASSUME HostingInv, NEW s \in Syncs, NEW prune \in BOOLEAN, Scan(s, prune)
  PROVE  HostingInv'
<1> DEFINE L == {w \in Workspaces : Loads(disk[w])}
           g == {w \in Workspaces : disk[w] = Absent}
           r == [NoSync EXCEPT !.pc = "scanned", !.prune = prune, !.read = disk, !.left = L]
<1>1. disk \in [Workspaces -> Directories]
  BY DEF HostingInv, TypeOK
<1>2. /\ sync' = [sync EXCEPT ![s] = r] /\ gone' = [gone EXCEPT ![s] = g]
      /\ UNCHANGED <<disk, edits, pub, host, job, tree>>
  BY DEF Scan
<1>3. L \in SUBSET Workspaces /\ g \in SUBSET Workspaces /\ \A w \in L : disk[w].kind = "good"
  BY DEF Loads
<1>4. ASSUME NEW z \in SyncRow,
             NEW y, y = [z EXCEPT !.pc = "scanned", !.prune = prune, !.read = disk, !.left = L]
      PROVE  /\ y \in SyncRow /\ y.pc = "scanned" /\ y.read = disk /\ y.left = L
             /\ y.loaded = z.loaded /\ y.stale = z.stale
  <2> HIDE DEF L
  <2> QED
    BY <1>1, <1>3, <1>4 DEF SyncRow
<1>5. /\ r \in SyncRow /\ r.pc = "scanned" /\ r.read = disk /\ r.left = L
      /\ r.loaded = {} /\ r.stale = {}
  BY <1>4, NothingYet
<1>6. \A w \in Workspaces : disk[w] = Absent => w \in g
  OBVIOUS
<1> HIDE DEF r, L, g
<1> QED
  BY <1>2, <1>3, <1>5, <1>6, SyncMove

(* _find_stale and the gate: what is stale is missing now; what is left or   *)
(* loaded was read as good.                                                 *)
LEMMA GateInd ==
  ASSUME HostingInv, NEW s \in Syncs,
         \/ FindStale(s)
         \/ \E w \in Workspaces : GatePasses(s, w) \/ GateRefuses(s, w)
  PROVE  HostingInv'
<1> DEFINE x == sync[s]
           g == gone[s]
<1>1. /\ x \in SyncRow /\ g \in SUBSET Workspaces /\ x.pc # "idle"
      /\ \A w \in x.left \cup x.loaded : x.read[w].kind = "good"
      /\ x.stale \subseteq g
      /\ \A w \in Workspaces : disk[w] = Absent => w \in g
  BY DEF HostingInv, TypeOK, SyncInv, FindStale, GatePasses, GateRefuses
<1>2. /\ UNCHANGED <<disk, edits, pub, host, gone, job, tree>>
      /\ gone' = [gone EXCEPT ![s] = g]
  BY DEF HostingInv, TypeOK, FindStale, GatePasses, GateRefuses
<1>3. CASE FindStale(s)
  <2> DEFINE S == Stale(s)
             r == [x EXCEPT !.pc = "gate", !.stale = S]
  <2>1. S \in SUBSET Workspaces /\ S \subseteq g
    BY <1>1 DEF Stale
  <2>2. sync' = [sync EXCEPT ![s] = r]
    BY <1>3 DEF FindStale, HostingInv, TypeOK
  <2> HIDE DEF S, x
  <2>3. /\ r \in SyncRow /\ r.left = x.left /\ r.loaded = x.loaded /\ r.read = x.read
        /\ r.stale = S
    BY <1>1, <2>1 DEF SyncRow
  <2> HIDE DEF r, g
  <2> QED
    BY <1>1, <1>2, <2>1, <2>2, <2>3, SyncMove
<1>4. ASSUME NEW w \in Workspaces, GatePasses(s, w)
      PROVE  HostingInv'
  <2> DEFINE r == [x EXCEPT !.left = x.left \ {w}, !.loaded = x.loaded \cup {w}]
  <2>1. sync' = [sync EXCEPT ![s] = r] /\ w \in x.left
    BY <1>4 DEF GatePasses, HostingInv, TypeOK
  <2> HIDE DEF x
  <2>2. /\ r \in SyncRow /\ r.left = x.left \ {w} /\ r.loaded = x.loaded \cup {w}
        /\ r.read = x.read /\ r.stale = x.stale /\ r.pc = x.pc
    BY <1>1 DEF SyncRow
  <2> HIDE DEF r, g
  <2>3. \A v \in r.left \cup r.loaded : r.read[v].kind = "good"
    BY <1>1, <2>1, <2>2
  <2> QED
    BY <1>1, <1>2, <2>1, <2>2, <2>3, SyncMove
<1>5. ASSUME NEW w \in Workspaces, GateRefuses(s, w)
      PROVE  HostingInv'
  <2> DEFINE r == [x EXCEPT !.left = x.left \ {w}]
  <2>1. sync' = [sync EXCEPT ![s] = r]
    BY <1>5 DEF GateRefuses, HostingInv, TypeOK
  <2> HIDE DEF x
  <2>2. /\ r \in SyncRow /\ r.left = x.left \ {w} /\ r.loaded = x.loaded
        /\ r.read = x.read /\ r.stale = x.stale /\ r.pc = x.pc
    BY <1>1 DEF SyncRow
  <2> HIDE DEF r, g
  <2>3. \A v \in r.left \cup r.loaded : r.read[v].kind = "good"
    BY <1>1, <2>2
  <2> QED
    BY <1>1, <1>2, <2>1, <2>2, <2>3, SyncMove
<1> QED
  BY <1>3, <1>4, <1>5

(* --dry-run, or the command is stopped. *)
LEMMA EndsInd ==
  ASSUME HostingInv, NEW s \in Syncs, EndsUnapplied(s)
  PROVE  HostingInv'
<1> DEFINE r == NoSync
           g == {}
<1>1. /\ sync' = [sync EXCEPT ![s] = r] /\ gone' = [gone EXCEPT ![s] = g]
      /\ UNCHANGED <<disk, edits, pub, host, job, tree>>
  BY DEF EndsUnapplied
<1>2. /\ r \in SyncRow /\ g \in SUBSET Workspaces /\ r.pc = "idle"
      /\ r.left \cup r.loaded = {} /\ r.stale \subseteq g
  BY NothingYet
<1> HIDE DEF r, g
<1> QED
  BY <1>1, <1>2, SyncMove

(* The transaction of a sync: it publishes good manifests, and withdraws the *)
(* URLs of what it prunes.                                                  *)
LEMMA ApplyInd ==
  ASSUME HostingInv, NEW s \in Syncs, Apply(s)
  PROVE  HostingInv'
<1> USE DEF HostingInv
<1> DEFINE x == sync[s]
           pruned == IF x.prune THEN x.stale ELSE {}
<1>1. /\ pub' = [w \in Workspaces |-> IF w \in pruned THEN Absent
                                      ELSE IF w \in x.loaded THEN x.read[w] ELSE pub[w]]
      /\ host' = [n \in Names |-> IF host[n].ws \in pruned THEN NoHost ELSE host[n]]
      /\ sync' = [sync EXCEPT ![s] = NoSync] /\ gone' = [gone EXCEPT ![s] = {}]
      /\ UNCHANGED <<disk, edits, job, tree>>
  BY DEF Apply
<1>2. /\ x \in SyncRow /\ \A w \in x.loaded : w \in Workspaces /\ x.read[w].kind = "good"
  BY DEF TypeOK, SyncInv, SyncRow
<1>3. \A w \in x.loaded : x.read[w] \in Directories \ {Broken}
  BY <1>2, DirectoryKinds DEF SyncRow
<1> HIDE DEF x, pruned
<1>4. pub' \in [Workspaces -> Directories \ {Broken}]
  BY <1>1, <1>3, DirectoryKinds DEF TypeOK
<1>5. \A n \in Names : host'[n] = host[n] \/ host'[n] = NoHost
  BY <1>1
<1>6. host' \in [Names -> HostRow \cup {NoHost}]
  BY <1>1 DEF TypeOK
<1>7. TypeOK'
  BY <1>1, <1>4, <1>6, NothingYet DEF TypeOK
<1>8. \A t \in Syncs : /\ sync'[t] = IF t = s THEN NoSync ELSE sync[t]
                       /\ gone'[t] = IF t = s THEN {} ELSE gone[t]
  BY <1>1 DEF TypeOK
<1>9. SyncInv'
  BY <1>1, <1>8, NothingYet DEF SyncInv
<1>10. JobInv' /\ ServedTreeIsWhole'
  BY <1>1, <1>5 DEF JobInv, ServedTreeIsWhole
<1> QED
  BY <1>7, <1>9, <1>10

-----------------------------------------------------------------------------
(* A step of one job that registers nothing; no whole tree is touched. *)
LEMMA JobMove ==
  ASSUME HostingInv, NEW j \in Jobs, NEW r \in JobRow, Set(j, r),
         tree' \in [Jobs -> {"none", "part", "whole"}],
         \A k \in Jobs : tree[k] = "whole" => tree'[k] = "whole",
         r.st # "none" => r.ws \in Workspaces,
         r.left \subseteq r.outs,
         r.st \in {"none", "queued", "running", "copying"} => r.left = {},
         r.st = "registering" /\ r.left # {} => tree'[j] = "whole",
         UNCHANGED <<disk, edits, pub, host, sync, gone>>
  PROVE  HostingInv'
<1> USE DEF HostingInv
<1>1. \A k \in Jobs : job'[k] = IF k = j THEN r ELSE job[k]
  BY DEF Set, TypeOK
<1>2. TypeOK'
  BY DEF TypeOK, Set
<1>3. SyncInv'
  BY DEF SyncInv
<1>4. JobInv'
  BY <1>1 DEF JobInv
<1>5. ServedTreeIsWhole'
  <2>1. \A n \in Names : host[n] # NoHost => host[n].job \in Jobs
    BY DEF TypeOK, HostRow
  <2> QED
    BY <2>1 DEF ServedTreeIsWhole
<1> QED
  BY <1>2, <1>3, <1>4, <1>5

(* The same where the trees are left alone. *)
LEMMA JobMoveOnly ==
  ASSUME HostingInv, NEW j \in Jobs, NEW r \in JobRow, Set(j, r),
         r.st # "none" => r.ws \in Workspaces,
         r.left \subseteq r.outs,
         r.st \in {"none", "queued", "running", "copying"} => r.left = {},
         r.st = "registering" /\ r.left # {} => tree[j] = "whole",
         UNCHANGED <<disk, edits, pub, host, sync, gone, tree>>
  PROVE  HostingInv'
<1>1. /\ tree' \in [Jobs -> {"none", "part", "whole"}]
      /\ \A k \in Jobs : tree[k] = "whole" => tree'[k] = "whole"
      /\ r.st = "registering" /\ r.left # {} => tree'[j] = "whole"
      /\ UNCHANGED <<disk, edits, pub, host, sync, gone>>
  BY DEF HostingInv, TypeOK
<1> QED
  BY <1>1, JobMove

(* A new status changes nothing else about a job. *)
LEMMA StatusType ==
  ASSUME NEW x \in JobRow, NEW st \in {"queued", "running", "copying", "complete", "failed"}
  PROVE  LET r == [x EXCEPT !.st = st]
         IN  r \in JobRow /\ r.st = st /\ r.ws = x.ws /\ r.outs = x.outs /\ r.left = x.left
  BY DEF JobRow

(* A job moves to a status in which it registers nothing. *)
LEMMA StatusInd ==
  ASSUME HostingInv, NEW j \in Jobs, job[j].st # "none",
         NEW st \in {"complete", "failed"},
         Set(j, [job[j] EXCEPT !.st = st]),
         UNCHANGED <<disk, edits, pub, host, sync, gone, tree>>
  PROVE  HostingInv'
<1> DEFINE x == job[j]
           r == [x EXCEPT !.st = st]
<1>1. x \in JobRow /\ x.ws \in Workspaces /\ x.left \subseteq x.outs
  BY DEF HostingInv, TypeOK, JobInv
<1>2. Set(j, r)
  OBVIOUS
<1> HIDE DEF x
<1>3. r \in JobRow /\ r.st = st /\ r.ws = x.ws /\ r.outs = x.outs /\ r.left = x.left
  BY <1>1 DEF JobRow
<1> HIDE DEF r
<1> QED
  BY <1>1, <1>2, <1>3, JobMoveOnly

(* submit and the beginning of an execution. *)
LEMMA BeginInd ==
  ASSUME HostingInv, NEW j \in Jobs, Start(j) \/ \E w \in Workspaces : Submit(j, w)
  PROVE  HostingInv'
<1>1. ASSUME NEW w \in Workspaces, Submit(j, w) PROVE HostingInv'
  <2> DEFINE r == [NoJob EXCEPT !.ws = w, !.st = "queued"]
  <2>1. ASSUME NEW z \in JobRow, NEW y, y = [z EXCEPT !.ws = w, !.st = "queued"]
        PROVE  y \in JobRow /\ y.st = "queued" /\ y.ws = w /\ y.left = z.left /\ y.outs = z.outs
    BY <2>1 DEF JobRow
  <2>2. r \in JobRow /\ r.st = "queued" /\ r.ws = w /\ r.left = {} /\ r.outs = {}
    BY <2>1, NothingYet
  <2>3. Set(j, r) /\ UNCHANGED <<disk, edits, pub, host, sync, gone, tree>>
    BY <1>1 DEF Submit
  <2> HIDE DEF r
  <2> QED
    BY <2>2, <2>3, JobMoveOnly
<1>2. CASE Start(j)
  <2> DEFINE x == job[j]
             o == pub[x.ws].outs
             r == [x EXCEPT !.st = "running", !.outs = o]
  <2>1. x \in JobRow /\ x.st = "queued" /\ x.ws \in Workspaces
    BY <1>2 DEF Start, HostingInv, TypeOK, JobInv
  <2>2. o \in SUBSET Names
    BY <2>1, DirectoryKinds DEF HostingInv, TypeOK
  <2>3. CASE Set(j, r)
    <3>1. x.left = {}
      BY <2>1 DEF HostingInv, JobInv
    <3>2. UNCHANGED <<disk, edits, pub, host, sync, gone, tree>>
      BY <1>2 DEF Start
    <3> HIDE DEF x, o
    <3>3. r \in JobRow /\ r.st = "running" /\ r.ws = x.ws /\ r.outs = o /\ r.left = x.left
      BY <2>1, <2>2 DEF JobRow
    <3> HIDE DEF r
    <3> QED
      BY <2>1, <2>3, <3>1, <3>2, <3>3, JobMoveOnly
  <2>4. CASE Set(j, [job[j] EXCEPT !.st = "failed"])
    BY <1>2, <2>1, <2>4, StatusInd DEF Start
  <2> QED
    BY <1>2, <2>3, <2>4 DEF Start
<1> QED
  BY <1>1, <1>2

(* child._store: only a tree that is not there is begun. *)
LEMMA CopyInd ==
  ASSUME HostingInv, NEW j \in Jobs, Copy(j)
  PROVE  HostingInv'
<1> DEFINE x == job[j]
<1>1. x \in JobRow /\ x.st = "running" /\ x.ws \in Workspaces /\ x.left = {}
  BY DEF Copy, HostingInv, TypeOK, JobInv
<1>2. CASE Set(j, [job[j] EXCEPT !.st = "failed"]) /\ UNCHANGED tree
  BY <1>1, <1>2, StatusInd DEF Copy
<1>3. CASE /\ tree[j] = "none" /\ tree' = [tree EXCEPT ![j] = "part"]
           /\ Set(j, [job[j] EXCEPT !.st = "copying"])
  <2> DEFINE r == [x EXCEPT !.st = "copying"]
  <2>1. Set(j, r) /\ UNCHANGED <<disk, edits, pub, host, sync, gone>>
    BY <1>3 DEF Copy
  <2>2. /\ tree' \in [Jobs -> {"none", "part", "whole"}]
        /\ \A k \in Jobs : tree[k] = "whole" => tree'[k] = "whole"
    BY <1>3 DEF HostingInv, TypeOK
  <2> HIDE DEF x
  <2>3. r \in JobRow /\ r.st = "copying" /\ r.ws = x.ws /\ r.outs = x.outs /\ r.left = x.left
    BY <1>1, StatusType
  <2> HIDE DEF r
  <2> QED
    BY <1>1, <2>1, <2>2, <2>3, JobMove
<1> QED
  BY <1>2, <1>3 DEF Copy

(* The run completes: what it will register has been copied to the end. *)
LEMMA RunCompletesInd ==
  ASSUME HostingInv, NEW j \in Jobs, RunCompletes(j)
  PROVE  HostingInv'
<1> DEFINE x == job[j]
           r == [x EXCEPT !.st = "registering", !.left = x.outs]
<1>1. x \in JobRow /\ x.st \in {"running", "copying"} /\ x.ws \in Workspaces
      /\ (x.st = "running" => x.outs = {})
  BY DEF RunCompletes, HostingInv, TypeOK, JobInv
<1>2. /\ Set(j, r) /\ UNCHANGED <<disk, edits, pub, host, sync, gone>>
      /\ tree' = [tree EXCEPT ![j] = IF x.st = "copying" THEN "whole" ELSE tree[j]]
  BY DEF RunCompletes
<1>3. /\ tree' \in [Jobs -> {"none", "part", "whole"}]
      /\ \A k \in Jobs : tree[k] = "whole" => tree'[k] = "whole"
      /\ x.st = "copying" => tree'[j] = "whole"
  BY <1>2 DEF HostingInv, TypeOK
<1> HIDE DEF x
<1>4. r \in JobRow /\ r.st = "registering" /\ r.ws = x.ws /\ r.outs = x.outs /\ r.left = x.outs
  BY <1>1 DEF JobRow
<1> HIDE DEF r
<1> QED
  BY <1>1, <1>2, <1>3, <1>4, JobMove

(* register: the tree is whole, and the URL free or its own. *)
LEMMA RegisterInd ==
  ASSUME HostingInv, NEW j \in Jobs, NEW n \in Names, Register(j, n)
  PROVE  HostingInv'
<1> USE DEF HostingInv
<1> DEFINE x == job[j]
           L == x.left \ {n}
           r == [x EXCEPT !.left = L]
           h == [ws |-> x.ws, job |-> j]
<1>1. /\ x \in JobRow /\ x.st = "registering" /\ x.ws \in Workspaces /\ tree[j] = "whole"
      /\ x.left \subseteq x.outs
  BY DEF Register, TypeOK, JobInv
<1>2. CASE Set(j, [job[j] EXCEPT !.st = "failed"]) /\ UNCHANGED host
  BY <1>1, <1>2, StatusInd DEF Register
<1>3. CASE host' = [host EXCEPT ![n] = h] /\ Set(j, r)
  <2>1. UNCHANGED <<disk, edits, pub, sync, gone, tree>>
    BY DEF Register
  <2>2. h \in HostRow /\ h.job = j
    BY <1>1 DEF HostRow
  <2>3. L \subseteq x.outs /\ L \in SUBSET Names
    BY <1>1 DEF JobRow
  <2> HIDE DEF L, x, h
  <2>4. r \in JobRow /\ r.st = "registering" /\ r.ws = x.ws /\ r.outs = x.outs /\ r.left = L
    BY <1>1, <2>3 DEF JobRow
  <2> HIDE DEF r
  <2>5. \A k \in Jobs : job'[k] = IF k = j THEN r ELSE job[k]
    BY <1>3 DEF Set, TypeOK
  <2>6. \A m \in Names : host'[m] = IF m = n THEN h ELSE host[m]
    BY <1>3 DEF TypeOK
  <2>7. TypeOK'
    BY <1>3, <2>1, <2>2, <2>4 DEF TypeOK, Set
  <2>8. SyncInv'
    BY <2>1 DEF SyncInv
  <2>9. JobInv'
    BY <1>1, <2>1, <2>3, <2>4, <2>5 DEF JobInv
  <2>10. ServedTreeIsWhole'
    BY <1>1, <2>1, <2>2, <2>6 DEF ServedTreeIsWhole
  <2> QED
    BY <2>7, <2>8, <2>9, <2>10
<1> QED
  BY <1>2, <1>3 DEF Register

(* The worker dies: its jobs begin anew, the trees stay where they are. *)
LEMMA WorkerDiesInd ==
  ASSUME HostingInv, WorkerDies
  PROVE  HostingInv'
<1> USE DEF HostingInv
<1> DEFINE Q(j) == [NoJob EXCEPT !.ws = job[j].ws, !.st = "queued"]
<1>1. \A j \in Jobs : job[j] \in JobRow
  BY DEF TypeOK
<1>2. \A j \in Jobs : job[j].ws \in Workspaces \cup {Nobody}
  BY <1>1 DEF JobRow
<1>3. ASSUME NEW j \in Jobs
      PROVE  /\ Q(j) \in JobRow /\ Q(j).st = "queued" /\ Q(j).ws = job[j].ws
             /\ Q(j).left = {} /\ Q(j).outs = {}
  <2> DEFINE w == job[j].ws
  <2>1. w \in Workspaces \cup {Nobody}
    BY <1>2
  <2> HIDE DEF w
  <2>2. ASSUME NEW z \in JobRow, NEW y, y = [z EXCEPT !.ws = w, !.st = "queued"]
        PROVE  y \in JobRow /\ y.st = "queued" /\ y.ws = w /\ y.left = z.left /\ y.outs = z.outs
    BY <2>1, <2>2 DEF JobRow
  <2> DEFINE q == [NoJob EXCEPT !.ws = w, !.st = "queued"]
  <2>3. q \in JobRow /\ q.st = "queued" /\ q.ws = w /\ q.left = {} /\ q.outs = {}
    BY <2>2, NothingYet
  <2>4. Q(j) = q
    BY DEF w
  <2> HIDE DEF q, Q
  <2> QED
    BY <2>3, <2>4 DEF w
<1>4. /\ UNCHANGED <<disk, edits, pub, host, sync, gone, tree>>
      /\ job' = [j \in Jobs |-> IF job[j].st \in {"running", "copying", "registering"}
                                THEN Q(j) ELSE job[j]]
  BY DEF WorkerDies
<1> HIDE DEF Q
<1>5. TypeOK'
  BY <1>1, <1>3, <1>4 DEF TypeOK
<1>6. JobInv'
  BY <1>3, <1>4 DEF JobInv
<1>7. SyncInv' /\ ServedTreeIsWhole'
  BY <1>4 DEF SyncInv, ServedTreeIsWhole
<1> QED
  BY <1>5, <1>6, <1>7

-----------------------------------------------------------------------------
(* Every step preserves the invariant. *)
LEMMA NextInd == HostingInv /\ [Next]_vars => HostingInv'
<1> SUFFICES ASSUME HostingInv, [Next]_vars PROVE HostingInv'
  OBVIOUS
<1>1. ASSUME NEW w \in Workspaces, NEW d \in Directories, Edit(w, d) PROVE HostingInv'
  BY <1>1, EditInd
<1>2. ASSUME NEW s \in Syncs, SyncStep(s) PROVE HostingInv'
  BY <1>2, ScanInd, GateInd, ApplyInd, EndsInd DEF SyncStep
<1>3. ASSUME NEW j \in Jobs, JobStep(j) PROVE HostingInv'
  <2>1. CASE RunFails(j)
    BY <2>1, StatusInd DEF RunFails
  <2>2. CASE Finish(j)
    BY <2>2, StatusInd DEF Finish
  <2> QED
    BY <1>3, <2>1, <2>2, BeginInd, CopyInd, RunCompletesInd, RegisterInd DEF JobStep
<1>4. CASE WorkerDies
  BY <1>4, WorkerDiesInd
<1>5. CASE UNCHANGED vars
  BY <1>5 DEF vars, HostingInv, TypeOK, SyncInv, JobInv, ServedTreeIsWhole
<1> QED
  BY <1>1, <1>2, <1>3, <1>4, <1>5 DEF Next

(* services.py, child.py: for any number of workspaces, names, syncs and     *)
(* jobs, and however often the worker dies, a URL serves a whole tree.      *)
THEOREM Invariance == Spec => []HostingInv
  BY InitInd, NextInd, PTL DEF Spec

(* services.register: no sequence of prunes, publications, registrations and *)
(* deaths of the worker moves a URL from one workspace to another.          *)
THEOREM UrlsStay == Spec => NoTakeover
<1>1. HostingInv /\ [Next]_vars
        => [\A n \in Names : host[n] # NoHost /\ host'[n] # NoHost
              => host'[n].ws = host[n].ws]_vars
  <2> SUFFICES ASSUME HostingInv, [Next]_vars, NEW n \in Names, host[n] # NoHost, host'[n] # NoHost
               PROVE  host'[n].ws = host[n].ws
    BY Zenon
  <2>1. host[n].ws # Nobody /\ host \in [Names -> HostRow \cup {NoHost}]
    BY NobodyAssumption DEF HostingInv, TypeOK, HostRow
  <2>2. ASSUME NEW s \in Syncs, Apply(s) PROVE host'[n].ws = host[n].ws
    BY <2>2 DEF Apply
  <2>3. ASSUME NEW j \in Jobs, NEW m \in Names, Register(j, m) PROVE host'[n].ws = host[n].ws
    <3>1. \/ UNCHANGED host
          \/ MayClaim(m, job[j].ws) /\ host' = [host EXCEPT ![m] = [ws |-> job[j].ws, job |-> j]]
      BY <2>3 DEF Register
    <3> QED
      BY <2>1, <3>1 DEF MayClaim
  <2>4. \/ UNCHANGED host
        \/ \E s \in Syncs : Apply(s)
        \/ \E j \in Jobs, m \in Names : Register(j, m)
    BY DEF Next, SyncStep, JobStep, vars, Edit, Scan, FindStale, GatePasses, GateRefuses,
       EndsUnapplied, Submit, Start, RunFails, Copy, RunCompletes, Finish, WorkerDies
  <2> QED
    BY <2>2, <2>3, <2>4
<1> QED
  BY InitInd, NextInd, <1>1, PTL DEF Spec, NoTakeover

(* repository._find_stale and sync: a workspace that is broken, refused or   *)
(* edited stays published; one is withdrawn only by a sync that prunes, and *)
(* only if its directory was missing since the scan of that sync.           *)
THEOREM RemovedOnly == Spec => OnlyRemovedIsPruned
<1>1. HostingInv /\ [Next]_vars
        => [\A w \in Workspaces : Published(w) /\ ~Published(w)'
              => \E s \in Syncs : sync[s].prune /\ w \in gone[s]]_vars
  <2> SUFFICES ASSUME HostingInv, [Next]_vars, NEW w \in Workspaces, Published(w), ~Published(w)'
               PROVE  \E s \in Syncs : sync[s].prune /\ w \in gone[s]
    BY Zenon
  <2>1. ~UNCHANGED pub
    BY DEF Published
  <2>2. PICK s \in Syncs : Apply(s)
    BY <2>1 DEF Next, SyncStep, JobStep, vars, Edit, Scan, FindStale, GatePasses, GateRefuses,
       EndsUnapplied, Submit, Start, RunFails, Copy, RunCompletes, Finish, WorkerDies, Register
  <2> DEFINE x == sync[s]
             pruned == IF x.prune THEN x.stale ELSE {}
  <2>3. pub'[w] = IF w \in pruned THEN Absent ELSE IF w \in x.loaded THEN x.read[w] ELSE pub[w]
    BY <2>2 DEF Apply
  <2>4. w \in x.loaded => x.read[w].kind = "good"
    BY DEF HostingInv, SyncInv
  <2>5. w \in pruned
    BY <2>3, <2>4 DEF Published
  <2> QED
    BY <2>5 DEF HostingInv, SyncInv
<1> QED
  BY InitInd, NextInd, <1>1, PTL DEF Spec, OnlyRemovedIsPruned

-----------------------------------------------------------------------------
(***************************************************************************)
(* The run whose artifacts are registered: Runner, for pipes of any size   *)
(* and any number of lines.                                                *)
(***************************************************************************)

HIDE JobsAssumption

(* What a stream of the workspace carries. *)
Lines == {"log", "progress", "result", "error"}

(* The log lines of a sequence can be counted. *)
LEMMA LinesFinite ==
  ASSUME NEW q \in Seq(Lines)
  PROVE  /\ LogLines(q) \subseteq 1..Len(q)
         /\ IsFiniteSet(LogLines(q))
         /\ Cardinality(LogLines(q)) \in Nat
<1>1. LogLines(q) \subseteq 1..Len(q) /\ Len(q) \in Nat
  BY DEF LogLines
<1>2. IsFiniteSet(1..Len(q))
  BY <1>1, FS_Interval
<1>3. IsFiniteSet(LogLines(q))
  BY <1>1, <1>2, FS_Subset
<1> QED
  BY <1>1, <1>3, FS_CardinalityType

(* A line that is written adds itself to the count. *)
LEMMA LinesAppend ==
  ASSUME NEW q \in Seq(Lines), NEW x \in Lines
  PROVE  Cardinality(LogLines(Append(q, x)))
           = Cardinality(LogLines(q)) + IF x = "log" THEN 1 ELSE 0
<1>1. LogLines(q) \subseteq 1..Len(q) /\ IsFiniteSet(LogLines(q)) /\ Len(q) \in Nat
  BY LinesFinite
<1>2. Len(q) + 1 \notin LogLines(q)
  BY <1>1
<1>3. DOMAIN Append(q, x) = 1..(Len(q) + 1)
  OBVIOUS
<1>4. \A i \in 1..Len(q) : Append(q, x)[i] = q[i]
  OBVIOUS
<1>5. Append(q, x)[Len(q) + 1] = x
  OBVIOUS
<1>6. CASE x = "log"
  <2>1. LogLines(Append(q, x)) = LogLines(q) \cup {Len(q) + 1}
    BY <1>1, <1>3, <1>4, <1>5, <1>6 DEF LogLines
  <2> QED
    BY <1>1, <1>2, <1>6, <2>1, FS_AddElement
<1>7. CASE x # "log"
  <2>1. LogLines(Append(q, x)) = LogLines(q)
    BY <1>1, <1>3, <1>4, <1>5, <1>7 DEF LogLines
  <2> QED
    BY <1>7, <2>1, LinesFinite
<1> QED
  BY <1>6, <1>7

(* A line that is read takes itself from the count. *)
LEMMA LinesTail ==
  ASSUME NEW q \in Seq(Lines), q # << >>
  PROVE  Cardinality(LogLines(q))
           = Cardinality(LogLines(Tail(q))) + IF Head(q) = "log" THEN 1 ELSE 0
<1> DEFINE t == Tail(q)
           Rest == LogLines(q) \ {1}
           shift == [i \in LogLines(t) |-> i + 1]
<1>1. /\ LogLines(q) \subseteq 1..Len(q) /\ IsFiniteSet(LogLines(q))
      /\ Cardinality(LogLines(q)) \in Nat
      /\ Len(q) \in Nat \ {0}
  BY LinesFinite
<1>2. /\ t \in Seq(Lines) /\ Len(t) = Len(q) - 1
      /\ \A i \in 1..Len(t) : t[i] = q[i + 1]
      /\ Head(q) = q[1]
  BY HeadTailProperties
<1>3. /\ LogLines(t) \subseteq 1..Len(t) /\ IsFiniteSet(LogLines(t))
      /\ Cardinality(LogLines(t)) \in Nat
  BY <1>2, LinesFinite
<1>4. \A i \in 1..Len(t) : i \in LogLines(t) <=> i + 1 \in LogLines(q)
  BY <1>1, <1>2 DEF LogLines
<1>5. shift \in Bijection(LogLines(t), Rest)
  <2>1. shift \in [LogLines(t) -> Rest]
    BY <1>3, <1>4
  <2>2. \A a, b \in LogLines(t) : shift[a] = shift[b] => a = b
    BY <1>3
  <2>3. \A y \in Rest : \E i \in LogLines(t) : shift[i] = y
    <3> TAKE y \in Rest
    <3>1. y \in 2..Len(q) /\ y - 1 \in 1..Len(t) /\ (y - 1) + 1 = y
      BY <1>1, <1>2
    <3>2. y - 1 \in LogLines(t)
      BY <1>4, <3>1
    <3> QED
      BY <3>1, <3>2
  <2>4. shift \in Injection(LogLines(t), Rest)
    BY <2>1, <2>2 DEF Injection, IsInjective
  <2>5. shift \in Surjection(LogLines(t), Rest)
    BY <2>1, <2>3 DEF Surjection
  <2> QED
    BY <2>4, <2>5 DEF Bijection
<1>6. Cardinality(Rest) = Cardinality(LogLines(t))
  BY <1>3, <1>5, FS_Bijection DEF ExistsBijection
<1>7. 1 \in LogLines(q) <=> Head(q) = "log"
  BY <1>1, <1>2 DEF LogLines
<1>8. Cardinality(Rest)
        = IF 1 \in LogLines(q) THEN Cardinality(LogLines(q)) - 1 ELSE Cardinality(LogLines(q))
  BY <1>1, FS_RemoveElement
<1> QED
  BY <1>1, <1>3, <1>6, <1>7, <1>8

-----------------------------------------------------------------------------
(* The parts of the invariant that the others follow from. *)
RunCore ==
    /\ RunnerTypeOK /\ ConnInv /\ PhaseInv /\ PumpInv /\ LineInv
    /\ ChildGoneAtReturn /\ OutcomeIsWritten /\ NoFalseSuccess

(* Nothing runs and nothing is owed at first. *)
LEMMA InitRun ==
  ASSUME ConstantsOK, RunnerInit PROVE RunCore
<1> USE DEF RunnerInit, Streams, Killers, ConstantsOK
<1>1. << >> \in Seq(Lines) /\ Len(<< >>) = 0
  OBVIOUS
<1>2. RunnerTypeOK
  <2>1. \A s \in Streams : pipe[s] = << >>
    OBVIOUS
  <2>2. pipe \in [Streams -> Seq(Lines)] /\ \A s \in Streams : Len(pipe[s]) <= PipeLines
    BY <1>1, <2>1
  <2> QED
    BY <2>2 DEF RunnerTypeOK, PumpStates, Lines
<1>3. ConnInv /\ PhaseInv /\ PumpInv
  BY DEF ConnInv, PhaseInv, PumpInv
<1>4. LogLines(<< >>) = {}
  BY DEF LogLines
<1>5. LineInv
  <2>1. \A s \in Streams : Cardinality(LogLines(pipe[s])) = 0
    BY <1>4, FS_EmptySet
  <2>2. \A s \in Streams : written[s] = 0 /\ logged[s] = 0 /\ pump[s] # "insert"
    OBVIOUS
  <2> QED
    BY <2>1, <2>2 DEF LineInv
<1>6. ChildGoneAtReturn /\ OutcomeIsWritten /\ NoFalseSuccess
  BY DEF ChildGoneAtReturn, OutcomeIsWritten, NoFalseSuccess
<1> QED
  BY <1>2, <1>3, <1>5, <1>6 DEF RunCore

(* A line of either stream, or the report: the pipe has one more. *)
LEMMA PipeGrows ==
  ASSUME ConstantsOK, RunnerTypeOK, NEW s \in Streams, NEW x \in Lines, Room(s),
         pipe' = [pipe EXCEPT ![s] = Append(@, x)]
  PROVE  /\ pipe' \in [Streams -> Seq(Lines)]
         /\ \A r \in Streams : Len(pipe'[r]) <= PipeLines
         /\ Cardinality(LogLines(pipe'[s]))
              = Cardinality(LogLines(pipe[s])) + IF x = "log" THEN 1 ELSE 0
         /\ Cardinality(LogLines(pipe[s])) \in Nat
         /\ \A i \in DOMAIN pipe[s] : i \in DOMAIN pipe'[s] /\ pipe'[s][i] = pipe[s][i]
         /\ \E i \in DOMAIN pipe'[s] : pipe'[s][i] = x
<1>1. pipe \in [Streams -> Seq(Lines)] /\ pipe[s] \in Seq(Lines)
  BY DEF RunnerTypeOK, Lines
<1>2. pipe'[s] = Append(pipe[s], x) /\ \A r \in Streams \ {s} : pipe'[r] = pipe[r]
  BY <1>1
<1>3. /\ Append(pipe[s], x) \in Seq(Lines)
      /\ Len(Append(pipe[s], x)) = Len(pipe[s]) + 1
      /\ DOMAIN pipe[s] = 1..Len(pipe[s])
      /\ DOMAIN Append(pipe[s], x) = 1..(Len(pipe[s]) + 1)
      /\ \A i \in 1..Len(pipe[s]) : Append(pipe[s], x)[i] = pipe[s][i]
      /\ Append(pipe[s], x)[Len(pipe[s]) + 1] = x
      /\ Len(pipe[s]) \in Nat
  BY <1>1
<1>4. Len(pipe'[s]) <= PipeLines
  BY <1>2, <1>3 DEF Room, ConstantsOK
<1> QED
  BY <1>1, <1>2, <1>3, <1>4, LinesAppend, LinesFinite DEF RunnerTypeOK

(* emit() and print: the line is in the pipe and counted as written. *)
LEMMA ChildWritesCore ==
  ASSUME ConstantsOK, RunCore, NEW s \in Streams, NEW line \in {"log", "progress"},
         ChildWrites(s, line)
  PROVE  RunCore'
<1> USE DEF ChildWrites, RunCore, pumpVars, runVars, killVars
<1> line \in Lines
  BY DEF Lines
<1>1. /\ pipe' \in [Streams -> Seq(Lines)]
      /\ \A r \in Streams : Len(pipe'[r]) <= PipeLines
      /\ Cardinality(LogLines(pipe'[s]))
           = Cardinality(LogLines(pipe[s])) + IF line = "log" THEN 1 ELSE 0
      /\ Cardinality(LogLines(pipe[s])) \in Nat
      /\ \A i \in DOMAIN pipe[s] : i \in DOMAIN pipe'[s] /\ pipe'[s][i] = pipe[s][i]
  BY PipeGrows
<1>2. RunnerTypeOK'
  <2>1. pipe' \in [Streams -> Seq({"log", "progress", "result", "error"})]
    BY <1>1 DEF Lines
  <2>2. written' \in [Streams -> Nat]
    BY DEF RunnerTypeOK
  <2>3. \A r \in Streams : Len(pipe'[r]) <= PipeLines
    BY ONLY <1>1
  <2>4. /\ run' \in {"spawn", "feed", "wait", "killing", "drain", "returned", "raised"}
        /\ result' \in {"none", "complete", "failed", "cancelled"}
        /\ child' \in {"none", "alive", "dead"} /\ desc' \in {"none", "alive", "dead"}
        /\ code' \in {0, 1} /\ said' \in {"nothing", "result", "error"}
    BY DEF RunnerTypeOK
  <2>5. /\ pump' \in [Streams -> PumpStates] /\ conn' \in Streams \cup {"nobody"}
        /\ logged' \in [Streams -> Nat] /\ cancelled' \in BOOLEAN
        /\ collected' \subseteq {"result", "error"}
        /\ kill' \in [Killers -> {"idle", "grace", "reap", "done"}]
        /\ settled' \in {"pending", "written", "raised"}
    BY DEF RunnerTypeOK
  <2> QED
    BY ONLY <2>1, <2>2, <2>3, <2>4, <2>5 DEF RunnerTypeOK
<1>3. ConnInv' /\ PhaseInv'
  BY DEF ConnInv, PhaseInv
<1>4. PumpInv'
  BY DEF PumpInv, PumpsLive, Alive
<1>5. LineInv'
  <2>1. ASSUME NEW r \in Streams, Working(r)
        PROVE  written'[r] = logged[r] + Cardinality(LogLines(pipe'[r]))
                                       + IF pump[r] = "insert" THEN 1 ELSE 0
    <3>1. written \in [Streams -> Nat] /\ logged[r] \in Nat /\ pipe \in [Streams -> Seq(Lines)]
      BY DEF RunnerTypeOK, Lines
    <3>2. written[r] = logged[r] + Cardinality(LogLines(pipe[r]))
                                 + IF pump[r] = "insert" THEN 1 ELSE 0
      BY <2>1 DEF LineInv
    <3>3. CASE r = s
      BY <1>1, <3>1, <3>2, <3>3
    <3>4. CASE r # s
      BY <3>1, <3>2, <3>4
    <3> QED
      BY <3>3, <3>4
  <2> QED
    BY <2>1 DEF LineInv, Working
<1>6. ChildGoneAtReturn' /\ OutcomeIsWritten' /\ NoFalseSuccess'
  BY DEF ChildGoneAtReturn, OutcomeIsWritten, NoFalseSuccess, PumpsLive
<1> QED
  BY <1>2, <1>3, <1>4, <1>5, <1>6

(* send("result") and send("error"). *)
LEMMA ChildReportsCore ==
  ASSUME ConstantsOK, RunCore, NEW what \in {"result", "error"}, ChildReports(what)
  PROVE  RunCore'
<1> USE DEF ChildReports, RunCore, pumpVars, runVars, killVars
<1> what \in Lines /\ "out" \in Streams
  BY DEF Lines, Streams
<1>1. /\ pipe' \in [Streams -> Seq(Lines)]
      /\ \A r \in Streams : Len(pipe'[r]) <= PipeLines
      /\ Cardinality(LogLines(pipe'["out"])) = Cardinality(LogLines(pipe["out"])) + 0
      /\ Cardinality(LogLines(pipe["out"])) \in Nat
      /\ \E i \in DOMAIN pipe'["out"] : pipe'["out"][i] = what
  BY PipeGrows
<1>2. RunnerTypeOK'
  BY <1>1 DEF RunnerTypeOK, Lines
<1>3. ConnInv' /\ PhaseInv'
  BY DEF ConnInv, PhaseInv, Alive
<1>4. PumpInv'
  BY DEF PumpInv, PumpsLive, Alive
<1>5. LineInv'
  BY <1>1 DEF LineInv, Working, RunnerTypeOK
<1>6. ChildGoneAtReturn' /\ OutcomeIsWritten'
  BY DEF ChildGoneAtReturn, OutcomeIsWritten, PumpsLive
<1>7. NoFalseSuccess'
  BY DEF NoFalseSuccess, Alive, PhaseInv, ChildGoneAtReturn
<1> QED
  BY <1>2, <1>3, <1>4, <1>5, <1>6, <1>7

(* A step that leaves the pipes, and with the log what a pump has in its hand. *)
LEMMA LineFrame ==
  ASSUME RunnerTypeOK, LineInv, UNCHANGED <<pipe, written, said, collected>>,
         \A r \in Streams : Working(r)' =>
             /\ Working(r)
             /\ logged'[r] + (IF pump'[r] = "insert" THEN 1 ELSE 0)
                 = logged[r] + (IF pump[r] = "insert" THEN 1 ELSE 0)
             /\ logged'[r] \in Nat
  PROVE  LineInv'
<1>1. ASSUME NEW r \in Streams, Working(r)'
      PROVE  written'[r] = logged'[r] + Cardinality(LogLines(pipe'[r]))
                                      + IF pump'[r] = "insert" THEN 1 ELSE 0
  <2>1. written[r] = logged[r] + Cardinality(LogLines(pipe[r]))
                               + IF pump[r] = "insert" THEN 1 ELSE 0
    BY <1>1 DEF LineInv
  <2>2. Cardinality(LogLines(pipe[r])) \in Nat /\ logged[r] \in Nat
    BY LinesFinite DEF RunnerTypeOK, Lines
  <2> QED
    BY <1>1, <2>1, <2>2
<1>2. Working("out")' => Working("out")
  BY DEF Streams
<1> QED
  BY <1>1, <1>2 DEF LineInv

(* The child ends by itself, with the code of its report. *)
LEMMA ChildExitsCore ==
  ASSUME RunCore, NEW c \in {0, 1}, ChildExits(c)
  PROVE  RunCore'
<1> USE DEF ChildExits, procVars, pumpVars, runVars, killVars, RunCore
<1>1. RunnerTypeOK'
  BY DEF RunnerTypeOK
<1>2. ConnInv'
  BY DEF ConnInv
<1>3. PhaseInv'
  BY DEF PhaseInv
<1>4. PumpInv'
  BY DEF PumpInv, PumpsLive
<1>5. LineInv'
  BY DEF LineInv, Working
<1>6. ChildGoneAtReturn' /\ OutcomeIsWritten' /\ NoFalseSuccess'
  BY DEF ChildGoneAtReturn, OutcomeIsWritten, NoFalseSuccess, PumpsLive, PhaseInv
<1> QED
  BY <1>1, <1>2, <1>3, <1>4, <1>5, <1>6

(* What the workspace starts touches nothing here. *)
LEMMA DescendantStartsCore ==
  ASSUME RunCore, DescendantStarts
  PROVE  RunCore'
<1> USE DEF DescendantStarts, procVars, pumpVars, runVars, killVars, RunCore
<1>1. RunnerTypeOK'
  BY DEF RunnerTypeOK
<1>2. ConnInv'
  BY DEF ConnInv
<1>3. PhaseInv'
  BY DEF PhaseInv
<1>4. PumpInv'
  BY DEF PumpInv, PumpsLive
<1>5. LineInv'
  BY DEF LineInv, Working
<1>6. ChildGoneAtReturn' /\ OutcomeIsWritten' /\ NoFalseSuccess'
  BY DEF ChildGoneAtReturn, OutcomeIsWritten, NoFalseSuccess, PumpsLive
<1> QED
  BY <1>1, <1>2, <1>3, <1>4, <1>5, <1>6

(* Nor does its end. *)
LEMMA DescendantExitsCore ==
  ASSUME RunCore, DescendantExits
  PROVE  RunCore'
<1> USE DEF DescendantExits, procVars, pumpVars, runVars, killVars, RunCore
<1>1. RunnerTypeOK'
  BY DEF RunnerTypeOK
<1>2. ConnInv'
  BY DEF ConnInv
<1>3. PhaseInv'
  BY DEF PhaseInv
<1>4. PumpInv'
  BY DEF PumpInv, PumpsLive
<1>5. LineInv'
  BY DEF LineInv, Working
<1>6. ChildGoneAtReturn' /\ OutcomeIsWritten' /\ NoFalseSuccess'
  BY DEF ChildGoneAtReturn, OutcomeIsWritten, NoFalseSuccess, PumpsLive
<1> QED
  BY <1>1, <1>2, <1>3, <1>4, <1>5, <1>6

(* The row of job_log is written: the line moves from the hand to the log. *)
LEMMA InsertDoneCore ==
  ASSUME RunCore, NEW s \in Streams, InsertDone(s)
  PROVE  RunCore'
<1> USE DEF InsertDone, procVars, pumpVars, runVars, killVars, RunCore
<1>1. RunnerTypeOK'
  BY DEF RunnerTypeOK, PumpStates
<1>2. ConnInv'
  BY DEF ConnInv, RunnerTypeOK, Streams
<1>3. PhaseInv'
  BY DEF PhaseInv
<1>4. PumpInv'
  BY DEF PumpInv, PumpsLive, RunnerTypeOK
<1>5. LineInv'
  <2>1. logged \in [Streams -> Nat] /\ pump \in [Streams -> PumpStates]
    BY DEF RunnerTypeOK
  <2>2. ASSUME NEW r \in Streams, Working(r)'
        PROVE  /\ Working(r)
               /\ logged'[r] + (IF pump'[r] = "insert" THEN 1 ELSE 0)
                   = logged[r] + (IF pump[r] = "insert" THEN 1 ELSE 0)
               /\ logged'[r] \in Nat
    BY <2>1, <2>2 DEF Working
  <2> QED
    BY <2>1, <2>2, LineFrame
<1>6. ChildGoneAtReturn' /\ OutcomeIsWritten' /\ NoFalseSuccess'
  BY DEF ChildGoneAtReturn, OutcomeIsWritten, NoFalseSuccess, PumpsLive, RunnerTypeOK
<1> QED
  BY <1>1, <1>2, <1>3, <1>4, <1>5, <1>6

(* The notify begins, or the connection is taken and the pump dies. *)
LEMMA NotifyBeginsCore ==
  ASSUME RunCore, NEW s \in Streams, NotifyBegins(s)
  PROVE  RunCore'
<1> USE DEF NotifyBegins, BeginStatement, Usable, procVars, pumpVars, runVars, killVars,
            RunCore
<1>1. RunnerTypeOK'
  <2>1. pump' \in [Streams -> PumpStates] /\ conn' \in Streams \cup {"nobody"}
    BY DEF RunnerTypeOK, PumpStates
  <2> QED
    BY <2>1 DEF RunnerTypeOK
<1>2. ConnInv'
  BY DEF ConnInv, RunnerTypeOK, Streams
<1>3. PhaseInv'
  BY DEF PhaseInv
<1>4. PumpInv'
  BY DEF PumpInv, PumpsLive, RunnerTypeOK
<1>5. LineInv'
  <2>1. logged \in [Streams -> Nat] /\ pump \in [Streams -> PumpStates]
    BY DEF RunnerTypeOK
  <2>2. ASSUME NEW r \in Streams, Working(r)'
        PROVE  /\ Working(r)
               /\ logged'[r] + (IF pump'[r] = "insert" THEN 1 ELSE 0)
                   = logged[r] + (IF pump[r] = "insert" THEN 1 ELSE 0)
               /\ logged'[r] \in Nat
    BY <2>1, <2>2 DEF Working
  <2> QED
    BY <2>1, <2>2, LineFrame
<1>6. ChildGoneAtReturn' /\ OutcomeIsWritten' /\ NoFalseSuccess'
  BY DEF ChildGoneAtReturn, OutcomeIsWritten, NoFalseSuccess, PumpsLive, RunnerTypeOK
<1> QED
  BY <1>1, <1>2, <1>3, <1>4, <1>5, <1>6

(* The notify ends and the pump reads again. *)
LEMMA NotifyDoneCore ==
  ASSUME RunCore, NEW s \in Streams, NotifyDone(s)
  PROVE  RunCore'
<1> USE DEF NotifyDone, procVars, pumpVars, runVars, killVars, RunCore
<1>1. RunnerTypeOK'
  BY DEF RunnerTypeOK, PumpStates
<1>2. ConnInv'
  BY DEF ConnInv, RunnerTypeOK, Streams
<1>3. PhaseInv'
  BY DEF PhaseInv
<1>4. PumpInv'
  BY DEF PumpInv, PumpsLive, RunnerTypeOK
<1>5. LineInv'
  BY DEF LineInv, Working, RunnerTypeOK
<1>6. ChildGoneAtReturn' /\ OutcomeIsWritten' /\ NoFalseSuccess'
  BY DEF ChildGoneAtReturn, OutcomeIsWritten, NoFalseSuccess, PumpsLive, RunnerTypeOK
<1> QED
  BY <1>1, <1>2, <1>3, <1>4, <1>5, <1>6

(* A statement raises: its pump is dead and the connection free. *)
LEMMA StatementRaisesCore ==
  ASSUME RunCore, NEW s \in Streams, StatementRaises(s)
  PROVE  RunCore'
<1> USE DEF StatementRaises, procVars, pumpVars, runVars, killVars, RunCore
<1>1. RunnerTypeOK'
  BY DEF RunnerTypeOK, PumpStates
<1>2. ConnInv'
  BY DEF ConnInv, RunnerTypeOK, Streams
<1>3. PhaseInv'
  BY DEF PhaseInv
<1>4. PumpInv'
  BY DEF PumpInv, PumpsLive, RunnerTypeOK, ConnInv
<1>5. LineInv'
  BY DEF LineInv, Working, RunnerTypeOK
<1>6. ChildGoneAtReturn' /\ OutcomeIsWritten' /\ NoFalseSuccess'
  BY DEF ChildGoneAtReturn, OutcomeIsWritten, NoFalseSuccess, PumpsLive, RunnerTypeOK
<1> QED
  BY <1>1, <1>2, <1>3, <1>4, <1>5, <1>6

(* A pump that sees the end of its pipe leaves nothing in it. *)
LEMMA PumpEndsCore ==
  ASSUME RunCore, NEW s \in Streams, PumpEnds(s)
  PROVE  RunCore'
<1> USE DEF PumpEnds, Ended, procVars, pumpVars, runVars, killVars, RunCore
<1>1. RunnerTypeOK'
  BY DEF RunnerTypeOK, PumpStates
<1>2. ConnInv'
  BY DEF ConnInv, RunnerTypeOK, Streams
<1>3. PhaseInv'
  BY DEF PhaseInv
<1>4. PumpInv'
  BY DEF PumpInv, PumpsLive, RunnerTypeOK
<1>5. LineInv'
  BY DEF LineInv, Working, RunnerTypeOK
<1>6. ChildGoneAtReturn' /\ OutcomeIsWritten' /\ NoFalseSuccess'
  BY DEF ChildGoneAtReturn, OutcomeIsWritten, NoFalseSuccess, PumpsLive, RunnerTypeOK
<1> QED
  BY <1>1, <1>2, <1>3, <1>4, <1>5, <1>6

(* SIGKILL: a child that was alive is dead. *)
LEMMA GraceOverCore ==
  ASSUME RunCore, NEW k \in Killers, GraceOver(k)
  PROVE  RunCore'
<1> USE DEF GraceOver, procVars, pumpVars, runVars, killVars, RunCore
<1>1. RunnerTypeOK'
  <2>1. kill' \in [Killers -> {"idle", "grace", "reap", "done"}]
    BY DEF RunnerTypeOK
  <2> QED
    BY <2>1 DEF RunnerTypeOK
<1>2. ConnInv'
  BY DEF ConnInv
<1>3. PhaseInv'
  BY DEF PhaseInv, RunnerTypeOK, Killers
<1>4. PumpInv'
  BY DEF PumpInv, PumpsLive
<1>5. LineInv'
  BY DEF LineInv, Working
<1>6. ChildGoneAtReturn' /\ OutcomeIsWritten' /\ NoFalseSuccess'
  BY DEF ChildGoneAtReturn, OutcomeIsWritten, NoFalseSuccess, PumpsLive, RunnerTypeOK,
     PhaseInv, Killers
<1> QED
  BY <1>1, <1>2, <1>3, <1>4, <1>5, <1>6

(* wait() returned: the child is dead. *)
LEMMA ReapedCore ==
  ASSUME RunCore, NEW k \in Killers, Reaped(k)
  PROVE  RunCore'
<1> USE DEF Reaped, procVars, pumpVars, runVars, killVars, RunCore
<1>1. RunnerTypeOK'
  BY DEF RunnerTypeOK
<1>2. ConnInv'
  BY DEF ConnInv
<1>3. PhaseInv'
  BY DEF PhaseInv, RunnerTypeOK, Killers, Waited, Ended, Streams
<1>4. PumpInv'
  BY DEF PumpInv, PumpsLive
<1>5. LineInv'
  BY DEF LineInv, Working
<1>6. ChildGoneAtReturn' /\ OutcomeIsWritten' /\ NoFalseSuccess'
  BY DEF ChildGoneAtReturn, OutcomeIsWritten, NoFalseSuccess, PumpsLive, RunnerTypeOK,
     PhaseInv, Killers
<1> QED
  BY <1>1, <1>2, <1>3, <1>4, <1>5, <1>6

(* cancel(): SIGTERM, if there is a child. *)
LEMMA CancelCore ==
  ASSUME RunCore, Cancel
  PROVE  RunCore'
<1> USE DEF Cancel, TerminateBegins, Terminated, procVars, pumpVars, runVars, killVars,
            RunCore
<1>1. RunnerTypeOK'
  BY DEF RunnerTypeOK, Killers
<1>2. ConnInv'
  BY DEF ConnInv
<1>3. PhaseInv'
  BY DEF PhaseInv, RunnerTypeOK, Killers
<1>4. PumpInv'
  BY DEF PumpInv, PumpsLive
<1>5. LineInv'
  BY DEF LineInv, Working
<1>6. ChildGoneAtReturn' /\ OutcomeIsWritten' /\ NoFalseSuccess'
  BY DEF ChildGoneAtReturn, OutcomeIsWritten, NoFalseSuccess, PumpsLive, RunnerTypeOK,
     PhaseInv, Killers
<1> QED
  BY <1>1, <1>2, <1>3, <1>4, <1>5, <1>6

(* The child is started. *)
LEMMA SpawnCore ==
  ASSUME RunCore, Spawn
  PROVE  RunCore'
<1> USE DEF Spawn, procVars, pumpVars, runVars, killVars, RunCore
<1>1. RunnerTypeOK'
  BY DEF RunnerTypeOK
<1>2. ConnInv'
  BY DEF ConnInv
<1>3. PhaseInv'
  BY DEF PhaseInv
<1>4. PumpInv'
  BY DEF PumpInv, PumpsLive
<1>5. LineInv'
  BY DEF LineInv, Working
<1>6. ChildGoneAtReturn' /\ OutcomeIsWritten' /\ NoFalseSuccess'
  BY DEF ChildGoneAtReturn, OutcomeIsWritten, NoFalseSuccess, PumpsLive, PhaseInv
<1> QED
  BY <1>1, <1>2, <1>3, <1>4, <1>5, <1>6

(* Nothing is started. *)
LEMMA SpawnFailsCore ==
  ASSUME RunCore, SpawnFails
  PROVE  RunCore'
<1> USE DEF SpawnFails, Raise, procVars, pumpVars, runVars, killVars, RunCore
<1>1. RunnerTypeOK'
  BY DEF RunnerTypeOK
<1>2. ConnInv'
  BY DEF ConnInv
<1>3. PhaseInv'
  BY DEF PhaseInv
<1>4. PumpInv'
  BY DEF PumpInv, PumpsLive
<1>5. LineInv'
  BY DEF LineInv, Working
<1>6. ChildGoneAtReturn' /\ OutcomeIsWritten' /\ NoFalseSuccess'
  BY DEF ChildGoneAtReturn, OutcomeIsWritten, NoFalseSuccess, PumpsLive, PhaseInv
<1> QED
  BY <1>1, <1>2, <1>3, <1>4, <1>5, <1>6

(* The pumps start on what is in the pipes. *)
LEMMA FeedCore ==
  ASSUME RunCore, Feed
  PROVE  RunCore'
<1> USE DEF Feed, procVars, pumpVars, runVars, killVars, RunCore
<1>1. RunnerTypeOK'
  BY DEF RunnerTypeOK, PumpStates
<1>2. ConnInv'
  BY DEF ConnInv, PumpInv, Streams
<1>3. PhaseInv'
  BY DEF PhaseInv, RunnerTypeOK
<1>4. PumpInv'
  BY DEF PumpInv, PumpsLive, PhaseInv, RunnerTypeOK
<1>5. LineInv'
  <2>1. \A r \in Streams : pump[r] = "unborn" /\ pump'[r] = "read"
    BY DEF PumpInv
  <2>2. Working("out")
    BY <2>1 DEF Working, Streams
  <2> QED
    BY <2>1, <2>2 DEF LineInv, Working
<1>6. ChildGoneAtReturn' /\ OutcomeIsWritten' /\ NoFalseSuccess'
  BY DEF ChildGoneAtReturn, OutcomeIsWritten, NoFalseSuccess, PumpsLive, PhaseInv, PumpInv,
     Streams
<1> QED
  BY <1>1, <1>2, <1>3, <1>4, <1>5, <1>6

(* The child is gone before it was fed. *)
LEMMA FeedFailsCore ==
  ASSUME RunCore, FeedFails
  PROVE  RunCore'
<1> USE DEF FeedFails, Raise, procVars, pumpVars, runVars, killVars, RunCore
<1>1. RunnerTypeOK'
  BY DEF RunnerTypeOK
<1>2. ConnInv'
  BY DEF ConnInv
<1>3. PhaseInv'
  BY DEF PhaseInv
<1>4. PumpInv'
  BY DEF PumpInv, PumpsLive
<1>5. LineInv'
  BY DEF LineInv, Working
<1>6. ChildGoneAtReturn' /\ OutcomeIsWritten' /\ NoFalseSuccess'
  BY DEF ChildGoneAtReturn, OutcomeIsWritten, NoFalseSuccess, PumpsLive, PhaseInv
<1> QED
  BY <1>1, <1>2, <1>3, <1>4, <1>5, <1>6

(* The time is over: SIGTERM, if the child has not exited. *)
LEMMA TimeoutCore ==
  ASSUME RunCore, Timeout
  PROVE  RunCore'
<1> USE DEF Timeout, TerminateBegins, Terminated, procVars, pumpVars, runVars, killVars,
            RunCore
<1>1. RunnerTypeOK'
  BY DEF RunnerTypeOK, Killers
<1>2. ConnInv'
  BY DEF ConnInv
<1>3. PhaseInv'
  BY DEF PhaseInv, RunnerTypeOK, Killers
<1>4. PumpInv'
  BY DEF PumpInv, PumpsLive
<1>5. LineInv'
  BY DEF LineInv, Working
<1>6. ChildGoneAtReturn' /\ OutcomeIsWritten' /\ NoFalseSuccess'
  BY DEF ChildGoneAtReturn, OutcomeIsWritten, NoFalseSuccess, PumpsLive, RunnerTypeOK,
     PhaseInv, Killers
<1> QED
  BY <1>1, <1>2, <1>3, <1>4, <1>5, <1>6

(* _terminate is done, so the child is dead; the pumps are stopped. *)
LEMMA TimeoutReturnsCore ==
  ASSUME RunCore, TimeoutReturns
  PROVE  RunCore'
<1> USE DEF TimeoutReturns, Gathered, procVars, pumpVars, runVars, killVars, RunCore
<1>1. RunnerTypeOK'
  BY DEF RunnerTypeOK, PumpStates, Streams
<1>2. ConnInv'
  BY DEF ConnInv, PumpInv, Streams, RunnerTypeOK
<1>3. PhaseInv'
  BY DEF PhaseInv, RunnerTypeOK
<1>4. PumpInv'
  BY DEF PumpInv, PumpsLive, PhaseInv, RunnerTypeOK
<1>5. LineInv'
  <2>1. CASE Gathered
    BY <2>1 DEF LineInv, Working
  <2>2. CASE ~Gathered
    <3>1. \A r \in Streams : Working(r)' => pump[r] = "eof" /\ pump'[r] = "eof"
      BY <2>2 DEF Working
    <3>2. "out" \in Streams
      BY DEF Streams
    <3> QED
      BY <3>1, <3>2 DEF LineInv, Working
  <2> QED
    BY <2>1, <2>2
<1>6. ChildGoneAtReturn' /\ OutcomeIsWritten' /\ NoFalseSuccess'
  BY DEF ChildGoneAtReturn, OutcomeIsWritten, NoFalseSuccess, PumpsLive, RunnerTypeOK,
     PhaseInv, PumpInv, Streams
<1> QED
  BY <1>1, <1>2, <1>3, <1>4, <1>5, <1>6

(* The child has exited. *)
LEMMA ChildWaitedCore ==
  ASSUME RunCore, ChildWaited
  PROVE  RunCore'
<1> USE DEF ChildWaited, procVars, pumpVars, runVars, killVars, RunCore
<1>1. RunnerTypeOK'
  BY DEF RunnerTypeOK
<1>2. ConnInv'
  BY DEF ConnInv
<1>3. PhaseInv'
  BY DEF PhaseInv, Waited, Ended, Streams
<1>4. PumpInv'
  BY DEF PumpInv, PumpsLive
<1>5. LineInv'
  BY DEF LineInv, Working
<1>6. ChildGoneAtReturn' /\ OutcomeIsWritten' /\ NoFalseSuccess'
  BY DEF ChildGoneAtReturn, OutcomeIsWritten, NoFalseSuccess, PumpsLive
<1> QED
  BY <1>1, <1>2, <1>3, <1>4, <1>5, <1>6

(* Both pumps are done, or one has died, and the child is dead. *)
LEMMA ReturnCore ==
  ASSUME RunCore, Return
  PROVE  RunCore'
<1> USE DEF Return, Gathered, Outcomes, procVars, pumpVars, runVars, killVars, RunCore
<1>1. RunnerTypeOK'
  BY DEF RunnerTypeOK
<1>2. ConnInv'
  BY DEF ConnInv
<1>3. PhaseInv'
  BY DEF PhaseInv, RunnerTypeOK
<1>4. PumpInv'
  BY DEF PumpInv, PumpsLive, RunnerTypeOK
<1>5. LineInv'
  BY DEF LineInv, Working
<1>6. ChildGoneAtReturn' /\ OutcomeIsWritten' /\ NoFalseSuccess'
  BY DEF ChildGoneAtReturn, OutcomeIsWritten, NoFalseSuccess, PumpsLive, RunnerTypeOK,
     PhaseInv
<1> QED
  BY <1>1, <1>2, <1>3, <1>4, <1>5, <1>6

(* The outcome is written unless a pump is in a statement, and then one has died. *)
LEMMA SettleCore ==
  ASSUME RunCore, Settle
  PROVE  RunCore'
<1> USE DEF Settle, procVars, pumpVars, runVars, killVars, RunCore
<1>1. RunnerTypeOK'
  BY DEF RunnerTypeOK
<1>2. ConnInv'
  BY DEF ConnInv
<1>3. PhaseInv'
  BY DEF PhaseInv
<1>4. PumpInv'
  BY DEF PumpInv, PumpsLive
<1>5. LineInv'
  BY DEF LineInv, Working
<1>6. ChildGoneAtReturn' /\ OutcomeIsWritten' /\ NoFalseSuccess'
  BY DEF ChildGoneAtReturn, OutcomeIsWritten, NoFalseSuccess, PumpsLive, RunnerTypeOK,
     PumpInv, ConnInv, Streams
<1> QED
  BY <1>1, <1>2, <1>3, <1>4, <1>5, <1>6

(* A line is read: what the pipe loses, the hand of the pump, the collected    *)
(* events or nothing (a progress line) gains, unless the pump dies of it.      *)
LEMMA PumpReadsCore ==
  ASSUME ConstantsOK, RunCore, NEW s \in Streams, PumpReads(s)
  PROVE  RunCore'
<1> DEFINE line == Head(pipe[s])
<1> USE DEF RunCore, runVars, killVars
<1>1. /\ pump[s] = "read" /\ pipe[s] # << >>
      /\ pipe' = [pipe EXCEPT ![s] = Tail(@)]
      /\ UNCHANGED <<child, code, said, desc, written, logged, run, result, settled,
                     cancelled, kill>>
  BY DEF PumpReads
<1>2. pipe \in [Streams -> Seq(Lines)] /\ \A r \in Streams : Len(pipe[r]) <= PipeLines
  BY DEF RunnerTypeOK, Lines
<1>3. /\ pipe'[s] = Tail(pipe[s]) /\ \A r \in Streams \ {s} : pipe'[r] = pipe[r]
      /\ line \in Lines /\ Tail(pipe[s]) \in Seq(Lines)
      /\ Len(Tail(pipe[s])) = Len(pipe[s]) - 1 /\ Len(pipe[s]) \in Nat \ {0}
      /\ line = pipe[s][1]
      /\ \A i \in 1..Len(Tail(pipe[s])) : Tail(pipe[s])[i] = pipe[s][i + 1]
  BY <1>1, <1>2, HeadTailProperties
<1>4. pipe' \in [Streams -> Seq(Lines)]
  BY <1>1, <1>2, <1>3
<1>5. Cardinality(LogLines(pipe[s]))
        = Cardinality(LogLines(pipe'[s])) + IF line = "log" THEN 1 ELSE 0
  BY <1>1, <1>2, <1>3, LinesTail
<1>6. \/ line \in {"log", "progress"} /\ collected' = collected
         /\ \/ /\ pump' = [pump EXCEPT ![s] = IF line = "log" THEN "insert" ELSE "notify"]
               /\ conn = "nobody" /\ conn' = s
            \/ pump' = [pump EXCEPT ![s] = "dead"] /\ conn' = conn
      \/ /\ line \in {"result", "error"} /\ collected' = collected \cup {line}
         /\ pump' = pump /\ conn' = conn
  BY DEF PumpReads, BeginStatement, Usable
<1>7. pump \in [Streams -> PumpStates] /\ logged \in [Streams -> Nat]
  BY DEF RunnerTypeOK
<1>8. RunnerTypeOK'
  <2>1. pump' \in [Streams -> PumpStates] /\ conn' \in Streams \cup {"nobody"}
    BY <1>6 DEF RunnerTypeOK, PumpStates
  <2>2. collected' \subseteq {"result", "error"}
    BY <1>6 DEF RunnerTypeOK
  <2>3. \A r \in Streams : Len(pipe'[r]) <= PipeLines
    <3> TAKE r \in Streams
    <3>1. CASE r = s
      BY <1>2, <1>3, <3>1 DEF ConstantsOK
    <3>2. CASE r # s
      BY <1>2, <1>3, <3>2
    <3> QED
      BY <3>1, <3>2
  <2> QED
    BY <1>1, <1>4, <2>1, <2>2, <2>3 DEF RunnerTypeOK, Lines
<1>9. ConnInv'
  BY <1>1, <1>6, <1>7 DEF ConnInv, RunnerTypeOK, Streams
<1>10. PhaseInv' /\ ChildGoneAtReturn' /\ NoFalseSuccess'
  BY <1>1 DEF PhaseInv, ChildGoneAtReturn, NoFalseSuccess
<1>11. PumpInv' /\ OutcomeIsWritten'
  BY <1>1, <1>3, <1>6, <1>7 DEF PumpInv, OutcomeIsWritten, PumpsLive
<1>12. LineInv'
  <2>1. ASSUME NEW r \in Streams, Working(r)'
        PROVE  written[r] = logged[r] + Cardinality(LogLines(pipe'[r]))
                                      + IF pump'[r] = "insert" THEN 1 ELSE 0
    <3>1. Working(r)
      BY <1>1, <1>6, <1>7, <2>1 DEF Working
    <3>2. written[r] = logged[r] + Cardinality(LogLines(pipe[r]))
                                 + IF pump[r] = "insert" THEN 1 ELSE 0
      BY <3>1 DEF LineInv
    <3>3. Cardinality(LogLines(pipe[r])) \in Nat /\ Cardinality(LogLines(pipe'[r])) \in Nat
      BY <1>2, <1>4, LinesFinite
    <3>4. CASE r = s
      <4>1. pump[r] = "read" /\ (pump'[r] = "insert" <=> line = "log")
        BY <1>1, <1>6, <1>7, <2>1, <3>4 DEF Working
      <4> QED
        BY <1>5, <1>7, <3>2, <3>3, <3>4, <4>1
    <3>5. CASE r # s
      <4>1. pipe'[r] = pipe[r] /\ pump'[r] = pump[r]
        BY <1>3, <1>6, <1>7, <3>5
      <4> QED
        BY <3>2, <4>1
    <3> QED
      BY <3>4, <3>5
  <2>2. ASSUME said = "result", Working("out")'
        PROVE  "result" \in collected' \/ \E i \in DOMAIN pipe'["out"] : pipe'["out"][i] = "result"
    <3>1. Working("out")
      BY <1>1, <1>6, <1>7, <2>2 DEF Working, Streams
    <3>2. CASE "result" \in collected
      BY <1>6, <3>2
    <3>3. CASE \E i \in DOMAIN pipe["out"] : pipe["out"][i] = "result"
      <4>1. PICK i \in DOMAIN pipe["out"] : pipe["out"][i] = "result"
        BY <3>3
      <4>2. CASE s # "out"
        BY <1>3, <4>1, <4>2 DEF Streams
      <4>3. CASE s = "out" /\ i = 1
        <5>1. line = "result"
          BY <1>3, <4>1, <4>3
        <5> QED
          BY <1>6, <5>1
      <4>4. CASE s = "out" /\ i # 1
        <5>1. i \in 1..Len(pipe[s])
          BY <1>2, <4>1, <4>4
        <5>2. i - 1 \in 1..Len(Tail(pipe[s])) /\ (i - 1) + 1 = i
          BY <1>3, <4>4, <5>1
        <5>3. pipe'[s][i - 1] = "result" /\ i - 1 \in DOMAIN pipe'[s]
          BY <1>3, <4>1, <4>4, <5>2
        <5> QED
          BY <4>4, <5>3
      <4> QED
        BY <4>2, <4>3, <4>4
    <3> QED
      BY <2>2, <3>1, <3>2, <3>3 DEF LineInv
  <2> QED
    BY <1>1, <2>1, <2>2 DEF LineInv
<1> QED
  BY <1>8, <1>9, <1>10, <1>11, <1>12

(* While both pumps live, a complete run left nothing in its pipes. *)
LEMMA CoreNothingLost == RunCore => NothingLost
<1> SUFFICES ASSUME RunCore, result = "complete", PumpsLive
             PROVE  /\ said = "result" => "result" \in collected
                    /\ \A s \in Streams : logged[s] = written[s]
  BY DEF NothingLost
<1> USE DEF RunCore
<1>1. \A s \in Streams : pump[s] = "eof" /\ pipe[s] = << >>
  BY DEF PhaseInv, PumpInv
<1>2. \A s \in Streams : Cardinality(LogLines(pipe[s])) = 0
  <2>1. LogLines(<< >>) = {}
    BY DEF LogLines
  <2> QED
    BY <1>1, <2>1, FS_EmptySet
<1>3. \A s \in Streams : logged[s] = written[s]
  <2> TAKE s \in Streams
  <2>1. Working(s) /\ pump[s] # "insert" /\ logged[s] \in Nat
    BY <1>1 DEF Working, RunnerTypeOK
  <2>2. written[s] = logged[s] + Cardinality(LogLines(pipe[s])) + 0
    BY <2>1 DEF LineInv
  <2> QED
    BY <1>2, <2>1, <2>2
<1>4. said = "result" => "result" \in collected
  <2>1. Working("out") /\ DOMAIN pipe["out"] = {}
    BY <1>1 DEF Working, Streams
  <2> QED
    BY <2>1 DEF LineInv
<1> QED
  BY <1>3, <1>4

(* Every step of the run, of the workspace and of the pumps keeps the invariant. *)
LEMMA NextRun == ASSUME ConstantsOK, RunCore, [RunnerNext]_runnerVars PROVE RunCore'
<1>1. CASE Child
  BY <1>1, ChildWritesCore, ChildReportsCore, ChildExitsCore, DescendantStartsCore,
     DescendantExitsCore DEF Child, Streams
<1>2. CASE Run
  BY <1>2, SpawnCore, SpawnFailsCore, FeedCore, FeedFailsCore, TimeoutCore,
     TimeoutReturnsCore, ChildWaitedCore, ReturnCore, SettleCore DEF Run
<1>3. CASE Cancel
  BY <1>3, CancelCore
<1>4. ASSUME NEW s \in Streams, Pump(s) \/ StatementRaises(s) PROVE RunCore'
  BY <1>4, PumpReadsCore, InsertDoneCore, NotifyBeginsCore, NotifyDoneCore,
     PumpEndsCore, StatementRaisesCore DEF Pump
<1>5. ASSUME NEW k \in Killers, Terminate(k) PROVE RunCore'
  BY <1>5, GraceOverCore, ReapedCore DEF Terminate
<1>6. CASE UNCHANGED runnerVars
  BY <1>6 DEF RunCore, RunnerTypeOK, ConnInv, PhaseInv, PumpInv, PumpsLive, LineInv,
     Working,
     ChildGoneAtReturn, OutcomeIsWritten, NoFalseSuccess, runnerVars
<1> QED
  BY <1>1, <1>2, <1>3, <1>4, <1>5, <1>6 DEF RunnerNext

(* runner.py, for pipes of any size and any number of lines: run() leaves no   *)
(* child behind, and while no pump has died the log is whole and the outcome   *)
(* written.                                                                    *)
THEOREM RunInvariance == RunnerSpec => []RunnerInv
<1> ConstantsOK
  BY ConstantsAssumption
<1>1. RunnerInit => RunCore
  BY InitRun
<1>2. RunCore /\ [RunnerNext]_runnerVars => RunCore'
  BY NextRun
<1>3. RunCore => RunnerInv
  BY CoreNothingLost DEF RunCore, RunnerInv
<1> QED
  BY <1>1, <1>2, <1>3, PTL DEF RunnerSpec

(* runner.py run: "complete" is said only of a run that nobody cancelled, that *)
(* did not time out and whose workspace did not fail.                          *)
THEOREM CompleteIsTrue == RunnerSpec => []NoFalseSuccess
<1> ConstantsOK
  BY ConstantsAssumption
<1>1. RunnerInit => RunCore
  BY InitRun
<1>2. RunCore /\ [RunnerNext]_runnerVars => RunCore'
  BY NextRun
<1>3. RunCore => NoFalseSuccess
  BY DEF RunCore
<1> QED
  BY <1>1, <1>2, <1>3, PTL DEF RunnerSpec
=============================================================================
