-------------------------- MODULE SubmissionProofs --------------------------
(***************************************************************************)
(* Submission for any number of requests, keys, accounts and repositories: *)
(* one job per idempotency key, uploads that stay, complete job lists.     *)
(*                                                                         *)
(* The second part is about Schedules.                                     *)
(***************************************************************************)
EXTENDS Submission, Schedules, SequenceTheorems, FiniteSetTheorems, WellFoundedInduction, TLAPS

USE LimitAssumption, ScopeAssumption, NoKeyAssumption, NoFileAssumption

(* Neither part is inductive alone: a key that names a job says that no other *)
(* job has it only together with the rows, and the rows are written under it. *)
IndInv == SubmissionInv /\ OneJobPerKey

(* An empty database and no request in progress. *)
LEMMA InitInd == Init => IndInv
<1> SUFFICES ASSUME Init PROVE IndInv
  OBVIOUS
<1> USE DEF Init, Ids, NoRequest, NoPage
<1>1. Len(jobs) = 0 /\ jobs \in Seq(JobRow)
  BY DEF JobRow
<1>2. TypeOK
  <2>1. keys \in [Keys \X Accounts -> 0..Len(jobs)]
    BY <1>1
  <2>2. req \in [Requests -> RequestRow(Len(jobs))]
    BY <1>1 DEF RequestRow
  <2>3. page \in [pc : {"idle", "rows", "done"}, allowed : SUBSET Repos,
                 before : SUBSET Ids, rows : SUBSET Ids]
    OBVIOUS
  <2> QED
    BY <1>1, <2>1, <2>2, <2>3 DEF TypeOK
<1>3. KeyInv /\ UploadsKept /\ ListingComplete /\ OneJobPerKey
  BY <1>1 DEF KeyInv, UploadsKept, ListingComplete, OneJobPerKey, Existing, KeyHeld
<1> QED
  BY <1>2, <1>3 DEF IndInv, SubmissionInv

(* A step of one request that stays outside the two tables.  The request    *)
(* keeps its identity, and answers for a key only with the key's job.       *)
LEMMA MoveInd ==
  ASSUME IndInv, NEW q \in Requests, NEW r \in RequestRow(Len(jobs)),
         Move(q, r), UNCHANGED <<jobs, keys, up, page>>,
         files \subseteq files', files' \subseteq Requests,
         r.pc # "idle" /\ r.account \in Accounts /\ r.repo \in Repos,
         r.file = NoFile \/ r.file \in files',
         r.pc = "commit" => /\ r.key = req[q].key /\ r.account = req[q].account
                            /\ Existing(r) = 0 /\ ~KeyHeld(q),
         r.pc = "race" => Existing(r) # 0,
         (r.pc = "announce" \/ r.ans = "202") /\ r.key # NoKey =>
             Existing(r) # 0 /\ r.job = Existing(r)
  PROVE  IndInv'
<1> USE DEF IndInv, SubmissionInv, Move
<1>1. TypeOK'
  BY DEF TypeOK, Ids
<1>2. \A p \in Requests : req'[p] = IF p = q THEN r ELSE req[p]
  BY DEF TypeOK
<1>3. \A x : Existing(x)' = Existing(x)
  BY DEF Existing
<1>4. KeyInv'
  <2>1. \A k \in Keys, a \in Accounts : (keys[<<k, a>>] # 0 =>
          jobs[keys[<<k, a>>]].key = k /\ jobs[keys[<<k, a>>]].account = a)'
    BY DEF KeyInv
  <2>2. ASSUME NEW p \in Requests, req'[p].pc = "commit"
        PROVE  Existing(req[p])' = 0 /\ ~KeyHeld(p)'
    <3>1. CASE p = q
      BY <1>2, <1>3, <2>2, <3>1 DEF KeyInv, KeyHeld
    <3>2. CASE p # q
      BY <1>2, <1>3, <2>2, <3>2 DEF KeyInv, KeyHeld
    <3> QED
      BY <3>1, <3>2
  <2>3. ASSUME NEW p \in Requests
        PROVE  /\ req'[p].pc = "race" => Existing(req[p])' # 0
               /\ (req'[p].pc = "announce" \/ req'[p].ans = "202") /\ req'[p].key # NoKey =>
                      Existing(req[p])' # 0 /\ req'[p].job = Existing(req[p])'
    BY <1>2, <1>3 DEF KeyInv
  <2> QED
    BY <2>1, <2>2, <2>3 DEF KeyInv
<1>5. UploadsKept'
  BY <1>2 DEF UploadsKept, Ids
<1>6. ListingComplete'
  BY DEF ListingComplete
<1>7. OneJobPerKey'
  BY <1>1, <1>2, <1>4 DEF OneJobPerKey, KeyInv, Existing, Ids, TypeOK, RequestRow
<1> QED
  BY <1>1, <1>4, <1>5, <1>6, <1>7

-----------------------------------------------------------------------------
(* The commit of a submission: the key was free and nobody else had it, so  *)
(* the new job is the key's only one.                                       *)
LEMMA CommitInd ==
  ASSUME IndInv, NEW q \in Requests, Commit(q) PROVE IndInv'
<1> DEFINE n == Len(jobs)
           r == [repo |-> req[q].repo, file |-> req[q].file,
                 key |-> req[q].key, account |-> req[q].account]
           x == [req[q] EXCEPT !.pc = "announce", !.job = n + 1]
<1> USE DEF IndInv, SubmissionInv
<1>1. /\ req[q].pc = "commit" /\ Existing(req[q]) = 0 /\ ~KeyHeld(q)
      /\ req[q].account \in Accounts /\ req[q].repo \in Repos
      /\ req[q] \in RequestRow(n) /\ n \in Nat
  BY DEF Commit, KeyInv, TypeOK
<1>2. /\ jobs' \in Seq(JobRow) /\ Len(jobs') = n + 1
      /\ \A j \in 1..n : jobs'[j] = jobs[j]
      /\ jobs'[n + 1] = r
  <2>1. r \in JobRow /\ jobs \in Seq(JobRow) /\ jobs' = Append(jobs, r)
    BY <1>1 DEF Commit, JobRow, RequestRow, TypeOK
  <2> HIDE DEF r
  <2> QED
    BY <2>1, AppendProperties
<1>3. /\ \A p \in Requests : req'[p] = IF p = q THEN x ELSE req[p]
      /\ x \in RequestRow(n + 1)
      /\ x.pc = "announce" /\ x.job = n + 1 /\ x.key = req[q].key
      /\ x.account = req[q].account /\ x.repo = req[q].repo /\ x.file = req[q].file
      /\ UNCHANGED <<up, files, page>>
  <2>1. /\ x \in RequestRow(n + 1)
        /\ x.pc = "announce" /\ x.job = n + 1 /\ x.key = req[q].key
        /\ x.account = req[q].account /\ x.repo = req[q].repo /\ x.file = req[q].file
    <3>1. req[q] \in RequestRow(n + 1) /\ n + 1 \in 0..(n + 1)
      BY <1>1 DEF RequestRow
    <3> HIDE DEF n
    <3> QED
      BY <3>1 DEF RequestRow
  <2>2. /\ req' = [req EXCEPT ![q] = x]
        /\ UNCHANGED <<up, files, page>>
    BY DEF Commit, Move
  <2> HIDE DEF x
  <2> QED
    BY <2>1, <2>2 DEF TypeOK
<1> HIDE DEF x
<1>4. /\ keys' \in [Keys \X Accounts -> 0..(n + 1)]
      /\ \A k \in Keys, a \in Accounts :
            keys'[<<k, a>>] = IF k = req[q].key /\ a = req[q].account THEN n + 1
                              ELSE keys[<<k, a>>]
  <2>1. keys \in [Keys \X Accounts -> 0..n]
    BY DEF TypeOK
  <2>2. CASE req[q].key = NoKey
    BY <1>1, <2>1, <2>2 DEF Commit
  <2>3. CASE req[q].key # NoKey
    <3>1. <<req[q].key, req[q].account>> \in Keys \X Accounts
      BY <1>1, <2>3 DEF RequestRow
    <3> QED
      BY <1>1, <2>1, <2>3, <3>1 DEF Commit
  <2> QED
    BY <2>2, <2>3
<1>5. TypeOK'
  <2>1. req' \in [Requests -> RequestRow(n + 1)]
    <3>1. \A p \in Requests : req[p] \in RequestRow(n + 1)
      BY <1>1 DEF TypeOK, RequestRow
    <3> QED
      BY <1>3, <3>1 DEF Commit, Move, TypeOK
  <2>2. page' \in [pc : {"idle", "rows", "done"}, allowed : SUBSET Repos,
                  before : SUBSET Ids', rows : SUBSET Ids']
    BY <1>1, <1>2, <1>3 DEF TypeOK, Ids
  <2>3. \A p \in Requests : IF req'[p].pc = "idle" THEN req'[p] = NoRequest
                           ELSE req'[p].account \in Accounts /\ req'[p].repo \in Repos
    BY <1>1, <1>3 DEF TypeOK
  <2> QED
    BY <1>2, <1>3, <1>4, <2>1, <2>2, <2>3 DEF TypeOK
<1>6. \A p \in Requests \ {q} :
        Existing(req[p])' = IF req[p].key = req[q].key /\ req[p].account = req[q].account
                               /\ req[p].key # NoKey
                            THEN n + 1 ELSE Existing(req[p])
  <2> SUFFICES ASSUME NEW p \in Requests \ {q}
               PROVE  Existing(req[p])' =
                          IF req[p].key = req[q].key /\ req[p].account = req[q].account
                             /\ req[p].key # NoKey
                          THEN n + 1 ELSE Existing(req[p])
    OBVIOUS
  <2>1. req'[p] = req[p] /\ req[p].key \in Keys \cup {NoKey}
    BY <1>3 DEF TypeOK, RequestRow
  <2>2. req[p].account \in Accounts \/ req[p].key = NoKey
    BY DEF TypeOK, NoRequest
  <2> QED
    BY <1>4, <2>1, <2>2 DEF Existing
<1>7. KeyInv'
  <2>1. ASSUME NEW k \in Keys, NEW a \in Accounts, keys'[<<k, a>>] # 0
        PROVE  jobs'[keys'[<<k, a>>]].key = k /\ jobs'[keys'[<<k, a>>]].account = a
    <3>1. CASE k = req[q].key /\ a = req[q].account
      BY <1>2, <1>4, <3>1
    <3>2. CASE ~(k = req[q].key /\ a = req[q].account)
      <4>1. keys'[<<k, a>>] = keys[<<k, a>>] /\ keys[<<k, a>>] \in 1..n
        BY <1>1, <1>4, <2>1, <3>2 DEF TypeOK
      <4> QED
        BY <1>2, <4>1 DEF KeyInv
    <3> QED
      BY <3>1, <3>2
  <2>2. ASSUME NEW p \in Requests, req'[p].pc = "commit"
        PROVE  Existing(req[p])' = 0 /\ ~KeyHeld(p)'
    <3>1. p # q /\ req[p].pc = "commit"
      BY <1>1, <1>3, <2>2 DEF RequestRow
    <3>2. ~(req[p].key = req[q].key /\ req[p].account = req[q].account /\ req[p].key # NoKey)
      BY <1>1, <3>1 DEF KeyHeld
    <3>3. Existing(req[p])' = 0
      BY <1>6, <3>1, <3>2 DEF KeyInv
    <3>4. ~KeyHeld(p)'
      <4>1. \A o \in Requests : req'[o].pc = "commit" => req'[o] = req[o]
        BY <1>3
      <4> QED
        BY <1>3, <3>1, <4>1 DEF KeyInv, KeyHeld
    <3> QED
      BY <3>3, <3>4
  <2>3. ASSUME NEW p \in Requests, p # q
        PROVE  /\ req'[p].pc = "race" => Existing(req[p])' # 0
               /\ (req'[p].pc = "announce" \/ req'[p].ans = "202") /\ req'[p].key # NoKey =>
                      Existing(req[p])' # 0 /\ req'[p].job = Existing(req[p])'
    <3>1. req'[p] = req[p]
      BY <1>3, <2>3
    <3>2. Existing(req[p])' = Existing(req[p]) \/ Existing(req[p]) = 0
      BY <1>1, <1>6, <2>3 DEF Existing
    <3>3. Existing(req[p]) # 0 => Existing(req[p])' # 0
      BY <3>2, <1>6, <1>1, <2>3
    <3> QED
      BY <3>1, <3>2, <3>3 DEF KeyInv
  <2>4. /\ req'[q].pc = "announce"
        /\ req'[q].key # NoKey => Existing(req[q])' = n + 1 /\ req'[q].job = n + 1
    <3>1. req'[q] = x /\ x.key = req[q].key /\ x.account = req[q].account /\ x.job = n + 1
          /\ x.pc = "announce" /\ req[q].key \in Keys \cup {NoKey}
      BY <1>1, <1>3 DEF RequestRow
    <3> HIDE DEF x
    <3> QED
      BY <1>1, <1>4, <3>1 DEF Existing
  <2> QED
    BY <1>1, <2>1, <2>2, <2>3, <2>4 DEF KeyInv
<1>8. UploadsKept'
  <2>1. \A j \in 1..(n + 1) : jobs'[j].file = NoFile \/ jobs'[j].file \in files'
    BY <1>1, <1>2, <1>3 DEF UploadsKept, Ids
  <2> QED
    BY <1>2, <1>3, <2>1 DEF UploadsKept, Ids
<1>9. ListingComplete'
  BY <1>1, <1>2, <1>3 DEF ListingComplete, TypeOK, Ids
<1>10. OneJobPerKey'
  <2>1. ASSUME NEW j \in 1..(n + 1), jobs'[j].key # NoKey
        PROVE  keys'[<<jobs'[j].key, jobs'[j].account>>] = j
    <3>1. CASE j = n + 1
      BY <1>1, <1>2, <1>4, <2>1, <3>1 DEF RequestRow
    <3>2. CASE j # n + 1
      <4>1. j \in 1..n /\ jobs'[j] = jobs[j]
        BY <1>1, <1>2, <3>2
      <4>2. jobs[j].key \in Keys /\ jobs[j].account \in Accounts
        <5>1. jobs[j] \in JobRow
          BY <4>1, ElementOfSeq DEF TypeOK
        <5> QED
          BY <2>1, <4>1, <5>1 DEF JobRow
      <4>3. keys[<<jobs[j].key, jobs[j].account>>] = j
        BY <2>1, <4>1 DEF OneJobPerKey, Ids
      <4>4. ~(jobs[j].key = req[q].key /\ jobs[j].account = req[q].account)
        BY <1>1, <4>1, <4>2, <4>3 DEF Existing
      <4> QED
        BY <1>4, <4>1, <4>2, <4>3, <4>4
    <3> QED
      BY <3>1, <3>2
  <2>2. ASSUME NEW p \in Requests, req'[p].ans = "202", req'[p].key # NoKey
        PROVE  /\ req'[p].job = keys'[<<req'[p].key, req'[p].account>>]
               /\ jobs'[req'[p].job].account = req'[p].account
    <3>1. Existing(req[p])' # 0 /\ req'[p].job = Existing(req[p])'
      BY <1>7, <2>2 DEF KeyInv
    <3>2. req'[p].key \in Keys /\ req'[p].account \in Accounts
      BY <1>5, <2>2 DEF TypeOK, RequestRow, NoRequest
    <3> QED
      BY <1>7, <3>1, <3>2 DEF KeyInv, Existing
  <2> QED
    BY <1>2, <2>1, <2>2 DEF OneJobPerKey, Ids
<1> QED
  BY <1>5, <1>7, <1>8, <1>9, <1>10

-----------------------------------------------------------------------------
(* The steps of one request that leave the two tables alone. *)

(* A request begins: nothing was known of it. *)
LEMMA BeginInd ==
  ASSUME IndInv, NEW q \in Requests, NEW a \in Accounts,
         \/ \E kind \in {"submit", "upload"}, k \in Keys \cup {NoKey}, r \in Repos :
                Begin(q, kind, k, a, r)
         \/ \E service \in {"data_streaming", "data_download"}, r \in Repos :
                BeginSync(q, service, a, r)
         \/ \E j \in Ids : Resubmit(q, j, a)
  PROVE  IndInv'
<1>0. /\ req[q] \in RequestRow(Len(jobs))
      /\ req[q].ans = "none" /\ req[q].file = NoFile
  <2>1. req[q].pc = "idle"
    BY DEF Begin, BeginSync, Resubmit
  <2>2. req[q] = NoRequest /\ req[q] \in RequestRow(Len(jobs))
    BY <2>1 DEF IndInv, SubmissionInv, TypeOK
  <2> QED
    BY <2>2 DEF NoRequest
<1> DEFINE Fresh(r) == /\ r \in RequestRow(Len(jobs))
                       /\ r.pc \in {"save", "lookup", "done"} /\ r.ans # "202"
                       /\ r.account \in Accounts /\ r.repo \in Repos
                       /\ r.file = NoFile \/ r.file \in files
<1>1. ASSUME NEW kind \in {"submit", "upload"}, NEW k \in Keys \cup {NoKey}, NEW r \in Repos,
             Begin(q, kind, k, a, r)
      PROVE  \E x : Fresh(x) /\ Move(q, x)
  <2> DEFINE x == [req[q] EXCEPT !.kind = kind, !.key = k, !.account = a, !.repo = r]
  <2>1. CASE Published(ServiceOf(kind), r)
    <3> DEFINE y == [x EXCEPT !.pc = IF kind = "upload" THEN "save" ELSE "lookup"]
    <3>1. Fresh(y)
      BY <1>0, ZenonT(60) DEF RequestRow
    <3>2. Move(q, y)
      BY <1>1, <2>1 DEF Begin
    <3> QED
      BY <3>1, <3>2
  <2>2. CASE ~Published(ServiceOf(kind), r)
    <3> DEFINE y == [x EXCEPT !.pc = "done", !.ans = "404"]
    <3>1. Fresh(y)
      BY <1>0, ZenonT(60) DEF RequestRow
    <3>2. Move(q, y)
      BY <1>1, <2>2 DEF Begin
    <3> QED
      BY <3>1, <3>2
  <2> QED
    BY <2>1, <2>2
<1>2. ASSUME NEW service \in {"data_streaming", "data_download"}, NEW r \in Repos,
             BeginSync(q, service, a, r)
      PROVE  \E x : Fresh(x) /\ Move(q, x)
  <2> DEFINE x == [req[q] EXCEPT !.kind = "sync", !.account = a, !.repo = r]
  <2>1. \/ Move(q, [x EXCEPT !.pc = "done", !.ans = "404"])
        \/ Move(q, [x EXCEPT !.pc = "done", !.ans = "503"])
        \/ Move(q, [x EXCEPT !.pc = "lookup"])
    BY <1>2 DEF BeginSync
  <2>2. Fresh([x EXCEPT !.pc = "done", !.ans = "404"])
    BY <1>0 DEF RequestRow
  <2>3. Fresh([x EXCEPT !.pc = "done", !.ans = "503"])
    BY <1>0 DEF RequestRow
  <2>4. Fresh([x EXCEPT !.pc = "lookup"])
    BY <1>0 DEF RequestRow
  <2> HIDE DEF x, Fresh
  <2> QED
    BY <2>1, <2>2, <2>3, <2>4
<1>3. ASSUME NEW j \in Ids, Resubmit(q, j, a)
      PROVE  \E x : Fresh(x) /\ Move(q, x)
  <2> DEFINE x == [req[q] EXCEPT !.kind = "resubmit", !.account = a, !.pc = "lookup",
                                 !.repo = jobs[j].repo, !.file = jobs[j].file]
  <2>1. jobs[j].repo \in Repos /\ jobs[j].file \in Requests \cup {NoFile}
    <3>1. jobs[j] \in JobRow
      BY ElementOfSeq DEF IndInv, SubmissionInv, TypeOK, Ids
    <3> QED
      BY <3>1 DEF JobRow
  <2>2. jobs[j].file = NoFile \/ jobs[j].file \in files
    BY DEF IndInv, SubmissionInv, UploadsKept
  <2>3. Fresh(x)
    BY <1>0, <2>1, <2>2 DEF RequestRow
  <2> QED
    BY <1>3, <2>3 DEF Resubmit
<1>4. UNCHANGED <<jobs, keys, up, files, page>>
  BY DEF Begin, BeginSync, Resubmit
<1>5. PICK x : Fresh(x) /\ Move(q, x)
  BY <1>1, <1>2, <1>3
<1> QED
  BY <1>4, <1>5, MoveInd DEF IndInv, SubmissionInv, TypeOK

(* A request that is answered without a job, or loses its client. *)
LEMMA AnswerInd ==
  ASSUME IndInv, NEW q \in Requests, req[q].pc # "idle",
         NEW a \in {"400", "413", "lost"}, Answer(q, a),
         UNCHANGED <<jobs, keys, up, page>>,
         files \subseteq files', files' \subseteq Requests
  PROVE  IndInv'
<1> DEFINE x == [req[q] EXCEPT !.pc = "done", !.ans = a]
<1>1. req[q] \in RequestRow(Len(jobs)) /\ req[q].account \in Accounts /\ req[q].repo \in Repos
  BY DEF IndInv, SubmissionInv, TypeOK
<1>2. /\ x \in RequestRow(Len(jobs))
      /\ x.pc = "done" /\ x.ans = a /\ x.account = req[q].account
      /\ x.repo = req[q].repo /\ x.file = req[q].file
  BY <1>1 DEF RequestRow
<1>3. req[q].file = NoFile \/ req[q].file \in files'
  BY DEF IndInv, SubmissionInv, UploadsKept
<1>4. Move(q, x)
  BY DEF Answer
<1> HIDE DEF x
<1> QED
  BY <1>1, <1>2, <1>3, <1>4, MoveInd

(* Every other step of a request that is being served. *)
LEMMA ServeInd ==
  ASSUME IndInv, NEW q \in Requests, Serve(q) \/ Drop(q) PROVE IndInv'
<1>0. /\ req[q] \in RequestRow(Len(jobs))
      /\ req[q].pc # "idle" => req[q].account \in Accounts /\ req[q].repo \in Repos
      /\ req[q].file = NoFile \/ req[q].file \in files
      /\ files \subseteq Requests
      /\ Len(jobs) \in Nat /\ Existing(req[q]) \in 0..Len(jobs)
  <2>1. /\ req[q] \in RequestRow(Len(jobs))
        /\ req[q].pc # "idle" => req[q].account \in Accounts /\ req[q].repo \in Repos
        /\ req[q].file = NoFile \/ req[q].file \in files
        /\ files \subseteq Requests
        /\ Len(jobs) \in Nat
    BY LenProperties DEF IndInv, SubmissionInv, TypeOK, UploadsKept
  <2>2. req[q].key # NoKey => <<req[q].key, req[q].account>> \in Keys \X Accounts
    BY <2>1 DEF IndInv, SubmissionInv, TypeOK, RequestRow, NoRequest
  <2> QED
    BY <2>1, <2>2 DEF IndInv, SubmissionInv, TypeOK, Existing
<1>1. CASE SaveFile(q)
  <2>1. CASE /\ files' = files \cup {q}
             /\ Move(q, [req[q] EXCEPT !.pc = "lookup", !.file = q])
    <3> DEFINE x == [req[q] EXCEPT !.pc = "lookup", !.file = q]
    <3>1. /\ x \in RequestRow(Len(jobs)) /\ x.pc = "lookup" /\ x.file = q
          /\ x.account = req[q].account /\ x.repo = req[q].repo
          /\ x.ans = req[q].ans /\ x.job = req[q].job /\ x.key = req[q].key
      BY <1>0 DEF RequestRow
    <3>2. x.ans = "202" /\ x.key # NoKey => Existing(x) # 0 /\ x.job = Existing(x)
      BY <3>1 DEF IndInv, SubmissionInv, KeyInv, Existing
    <3> HIDE DEF x
    <3> QED
      BY <1>0, <1>1, <2>1, <3>1, <3>2, MoveInd DEF SaveFile, x
  <2>2. CASE files' \in {files, files \cup {q}} /\ Answer(q, "413")
    BY <1>0, <1>1, <2>2, AnswerInd DEF SaveFile
  <2> QED
    BY <1>1, <2>1, <2>2 DEF SaveFile
<1>2. CASE Invalid(q)
  BY <1>0, <1>2, AnswerInd DEF Invalid
<1>3. CASE Lookup(q)
  <2> DEFINE e == Existing(req[q])
             x == IF e # 0 THEN [req[q] EXCEPT !.pc = "done", !.ans = "202", !.job = e]
                  ELSE [req[q] EXCEPT !.pc = "insert"]
  <2>1. /\ x \in RequestRow(Len(jobs)) /\ x.file = req[q].file
        /\ x.account = req[q].account /\ x.repo = req[q].repo /\ x.key = req[q].key
        /\ e # 0 => x.pc = "done" /\ x.job = e
        /\ e = 0 => x.pc = "insert" /\ x.ans = req[q].ans /\ x.job = req[q].job
    <3> DEFINE n == Len(jobs)
    <3>1. e \in 0..n /\ req[q] \in RequestRow(n)
      BY <1>0
    <3> HIDE DEF e, n
    <3>2. [req[q] EXCEPT !.pc = "done", !.ans = "202", !.job = e] \in RequestRow(n)
      BY <3>1, ZenonT(60) DEF RequestRow
    <3>3. [req[q] EXCEPT !.pc = "insert"] \in RequestRow(n)
      BY <3>1 DEF RequestRow
    <3>4. x \in RequestRow(Len(jobs))
      BY <3>2, <3>3 DEF n
    <3> QED
      BY <3>1, <3>4 DEF RequestRow
  <2>2. Existing(x) = e
    BY <2>1 DEF Existing
  <2>3. x.ans = "202" /\ x.key # NoKey => Existing(x) # 0 /\ x.job = Existing(x)
    BY <2>1, <2>2 DEF IndInv, SubmissionInv, KeyInv
  <2>4. Move(q, x) /\ UNCHANGED <<jobs, keys, up, files, page>> /\ req[q].pc = "lookup"
    BY <1>3 DEF Lookup
  <2> HIDE DEF x
  <2> QED
    BY <1>0, <2>1, <2>2, <2>3, <2>4, MoveInd
<1>4. CASE Insert(q)
  <2> DEFINE x == [req[q] EXCEPT !.pc = IF Existing(req[q]) # 0 THEN "race" ELSE "commit"]
  <2>1. /\ x \in RequestRow(Len(jobs)) /\ x.file = req[q].file
        /\ x.account = req[q].account /\ x.repo = req[q].repo /\ x.key = req[q].key
        /\ x.pc = IF Existing(req[q]) # 0 THEN "race" ELSE "commit"
        /\ x.ans = req[q].ans /\ x.job = req[q].job
    BY <1>0 DEF RequestRow
  <2>2. Existing(x) = Existing(req[q])
    BY <2>1 DEF Existing
  <2>3. Move(q, x) /\ UNCHANGED <<jobs, keys, up, files, page>> /\ req[q].pc = "insert" /\ ~KeyHeld(q)
    BY <1>4 DEF Insert
  <2> HIDE DEF x
  <2> QED
    BY <1>0, <2>1, <2>2, <2>3, MoveInd DEF IndInv, SubmissionInv, KeyInv
<1>5. CASE Commit(q)
  BY <1>5, CommitInd
<1>6. CASE ResolveRace(q)
  <2> DEFINE e == Existing(req[q])
             x == [req[q] EXCEPT !.pc = "done", !.job = e,
                                 !.ans = IF e # 0 THEN "202" ELSE "400"]
  <2>1. /\ x \in RequestRow(Len(jobs)) /\ x.file = req[q].file
        /\ x.account = req[q].account /\ x.repo = req[q].repo /\ x.key = req[q].key
        /\ x.pc = "done" /\ x.job = e
    <3> DEFINE n == Len(jobs)
    <3>1. e \in 0..n /\ req[q] \in RequestRow(n)
      BY <1>0
    <3> HIDE DEF e, n
    <3>2. [req[q] EXCEPT !.pc = "done", !.job = e, !.ans = "202"] \in RequestRow(n)
      BY <3>1, ZenonT(60) DEF RequestRow
    <3>3. [req[q] EXCEPT !.pc = "done", !.job = e, !.ans = "400"] \in RequestRow(n)
      BY <3>1, ZenonT(60) DEF RequestRow
    <3>4. x \in RequestRow(Len(jobs))
      BY <3>2, <3>3 DEF n
    <3> QED
      BY <3>1, <3>4 DEF RequestRow
  <2>2. Existing(x) = Existing(req[q])
    BY <2>1 DEF Existing
  <2>3. Move(q, x) /\ UNCHANGED <<jobs, keys, up, files, page>> /\ req[q].pc = "race"
    BY <1>6 DEF ResolveRace
  <2> HIDE DEF x
  <2> QED
    BY <1>0, <2>1, <2>2, <2>3, MoveInd DEF IndInv, SubmissionInv, KeyInv
<1>7. CASE Announce(q)
  <2> DEFINE x == [req[q] EXCEPT !.pc = "done", !.ans = "202"]
  <2>1. /\ x \in RequestRow(Len(jobs)) /\ x.file = req[q].file
        /\ x.account = req[q].account /\ x.repo = req[q].repo /\ x.key = req[q].key
        /\ x.pc = "done" /\ x.job = req[q].job
    BY <1>0, ZenonT(60) DEF RequestRow
  <2>2. Existing(x) = Existing(req[q])
    BY <2>1 DEF Existing
  <2>3. Move(q, x) /\ UNCHANGED <<jobs, keys, up, files, page>> /\ req[q].pc = "announce"
    BY <1>7 DEF Announce, Answer
  <2> HIDE DEF x
  <2> QED
    BY <1>0, <2>1, <2>2, <2>3, MoveInd DEF IndInv, SubmissionInv, KeyInv
<1>8. CASE Drop(q)
  BY <1>0, <1>8, AnswerInd DEF Drop
<1> QED
  BY <1>1, <1>2, <1>3, <1>4, <1>5, <1>6, <1>7, <1>8 DEF Serve

-----------------------------------------------------------------------------
(* The job list. *)

(* A nonempty set of positions that all lie in 1..n has a greatest one. *)
LEMMA GreatestOf ==
  ASSUME NEW n \in Nat, NEW T \in SUBSET (1..n), T # {}
  PROVE  \E m \in T : \A i \in T : i <= m
<1> DEFINE Above(m) == {i \in 1..n : i > m}
           F == {Above(m) : m \in T}
<1>1. F \subseteq FiniteSubsetsOf(1..n)
  <2>1. IsFiniteSet(1..n)
    BY FS_Interval
  <2> QED
    BY <2>1, FS_FiniteSubsetsOfFinite
<1>2. PICK X \in F : \A Y \in F : ~(<<Y, X>> \in StrictSubsetOrdering(1..n))
  <2>1. F # {}
    OBVIOUS
  <2> HIDE DEF F
  <2> QED
    BY <1>1, <2>1, FS_StrictSubsetOrderingWellFounded, WFMin
<1>3. PICK m \in T : X = Above(m)
  OBVIOUS
<1>4. ASSUME NEW i \in T, i > m PROVE FALSE
  <2>1. Above(i) \subseteq Above(m) /\ i \in Above(m) /\ i \notin Above(i)
    BY <1>4
  <2>2. <<Above(i), Above(m)>> \in StrictSubsetOrdering(1..n)
    BY <2>1 DEF StrictSubsetOrdering
  <2> QED
    BY <1>2, <1>3, <2>2
<1> QED
  BY <1>4

(* A page of at least n rows of T has n rows: ORDER BY ... LIMIT leaves a    *)
(* row out only for n newer ones that it shows.                             *)
LEMMA NewestShown ==
  ASSUME NEW n \in Nat, NEW S \in SUBSET (1..n), NEW l \in Nat \ {0},
         NEW j \in S \ Newest(S, l)
  PROVE  Cardinality({i \in Newest(S, l) : i > j}) >= l
<1> DEFINE Above(m) == {i \in S : i > m}
           Left == {m \in S \ Newest(S, l) : m >= j}
<1>0. S \subseteq Int /\ IsFiniteSet(S)
  <2>1. IsFiniteSet(1..n)
    BY FS_Interval
  <2>2. IsFiniteSet(S)
    BY <2>1, FS_Subset
  <2> QED
    BY <2>2
<1>1. PICK m \in Left : \A i \in Left : i <= m
  <2>1. j \in Left
    BY <1>0
  <2>2. Left \in SUBSET (1..n)
    OBVIOUS
  <2> HIDE DEF Left
  <2> QED
    BY <2>1, <2>2, GreatestOf
<1>2. Above(m) \subseteq {i \in Newest(S, l) : i > j}
  <2> SUFFICES ASSUME NEW i \in S, i > m PROVE i \in Newest(S, l) /\ i > j
    OBVIOUS
  <2>1. m \in 1..n /\ i \in 1..n /\ j \in 1..n /\ m >= j
    OBVIOUS
  <2>2. i > j /\ i >= j /\ ~(i <= m)
    BY <2>1
  <2>3. i \notin Left
    BY <1>1, <2>2
  <2> QED
    BY <2>2, <2>3
<1>3. IsFiniteSet(Above(m)) /\ Cardinality(Above(m)) \in Nat /\ Cardinality(Above(m)) >= l
  <2>1. IsFiniteSet(Above(m)) /\ Cardinality(Above(m)) \in Nat
    BY <1>0, FS_Subset, FS_CardinalityType
  <2>2. ~(Cardinality(Above(m)) < l)
    BY <1>1 DEF Newest
  <2> QED
    BY <2>1, <2>2
<1>4. /\ IsFiniteSet({i \in Newest(S, l) : i > j})
      /\ Cardinality({i \in Newest(S, l) : i > j}) \in Nat
  <2>1. {i \in Newest(S, l) : i > j} \in SUBSET S
    BY DEF Newest
  <2> QED
    BY <1>0, <2>1, FS_Subset, FS_CardinalityType
<1> QED
  BY <1>2, <1>3, <1>4, FS_Subset

(* Both statements of list_jobs. *)
LEMMA ListInd ==
  ASSUME IndInv, ListBegin \/ ListRows PROVE IndInv'
<1> USE DEF IndInv, SubmissionInv
<1>0. /\ UNCHANGED <<jobs, keys, up, req, files>>
      /\ Len(jobs) \in Nat
      /\ \A j \in Ids : jobs[j].repo \in Repos
  <2>1. \A j \in Ids : jobs[j] \in JobRow
    BY ElementOfSeq DEF TypeOK, Ids
  <2> QED
    BY <2>1, LenProperties DEF ListBegin, ListRows, TypeOK, JobRow
<1>1. KeyInv' /\ UploadsKept' /\ OneJobPerKey'
  BY <1>0 DEF KeyInv, UploadsKept, OneJobPerKey, Existing, KeyHeld, Ids
<1>2. CASE ListBegin
  <2> DEFINE allowed == IF Scope = Repos THEN Repos ELSE {jobs[j].repo : j \in Ids} \cap Scope
             before == {j \in Ids : jobs[j].repo \in Scope}
             step == IF allowed = {} THEN "done" ELSE "rows"
  <2>1. /\ page' = [page EXCEPT !.pc = step, !.allowed = allowed, !.before = before]
        /\ page.pc = "idle"
    BY <1>2 DEF ListBegin
  <2>2. /\ allowed \subseteq Scope /\ before \subseteq Ids
        /\ \A j \in before : jobs[j].repo \in allowed
        /\ step = "done" => before = {}
    BY <1>0
  <2>3. step \in {"rows", "done"}
    OBVIOUS
  <2> HIDE DEF allowed, before, step
  <2>4. /\ page'.pc = step /\ page'.allowed = allowed /\ page'.before = before
        /\ page'.rows = page.rows
    BY <2>1 DEF TypeOK
  <2>5. TypeOK'
    BY <1>0, <2>1, <2>2, <2>3 DEF TypeOK, Ids
  <2>6. ListingComplete'
    <3>1. page.rows = {}
      BY <2>1 DEF ListingComplete
    <3> QED
      BY <1>0, <2>2, <2>3, <2>4, <3>1 DEF ListingComplete
  <2> QED
    BY <1>1, <2>5, <2>6
<1>3. CASE ListRows
  <2> DEFINE S == {j \in Ids : jobs[j].repo \in page.allowed}
  <2>1. page' = [page EXCEPT !.pc = "done", !.rows = Newest(S, Limit)] /\ page.pc = "rows"
    BY <1>3 DEF ListRows, PageOf
  <2>2. /\ page'.pc = "done" /\ page'.allowed = page.allowed /\ page'.before = page.before
        /\ page'.rows = Newest(S, Limit)
    BY <2>1 DEF TypeOK
  <2>3. Newest(S, Limit) \subseteq S /\ S \subseteq Ids
    BY DEF Newest
  <2>4. TypeOK'
    BY <1>0, <2>1, <2>3 DEF TypeOK, Ids
  <2>5. page.before \subseteq S
    BY <2>1 DEF ListingComplete, TypeOK
  <2>6. \A j \in S \ Newest(S, Limit) :
          Cardinality({i \in Newest(S, Limit) : i > j}) >= Limit
    <3>1. S \in SUBSET (1..Len(jobs))
      BY <2>3 DEF Ids
    <3> HIDE DEF S
    <3> QED
      BY <1>0, <3>1, NewestShown
  <2>7. ListingComplete'
    BY <1>0, <2>2, <2>3, <2>5, <2>6 DEF ListingComplete
  <2> QED
    BY <1>1, <2>4, <2>7
<1> QED
  BY <1>2, <1>3

-----------------------------------------------------------------------------
(* Every step preserves the invariant. *)
LEMMA NextInd == IndInv /\ [Next]_vars => IndInv'
<1> SUFFICES ASSUME IndInv, [Next]_vars PROVE IndInv'
  OBVIOUS
<1>1. CASE \E q \in Requests : Serve(q) \/ Drop(q)
  BY <1>1, ServeInd
<1>2. ASSUME NEW q \in Requests,
             \/ \E a \in Accounts, r \in Repos :
                    \/ \E kind \in {"submit", "upload"}, k \in Keys \cup {NoKey} :
                           Begin(q, kind, k, a, r)
                    \/ \E service \in {"data_streaming", "data_download"} :
                           BeginSync(q, service, a, r)
             \/ \E j \in Ids, a \in Accounts : Resubmit(q, j, a)
      PROVE  IndInv'
  BY <1>2, BeginInd
<1>3. CASE WorkerToggles \/ UNCHANGED vars
  <2>1. UNCHANGED <<jobs, keys, req, files, page>> /\ up' \in BOOLEAN
    BY <1>3 DEF WorkerToggles, vars, IndInv, SubmissionInv, TypeOK
  <2>2. TypeOK'
    BY <2>1 DEF IndInv, SubmissionInv, TypeOK, Ids
  <2>3. KeyInv' /\ UploadsKept' /\ OneJobPerKey'
    BY <2>1 DEF IndInv, SubmissionInv, KeyInv, UploadsKept, OneJobPerKey, Existing, KeyHeld, Ids
  <2>4. ListingComplete'
    BY <2>1 DEF IndInv, SubmissionInv, ListingComplete
  <2> QED
    BY <2>2, <2>3, <2>4 DEF IndInv, SubmissionInv
<1>4. CASE ListBegin \/ ListRows
  BY <1>4, ListInd
<1> QED
  BY <1>1, <1>2, <1>3, <1>4 DEF Next

(* The whole invariant holds of any number of requests, keys, accounts and   *)
(* repositories and any page size: the types, the keys, the uploads and the *)
(* job list (jobs.submit, uploads.py, list_jobs).                           *)
THEOREM Invariance == Spec => []SubmissionInv
<1>1. IndInv => SubmissionInv
  BY DEF IndInv
<1> QED
  BY InitInd, NextInd, <1>1, PTL DEF Spec

(* jobs.submit, submit_idempotent: one job per idempotency key and account,  *)
(* and every answer to a request with the key names it, for any number of   *)
(* concurrent submissions.                                                  *)
THEOREM Idempotency == Spec => []OneJobPerKey
<1>1. IndInv => OneJobPerKey
  BY DEF IndInv
<1> QED
  BY InitInd, NextInd, <1>1, PTL DEF Spec

-----------------------------------------------------------------------------
(***************************************************************************)
(* What submits jobs by the clock: Schedules, for any number of schedules, *)
(* ticks, patches and triggers.                                            *)
(***************************************************************************)

HIDE LimitAssumption
HIDE ScopeAssumption
HIDE NoKeyAssumption
HIDE NoFileAssumption

(* A set of numbers that is not empty has a least one. *)
LEMMA LeastNumber ==
  ASSUME NEW T \in SUBSET Nat, T # {}
  PROVE  \E k \in T : \A i \in T : k <= i
<1> DEFINE R == OpToRel(<, Nat)
<1>1. IsWellFoundedOn(R, Nat)
  BY NatLessThanWellFounded, Zenon
<1>2. \A x, y \in Nat : x < y => <<x, y>> \in R
  BY DEF OpToRel
<1> HIDE DEF R
<1>3. PICK k \in T : \A y \in T : ~ (<<y, k>> \in R)
  BY <1>1, WFMin
<1>4. \A y \in T : ~(y < k)
  BY <1>2, <1>3
<1> QED
  BY <1>4

(* The quotient, rounded down and up. *)
LEMMA Quotient ==
  ASSUME NEW n \in Nat \ {0}, NEW d \in Nat
  PROVE  /\ d \div n \in Nat
         /\ (d \div n + 1) * n = (d \div n) * n + n
         /\ (d \div n) * n <= d /\ d < (d \div n) * n + n
         /\ (d \div n) * n \in Nat
         /\ d % n = 0 => (d \div n) * n = d
<1> DEFINE q == d \div n
<1>1. q \in Nat /\ q * n <= d /\ d < q * n + n /\ (d % n = 0 => q * n = d)
  OBVIOUS
<1> HIDE DEF q
<1>2. (q + 1) * n = q * n + n /\ q * n \in Nat
  BY <1>1
<1> QED
  BY <1>1, <1>2 DEF q

(* A multiple has no remainder. *)
LEMMA Multiple ==
  ASSUME NEW n \in Nat \ {0}, NEW k \in Int
  PROVE  (k * n) % n = 0
  OBVIOUS

(* next_after is in the future, no more than one period away, and keeps to the *)
(* instants of a cron expression.                                              *)
LEMMA NextIsLater ==
  ASSUME ConstantsOK, NEW t \in Triggers, NEW m \in Nat
  PROVE  /\ NextAfter(m, t) \in Nat
         /\ NextAfter(m, t) > m
         /\ NextAfter(m, t) <= m + t.n
         /\ t.kind = "cron" => NextAfter(m, t) % t.n = 0
         /\ (t.kind = "cron" => m % t.n = 0) => NextAfter(m, t) = m + t.n
<1>1. t.kind \in {"interval", "cron"} /\ t.n \in Nat \ {0}
  BY DEF ConstantsOK
<1>2. CASE t.kind = "interval"
  BY <1>1, <1>2 DEF NextAfter
<1>3. CASE t.kind = "cron"
  <2> DEFINE q == m \div t.n
  <2>1. NextAfter(m, t) = (q + 1) * t.n
    BY <1>3 DEF NextAfter
  <2>2. /\ q \in Nat /\ (q + 1) * t.n = q * t.n + t.n /\ q * t.n <= m /\ m < q * t.n + t.n
        /\ q * t.n \in Nat /\ (m % t.n = 0 => q * t.n = m)
    BY <1>1, Quotient
  <2> HIDE DEF q
  <2>3. ((q + 1) * t.n) % t.n = 0
    BY <1>1, <2>2, Multiple
  <2> QED
    BY <1>1, <1>3, <2>1, <2>2, <2>3
<1> QED
  BY <1>1, <1>2, <1>3

(* A row's due times are one period apart: there is such a walk, and no other. *)
LEMMA WalkSteps ==
  ASSUME ConstantsOK, NEW r \in Rows, Aligned(r)
  PROVE  \A k \in 0..MaxSteps : Walk(r)[k] = r.next + k * r.trig.n
<1> DEFINE n == r.trig.n
           g == [k \in 0..MaxSteps |-> r.next + k * n]
           Ok(f) == f = [k \in 0..MaxSteps |->
                           IF k = 0 THEN r.next ELSE NextAfter(f[k - 1], r.trig)]
           w == CHOOSE f : Ok(f)
<1>1. /\ n \in Nat \ {0} /\ r.next \in Nat /\ r.trig \in Triggers /\ MaxSteps \in Nat \ {0}
  BY DEF Rows, ConstantsOK
<1>2. ASSUME NEW k \in Nat
      PROVE  /\ r.next + k * n \in Nat
             /\ r.next + (k + 1) * n = r.next + k * n + n
             /\ NextAfter(r.next + k * n, r.trig) = r.next + (k + 1) * n
  <2>1. k * n \in Nat /\ (k + 1) * n = k * n + n
    BY <1>1
  <2>2. ASSUME r.trig.kind = "cron" PROVE (r.next + k * n) % n = 0
    <3>1. r.next % n = 0
      BY <2>2 DEF Aligned
    <3> DEFINE q == r.next \div n
    <3>2. q \in Nat /\ q * n = r.next
      BY <1>1, <3>1, Quotient
    <3> HIDE DEF q
    <3>3. r.next + k * n = (q + k) * n
      BY <1>1, <3>2
    <3> QED
      BY <1>1, <3>2, <3>3, Multiple
  <2>3. r.next + k * n \in Nat
    BY <1>1, <2>1
  <2> DEFINE m == r.next + k * n
  <2>4. m \in Nat /\ (r.trig.kind = "cron" => m % n = 0)
    BY <2>2, <2>3
  <2> HIDE DEF m
  <2>5. NextAfter(m, r.trig) = m + n
    BY <1>1, <2>4, NextIsLater
  <2> QED
    BY <1>1, <2>1, <2>3, <2>5 DEF m
<1>3. Ok(g)
  <2>1. ASSUME NEW k \in 0..MaxSteps
        PROVE  g[k] = IF k = 0 THEN r.next ELSE NextAfter(g[k - 1], r.trig)
    <3>1. CASE k = 0
      BY <1>1, <3>1
    <3>2. CASE k # 0
      <4>1. k - 1 \in Nat /\ k - 1 \in 0..MaxSteps /\ (k - 1) + 1 = k
        BY <1>1, <3>2
      <4>2. g[k - 1] = r.next + (k - 1) * n /\ g[k] = r.next + k * n
        BY <4>1
      <4> HIDE DEF g
      <4>3. NextAfter(r.next + (k - 1) * n, r.trig) = r.next + ((k - 1) + 1) * n
        BY <1>2, <4>1
      <4> QED
        BY <3>2, <4>1, <4>2, <4>3
    <3> QED
      BY <3>1, <3>2
  <2> QED
    BY <2>1
<1>4. Ok(w)
  <2> HIDE DEF Ok
  <2> QED
    BY <1>3
<1>5. Walk(r) = w
  BY DEF Walk
<1> HIDE DEF w
<1> DEFINE T == {k \in 0..MaxSteps : w[k] # r.next + k * n}
<1>6. T = {}
  <2> SUFFICES ASSUME T # {} PROVE FALSE
    OBVIOUS
  <2>1. PICK k \in T : \A i \in T : k <= i
    <3>1. T \in SUBSET Nat
      BY <1>1
    <3> HIDE DEF T
    <3> QED
      BY <3>1, LeastNumber
  <2>2. w[k] = IF k = 0 THEN r.next ELSE NextAfter(w[k - 1], r.trig)
    BY <1>4
  <2>3. CASE k = 0
    BY <1>1, <2>2, <2>3
  <2>4. CASE k # 0
    <3>1. k - 1 \in Nat /\ k - 1 \in 0..MaxSteps /\ (k - 1) + 1 = k /\ k - 1 \notin T
      BY <1>1, <2>1, <2>4
    <3>2. w[k - 1] = r.next + (k - 1) * n
      BY <3>1
    <3>3. NextAfter(r.next + (k - 1) * n, r.trig) = r.next + ((k - 1) + 1) * n
      BY <1>2, <3>1
    <3>4. w[k] = r.next + k * n
      BY <2>2, <2>4, <3>1, <3>2, <3>3
    <3> QED
      BY <3>4
  <2> QED
    BY <2>3, <2>4
<1> QED
  BY <1>5, <1>6

(* _advance moves a due row past the moment, to an instant of its expression;  *)
(* within MaxSteps periods it goes by whole periods to the first one past it.  *)
LEMMA AdvanceMovesOn ==
  ASSUME ConstantsOK, NEW r \in Rows, Aligned(r), NEW m \in Nat, r.next <= m
  PROVE  /\ Advance(r, m) \in Nat
         /\ Advance(r, m) > m
         /\ r.trig.kind = "cron" => Advance(r, m) % r.trig.n = 0
         /\ Advance(r, m) - r.next <= MaxSteps * r.trig.n =>
              /\ (Advance(r, m) - r.next) % r.trig.n = 0
              /\ Advance(r, m) - r.trig.n <= m
<1> DEFINE n == r.trig.n
           w == Walk(r)
           later == {k \in 1..MaxSteps : w[k] > m}
           least == CHOOSE k \in later : \A i \in later : k <= i
<1>1. n \in Nat \ {0} /\ r.next \in Nat /\ r.trig \in Triggers /\ MaxSteps \in Nat \ {0}
  BY DEF Rows, ConstantsOK
<1>2. \A k \in 0..MaxSteps : w[k] = r.next + k * n
  BY WalkSteps
<1>3. Advance(r, m) = IF later = {} THEN NextAfter(m, r.trig) ELSE w[least]
  BY DEF Advance
<1> HIDE DEF w
<1>4. CASE later = {}
  <2>1. Advance(r, m) = NextAfter(m, r.trig)
    BY <1>3, <1>4
  <2>2. /\ Advance(r, m) \in Nat /\ Advance(r, m) > m
        /\ r.trig.kind = "cron" => Advance(r, m) % r.trig.n = 0
    BY <1>1, <2>1, NextIsLater
  <2>3. w[MaxSteps] = r.next + MaxSteps * n /\ ~(w[MaxSteps] > m)
    BY <1>1, <1>2, <1>4
  <2>4. MaxSteps * n \in Nat
    BY <1>1
  <2>5. Advance(r, m) - r.next > MaxSteps * n
    BY <1>1, <2>2, <2>3, <2>4
  <2> QED
    BY <1>1, <2>2, <2>4, <2>5
<1>5. CASE later # {}
  <2>1. later \in SUBSET Nat
    BY <1>1
  <2>2. \E k \in later : \A i \in later : k <= i
    <3> HIDE DEF later
    <3> QED
      BY <1>5, <2>1, LeastNumber
  <2>3. least \in later /\ \A i \in later : least <= i
    BY <2>2
  <2>4. Advance(r, m) = w[least]
    BY <1>3, <1>5
  <2> HIDE DEF least
  <2> DEFINE b == (least - 1) * n
  <2>5. /\ least \in 1..MaxSteps /\ least \in Nat /\ least - 1 \in Nat /\ w[least] > m
        /\ least * n = b + n /\ least * n \in Nat /\ b \in Nat
        /\ w[least] = r.next + least * n
    BY <1>1, <1>2, <2>3
  <2>6. r.next + b <= m
    <3>1. CASE least = 1
      BY <1>1, <3>1
    <3>2. CASE least # 1
      <4>1. least - 1 \in 1..MaxSteps /\ least - 1 \notin later
        BY <1>1, <2>3, <2>5, <3>2
      <4>2. w[least - 1] = r.next + b
        BY <1>2, <4>1
      <4> QED
        BY <1>1, <2>5, <4>1, <4>2
    <3> QED
      BY <3>1, <3>2
  <2>7. Advance(r, m) = r.next + least * n /\ (least * n) % n = 0
    BY <1>1, <2>4, <2>5, Multiple
  <2>8. ASSUME r.trig.kind = "cron" PROVE Advance(r, m) % n = 0
    <3>1. r.next % n = 0
      BY <2>8 DEF Aligned
    <3> DEFINE q == r.next \div n
    <3>2. q \in Nat /\ q * n = r.next
      BY <1>1, <3>1, Quotient
    <3> HIDE DEF q
    <3>3. r.next + least * n = (q + least) * n
      BY <1>1, <2>5, <3>2
    <3>4. q + least \in Int
      BY <2>5, <3>2
    <3>5. ((q + least) * n) % n = 0
      BY <1>1, <3>4, Multiple
    <3> QED
      BY <2>7, <3>3, <3>5
  <2> HIDE DEF b
  <2>9. /\ Advance(r, m) \in Nat /\ Advance(r, m) > m
        /\ Advance(r, m) - r.next = least * n
        /\ Advance(r, m) - n <= m
    BY <1>1, <2>4, <2>5, <2>6, <2>7
  <2> QED
    BY <2>7, <2>8, <2>9
<1> QED
  BY <1>4, <1>5

-----------------------------------------------------------------------------
(* The types, and what is fired how often: however many patches overlap. *)
Fired == SchedulesTypeOK /\ RowsAligned /\ FiredBefore /\ OncePerDueTime

(* What holds while patches do not overlap. *)
Switched == OffBehind /\ PatchOfRow /\ PatchOnTop /\ SwitchAsSet /\ NoBurstOnEnable

(* What the types say of a row, a firing and a patch. *)
LEMMA Types ==
  ASSUME ConstantsOK, SchedulesTypeOK
  PROVE  /\ clock \in Nat
         /\ \A s \in ScheduleIds : row[s].present => row[s] \in Rows
         /\ \A s \in ScheduleIds : ~row[s].present => row[s] \in {Unused, Deleted}
         /\ \A t \in Tickers : firing[t] # NoFire =>
              firing[t].id \in ScheduleIds /\ firing[t].moment \in 0..clock
         /\ \A p \in Patchers : patch[p].pc # "idle" =>
              patch[p].id \in ScheduleIds /\ patch[p].change \in Changes
         /\ \A p \in Patchers : patch[p].pc = "read" => patch[p].was \in Rows
         /\ \A p \in Patchers : patch[p].pc = "write" => patch[p].new \in Rows
<1>1. clock \in Nat
  BY DEF SchedulesTypeOK, ConstantsOK
<1>2. \A s \in ScheduleIds : /\ row[s].present => row[s] \in Rows
                             /\ ~row[s].present => row[s] \in {Unused, Deleted}
  <2>1. \A s \in ScheduleIds : row[s] = Unused \/ row[s] = Deleted \/ row[s] \in Rows
    BY DEF SchedulesTypeOK
  <2>2. \A r \in Rows : r.present
    BY DEF Rows
  <2>3. ~Unused.present /\ ~Deleted.present
    BY DEF Unused, Deleted
  <2> QED
    BY <2>1, <2>2, <2>3, Zenon
<1>3. \A t \in Tickers : firing[t] # NoFire =>
        firing[t].id \in ScheduleIds /\ firing[t].moment \in 0..clock
  BY DEF SchedulesTypeOK
<1>4. \A p \in Patchers : /\ patch[p].pc # "idle" =>
                               patch[p].id \in ScheduleIds /\ patch[p].change \in Changes
                          /\ patch[p].pc = "read" => patch[p].was \in Rows
                          /\ patch[p].pc = "write" => patch[p].new \in Rows
  BY DEF SchedulesTypeOK, NoPatch
<1> QED
  BY <1>1, <1>2, <1>3, <1>4

(* A row that is timed anew is due in the future, at an instant of its trigger. *)
LEMMA Timed ==
  ASSUME ConstantsOK, SchedulesTypeOK, NEW t \in Triggers, NEW on \in BOOLEAN
  PROVE  LET r == [present |-> TRUE, enabled |-> on, trig |-> t, next |-> NextAfter(clock, t)]
         IN  r \in Rows /\ Aligned(r) /\ r.next > clock
<1>1. clock \in Nat
  BY Types
<1>2. /\ NextAfter(clock, t) \in Nat /\ NextAfter(clock, t) > clock
      /\ t.kind = "cron" => NextAfter(clock, t) % t.n = 0
  BY <1>1, NextIsLater
<1> QED
  BY <1>2 DEF Rows, Aligned

(* Nothing is there at first. *)
LEMMA InitFired == ASSUME ConstantsOK, SchedulesInit PROVE Fired
<1> USE DEF SchedulesInit
<1>1. SchedulesTypeOK
  BY DEF SchedulesTypeOK, ConstantsOK
<1>2. RowsAligned
  BY DEF RowsAligned, Unused, NoPatch
<1>3. FiredBefore /\ OncePerDueTime
  BY DEF FiredBefore, OncePerDueTime
<1> QED
  BY <1>1, <1>2, <1>3 DEF Fired

(* Nothing is on or off at first. *)
LEMMA InitSwitched == ASSUME ConstantsOK, SchedulesInit PROVE Switched
  BY DEF SchedulesInit, Switched, OffBehind, PatchOfRow, PatchOnTop, SwitchAsSet,
     NoBurstOnEnable, Unused, NoPatch

(* The ticker's own steps that touch neither rows nor jobs. *)
LEMMA FiredFrame ==
  ASSUME Fired, UNCHANGED <<clock, row, patch, submitted, rewound>>
  PROVE  RowsAligned' /\ FiredBefore' /\ OncePerDueTime'
  BY DEF Fired, RowsAligned, FiredBefore, OncePerDueTime

(* Steps that leave the rows, the patches and the histories as they are. *)
LEMMA SwitchedFrame ==
  ASSUME Switched, UNCHANGED <<row, patch, submitted, want, off>>
  PROVE  Switched'
  BY DEF Switched, OffBehind, PatchOfRow, PatchOnTop, SwitchAsSet, NoBurstOnEnable, After,
     Switch

-----------------------------------------------------------------------------
(* Time passes: nothing is fired ahead of it, and a row that is off notes it. *)
LEMMA PassFired == ASSUME ConstantsOK, Fired, Pass PROVE Fired'
<1> USE DEF Fired
<1>1. clock' = clock + 1 /\ clock' \in 0..MaxTime /\ clock \in Nat /\ 0..clock \subseteq 0..clock'
  BY Types DEF Pass, SchedulesTypeOK, ConstantsOK
<1>2. UNCHANGED <<row, due, firing, patch, submitted, want, rewound>>
  BY DEF Pass
<1>3. SchedulesTypeOK'
  <2>1. firing' \in [Tickers -> {NoFire} \cup [id : ScheduleIds, moment : 0..clock']]
    <3>1. {NoFire} \cup [id : ScheduleIds, moment : 0..clock] \subseteq
            {NoFire} \cup [id : ScheduleIds, moment : 0..clock']
      BY <1>1
    <3> QED
      BY <1>2, <3>1 DEF SchedulesTypeOK
  <2>2. off' \in [ScheduleIds -> SUBSET (0..clock')]
    <3>1. clock + 1 \in 0..clock' /\ \A s \in ScheduleIds : off[s] \subseteq 0..clock'
      BY <1>1 DEF SchedulesTypeOK
    <3> QED
      BY <1>1, <3>1 DEF Pass
  <2> QED
    BY <1>1, <1>2, <2>1, <2>2 DEF SchedulesTypeOK
<1>4. RowsAligned'
  BY <1>2 DEF RowsAligned
<1>5. FiredBefore' /\ OncePerDueTime'
  BY <1>1, <1>2 DEF FiredBefore, OncePerDueTime
<1> QED
  BY <1>3, <1>4, <1>5

(* A time that is noted as off is one nothing was fired for. *)
LEMMA PassSwitched == ASSUME ConstantsOK, Fired, Switched, Pass PROVE Switched'
<1>1. /\ UNCHANGED <<row, patch, submitted, want>> /\ clock \in Nat
      /\ off' = [s \in ScheduleIds |-> IF Settled(s) /\ ~row[s].enabled
                              THEN off[s] \cup {clock + 1} ELSE off[s]]
      /\ clock + 1 \in 0..MaxTime
  BY Types DEF Pass, Fired, SchedulesTypeOK, ConstantsOK
<1>2. \A s \in ScheduleIds : (off'[s] = off[s]) \/
        (Settled(s) /\ ~row[s].enabled /\ off'[s] = off[s] \cup {clock + 1})
  BY <1>1
<1>3. OffBehind'
  BY <1>1, <1>2 DEF Switched, OffBehind, After
<1>4. NoBurstOnEnable'
  <2>1. \A s \in ScheduleIds : submitted[s][clock + 1] = 0
    <3>1. \A s \in ScheduleIds : submitted[s][clock + 1] \in 0..2
      BY <1>1 DEF Fired, SchedulesTypeOK
    <3>2. \A s \in ScheduleIds : ~(submitted[s][clock + 1] > 0)
      BY <1>1 DEF Fired, FiredBefore
    <3> QED
      BY <3>1, <3>2
  <2> QED
    BY <1>1, <1>2, <2>1 DEF Switched, NoBurstOnEnable
<1>5. PatchOnTop'
  <2> SUFFICES ASSUME NEW p \in Patchers, patch[p].pc # "idle", row[patch[p].id].present
               PROVE  LET s == patch[p].id
                      IN  /\ patch[p].pc = "read" =>
                              /\ patch[p].was.enabled = row[s].enabled
                              /\ After(off'[s], patch[p].was)
                          /\ patch[p].pc = "write" =>
                              /\ patch[p].new.enabled = Switch(patch[p].change.enabled, row[s].enabled)
                              /\ After(off'[s], patch[p].new)
    BY <1>1 DEF PatchOnTop
  <2> DEFINE s == patch[p].id
  <2>1. s \in ScheduleIds
    BY Types DEF Fired
  <2>2. /\ patch[p].pc = "read" =>
            /\ patch[p].was.enabled = row[s].enabled
            /\ After(off[s], patch[p].was)
        /\ patch[p].pc = "write" =>
            /\ patch[p].new.enabled = Switch(patch[p].change.enabled, row[s].enabled)
            /\ After(off[s], patch[p].new)
    BY DEF Switched, PatchOnTop
  <2>3. CASE off'[s] = off[s]
    BY <2>2, <2>3
  <2>4. CASE Settled(s) /\ ~row[s].enabled
    <3>1. patch[p].pc # "write"
      BY <2>4 DEF Settled
    <3> QED
      BY <2>2, <2>4, <3>1 DEF After
  <2> QED
    BY <1>2, <2>1, <2>3, <2>4
<1>6. SwitchAsSet' /\ PatchOfRow'
  BY <1>1 DEF Switched, SwitchAsSet, PatchOfRow
<1> QED
  BY <1>3, <1>4, <1>5, <1>6 DEF Switched

(* A new row is due in the future, and no patch knows it yet. *)
LEMMA CreateFired ==
  ASSUME ConstantsOK, Fired, NEW s \in ScheduleIds, NEW t \in Triggers, NEW on \in BOOLEAN,
         Create(s, t, on)
  PROVE  Fired'
<1> DEFINE r == [present |-> TRUE, enabled |-> on, trig |-> t, next |-> NextAfter(clock, t)]
<1> USE DEF Fired
<1>1. /\ row' = [row EXCEPT ![s] = r] /\ want' = [want EXCEPT ![s] = on]
      /\ UNCHANGED <<clock, due, firing, patch, submitted, rewound, off>>
  BY DEF Create
<1>2. r \in Rows /\ Aligned(r) /\ r.next > clock /\ r.next \in Nat
  BY Timed DEF Rows
<1> HIDE DEF r
<1>3. row'[s] = r /\ \A u \in ScheduleIds \ {s} : row'[u] = row[u]
  BY <1>1 DEF SchedulesTypeOK
<1>4. SchedulesTypeOK'
  BY <1>1, <1>2 DEF SchedulesTypeOK
<1>5. RowsAligned'
  BY <1>1, <1>2, <1>3 DEF RowsAligned
<1>6. FiredBefore' /\ OncePerDueTime'
  <2>1. clock \in Nat
    BY Types
  <2>2. \A u \in ScheduleIds : \A d \in 0..MaxTime : submitted[u][d] > 0 =>
          d <= clock /\ (row'[u].present /\ u \notin rewound => d < row'[u].next)
    BY <1>2, <1>3, <2>1 DEF FiredBefore
  <2> QED
    BY <1>1, <2>2 DEF FiredBefore, OncePerDueTime
<1> QED
  BY <1>4, <1>5, <1>6

(* A new row is switched as its request says. *)
LEMMA CreateSwitched ==
  ASSUME ConstantsOK, Fired, Switched, NEW s \in ScheduleIds, NEW t \in Triggers, NEW on \in BOOLEAN,
         Create(s, t, on)
  PROVE  Switched'
<1> DEFINE r == [present |-> TRUE, enabled |-> on, trig |-> t, next |-> NextAfter(clock, t)]
<1>1. /\ row' = [row EXCEPT ![s] = r] /\ want' = [want EXCEPT ![s] = on]
      /\ UNCHANGED <<clock, due, firing, patch, submitted, rewound, off>>
  BY DEF Create
<1>2. r \in Rows /\ Aligned(r) /\ r.next > clock /\ r.next \in Nat /\ r.enabled = on
  BY Timed DEF Rows, Fired
<1> HIDE DEF r
<1>3. /\ row'[s] = r /\ \A u \in ScheduleIds \ {s} : row'[u] = row[u]
      /\ want'[s] = on /\ \A u \in ScheduleIds \ {s} : want'[u] = want[u]
  BY <1>1 DEF Fired, SchedulesTypeOK
<1>4. After(off[s], r)
  <2>1. off[s] \subseteq 0..clock /\ clock \in Nat
    BY Types DEF Fired, SchedulesTypeOK
  <2> QED
    BY <1>2, <2>1 DEF After
<1>5. OffBehind'
  BY <1>1, <1>3, <1>4 DEF Switched, OffBehind
<1>6. PatchOnTop' /\ PatchOfRow'
  <2>1. \A p \in Patchers : patch[p].pc # "idle" =>
          patch[p].id # s /\ row'[patch[p].id] = row[patch[p].id]
    BY <1>3, Types DEF Fired, Switched, PatchOfRow, Create
  <2> QED
    BY <1>1, <2>1 DEF Switched, PatchOnTop, PatchOfRow
<1>7. SwitchAsSet' /\ NoBurstOnEnable'
  BY <1>1, <1>2, <1>3 DEF Switched, SwitchAsSet, NoBurstOnEnable
<1> QED
  BY <1>5, <1>6, <1>7 DEF Switched

(* A deleted row is due no more, and a patch of it finds nothing to write. *)
LEMMA DeleteFired == ASSUME ConstantsOK, Fired, NEW s \in ScheduleIds, Delete(s) PROVE Fired'
<1> USE DEF Fired
<1>1. /\ row' = [row EXCEPT ![s] = Deleted]
      /\ UNCHANGED <<clock, due, firing, patch, submitted, want, rewound, off>>
  BY DEF Delete
<1>2. row'[s] = Deleted /\ ~row'[s].present /\ \A u \in ScheduleIds \ {s} : row'[u] = row[u]
  BY <1>1 DEF SchedulesTypeOK, Deleted
<1>3. SchedulesTypeOK'
  BY <1>1 DEF SchedulesTypeOK
<1>4. RowsAligned' /\ FiredBefore' /\ OncePerDueTime'
  BY <1>1, <1>2 DEF RowsAligned, FiredBefore, OncePerDueTime
<1> QED
  BY <1>3, <1>4

(* A deleted row is neither on nor off. *)
LEMMA DeleteSwitched ==
  ASSUME ConstantsOK, Fired, Switched, NEW s \in ScheduleIds, Delete(s) PROVE Switched'
<1>1. /\ row' = [row EXCEPT ![s] = Deleted]
      /\ UNCHANGED <<clock, due, firing, patch, submitted, want, rewound, off>>
  BY DEF Delete
<1>2. /\ row'[s] = Deleted /\ ~row'[s].present /\ row'[s] # Unused
      /\ \A u \in ScheduleIds \ {s} : row'[u] = row[u]
  BY <1>1 DEF Fired, SchedulesTypeOK, Deleted, Unused
<1>3. \A p \in Patchers : patch[p].pc # "idle" => patch[p].id \in ScheduleIds
  BY Types DEF Fired
<1>4. OffBehind' /\ SwitchAsSet' /\ NoBurstOnEnable'
  BY <1>1, <1>2 DEF Switched, OffBehind, SwitchAsSet, NoBurstOnEnable
<1>5. PatchOfRow'
  BY <1>1, <1>2, <1>3 DEF Switched, PatchOfRow
<1>6. PatchOnTop'
  <2>1. \A p \in Patchers : patch[p].pc # "idle" /\ row'[patch[p].id].present =>
          row'[patch[p].id] = row[patch[p].id]
    BY <1>2, <1>3
  <2> QED
    BY <1>1, <2>1 DEF Switched, PatchOnTop
<1> QED
  BY <1>4, <1>5, <1>6 DEF Switched

(* update() has read the row as it is. *)
LEMMA PatchReadFired ==
  ASSUME ConstantsOK, Fired, NEW p \in Patchers, NEW s \in ScheduleIds, NEW c \in Changes,
         PatchRead(p, s, c)
  PROVE  Fired'
<1> USE DEF Fired
<1>1. /\ patch' = [patch EXCEPT ![p] = [pc |-> "read", id |-> s, change |-> c, was |-> row[s]]]
      /\ row[s].present /\ UNCHANGED <<clock, row, due, firing, submitted, want, rewound, off>>
  BY DEF PatchRead
<1>2. row[s] \in Rows /\ Aligned(row[s])
  BY <1>1, Types DEF RowsAligned
<1>3. /\ patch'[p] = [pc |-> "read", id |-> s, change |-> c, was |-> row[s]]
      /\ \A q \in Patchers \ {p} : patch'[q] = patch[q]
  BY <1>1 DEF SchedulesTypeOK
<1>4. SchedulesTypeOK'
  BY <1>1, <1>2 DEF SchedulesTypeOK
<1>5. RowsAligned'
  BY <1>1, <1>2, <1>3 DEF RowsAligned
<1>6. FiredBefore' /\ OncePerDueTime'
  BY <1>1 DEF FiredBefore, OncePerDueTime
<1> QED
  BY <1>4, <1>5, <1>6

(* What is read is due after the times the row was off at, as the row is. *)
LEMMA PatchReadSwitched ==
  ASSUME ConstantsOK, Fired, Switched, NEW p \in Patchers, NEW s \in ScheduleIds, NEW c \in Changes,
         PatchRead(p, s, c)
  PROVE  Switched'
<1>1. /\ patch' = [patch EXCEPT ![p] = [pc |-> "read", id |-> s, change |-> c, was |-> row[s]]]
      /\ row[s].present /\ UNCHANGED <<clock, row, due, firing, submitted, want, rewound, off>>
  BY DEF PatchRead
<1>2. /\ patch'[p] = [pc |-> "read", id |-> s, change |-> c, was |-> row[s]]
      /\ \A q \in Patchers \ {p} : patch'[q] = patch[q]
  BY <1>1 DEF Fired, SchedulesTypeOK
<1>3. After(off[s], row[s]) /\ row[s] # Unused
  BY <1>1 DEF Switched, OffBehind, Unused
<1>4. PatchOnTop' /\ PatchOfRow'
  BY <1>1, <1>2, <1>3 DEF Switched, PatchOnTop, PatchOfRow
<1>5. OffBehind' /\ SwitchAsSet' /\ NoBurstOnEnable'
  BY <1>1 DEF Switched, OffBehind, SwitchAsSet, NoBurstOnEnable
<1> QED
  BY <1>4, <1>5 DEF Switched

(* What update() is about to write: a row due in the future, or as it was read  *)
(* and not being switched on.                                                   *)
LEMMA MergedOK ==
  ASSUME ConstantsOK, SchedulesTypeOK, RowsAligned, NEW p \in Patchers, patch[p].pc = "read"
  PROVE  LET x == patch[p]
             new == Merged(x)
         IN  /\ new \in Rows /\ Aligned(new)
             /\ new.enabled = Switch(x.change.enabled, x.was.enabled)
             /\ \/ new.next > clock
                \/ new.next = x.was.next /\ ~(x.change.enabled = "on" /\ ~x.was.enabled)
<1> DEFINE x == patch[p]
           t == IF x.change.trig = Keep THEN x.was.trig ELSE x.change.trig
           on == Switch(x.change.enabled, x.was.enabled)
           enabling == x.change.enabled = "on" /\ ~x.was.enabled
           timed == [present |-> TRUE, enabled |-> on, trig |-> t, next |-> NextAfter(clock, t)]
           kept == [present |-> TRUE, enabled |-> on, trig |-> t, next |-> x.was.next]
<1>1. x.change \in Changes /\ x.was \in Rows /\ Aligned(x.was)
  BY Types DEF RowsAligned
<1>2. /\ x.was.enabled \in BOOLEAN /\ x.was.trig \in Triggers /\ x.was.next \in Nat
      /\ x.change.trig \in Triggers \cup {Keep}
  BY <1>1 DEF Rows, Changes
<1>3. t \in Triggers /\ on \in BOOLEAN
  BY <1>2 DEF Switch
<1>4. CASE x.change.trig # Keep \/ enabling
  <2>1. Merged(x) = timed
    BY <1>4 DEF Merged
  <2>2. timed \in Rows /\ Aligned(timed) /\ timed.next > clock /\ timed.enabled = on
    BY <1>3, Timed
  <2> HIDE DEF timed
  <2> QED
    BY <2>1, <2>2
<1>5. CASE ~(x.change.trig # Keep \/ enabling)
  <2>1. Merged(x) = kept /\ t = x.was.trig
    BY <1>5 DEF Merged
  <2>2. kept \in Rows /\ Aligned(kept) /\ kept.enabled = on /\ kept.next = x.was.next
    BY <1>1, <1>2, <1>3, <2>1 DEF Rows, Aligned
  <2> HIDE DEF kept
  <2> QED
    BY <1>5, <2>1, <2>2
<1> QED
  BY <1>4, <1>5

(* What is about to be written is a row at an instant of its trigger. *)
LEMMA PatchComputeFired ==
  ASSUME ConstantsOK, Fired, NEW p \in Patchers, PatchCompute(p)
  PROVE  Fired'
<1> DEFINE new == Merged(patch[p])
           x == [pc |-> "write", id |-> patch[p].id, change |-> patch[p].change, new |-> new]
<1> USE DEF Fired
<1>1. /\ patch[p].pc = "read" /\ patch' = [patch EXCEPT ![p] = x]
      /\ UNCHANGED <<clock, row, due, firing, submitted, want, rewound, off>>
  BY DEF PatchCompute
<1>2. new \in Rows /\ Aligned(new)
  BY <1>1, MergedOK
<1>3. patch[p].id \in ScheduleIds /\ patch[p].change \in Changes
  BY <1>1, Types
<1> HIDE DEF new
<1>4. patch'[p] = x /\ \A q \in Patchers \ {p} : patch'[q] = patch[q]
  BY <1>1 DEF SchedulesTypeOK
<1>5. SchedulesTypeOK'
  BY <1>1, <1>2, <1>3 DEF SchedulesTypeOK
<1>6. RowsAligned'
  BY <1>1, <1>2, <1>4 DEF RowsAligned
<1>7. FiredBefore' /\ OncePerDueTime'
  BY <1>1 DEF FiredBefore, OncePerDueTime
<1> QED
  BY <1>5, <1>6, <1>7

(* A patch that switches a row on times it anew, past every time it was off at. *)
LEMMA PatchComputeSwitched ==
  ASSUME ConstantsOK, Fired, Switched, NEW p \in Patchers, PatchCompute(p)
  PROVE  Switched'
<1> DEFINE new == Merged(patch[p])
           s == patch[p].id
           c == patch[p].change
           was == patch[p].was
           x == [pc |-> "write", id |-> s, change |-> c, new |-> new]
<1>1. /\ patch[p].pc = "read" /\ patch' = [patch EXCEPT ![p] = x]
      /\ UNCHANGED <<clock, row, due, firing, submitted, want, rewound, off>>
  BY DEF PatchCompute
<1>2. /\ new \in Rows
      /\ new.enabled = Switch(c.enabled, was.enabled)
      /\ new.next > clock \/ (new.next = was.next /\ ~(c.enabled = "on" /\ ~was.enabled))
  BY <1>1, MergedOK DEF Fired
<1> HIDE DEF new
<1>3. /\ patch'[p] = x
      /\ \A q \in Patchers \ {p} : patch'[q] = patch[q]
      /\ s \in ScheduleIds /\ off[s] \subseteq 0..clock /\ clock \in Nat /\ was \in Rows
  BY <1>1, Types DEF Fired, SchedulesTypeOK
<1>4. ASSUME row[s].present
      PROVE  new.enabled = Switch(c.enabled, row[s].enabled) /\ After(off[s], new)
  <2>1. was.enabled = row[s].enabled /\ After(off[s], was)
    BY <1>1, <1>4 DEF Switched, PatchOnTop
  <2>2. CASE new.next > clock
    <3>1. new.next \in Nat
      BY <1>2 DEF Rows
    <3> QED
      BY <1>2, <1>3, <2>1, <2>2, <3>1 DEF After
  <2>3. CASE new.next = was.next /\ ~(c.enabled = "on" /\ ~was.enabled)
    <3>1. new.enabled => was.enabled
      BY <1>2, <2>3 DEF Switch
    <3> QED
      BY <1>2, <2>1, <2>3, <3>1 DEF After
  <2> QED
    BY <1>2, <2>2, <2>3
<1>5. PatchOnTop' /\ PatchOfRow'
  BY <1>1, <1>3, <1>4 DEF Switched, PatchOnTop, PatchOfRow
<1>6. OffBehind' /\ SwitchAsSet' /\ NoBurstOnEnable'
  BY <1>1 DEF Switched, OffBehind, SwitchAsSet, NoBurstOnEnable
<1> QED
  BY <1>5, <1>6 DEF Switched

(* update() writes the row it computed; where that is due earlier than the row  *)
(* is by now, the row counts as moved back.                                     *)
LEMMA PatchWriteFired ==
  ASSUME ConstantsOK, Fired, NEW p \in Patchers, PatchWrite(p)
  PROVE  Fired'
<1> DEFINE s == patch[p].id
           new == patch[p].new
           back == row[s].present /\ new.next < row[s].next
<1> USE DEF Fired
<1>1. /\ patch[p].pc = "write"
      /\ row' = [row EXCEPT ![s] = IF @.present THEN new ELSE @]
      /\ want' = [want EXCEPT ![s] = IF patch[p].change.enabled = "keep" THEN @
                                     ELSE patch[p].change.enabled = "on"]
      /\ rewound' = IF back THEN rewound \cup {s} ELSE rewound
      /\ patch' = [patch EXCEPT ![p] = NoPatch]
      /\ UNCHANGED <<clock, due, firing, submitted, off>>
  BY DEF PatchWrite
<1>2. s \in ScheduleIds /\ new \in Rows /\ Aligned(new)
  BY <1>1, Types DEF RowsAligned
<1>3. /\ row'[s] = IF row[s].present THEN new ELSE row[s]
      /\ \A u \in ScheduleIds \ {s} : row'[u] = row[u]
      /\ patch'[p] = NoPatch /\ \A q \in Patchers \ {p} : patch'[q] = patch[q]
  BY <1>1, <1>2 DEF SchedulesTypeOK
<1>4. SchedulesTypeOK'
  <2>1. row' \in [ScheduleIds -> {Unused, Deleted} \cup Rows]
    BY <1>1, <1>2 DEF SchedulesTypeOK
  <2>2. want' \in [ScheduleIds -> BOOLEAN] /\ rewound' \subseteq ScheduleIds
    BY <1>1, <1>2 DEF SchedulesTypeOK
  <2>3. patch' \in [Patchers -> {NoPatch}
            \cup [pc : {"read"}, id : ScheduleIds, change : Changes, was : Rows]
            \cup [pc : {"write"}, id : ScheduleIds, change : Changes, new : Rows]]
    BY <1>1 DEF SchedulesTypeOK
  <2> QED
    BY <1>1, <2>1, <2>2, <2>3 DEF SchedulesTypeOK
<1>5. RowsAligned'
  BY <1>1, <1>2, <1>3 DEF RowsAligned, NoPatch
<1>6. FiredBefore'
  <2> SUFFICES ASSUME NEW u \in ScheduleIds, NEW d \in 0..MaxTime, submitted[u][d] > 0
               PROVE  d <= clock /\ (row'[u].present /\ u \notin rewound' => d < row'[u].next)
    BY <1>1 DEF FiredBefore
  <2>1. d <= clock /\ (row[u].present /\ u \notin rewound => d < row[u].next)
    BY DEF FiredBefore
  <2>2. ASSUME u = s, row'[u].present, u \notin rewound' PROVE d < row'[u].next
    <3>1. row[s].present /\ row'[s] = new /\ ~back /\ s \notin rewound
      BY <1>1, <1>3, <2>2
    <3>2. new.next \in Nat /\ row[s].next \in Nat
      BY <1>2, <3>1, Types DEF Rows
    <3> QED
      BY <2>1, <2>2, <3>1, <3>2
  <2>3. ASSUME u # s, row'[u].present, u \notin rewound' PROVE d < row'[u].next
    BY <1>1, <1>3, <2>1, <2>3
  <2> QED
    BY <2>1, <2>2, <2>3
<1>7. OncePerDueTime'
  BY <1>1 DEF OncePerDueTime
<1> QED
  BY <1>4, <1>5, <1>6, <1>7

(* With no other patch in progress, it leaves the switch as it was asked to. *)
LEMMA PatchWriteSwitched ==
  ASSUME ConstantsOK, OnePatchAtATime, Fired, Switched, NEW p \in Patchers, PatchWrite(p)
  PROVE  Switched'
<1> DEFINE s == patch[p].id
           c == patch[p].change
           new == patch[p].new
<1>1. /\ patch[p].pc = "write"
      /\ row' = [row EXCEPT ![s] = IF @.present THEN new ELSE @]
      /\ want' = [want EXCEPT ![s] = IF c.enabled = "keep" THEN @ ELSE c.enabled = "on"]
      /\ patch' = [patch EXCEPT ![p] = NoPatch]
      /\ UNCHANGED <<clock, due, firing, submitted, off>>
  BY DEF PatchWrite
<1>2. s \in ScheduleIds /\ new \in Rows
  BY <1>1, Types DEF Fired
<1>3. /\ row'[s] = IF row[s].present THEN new ELSE row[s]
      /\ \A u \in ScheduleIds \ {s} : row'[u] = row[u]
      /\ want'[s] = IF c.enabled = "keep" THEN want[s] ELSE c.enabled = "on"
      /\ \A u \in ScheduleIds \ {s} : want'[u] = want[u]
      /\ patch'[p] = NoPatch
  BY <1>1, <1>2 DEF Fired, SchedulesTypeOK
<1>4. PatchOnTop' /\ PatchOfRow'
  <2>1. \A q \in Patchers : patch'[q].pc = "idle"
    BY <1>3 DEF OnePatchAtATime, NoPatch
  <2> QED
    BY <2>1 DEF PatchOnTop, PatchOfRow
<1>5. ASSUME row[s].present
      PROVE  /\ new.enabled = Switch(c.enabled, row[s].enabled) /\ After(off[s], new)
             /\ row[s].enabled = want[s]
  BY <1>1, <1>2, <1>5 DEF Switched, PatchOnTop, SwitchAsSet
<1>6. OffBehind'
  BY <1>1, <1>3, <1>5 DEF Switched, OffBehind
<1>7. SwitchAsSet'
  BY <1>1, <1>3, <1>5 DEF Switched, SwitchAsSet, Switch
<1>8. NoBurstOnEnable'
  BY <1>1 DEF Switched, NoBurstOnEnable
<1> QED
  BY <1>4, <1>6, <1>7, <1>8 DEF Switched

-----------------------------------------------------------------------------
(* Selecting, beginning to fire and dying change no row. *)
LEMMA RunDueFired == ASSUME ConstantsOK, Fired, NEW t \in Tickers, RunDue(t) PROVE Fired'
<1>1. SchedulesTypeOK'
  BY DEF Fired, SchedulesTypeOK, RunDue
<1> QED
  BY <1>1, FiredFrame DEF Fired, RunDue

(* A firing takes the present as its moment. *)
LEMMA FireBeginFired ==
  ASSUME ConstantsOK, Fired, NEW t \in Tickers, NEW s \in ScheduleIds, FireBegin(t, s)
  PROVE  Fired'
<1>1. clock \in 0..clock
  BY Types DEF Fired
<1>2. SchedulesTypeOK'
  BY <1>1 DEF Fired, SchedulesTypeOK, FireBegin
<1> QED
  BY <1>2, FiredFrame DEF Fired, FireBegin

(* A transaction that is rolled back leaves no trace. *)
LEMMA CrashFired == ASSUME ConstantsOK, Fired, NEW t \in Tickers, Crash(t) PROVE Fired'
<1>1. SchedulesTypeOK'
  BY DEF Fired, SchedulesTypeOK, Crash
<1> QED
  BY <1>1, FiredFrame DEF Fired, Crash

(* What the transaction of _fire does: nothing, or it advances a row that is    *)
(* due past its moment, with at most one job for the due time it had.           *)
LEMMA FireCommitDoes ==
  ASSUME ConstantsOK, Fired, NEW t \in Tickers, FireCommit(t)
  PROVE  \/ UNCHANGED <<row, submitted>>
         \/ LET s == firing[t].id
                m == firing[t].moment
                next == Advance(row[s], m)
            IN  /\ s \in ScheduleIds /\ m \in 0..clock /\ row[s] \in Rows /\ Aligned(row[s])
                /\ row[s].present /\ row[s].enabled /\ row[s].next \in 0..m
                /\ next \in Nat /\ next > m
                /\ row'[s] = [row[s] EXCEPT !.next = next]
                /\ row'[s] \in Rows /\ Aligned(row'[s])
                /\ row'[s].next = next /\ row'[s].enabled = row[s].enabled
                /\ row' \in [ScheduleIds -> {Unused, Deleted} \cup Rows]
                /\ \A u \in ScheduleIds \ {s} : row'[u] = row[u]
                /\ \/ UNCHANGED submitted
                   \/ /\ submitted' \in [ScheduleIds -> [0..MaxTime -> 0..2]]
                      /\ submitted'[s][row[s].next] = IF submitted[s][row[s].next] = 0 THEN 1 ELSE 2
                      /\ \A u \in ScheduleIds : \A d \in 0..MaxTime :
                            u # s \/ d # row[s].next => submitted'[u][d] = submitted[u][d]
<1> DEFINE s == firing[t].id
           m == firing[t].moment
           next == Advance(row[s], m)
<1> USE DEF Fired
<1>1. firing[t] # NoFire /\ clock \in Nat /\ s \in ScheduleIds
        /\ m \in 0..clock /\ 0..clock \subseteq 0..MaxTime
  BY Types DEF FireCommit, SchedulesTypeOK, ConstantsOK
<1>2. CASE UNCHANGED <<row, submitted>>
  BY <1>2
<1>3. CASE /\ StillDue(s, m)
           /\ row' = [row EXCEPT ![s].next = next]
           /\ \/ submitted' = [submitted EXCEPT ![s][row[s].next] = IF @ = 0 THEN 1 ELSE 2]
              \/ UNCHANGED submitted
  <2>1. /\ row[s].present /\ row[s].enabled /\ row[s].next <= m
        /\ row[s] \in Rows /\ Aligned(row[s]) /\ row[s].next \in Nat
    BY <1>1, <1>3, Types DEF StillDue, Due, RowsAligned, Rows
  <2>2. m \in Nat /\ row[s].next \in 0..m /\ row[s].next \in 0..MaxTime
    BY <1>1, <2>1
  <2>3. next \in Nat /\ next > m /\ (row[s].trig.kind = "cron" => next % row[s].trig.n = 0)
    BY <2>1, <2>2, AdvanceMovesOn
  <2> HIDE DEF next
  <2>4. /\ row'[s] = [row[s] EXCEPT !.next = next] /\ \A u \in ScheduleIds \ {s} : row'[u] = row[u]
    BY <1>1, <1>3 DEF SchedulesTypeOK
  <2>5. /\ row'[s] \in Rows /\ row'[s].next = next /\ row'[s].trig = row[s].trig
        /\ row'[s].enabled = row[s].enabled
    BY <2>1, <2>3, <2>4 DEF Rows
  <2>6. Aligned(row'[s])
    BY <2>3, <2>5 DEF Aligned
  <2>7. row' \in [ScheduleIds -> {Unused, Deleted} \cup Rows]
    BY <1>1, <1>3, <2>4, <2>5 DEF SchedulesTypeOK
  <2>8. CASE UNCHANGED submitted
    BY <1>1, <2>1, <2>2, <2>3, <2>4, <2>5, <2>6, <2>7, <2>8 DEF next
  <2>9. CASE submitted' = [submitted EXCEPT ![s][row[s].next] = IF @ = 0 THEN 1 ELSE 2]
    <3>1. submitted \in [ScheduleIds -> [0..MaxTime -> 0..2]]
      BY DEF SchedulesTypeOK
    <3>2. /\ submitted' \in [ScheduleIds -> [0..MaxTime -> 0..2]]
          /\ submitted'[s][row[s].next] = IF submitted[s][row[s].next] = 0 THEN 1 ELSE 2
          /\ \A u \in ScheduleIds : \A d \in 0..MaxTime :
                            u # s \/ d # row[s].next => submitted'[u][d] = submitted[u][d]
      <4> DEFINE d0 == row[s].next
                 v == IF submitted[s][d0] = 0 THEN 1 ELSE 2
      <4>1. submitted[s] \in [0..MaxTime -> 0..2] /\ v \in 0..2 /\ d0 \in 0..MaxTime
        BY <1>1, <2>2, <3>1
      <4>2. submitted' = [submitted EXCEPT ![s] = [submitted[s] EXCEPT ![d0] = v]]
        BY <2>9
      <4> HIDE DEF d0, v
      <4>3. [submitted[s] EXCEPT ![d0] = v] \in [0..MaxTime -> 0..2]
        BY <4>1
      <4>4. /\ submitted'[s] = [submitted[s] EXCEPT ![d0] = v]
            /\ \A u \in ScheduleIds \ {s} : submitted'[u] = submitted[u]
            /\ submitted' \in [ScheduleIds -> [0..MaxTime -> 0..2]]
        BY <1>1, <3>1, <4>2, <4>3
      <4>5. submitted'[s][d0] = v /\ \A d \in 0..MaxTime : d # d0 => submitted'[s][d] = submitted[s][d]
        BY <4>1, <4>4
      <4> QED
        BY <4>4, <4>5 DEF d0, v
    <3> QED
      BY <1>1, <2>1, <2>2, <2>3, <2>4, <2>5, <2>6, <2>7, <3>2 DEF next
  <2> QED
    BY <1>3, <2>8, <2>9
<1> QED
  BY <1>2, <1>3 DEF FireCommit

(* A due time whose row was never moved back has not been fired before. *)
LEMMA FireCommitFired ==
  ASSUME ConstantsOK, Fired, NEW t \in Tickers, FireCommit(t)
  PROVE  Fired'
<1> DEFINE s == firing[t].id
           m == firing[t].moment
           old == row[s].next
           next == Advance(row[s], m)
<1> USE DEF Fired
<1>1. /\ firing' = [firing EXCEPT ![t] = NoFire]
      /\ UNCHANGED <<clock, due, patch, want, rewound, off>>
  BY DEF FireCommit
<1>2. firing' \in [Tickers -> {NoFire} \cup [id : ScheduleIds, moment : 0..clock]] /\ clock \in Nat
  BY <1>1, Types DEF SchedulesTypeOK
<1>3. CASE UNCHANGED <<row, submitted>>
  <2>1. SchedulesTypeOK'
    BY <1>1, <1>2, <1>3 DEF SchedulesTypeOK
  <2> QED
    BY <1>1, <1>3, <2>1, FiredFrame
<1>4. CASE ~UNCHANGED <<row, submitted>>
  <2>1. /\ s \in ScheduleIds /\ m \in 0..clock /\ row[s].present /\ old \in 0..m
        /\ next \in Nat /\ next > m
        /\ row'[s] \in Rows /\ Aligned(row'[s]) /\ row'[s].next = next
        /\ row' \in [ScheduleIds -> {Unused, Deleted} \cup Rows]
        /\ \A u \in ScheduleIds \ {s} : row'[u] = row[u]
        /\ \/ UNCHANGED submitted
           \/ /\ submitted' \in [ScheduleIds -> [0..MaxTime -> 0..2]]
              /\ submitted'[s][old] = IF submitted[s][old] = 0 THEN 1 ELSE 2
              /\ \A u \in ScheduleIds : \A d \in 0..MaxTime :
                    u # s \/ d # old => submitted'[u][d] = submitted[u][d]
    BY <1>4, FireCommitDoes
  <2> HIDE DEF next
  <2>2. submitted' \in [ScheduleIds -> [0..MaxTime -> 0..2]]
    BY <2>1 DEF SchedulesTypeOK
  <2>3. SchedulesTypeOK'
    BY <1>1, <1>2, <2>1, <2>2 DEF SchedulesTypeOK
  <2>4. RowsAligned'
    BY <1>1, <2>1 DEF RowsAligned
  <2>5. s \notin rewound => \A d \in 0..MaxTime : submitted[s][d] > 0 => d < old
    BY <2>1 DEF FiredBefore
  <2>6. \A u \in ScheduleIds : \A d \in 0..MaxTime :
          /\ submitted'[u][d] > 0 => submitted[u][d] > 0 \/ (u = s /\ d = old)
          /\ submitted[u][d] \in 0..2
    <3>1. \A u \in ScheduleIds : \A d \in 0..MaxTime : submitted[u][d] \in 0..2
      BY DEF SchedulesTypeOK
    <3> QED
      BY <2>1, <3>1
  <2>7. FiredBefore'
    <3> SUFFICES ASSUME NEW u \in ScheduleIds, NEW d \in 0..MaxTime, submitted'[u][d] > 0
                 PROVE  d <= clock /\ (row'[u].present /\ u \notin rewound => d < row'[u].next)
      BY <1>1 DEF FiredBefore
    <3>1. CASE u = s
      <4>1. clock \in Nat /\ m \in 0..clock /\ old \in 0..m /\ next \in Nat /\ next > m
        BY ONLY <1>2, <2>1
      <4>2. row'[u].next = next
        BY ONLY <2>1, <3>1
      <4>3. CASE d = old
        BY ONLY <4>1, <4>2, <4>3
      <4>4. CASE d # old
        <5>1. submitted[s][d] > 0
          BY <2>6, <3>1, <4>4
        <5>2. d <= clock /\ (s \notin rewound => d < old)
          BY <2>1, <2>5, <5>1 DEF FiredBefore
        <5> QED
          BY ONLY <3>1, <4>1, <4>2, <5>2, d \in 0..MaxTime, ConstantsOK DEF ConstantsOK
      <4> QED
        BY <4>3, <4>4
    <3>2. CASE u # s
      BY <2>1, <2>6, <3>2 DEF FiredBefore
    <3> QED
      BY <3>1, <3>2
  <2>8. OncePerDueTime'
    <3> SUFFICES ASSUME NEW u \in ScheduleIds, NEW d \in 0..MaxTime
                 PROVE  (submitted'[u][d] <= 1 \/ u \in rewound) /\ (submitted'[u][d] > 0 => d <= clock)
      BY <1>1 DEF OncePerDueTime
    <3>1. submitted'[u][d] > 0 => d <= clock
      BY <1>1, <2>7 DEF FiredBefore
    <3>2. CASE submitted'[u][d] = submitted[u][d]
      BY <3>1, <3>2 DEF OncePerDueTime
    <3>3. CASE u = s /\ d = old /\ submitted'[s][old] = IF submitted[s][old] = 0 THEN 1 ELSE 2
      <4>1. CASE s \in rewound
        BY <3>1, <3>3, <4>1
      <4>2. CASE s \notin rewound
        <5>1. submitted[s][old] \in 0..2 /\ ~(submitted[s][old] > 0)
          <6>1. old \in 0..MaxTime /\ s \in ScheduleIds /\ ~(old < old)
            BY ONLY <2>1, <3>3, d \in 0..MaxTime
          <6>2. submitted[s][old] \in 0..2
            BY ONLY <2>6, <6>1
          <6>3. ~(submitted[s][old] > 0)
            BY ONLY <2>5, <4>2, <6>1
          <6> QED
            BY ONLY <6>2, <6>3
        <5>2. submitted'[s][old] = 1
          BY <3>3, <5>1
        <5> QED
          BY <3>1, <3>3, <5>2
      <4> QED
        BY <4>1, <4>2
    <3> QED
      BY <2>1, <3>2, <3>3
  <2> QED
    BY <2>3, <2>4, <2>7, <2>8
<1> QED
  BY <1>3, <1>4

(* Only a row that is on is fired, and then for none of the times it was off at. *)
LEMMA FireCommitSwitched ==
  ASSUME ConstantsOK, Fired, Switched, NEW t \in Tickers, FireCommit(t)
  PROVE  Switched'
<1> DEFINE s == firing[t].id
           m == firing[t].moment
           old == row[s].next
           next == Advance(row[s], m)
<1>1. UNCHANGED <<patch, want, off>>
  BY DEF FireCommit
<1>2. CASE UNCHANGED <<row, submitted>>
  BY <1>1, <1>2, SwitchedFrame
<1>3. CASE ~UNCHANGED <<row, submitted>>
  <2>1. /\ s \in ScheduleIds /\ m \in Nat /\ row[s].present /\ row[s].enabled /\ old \in 0..m
        /\ next \in Nat /\ next > m
        /\ row'[s] \in Rows /\ row'[s].next = next /\ row'[s].enabled = row[s].enabled
        /\ \A u \in ScheduleIds \ {s} : row'[u] = row[u]
        /\ \A u \in ScheduleIds : \A d \in 0..MaxTime :
              u # s \/ d # old => submitted'[u][d] = submitted[u][d]
    <3>1. clock \in Nat
      BY Types DEF Fired
    <3>2. /\ s \in ScheduleIds /\ m \in 0..clock /\ row[s].present /\ row[s].enabled /\ old \in 0..m
          /\ next \in Nat /\ next > m
          /\ row'[s] \in Rows /\ row'[s].next = next /\ row'[s].enabled = row[s].enabled
          /\ \A u \in ScheduleIds \ {s} : row'[u] = row[u]
          /\ \/ UNCHANGED submitted
             \/ \A u \in ScheduleIds : \A d \in 0..MaxTime :
                   u # s \/ d # old => submitted'[u][d] = submitted[u][d]
      BY <1>3, FireCommitDoes
    <3> HIDE DEF next
    <3> QED
      BY <3>1, <3>2
  <2> HIDE DEF next
  <2>2. \A u \in ScheduleIds : off[u] \subseteq 0..MaxTime /\ off[u] \subseteq Nat
    BY Types DEF Fired, SchedulesTypeOK, ConstantsOK
  <2>3. \A d \in off[s] : d < old /\ d < next /\ d # old
    <3>1. \A d \in off[s] : d < old
      BY <2>1 DEF Switched, OffBehind, After
    <3> QED
      BY <2>1, <2>2, <3>1
  <2>4. OffBehind'
    BY <1>1, <2>1, <2>3 DEF Switched, OffBehind, After
  <2>5. NoBurstOnEnable'
    <3> SUFFICES ASSUME NEW u \in ScheduleIds, NEW d \in off[u] PROVE submitted'[u][d] = 0
      BY <1>1 DEF NoBurstOnEnable
    <3>1. submitted'[u][d] = submitted[u][d]
      BY <2>1, <2>2, <2>3
    <3> QED
      BY <3>1 DEF Switched, NoBurstOnEnable
  <2>6. row'[s].present /\ row'[s] # Unused
    <3>1. \A r \in Rows : r.present
      BY DEF Rows
    <3>2. ~Unused.present
      BY DEF Unused
    <3> QED
      BY <2>1, <3>1, <3>2
  <2>7. SwitchAsSet'
    BY <1>1, <2>1, <2>6 DEF Switched, SwitchAsSet
  <2>8. \A u \in ScheduleIds : /\ row'[u].present => row[u].present /\ row'[u].enabled = row[u].enabled
                               /\ row'[u] = Unused => row[u] = Unused
    BY <2>1, <2>6
  <2>9. \A p \in Patchers : patch[p].pc # "idle" => patch[p].id \in ScheduleIds
    BY Types DEF Fired
  <2>10. PatchOfRow'
    <3> SUFFICES ASSUME NEW p \in Patchers, patch[p].pc # "idle"
                 PROVE  row'[patch[p].id] # Unused
      BY <1>1 DEF PatchOfRow
    <3>1. patch[p].id \in ScheduleIds
      BY <2>9
    <3>2. row[patch[p].id] # Unused
      BY DEF Switched, PatchOfRow
    <3> QED
      BY ONLY <2>8, <3>1, <3>2
  <2>11. PatchOnTop'
    <3> SUFFICES ASSUME NEW p \in Patchers, patch[p].pc # "idle", row'[patch[p].id].present
                 PROVE  LET i == patch[p].id
                        IN  /\ patch[p].pc = "read" =>
                                /\ patch[p].was.enabled = row'[i].enabled
                                /\ After(off[i], patch[p].was)
                            /\ patch[p].pc = "write" =>
                                /\ patch[p].new.enabled
                                     = Switch(patch[p].change.enabled, row'[i].enabled)
                                /\ After(off[i], patch[p].new)
      BY <1>1 DEF PatchOnTop
    <3>1. row[patch[p].id].present /\ row'[patch[p].id].enabled = row[patch[p].id].enabled
      BY <2>8, <2>9
    <3> QED
      BY <3>1 DEF Switched, PatchOnTop
  <2> QED
    BY <2>4, <2>5, <2>7, <2>10, <2>11 DEF Switched
<1> QED
  BY <1>2, <1>3

-----------------------------------------------------------------------------
(* Every step keeps the types and what has been fired in order. *)
LEMMA NextFired == ASSUME ConstantsOK, Fired, [SchedulesNext]_schedulesVars PROVE Fired'
<1>1. CASE Pass
  BY <1>1, PassFired
<1>2. CASE Edit
  BY <1>2, CreateFired, DeleteFired, PatchReadFired, PatchComputeFired,
     PatchWriteFired DEF Edit
<1>3. ASSUME NEW t \in Tickers, Tick(t) \/ Crash(t) PROVE Fired'
  BY <1>3, RunDueFired, FireBeginFired, FireCommitFired, CrashFired DEF Tick
<1>4. CASE UNCHANGED schedulesVars
  <2>1. SchedulesTypeOK'
    BY <1>4 DEF schedulesVars, Fired, SchedulesTypeOK
  <2> QED
    BY <1>4, <2>1, FiredFrame DEF schedulesVars, Fired
<1> QED
  BY <1>1, <1>2, <1>3, <1>4 DEF SchedulesNext

(* Every step keeps the switches, while patches do not overlap. *)
LEMMA NextSwitched ==
  ASSUME ConstantsOK, OnePatchAtATime, Fired, Switched, [SchedulesNext]_schedulesVars
  PROVE  Switched'
<1>1. CASE Pass
  BY <1>1, PassSwitched
<1>2. CASE Edit
  BY <1>2, CreateSwitched, DeleteSwitched, PatchReadSwitched, PatchComputeSwitched,
     PatchWriteSwitched DEF Edit
<1>3. ASSUME NEW t \in Tickers, Tick(t) \/ Crash(t) PROVE Switched'
  <2>1. CASE FireCommit(t)
    BY <2>1, FireCommitSwitched
  <2>2. CASE RunDue(t) \/ (\E s \in ScheduleIds : FireBegin(t, s)) \/ Crash(t)
    <3>1. UNCHANGED <<row, patch, submitted, want, off>>
      BY <2>2 DEF RunDue, FireBegin, Crash
    <3> QED
      BY <3>1, SwitchedFrame
  <2> QED
    BY <1>3, <2>1, <2>2 DEF Tick
<1>4. CASE UNCHANGED schedulesVars
  BY <1>4, SwitchedFrame DEF schedulesVars
<1> QED
  BY <1>1, <1>2, <1>3, <1>4 DEF SchedulesNext

(* Only a commit that found its row due changes the row as a firing ends. *)
LEMMA NextMovesOn == ASSUME ConstantsOK, Fired, SchedulesNext PROVE MovesOn
<1> SUFFICES ASSUME NEW t \in Tickers, firing[t] # NoFire, firing'[t] = NoFire,
                    row'[firing[t].id] # row[firing[t].id]
             PROVE  LET s == firing[t].id
                        m == firing[t].moment
                    IN  /\ row'[s].next > m
                        /\ row'[s].next - row[s].next <= MaxSteps * row[s].trig.n =>
                            /\ (row'[s].next - row[s].next) % row[s].trig.n = 0
                            /\ row'[s].next - row[s].trig.n <= m
  BY DEF MovesOn
<1> DEFINE s == firing[t].id
           m == firing[t].moment
<1>1. FireCommit(t)
  <2>1. firing \in [Tickers -> {NoFire} \cup [id : ScheduleIds, moment : 0..clock]]
    BY DEF Fired, SchedulesTypeOK
  <2>2. firing' # firing /\ row' # row
    OBVIOUS
  <2>3. ~Pass /\ ~Edit
    BY <2>2 DEF Pass, Edit, Create, Delete, PatchRead, PatchCompute, PatchWrite
  <2>4. PICK u \in Tickers : Tick(u) \/ Crash(u)
    BY <2>3 DEF SchedulesNext
  <2>5. FireCommit(u)
    BY <2>2, <2>4 DEF Tick, RunDue, FireBegin, Crash
  <2>6. u = t
    BY <2>1, <2>5 DEF FireCommit
  <2> QED
    BY <2>5, <2>6
<1>2. /\ m \in 0..clock /\ row[s] \in Rows /\ Aligned(row[s])
      /\ row[s].next \in 0..m /\ row'[s].next = Advance(row[s], m)
  BY <1>1, FireCommitDoes
<1>3. m \in Nat /\ row[s].next <= m
  BY <1>2, Types DEF Fired
<1>4. /\ Advance(row[s], m) > m
      /\ Advance(row[s], m) - row[s].next <= MaxSteps * row[s].trig.n =>
              /\ (Advance(row[s], m) - row[s].next) % row[s].trig.n = 0
              /\ Advance(row[s], m) - row[s].trig.n <= m
  BY <1>2, <1>3, AdvanceMovesOn
<1> QED
  BY <1>2, <1>4

(* For any number of schedules, ticking workers and overlapping patches: a due  *)
(* time is submitted at most once unless a patch has moved next_run back, and   *)
(* never before it has come (schedules.py _fire).                               *)
THEOREM FiredOnce == SchedulesSpec => []OncePerDueTime
<1> ConstantsOK
  BY ConstantsAssumption
<1>1. SchedulesInit => Fired
  BY InitFired
<1>2. Fired /\ [SchedulesNext]_schedulesVars => Fired'
  BY NextFired
<1>3. Fired => OncePerDueTime
  BY DEF Fired
<1> QED
  BY <1>1, <1>2, <1>3, PTL DEF SchedulesSpec

(* For any number of schedules and ticking workers, while patches do not        *)
(* overlap: a schedule is on or off as the last request left it, and nothing is *)
(* submitted for a time at which it was off (schedules.py update).              *)
THEOREM SwitchesHold == OnePatchAtATime => (SchedulesSpec => []SchedulesInv)
<1> SUFFICES ASSUME OnePatchAtATime PROVE SchedulesSpec => []SchedulesInv
  OBVIOUS
<1> ConstantsOK
  BY ConstantsAssumption
<1>1. SchedulesInit => Fired /\ Switched
  BY InitFired, InitSwitched
<1>2. Fired /\ Switched /\ [SchedulesNext]_schedulesVars => Fired' /\ Switched'
  BY NextFired, NextSwitched
<1>3. Fired /\ Switched => SchedulesInv
  BY DEF Fired, Switched, SchedulesInv
<1> QED
  BY <1>1, <1>2, <1>3, PTL DEF SchedulesSpec

(* schedules.py _advance, for every period and every number of catch-up steps:  *)
(* a firing leaves its row due after its moment, and within that many periods   *)
(* at the first of its own instants past it.                                    *)
THEOREM FiringAdvances == SchedulesSpec => FiringMovesOn
<1> ConstantsOK
  BY ConstantsAssumption
<1>1. SchedulesInit => Fired
  BY InitFired
<1>2. Fired /\ [SchedulesNext]_schedulesVars => Fired'
  BY NextFired
<1>3. Fired /\ [SchedulesNext]_schedulesVars => [MovesOn]_schedulesVars
  BY NextMovesOn
<1> QED
  BY <1>1, <1>2, <1>3, PTL DEF SchedulesSpec, FiringMovesOn
=============================================================================
