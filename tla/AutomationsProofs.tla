-------------------------- MODULE AutomationsProofs --------------------------
(***************************************************************************)
(* AutomationsInv and AtMostOnce hold for every set of automations,        *)
(* documents, workspaces and concurrent ticks, any number of jobs and any  *)
(* BATCH.  A job is claimed once, because automations_at is set once; what *)
(* a claim still owes and what it has tried add up to the chain as it was  *)
(* read (Account), so an edit, a crash or another tick can only cut it     *)
(* short.  A step is assembled from what it does to the job table and to   *)
(* the tick it is a step of; every other tick is Kept.                     *)
(***************************************************************************)
EXTENDS Automations, SequenceTheorems, TLAPS

IndInv == TypeOK /\ TickInv /\ LedgerInv /\ NoRetroactive /\ AtMostOnce

(* The step is not one of tick u, nor about the job u has claimed. *)
Kept(u) ==
    /\ batch'[u] = batch[u] /\ cur'[u] = cur[u]
    /\ todo'[u] = todo[u] /\ chain'[u] = chain[u]
    /\ cur[u] # 0 => sent'[cur[u]] = sent[cur[u]]

(* A finished job is not touched. *)
EndedKept ==
    \A j \in Jobs : Ended(j) => job'[j] = job[j] /\ known'[j] = known[j]

Own(u) == Account(cur[u], todo[u], chain[u])
Bounded(j, a) == sent[j][a] > 0 => \E d \in Documents : sent[j][a] <= Len(d.acts)

LEMMA Assemble ==
    ASSUME IndInv, TypeOK', EndedKept, seen \subseteq seen',
           \A i \in DOMAIN done' : job'[done'[i]].status \in Terminal,
           \A j \in seen' : job'[j].status \in Terminal,
           \A u \in Tickers : Kept(u) \/ (Claims(u)' /\ (cur'[u] # 0 => Own(u)')),
           \A j \in Jobs \ seen' : \A a \in Rows : sent'[j][a] = 0,
           \A s, u \in Tickers : cur'[s] # 0 /\ cur'[s] = cur'[u] => s = u,
           \A j \in Jobs, a \in Rows : Bounded(j, a)',
           NoRetroactive'
    PROVE  IndInv'
<1>1. ASSUME NEW u \in Tickers, Kept(u)
      PROVE  Claims(u)' /\ (cur'[u] # 0 => Own(u)')
  <2>1. batch[u] \subseteq Jobs /\ (cur[u] # 0 => cur[u] \in Jobs)
    BY DEF IndInv, TypeOK
  <2>2. Claims(u) /\ (cur[u] # 0 => Own(u))
    BY DEF IndInv, TickInv, LedgerInv, Own
  <2>3. Claims(u)'
    <3>1. \A j \in batch[u] : job'[j].status \in Terminal
      BY <2>1, <2>2 DEF Claims, EndedKept, Ended
    <3> QED BY <1>1, <2>2, <3>1 DEF Claims, Kept, Ended
  <2>4. ASSUME cur[u] # 0 PROVE Own(u)'
    <3>1. Ended(cur[u]) /\ cur[u] \in Jobs
      BY <2>1, <2>2, <2>4 DEF Claims, IndInv, TickInv
    <3>2. /\ job'[cur[u]] = job[cur[u]] /\ known'[cur[u]] = known[cur[u]]
          /\ sent'[cur[u]] = sent[cur[u]]
      BY <1>1, <2>4, <3>1 DEF EndedKept, Kept
    <3>3. Own(u)
      BY <2>2, <2>4
    <3>4. batch'[u] = batch[u] /\ cur'[u] = cur[u] /\ todo'[u] = todo[u] /\ chain'[u] = chain[u]
      BY <1>1 DEF Kept
    <3> QED BY <3>2, <3>3, <3>4 DEF Own, Account, MayFire
  <2> QED BY <1>1, <2>3, <2>4 DEF Kept
<1>2. TickInv'
  BY <1>1, Zenon DEF TickInv, Ended
<1>3. LedgerInv'
  BY <1>1, Zenon DEF LedgerInv, Own
<1>4. AtMostOnce'
  BY Zenon DEF AtMostOnce, Bounded
<1> QED BY <1>2, <1>3, <1>4 DEF IndInv

(* The facts about a tick that its steps start from. *)
LEMMA TickFacts ==
    ASSUME IndInv, NEW t \in Tickers
    PROVE  /\ batch[t] \subseteq Jobs /\ cur[t] \in Jobs \cup {0} /\ todo[t] \subseteq Chain
           /\ chain[t] \in Chain
           /\ Claims(t) /\ (cur[t] # 0 => Account(cur[t], todo[t], chain[t]))
           /\ cur[t] # 0 => cur[t] \in Jobs /\ Ended(cur[t]) /\ cur[t] \in seen
BY DEF IndInv, TypeOK, TickInv, LedgerInv, Claims

(* The invariant, part by part, for use where nothing of a part changed. *)
LEMMA IndFacts ==
    ASSUME IndInv
    PROVE  /\ TypeOK
           /\ \A i \in DOMAIN done : job[done[i]].status \in Terminal
           /\ \A j \in seen : job[j].status \in Terminal
           /\ \A j \in Jobs \ seen : \A a \in Rows : sent[j][a] = 0
           /\ \A s, u \in Tickers : cur[s] # 0 /\ cur[s] = cur[u] => s = u
           /\ \A j \in Jobs, a \in Rows : Bounded(j, a)
           /\ NoRetroactive
BY Zenon DEF IndInv, TickInv, LedgerInv, AtMostOnce, Bounded, Ended

-----------------------------------------------------------------------------
(* Authoring touches no job and no tick. *)
LEMMA AuthorInd == ASSUME IndInv, Author PROVE IndInv'
<1>1. UNCHANGED <<job, done, known, seen, batch, cur, todo, chain, sent>>
  BY DEF Author, Create, Replace, SetEnabled, Delete, tickVars
<1>2. row' \in [Rows -> GoneRow \cup StoredRow]
  <2>0. row \in [Rows -> GoneRow \cup StoredRow]
    BY DEF IndInv, TypeOK
  <2> SUFFICES ASSUME NEW a \in Rows,
                      \/ \E d \in Documents, on \in BOOLEAN : Create(a, d, on) \/ Replace(a, d, on)
                      \/ \E on \in BOOLEAN : SetEnabled(a, on)
                      \/ Delete(a)
               PROVE  row' \in [Rows -> GoneRow \cup StoredRow]
    BY DEF Author
  <2>1. CASE \E d \in Documents, on \in BOOLEAN : Create(a, d, on) \/ Replace(a, d, on)
    <3> PICK d \in Documents, on \in BOOLEAN : Create(a, d, on) \/ Replace(a, d, on)
      BY <2>1
    <3> DEFINE z == [state |-> "stored", enabled |-> on, doc |-> d]
    <3>1. z \in StoredRow
      BY DEF StoredRow
    <3>2. row' = [row EXCEPT ![a] = z]
      BY DEF Create, Replace
    <3> HIDE DEF z
    <3> QED BY <2>0, <3>1, <3>2
  <2>2. CASE \E on \in BOOLEAN : SetEnabled(a, on)
    <3> PICK on \in BOOLEAN : SetEnabled(a, on)
      BY <2>2
    <3> DEFINE z == [row[a] EXCEPT !.enabled = on]
    <3>1. row[a] \in StoredRow
      BY <2>0 DEF SetEnabled, Stored, GoneRow
    <3>2. z \in StoredRow
      BY <3>1 DEF StoredRow
    <3>3. row' = [row EXCEPT ![a] = z]
      BY DEF SetEnabled
    <3> HIDE DEF z
    <3> QED BY <2>0, <3>2, <3>3
  <2>3. CASE Delete(a)
    <3> DEFINE z == [state |-> "deleted", enabled |-> FALSE]
    <3>1. z \in GoneRow
      BY DEF GoneRow
    <3>2. row' = [row EXCEPT ![a] = z]
      BY <2>3 DEF Delete
    <3> HIDE DEF z
    <3> QED BY <2>0, <3>1, <3>2
  <2> QED BY <2>1, <2>2, <2>3
<1>3. TypeOK'
  BY <1>1, <1>2, Zenon DEF IndInv, TypeOK
<1>4. EndedKept /\ \A u \in Tickers : Kept(u)
  BY <1>1 DEF EndedKept, Kept
<1>5. NoRetroactive' /\ \A j \in Jobs, a \in Rows : Bounded(j, a)'
  BY <1>1, IndFacts, Zenon DEF NoRetroactive, Bounded
<1> QED BY <1>1, <1>3, <1>4, <1>5, IndFacts, Assemble

(* submit takes a row that nobody has seen. *)
LEMMA InsertKeeps ==
    ASSUME IndInv, NEW w \in Acts, NEW by \in Names, Insert(w, by)
    PROVE  /\ job' \in [Jobs -> JobRow]
           /\ \A j \in Jobs : Ended(j) => job'[j] = job[j]
<1> PICK n \in Free : job' = [job EXCEPT ![n] = [ws |-> w, by |-> by, status |-> "active"]]
  BY DEF Insert
<1> DEFINE z == [ws |-> w, by |-> by, status |-> "active"]
<1>1. z \in JobRow
  BY DEF JobRow
<1>2. job \in [Jobs -> JobRow] /\ n \in Jobs /\ ~Ended(n)
  BY DEF IndInv, TypeOK, Free, Ended, Terminal
<1> HIDE DEF z
<1> QED BY <1>1, <1>2 DEF z

LEMMA SubmitByUserInd ==
    ASSUME IndInv, NEW w \in Workspaces, SubmitByUser(w) PROVE IndInv'
<1>1. /\ Insert(w, Nobody)
      /\ UNCHANGED <<row, done, known, seen, batch, cur, todo, chain, sent>>
  BY DEF SubmitByUser, tickVars
<1>2. w \in Acts /\ Nobody \in Names
  BY DEF Acts, Names
<1>3. /\ job' \in [Jobs -> JobRow]
      /\ \A j \in Jobs : Ended(j) => job'[j] = job[j]
  BY <1>1, <1>2, InsertKeeps
<1>4. TypeOK'
  BY <1>1, <1>3, Zenon DEF IndInv, TypeOK
<1>5. EndedKept /\ \A u \in Tickers : Kept(u)
  BY <1>1, <1>3 DEF EndedKept, Kept
<1>6. NoRetroactive' /\ \A j \in Jobs, a \in Rows : Bounded(j, a)'
  BY <1>1, IndFacts, Zenon DEF NoRetroactive, Bounded
<1>7. /\ \A i \in DOMAIN done : done[i] \in Jobs
      /\ seen \subseteq Jobs
  BY DEF IndInv, TypeOK
<1>8. /\ \A i \in DOMAIN done : job'[done[i]].status \in Terminal
      /\ \A j \in seen : job'[j].status \in Terminal
  BY <1>3, <1>7, IndFacts DEF Ended
<1> QED BY <1>1, <1>4, <1>5, <1>6, <1>8, IndFacts, Assemble

LEMMA CompleteInd ==
    ASSUME IndInv, NEW j \in Jobs, NEW s \in Outcomes, Complete(j, s) PROVE IndInv'
<1> DEFINE z == [job[j] EXCEPT !.status = s]
           K == {a \in Rows : Stored(a)}
<1>0. TypeOK
  BY DEF IndInv
<1>1. /\ job[j].status = "active" /\ job' = [job EXCEPT ![j] = z]
      /\ done' = Append(done, j) /\ known' = [known EXCEPT ![j] = K]
      /\ UNCHANGED <<row, seen, batch, cur, todo, chain, sent>>
  BY DEF Complete, tickVars
<1>2. s \in Terminal
  BY OutcomesAssumption DEF Terminal
<1>3. z \in JobRow /\ z.status = s
  <2>1. job[j] \in JobRow
    BY <1>0 DEF TypeOK
  <2> QED BY <1>2, <2>1 DEF JobRow
<1>4. K \subseteq Rows /\ ~Ended(j)
  BY <1>1 DEF Ended, Terminal
<1> HIDE DEF z, K
<1>5. /\ job' \in [Jobs -> JobRow]
      /\ \A k \in Jobs : job'[k] = IF k = j THEN z ELSE job[k]
  BY <1>0, <1>1, <1>3 DEF TypeOK
<1>6. /\ known' \in [Jobs -> SUBSET Rows]
      /\ \A k \in Jobs : known'[k] = IF k = j THEN K ELSE known[k]
  BY <1>0, <1>1, <1>4 DEF TypeOK
<1>7. /\ done \in Seq(Jobs) /\ done' \in Seq(Jobs) /\ Len(done') = Len(done) + 1
      /\ \A i \in 1..Len(done) : done'[i] = done[i]
      /\ done'[Len(done) + 1] = j
  BY <1>0, <1>1, AppendProperties DEF TypeOK
<1>8. TypeOK'
  BY <1>0, <1>1, <1>5, <1>6, <1>7, Zenon DEF TypeOK
<1>9. EndedKept /\ \A u \in Tickers : Kept(u)
  BY <1>1, <1>4, <1>5, <1>6 DEF EndedKept, Kept
<1>10. \A j2 \in Jobs : Ended(j2) \/ j2 = j => job'[j2].status \in Terminal
  BY <1>2, <1>3, <1>5 DEF Ended
<1>11. ASSUME NEW i \in DOMAIN done' PROVE job'[done'[i]].status \in Terminal
  <2>1. i \in 1..(Len(done) + 1) /\ Len(done) \in Nat /\ done'[i] \in Jobs
    BY <1>7
  <2>2. CASE i = Len(done) + 1
    BY <1>7, <1>10, <2>2
  <2>3. CASE i # Len(done) + 1
    <3>1. i \in 1..Len(done) /\ i \in DOMAIN done
      BY <1>7, <2>1, <2>3
    <3>2. done'[i] = done[i] /\ Ended(done[i])
      BY <1>7, <3>1, IndFacts DEF Ended
    <3> QED BY <1>10, <2>1, <3>2
  <2> QED BY <2>2, <2>3
<1>12. \A k \in seen : job'[k].status \in Terminal
  BY <1>0, <1>10, IndFacts DEF Ended, TypeOK
<1>13. NoRetroactive'
  <2> SUFFICES ASSUME NEW k \in Jobs, NEW a \in Rows, sent[k][a] > 0
               PROVE  a \in known'[k]
    BY <1>1, Zenon DEF NoRetroactive
  <2>1. k \in seen
    BY IndFacts
  <2>2. Ended(k)
    BY <2>1, IndFacts DEF Ended
  <2> QED BY <1>4, <1>6, <2>2, IndFacts DEF NoRetroactive
<1>14. \A k \in Jobs, a \in Rows : Bounded(k, a)'
  BY <1>1, IndFacts, Zenon DEF Bounded
<1> QED BY <1>1, <1>8, <1>9, <1>11, <1>12, <1>13, <1>14, IndFacts, Assemble

-----------------------------------------------------------------------------
(* A step of tick t that claims nothing and tries nothing. *)
LEMMA OwnStep ==
    ASSUME IndInv, NEW t \in Tickers,
           UNCHANGED <<row, job, done, known, seen, sent>>,
           NEW B \in SUBSET Jobs, NEW c \in {cur[t], 0},
           NEW T \in SUBSET Chain, NEW y \in Chain,
           batch' = [batch EXCEPT ![t] = B], cur' = [cur EXCEPT ![t] = c],
           todo' = [todo EXCEPT ![t] = T], chain' = [chain EXCEPT ![t] = y],
           \A j \in B : Ended(j),
           c = 0 => T = {} /\ y = NoChain,
           c # 0 => Account(c, T, y)
    PROVE  IndInv'
<1>0. TypeOK /\ cur[t] \in Jobs \cup {0}
  BY DEF IndInv, TypeOK
<1>1. /\ batch' \in [Tickers -> SUBSET Jobs]
      /\ cur' \in [Tickers -> Jobs \cup {0}]
      /\ todo' \in [Tickers -> SUBSET Chain]
      /\ chain' \in [Tickers -> Chain]
  BY <1>0 DEF TypeOK
<1>2. TypeOK'
  BY <1>0, <1>1, Zenon DEF TypeOK
<1>3. /\ batch'[t] = B /\ cur'[t] = c /\ todo'[t] = T /\ chain'[t] = y
      /\ \A u \in Tickers \ {t} : /\ batch'[u] = batch[u] /\ cur'[u] = cur[u]
                                  /\ todo'[u] = todo[u] /\ chain'[u] = chain[u]
  BY <1>0 DEF TypeOK
<1>4. EndedKept /\ \A u \in Tickers \ {t} : Kept(u)
  BY <1>3 DEF EndedKept, Kept
<1>5. Claims(t)'
  BY <1>3, TickFacts DEF Claims, Ended
<1>6. cur'[t] # 0 => Own(t)'
  BY <1>3 DEF Own, Account, MayFire
<1>7. NoRetroactive' /\ \A j \in Jobs, a \in Rows : Bounded(j, a)'
  BY IndFacts, Zenon DEF NoRetroactive, Bounded
<1>8. \A s, u \in Tickers : cur'[s] # 0 /\ cur'[s] = cur'[u] => s = u
  <2>1. \A u \in Tickers : cur'[u] \in {cur[u], 0}
    BY <1>3
  <2>2. \A s, u \in Tickers : cur[s] # 0 /\ cur[s] = cur[u] => s = u
    BY IndFacts
  <2> QED BY <2>1, <2>2
<1> QED BY <1>2, <1>4, <1>5, <1>6, <1>7, <1>8, IndFacts, Assemble

(* A function is itself with any of its values put in again. *)
LEMMA SameTick ==
    ASSUME IndInv, NEW t \in Tickers
    PROVE  /\ batch = [batch EXCEPT ![t] = batch[t]] /\ cur = [cur EXCEPT ![t] = cur[t]]
           /\ todo = [todo EXCEPT ![t] = todo[t]] /\ chain = [chain EXCEPT ![t] = chain[t]]
BY DEF IndInv, TypeOK

LEMMA NoChainType == NoChain \in Chain
<1>1. Nobody \in Names /\ << >> \in Seq(Acts)
  BY DEF Names
<1> QED BY <1>1 DEF NoChain, Chain

LEMMA RunPendingInd == ASSUME IndInv, NEW t \in Tickers, RunPending(t) PROVE IndInv'
<1> DEFINE B == Oldest(Pending)
<1>1. /\ batch' = [batch EXCEPT ![t] = B] /\ cur[t] = 0
      /\ UNCHANGED <<row, job, done, known, seen, cur, todo, chain, sent>>
  BY DEF RunPending, Idle
<1>2. B \subseteq Finished
  BY DEF Oldest, Pending
<1>3. \A j \in Finished : j \in Jobs /\ Ended(j)
  <2>1. \A i \in DOMAIN done : done[i] \in Jobs
    BY DEF IndInv, TypeOK
  <2> QED BY <2>1 DEF Finished, IndInv, TickInv
<1> HIDE DEF B
<1>4. todo[t] = {} /\ chain[t] = NoChain
  BY <1>1, TickFacts DEF Claims
<1>5. B \in SUBSET Jobs /\ \A j \in B : Ended(j)
  BY <1>2, <1>3
<1>6. /\ cur' = [cur EXCEPT ![t] = 0] /\ todo' = [todo EXCEPT ![t] = {}]
      /\ chain' = [chain EXCEPT ![t] = NoChain]
  BY <1>1, <1>4, SameTick
<1>7. UNCHANGED <<row, job, done, known, seen, sent>>
  BY <1>1
<1> DEFINE c == 0
           T == {}
<1>8. c \in {cur[t], 0} /\ c = 0 /\ T = {} /\ T \in SUBSET Chain
  OBVIOUS
<1> HIDE DEF c, T
<1> QED BY <1>1, <1>5, <1>6, <1>7, <1>8, NoChainType, OwnStep

LEMMA FetchInd == ASSUME IndInv, NEW t \in Tickers, Fetch(t) PROVE IndInv'
<1> DEFINE c == cur[t]
           F == {a \in Eligible(c) : /\ Matches(row[a].doc, c)
                                     /\ ~WouldLoop(row[a].doc.name, c)}
           X(a) == [id |-> a, name |-> row[a].doc.name, left |-> row[a].doc.acts]
           T == {X(a) : a \in F}
           n == IF F = {} THEN 0 ELSE c
<1>1. /\ c # 0 /\ todo[t] = {} /\ chain[t] = NoChain
      /\ todo' = [todo EXCEPT ![t] = T] /\ cur' = [cur EXCEPT ![t] = n]
      /\ UNCHANGED <<row, job, done, known, seen, batch, chain, sent>>
  BY DEF Fetch
<1>2. /\ batch[t] \subseteq Jobs /\ (\A j \in batch[t] : Ended(j)) /\ c \in Jobs
      /\ \A a \in Rows : sent[c][a] = 0
  <2>1. Account(c, todo[t], chain[t]) /\ c \in Jobs
    BY <1>1, TickFacts
  <2> QED BY <1>1, <2>1, TickFacts DEF Account, Claims
<1>3. ASSUME NEW a \in F
      PROVE  /\ a \in Rows /\ a \in known[c] /\ row[a].doc \in Documents
             /\ job[c].by # row[a].doc.name
  <2>1. a \in Rows /\ Stored(a) /\ a \in known[c] /\ job[c].by # row[a].doc.name
    BY DEF Eligible, WouldLoop
  <2>2. row[a] \in StoredRow
    BY <2>1 DEF IndInv, TypeOK, Stored, GoneRow
  <2> QED BY <2>1, <2>2 DEF StoredRow
<1>4. ASSUME NEW x \in T
      PROVE  /\ x \in Chain /\ MayFire(x, c) /\ x.id # "none"
             /\ \E d \in Documents : x.left = d.acts
             /\ x = X(x.id)
  <2>1. PICK a \in F : x = X(a)
    OBVIOUS
  <2> DEFINE d == row[a].doc
  <2>2. a \in Rows /\ a \in known[c] /\ d \in Documents /\ job[c].by # d.name
    BY <1>3
  <2>3. d.name \in Names /\ d.acts \in Seq(Acts)
    BY <2>2, ActsAssumption DEF Names, Acts
  <2>4. x = [id |-> a, name |-> d.name, left |-> d.acts]
    BY <2>1
  <2> HIDE DEF F, T, d, c
  <2>5. x.id = a /\ x.name = d.name /\ x.left = d.acts /\ x \in Chain
    BY <2>2, <2>3, <2>4 DEF Chain
  <2>6. MayFire(x, c) /\ x.id # "none"
    BY <2>2, <2>5, NoRowAssumption DEF MayFire
  <2> QED BY <2>1, <2>2, <2>5, <2>6
<1>5. \A x, z \in T : z.id = x.id => z = x
  BY <1>4, Zenon
<1>6. F # {} => T # {}
  OBVIOUS
<1>7. (F = {} => T = {}) /\ n \in {c, 0} /\ (n = 0 => F = {}) /\ (n # 0 => F # {} /\ n = c)
  BY <1>1
<1> HIDE DEF F, T, X, n
<1>8. Account(c, T, NoChain) \/ F = {}
  <2> SUFFICES ASSUME F # {} PROVE Account(c, T, NoChain)
    OBVIOUS
  <2>1. NoChain.id = "none"
    BY DEF NoChain
  <2> HIDE DEF c
  <2>2. \A x \in T : sent[c][x.id] = 0
    BY <1>2, <1>4 DEF MayFire
  <2> QED BY <1>4, <1>5, <1>6, <2>1, <2>2 DEF Account
<1>9. T \in SUBSET Chain
  BY <1>4
<1> QED BY <1>1, <1>2, <1>7, <1>8, <1>9, SameTick, NoChainType, OwnStep

LEMMA FireInd == ASSUME IndInv, NEW t \in Tickers, Fire(t) PROVE IndInv'
<1>1. PICK x \in todo[t] : /\ chain' = [chain EXCEPT ![t] = x]
                           /\ todo' = [todo EXCEPT ![t] = @ \ {x}]
  BY DEF Fire
<1> DEFINE c == cur[t]
           T == todo[t] \ {x}
<1>2. /\ chain[t] = NoChain /\ todo' = [todo EXCEPT ![t] = T]
      /\ UNCHANGED <<row, job, done, known, seen, batch, cur, sent>>
  BY <1>1 DEF Fire
<1>3. /\ batch[t] \subseteq Jobs /\ (\A j \in batch[t] : Ended(j)) /\ c # 0 /\ c \in Jobs
      /\ Account(c, todo[t], NoChain) /\ todo[t] \subseteq Chain
  BY <1>2, TickFacts DEF Claims
<1>4. /\ x \in Chain /\ T \subseteq Chain /\ MayFire(x, c) /\ sent[c][x.id] = 0
      /\ \E d \in Documents : x.left = d.acts
      /\ x # NoChain
  <2>1. MayFire(x, c) /\ sent[c][x.id] = 0 /\ (\E d \in Documents : x.left = d.acts)
        /\ x.id # NoChain.id
    BY <1>3 DEF Account
  <2> QED BY <1>3, <2>1
<1>5. Account(c, T, x)
  <2>1. \E d \in Documents : sent[c][x.id] + Len(x.left) = Len(d.acts)
    <3>1. PICK d \in Documents : x.left = d.acts
      BY <1>4
    <3>2. Len(x.left) \in Nat
      BY <1>4 DEF Chain
    <3> QED BY <1>4, <3>1, <3>2
  <2>2. \A z \in T : z \in todo[t] /\ z # x
    OBVIOUS
  <2>3. \A z \in T : z.id # x.id
    BY <1>3, <2>2 DEF Account
  <2> HIDE DEF T, c
  <2> QED BY <1>3, <1>4, <2>1, <2>2, <2>3 DEF Account
<1> HIDE DEF T
<1> QED BY <1>1, <1>2, <1>3, <1>4, <1>5, SameTick, OwnStep

LEMMA RecordInd == ASSUME IndInv, NEW t \in Tickers, Record(t) PROVE IndInv'
<1> DEFINE c == cur[t]
           T == todo[t]
           n == IF T = {} THEN 0 ELSE c
<1>1. /\ chain[t] # NoChain /\ chain' = [chain EXCEPT ![t] = NoChain]
      /\ cur' = [cur EXCEPT ![t] = n]
      /\ UNCHANGED <<row, job, done, known, seen, batch, todo, sent>>
  BY DEF Record
<1>2. /\ batch[t] \subseteq Jobs /\ (\A j \in batch[t] : Ended(j)) /\ c # 0 /\ c \in Jobs
      /\ Account(c, T, chain[t]) /\ T \subseteq Chain
  BY <1>1, TickFacts DEF Claims
<1>3. n \in {c, 0} /\ (n = 0 => T = {}) /\ (n # 0 => T # {} /\ n = c)
  BY <1>2
<1>4. T # {} => Account(c, T, NoChain)
  <2>1. NoChain.id = "none"
    BY DEF NoChain
  <2>2. \A x \in T : x.id # "none"
    BY <1>2, NoRowAssumption DEF Account, MayFire
  <2> HIDE DEF T, c
  <2> QED BY <1>2, <2>1, <2>2 DEF Account
<1> HIDE DEF n
<1> QED BY <1>1, <1>2, <1>3, <1>4, SameTick, NoChainType, OwnStep

LEMMA AbandonInd == ASSUME IndInv, NEW t \in Tickers, Abandon(t) PROVE IndInv'
<1>1. /\ batch' = [batch EXCEPT ![t] = {}] /\ cur' = [cur EXCEPT ![t] = 0]
      /\ todo' = [todo EXCEPT ![t] = {}] /\ chain' = [chain EXCEPT ![t] = NoChain]
      /\ UNCHANGED <<row, job, done, known, seen, sent>>
  BY DEF Abandon
<1> DEFINE c == 0
           B == {}
           T == {}
<1>2. /\ c \in {cur[t], 0} /\ c = 0 /\ B \in SUBSET Jobs /\ T = {} /\ T \in SUBSET Chain
      /\ \A j \in B : Ended(j)
  OBVIOUS
<1>3. /\ batch' = [batch EXCEPT ![t] = B] /\ cur' = [cur EXCEPT ![t] = c]
      /\ todo' = [todo EXCEPT ![t] = T]
  BY <1>1
<1> HIDE DEF c, B, T
<1> QED BY <1>1, <1>2, <1>3, NoChainType, OwnStep

-----------------------------------------------------------------------------
(* The claim: only one tick finds automations_at unset. *)
LEMMA ConsiderInd == ASSUME IndInv, NEW t \in Tickers, Consider(t) PROVE IndInv'
<1>1. PICK j \in batch[t] :
        /\ batch' = [batch EXCEPT ![t] = @ \ {j}]
        /\ seen' = seen \cup {j}
        /\ cur' = [cur EXCEPT ![t] = IF Unseen(j) THEN j ELSE 0]
  BY DEF Consider
<1> DEFINE B == batch[t] \ {j}
           c == IF Unseen(j) THEN j ELSE 0
<1>2. /\ cur[t] = 0 /\ batch' = [batch EXCEPT ![t] = B] /\ cur' = [cur EXCEPT ![t] = c]
      /\ UNCHANGED <<row, job, done, known, todo, chain, sent>>
  BY <1>1 DEF Consider
<1>3. /\ j \in Jobs /\ Ended(j) /\ B \subseteq Jobs /\ (\A k \in B : Ended(k))
      /\ todo[t] = {} /\ chain[t] = NoChain
  BY <1>2, TickFacts DEF Claims
<1>4. c \in Jobs \cup {0} /\ (c # 0 => c = j /\ j \notin seen)
  BY <1>3 DEF Unseen
<1> HIDE DEF B, c
<1>5. TypeOK
  BY DEF IndInv
<1>6. /\ batch' \in [Tickers -> SUBSET Jobs] /\ cur' \in [Tickers -> Jobs \cup {0}]
      /\ seen' \subseteq Jobs
  BY <1>1, <1>2, <1>3, <1>4, <1>5 DEF TypeOK
<1>7. TypeOK'
  BY <1>2, <1>5, <1>6, Zenon DEF TypeOK
<1>8. /\ batch'[t] = B /\ cur'[t] = c /\ todo'[t] = {} /\ chain'[t] = NoChain
      /\ \A u \in Tickers \ {t} : /\ batch'[u] = batch[u] /\ cur'[u] = cur[u]
                                  /\ todo'[u] = todo[u] /\ chain'[u] = chain[u]
  BY <1>2, <1>3, <1>5 DEF TypeOK
<1>9. EndedKept /\ \A u \in Tickers \ {t} : Kept(u)
  BY <1>2, <1>8 DEF EndedKept, Kept
<1>10. Claims(t)'
  BY <1>1, <1>2, <1>3, <1>4, <1>8 DEF Claims, Ended
<1>11. ASSUME cur'[t] # 0 PROVE Own(t)'
  <2>1. c = j /\ j \notin seen /\ \A a \in Rows : sent[j][a] = 0
    BY <1>3, <1>4, <1>8, <1>11, IndFacts
  <2> QED BY <1>2, <1>8, <2>1 DEF Own, Account
<1>12. NoRetroactive' /\ \A k \in Jobs, a \in Rows : Bounded(k, a)'
  BY <1>2, IndFacts, Zenon DEF NoRetroactive, Bounded
<1>13. \A s, u \in Tickers : cur'[s] # 0 /\ cur'[s] = cur'[u] => s = u
  <2> SUFFICES ASSUME NEW s \in Tickers, NEW u \in Tickers,
                      cur'[s] # 0, cur'[s] = cur'[u], s # u
               PROVE  FALSE
    OBVIOUS
  <2>1. \A v \in Tickers \ {t} : cur'[v] # 0 => cur'[v] \in seen /\ cur'[v] = cur[v]
    BY <1>8, TickFacts
  <2>2. cur'[t] # 0 => cur'[t] \notin seen
    BY <1>4, <1>8
  <2>3. s # t /\ u # t
    BY <2>1, <2>2
  <2> QED BY <2>1, <2>3, IndFacts
<1>14. /\ seen \subseteq seen'
       /\ \A k \in seen' : job'[k].status \in Terminal
       /\ \A i \in DOMAIN done' : job'[done'[i]].status \in Terminal
       /\ \A k \in Jobs \ seen' : \A a \in Rows : sent'[k][a] = 0
  BY <1>1, <1>2, <1>3, IndFacts DEF Ended
<1> QED BY <1>7, <1>9, <1>10, <1>11, <1>12, <1>13, <1>14, Assemble

(* An action is tried: the chain owes one less. *)
LEMMA PerformInd == ASSUME IndInv, NEW t \in Tickers, Perform(t) PROVE IndInv'
<1> DEFINE c == cur[t]
           x == chain[t]
           q == x.left
           a == x.id
           y == [x EXCEPT !.left = Tail(q)]
           m == sent[c][a] + 1
<1>0. TypeOK
  BY DEF IndInv
<1>1. /\ q # << >>
      /\ \/ Head(q) # Http /\ Insert(Head(q), x.name)
         \/ UNCHANGED job
      /\ UNCHANGED <<row, done, known, seen, batch, cur, todo>>
  BY DEF Perform
<1>2. chain' = [chain EXCEPT ![t] = y] /\ sent' = [sent EXCEPT ![c][a] = m]
  BY DEF Perform
<1>3. x \in Chain /\ x # NoChain
  BY <1>1, TickFacts DEF NoChain
<1>4. c # 0 /\ c \in Jobs /\ c \in seen /\ Ended(c) /\ Account(c, todo[t], x)
  BY <1>3, TickFacts DEF Claims
<1>5. /\ MayFire(x, c) /\ a \in Rows /\ a \in known[c]
      /\ \A z \in todo[t] : z.id # a
  BY <1>3, <1>4 DEF Account, MayFire
<1>6. PICK d \in Documents : sent[c][a] + Len(q) = Len(d.acts)
  BY <1>3, <1>4 DEF Account
<1>7. q \in Seq(Acts) /\ Head(q) \in Acts /\ Tail(q) \in Seq(Acts)
      /\ Len(q) \in Nat /\ Len(Tail(q)) = Len(q) - 1 /\ Len(q) > 0
      /\ x.name \in Names
  <2>1. q \in Seq(Acts) /\ x.name \in Names
    BY <1>3 DEF Chain
  <2> HIDE DEF q, x
  <2> QED BY <1>1, <2>1, HeadTailProperties
<1>8. sent[c][a] \in Nat /\ m \in Nat /\ m = sent[c][a] + 1 /\ Len(d.acts) \in Nat
  <2>1. sent[c][a] \in Nat
    BY <1>0, <1>4, <1>5 DEF TypeOK
  <2>2. d.acts \in Seq(Workspaces \cup {Http})
    BY ActsAssumption
  <2> QED BY <2>1, <2>2
<1>9. /\ job' \in [Jobs -> JobRow]
      /\ \A j \in Jobs : Ended(j) => job'[j] = job[j]
  <2>1. CASE UNCHANGED job
    BY <1>0, <2>1 DEF TypeOK
  <2>2. CASE Insert(Head(q), x.name)
    <3> DEFINE w == Head(q)
               by == x.name
    <3>1. w \in Acts /\ by \in Names /\ Insert(w, by)
      BY <1>7, <2>2
    <3> HIDE DEF w, by
    <3> QED BY <3>1, InsertKeeps
  <2> QED BY <1>1, <2>1, <2>2
<1>10. y \in Chain /\ y.id = a /\ y.name = x.name /\ y.left = Tail(q)
  <2> DEFINE l == Tail(q)
  <2>1. l \in Seq(Acts)
    BY <1>7
  <2>2. y = [x EXCEPT !.left = l] /\ a = x.id
    OBVIOUS
  <2> HIDE DEF x, l, y, a
  <2>3. y \in Chain /\ y.id = x.id /\ y.name = x.name /\ y.left = l
    BY <1>3, <2>1, <2>2 DEF Chain
  <2> QED BY <2>2, <2>3 DEF l
<1> HIDE DEF m
<1>11. /\ sent' \in [Jobs -> [Rows -> Nat]]
       /\ \A j \in Jobs : \A b \in Rows :
             sent'[j][b] = IF j = c /\ b = a THEN m ELSE sent[j][b]
       /\ \A j \in Jobs : j # c => sent'[j] = sent[j]
  <2> HIDE DEF a, c
  <2> QED BY <1>0, <1>2, <1>4, <1>5, <1>8 DEF TypeOK
<1> HIDE DEF y
<1>12. /\ chain' \in [Tickers -> Chain] /\ chain'[t] = y
       /\ \A u \in Tickers \ {t} : chain'[u] = chain[u]
  BY <1>0, <1>2, <1>10 DEF TypeOK
<1>13. TypeOK'
  BY <1>0, <1>1, <1>9, <1>11, <1>12, Zenon DEF TypeOK
<1>14. EndedKept
  BY <1>1, <1>9 DEF EndedKept
<1>15. \A u \in Tickers \ {t} : Kept(u)
  <2> SUFFICES ASSUME NEW u \in Tickers, u # t PROVE Kept(u)
    OBVIOUS
  <2>1. cur[u] # 0 => cur[u] \in Jobs /\ cur[u] # c
    BY <1>4, IndFacts, TickFacts
  <2> QED BY <1>1, <1>11, <1>12, <2>1 DEF Kept
<1>16. Claims(t)'
  <2>1. \A j \in batch[t] : Ended(j) /\ j \in Jobs
    BY TickFacts DEF Claims
  <2> QED BY <1>1, <1>4, <1>9, <2>1 DEF Claims, Ended
<1>17. Own(t)'
  <2>1. /\ cur'[t] = c /\ todo'[t] = todo[t] /\ chain'[t] = y
        /\ job'[c] = job[c] /\ known'[c] = known[c]
    BY <1>1, <1>4, <1>9, <1>12
  <2>2. y # NoChain /\ y.id \in Rows /\ y.id \in known[c] /\ job[c].by # y.name
    BY <1>5, <1>10, NoRowAssumption DEF MayFire, NoChain
  <2>3. sent'[c][y.id] + Len(y.left) = Len(d.acts)
    <3>1. sent'[c][y.id] = m /\ Len(y.left) = Len(q) - 1
      BY <1>4, <1>5, <1>7, <1>10, <1>11
    <3>2. \A i, n, k \in Nat : i + n = k => (i + 1) + (n - 1) = k
      OBVIOUS
    <3> DEFINE i == sent[c][a]
               n == Len(q)
               k == Len(d.acts)
    <3>3. i \in Nat /\ n \in Nat /\ k \in Nat /\ i + n = k /\ m = i + 1
      BY <1>6, <1>7, <1>8
    <3> HIDE DEF i, n, k
    <3>4. m + (n - 1) = k
      BY <3>2, <3>3
    <3> QED BY <3>1, <3>4 DEF n, k
  <2>4. ASSUME NEW z \in todo[t]
        PROVE  /\ z.id \in Rows /\ z.id \in known[c] /\ job[c].by # z.name
               /\ z.id # y.id /\ sent'[c][z.id] = 0
               /\ \E e \in Documents : z.left = e.acts
               /\ \A v \in todo[t] : v.id = z.id => v = z
    <3>1. /\ z.id \in Rows /\ z.id \in known[c] /\ job[c].by # z.name
          /\ sent[c][z.id] = 0
          /\ \E e \in Documents : z.left = e.acts
          /\ \A v \in todo[t] : v.id = z.id => v = z
      BY <1>4, Zenon DEF Account, MayFire
    <3>2. z.id # y.id /\ sent'[c][z.id] = 0
      BY <1>4, <1>5, <1>10, <1>11, <3>1
    <3> QED BY <3>1, <3>2
  <2> DEFINE T == todo[t]
  <2>5. todo'[t] = T
    BY <2>1
  <2> HIDE DEF c, T
  <2> QED BY <2>1, <2>2, <2>3, <2>4, <2>5 DEF Own, Account, MayFire, T
<1>18. \A j \in Jobs, b \in Rows : Bounded(j, b)'
  <2> SUFFICES ASSUME NEW j \in Jobs, NEW b \in Rows, sent'[j][b] > 0
               PROVE  \E e \in Documents : sent'[j][b] <= Len(e.acts)
    BY Zenon DEF Bounded
  <2>1. CASE j = c /\ b = a
    <3>1. sent'[j][b] = m
      BY <1>11, <2>1
    <3> HIDE DEF q, a, c
    <3>2. m <= Len(d.acts)
      BY <1>6, <1>7, <1>8
    <3> QED BY <3>1, <3>2
  <2>2. CASE ~(j = c /\ b = a)
    BY <1>11, <2>2, IndFacts, SMTT(30) DEF Bounded
  <2> QED BY <2>1, <2>2
<1>19. NoRetroactive'
  <2> SUFFICES ASSUME NEW j \in Jobs, NEW b \in Rows, sent'[j][b] > 0
               PROVE  b \in known[j]
    BY <1>1, Zenon DEF NoRetroactive
  <2>1. CASE j = c /\ b = a
    BY <1>5, <2>1
  <2>2. CASE ~(j = c /\ b = a)
    BY <1>11, <2>2, IndFacts DEF NoRetroactive
  <2> QED BY <2>1, <2>2
<1>20. /\ \A k \in seen : job'[k].status \in Terminal
       /\ \A i \in DOMAIN done : job'[done[i]].status \in Terminal
  <2>1. (\A i \in DOMAIN done : done[i] \in Jobs) /\ seen \subseteq Jobs
    BY <1>0 DEF TypeOK
  <2> QED BY <1>9, <2>1, IndFacts DEF Ended
<1>21. \A k \in Jobs \ seen : \A b \in Rows : sent'[k][b] = 0
  BY <1>4, <1>11, IndFacts
<1> QED BY <1>1, <1>13, <1>14, <1>15, <1>16, <1>17, <1>18, <1>19, <1>20, <1>21, IndFacts, Assemble

-----------------------------------------------------------------------------
LEMMA InitInd == Init => IndInv
<1> SUFFICES ASSUME Init PROVE IndInv
  OBVIOUS
<1> USE DEF Init
<1>1. NoJob \in JobRow
  BY DEF NoJob, JobRow, Acts, Names
<1>2. NoRow \in GoneRow
  BY DEF NoRow, GoneRow
<1>3. TypeOK
  BY <1>1, <1>2, NoChainType DEF TypeOK
<1>4. TickInv /\ LedgerInv /\ NoRetroactive /\ AtMostOnce
  BY DEF TickInv, Claims, LedgerInv, NoRetroactive, AtMostOnce
<1> QED BY <1>3, <1>4 DEF IndInv

LEMMA NextInd == IndInv /\ [Next]_vars => IndInv'
<1> SUFFICES ASSUME IndInv, [Next]_vars PROVE IndInv'
  OBVIOUS
<1>1. CASE UNCHANGED vars
  <2>1. UNCHANGED <<row, job, done, known, seen, batch, cur, todo, chain, sent>>
    BY <1>1 DEF vars
  <2>2. TypeOK'
    BY <2>1, Zenon DEF IndInv, TypeOK
  <2>3. EndedKept /\ \A u \in Tickers : Kept(u)
    BY <2>1 DEF EndedKept, Kept
  <2>4. NoRetroactive' /\ \A j \in Jobs, a \in Rows : Bounded(j, a)'
    BY <2>1, IndFacts, Zenon DEF NoRetroactive, Bounded
  <2> QED BY <2>1, <2>2, <2>3, <2>4, IndFacts, Assemble
<1>2. CASE Author
  BY <1>2, AuthorInd
<1>3. CASE Outside
  BY <1>3, SubmitByUserInd, CompleteInd DEF Outside
<1>4. ASSUME NEW t \in Tickers, Tick(t) \/ Crash(t) PROVE IndInv'
  BY <1>4, RunPendingInd, ConsiderInd, FetchInd, FireInd, PerformInd, RecordInd, AbandonInd
     DEF Tick, RecordFails, Crash
<1> QED BY <1>1, <1>2, <1>3, <1>4 DEF Next

(* Nothing is delivered for a job that is older than the automation and no  *)
(* automation fires on a job of its own (consider, _would_loop), however    *)
(* documents are edited, ticks overlap and workers die.                     *)
THEOREM Invariance == Spec => []AutomationsInv
<1>1. IndInv => AutomationsInv
  <2> SUFFICES ASSUME IndInv, NEW t \in Tickers, chain[t] # NoChain
               PROVE  job[cur[t]].by # chain[t].name
    BY DEF IndInv, AutomationsInv, NoDirectLoop
  <2> QED BY TickFacts DEF Claims, Account, MayFire
<1> QED BY <1>1, InitInd, NextInd, PTL DEF Spec

(* "Deliberately at-most-once" (consider): no chain is performed twice for  *)
(* a job and no two ticks work on one job.                                  *)
THEOREM NeverTwice == Spec => []AtMostOnce
<1>1. IndInv => AtMostOnce
  BY DEF IndInv
<1> QED BY <1>1, InitInd, NextInd, PTL DEF Spec
=============================================================================
