----------------------------- MODULE GateProofs -----------------------------
(***************************************************************************)
(* Gate for any number of requests, accounts, agents, labels, credentials  *)
(* and connections: the pool is not overdrawn, every gap of the audit      *)
(* trail shows, and a credential that was cut stays cut.                   *)
(*                                                                         *)
(* The second part is about Connections.                                   *)
(***************************************************************************)
EXTENDS Gate, Connections, FiniteSetTheorems, SequenceTheorems, TLAPS

USE PoolAssumption, CredsAssumption

(* The parts of the invariant about one request. *)
Fine(x) ==
    /\ x \in ReqRow /\ TrailOK(x)
    /\ x.pc = "done" /\ x.path # "mcp" => x.rows + x.lost = Due(x)
    /\ x.pc = "done" /\ x.path = "mcp" =>
           x.rows + x.lost - x.calls \in IF x.who = "agent" THEN {0, 1} ELSE {0}

(* The invariant, request by request. *)
LEMMA FineRequests ==
  GateInv <=> /\ TypeOK /\ PoolInv /\ NoAccountWithoutToken /\ OneTokenPerAgent
              /\ \A r \in Requests : Fine(req[r])
  BY DEF GateInv, Fine, TrailInv, GapShows, LogsAgree, TypeOK

(* A request that is over is no request. *)
LEMMA NoRequestFine == Fine(NoRequest) /\ NoRequest.pc = "idle" /\ NoRequest.cred = 0
<1>1. /\ NoRequest \in ReqRow /\ NoRequest.pc = "idle" /\ NoRequest.cred = 0
      /\ NoRequest.calls = 0 /\ NoRequest.rows = 0 /\ NoRequest.lost = 0
  BY DEF NoRequest, ReqRow
<1> QED
  BY <1>1 DEF Fine, TrailOK

(* Nothing exists yet. *)
LEMMA InitInd == Init => GateInv
<1> SUFFICES ASSUME Init PROVE GateInv
  OBVIOUS
<1> USE DEF Init
<1>1. Len(creds) = 0 /\ creds \in Seq(CredRow) /\ Values = {}
  BY DEF Values
<1>2. TypeOK
  BY <1>1, NoRequestFine DEF TypeOK, Fine
<1>3. Held = {}
  BY NoRequestFine DEF Held, Holding
<1>4. PoolInv
  BY <1>3, FS_EmptySet DEF PoolInv
<1>5. NoAccountWithoutToken
  BY DEF NoAccountWithoutToken
<1>6. \A g : AgentRow(g) = {}
  BY <1>1 DEF AgentRow
<1>7. OneTokenPerAgent
  <2> SUFFICES ASSUME NEW g \in Agents PROVE Cardinality(AgentRow(g)) <= 1
    BY DEF OneTokenPerAgent
  <2>1. Cardinality(AgentRow(g)) = 0
    BY <1>6, FS_EmptySet
  <2> QED
    BY <2>1
<1> QED
  BY <1>2, <1>4, <1>5, <1>7, NoRequestFine, FineRequests

-----------------------------------------------------------------------------
(* Credentials. *)

(* No credential goes, changes hands, or comes back. *)
Kept ==
    /\ creds' \in Seq(CredRow) /\ Len(creds) <= Len(creds')
    /\ \A v \in Values : /\ creds'[v].kind = creds[v].kind
                         /\ creds'[v].account = creds[v].account
                         /\ creds[v].st = "cut" => creds'[v].st = "cut"

(* The credentials are a sequence of rows. *)
LEMMA CredTypes ==
  ASSUME TypeOK
  PROVE  /\ creds \in Seq(CredRow) /\ Len(creds) \in Nat
         /\ \A v \in Values : v \in Nat /\ creds[v] \in CredRow
  BY LenProperties, ElementOfSeq DEF TypeOK, Values

(* A command on accounts, tokens or agents; the requests are not touched. *)
LEMMA StoreInd ==
  ASSUME GateInv, Kept, account' \in [Accounts -> {"absent", "on", "disabled"}],
         off' \subseteq Agents,
         \A a \in Accounts : account'[a] # "absent" =>
             \/ account[a] # "absent"
             \/ \E v \in Values' : creds'[v].kind = "token" /\ creds'[v].account = a,
         \A g \in Agents : \/ AgentRow(g)' \subseteq AgentRow(g)
                           \/ \E v : AgentRow(g)' = {v},
         UNCHANGED <<req, busy>>
  PROVE  GateInv'
<1> USE DEF GateInv
<1>1. Len(creds) \in Nat /\ Len(creds') \in Nat
  BY CredTypes, LenProperties DEF Kept
<1>2. TypeOK'
  BY <1>1 DEF TypeOK, Kept
<1>3. PoolInv'
  <2>1. Held' = Held
    BY DEF Held
  <2> QED
    BY <2>1 DEF PoolInv
<1>4. NoAccountWithoutToken'
  BY <1>1 DEF NoAccountWithoutToken, Kept, Values
<1>5. OneTokenPerAgent'
  <2> SUFFICES ASSUME NEW g \in Agents PROVE Cardinality(AgentRow(g)') <= 1
    BY DEF OneTokenPerAgent
  <2>1. CASE AgentRow(g)' \subseteq AgentRow(g)
    <3>1. IsFiniteSet(Values)
      BY <1>1, FS_Interval DEF Values
    <3>2. IsFiniteSet(AgentRow(g))
      BY <3>1, FS_Subset DEF AgentRow
    <3>3. /\ Cardinality(AgentRow(g)) \in Nat /\ Cardinality(AgentRow(g)) <= 1
          /\ Cardinality(AgentRow(g)') <= Cardinality(AgentRow(g))
          /\ IsFiniteSet(AgentRow(g)')
      BY <2>1, <3>2, FS_Subset, FS_CardinalityType DEF OneTokenPerAgent
    <3> QED
      BY <3>3, FS_CardinalityType
  <2>2. CASE \E v : AgentRow(g)' = {v}
    <3>1. PICK v : AgentRow(g)' = {v}
      BY <2>2
    <3>2. Cardinality({v}) = 1
      BY FS_Singleton
    <3> QED
      BY <3>1, <3>2
  <2> QED
    BY <2>1, <2>2
<1>6. TrailInv' /\ GapShows' /\ LogsAgree'
  BY DEF TrailInv, GapShows, LogsAgree, TrailOK, Due
<1> QED
  BY <1>2, <1>3, <1>4, <1>5, <1>6

(* One more credential. *)
LEMMA MintShape ==
  ASSUME GateInv, NEW c \in CredRow, Mint(c)
  PROVE  /\ Kept
         /\ \A g : \/ AgentRow(g)' = AgentRow(g)
                   \/ /\ c.kind = "agent" /\ c.key = g
                      /\ AgentRow(g)' = AgentRow(g) \cup {Len(creds) + 1}
         /\ Len(creds) + 1 \in Values' /\ creds'[Len(creds) + 1] = c
<1> DEFINE n == Len(creds)
<1>1. creds \in Seq(CredRow) /\ n \in Nat
  BY CredTypes DEF GateInv
<1>2. /\ creds' \in Seq(CredRow) /\ Len(creds') = n + 1
      /\ creds'[n + 1] = c /\ \A v \in 1..n : creds'[v] = creds[v]
  BY <1>1, AppendProperties DEF Mint
<1>3. Values' = Values \cup {n + 1}
  BY <1>1, <1>2 DEF Values
<1>4. \A v \in Values : creds'[v] = creds[v]
  BY <1>2 DEF Values
<1>5. Kept
  BY <1>1, <1>2, <1>4 DEF Kept
<1>6. ASSUME NEW g
      PROVE  \/ AgentRow(g)' = AgentRow(g)
             \/ c.kind = "agent" /\ c.key = g /\ AgentRow(g)' = AgentRow(g) \cup {n + 1}
  <2>1. n + 1 \notin Values
    BY <1>1 DEF Values
  <2> QED
    BY <1>2, <1>3, <1>4, <2>1 DEF AgentRow
<1> QED
  BY <1>2, <1>3, <1>5, <1>6

(* What is left when the rows of V have been cut. *)
LEMMA CutShape ==
  ASSUME GateInv, NEW V \in SUBSET Values
  PROVE  /\ Cut(V) \in Seq(CredRow) /\ Len(Cut(V)) = Len(creds)
         /\ \A v \in Values : /\ Cut(V)[v].kind = creds[v].kind
                              /\ Cut(V)[v].account = creds[v].account
                              /\ Cut(V)[v].key = creds[v].key
                              /\ v \in V => Cut(V)[v].st = "cut"
                              /\ v \notin V => Cut(V)[v].st = creds[v].st
<1> DEFINE n == Len(creds)
           E(v) == IF v \in V THEN [creds[v] EXCEPT !.st = "cut"] ELSE creds[v]
<1>1. n \in Nat /\ \A v \in 1..n : creds[v] \in CredRow
  BY CredTypes DEF GateInv, Values
<1>2. \A v \in 1..n : /\ E(v) \in CredRow /\ E(v).kind = creds[v].kind
                      /\ E(v).account = creds[v].account /\ E(v).key = creds[v].key
                      /\ v \in V => E(v).st = "cut"
                      /\ v \notin V => E(v).st = creds[v].st
  BY <1>1 DEF CredRow
<1>3. Cut(V) = [v \in 1..n |-> E(v)]
  BY DEF Cut, Values
<1> HIDE DEF E, n
<1>4. Cut(V) \in Seq(CredRow) /\ Len(Cut(V)) = n /\ \A v \in 1..n : Cut(V)[v] = E(v)
  BY <1>1, <1>2, <1>3
<1> QED
  BY <1>2, <1>4 DEF n, Values

(* The rows of V are cut and nothing is minted. *)
LEMMA CutKept ==
  ASSUME GateInv, NEW V \in SUBSET Values, creds' = Cut(V)
  PROVE  Kept /\ \A g : AgentRow(g)' \subseteq AgentRow(g)
<1>1. Len(creds) \in Nat
  BY CredTypes DEF GateInv
<1>2. Values' = Values /\ Kept
  BY <1>1, CutShape DEF Kept, Values
<1> QED
  BY <1>2, CutShape DEF AgentRow

(* A credential of one of the kinds has its type. *)
LEMMA CredType ==
  ASSUME NEW kind \in {"token", "agent", "access", "session"}, NEW a \in Accounts,
         NEW key \in Labels \cup Agents \cup {"initial", "oauth", "ui"}
  PROVE  /\ Cred(kind, a, key) \in CredRow /\ Cred(kind, a, key).kind = kind
         /\ Cred(kind, a, key).account = a /\ Cred(kind, a, key).key = key
  BY DEF Cred, CredRow

(* accounts.create, token_add, an access token: no agent is concerned. *)
LEMMA MintInd ==
  ASSUME GateInv, NEW a \in Accounts,
         \/ CreateAccount(a) \/ IssueAccess(a)
         \/ \E l \in Labels : AddToken(a, l)
  PROVE  GateInv' /\ Kept
<1>1. PICK c \in CredRow : /\ Mint(c) /\ c.kind # "agent" /\ c.account = a
                           /\ CreateAccount(a) => c.kind = "token"
  <2>1. ASSUME NEW l \in Labels, AddToken(a, l)
        PROVE  \E c \in CredRow : Mint(c) /\ c.kind = "token" /\ c.account = a
    BY <2>1, CredType DEF AddToken
  <2>2. CASE CreateAccount(a)
    BY <2>2, CredType DEF CreateAccount
  <2>3. CASE IssueAccess(a)
    <3>1. ~CreateAccount(a)
      BY <2>3 DEF IssueAccess, CreateAccount
    <3> QED
      BY <2>3, <3>1, CredType DEF IssueAccess
  <2> QED
    BY <2>1, <2>2, <2>3
<1>2. /\ Kept /\ \A g : AgentRow(g)' = AgentRow(g)
      /\ \E v \in Values' : creds'[v].kind = c.kind /\ creds'[v].account = a
  BY <1>1, MintShape
<1>3. /\ account' \in [Accounts -> {"absent", "on", "disabled"}]
      /\ off' \subseteq Agents /\ UNCHANGED <<req, busy>>
      /\ \A b \in Accounts : account'[b] # "absent" =>
            account[b] # "absent" \/ (CreateAccount(a) /\ b = a)
  BY DEF GateInv, TypeOK, CreateAccount, IssueAccess, AddToken
<1>4. \A b \in Accounts : account'[b] # "absent" =>
            \/ account[b] # "absent"
            \/ \E v \in Values' : creds'[v].kind = "token" /\ creds'[v].account = b
  BY <1>1, <1>2, <1>3
<1> QED
  BY <1>2, <1>3, <1>4, StoreInd

(* token_revoke, delete_agent and the ways to sign out. *)
LEMMA CutInd ==
  ASSUME GateInv,
         \/ \E a \in Accounts, l \in Labels : RevokeToken(a, l)
         \/ \E g \in Agents : DeleteAgent(g)
         \/ \E V \in SUBSET Values : SignOut(V)
  PROVE  GateInv' /\ Kept
<1>1. /\ UNCHANGED <<account, req, busy>> /\ off' \subseteq Agents
      /\ account' \in [Accounts -> {"absent", "on", "disabled"}]
  BY DEF GateInv, TypeOK, RevokeToken, DeleteAgent, SignOut
<1>2. PICK V \in SUBSET Values : creds' = Cut(V)
  BY DEF RevokeToken, DeleteAgent, SignOut, Rows, AgentRow
<1>3. Kept /\ \A g : AgentRow(g)' \subseteq AgentRow(g)
  BY <1>2, CutKept
<1> QED
  BY <1>1, <1>3, StoreInd

(* The switches of accounts and agents. *)
LEMMA SwitchInd ==
  ASSUME GateInv,
         (\E a \in Accounts : Switch(a)) \/ (\E g \in Agents : SwitchAgent(g))
  PROVE  GateInv' /\ Kept
<1>1. /\ UNCHANGED <<creds, req, busy>> /\ off' \subseteq Agents
      /\ account' \in [Accounts -> {"absent", "on", "disabled"}]
      /\ \A a \in Accounts : account'[a] # "absent" => account[a] # "absent"
  BY DEF GateInv, TypeOK, Switch, SwitchAgent
<1>2. Kept /\ \A g : AgentRow(g)' \subseteq AgentRow(g)
  BY <1>1, CredTypes DEF GateInv, Kept, AgentRow, Values
<1> QED
  BY <1>1, <1>2, StoreInd

(* create_agent: there was no agent of the name. *)
LEMMA CreateAgentInd ==
  ASSUME GateInv, NEW g \in Agents, NEW a \in Accounts, CreateAgent(g, a)
  PROVE  GateInv' /\ Kept
<1>1. /\ UNCHANGED <<account, req, busy>> /\ off' \subseteq Agents /\ AgentRow(g) = {}
      /\ account' \in [Accounts -> {"absent", "on", "disabled"}]
  BY DEF GateInv, TypeOK, CreateAgent
<1>2. PICK c \in CredRow : Mint(c) /\ c.key = g
  BY CredType DEF CreateAgent
<1>3. /\ Kept
      /\ \A h : AgentRow(h)' = AgentRow(h) \/ (h = g /\ AgentRow(h)' = AgentRow(h) \cup {Len(creds) + 1})
  BY <1>2, MintShape
<1>4. \A h \in Agents : AgentRow(h)' \subseteq AgentRow(h) \/ \E v : AgentRow(h)' = {v}
  BY <1>1, <1>3
<1> QED
  BY <1>1, <1>3, <1>4, StoreInd

(* mint_agent_token: the old one is cut in the statement that stores the new. *)
LEMMA MintAgentTokenInd ==
  ASSUME GateInv, NEW g \in Agents, MintAgentToken(g)
  PROVE  GateInv' /\ Kept
<1> DEFINE n == Len(creds)
           V == AgentRow(g)
           base == Cut(V)
           c == creds[CHOOSE v \in V : TRUE]
<1>1. /\ UNCHANGED <<account, off, req, busy>> /\ off' \subseteq Agents
      /\ account' \in [Accounts -> {"absent", "on", "disabled"}]
      /\ V # {} /\ creds' = Append(base, c)
  BY DEF GateInv, TypeOK, MintAgentToken
<1>2. V \in SUBSET Values /\ n \in Nat
  BY CredTypes DEF AgentRow, GateInv
<1>3. c \in CredRow /\ c.kind = "agent" /\ c.key = g /\ c.st = "live"
  <2>1. (CHOOSE v \in V : TRUE) \in V
    BY <1>1
  <2> QED
    BY <2>1, <1>2, CredTypes DEF AgentRow, GateInv
<1> HIDE DEF c
<1>4. /\ base \in Seq(CredRow) /\ Len(base) = n
      /\ \A v \in Values : /\ base[v].kind = creds[v].kind
                           /\ base[v].account = creds[v].account
                           /\ base[v].key = creds[v].key
                           /\ v \in V => base[v].st = "cut"
                           /\ v \notin V => base[v].st = creds[v].st
  BY <1>2, CutShape
<1> HIDE DEF base
<1>5. /\ creds' \in Seq(CredRow) /\ Len(creds') = n + 1
      /\ creds'[n + 1] = c /\ \A v \in 1..n : creds'[v] = base[v]
  BY <1>1, <1>3, <1>4, AppendProperties
<1>6. Values' = Values \cup {n + 1} /\ \A v \in Values : creds'[v] = base[v]
  BY <1>2, <1>5 DEF Values
<1>7. Kept
  BY <1>2, <1>4, <1>5, <1>6 DEF Kept
<1>8. ASSUME NEW h \in Agents PROVE AgentRow(h)' \subseteq AgentRow(h) \/ \E v : AgentRow(h)' = {v}
  <2>1. CASE h # g
    <3>1. n + 1 \notin AgentRow(h)'
      BY <1>3, <1>5, <2>1 DEF AgentRow
    <3>2. AgentRow(h)' \subseteq AgentRow(h)
      BY <1>4, <1>6, <3>1 DEF AgentRow
    <3> QED
      BY <3>2
  <2>2. CASE h = g
    <3>1. \A v \in Values : v \notin AgentRow(h)'
      BY <1>4, <1>6, <2>2 DEF AgentRow
    <3>2. n + 1 \in AgentRow(h)'
      BY <1>3, <1>5, <1>6, <2>2 DEF AgentRow
    <3>3. AgentRow(h)' = {n + 1}
      BY <1>6, <3>1, <3>2 DEF AgentRow
    <3> QED
      BY <3>3
  <2> QED
    BY <2>1, <2>2
<1> QED
  BY <1>1, <1>7, <1>8, StoreInd

(* Time passes for a credential that is not an agent's. *)
LEMMA ExpireInd ==
  ASSUME GateInv, NEW u \in Values, Expire(u)
  PROVE  GateInv' /\ Kept
<1> DEFINE st == IF creds[u].kind = "token" THEN "expired" ELSE "cut"
           e == [creds[u] EXCEPT !.st = st]
<1>1. creds \in Seq(CredRow) /\ creds[u] \in CredRow /\ u \in 1..Len(creds) /\ Len(creds) \in Nat
  BY CredTypes DEF GateInv, Values
<1>2. /\ e \in CredRow /\ e.kind = creds[u].kind /\ e.account = creds[u].account
      /\ e.key = creds[u].key
  BY <1>1 DEF CredRow
<1>3. creds' = [creds EXCEPT ![u] = e] /\ creds[u].kind # "agent" /\ creds[u].st = "live"
  BY <1>1 DEF Expire
<1> HIDE DEF e
<1>4. /\ creds' \in Seq(CredRow) /\ Len(creds') = Len(creds)
      /\ \A v \in 1..Len(creds) : creds'[v] = IF v = u THEN e ELSE creds[v]
  BY <1>1, <1>2, <1>3, ExceptSeq
<1>5. Kept /\ Values' = Values
  BY <1>1, <1>2, <1>3, <1>4 DEF Kept, Values
<1>6. \A g : AgentRow(g)' \subseteq AgentRow(g)
  BY <1>2, <1>3, <1>4, <1>5 DEF AgentRow, Values
<1>7. /\ UNCHANGED <<account, off, req, busy>> /\ off' \subseteq Agents
      /\ account' \in [Accounts -> {"absent", "on", "disabled"}]
  BY DEF GateInv, TypeOK, Expire
<1> QED
  BY <1>5, <1>6, <1>7, StoreInd

-----------------------------------------------------------------------------
(* Requests. *)

(* A request moves on: it holds a connection after the step only if it did  *)
(* before or there was one to be had; at most a credential is minted that   *)
(* is not an agent's.                                                       *)
LEMMA MoveMintInd ==
  ASSUME GateInv, NEW r \in Requests, NEW x, Fine(x), Move(r, x),
         x.cred \in 0..Len(creds'),
         x.pc \in Holding => req[r].pc \in Holding \/ FreeConnection,
         UNCHANGED <<account, off, busy>>,
         Kept, \A g : AgentRow(g)' = AgentRow(g)
  PROVE  GateInv'
<1> USE DEF GateInv
<1>1. \A q \in Requests : req'[q] = IF q = r THEN x ELSE req[q]
  BY DEF Move, TypeOK
<1>2. TypeOK'
  <2>1. Len(creds) \in Nat /\ Len(creds') \in Nat
    BY CredTypes, LenProperties DEF Kept
  <2> QED
    BY <1>1, <2>1 DEF TypeOK, Fine, Move, Kept
<1>3. \A q \in Requests : Fine(req[q])'
  <2>1. \A q \in Requests : Fine(req[q])
    BY FineRequests
  <2> QED
    BY <1>1, <2>1, SMTT(30) DEF Fine, TrailOK, Due
<1>4. PoolInv'
  <2>1. IsFiniteSet(Held) /\ Cardinality(Held) \in Nat /\ busy \in Nat
    BY RequestsAssumption, FS_Subset, FS_CardinalityType DEF Held, TypeOK
  <2>2. CASE x.pc \in Holding /\ req[r].pc \notin Holding
    <3>1. Held' = Held \cup {r} /\ r \notin Held
      BY <1>1, <2>2 DEF Held
    <3>2. Cardinality(Held') = Cardinality(Held) + 1
      BY <2>1, <3>1, FS_AddElement
    <3>3. Cardinality(Held) + busy < PoolSize
      BY <2>2 DEF FreeConnection
    <3> QED
      BY <2>1, <3>2, <3>3 DEF PoolInv
  <2>3. CASE ~(x.pc \in Holding /\ req[r].pc \notin Holding)
    <3>1. Held' \subseteq Held
      BY <1>1, <2>3 DEF Held
    <3>2. Cardinality(Held') <= Cardinality(Held) /\ Cardinality(Held') \in Nat
      BY <2>1, <3>1, FS_Subset, FS_CardinalityType
    <3> QED
      BY <2>1, <3>2 DEF PoolInv
  <2> QED
    BY <2>2, <2>3
<1>5. NoAccountWithoutToken'
  <2>1. Len(creds) \in Nat /\ Len(creds') \in Nat
    BY CredTypes, LenProperties DEF Kept
  <2> QED
    BY <2>1 DEF NoAccountWithoutToken, Values, Kept
<1>6. OneTokenPerAgent'
  BY DEF OneTokenPerAgent
<1>7. TrailInv' /\ GapShows' /\ LogsAgree'
  BY <1>3 DEF Fine, TrailInv, GapShows, LogsAgree
<1> QED
  BY <1>2, <1>4, <1>5, <1>6, <1>7

(* ... or none at all. *)
LEMMA MoveInd ==
  ASSUME GateInv, NEW r \in Requests, NEW x, Fine(x), Move(r, x),
         x.cred \in 0..Len(creds),
         x.pc \in Holding => req[r].pc \in Holding \/ FreeConnection,
         UNCHANGED <<account, off, creds, busy>>
  PROVE  GateInv'
<1>1. Kept /\ \A g : AgentRow(g)' = AgentRow(g)
  BY CredTypes DEF GateInv, Kept, AgentRow, Values
<1>2. x.cred \in 0..Len(creds')
  OBVIOUS
<1> QED
  BY <1>1, <1>2, MoveMintInd

(* A request takes its step with nothing written. *)
LEMMA StepType ==
  ASSUME NEW x \in ReqRow,
         NEW pc \in Holding \cup {"idle", "auth", "reauth", "handler", "log", "audit", "done"}
  PROVE  LET y == [x EXCEPT !.pc = pc]
         IN  /\ y \in ReqRow /\ y.pc = pc /\ y.path = x.path /\ y.cred = x.cred /\ y.who = x.who
             /\ y.status = x.status /\ y.calls = x.calls /\ y.rows = x.rows /\ y.lost = x.lost
  BY DEF ReqRow

(* The credential of a request says nothing about the rest of it. *)
LEMMA CredSet ==
  ASSUME NEW x \in ReqRow, NEW c \in Nat
  PROVE  LET y == [x EXCEPT !.cred = c]
         IN  /\ y \in ReqRow /\ y.pc = x.pc /\ y.path = x.path /\ y.cred = c /\ y.who = x.who
             /\ y.status = x.status /\ y.calls = x.calls /\ y.rows = x.rows /\ y.lost = x.lost
  BY DEF ReqRow

(* The response of x goes out: what trace_and_audit has still to do is the  *)
(* row that is missing, or there is none.                                   *)
LEMMA OutFine ==
  ASSUME NEW x \in ReqRow, NEW status \in {200, 400, 401, 429}, x.path \in Paths,
         x.path = "run" => x.rows + x.lost = 0 /\ (x.who = "nobody" <=> status = 401),
         x.path = "write" => x.rows + x.lost = 0 /\ (x.who = "nobody" => status = 401),
         x.path = "login" =>
             /\ x.who = "nobody"
             /\ x.rows + x.lost = IF status \in {401, 429} THEN 1 ELSE 0,
         x.path = "mcp" =>
             x.rows + x.lost - x.calls \in IF x.who = "agent" THEN {0, 1} ELSE {0}
  PROVE  Fine(Out(x, status)) /\ Out(x, status).cred = 0 /\ Out(x, status).pc \in {"audit", "done"}
<1> DEFINE w == [x EXCEPT !.status = status]
           y == [w EXCEPT !.cred = 0]
           pc == IF Audited(y) THEN "audit" ELSE "done"
           z == [y EXCEPT !.pc = pc]
<1>1. /\ w \in ReqRow /\ w.status = status /\ w.path = x.path /\ w.who = x.who
      /\ w.calls = x.calls /\ w.rows = x.rows /\ w.lost = x.lost
  BY DEF ReqRow
<1>2. y = [x EXCEPT !.status = status, !.cred = 0]
  BY DEF ReqRow
<1>3. z = Out(x, status)
  BY <1>2 DEF Out
<1> HIDE DEF w
<1>4. /\ y \in ReqRow /\ y.status = status /\ y.cred = 0 /\ y.path = x.path /\ y.who = x.who
      /\ y.calls = x.calls /\ y.rows = x.rows /\ y.lost = x.lost
  BY <1>1 DEF ReqRow
<1> HIDE DEF y
<1>5. Audited(y) <=> /\ x.path # "mcp"
                     /\ IF x.who = "nobody" THEN status = 401 ELSE x.path = "write"
  BY <1>4 DEF Audited
<1>6. pc \in {"audit", "done"} /\ (pc = "audit" <=> Audited(y))
  OBVIOUS
<1> HIDE DEF pc
<1>7. /\ z \in ReqRow /\ z.pc = pc /\ z.status = status /\ z.cred = 0 /\ z.path = x.path
      /\ z.who = x.who /\ z.calls = x.calls /\ z.rows = x.rows /\ z.lost = x.lost
  BY <1>4, <1>6 DEF ReqRow, Holding
<1> HIDE DEF z
<1>8. CASE Audited(y)
  <2>1. x.path \in {"run", "write", "login"}
    BY <1>5, <1>8 DEF Paths
  <2>2. x.rows + x.lost + 1 = Due(z)
    <3>1. CASE x.path = "login"
      BY <1>5, <1>7, <1>8, <3>1 DEF Due
    <3>2. CASE x.path = "write"
      BY <1>7, <3>2 DEF Due
    <3>3. CASE x.path = "run"
      BY <1>5, <1>7, <1>8, <3>3 DEF Due
    <3> QED
      BY <2>1, <3>1, <3>2, <3>3
  <2> QED
    BY <1>3, <1>6, <1>7, <1>8, <2>1, <2>2 DEF Fine, TrailOK
<1>9. CASE ~Audited(y)
  <2>1. CASE x.path = "mcp"
    BY <1>3, <1>6, <1>7, <1>9, <2>1 DEF Fine, TrailOK
  <2>2. CASE x.path # "mcp"
    <3>1. CASE x.path = "login"
      <4>1. x.rows + x.lost = Due(z)
        BY <1>5, <1>7, <1>9, <3>1 DEF Due
      <4> QED
        BY <1>3, <1>6, <1>7, <1>9, <2>2, <4>1 DEF Fine, TrailOK
    <3>2. CASE x.path = "run"
      <4>1. x.rows + x.lost = Due(z)
        BY <1>5, <1>7, <1>9, <3>2 DEF Due
      <4> QED
        BY <1>3, <1>6, <1>7, <1>9, <2>2, <4>1 DEF Fine, TrailOK
    <3> QED
      BY <1>5, <1>9, <2>2, <3>1, <3>2 DEF Paths
  <2> QED
    BY <2>1, <2>2
<1> QED
  BY <1>8, <1>9

(* A step at whose end the response of x goes out. *)
LEMMA OutInd ==
  ASSUME GateInv, NEW r \in Requests, NEW x, NEW status, Move(r, Out(x, status)),
         Fine(Out(x, status)), Out(x, status).cred = 0,
         Out(x, status).pc \in {"audit", "done"},
         UNCHANGED <<account, off, creds, busy>>
  PROVE  GateInv'
<1> DEFINE z == Out(x, status)
<1>1. Len(creds) \in Nat
  BY CredTypes DEF GateInv
<1>2. /\ Fine(z) /\ Move(r, z) /\ z.cred = 0 /\ z.pc \notin Holding
  BY DEF Holding
<1> HIDE DEF z
<1> QED
  BY <1>1, <1>2, MoveInd

(* What is known of a request in progress. *)
LEMMA RequestFacts ==
  ASSUME GateInv, NEW r \in Requests
  PROVE  /\ req[r] \in ReqRow /\ TrailOK(req[r]) /\ Fine(req[r])
         /\ req[r].cred \in 0..Len(creds) /\ Len(creds) \in Nat
         /\ req[r].rows \in 0..2 /\ req[r].lost \in 0..2 /\ req[r].calls \in 0..1
<1>1. Fine(req[r]) /\ TypeOK
  BY FineRequests
<1> QED
  BY <1>1, CredTypes DEF Fine, TypeOK, ReqRow

(* A request comes in, and one leaves. *)
LEMMA ArriveInd ==
  ASSUME GateInv, NEW r \in Requests, NEW path \in Paths, NEW v \in {0} \cup Values,
         Arrive(r, path, v)
  PROVE  GateInv'
<1> DEFINE pc == IF path = "login" THEN "handler" ELSE "auth"
<1>1. Len(creds) \in Nat /\ v \in 0..Len(creds) /\ v \in Nat
  BY CredTypes DEF GateInv, Values
<1>2. pc \in {"handler", "auth"} /\ (pc = "handler" <=> path = "login")
  OBVIOUS
<1>3. Move(r, [NoRequest EXCEPT !.path = path, !.cred = v, !.pc = pc])
      /\ UNCHANGED <<account, off, creds, busy>>
  BY DEF Arrive
<1> HIDE DEF pc
<1>4. ASSUME NEW z \in ReqRow, NEW y, y = [z EXCEPT !.path = path, !.cred = v, !.pc = pc]
      PROVE  /\ y \in ReqRow /\ y.path = path /\ y.cred = v /\ y.pc = pc /\ y.who = z.who
             /\ y.calls = z.calls /\ y.rows = z.rows /\ y.lost = z.lost
  <2> DEFINE a == [z EXCEPT !.path = path]
             b == [a EXCEPT !.cred = v]
  <2>1. y = [b EXCEPT !.pc = pc]
    BY <1>4 DEF ReqRow
  <2>2. /\ a \in ReqRow /\ a.path = path /\ a.who = z.who
        /\ a.calls = z.calls /\ a.rows = z.rows /\ a.lost = z.lost
    BY DEF ReqRow
  <2> HIDE DEF a
  <2>3. /\ b \in ReqRow /\ b.path = path /\ b.cred = v /\ b.who = z.who
        /\ b.calls = z.calls /\ b.rows = z.rows /\ b.lost = z.lost
    BY <1>1, <2>2, SMTT(30) DEF ReqRow
  <2> HIDE DEF b
  <2> QED
    BY <1>2, <2>1, <2>3 DEF ReqRow
<1>5. /\ NoRequest \in ReqRow /\ NoRequest.who = "nobody" /\ NoRequest.calls = 0
      /\ NoRequest.rows = 0 /\ NoRequest.lost = 0
  BY NoRequestFine DEF NoRequest, Fine
<1> DEFINE x == [NoRequest EXCEPT !.path = path, !.cred = v, !.pc = pc]
<1>6. /\ x \in ReqRow /\ x.path = path /\ x.cred = v /\ x.pc = pc /\ x.who = "nobody"
      /\ x.calls = 0 /\ x.rows = 0 /\ x.lost = 0
  BY <1>4, <1>5
<1> HIDE DEF x
<1>7. Fine(x) /\ x.pc \notin Holding
  BY <1>2, <1>6 DEF Fine, TrailOK, Paths, Holding
<1>8. Move(r, x)
  BY <1>3 DEF x
<1> QED
  BY <1>1, <1>3, <1>6, <1>7, <1>8, MoveInd

(* The response has gone out. *)
LEMMA LeaveInd ==
  ASSUME GateInv, NEW r \in Requests, Leave(r)
  PROVE  GateInv'
<1>1. Len(creds) \in Nat
  BY CredTypes DEF GateInv
<1> QED
  BY <1>1, NoRequestFine, MoveInd DEF Leave, Holding

(* A connection is taken out of the pool. *)
LEMMA AcquireInd ==
  ASSUME GateInv, NEW r \in Requests,
         \/ Acquire(r, "auth", "authing") \/ Acquire(r, "reauth", "reauthing")
         \/ Acquire(r, "handler", "handling") \/ Acquire(r, "log", "auditinside")
         \/ Acquire(r, "audit", "auditing")
  PROVE  GateInv'
<1> DEFINE x == req[r]
<1>1. PICK pc \in {"authing", "reauthing", "handling", "auditinside", "auditing"} :
         /\ Move(r, [x EXCEPT !.pc = pc])
         /\ pc = "authing" => x.pc = "auth"
         /\ pc = "reauthing" => x.pc = "reauth"
         /\ pc = "handling" => x.pc = "handler"
         /\ pc = "auditinside" => x.pc = "log"
         /\ pc = "auditing" => x.pc = "audit"
  BY DEF Acquire, Step
<1>2. FreeConnection /\ UNCHANGED <<account, off, creds, busy>>
  BY DEF Acquire
<1>3. x \in ReqRow /\ TrailOK(x) /\ x.cred \in 0..Len(creds)
  BY RequestFacts
<1> HIDE DEF x
<1> DEFINE y == [x EXCEPT !.pc = pc]
<1>4. /\ y \in ReqRow /\ y.pc = pc /\ y.path = x.path /\ y.cred = x.cred /\ y.who = x.who
      /\ y.status = x.status /\ y.calls = x.calls /\ y.rows = x.rows /\ y.lost = x.lost
  BY <1>3, StepType DEF Holding
<1> HIDE DEF y
<1>5. Fine(y)
  BY <1>1, <1>3, <1>4 DEF Fine, TrailOK, Due
<1>6. Move(r, y)
  BY <1>1 DEF y
<1> QED
  BY <1>2, <1>3, <1>4, <1>5, <1>6, MoveInd

(* authenticate without a credential, or with one that is not let in. *)
LEMMA RefusedInd ==
  ASSUME GateInv, NEW r \in Requests, req[r].pc \in {"auth", "authing", "reauthing"},
         Move(r, Out(req[r], 401)), UNCHANGED <<account, off, creds, busy>>
  PROVE  GateInv'
<1> DEFINE x == req[r]
<1>1. /\ x \in ReqRow /\ x.rows = 0 /\ x.lost = 0 /\ x.calls = 0
      /\ x.path \in {"run", "write", "mcp"}
      /\ x.path # "mcp" => x.who = "nobody"
  BY RequestFacts DEF TrailOK
<1> HIDE DEF x
<1>2. Fine(Out(x, 401)) /\ Out(x, 401).cred = 0 /\ Out(x, 401).pc \in {"audit", "done"}
  BY <1>1, OutFine DEF Paths
<1>3. Move(r, Out(x, 401))
  BY DEF x
<1> QED
  BY <1>2, <1>3, OutInd

(* authenticate and rate_limit. *)
LEMMA AuthenticateInd ==
  ASSUME GateInv, NEW r \in Requests, Authenticate(r)
  PROVE  GateInv'
<1> DEFINE x == req[r]
           who == IF creds[x.cred].kind = "agent" THEN "agent" ELSE "account"
           y == [x EXCEPT !.who = who, !.cred = 0]
<1>1. /\ x \in ReqRow /\ x.rows = 0 /\ x.lost = 0 /\ x.calls = 0 /\ x.pc = "authing"
      /\ x.path \in {"run", "write", "mcp"} /\ x.cred \in 0..Len(creds) /\ x.cred \in Nat
      /\ Len(creds) \in Nat
  BY RequestFacts DEF TrailOK, Authenticate
<1>2. UNCHANGED <<account, off, creds, busy>> /\ Known(x) = y
  BY DEF Authenticate, Known
<1>3. who \in {"account", "agent"}
  OBVIOUS
<1>4. CASE Move(r, Out(x, 401))
  BY <1>1, <1>2, <1>4, RefusedInd
<1>5. \/ Move(r, Out(x, 401)) \/ Move(r, Out(y, 429))
      \/ x.path = "mcp" /\ Move(r, [y EXCEPT !.pc = "reauth", !.cred = x.cred])
      \/ x.path # "mcp" /\ Move(r, [y EXCEPT !.pc = "handler"])
  BY <1>2 DEF Authenticate
<1> HIDE DEF x, who
<1>6. /\ y \in ReqRow /\ y.who = who /\ y.cred = 0 /\ y.path = x.path
      /\ y.rows = 0 /\ y.lost = 0 /\ y.calls = 0
  <2> DEFINE a == [x EXCEPT !.who = who]
  <2>1. y = [a EXCEPT !.cred = 0]
    BY <1>1 DEF ReqRow
  <2>2. /\ a \in ReqRow /\ a.who = who /\ a.path = x.path
        /\ a.rows = 0 /\ a.lost = 0 /\ a.calls = 0
    BY <1>1, <1>3 DEF ReqRow
  <2> HIDE DEF a, y
  <2> QED
    BY <2>1, <2>2, CredSet
<1> HIDE DEF y
<1>7. CASE Move(r, Out(y, 429))
  <2>1. Fine(Out(y, 429)) /\ Out(y, 429).cred = 0 /\ Out(y, 429).pc \in {"audit", "done"}
    BY <1>1, <1>3, <1>6, OutFine DEF Paths
  <2> QED
    BY <1>2, <1>7, <2>1, OutInd
<1>8. CASE x.path = "mcp" /\ Move(r, [y EXCEPT !.pc = "reauth", !.cred = x.cred])
  <2> DEFINE z == [y EXCEPT !.pc = "reauth", !.cred = x.cred]
  <2>1. /\ z \in ReqRow /\ z.pc = "reauth" /\ z.cred = x.cred /\ z.path = y.path /\ z.who = who
        /\ z.rows = 0 /\ z.lost = 0 /\ z.calls = 0
    <3> DEFINE a == [y EXCEPT !.pc = "reauth"]
               c == x.cred
    <3>1. z = [a EXCEPT !.cred = c] /\ c \in Nat
      BY <1>1, <1>6 DEF ReqRow
    <3>2. /\ a \in ReqRow /\ a.pc = "reauth" /\ a.path = y.path /\ a.who = who
          /\ a.rows = 0 /\ a.lost = 0 /\ a.calls = 0
      BY <1>6 DEF ReqRow
    <3> HIDE DEF a, c, z
    <3>3. /\ z \in ReqRow /\ z.pc = "reauth" /\ z.cred = c /\ z.path = y.path /\ z.who = who
          /\ z.rows = 0 /\ z.lost = 0 /\ z.calls = 0
      BY <3>1, <3>2, CredSet
    <3> QED
      BY <3>3 DEF c
  <2> HIDE DEF z
  <2>2. Fine(z) /\ z.pc \notin Holding
    BY <1>3, <1>6, <1>8, <2>1 DEF Fine, TrailOK, Holding
  <2>3. Move(r, z)
    BY <1>8 DEF z
  <2> QED
    BY <1>1, <1>2, <2>1, <2>2, <2>3, MoveInd
<1>9. CASE x.path # "mcp" /\ Move(r, [y EXCEPT !.pc = "handler"])
  <2> DEFINE z == [y EXCEPT !.pc = "handler"]
  <2>1. /\ z \in ReqRow /\ z.pc = "handler" /\ z.cred = 0 /\ z.path = y.path /\ z.who = who
        /\ z.rows = 0 /\ z.lost = 0 /\ z.calls = 0
    BY <1>1, <1>6 DEF ReqRow
  <2> HIDE DEF z
  <2>2. Fine(z) /\ z.pc \notin Holding
    BY <1>1, <1>3, <1>6, <1>9, <2>1 DEF Fine, TrailOK, Holding, Paths
  <2>3. Move(r, z)
    BY <1>9 DEF z
  <2> QED
    BY <1>1, <1>2, <2>1, <2>2, <2>3, MoveInd
<1> QED
  BY <1>4, <1>5, <1>7, <1>8, <1>9

(* mcp.endpoint asks require_auth again. *)
LEMMA ReauthenticateInd ==
  ASSUME GateInv, NEW r \in Requests, Reauthenticate(r)
  PROVE  GateInv'
<1> DEFINE x == req[r]
           y == [x EXCEPT !.pc = "handler"]
           z == [y EXCEPT !.cred = 0]
<1>1. /\ x \in ReqRow /\ x.rows = 0 /\ x.lost = 0 /\ x.calls = 0 /\ x.pc = "reauthing"
      /\ x.path = "mcp" /\ x.who # "nobody" /\ Len(creds) \in Nat
  BY RequestFacts DEF TrailOK, Reauthenticate
<1>2. UNCHANGED <<account, off, creds, busy>>
  BY DEF Reauthenticate
<1>3. CASE Move(r, Out(x, 401))
  BY <1>1, <1>2, <1>3, RefusedInd
<1>4. CASE Move(r, [x EXCEPT !.pc = "handler", !.cred = 0])
  <2>1. z = [x EXCEPT !.pc = "handler", !.cred = 0]
    BY <1>1 DEF ReqRow
  <2>2. Move(r, z)
    BY <1>4, <2>1
  <2> HIDE DEF x
  <2>3. y \in ReqRow /\ y.pc = "handler" /\ y.path = x.path /\ y.who = x.who
        /\ y.rows = 0 /\ y.lost = 0 /\ y.calls = 0
    BY <1>1, StepType, ZenonT(60)
  <2> HIDE DEF y
  <2>4. z \in ReqRow /\ z.pc = "handler" /\ z.path = "mcp" /\ z.cred = 0 /\ z.who = x.who
        /\ z.rows = 0 /\ z.lost = 0 /\ z.calls = 0
    BY <1>1, <2>3, CredSet, ZenonT(60)
  <2> HIDE DEF z
  <2>5. Fine(z) /\ z.pc \notin Holding
    BY <1>1, <2>4 DEF Fine, TrailOK, Holding, Paths
  <2> QED
    BY <1>1, <1>2, <2>2, <2>4, <2>5, MoveInd
<1> QED
  BY <1>3, <1>4 DEF Reauthenticate

(* The handlers that write nothing themselves. *)
LEMMA HandleInd ==
  ASSUME GateInv, NEW r \in Requests, Malformed(r) \/ Handle(r) \/ HandleMcpUnlogged(r)
  PROVE  GateInv'
<1> DEFINE x == req[r]
<1>1. PICK status \in {200, 400} : /\ Move(r, Out(x, status))
                                   /\ UNCHANGED <<account, off, creds, busy>>
                                   /\ x.pc \in {"handler", "handling"}
  BY DEF Malformed, Handle, HandleMcpUnlogged
<1>2. /\ x \in ReqRow /\ x.rows = 0 /\ x.lost = 0 /\ x.calls = 0 /\ x.path \in Paths
      /\ x.who = "nobody" <=> x.path = "login"
  BY <1>1, RequestFacts DEF TrailOK
<1> HIDE DEF x
<1>3. Fine(Out(x, status)) /\ Out(x, status).cred = 0 /\ Out(x, status).pc \in {"audit", "done"}
  BY <1>2, OutFine DEF Paths
<1> QED
  BY <1>1, <1>3, OutInd

(* audit.write: the row or the count, one of the two. *)
LEMMA WroteType ==
  ASSUME NEW x \in ReqRow, x.rows + x.lost <= 1, NEW y \in Wrote(x)
  PROVE  /\ y \in ReqRow /\ y.rows + y.lost = x.rows + x.lost + 1
         /\ y.pc = x.pc /\ y.path = x.path /\ y.cred = x.cred /\ y.who = x.who
         /\ y.status = x.status /\ y.calls = x.calls
<1> DEFINE i == x.rows + 1
           k == x.lost + 1
<1>1. i \in 0..2 /\ k \in 0..2 /\ x.rows \in Int /\ x.lost \in Int
  BY DEF ReqRow
<1>2. y = [x EXCEPT !.rows = i] \/ y = [x EXCEPT !.lost = k]
  BY DEF Wrote
<1>3. i + x.lost = x.rows + x.lost + 1 /\ x.rows + k = x.rows + x.lost + 1
  BY <1>1
<1> HIDE DEF i, k
<1>4. CASE y = [x EXCEPT !.rows = i]
  <2>1. /\ y \in ReqRow /\ y.rows = i /\ y.lost = x.lost
        /\ y.pc = x.pc /\ y.path = x.path /\ y.cred = x.cred /\ y.who = x.who
        /\ y.status = x.status /\ y.calls = x.calls
    BY <1>1, <1>4 DEF ReqRow
  <2> QED
    BY <1>3, <2>1
<1>5. CASE y = [x EXCEPT !.lost = k]
  <2>1. /\ y \in ReqRow /\ y.rows = x.rows /\ y.lost = k
        /\ y.pc = x.pc /\ y.path = x.path /\ y.cred = x.cred /\ y.who = x.who
        /\ y.status = x.status /\ y.calls = x.calls
    BY <1>1, <1>5 DEF ReqRow
  <2> QED
    BY <1>3, <2>1
<1> QED
  BY <1>2, <1>4, <1>5

(* ui.login: a session, or a refusal with its row. *)
LEMMA HandleLoginInd ==
  ASSUME GateInv, NEW r \in Requests, NEW a \in Accounts, NEW s \in {200, 401, 429},
         HandleLogin(r, a, s)
  PROVE  GateInv' /\ Kept
<1> DEFINE x == req[r]
<1>1. /\ x \in ReqRow /\ x.rows = 0 /\ x.lost = 0 /\ x.calls = 0 /\ x.path = "login"
      /\ x.who = "nobody" /\ Len(creds) \in Nat
  BY RequestFacts DEF TrailOK, HandleLogin
<1>2. UNCHANGED <<account, off, busy>>
  BY DEF HandleLogin
<1> DEFINE Session == s = 200 /\ Mint(Cred("session", a, "ui")) /\ Move(r, Out(x, s))
           Refusal == s \in {401, 429} /\ (\E y \in Wrote(x) : Move(r, Out(y, s))) /\ UNCHANGED creds
<1>3. Session \/ Refusal
  BY DEF HandleLogin
<1>4. CASE Session
  <2>1. s = 200 /\ Mint(Cred("session", a, "ui")) /\ Move(r, Out(x, s))
    BY <1>4
  <2> HIDE DEF x
  <2>2. /\ Kept /\ \A g : AgentRow(g)' = AgentRow(g)
    <3>1. Cred("session", a, "ui") \in CredRow /\ Cred("session", a, "ui").kind = "session"
      BY CredType
    <3> QED
      BY <2>1, <3>1, MintShape
  <2>3. Fine(Out(x, s)) /\ Out(x, s).cred = 0 /\ Out(x, s).pc \in {"audit", "done"}
    BY <1>1, <2>1, OutFine DEF Paths
  <2> DEFINE z == Out(x, s)
  <2>4. Fine(z) /\ Move(r, z) /\ z.cred \in 0..Len(creds') /\ z.pc \notin Holding
    <3>1. Len(creds') \in Nat
      BY <2>2, LenProperties DEF Kept
    <3> QED
      BY <2>1, <2>3, <3>1 DEF Holding
  <2> HIDE DEF z
  <2> QED
    BY <1>2, <2>2, <2>4, MoveMintInd
<1>5. CASE Refusal
  <2>1. PICK y \in Wrote(x) : Move(r, Out(y, s)) /\ s \in {401, 429} /\ UNCHANGED creds
    BY <1>5
  <2> HIDE DEF x
  <2>2. y \in ReqRow /\ y.rows + y.lost = 1 /\ y.path = "login" /\ y.who = "nobody"
    BY <1>1, <2>1, WroteType
  <2>3. Fine(Out(y, s)) /\ Out(y, s).cred = 0 /\ Out(y, s).pc \in {"audit", "done"}
    BY <2>1, <2>2, OutFine DEF Paths
  <2>4. Kept
    BY <2>1, CredTypes DEF GateInv, Kept, Values
  <2> QED
    BY <1>2, <2>1, <2>3, <2>4, OutInd
<1> QED
  BY <1>3, <1>4, <1>5

(* _tools_call: at most the proxy has written, and only for an agent. *)
LEMMA HandleMcpInd ==
  ASSUME GateInv, NEW r \in Requests, HandleMcp(r)
  PROVE  GateInv'
<1> DEFINE x == req[r]
<1>1. /\ x \in ReqRow /\ x.rows = 0 /\ x.lost = 0 /\ x.calls = 0 /\ x.path = "mcp"
      /\ Len(creds) \in Nat /\ x.cred \in 0..Len(creds)
  BY RequestFacts DEF TrailOK, HandleMcp
<1>2. UNCHANGED <<account, off, creds, busy>>
  BY DEF HandleMcp
<1>3. \/ Move(r, [x EXCEPT !.pc = "log"])
      \/ x.who = "agent" /\ \E y \in Wrote(x) : Move(r, [y EXCEPT !.pc = "log"])
  BY DEF HandleMcp, Step
<1> HIDE DEF x
<1>4. PICK y \in ReqRow : /\ Move(r, [y EXCEPT !.pc = "log"]) /\ y.path = "mcp" /\ y.calls = 0
                          /\ y.rows + y.lost \in IF y.who = "agent" THEN {0, 1} ELSE {0}
                          /\ y.cred = x.cred
  <2>1. CASE Move(r, [x EXCEPT !.pc = "log"])
    BY <1>1, <2>1
  <2>2. ASSUME x.who = "agent", NEW y \in Wrote(x), Move(r, [y EXCEPT !.pc = "log"])
        PROVE  /\ y \in ReqRow /\ y.path = "mcp" /\ y.calls = 0
               /\ y.rows + y.lost \in IF y.who = "agent" THEN {0, 1} ELSE {0}
               /\ y.cred = x.cred
    BY <1>1, <2>2, WroteType
  <2> QED
    BY <1>3, <2>1, <2>2
<1> DEFINE z == [y EXCEPT !.pc = "log"]
<1>5. /\ z \in ReqRow /\ z.pc = "log" /\ z.path = "mcp" /\ z.calls = 0 /\ z.cred = x.cred
      /\ z.rows = y.rows /\ z.lost = y.lost /\ z.who = y.who
  BY <1>4, StepType
<1>6. Move(r, z)
  BY <1>4
<1> HIDE DEF z
<1>7. Fine(z) /\ z.pc \notin Holding
  BY <1>4, <1>5 DEF Fine, TrailOK, Holding
<1> QED
  BY <1>1, <1>2, <1>5, <1>6, <1>7, MoveInd

(* _log_call, with and without a connection. *)
LEMMA LogCallInd ==
  ASSUME GateInv, NEW r \in Requests, LogCall(r) \/ LogCallFails(r)
  PROVE  GateInv'
<1> DEFINE x == req[r]
<1>1. /\ x \in ReqRow /\ x.path = "mcp" /\ x.calls = 0
      /\ x.rows + x.lost \in IF x.who = "agent" THEN {0, 1} ELSE {0}
      /\ x.rows \in 0..2 /\ x.lost \in 0..2
  BY RequestFacts DEF TrailOK, LogCall, LogCallFails
<1>2. UNCHANGED <<account, off, creds, busy>>
  BY DEF LogCall, LogCallFails
<1>3. \/ Move(r, Out(x, 200))
      \/ \E y \in Wrote(x) : Move(r, Out([y EXCEPT !.calls = @ + 1], 200))
  BY DEF LogCall, LogCallFails
<1> HIDE DEF x
<1>4. PICK z \in ReqRow : /\ Move(r, Out(z, 200)) /\ z.path = "mcp"
                          /\ z.rows + z.lost - z.calls \in IF z.who = "agent" THEN {0, 1} ELSE {0}
  <2>1. CASE Move(r, Out(x, 200))
    <3>1. x.rows + x.lost - x.calls \in IF x.who = "agent" THEN {0, 1} ELSE {0}
      BY <1>1
    <3> QED
      BY <1>1, <2>1, <3>1
  <2>2. ASSUME NEW y \in Wrote(x), Move(r, Out([y EXCEPT !.calls = @ + 1], 200))
        PROVE  \E z \in ReqRow :
                  /\ Move(r, Out(z, 200)) /\ z.path = "mcp"
                  /\ z.rows + z.lost - z.calls \in IF z.who = "agent" THEN {0, 1} ELSE {0}
    <3>1. /\ y \in ReqRow /\ y.rows + y.lost = x.rows + x.lost + 1 /\ y.path = "mcp"
          /\ y.who = x.who /\ y.calls = 0
      BY <1>1, WroteType
    <3> DEFINE z == [y EXCEPT !.calls = 1]
    <3>2. /\ z \in ReqRow /\ z.rows = y.rows /\ z.lost = y.lost /\ z.path = "mcp"
          /\ z.who = x.who /\ z.calls = 1
      BY <3>1 DEF ReqRow
    <3>3. Move(r, Out(z, 200))
      <4>1. z = [y EXCEPT !.calls = @ + 1]
        BY <3>1
      <4> QED
        BY <2>2, <4>1
    <3> HIDE DEF z
    <3>4. z.rows + z.lost - z.calls \in IF z.who = "agent" THEN {0, 1} ELSE {0}
      <4>1. y.rows \in Int /\ y.lost \in Int
        BY <3>1 DEF ReqRow
      <4> QED
        BY <1>1, <3>1, <3>2, <4>1
    <3> QED
      BY <3>2, <3>3, <3>4
  <2> QED
    BY <1>3, <2>1, <2>2
<1>5. Fine(Out(z, 200)) /\ Out(z, 200).cred = 0 /\ Out(z, 200).pc \in {"audit", "done"}
  BY <1>4, OutFine DEF Paths
<1> QED
  BY <1>2, <1>4, <1>5, OutInd

(* The row of trace_and_audit, or one more in dropped(). *)
LEMMA AuditInd ==
  ASSUME GateInv, NEW r \in Requests, AuditRow(r) \/ AuditFails(r)
  PROVE  GateInv'
<1> DEFINE x == req[r]
<1>1. /\ x \in ReqRow /\ x.path \in {"run", "write", "login"} /\ x.rows + x.lost + 1 = Due(x)
      /\ x.rows \in 0..2 /\ x.lost \in 0..2 /\ Len(creds) \in Nat /\ x.cred \in 0..Len(creds)
  BY RequestFacts DEF TrailOK, AuditRow, AuditFails
<1>2. UNCHANGED <<account, off, creds, busy>>
  BY DEF AuditRow, AuditFails
<1>3. Due(x) \in {0, 1, 2}
  BY DEF Due
<1>4. \E y \in Wrote(x) : Move(r, [y EXCEPT !.pc = "done"])
  <2>1. CASE AuditRow(r)
    BY <2>1 DEF AuditRow
  <2>2. CASE AuditFails(r)
    <3> DEFINE k == x.lost + 1
    <3>1. Move(r, [x EXCEPT !.lost = k, !.pc = "done"])
      BY <2>2 DEF AuditFails
    <3>2. [x EXCEPT !.lost = k, !.pc = "done"] = [[x EXCEPT !.lost = k] EXCEPT !.pc = "done"]
      <4> HIDE DEF k
      <4> QED
        BY <1>1 DEF ReqRow
    <3>3. [x EXCEPT !.lost = k] \in Wrote(x)
      BY DEF Wrote
    <3> QED
      BY <3>1, <3>2, <3>3
  <2> QED
    BY <2>1, <2>2
<1>5. PICK y \in Wrote(x) : Move(r, [y EXCEPT !.pc = "done"])
  BY <1>4
<1> HIDE DEF x
<1>6. /\ y \in ReqRow /\ y.rows + y.lost = Due(x) /\ y.path = x.path /\ y.status = x.status
      /\ y.cred = x.cred
  BY <1>1, <1>3, WroteType
<1> DEFINE z == [y EXCEPT !.pc = "done"]
<1>7. /\ z \in ReqRow /\ z.pc = "done" /\ z.rows = y.rows /\ z.lost = y.lost
      /\ z.path = x.path /\ z.status = x.status /\ z.cred = x.cred
  BY <1>6, StepType
<1>8. Move(r, z)
  BY <1>5
<1> HIDE DEF z
<1>9. Due(z) = Due(x)
  BY <1>7 DEF Due
<1>10. Fine(z) /\ z.pc \notin Holding
  BY <1>1, <1>6, <1>7, <1>9 DEF Fine, TrailOK, Holding
<1> QED
  BY <1>1, <1>2, <1>7, <1>8, <1>10, MoveInd

(* Connections taken and given back elsewhere. *)
LEMMA OthersInd ==
  ASSUME GateInv, OthersTake \/ OthersGive
  PROVE  GateInv'
<1> USE DEF GateInv
<1>1. UNCHANGED <<account, off, creds, req>>
  BY DEF OthersTake, OthersGive
<1>2. IsFiniteSet(Held) /\ Cardinality(Held) \in Nat /\ busy \in Nat
  BY RequestsAssumption, FS_Subset, FS_CardinalityType DEF Held, TypeOK
<1>3. Held' = Held
  BY <1>1 DEF Held
<1>4. busy' \in Nat /\ Cardinality(Held) + busy' <= PoolSize
  BY <1>2 DEF OthersTake, OthersGive, FreeConnection, PoolInv
<1>5. TypeOK' /\ PoolInv'
  BY <1>1, <1>3, <1>4 DEF TypeOK, PoolInv
<1>6. NoAccountWithoutToken'
  BY <1>1 DEF NoAccountWithoutToken, Values
<1>7. OneTokenPerAgent'
  <2>1. \A g : AgentRow(g)' = AgentRow(g)
    BY <1>1 DEF AgentRow, Values
  <2> QED
    BY <2>1 DEF OneTokenPerAgent
<1>8. TrailInv' /\ GapShows' /\ LogsAgree'
  BY <1>1 DEF TrailInv, GapShows, LogsAgree, TrailOK, Due
<1> QED
  BY <1>5, <1>6, <1>7, <1>8

-----------------------------------------------------------------------------
(* Every step preserves the invariant and keeps what was cut. *)
LEMMA NextInd == GateInv /\ [Next]_vars => GateInv' /\ Kept
<1> SUFFICES ASSUME GateInv, [Next]_vars PROVE GateInv' /\ Kept
  OBVIOUS
<1>1. UNCHANGED creds => Kept
  BY CredTypes DEF GateInv, Kept, Values
<1>2. ASSUME NEW a \in Accounts,
             \/ CreateAccount(a) \/ IssueAccess(a) \/ \E l \in Labels : AddToken(a, l)
      PROVE  GateInv' /\ Kept
  BY <1>2, MintInd
<1>3. ASSUME \/ \E a \in Accounts, l \in Labels : RevokeToken(a, l)
             \/ \E g \in Agents : DeleteAgent(g)
             \/ \E V \in SUBSET Values : SignOut(V)
      PROVE  GateInv' /\ Kept
  BY <1>3, CutInd
<1>4. ASSUME (\E a \in Accounts : Switch(a)) \/ (\E g \in Agents : SwitchAgent(g))
      PROVE  GateInv' /\ Kept
  BY <1>4, SwitchInd
<1>5. ASSUME NEW g \in Agents, MintAgentToken(g) \/ \E a \in Accounts : CreateAgent(g, a)
      PROVE  GateInv' /\ Kept
  BY <1>5, MintAgentTokenInd, CreateAgentInd
<1>6. ASSUME NEW v \in Values, Expire(v)
      PROVE  GateInv' /\ Kept
  BY <1>6, ExpireInd
<1>7. ASSUME NEW r \in Requests, NEW path \in Paths, NEW v \in {0} \cup Values, Arrive(r, path, v)
      PROVE  GateInv' /\ Kept
  BY <1>1, <1>7, ArriveInd DEF Arrive
<1>8. ASSUME NEW r \in Requests, Serve(r)
      PROVE  GateInv' /\ Kept
  <2>1. ASSUME NEW a \in Accounts, NEW s \in {200, 401, 429}, HandleLogin(r, a, s)
        PROVE  GateInv' /\ Kept
    BY <2>1, HandleLoginInd
  <2>2. CASE \/ Acquire(r, "auth", "authing") \/ Acquire(r, "reauth", "reauthing")
             \/ Acquire(r, "handler", "handling") \/ Acquire(r, "log", "auditinside")
             \/ Acquire(r, "audit", "auditing")
    BY <1>1, <2>2, AcquireInd DEF Acquire
  <2>3. CASE Refuse401(r)
    BY <1>1, <2>3, RefusedInd DEF Refuse401
  <2>4. CASE \/ Authenticate(r) \/ Reauthenticate(r)
             \/ Malformed(r) \/ Handle(r) \/ HandleMcpUnlogged(r)
    BY <1>1, <2>4, AuthenticateInd, ReauthenticateInd, HandleInd
       DEF Authenticate, Reauthenticate, Malformed, Handle, HandleMcpUnlogged
  <2>5. CASE HandleMcp(r) \/ LogCall(r) \/ LogCallFails(r) \/ AuditRow(r) \/ AuditFails(r)
    BY <1>1, <2>5, HandleMcpInd, LogCallInd, AuditInd
       DEF HandleMcp, LogCall, LogCallFails, AuditRow, AuditFails
  <2> QED
    BY <1>8, <2>1, <2>2, <2>3, <2>4, <2>5 DEF Serve
<1>9. ASSUME NEW r \in Requests, Leave(r)
      PROVE  GateInv' /\ Kept
  BY <1>1, <1>9, LeaveInd DEF Leave
<1>10. CASE OthersTake \/ OthersGive
  BY <1>1, <1>10, OthersInd DEF OthersTake, OthersGive
<1>11. CASE UNCHANGED vars
  <2>1. UNCHANGED <<creds, req, busy>> /\ Kept
    BY <1>1, <1>11 DEF vars
  <2>2. /\ account' \in [Accounts -> {"absent", "on", "disabled"}] /\ off' \subseteq Agents
        /\ account' = account /\ \A g : AgentRow(g)' \subseteq AgentRow(g)
    BY <1>11 DEF vars, GateInv, TypeOK, AgentRow, Values
  <2> QED
    BY <2>1, <2>2, StoreInd
<1> QED
  BY <1>2, <1>3, <1>4, <1>5, <1>6, <1>7, <1>8, <1>9, <1>10, <1>11 DEF Next

(* api.py, audit.py, mcp.py, db.py: for any number of requests and any size  *)
(* of the pool, connections are not overdrawn, accounts and agents have the *)
(* credentials they should have, every gap in the audit trail but those of  *)
(* /mcp is counted, and audit_log agrees with mcp_call_log.                 *)
THEOREM Invariance == Spec => []GateInv
<1>1. GateInv /\ [Next]_vars => GateInv'
  BY NextInd
<1> QED
  BY InitInd, <1>1, PTL DEF Spec

(* auth.resolve, agents.py, tokens.py: a credential that was revoked, signed *)
(* out, replaced or deleted is never let in again.                          *)
THEOREM NoReturn == Spec => CutForGood
<1>1. GateInv /\ [Next]_vars => GateInv'
  BY NextInd
<1>2. GateInv /\ [Next]_vars
        => [\A v \in Values : creds[v].st = "cut" =>
              /\ creds'[v].st = "cut"
              /\ \A path \in Paths : ~Admits(v, path)']_vars
  <2> SUFFICES ASSUME GateInv, [Next]_vars, NEW v \in Values, creds[v].st = "cut"
               PROVE  creds'[v].st = "cut" /\ \A path \in Paths : ~Admits(v, path)'
    BY Zenon
  <2>1. creds'[v].st = "cut"
    BY NextInd DEF Kept
  <2> QED
    BY <2>1 DEF Admits
<1> QED
  BY InitInd, <1>1, <1>2, PTL DEF Spec, CutForGood

-----------------------------------------------------------------------------
(***************************************************************************)
(* What lies behind the gate: Connections, for any number of names, calls, *)
(* keys, secrets and redirects.  The stored secret is the last one given   *)
(* and opens, and a credential does not follow redirects.                  *)
(***************************************************************************)

HIDE PoolAssumption
HIDE CredsAssumption

(* The three properties together; each is inductive given the types. *)
ConnectionsInd ==
    /\ MaxRedirects \in Nat
    /\ ConnectionsInv /\ SecretIsLastWritten /\ CredentialStaysHome

(* No connection is stored and no call is in progress. *)
LEMMA InitConnections == ASSUME ConstantsOK, ConnectionsInit PROVE ConnectionsInd
<1> USE DEF ConnectionsInit, ConstantsOK
<1>1. ConnectionsTypeOK
  <2>1. call \in [Calls -> CallType]
    BY DEF NoCall, CallType
  <2> QED
    BY <2>1 DEF ConnectionsTypeOK, NoCall
<1>2. StoredSecretOpens /\ SecretIsLastWritten
  BY DEF StoredSecretOpens, SecretIsLastWritten, Absent, NoBlob
<1>3. CredentialStaysHome
  BY DEF CredentialStaysHome, NoCall
<1> QED
  BY <1>1, <1>2, <1>3 DEF ConnectionsInd, ConnectionsInv

(* A call ends or goes on; the tables are as they were. *)
LEMMA CallMoves ==
  ASSUME ConnectionsInd, NEW p \in Calls, NEW x \in CallType, Becomes(p, x),
         UNCHANGED <<rows, ring, last>>,
         x.pc # "idle" => x.name \in Names /\ x.conf \in Confs,
         x.pc # "hop" => x.hop = 0,
         x.pc = "hop" /\ x.auth /\ InjectOf[x.conf.host] # "header" =>
             x.hop = 0 /\ x.to = x.conf.host
  PROVE  ConnectionsInd'
<1> USE DEF ConnectionsInd, ConnectionsInv, Becomes
<1>1. \A q \in Calls : call'[q] = IF q = p THEN x ELSE call[q]
  BY DEF ConnectionsTypeOK
<1>2. ConnectionsTypeOK'
  BY <1>1 DEF ConnectionsTypeOK
<1>3. StoredSecretOpens' /\ SecretIsLastWritten'
  BY DEF StoredSecretOpens, SecretIsLastWritten, Opens
<1>4. CredentialStaysHome'
  BY <1>1 DEF CredentialStaysHome
<1> QED
  BY <1>2, <1>3, <1>4

(* A call that is over is no call. *)
LEMMA NoCallType ==
  ASSUME ConnectionsInd
  PROVE  NoCall \in CallType /\ NoCall.pc = "idle" /\ NoCall.hop = 0
  BY DEF NoCall, CallType, ConnectionsInd

(* A call ends without a trace. *)
LEMMA CallEnds ==
  ASSUME ConnectionsInd, NEW p \in Calls, Done(p), UNCHANGED <<rows, ring, last>>
  PROVE  ConnectionsInd'
  BY NoCallType, CallMoves DEF Done

(* One row is written or removed, with the history that goes with it. *)
LEMMA WriteInd ==
  ASSUME ConnectionsInd, NEW n \in Names, NEW r \in RowType \cup {Absent},
         NEW v \in Secrets \cup {NoSecret},
         rows' = [rows EXCEPT ![n] = r], last' = [last EXCEPT ![n] = v],
         r.blob.value = v,
         r.blob # NoBlob => r.blob.with = r.blob.kid /\ r.blob.name = n,
         UNCHANGED ring,
         \/ UNCHANGED call
         \/ \E p \in Calls : Done(p)
  PROVE  ConnectionsInd'
<1> USE DEF ConnectionsInd, ConnectionsInv
<1>1. \A q \in Calls : call'[q] = call[q] \/ call'[q] = NoCall
  BY DEF ConnectionsTypeOK, Done, Becomes
<1>2. ConnectionsTypeOK'
  <2>1. call' \in [Calls -> CallType]
    BY NoCallType DEF ConnectionsTypeOK, Done, Becomes
  <2> QED
    BY <1>1, <2>1, NoCallType DEF ConnectionsTypeOK
<1>3. \A m \in Names : rows'[m] = IF m = n THEN r ELSE rows[m]
  BY DEF ConnectionsTypeOK
<1>4. StoredSecretOpens'
  BY <1>3 DEF StoredSecretOpens, Opens
<1>5. SecretIsLastWritten'
  BY <1>3 DEF SecretIsLastWritten, ConnectionsTypeOK
<1>6. CredentialStaysHome'
  BY <1>1, NoCallType DEF CredentialStaysHome
<1> QED
  BY <1>2, <1>4, <1>5, <1>6

(* What the process seals now, it seals with the key it names. *)
LEMMA SealType ==
  ASSUME ConnectionsInd, NEW n \in Names, NEW v \in Secrets
  PROVE  /\ Seal(n, v) \in Blobs
         /\ Seal(n, v).value = v /\ Seal(n, v).with = Seal(n, v).kid /\ Seal(n, v).name = n
<1>1. ring.current \in Ids
  BY DEF ConnectionsInd, ConnectionsInv, ConnectionsTypeOK, Ids
<1> QED
  BY <1>1 DEF Seal, Blobs

-----------------------------------------------------------------------------
(* create_connection and delete. *)
LEMMA StoreConnection ==
  ASSUME ConnectionsInd, NEW n \in Names,
         \/ Delete(n)
         \/ \E c \in Confs, v \in Secrets \cup {NoSecret} : Create(n, c, v)
  PROVE  ConnectionsInd'
<1>1. CASE Delete(n)
  BY <1>1, WriteInd DEF Delete, Absent, NoBlob
<1>2. ASSUME NEW c \in Confs, NEW v \in Secrets \cup {NoSecret}, Create(n, c, v)
      PROVE  ConnectionsInd'
  <2> DEFINE b == IF v = NoSecret THEN NoBlob ELSE Seal(n, v)
             r == [conf |-> c, tested |-> "never", blob |-> b]
  <2>1. /\ b \in Blobs \cup {NoBlob} /\ b.value = v
        /\ b # NoBlob => b.with = b.kid /\ b.name = n
    BY SealType DEF NoBlob
  <2>2. rows' = [rows EXCEPT ![n] = r] /\ last' = [last EXCEPT ![n] = v] /\ UNCHANGED <<ring, call>>
    BY <1>2 DEF Create
  <2> HIDE DEF b
  <2>3. r \in RowType /\ r.blob = b
    BY <2>1 DEF RowType
  <2> HIDE DEF r
  <2> QED
    BY <2>1, <2>2, <2>3, WriteInd
<1> QED
  BY <1>1, <1>2

(* The UPDATE of a patch: it keeps the sealed secret or seals the one of its *)
(* own body, and never one that it has read.                                *)
LEMMA PatchWriteInd ==
  ASSUME ConnectionsInd, NEW p \in Calls, PatchWrite(p) PROVE ConnectionsInd'
<1> DEFINE x == call[p]
           n == x.name
           b == PatchedBlob(x)
           v == IF x.give = "keep" THEN last[n] ELSE x.give
<1>1. x \in CallType /\ n \in Names /\ x.conf \in Confs /\ x.pc = "write"
  BY DEF PatchWrite, ConnectionsInd, ConnectionsInv, ConnectionsTypeOK
<1>2. CASE ~Exists(n)
  BY <1>1, <1>2, CallEnds DEF PatchWrite
<1>3. CASE Exists(n)
  <2> DEFINE r == [rows[n] EXCEPT !.conf = x.conf, !.blob = b]
  <2>1. rows[n] \in RowType
    BY <1>1, <1>3 DEF Exists, ConnectionsInd, ConnectionsInv, ConnectionsTypeOK
  <2>2. rows' = [rows EXCEPT ![n] = r]
    BY <1>1, <1>3 DEF PatchWrite, ConnectionsInd, ConnectionsInv, ConnectionsTypeOK
  <2>3. last' = [last EXCEPT ![n] = v] /\ Done(p) /\ UNCHANGED ring
    BY <1>1, <1>3 DEF PatchWrite, ConnectionsInd, ConnectionsInv, ConnectionsTypeOK
  <2>4. /\ b \in Blobs \cup {NoBlob} /\ b.value = v /\ v \in Secrets \cup {NoSecret}
        /\ b # NoBlob => b.with = b.kid /\ b.name = n
    <3>1. CASE x.give = "keep"
      <4>1. b = rows[n].blob /\ v = last[n]
        BY <3>1 DEF PatchedBlob, NoSecret
      <4>2. b \in Blobs \cup {NoBlob}
        BY <2>1, <4>1 DEF RowType
      <4>3. v \in Secrets \cup {NoSecret}
        BY <1>1, <4>1 DEF ConnectionsInd, ConnectionsInv, ConnectionsTypeOK
      <4>4. b.value = v
        BY <1>1, <4>1 DEF ConnectionsInd, SecretIsLastWritten
      <4>5. b # NoBlob => b.with = b.kid /\ b.name = n
        BY <1>1, <4>1 DEF ConnectionsInd, ConnectionsInv, StoredSecretOpens
      <4> HIDE DEF b, v, n
      <4> QED
        BY <4>2, <4>3, <4>4, <4>5
    <3>2. CASE x.give # "keep" /\ x.give = NoSecret
      BY <3>2 DEF PatchedBlob, NoBlob
    <3>3. CASE x.give # "keep" /\ x.give # NoSecret
      BY <1>1, <3>3, SealType DEF PatchedBlob, CallType
    <3> QED
      BY <3>1, <3>2, <3>3
  <2> HIDE DEF b, v
  <2>5. r \in RowType /\ r.blob = b
    BY <1>1, <2>1, <2>4 DEF RowType
  <2> HIDE DEF r, n, x
  <2> QED
    BY <1>1, <2>2, <2>3, <2>4, <2>5, WriteInd
<1> QED
  BY <1>2, <1>3

(* The outcome of a test changes neither configuration nor secret. *)
LEMMA TestRecordInd ==
  ASSUME ConnectionsInd, NEW p \in Calls, NEW ok \in {"ok", "failed"}, TestRecord(p, ok)
  PROVE  ConnectionsInd'
<1> DEFINE n == call[p].name
<1>1. n \in Names
  BY DEF TestRecord, ConnectionsInd, ConnectionsInv, ConnectionsTypeOK
<1>2. CASE ~Exists(n)
  BY <1>2, CallEnds DEF TestRecord
<1>3. CASE Exists(n)
  <2> DEFINE r == [rows[n] EXCEPT !.tested = ok]
  <2>1. rows[n] \in RowType
    BY <1>1, <1>3 DEF Exists, ConnectionsInd, ConnectionsInv, ConnectionsTypeOK
  <2>2. r \in RowType /\ r.blob = rows[n].blob
    BY <2>1 DEF RowType
  <2>3. rows' = [rows EXCEPT ![n] = r] /\ Done(p) /\ UNCHANGED <<ring, last>>
    BY <1>1, <1>3 DEF TestRecord, ConnectionsInd, ConnectionsInv, ConnectionsTypeOK
  <2>4. last' = [last EXCEPT ![n] = last[n]] /\ last[n] \in Secrets \cup {NoSecret}
    BY <1>1, <2>3 DEF ConnectionsInd, ConnectionsInv, ConnectionsTypeOK
  <2>5. /\ r.blob.value = last[n]
        /\ r.blob # NoBlob => r.blob.with = r.blob.kid /\ r.blob.name = n
    BY <1>1, <2>2 DEF ConnectionsInd, ConnectionsInv, StoredSecretOpens, SecretIsLastWritten
  <2> HIDE DEF r, n
  <2> QED
    BY <1>1, <2>2, <2>3, <2>4, <2>5, WriteInd
<1> QED
  BY <1>2, <1>3

-----------------------------------------------------------------------------
(* A call begins by reading a row. *)
LEMMA ReadInd ==
  ASSUME ConnectionsInd, NEW p \in Calls, NEW n \in Names, NEW c \in Confs,
         NEW g \in Secrets \cup {NoSecret, "keep"},
         NEW to \in {"write", "resolve", "test", "proxy"},
         NEW x, x = [NoCall EXCEPT !.pc = to, !.name = n, !.conf = c, !.give = g],
         Becomes(p, x), UNCHANGED <<rows, ring, last>>
  PROVE  ConnectionsInd'
<1>1. ASSUME NEW z \in CallType,
             NEW y, y = [z EXCEPT !.pc = to, !.name = n, !.conf = c, !.give = g]
      PROVE  y \in CallType /\ y.pc = to /\ y.name = n /\ y.conf = c /\ y.hop = z.hop
  BY <1>1 DEF CallType
<1>2. x \in CallType /\ x.pc = to /\ x.name = n /\ x.conf = c /\ x.hop = 0
  BY <1>1, NoCallType
<1> QED
  BY <1>2, CallMoves

(* The calls that begin: a patch, and the three users of a connection. *)
LEMMA CallBegins ==
  ASSUME ConnectionsInd, NEW p \in Calls, NEW n \in Names,
         \/ \E c \in Confs, g \in Secrets \cup {NoSecret, "keep"} : PatchRead(p, n, c, g)
         \/ \E to \in {"resolve", "test", "proxy"} : UseRead(p, n, to)
  PROVE  ConnectionsInd'
<1>1. ASSUME NEW c \in Confs, NEW g \in Secrets \cup {NoSecret, "keep"}, PatchRead(p, n, c, g)
      PROVE  ConnectionsInd'
  BY <1>1, ReadInd DEF PatchRead
<1>2. ASSUME NEW to \in {"resolve", "test", "proxy"}, UseRead(p, n, to)
      PROVE  ConnectionsInd'
  <2>1. rows[n].conf \in Confs
    BY <1>2 DEF UseRead, Exists, ConnectionsInd, ConnectionsInv, ConnectionsTypeOK, RowType
  <2>2. [NoCall EXCEPT !.pc = to, !.name = n, !.conf = rows[n].conf]
          = [NoCall EXCEPT !.pc = to, !.name = n, !.conf = rows[n].conf, !.give = "keep"]
    <3>1. ASSUME NEW z \in CallType, z.give = "keep", NEW c
          PROVE  [z EXCEPT !.pc = to, !.name = n, !.conf = c]
                   = [z EXCEPT !.pc = to, !.name = n, !.conf = c, !.give = "keep"]
      BY <3>1 DEF CallType
    <3>2. NoCall.give = "keep"
      BY DEF NoCall
    <3> QED
      BY <3>1, <3>2, NoCallType
  <2>3. /\ Becomes(p, [NoCall EXCEPT !.pc = to, !.name = n, !.conf = rows[n].conf])
        /\ UNCHANGED <<rows, ring, last>>
    BY <1>2 DEF UseRead
  <2> DEFINE y == [NoCall EXCEPT !.pc = to, !.name = n, !.conf = rows[n].conf, !.give = "keep"]
  <2>4. Becomes(p, y)
    BY <2>2, <2>3
  <2>5. y = [NoCall EXCEPT !.pc = to, !.name = n, !.conf = rows[n].conf, !.give = "keep"]
    OBVIOUS
  <2> DEFINE c == rows[n].conf
             g == "keep"
  <2>6. c \in Confs /\ g \in Secrets \cup {NoSecret, "keep"} /\ to \in {"write", "resolve", "test", "proxy"}
        /\ y = [NoCall EXCEPT !.pc = to, !.name = n, !.conf = c, !.give = g]
    BY <2>1, <2>5
  <2> HIDE DEF y, c, g
  <2> QED
    BY <2>3, <2>4, <2>6, ReadInd
<1> QED
  BY <1>1, <1>2

(* The proxy: the credential goes to the host of the connection, and a       *)
(* redirect keeps it only in a header of another name than Authorization.   *)
LEMMA ProxyInd ==
  ASSUME ConnectionsInd, NEW p \in Calls,
         ProxySecret(p) \/ ProxyEnd(p) \/ \E h \in Hosts : ProxyRedirect(p, h)
  PROVE  ConnectionsInd'
<1> DEFINE x == call[p]
<1>0. /\ x \in CallType /\ x.pc \in {"proxy", "hop"} /\ x.name \in Names /\ x.conf \in Confs
      /\ x.pc # "hop" => x.hop = 0
      /\ UNCHANGED <<rows, ring, last>>
  BY DEF ProxySecret, ProxyEnd, ProxyRedirect, ConnectionsInd, ConnectionsInv,
     ConnectionsTypeOK
<1>1. CASE Done(p)
  BY <1>0, <1>1, CallEnds
<1>2. CASE ProxySecret(p) /\ ~Done(p)
  <2> DEFINE a == Sealed(x.name) # NoBlob /\ InjectOf[x.conf.host] # "none"
             y == [x EXCEPT !.pc = "hop", !.to = x.conf.host, !.auth = a]
  <2>1. Becomes(p, y) /\ x.pc = "proxy"
    BY <1>2 DEF ProxySecret
  <2>2. x.conf.host \in Hosts /\ a \in BOOLEAN
    BY <1>0 DEF Confs
  <2> HIDE DEF a
  <2>3. /\ y \in CallType /\ y.pc = "hop" /\ y.to = x.conf.host /\ y.hop = x.hop
        /\ y.conf = x.conf /\ y.name = x.name
    BY <1>0, <2>2 DEF CallType
  <2> HIDE DEF y
  <2> QED
    BY <1>0, <2>1, <2>3, CallMoves
<1>3. ASSUME NEW h \in Hosts, ProxyRedirect(p, h), ~Done(p)
      PROVE  ConnectionsInd'
  <2> DEFINE a == AuthAfter(x)
             y == [x EXCEPT !.hop = x.hop + 1, !.to = h, !.auth = a]
  <2>1. Becomes(p, y) /\ x.pc = "hop" /\ x.hop < MaxRedirects
    <3>1. Becomes(p, [x EXCEPT !.hop = @ + 1, !.to = h, !.auth = AuthAfter(x)])
          /\ x.pc = "hop" /\ MayFollow(x)
      BY <1>3 DEF ProxyRedirect
    <3> QED
      BY <3>1 DEF MayFollow
  <2>2. a \in BOOLEAN /\ (a => InjectOf[x.conf.host] = "header")
    BY <1>0 DEF AuthAfter, CallType
  <2> HIDE DEF a
  <2>3. /\ y \in CallType /\ y.pc = "hop" /\ y.auth = a
        /\ y.conf = x.conf /\ y.name = x.name
    <3> DEFINE k == x.hop + 1
    <3>1. k \in 0..MaxRedirects
      BY <1>0, <2>1 DEF CallType, ConnectionsInd
    <3> HIDE DEF k
    <3>2. ASSUME NEW z \in CallType PROVE [z EXCEPT !.hop = k, !.to = h, !.auth = a] \in CallType
      BY <2>2, <3>1 DEF CallType
    <3>3. y = [x EXCEPT !.hop = k, !.to = h, !.auth = a]
      BY DEF k
    <3> HIDE DEF x
    <3> QED
      BY <1>0, <2>1, <3>2, <3>3 DEF CallType
  <2> HIDE DEF y
  <2> QED
    BY <1>0, <2>1, <2>2, <2>3, CallMoves
<1> QED
  BY <1>1, <1>2, <1>3 DEF ProxyEnd

(* The second statement of the worker and of a test. *)
LEMMA SecretInd ==
  ASSUME ConnectionsInd, NEW p \in Calls, ResolveSecret(p) \/ TestSecret(p)
  PROVE  ConnectionsInd'
<1>0. UNCHANGED <<rows, ring, last>>
  BY DEF ResolveSecret, TestSecret
<1>1. CASE Done(p)
  BY <1>0, <1>1, CallEnds
<1>2. CASE TestSecret(p) /\ ~Done(p)
  <2> DEFINE x == call[p]
             y == [x EXCEPT !.pc = "testing"]
  <2>1. Becomes(p, y) /\ x.pc = "test" /\ x \in CallType /\ x.hop = 0
        /\ x.name \in Names /\ x.conf \in Confs
    BY <1>2 DEF TestSecret, ConnectionsInd, ConnectionsInv, ConnectionsTypeOK
  <2>2. /\ y \in CallType /\ y.pc = "testing" /\ y.hop = 0
        /\ y.conf = x.conf /\ y.name = x.name
    BY <2>1 DEF CallType
  <2> HIDE DEF y
  <2> QED
    BY <1>0, <2>1, <2>2, CallMoves
<1> QED
  BY <1>1, <1>2 DEF ResolveSecret

(* A restart with other keys: the blobs stay as they were sealed. *)
LEMMA RestartInd ==
  ASSUME ConnectionsInd, NEW k \in Keyrings, Restart(k) PROVE ConnectionsInd'
<1> USE DEF ConnectionsInd, ConnectionsInv
<1>1. ConnectionsTypeOK'
  BY NoCallType DEF Restart, ConnectionsTypeOK
<1>2. StoredSecretOpens' /\ SecretIsLastWritten'
  BY DEF Restart, StoredSecretOpens, SecretIsLastWritten, Opens
<1>3. CredentialStaysHome'
  BY NoCallType DEF Restart, CredentialStaysHome
<1> QED
  BY <1>1, <1>2, <1>3

-----------------------------------------------------------------------------
(* Every step preserves the invariant. *)
LEMMA NextConnections == ConnectionsInd /\ [ConnectionsNext]_connectionsVars => ConnectionsInd'
<1> SUFFICES ASSUME ConnectionsInd, [ConnectionsNext]_connectionsVars PROVE ConnectionsInd'
  OBVIOUS
<1>1. ASSUME NEW n \in Names,
             Delete(n) \/ \E c \in Confs, v \in Secrets \cup {NoSecret} : Create(n, c, v)
      PROVE  ConnectionsInd'
  BY <1>1, StoreConnection
<1>2. ASSUME NEW p \in Calls, NEW n \in Names,
             \/ \E c \in Confs, g \in Secrets \cup {NoSecret, "keep"} : PatchRead(p, n, c, g)
             \/ \E w \in Workspaces : Resolve(p, n, w)
             \/ Test(p, n) \/ Proxy(p, n)
      PROVE  ConnectionsInd'
  BY <1>2, CallBegins DEF Resolve, Test, Proxy
<1>3. ASSUME NEW p \in Calls, CallStep(p)
      PROVE  ConnectionsInd'
  BY <1>3, PatchWriteInd, TestRecordInd, SecretInd, ProxyInd DEF CallStep
<1>4. ASSUME NEW k \in Keyrings, Restart(k)
      PROVE  ConnectionsInd'
  BY <1>4, RestartInd
<1>5. CASE UNCHANGED connectionsVars
  BY <1>5 DEF connectionsVars, ConnectionsInd, ConnectionsInv, ConnectionsTypeOK,
     StoredSecretOpens, SecretIsLastWritten,
     CredentialStaysHome, Opens
<1> QED
  BY <1>1, <1>2, <1>3, <1>4, <1>5 DEF ConnectionsNext

(* crypto.py, proxy.py: whatever keys the server was started with, a stored  *)
(* secret is sealed with the key it names and under its row's name, so that *)
(* it opens whenever that key is there; and no request is redirected more   *)
(* than MAX_REDIRECTS times.                                                *)
THEOREM ConnectionsInvariance == ConnectionsSpec => []ConnectionsInv
<1> ConstantsOK
  BY ConstantsAssumption
<1>1. ConnectionsInit => ConnectionsInd
  BY InitConnections
<1>2. ConnectionsInd => ConnectionsInv
  BY DEF ConnectionsInd
<1> QED
  BY <1>1, <1>2, NextConnections, PTL DEF ConnectionsSpec

(* connections.update: for any number of overlapping patches, tests and      *)
(* restarts, the secret under a name is the last one that was given for it. *)
THEOREM LastSecretWins == ConnectionsSpec => []SecretIsLastWritten
<1> ConstantsOK
  BY ConstantsAssumption
<1>1. ConnectionsInit => ConnectionsInd
  BY InitConnections
<1>2. ConnectionsInd => SecretIsLastWritten
  BY DEF ConnectionsInd
<1> QED
  BY <1>1, <1>2, NextConnections, PTL DEF ConnectionsSpec

(* proxy._strip_auth: for any limit on redirects and any upstreams, a        *)
(* credential in Authorization or in the query stays with its host.         *)
THEOREM CredentialConfined == ConnectionsSpec => []CredentialStaysHome
<1> ConstantsOK
  BY ConstantsAssumption
<1>1. ConnectionsInit => ConnectionsInd
  BY InitConnections
<1>2. ConnectionsInd => CredentialStaysHome
  BY DEF ConnectionsInd
<1> QED
  BY <1>1, <1>2, NextConnections, PTL DEF ConnectionsSpec
=============================================================================
