-------------------------------- MODULE Gate --------------------------------
(***************************************************************************)
(* A request's way through the server: the trace_and_audit, authenticate   *)
(* and rate_limit middlewares of api.py, the handler, and the rows it      *)
(* leaves in audit_log and mcp_call_log (audit.py, mcp.py, proxy.py); with *)
(* the accounts, tokens, agents and sessions the middlewares look up and   *)
(* the commands that change them (accounts.py, tokens.py, agents.py).      *)
(*                                                                         *)
(* Every look at the database takes a connection out of a pool of          *)
(* PoolSize and waits when there is none.  Module Windows has the counting *)
(* behind the two refusals 429; here they are a possible outcome.          *)
(***************************************************************************)
EXTENDS Integers, Sequences, FiniteSets

CONSTANTS
    Requests,   \* HTTP requests in progress, one each
    Accounts, Agents, Labels,
    MaxCreds,   \* bound on the credentials ever minted
    PoolSize    \* max_size of the pool

ASSUME PoolAssumption == PoolSize \in Nat \ {0}
ASSUME CredsAssumption == MaxCreds \in Nat
ASSUME RequestsAssumption == IsFiniteSet(Requests)

VARIABLES
    account,  \* service_accounts: absent, on or disabled
    off,      \* the agents that are disabled
    creds,    \* every credential ever minted, by the order of minting
    req,      \* per request: path, step, credential, rows written
    busy      \* connections the rest of the server has out

vars == <<account, off, creds, req, busy>>

(* A GET that runs a workspace (/stream, /download), a change through REST   *)
(* or the UI, the login form, the MCP endpoint.                             *)
Paths == {"run", "write", "login", "mcp"}
NoRequest == [path |-> "none", pc |-> "idle", cred |-> 0, who |-> "nobody", status |-> 0,
              calls |-> 0, rows |-> 0, lost |-> 0]
Values == 1..Len(creds)

(* Before the server starts, nothing; the first account is made by hand. *)
Init ==
    /\ account = [a \in Accounts |-> "absent"]
    /\ off = {}
    /\ creds = <<>>
    /\ req = [r \in Requests |-> NoRequest]
    /\ busy = 0

-----------------------------------------------------------------------------
(* Credentials. *)

Cred(kind, a, key) == [kind |-> kind, account |-> a, key |-> key, st |-> "live"]
Mint(c) == Len(creds) < MaxCreds /\ creds' = Append(creds, c)

Rows(kind, a, key) ==
    {v \in Values : creds[v] \in [kind : {kind}, account : {a}, key : {key},
                                  st : {"live", "expired"}]}
AgentRow(g) == {v \in Values : /\ creds[v].kind = "agent" /\ creds[v].key = g
                               /\ creds[v].st = "live"}

(* The rows of V are revoked, or no longer hold the hash. *)
Cut(V) == [v \in Values |-> IF v \in V THEN [creds[v] EXCEPT !.st = "cut"] ELSE creds[v]]

(* Variant: the account is committed before its token. *)
CreateAccountBare(a) ==
    /\ account[a] = "absent"
    /\ account' = [account EXCEPT ![a] = "on"]
    /\ UNCHANGED <<off, creds, req, busy>>

(* accounts.create: the account and its first token in one transaction. *)
CreateAccount(a) ==
    /\ account[a] = "absent"
    /\ account' = [account EXCEPT ![a] = "on"]
    /\ Mint(Cred("token", a, "initial"))
    /\ UNCHANGED <<off, req, busy>>

(* token_add, mint_account_token: a label once among those not revoked. *)
AddToken(a, l) ==
    /\ account[a] # "absent" /\ Rows("token", a, l) = {}
    /\ Mint(Cred("token", a, l))
    /\ UNCHANGED <<account, off, req, busy>>

(* token_revoke, revoke_account_token *)
RevokeToken(a, l) ==
    /\ Rows("token", a, l) # {}
    /\ creds' = Cut(Rows("token", a, l))
    /\ UNCHANGED <<account, off, req, busy>>

(* disable and enable, update_account *)
Switch(a) ==
    /\ account[a] # "absent"
    /\ account' = [account EXCEPT ![a] = IF @ = "on" THEN "disabled" ELSE "on"]
    /\ UNCHANGED <<off, creds, req, busy>>

(* create_agent: names are unique. *)
CreateAgent(g, a) ==
    /\ account[a] # "absent" /\ AgentRow(g) = {}
    /\ Mint(Cred("agent", a, g))
    /\ off' = off \ {g}
    /\ UNCHANGED <<account, req, busy>>

(* Variant: the new token is added to the old one. *)
MintAgentTokenToo(g) ==
    /\ AgentRow(g) # {} /\ Len(creds) < MaxCreds
    /\ creds' = Append(creds, creds[CHOOSE v \in AgentRow(g) : TRUE])
    /\ UNCHANGED <<account, off, req, busy>>

(* mint_agent_token: the row holds one hash, the new one. *)
MintAgentToken(g) ==
    /\ AgentRow(g) # {} /\ Len(creds) < MaxCreds
    /\ creds' = Append(Cut(AgentRow(g)), creds[CHOOSE v \in AgentRow(g) : TRUE])
    /\ UNCHANGED <<account, off, req, busy>>

(* update_agent *)
SwitchAgent(g) ==
    /\ AgentRow(g) # {}
    /\ off' = IF g \in off THEN off \ {g} ELSE off \cup {g}
    /\ UNCHANGED <<account, creds, req, busy>>

(* delete_agent *)
DeleteAgent(g) ==
    /\ AgentRow(g) # {}
    /\ creds' = Cut(AgentRow(g))
    /\ off' = off \ {g}
    /\ UNCHANGED <<account, req, busy>>

(* A pair of module OAuth, of which only the access token comes here. *)
IssueAccess(a) ==
    /\ account[a] # "absent"
    /\ Mint(Cred("access", a, "oauth"))
    /\ UNCHANGED <<account, off, req, busy>>

(* revoke_session, oauth.revoke; and revoke_grants for all of an account. *)
SignOut(V) ==
    /\ V # {} /\ \A v \in V : creds[v].kind \in {"session", "access"} /\ creds[v].st # "cut"
    /\ \/ Cardinality(V) = 1
       \/ \E a \in Accounts : V = {v \in Values : /\ creds[v].account = a
                                                  /\ creds[v].kind \in {"session", "access"}
                                                  /\ creds[v].st # "cut"}
    /\ creds' = Cut(V)
    /\ UNCHANGED <<account, off, req, busy>>

(* Time passes.  Agents' tokens do not expire; an expired account token     *)
(* still has its label, an expired session is as good as signed out.        *)
Expire(v) ==
    /\ creds[v].kind # "agent" /\ creds[v].st = "live"
    /\ creds' = [creds EXCEPT ![v].st = IF creds[v].kind = "token" THEN "expired" ELSE "cut"]
    /\ UNCHANGED <<account, off, req, busy>>

(* require_auth: a session counts only where cookies do (COOKIE_PATHS);     *)
(* the others are bearer tokens.                                            *)
Channel(v, path) == creds[v].kind = "session" => path = "write"

(* Variant: the hash that was in service_accounts before there were labels. *)
AdmitsOld(v, path) ==
    /\ creds[v].st = "live" \/ creds[v].key = "initial"
    /\ account[creds[v].account] = "on"
    /\ creds[v].kind = "agent" => creds[v].key \notin off
    /\ Channel(v, path)

(* resolve, resolve_session *)
Admits(v, path) ==
    /\ creds[v].st = "live"
    /\ account[creds[v].account] = "on"
    /\ creds[v].kind = "agent" => creds[v].key \notin off
    /\ Channel(v, path)

-----------------------------------------------------------------------------
(* Requests. *)

Move(r, x) == req' = [req EXCEPT ![r] = x]
Step(r, next) == Move(r, [req[r] EXCEPT !.pc = next])

(* The public paths pass authenticate by. *)
Arrive(r, path, v) ==
    /\ req[r].pc = "idle"
    /\ v # 0 => v \in Values
    /\ path = "login" => v = 0
    /\ Move(r, [NoRequest EXCEPT !.path = path, !.cred = v,
                                 !.pc = IF path = "login" THEN "handler" ELSE "auth"])
    /\ UNCHANGED <<account, off, creds, busy>>

(* _audit_row: /mcp writes its own; of the rest, refused credentials and    *)
(* what an identified caller asked for other than by a read.                *)
Audited(x) ==
    /\ x.path # "mcp"
    /\ IF x.who = "nobody" THEN x.status = 401 ELSE x.path = "write"

(* The response x is on its way out through trace_and_audit. *)
Out(x, status) ==
    LET y == [x EXCEPT !.status = status, !.cred = 0]
    IN  [y EXCEPT !.pc = IF Audited(y) THEN "audit" ELSE "done"]

(* Steps that hold a connection. *)
Holding == {"authing", "handling", "reauthing", "auditing", "auditinside"}
Held == {r \in Requests : req[r].pc \in Holding}

(* Variant: one connection more than the pool has. *)
FreeConnectionOff == Cardinality(Held) + busy <= PoolSize

(* db.init's pool, whose acquire waits while all are out. *)
FreeConnection == Cardinality(Held) + busy < PoolSize

Acquire(r, waiting, next) ==
    /\ req[r].pc = waiting /\ FreeConnection
    /\ Step(r, next)
    /\ UNCHANGED <<account, off, creds, busy>>

(* Requests served elsewhere, background loops: they take connections and   *)
(* give them back.                                                          *)
OthersTake == FreeConnection /\ busy' = busy + 1 /\ UNCHANGED <<account, off, creds, req>>
OthersGive == busy > 0 /\ busy' = busy - 1 /\ UNCHANGED <<account, off, creds, req>>

(* authenticate: 401, or the principal, and then rate_limit, which may      *)
(* answer 429.  A request without a credential takes no connection.         *)
Refuse401(r) ==
    /\ req[r].pc = "auth" /\ req[r].cred = 0
    /\ Move(r, Out(req[r], 401))
    /\ UNCHANGED <<account, off, creds, busy>>

(* The principal: from here on the credential is not looked at again. *)
Known(x) == [x EXCEPT !.who = IF creds[x.cred].kind = "agent" THEN "agent" ELSE "account",
                      !.cred = 0]

Authenticate(r) ==
    /\ req[r].pc = "authing"
    /\ IF Admits(req[r].cred, req[r].path)
       THEN \/ Move(r, IF req[r].path = "mcp"
                       THEN [Known(req[r]) EXCEPT !.pc = "reauth", !.cred = req[r].cred]
                       ELSE [Known(req[r]) EXCEPT !.pc = "handler"])
            \/ Move(r, Out(Known(req[r]), 429))
       ELSE Move(r, Out(req[r], 401))
    /\ UNCHANGED <<account, off, creds, busy>>

(* mcp.endpoint asks require_auth again. *)
Reauthenticate(r) ==
    /\ req[r].pc = "reauthing"
    /\ IF Admits(req[r].cred, "mcp")
       THEN Move(r, [req[r] EXCEPT !.pc = "handler", !.cred = 0])
       ELSE Move(r, Out(req[r], 401))
    /\ UNCHANGED <<account, off, creds, busy>>

(* audit.write, write_anon: a row, or one more in dropped(). *)
Wrote(x) == {[x EXCEPT !.rows = @ + 1], [x EXCEPT !.lost = @ + 1]}

(* A request that is refused before anything is looked up for it. *)
Malformed(r) ==
    /\ req[r].pc = "handler"
    /\ Move(r, Out(req[r], 400))
    /\ UNCHANGED <<account, off, creds, busy>>

(* A handler answers or raises; trace_and_audit goes on the same way. *)
Handle(r) ==
    /\ req[r].pc = "handling" /\ req[r].path \notin {"login", "mcp"}
    /\ Move(r, Out(req[r], 200))
    /\ UNCHANGED <<account, off, creds, busy>>

(* Variant: the refused login is recorded over a connection of its own,     *)
(* taken while the handler still has one.                                   *)
HandleLoginNested(r, a, status) ==
    /\ req[r].pc = "handling" /\ req[r].path = "login"
    /\ \/ /\ status = 200 /\ account[a] = "on"
          /\ Mint(Cred("session", a, "ui"))
          /\ Move(r, Out(req[r], status))
       \/ /\ status \in {401, 429}
          /\ Cardinality(Held) + busy < PoolSize
          /\ \E x \in Wrote(req[r]) : Move(r, Out(x, status))
          /\ UNCHANGED creds
    /\ UNCHANGED <<account, off, busy>>

(* ui.login: a session, or a refusal that it records itself.                *)
HandleLogin(r, a, status) ==
    /\ req[r].pc = "handling" /\ req[r].path = "login"
    /\ \/ /\ status = 200 /\ account[a] = "on"
          /\ Mint(Cred("session", a, "ui"))
          /\ Move(r, Out(req[r], status))
       \/ /\ status \in {401, 429}
          /\ \E x \in Wrote(req[r]) : Move(r, Out(x, status))
          /\ UNCHANGED creds
    /\ UNCHANGED <<account, off, busy>>

(* An MCP call that is not logged: no JSON-RPC request, an unknown method,  *)
(* or an exception that is not an RpcError.                                 *)
HandleMcpUnlogged(r) ==
    /\ req[r].pc = "handling" /\ req[r].path = "mcp"
    /\ Move(r, Out(req[r], 200))
    /\ UNCHANGED <<account, off, creds, busy>>

(* _tools_call and the other methods; proxy_request, for an agent, writes a *)
(* row of its own over the connection it has held throughout.               *)
HandleMcp(r) ==
    /\ req[r].pc = "handling" /\ req[r].path = "mcp"
    /\ \/ Step(r, "log")
       \/ /\ req[r].who = "agent"
          /\ \E x \in Wrote(req[r]) : Move(r, [x EXCEPT !.pc = "log"])
    /\ UNCHANGED <<account, off, creds, busy>>

(* Variant: the row of audit_log is written first. *)
LogCallSwapped(r) ==
    /\ req[r].pc = "auditinside"
    /\ \E x \in Wrote(req[r]), n \in {0, 1} :
           Move(r, Out([x EXCEPT !.calls = @ + n], 200))
    /\ UNCHANGED <<account, off, creds, busy>>

(* _log_call: the row of mcp_call_log; if that fails, the other is not      *)
(* written and not counted either.                                          *)
LogCall(r) ==
    /\ req[r].pc = "auditinside"
    /\ \/ Move(r, Out(req[r], 200))
       \/ \E x \in Wrote(req[r]) :
              Move(r, Out([x EXCEPT !.calls = @ + 1], 200))
    /\ UNCHANGED <<account, off, creds, busy>>

(* _log_call without a connection *)
LogCallFails(r) ==
    /\ req[r].pc = "log"
    /\ Move(r, Out(req[r], 200))
    /\ UNCHANGED <<account, off, creds, busy>>

AuditRow(r) ==
    /\ req[r].pc = "auditing"
    /\ \E x \in Wrote(req[r]) : Move(r, [x EXCEPT !.pc = "done"])
    /\ UNCHANGED <<account, off, creds, busy>>

(* Variant: except: pass. *)
AuditFailsUnseen(r) ==
    /\ req[r].pc = "audit"
    /\ Step(r, "done")
    /\ UNCHANGED <<account, off, creds, busy>>

(* No connection to be had: audit.drop. *)
AuditFails(r) ==
    /\ req[r].pc = "audit"
    /\ Move(r, [req[r] EXCEPT !.lost = @ + 1, !.pc = "done"])
    /\ UNCHANGED <<account, off, creds, busy>>

(* The response has gone out. *)
Leave(r) ==
    /\ req[r].pc = "done"
    /\ Move(r, NoRequest)
    /\ UNCHANGED <<account, off, creds, busy>>

-----------------------------------------------------------------------------
Serve(r) ==
    \/ Acquire(r, "auth", "authing") /\ req[r].cred # 0
    \/ Acquire(r, "reauth", "reauthing")
    \/ Acquire(r, "handler", "handling")
    \/ Acquire(r, "log", "auditinside")
    \/ Acquire(r, "audit", "auditing")
    \/ Refuse401(r) \/ Authenticate(r) \/ Reauthenticate(r)
    \/ Malformed(r) \/ Handle(r) \/ HandleMcpUnlogged(r)
    \/ \E a \in Accounts, s \in {200, 401, 429} : HandleLogin(r, a, s)
    \/ HandleMcp(r) \/ LogCall(r) \/ LogCallFails(r)
    \/ AuditRow(r) \/ AuditFails(r)

Next ==
    \/ \E a \in Accounts : CreateAccount(a) \/ Switch(a) \/ IssueAccess(a)
    \/ \E a \in Accounts, l \in Labels : AddToken(a, l) \/ RevokeToken(a, l)
    \/ \E g \in Agents, a \in Accounts : CreateAgent(g, a)
    \/ \E g \in Agents : MintAgentToken(g) \/ SwitchAgent(g) \/ DeleteAgent(g)
    \/ \E V \in SUBSET Values : SignOut(V)
    \/ \E v \in Values : Expire(v)
    \/ \E r \in Requests, path \in Paths, v \in {0} \cup Values : Arrive(r, path, v)
    \/ \E r \in Requests : Serve(r) \/ Leave(r)
    \/ OthersTake \/ OthersGive

Spec == Init /\ [][Next]_vars

(* The event loop runs what can run; the pool serves those who wait in the  *)
(* order they came, so whoever finds a connection free again and again gets *)
(* one.  Whoever has a connection gives it back.                            *)
FairSpec == Spec /\ WF_vars(OthersGive) /\ \A r \in Requests : SF_vars(Serve(r))

-----------------------------------------------------------------------------
CredRow == [kind : {"token", "agent", "access", "session"}, account : Accounts,
            key : Labels \cup Agents \cup {"initial", "oauth", "ui"},
            st : {"live", "expired", "cut"}]
ReqRow == [path : Paths \cup {"none"}, cred : Nat, who : {"nobody", "account", "agent"},
           pc : Holding \cup {"idle", "auth", "reauth", "handler", "log", "audit", "done"},
           status : {0, 200, 400, 401, 429}, calls : 0..1, rows : 0..2, lost : 0..2]

(* Accounts, credentials and requests have their types. *)
TypeOK ==
    /\ account \in [Accounts -> {"absent", "on", "disabled"}]
    /\ off \subseteq Agents
    /\ creds \in Seq(CredRow)
    /\ req \in [Requests -> ReqRow] /\ \A r \in Requests : req[r].cred \in 0..Len(creds)
    /\ busy \in Nat

(* No more connections are out than the pool has. *)
PoolInv == Cardinality(Held) + busy <= PoolSize

(* An account never exists without a credential that was made for it, also  *)
(* when the command that creates it dies half way.                          *)
NoAccountWithoutToken ==
    \A a \in Accounts : account[a] # "absent" =>
        \E v \in Values : creds[v].kind = "token" /\ creds[v].account = a

(* A credential that was revoked, signed out, replaced or deleted is never  *)
(* let in again, whatever is enabled, minted or created under the same name *)
(* afterwards.                                                              *)
CutForGood ==
    [][\A v \in Values : creds[v].st = "cut" =>
          /\ creds'[v].st = "cut"
          /\ \A path \in Paths : ~Admits(v, path)']_vars

(* An agent has one token at a time. *)
OneTokenPerAgent == \A g \in Agents : Cardinality(AgentRow(g)) <= 1

(* What audit_log should have of a finished request: refused credentials    *)
(* and writes; a failed login twice, and one refused for its frequency      *)
(* once, by the handler.                                                    *)
Due(x) ==
    CASE x.path = "login" -> (CASE x.status = 401 -> 2 [] x.status = 429 -> 1 [] OTHER -> 0)
      [] x.path = "write" -> 1
      [] OTHER            -> IF x.status = 401 THEN 1 ELSE 0

(* What a request has written so far, step by step: nothing before the       *)
(* handler is through; then all it should but for what trace_and_audit has  *)
(* still to do, or, at /mcp, at most the row of the proxy.                  *)
TrailOK(x) ==
    /\ x.pc \in {"idle", "auth", "authing", "reauth", "reauthing", "handler", "handling"} =>
           x.calls = 0 /\ x.rows = 0 /\ x.lost = 0
    /\ x.pc \in {"auth", "authing"} => x.who = "nobody" /\ x.path \in {"run", "write", "mcp"}
    /\ x.pc \in {"reauth", "reauthing"} => x.who # "nobody" /\ x.path = "mcp"
    /\ x.pc \in {"handler", "handling"} =>
           x.path \in Paths /\ (x.who = "nobody" <=> x.path = "login")
    /\ x.pc \in {"log", "auditinside"} =>
           /\ x.path = "mcp" /\ x.calls = 0
           /\ x.rows + x.lost \in IF x.who = "agent" THEN {0, 1} ELSE {0}
    /\ x.pc \in {"audit", "auditing"} =>
           x.path \in {"run", "write", "login"} /\ x.rows + x.lost + 1 = Due(x)
TrailInv == \A r \in Requests : TrailOK(req[r])

(* Of everything but /mcp, what is not in audit_log is in dropped(): a gap  *)
(* shows.                                                                   *)
GapShows ==
    \A r \in Requests : req[r].pc = "done" /\ req[r].path # "mcp" =>
        req[r].rows + req[r].lost = Due(req[r])

(* audit_log and mcp_call_log agree row for row, but for rows of the proxy  *)
(* and rows that were counted as dropped.                                   *)
LogsAgree ==
    \A r \in Requests : req[r].pc = "done" /\ req[r].path = "mcp" =>
        req[r].rows + req[r].lost - req[r].calls \in
            IF req[r].who = "agent" THEN {0, 1} ELSE {0}

(* What holds in every state: the types and the limit of the pool,          *)
(* accounts and agents with the credentials they should have, and an audit  *)
(* trail in which every gap but those of /mcp is counted and the two logs   *)
(* agree.                                                                   *)
GateInv ==
    /\ TypeOK /\ PoolInv /\ NoAccountWithoutToken /\ OneTokenPerAgent
    /\ TrailInv /\ GapShows /\ LogsAgree

(* Every request is answered, however small the pool: nobody waits for a    *)
(* connection while holding one.                                            *)
RequestAnswered == \A r \in Requests : req[r].pc # "idle" ~> req[r].pc = "done"
=============================================================================
