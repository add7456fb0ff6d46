----------------------------- MODULE Connections ----------------------------
(***************************************************************************)
(* Stored connections and their sealed secrets (connections.py, crypto.py, *)
(* the connection endpoints of api.py) and the calls that use them: a      *)
(* worker resolving what a workspace declares, the connection test, and    *)
(* the credential proxy (proxy.py).                                        *)
(*                                                                         *)
(* A user of a connection reads the readable columns and the sealed secret *)
(* by two statements, and a patch reads, merges and writes by two.  Keys   *)
(* come from the environment of the process, so changing them restarts it. *)
(***************************************************************************)
EXTENDS Integers, FiniteSets

CONSTANTS
    Names,         \* connection names
    Hosts,         \* upstreams a connection may name
    Blocked,       \* hosts in a private or reserved range
    TypeOf,        \* per host, the type of the connection that names it
    InjectOf,      \* per host, how the credential is put into a request
    Tiers,         \* tiers in use
    Scopes,        \* sets of workspaces a connection may be for
    Workspaces,
    Secrets,       \* values of a secret
    Keyrings,      \* the environments the process is started with
    Grants,        \* the names in the agent's proxy_grants
    AgentTier,     \* max_tier of the agent's account
    Calls,         \* requests in progress, one each
    MaxRedirects   \* MAX_REDIRECTS

ConstantsOK ==
    /\ Blocked \subseteq Hosts
    /\ MaxRedirects \in Nat
    /\ \A k \in Keyrings : k.current \in Nat /\ k.ids \subseteq Nat

ASSUME ConstantsAssumption == ConstantsOK

VARIABLES
    rows,   \* the connections table
    ring,   \* the keys of the environment and the one to seal with
    call,   \* per call: step and what it has read
    last    \* history: the secret last stored under each name

connectionsVars == <<rows, ring, call, last>>

NoSecret == "nosecret"
NoHost == "nohost"
NoBlob == [kid |-> 0, with |-> 0, name |-> "noname", value |-> NoSecret]
Confs == [tier : Tiers, scope : Scopes, host : Hosts]
NoConf == [tier |-> 0, scope |-> {}, host |-> NoHost]
Absent == [conf |-> NoConf, blob |-> NoBlob, tested |-> "absent"]
NoCall == [pc |-> "idle", name |-> "noname", conf |-> NoConf, give |-> "keep",
           hop |-> 0, to |-> NoHost, auth |-> FALSE]

ConnectionsInit ==
    /\ rows = [n \in Names |-> Absent]
    /\ ring \in Keyrings
    /\ call = [p \in Calls |-> NoCall]
    /\ last = [n \in Names |-> NoSecret]

Exists(n) == rows[n] # Absent
Becomes(p, r) == call' = [call EXCEPT ![p] = r]
Done(p) == Becomes(p, NoCall)

-----------------------------------------------------------------------------
(* crypto.py *)

(* available *)
Available == ring.current \in ring.ids

(* Variant: the blob is marked with the current id, sealed with the oldest. *)
SealOldest(n, v) ==
    [kid |-> ring.current, name |-> n, value |-> v,
     with |-> CHOOSE k \in ring.ids : \A i \in ring.ids : k <= i]

(* seal: the id of the key in front, the name as associated data. *)
Seal(n, v) == [kid |-> ring.current, with |-> ring.current, name |-> n, value |-> v]

(* open_: the key the blob names is there, is the right one, and the name. *)
Opens(n, b) == b.kid \in ring.ids /\ b.with = b.kid /\ b.name = n

-----------------------------------------------------------------------------
(* The store. *)

(* validate: an upstream where the type needs one, targets where scoped. *)
Valid(c) == c \in Confs /\ c.scope # {}

(* create_connection: a secret is sealed before the row is inserted, and    *)
(* refused where it cannot be.                                              *)
Create(n, c, v) ==
    /\ ~Exists(n) /\ Valid(c)
    /\ v # NoSecret => Available
    /\ rows' = [rows EXCEPT ![n] = [conf |-> c, tested |-> "never",
                                    blob |-> IF v = NoSecret THEN NoBlob ELSE Seal(n, v)]]
    /\ last' = [last EXCEPT ![n] = v]
    /\ UNCHANGED <<ring, call>>

Delete(n) ==
    /\ Exists(n)
    /\ rows' = [rows EXCEPT ![n] = Absent]
    /\ last' = [last EXCEPT ![n] = NoSecret]
    /\ UNCHANGED <<ring, call>>

(* update_connection: reads the row, merges the columns of the body; "give" *)
(* is the secret of the body, or that there is none in it.                  *)
PatchRead(p, n, c, give) ==
    /\ call[p].pc = "idle" /\ Exists(n)
    /\ Valid(c)
    /\ give # "keep" => Available
    /\ \/ c = rows[n].conf
       \/ \E h \in Hosts : c = [rows[n].conf EXCEPT !.host = h]
       \/ \E t \in Tiers : c = [rows[n].conf EXCEPT !.tier = t]
       \/ \E s \in Scopes : c = [rows[n].conf EXCEPT !.scope = s]
    /\ Becomes(p, [NoCall EXCEPT !.pc = "write", !.name = n, !.conf = c,
                                 !.give = give])
    /\ UNCHANGED <<rows, ring, last>>

(* Variant: a body without a secret is taken for one that clears it. *)
PatchedBlobCleared(x) ==
    IF x.give \in {"keep", NoSecret} THEN NoBlob ELSE Seal(x.name, x.give)

(* ... `secret = secret` when the body had none. *)
PatchedBlob(x) ==
    CASE x.give = "keep"   -> rows[x.name].blob
      [] x.give = NoSecret -> NoBlob
      [] OTHER             -> Seal(x.name, x.give)

(* The UPDATE writes every readable column, to whichever row has the name. *)
PatchWrite(p) ==
    LET x == call[p]
    IN  /\ x.pc = "write"
        /\ IF Exists(x.name)
           THEN /\ rows' = [rows EXCEPT ![x.name].conf = x.conf,
                                        ![x.name].blob = PatchedBlob(x)]
                /\ last' = [last EXCEPT ![x.name] = IF x.give = "keep" THEN @ ELSE x.give]
           ELSE UNCHANGED <<rows, last>>
        /\ Done(p)
        /\ UNCHANGED ring

-----------------------------------------------------------------------------
(* Its users.  resolve, test and proxy_request begin with the columns ...   *)

UseRead(p, n, next) ==
    /\ call[p].pc = "idle" /\ Exists(n)
    /\ Becomes(p, [NoCall EXCEPT !.pc = next, !.name = n, !.conf = rows[n].conf])
    /\ UNCHANGED <<rows, ring, last>>

(* matches_scope *)
Resolve(p, n, w) == w \in rows[n].conf.scope /\ UseRead(p, n, "resolve")

(* Only some types have a test. *)
Testable == {"database", "http", "file"}
Test(p, n) == Exists(n) /\ TypeOf[rows[n].conf.host] \in Testable /\ UseRead(p, n, "test")

(* check_proxy_access: an agent with the grant, of an account of the tier. *)
Proxy(p, n) ==
    /\ Exists(n) /\ TypeOf[rows[n].conf.host] = "http"
    /\ n \in Grants /\ AgentTier >= rows[n].conf.tier
    /\ UseRead(p, n, "proxy")

(* ... and read the secret (_sealed) by a statement of its own.  A row that *)
(* is gone by then looks like one without a secret.                         *)
Sealed(n) == rows[n].blob
Readable(n) == Sealed(n) = NoBlob \/ Opens(n, Sealed(n))

(* The worker hands the child what it has read; a failure fails the job. *)
ResolveSecret(p) ==
    /\ call[p].pc = "resolve"
    /\ Done(p)
    /\ UNCHANGED <<rows, ring, last>>

TestSecret(p) ==
    /\ call[p].pc = "test"
    /\ IF Readable(call[p].name)
       THEN Becomes(p, [call[p] EXCEPT !.pc = "testing"])
       ELSE Done(p)
    /\ UNCHANGED <<rows, ring, last>>

(* The outcome, a timeout too, is written to the row that has the name now. *)
TestRecord(p, ok) ==
    LET n == call[p].name
    IN  /\ call[p].pc = "testing"
        /\ rows' = IF Exists(n) THEN [rows EXCEPT ![n].tested = ok] ELSE rows
        /\ Done(p)
        /\ UNCHANGED <<ring, last>>

(* inject_auth: without a rule nothing is added, and basic credentials may  *)
(* be empty; the other rules fail where the secret is missing.              *)
Lacking(c, b) == InjectOf[c.host] \notin {"none", "basic"} /\ b = NoBlob

(* validate_upstream_url refuses a blocked address; then the first request. *)
ProxySecret(p) ==
    LET x == call[p]
        b == Sealed(x.name)
    IN  /\ x.pc = "proxy"
        /\ IF Readable(x.name) /\ x.conf.host \notin Blocked /\ ~Lacking(x.conf, b)
           THEN Becomes(p, [x EXCEPT !.pc = "hop", !.to = x.conf.host,
                                     !.auth = b # NoBlob /\ InjectOf[x.conf.host] # "none"])
           ELSE Done(p)
        /\ UNCHANGED <<rows, ring, last>>

(* Variant: the headers of the first request are sent again. *)
AuthAfterKept(x) == InjectOf[x.conf.host] # "query_param" /\ x.auth

(* _strip_auth drops Authorization and the query goes too; a credential in  *)
(* a header of another name stays.                                          *)
AuthAfter(x) == InjectOf[x.conf.host] = "header" /\ x.auth

(* Variant: one redirect too many. *)
MayFollowOneMore(x) == x.hop <= MaxRedirects

(* for hop in range(MAX_REDIRECTS + 1) *)
MayFollow(x) == x.hop < MaxRedirects

(* A redirect: another host, its address checked. *)
ProxyRedirect(p, h) ==
    LET x == call[p]
    IN  /\ x.pc = "hop"
        /\ IF h \notin Blocked /\ MayFollow(x)
           THEN Becomes(p, [x EXCEPT !.hop = @ + 1, !.to = h, !.auth = AuthAfter(x)])
           ELSE Done(p)
        /\ UNCHANGED <<rows, ring, last>>

(* An answer, or a failure or timeout of the upstream. *)
ProxyEnd(p) ==
    /\ call[p].pc = "hop"
    /\ Done(p)
    /\ UNCHANGED <<rows, ring, last>>

(* The server is restarted with other keys; calls in progress are cut. *)
Restart(k) ==
    /\ k \in Keyrings \ {ring}
    /\ ring' = k
    /\ call' = [p \in Calls |-> NoCall]
    /\ UNCHANGED <<rows, last>>

-----------------------------------------------------------------------------
CallStep(p) ==
    \/ PatchWrite(p) \/ ResolveSecret(p) \/ TestSecret(p) \/ ProxySecret(p)
    \/ \E ok \in {"ok", "failed"} : TestRecord(p, ok)
    \/ ProxyEnd(p)
    \/ \E h \in Hosts : ProxyRedirect(p, h)

ConnectionsNext ==
    \/ \E n \in Names : Delete(n)
    \/ \E n \in Names, c \in Confs, v \in Secrets \cup {NoSecret} : Create(n, c, v)
    \/ \E p \in Calls, n \in Names :
          \/ \E c \in Confs, g \in Secrets \cup {NoSecret, "keep"} : PatchRead(p, n, c, g)
          \/ \E w \in Workspaces : Resolve(p, n, w)
          \/ Test(p, n) \/ Proxy(p, n)
    \/ \E p \in Calls : CallStep(p)
    \/ \E k \in Keyrings : Restart(k)

ConnectionsSpec == ConnectionsInit /\ [][ConnectionsNext]_connectionsVars

-----------------------------------------------------------------------------
Ids == UNION {k.ids \cup {k.current} : k \in Keyrings}
Blobs == [kid : Ids, with : Ids, name : Names, value : Secrets]

RowType == [conf : Confs, blob : Blobs \cup {NoBlob}, tested : {"never", "ok", "failed"}]
CallType ==
    [pc : {"idle", "write", "resolve", "test", "testing", "proxy", "hop"},
     name : Names \cup {"noname"}, conf : Confs \cup {NoConf},
     give : Secrets \cup {NoSecret, "keep"}, hop : 0..MaxRedirects,
     to : Hosts \cup {NoHost}, auth : BOOLEAN]

(* Rows, calls and the key ring have their types; a call that has begun has *)
(* read a row, and counts redirects only as it follows them.                *)
ConnectionsTypeOK ==
    /\ rows \in [Names -> RowType \cup {Absent}]
    /\ ring \in Keyrings
    /\ call \in [Calls -> CallType]
    /\ \A p \in Calls : /\ call[p].pc # "idle" => call[p].name \in Names /\ call[p].conf \in Confs
                        /\ call[p].pc # "hop" => call[p].hop = 0
    /\ last \in [Names -> Secrets \cup {NoSecret}]

(* The secret under a name is the one of the last request that set it: no   *)
(* overlapping patch without a secret, and no test, brings an older one     *)
(* back or takes it away ("can never be part of a read-modify-write").      *)
SecretIsLastWritten == \A n \in Names : rows[n].blob.value = last[n]

(* Whatever the keys were when it was sealed, a stored secret opens under   *)
(* its row's name as long as the key it names is still configured.          *)
StoredSecretOpens ==
    \A n \in Names : rows[n].blob # NoBlob =>
        /\ Opens(n, rows[n].blob) <=> rows[n].blob.kid \in ring.ids
        /\ rows[n].blob.with = rows[n].blob.kid /\ rows[n].blob.name = n

(* What holds in every state: the types with the limit on redirects, and    *)
(* stored secrets open.                                                     *)
ConnectionsInv == ConnectionsTypeOK /\ StoredSecretOpens

(* A credential in the Authorization header or in the query reaches only    *)
(* the host the connection names, wherever the upstream redirects.          *)
CredentialStaysHome ==
    \A p \in Calls :
        call[p].pc = "hop" /\ call[p].auth /\ InjectOf[call[p].conf.host] # "header" =>
            call[p].hop = 0 /\ call[p].to = call[p].conf.host

=============================================================================
