------------------------------- MODULE OAuth --------------------------------
(***************************************************************************)
(* The OAuth authorization server (oauth.py) and the account switches that *)
(* act on what it issued (api.py).                                         *)
(*                                                                         *)
(* An authorization code or a refresh token is spent under a row lock      *)
(* (SELECT ... FOR UPDATE) that lasts until the transaction ends; the      *)
(* statement that revokes a family takes its snapshot first and then waits *)
(* for the rows of it that are locked.  Rows of a transaction are visible  *)
(* to others from its commit.  A call that is refused changes nothing, so  *)
(* only the refusals of calls that may have waited are steps of their own. *)
(* Module Gate has the password check, the browser sessions and the        *)
(* requests that use a token.                                              *)
(***************************************************************************)
EXTENDS Integers, Sequences, FiniteSets

CONSTANTS
    Clients,       \* OAuth clients
    Confidential,  \* those that register with a secret
    UrisOf,        \* per client, the redirect URIs it asks to register
    ValidUris,     \* the https and loopback ones, without a fragment
    Accounts,      \* service accounts
    Calls,         \* requests in progress, one each
    MaxCodes, MaxTokens  \* bounds on the rows of the two tables

ASSUME ConfidentialAssumption == Confidential \subseteq Clients
ASSUME BoundsAssumption == MaxCodes \in Nat /\ MaxTokens \in Nat

VARIABLES
    registered,  \* oauth_clients
    disabled,    \* the accounts with service_accounts.disabled
    codes,       \* oauth_codes, committed rows
    tokens,      \* oauth_tokens, committed rows
    call         \* per call: step, operands, rows its sweep answers for and visits

vars == <<registered, disabled, codes, tokens, call>>

NoClient == "noclient"
NoAccount == "noaccount"
Sources == {"code", "refresh"}
NoCall == [pc |-> "idle", src |-> "code", id |-> 0, client |-> NoClient,
           account |-> NoAccount, seen |-> {}, snap |-> {}]

Init ==
    /\ registered = {}
    /\ disabled = {}
    /\ codes = <<>>
    /\ tokens = <<>>
    /\ call = [p \in Calls |-> NoCall]

Move(p, r) == call' = [call EXCEPT ![p] = r]
Done(p) == Move(p, NoCall)

-----------------------------------------------------------------------------
(* register: every redirect URI must be acceptable, and there must be one. *)
Register(c) ==
    /\ c \notin registered
    /\ UrisOf[c] # {} /\ UrisOf[c] \subseteq ValidUris
    /\ registered' = registered \cup {c}
    /\ UNCHANGED <<disabled, codes, tokens, call>>

(* _authenticate_client: a client with a secret must present it. *)
Authenticated(c, secret) == c \in registered /\ (c \in Confidential => secret)

(* _redirect_uri: one of the registered, or left out when there is one. *)
Redirects(c, u) ==
    IF u = "omitted" THEN Cardinality(UrisOf[c]) = 1 ELSE u \in UrisOf[c]

(* authorize_submit: the hidden fields are checked again, then the          *)
(* password; "fits" says that PKCE challenge and resource are acceptable.   *)
Consent(p, c, a, u, fits) ==
    /\ call[p].pc = "idle"
    /\ c \in registered /\ Redirects(c, u) /\ fits
    /\ a \notin disabled
    /\ Len(codes) + Cardinality({q \in Calls : call[q].pc = "consented"}) < MaxCodes
    /\ Move(p, [NoCall EXCEPT !.pc = "consented", !.client = c, !.account = a])
    /\ UNCHANGED <<registered, disabled, codes, tokens>>

(* ... and the code is stored by a later statement. *)
StoreCode(p) ==
    /\ call[p].pc = "consented"
    /\ codes' = Append(codes, [client |-> call[p].client, account |-> call[p].account,
                               used |-> FALSE])
    /\ Done(p)
    /\ UNCHANGED <<registered, disabled, tokens>>

Row(kind, c, a, src, id, root) ==
    [kind |-> kind, client |-> c, account |-> a, src |-> src, id |-> id, root |-> root,
     revoked |-> FALSE, rotated |-> FALSE]

-----------------------------------------------------------------------------
(* The token endpoint. *)

(* token: the client is authenticated before the row is looked at. *)
Present(p, c, secret, src, id) ==
    /\ call[p].pc = "idle"
    /\ Authenticated(c, secret)
    /\ src = "code" => id \in 1..Len(codes)
    /\ src = "refresh" => id \in 1..Len(tokens) /\ tokens[id].kind = "refresh"
    /\ Move(p, [NoCall EXCEPT !.pc = "presented", !.src = src, !.id = id,
                              !.client = c])
    /\ UNCHANGED <<registered, disabled, codes, tokens>>

(* Variant: the row is read without FOR UPDATE. *)
FreeUnlocked(src, id) == TRUE

(* The row is not locked by a transaction in progress. *)
Free(src, id) ==
    \A q \in Calls : ~(call[q].pc = "minting" /\ call[q].src = src /\ call[q].id = id)

RowOf(r) == IF r.src = "code" THEN codes[r.id] ELSE tokens[r.id]
Spent(r) == IF r.src = "code" THEN codes[r.id].used ELSE tokens[r.id].rotated
Void(r) == r.src = "refresh" /\ tokens[r.id].revoked

(* The order of the checks in _exchange_code_txn and _rotate_refresh_txn:   *)
(* a spent row is a replay before anything else about it is looked at.      *)
(* "fits" says that the row has not expired and that redirect URI, PKCE     *)
(* verifier and resource match it.                                          *)
Verdict(r, fits) ==
    CASE RowOf(r).client # r.client       -> "refused"
      [] Spent(r)                         -> "replay"
      [] Void(r) \/ ~fits                 -> "refused"
      [] RowOf(r).account \in disabled    -> "refused"
      [] OTHER                            -> "granted"

(* Rolled back: used_at, written before the account is looked at, too. *)
Refuse(p, fits) ==
    /\ call[p].pc = "presented" /\ Free(call[p].src, call[p].id)
    /\ Verdict(call[p], fits) = "refused"
    /\ Done(p)
    /\ UNCHANGED <<registered, disabled, codes, tokens>>

(* The transaction now holds the row and has inserted the new pair. *)
Grant(p, fits) ==
    /\ call[p].pc = "presented" /\ Free(call[p].src, call[p].id)
    /\ Verdict(call[p], fits) = "granted"
    /\ Move(p, [call[p] EXCEPT !.pc = "minting", !.account = RowOf(call[p]).account])
    /\ UNCHANGED <<registered, disabled, codes, tokens>>

(* Variant: the pair does not name what it was minted from. *)
PairUnnamed(r) ==
    <<Row("access", r.client, r.account, r.src, Len(tokens) + 1, 0),
      Row("refresh", r.client, r.account, r.src, Len(tokens) + 1, 0)>>

(* _mint: an access and a refresh token in one statement. *)
Pair(r) ==
    LET root == IF r.src = "code" THEN r.id ELSE tokens[r.id].root
    IN  <<Row("access", r.client, r.account, r.src, r.id, root),
          Row("refresh", r.client, r.account, r.src, r.id, root)>>

(* Variant: the rotated token is linked to its successor but stays good. *)
SpendTokenKept(id) == [tokens EXCEPT ![id].rotated = TRUE]

SpendToken(id) == [tokens EXCEPT ![id].rotated = TRUE, ![id].revoked = TRUE]

Commit(p) ==
    /\ call[p].pc = "minting"
    /\ Len(tokens) + 2 <= MaxTokens
    /\ \/ /\ call[p].src = "code"
          /\ codes' = [codes EXCEPT ![call[p].id].used = TRUE]
          /\ tokens' = tokens \o Pair(call[p])
       \/ /\ call[p].src = "refresh"
          /\ tokens' = SpendToken(call[p].id) \o Pair(call[p])
          /\ UNCHANGED codes
    /\ Done(p)
    /\ UNCHANGED <<registered, disabled>>

(* The connection is lost before the commit: the database rolls back. *)
Abort(p) ==
    /\ call[p].pc = "minting"
    /\ Done(p)
    /\ UNCHANGED <<registered, disabled, codes, tokens>>

-----------------------------------------------------------------------------
(* Revoking. *)

(* What a sweep is for: one client's tokens of the account, or all of them. *)
Family(c, a) ==
    {t \in 1..Len(tokens) : /\ tokens[t].account = a
                            /\ c = NoClient \/ tokens[t].client = c
                            /\ ~tokens[t].revoked}

(* _Reuse leaves the transaction, which rolls back, before the family is    *)
(* revoked by a statement of its own.                                       *)
Replay(p, fits) ==
    /\ call[p].pc = "presented" /\ Free(call[p].src, call[p].id)
    /\ Verdict(call[p], fits) = "replay"
    /\ LET a == RowOf(call[p]).account
       IN  Move(p, [NoCall EXCEPT !.pc = "sweep", !.client = call[p].client,
                                  !.account = a, !.seen = Family(call[p].client, a)])
    /\ UNCHANGED <<registered, disabled, codes, tokens>>

(* revoke_grants: every token and session of the account, for an admin. *)
SignOutEverywhere(p, a) ==
    /\ call[p].pc = "idle"
    /\ Move(p, [NoCall EXCEPT !.pc = "sweep", !.account = a, !.seen = Family(NoClient, a)])
    /\ UNCHANGED <<registered, disabled, codes, tokens>>

(* Variant: the statement of the family looks at access tokens only. *)
SnapshotAccess(p) ==
    /\ call[p].pc = "sweep"
    /\ Move(p, [call[p] EXCEPT !.pc = "sweeping",
            !.snap = {t \in Family(call[p].client, call[p].account) :
                          tokens[t].kind = "access"}])
    /\ UNCHANGED <<registered, disabled, codes, tokens>>

(* The UPDATE begins: it will visit the rows visible now. *)
Snapshot(p) ==
    /\ call[p].pc = "sweep"
    /\ Move(p, [call[p] EXCEPT !.pc = "sweeping",
                               !.snap = Family(call[p].client, call[p].account)])
    /\ UNCHANGED <<registered, disabled, codes, tokens>>

(* ... and ends once no row it visits is locked by another transaction. *)
Sweep(p) ==
    /\ call[p].pc = "sweeping"
    /\ \A t \in call[p].snap : Free("refresh", t)
    /\ tokens' = [t \in 1..Len(tokens) |->
                     [tokens[t] EXCEPT !.revoked = @ \/ t \in call[p].snap]]
    /\ Done(p)
    /\ UNCHANGED <<registered, disabled, codes>>

(* revoke: only a row of the presenting client, after whoever has it locked. *)
Revoke(c, secret, t) ==
    /\ Authenticated(c, secret)
    /\ t \in 1..Len(tokens) /\ tokens[t].client = c /\ ~tokens[t].revoked
    /\ Free("refresh", t)
    /\ tokens' = [tokens EXCEPT ![t].revoked = TRUE]
    /\ UNCHANGED <<registered, disabled, codes, call>>

(* update_account with the switch; a disabled account is looked at by every *)
(* grant, but a grant that has looked may still commit.                     *)
Switch(a) ==
    /\ disabled' = IF a \in disabled THEN disabled \ {a} ELSE disabled \cup {a}
    /\ UNCHANGED <<registered, codes, tokens, call>>

-----------------------------------------------------------------------------
Next ==
    \/ \E c \in Clients : Register(c)
    \/ \E p \in Calls :
          \/ \E c \in Clients, a \in Accounts, u \in {"omitted"} \cup ValidUris, ok \in BOOLEAN :
                 Consent(p, c, a, u, ok)
          \/ \E c \in Clients, s \in BOOLEAN :
                 \/ \E k \in 1..Len(codes) : Present(p, c, s, "code", k)
                 \/ \E t \in 1..Len(tokens) : Present(p, c, s, "refresh", t)
          \/ \E a \in Accounts : SignOutEverywhere(p, a)
          \/ StoreCode(p)
          \/ \E ok \in BOOLEAN : Refuse(p, ok) \/ Grant(p, ok) \/ Replay(p, ok)
          \/ Commit(p) \/ Abort(p)
          \/ Snapshot(p) \/ Sweep(p)
    \/ \E c \in Clients, s \in BOOLEAN, t \in 1..Len(tokens) : Revoke(c, s, t)
    \/ \E a \in Accounts : Switch(a)

Spec == Init /\ [][Next]_vars

-----------------------------------------------------------------------------
CodeRow == [client : Clients, account : Accounts, used : BOOLEAN]
TokenRow == [kind : {"access", "refresh"}, client : Clients, account : Accounts,
             src : Sources, id : Nat, root : Nat, revoked : BOOLEAN, rotated : BOOLEAN]
CallRow == [pc : {"idle", "consented", "presented", "minting", "sweep", "sweeping"},
            src : Sources, id : Nat, client : Clients \cup {NoClient},
            account : Accounts \cup {NoAccount}, seen : SUBSET Nat, snap : SUBSET Nat]

(* Tables and calls have their types. *)
TypeOK ==
    /\ registered \subseteq Clients
    /\ disabled \subseteq Accounts
    /\ codes \in Seq(CodeRow)
    /\ tokens \in Seq(TokenRow)
    /\ call \in [Calls -> CallRow]

(* The origin of a pair is a code or an older refresh token, and the pair   *)
(* descends from a code that was used.                                      *)
OriginInv ==
    \A t \in 1..Len(tokens) :
        /\ tokens[t].src = "code" => tokens[t].id \in 1..Len(codes)
        /\ tokens[t].src = "refresh" => tokens[t].id \in 1..t - 1
        /\ tokens[t].root \in 1..Len(codes)
        /\ codes[tokens[t].root].used

(* What a call may rely on at its step: the row it presents exists; the row *)
(* it holds while it mints is good and its own; a sweep has every token it  *)
(* must answer for in its snapshot, or somebody else has revoked it.        *)
CallOK(r) ==
    /\ r.pc = "consented" => r.client \in Clients /\ r.account \in Accounts
    /\ r.pc \in {"presented", "minting"} =>
           /\ r.src = "code" => r.id \in 1..Len(codes)
           /\ r.src = "refresh" => r.id \in 1..Len(tokens) /\ tokens[r.id].kind = "refresh"
    /\ r.pc = "minting" =>
           /\ RowOf(r).client = r.client /\ RowOf(r).account = r.account
           /\ ~Spent(r) /\ ~Void(r)
    /\ r.pc = "sweep" =>
           \A t \in r.seen : /\ t \in 1..Len(tokens) /\ tokens[t].account = r.account
                             /\ r.client = NoClient \/ tokens[t].client = r.client
    /\ r.pc = "sweeping" =>
           /\ r.snap \subseteq 1..Len(tokens)
           /\ \A t \in r.seen : t \in 1..Len(tokens) /\ (t \in r.snap \/ tokens[t].revoked)

(* ... and no two transactions hold the same row. *)
LockInv ==
    /\ \A p \in Calls : CallOK(call[p])
    /\ \A p, q \in Calls :
          /\ call[p].pc = "minting" /\ call[q].pc = "minting"
          /\ call[p].src = call[q].src /\ call[p].id = call[q].id
          => p = q

Successors(kind, src, id) ==
    {t \in 1..Len(tokens) : tokens[t].kind = kind /\ tokens[t].src = src /\ tokens[t].id = id}

(* A code, and a refresh token, yields exactly one pair, and is marked used *)
(* if and only if the pair exists: not two for two simultaneous exchanges,  *)
(* and no code burnt by an exchange that was rolled back.                   *)
SpentForOnePair ==
    /\ \A k \in 1..Len(codes) : \A kind \in {"access", "refresh"} :
           Cardinality(Successors(kind, "code", k)) = IF codes[k].used THEN 1 ELSE 0
    /\ \A t \in 1..Len(tokens) : tokens[t].kind = "refresh" =>
           \A kind \in {"access", "refresh"} :
               Cardinality(Successors(kind, "refresh", t)) = IF tokens[t].rotated THEN 1 ELSE 0

Heads(k) ==
    {t \in 1..Len(tokens) : /\ tokens[t].kind = "refresh" /\ tokens[t].root = k
                            /\ ~tokens[t].revoked}

(* However often one consent was exchanged, rotated, replayed and revoked,  *)
(* at most one refresh token descending from it still works.                *)
OneHead == \A k \in 1..Len(codes) : Cardinality(Heads(k)) <= 1

(* What holds of tables and calls in every state: the types, every pair     *)
(* younger than its origin, rows in the hands of one transaction, and one   *)
(* working refresh token per consent.                                       *)
OAuthInv == TypeOK /\ OriginInv /\ LockInv /\ OneHead

(* When a replay, or a sign-out everywhere, has been answered, every token  *)
(* of the family that was there when it was recognised is revoked, also one *)
(* that a rotation held at that moment.                                     *)
SweepIsComplete ==
    [][\A p \in Calls : call[p].pc = "sweeping" /\ call'[p].pc = "idle" =>
           \A t \in call[p].seen : tokens'[t].revoked]_vars

(* No pair is minted from a refresh token that was revoked by then, nor     *)
(* for a client other than the one the token or the code was issued to; and *)
(* what is revoked stays so.                                                *)
DeadBreedNothing ==
    [][/\ \A t \in 1..Len(tokens) : tokens[t].revoked => tokens'[t].revoked
       /\ \A t \in Len(tokens) + 1 .. Len(tokens') :
              /\ tokens'[t].src = "refresh" =>
                    /\ ~tokens[tokens'[t].id].revoked
                    /\ tokens'[t].client = tokens[tokens'[t].id].client
              /\ tokens'[t].src = "code" => tokens'[t].client = codes[tokens'[t].id].client]_vars

=============================================================================
