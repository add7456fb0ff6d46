---------------------------- MODULE OAuthProofs -----------------------------
(***************************************************************************)
(* OAuth for any number of clients, accounts, calls, codes and tokens: a   *)
(* code or a refresh token yields one pair, one refresh token per consent  *)
(* works, a sweep is complete and nothing comes of a revoked token.        *)
(***************************************************************************)
EXTENDS OAuth, FiniteSetTheorems, SequenceTheorems, TLAPS

USE BoundsAssumption

(* The two invariants of the run; together they are inductive. *)
IndInv == OAuthInv /\ SpentForOnePair

(* Sets of token numbers are finite. *)
LEMMA FiniteTokens ==
  ASSUME TypeOK
  PROVE  /\ Len(tokens) \in Nat
         /\ \A S \in SUBSET (1..Len(tokens)) : IsFiniteSet(S)
<1>1. Len(tokens) \in Nat
  BY LenProperties DEF TypeOK
<1>2. IsFiniteSet(1..Len(tokens))
  BY <1>1, FS_Interval
<1> QED
  BY <1>1, <1>2, FS_Subset

(* The empty set of tokens, and a set of one. *)
LEMMA Counts ==
  ASSUME NEW S, IsFiniteSet(S)
  PROVE  /\ Cardinality(S) \in Nat
         /\ Cardinality(S) = 0 <=> S = {}
         /\ Cardinality(S) = 1 <=> \E x : S = {x}
  BY FS_CardinalityType, FS_EmptySet, FS_Singleton

(* Rows of the tables have their types. *)
LEMMA RowTypes ==
  ASSUME TypeOK
  PROVE  /\ Len(codes) \in Nat /\ Len(tokens) \in Nat
         /\ \A k \in 1..Len(codes) : codes[k] \in CodeRow
         /\ \A t \in 1..Len(tokens) : tokens[t] \in TokenRow
         /\ \A p \in Calls : call[p] \in CallRow
  BY LenProperties, ElementOfSeq DEF TypeOK

(* Nothing is issued and no call is in progress. *)
LEMMA InitInd == Init => IndInv
<1> SUFFICES ASSUME Init PROVE IndInv
  OBVIOUS
<1>1. Len(codes) = 0 /\ Len(tokens) = 0
  BY DEF Init
<1>2. NoCall \in CallRow /\ NoCall.pc = "idle"
  BY DEF NoCall, CallRow, Sources
<1>3. TypeOK
  BY <1>2 DEF Init, TypeOK
<1>4. LockInv
  BY <1>2 DEF Init, LockInv, CallOK
<1>5. 1..Len(codes) = {} /\ 1..Len(tokens) = {}
  BY <1>1
<1> QED
  BY <1>3, <1>4, <1>5 DEF IndInv, OAuthInv, OriginInv, OneHead, SpentForOnePair

(* A call that is over is no call. *)
LEMMA NoCallOK == NoCall \in CallRow /\ NoCall.pc = "idle" /\ CallOK(NoCall)
<1>1. NoCall \in CallRow /\ NoCall.pc = "idle"
  BY DEF NoCall, CallRow, Sources
<1> QED
  BY <1>1 DEF CallOK

(* The parts of the invariant about the tables alone. *)
TablesOK == OriginInv /\ OneHead /\ SpentForOnePair

(* They hold as long as the tables are left alone. *)
LEMMA TablesFrame ==
  ASSUME IndInv, UNCHANGED <<codes, tokens>>
  PROVE  TablesOK'
<1> USE DEF IndInv, OAuthInv, TablesOK
<1>1. OriginInv'
  BY DEF OriginInv
<1>2. OneHead'
  <2>1. \A k : Heads(k)' = Heads(k)
    BY DEF Heads
  <2> QED
    BY <2>1 DEF OneHead
<1>3. SpentForOnePair'
  <2>1. \A kind, src, id : Successors(kind, src, id)' = Successors(kind, src, id)
    BY DEF Successors
  <2> QED
    BY <2>1 DEF SpentForOnePair
<1> QED
  BY <1>1, <1>2, <1>3

(* A step of a call that leaves codes and tokens alone. *)
LEMMA MoveInd ==
  ASSUME IndInv, NEW p \in Calls, NEW r \in CallRow, Move(p, r), CallOK(r),
         r.pc = "minting" => Free(r.src, r.id),
         UNCHANGED <<registered, disabled, codes, tokens>>
  PROVE  IndInv'
<1> USE DEF IndInv, OAuthInv
<1>1. \A q \in Calls : call'[q] = IF q = p THEN r ELSE call[q]
  BY DEF Move, TypeOK
<1>2. TypeOK'
  BY DEF TypeOK, Move
<1>3. LockInv'
  <2>1. \A q \in Calls : CallOK(call[q])'
    BY <1>1 DEF LockInv, CallOK, RowOf, Spent, Void
  <2>2. \A q \in Calls : r.pc = "minting" => ~(call[q].pc = "minting" /\ call[q].src = r.src
                                               /\ call[q].id = r.id)
    BY DEF Free
  <2> QED
    BY <1>1, <2>1, <2>2 DEF LockInv
<1>4. TablesOK'
  BY TablesFrame
<1> QED
  BY <1>2, <1>3, <1>4 DEF TablesOK

(* A call ends without a trace. *)
LEMMA DoneInd ==
  ASSUME IndInv, NEW p \in Calls, Done(p), UNCHANGED <<registered, disabled, codes, tokens>>
  PROVE  IndInv'
  BY NoCallOK, MoveInd DEF Done

-----------------------------------------------------------------------------
(* register and the switch of an account: no row or call is touched. *)
LEMMA SettingInd ==
  ASSUME IndInv, registered' \subseteq Clients, disabled' \subseteq Accounts,
         UNCHANGED <<codes, tokens, call>>
  PROVE  IndInv'
<1> USE DEF IndInv, OAuthInv
<1>1. TypeOK'
  BY DEF TypeOK
<1>2. LockInv'
  BY DEF LockInv, CallOK, RowOf, Spent, Void
<1> QED
  BY <1>1, <1>2, TablesFrame DEF TablesOK

(* authorize_submit and a sign-out everywhere begin with the account. *)
LEMMA BeginInd ==
  ASSUME IndInv, NEW p \in Calls, NEW a \in Accounts,
         \/ SignOutEverywhere(p, a)
         \/ \E c \in Clients, u \in {"omitted"} \cup ValidUris, ok \in BOOLEAN :
                Consent(p, c, a, u, ok)
  PROVE  IndInv'
<1>1. TypeOK /\ NoCall \in CallRow
  BY NoCallOK DEF IndInv, OAuthInv
<1>2. CASE SignOutEverywhere(p, a)
  <2> DEFINE F == Family(NoClient, a)
  <2>1. F \subseteq 1..Len(tokens) /\ \A t \in F : tokens[t].account = a
    BY DEF Family
  <2>2. F \in SUBSET Nat
    BY <2>1
  <2>3. ASSUME NEW z \in CallRow, z.client = NoClient,
               NEW r, r = [z EXCEPT !.pc = "sweep", !.account = a, !.seen = F]
        PROVE  /\ r \in CallRow /\ r.pc = "sweep" /\ r.account = a /\ r.seen = F
               /\ r.client = NoClient
    <3> HIDE DEF F
    <3> QED
      BY <2>2, <2>3 DEF CallRow
  <2> DEFINE r == [NoCall EXCEPT !.pc = "sweep", !.account = a, !.seen = F]
  <2>4. NoCall.client = NoClient
    BY DEF NoCall
  <2>5. /\ r \in CallRow /\ r.pc = "sweep" /\ r.account = a /\ r.seen = F
        /\ r.client = NoClient
    BY <1>1, <2>3, <2>4
  <2>6. Move(p, r) /\ UNCHANGED <<registered, disabled, codes, tokens>>
    BY <1>2 DEF SignOutEverywhere
  <2> HIDE DEF r, F
  <2>7. CallOK(r)
    BY <2>1, <2>5 DEF CallOK
  <2> QED
    BY <2>5, <2>6, <2>7, MoveInd
<1>3. ASSUME NEW c \in Clients, NEW u, NEW ok, Consent(p, c, a, u, ok)
      PROVE  IndInv'
  <2> DEFINE r == [NoCall EXCEPT !.pc = "consented", !.client = c, !.account = a]
  <2>1. ASSUME NEW z \in CallRow,
               NEW y, y = [z EXCEPT !.pc = "consented", !.client = c, !.account = a]
        PROVE  y \in CallRow /\ y.pc = "consented" /\ y.client = c /\ y.account = a
    BY <2>1 DEF CallRow
  <2>2. r \in CallRow /\ r.pc = "consented" /\ r.client = c /\ r.account = a
    BY <1>1, <2>1
  <2>3. Move(p, r) /\ UNCHANGED <<registered, disabled, codes, tokens>>
    BY <1>3 DEF Consent
  <2> HIDE DEF r
  <2>4. CallOK(r)
    BY <2>2 DEF CallOK
  <2> QED
    BY <2>2, <2>3, <2>4, MoveInd
<1> QED
  BY <1>2, <1>3

(* token: a code or a refresh token is presented. *)
LEMMA PresentInd ==
  ASSUME IndInv, NEW p \in Calls, NEW c \in Clients, NEW s, NEW src \in Sources,
         NEW id \in Nat, Present(p, c, s, src, id)
  PROVE  IndInv'
<1> DEFINE r == [NoCall EXCEPT !.pc = "presented", !.src = src, !.id = id, !.client = c]
<1>1. ASSUME NEW z \in CallRow,
             NEW y, y = [z EXCEPT !.pc = "presented", !.src = src, !.id = id, !.client = c]
      PROVE  y \in CallRow /\ y.pc = "presented" /\ y.src = src /\ y.id = id
  BY <1>1 DEF CallRow
<1>2. r \in CallRow /\ r.pc = "presented" /\ r.src = src /\ r.id = id
  BY <1>1, NoCallOK
<1>3. Move(p, r) /\ UNCHANGED <<registered, disabled, codes, tokens>>
  BY DEF Present
<1> HIDE DEF r
<1>4. CallOK(r)
  BY <1>2 DEF CallOK, Present
<1> QED
  BY <1>2, <1>3, <1>4, MoveInd

(* The row is locked and was good: one transaction has it from now on. *)
LEMMA GrantInd ==
  ASSUME IndInv, NEW p \in Calls, NEW ok \in BOOLEAN, Grant(p, ok)
  PROVE  IndInv'
<1> DEFINE x == call[p]
           a == RowOf(x).account
           r == [x EXCEPT !.pc = "minting", !.account = a]
<1>1. x \in CallRow /\ CallOK(x) /\ x.pc = "presented"
  BY RowTypes DEF Grant, IndInv, OAuthInv, LockInv
<1>2. RowOf(x).client = x.client /\ ~Spent(x) /\ ~Void(x)
  BY DEF Grant, Verdict
<1>3. RowOf(x) \in CodeRow \cup TokenRow
  BY <1>1, RowTypes DEF RowOf, CallOK, IndInv, OAuthInv, CallRow, Sources
<1>4. a \in Accounts
  BY <1>3 DEF CodeRow, TokenRow
<1>5. Move(p, r) /\ Free(x.src, x.id) /\ UNCHANGED <<registered, disabled, codes, tokens>>
  BY DEF Grant
<1>6. RowOf(x).account = a
  OBVIOUS
<1> HIDE DEF a, x
<1>7. r \in CallRow /\ r.pc = "minting" /\ r.account = a
      /\ r.src = x.src /\ r.id = x.id /\ r.client = x.client
  BY <1>1, <1>4 DEF CallRow
<1> HIDE DEF r
<1>8. CallOK(r)
  BY <1>1, <1>2, <1>6, <1>7 DEF CallOK, RowOf, Spent, Void
<1> QED
  BY <1>5, <1>7, <1>8, MoveInd

(* A replay is recognised: the sweep answers for the family of this moment. *)
LEMMA ReplayInd ==
  ASSUME IndInv, NEW p \in Calls, NEW ok \in BOOLEAN, Replay(p, ok)
  PROVE  IndInv'
<1> DEFINE x == call[p]
           c == x.client
           a == RowOf(x).account
           F == Family(c, a)
           r == [NoCall EXCEPT !.pc = "sweep", !.client = c, !.account = a, !.seen = F]
<1>1. x \in CallRow /\ CallOK(x) /\ x.pc = "presented"
  BY RowTypes DEF Replay, IndInv, OAuthInv, LockInv
<1>2. RowOf(x) \in CodeRow \cup TokenRow
  BY <1>1, RowTypes DEF RowOf, CallOK, IndInv, OAuthInv, CallRow, Sources
<1>3. a \in Accounts /\ c \in Clients \cup {NoClient}
  BY <1>1, <1>2 DEF CodeRow, TokenRow, CallRow
<1>4. Move(p, r) /\ UNCHANGED <<registered, disabled, codes, tokens>>
  BY DEF Replay
<1>5. /\ F \subseteq 1..Len(tokens)
      /\ \A t \in F : tokens[t].account = a /\ (c = NoClient \/ tokens[t].client = c)
  BY DEF Family
<1> HIDE DEF a, c, F
<1>6. ASSUME NEW z \in CallRow,
             NEW y, y = [z EXCEPT !.pc = "sweep", !.client = c, !.account = a, !.seen = F]
      PROVE  y \in CallRow /\ y.pc = "sweep" /\ y.client = c /\ y.account = a /\ y.seen = F
  <2>1. F \in SUBSET Nat
    BY <1>5
  <2> QED
    BY <1>3, <1>6, <2>1 DEF CallRow
<1>7. r \in CallRow /\ r.pc = "sweep" /\ r.client = c /\ r.account = a /\ r.seen = F
  BY <1>6, NoCallOK
<1> HIDE DEF r
<1>8. CallOK(r)
  BY <1>5, <1>7 DEF CallOK
<1> QED
  BY <1>4, <1>7, <1>8, MoveInd

(* The UPDATE takes its snapshot: what it must answer for is in it, or was   *)
(* revoked meanwhile.                                                       *)
LEMMA SnapshotInd ==
  ASSUME IndInv, NEW p \in Calls, Snapshot(p)
  PROVE  IndInv'
<1> DEFINE x == call[p]
           F == Family(x.client, x.account)
           r == [x EXCEPT !.pc = "sweeping", !.snap = F]
<1>1. x \in CallRow /\ CallOK(x) /\ x.pc = "sweep"
  BY RowTypes DEF Snapshot, IndInv, OAuthInv, LockInv
<1>2. Move(p, r) /\ UNCHANGED <<registered, disabled, codes, tokens>>
  BY DEF Snapshot
<1>3. F \subseteq 1..Len(tokens) /\ \A t \in x.seen : t \in 1..Len(tokens) /\ (t \in F \/ tokens[t].revoked)
  BY <1>1 DEF Family, CallOK
<1>4. F \in SUBSET Nat
  BY <1>3
<1> HIDE DEF x, F
<1>5. r \in CallRow /\ r.pc = "sweeping" /\ r.snap = F /\ r.seen = x.seen
  BY <1>1, <1>4 DEF CallRow
<1> HIDE DEF r
<1>6. CallOK(r)
  BY <1>3, <1>5 DEF CallOK
<1> QED
  BY <1>2, <1>5, <1>6, MoveInd

-----------------------------------------------------------------------------
(* Some tokens become revoked that no transaction holds, and at most a call  *)
(* ends with it.                                                            *)
LEMMA RevokedInd ==
  ASSUME IndInv, NEW R, \A t \in R : Free("refresh", t),
         tokens' \in Seq(TokenRow), Len(tokens') = Len(tokens),
         \A t \in 1..Len(tokens) :
             /\ tokens'[t].kind = tokens[t].kind /\ tokens'[t].client = tokens[t].client
             /\ tokens'[t].account = tokens[t].account /\ tokens'[t].src = tokens[t].src
             /\ tokens'[t].id = tokens[t].id /\ tokens'[t].root = tokens[t].root
             /\ tokens'[t].rotated = tokens[t].rotated
             /\ tokens'[t].revoked <=> (tokens[t].revoked \/ t \in R),
         UNCHANGED <<registered, disabled, codes>>,
         UNCHANGED call \/ \E p \in Calls : Done(p)
  PROVE  IndInv'
<1> USE DEF IndInv, OAuthInv
<1>1. \A q \in Calls : call'[q] = call[q] \/ call'[q] = NoCall
  BY DEF TypeOK, Done, Move
<1>2. TypeOK'
  BY NoCallOK DEF TypeOK, Done, Move
<1>3. LockInv'
  <2>1. ASSUME NEW q \in Calls PROVE CallOK(call[q])'
    <3>1. CASE call'[q] = NoCall
      BY <3>1, NoCallOK DEF CallOK
    <3>2. CASE call'[q] = call[q]
      <4>1. CallOK(call[q])
        BY DEF LockInv
      <4>2. call[q].pc = "minting" /\ call[q].src = "refresh" => call[q].id \notin R
        BY DEF Free
      <4>3. call[q].pc = "minting" => CallOK(call[q])'
        <5> SUFFICES ASSUME call[q].pc = "minting" PROVE CallOK(call[q])'
          OBVIOUS
        <5>1. call[q].src \in Sources
          BY RowTypes DEF CallRow
        <5>2. CASE call[q].src = "code"
          BY <3>2, <4>1, <5>2 DEF CallOK, RowOf, Spent, Void
        <5>3. CASE call[q].src = "refresh"
          BY <3>2, <4>1, <4>2, <5>3 DEF CallOK, RowOf, Spent, Void
        <5> QED
          BY <5>1, <5>2, <5>3 DEF Sources
      <4>4. call[q].pc # "minting" => CallOK(call[q])'
        BY <3>2, <4>1 DEF CallOK
      <4> QED
        BY <4>3, <4>4
    <3> QED
      BY <1>1, <3>1, <3>2
  <2>2. NoCall.pc # "minting"
    BY NoCallOK
  <2> QED
    BY <1>1, <2>1, <2>2 DEF LockInv
<1>4. OriginInv'
  BY DEF OriginInv
<1>5. OneHead'
  <2> SUFFICES ASSUME NEW k \in 1..Len(codes)
               PROVE  Cardinality(Heads(k)') <= 1
    BY DEF OneHead
  <2>1. Heads(k)' \subseteq Heads(k) /\ Heads(k) \subseteq 1..Len(tokens)
    BY DEF Heads
  <2>2. IsFiniteSet(Heads(k)) /\ Cardinality(Heads(k)) <= 1
    BY <2>1, FiniteTokens DEF OneHead
  <2>3. Cardinality(Heads(k)') <= Cardinality(Heads(k)) /\ IsFiniteSet(Heads(k)')
    BY <2>1, <2>2, FS_Subset
  <2> QED
    BY <2>2, <2>3, FS_CardinalityType
<1>6. SpentForOnePair'
  <2>1. \A kind, src, id : Successors(kind, src, id)' = Successors(kind, src, id)
    BY DEF Successors
  <2> QED
    BY <2>1 DEF SpentForOnePair
<1> QED
  BY <1>2, <1>3, <1>4, <1>5, <1>6

(* The UPDATE of a sweep. *)
LEMMA SweepInd ==
  ASSUME IndInv, NEW p \in Calls, Sweep(p)
  PROVE  /\ IndInv'
         /\ Len(tokens') = Len(tokens)
         /\ \A t \in 1..Len(tokens) : tokens'[t].revoked <=> (tokens[t].revoked \/ t \in call[p].snap)
<1> DEFINE n == Len(tokens)
           R == call[p].snap
           E(t) == [tokens[t] EXCEPT !.revoked = tokens[t].revoked \/ t \in R]
<1>1. TypeOK /\ n \in Nat /\ \A t \in 1..n : tokens[t] \in TokenRow
  BY RowTypes DEF IndInv, OAuthInv
<1>2. \A t \in 1..n :
         /\ E(t) \in TokenRow
         /\ E(t).kind = tokens[t].kind /\ E(t).client = tokens[t].client
         /\ E(t).account = tokens[t].account /\ E(t).src = tokens[t].src
         /\ E(t).id = tokens[t].id /\ E(t).root = tokens[t].root
         /\ E(t).rotated = tokens[t].rotated
         /\ E(t).revoked <=> (tokens[t].revoked \/ t \in R)
  BY <1>1 DEF TokenRow
<1>3. tokens' = [t \in 1..n |-> E(t)]
  BY DEF Sweep
<1> HIDE DEF E, n
<1>4. /\ tokens' \in Seq(TokenRow) /\ Len(tokens') = n
      /\ \A t \in 1..n : tokens'[t] = E(t)
  BY <1>1, <1>2, <1>3
<1>5. \A t \in R : Free("refresh", t)
  BY DEF Sweep
<1>6. Done(p) /\ UNCHANGED <<registered, disabled, codes>>
  BY DEF Sweep
<1> HIDE DEF R
<1>7. IndInv'
  BY <1>2, <1>4, <1>5, <1>6, RevokedInd, ZenonT(60) DEF n
<1> QED
  BY <1>2, <1>4, <1>7 DEF n, R

(* revoke. *)
LEMMA RevokeInd ==
  ASSUME IndInv, NEW c, NEW s, NEW t \in 1..Len(tokens), Revoke(c, s, t)
  PROVE  /\ IndInv'
         /\ Len(tokens') = Len(tokens)
         /\ \A u \in 1..Len(tokens) : tokens'[u].revoked <=> (tokens[u].revoked \/ u = t)
<1> DEFINE n == Len(tokens)
           e == [tokens[t] EXCEPT !.revoked = TRUE]
<1>1. TypeOK /\ n \in Nat /\ tokens[t] \in TokenRow /\ tokens \in Seq(TokenRow)
  BY RowTypes DEF IndInv, OAuthInv, TypeOK
<1>2. /\ e \in TokenRow
      /\ e.kind = tokens[t].kind /\ e.client = tokens[t].client
      /\ e.account = tokens[t].account /\ e.src = tokens[t].src
      /\ e.id = tokens[t].id /\ e.root = tokens[t].root
      /\ e.rotated = tokens[t].rotated /\ e.revoked = TRUE
  BY <1>1 DEF TokenRow
<1>3. tokens' = [tokens EXCEPT ![t] = e] /\ Free("refresh", t)
      /\ UNCHANGED <<registered, disabled, codes, call>>
  BY DEF Revoke
<1> HIDE DEF e
<1>4. /\ tokens' \in Seq(TokenRow) /\ Len(tokens') = n
      /\ \A j \in 1..n : tokens'[j] = IF j = t THEN e ELSE tokens[j]
  BY <1>1, <1>2, <1>3, ExceptSeq
<1> DEFINE R == {t}
<1>5. \A u \in 1..n :
             /\ tokens'[u].kind = tokens[u].kind /\ tokens'[u].client = tokens[u].client
             /\ tokens'[u].account = tokens[u].account /\ tokens'[u].src = tokens[u].src
             /\ tokens'[u].id = tokens[u].id /\ tokens'[u].root = tokens[u].root
             /\ tokens'[u].rotated = tokens[u].rotated
             /\ tokens'[u].revoked <=> (tokens[u].revoked \/ u \in R)
  BY <1>2, <1>4
<1>6. \A u \in R : Free("refresh", u)
  BY <1>3
<1> HIDE DEF R
<1>7. IndInv'
  BY <1>3, <1>4, <1>5, <1>6, RevokedInd
<1> QED
  BY <1>4, <1>5, <1>7 DEF R

(* A code is stored: it is unused, and nothing descends from it yet. *)
LEMMA StoreCodeInd ==
  ASSUME IndInv, NEW p \in Calls, StoreCode(p)
  PROVE  IndInv'
<1> USE DEF IndInv, OAuthInv
<1> DEFINE x == call[p]
           m == Len(codes)
           e == [client |-> x.client, account |-> x.account, used |-> FALSE]
<1>1. x \in CallRow /\ CallOK(x) /\ x.pc = "consented" /\ m \in Nat /\ codes \in Seq(CodeRow)
  BY RowTypes DEF StoreCode, LockInv, TypeOK
<1>2. e \in CodeRow /\ e.used = FALSE
  BY <1>1 DEF CodeRow, CallOK
<1>3. codes' = Append(codes, e) /\ Done(p) /\ UNCHANGED <<registered, disabled, tokens>>
  BY DEF StoreCode
<1> HIDE DEF e, x
<1>4. /\ codes' \in Seq(CodeRow) /\ Len(codes') = m + 1
      /\ codes'[m + 1] = e /\ \A k \in 1..m : codes'[k] = codes[k]
  BY <1>1, <1>2, <1>3, AppendProperties
<1> HIDE DEF m
<1>5. \A q \in Calls : call'[q] = IF q = p THEN NoCall ELSE call[q]
  BY <1>3 DEF TypeOK, Done, Move
<1>6. TypeOK'
  BY <1>3, <1>4, NoCallOK DEF TypeOK, Done, Move
<1>7. LockInv'
  <2>1. ASSUME NEW q \in Calls PROVE CallOK(call[q])'
    <3>1. CASE q = p
      BY <1>5, <3>1, NoCallOK DEF CallOK
    <3>2. CASE q # p
      <4>1. CallOK(call[q]) /\ call'[q] = call[q]
        BY <1>5, <3>2 DEF LockInv
      <4> QED
        BY <1>1, <1>3, <1>4, <4>1 DEF CallOK, RowOf, Spent, Void, m
    <3> QED
      BY <3>1, <3>2
  <2> QED
    BY <1>5, <2>1, NoCallOK DEF LockInv
<1>8. OriginInv'
  BY <1>1, <1>3, <1>4 DEF OriginInv, m
<1>9. \A k \in 1..Len(codes') : Heads(k)' = Heads(k)
  BY <1>3 DEF Heads
<1>10. OneHead'
  <2>1. Heads(m + 1) = {}
    BY <1>1 DEF Heads, OriginInv, m
  <2>2. Cardinality(Heads(m + 1)) = 0
    BY <2>1, FS_EmptySet
  <2> QED
    BY <1>1, <1>4, <1>9, <2>2 DEF OneHead, m
<1>11. \A kind, src, id : Successors(kind, src, id)' = Successors(kind, src, id)
  BY <1>3 DEF Successors
<1>12. SpentForOnePair'
  <2>1. \A kind : Successors(kind, "code", m + 1) = {}
    BY <1>1 DEF Successors, OriginInv, m
  <2>2. \A kind : Cardinality(Successors(kind, "code", m + 1)) = 0
    BY <2>1, FS_EmptySet
  <2> QED
    BY <1>1, <1>2, <1>3, <1>4, <1>11, <2>2 DEF SpentForOnePair, m
<1> QED
  BY <1>6, <1>7, <1>8, <1>10, <1>12

-----------------------------------------------------------------------------
(* What a commit does to the tables: the origin r is spent, and two rows    *)
(* that name it and its root come after the others.                         *)
Minted(r, root) ==
    /\ tokens' \in Seq(TokenRow) /\ Len(tokens') = Len(tokens) + 2
    /\ \A t \in 1..Len(tokens) :
          /\ tokens'[t].kind = tokens[t].kind /\ tokens'[t].client = tokens[t].client
          /\ tokens'[t].account = tokens[t].account /\ tokens'[t].src = tokens[t].src
          /\ tokens'[t].id = tokens[t].id /\ tokens'[t].root = tokens[t].root
          /\ tokens'[t].rotated <=> (tokens[t].rotated \/ (r.src = "refresh" /\ t = r.id))
          /\ tokens'[t].revoked <=> (tokens[t].revoked \/ (r.src = "refresh" /\ t = r.id))
    /\ \A t \in {Len(tokens) + 1, Len(tokens) + 2} :
          /\ tokens'[t].client = r.client /\ tokens'[t].account = r.account
          /\ tokens'[t].src = r.src /\ tokens'[t].id = r.id /\ tokens'[t].root = root
          /\ ~tokens'[t].revoked /\ ~tokens'[t].rotated
          /\ tokens'[t].kind = IF t = Len(tokens) + 1 THEN "access" ELSE "refresh"
    /\ codes' \in Seq(CodeRow) /\ Len(codes') = Len(codes)
    /\ \A k \in 1..Len(codes) :
          /\ codes'[k].client = codes[k].client /\ codes'[k].account = codes[k].account
          /\ codes'[k].used <=> (codes[k].used \/ (r.src = "code" /\ k = r.id))

(* Two rows appended to a table of tokens. *)
LEMMA AppendPair ==
  ASSUME NEW base \in Seq(TokenRow), NEW A \in TokenRow, NEW B \in TokenRow
  PROVE  LET all == base \o <<A, B>>
             n == Len(base)
         IN  /\ all \in Seq(TokenRow) /\ Len(all) = n + 2 /\ n \in Nat
             /\ \A t \in 1..n : all[t] = base[t]
             /\ all[n + 1] = A /\ all[n + 2] = B
<1> DEFINE S == <<A, B>>
<1>1. S \in Seq(TokenRow) /\ Len(S) = 2 /\ S[1] = A /\ S[2] = B
  OBVIOUS
<1>2. Len(base) \in Nat
  BY LenProperties
<1> HIDE DEF S
<1>3. /\ base \o S \in Seq(TokenRow) /\ Len(base \o S) = Len(base) + 2
      /\ \A i \in 1..Len(base) + 2 :
            (base \o S)[i] = IF i <= Len(base) THEN base[i] ELSE S[i - Len(base)]
  <2>1. /\ base \o S \in Seq(TokenRow) /\ Len(base \o S) = Len(base) + Len(S)
        /\ \A i \in 1..Len(base) + Len(S) :
              (base \o S)[i] = IF i <= Len(base) THEN base[i] ELSE S[i - Len(base)]
    BY <1>1, ConcatProperties, Zenon
  <2> QED
    BY <1>1, <2>1
<1> DEFINE T == base \o S
<1>4. T \in Seq(TokenRow) /\ Len(T) = Len(base) + 2 /\ \A t \in 1..Len(base) : T[t] = base[t]
  BY <1>2, <1>3
<1>5. T[Len(base) + 1] = A /\ T[Len(base) + 2] = B
  BY <1>1, <1>2, <1>3
<1> QED
  BY <1>2, <1>4, <1>5 DEF S

(* A new row has its type and the fields it was given. *)
LEMMA RowFields ==
  ASSUME NEW kind \in {"access", "refresh"}, NEW c \in Clients, NEW a \in Accounts,
         NEW src \in Sources, NEW id \in Nat, NEW root \in Nat
  PROVE  LET w == Row(kind, c, a, src, id, root)
         IN  /\ w \in TokenRow /\ w.kind = kind /\ w.client = c /\ w.account = a
             /\ w.src = src /\ w.id = id /\ w.root = root /\ ~w.revoked /\ ~w.rotated
  BY DEF Row, TokenRow

(* The commit of an exchange or of a rotation is of that shape. *)
LEMMA CommitMints ==
  ASSUME IndInv, NEW p \in Calls, Commit(p)
  PROVE  /\ Minted(call[p], IF call[p].src = "code" THEN call[p].id ELSE tokens[call[p].id].root)
         /\ call[p] \in CallRow /\ CallOK(call[p]) /\ call[p].pc = "minting"
         /\ Done(p) /\ UNCHANGED <<registered, disabled>>
<1> DEFINE r == call[p]
           root == IF r.src = "code" THEN r.id ELSE tokens[r.id].root
           A == Row("access", r.client, r.account, r.src, r.id, root)
           B == Row("refresh", r.client, r.account, r.src, r.id, root)
<1>1. TypeOK /\ r \in CallRow /\ CallOK(r) /\ r.pc = "minting" /\ Done(p)
      /\ UNCHANGED <<registered, disabled>>
  BY RowTypes DEF Commit, IndInv, OAuthInv, LockInv
<1>2. RowOf(r) \in CodeRow \cup TokenRow
  BY <1>1, RowTypes DEF RowOf, CallOK, CallRow, Sources
<1>3. r.client \in Clients /\ r.account \in Accounts /\ r.src \in Sources /\ r.id \in Nat
  BY <1>1, <1>2 DEF CodeRow, TokenRow, CallOK, CallRow
<1>4. root \in Nat
  BY <1>1, <1>3, RowTypes DEF CallOK, TokenRow, Sources
<1>5. Pair(r) = <<A, B>>
  BY DEF Pair
<1>6. /\ A \in TokenRow /\ A.kind = "access" /\ A.client = r.client /\ A.account = r.account
      /\ A.src = r.src /\ A.id = r.id /\ A.root = root /\ ~A.revoked /\ ~A.rotated
      /\ B \in TokenRow /\ B.kind = "refresh" /\ B.client = r.client /\ B.account = r.account
      /\ B.src = r.src /\ B.id = r.id /\ B.root = root /\ ~B.revoked /\ ~B.rotated
  <2> HIDE DEF root
  <2> QED
    BY <1>3, <1>4, RowFields
<1> HIDE DEF A, B
<1>7. tokens \in Seq(TokenRow) /\ codes \in Seq(CodeRow) /\ Len(tokens) \in Nat
  BY <1>1, RowTypes DEF TypeOK
<1>8. CASE r.src = "code"
  <2>1. r.id \in 1..Len(codes) /\ codes[r.id] \in CodeRow
    BY <1>1, <1>8, RowTypes DEF CallOK
  <2> DEFINE e == [codes[r.id] EXCEPT !.used = TRUE]
  <2>2. e \in CodeRow /\ e.client = codes[r.id].client /\ e.account = codes[r.id].account /\ e.used
    BY <2>1 DEF CodeRow
  <2>3. codes' = [codes EXCEPT ![r.id] = e] /\ tokens' = tokens \o <<A, B>>
    BY <1>5, <1>8 DEF Commit
  <2> HIDE DEF e
  <2>4. /\ codes' \in Seq(CodeRow) /\ Len(codes') = Len(codes)
        /\ \A k \in 1..Len(codes) : codes'[k] = IF k = r.id THEN e ELSE codes[k]
    BY <1>7, <2>1, <2>2, <2>3, ExceptSeq
  <2>5. /\ tokens' \in Seq(TokenRow) /\ Len(tokens') = Len(tokens) + 2
        /\ \A t \in 1..Len(tokens) : tokens'[t] = tokens[t]
        /\ tokens'[Len(tokens) + 1] = A /\ tokens'[Len(tokens) + 2] = B
    BY <1>6, <1>7, <2>3, AppendPair
  <2> HIDE DEF root, r
  <2>6. Minted(r, root)
    BY <1>6, <1>7, <1>8, <2>2, <2>4, <2>5 DEF Minted
  <2> QED
    BY <1>1, <2>6 DEF r, root
<1>9. CASE r.src = "refresh"
  <2>1. r.id \in 1..Len(tokens) /\ tokens[r.id] \in TokenRow
    BY <1>1, <1>9, RowTypes DEF CallOK
  <2> DEFINE e == [tokens[r.id] EXCEPT !.rotated = TRUE, !.revoked = TRUE]
             base == [tokens EXCEPT ![r.id] = e]
  <2>2. /\ e \in TokenRow
        /\ e.kind = tokens[r.id].kind /\ e.client = tokens[r.id].client
        /\ e.account = tokens[r.id].account /\ e.src = tokens[r.id].src
        /\ e.id = tokens[r.id].id /\ e.root = tokens[r.id].root /\ e.rotated /\ e.revoked
    BY <2>1 DEF TokenRow
  <2>3. SpendToken(r.id) = base
    BY <1>7, <2>1 DEF SpendToken
  <2>4. tokens' = base \o <<A, B>> /\ codes' = codes
    BY <1>5, <1>9, <2>3 DEF Commit
  <2> HIDE DEF e
  <2>5. /\ base \in Seq(TokenRow) /\ Len(base) = Len(tokens)
        /\ \A t \in 1..Len(tokens) : base[t] = IF t = r.id THEN e ELSE tokens[t]
    BY <1>7, <2>1, <2>2, ExceptSeq
  <2> HIDE DEF base
  <2>6. /\ tokens' \in Seq(TokenRow) /\ Len(tokens') = Len(tokens) + 2
        /\ \A t \in 1..Len(tokens) : tokens'[t] = IF t = r.id THEN e ELSE tokens[t]
        /\ tokens'[Len(tokens) + 1] = A /\ tokens'[Len(tokens) + 2] = B
    BY <1>6, <2>4, <2>5, AppendPair
  <2> HIDE DEF root, r
  <2>7. Minted(r, root)
    BY <1>6, <1>7, <1>9, <2>2, <2>4, <2>6, SMTT(30) DEF Minted
  <2> QED
    BY <1>1, <2>7 DEF r, root
<1> QED
  BY <1>3, <1>8, <1>9 DEF Sources

(* A commit keeps what the other calls rely on: none holds the row it spends. *)
LEMMA MintedLocks ==
  ASSUME IndInv, NEW p \in Calls, NEW root, Minted(call[p], root), call[p].pc = "minting",
         Done(p)
  PROVE  LockInv'
<1> USE DEF IndInv, OAuthInv
<1> DEFINE r == call[p]
           n == Len(tokens)
<1>1. \A q \in Calls : call'[q] = IF q = p THEN NoCall ELSE call[q]
  BY DEF TypeOK, Done, Move
<1>2. n \in Nat /\ Len(tokens') = n + 2 /\ Len(codes') = Len(codes)
  BY RowTypes DEF Minted
<1>3. ASSUME NEW q \in Calls PROVE CallOK(call[q])'
  <2>1. CASE q = p
    BY <1>1, <2>1, NoCallOK DEF CallOK
  <2>2. CASE q # p
    <3> DEFINE x == call[q]
    <3>1. CallOK(x) /\ x.src \in Sources /\ call'[q] = x
      BY <1>1, <2>2, RowTypes DEF LockInv, CallRow
    <3>2. x.pc = "minting" => ~(x.src = r.src /\ x.id = r.id)
      BY <2>2 DEF LockInv
    <3>3. CASE x.pc = "minting"
      <4>1. CASE x.src = "code"
        <5>1. x.id \in 1..Len(codes) /\ codes[x.id].client = x.client /\ codes[x.id].account = x.account
              /\ ~codes[x.id].used
          BY <3>1, <3>3, <4>1 DEF CallOK, RowOf, Spent
        <5>2. codes'[x.id].client = x.client /\ codes'[x.id].account = x.account
              /\ ~codes'[x.id].used
          BY <3>2, <3>3, <4>1, <5>1 DEF Minted
        <5> HIDE DEF x
        <5> QED
          BY <1>2, <3>1, <3>3, <4>1, <5>1, <5>2 DEF CallOK, RowOf, Spent, Void
      <4>2. CASE x.src = "refresh"
        <5>1. x.id \in 1..n /\ tokens[x.id].client = x.client /\ tokens[x.id].account = x.account
              /\ ~tokens[x.id].rotated /\ ~tokens[x.id].revoked /\ tokens[x.id].kind = "refresh"
          BY <3>1, <3>3, <4>2 DEF CallOK, RowOf, Spent, Void
        <5>2. tokens'[x.id].client = x.client /\ tokens'[x.id].account = x.account
              /\ ~tokens'[x.id].rotated /\ ~tokens'[x.id].revoked /\ tokens'[x.id].kind = "refresh"
          BY <3>2, <3>3, <4>2, <5>1 DEF Minted
        <5> HIDE DEF x
        <5> QED
          BY <1>2, <3>1, <3>3, <4>2, <5>1, <5>2 DEF CallOK, RowOf, Spent, Void
      <4> QED
        BY <3>1, <4>1, <4>2 DEF Sources
    <3>4. CASE x.pc # "minting"
      BY <1>2, <3>1, <3>4 DEF CallOK, Minted
    <3> QED
      BY <3>3, <3>4
  <2> QED
    BY <2>1, <2>2
<1> QED
  BY <1>1, <1>3, NoCallOK DEF LockInv

(* The sets of heads and of successors after a commit. *)
LEMMA MintedSets ==
  ASSUME TypeOK, NEW r, NEW root, Minted(r, root)
  PROVE  /\ \A k : Heads(k)' = {t \in Heads(k) : ~(r.src = "refresh" /\ t = r.id)}
                                \cup (IF k = root THEN {Len(tokens) + 2} ELSE {})
         /\ \A kind, src, id : ~(src = r.src /\ id = r.id) =>
               Successors(kind, src, id)' = Successors(kind, src, id)
         /\ \A src, id : src = r.src /\ id = r.id =>
               /\ Successors("access", src, id)' = Successors("access", src, id) \cup {Len(tokens) + 1}
               /\ Successors("refresh", src, id)' = Successors("refresh", src, id) \cup {Len(tokens) + 2}
<1> DEFINE n == Len(tokens)
<1>1. n \in Nat /\ Len(tokens') = n + 2
  BY RowTypes DEF Minted
<1>2. 1..Len(tokens') = 1..n \cup {n + 1, n + 2}
  BY <1>1
<1>3. ASSUME NEW k
      PROVE  Heads(k)' = {t \in Heads(k) : ~(r.src = "refresh" /\ t = r.id)}
                          \cup (IF k = root THEN {n + 2} ELSE {})
  BY <1>1, <1>2 DEF Heads, Minted
<1>4. ASSUME NEW src, NEW id, ~(src = r.src /\ id = r.id), NEW kind
      PROVE  Successors(kind, src, id)' = Successors(kind, src, id)
  BY <1>1, <1>2, <1>4 DEF Successors, Minted
<1>5. Successors("access", r.src, r.id)' = Successors("access", r.src, r.id) \cup {n + 1}
  BY <1>1, <1>2 DEF Successors, Minted
<1>6. Successors("refresh", r.src, r.id)' = Successors("refresh", r.src, r.id) \cup {n + 2}
  BY <1>1, <1>2 DEF Successors, Minted
<1> QED
  BY <1>3, <1>4, <1>5, <1>6

(* Commit: the row was good and is spent by one pair, which is the only one  *)
(* of its consent that works.                                               *)
LEMMA CommitInd ==
  ASSUME IndInv, NEW p \in Calls, Commit(p)
  PROVE  IndInv'
<1> USE DEF IndInv, OAuthInv
<1> DEFINE r == call[p]
           n == Len(tokens)
           root == IF r.src = "code" THEN r.id ELSE tokens[r.id].root
<1>1. /\ Minted(r, root) /\ r \in CallRow /\ CallOK(r) /\ r.pc = "minting"
      /\ Done(p) /\ UNCHANGED <<registered, disabled>>
  BY CommitMints
<1>2. TypeOK'
  BY <1>1, NoCallOK DEF TypeOK, Minted, Done, Move
<1>3. LockInv'
  <2> HIDE DEF root
  <2> QED
    BY <1>1, MintedLocks
<1>4. /\ r.src \in Sources /\ n \in Nat /\ Len(tokens') = n + 2 /\ Len(codes') = Len(codes)
      /\ Len(codes) \in Nat
      /\ r.src = "code" => r.id \in 1..Len(codes) /\ ~codes[r.id].used
      /\ r.src = "refresh" => /\ r.id \in 1..n /\ tokens[r.id].kind = "refresh"
                              /\ ~tokens[r.id].revoked /\ ~tokens[r.id].rotated
  BY <1>1, RowTypes DEF CallRow, CallOK, Minted, Spent, Void
<1>5. /\ root \in 1..Len(codes) /\ codes'[root].used
  BY <1>1, <1>4 DEF OriginInv, Minted, Sources
<1>6. /\ r.src = "code" => root = r.id
      /\ r.src = "refresh" => root = tokens[r.id].root
  BY <1>4 DEF Sources
<1> HIDE DEF root, r
<1>7. OriginInv'
  <2>1. \A t \in 1..n : /\ tokens[t].src = "code" => tokens[t].id \in 1..Len(codes)
                        /\ tokens[t].src = "refresh" => tokens[t].id \in 1..t - 1
                        /\ tokens[t].root \in 1..Len(codes) /\ codes[tokens[t].root].used
    BY DEF OriginInv
  <2>2. \A t \in 1..n : /\ tokens'[t].src = "code" => tokens'[t].id \in 1..Len(codes')
                        /\ tokens'[t].src = "refresh" => tokens'[t].id \in 1..t - 1
                        /\ tokens'[t].root \in 1..Len(codes') /\ codes'[tokens'[t].root].used
    <3>1. \A t \in 1..n : /\ tokens'[t].src = tokens[t].src /\ tokens'[t].id = tokens[t].id
                          /\ tokens'[t].root = tokens[t].root
      BY <1>1 DEF Minted
    <3>2. \A k \in 1..Len(codes) : codes[k].used => codes'[k].used
      BY <1>1 DEF Minted
    <3> QED
      BY <1>4, <2>1, <3>1, <3>2
  <2>3. \A t \in {n + 1, n + 2} :
                        /\ tokens'[t].src = "code" => tokens'[t].id \in 1..Len(codes')
                        /\ tokens'[t].src = "refresh" => tokens'[t].id \in 1..t - 1
                        /\ tokens'[t].root \in 1..Len(codes') /\ codes'[tokens'[t].root].used
    BY <1>1, <1>4, <1>5 DEF Minted
  <2>4. 1..Len(tokens') = 1..n \cup {n + 1, n + 2}
    BY <1>4
  <2> QED
    BY <2>2, <2>3, <2>4 DEF OriginInv
<1>8. OneHead'
  <2> SUFFICES ASSUME NEW k \in 1..Len(codes) PROVE Cardinality(Heads(k)') <= 1
    BY <1>4 DEF OneHead
  <2>1. Heads(k)' = {t \in Heads(k) : ~(r.src = "refresh" /\ t = r.id)}
                     \cup (IF k = root THEN {n + 2} ELSE {})
    BY <1>1, MintedSets
  <2>2. Heads(k) \subseteq 1..n
    BY DEF Heads
  <2>3. IsFiniteSet(Heads(k)) /\ Cardinality(Heads(k)) <= 1 /\ Cardinality(Heads(k)) \in Nat
    BY <2>2, FiniteTokens, FS_CardinalityType DEF OneHead
  <2>4. CASE k # root
    <3>1. Heads(k)' \subseteq Heads(k)
      BY <2>1, <2>4
    <3>2. Cardinality(Heads(k)') <= Cardinality(Heads(k)) /\ IsFiniteSet(Heads(k)')
      BY <2>3, <3>1, FS_Subset
    <3> QED
      BY <2>3, <3>2, FS_CardinalityType
  <2>5. CASE k = root
    <3>1. {t \in Heads(k) : ~(r.src = "refresh" /\ t = r.id)} = {}
      <4>1. CASE r.src = "code"
        BY <1>4, <1>6, <2>5, <4>1 DEF Heads, OriginInv
      <4>2. CASE r.src = "refresh"
        <5>1. r.id \in Heads(k)
          BY <1>4, <1>6, <2>5, <4>2 DEF Heads
        <5>2. Cardinality(Heads(k)) = 1
          BY <2>3, <5>1, Counts
        <5>3. \E x : Heads(k) = {x}
          BY <2>3, <5>2, Counts
        <5> QED
          BY <4>2, <5>1, <5>3
      <4> QED
        BY <1>4, <4>1, <4>2 DEF Sources
    <3>2. Heads(k)' = {n + 2}
      BY <2>1, <2>5, <3>1
    <3> QED
      <4>1. Cardinality({n + 2}) = 1
        BY FS_Singleton
      <4> QED
        BY <3>2, <4>1
  <2> QED
    BY <2>4, <2>5
<1>9. SpentForOnePair'
  <2>1. \A kind, src, id : /\ Successors(kind, src, id) \subseteq 1..n
                           /\ IsFiniteSet(Successors(kind, src, id))
    BY FiniteTokens DEF Successors
  <2>2. ASSUME NEW kind \in {"access", "refresh"}, NEW src, NEW id, src = r.src, id = r.id,
               Cardinality(Successors(kind, src, id)) = 0
        PROVE  Cardinality(Successors(kind, src, id)') = 1
    <3>1. Successors(kind, src, id) = {}
      BY <2>1, <2>2, Counts
    <3>2. \/ Successors(kind, src, id)' = Successors(kind, src, id) \cup {n + 1}
          \/ Successors(kind, src, id)' = Successors(kind, src, id) \cup {n + 2}
      BY <1>1, <2>2, MintedSets
    <3>3. Successors(kind, src, id)' = {n + 1} \/ Successors(kind, src, id)' = {n + 2}
      BY <3>1, <3>2
    <3> QED
      BY <3>3, FS_Singleton
  <2>3. ASSUME NEW kind, NEW src, NEW id, ~(src = r.src /\ id = r.id)
        PROVE  Successors(kind, src, id)' = Successors(kind, src, id)
    <3>1. Minted(r, root) /\ TypeOK
      BY <1>1
    <3> QED
      BY <2>3, <3>1, MintedSets
  <2>4. ASSUME NEW k \in 1..Len(codes), NEW kind \in {"access", "refresh"}
        PROVE  Cardinality(Successors(kind, "code", k)') = IF codes'[k].used THEN 1 ELSE 0
    <3>1. Cardinality(Successors(kind, "code", k)) = IF codes[k].used THEN 1 ELSE 0
      BY DEF SpentForOnePair
    <3>2. CASE r.src = "code" /\ r.id = k
      <4>1. codes'[k].used /\ ~codes[k].used
        BY <1>1, <1>4, <3>2 DEF Minted
      <4> QED
        BY <2>2, <3>1, <3>2, <4>1
    <3>3. CASE ~(r.src = "code" /\ r.id = k)
      <4>1. codes'[k].used <=> codes[k].used
        BY <1>1, <3>3 DEF Minted
      <4>2. Successors(kind, "code", k)' = Successors(kind, "code", k)
        BY <2>3, <3>3
      <4> QED
        BY <3>1, <4>1, <4>2
    <3> QED
      BY <3>2, <3>3
  <2>5. ASSUME NEW t \in 1..n, tokens[t].kind = "refresh", NEW kind \in {"access", "refresh"}
        PROVE  Cardinality(Successors(kind, "refresh", t)') = IF tokens'[t].rotated THEN 1 ELSE 0
    <3>1. Cardinality(Successors(kind, "refresh", t)) = IF tokens[t].rotated THEN 1 ELSE 0
      BY <2>5 DEF SpentForOnePair
    <3>2. CASE r.src = "refresh" /\ r.id = t
      <4>1. tokens'[t].rotated /\ ~tokens[t].rotated
        BY <1>1, <1>4, <3>2 DEF Minted
      <4> QED
        BY <2>2, <3>1, <3>2, <4>1
    <3>3. CASE ~(r.src = "refresh" /\ r.id = t)
      <4>1. tokens'[t].rotated <=> tokens[t].rotated
        BY <1>1, <3>3 DEF Minted
      <4>2. Successors(kind, "refresh", t)' = Successors(kind, "refresh", t)
        BY <2>3, <3>3
      <4> QED
        BY <3>1, <4>1, <4>2
    <3> QED
      BY <3>2, <3>3
  <2>6. ASSUME NEW t \in {n + 1, n + 2}, NEW kind \in {"access", "refresh"}
        PROVE  Cardinality(Successors(kind, "refresh", t)') = IF tokens'[t].rotated THEN 1 ELSE 0
    <3>1. Successors(kind, "refresh", t) = {}
      BY <1>4 DEF Successors, OriginInv
    <3>2. ~(r.src = "refresh" /\ r.id = t)
      BY <1>4
    <3>3. Successors(kind, "refresh", t)' = {}
      BY <2>3, <3>1, <3>2
    <3>4. ~tokens'[t].rotated
      BY <1>1 DEF Minted
    <3> QED
      BY <3>3, <3>4, FS_EmptySet
  <2>7. \A t \in 1..n : tokens'[t].kind = tokens[t].kind
    BY <1>1 DEF Minted
  <2>8. 1..Len(tokens') = 1..n \cup {n + 1, n + 2} /\ 1..Len(codes') = 1..Len(codes)
    BY <1>4
  <2>9. \A t \in 1..Len(tokens') : tokens'[t].kind = "refresh" => \A kind \in {"access", "refresh"} :
           Cardinality(Successors(kind, "refresh", t)') = IF tokens'[t].rotated THEN 1 ELSE 0
    BY <2>5, <2>6, <2>7, <2>8
  <2> QED
    BY <2>4, <2>8, <2>9 DEF SpentForOnePair
<1> QED
  BY <1>2, <1>3, <1>7, <1>8, <1>9

-----------------------------------------------------------------------------
(* Every step preserves the invariant. *)
LEMMA NextInd == IndInv /\ [Next]_vars => IndInv'
<1> SUFFICES ASSUME IndInv, [Next]_vars PROVE IndInv'
  OBVIOUS
<1>1. ASSUME NEW c \in Clients, Register(c) PROVE IndInv'
  BY <1>1, SettingInd DEF Register, IndInv, OAuthInv, TypeOK
<1>2. ASSUME NEW a \in Accounts, Switch(a) PROVE IndInv'
  BY <1>2, SettingInd DEF Switch, IndInv, OAuthInv, TypeOK
<1>3. ASSUME NEW p \in Calls, NEW c \in Clients, NEW s \in BOOLEAN,
             \/ \E k \in 1..Len(codes) : Present(p, c, s, "code", k)
             \/ \E t \in 1..Len(tokens) : Present(p, c, s, "refresh", t)
      PROVE  IndInv'
  BY <1>3, PresentInd DEF Sources
<1>4. ASSUME NEW p \in Calls, NEW ok \in BOOLEAN, Refuse(p, ok) \/ Grant(p, ok) \/ Replay(p, ok)
      PROVE  IndInv'
  BY <1>4, DoneInd, GrantInd, ReplayInd DEF Refuse
<1>5. ASSUME NEW p \in Calls, StoreCode(p) \/ Commit(p) \/ Abort(p) \/ Snapshot(p) \/ Sweep(p)
      PROVE  IndInv'
  BY <1>5, StoreCodeInd, CommitInd, DoneInd, SnapshotInd, SweepInd DEF Abort
<1>6. ASSUME NEW c \in Clients, NEW s \in BOOLEAN, NEW t \in 1..Len(tokens), Revoke(c, s, t)
      PROVE  IndInv'
  BY <1>6, RevokeInd
<1>7. ASSUME NEW p \in Calls, NEW a \in Accounts,
             \/ SignOutEverywhere(p, a)
             \/ \E c \in Clients, u \in {"omitted"} \cup ValidUris, ok \in BOOLEAN :
                    Consent(p, c, a, u, ok)
      PROVE  IndInv'
  BY <1>7, BeginInd
<1>8. CASE UNCHANGED vars
  BY <1>8, SettingInd DEF vars, IndInv, OAuthInv, TypeOK
<1> QED
  BY <1>1, <1>2, <1>3, <1>4, <1>5, <1>6, <1>7, <1>8 DEF Next

(* oauth.py: for any number of clients, codes, tokens and overlapping calls, *)
(* no two transactions hold a row, every pair descends from a used code,    *)
(* and at most one refresh token of a consent works.                        *)
THEOREM Invariance == Spec => []OAuthInv
<1>1. IndInv => OAuthInv
  BY DEF IndInv
<1> QED
  BY InitInd, NextInd, <1>1, PTL DEF Spec

(* _exchange_code_txn, _rotate_refresh_txn: a code or a refresh token yields *)
(* one pair, and is marked spent if and only if the pair was stored.        *)
THEOREM OnePairEach == Spec => []SpentForOnePair
<1>1. IndInv => SpentForOnePair
  BY DEF IndInv
<1> QED
  BY InitInd, NextInd, <1>1, PTL DEF Spec

-----------------------------------------------------------------------------
(* A sweep in progress ends only by its own UPDATE. *)
LEMMA OnlySweepEnds ==
  ASSUME IndInv, [Next]_vars, NEW q \in Calls, call[q].pc = "sweeping", ~Sweep(q)
  PROVE  call'[q] = call[q]
<1>1. call \in [Calls -> CallRow]
  BY DEF IndInv, OAuthInv, TypeOK
<1>2. ASSUME NEW p \in Calls, p # q \/ call[p].pc # "sweeping", NEW r, Move(p, r)
      PROVE  call'[q] = call[q]
  BY <1>1, <1>2 DEF Move
<1>3. CASE UNCHANGED call
  BY <1>3
<1>4. ASSUME NEW p \in Calls,
             \/ \E c \in Clients, a \in Accounts, u \in {"omitted"} \cup ValidUris, ok \in BOOLEAN :
                    Consent(p, c, a, u, ok)
             \/ \E c \in Clients, s \in BOOLEAN :
                    \/ \E k \in 1..Len(codes) : Present(p, c, s, "code", k)
                    \/ \E t \in 1..Len(tokens) : Present(p, c, s, "refresh", t)
             \/ \E a \in Accounts : SignOutEverywhere(p, a)
      PROVE  call'[q] = call[q]
  <2>1. call[p].pc = "idle" /\ \E r : Move(p, r)
    BY <1>4 DEF Consent, Present, SignOutEverywhere
  <2> QED
    BY <1>2, <2>1
<1>5. ASSUME NEW p \in Calls,
             \/ StoreCode(p) \/ Commit(p) \/ Abort(p) \/ Snapshot(p)
             \/ \E ok \in BOOLEAN : Refuse(p, ok) \/ Grant(p, ok) \/ Replay(p, ok)
      PROVE  call'[q] = call[q]
  <2>1. call[p].pc # "sweeping" /\ \E r : Move(p, r)
    BY <1>5 DEF StoreCode, Commit, Abort, Snapshot, Refuse, Grant, Replay, Done
  <2> QED
    BY <1>2, <2>1
<1>6. ASSUME NEW p \in Calls, Sweep(p)
      PROVE  call'[q] = call[q]
  BY <1>2, <1>6 DEF Sweep, Done
<1> QED
  BY <1>3, <1>4, <1>5, <1>6 DEF Next, Register, Revoke, Switch, vars

(* oauth.revoke_family, api.revoke_grants: whatever other calls rotate,      *)
(* revoke or sweep meanwhile, every token that a replay or a sign-out       *)
(* everywhere must answer for is revoked when it has been answered.         *)
THEOREM SweepsComplete == Spec => SweepIsComplete
<1>1. IndInv /\ [Next]_vars
        => [\A p \in Calls : call[p].pc = "sweeping" /\ call'[p].pc = "idle" =>
              \A t \in call[p].seen : tokens'[t].revoked]_vars
  <2> SUFFICES ASSUME IndInv, [Next]_vars, NEW p \in Calls, call[p].pc = "sweeping",
                      call'[p].pc = "idle", NEW t \in call[p].seen
               PROVE  tokens'[t].revoked
    BY Zenon
  <2>1. Sweep(p)
    BY OnlySweepEnds
  <2>2. t \in 1..Len(tokens) /\ (t \in call[p].snap \/ tokens[t].revoked)
    BY DEF IndInv, OAuthInv, LockInv, CallOK
  <2> QED
    BY <2>1, <2>2, SweepInd
<1> QED
  BY InitInd, NextInd, <1>1, PTL DEF Spec, SweepIsComplete

(* What a step does to the table of tokens. *)
LEMMA TokenSteps ==
  ASSUME IndInv, [Next]_vars
  PROVE  \/ UNCHANGED tokens
         \/ /\ Len(tokens') = Len(tokens)
            /\ \A t \in 1..Len(tokens) : tokens[t].revoked => tokens'[t].revoked
         \/ \E p \in Calls : Commit(p)
<1>1. ASSUME NEW p \in Calls, Sweep(p)
      PROVE  /\ Len(tokens') = Len(tokens)
             /\ \A t \in 1..Len(tokens) : tokens[t].revoked => tokens'[t].revoked
  BY <1>1, SweepInd
<1>2. ASSUME NEW c \in Clients, NEW s \in BOOLEAN, NEW u \in 1..Len(tokens), Revoke(c, s, u)
      PROVE  /\ Len(tokens') = Len(tokens)
             /\ \A t \in 1..Len(tokens) : tokens[t].revoked => tokens'[t].revoked
  BY <1>2, RevokeInd
<1> QED
  BY <1>1, <1>2, ZenonT(60) DEF Next, vars, Register, Consent, Present, SignOutEverywhere, StoreCode,
     Refuse, Grant, Replay, Abort, Snapshot, Switch

(* oauth._mint: in every interleaving a pair is minted from a token that is  *)
(* not revoked at that moment, for the client it was issued to, and what is *)
(* revoked stays revoked.                                                   *)
THEOREM DeadStayDead == Spec => DeadBreedNothing
<1>1. IndInv /\ [Next]_vars
        => [/\ \A t \in 1..Len(tokens) : tokens[t].revoked => tokens'[t].revoked
            /\ \A t \in Len(tokens) + 1 .. Len(tokens') :
                  /\ tokens'[t].src = "refresh" =>
                        /\ ~tokens[tokens'[t].id].revoked
                        /\ tokens'[t].client = tokens[tokens'[t].id].client
                  /\ tokens'[t].src = "code" =>
                        tokens'[t].client = codes[tokens'[t].id].client]_vars
  <2> DEFINE n == Len(tokens)
             Kept == \A t \in 1..n : tokens[t].revoked => tokens'[t].revoked
             Bred == \A t \in n + 1 .. Len(tokens') :
                  /\ tokens'[t].src = "refresh" =>
                        /\ ~tokens[tokens'[t].id].revoked
                        /\ tokens'[t].client = tokens[tokens'[t].id].client
                  /\ tokens'[t].src = "code" =>
                        tokens'[t].client = codes[tokens'[t].id].client
  <2> SUFFICES ASSUME IndInv, [Next]_vars PROVE Kept /\ Bred
    BY Zenon
  <2>0. n \in Nat
    BY RowTypes DEF IndInv, OAuthInv
  <2>1. CASE Len(tokens') = n /\ Kept
    BY <2>0, <2>1
  <2>2. CASE UNCHANGED tokens
    BY <2>0, <2>2
  <2>3. ASSUME NEW p \in Calls, Commit(p) PROVE Kept /\ Bred
    <3> DEFINE r == call[p]
               root == IF r.src = "code" THEN r.id ELSE tokens[r.id].root
    <3>1. Minted(r, root) /\ r \in CallRow /\ CallOK(r) /\ r.pc = "minting"
      BY <2>3, CommitMints
    <3>2. /\ r.src = "refresh" => ~tokens[r.id].revoked /\ r.client = tokens[r.id].client
          /\ r.src = "code" => r.client = codes[r.id].client
      BY <3>1 DEF CallOK, RowOf, Void
    <3> HIDE DEF root, r
    <3>3. n + 1 .. Len(tokens') = {n + 1, n + 2}
      BY <2>0, <3>1 DEF Minted
    <3> QED
      BY <3>1, <3>2, <3>3 DEF Minted
  <2> QED
    BY <2>1, <2>2, <2>3, TokenSteps
<1> QED
  BY InitInd, NextInd, <1>1, PTL DEF Spec, DeadBreedNothing
=============================================================================
