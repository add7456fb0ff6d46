--------------------------- MODULE WindowsProofs ---------------------------
(***************************************************************************)
(* Windows for any number of accounts, names and logins in progress, any   *)
(* limits, any window and any size of the tables.  What a table holds and  *)
(* what the history holds agree on every window somebody can still ask     *)
(* about (HitsInv, AttemptsInv), and whoever passed the check of the       *)
(* lockout is counted as a guess to come (PendingInv); the rest follows.   *)
(***************************************************************************)
EXTENDS Windows, FiniteSetTheorems, TLAPS

(* Whole seconds, rounded up: never short of the time left, and never a        *)
(* second more.                                                                *)
LEMMA RoundedUp ==
  ASSUME NEW s \in Nat \ {0}, NEW d \in Nat
  PROVE  /\ d \div s + 1 \in Nat
         /\ s * (d \div s + 1) \in Nat
         /\ s * (d \div s + 1) > d
         /\ s * (d \div s + 1) <= d + s
<1>1. d \div s \in Nat /\ s * (d \div s) <= d /\ d < s * (d \div s) + s
  OBVIOUS
<1> DEFINE q == d \div s
<1>2. q \in Nat /\ s * q <= d /\ d < s * q + s
  BY <1>1
<1> HIDE DEF q
<1>3. s * (q + 1) = s * q + s
  BY <1>2
<1>4. s * q \in Nat
  BY <1>2
<1>5. q + 1 \in Nat /\ s * (q + 1) > d /\ s * (q + 1) <= d + s /\ s * (q + 1) \in Nat
  BY <1>2, <1>3, <1>4
<1> QED
  BY <1>5 DEF q

(* What is recent is a finite part of what there is. *)
LEMMA RecentPart ==
  ASSUME NEW times, NEW t, IsFiniteSet(times)
  PROVE  /\ Recent(times, t) \subseteq times
         /\ IsFiniteSet(Recent(times, t))
         /\ Cardinality(Recent(times, t)) \in Nat
<1>1. Recent(times, t) \subseteq times
  BY DEF Recent
<1>2. IsFiniteSet(Recent(times, t))
  BY <1>1, FS_Subset
<1> QED
  BY <1>1, <1>2, FS_CardinalityType

(* A later window sees less. *)
LEMMA RecentShrinks ==
  ASSUME ConstantsOK, NEW times, \A x \in times : x.at \in Int,
         NEW t \in Int, NEW u \in Int, t <= u
  PROVE  Recent(times, u) \subseteq Recent(times, t)
  BY DEF Recent, ConstantsOK

(* A numbered history has no entry with the next number of any moment. *)
LEMMA NextIsNew ==
  ASSUME NEW H, IsFiniteSet(H), Numbered(H), NEW t
  PROVE  /\ Entry(H, t).at = t
         /\ Entry(H, t).no \in Nat
         /\ \A x \in H : x.at = t => x.no < Entry(H, t).no
<1>1. {x \in H : x.at = t} \in SUBSET H
  OBVIOUS
<1>2. Cardinality({x \in H : x.at = t}) \in Nat
  BY <1>1, FS_Subset, FS_CardinalityType
<1> QED
  BY <1>2 DEF Entry, Numbered

(* The entry that is added gets that number, and the history stays numbered. *)
LEMMA NumberedGrows ==
  ASSUME NEW H, IsFiniteSet(H), Numbered(H), \A x \in H : x.no \in Nat,
         NEW e, e.no = Entry(H, e.at).no
  PROVE  /\ e \notin H
         /\ Numbered(H \cup {e})
         /\ IsFiniteSet(H \cup {e})
         /\ Cardinality(H \cup {e}) = Cardinality(H) + 1
<1> DEFINE Same(t) == {x \in H : x.at = t}
           Both(t) == {x \in H \cup {e} : x.at = t}
<1>1. /\ e.no \in Nat
      /\ \A x \in H : x.at = e.at => x.no < e.no
  BY NextIsNew
<1>2. e \notin H
  BY <1>1
<1>3. \A t : IsFiniteSet(Same(t)) /\ Cardinality(Same(t)) \in Nat
  BY FS_Subset, FS_CardinalityType
<1>4. e \notin Same(e.at)
  BY <1>2
<1>5. Cardinality(Both(e.at)) = Cardinality(Same(e.at)) + 1
  <2> DEFINE S == Same(e.at)
             B == Both(e.at)
  <2>1. B = S \cup {e} /\ e \notin S /\ IsFiniteSet(S)
    BY <1>3, <1>4
  <2> HIDE DEF S, B
  <2>2. Cardinality(B) = Cardinality(S) + 1
    BY <2>1, FS_AddElement
  <2> QED
    BY <2>2 DEF S, B
<1>6. \A t : t # e.at => Both(t) = Same(t)
  OBVIOUS
<1>7. e.no = Cardinality(Same(e.at))
  BY DEF Entry
<1>8. ASSUME NEW x \in H \cup {e} PROVE x.no < Cardinality(Both(x.at))
  <2>1. CASE x.at # e.at
    <3>1. x \in H /\ x.no < Cardinality(Same(x.at))
      BY <2>1, <1>8 DEF Numbered, Entry
    <3> QED
      BY <1>6, <2>1, <3>1
  <2>2. CASE x.at = e.at
    <3>1. x.no <= e.no /\ x.no \in Nat
      BY <1>1, <1>8, <2>2
    <3>2. Cardinality(Both(x.at)) = e.no + 1
      BY <1>5, <1>7, <2>2
    <3> QED
      BY <1>1, <3>1, <3>2
  <2> QED
    BY <2>1, <2>2
<1>9. Numbered(H \cup {e})
  BY <1>8 DEF Numbered, Entry
<1> QED
  BY <1>2, <1>9, FS_AddElement

(* Forgetting whole moments leaves the rest numbered. *)
LEMMA NumberedShrinks ==
  ASSUME NEW H, Numbered(H), NEW G \in SUBSET H,
         \A x \in G : \A y \in H : y.at = x.at => y \in G
  PROVE  Numbered(G)
<1>1. ASSUME NEW x \in G PROVE x.no < Entry(G, x.at).no
  <2>1. {y \in G : y.at = x.at} = {y \in H : y.at = x.at}
    OBVIOUS
  <2> QED
    BY <2>1 DEF Numbered, Entry
<1> QED
  BY <1>1 DEF Numbered

-----------------------------------------------------------------------------
(* The rate limit and the lockout share nothing but the clock. *)
RateInv == RateTypeOK /\ HitsInv /\ PromiseInv /\ NeverOverLimit
LoginInv == LoginTypeOK /\ AttemptsInv /\ PendingInv
Clock == traffic \in {"requests", "logins"} /\ now \in 0..MaxTime
Core == Clock /\ RateInv /\ LoginInv

(* Both tables are empty at first. *)
LEMMA InitCore == ASSUME ConstantsOK, Init PROVE Core
<1> USE DEF Init, ConstantsOK
<1>1. Clock
  BY DEF Clock
<1>2. \A t : Recent({}, t) = {}
  BY DEF Recent
<1>3. RateInv
  <2>1. RateTypeOK
    BY FS_EmptySet DEF RateTypeOK, Nothing, Nobody
  <2> QED
    BY <1>2, <2>1 DEF RateInv, HitsInv, PromiseInv, NeverOverLimit, Numbered
<1>4. LoginInv
  <2>1. Verifying = {} /\ \A n \in Names, t \in 0..now : Within(n, t) = {} /\ Pending(n, t) = {}
    BY DEF Verifying, Within, Pending, Nobody
  <2>2. LoginTypeOK
    BY <2>1, FS_EmptySet DEF LoginTypeOK
  <2>3. PendingInv
    <3>1. Cardinality(Logins) \in Nat
      BY FS_CardinalityType
    <3> QED
      <4> SUFFICES ASSUME NEW n \in Names, NEW t \in 0..now
                   PROVE  Cardinality(Within(n, t)) + Cardinality(Pending(n, t))
                            <= MaxAttempts - 1 + Cardinality(Logins)
        BY DEF PendingInv
      <4>1. Cardinality(Within(n, t)) = 0 /\ Cardinality(Pending(n, t)) = 0
        BY <2>1, FS_EmptySet
      <4> QED
        BY <3>1, <4>1
  <2> QED
    BY <1>2, <2>2, <2>3 DEF LoginInv, AttemptsInv, Numbered
<1> QED
  BY <1>1, <1>3, <1>4 DEF Core

(* What is not a step of the rate limit leaves it as it is. *)
LEMMA RateFrame == ASSUME RateInv, UNCHANGED <<now, rateVars>> PROVE RateInv'
  BY DEF rateVars, RateInv, RateTypeOK, Hits, HitsInv, PromiseInv, NeverOverLimit, Recent

(* What is not a step of the lockout leaves it as it is. *)
LEMMA LoginFrame == ASSUME LoginInv, UNCHANGED <<now, loginVars>> PROVE LoginInv'
  BY DEF loginVars, LoginInv, LoginTypeOK, Entries, Verifying, AttemptsInv, Ends,
         PendingInv, Within, Pending

-----------------------------------------------------------------------------
(* The rate limit. *)

(* Reading and setting a limit leaves the table alone. *)
LEMMA LimitsRate ==
  ASSUME RateInv, UNCHANGED <<now, hits, passed, told>>,
         limit' \in [Accounts -> Limits \cup {0}],
         request' \in [Requests -> {Nobody} \cup
                        [pc : {"check"}, account : Accounts, limit : Limits \cup {0}]]
  PROVE  RateInv'
<1>1. RateTypeOK'
  BY DEF RateInv, RateTypeOK, Hits
<1>2. HitsInv' /\ PromiseInv' /\ NeverOverLimit'
  BY DEF RateInv, HitsInv, PromiseInv, NeverOverLimit, Recent
<1> QED
  BY <1>1, <1>2 DEF RateInv

(* A request that is checked belongs to an account and carries a limit. *)
LEMMA RequestOK ==
  ASSUME RateTypeOK, NEW r \in Requests, request[r].pc = "check"
  PROVE  request[r].account \in Accounts /\ request[r].limit \in Limits \cup {0}
  BY DEF RateTypeOK, Nobody

(* A refusal keeps what is in the window, and what it promises is that the     *)
(* oldest hit is out of it by then.                                            *)
LEMMA CheckRefuseRate ==
  ASSUME ConstantsOK, Clock, RateInv, NEW r \in Requests, CheckRefuse(r)
  PROVE  RateInv'
<1> DEFINE a == request[r].account
           l == request[r].limit
           recent == Recent(hits[a], now)
<1> USE DEF RateInv
<1>1. a \in Accounts /\ l \in Limits \ {0} /\ l \in Nat
  BY RequestOK DEF CheckRefuse, ConstantsOK
<1>2. /\ Cardinality(recent) >= l
      /\ hits' = [hits EXCEPT ![a] = recent]
      /\ request' = [request EXCEPT ![r] = Nobody]
      /\ UNCHANGED <<now, limit, passed>>
  BY DEF CheckRefuse
<1>3. PICK first \in recent :
        /\ \A x \in recent : first.at <= x.at
        /\ told' = [told EXCEPT ![a] =
                      IF Cardinality(recent) = l
                      THEN [limit |-> l, at |-> now + Second * RetryAfter(first.at)]
                      ELSE Nothing]
  BY DEF CheckRefuse
<1>4. /\ hits[a] \in SUBSET Hits /\ IsFiniteSet(hits[a]) /\ now \in Nat
      /\ Window \in Nat \ {0} /\ Second \in Nat \ {0} /\ MaxTime \in Nat
  BY <1>1 DEF RateTypeOK, Clock, ConstantsOK
<1>5. recent \subseteq hits[a] /\ IsFiniteSet(recent) /\ Cardinality(recent) \in Nat
  BY <1>4, RecentPart
<1>6. /\ first \in Hits /\ first.at \in 0..now /\ now - first.at < Window
      /\ \A x \in hits[a] : x.at \in 0..now
  BY <1>3, <1>4, <1>5 DEF Recent, Hits
<1> DEFINE due == now + Second * RetryAfter(first.at)
<1>7. /\ due \in 0..(now + Window + Second)
      /\ due - first.at >= Window
      /\ due >= now
  <2> DEFINE d == Window - (now - first.at)
  <2>1. d \in Nat /\ d <= Window
    BY <1>4, <1>6
  <2>2. RetryAfter(first.at) = d \div Second + 1
    BY DEF RetryAfter
  <2>3. /\ Second * RetryAfter(first.at) \in Nat
        /\ Second * RetryAfter(first.at) > d /\ Second * RetryAfter(first.at) <= d + Second
    BY <1>4, <2>1, <2>2, RoundedUp
  <2> QED
    BY <1>4, <1>6, <2>1, <2>3
<1> HIDE DEF due
<1>8. RateTypeOK'
  <2>1. hits' \in [Accounts -> SUBSET Hits] /\ \A b \in Accounts : IsFiniteSet(hits'[b])
    BY <1>1, <1>2, <1>4, <1>5 DEF RateTypeOK
  <2>2. told' \in [Accounts -> [limit : Limits \cup {0}, at : 0..(now + Window + Second)]]
    <3>1. [limit |-> l, at |-> due] \in [limit : Limits \cup {0}, at : 0..(now + Window + Second)]
      BY <1>1, <1>7
    <3>2. Nothing \in [limit : Limits \cup {0}, at : 0..(now + Window + Second)]
      BY <1>4 DEF Nothing
    <3> QED
      BY <1>3, <3>1, <3>2 DEF RateTypeOK, due
  <2>3. Hits' = Hits
    BY <1>2 DEF Hits
  <2> QED
    BY <1>2, <2>1, <2>2, <2>3 DEF RateTypeOK
<1>9. HitsInv'
  <2>1. Recent(recent, now) = recent
    BY DEF Recent
  <2>2. \A b \in Accounts : Recent(hits'[b], now) = Recent(hits[b], now)
    BY <1>1, <1>2, <2>1 DEF RateTypeOK
  <2> QED
    BY <1>2, <2>2 DEF HitsInv
<1>10. NeverOverLimit'
  BY <1>2 DEF NeverOverLimit
<1>11. PromiseInv'
  <2> SUFFICES ASSUME NEW b \in Accounts, told'[b] # Nothing
               PROVE  Cardinality(Recent(hits'[b], told'[b].at)) < told'[b].limit
    BY DEF PromiseInv
  <2>1. CASE b # a
    BY <1>1, <1>2, <1>3, <2>1 DEF PromiseInv, RateTypeOK
  <2>2. CASE b = a
    <3>1. /\ hits'[b] = recent /\ Cardinality(recent) = l
          /\ told'[b] = [limit |-> l, at |-> due]
      BY <1>1, <1>2, <1>3, <2>2 DEF RateTypeOK, due
    <3>2. first \notin Recent(recent, due)
      BY <1>4, <1>6, <1>7 DEF Recent
    <3>3. Recent(recent, due) \subseteq recent \ {first}
      BY <3>2 DEF Recent
    <3>4. IsFiniteSet(recent \ {first}) /\ Cardinality(recent \ {first}) = l - 1
      BY <1>3, <1>5, <3>1, FS_RemoveElement
    <3>5. Cardinality(Recent(recent, due)) <= l - 1 /\ Cardinality(Recent(recent, due)) \in Nat
      BY <3>3, <3>4, FS_Subset, FS_CardinalityType
    <3> QED
      BY <1>1, <3>1, <3>5
  <2> QED
    BY <2>1, <2>2
<1> QED
  BY <1>8, <1>9, <1>10, <1>11

(* A request that is let in is one more in the window, where there was room. *)
LEMMA CheckAdmitRate ==
  ASSUME ConstantsOK, Clock, RateInv, NEW r \in Requests, CheckAdmit(r)
  PROVE  RateInv'
<1> DEFINE a == request[r].account
           l == request[r].limit
           recent == Recent(hits[a], now)
           hit == Hit(a, l)
           room == MakeRoom(hits, a, now)
<1> USE DEF RateInv
<1>1. a \in Accounts /\ l \in Limits \ {0} /\ l \in Nat
  BY RequestOK DEF CheckAdmit, ConstantsOK
<1>2. /\ Cardinality(recent) < l
      /\ hits' = [room EXCEPT ![a] = recent \cup {hit}]
      /\ passed' = [passed EXCEPT ![a] = @ \cup {hit}]
      /\ told' = [told EXCEPT ![a] = Nothing]
      /\ request' = [request EXCEPT ![r] = Nobody]
      /\ UNCHANGED <<now, limit>>
  BY DEF CheckAdmit
<1>3. /\ hits \in [Accounts -> SUBSET Hits] /\ passed \in [Accounts -> SUBSET Hits]
      /\ \A b \in Accounts : IsFiniteSet(hits[b]) /\ IsFiniteSet(passed[b])
      /\ now \in Nat /\ Window \in Nat \ {0} /\ Second \in Nat \ {0} /\ MaxTime \in Nat
  BY DEF RateTypeOK, Clock, ConstantsOK
<1>4. recent \subseteq hits[a] /\ IsFiniteSet(recent) /\ Cardinality(recent) \in Nat
  BY <1>1, <1>3, RecentPart
<1>5. /\ Numbered(passed[a]) /\ recent = Recent(passed[a], now)
      /\ \A x \in passed[a] : x.at \in 0..now /\ x.no \in Nat
  BY <1>1, <1>3 DEF HitsInv, Hits
<1>6. /\ hit.at = now /\ hit.no = Entry(passed[a], hit.at).no /\ hit.limit = l
      /\ hit.no \in Nat /\ \A x \in passed[a] : x.at = now => x.no < hit.no
  <2>1. /\ Entry(passed[a], now).at = now /\ Entry(passed[a], now).no \in Nat
        /\ \A x \in passed[a] : x.at = now => x.no < Entry(passed[a], now).no
    BY <1>1, <1>3, <1>5, NextIsNew
  <2> QED
    BY <2>1 DEF Hit
<1>7. hit \in Hits
  <2>1. Entry(passed[a], now).at \in 0..now /\ Entry(passed[a], now).no \in Nat
    BY <1>3, <1>6 DEF Hit
  <2> QED
    BY <1>1, <2>1 DEF Hit, Hits
<1> HIDE DEF hit
<1>8. /\ hit \notin passed[a] /\ Numbered(passed[a] \cup {hit})
      /\ IsFiniteSet(passed[a] \cup {hit})
  BY <1>1, <1>3, <1>5, <1>6, NumberedGrows
<1>9. /\ room \in [Accounts -> SUBSET Hits]
      /\ \A b \in Accounts : room[b] = hits[b] \/ (room[b] = {} /\ Recent(hits[b], now) = {})
  BY <1>3 DEF MakeRoom
<1> HIDE DEF room
<1>10. /\ hits'[a] = recent \cup {hit} /\ \A b \in Accounts \ {a} : hits'[b] = room[b]
       /\ passed'[a] = passed[a] \cup {hit} /\ \A b \in Accounts \ {a} : passed'[b] = passed[b]
  BY <1>1, <1>2, <1>3, <1>9
<1>11. IsFiniteSet(recent \cup {hit}) /\ Cardinality(recent \cup {hit}) <= l
  <2>1. /\ IsFiniteSet(recent \cup {hit})
        /\ Cardinality(recent \cup {hit}) \in {Cardinality(recent), Cardinality(recent) + 1}
    BY <1>4, FS_AddElement
  <2> QED
    BY <1>1, <1>2, <1>4, <2>1
<1>12. RateTypeOK'
  <2>1. hits' \in [Accounts -> SUBSET Hits] /\ passed' \in [Accounts -> SUBSET Hits]
    BY <1>1, <1>2, <1>3, <1>4, <1>7, <1>9
  <2>2. \A b \in Accounts : IsFiniteSet(hits'[b]) /\ IsFiniteSet(passed'[b])
    BY <1>3, <1>8, <1>9, <1>10, <1>11, FS_EmptySet
  <2>3. told' \in [Accounts -> [limit : Limits \cup {0}, at : 0..(now + Window + Second)]]
    <3>1. Nothing \in [limit : Limits \cup {0}, at : 0..(now + Window + Second)]
      BY <1>3 DEF Nothing
    <3> QED
      BY <1>2, <3>1 DEF RateTypeOK
  <2>4. Hits' = Hits
    BY <1>2 DEF Hits
  <2> QED
    BY <1>2, <2>1, <2>2, <2>3, <2>4 DEF RateTypeOK
<1>13. HitsInv'
  <2>1. Recent(recent \cup {hit}, now) = recent \cup {hit}
    BY <1>3, <1>6 DEF Recent
  <2>2. Recent(passed[a] \cup {hit}, now) = recent \cup {hit}
    BY <1>3, <1>5, <1>6 DEF Recent
  <2>3. \A b \in Accounts \ {a} : Recent(hits'[b], now) = Recent(hits[b], now)
    BY <1>9, <1>10 DEF Recent
  <2>4. Numbered(passed'[a]) /\ Recent(hits'[a], now') = Recent(passed'[a], now')
    BY <1>2, <1>8, <1>10, <2>1, <2>2
  <2>5. \A b \in Accounts \ {a} :
          Numbered(passed'[b]) /\ Recent(hits'[b], now') = Recent(passed'[b], now')
    BY <1>2, <1>10, <2>3 DEF HitsInv
  <2> QED
    BY <2>4, <2>5 DEF HitsInv
<1>14. PromiseInv'
  <2> SUFFICES ASSUME NEW b \in Accounts, told'[b] # Nothing
               PROVE  Cardinality(Recent(hits'[b], told'[b].at)) < told'[b].limit
    BY DEF PromiseInv
  <2>1. b # a /\ told'[b] = told[b]
    BY <1>1, <1>2 DEF RateTypeOK
  <2>2. Cardinality(Recent(hits[b], told[b].at)) < told[b].limit
    BY <2>1 DEF PromiseInv
  <2>3. Recent(hits'[b], told[b].at) \subseteq Recent(hits[b], told[b].at)
    BY <1>9, <1>10, <2>1 DEF Recent
  <2>4. /\ IsFiniteSet(Recent(hits[b], told[b].at))
        /\ Cardinality(Recent(hits[b], told[b].at)) \in Nat
    BY <1>3, RecentPart
  <2>5. /\ Cardinality(Recent(hits'[b], told[b].at)) <= Cardinality(Recent(hits[b], told[b].at))
        /\ Cardinality(Recent(hits'[b], told[b].at)) \in Nat
    BY <2>3, <2>4, FS_Subset, FS_CardinalityType
  <2>6. told[b].limit \in Nat
    <3>1. told[b] \in [limit : Limits \cup {0}, at : 0..(now + Window + Second)]
      BY DEF RateTypeOK
    <3>2. told[b].limit \in Limits \cup {0}
      BY <3>1
    <3>3. Limits \cup {0} \subseteq Nat
      BY DEF ConstantsOK
    <3> QED
      BY <3>2, <3>3, Zenon
  <2> QED
    BY <2>1, <2>2, <2>4, <2>5, <2>6
<1>15. NeverOverLimit'
  <2> SUFFICES ASSUME NEW b \in Accounts, NEW x \in passed'[b]
               PROVE  Cardinality({y \in Recent(passed'[b], x.at) : NotLater(y, x)}) <= x.limit
    BY DEF NeverOverLimit, NotLater
  <2>1. CASE b # a
    BY <1>10, <2>1 DEF NeverOverLimit
  <2>2. CASE b = a /\ x = hit
    <3>1. {y \in Recent(passed'[b], x.at) : NotLater(y, x)} \subseteq recent \cup {hit}
      BY <1>3, <1>5, <1>6, <1>10, <2>2 DEF Recent
    <3>2. Cardinality({y \in Recent(passed'[b], x.at) : NotLater(y, x)})
            <= Cardinality(recent \cup {hit})
      BY <1>11, <3>1, FS_Subset
    <3>3. /\ Cardinality(recent \cup {hit}) \in Nat
          /\ IsFiniteSet({y \in Recent(passed'[b], x.at) : NotLater(y, x)})
      BY <1>11, <3>1, FS_Subset, FS_CardinalityType
    <3>4. Cardinality({y \in Recent(passed'[b], x.at) : NotLater(y, x)}) \in Nat
      BY <3>3, FS_CardinalityType
    <3> QED
      BY <1>1, <1>6, <1>11, <2>2, <3>2, <3>3, <3>4
  <2>3. CASE b = a /\ x # hit
    <3>1. x \in passed[a] /\ x.at \in 0..now /\ x.no \in Nat
      BY <1>5, <1>10, <2>3
    <3>2. ~NotLater(hit, x)
      BY <1>3, <1>6, <3>1 DEF NotLater
    <3>3. {y \in Recent(passed'[b], x.at) : NotLater(y, x)}
            = {y \in Recent(passed[a], x.at) : NotLater(y, x)}
      BY <1>10, <2>3, <3>2 DEF Recent
    <3> QED
      BY <1>1, <3>1, <3>3 DEF NeverOverLimit
  <2> QED
    BY <2>1, <2>2, <2>3
<1> QED
  BY <1>12, <1>13, <1>14, <1>15

(* Time passes: the windows of the table and of the history move together. *)
LEMMA TickRate ==
  ASSUME ConstantsOK, Clock, RateInv, Tick PROVE RateInv'
<1> USE DEF RateInv
<1>1. /\ now' = now + 1 /\ passed' = [a \in Accounts |-> Recent(passed[a], now + 1)]
      /\ UNCHANGED <<limit, hits, request, told>>
      /\ now \in Nat /\ now + 1 \in Nat /\ Window \in Nat \ {0} /\ Second \in Nat \ {0}
  BY DEF Tick, Clock, ConstantsOK
<1>2. /\ \A b \in Accounts : passed[b] \in SUBSET Hits /\ hits[b] \in SUBSET Hits
      /\ \A b \in Accounts : IsFiniteSet(hits[b]) /\ IsFiniteSet(passed[b])
      /\ \A x \in Hits : x.at \in 0..now /\ x.no \in Nat /\ x.limit \in Nat
  BY DEF RateTypeOK, Hits, ConstantsOK
<1>3. \A b \in Accounts : passed'[b] = Recent(passed[b], now + 1)
  BY <1>1
<1>4. RateTypeOK'
  <2>1. Hits \subseteq Hits'
    BY <1>1 DEF Hits
  <2>2. \A b \in Accounts : passed'[b] \subseteq Hits /\ IsFiniteSet(passed'[b])
    BY <1>2, <1>3, RecentPart
  <2>3. passed' \in [Accounts -> SUBSET Hits'] /\ hits' \in [Accounts -> SUBSET Hits']
    BY <1>1, <2>1, <2>2 DEF RateTypeOK
  <2>4. told' \in [Accounts -> [limit : Limits \cup {0}, at : 0..(now' + Window + Second)]]
    BY <1>1 DEF RateTypeOK
  <2> QED
    BY <1>1, <1>2, <2>2, <2>3, <2>4 DEF RateTypeOK
<1>5. HitsInv'
  <2> SUFFICES ASSUME NEW b \in Accounts
               PROVE  /\ Numbered(passed'[b])
                      /\ Recent(hits[b], now + 1) = Recent(passed'[b], now + 1)
    BY <1>1 DEF HitsInv
  <2>1. Numbered(passed[b]) /\ Recent(hits[b], now) = Recent(passed[b], now)
    BY DEF HitsInv
  <2>2. /\ Recent(hits[b], now + 1) \subseteq Recent(hits[b], now)
        /\ Recent(passed[b], now + 1) \subseteq Recent(passed[b], now)
    BY <1>1, <1>2, RecentShrinks
  <2>3. Recent(hits[b], now + 1) = Recent(passed[b], now + 1)
    BY <2>1, <2>2 DEF Recent
  <2>4. Recent(Recent(passed[b], now + 1), now + 1) = Recent(passed[b], now + 1)
    BY DEF Recent
  <2>5. Numbered(Recent(passed[b], now + 1))
    <3>1. Recent(passed[b], now + 1) \in SUBSET passed[b]
      BY DEF Recent
    <3>2. \A x \in Recent(passed[b], now + 1) : \A y \in passed[b] :
            y.at = x.at => y \in Recent(passed[b], now + 1)
      BY DEF Recent
    <3> QED
      BY <2>1, <3>1, <3>2, NumberedShrinks
  <2> QED
    BY <1>3, <2>3, <2>4, <2>5
<1>6. PromiseInv'
  BY <1>1 DEF PromiseInv, Recent
<1>7. NeverOverLimit'
  <2> SUFFICES ASSUME NEW b \in Accounts, NEW x \in passed'[b]
               PROVE  Cardinality({y \in Recent(passed'[b], x.at) : NotLater(y, x)}) <= x.limit
    BY DEF NeverOverLimit, NotLater
  <2> DEFINE New == {y \in Recent(passed'[b], x.at) : NotLater(y, x)}
             Old == {y \in Recent(passed[b], x.at) : NotLater(y, x)}
  <2>1. x \in passed[b] /\ x.limit \in Nat
    BY <1>2, <1>3 DEF Recent
  <2>2. Cardinality(Old) <= x.limit
    BY <2>1 DEF NeverOverLimit
  <2>3. New \subseteq Old /\ Old \subseteq passed[b]
    BY <1>3 DEF Recent
  <2> HIDE DEF New, Old
  <2>4. IsFiniteSet(Old) /\ IsFiniteSet(New) /\ Cardinality(New) <= Cardinality(Old)
    BY <1>2, <2>3, FS_Subset
  <2>5. Cardinality(New) \in Nat /\ Cardinality(Old) \in Nat
    BY <2>4, FS_CardinalityType
  <2>6. Cardinality(New) <= x.limit
    BY <2>1, <2>2, <2>4, <2>5
  <2> QED
    BY <2>6 DEF New
<1> QED
  BY <1>4, <1>5, <1>6, <1>7

-----------------------------------------------------------------------------
(* The lockout. *)

(* What the types say of a login in progress and of the entries of a name. *)
LEMMA LoginOK ==
  ASSUME ConstantsOK, Clock, LoginTypeOK
  PROVE  /\ \A p \in Logins : login[p].pc # "idle" =>
              login[p].name \in Names /\ login[p].at \in 0..now
         /\ \A n \in Names : /\ attempts[n] \in SUBSET Entries /\ IsFiniteSet(attempts[n])
                             /\ guesses[n] \in SUBSET Entries /\ IsFiniteSet(guesses[n])
         /\ \A x \in Entries : x.at \in 0..now /\ x.no \in Nat
         /\ now \in Nat /\ Window \in Nat \ {0} /\ MaxAttempts \in Nat \ {0}
         /\ \A t \in Ends(now) : t \in 0..now
<1>1. \A p \in Logins : login[p].pc # "idle" =>
        login[p].name \in Names /\ login[p].at \in 0..now
  BY DEF LoginTypeOK, Nobody
<1>2. now \in Nat
  BY DEF Clock, ConstantsOK
<1> QED
  BY <1>1, <1>2 DEF LoginTypeOK, Entries, Ends, ConstantsOK

(* What a window holds can be counted. *)
LEMMA WindowFinite ==
  ASSUME ConstantsOK, Clock, LoginTypeOK, NEW n \in Names, NEW t
  PROVE  /\ IsFiniteSet(Within(n, t)) /\ Cardinality(Within(n, t)) \in Nat
         /\ IsFiniteSet(Pending(n, t)) /\ Cardinality(Pending(n, t)) \in Nat
         /\ Cardinality(Pending(n, t)) <= Cardinality(Logins)
         /\ Cardinality(Logins) \in Nat
<1>1. IsFiniteSet(guesses[n]) /\ IsFiniteSet(Logins)
  BY DEF LoginTypeOK, ConstantsOK
<1>2. Within(n, t) \subseteq guesses[n] /\ Pending(n, t) \subseteq Logins
  BY DEF Within, Pending
<1>3. /\ IsFiniteSet(Within(n, t)) /\ IsFiniteSet(Pending(n, t))
      /\ Cardinality(Pending(n, t)) <= Cardinality(Logins)
  BY <1>1, <1>2, FS_Subset
<1> QED
  BY <1>1, <1>3, FS_CardinalityType

(* A state with no more guesses and no more logins in a window than before. *)
LEMMA PendingShrinks ==
  ASSUME ConstantsOK, Clock, LoginTypeOK, PendingInv, NEW n \in Names, NEW t \in 0..now,
         NEW W, NEW P, W \subseteq Within(n, t), P \subseteq Pending(n, t)
  PROVE  Cardinality(W) + Cardinality(P) <= MaxAttempts - 1 + Cardinality(Logins)
<1>1. /\ IsFiniteSet(Within(n, t)) /\ Cardinality(Within(n, t)) \in Nat
      /\ IsFiniteSet(Pending(n, t)) /\ Cardinality(Pending(n, t)) \in Nat
      /\ Cardinality(Logins) \in Nat /\ MaxAttempts \in Nat
  BY WindowFinite DEF ConstantsOK
<1>2. /\ IsFiniteSet(W) /\ Cardinality(W) <= Cardinality(Within(n, t))
      /\ IsFiniteSet(P) /\ Cardinality(P) <= Cardinality(Pending(n, t))
  BY <1>1, FS_Subset
<1>3. Cardinality(W) \in Nat /\ Cardinality(P) \in Nat
  BY <1>2, FS_CardinalityType
<1>4. Cardinality(Within(n, t)) + Cardinality(Pending(n, t))
        <= MaxAttempts - 1 + Cardinality(Logins)
  BY DEF PendingInv
<1> QED
  BY <1>1, <1>2, <1>3, <1>4

(* No more verify at once than before. *)
LEMMA SlotsKept ==
  ASSUME ConstantsOK, LoginTypeOK, Verifying' \subseteq Verifying
  PROVE  Cardinality(Verifying') <= Slots
<1>1. Verifying \subseteq Logins
  BY DEF Verifying
<1>2. IsFiniteSet(Verifying)
  BY <1>1, FS_Subset DEF ConstantsOK
<1>3. IsFiniteSet(Verifying') /\ Cardinality(Verifying') <= Cardinality(Verifying)
  BY <1>2, FS_Subset
<1>4. /\ Cardinality(Verifying) \in Nat /\ Cardinality(Verifying') \in Nat
      /\ Cardinality(Verifying) <= Slots /\ Slots \in Nat
  BY <1>2, <1>3, FS_CardinalityType DEF LoginTypeOK, ConstantsOK
<1> QED
  BY <1>3, <1>4

(* _locked_for keeps what is in the window, whatever it answers. *)
LEMMA FilterLogin ==
  ASSUME ConstantsOK, Clock, LoginInv, NEW n \in Names,
         attempts' = [attempts EXCEPT ![n] = Recent(@, now)],
         UNCHANGED <<now, guesses>>, Ends(now)' \subseteq Ends(now)
  PROVE  /\ attempts' \in [Names -> SUBSET Entries]
         /\ \A m \in Names : IsFiniteSet(attempts'[m])
         /\ AttemptsInv'
<1> USE DEF LoginInv
<1>1. /\ \A m \in Names : attempts[m] \in SUBSET Entries /\ IsFiniteSet(attempts[m])
      /\ attempts \in [Names -> SUBSET Entries]
  BY DEF LoginTypeOK
<1>2. attempts'[n] = Recent(attempts[n], now) /\ \A m \in Names \ {n} : attempts'[m] = attempts[m]
  BY <1>1
<1>3. Recent(attempts[n], now) \subseteq attempts[n] /\ IsFiniteSet(Recent(attempts[n], now))
  BY <1>1, RecentPart
<1>4. attempts' \in [Names -> SUBSET Entries] /\ \A m \in Names : IsFiniteSet(attempts'[m])
  BY <1>1, <1>2, <1>3
<1>5. AttemptsInv'
  <2> SUFFICES ASSUME NEW m \in Names
               PROVE  /\ Numbered(guesses[m])
                      /\ Recent(guesses[m], now) \subseteq attempts'[m]
                      /\ \A t \in Ends(now) : Recent(attempts'[m], t) \subseteq guesses[m]
    BY DEF AttemptsInv
  <2>1. /\ Numbered(guesses[m])
        /\ Recent(guesses[m], now) \subseteq attempts[m]
        /\ \A t \in Ends(now) : Recent(attempts[m], t) \subseteq guesses[m]
    BY DEF AttemptsInv
  <2>2. Recent(guesses[m], now) \subseteq attempts'[m]
    BY <1>2, <2>1 DEF Recent
  <2>3. attempts'[m] \subseteq attempts[m]
    BY <1>2, <1>3
  <2> QED
    BY <2>1, <2>2, <2>3 DEF Recent
<1> QED
  BY <1>4, <1>5

(* A refused login records nothing. *)
LEMMA RefuseLoginLogin ==
  ASSUME ConstantsOK, Clock, LoginInv, NEW p \in Logins, NEW n \in Names, RefuseLogin(p, n)
  PROVE  LoginInv'
<1>1. /\ attempts' = [attempts EXCEPT ![n] = Recent(@, now)]
      /\ UNCHANGED <<now, guesses, login>>
  BY DEF RefuseLogin
<1>2. Ends(now)' \subseteq Ends(now)
  BY <1>1 DEF Ends
<1>3. /\ attempts' \in [Names -> SUBSET Entries]
      /\ \A m \in Names : IsFiniteSet(attempts'[m])
      /\ AttemptsInv'
  BY <1>1, <1>2, FilterLogin
<1>4. LoginTypeOK' /\ PendingInv'
  BY <1>1, <1>3 DEF LoginInv, LoginTypeOK, Entries, Verifying, PendingInv, Within, Pending
<1> QED
  BY <1>3, <1>4 DEF LoginInv

(* A login is let in only while its window holds fewer failures than the       *)
(* limit, and everybody in progress is one more at most.                       *)
LEMMA TryLoginLogin ==
  ASSUME ConstantsOK, Clock, LoginInv, NEW p \in Logins, NEW n \in Names, TryLogin(p, n)
  PROVE  LoginInv'
<1> DEFINE new == [pc |-> "slot", name |-> n, at |-> now]
<1> USE DEF LoginInv
<1>1. /\ attempts' = [attempts EXCEPT ![n] = Recent(@, now)]
      /\ login' = [login EXCEPT ![p] = new]
      /\ UNCHANGED <<now, guesses>>
      /\ login[p].pc = "idle" /\ ~Locked(n)
  BY DEF TryLogin
<1>2. now \in Nat /\ now \in 0..now /\ login \in [Logins -> {Nobody} \cup
        [pc : {"slot", "verify"}, name : Names, at : 0..now]]
  BY DEF Clock, ConstantsOK, LoginTypeOK
<1>3. login'[p] = new /\ \A q \in Logins \ {p} : login'[q] = login[q]
  BY <1>1, <1>2
<1>4. Ends(now)' \subseteq Ends(now)
  BY <1>1, <1>3 DEF Ends
<1>5. /\ attempts' \in [Names -> SUBSET Entries]
      /\ \A m \in Names : IsFiniteSet(attempts'[m])
      /\ AttemptsInv'
  BY <1>1, <1>4, FilterLogin
<1>6. LoginTypeOK'
  <2>1. login' \in [Logins -> {Nobody} \cup
          [pc : {"slot", "verify"}, name : Names, at : 0..now]]
    BY <1>1, <1>2
  <2>2. Verifying' \subseteq Verifying
    BY <1>3 DEF Verifying
  <2>3. Cardinality(Verifying') <= Slots
    BY <2>2, SlotsKept
  <2> QED
    BY <1>1, <1>5, <2>1, <2>3 DEF LoginTypeOK, Entries
<1>7. PendingInv'
  <2> SUFFICES ASSUME NEW m \in Names, NEW t \in 0..now
               PROVE  Cardinality(Within(m, t)') + Cardinality(Pending(m, t)')
                        <= MaxAttempts - 1 + Cardinality(Logins)
    BY <1>1 DEF PendingInv
  <2>1. Within(m, t)' = Within(m, t)
    BY <1>1 DEF Within
  <2>2. CASE m # n \/ t # now
    <3>1. Pending(m, t)' \subseteq Pending(m, t)
      BY <1>2, <1>3, <2>2 DEF Pending
    <3> QED
      BY <2>1, <3>1, PendingShrinks
  <2>3. CASE m = n /\ t = now
    <3>1. Within(n, now) \subseteq Recent(attempts[n], now)
      BY DEF Within, Recent, AttemptsInv
    <3>2. IsFiniteSet(Recent(attempts[n], now)) /\ Cardinality(Recent(attempts[n], now)) \in Nat
      BY RecentPart, LoginOK
    <3>3. /\ Cardinality(Within(n, now)) <= Cardinality(Recent(attempts[n], now))
          /\ Cardinality(Within(n, now)) \in Nat
      BY <3>1, <3>2, FS_Subset, FS_CardinalityType
    <3>4. Cardinality(Recent(attempts[n], now)) < MaxAttempts /\ MaxAttempts \in Nat
      BY <1>1, <3>2 DEF Locked, ConstantsOK
    <3>5. /\ Cardinality(Pending(m, t)') <= Cardinality(Logins)
          /\ Cardinality(Pending(m, t)') \in Nat /\ Cardinality(Logins) \in Nat
      <4>1. Pending(m, t)' \subseteq Logins
        BY DEF Pending
      <4> QED
        BY <4>1, FS_Subset, FS_CardinalityType DEF ConstantsOK
    <3> QED
      BY <2>1, <2>3, <3>2, <3>3, <3>4, <3>5
  <2> QED
    BY <2>2, <2>3
<1> QED
  BY <1>5, <1>6, <1>7

(* The semaphore lets no more verify than it has slots. *)
LEMMA TakeSlotLogin ==
  ASSUME ConstantsOK, Clock, LoginInv, NEW p \in Logins, TakeSlot(p)
  PROVE  LoginInv'
<1> USE DEF LoginInv
<1>1. /\ login' = [login EXCEPT ![p].pc = "verify"]
      /\ UNCHANGED <<now, attempts, guesses>>
      /\ login[p].pc = "slot" /\ Cardinality(Verifying) < Slots
  BY DEF TakeSlot
<1>2. /\ login[p] \in [pc : {"slot", "verify"}, name : Names, at : 0..now]
      /\ login \in [Logins -> {Nobody} \cup [pc : {"slot", "verify"}, name : Names, at : 0..now]]
  BY <1>1 DEF LoginTypeOK, Nobody
<1>3. /\ login'[p].pc = "verify" /\ login'[p].name = login[p].name /\ login'[p].at = login[p].at
      /\ login'[p] \in [pc : {"slot", "verify"}, name : Names, at : 0..now]
      /\ \A q \in Logins \ {p} : login'[q] = login[q]
  BY <1>1, <1>2
<1>4. LoginTypeOK'
  <2>1. login' \in [Logins -> {Nobody} \cup
          [pc : {"slot", "verify"}, name : Names, at : 0..now]]
    BY <1>1, <1>2, <1>3
  <2>2. Verifying' = Verifying \cup {p}
    BY <1>3 DEF Verifying
  <2>3. IsFiniteSet(Verifying)
    <3>1. Verifying \subseteq Logins
      BY DEF Verifying
    <3> QED
      BY <3>1, FS_Subset DEF ConstantsOK
  <2>4. /\ Cardinality(Verifying) \in Nat /\ Slots \in Nat
        /\ Cardinality(Verifying') \in {Cardinality(Verifying), Cardinality(Verifying) + 1}
    BY <2>2, <2>3, FS_AddElement, FS_CardinalityType DEF ConstantsOK
  <2>5. Cardinality(Verifying') <= Slots
    BY <1>1, <2>4
  <2> QED
    BY <1>1, <2>1, <2>5 DEF LoginTypeOK, Entries
<1>5. Ends(now)' \subseteq Ends(now)
  BY <1>1, <1>3 DEF Ends
<1>6. AttemptsInv'
  BY <1>1, <1>5 DEF AttemptsInv
<1>7. \A n, t : Within(n, t)' = Within(n, t) /\ Pending(n, t)' = Pending(n, t)
  BY <1>1, <1>3 DEF Within, Pending
<1>8. PendingInv'
  BY <1>1, <1>7 DEF PendingInv
<1> QED
  BY <1>4, <1>6, <1>8

(* A login that leaves takes no entry with it but, on success, all of its name. *)
LEMMA LeaveLogin ==
  ASSUME ConstantsOK, Clock, LoginInv, NEW p \in Logins, login[p].pc = "verify",
         login' = [login EXCEPT ![p] = Nobody], now' = now
  PROVE  /\ login' \in [Logins -> {Nobody} \cup
                         [pc : {"slot", "verify"}, name : Names, at : 0..now]]
         /\ \A q \in Logins \ {p} : login'[q] = login[q]
         /\ login'[p].pc = "idle"
         /\ Cardinality(Verifying') <= Slots
         /\ Ends(now)' \subseteq Ends(now)
         /\ \A n, t : Pending(n, t)' = Pending(n, t) \ {p}
<1>1. login \in [Logins -> {Nobody} \cup [pc : {"slot", "verify"}, name : Names, at : 0..now]]
  BY DEF LoginInv, LoginTypeOK
<1>2. /\ \A q \in Logins \ {p} : login'[q] = login[q]
      /\ login'[p] = Nobody /\ login'[p].pc = "idle"
  BY <1>1 DEF Nobody
<1>3. Verifying' \subseteq Verifying
  BY <1>2 DEF Verifying
<1>4. Cardinality(Verifying') <= Slots
  BY <1>3, SlotsKept DEF LoginInv
<1>5. Ends(now)' \subseteq Ends(now)
  BY <1>2 DEF Ends
<1>6. \A n, t : Pending(n, t)' = Pending(n, t) \ {p}
  BY <1>2 DEF Pending
<1> QED
  BY <1>1, <1>2, <1>4, <1>5, <1>6

(* A login whose query failed was one pending, and no guess. *)
LEMMA LoginErrorLogin ==
  ASSUME ConstantsOK, Clock, LoginInv, NEW p \in Logins, LoginError(p)
  PROVE  LoginInv'
<1>1. /\ login' = [login EXCEPT ![p] = Nobody] /\ login[p].pc = "verify"
      /\ UNCHANGED <<now, attempts, guesses>>
  BY DEF LoginError
<1>2. /\ login' \in [Logins -> {Nobody} \cup
                       [pc : {"slot", "verify"}, name : Names, at : 0..now]]
      /\ Cardinality(Verifying') <= Slots
      /\ Ends(now)' \subseteq Ends(now)
      /\ \A n, t : Pending(n, t)' = Pending(n, t) \ {p}
  BY <1>1, LeaveLogin
<1>3. LoginTypeOK'
  BY <1>1, <1>2 DEF LoginInv, LoginTypeOK, Entries
<1>4. AttemptsInv'
  BY <1>1, <1>2 DEF LoginInv, AttemptsInv
<1>5. PendingInv'
  <2> SUFFICES ASSUME NEW m \in Names, NEW t \in 0..now
               PROVE  Cardinality(Within(m, t)') + Cardinality(Pending(m, t)')
                        <= MaxAttempts - 1 + Cardinality(Logins)
    BY <1>1 DEF PendingInv
  <2>1. Within(m, t)' \subseteq Within(m, t) /\ Pending(m, t)' \subseteq Pending(m, t)
    BY <1>1, <1>2 DEF Within
  <2> QED
    BY <2>1, PendingShrinks DEF LoginInv
<1> QED
  BY <1>3, <1>4, <1>5 DEF LoginInv

(* A right password clears the name, in the table and in the history. *)
LEMMA SucceedLogin ==
  ASSUME ConstantsOK, Clock, LoginInv, NEW p \in Logins, Succeed(p)
  PROVE  LoginInv'
<1> DEFINE n == login[p].name
<1> USE DEF LoginInv
<1>1. /\ login' = [login EXCEPT ![p] = Nobody] /\ login[p].pc = "verify"
      /\ attempts' = [attempts EXCEPT ![n] = {}] /\ guesses' = [guesses EXCEPT ![n] = {}]
      /\ now' = now
  BY DEF Succeed
<1>2. /\ login' \in [Logins -> {Nobody} \cup
                       [pc : {"slot", "verify"}, name : Names, at : 0..now]]
      /\ Cardinality(Verifying') <= Slots
      /\ Ends(now)' \subseteq Ends(now)
      /\ \A m, t : Pending(m, t)' = Pending(m, t) \ {p}
  BY <1>1, LeaveLogin
<1>3. n \in Names
  BY <1>1, LoginOK
<1>4. /\ attempts \in [Names -> SUBSET Entries] /\ guesses \in [Names -> SUBSET Entries]
      /\ attempts'[n] = {} /\ guesses'[n] = {}
      /\ \A m \in Names \ {n} : attempts'[m] = attempts[m] /\ guesses'[m] = guesses[m]
  BY <1>1, <1>3 DEF LoginTypeOK
<1>5. LoginTypeOK'
  BY <1>1, <1>2, <1>4, FS_EmptySet DEF LoginTypeOK, Entries
<1>6. AttemptsInv'
  <2> SUFFICES ASSUME NEW m \in Names
               PROVE  /\ Numbered(guesses'[m])
                      /\ Recent(guesses'[m], now) \subseteq attempts'[m]
                      /\ \A t \in Ends(now) : Recent(attempts'[m], t) \subseteq guesses'[m]
    BY <1>1, <1>2 DEF AttemptsInv
  <2>1. CASE m = n
    BY <1>4, <2>1 DEF Recent, Numbered
  <2>2. CASE m # n
    BY <1>4, <2>2 DEF AttemptsInv
  <2> QED
    BY <2>1, <2>2
<1>7. PendingInv'
  <2> SUFFICES ASSUME NEW m \in Names, NEW t \in 0..now
               PROVE  Cardinality(Within(m, t)') + Cardinality(Pending(m, t)')
                        <= MaxAttempts - 1 + Cardinality(Logins)
    BY <1>1 DEF PendingInv
  <2>1. Within(m, t)' \subseteq Within(m, t) /\ Pending(m, t)' \subseteq Pending(m, t)
    BY <1>2, <1>4 DEF Within
  <2> QED
    BY <2>1, PendingShrinks
<1> QED
  BY <1>5, <1>6, <1>7

(* A wrong password is one more in every window that its login was pending in, *)
(* and room is made only from names nobody can be locked out by.               *)
LEMMA FailLogin ==
  ASSUME ConstantsOK, Clock, LoginInv, NEW p \in Logins, Fail(p)
  PROVE  LoginInv'
<1> DEFINE n == login[p].name
           at == login[p].at
           f == Failure(p)
           room == MakeRoom(attempts, n, at)
<1> USE DEF LoginInv
<1>1. /\ login' = [login EXCEPT ![p] = Nobody] /\ login[p].pc = "verify"
      /\ attempts' = [room EXCEPT ![n] = @ \cup {f}]
      /\ guesses' = [guesses EXCEPT ![n] = @ \cup {f}]
      /\ now' = now
  BY DEF Fail, RecordFailure
<1>2. /\ login' \in [Logins -> {Nobody} \cup
                       [pc : {"slot", "verify"}, name : Names, at : 0..now]]
      /\ Cardinality(Verifying') <= Slots
      /\ Ends(now)' \subseteq Ends(now)
      /\ \A m, t : Pending(m, t)' = Pending(m, t) \ {p}
  BY <1>1, LeaveLogin
<1>3. /\ n \in Names /\ at \in 0..now /\ now \in Nat /\ Window \in Nat
      /\ \A x \in Entries : x.at \in 0..now /\ x.no \in Nat
      /\ \A m \in Names : /\ attempts[m] \in SUBSET Entries /\ IsFiniteSet(attempts[m])
                          /\ guesses[m] \in SUBSET Entries /\ IsFiniteSet(guesses[m])
  BY <1>1, LoginOK
<1>4. attempts \in [Names -> SUBSET Entries] /\ guesses \in [Names -> SUBSET Entries]
  BY DEF LoginTypeOK
<1>5. Numbered(guesses[n])
  BY <1>3 DEF AttemptsInv
<1>6. f = Entry(guesses[n], at) /\ f.at = at /\ f.no = Entry(guesses[n], f.at).no /\ f.no \in Nat
  BY <1>3, <1>5, NextIsNew DEF Failure
<1>7. f \in Entries
  <2>1. Entry(guesses[n], at).no \in Nat
    BY <1>6
  <2> QED
    BY <1>3, <1>6, <2>1 DEF Entry, Entries
<1> HIDE DEF f
<1>8. /\ f \notin guesses[n] /\ Numbered(guesses[n] \cup {f})
      /\ IsFiniteSet(guesses[n] \cup {f})
  BY <1>3, <1>5, <1>6, NumberedGrows
<1>9. /\ room \in [Names -> SUBSET Entries]
      /\ \A m \in Names : room[m] = attempts[m] \/ (room[m] = {} /\ Recent(attempts[m], at) = {})
  BY <1>3, <1>4 DEF MakeRoom
<1> HIDE DEF room
<1>10. /\ attempts'[n] = room[n] \cup {f} /\ guesses'[n] = guesses[n] \cup {f}
       /\ \A m \in Names \ {n} : attempts'[m] = room[m] /\ guesses'[m] = guesses[m]
  BY <1>1, <1>3, <1>4, <1>9
<1>11. LoginTypeOK'
  <2>1. attempts' \in [Names -> SUBSET Entries] /\ guesses' \in [Names -> SUBSET Entries]
    BY <1>1, <1>3, <1>4, <1>7, <1>9
  <2>2. \A m \in Names : IsFiniteSet(room[m])
    BY <1>3, <1>9, FS_EmptySet
  <2>3. IsFiniteSet(room[n] \cup {f})
    BY <1>3, <2>2, FS_AddElement
  <2>4. \A m \in Names : IsFiniteSet(attempts'[m]) /\ IsFiniteSet(guesses'[m])
    BY <1>3, <1>8, <1>10, <2>2, <2>3
  <2> QED
    BY <1>1, <1>2, <2>1, <2>4 DEF LoginTypeOK, Entries
<1>12. AttemptsInv'
  <2>1. ASSUME NEW m \in Names
        PROVE  /\ Recent(guesses[m], now) \subseteq room[m]
               /\ \A t \in Ends(now) : Recent(room[m], t) \subseteq guesses[m]
    <3>1. /\ Recent(guesses[m], now) \subseteq attempts[m]
          /\ \A t \in Ends(now) : Recent(attempts[m], t) \subseteq guesses[m]
      BY DEF AttemptsInv
    <3>2. CASE room[m] = attempts[m]
      BY <3>1, <3>2
    <3>3. CASE room[m] = {} /\ Recent(attempts[m], at) = {}
      <4>1. \A x \in attempts[m] : x.at \in 0..now
        BY <1>3
      <4>2. Recent(guesses[m], now) \subseteq Recent(attempts[m], at)
        BY <1>3, <3>1, <4>1 DEF Recent
      <4> QED
        BY <3>3, <4>2 DEF Recent
    <3> QED
      BY <1>9, <3>2, <3>3
  <2> SUFFICES ASSUME NEW m \in Names
               PROVE  /\ Numbered(guesses'[m])
                      /\ Recent(guesses'[m], now) \subseteq attempts'[m]
                      /\ \A t \in Ends(now) : Recent(attempts'[m], t) \subseteq guesses'[m]
    BY <1>1, <1>2 DEF AttemptsInv
  <2>2. CASE m = n
    BY <1>8, <1>10, <2>1, <2>2 DEF Recent
  <2>3. CASE m # n
    BY <1>10, <2>1, <2>3 DEF AttemptsInv
  <2> QED
    BY <2>2, <2>3
<1>13. PendingInv'
  <2> SUFFICES ASSUME NEW m \in Names, NEW t \in 0..now
               PROVE  Cardinality(Within(m, t)') + Cardinality(Pending(m, t)')
                        <= MaxAttempts - 1 + Cardinality(Logins)
    BY <1>1 DEF PendingInv
  <2> DEFINE W == Within(m, t)
             P == Pending(m, t)
  <2>1. Pending(m, t)' = P \ {p}
    BY <1>2
  <2>2. CASE p \in P
    <3>1. m = n /\ at <= t /\ t - at < Window
      BY <2>2 DEF Pending
    <3>2. Within(m, t)' = W \cup {f} /\ f \notin W
      BY <1>6, <1>8, <1>10, <3>1 DEF Within
    <3>3. /\ IsFiniteSet(W) /\ Cardinality(W) \in Nat
          /\ IsFiniteSet(P) /\ Cardinality(P) \in Nat
          /\ Cardinality(Logins) \in Nat /\ MaxAttempts \in Nat
      BY WindowFinite DEF ConstantsOK
    <3>4. Cardinality(W) + Cardinality(P) <= MaxAttempts - 1 + Cardinality(Logins)
      BY DEF PendingInv
    <3> HIDE DEF W, P
    <3>5. Cardinality(W \cup {f}) = Cardinality(W) + 1
      BY <3>2, <3>3, FS_AddElement
    <3>6. Cardinality(P \ {p}) = Cardinality(P) - 1
      BY <2>2, <3>3, FS_RemoveElement
    <3> QED
      BY <2>1, <3>2, <3>3, <3>4, <3>5, <3>6
  <2>3. CASE p \notin P
    <3>1. m # n \/ ~(at <= t /\ t - at < Window)
      BY <1>1, <2>3 DEF Pending
    <3>2. Within(m, t)' \subseteq W
      BY <1>6, <1>10, <3>1 DEF Within
    <3> QED
      BY <2>1, <3>2, PendingShrinks
  <2> QED
    BY <2>2, <2>3
<1> QED
  BY <1>11, <1>12, <1>13

(* A tick forgets only guesses that no window looks at any more, and the new   *)
(* window sees no more than the last.                                          *)
LEMMA TickLogin ==
  ASSUME ConstantsOK, Clock, LoginInv, Tick
  PROVE  LoginInv'
<1> USE DEF LoginInv
<1>1. /\ now' = now + 1 /\ UNCHANGED <<attempts, login>>
      /\ guesses' = [n \in Names |-> {x \in guesses[n] : \E t \in Ends(now + 1) : t - x.at < Window}]
  BY DEF Tick
<1>2. /\ now \in Nat /\ Window \in Nat
      /\ \A p \in Logins : login[p].pc # "idle" =>
              login[p].name \in Names /\ login[p].at \in 0..now
      /\ \A x \in Entries : x.at \in 0..now /\ x.no \in Nat
      /\ \A m \in Names : /\ attempts[m] \in SUBSET Entries /\ IsFiniteSet(attempts[m])
                          /\ guesses[m] \in SUBSET Entries /\ IsFiniteSet(guesses[m])
  BY LoginOK
<1>3. \A n \in Names : guesses'[n] = {x \in guesses[n] : \E t \in Ends(now + 1) : t - x.at < Window}
  BY <1>1
<1>4. \A n \in Names : guesses'[n] \subseteq guesses[n]
  BY <1>3
<1>5. LoginTypeOK'
  <2>1. Entries \subseteq Entries' /\ 0..now \subseteq 0..now'
    BY <1>1, <1>2 DEF Entries
  <2>2. attempts \in [Names -> SUBSET Entries] /\ \A n \in Names : guesses'[n] \in SUBSET Entries
    BY <1>2, <1>4 DEF LoginTypeOK
  <2>3. guesses' \in [Names -> SUBSET Entries']
    BY <1>1, <2>1, <2>2
  <2>4. attempts' \in [Names -> SUBSET Entries']
    BY <1>1, <2>1, <2>2
  <2>5. login' \in [Logins -> {Nobody} \cup [pc : {"slot", "verify"}, name : Names, at : 0..now']]
    <3>1. login \in [Logins -> {Nobody} \cup [pc : {"slot", "verify"}, name : Names, at : 0..now]]
      BY DEF LoginTypeOK
    <3>2. ASSUME NEW p \in Logins
          PROVE  login[p] \in {Nobody} \cup [pc : {"slot", "verify"}, name : Names, at : 0..now']
      BY <2>1, <3>1
    <3> QED
      BY <1>1, <3>1, <3>2
  <2>6. \A n \in Names : IsFiniteSet(attempts'[n]) /\ IsFiniteSet(guesses'[n])
    BY <1>1, <1>2, <1>4, FS_Subset
  <2>7. Verifying' \subseteq Verifying
    BY <1>1 DEF Verifying
  <2>8. Cardinality(Verifying') <= Slots
    BY <2>7, SlotsKept
  <2> QED
    BY <2>3, <2>4, <2>5, <2>6, <2>8 DEF LoginTypeOK
<1>6. AttemptsInv'
  <2> SUFFICES ASSUME NEW m \in Names
               PROVE  /\ Numbered(guesses'[m])
                      /\ Recent(guesses'[m], now + 1) \subseteq attempts[m]
                      /\ \A t \in Ends(now + 1) : Recent(attempts[m], t) \subseteq guesses'[m]
    <3>1. Ends(now)' = Ends(now + 1)
      BY <1>1 DEF Ends
    <3> QED
      BY <1>1, <3>1 DEF AttemptsInv
  <2>1. /\ Numbered(guesses[m])
        /\ Recent(guesses[m], now) \subseteq attempts[m]
        /\ \A t \in Ends(now) : Recent(attempts[m], t) \subseteq guesses[m]
    BY DEF AttemptsInv
  <2>2. Numbered(guesses'[m])
    <3>1. \A x \in guesses'[m] : \A y \in guesses[m] : y.at = x.at => y \in guesses'[m]
      BY <1>3
    <3> QED
      BY <1>4, <2>1, <3>1, NumberedShrinks
  <2>3. \A x \in guesses[m] \cup attempts[m] : x.at \in Int
    BY <1>2
  <2>4. Recent(guesses'[m], now + 1) \subseteq Recent(guesses[m], now)
    BY <1>2, <1>4, <2>3 DEF Recent
  <2>5. ASSUME NEW t \in Ends(now + 1) PROVE Recent(attempts[m], t) \subseteq guesses'[m]
    <3>1. Recent(attempts[m], t) \subseteq guesses[m]
      <4>1. CASE t \in Ends(now)
        BY <2>1, <4>1
      <4>2. CASE t = now + 1
        <5>1. Recent(attempts[m], t) \subseteq Recent(attempts[m], now)
          BY <1>2, <2>3, <4>2 DEF Recent
        <5>2. now \in Ends(now)
          BY DEF Ends
        <5> QED
          BY <2>1, <5>1, <5>2
      <4> QED
        BY <2>5, <4>1, <4>2 DEF Ends
    <3> QED
      BY <1>3, <2>5, <3>1 DEF Recent
  <2> QED
    BY <2>1, <2>2, <2>4, <2>5
<1>7. PendingInv'
  <2> SUFFICES ASSUME NEW m \in Names, NEW t \in 0..(now + 1)
               PROVE  Cardinality(Within(m, t)') + Cardinality(Pending(m, t)')
                        <= MaxAttempts - 1 + Cardinality(Logins)
    BY <1>1 DEF PendingInv
  <2>1. PICK u \in 0..now : u <= t /\ (t <= now => u = t) /\ (t = now + 1 => u = now)
    <3>1. CASE t <= now
      BY <1>2, <3>1
    <3>2. CASE t = now + 1
      BY <1>2, <3>2
    <3> QED
      BY <1>2, <3>1, <3>2
  <2>2. Within(m, t)' \subseteq Within(m, u)
    BY <1>2, <1>4, <2>1 DEF Within
  <2>3. Pending(m, t)' \subseteq Pending(m, u)
    BY <1>1, <1>2, <2>1 DEF Pending
  <2> QED
    BY <2>2, <2>3, PendingShrinks
<1> QED
  BY <1>5, <1>6, <1>7

-----------------------------------------------------------------------------
(* Every step keeps the clock in range and both tables in order. *)
LEMMA NextCore == ASSUME ConstantsOK, Core, [Next]_vars PROVE Core'
<1> USE DEF Core
<1>1. CASE Tick
  <2>1. Clock'
    BY <1>1 DEF Tick, Clock, ConstantsOK
  <2> QED
    BY <1>1, <2>1, TickRate, TickLogin
<1>2. ASSUME NEW a \in Accounts, NEW l \in Limits, SetLimit(a, l) PROVE Core'
  <2>1. /\ limit' \in [Accounts -> Limits \cup {0}]
        /\ request' \in [Requests -> {Nobody} \cup
                        [pc : {"check"}, account : Accounts, limit : Limits \cup {0}]]
    BY <1>2 DEF SetLimit, RateInv, RateTypeOK
  <2>2. RateInv'
    BY <1>2, <2>1, LimitsRate DEF SetLimit
  <2> QED
    BY <1>2, <2>2, LoginFrame DEF SetLimit, Clock
<1>3. ASSUME NEW r \in Requests, NEW a \in Accounts, Authenticate(r, a) PROVE Core'
  <2>1. /\ limit' \in [Accounts -> Limits \cup {0}]
        /\ request' \in [Requests -> {Nobody} \cup
                        [pc : {"check"}, account : Accounts, limit : Limits \cup {0}]]
    BY <1>3 DEF Authenticate, RateInv, RateTypeOK
  <2>2. RateInv'
    BY <1>3, <2>1, LimitsRate DEF Authenticate
  <2> QED
    BY <1>3, <2>2, LoginFrame DEF Authenticate, Clock
<1>4. ASSUME NEW r \in Requests, CheckUnlimited(r) PROVE Core'
  <2>1. /\ limit' \in [Accounts -> Limits \cup {0}]
        /\ request' \in [Requests -> {Nobody} \cup
                        [pc : {"check"}, account : Accounts, limit : Limits \cup {0}]]
    BY <1>4 DEF CheckUnlimited, RateInv, RateTypeOK
  <2>2. RateInv'
    BY <1>4, <2>1, LimitsRate DEF CheckUnlimited
  <2> QED
    BY <1>4, <2>2, LoginFrame DEF CheckUnlimited, Clock
<1>5. ASSUME NEW r \in Requests, CheckRefuse(r) PROVE Core'
  BY <1>5, CheckRefuseRate, LoginFrame DEF CheckRefuse, Clock
<1>6. ASSUME NEW r \in Requests, CheckAdmit(r) PROVE Core'
  BY <1>6, CheckAdmitRate, LoginFrame DEF CheckAdmit, Clock
<1>7. ASSUME NEW p \in Logins, NEW n \in Names, TryLogin(p, n) PROVE Core'
  BY <1>7, TryLoginLogin, RateFrame DEF TryLogin, Clock
<1>8. ASSUME NEW p \in Logins, NEW n \in Names, RefuseLogin(p, n) PROVE Core'
  BY <1>8, RefuseLoginLogin, RateFrame DEF RefuseLogin, Clock
<1>9. ASSUME NEW p \in Logins, TakeSlot(p) PROVE Core'
  BY <1>9, TakeSlotLogin, RateFrame DEF TakeSlot, Clock
<1>10. ASSUME NEW p \in Logins, Fail(p) PROVE Core'
  BY <1>10, FailLogin, RateFrame DEF Fail, Clock
<1>11. ASSUME NEW p \in Logins, Succeed(p) PROVE Core'
  BY <1>11, SucceedLogin, RateFrame DEF Succeed, Clock
<1>12. ASSUME NEW p \in Logins, LoginError(p) PROVE Core'
  BY <1>12, LoginErrorLogin, RateFrame DEF LoginError, Clock
<1>13. CASE UNCHANGED vars
  BY <1>13, RateFrame, LoginFrame DEF vars, Clock
<1> QED
  BY <1>1, <1>2, <1>3, <1>4, <1>5, <1>6, <1>7, <1>8, <1>9, <1>10, <1>11, <1>12, <1>13 DEF Next

(* What is in the table's window is in the history's. *)
LEMMA CoreCause == ASSUME ConstantsOK, Core PROVE LockedForCause
<1> SUFFICES ASSUME NEW n \in Names, Locked(n)
             PROVE  Cardinality(Recent(guesses[n], now)) >= MaxAttempts
  BY DEF LockedForCause
<1>1. IsFiniteSet(guesses[n]) /\ IsFiniteSet(attempts[n])
  BY LoginOK DEF Core, LoginInv
<1>2. Recent(attempts[n], now) = Recent(guesses[n], now)
  <2>1. now \in Ends(now)
    BY DEF Ends
  <2> QED
    BY <2>1 DEF Core, LoginInv, AttemptsInv, Recent
<1> QED
  BY <1>2 DEF Locked

(* After the time it was told, a client finds the window even emptier. *)
LEMMA CoreHonest == ASSUME ConstantsOK, Core PROVE RetryHonest
<1> SUFFICES ASSUME NEW a \in Accounts, told[a] # Nothing, now >= told[a].at,
                    limit[a] = told[a].limit
             PROVE  Cardinality(Recent(hits[a], now)) < limit[a]
  BY DEF RetryHonest
<1>1. /\ now \in Nat /\ told[a].at \in Nat /\ IsFiniteSet(hits[a])
      /\ \A x \in hits[a] : x.at \in Int
  BY DEF Core, Clock, RateInv, RateTypeOK, Hits, ConstantsOK
<1>2. limit[a] \in Nat
  <2>1. limit[a] \in Limits \cup {0} /\ Limits \cup {0} \subseteq Nat
    BY DEF Core, RateInv, RateTypeOK, ConstantsOK
  <2> QED
    BY <2>1, Zenon
<1>3. Recent(hits[a], now) \subseteq Recent(hits[a], told[a].at)
  BY <1>1, RecentShrinks
<1>4. /\ IsFiniteSet(Recent(hits[a], told[a].at))
      /\ Cardinality(Recent(hits[a], told[a].at)) \in Nat
      /\ Cardinality(Recent(hits[a], now)) \in Nat
  BY <1>1, RecentPart
<1>5. Cardinality(Recent(hits[a], now)) <= Cardinality(Recent(hits[a], told[a].at))
  BY <1>3, <1>4, FS_Subset
<1>6. Cardinality(Recent(hits[a], told[a].at)) < told[a].limit
  BY DEF Core, RateInv, PromiseInv
<1> QED
  BY <1>2, <1>4, <1>5, <1>6

(* The guesses of a window are bounded even with those still to come. *)
LEMMA CoreBounded == ASSUME ConstantsOK, Core PROVE GuessesBounded
<1> SUFFICES ASSUME NEW n \in Names, NEW x \in guesses[n]
             PROVE  Cardinality(Within(n, x.at)) <= MaxAttempts - 1 + Cardinality(Logins)
  BY DEF GuessesBounded
<1>1. x.at \in 0..now
  BY LoginOK DEF Core, LoginInv
<1>2. Cardinality(Within(n, x.at)) + Cardinality(Pending(n, x.at))
        <= MaxAttempts - 1 + Cardinality(Logins)
  BY <1>1 DEF Core, LoginInv, PendingInv
<1>3. /\ Cardinality(Within(n, x.at)) \in Nat /\ Cardinality(Pending(n, x.at)) \in Nat
      /\ Cardinality(Logins) \in Nat /\ MaxAttempts \in Nat
  BY WindowFinite DEF Core, LoginInv, ConstantsOK
<1> QED
  BY <1>2, <1>3

(* Core holds in every state, and the three properties follow from it. *)
LEMMA CoreHolds == ConstantsOK => (Spec => []Core)
<1> SUFFICES ASSUME ConstantsOK PROVE Spec => []Core
  OBVIOUS
<1>1. Init => Core
  BY InitCore
<1>2. Core /\ [Next]_vars => Core'
  BY NextCore
<1> QED
  BY <1>1, <1>2, PTL DEF Spec

(* For every number of accounts, names and parallel logins, whatever the       *)
(* limits, the window and the sizes of the tables: the tables and the histories *)
(* agree on the windows, no window is over the limit its requests were let in  *)
(* under (ratelimit.check), no name is locked without as many failures as      *)
(* _locked_for says, and no more passwords are verified than there are slots.  *)
THEOREM WindowsInvariance == Spec => []WindowsInv
<1> ConstantsOK
  BY ConstantsAssumption
<1>1. Core => WindowsInv
  BY CoreCause DEF Core, Clock, RateInv, LoginInv, TypeOK, WindowsInv
<1>2. Spec => []Core
  BY CoreHolds
<1> QED
  BY <1>1, <1>2, PTL

(* The Retry-After of a 429 is never short (ratelimit.check), for every window, *)
(* limit and resolution of the clock.                                          *)
THEOREM RetryAfterIsHonest == Spec => []RetryHonest
<1> ConstantsOK
  BY ConstantsAssumption
<1>1. Core => RetryHonest
  BY CoreHonest
<1>2. Spec => []Core
  BY CoreHolds
<1> QED
  BY <1>1, <1>2, PTL

(* Parallel logins pass the lockout by no more than their number               *)
(* (auth.authenticate_password), however many there are.                       *)
THEOREM LockoutBounds == Spec => []GuessesBounded
<1> ConstantsOK
  BY ConstantsAssumption
<1>1. Core => GuessesBounded
  BY CoreBounded
<1>2. Spec => []Core
  BY CoreHolds
<1> QED
  BY <1>1, <1>2, PTL
=============================================================================
