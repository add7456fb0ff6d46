------------------------------ MODULE Windows ------------------------------
(***************************************************************************)
(* The two sliding windows the server keeps in memory: requests per        *)
(* account (ratelimit.py, asked by the rate_limit middleware) and failed   *)
(* logins per name (auth.authenticate_password, called by ui.login and     *)
(* oauth.authorize_submit).                                                *)
(*                                                                         *)
(* Time is counted in ticks, Second of them to the second, since both      *)
(* answer with whole seconds.  The tables share nothing but the clock, so  *)
(* a behaviour has traffic for one of them.                                *)
(*                                                                         *)
(* The code keeps a list of times per key, of which it uses the length and *)
(* (in the rate limit, where the list is in order) the oldest.  Here it is *)
(* a set of entries: the time, and a number that tells entries of one      *)
(* moment apart.                                                           *)
(***************************************************************************)
EXTENDS Integers, FiniteSets

CONSTANTS
    Accounts, Requests,  \* rate limit: accounts, requests in progress
    Names, Logins,       \* lockout: names tried, logins in progress
    Limits,              \* what rate_limit_per_min is set to; 0 is NULL
    Second, Window,      \* in ticks
    MaxAttempts, Slots, MaxKeys,
    MaxTime              \* bound on the clock

ConstantsOK ==
    /\ Limits \subseteq Nat
    /\ Second \in Nat \ {0} /\ Window \in Nat \ {0} /\ MaxTime \in Nat
    /\ MaxAttempts \in Nat \ {0} /\ Slots \in Nat \ {0} /\ MaxKeys \in Nat \ {0}
    /\ IsFiniteSet(Logins)

ASSUME ConstantsAssumption == ConstantsOK

VARIABLES
    traffic,   \* which of the two tables this behaviour is about
    now,       \* time.monotonic()
    limit,     \* service_accounts.rate_limit_per_min
    hits,      \* ratelimit._hits; {} where there is no key
    request,   \* per request: its account and the limit read with it
    passed,    \* history: the hits that were let in, and under which limit
    told,      \* history: what the last refused request was promised
    attempts,  \* auth._attempts; {} where there is no key
    login,     \* per login: name, step, and when it began
    guesses    \* history: wrong passwords since the last right one

rateVars == <<limit, hits, request, passed, told>>
loginVars == <<attempts, login, guesses>>
vars == <<traffic, now, rateVars, loginVars>>

Nobody == [pc |-> "idle"]
Nothing == [limit |-> 0, at |-> 0]

Init ==
    /\ traffic \in {"requests", "logins"}
    /\ now = 0
    /\ limit = [a \in Accounts |-> 0]
    /\ hits = [a \in Accounts |-> {}]
    /\ request = [r \in Requests |-> Nobody]
    /\ passed = [a \in Accounts |-> {}]
    /\ told = [a \in Accounts |-> Nothing]
    /\ attempts = [n \in Names |-> {}]
    /\ login = [p \in Logins |-> Nobody]
    /\ guesses = [n \in Names |-> {}]

(* The entries of a key that are in the window ending at t. *)
Recent(times, t) == {x \in times : t - x.at < Window}

(* The entry for time t, told apart from those there were of that moment. *)
Entry(history, t) == [at |-> t, no |-> Cardinality({x \in history : x.at = t})]

(* The windows that some step at time t or later can still look at: the one *)
(* that ends then, and those that end when a login in progress began.       *)
Ends(t) == {t} \cup {login[p].at : p \in {q \in Logins : login[q].pc # "idle"}}

(* Time passes.  The histories forget what no window can see any more.      *)
Tick ==
    /\ now < MaxTime
    /\ now' = now + 1
    /\ passed' = [a \in Accounts |-> Recent(passed[a], now + 1)]
    /\ guesses' = [n \in Names |-> {x \in guesses[n] : \E t \in Ends(now + 1) : t - x.at < Window}]
    /\ UNCHANGED <<traffic, limit, hits, request, told, attempts, login>>

(* Variant: whatever is in a full table goes. *)
MakeRoomAll(table, key, t) ==
    IF table[key] = {} /\ Cardinality({k \in DOMAIN table : table[k] # {}}) >= MaxKeys
    THEN [k \in DOMAIN table |-> {}]
    ELSE table

(* A new key for a full table: keys with nothing in the window are dropped, *)
(* and the new one is added whether or not there were any.                  *)
MakeRoom(table, key, t) ==
    IF table[key] = {} /\ Cardinality({k \in DOMAIN table : table[k] # {}}) >= MaxKeys
    THEN [k \in DOMAIN table |-> IF Recent(table[k], t) = {} THEN {} ELSE table[k]]
    ELSE table

-----------------------------------------------------------------------------
(* accounts.rate_limit; the command line refuses anything below 1. *)
SetLimit(a, l) ==
    /\ traffic = "requests" /\ limit[a] # l
    /\ limit' = [limit EXCEPT ![a] = l]
    /\ UNCHANGED <<traffic, now, hits, request, passed, told, loginVars>>

(* authenticate has read the account's row, its limit included. *)
Authenticate(r, a) ==
    /\ traffic = "requests" /\ request[r].pc = "idle"
    /\ request' = [request EXCEPT ![r] = [pc |-> "check", account |-> a, limit |-> limit[a]]]
    /\ UNCHANGED <<traffic, now, limit, hits, passed, told, loginVars>>

(* Variant: rounded down, as the lockout does. *)
RetryAfterDown(first) ==
    LET whole == (Window - (now - first)) \div Second IN IF whole > 1 THEN whole ELSE 1

(* Seconds until the oldest hit leaves the window, always rounded up. *)
RetryAfter(first) == (Window - (now - first)) \div Second + 1

(* ratelimit.check with no limit records nothing. *)
CheckUnlimited(r) ==
    /\ request[r].pc = "check" /\ request[r].limit = 0
    /\ request' = [request EXCEPT ![r] = Nobody]
    /\ UNCHANGED <<traffic, now, limit, hits, passed, told, loginVars>>

(* 429.  When the limit was lowered there may be more than one hit too      *)
(* many, and the first one's leaving promises nothing.                      *)
CheckRefuse(r) ==
    /\ request[r].pc = "check" /\ request[r].limit # 0
    /\ LET a == request[r].account
           recent == Recent(hits[a], now)
       IN  /\ Cardinality(recent) >= request[r].limit
           /\ hits' = [hits EXCEPT ![a] = recent]
           /\ \E first \in recent :
                /\ \A x \in recent : first.at <= x.at
                /\ told' = [told EXCEPT ![a] =
                       IF Cardinality(recent) = request[r].limit
                       THEN [limit |-> request[r].limit,
                             at |-> now + Second * RetryAfter(first.at)]
                       ELSE Nothing]
    /\ request' = [request EXCEPT ![r] = Nobody]
    /\ UNCHANGED <<traffic, now, limit, passed, loginVars>>

(* A hit also carries, for the properties, the limit it was let in under. *)
Hit(a, l) ==
    LET e == Entry(passed[a], now) IN [at |-> e.at, no |-> e.no, limit |-> l]

CheckAdmit(r) ==
    /\ request[r].pc = "check" /\ request[r].limit # 0
    /\ LET a == request[r].account
           recent == Recent(hits[a], now)
           hit == Hit(a, request[r].limit)
       IN  /\ Cardinality(recent) < request[r].limit
           /\ hits' = [MakeRoom(hits, a, now) EXCEPT ![a] = recent \cup {hit}]
           /\ passed' = [passed EXCEPT ![a] = @ \cup {hit}]
           /\ told' = [told EXCEPT ![a] = Nothing]
    /\ request' = [request EXCEPT ![r] = Nobody]
    /\ UNCHANGED <<traffic, now, limit, loginVars>>

-----------------------------------------------------------------------------
(* _locked_for, called as the login comes in: what it finds it keeps. *)
Locked(n) == Cardinality(Recent(attempts[n], now)) >= MaxAttempts

TryLogin(p, n) ==
    /\ traffic = "logins" /\ login[p].pc = "idle" /\ ~Locked(n)
    /\ attempts' = [attempts EXCEPT ![n] = Recent(@, now)]
    /\ login' = [login EXCEPT ![p] = [pc |-> "slot", name |-> n, at |-> now]]
    /\ UNCHANGED <<traffic, now, guesses, rateVars>>

(* Variant: a refused login is one more failure. *)
RefuseLoginCounted(p, n) ==
    /\ traffic = "logins" /\ login[p].pc = "idle" /\ Locked(n)
    /\ attempts' = [attempts EXCEPT ![n] =
            Recent(@, now) \cup {[at |-> now, no |-> MaxAttempts]}]
    /\ UNCHANGED <<traffic, now, login, guesses, rateVars>>

(* TooManyAttempts *)
RefuseLogin(p, n) ==
    /\ traffic = "logins" /\ login[p].pc = "idle" /\ Locked(n)
    /\ attempts' = [attempts EXCEPT ![n] = Recent(@, now)]
    /\ UNCHANGED <<traffic, now, login, guesses, rateVars>>

Verifying == {p \in Logins : login[p].pc = "verify"}

(* Variant: as many again as there are slots. *)
TakeSlotFree(p) ==
    /\ login[p].pc = "slot"
    /\ login' = [login EXCEPT ![p].pc = "verify"]
    /\ UNCHANGED <<traffic, now, attempts, guesses, rateVars>>

(* async with _verify_slots *)
TakeSlot(p) ==
    /\ login[p].pc = "slot" /\ Cardinality(Verifying) < Slots
    /\ login' = [login EXCEPT ![p].pc = "verify"]
    /\ UNCHANGED <<traffic, now, attempts, guesses, rateVars>>

Failure(p) == Entry(guesses[login[p].name], login[p].at)

(* Variant: the new failure takes the place of the earlier ones. *)
RecordFailureOnce(p) ==
    LET n == login[p].name
    IN  [MakeRoom(attempts, n, login[p].at) EXCEPT ![n] = {Failure(p)}]

(* _record_failure, with the time the login began. *)
RecordFailure(p) ==
    LET n == login[p].name
    IN  [MakeRoom(attempts, n, login[p].at) EXCEPT ![n] = @ \cup {Failure(p)}]

(* No such account, wrong password, or disabled. *)
Fail(p) ==
    /\ login[p].pc = "verify"
    /\ attempts' = RecordFailure(p)
    /\ guesses' = [guesses EXCEPT ![login[p].name] = @ \cup {Failure(p)}]
    /\ login' = [login EXCEPT ![p] = Nobody]
    /\ UNCHANGED <<traffic, now, rateVars>>

Succeed(p) ==
    /\ login[p].pc = "verify"
    /\ attempts' = [attempts EXCEPT ![login[p].name] = {}]
    /\ guesses' = [guesses EXCEPT ![login[p].name] = {}]
    /\ login' = [login EXCEPT ![p] = Nobody]
    /\ UNCHANGED <<traffic, now, rateVars>>

(* The query fails: no password was tried and nothing is recorded. *)
LoginError(p) ==
    /\ login[p].pc = "verify"
    /\ login' = [login EXCEPT ![p] = Nobody]
    /\ UNCHANGED <<traffic, now, attempts, guesses, rateVars>>

-----------------------------------------------------------------------------
Next ==
    \/ Tick
    \/ \E a \in Accounts, l \in Limits : SetLimit(a, l)
    \/ \E r \in Requests, a \in Accounts : Authenticate(r, a)
    \/ \E r \in Requests : CheckUnlimited(r) \/ CheckRefuse(r) \/ CheckAdmit(r)
    \/ \E p \in Logins, n \in Names : TryLogin(p, n) \/ RefuseLogin(p, n)
    \/ \E p \in Logins : TakeSlot(p) \/ Fail(p) \/ Succeed(p) \/ LoginError(p)

Spec == Init /\ [][Next]_vars

-----------------------------------------------------------------------------
Entries == [at : 0..now, no : Nat]
Hits == [at : 0..now, no : Nat, limit : Limits \ {0}]

(* The tables hold past times, and no more passwords are verified at once   *)
(* than there are slots.                                                    *)
RateTypeOK ==
    /\ limit \in [Accounts -> Limits \cup {0}]
    /\ hits \in [Accounts -> SUBSET Hits]
    /\ request \in [Requests -> {Nobody} \cup
                       [pc : {"check"}, account : Accounts, limit : Limits \cup {0}]]
    /\ passed \in [Accounts -> SUBSET Hits]
    /\ told \in [Accounts -> [limit : Limits \cup {0}, at : 0..(now + Window + Second)]]
    /\ \A a \in Accounts : IsFiniteSet(hits[a]) /\ IsFiniteSet(passed[a])
LoginTypeOK ==
    /\ attempts \in [Names -> SUBSET Entries]
    /\ login \in [Logins -> {Nobody} \cup [pc : {"slot", "verify"}, name : Names, at : 0..now]]
    /\ guesses \in [Names -> SUBSET Entries]
    /\ \A n \in Names : IsFiniteSet(attempts[n]) /\ IsFiniteSet(guesses[n])
    /\ Cardinality(Verifying) <= Slots
TypeOK ==
    /\ traffic \in {"requests", "logins"}
    /\ now \in 0..MaxTime
    /\ RateTypeOK /\ LoginTypeOK

(* The entries of a moment are numbered from 0, so that the next one is new. *)
Numbered(history) == \A x \in history : x.no < Entry(history, x.at).no

(* The table and the history agree on every window that can still be asked   *)
(* about: filtering, making room and forgetting drop only what is over.      *)
HitsInv ==
    \A a \in Accounts :
        /\ Numbered(passed[a])
        /\ Recent(hits[a], now) = Recent(passed[a], now)
AttemptsInv ==
    \A n \in Names :
        /\ Numbered(guesses[n])
        /\ Recent(guesses[n], now) \subseteq attempts[n]
        /\ \A t \in Ends(now) : Recent(attempts[n], t) \subseteq guesses[n]

(* In no window are more requests of an account let in than the limit they  *)
(* were let in under, however the limit changes and whoever else fills the  *)
(* table (ratelimit.check).                                                 *)
NotLater(y, x) == y.at < x.at \/ (y.at = x.at /\ y.no <= x.no)
NeverOverLimit ==
    \A a \in Accounts : \A x \in passed[a] :
        Cardinality({y \in Recent(passed[a], x.at) : NotLater(y, x)}) <= x.limit

(* The promise rests on the oldest hit, which is gone when it falls due.    *)
PromiseInv ==
    \A a \in Accounts : told[a] # Nothing =>
        Cardinality(Recent(hits[a], told[a].at)) < told[a].limit

(* A client that waits as long as Retry-After says is not refused again,    *)
(* if nobody used the account and the limit is what it was.                 *)
RetryHonest ==
    \A a \in Accounts : told[a] # Nothing /\ now >= told[a].at /\ limit[a] = told[a].limit
        => Cardinality(Recent(hits[a], now)) < limit[a]

Within(n, t) == {x \in guesses[n] : x.at <= t /\ t - x.at < Window}
Pending(n, t) ==
    {p \in Logins : /\ login[p].pc # "idle" /\ login[p].name = n
                    /\ login[p].at <= t /\ t - login[p].at < Window}

(* Those who have been let in and not answered yet may all be wrong.        *)
PendingInv ==
    \A n \in Names : \A t \in 0..now :
        Cardinality(Within(n, t)) + Cardinality(Pending(n, t))
            <= MaxAttempts - 1 + Cardinality(Logins)

(* Between two successes, no window sees more wrong passwords for a name    *)
(* than the limit allows plus those checked before the limit was reached,   *)
(* one for each other login in progress (the check precedes the await).     *)
GuessesBounded ==
    \A n \in Names : \A x \in guesses[n] :
        Cardinality(Within(n, x.at)) <= MaxAttempts - 1 + Cardinality(Logins)

(* A name is locked only while that many wrong passwords really lie in the  *)
(* window: being refused costs nothing.                                     *)
LockedForCause ==
    \A n \in Names : Locked(n) => Cardinality(Recent(guesses[n], now)) >= MaxAttempts

(* What holds of both tables in every state: the types with the limit on    *)
(* verifications, no window over its limit, no name locked without cause;   *)
(* and that tables and histories agree, which is why.                       *)
WindowsInv ==
    /\ TypeOK /\ HitsInv /\ AttemptsInv /\ PromiseInv /\ PendingInv
    /\ NeverOverLimit /\ LockedForCause
=============================================================================
