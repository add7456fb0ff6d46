------------------------------ MODULE Schedules ------------------------------
(***************************************************************************)
(* Schedules (schedules.py): rows with a due time next_run, the worker     *)
(* tick that submits a job for every due row and advances it, and the API  *)
(* calls that create, patch and delete rows.                               *)
(*                                                                         *)
(* Time is a bounded clock.  A trigger is an interval of n, or a cron      *)
(* expression whose instants are the multiples of n; time zones only move  *)
(* those instants.  update() is modelled statement by statement: it reads  *)
(* the row, computes, and writes every patchable column and next_run back. *)
(***************************************************************************)
EXTENDS Integers, FiniteSets

CONSTANTS
    ScheduleIds, \* schedule ids
    Triggers,    \* [kind : {"interval", "cron"}, n : Nat \ {0}]
    Tickers,     \* processes running _tick_schedules
    Patchers,    \* concurrent API calls of update()
    MaxTime,     \* bound of the clock
    MaxSteps     \* _MAX_CATCHUP_STEPS

ConstantsOK ==
    /\ MaxTime \in Nat /\ MaxSteps \in Nat \ {0}
    /\ Triggers \subseteq [kind : {"interval", "cron"}, n : Nat \ {0}]

ASSUME ConstantsAssumption == ConstantsOK

VARIABLES
    clock,
    row,       \* schedules: present, enabled, trig, next (next_run)
    due,       \* per ticker, ids run_due has selected and not yet tried
    firing,    \* per ticker, the id and moment of the _fire in progress
    patch,     \* per call of update(): its step, and what it has read
    submitted, \* jobs submitted for each due time of each row: none, one or more
    want,      \* the switch as the last request that named it set it
    rewound,   \* rows whose next_run a patch has moved back
    off        \* the times each row was off at, with no patch about to write it

schedulesVars == <<clock, row, due, firing, patch, submitted, want, rewound, off>>

(* ids are serial: a deleted one is not used again *)
Unused == [present |-> FALSE, used |-> FALSE]
Deleted == [present |-> FALSE, used |-> TRUE]
NoFire == [id |-> "none", moment |-> 0]
NoPatch == [pc |-> "idle"]
Due(s, m) == row[s].present /\ row[s].enabled /\ row[s].next <= m

(* What a patch changes: the trigger, the switch, both or (params) neither. *)
Keep == [kind |-> "keep", n |-> 1]
Changes == [trig : Triggers \cup {Keep}, enabled : {"keep", "on", "off"}]

-----------------------------------------------------------------------------
(* next_after: the first run strictly after m. *)
NextAfter(m, t) == IF t.kind = "interval" THEN m + t.n ELSE (m \div t.n + 1) * t.n

(* Variant: one period, whatever the time is. *)
AdvanceOnce(r, m) == IF m >= 0 THEN NextAfter(r.next, r.trig) ELSE m

(* The due times from the missed one on. *)
Walk(r) ==
    LET up[k \in 0..MaxSteps] ==
            IF k = 0 THEN r.next ELSE NextAfter(up[k - 1], r.trig)
    IN  up

(* _advance: walk forward from the missed due time; past MaxSteps re-time. *)
Advance(r, m) ==
    LET later == {k \in 1..MaxSteps : Walk(r)[k] > m}
    IN  IF later = {} THEN NextAfter(m, r.trig)
        ELSE Walk(r)[CHOOSE k \in later : \A i \in later : k <= i]

-----------------------------------------------------------------------------
SchedulesInit ==
    /\ clock = 0
    /\ row = [s \in ScheduleIds |-> Unused]
    /\ due = [t \in Tickers |-> {}]
    /\ firing = [t \in Tickers |-> NoFire]
    /\ patch = [p \in Patchers |-> NoPatch]
    /\ submitted = [s \in ScheduleIds |-> [d \in 0..MaxTime |-> 0]]
    /\ want = [s \in ScheduleIds |-> FALSE]
    /\ rewound = {}
    /\ off = [s \in ScheduleIds |-> {}]

Settled(s) ==
    /\ row[s].present
    /\ \A p \in Patchers : patch[p].pc = "write" => patch[p].id # s

Pass ==
    /\ clock < MaxTime
    /\ clock' = clock + 1
    /\ off' = [s \in ScheduleIds |-> IF Settled(s) /\ ~row[s].enabled
                              THEN off[s] \cup {clock + 1} ELSE off[s]]
    /\ UNCHANGED <<row, due, firing, patch, submitted, want, rewound>>

(* create; an id is used once.  validate and the manifest check have passed. *)
Create(s, t, on) ==
    /\ row[s] = Unused
    /\ row' = [row EXCEPT ![s] = [present |-> TRUE, enabled |-> on, trig |-> t,
                                  next |-> NextAfter(clock, t)]]
    /\ want' = [want EXCEPT ![s] = on]
    /\ UNCHANGED <<clock, due, firing, patch, submitted, rewound, off>>

Delete(s) ==
    /\ row[s].present
    /\ row' = [row EXCEPT ![s] = Deleted]
    /\ UNCHANGED <<clock, due, firing, patch, submitted, want, rewound, off>>

(* update: SELECT *)
PatchRead(p, s, c) ==
    /\ patch[p] = NoPatch
    /\ row[s].present
    /\ patch' = [patch EXCEPT ![p] = [pc |-> "read", id |-> s, change |-> c,
                                      was |-> row[s]]]
    /\ UNCHANGED <<clock, row, due, firing, submitted, want, rewound, off>>

(* Variant: the change of the switch is not merged. *)
SwitchStuck(c, on) == on \/ c = "on"

Switch(c, on) == IF c = "keep" THEN on ELSE c = "on"

(* Variant: the change itself is written, not its merge with the row. *)
MergedRaw(x) ==
    [present |-> TRUE, trig |-> x.change.trig,
     enabled |-> Switch(x.change.enabled, x.was.enabled),
     next |-> NextAfter(clock, x.was.trig)]

(* Variant: only a changed trigger re-times the row. *)
MergedKeepingDue(x) ==
    LET t == IF x.change.trig = Keep THEN x.was.trig ELSE x.change.trig
    IN  [present |-> TRUE, trig |-> t,
         enabled |-> Switch(x.change.enabled, x.was.enabled),
         next |-> IF x.change.trig # Keep THEN NextAfter(clock, t) ELSE x.was.next]

(* The columns update() is going to write, from the row it has read. *)
Merged(x) ==
    LET t == IF x.change.trig = Keep THEN x.was.trig ELSE x.change.trig
        enabling == x.change.enabled = "on" /\ ~x.was.enabled
    IN  [present |-> TRUE, trig |-> t,
         enabled |-> Switch(x.change.enabled, x.was.enabled),
         next |-> IF x.change.trig # Keep \/ enabling THEN NextAfter(clock, t)
                  ELSE x.was.next]

PatchCompute(p) ==
    /\ patch[p].pc = "read"
    /\ patch' = [patch EXCEPT ![p] =
                   [pc |-> "write", id |-> @.id, change |-> @.change,
                    new |-> Merged(@)]]
    /\ UNCHANGED <<clock, row, due, firing, submitted, want, rewound, off>>

(* UPDATE ... WHERE id = $1: no row, no effect. *)
PatchWrite(p) ==
    /\ patch[p].pc = "write"
    /\ LET s == patch[p].id IN
        /\ row' = [row EXCEPT ![s] = IF @.present THEN patch[p].new ELSE @]
        /\ want' = [want EXCEPT ![s] = IF patch[p].change.enabled = "keep" THEN @
                                       ELSE patch[p].change.enabled = "on"]
        /\ rewound' = IF row[s].present /\ patch[p].new.next < row[s].next
                      THEN rewound \cup {s} ELSE rewound
    /\ patch' = [patch EXCEPT ![p] = NoPatch]
    /\ UNCHANGED <<clock, due, firing, submitted, off>>

-----------------------------------------------------------------------------
(* Variant: only the rows that are due at this very moment. *)
RunDueExactly(t) ==
    /\ due[t] = {}
    /\ firing[t] = NoFire
    /\ due' = [due EXCEPT ![t] = {s \in ScheduleIds : Due(s, clock) /\ row[s].next = clock}]
    /\ due'[t] # {}
    /\ UNCHANGED <<clock, row, firing, patch, submitted, want, rewound, off>>

(* run_due: select the due ids, then one transaction per id. *)
RunDue(t) ==
    /\ due[t] = {}
    /\ firing[t] = NoFire
    /\ due' = [due EXCEPT ![t] = {s \in ScheduleIds : Due(s, clock)}]
    /\ due'[t] # {}
    /\ UNCHANGED <<clock, row, firing, patch, submitted, want, rewound, off>>

(* _fire takes its own moment before its transaction. *)
FireBegin(t, s) ==
    /\ firing[t] = NoFire
    /\ s \in due[t]
    /\ due' = [due EXCEPT ![t] = @ \ {s}]
    /\ firing' = [firing EXCEPT ![t] = [id |-> s, moment |-> clock]]
    /\ UNCHANGED <<clock, row, patch, submitted, want, rewound, off>>

(* Variant: the row is not looked at again under its lock. *)
StillPresent(s, m) == row[s].present /\ m \in 0..MaxTime

(* SELECT ... WHERE id AND enabled AND next_run <= moment FOR UPDATE *)
StillDue(s, m) == Due(s, m)

(* SKIP LOCKED: another tick may hold the row until it commits. *)
Locked(s, t) == \E u \in Tickers \ {t} : firing[u].id = s

(* The transaction of _fire.  Submitting may fail (the workspace is gone, a    *)
(* parameter no longer validates); the row is advanced either way.             *)
FireCommit(t) ==
    /\ firing[t] # NoFire
    /\ LET s == firing[t].id
           m == firing[t].moment
       IN  \/ /\ StillDue(s, m)
              /\ row' = [row EXCEPT ![s].next = Advance(row[s], m)]
              /\ \/ submitted' = [submitted EXCEPT ![s][row[s].next] = IF @ = 0 THEN 1 ELSE 2]
                 \/ UNCHANGED submitted
           \/ ~StillDue(s, m) /\ UNCHANGED <<row, submitted>>
           \/ Locked(s, t) /\ UNCHANGED <<row, submitted>>
    /\ firing' = [firing EXCEPT ![t] = NoFire]
    /\ UNCHANGED <<clock, due, patch, want, rewound, off>>

(* The worker dies; an open transaction rolls back. *)
Crash(t) ==
    /\ due[t] # {} \/ firing[t] # NoFire
    /\ due' = [due EXCEPT ![t] = {}]
    /\ firing' = [firing EXCEPT ![t] = NoFire]
    /\ UNCHANGED <<clock, row, patch, submitted, want, rewound, off>>

-----------------------------------------------------------------------------
Tick(t) == RunDue(t) \/ (\E s \in ScheduleIds : FireBegin(t, s)) \/ FireCommit(t)

Edit ==
    \/ \E s \in ScheduleIds, t \in Triggers, on \in BOOLEAN : Create(s, t, on)
    \/ \E s \in ScheduleIds : Delete(s)
    \/ \E p \in Patchers :
        \/ \E s \in ScheduleIds, c \in Changes : PatchRead(p, s, c)
        \/ PatchCompute(p)
        \/ PatchWrite(p)

SchedulesNext == Pass \/ Edit \/ \E t \in Tickers : Tick(t) \/ Crash(t)

SchedulesSpec == SchedulesInit /\ [][SchedulesNext]_schedulesVars

(* The worker loop ticks at least every POLL_SECONDS. *)
SchedulesFairSpec == SchedulesSpec /\ \A t \in Tickers : WF_schedulesVars(Tick(t))

-----------------------------------------------------------------------------
Rows == [present : {TRUE}, enabled : BOOLEAN, trig : Triggers, next : Nat]

SchedulesTypeOK ==
    /\ clock \in 0..MaxTime
    /\ row \in [ScheduleIds -> {Unused, Deleted} \cup Rows]
    /\ due \in [Tickers -> SUBSET ScheduleIds]
    /\ firing \in [Tickers -> {NoFire} \cup [id : ScheduleIds, moment : 0..clock]]
    /\ patch \in [Patchers -> {NoPatch}
            \cup [pc : {"read"}, id : ScheduleIds, change : Changes, was : Rows]
            \cup [pc : {"write"}, id : ScheduleIds, change : Changes, new : Rows]]
    /\ submitted \in [ScheduleIds -> [0..MaxTime -> 0..2]]
    /\ want \in [ScheduleIds -> BOOLEAN]
    /\ rewound \subseteq ScheduleIds
    /\ off \in [ScheduleIds -> SUBSET (0..clock)]

(* The due time of a cron row is an instant of its expression, also in what *)
(* a patch has read and is about to write.                                  *)
Aligned(r) == r.trig.kind = "cron" => r.next % r.trig.n = 0
RowsAligned ==
    /\ \A s \in ScheduleIds : row[s].present => Aligned(row[s])
    /\ \A p \in Patchers : /\ patch[p].pc = "read" => Aligned(patch[p].was)
                           /\ patch[p].pc = "write" => Aligned(patch[p].new)

(* What has been fired lies before the row's due time and is not ahead of   *)
(* the clock.                                                               *)
FiredBefore ==
    \A s \in ScheduleIds : \A d \in 0..MaxTime : submitted[s][d] > 0 =>
        /\ d <= clock
        /\ row[s].present /\ s \notin rewound => d < row[s].next

(* The times a row was off at lie before the due time it has when it is on. *)
After(times, r) == r.enabled => \A d \in times : d < r.next
OffBehind == \A s \in ScheduleIds : row[s].present => After(off[s], row[s])

(* A patch is of a row that has been created, maybe deleted since. *)
PatchOfRow == \A p \in Patchers : patch[p].pc # "idle" => row[patch[p].id] # Unused

(* A patch that overlaps no other finds the row as it read it, but for what *)
(* a firing has advanced.                                                   *)
PatchOnTop ==
    \A p \in Patchers : patch[p].pc # "idle" /\ row[patch[p].id].present =>
        LET s == patch[p].id
        IN  /\ patch[p].pc = "read" =>
                /\ patch[p].was.enabled = row[s].enabled
                /\ After(off[s], patch[p].was)
            /\ patch[p].pc = "write" =>
                /\ patch[p].new.enabled = Switch(patch[p].change.enabled, row[s].enabled)
                /\ After(off[s], patch[p].new)

(* A firing that ends and has changed its row. *)
MovesOn ==
    \A t \in Tickers : firing[t] # NoFire /\ firing'[t] = NoFire =>
        LET s == firing[t].id
            m == firing[t].moment
        IN  row'[s] # row[s] =>
            /\ row'[s].next > m
            /\ row'[s].next - row[s].next <= MaxSteps * row[s].trig.n =>
                /\ (row'[s].next - row[s].next) % row[s].trig.n = 0
                /\ row'[s].next - row[s].trig.n <= m

(* schedules.py _advance: a firing moves next_run past the moment of the       *)
(* firing, so missed periods are not caught up one by one, and for a row that  *)
(* is not too far behind it moves by whole periods to the first one past it.   *)
FiringMovesOn == [][MovesOn]_schedulesVars

(* schedules.py _fire: however many ticks overlap, a due time is submitted     *)
(* twice only if a patch has moved next_run back over the firing, and never    *)
(* before it has come.                                                         *)
OncePerDueTime ==
    \A s \in ScheduleIds : \A d \in 0..MaxTime :
        /\ submitted[s][d] <= 1 \/ s \in rewound
        /\ submitted[s][d] > 0 => d <= clock

(* schedules.py header: "Nothing has to be told about the edit and nothing can *)
(* be out of date" -- a schedule is on or off as the last request that said so *)
(* left it.                                                                    *)
SwitchAsSet ==
    \A s \in ScheduleIds : row[s].present => row[s].enabled = want[s]

(* schedules.py update: re-enabling must not mean "fire immediately, then      *)
(* catch up" -- no job is ever submitted for a time at which the schedule was  *)
(* off, whatever is patched in between.                                        *)
NoBurstOnEnable ==
    \A s \in ScheduleIds : \A d \in off[s] : submitted[s][d] = 0

(* What holds of the rows in every state: the types, the switch as it was   *)
(* last set, no job for a time at which the schedule was off; and where due *)
(* times, firings and patches stand to each other, which is why.            *)
SchedulesInv ==
    /\ SchedulesTypeOK /\ RowsAligned /\ FiredBefore /\ OffBehind
    /\ PatchOfRow /\ PatchOnTop
    /\ SwitchAsSet /\ NoBurstOnEnable

(* No two patches overlap. *)
OnePatchAtATime == \A p, q \in Patchers : p = q

Quiet == <>[][\A t \in Tickers : ~Crash(t)]_schedulesVars

(* schedules.py header: "A restart loses nothing" -- a due schedule is         *)
(* eventually fired and advanced, unless it is switched off or deleted.        *)
DueIsFired ==
    Quiet => \A s \in ScheduleIds : Due(s, clock) ~> ~Due(s, clock)
=============================================================================
