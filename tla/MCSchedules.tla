----------------------------- MODULE MCSchedules -----------------------------
(* One schedule on a short clock, one patch at a time. *)
EXTENDS Schedules

CONSTANTS s1, t1, t2, p1

OneId == {s1}
TwoTickers == {t1, t2}
OnePatcher == {p1}

Interval1 == [kind |-> "interval", n |-> 1]
Cron3 == [kind |-> "cron", n |-> 3]
TwoTriggers == {Interval1, Cron3}
=============================================================================
