--------------------------- MODULE JobEventsProofs ---------------------------
(***************************************************************************)
(* EventsInv and ToldTheTruth hold for every number of jobs, waiting calls *)
(* and streams, every queue limit and every bound.  Rows only move on (a   *)
(* log never shrinks, an end never changes), so what a call or a stream    *)
(* has been told stays true; that is Onward.  The steps of the writers are *)
(* then of two kinds, those that announce something (Announced) and those  *)
(* that do not (Quiet), and each reader's step touches one record only.    *)
(***************************************************************************)
EXTENDS JobEvents, SequenceTheorems, TLAPS

IndInv == EventsInv /\ ToldTheTruth

(* From r to s a row moves on. *)
Onward(r, s) ==
    /\ r.logs <= s.logs
    /\ r.status \in Terminal => s.status = r.status

-----------------------------------------------------------------------------
(* The operators on a stream's record.                                     *)

(* What notify sends is an event. *)
LEMMA EventTypes ==
    /\ Silent \in Event
    /\ Progress \in Event
    /\ \A s \in Statuses : Status(s) \in Event
    /\ \A i \in Nat : LogEvent(i) \in Event
BY DEF Silent, Progress, Status, LogEvent, Event

(* Put keeps the queue's type and limit, adds only the event, and touches   *)
(* nothing else of the record.                                              *)
LEMMA PutProperties ==
    ASSUME NEW x \in StreamRecord, NEW e \in Event, Len(x.queue) <= QueueMax
    PROVE  /\ Put(x, e) \in StreamRecord
           /\ Len(Put(x, e).queue) <= QueueMax
           /\ \A i \in DOMAIN Put(x, e).queue :
                 \/ Put(x, e).queue[i] = e
                 \/ \E k \in DOMAIN x.queue : Put(x, e).queue[i] = x.queue[k]
           /\ Put(x, e).pc = x.pc /\ Put(x, e).job = x.job
           /\ Put(x, e).cursor = x.cursor /\ Put(x, e).got = x.got
           /\ Put(x, e).shown = x.shown
<1> DEFINE q == x.queue
<1>0. q \in Seq(Event) /\ Len(q) \in Nat /\ DOMAIN q = 1..Len(q)
  BY DEF StreamRecord
<1>1. QueueMax \in Nat /\ QueueMax > 0
  BY BoundAssumption
<1> DEFINE full == Append(Tail(q), e)
           room == Append(q, e)
<1>2. ASSUME Len(q) = QueueMax
      PROVE  /\ full \in Seq(Event) /\ Len(full) = QueueMax
             /\ \A i \in 1..Len(full) : full[i] = e
                                         \/ \E k \in DOMAIN q : full[i] = q[k]
  <2>1. q # << >>
    BY <1>0, <1>1, <1>2
  <2>2. /\ Tail(q) \in Seq(Event) /\ Len(Tail(q)) = Len(q) - 1
        /\ \A i \in 1..Len(Tail(q)) : Tail(q)[i] = q[i + 1]
    BY <1>0, <2>1, HeadTailProperties
  <2>3. /\ full \in Seq(Event) /\ Len(full) = Len(Tail(q)) + 1
        /\ \A i \in 1..Len(Tail(q)) : full[i] = Tail(q)[i]
        /\ full[Len(Tail(q)) + 1] = e
    BY <2>2, AppendProperties
  <2>4. ASSUME NEW i \in 1..Len(full), full[i] # e
        PROVE  \E k \in DOMAIN q : full[i] = q[k]
    <3>1. i \in 1..Len(Tail(q)) /\ i + 1 \in DOMAIN q
      BY <1>0, <1>1, <1>2, <2>2, <2>3, <2>4
    <3>2. full[i] = q[i + 1]
      BY <2>2, <2>3, <3>1
    <3> QED BY <3>1, <3>2
  <2> QED BY <1>0, <1>1, <1>2, <2>2, <2>3, <2>4
<1>3. ASSUME Len(q) # QueueMax
      PROVE  /\ room \in Seq(Event) /\ Len(room) <= QueueMax
             /\ \A i \in 1..Len(room) : room[i] = e
                                         \/ \E k \in DOMAIN q : room[i] = q[k]
  <2>1. /\ room \in Seq(Event) /\ Len(room) = Len(q) + 1
        /\ \A i \in 1..Len(q) : room[i] = q[i]
        /\ room[Len(q) + 1] = e
    BY <1>0, AppendProperties
  <2> QED BY <1>0, <1>1, <1>3, <2>1
<1> DEFINE n == IF Len(q) = QueueMax THEN full ELSE room
<1>4. /\ n \in Seq(Event) /\ Len(n) <= QueueMax /\ DOMAIN n = 1..Len(n)
      /\ \A i \in 1..Len(n) : n[i] = e \/ \E k \in DOMAIN q : n[i] = q[k]
  <2>1. CASE Len(q) = QueueMax
    <3>1. n = full
      BY <2>1
    <3> HIDE DEF full, n
    <3> QED BY <1>1, <1>2, <2>1, <3>1
  <2>2. CASE Len(q) # QueueMax
    <3>1. n = room
      BY <2>2
    <3> HIDE DEF room, n
    <3> QED BY <1>3, <2>2, <3>1
  <2> QED BY <2>1, <2>2
<1>5. Put(x, e) = [x EXCEPT !.queue = n]
  BY DEF Put
<1> HIDE DEF n
<1>6. /\ [x EXCEPT !.queue = n] \in StreamRecord
      /\ [x EXCEPT !.queue = n].queue = n
      /\ [x EXCEPT !.queue = n].pc = x.pc /\ [x EXCEPT !.queue = n].job = x.job
      /\ [x EXCEPT !.queue = n].cursor = x.cursor
      /\ [x EXCEPT !.queue = n].got = x.got /\ [x EXCEPT !.queue = n].shown = x.shown
  BY <1>4 DEF StreamRecord
<1> QED BY <1>4, <1>5, <1>6

(* A stream that is behind a row is behind what the row becomes. *)
LEMMA BehindOnward ==
    ASSUME NEW x \in StreamRecord, NEW r \in JobRow, NEW s \in JobRow,
           Behind(x, r), Onward(r, s)
    PROVE  Behind(x, s)
<1>1. \A i \in DOMAIN x.queue : x.queue[i] \in Event
  BY DEF StreamRecord
<1>2. r.logs \in Nat /\ s.logs \in Nat /\ r.logs <= s.logs /\ x.cursor \in Nat
  BY DEF Onward, JobRow, StreamRecord
<1>3. x.cursor <= s.logs
  BY <1>2 DEF Behind
<1>4. ASSUME NEW i \in DOMAIN x.queue, x.queue[i].event = "log"
      PROVE  x.queue[i].id <= s.logs
  <2>1. x.queue[i].id <= r.logs
    BY <1>4 DEF Behind
  <2>2. x.queue[i].id \in Nat
    BY <1>1 DEF Event
  <2> QED BY <1>2, <2>1, <2>2
<1>5. x.shown \in Terminal => x.shown = s.status
  BY DEF Behind, Onward
<1> QED BY <1>3, <1>4, <1>5 DEF Behind

(* It stays behind when an event reaches its queue, if a log event is of a  *)
(* line that is in the table.                                               *)
LEMMA PutBehind ==
    ASSUME NEW x \in StreamRecord, NEW e \in Event, NEW r, Behind(x, r),
           Len(x.queue) <= QueueMax, e.event = "log" => e.id <= r.logs
    PROVE  Behind(Put(x, e), r)
<1> DEFINE y == Put(x, e)
<1>1. /\ y.cursor = x.cursor /\ y.shown = x.shown
      /\ \A i \in DOMAIN y.queue : \/ y.queue[i] = e
                                   \/ \E k \in DOMAIN x.queue : y.queue[i] = x.queue[k]
  BY PutProperties
<1> HIDE DEF y
<1>2. Behind(y, r)
  BY <1>1 DEF Behind
<1> QED BY <1>2 DEF y

-----------------------------------------------------------------------------
(* The steps of the writers.                                               *)

(* Rows that moved on under readers that did not. *)
LEMMA Quiet ==
    ASSUME IndInv, UNCHANGED <<waiter, stream>>,
           job' \in [Jobs -> JobRow], worker' \in [up : BOOLEAN, deaths : Nat],
           JobInv',
           \A k \in Jobs : Onward(job[k], job'[k]),
           \A k \in Jobs : job'[k].announced => job[k].announced
    PROVE  IndInv'
<1> USE DEF IndInv, EventsInv, TypeOK
<1>1. TypeOK'
  OBVIOUS
<1>2. WaitInv'
  BY Zenon DEF WaitInv, Onward, WaitRecord
<1>3. StreamInv'
  <2> SUFFICES ASSUME NEW c \in Streams, stream[c].job \in Jobs
               PROVE  Behind(stream[c], job'[stream[c].job])
    BY Zenon DEF StreamInv
  <2> DEFINE x == stream[c]
             r == job[x.job]
             s == job'[x.job]
  <2>1. Behind(x, r) /\ Onward(r, s) /\ x \in StreamRecord
    BY DEF StreamInv
  <2>2. r \in JobRow /\ s \in JobRow
    OBVIOUS
  <2> HIDE DEF x, r, s
  <2>3. Behind(x, s)
    BY <2>1, <2>2, BehindOnward
  <2> QED BY <2>3 DEF x, s
<1>4. NoLostWakeup'
  BY DEF NoLostWakeup, WaitInv
<1>5. LogOnceInOrder'
  BY DEF LogOnceInOrder
<1>6. ToldTheTruth'
  <2>1. ASSUME NEW w \in Waiters
        PROVE  /\ waiter[w].ans = "ok" => job'[waiter[w].job].status = "complete"
               /\ waiter[w].ans = "502" =>
                     job'[waiter[w].job].status \in {"failed", "cancelled"}
    <3>1. waiter[w].ans # "none" => waiter[w].job \in Jobs
      BY DEF WaitInv
    <3>2. waiter[w].ans \in {"ok", "502"} => job[waiter[w].job].status \in Terminal
      BY DEF ToldTheTruth, Terminal
    <3> QED BY <3>1, <3>2 DEF ToldTheTruth, Onward
  <2>2. ASSUME NEW c \in Streams, stream[c].pc = "ended"
        PROVE  stream[c].shown \in Terminal
               /\ stream[c].shown = job'[stream[c].job].status
    <3>1. stream[c].job \in Jobs
      BY <2>2 DEF StreamInv, StreamRecord
    <3>2. stream[c].shown \in Terminal /\ stream[c].shown = job[stream[c].job].status
      BY <2>2 DEF ToldTheTruth
    <3> QED BY <3>1, <3>2 DEF Onward
  <2> QED BY <2>1, <2>2, Zenon DEF ToldTheTruth
<1> QED BY <1>1, <1>2, <1>3, <1>4, <1>5, <1>6

(* Rows that moved on, and an event of job j that reached its listeners: it *)
(* speaks of a line in the table, and of an end only when j has ended.      *)
LEMMA Announced ==
    ASSUME IndInv, NEW j \in Jobs, NEW e \in Event, Notify(j, e),
           job' \in [Jobs -> JobRow], worker' \in [up : BOOLEAN, deaths : Nat],
           JobInv',
           \A k \in Jobs : Onward(job[k], job'[k]),
           e.event = "log" => e.id <= job'[j].logs,
           e.status \in Terminal => job'[j].status \in Terminal,
           \A k \in Jobs : job'[k].announced =>
                               job[k].announced \/ (k = j /\ e.status \in Terminal)
    PROVE  IndInv'
<1> USE DEF IndInv, EventsInv, TypeOK
<1>1. ASSUME NEW c \in Streams
      PROVE  /\ stream'[c] \in StreamRecord /\ Len(stream'[c].queue) <= QueueMax
             /\ stream'[c].pc = stream[c].pc /\ stream'[c].job = stream[c].job
             /\ stream'[c].cursor = stream[c].cursor /\ stream'[c].got = stream[c].got
             /\ stream'[c].shown = stream[c].shown
             /\ stream[c].pc = "off" => stream'[c] = stream[c]
             /\ stream[c].job \in Jobs => Behind(stream'[c], job'[stream[c].job])
  <2>0. stream[c] \in StreamRecord /\ Len(stream[c].queue) <= QueueMax
    OBVIOUS
  <2>1. stream[c].job \in Jobs => Behind(stream[c], job'[stream[c].job])
    <3> SUFFICES ASSUME stream[c].job \in Jobs
                 PROVE  Behind(stream[c], job'[stream[c].job])
      OBVIOUS
    <3>1. Behind(stream[c], job[stream[c].job])
      BY DEF StreamInv
    <3> QED BY <2>0, <3>1, BehindOnward
  <2>2. CASE Attached(c, j)
    <3>1. stream'[c] = Put(stream[c], e)
      BY <2>2 DEF Notify
    <3>2. stream[c].job = j /\ stream[c].pc # "off"
      BY <2>2 DEF Attached
    <3>3. Behind(Put(stream[c], e), job'[j])
      BY <2>0, <2>1, <3>2, PutBehind
    <3> QED BY <2>0, <3>1, <3>2, <3>3, PutProperties
  <2>3. CASE ~Attached(c, j)
    <3>1. stream'[c] = stream[c]
      BY <2>3 DEF Notify
    <3> QED BY <2>0, <2>1, <3>1
  <2> QED BY <2>2, <2>3
<1>2. ASSUME NEW w \in Waiters
      PROVE  /\ waiter'[w] \in WaitRecord
             /\ waiter'[w].pc = waiter[w].pc /\ waiter'[w].job = waiter[w].job
             /\ waiter'[w].ans = waiter[w].ans
             /\ waiter'[w].done = (waiter[w].done \/ Wakes(w, j, e))
  <2>1. waiter[w] \in WaitRecord /\ Wakes(w, j, e) \in BOOLEAN
    BY DEF Wakes
  <2>2. waiter'[w] = [waiter[w] EXCEPT !.done = @ \/ Wakes(w, j, e)]
    BY DEF Notify
  <2> QED BY <2>1, <2>2 DEF WaitRecord
<1>3. TypeOK'
  <2>1. stream' \in [Streams -> StreamRecord]
    BY <1>1, Zenon DEF Notify
  <2>2. waiter' \in [Waiters -> WaitRecord]
    BY <1>2, Zenon DEF Notify
  <2> QED BY <1>1, <2>1, <2>2
<1>4. WaitInv'
  <2> SUFFICES ASSUME NEW w \in Waiters
               PROVE  /\ waiter'[w].pc = "idle" => ~waiter'[w].done
                      /\ waiter'[w].pc # "idle" => waiter'[w].job \in Jobs
                      /\ waiter'[w].done => job'[waiter'[w].job].status \in Terminal
                      /\ waiter'[w].ans # "none" => waiter'[w].pc = "answered"
    BY DEF WaitInv
  <2>1. ASSUME waiter[w].done
        PROVE  job'[waiter[w].job].status \in Terminal
    BY <2>1 DEF WaitInv, Onward
  <2>2. Wakes(w, j, e) => job'[waiter[w].job].status \in Terminal /\ waiter[w].pc # "idle"
    BY DEF Wakes
  <2> QED BY <1>2, <2>1, <2>2 DEF WaitInv
<1>5. StreamInv'
  <2> SUFFICES ASSUME NEW c \in Streams
               PROVE  LET x == stream'[c] IN
                      /\ x.job = "none" => x.pc = "off" /\ x.cursor = 0 /\ x.shown = "none"
                      /\ x.job \in Jobs => Behind(x, job'[x.job])
                      /\ x.pc = "off" => x.queue = <<>>
                      /\ x.pc = "ended" => x.shown \in Terminal
                      /\ \A i \in DOMAIN x.got : x.got[i] <= x.cursor
    BY Zenon DEF StreamInv
  <2> QED BY <1>1 DEF StreamInv
<1>6. NoLostWakeup'
  <2> SUFFICES ASSUME NEW w \in Waiters, waiter[w].pc = "wait",
                      job'[waiter[w].job].announced
               PROVE  waiter[w].done \/ Wakes(w, j, e)
    BY <1>2 DEF NoLostWakeup
  <2>1. waiter[w].job \in Jobs
    BY DEF WaitInv
  <2> QED BY <2>1 DEF NoLostWakeup, Wakes
<1>7. LogOnceInOrder'
  BY <1>1 DEF LogOnceInOrder
<1>8. ToldTheTruth'
  <2>1. ASSUME NEW w \in Waiters
        PROVE  /\ waiter'[w].ans = "ok" => job'[waiter'[w].job].status = "complete"
               /\ waiter'[w].ans = "502" =>
                     job'[waiter'[w].job].status \in {"failed", "cancelled"}
    <3>1. waiter[w].ans # "none" => waiter[w].job \in Jobs
      BY DEF WaitInv
    <3>2. waiter[w].ans \in {"ok", "502"} => job[waiter[w].job].status \in Terminal
      BY DEF ToldTheTruth, Terminal
    <3> QED BY <1>2, <3>1, <3>2 DEF ToldTheTruth, Onward
  <2>2. ASSUME NEW c \in Streams, stream'[c].pc = "ended"
        PROVE  stream'[c].shown \in Terminal
               /\ stream'[c].shown = job'[stream'[c].job].status
    <3>1. stream[c].job \in Jobs
      BY <1>1, <2>2 DEF StreamInv, StreamRecord
    <3>2. stream[c].shown \in Terminal /\ stream[c].shown = job[stream[c].job].status
      BY <1>1, <2>2 DEF ToldTheTruth
    <3> QED BY <1>1, <3>1, <3>2 DEF Onward
  <2> QED BY <2>1, <2>2, Zenon DEF ToldTheTruth
<1> QED BY <1>3, <1>4, <1>5, <1>6, <1>7, <1>8

(* One row becomes s. *)
LEMMA OneRow ==
    ASSUME IndInv, NEW j \in Jobs, NEW s \in JobRow, UNCHANGED worker,
           job' = [job EXCEPT ![j] = s],
           RowOK(s), s.live => worker.up, Onward(job[j], s)
    PROVE  /\ job' \in [Jobs -> JobRow] /\ worker' \in [up : BOOLEAN, deaths : Nat]
           /\ JobInv'
           /\ \A k \in Jobs : Onward(job[k], job'[k])
           /\ \A k \in Jobs : job'[k] = IF k = j THEN s ELSE job[k]
<1> USE DEF IndInv, EventsInv, TypeOK
<1>1. \A k \in Jobs : job'[k] = IF k = j THEN s ELSE job[k]
  OBVIOUS
<1>2. job' \in [Jobs -> JobRow]
  OBVIOUS
<1>3. JobInv'
  <2> SUFFICES ASSUME NEW k \in Jobs
               PROVE  RowOK(job'[k]) /\ (job'[k].live => worker.up)
    BY Zenon DEF JobInv
  <2> QED BY <1>1 DEF JobInv
<1>4. \A k \in Jobs : Onward(job[k], job'[k])
  <2> SUFFICES ASSUME NEW k \in Jobs PROVE Onward(job[k], job'[k])
    OBVIOUS
  <2>1. job[k] \in JobRow /\ Onward(job[k], job[k])
    BY DEF JobRow, Onward
  <2> QED BY <1>1, <2>1
<1> QED BY <1>1, <1>2, <1>3, <1>4

(* The facts about a row that the steps start from. *)
LEMMA RowFacts ==
    ASSUME IndInv, NEW j \in Jobs
    PROVE  job[j] \in JobRow /\ RowOK(job[j]) /\ (job[j].live => worker.up)
BY DEF IndInv, EventsInv, TypeOK, JobInv

LEMMA GreetInd == ASSUME IndInv, NEW j \in Jobs, Greet(j) PROVE IndInv'
<1> DEFINE s == [job[j] EXCEPT !.greeted = TRUE]
<1>1. job[j] \in JobRow /\ RowOK(job[j]) /\ (job[j].live => worker.up)
  BY RowFacts
<1>2. s \in JobRow /\ RowOK(s) /\ Onward(job[j], s) /\ (s.live => worker.up)
      /\ s.announced = job[j].announced
  <2>1. s \in JobRow
    BY <1>1 DEF JobRow
  <2>2. /\ s.status = job[j].status /\ s.logs = job[j].logs /\ s.live = job[j].live
        /\ s.pend = job[j].pend /\ s.announced = job[j].announced
    BY <1>1 DEF JobRow
  <2>3. job[j].logs \in Nat
    BY <1>1 DEF JobRow
  <2> HIDE DEF s
  <2> QED BY <1>1, <2>1, <2>2, <2>3 DEF RowOK, Onward
<1>3. job' = [job EXCEPT ![j] = s] /\ UNCHANGED worker /\ Notify(j, Status("queued"))
  BY DEF Greet
<1> DEFINE e == Status("queued")
<1>4. e \in Event /\ e.event # "log" /\ e.status \notin Terminal
  BY EventTypes DEF Status, Statuses, Terminal
<1> HIDE DEF s, e
<1> QED BY <1>2, <1>3, <1>4, OneRow, Announced DEF e

LEMMA ClaimInd == ASSUME IndInv, NEW j \in Jobs, Claim(j) PROVE IndInv'
<1> DEFINE s == [job[j] EXCEPT !.status = "running", !.live = TRUE]
           e == Status("running")
<1>1. /\ job[j] \in JobRow /\ RowOK(job[j]) /\ worker.up
      /\ job[j].status = "queued"
  BY RowFacts DEF Claim
<1>2. s \in JobRow
  BY <1>1 DEF JobRow, Statuses
<1>3. RowOK(s) /\ Onward(job[j], s) /\ s.announced = job[j].announced
  <2>1. /\ s.status = "running" /\ s.logs = job[j].logs /\ s.live = TRUE
        /\ s.pend = job[j].pend /\ s.announced = job[j].announced /\ job[j].logs \in Nat
    BY <1>1 DEF JobRow
  <2> HIDE DEF s
  <2> QED BY <1>1, <2>1 DEF RowOK, Onward, Terminal
<1>4. job' = [job EXCEPT ![j] = s] /\ UNCHANGED worker /\ Notify(j, Status("running"))
  BY DEF Claim
<1>5. e \in Event /\ e.event # "log" /\ e.status \notin Terminal
  BY EventTypes DEF Status, Statuses, Terminal
<1> HIDE DEF s, e
<1> QED BY <1>1, <1>2, <1>3, <1>4, <1>5, OneRow, Announced DEF e

LEMMA LogRowInd == ASSUME IndInv, NEW j \in Jobs, LogRow(j) PROVE IndInv'
<1> DEFINE n == job[j].logs + 1
           s == [job[j] EXCEPT !.logs = n, !.pend = LogEvent(n)]
<1>1. /\ job[j] \in JobRow /\ RowOK(job[j]) /\ (job[j].live => worker.up)
      /\ job[j].live /\ job[j].pend = Silent
  BY RowFacts DEF LogRow
<1>2. n \in Nat /\ LogEvent(n) \in Event /\ job[j].logs <= n
  BY <1>1, EventTypes DEF JobRow
<1>3. job[j].status = "running" /\ ~job[j].announced
  BY <1>1 DEF RowOK, Silent, Status
<1>4. job' = [job EXCEPT ![j] = s] /\ UNCHANGED <<worker, waiter, stream>>
  BY DEF LogRow
<1>5. LogEvent(n).status = "none" /\ LogEvent(n).id = n
  BY DEF LogEvent
<1> HIDE DEF n
<1>6. s \in JobRow
  BY <1>1, <1>2 DEF JobRow
<1>7. RowOK(s) /\ Onward(job[j], s) /\ s.live = job[j].live /\ s.announced = job[j].announced
  <2>1. /\ s.status = job[j].status /\ s.logs = n /\ s.live = job[j].live
        /\ s.pend = LogEvent(n) /\ s.announced = job[j].announced
    BY <1>1 DEF JobRow
  <2> HIDE DEF s
  <2> QED BY <1>1, <1>2, <1>3, <1>5, <2>1 DEF RowOK, Onward, Terminal
<1> HIDE DEF s
<1> QED BY <1>1, <1>4, <1>6, <1>7, OneRow, Quiet

LEMMA ReportInd == ASSUME IndInv, NEW j \in Jobs, Report(j) PROVE IndInv'
<1> DEFINE e == Progress
<1>1. Notify(j, e) /\ UNCHANGED <<job, worker>>
  BY DEF Report
<1>2. e \in Event /\ e.event # "log" /\ e.status \notin Terminal
  BY EventTypes DEF Progress, Terminal
<1>3. job[j] \in JobRow /\ RowOK(job[j]) /\ (job[j].live => worker.up)
  BY RowFacts
<1>4. Onward(job[j], job[j]) /\ job' = [job EXCEPT ![j] = job[j]]
  BY <1>1, <1>3 DEF Onward, JobRow, IndInv, EventsInv, TypeOK
<1> HIDE DEF e
<1> QED BY <1>1, <1>2, <1>3, <1>4, OneRow, Announced

LEMMA FinishRowInd ==
    ASSUME IndInv, NEW j \in Jobs, NEW t \in Terminal, FinishRow(j, t) PROVE IndInv'
<1> DEFINE s == [job[j] EXCEPT !.status = t, !.pend = Status(t)]
<1>1. /\ job[j] \in JobRow /\ RowOK(job[j]) /\ (job[j].live => worker.up)
      /\ job[j].live /\ job[j].pend = Silent
  BY RowFacts DEF FinishRow
<1>2. t \in Statuses /\ Status(t) \in Event
  BY EventTypes DEF Statuses
<1>3. job[j].status = "running" /\ ~job[j].announced
  BY <1>1 DEF RowOK, Silent, Status
<1>4. job' = [job EXCEPT ![j] = s] /\ UNCHANGED <<worker, waiter, stream>>
  BY DEF FinishRow
<1>5. Status(t).status = t /\ Status(t).event = "status"
  BY DEF Status
<1>6. s \in JobRow
  BY <1>1, <1>2 DEF JobRow
<1>7. RowOK(s) /\ Onward(job[j], s) /\ s.live = job[j].live /\ s.announced = job[j].announced
  <2>1. /\ s.status = t /\ s.logs = job[j].logs /\ s.live = job[j].live
        /\ s.pend = Status(t) /\ s.announced = job[j].announced /\ job[j].logs \in Nat
    BY <1>1 DEF JobRow
  <2> HIDE DEF s
  <2> QED BY <1>1, <1>2, <1>3, <1>5, <2>1 DEF RowOK, Onward, Terminal
<1> HIDE DEF s
<1> QED BY <1>1, <1>4, <1>6, <1>7, OneRow, Quiet

LEMMA CancelRowInd == ASSUME IndInv, NEW j \in Jobs, CancelRow(j) PROVE IndInv'
<1> DEFINE t == "cancelled"
           s == [job[j] EXCEPT !.status = t, !.pend = Status(t)]
<1>1. /\ job[j] \in JobRow /\ RowOK(job[j]) /\ (job[j].live => worker.up)
      /\ job[j].status = "queued" /\ job[j].pend = Silent
  BY RowFacts DEF CancelRow
<1>2. t \in Statuses /\ t \in Terminal /\ Status(t) \in Event
  BY EventTypes DEF Statuses, Terminal
<1>3. ~job[j].live /\ ~job[j].announced
  BY <1>1 DEF RowOK, Terminal
<1>4. job' = [job EXCEPT ![j] = s] /\ UNCHANGED <<worker, waiter, stream>>
  BY DEF CancelRow
<1>5. Status(t).status = t /\ Status(t).event = "status"
  BY DEF Status
<1> HIDE DEF t
<1>6. s \in JobRow
  BY <1>1, <1>2 DEF JobRow
<1>7. RowOK(s) /\ Onward(job[j], s) /\ s.live = job[j].live /\ s.announced = job[j].announced
  <2>1. /\ s.status = t /\ s.logs = job[j].logs /\ s.live = job[j].live
        /\ s.pend = Status(t) /\ s.announced = job[j].announced /\ job[j].logs \in Nat
    BY <1>1 DEF JobRow
  <2> HIDE DEF s
  <2> QED BY <1>1, <1>2, <1>3, <1>5, <2>1 DEF RowOK, Onward, Terminal
<1> HIDE DEF s
<1> QED BY <1>1, <1>4, <1>6, <1>7, OneRow, Quiet

LEMMA TellInd == ASSUME IndInv, NEW j \in Jobs, Tell(j) PROVE IndInv'
<1> DEFINE e == job[j].pend
           l == job[j].live /\ job[j].status = "running"
           a == e.status \in Terminal
           s == [job[j] EXCEPT !.pend = Silent, !.live = l, !.announced = a]
<1>1. /\ job[j] \in JobRow /\ RowOK(job[j]) /\ (job[j].live => worker.up)
  BY RowFacts
<1>2. e \in Event /\ l \in BOOLEAN /\ a \in BOOLEAN /\ Silent \in Event
  BY <1>1, EventTypes DEF JobRow
<1>3. Silent.status \notin Terminal /\ Silent.event # "log"
  BY DEF Silent, Terminal
<1>4. job' = [job EXCEPT ![j] = s] /\ UNCHANGED worker /\ Notify(j, e)
  BY DEF Tell
<1>5. /\ a => job[j].status \in Terminal
      /\ e.event = "log" => e.id <= job[j].logs
      /\ l => job[j].live /\ job[j].status = "running"
  BY <1>1 DEF RowOK
<1>6. a => ~l
  BY <1>5 DEF Terminal
<1> HIDE DEF l, a
<1>7. s \in JobRow
  BY <1>1, <1>2 DEF JobRow
<1>8. /\ s.announced = a /\ s.live = l /\ s.logs = job[j].logs
      /\ s.status = job[j].status /\ s.pend = Silent /\ job[j].logs \in Nat
  BY <1>1 DEF JobRow
<1> HIDE DEF s
<1>10. RowOK(s) /\ Onward(job[j], s)
  BY <1>1, <1>2, <1>3, <1>5, <1>6, <1>8 DEF RowOK, Onward
<1> HIDE DEF e
<1>9. /\ job' \in [Jobs -> JobRow] /\ worker' \in [up : BOOLEAN, deaths : Nat]
      /\ JobInv'
      /\ \A k \in Jobs : Onward(job[k], job'[k])
      /\ \A k \in Jobs : job'[k] = IF k = j THEN s ELSE job[k]
  BY <1>1, <1>4, <1>5, <1>7, <1>8, <1>10, OneRow
<1> QED BY <1>2, <1>4, <1>5, <1>8, <1>9, Announced DEF a

LEMMA TellFailsInd == ASSUME IndInv, NEW j \in Jobs, TellFails(j) PROVE IndInv'
<1> DEFINE l == job[j].live /\ job[j].status = "running"
           s == [job[j] EXCEPT !.pend = Silent, !.live = l]
<1>1. /\ job[j] \in JobRow /\ RowOK(job[j]) /\ (job[j].live => worker.up)
  BY RowFacts
<1>2. l \in BOOLEAN /\ Silent \in Event /\ (l => job[j].live /\ job[j].status = "running")
  BY <1>1, EventTypes DEF JobRow
<1>3. Silent.status \notin Terminal /\ Silent.event # "log"
  BY DEF Silent, Terminal
<1>4. job' = [job EXCEPT ![j] = s] /\ UNCHANGED <<worker, waiter, stream>>
  BY DEF TellFails
<1> HIDE DEF l
<1>5. s \in JobRow
  BY <1>1, <1>2 DEF JobRow
<1>6. /\ s.announced = job[j].announced /\ s.live = l /\ s.logs = job[j].logs
      /\ s.status = job[j].status /\ s.pend = Silent /\ job[j].logs \in Nat
  BY <1>1 DEF JobRow
<1> HIDE DEF s
<1>7. RowOK(s) /\ Onward(job[j], s)
  BY <1>1, <1>2, <1>3, <1>6 DEF RowOK, Onward
<1> QED BY <1>1, <1>2, <1>4, <1>5, <1>6, <1>7, OneRow, Quiet

LEMMA WorkerDiesInd == ASSUME IndInv, WorkerDies PROVE IndInv'
<1>1. /\ worker' \in [up : BOOLEAN, deaths : Nat] /\ ~worker'.up
      /\ UNCHANGED <<waiter, stream>>
  <2>1. worker.deaths \in Nat /\ worker.deaths + 1 \in Nat
    BY DEF IndInv, EventsInv, TypeOK
  <2> QED BY <2>1 DEF WorkerDies
<1>2. ASSUME NEW k \in Jobs
      PROVE  /\ job'[k] \in JobRow /\ RowOK(job'[k]) /\ ~job'[k].live
             /\ Onward(job[k], job'[k]) /\ job'[k].announced = job[k].announced
  <2> DEFINE s == [job[k] EXCEPT !.live = FALSE, !.pend = Silent]
  <2>1. job[k] \in JobRow /\ RowOK(job[k]) /\ job[k].logs \in Nat
    BY RowFacts DEF JobRow
  <2>2. job'[k] = IF job[k].live THEN s ELSE job[k]
    BY Zenon DEF WorkerDies
  <2>3. CASE job[k].live
    <3>1. Silent \in Event /\ Silent.status \notin Terminal /\ Silent.event # "log"
      BY EventTypes DEF Silent, Terminal
    <3>2. s \in JobRow
      BY <2>1, <3>1 DEF JobRow
    <3>3. /\ s.announced = job[k].announced /\ s.live = FALSE /\ s.logs = job[k].logs
          /\ s.status = job[k].status /\ s.pend = Silent
      BY <2>1 DEF JobRow
    <3> HIDE DEF s
    <3>4. RowOK(s) /\ Onward(job[k], s)
      BY <2>1, <3>1, <3>3 DEF RowOK, Onward
    <3> QED BY <2>2, <2>3, <3>2, <3>3, <3>4
  <2>4. CASE ~job[k].live
    <3>1. Onward(job[k], job[k])
      BY <2>1 DEF Onward
    <3> QED BY <2>1, <2>2, <2>4, <3>1
  <2> QED BY <2>3, <2>4
<1>3. job' \in [Jobs -> JobRow]
  BY <1>2, Zenon DEF WorkerDies
<1>4. JobInv'
  BY <1>2, Zenon DEF JobInv
<1> QED BY <1>1, <1>2, <1>3, <1>4, Quiet

LEMMA WorkerStartsInd == ASSUME IndInv, WorkerStarts PROVE IndInv'
<1>1. /\ worker' \in [up : BOOLEAN, deaths : Nat] /\ worker'.up /\ ~worker.up
      /\ UNCHANGED <<waiter, stream>>
  BY DEF WorkerStarts, IndInv, EventsInv, TypeOK
<1>2. ASSUME NEW k \in Jobs
      PROVE  /\ job'[k] \in JobRow /\ RowOK(job'[k])
             /\ Onward(job[k], job'[k]) /\ job'[k].announced = job[k].announced
  <2> DEFINE n == job[k].logs + 1
             s == [job[k] EXCEPT !.status = "queued", !.logs = n, !.pend = LogEvent(n)]
  <2>1. job[k] \in JobRow /\ RowOK(job[k]) /\ job[k].logs \in Nat /\ ~job[k].live
    BY <1>1, RowFacts DEF JobRow
  <2>2. job'[k] = IF job[k].status = "running"
                  THEN [job[k] EXCEPT !.status = "queued", !.logs = @ + 1,
                                      !.pend = LogEvent(job[k].logs + 1)]
                  ELSE job[k]
    BY Zenon DEF WorkerStarts
  <2>3. CASE job[k].status = "running"
    <3>1. /\ n \in Nat /\ LogEvent(n) \in Event /\ job[k].logs <= n
          /\ LogEvent(n).status \notin Terminal /\ LogEvent(n).id = n
      BY <2>1, EventTypes DEF LogEvent, Terminal
    <3>2. job'[k] = s
      BY <2>2, <2>3
    <3> HIDE DEF n
    <3>3. s \in JobRow
      BY <2>1, <3>1 DEF JobRow, Statuses
    <3>4. /\ s.announced = job[k].announced /\ s.live = job[k].live /\ s.logs = n
          /\ s.status = "queued" /\ s.pend = LogEvent(n)
      BY <2>1 DEF JobRow
    <3> HIDE DEF s
    <3>5. ~job[k].announced
      BY <2>1, <2>3 DEF RowOK, Terminal
    <3>6. RowOK(s) /\ Onward(job[k], s)
      BY <2>1, <2>3, <3>1, <3>4, <3>5 DEF RowOK, Onward, Terminal
    <3> QED BY <3>2, <3>3, <3>4, <3>6
  <2>4. CASE job[k].status # "running"
    <3>1. Onward(job[k], job[k])
      BY <2>1 DEF Onward
    <3> QED BY <2>1, <2>2, <2>4, <3>1
  <2> QED BY <2>3, <2>4
<1>3. job' \in [Jobs -> JobRow]
  BY <1>2, Zenon DEF WorkerStarts
<1>4. JobInv'
  BY <1>1, <1>2, Zenon DEF JobInv
<1> QED BY <1>1, <1>2, <1>3, <1>4, Quiet

-----------------------------------------------------------------------------
(* The steps of a waiting call.                                            *)

(* One call's record becomes y. *)
LEMMA OneWait ==
    ASSUME IndInv, NEW w \in Waiters, NEW y \in WaitRecord,
           waiter' = [waiter EXCEPT ![w] = y], UNCHANGED <<job, worker, stream>>,
           y.pc # "idle", y.job \in Jobs,
           y.done => job[y.job].status \in Terminal,
           y.ans # "none" => y.pc = "answered",
           y.pc = "wait" /\ job[y.job].announced => y.done,
           y.ans = "ok" => job[y.job].status = "complete",
           y.ans = "502" => job[y.job].status \in {"failed", "cancelled"}
    PROVE  IndInv'
<1> USE DEF IndInv, EventsInv, TypeOK
<1>1. \A v \in Waiters : waiter'[v] = IF v = w THEN y ELSE waiter[v]
  OBVIOUS
<1>2. TypeOK'
  OBVIOUS
<1>3. JobInv'
  BY DEF JobInv
<1>4. WaitInv'
  BY <1>1 DEF WaitInv
<1>5. StreamInv'
  BY Zenon DEF StreamInv
<1>6. NoLostWakeup'
  BY <1>1 DEF NoLostWakeup
<1>7. LogOnceInOrder'
  BY DEF LogOnceInOrder
<1>8. ToldTheTruth'
  BY <1>1 DEF ToldTheTruth
<1> QED BY <1>2, <1>3, <1>4, <1>5, <1>6, <1>7, <1>8

(* The facts about a call that the steps start from. *)
LEMMA WaitFacts ==
    ASSUME IndInv, NEW w \in Waiters
    PROVE  /\ waiter[w] \in WaitRecord
           /\ waiter[w].pc = "idle" => ~waiter[w].done
           /\ waiter[w].pc # "idle" => waiter[w].job \in Jobs
           /\ waiter[w].done => job[waiter[w].job].status \in Terminal
           /\ waiter[w].ans # "none" => waiter[w].pc = "answered"
BY DEF IndInv, EventsInv, TypeOK, WaitInv

LEMMA WaitListenInd ==
    ASSUME IndInv, NEW w \in Waiters, NEW j \in Jobs, WaitListen(w, j) PROVE IndInv'
<1> DEFINE y == [waiter[w] EXCEPT !.pc = "row", !.job = j]
<1>1. waiter[w] \in WaitRecord /\ waiter[w].pc = "idle" /\ ~waiter[w].done
      /\ waiter[w].ans = "none"
  BY WaitFacts DEF WaitListen
<1>2. waiter' = [waiter EXCEPT ![w] = y] /\ UNCHANGED <<job, worker, stream>>
  BY DEF WaitListen
<1>3. y \in WaitRecord
  BY <1>1 DEF WaitRecord
<1>4. y.pc = "row" /\ y.job = j /\ y.done = waiter[w].done /\ y.ans = waiter[w].ans
  BY <1>1 DEF WaitRecord
<1> HIDE DEF y
<1> QED BY <1>1, <1>2, <1>3, <1>4, OneWait

(* A call is answered by the row of a job that has ended, or gives up. *)
LEMMA AnswerInd ==
    ASSUME IndInv, NEW w \in Waiters, NEW a \in {"ok", "502", "504"}, Answer(w, a),
           UNCHANGED <<job, worker, stream>>, waiter[w].pc # "idle",
           a # "504" => job[waiter[w].job].status \in Terminal
                        /\ a = Verdict(waiter[w].job)
    PROVE  IndInv'
<1> DEFINE y == [waiter[w] EXCEPT !.pc = "answered", !.ans = a]
<1>1. /\ waiter[w] \in WaitRecord /\ waiter[w].job \in Jobs
      /\ waiter[w].done => job[waiter[w].job].status \in Terminal
  BY WaitFacts
<1>2. waiter' = [waiter EXCEPT ![w] = y]
  BY DEF Answer
<1>3. y \in WaitRecord
  BY <1>1 DEF WaitRecord
<1>4. /\ y.pc = "answered" /\ y.job = waiter[w].job /\ y.done = waiter[w].done
      /\ y.ans = a
  BY <1>1 DEF WaitRecord
<1>5. /\ a = "ok" => job[waiter[w].job].status = "complete"
      /\ a = "502" => job[waiter[w].job].status \in {"failed", "cancelled"}
  BY DEF Verdict, Terminal
<1> HIDE DEF y
<1> QED BY <1>1, <1>2, <1>3, <1>4, <1>5, OneWait

LEMMA WaitingInd == ASSUME IndInv, NEW w \in Waiters, Waiting(w) PROVE IndInv'
<1>0. /\ waiter[w] \in WaitRecord
      /\ waiter[w].pc # "idle" => waiter[w].job \in Jobs
      /\ waiter[w].done => job[waiter[w].job].status \in Terminal
      /\ waiter[w].ans # "none" => waiter[w].pc = "answered"
  BY WaitFacts
<1>1. Verdict(waiter[w].job) \in {"ok", "502"}
  BY DEF Verdict
<1>2. CASE WaitRow(w)
  <2>1. waiter[w].pc = "row" /\ UNCHANGED <<job, worker, stream>>
    BY <1>2 DEF WaitRow
  <2>2. CASE job[waiter[w].job].status \in Terminal
    <3>1. Answer(w, Verdict(waiter[w].job))
      BY <1>2, <2>2 DEF WaitRow
    <3> DEFINE a == Verdict(waiter[w].job)
    <3> HIDE DEF a
    <3> QED BY <1>1, <2>1, <2>2, <3>1, AnswerInd DEF a
  <2>3. CASE job[waiter[w].job].status \notin Terminal
    <3> DEFINE y == [waiter[w] EXCEPT !.pc = "wait"]
    <3>1. waiter' = [waiter EXCEPT ![w] = y]
      BY <1>2, <2>3 DEF WaitRow
    <3>2. y \in WaitRecord
      BY <1>0 DEF WaitRecord
    <3>3. y.pc = "wait" /\ y.job = waiter[w].job /\ y.done = waiter[w].done
          /\ y.ans = waiter[w].ans
      BY <1>0 DEF WaitRecord
    <3>4. waiter[w].job \in Jobs /\ waiter[w].ans = "none" /\ ~waiter[w].done
      BY <1>0, <2>1, <2>3
    <3>5. ~job[waiter[w].job].announced
      BY <2>3, <3>4, RowFacts DEF RowOK
    <3> HIDE DEF y
    <3> QED BY <2>1, <3>1, <3>2, <3>3, <3>4, <3>5, OneWait
  <2> QED BY <2>2, <2>3
<1>3. CASE WaitWake(w)
  <2>1. /\ waiter[w].pc = "wait" /\ waiter[w].done /\ UNCHANGED <<job, worker, stream>>
        /\ Answer(w, Verdict(waiter[w].job))
    BY <1>3 DEF WaitWake
  <2> DEFINE a == Verdict(waiter[w].job)
  <2> HIDE DEF a
  <2> QED BY <1>0, <1>1, <2>1, AnswerInd DEF a
<1>4. CASE WaitTimeout(w)
  <2>1. waiter[w].pc = "wait" /\ UNCHANGED <<job, worker, stream>> /\ Answer(w, "504")
    BY <1>4 DEF WaitTimeout
  <2> QED BY <2>1, AnswerInd
<1> QED BY <1>2, <1>3, <1>4 DEF Waiting

-----------------------------------------------------------------------------
(* The steps of a stream.                                                  *)

(* What a record says of the lines its client got. *)
GotOK(x) ==
    /\ \A i \in DOMAIN x.got : x.got[i] <= x.cursor
    /\ \A i, k \in DOMAIN x.got : i < k => x.got[i] < x.got[k]

(* One stream's record becomes y. *)
LEMMA OneStream ==
    ASSUME IndInv, NEW c \in Streams, NEW y \in StreamRecord,
           stream' = [stream EXCEPT ![c] = y], UNCHANGED <<job, worker, waiter>>,
           Len(y.queue) <= QueueMax, y.job \in Jobs, Behind(y, job[y.job]), GotOK(y),
           y.pc = "off" => y.queue = <<>>,
           y.pc = "ended" => y.shown \in Terminal
    PROVE  IndInv'
<1> USE DEF IndInv, EventsInv, TypeOK
<1>1. \A d \in Streams : stream'[d] = IF d = c THEN y ELSE stream[d]
  OBVIOUS
<1>2. TypeOK'
  BY <1>1
<1>3. JobInv'
  BY DEF JobInv
<1>4. WaitInv'
  BY DEF WaitInv
<1>5. StreamInv'
  <2> SUFFICES ASSUME NEW d \in Streams
               PROVE  LET x == stream'[d] IN
                      /\ x.job = "none" => x.pc = "off" /\ x.cursor = 0 /\ x.shown = "none"
                      /\ x.job \in Jobs => Behind(x, job[x.job])
                      /\ x.pc = "off" => x.queue = <<>>
                      /\ x.pc = "ended" => x.shown \in Terminal
                      /\ \A i \in DOMAIN x.got : x.got[i] <= x.cursor
    BY Zenon DEF StreamInv
  <2>1. CASE d = c
    BY <1>1, <2>1, NoJobAssumption DEF GotOK
  <2>2. CASE d # c
    BY <1>1, <2>2 DEF StreamInv
  <2> QED BY <2>1, <2>2
<1>6. NoLostWakeup'
  BY DEF NoLostWakeup
<1>7. LogOnceInOrder'
  BY <1>1 DEF LogOnceInOrder, GotOK
<1>8. ToldTheTruth'
  <2>1. \A d \in Streams : stream'[d].pc = "ended" =>
           /\ stream'[d].shown \in Terminal
           /\ stream'[d].shown = job[stream'[d].job].status
    BY <1>1 DEF ToldTheTruth, Behind
  <2> QED BY <2>1 DEF ToldTheTruth
<1> QED BY <1>2, <1>3, <1>4, <1>5, <1>6, <1>7, <1>8

(* The facts about a stream that the steps start from. *)
LEMMA StreamFacts ==
    ASSUME IndInv, NEW c \in Streams
    PROVE  /\ stream[c] \in StreamRecord /\ Len(stream[c].queue) <= QueueMax
           /\ stream[c].job = "none" => stream[c].pc = "off" /\ stream[c].cursor = 0
                                          /\ stream[c].shown = "none"
           /\ stream[c].job \in Jobs => Behind(stream[c], job[stream[c].job])
           /\ stream[c].pc # "off" => stream[c].job \in Jobs
           /\ stream[c].pc = "off" => stream[c].queue = <<>>
           /\ GotOK(stream[c])
<1>1. stream[c] \in StreamRecord /\ Len(stream[c].queue) <= QueueMax
  BY DEF IndInv, EventsInv, TypeOK
<1>2. /\ stream[c].job = "none" => stream[c].pc = "off" /\ stream[c].cursor = 0
                                     /\ stream[c].shown = "none"
      /\ stream[c].job \in Jobs => Behind(stream[c], job[stream[c].job])
      /\ stream[c].pc = "off" => stream[c].queue = <<>>
  BY DEF IndInv, EventsInv, StreamInv
<1>3. stream[c].pc # "off" => stream[c].job \in Jobs
  BY <1>1, <1>2 DEF StreamRecord
<1>4. GotOK(stream[c])
  BY DEF IndInv, EventsInv, StreamInv, LogOnceInOrder, GotOK
<1> QED BY <1>1, <1>2, <1>3, <1>4

LEMMA OpenInd ==
    ASSUME IndInv, NEW c \in Streams, NEW j \in Jobs, Open(c, j) PROVE IndInv'
<1> DEFINE x == stream[c]
           y == [x EXCEPT !.pc = "row", !.job = j]
<1>1. /\ x \in StreamRecord /\ Len(x.queue) <= QueueMax /\ GotOK(x)
      /\ x.job = "none" => x.cursor = 0 /\ x.shown = "none"
      /\ x.job \in Jobs => Behind(x, job[x.job])
      /\ x.queue = <<>> /\ x.job \in {"none", j}
  BY StreamFacts DEF Open
<1>2. stream' = [stream EXCEPT ![c] = y] /\ UNCHANGED <<job, worker, waiter>>
  BY DEF Open
<1>3. job[j].logs \in Nat
  BY RowFacts DEF JobRow
<1> HIDE DEF x
<1>4. Behind(x, job[j])
  <2>1. CASE x.job = j
    BY <1>1, <2>1
  <2>2. CASE x.job = "none"
    BY <1>1, <1>3, <2>2 DEF Behind, Terminal
  <2> QED BY <1>1, <2>1, <2>2
<1>5. y \in StreamRecord
  BY <1>1 DEF StreamRecord
<1>6. /\ y.pc = "row" /\ y.job = j /\ y.queue = x.queue /\ y.cursor = x.cursor
      /\ y.got = x.got /\ y.shown = x.shown
  BY <1>1 DEF StreamRecord
<1> HIDE DEF y
<1>7. Behind(y, job[y.job]) /\ GotOK(y)
  BY <1>1, <1>4, <1>6 DEF Behind, GotOK
<1> QED BY <1>1, <1>2, <1>5, <1>6, <1>7, OneStream

LEMMA ReadRowInd == ASSUME IndInv, NEW c \in Streams, ReadRow(c) PROVE IndInv'
<1> DEFINE x == stream[c]
           t == job[x.job].status
           y == [x EXCEPT !.pc = "replay", !.shown = t]
<1>1. /\ x \in StreamRecord /\ Len(x.queue) <= QueueMax /\ GotOK(x)
      /\ x.job \in Jobs /\ Behind(x, job[x.job])
  BY StreamFacts DEF ReadRow
<1>2. stream' = [stream EXCEPT ![c] = y] /\ UNCHANGED <<job, worker, waiter>>
  BY DEF ReadRow
<1>3. t \in Statuses
  BY <1>1, RowFacts DEF JobRow
<1> HIDE DEF x
<1>5. y \in StreamRecord
  <2> HIDE DEF t
  <2> QED BY <1>1, <1>3 DEF StreamRecord
<1>6. /\ y.pc = "replay" /\ y.job = x.job /\ y.queue = x.queue /\ y.cursor = x.cursor
      /\ y.got = x.got /\ y.shown = t
  BY <1>1 DEF StreamRecord
<1> HIDE DEF y
<1>7. Behind(y, job[y.job]) /\ GotOK(y)
  BY <1>1, <1>6 DEF Behind, GotOK
<1> QED BY <1>1, <1>2, <1>5, <1>6, <1>7, OneStream

LEMMA HangupInd == ASSUME IndInv, NEW c \in Streams, Hangup(c) PROVE IndInv'
<1> DEFINE x == stream[c]
           n == x.joins + 1
           y == [x EXCEPT !.pc = "off", !.queue = <<>>, !.joins = n]
<1>1. /\ x \in StreamRecord /\ GotOK(x)
      /\ x.job \in Jobs /\ Behind(x, job[x.job])
  BY StreamFacts DEF Hangup
<1>2. stream' = [stream EXCEPT ![c] = y] /\ UNCHANGED <<job, worker, waiter>>
  BY DEF Hangup
<1>3. n \in Nat /\ <<>> \in Seq(Event) /\ Len(<<>>) = 0 /\ 0 <= QueueMax
  BY <1>1, BoundAssumption DEF StreamRecord
<1> HIDE DEF x, n
<1>5. y \in StreamRecord
  BY <1>1, <1>3 DEF StreamRecord
<1>6. /\ y.pc = "off" /\ y.job = x.job /\ y.queue = <<>> /\ y.cursor = x.cursor
      /\ y.got = x.got /\ y.shown = x.shown
  BY <1>1 DEF StreamRecord
<1> HIDE DEF y
<1>7. Behind(y, job[y.job]) /\ GotOK(y)
  BY <1>1, <1>6 DEF Behind, GotOK
<1> QED BY <1>1, <1>2, <1>3, <1>5, <1>6, <1>7, OneStream

(* The lines after the cursor extend what the client got, in order. *)
LEMMA ReplayGot ==
    ASSUME NEW g \in Seq(Nat), NEW m \in Nat, NEW n \in Nat, m <= n,
           \A i \in DOMAIN g : g[i] <= m,
           \A i, k \in DOMAIN g : i < k => g[i] < g[k],
           NEW a, a = [i \in 1..(n - m) |-> m + i]
    PROVE  /\ g \o a \in Seq(Nat)
           /\ \A i \in DOMAIN (g \o a) : (g \o a)[i] <= n
           /\ \A i, k \in DOMAIN (g \o a) : i < k => (g \o a)[i] < (g \o a)[k]
<1> DEFINE p == n - m
<1>1. p \in Nat /\ m + p = n
  OBVIOUS
<1>2. a = [i \in 1..p |-> m + i]
  OBVIOUS
<1> HIDE DEF p
<1>3. a \in Seq(Nat) /\ Len(a) = p
  BY <1>1, <1>2
<1>4. \A i \in 1..p : a[i] = m + i
  BY <1>2
<1> DEFINE h == g \o a
<1>5. h \in Seq(Nat) /\ Len(h) = Len(g) + Len(a)
  BY <1>3
<1>6. \A i \in 1..Len(h) : h[i] = IF i <= Len(g) THEN g[i] ELSE a[i - Len(g)]
  BY <1>3
<1>7. Len(g) \in Nat /\ DOMAIN g = 1..Len(g) /\ \A i \in 1..Len(g) : g[i] \in Nat
  OBVIOUS
<1>8. DOMAIN h = 1..Len(h)
  BY <1>5
<1> HIDE DEF h
<1>9. \A i \in 1..Len(h) : IF i <= Len(g) THEN i \in DOMAIN g /\ h[i] = g[i]
                             ELSE h[i] = m + (i - Len(g)) /\ i - Len(g) <= p
  <2> SUFFICES ASSUME NEW i \in 1..Len(h)
               PROVE  IF i <= Len(g) THEN i \in DOMAIN g /\ h[i] = g[i]
                      ELSE h[i] = m + (i - Len(g)) /\ i - Len(g) <= p
    BY Zenon
  <2>1. CASE i <= Len(g)
    <3>1. i \in DOMAIN g
      BY <1>7, <2>1
    <3>2. h[i] = g[i]
      BY <1>6, <2>1
    <3> QED BY <2>1, <3>1, <3>2
  <2>2. CASE ~(i <= Len(g))
    <3>1. i - Len(g) \in 1..p
      BY <1>1, <1>3, <1>5, <1>7, <2>2
    <3>2. h[i] = a[i - Len(g)]
      BY <1>6, <2>2
    <3> QED BY <1>1, <1>4, <2>2, <3>1, <3>2
  <2> QED BY <2>1, <2>2
<1>10. \A i \in DOMAIN h : h[i] <= n
  <2> SUFFICES ASSUME NEW i \in 1..Len(h) PROVE h[i] <= n
    BY <1>8
  <2>1. CASE i <= Len(g)
    <3>1. h[i] = g[i] /\ g[i] \in Nat /\ g[i] <= m
      BY <1>7, <1>9, <2>1
    <3> QED BY <3>1
  <2>2. CASE ~(i <= Len(g))
    <3>1. i - Len(g) \in Int /\ h[i] = m + (i - Len(g)) /\ i - Len(g) <= p
      BY <1>7, <1>9, <2>2
    <3> QED BY <1>1, <3>1
  <2> QED BY <2>1, <2>2
<1>11. ASSUME NEW i \in DOMAIN h, NEW k \in DOMAIN h, i < k PROVE h[i] < h[k]
  <2>1. i \in Nat /\ k \in Nat /\ i \in 1..Len(h) /\ k \in 1..Len(h)
    BY <1>8
  <2>2. CASE k <= Len(g)
    BY <1>7, <1>9, <1>11, <2>1, <2>2
  <2>3. CASE i <= Len(g) /\ ~(k <= Len(g))
    BY <1>7, <1>9, <1>11, <2>1, <2>3
  <2>4. CASE ~(i <= Len(g))
    BY <1>7, <1>9, <1>11, <2>1, <2>4
  <2> QED BY <1>7, <1>11, <2>1, <2>2, <2>3, <2>4
<1> QED BY <1>5, <1>10, <1>11 DEF h

LEMMA ReplayInd == ASSUME IndInv, NEW c \in Streams, Replay(c) PROVE IndInv'
<1> DEFINE x == stream[c]
           r == job[x.job]
           g == x.got \o After(x.job, x.cursor)
           n == r.logs
           q == IF x.shown \in Terminal THEN "ended" ELSE "tail"
           y == [x EXCEPT !.got = g, !.cursor = n, !.pc = q]
<1>1. /\ x \in StreamRecord /\ Len(x.queue) <= QueueMax /\ GotOK(x)
      /\ x.job \in Jobs /\ Behind(x, r)
  BY StreamFacts DEF Replay
<1>2. stream' = [stream EXCEPT ![c] = y] /\ UNCHANGED <<job, worker, waiter>>
  BY DEF Replay
<1>3. r \in JobRow /\ n \in Nat
  BY <1>1, RowFacts DEF JobRow
<1>4. /\ g \in Seq(Nat)
      /\ \A i \in DOMAIN g : g[i] <= n
      /\ \A i, k \in DOMAIN g : i < k => g[i] < g[k]
  <2> DEFINE m == x.cursor
             b == x.got
             a == After(x.job, m)
  <2>1. b \in Seq(Nat) /\ m \in Nat /\ m <= n
    BY <1>1 DEF StreamRecord, Behind
  <2>2. /\ \A i \in DOMAIN b : b[i] <= m
        /\ \A i, k \in DOMAIN b : i < k => b[i] < b[k]
    BY <1>1 DEF GotOK
  <2>3. a = [i \in 1..(n - m) |-> m + i] /\ g = b \o a
    BY DEF After
  <2> HIDE DEF a, b, g, m, n
  <2> QED BY <1>3, <2>1, <2>2, <2>3, ReplayGot, ZenonT(60)
<1>5. q \in {"ended", "tail"} /\ (q = "ended" => x.shown \in Terminal)
  OBVIOUS
<1>6. /\ \A i \in DOMAIN x.queue : x.queue[i].event = "log" => x.queue[i].id <= n
      /\ x.shown \in Terminal => x.shown = r.status
  BY <1>1 DEF Behind
<1> HIDE DEF x, g, q
<1>7. y \in StreamRecord
  <2> HIDE DEF n
  <2>1. [x EXCEPT !.got = g] \in StreamRecord
    BY <1>1, <1>4 DEF StreamRecord
  <2>2. [[x EXCEPT !.got = g] EXCEPT !.cursor = n] \in StreamRecord
    BY <1>3, <2>1 DEF StreamRecord
  <2>3. [[[x EXCEPT !.got = g] EXCEPT !.cursor = n] EXCEPT !.pc = q] \in StreamRecord
    BY <1>5, <2>2 DEF StreamRecord
  <2>4. y = [[[x EXCEPT !.got = g] EXCEPT !.cursor = n] EXCEPT !.pc = q]
    BY <1>1 DEF StreamRecord
  <2> QED BY <2>3, <2>4
<1>8. /\ y.pc = q /\ y.job = x.job /\ y.queue = x.queue /\ y.cursor = n
      /\ y.got = g /\ y.shown = x.shown
  BY <1>1 DEF StreamRecord
<1> HIDE DEF y
<1>9. Behind(y, job[y.job]) /\ GotOK(y)
  BY <1>3, <1>4, <1>6, <1>8 DEF Behind, GotOK
<1> QED BY <1>1, <1>2, <1>5, <1>7, <1>8, <1>9, OneStream

(* A record that took the oldest event off its queue. *)
LEMMA Dequeued ==
    ASSUME NEW x \in StreamRecord, NEW r, Len(x.queue) <= QueueMax, x.queue # <<>>,
           Behind(x, r), GotOK(x),
           NEW y, y = [x EXCEPT !.queue = Tail(@)]
    PROVE  /\ y \in StreamRecord /\ Len(y.queue) <= QueueMax /\ Behind(y, r) /\ GotOK(y)
           /\ y.pc = x.pc /\ y.job = x.job
           /\ Head(x.queue) \in Event
           /\ Head(x.queue).event = "log" => Head(x.queue).id <= r.logs
<1> DEFINE q == x.queue
           t == Tail(q)
<1>1. q \in Seq(Event) /\ q # <<>> /\ Len(q) \in Nat /\ DOMAIN q = 1..Len(q)
  BY DEF StreamRecord
<1>2. /\ Head(q) \in Event /\ Head(q) = q[1]
      /\ t \in Seq(Event) /\ Len(t) = Len(q) - 1
      /\ \A i \in 1..Len(t) : t[i] = q[i + 1]
  BY <1>1, HeadTailProperties
<1>3. 1 \in DOMAIN q /\ QueueMax \in Nat
  BY <1>1, BoundAssumption
<1>4. \A i \in DOMAIN q : q[i].event = "log" => q[i].id <= r.logs
  BY DEF Behind
<1>5. Len(q) <= QueueMax
  OBVIOUS
<1> HIDE DEF t
<1>6. y = [x EXCEPT !.queue = t]
  BY DEF t
<1>7. /\ y \in StreamRecord /\ y.queue = t
      /\ y.pc = x.pc /\ y.job = x.job /\ y.cursor = x.cursor /\ y.got = x.got
      /\ y.shown = x.shown
  BY <1>2, <1>6 DEF StreamRecord
<1>8. \A i \in DOMAIN t : i + 1 \in DOMAIN q /\ t[i] = q[i + 1]
  <2> SUFFICES ASSUME NEW i \in DOMAIN t PROVE i + 1 \in DOMAIN q /\ t[i] = q[i + 1]
    OBVIOUS
  <2>1. i \in 1..Len(t)
    BY <1>2
  <2>2. i + 1 \in 1..Len(q)
    BY <1>1, <1>2, <2>1
  <2> QED BY <1>1, <1>2, <2>1, <2>2
<1>9. Behind(y, r) /\ GotOK(y)
  BY <1>4, <1>7, <1>8 DEF Behind, GotOK
<1>10. Len(t) <= QueueMax
  BY <1>1, <1>2, <1>3, <1>5
<1> QED BY <1>2, <1>3, <1>4, <1>7, <1>9, <1>10

(* A log event is shown only beyond the cursor. *)
LEMMA ShowLogProperties ==
    ASSUME NEW x \in StreamRecord, NEW r \in JobRow, NEW e \in Event,
           Behind(x, r), GotOK(x), e.event = "log" => e.id <= r.logs
    PROVE  LET y == ShowLog(x, e) IN
           /\ y \in StreamRecord /\ y.queue = x.queue /\ Behind(y, r) /\ GotOK(y)
           /\ y.pc = x.pc /\ y.job = x.job
<1>1. CASE ~(e.event = "log" /\ e.id > x.cursor)
  <2>1. ShowLog(x, e) = x
    BY <1>1 DEF ShowLog
  <2> QED BY <2>1
<1>2. CASE e.event = "log" /\ e.id > x.cursor
  <2> DEFINE n == e.id
             b == x.got
             g == Append(b, n)
             y == [x EXCEPT !.cursor = n, !.got = g]
  <2>1. n \in Nat /\ n > x.cursor /\ n <= r.logs /\ x.cursor \in Nat /\ r.logs \in Nat
    BY <1>2 DEF Event, StreamRecord, JobRow
  <2>2. b \in Seq(Nat) /\ Len(b) \in Nat /\ DOMAIN b = 1..Len(b)
    BY DEF StreamRecord
  <2>3. /\ g \in Seq(Nat) /\ Len(g) = Len(b) + 1
        /\ \A i \in 1..Len(b) : g[i] = b[i]
        /\ g[Len(b) + 1] = n
    BY <2>1, <2>2, AppendProperties
  <2>4. DOMAIN g = 1..Len(g)
    BY <2>3
  <2>5. /\ \A i \in 1..Len(b) : b[i] \in Nat /\ b[i] <= x.cursor
        /\ \A i, k \in 1..Len(b) : i < k => b[i] < b[k]
    BY <2>2, SMTT(30) DEF GotOK
  <2>6. ShowLog(x, e) = y
    BY <1>2 DEF ShowLog
  <2> HIDE DEF n, g
  <2>7. y \in StreamRecord
    BY <2>1, <2>3 DEF StreamRecord
  <2>8. /\ y.queue = x.queue /\ y.pc = x.pc /\ y.job = x.job /\ y.shown = x.shown
        /\ y.cursor = n /\ y.got = g
    BY DEF StreamRecord
  <2> HIDE DEF y, b
  <2>9. Behind(y, r)
    BY <2>1, <2>8 DEF Behind
  <2>10. \A i \in DOMAIN g : g[i] <= n
    <3> SUFFICES ASSUME NEW i \in 1..Len(g) PROVE g[i] <= n
      BY <2>4
    <3>1. CASE i = Len(b) + 1
      BY <2>1, <2>3, <3>1
    <3>2. CASE i # Len(b) + 1
      <4>1. i \in 1..Len(b)
        BY <2>2, <2>3, <3>2
      <4>2. g[i] \in Nat /\ g[i] <= x.cursor
        BY <2>3, <2>5, <4>1
      <4> QED BY <2>1, <4>2
    <3> QED BY <3>1, <3>2
  <2>11. ASSUME NEW i \in DOMAIN g, NEW k \in DOMAIN g, i < k PROVE g[i] < g[k]
    <3>0. i \in 1..Len(b) /\ k \in 1..(Len(b) + 1)
      BY <2>2, <2>3, <2>4, <2>11
    <3>1. g[i] = b[i] /\ b[i] \in Nat /\ b[i] <= x.cursor
      BY <2>3, <2>5, <3>0
    <3>2. CASE k = Len(b) + 1
      BY <2>1, <2>3, <3>1, <3>2
    <3>3. CASE k # Len(b) + 1
      <4>1. k \in 1..Len(b)
        BY <2>2, <3>0, <3>3
      <4> QED BY <2>3, <2>5, <2>11, <3>0, <4>1
    <3> QED BY <3>2, <3>3
  <2>12. GotOK(y)
    BY <2>8, <2>10, <2>11 DEF GotOK
  <2> QED BY <2>6, <2>7, <2>8, <2>9, <2>12
<1> QED BY <1>1, <1>2

LEMMA TakeInd == ASSUME IndInv, NEW c \in Streams, Take(c) PROVE IndInv'
<1> DEFINE z == stream[c]
           r == job[z.job]
           e == Head(z.queue)
           x == [z EXCEPT !.queue = Tail(@)]
           l == ShowLog(x, e)
           y == ShowStatus(l, e)
<1>1. /\ z \in StreamRecord /\ Len(z.queue) <= QueueMax /\ GotOK(z)
      /\ z.job \in Jobs /\ Behind(z, r) /\ z.pc = "tail" /\ z.queue # <<>>
  BY StreamFacts DEF Take
<1>2. stream' = [stream EXCEPT ![c] = y] /\ UNCHANGED <<job, worker, waiter>>
  BY DEF Take
<1>3. r \in JobRow
  BY <1>1, RowFacts
<1> HIDE DEF z, r
<1>4. /\ x \in StreamRecord /\ Len(x.queue) <= QueueMax /\ Behind(x, r) /\ GotOK(x)
      /\ x.pc = z.pc /\ x.job = z.job
      /\ e \in Event /\ (e.event = "log" => e.id <= r.logs)
  BY <1>1, Dequeued
<1> HIDE DEF x, e
<1>5. /\ l \in StreamRecord /\ l.queue = x.queue /\ Behind(l, r) /\ GotOK(l)
      /\ l.pc = "tail" /\ l.job = z.job
  BY <1>1, <1>3, <1>4, ShowLogProperties
<1> HIDE DEF l
<1>6. /\ y \in StreamRecord /\ y.queue = l.queue /\ Behind(y, r) /\ GotOK(y)
      /\ y.job = z.job /\ y.pc # "off" /\ (y.pc = "ended" => y.shown \in Terminal)
  <2>1. CASE e.event # "status"
    <3>1. y = l
      BY <2>1 DEF ShowStatus
    <3> HIDE DEF y
    <3> QED BY <1>5, <3>1
  <2>2. CASE e.event = "status"
    <3> DEFINE now == job[l.job].status
               p == IF now \in Terminal THEN "ended" ELSE l.pc
    <3>1. y = [l EXCEPT !.shown = now, !.pc = p]
      BY <2>2 DEF ShowStatus
    <3>2. now = r.status /\ now \in Statuses
      BY <1>3, <1>5 DEF r, JobRow
    <3>3. p \in {"ended", "tail"} /\ (p = "ended" => now \in Terminal)
      BY <1>5
    <3> HIDE DEF now, p, y
    <3>4. y \in StreamRecord
      BY <1>5, <3>1, <3>2, <3>3 DEF StreamRecord
    <3>5. /\ y.shown = now /\ y.pc = p /\ y.queue = l.queue /\ y.job = l.job
          /\ y.cursor = l.cursor /\ y.got = l.got
      BY <1>5, <3>1 DEF StreamRecord
    <3>6. Behind(y, r) /\ GotOK(y)
      BY <1>5, <3>2, <3>5 DEF Behind, GotOK
    <3> QED BY <1>5, <3>3, <3>4, <3>5, <3>6
  <2> QED BY <2>1, <2>2
<1> HIDE DEF y
<1> QED BY <1>1, <1>2, <1>4, <1>5, <1>6, OneStream DEF r

-----------------------------------------------------------------------------
LEMMA InitInd == Init => IndInv
<1> SUFFICES ASSUME Init PROVE IndInv
  OBVIOUS
<1> USE DEF Init
<1>1. Submitted \in JobRow /\ RowOK(Submitted)
  BY DEF Submitted, JobRow, RowOK, Silent, Event, Statuses, Terminal
<1>2. NoWait \in WaitRecord
  BY DEF NoWait, WaitRecord
<1>3. NoStream \in StreamRecord /\ Len(NoStream.queue) = 0 /\ DOMAIN NoStream.got = 1..0
  BY DEF NoStream, StreamRecord
<1>4. TypeOK
  BY <1>1, <1>2, <1>3, BoundAssumption DEF TypeOK
<1>5. JobInv
  BY <1>1 DEF JobInv
<1>6. WaitInv /\ NoLostWakeup
  BY DEF WaitInv, NoLostWakeup, NoWait
<1>7. StreamInv
  BY <1>3, NoJobAssumption DEF StreamInv, NoStream
<1>8. LogOnceInOrder
  BY <1>3 DEF LogOnceInOrder, NoStream
<1>9. ToldTheTruth
  BY DEF ToldTheTruth, NoWait, NoStream
<1> QED BY <1>4, <1>5, <1>6, <1>7, <1>8, <1>9 DEF IndInv, EventsInv

LEMMA NextInd == IndInv /\ [Next]_vars => IndInv'
<1> SUFFICES ASSUME IndInv, [Next]_vars PROVE IndInv'
  OBVIOUS
<1>1. CASE UNCHANGED vars
  BY <1>1, Zenon DEF vars, IndInv, EventsInv, TypeOK, JobInv, WaitInv, StreamInv,
                     NoLostWakeup, LogOnceInOrder, ToldTheTruth
<1>2. CASE \E j \in Jobs : Greet(j) \/ Claim(j) \/ LogRow(j) \/ Report(j) \/ CancelRow(j)
                             \/ Tell(j) \/ TellFails(j)
  BY <1>2, GreetInd, ClaimInd, LogRowInd, ReportInd, CancelRowInd, TellInd, TellFailsInd
<1>3. CASE \E j \in Jobs, t \in Terminal : FinishRow(j, t)
  BY <1>3, FinishRowInd
<1>4. CASE \E j \in Jobs, w \in Waiters : WaitListen(w, j)
  BY <1>4, WaitListenInd
<1>5. CASE \E j \in Jobs, c \in Streams : Open(c, j)
  BY <1>5, OpenInd
<1>6. CASE \E w \in Waiters : Waiting(w)
  BY <1>6, WaitingInd
<1>7. CASE \E c \in Streams : Streaming(c) \/ Hangup(c)
  BY <1>7, ReadRowInd, ReplayInd, TakeInd, HangupInd DEF Streaming
<1>8. CASE WorkerDies \/ WorkerStarts
  BY <1>8, WorkerDiesInd, WorkerStartsInd
<1> QED BY <1>1, <1>2, <1>3, <1>4, <1>5, <1>6, <1>7, <1>8 DEF Next

(* Whoever waits for a job is woken by its end, a stream's queue keeps its  *)
(* limit and no client gets a log line twice or out of order (await_job,    *)
(* job_events), whatever the worker, the announcements and the clients do.  *)
THEOREM Invariance == Spec => []EventsInv
<1>1. IndInv => EventsInv
  BY DEF IndInv
<1> QED BY <1>1, InitInd, NextInd, PTL DEF Spec

(* What run_sync answered and what a stream showed last is what the row     *)
(* says, then and for good (execute.py, events.py).                         *)
THEOREM Truthful == Spec => []ToldTheTruth
<1>1. IndInv => ToldTheTruth
  BY DEF IndInv
<1> QED BY <1>1, InitInd, NextInd, PTL DEF Spec
=============================================================================
