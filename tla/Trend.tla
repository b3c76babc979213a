------------------------------- MODULE Trend --------------------------------
(***************************************************************************)
(* The issuance trend (usecase/trend.go), its Redis cache                  *)
(* (adapter/cache) and the jobs that refresh it (asynqjobs): the time      *)
(* series a request gets, and how requests, the refresh task the worker    *)
(* enqueues and the refresh the scheduler runs race for the cache.         *)
(*                                                                         *)
(* One bucket and preset is followed, chosen in the initial state: the     *)
(* others have cache keys of their own.  Times are Unix times in units of  *)
(* 1 / DayLength day; day 0 is a Monday and the first of a month.          *)
(***************************************************************************)
EXTENDS Integers, FiniteSets, FiniteSetsExt

CONSTANTS
    DayLength,     \* time units per day
    MonthStarts,   \* days that are the first of a month
    Presets,       \* allowedPresets: per bucket, the days its presets cover
    StartTime,     \* the time at which the model starts
    EarlyDates,    \* issue dates before the start a certificate may have
    MaxTicks,      \* bound: steps of the clock
    MaxChanges,    \* bound: changes of the table
    MaxFaults      \* bound: calls that fail

Buckets == {"day", "week", "month"}

ASSUME TrendAssumption ==
    /\ DayLength \in Nat \ {0}
    /\ MonthStarts \subseteq Nat /\ 0 \in MonthStarts
    /\ DOMAIN Presets = Buckets
    /\ MaxTicks \in Nat /\ MaxChanges \in Nat /\ MaxFaults \in Nat
    /\ \A b \in Buckets : Presets[b] \subseteq Nat
    /\ StartTime \in Nat /\ EarlyDates \subseteq 0..StartTime
    /\ \A b \in Buckets : \A d \in Presets[b] :   \* ranges begin after the epoch
        d * DayLength <= StartTime

VARIABLES
    certs,    \* certificates: token -> issued_at, tokens from 1 on
    now,      \* the clock
    key,      \* the cache key followed: [bucket, days]
    cache,    \* what Redis has under the key: the points, or Nothing
    pc,       \* the processes that compute the points
    since,    \* per process, where its series begins
    rows,     \* per process, what its query returned: bucket -> count
    task,     \* the trend:refresh task the worker enqueues
    changes,  \* number of changes of the table
    faults    \* number of calls that have failed

vars == <<certs, now, key, cache, pc, since, rows, task, changes, faults>>

\* A request for the trend, the task with the fixed id, the scheduled task.
Procs == {"request", "task", "cron"}

Nothing == [t \in {} |-> 0]

Times == 0..(StartTime + MaxTicks)

-----------------------------------------------------------------------------
\* The calendar.

Midnight(t) == t - (t % DayLength)
Day(t) == t \div DayLength

\* time.Weekday: Sunday is 0.
Weekday(t) == (Day(t) + 1) % 7

\* The first of the month of day d.
MonthStart(d) == Max({m \in MonthStarts : m <= d})

TruncateToBucket(b, t) ==
    CASE b = "week" -> Midnight(t) - DayLength * ((Weekday(t) + 6) % 7)
      [] b = "month" -> DayLength * MonthStart(Day(t))
      [] OTHER -> Midnight(t)

\* The month after the last known one begins after every time of the model.
NextMonth(d) ==
    LET later == {m \in MonthStarts : m > d}
    IN  IF later = {} THEN Day(Max(Times)) + 1 ELSE Min(later)

AdvanceBucket(b, t) ==
    CASE b = "week" -> t + 7 * DayLength
      [] b = "month" -> DayLength * NextMonth(Day(t))
      [] OTHER -> t + DayLength

\* Mutant: the loop stops before the last bucket.
AlignedBucketsShort(b, from, to) ==
    LET end == TruncateToBucket(b, to)
        loop[t \in Nat] ==
            IF t >= end THEN {} ELSE {t} \cup loop[AdvanceBucket(b, t)]
    IN  loop[TruncateToBucket(b, from)]

\* The bucket starts from "from" to "to".
AlignedBuckets(b, from, to) ==
    LET end == TruncateToBucket(b, to)
        loop[t \in Nat] ==
            IF t > end THEN {} ELSE {t} \cup loop[AdvanceBucket(b, t)]
    IN  loop[TruncateToBucket(b, from)]

\* Mutant: a preset covers twice its days.
RangePresetToSinceTwice(k, t) == t - 2 * k.days * DayLength

\* now - days.
RangePresetToSince(k, t) == t - k.days * DayLength

Init ==
    /\ now = StartTime
    /\ certs = Nothing
    /\ \E b \in Buckets : \E d \in Presets[b] : key = [bucket |-> b, days |-> d]
    /\ cache = Nothing
    /\ pc = [p \in Procs |-> "idle"]
    /\ since = [p \in Procs |-> 0]
    /\ rows = [p \in Procs |-> Nothing]
    /\ task = "none" /\ changes = 0 /\ faults = 0

-----------------------------------------------------------------------------
\* The query.

\* What Postgres counts as the start of an issue date's bucket, stated
\* without the Go code: the last day, Monday or first of a month before it.
IsStart(b, d) ==
    CASE b = "day" -> TRUE
      [] b = "week" -> d % 7 = 0
      [] b = "month" -> d \in MonthStarts

DateTrunc(b, t) ==
    DayLength * CHOOSE d \in 0..Day(t) :
        IsStart(b, d) /\ \A e \in (d + 1)..Day(t) : ~IsStart(b, e)

\* SELECT date_trunc(b, issued_at), count(*) WHERE issued_at >= from GROUP BY 1,
\* over certificates with these issue dates (a function token -> time).
GroupBy(b, issued, from) ==
    LET recent == {k \in DOMAIN issued : issued[k] >= from}
    IN  [t \in {DateTrunc(b, issued[k]) : k \in recent} |->
            Cardinality({k \in recent : DateTrunc(b, issued[k]) = t})]

TrendByDay(issued, from) == GroupBy("day", issued, from)
TrendByWeek(issued, from) == GroupBy("week", issued, from)
TrendByMonth(issued, from) == GroupBy("month", issued, from)

GetIssuanceTrend(b, issued, from) ==
    CASE b = "day" -> TrendByDay(issued, from)
      [] b = "week" -> TrendByWeek(issued, from)
      [] b = "month" -> TrendByMonth(issued, from)

\* Rows fill the expected buckets, the others count zero.
ZeroFillTrend(expected, counts) ==
    [t \in expected |-> IF t \in DOMAIN counts THEN counts[t] ELSE 0]

\* The points of a series from "from" until "to".
Points(from, to, counts) ==
    ZeroFillTrend(AlignedBuckets(key.bucket, from, to), counts)

-----------------------------------------------------------------------------
\* TrendService: GetTrend and RefreshCache, which share compute.

Fault == faults < MaxFaults /\ faults' = faults + 1

Begin(p) ==
    /\ pc[p] = "idle"
    /\ pc' = [pc EXCEPT ![p] = "query"]
    /\ since' = [since EXCEPT ![p] = RangePresetToSince(key, now)]
    /\ UNCHANGED <<certs, now, key, cache, rows, changes>>

\* RedisTrendCache.Get finds no entry.
Miss == cache = Nothing

\* A request that misses the cache, or whose cache.Get fails, computes; a
\* hit changes nothing.
GetTrend ==
    /\ Begin("request")
    /\ \/ Miss /\ UNCHANGED faults
       \/ ~ Miss /\ Fault
    /\ UNCHANGED task

\* compute: the query reads the table.
Query(p) ==
    /\ pc[p] = "query"
    /\ rows' = [rows EXCEPT ![p] = GetIssuanceTrend(key.bucket, certs, since[p])]
    /\ pc' = [pc EXCEPT ![p] = "set"]
    /\ UNCHANGED <<certs, now, key, cache, since, task, changes, faults>>

\* The process returns.
Finish(p) ==
    /\ pc' = [pc EXCEPT ![p] = "idle"]
    /\ since' = [since EXCEPT ![p] = 0]
    /\ rows' = [rows EXCEPT ![p] = Nothing]
    /\ UNCHANGED <<certs, now, key, changes>>

\* A task that ran to its end leaves the queue.
Completed(p) == task' = IF p = "task" THEN "none" ELSE task

\* ProcessTask goes through the keys and stops at the first that fails: the
\* task is retried or, after its last retry, archived under its id.
Failed(p) ==
    IF p = "task" THEN task' \in {"pending", "archived"} ELSE UNCHANGED task

\* compute: the series until time.Now() goes into the cache.  One of the keys
\* the task comes to afterwards may fail.
SetCache(p) ==
    /\ pc[p] = "set"
    /\ cache' = Points(since[p], now, rows[p])
    /\ Finish(p)
    /\ \/ Completed(p) /\ UNCHANGED faults
       \/ p = "task" /\ Fault /\ Failed(p)

\* A failed write to the cache is ignored.
SetFails(p) ==
    /\ pc[p] = "set" /\ Fault
    /\ Finish(p)
    /\ Completed(p) \/ Failed(p)
    /\ UNCHANGED cache

\* The query of this key, or of one that the task comes to before it, fails: a
\* request gets an error.
QueryFails(p) ==
    /\ pc[p] = "query" /\ Fault
    /\ Finish(p)
    /\ Failed(p)
    /\ UNCHANGED cache

\* RedisTrendCache: an entry lives for cacheTTL.
Expire ==
    /\ cache # Nothing
    /\ cache' = Nothing
    /\ UNCHANGED <<certs, now, key, pc, since, rows, task, changes, faults>>

-----------------------------------------------------------------------------
\* The refresh jobs and the worker.

\* The server takes the task; ProcessTask calls RefreshCache.
RunTask ==
    /\ task = "pending"
    /\ Begin("task")
    /\ task' = "active"
    /\ UNCHANGED faults

\* Mutant: the scheduled refresh reads through the cache.
RunCronCached ==
    /\ cache = Nothing
    /\ Begin("cron")
    /\ UNCHANGED <<task, faults>>

\* Every 15 minutes the scheduler enqueues a task of its own.
RunCron ==
    /\ Begin("cron")
    /\ UNCHANGED <<task, faults>>

\* EnqueueUnique: a task with the same id, archived ones included, absorbs it.
EnqueueUnique == task' = IF task = "none" THEN "pending" ELSE task

Change == changes < MaxChanges /\ changes' = changes + 1

\* processLog: a certificate is stored, over the row of its token if there is
\* one, and a refresh enqueued, which may fail.  Its issue date is its block's:
\* an early one while the worker catches up; the block's clock may be ahead.
Upsert ==
    /\ Change
    /\ \E k \in 1..(Cardinality(DOMAIN certs) + 1),
          t \in Times \cap (EarlyDates \cup now..(now + 1)) :
        certs' = [i \in DOMAIN certs \cup {k} |-> IF i = k THEN t ELSE certs[i]]
    /\ \/ EnqueueUnique /\ UNCHANGED faults
       \/ Fault /\ UNCHANGED task
    /\ UNCHANGED <<now, key, cache, pc, since, rows>>

\* reconcile deletes certificates; nothing refreshes the cache.
DeleteFromBlock ==
    /\ certs # Nothing /\ Change
    /\ \E n \in DOMAIN certs : certs' = [k \in 1..(n - 1) |-> certs[k]]
    /\ UNCHANGED <<now, key, cache, pc, since, rows, task, faults>>

\* The indexer restarts: what it computed is lost, the queue hands an active
\* task out again.
Crash ==
    /\ Fault
    /\ pc' = [p \in Procs |-> "idle"]
    /\ since' = [p \in Procs |-> 0]
    /\ rows' = [p \in Procs |-> Nothing]
    /\ task' = IF task = "active" THEN "pending" ELSE task
    /\ UNCHANGED <<certs, now, key, cache, changes>>

Tick ==
    /\ now < StartTime + MaxTicks
    /\ now' = now + 1
    /\ UNCHANGED <<certs, key, cache, pc, since, rows, task, changes, faults>>

-----------------------------------------------------------------------------
Next ==
    \/ GetTrend \/ Expire \/ RunTask \/ RunCron
    \/ \E p \in Procs : Query(p) \/ SetCache(p) \/ SetFails(p) \/ QueryFails(p)
    \/ Upsert \/ DeleteFromBlock \/ Crash \/ Tick

\* Computations that have begun go on and the scheduler keeps running.
\* Nothing forces a request, the worker's task or the end of an entry's life.
Spec ==
    /\ Init /\ [][Next]_vars
    /\ WF_vars(RunCron)
    /\ \A p \in Procs : WF_vars(Query(p)) /\ WF_vars(SetCache(p))

-----------------------------------------------------------------------------
\* Properties.

Series(f) == DOMAIN f \subseteq Times /\ \A t \in DOMAIN f : f[t] \in Nat

\* Types of the variables, in every reachable state.
TypeOK ==
    /\ now \in Times
    /\ \E n \in 0..MaxChanges : certs \in [1..n -> Times]
    /\ key.bucket \in Buckets /\ key.days \in Presets[key.bucket]
    /\ Series(cache)
    /\ pc \in [Procs -> {"idle", "query", "set"}]
    /\ since \in [Procs -> Times]
    /\ DOMAIN rows = Procs /\ \A p \in Procs : Series(rows[p])
    /\ task \in {"none", "pending", "active", "archived"}
    /\ changes \in 0..MaxChanges /\ faults \in 0..MaxFaults

\* The series computed for the table is exact: its buckets are those of every
\* moment of the range, and each counts the certificates of its period in the
\* range, although the buckets come from Go's calendar, the counts from
\* Postgres', and the clock may pass midnight between the two.
SeriesExact ==
    \A to \in now..(StartTime + MaxTicks) :
        LET from == RangePresetToSince(key, now)
            points == Points(from, to, GetIssuanceTrend(key.bucket, certs, from))
            trunc(t) == DateTrunc(key.bucket, t)
        IN  /\ DOMAIN points = {trunc(t) : t \in from..to}
            /\ \A t \in DOMAIN points :
                points[t] = Cardinality({k \in DOMAIN certs :
                                certs[k] >= from /\ trunc(certs[k]) = t})

\* What a computation without races gives now.
Current ==
    LET from == RangePresetToSince(key, now)
    IN  Points(from, now, GetIssuanceTrend(key.bucket, certs, from))

\* A stale result does not stay: once the table and the clock rest (both are
\* bounded), the cache is empty or current for good, although a slow
\* computation may overwrite a newer one, a refresh may be absorbed by one
\* that has read the table already, and deletions enqueue none.
CacheCatchesUp == <>[](cache \in {Nothing, Current})
=============================================================================
