------------------------------ MODULE Delivery ------------------------------
(***************************************************************************)
(* From the outbox to the endpoint: the worker's fast path, the            *)
(* webhook:sweep job, the task queue that indexer and notify share, and    *)
(* notify's POST.                                                          *)
(*                                                                         *)
(* The queue (asynq on Redis) is not part of the repository.  What the     *)
(* code relies on: a task id is refused while a task with it is pending,   *)
(* running, waiting for a retry or archived; a task that succeeds is gone; *)
(* one that fails is tried again until it has been retried MaxRetry times  *)
(* and is archived after that.                                             *)
(***************************************************************************)
EXTENDS Integers, FiniteSets

CONSTANTS
    MaxRows,     \* bound: rows of the outbox
    MaxRetry,    \* usecase.WebhookMaxRetry (8)
    SweepLimit,  \* sweepLimit (100)
    Sweepers,    \* sweeps that may run at the same time
    MaxFaults    \* bound: failing queue and database calls, and crashes

ASSUME DeliveryAssumption ==
    /\ MaxRows \in Nat
    /\ MaxRetry \in Nat
    /\ SweepLimit \in Nat
    /\ MaxFaults \in Nat

VARIABLES
    last,      \* ids of webhook_outbox are 1..last
    marked,    \* the rows with enqueued_at set
    task,      \* row -> state of its webhook:deliver task
    retried,   \* row -> times the task was retried
    worker,    \* enqueueWebhook is at this call, for row "last"
    sweep,     \* sweep -> the call it is at, and its rows still to do
    posts,     \* row -> POSTs the endpoint got: 0, 1, or 2 for more than one
    faults     \* failing calls and crashes so far

vars == <<last, marked, task, retried, worker, sweep, posts, faults>>

Ids == 1..MaxRows

Idle == [at |-> "idle", todo |-> {}]

Init ==
    /\ last = 0
    /\ marked = {}
    /\ task = [i \in Ids |-> "none"]
    /\ retried = [i \in Ids |-> 0]
    /\ worker = "idle"
    /\ sweep = [s \in Sweepers |-> Idle]
    /\ posts = [i \in Ids |-> 0]
    /\ faults = 0

Fault == faults < MaxFaults /\ faults' = faults + 1

-----------------------------------------------------------------------------
\* The queue.

\* Both conflicts, ErrDuplicateTask and ErrTaskIDConflict, count as success.
EnqueueUnique(i) ==
    IF task[i] = "none"
    THEN task' = [task EXCEPT ![i] = "queued"] /\ retried' = [retried EXCEPT ![i] = 0]
    ELSE UNCHANGED <<task, retried>>

\* The handler returned an error.
TaskFails(i) ==
    IF retried[i] < MaxRetry
    THEN retried' = [retried EXCEPT ![i] = @ + 1] /\ UNCHANGED task
    ELSE task' = [task EXCEPT ![i] = "archived"] /\ UNCHANGED retried

-----------------------------------------------------------------------------
\* Worker.enqueueWebhook.

Record ==
    /\ worker = "idle"
    /\ last < MaxRows
    /\ last' = last + 1
    /\ worker' = "enqueue"
    /\ UNCHANGED <<marked, task, retried, sweep, posts, faults>>

WorkerEnqueue ==
    /\ worker = "enqueue"
    /\ EnqueueUnique(last)
    /\ worker' = "mark"
    /\ UNCHANGED <<last, marked, sweep, posts, faults>>

\* Mutant: the row after the one that was enqueued.
MarkWebhookOutboxEnqueuedNext(i) == marked' = marked \cup {i + 1}

MarkWebhookOutboxEnqueued(i) == marked' = marked \cup {i}

WorkerMark ==
    /\ worker = "mark"
    /\ MarkWebhookOutboxEnqueued(last)
    /\ worker' = "idle"
    /\ UNCHANGED <<last, task, retried, sweep, posts, faults>>

\* Either call fails: a warning, and the worker goes on.
WorkerCallFails ==
    /\ worker # "idle"
    /\ Fault
    /\ worker' = "idle"
    /\ UNCHANGED <<last, marked, task, retried, sweep, posts>>

-----------------------------------------------------------------------------
\* WebhookSweepHandler.ProcessTask.

\* Mutant: the rows that are marked.
ListMarkedWebhookOutbox ==
    {i \in marked : Cardinality({j \in marked : j < i}) < SweepLimit}

\* ... WHERE enqueued_at IS NULL ORDER BY id LIMIT sweepLimit.
ListUnenqueuedWebhookOutbox ==
    LET open == (1..last) \ marked
    IN  {i \in open : Cardinality({j \in open : j < i}) < SweepLimit}

SweepStart(s) ==
    /\ sweep[s].at = "idle"
    /\ ListUnenqueuedWebhookOutbox # {}
    /\ sweep' = [sweep EXCEPT ![s] =
                    [at |-> "enqueue", todo |-> ListUnenqueuedWebhookOutbox]]
    /\ UNCHANGED <<last, marked, task, retried, worker, posts, faults>>

\* The loop is at row i.
At(s, call, i) ==
    /\ sweep[s].at = call
    /\ i \in sweep[s].todo
    /\ \A j \in sweep[s].todo : i <= j

\* The loop goes on to the next row.
Continue(s, i) ==
    LET rest == sweep[s].todo \ {i}
    IN  sweep' = [sweep EXCEPT ![s] =
                    IF rest = {} THEN Idle ELSE [at |-> "enqueue", todo |-> rest]]

\* Mutant: the newest row is taken to be in the worker's hands.
SweepEnqueueDropped(s) ==
    \E i \in Ids :
        /\ At(s, "enqueue", i)
        /\ IF i < last THEN EnqueueUnique(i) ELSE UNCHANGED <<task, retried>>
        /\ sweep' = [sweep EXCEPT ![s].at = "mark"]
        /\ UNCHANGED <<last, marked, worker, posts, faults>>

SweepEnqueue(s) ==
    \E i \in Ids :
        /\ At(s, "enqueue", i)
        /\ EnqueueUnique(i)
        /\ sweep' = [sweep EXCEPT ![s].at = "mark"]
        /\ UNCHANGED <<last, marked, worker, posts, faults>>

SweepMark(s) ==
    \E i \in Ids :
        /\ At(s, "mark", i)
        /\ MarkWebhookOutboxEnqueued(i)
        /\ Continue(s, i)
        /\ UNCHANGED <<last, task, retried, worker, posts, faults>>

\* Mutant: no "continue" after the warning that the enqueue failed.
SweepCallFailsOn(s) ==
    \E i \in Ids, call \in {"enqueue", "mark"} :
        /\ At(s, call, i)
        /\ Fault
        /\ IF call = "enqueue"
           THEN sweep' = [sweep EXCEPT ![s].at = "mark"] ELSE Continue(s, i)
        /\ UNCHANGED <<last, marked, task, retried, worker, posts>>

\* Either call fails: a warning, and on to the next row.
SweepCallFails(s) ==
    \E i \in Ids, call \in {"enqueue", "mark"} :
        /\ At(s, call, i)
        /\ Fault
        /\ Continue(s, i)
        /\ UNCHANGED <<last, marked, task, retried, worker, posts>>

\* The indexer process stops: the worker and the sweeps are gone.
IndexerCrash ==
    /\ worker # "idle" \/ \E s \in Sweepers : sweep[s] # Idle
    /\ Fault
    /\ worker' = "idle"
    /\ sweep' = [s \in Sweepers |-> Idle]
    /\ UNCHANGED <<last, marked, task, retried, posts>>

-----------------------------------------------------------------------------
\* A server takes a webhook:deliver task from the "default" queue.

Received(i) == posts' = [posts EXCEPT ![i] = IF @ < 2 THEN @ + 1 ELSE 2]

\* notify: 2xx.
Delivered(i) ==
    /\ task[i] = "queued"
    /\ Received(i)
    /\ task' = [task EXCEPT ![i] = "none"]
    /\ UNCHANGED <<last, marked, retried, worker, sweep, faults>>

\* notify: the endpoint got the POST and answered with an error, or its
\* answer came too late, or notify stopped before it could report success.
Refused(i) ==
    /\ task[i] = "queued"
    /\ Received(i)
    /\ TaskFails(i)
    /\ UNCHANGED <<last, marked, worker, sweep, faults>>

\* notify: the endpoint cannot be reached.
Unreachable(i) ==
    /\ task[i] = "queued"
    /\ TaskFails(i)
    /\ UNCHANGED <<last, marked, worker, sweep, posts, faults>>

\* The indexer's server reads the same queue and has no handler for the type:
\* the task fails.
NoHandler(i) ==
    /\ task[i] = "queued"
    /\ TaskFails(i)
    /\ UNCHANGED <<last, marked, worker, sweep, posts, faults>>

-----------------------------------------------------------------------------
WorkerStep == WorkerEnqueue \/ WorkerMark

SweepStep(s) == SweepStart(s) \/ SweepEnqueue(s) \/ SweepMark(s)

Serve(i) == Delivered(i) \/ Refused(i) \/ Unreachable(i) \/ NoHandler(i)

Next ==
    \/ Record \/ WorkerStep \/ WorkerCallFails \/ IndexerCrash
    \/ \E s \in Sweepers : SweepStep(s) \/ SweepCallFails(s)
    \/ \E i \in Ids : Serve(i)

\* The worker finishes what it has begun, the cron entry starts sweeps and
\* they run to their end, and some server takes every task.
Spec == /\ Init /\ [][Next]_vars
        /\ WF_vars(WorkerStep)
        /\ \A s \in Sweepers : WF_vars(SweepStep(s))
        /\ \A i \in Ids : WF_vars(Serve(i))

\* The endpoint can always be reached and answers 2xx, nothing fails and only
\* the shared queue is left of the trouble.
ReachableNext ==
    \/ Record \/ WorkerStep
    \/ \E s \in Sweepers : SweepStep(s)
    \/ \E i \in Ids : Delivered(i) \/ NoHandler(i)

ReachableSpec == Init /\ [][ReachableNext]_vars

-----------------------------------------------------------------------------
\* Properties.

\* Types of the variables, in every reachable state.
TypeOK ==
    /\ last \in 0..MaxRows
    /\ marked \subseteq 1..last
    /\ task \in [Ids -> {"none", "queued", "archived"}]
    /\ retried \in [Ids -> 0..MaxRetry]
    /\ worker \in {"idle", "enqueue", "mark"}
    /\ worker # "idle" => last > 0
    /\ sweep \in [Sweepers -> [at : {"idle", "enqueue", "mark"},
                               todo : SUBSET (1..last)]]
    /\ posts \in [Ids -> 0..2]
    /\ faults \in 0..MaxFaults

\* No webhook is forgotten: once a row is marked, so that no sweep sees it
\* again, its task is in the queue or archived, or the endpoint got the event.
\* (The worker and any number of sweeps enqueue and mark the same rows, while
\* tasks come and go.)
NoneForgotten ==
    \A i \in marked : task[i] # "none" \/ posts[i] > 0

\* Every recorded webhook reaches the endpoint or is given up visibly (the
\* sweep is the backstop for whatever the worker could not enqueue or mark).
Settles ==
    \A i \in Ids : (i <= last) ~> (posts[i] > 0 \/ task[i] = "archived")

\* The retry budget is spent on the endpoint: a task is archived only after
\* at least one POST reached it, as long as it can be reached.
BudgetForEndpoint ==
    \A i \in Ids : task[i] = "archived" => posts[i] > 0

-----------------------------------------------------------------------------
\* The inductive invariant behind NoneForgotten: what the worker or a sweep
\* is about to mark was handed to the queue.
Handed(i) == task[i] # "none" \/ posts[i] > 0

DeliveryInv ==
    /\ TypeOK
    /\ NoneForgotten
    /\ worker = "mark" => Handed(last)
    /\ \A s \in Sweepers, i \in Ids : At(s, "mark", i) => Handed(i)
=============================================================================
