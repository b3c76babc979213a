--------------------------- MODULE DeliveryProofs ---------------------------
(***************************************************************************)
(* For every number of rows, retries, sweeps and faults: a marked row was  *)
(* handed to the queue.  The argument is one invariant, DeliveryInv; each  *)
(* action is shown to preserve its four conjuncts.                         *)
(***************************************************************************)
EXTENDS Delivery, TLAPS

\* What the loop of a sweep is about to mark was handed to the queue.
SweepsHand == \A s \in Sweepers, i \in Ids : At(s, "mark", i) => Handed(i)

WorkerHands == worker = "mark" => Handed(last)

\* Initially nothing is recorded and nobody is about to mark.
LEMMA InitDelivery == Init => DeliveryInv
<1> SUFFICES ASSUME Init PROVE DeliveryInv
  OBVIOUS
<1>1. TypeOK
  BY DeliveryAssumption DEF Init, TypeOK, Ids, Idle
<1> QED
  BY <1>1 DEF Init, DeliveryInv, NoneForgotten, At, Idle

-----------------------------------------------------------------------------
\* Types.

\* The helpers of the queue keep the types of its variables.
LEMMA EnqueueType ==
    ASSUME TypeOK, NEW i \in Ids, EnqueueUnique(i)
    PROVE  /\ task' \in [Ids -> {"none", "queued", "archived"}]
           /\ retried' \in [Ids -> 0..MaxRetry]
           /\ task'[i] # "none"
           /\ \A j \in Ids : task[j] # "none" => task'[j] # "none"
<1>1. /\ task \in [Ids -> {"none", "queued", "archived"}]
      /\ retried \in [Ids -> 0..MaxRetry]
      /\ 0 \in 0..MaxRetry
  BY DeliveryAssumption DEF TypeOK
<1>2. CASE task[i] = "none"
  BY <1>1, <1>2 DEF EnqueueUnique
<1>3. CASE task[i] # "none"
  BY <1>1, <1>3 DEF EnqueueUnique
<1> QED
  BY <1>2, <1>3

\* A failed attempt is retried or archived: the task stays with the queue.
LEMMA FailType ==
    ASSUME TypeOK, NEW i \in Ids, task[i] = "queued", TaskFails(i)
    PROVE  /\ task' \in [Ids -> {"none", "queued", "archived"}]
           /\ retried' \in [Ids -> 0..MaxRetry]
           /\ \A j \in Ids : task[j] # "none" => task'[j] # "none"
<1>1. /\ task \in [Ids -> {"none", "queued", "archived"}]
      /\ retried \in [Ids -> 0..MaxRetry]
      /\ retried[i] \in 0..MaxRetry
  BY DEF TypeOK
<1>2. CASE retried[i] < MaxRetry
  <2>1. retried[i] + 1 \in 0..MaxRetry
    BY <1>1, <1>2, DeliveryAssumption
  <2> QED
    BY <1>1, <1>2, <2>1 DEF TaskFails
<1>3. CASE ~ (retried[i] < MaxRetry)
  BY <1>1, <1>3 DEF TaskFails
<1> QED
  BY <1>2, <1>3

\* The loop of a sweep goes on: no sweep gets to a mark by this.
LEMMA ContinueType ==
    ASSUME TypeOK, NEW s \in Sweepers, NEW i \in Ids, Continue(s, i)
    PROVE  /\ sweep' \in [Sweepers -> [at : {"idle", "enqueue", "mark"},
                                       todo : SUBSET (1..last)]]
           /\ sweep'[s].at # "mark"
           /\ \A r \in Sweepers : r # s => sweep'[r] = sweep[r]
<1>1. sweep[s].todo \ {i} \in SUBSET (1..last)
  BY DEF TypeOK
<1> QED
  BY <1>1 DEF TypeOK, Continue, Idle

\* A request that arrived is remembered.
LEMMA ReceivedType ==
    ASSUME TypeOK, NEW i \in Ids, Received(i)
    PROVE  /\ posts' \in [Ids -> 0..2]
           /\ posts'[i] > 0
           /\ \A j \in Ids : posts[j] > 0 => posts'[j] > 0
BY DEF TypeOK, Received

\* The count of faults stays within its bound.
LEMMA FaultType ==
    ASSUME TypeOK, Fault
    PROVE  faults' \in 0..MaxFaults
BY DeliveryAssumption DEF TypeOK, Fault

-----------------------------------------------------------------------------
\* The steps, one lemma per process.

\* The worker's steps preserve the invariant.
LEMMA WorkerSteps ==
    ASSUME DeliveryInv, Record \/ WorkerStep \/ WorkerCallFails
    PROVE  DeliveryInv'
<1> USE DeliveryAssumption
<1> SUFFICES TypeOK' /\ NoneForgotten' /\ WorkerHands' /\ SweepsHand'
  BY DEF DeliveryInv, WorkerHands, SweepsHand
<1>0. TypeOK /\ NoneForgotten /\ WorkerHands /\ SweepsHand
  BY DEF DeliveryInv, WorkerHands, SweepsHand
<1>1. CASE Record
  <2>1. TypeOK'
    BY <1>0, <1>1 DEF TypeOK, Record
  <2> QED
    BY <1>0, <1>1, <2>1 DEF Record, NoneForgotten, WorkerHands, SweepsHand, At,
                            Handed
<1>2. CASE WorkerEnqueue
  <2>1. last \in Ids /\ last \in Nat
    BY <1>0, <1>2 DEF TypeOK, WorkerEnqueue, Ids
  <2>2. /\ task' \in [Ids -> {"none", "queued", "archived"}]
        /\ retried' \in [Ids -> 0..MaxRetry]
        /\ task'[last] # "none"
        /\ \A j \in Ids : task[j] # "none" => task'[j] # "none"
    BY <1>0, <1>2, <2>1, EnqueueType DEF WorkerEnqueue
  <2>3. TypeOK'
    BY <1>0, <1>2, <2>1, <2>2 DEF TypeOK, WorkerEnqueue
  <2>4. marked \subseteq Ids
    BY <1>0 DEF TypeOK, Ids
  <2>5. NoneForgotten'
    BY <1>0, <1>2, <2>2, <2>4 DEF NoneForgotten, WorkerEnqueue
  <2>6. SweepsHand'
    BY <1>0, <1>2, <2>2 DEF SweepsHand, At, Handed, WorkerEnqueue
  <2> QED
    BY <1>2, <2>2, <2>3, <2>5, <2>6 DEF WorkerHands, Handed, WorkerEnqueue
<1>3. CASE WorkerMark
  <2>1. TypeOK'
    BY <1>0, <1>3 DEF TypeOK, WorkerMark, MarkWebhookOutboxEnqueued
  <2> QED
    BY <1>0, <1>3, <2>1 DEF WorkerMark, MarkWebhookOutboxEnqueued,
                            NoneForgotten, WorkerHands, SweepsHand, At, Handed
<1>4. CASE WorkerCallFails
  <2>1. TypeOK'
    BY <1>0, <1>4, FaultType DEF TypeOK, WorkerCallFails
  <2> QED
    BY <1>0, <1>4, <2>1 DEF WorkerCallFails, NoneForgotten, WorkerHands,
                            SweepsHand, At, Handed
<1> QED
  BY <1>1, <1>2, <1>3, <1>4 DEF WorkerStep

\* The steps of a sweep preserve the invariant.
LEMMA SweepSteps ==
    ASSUME DeliveryInv, NEW s \in Sweepers, SweepStep(s) \/ SweepCallFails(s)
    PROVE  DeliveryInv'
<1> USE DeliveryAssumption
<1> SUFFICES TypeOK' /\ NoneForgotten' /\ WorkerHands' /\ SweepsHand'
  BY DEF DeliveryInv, WorkerHands, SweepsHand
<1>0. TypeOK /\ NoneForgotten /\ WorkerHands /\ SweepsHand
  BY DEF DeliveryInv, WorkerHands, SweepsHand
<1>m. marked \subseteq Ids /\ 1..last \subseteq Ids
  BY <1>0 DEF TypeOK, Ids
<1>1. CASE SweepStart(s)
  <2>1. ListUnenqueuedWebhookOutbox \in SUBSET (1..last)
    BY DEF ListUnenqueuedWebhookOutbox
  <2>2. /\ sweep' \in [Sweepers -> [at : {"idle", "enqueue", "mark"},
                                    todo : SUBSET (1..last)]]
        /\ sweep'[s].at # "mark"
        /\ \A r \in Sweepers : r # s => sweep'[r] = sweep[r]
    BY <1>0, <1>1, <2>1 DEF TypeOK, SweepStart
  <2>3. TypeOK'
    BY <1>0, <1>1, <2>2 DEF TypeOK, SweepStart
  <2>4. SweepsHand'
    BY <1>0, <1>1, <2>2 DEF SweepsHand, At, Handed, SweepStart
  <2> QED
    BY <1>0, <1>1, <2>3, <2>4 DEF SweepStart, NoneForgotten, WorkerHands, Handed
<1>2. CASE SweepEnqueue(s)
  <2>1. PICK i \in Ids :
          /\ At(s, "enqueue", i)
          /\ EnqueueUnique(i)
          /\ sweep' = [sweep EXCEPT ![s].at = "mark"]
          /\ UNCHANGED <<last, marked, worker, posts, faults>>
    BY <1>2 DEF SweepEnqueue
  <2>2. /\ task' \in [Ids -> {"none", "queued", "archived"}]
        /\ retried' \in [Ids -> 0..MaxRetry]
        /\ task'[i] # "none"
        /\ \A j \in Ids : task[j] # "none" => task'[j] # "none"
    BY <1>0, <2>1, EnqueueType
  <2>3. /\ sweep' \in [Sweepers -> [at : {"idle", "enqueue", "mark"},
                                    todo : SUBSET (1..last)]]
        /\ sweep'[s].todo = sweep[s].todo
        /\ \A r \in Sweepers : r # s => sweep'[r] = sweep[r]
    BY <1>0, <2>1 DEF TypeOK
  <2>4. TypeOK'
    BY <1>0, <2>1, <2>2, <2>3 DEF TypeOK
  <2>5. NoneForgotten'
    BY <1>0, <1>m, <2>1, <2>2 DEF NoneForgotten
  <2>6. SweepsHand'
    <3> SUFFICES ASSUME NEW r \in Sweepers, NEW j \in Ids, At(r, "mark", j)'
                 PROVE  Handed(j)'
      BY DEF SweepsHand
    <3>1. CASE r = s
      <4>1. j = i
        BY <2>1, <2>3, <3>1 DEF At, Ids
      <4> QED
        BY <2>2, <4>1 DEF Handed
    <3>2. CASE r # s
      <4>1. At(r, "mark", j)
        BY <2>3, <3>2 DEF At
      <4> QED
        BY <1>0, <2>1, <2>2, <4>1 DEF SweepsHand, Handed
    <3> QED
      BY <3>1, <3>2
  <2>7. WorkerHands'
    <3>1. last \in Ids \/ worker = "idle"
      BY <1>0 DEF TypeOK, Ids
    <3> QED
      BY <1>0, <2>1, <2>2, <3>1 DEF WorkerHands, Handed
  <2> QED
    BY <2>4, <2>5, <2>6, <2>7
<1>3. CASE SweepMark(s)
  <2>1. PICK i \in Ids :
          /\ At(s, "mark", i)
          /\ marked' = marked \cup {i}
          /\ Continue(s, i)
          /\ UNCHANGED <<last, task, retried, worker, posts, faults>>
    BY <1>3 DEF SweepMark, MarkWebhookOutboxEnqueued
  <2>2. i \in 1..last
    BY <1>0, <2>1 DEF At, TypeOK
  <2>3. TypeOK'
    BY <1>0, <2>1, <2>2, ContinueType DEF TypeOK
  <2>4. NoneForgotten'
    BY <1>0, <2>1 DEF NoneForgotten, SweepsHand, Handed
  <2>5. SweepsHand'
    BY <1>0, <2>1, ContinueType DEF SweepsHand, At, Handed
  <2> QED
    BY <1>0, <2>1, <2>3, <2>4, <2>5 DEF WorkerHands, Handed
<1>4. CASE SweepCallFails(s)
  <2>1. PICK i \in Ids :
          /\ Fault
          /\ Continue(s, i)
          /\ UNCHANGED <<last, marked, task, retried, worker, posts>>
    BY <1>4 DEF SweepCallFails
  <2>2. TypeOK'
    BY <1>0, <2>1, ContinueType, FaultType DEF TypeOK
  <2>3. SweepsHand'
    BY <1>0, <2>1, ContinueType DEF SweepsHand, At, Handed
  <2> QED
    BY <1>0, <2>1, <2>2, <2>3 DEF NoneForgotten, WorkerHands, Handed
<1> QED
  BY <1>1, <1>2, <1>3, <1>4 DEF SweepStep

\* A server's step on one task: the task stays, or it is gone and the
\* endpoint got the event.
LEMMA ServeSteps ==
    ASSUME DeliveryInv, NEW i \in Ids, Serve(i)
    PROVE  DeliveryInv'
<1> USE DeliveryAssumption
<1> SUFFICES TypeOK' /\ NoneForgotten' /\ WorkerHands' /\ SweepsHand'
  BY DEF DeliveryInv, WorkerHands, SweepsHand
<1>0. TypeOK /\ NoneForgotten /\ WorkerHands /\ SweepsHand
  BY DEF DeliveryInv, WorkerHands, SweepsHand
<1>1. /\ UNCHANGED <<last, marked, worker, sweep, faults>>
      /\ task' \in [Ids -> {"none", "queued", "archived"}]
      /\ retried' \in [Ids -> 0..MaxRetry]
      /\ posts' \in [Ids -> 0..2]
      /\ \A j \in Ids : Handed(j) => task'[j] # "none" \/ posts'[j] > 0
  <2>1. CASE Delivered(i)
    BY <1>0, <2>1, ReceivedType DEF Delivered, TypeOK, Handed
  <2>2. CASE Refused(i)
    BY <1>0, <2>2, ReceivedType, FailType DEF Refused, TypeOK, Handed
  <2>3. CASE Unreachable(i) \/ NoHandler(i)
    BY <1>0, <2>3, FailType DEF Unreachable, NoHandler, TypeOK, Handed
  <2> QED
    BY <2>1, <2>2, <2>3 DEF Serve
<1>2. TypeOK'
  BY <1>0, <1>1 DEF TypeOK
<1>3. NoneForgotten'
  <2>1. marked \subseteq Ids
    BY <1>0 DEF TypeOK, Ids
  <2> QED
    BY <1>0, <1>1, <2>1 DEF NoneForgotten, Handed
<1>4. WorkerHands'
  <2>1. last \in Ids \/ worker = "idle"
    BY <1>0 DEF TypeOK, Ids
  <2> QED
    BY <1>0, <1>1, <2>1 DEF WorkerHands, Handed
<1>5. SweepsHand'
  BY <1>0, <1>1 DEF SweepsHand, At, Handed
<1> QED
  BY <1>2, <1>3, <1>4, <1>5

\* A crash of the indexer loses its position and no row.
LEMMA CrashStep ==
    ASSUME DeliveryInv, IndexerCrash
    PROVE  DeliveryInv'
<1>1. TypeOK'
  BY FaultType, DeliveryAssumption DEF DeliveryInv, TypeOK, IndexerCrash, Idle
<1>2. \A s \in Sweepers, i \in Ids : ~ At(s, "mark", i)'
  BY DEF IndexerCrash, At, Idle
<1> QED
  BY <1>1, <1>2 DEF DeliveryInv, IndexerCrash, NoneForgotten

\* Every step of the worker, the sweeps, the queue's server and a crash
\* preserves the invariant.
LEMMA StepDelivery == DeliveryInv /\ [Next]_vars => DeliveryInv'
<1> SUFFICES ASSUME DeliveryInv, [Next]_vars PROVE DeliveryInv'
  OBVIOUS
<1>1. CASE Next
  BY <1>1, WorkerSteps, SweepSteps, ServeSteps, CrashStep DEF Next
<1>2. CASE UNCHANGED vars
  BY <1>2 DEF vars, DeliveryInv, TypeOK, NoneForgotten, Handed, At
<1> QED
  BY <1>1, <1>2

\* With any number of rows, sweeps and faults, what the worker or a sweep is
\* about to mark in the outbox was handed to the queue.
THEOREM DeliveryInvariant == Spec => []DeliveryInv
  BY InitDelivery, StepDelivery, PTL DEF Spec

\* Every variable has its type, with any number of rows, sweeps and faults.
THEOREM DeliveryTypeCorrect == Spec => []TypeOK
<1>1. DeliveryInv => TypeOK
  BY DEF DeliveryInv
<1> QED
  BY DeliveryInvariant, <1>1, PTL

\* A row that no sweep sees again is in the queue, archived, or delivered:
\* however the worker and the sweeps interleave, whichever calls fail and
\* wherever the indexer stops.
THEOREM NothingForgotten == Spec => []NoneForgotten
<1>1. DeliveryInv => NoneForgotten
  BY DEF DeliveryInv
<1> QED
  BY DeliveryInvariant, <1>1, PTL
=============================================================================
