------------------------------- MODULE Worker -------------------------------
(***************************************************************************)
(* The indexer's poll loop (services/indexer/internal/usecase/worker.go):  *)
(* it copies the certificates the contract issued into the read model,     *)
(* rolls back when the chain was reorganised, and records a webhook for    *)
(* every certificate.                                                      *)
(*                                                                         *)
(* One step of the model is one write to a store together with the chain   *)
(* reads that precede it: nothing but a reorganisation can come between    *)
(* such a read and the write, and that order of events ends in the same    *)
(* state as the write followed by the reorganisation.  Reads that are used *)
(* by later writes (the head, the logs) are steps of their own.            *)
(***************************************************************************)
EXTENDS ReadModel

CONSTANTS
    StartBlock,    \* cfg.StartBlock: first block to index
    BatchSize,     \* cfg.BatchSize: blocks per poll
    ReorgWindow,   \* reorgWindow (12): blocks a rollback goes back
    Word,          \* 2^64: block numbers wrap at this value
    BadTxs         \* transactions whose certificate Validate() rejects

ASSUME WorkerAssumption ==
    /\ StartBlock \in Nat
    /\ BatchSize \in Nat
    /\ ReorgWindow \in Nat
    /\ Word \in Nat \ {0}
    /\ BadTxs \subseteq Txs

VARIABLES
    tasks,      \* webhook:deliver tasks handed to the queue, by outbox key
    trendTask,  \* a trend:refresh task is in the queue
    feed,       \* certificates published to subscribers of this process
    pc,         \* where the worker is
    next,       \* w.next: next block to process
    to,         \* poll's "to", or reconcile's "rewindTo"
    todo        \* logs of the batch still to be processed

workerVars == <<tasks, trendTask, feed, pc, next, to, todo>>
vars == <<chainVars, storeVars, workerVars>>

PCs == {"down", "idle", "rewind", "head", "logs", "log",
        "publish", "outbox", "enqueue", "mark"}

Init ==
    /\ ChainInit
    /\ StoreInit
    /\ tasks = {} /\ trendTask = FALSE /\ feed = {}
    /\ pc = "down" /\ next = 0 /\ to = 0 /\ todo = {}

\* poll returns, with or without an error; its local variables are gone.
Return == pc' = "idle" /\ to' = 0 /\ todo' = {}

-----------------------------------------------------------------------------
\* Mutant: a restart begins at the start block.
InitNextAtStart ==
    /\ pc = "down"
    /\ next' = StartBlock
    /\ pc' = "idle"
    /\ UNCHANGED <<chainVars, storeVars, tasks, trendTask, feed, to, todo>>

\* Run -> initNext: resume after the checkpoint.
InitNext ==
    /\ pc = "down"
    /\ next' = IF state.block = 0 THEN StartBlock ELSE state.block + 1
    /\ pc' = "idle"
    /\ UNCHANGED <<chainVars, storeVars, tasks, trendTask, feed, to, todo>>

-----------------------------------------------------------------------------
\* reconcile.

\* The node knows the checkpoint's block under the stored hash.
CheckpointCanonical ==
    state.block <= head /\ BlockHash(state.block) = state.hash

\* Mutant: the stored hash is not compared.
NoReorgUnchecked ==
    /\ pc = "idle"
    /\ state.hash = NoHash \/ state.block <= head
    /\ pc' = "head"
    /\ UNCHANGED <<chainVars, storeVars, tasks, trendTask, feed, next, to, todo>>

\* Cold start, or no reorganisation.  While the node does not know the block
\* at all (state.block > head) the poll fails and nothing changes.
NoReorg ==
    /\ pc = "idle"
    /\ state.hash = NoHash \/ CheckpointCanonical
    /\ pc' = "head"
    /\ UNCHANGED <<chainVars, storeVars, tasks, trendTask, feed, next, to, todo>>

\* Mutants: no lower bound; a window one block too short.
RewindToUnbounded == state.block - ReorgWindow

RewindToShort ==
    IF state.block > StartBlock + ReorgWindow
    THEN state.block - ReorgWindow + 1 ELSE StartBlock

RewindTo ==
    IF state.block > StartBlock + ReorgWindow
    THEN state.block - ReorgWindow ELSE StartBlock

\* Mutant: the block the rollback goes back to is deleted as well.
RollBackInclusive ==
    /\ pc = "idle"
    /\ state.hash # NoHash
    /\ state.block <= head
    /\ BlockHash(state.block) # state.hash
    /\ DeleteFromBlock(RewindTo)
    /\ to' = RewindTo
    /\ pc' = "rewind"
    /\ UNCHANGED <<chainVars, state, outbox, enqueued,
                   tasks, trendTask, feed, next, todo>>

RollBack ==
    /\ pc = "idle"
    /\ state.hash # NoHash
    /\ state.block <= head
    /\ BlockHash(state.block) # state.hash
    /\ DeleteFromBlock(RewindTo + 1)
    /\ to' = RewindTo
    /\ pc' = "rewind"
    /\ UNCHANGED <<chainVars, state, outbox, enqueued,
                   tasks, trendTask, feed, next, todo>>

\* Mutant: w.next keeps its value.
SaveRewoundKeepsNext ==
    /\ pc = "rewind"
    /\ to <= head
    /\ SaveState(to, BlockHash(to))
    /\ pc' = "head"
    /\ to' = 0
    /\ UNCHANGED <<chainVars, rows, outbox, enqueued,
                   tasks, trendTask, feed, next, todo>>

SaveRewound ==
    /\ pc = "rewind"
    /\ to <= head
    /\ SaveState(to, BlockHash(to))
    /\ next' = to + 1
    /\ pc' = "head"
    /\ to' = 0
    /\ UNCHANGED <<chainVars, rows, outbox, enqueued,
                   tasks, trendTask, feed, todo>>

-----------------------------------------------------------------------------
\* poll.

NothingToDo ==
    /\ pc = "head"
    /\ next > head
    /\ Return
    /\ UNCHANGED <<chainVars, storeVars, tasks, trendTask, feed, next>>

\* min(w.next+w.cfg.BatchSize-1, head) in uint64 arithmetic.
BatchEnd ==
    LET last == (next + BatchSize - 1) % Word
    IN  IF last < head THEN last ELSE head

HeadBlock ==
    /\ pc = "head"
    /\ next <= head
    /\ to' = BatchEnd
    /\ pc' = "logs"
    /\ UNCHANGED <<chainVars, storeVars, tasks, trendTask, feed, next, todo>>

FetchLogs ==
    /\ pc = "logs"
    /\ todo' = IssuedLogs(next, to)
    /\ pc' = "log"
    /\ UNCHANGED <<chainVars, storeVars, tasks, trendTask, feed, next, to>>

\* The log processLog is called with: logs come in chain order, which is the
\* order of the token ids.
Current(l) == l \in todo /\ \A m \in todo : l.token <= m.token

\* getCertificate(tokenId) at the head returns the certificate that
\* transaction d issued.
Certificate(token, d) == \E m \in AllLogs : m.token = token /\ m.tx = d

\* Mutant: a certificate that the table has already is not published again.
StoreCertificateOnce(l, d) ==
    /\ ~ UniqueViolation(l)
    /\ Upsert(Row(l, d))
    /\ pc' = IF Row(l, d) \in rows THEN "outbox" ELSE "publish"
    /\ UNCHANGED <<chainVars, state, outbox, enqueued,
                   tasks, trendTask, feed, next, to, todo>>

StoreCertificate(l, d) ==
    /\ ~ UniqueViolation(l)
    /\ Upsert(Row(l, d))
    /\ pc' = "publish"
    /\ UNCHANGED <<chainVars, state, outbox, enqueued,
                   tasks, trendTask, feed, next, to, todo>>

\* GetCertificate returns a certificate that passes Validate().
ProcessLog ==
    \E l \in todo, d \in Txs \ BadTxs :
        /\ pc = "log"
        /\ Current(l)
        /\ Certificate(l.token, d)
        /\ StoreCertificate(l, d)

\* Publish the certificate just stored, which is the row of its token, and
\* enqueue trend:refresh, which may fail ("refresh" tells whether the task is
\* in the queue afterwards).
PublishCertificate(refresh) ==
    \E l \in todo, r \in rows :
        /\ pc = "publish"
        /\ Current(l)
        /\ r.token = l.token
        /\ feed' = feed \cup {r}
        /\ trendTask' = refresh
        /\ pc' = "outbox"
        /\ UNCHANGED <<chainVars, storeVars, tasks, next, to, todo>>

\* The certificate fails Validate(), or the insert violates a constraint: the
\* poll ends with an error and the checkpoint stays.
Reject ==
    /\ pc = "log"
    /\ \E l \in todo :
        /\ Current(l)
        /\ UniqueViolation(l) \/ \E d \in BadTxs : Certificate(l.token, d)
    /\ Return
    /\ UNCHANGED <<chainVars, storeVars, tasks, trendTask, feed, next>>

\* The batch is done: checkpoint its last block under its canonical hash.
Checkpoint ==
    /\ pc = "log"
    /\ todo = {}
    /\ to <= head
    /\ SaveState(to, BlockHash(to))
    /\ next' = to + 1
    /\ Return
    /\ UNCHANGED <<chainVars, rows, outbox, enqueued, tasks, trendTask, feed>>

-----------------------------------------------------------------------------
\* enqueueWebhook.

Done(l) == pc' = "log" /\ todo' = todo \ {l}

RecordWebhook ==
    \E l \in todo :
        /\ pc = "outbox"
        /\ Current(l)
        /\ InsertWebhookOutbox(OutboxKey(l))
        /\ IF IsNew(OutboxKey(l))
           THEN pc' = "enqueue" /\ UNCHANGED todo
           ELSE Done(l)
        /\ UNCHANGED <<chainVars, rows, state, enqueued,
                       tasks, trendTask, feed, next, to>>

EnqueueWebhook ==
    \E l \in todo :
        /\ pc = "enqueue"
        /\ Current(l)
        /\ tasks' = tasks \cup {OutboxKey(l)}
        /\ pc' = "mark"
        /\ UNCHANGED <<chainVars, storeVars, trendTask, feed, next, to, todo>>

MarkWebhook ==
    \E l \in todo :
        /\ pc = "mark"
        /\ Current(l)
        /\ MarkWebhookOutboxEnqueued(OutboxKey(l))
        /\ Done(l)
        /\ UNCHANGED <<chainVars, rows, state, outbox,
                       tasks, trendTask, feed, next, to>>

\* Mutant: no return after the warning that the enqueue failed.
WebhookStepFailsOn ==
    \E l \in todo :
        /\ pc \in {"enqueue", "mark"}
        /\ Current(l)
        /\ IF pc = "enqueue" THEN pc' = "mark" /\ UNCHANGED todo ELSE Done(l)
        /\ UNCHANGED <<chainVars, storeVars, tasks, trendTask, feed, next, to>>

\* The queue or the database refuses: logged, the log counts as processed.
WebhookStepFails ==
    \E l \in todo :
        /\ pc \in {"enqueue", "mark"}
        /\ Current(l)
        /\ Done(l)
        /\ UNCHANGED <<chainVars, storeVars, tasks, trendTask, feed, next, to>>

-----------------------------------------------------------------------------
\* What else may happen to the worker.

\* A chain or database call returns an error: Run logs it and polls again.  At
\* "publish" the Upsert committed and its answer was lost.
PollFails ==
    /\ pc \in {"rewind", "head", "logs", "log", "publish", "outbox"}
    /\ Return
    /\ UNCHANGED <<chainVars, storeVars, tasks, trendTask, feed, next>>

\* The database commits the batch's checkpoint and the answer is lost: poll
\* returns the error before it advances w.next.
CheckpointUnanswered ==
    /\ pc = "log"
    /\ todo = {}
    /\ to <= head
    /\ SaveState(to, BlockHash(to))
    /\ Return
    /\ UNCHANGED <<chainVars, rows, outbox, enqueued,
                   tasks, trendTask, feed, next>>

\* The process stops; its memory and its subscribers are gone.
Crash ==
    /\ pc # "down"
    /\ pc' = "down" /\ next' = 0 /\ to' = 0 /\ todo' = {} /\ feed' = {}
    /\ UNCHANGED <<chainVars, storeVars, tasks, trendTask>>

-----------------------------------------------------------------------------
\* Specifications.

WorkerNext ==
    \/ InitNext
    \/ NoReorg \/ RollBack \/ SaveRewound
    \/ NothingToDo \/ HeadBlock \/ FetchLogs
    \/ ProcessLog \/ PublishCertificate(TRUE) \/ Reject \/ Checkpoint
    \/ RecordWebhook \/ EnqueueWebhook \/ MarkWebhook

MineStep == Mine /\ UNCHANGED <<storeVars, workerVars>>

ReorgStep == Reorg /\ UNCHANGED <<storeVars, workerVars>>

\* A poll is short against the time between blocks: as a rule the chain is
\* reorganised between two polls.
ReorgBetweenPolls == pc \in {"down", "idle"} /\ ReorgStep

Next == WorkerNext \/ MineStep \/ ReorgBetweenPolls

FaultNext ==
    \/ PollFails \/ Crash
    \/ PublishCertificate(trendTask) \/ WebhookStepFails

\* No faults: every call succeeds and the process stays up.  Run polls at
\* every tick, and the chain keeps producing blocks.
Spec == Init /\ [][Next]_vars /\ WF_vars(WorkerNext) /\ WF_vars(MineStep)

\* Any call may fail and the process may stop anywhere.  A failing write to
\* the certificates or the outbox may have committed: it is then the step
\* after the write that fails.
FaultySpec == Init /\ [][Next \/ FaultNext]_vars

\* The answer to a batch's checkpoint may be lost as well.
UnansweredSpec == Init /\ [][Next \/ FaultNext \/ CheckpointUnanswered]_vars

\* A reorganisation may also strike in the middle of a poll.
RacingSpec == Init /\ [][Next \/ ReorgStep \/ PollFails]_vars

\* A call may fail now and then.
TransientSpec == /\ Init /\ [][Next \/ PollFails]_vars
                 /\ WF_vars(WorkerNext) /\ WF_vars(MineStep)

-----------------------------------------------------------------------------
\* Properties.

\* Types of the variables, in every reachable state.
TypeOK ==
    /\ head \in 0..MaxHead
    /\ chain \in [0..head -> Blocks]
    /\ final \in Nat
    /\ forks \in 0..MaxReorgs
    /\ rows \subseteq Rows
    /\ state.block \in Nat
    /\ IsHash(state.hash)
    /\ outbox \subseteq OutboxKeys
    /\ enqueued \subseteq OutboxKeys
    /\ tasks \subseteq OutboxKeys
    /\ trendTask \in BOOLEAN
    /\ feed \subseteq Rows
    /\ pc \in PCs
    /\ next \in Nat
    /\ to \in Nat
    /\ todo \subseteq Logs

\* The certificates the canonical chain has up to block n.
Canonical(n) == IssuedLogs(StartBlock, n)

Trusted == state.hash # NoHash /\ CheckpointCanonical

\* No certificate is skipped: as long as the checkpoint's hash is the
\* canonical one, every certificate up to it is in the table as the chain
\* has it and has its webhook recorded.  (poll advances last_processed_block
\* only after every log of the batch went through processLog; reconcile
\* takes back what it deleted.)
Complete ==
    Trusted =>
        \A l \in Canonical(state.block) :
            TrueRow(l) \in rows /\ OutboxKey(l) \in outbox

\* No phantom: as long as the checkpoint's hash is the canonical one, every
\* row up to the checkpoint is a certificate of the canonical chain
\* (reconcile deletes what a reorganisation took away before a checkpoint
\* covers those blocks again).
NoPhantom ==
    Trusted =>
        \A r \in rows : r.block <= state.block =>
            \E l \in Canonical(state.block) : r = TrueRow(l)

\* What the checkpoint vouches for: all certificates of the canonical chain up
\* to it as long as its hash is canonical, and those that no rollback reaches
\* in any case.
Covered == {l \in Canonical(state.block) : Trusted \/ l.block <= RewindTo}

\* A reader never sees a covered certificate disappear or change: whatever
\* poll, reconcile, a failing call or a restart does next, its row stays as
\* it is (reconcile deletes above the rollback's target only, and an upsert
\* replaces the row of its own certificate only).
NeverWithdrawn ==
    [][\A l \in Covered : TrueRow(l) \in rows => TrueRow(l) \in rows']_vars

\* Progress is not undone: as long as the checkpoint's hash is the canonical
\* one, no step moves it back, although w.next may be behind it after a poll
\* whose SaveState committed without an answer, and is computed anew after a
\* restart (only reconcile lowers the checkpoint, on a stale hash).
NeverRecedes == [][Trusted => state'.block >= state.block]_vars

\* A certificate is announced before the checkpoint passes it: a step that
\* advances the checkpoint finds every certificate it newly covers, as the
\* chain has it, among those this process has published, also when an earlier
\* poll or an earlier process had stored the row and came no further
\* (processLog publishes after every Upsert that succeeds, also one that
\* replaces a row by itself, and poll saves the checkpoint after the last log).
AnnouncedFirst ==
    [][state'.block > state.block =>
        \A l \in Canonical(state'.block) :
            l.block > state.block => TrueRow(l) \in feed]_vars

\* Without faults the table is an exact copy between polls: as long as the
\* checkpoint's hash is the canonical one, the rows are the certificates of
\* the canonical chain up to the checkpoint, no more and no fewer.
Mirror ==
    (pc = "idle" /\ Trusted) =>
        rows = {TrueRow(l) : l \in Canonical(state.block)}

\* A row is marked as enqueued only after its task reached the queue, so
\* webhook:sweep finds every row whose task did not.
MarkedAfterEnqueue == enqueued \subseteq tasks

\* The checkpoint reaches the head of the chain and stays with it: no error
\* that poll retries stops the worker for good.
KeepsUp == <>[](state.block = head)

\* Errors that stop do not hold the worker up: when from some time on no call
\* fails, the checkpoint reaches the head of the chain and stays with it
\* (Run retries a failed poll at the next tick, and re-processing is
\* idempotent by the keys of the tables).
Recovers == <>[][Next]_vars => KeepsUp

\* Once reorganisations stop, the read model catches up with the chain and
\* stays equal to it, with a task in the queue for every certificate.
Converges ==
    <>[](/\ state.block = head
         /\ rows = {TrueRow(l) : l \in Canonical(head)}
         /\ {OutboxKey(l) : l \in Canonical(head)} \subseteq tasks)

-----------------------------------------------------------------------------
\* The inductive invariant behind Complete, for FaultySpec.

\* The chain's finality is within the window a rollback covers, and the block
\* a rollback falls back to at the start of the range is final.
FinalityWithinWindow == ReorgDepth <= ReorgWindow /\ StartBlock <= Anchor

\* Block numbers and the end of a batch fit the word: no sum wraps around.
FitsWord == MaxHead + BatchSize < Word

\* The contract's counter orders the tokens of the branch: no two logs of the
\* chain have the same token.
ChainOK ==
    /\ head <= final + ReorgDepth
    /\ Anchor <= final
    /\ \A n \in 0..head :
        /\ chain[n].fork <= forks
        /\ \A l \in chain[n].logs : l.block = n /\ l.token <= chain[n].supply
        /\ \A l, m \in chain[n].logs : l.token = m.token => l = m
    /\ \A m, n \in 0..head : m < n =>
        /\ chain[m].supply <= chain[n].supply
        /\ \A l \in chain[n].logs : chain[m].supply < l.token

\* Block i was final when the checkpoint was saved.
Settled(i) == i <= Anchor \/ i + ReorgDepth <= state.block

\* The checkpoint's hash: a block it has and the chain has not (any more) is
\* of an older branch, so the chain cannot come back to it; settled blocks
\* are still there.
HashOK ==
    \/ state.hash = NoHash /\ state.block = 0
    \/ /\ state.hash \in [0..state.block -> Blocks]
       /\ state.block <= final + ReorgDepth
       /\ \A i \in 0..state.block :
            /\ state.hash[i].fork <= forks
            /\ (i > head \/ chain[i] # state.hash[i])
                    => state.hash[i].fork < forks
            /\ Settled(i) => i <= head /\ chain[i] = state.hash[i]

Stored(l) == TrueRow(l) \in rows /\ OutboxKey(l) \in outbox

\* What is stored: everything up to a canonical checkpoint, and in any case
\* everything up to where a rollback would go.
RowsOK ==
    state.hash # NoHash =>
        \A i \in StartBlock..state.block :
            (CheckpointCanonical \/ i <= RewindTo) =>
                \A l \in chain[i].logs : Stored(l)

\* Blocks below "next" are covered by the checkpoint.
NextOK ==
    pc # "down" =>
        \/ next <= StartBlock
        \/ state.hash # NoHash /\ next <= state.block + 1

\* Between reconcile's check and the end of the poll the checkpoint is
\* canonical; a rollback in progress has a stale one.
PhaseOK ==
    /\ pc \in {"head", "logs", "log", "publish", "outbox", "enqueue", "mark"} =>
            state.hash = NoHash \/ CheckpointCanonical
    /\ pc = "rewind" =>
            /\ state.hash # NoHash
            /\ ~ CheckpointCanonical
            /\ to = RewindTo
            /\ StartBlock <= to /\ to <= state.block
    /\ pc \in {"logs", "log", "publish", "outbox", "enqueue", "mark"} =>
            to <= head

\* Every log of the batch is still to be processed or stored; the current one
\* is stored as far as the worker has got with it.
BatchOK ==
    pc \in {"log", "publish", "outbox", "enqueue", "mark"} =>
        /\ \A l \in todo : l.block \in next..to /\ l \in chain[l.block].logs
        /\ \A i \in next..to : \A l \in chain[i].logs : l \in todo \/ Stored(l)
        /\ \A l \in todo : Current(l) =>
            /\ pc # "log" => TrueRow(l) \in rows
            /\ pc \in {"enqueue", "mark"} => OutboxKey(l) \in outbox
            /\ pc = "mark" => OutboxKey(l) \in tasks

\* The conjunction is inductive for FaultySpec: a crash, an error or a
\* reorganisation between polls never makes the next checkpoint cover a
\* certificate that is not stored.
IInv == /\ TypeOK /\ ChainOK /\ HashOK /\ RowsOK /\ NextOK /\ PhaseOK /\ BatchOK
        /\ MarkedAfterEnqueue
=============================================================================
