---------------------------- MODULE MirrorProofs ----------------------------
(***************************************************************************)
(* The read model is an exact copy of the chain between polls when no call *)
(* fails: NothingSkipped says that no certificate is missing, and here it  *)
(* is that no row is there which the chain does not have.                  *)
(***************************************************************************)
EXTENDS WorkerProofs

\* Every certificate of the chain is of a transaction of its own.
TxOnce ==
    \A i, j \in 0..head : \A l \in chain[i].logs, m \in chain[j].logs :
        l.tx = m.tx => l = m

\* The hash of the checkpoint commits to logs that carry their block's number.
HashLogs ==
    state.hash # NoHash =>
        \A i \in 0..state.block : \A l \in state.hash[i].logs : l.block = i

\* Without crashes w.next and the stored checkpoint are one position, and a
\* batch begins right after it.
Aligned ==
    /\ pc = "down" => state.hash = NoHash
    /\ state.hash = NoHash /\ pc # "down" => next = StartBlock
    /\ state.hash # NoHash => next = state.block + 1 /\ StartBlock <= next
    /\ pc \in {"logs", "log", "publish", "outbox", "enqueue", "mark"} => next <= to + 1

\* A row comes from a block that the checkpoint's hash commits to (while a
\* rollback is under way: one that is kept), or from the batch in progress.
FromHash(r) ==
    /\ state.hash # NoHash
    /\ \E i \in StartBlock..state.block :
        /\ pc = "rewind" => i <= to
        /\ \E l \in state.hash[i].logs : r = TrueRow(l)

FromBatch(r) ==
    /\ pc \in {"log", "publish", "outbox", "enqueue", "mark"}
    /\ \E i \in next..to : \E l \in chain[i].logs : r = TrueRow(l)

Truthful == \A r \in rows : FromHash(r) \/ FromBatch(r)

\* The inductive invariant, on top of the one behind Complete.
MirrorInv == IInv /\ TxOnce /\ HashLogs /\ Aligned /\ Truthful

\* What the copy depends on, besides the chain's finality: Validate() accepts
\* what the contract accepts, and block numbers stay below 2^64.
Undisturbed ==
    /\ FinalityWithinWindow
    /\ BadTxs = {}
    /\ MaxHead + BatchSize <= Word

-----------------------------------------------------------------------------
\* The chain.

\* The transactions of a mined block: none twice, none of an earlier block.
LEMMA MineTxs ==
    ASSUME TypeOK, MineStep
    PROVE  /\ head' = head + 1 /\ \A n \in 0..head : chain'[n] = chain[n]
           /\ \A l, m \in chain'[head + 1].logs : l.tx = m.tx => l = m
           /\ \A l \in chain'[head + 1].logs : \A n \in 0..head :
                \A m \in chain[n].logs : l.tx # m.tx
<1>0. PICK k \in 0..MaxPerBlock : \E txs \in [1..k -> Txs] :
        Minable(k, txs) /\ Extend(NewBlock(k, txs, forks))
  BY DEF MineStep, Mine
<1>1. PICK txs \in [1..k -> Txs] :
        Minable(k, txs) /\ Extend(NewBlock(k, txs, forks))
  BY <1>0
<1> DEFINE b == NewBlock(k, txs, forks)
<1>2. \A l \in b.logs : \E i \in 1..k :
        l = [token |-> chain[head].supply + i, tx |-> txs[i],
             index |-> i, block |-> head + 1]
  BY DEF NewBlock
<1>3. head' = head + 1 /\ chain'[head + 1] = b /\ \A n \in 0..head : chain'[n] = chain[n]
  BY <1>1 DEF Extend, TypeOK
<1>4. \A l, m \in b.logs : l.tx = m.tx => l = m
  BY <1>1, <1>2 DEF Minable
<1>5. \A l \in b.logs : \A n \in 0..head : \A m \in chain[n].logs : l.tx # m.tx
  <2>1. \A n \in 0..head : \A m \in chain[n].logs : m \in AllLogs
    BY DEF AllLogs
  <2> QED
    BY <1>1, <1>2, <2>1 DEF Minable
<1> QED
  BY <1>3, <1>4, <1>5

\* A block more or a reorganisation leaves every transaction mined once.
LEMMA TxOnceStep ==
    ASSUME TypeOK, TxOnce, MineStep \/ ReorgStep
    PROVE  TxOnce'
<1>1. head \in Nat
  BY DEF TypeOK
<1>2. CASE MineStep
  <2> SUFFICES ASSUME NEW i \in 0..(head + 1), NEW j \in 0..(head + 1),
                      NEW l \in chain'[i].logs, NEW m \in chain'[j].logs, l.tx = m.tx
               PROVE  l = m
    BY <1>2, MineTxs DEF TxOnce
  <2>1. CASE i \in 0..head /\ j \in 0..head
    BY <1>2, <2>1, MineTxs DEF TxOnce
  <2>2. CASE i = head + 1 /\ j \in 0..head
    BY <1>2, <2>2, MineTxs
  <2>3. CASE i \in 0..head /\ j = head + 1
    BY <1>2, <2>3, MineTxs
  <2>4. CASE i = head + 1 /\ j = head + 1
    BY <1>2, <2>4, MineTxs
  <2> QED
    BY <1>1, <2>1, <2>2, <2>3, <2>4
<1>3. CASE ReorgStep
  <2>1. \A i \in 0..head' : i \in 0..head /\ chain'[i] = chain[i]
    BY <1>1, <1>3, ReorgFrame
  <2> QED
    BY <2>1 DEF TxOnce
<1> QED
  BY <1>2, <1>3

-----------------------------------------------------------------------------
\* What moves: nothing but the position of the worker, or the chain alone.

\* The chain moves and the worker and its tables stay.
LEMMA ChainMirror ==
    ASSUME MirrorInv, MineStep \/ ReorgBetweenPolls
    PROVE  (TxOnce /\ HashLogs /\ Aligned /\ Truthful)'
<1> USE DEF MirrorInv, IInv
<1>1. UNCHANGED <<rows, state, pc, next, to>>
  BY DEF MineStep, ReorgBetweenPolls, ReorgStep, storeVars, workerVars
<1>2. TxOnce'
  BY TxOnceStep DEF ReorgBetweenPolls
<1>3. HashLogs' /\ Aligned'
  BY <1>1 DEF HashLogs, Aligned
<1>4. \A r : FromHash(r)' = FromHash(r)
  BY <1>1 DEF FromHash
<1>5. \A r : FromBatch(r) => FromBatch(r)'
  <2>1. CASE MineStep
    <3>1. pc \in {"log", "publish", "outbox", "enqueue", "mark"} =>
            \A i \in next..to : chain'[i] = chain[i]
      BY <2>1, MineTxs DEF PhaseOK, TypeOK
    <3> QED
      BY <1>1, <3>1 DEF FromBatch
  <2>2. CASE ReorgBetweenPolls
    BY <2>2 DEF ReorgBetweenPolls, FromBatch
  <2> QED
    BY <2>1, <2>2
<1> QED
  BY <1>1, <1>2, <1>3, <1>4, <1>5 DEF Truthful

\* A step that reads, or writes to the outbox and the queue only.
LEMMA ReadMirror ==
    ASSUME MirrorInv, Undisturbed,
           \/ InitNext \/ NoReorg \/ NothingToDo \/ HeadBlock \/ FetchLogs
           \/ PublishCertificate(TRUE) \/ RecordWebhook \/ EnqueueWebhook \/ MarkWebhook
    PROVE  (TxOnce /\ HashLogs /\ Aligned /\ Truthful)'
<1> USE DEF MirrorInv, IInv
<1>1. UNCHANGED <<chain, head, rows, state>>
  BY DEF InitNext, NoReorg, NothingToDo, HeadBlock, FetchLogs, PublishCertificate,
         RecordWebhook, EnqueueWebhook, MarkWebhook, chainVars, storeVars
<1>2. TxOnce' /\ HashLogs'
  BY <1>1 DEF TxOnce, HashLogs
<1>3. CASE InitNext
  <2>1. /\ state.hash = NoHash /\ rows' = rows /\ state' = state
        /\ pc = "down" /\ pc' = "idle" /\ next' = StartBlock
    BY <1>3, NoHashDiffers DEF InitNext, Aligned, HashOK, TypeOK, storeVars
  <2> QED
    BY <1>2, <2>1 DEF Aligned, Truthful, FromHash, FromBatch
<1>4. CASE HeadBlock
  <2>1. next \in Nat /\ head \in Nat /\ head <= MaxHead /\ next <= head
    BY <1>4 DEF HeadBlock, TypeOK
  <2>2. /\ BatchSize \in Nat /\ Word \in Nat /\ MaxHead \in Nat
        /\ MaxHead + BatchSize <= Word
    BY WorkerAssumption, ChainAssumption DEF Undisturbed
  <2>3. next <= BatchEnd + 1
    <3>1. CASE next + BatchSize = 0
      <4>1. next = 0
        BY <2>1, <2>2, <3>1
      <4> QED
        BY <4>1, BatchEndType
    <3>2. CASE next + BatchSize # 0
      <4>1. next + BatchSize - 1 \in 0..(Word - 1)
        BY <2>1, <2>2, <3>2
      <4>2. (next + BatchSize - 1) % Word = next + BatchSize - 1
        BY <2>2, <4>1
      <4> QED
        BY <2>1, <2>2, <4>2 DEF BatchEnd
    <3> QED
      BY <3>1, <3>2
  <2>4. /\ pc = "head" /\ pc' = "logs" /\ to' = BatchEnd
        /\ UNCHANGED <<state, rows, next>>
    BY <1>4 DEF HeadBlock, storeVars
  <2> QED
    BY <1>2, <2>3, <2>4 DEF Aligned, Truthful, FromHash, FromBatch
<1>5. CASE NoReorg \/ NothingToDo
  <2>1. /\ pc \in {"idle", "head"} /\ pc' \in {"idle", "head"}
        /\ UNCHANGED <<state, rows, next>>
    BY <1>5 DEF NoReorg, NothingToDo, Return, storeVars
  <2> QED
    BY <1>2, <2>1 DEF Aligned, Truthful, FromHash, FromBatch
<1>6. CASE FetchLogs \/ PublishCertificate(TRUE) \/ RecordWebhook \/ EnqueueWebhook
           \/ MarkWebhook
  <2>1. /\ pc \in {"logs", "log", "publish", "outbox", "enqueue", "mark"}
        /\ pc' \in {"log", "publish", "outbox", "enqueue", "mark"}
        /\ UNCHANGED <<state, rows, next, to, chain>>
    BY <1>1, <1>6 DEF FetchLogs, PublishCertificate, RecordWebhook, EnqueueWebhook,
       MarkWebhook, Done
  <2> QED
    BY <1>2, <2>1 DEF Aligned, Truthful, FromHash, FromBatch
<1> QED
  BY <1>3, <1>4, <1>5, <1>6

-----------------------------------------------------------------------------
\* Reconcile.

\* A rollback deletes the rows above the block it goes back to.
LEMMA RollBackMirror ==
    ASSUME MirrorInv, RollBack
    PROVE  (TxOnce /\ HashLogs /\ Aligned /\ Truthful)'
<1> USE DEF MirrorInv, IInv
<1>1. /\ UNCHANGED <<chain, head, state, next>>
      /\ rows' = {r \in rows : r.block < RewindTo + 1}
      /\ to' = RewindTo /\ pc' = "rewind" /\ pc = "idle" /\ state.hash # NoHash
  BY DEF RollBack, chainVars, DeleteFromBlock, DeleteCertificatesFromBlock
<1>2. TxOnce' /\ HashLogs' /\ Aligned'
  BY <1>1 DEF TxOnce, HashLogs, Aligned
<1>3. ASSUME NEW r \in rows'
      PROVE  FromHash(r)'
  <2>1. FromHash(r)
    BY <1>1 DEF Truthful, FromBatch
  <2>2. PICK i \in StartBlock..state.block : \E l \in state.hash[i].logs : r = TrueRow(l)
    BY <2>1 DEF FromHash
  <2>3. PICK l \in state.hash[i].logs : r = TrueRow(l)
    BY <2>2
  <2>4. i \in 0..state.block
    BY WorkerAssumption DEF TypeOK
  <2>5. r.block = i
    BY <1>1, <2>3, <2>4 DEF HashLogs, TrueRow, Row
  <2>6. i <= RewindTo
    BY <1>1, <2>4, <2>5, RewindToType DEF TypeOK
  <2> QED
    BY <1>1, <2>2, <2>6 DEF FromHash
<1> QED
  BY <1>2, <1>3 DEF Truthful

\* What it keeps is of blocks that were final at the checkpoint, which the
\* chain still has: the rewound checkpoint commits to them.
LEMMA SaveRewoundMirror ==
    ASSUME FinalityWithinWindow, MirrorInv, SaveRewound
    PROVE  (TxOnce /\ HashLogs /\ Aligned /\ Truthful)'
<1> USE DEF MirrorInv, IInv
<1>1. state'.block = to /\ state'.hash = BlockHash(to) /\ state'.hash # NoHash
  BY SaveStateHash DEF SaveRewound, SaveState, UpsertIndexerState
<1>2. /\ UNCHANGED <<chain, head, rows>>
      /\ next' = to + 1 /\ pc' = "head" /\ pc = "rewind"
      /\ state.hash # NoHash /\ to = RewindTo
      /\ StartBlock <= to /\ to <= state.block /\ to <= head /\ to \in Nat
  BY DEF SaveRewound, chainVars, PhaseOK, TypeOK
<1>3. \A i \in 0..to : state'.hash[i] = chain[i] /\ i \in 0..head
  BY <1>1, <1>2 DEF BlockHash, TypeOK
<1>4. TxOnce' /\ HashLogs'
  BY <1>1, <1>2, <1>3 DEF TxOnce, HashLogs, ChainOK
<1>5. Aligned'
  BY <1>1, <1>2, WorkerAssumption DEF Aligned
<1>6. \A i \in 0..to : state.hash[i] = chain[i]
  BY <1>2, RewindSettled, HashShape DEF TypeOK
<1>7. ASSUME NEW r \in rows
      PROVE  FromHash(r)'
  <2>1. FromHash(r)
    BY <1>2 DEF Truthful, FromBatch
  <2>2. PICK i \in StartBlock..state.block :
            i <= to /\ \E l \in state.hash[i].logs : r = TrueRow(l)
    BY <1>2, <2>1 DEF FromHash
  <2>3. i \in StartBlock..to /\ i \in 0..to
    BY <1>2, <2>2, WorkerAssumption DEF TypeOK
  <2>4. state'.hash[i] = state.hash[i]
    BY <1>3, <1>6, <2>3
  <2> QED
    BY <1>1, <1>2, <2>2, <2>3, <2>4 DEF FromHash
<1> QED
  BY <1>2, <1>4, <1>5, <1>7 DEF Truthful

-----------------------------------------------------------------------------
\* The batch.

\* During a batch every row is a certificate of the chain.
LEMMA RowsOnChain ==
    ASSUME MirrorInv, pc \in {"log", "publish", "outbox", "enqueue", "mark"},
           NEW r \in rows
    PROVE  \E i \in 0..head : \E l \in chain[i].logs : r = TrueRow(l)
<1> USE DEF MirrorInv, IInv
<1>1. CASE FromHash(r)
  <2>1. state.hash # NoHash /\ CheckpointCanonical
    BY <1>1 DEF FromHash, PhaseOK
  <2>2. state.block <= head /\ \A i \in 0..state.block : chain[i] = state.hash[i]
    BY <2>1, HashShape, CanonicalBlocks
  <2>3. PICK i \in StartBlock..state.block : \E l \in state.hash[i].logs : r = TrueRow(l)
    BY <1>1 DEF FromHash
  <2>4. i \in 0..head /\ chain[i] = state.hash[i]
    BY <2>2, WorkerAssumption DEF TypeOK
  <2> QED
    BY <2>3, <2>4
<1>2. CASE FromBatch(r)
  <2>1. PICK i \in next..to : \E l \in chain[i].logs : r = TrueRow(l)
    BY <1>2 DEF FromBatch
  <2>2. i \in 0..head
    BY <2>1 DEF PhaseOK, TypeOK
  <2> QED
    BY <2>1, <2>2
<1> QED
  BY <1>1, <1>2 DEF Truthful

\* No insert violates the constraint on (tx_hash, log_index): a poll without
\* faults is never rejected.
LEMMA NeverRejected ==
    ASSUME Undisturbed, MirrorInv
    PROVE  ~ Reject
<1> USE DEF MirrorInv, IInv
<1> SUFFICES ASSUME Reject PROVE FALSE
  OBVIOUS
<1>1. pc = "log"
  BY DEF Reject
<1>2. PICK l \in todo : UniqueViolation(l)
  BY DEF Reject, Undisturbed
<1>3. PICK r \in rows : r.token # l.token /\ r.tx = l.tx
  BY <1>2 DEF UniqueViolation
<1>4. PICK i \in 0..head : \E m \in chain[i].logs : r = TrueRow(m)
  BY <1>1, RowsOnChain
<1>5. PICK m \in chain[i].logs : r = TrueRow(m)
  BY <1>4
<1>6. l.block \in 0..head /\ l \in chain[l.block].logs
  BY <1>1, TodoOnChain
<1>7. m.tx = l.tx /\ m.token # l.token
  BY <1>3, <1>5 DEF TrueRow, Row
<1> QED
  BY <1>5, <1>6, <1>7 DEF TxOnce

\* A processed log adds a row of the batch.
LEMMA ProcessLogMirror ==
    ASSUME MirrorInv, ProcessLog
    PROVE  (TxOnce /\ HashLogs /\ Aligned /\ Truthful)'
<1> USE DEF MirrorInv, IInv
<1>1. PICK l \in todo, d \in Txs :
        /\ pc = "log" /\ Current(l) /\ Certificate(l.token, d)
        /\ StoreCertificate(l, d)
  BY DEF ProcessLog
<1>2. l.block \in 0..head /\ l \in chain[l.block].logs /\ l.block \in next..to
  BY <1>1, TodoOnChain DEF BatchOK
<1>3. d = l.tx
  <2>1. PICK m \in AllLogs : m.token = l.token /\ m.tx = d
    BY <1>1 DEF Certificate
  <2>2. PICK j \in 0..head : m \in chain[j].logs
    BY <2>1 DEF AllLogs
  <2> QED
    BY <1>2, <2>1, <2>2, TokensUnique
<1>4. /\ UNCHANGED <<chain, head, state, next, to>>
      /\ rows' = {q \in rows : q.token # l.token} \cup {TrueRow(l)}
      /\ pc' = "publish"
  BY <1>1, <1>3 DEF StoreCertificate, chainVars, Upsert, UpsertCertificate, TrueRow, Row
<1>5. TxOnce' /\ HashLogs' /\ Aligned'
  BY <1>1, <1>4 DEF TxOnce, HashLogs, Aligned
<1>6. \A r : FromHash(r) => FromHash(r)'
  BY <1>1, <1>4 DEF FromHash
<1>7. \A r : FromBatch(r) => FromBatch(r)'
  BY <1>4 DEF FromBatch
<1>8. FromBatch(TrueRow(l))'
  BY <1>2, <1>4 DEF FromBatch
<1> QED
  BY <1>4, <1>5, <1>6, <1>7, <1>8 DEF Truthful

\* The checkpoint commits to what was stored before and in the batch.
LEMMA CheckpointMirror ==
    ASSUME MirrorInv, Checkpoint
    PROVE  (TxOnce /\ HashLogs /\ Aligned /\ Truthful)'
<1> USE DEF MirrorInv, IInv
<1>1. state'.block = to /\ state'.hash = BlockHash(to) /\ state'.hash # NoHash
  BY SaveStateHash DEF Checkpoint, SaveState, UpsertIndexerState
<1>2. /\ UNCHANGED <<chain, head, rows>>
      /\ next' = to + 1 /\ pc' = "idle" /\ pc = "log"
      /\ to <= head /\ to \in Nat /\ next \in Nat /\ state.block \in Nat
  BY DEF Checkpoint, Return, chainVars, TypeOK
<1>3. \A i \in 0..to : state'.hash[i] = chain[i] /\ i \in 0..head
  BY <1>1, <1>2 DEF BlockHash, TypeOK
<1>4. TxOnce' /\ HashLogs'
  BY <1>1, <1>2, <1>3 DEF TxOnce, HashLogs, ChainOK
<1>5. /\ StartBlock <= next /\ next <= to + 1
      /\ state.hash # NoHash => next = state.block + 1
  BY <1>2, WorkerAssumption DEF Aligned
<1>6. Aligned'
  BY <1>1, <1>2, <1>5, WorkerAssumption DEF Aligned
<1>7. ASSUME NEW r \in rows
      PROVE  FromHash(r)'
  <2>1. CASE FromHash(r)
    <3>1. state.hash # NoHash /\ CheckpointCanonical
      BY <1>2, <2>1 DEF FromHash, PhaseOK
    <3>2. \A i \in 0..state.block : chain[i] = state.hash[i]
      BY <3>1, HashShape, CanonicalBlocks
    <3>3. PICK i \in StartBlock..state.block :
            \E l \in state.hash[i].logs : r = TrueRow(l)
      BY <2>1 DEF FromHash
    <3>4. i \in StartBlock..to /\ i \in 0..to /\ i \in 0..state.block
      BY <1>2, <1>5, <3>1, WorkerAssumption
    <3>5. state'.hash[i] = state.hash[i]
      BY <1>3, <3>2, <3>4
    <3> QED
      BY <1>1, <1>2, <3>3, <3>4, <3>5 DEF FromHash
  <2>2. CASE FromBatch(r)
    <3>1. PICK i \in next..to : \E l \in chain[i].logs : r = TrueRow(l)
      BY <2>2 DEF FromBatch
    <3>2. i \in StartBlock..to /\ i \in 0..to
      BY <1>2, <1>5, WorkerAssumption
    <3> QED
      BY <1>1, <1>2, <1>3, <3>1, <3>2 DEF FromHash
  <2> QED
    BY <2>1, <2>2 DEF Truthful
<1> QED
  BY <1>2, <1>4, <1>6, <1>7 DEF Truthful

-----------------------------------------------------------------------------
\* The theorems.

\* Initially there is no row.
LEMMA MirrorInit == Init => MirrorInv
<1> SUFFICES ASSUME Init PROVE MirrorInv
  OBVIOUS
<1>1. /\ chain = [n \in 0..0 |-> Genesis] /\ head = 0 /\ rows = {}
      /\ state = [block |-> 0, hash |-> NoHash] /\ pc = "down"
  BY DEF Init, ChainInit, StoreInit
<1>2. TxOnce
  BY <1>1 DEF TxOnce, Genesis
<1>3. HashLogs /\ Aligned /\ Truthful
  BY <1>1 DEF HashLogs, Aligned, Truthful
<1> QED
  BY <1>2, <1>3, InitInv DEF MirrorInv

\* Every step without faults preserves the invariant.
LEMMA MirrorStep ==
    ASSUME Undisturbed, MirrorInv, [Next]_vars
    PROVE  MirrorInv'
<1>1. FinalityWithinWindow
  BY DEF Undisturbed
<1>2. IInv'
  BY <1>1, StepInv DEF MirrorInv
<1>3. (TxOnce /\ HashLogs /\ Aligned /\ Truthful)'
  <2>1. CASE MineStep \/ ReorgBetweenPolls
    BY <2>1, ChainMirror
  <2>2. CASE \/ InitNext \/ NoReorg \/ NothingToDo \/ HeadBlock \/ FetchLogs
             \/ PublishCertificate(TRUE)
             \/ RecordWebhook \/ EnqueueWebhook \/ MarkWebhook
    BY <2>2, ReadMirror
  <2>3. CASE RollBack \/ SaveRewound
    BY <1>1, <2>3, RollBackMirror, SaveRewoundMirror
  <2>4. CASE ProcessLog \/ Checkpoint
    BY <2>4, ProcessLogMirror, CheckpointMirror
  <2>5. ~ Reject
    BY NeverRejected
  <2>6. CASE UNCHANGED vars
    BY <2>6
    DEF vars, chainVars, storeVars, workerVars, MirrorInv, TxOnce, HashLogs, Aligned,
        Truthful, FromHash, FromBatch
  <2> QED
    BY <2>1, <2>2, <2>3, <2>4, <2>5, <2>6 DEF Next, WorkerNext
<1> QED
  BY <1>2, <1>3 DEF MirrorInv

\* The invariant holds in every state of a run without faults.
LEMMA MirrorInvariant ==
    ASSUME Undisturbed
    PROVE  Spec => []MirrorInv
<1>1. MirrorInv /\ [Next]_vars => MirrorInv'
  BY MirrorStep
<1> QED
  BY MirrorInit, <1>1, PTL DEF Spec

\* Under a canonical checkpoint the rows are the certificates of the chain.
LEMMA InvImpliesMirror == MirrorInv => Mirror
<1> SUFFICES ASSUME MirrorInv, pc = "idle", Trusted
             PROVE  rows = {TrueRow(l) : l \in Canonical(state.block)}
  BY DEF Mirror
<1> USE DEF MirrorInv, IInv
<1>1. \A l \in Canonical(state.block) : TrueRow(l) \in rows
  BY InvImpliesComplete DEF Complete
<1>2. state.block <= head /\ \A i \in 0..state.block : chain[i] = state.hash[i]
  BY HashShape, CanonicalBlocks DEF Trusted
<1>3. ASSUME NEW r \in rows
      PROVE  \E l \in Canonical(state.block) : r = TrueRow(l)
  <2>1. PICK i \in StartBlock..state.block : \E l \in state.hash[i].logs : r = TrueRow(l)
    BY DEF Truthful, FromHash, FromBatch
  <2>2. i \in 0..state.block /\ i <= head
    BY <1>2, WorkerAssumption DEF TypeOK
  <2>3. chain[i].logs \subseteq Canonical(state.block)
    BY <2>2 DEF Canonical, IssuedLogs
  <2> QED
    BY <1>2, <2>1, <2>2, <2>3
<1> QED
  BY <1>1, <1>3

\* When no call fails and reorganisations come between polls, the table is
\* between polls an exact copy of the chain up to a canonical checkpoint, for
\* every window, batch size, start block and chain: reconcile deletes what a
\* reorganisation took away, and poll puts in nothing else.
THEOREM TableMirrorsChain ==
    ASSUME Undisturbed
    PROVE  Spec => []Mirror
  BY MirrorInvariant, InvImpliesMirror, PTL

\* In the middle of a poll, too, a row up to a canonical checkpoint is a
\* certificate of the chain.
LEMMA InvImpliesNoPhantom == MirrorInv => NoPhantom
<1> SUFFICES ASSUME MirrorInv, Trusted, NEW r \in rows, r.block <= state.block
             PROVE  \E l \in Canonical(state.block) : r = TrueRow(l)
  BY DEF NoPhantom
<1> USE DEF MirrorInv, IInv
<1>1. state.hash # NoHash /\ CheckpointCanonical
  BY DEF Trusted
<1>2. state.block <= head /\ \A i \in 0..state.block : chain[i] = state.hash[i]
  BY <1>1, HashShape, CanonicalBlocks
<1>3. CASE FromHash(r)
  <2>1. PICK i \in StartBlock..state.block : \E l \in state.hash[i].logs : r = TrueRow(l)
    BY <1>3 DEF FromHash
  <2>2. i \in 0..state.block /\ i <= head
    BY <1>2, WorkerAssumption DEF TypeOK
  <2>3. chain[i].logs \subseteq Canonical(state.block)
    BY <2>2 DEF Canonical, IssuedLogs
  <2> QED
    BY <1>2, <2>1, <2>2, <2>3
<1>4. CASE FromBatch(r)
  <2>1. PICK i \in next..to : \E l \in chain[i].logs : r = TrueRow(l)
    BY <1>4 DEF FromBatch
  <2>2. i \in 0..head
    BY <1>4, <2>1 DEF FromBatch, PhaseOK, TypeOK
  <2>3. r.block = i
    BY <2>1, <2>2 DEF ChainOK, TrueRow, Row
  <2>4. next = state.block + 1
    BY <1>1 DEF Aligned
  <2>5. r.block > state.block
    BY <2>1, <2>2, <2>3, <2>4 DEF TypeOK
  <2> QED
    BY <2>3, <2>2, <2>5 DEF TypeOK
<1> QED
  BY <1>3, <1>4 DEF Truthful

\* The phantom rows that the poll loop can leave behind need a poll that ends
\* early: without faults every row up to a canonical checkpoint is, at every
\* moment of a poll, a certificate of the canonical chain.
THEOREM NoPhantomWithoutFaults ==
    ASSUME Undisturbed
    PROVE  Spec => []NoPhantom
  BY MirrorInvariant, InvImpliesNoPhantom, PTL
=============================================================================
