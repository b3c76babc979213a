---------------------------- MODULE WorkerProofs ----------------------------
(***************************************************************************)
(* Theorems about Worker, for every value of its constants: the types,     *)
(* that no certificate is skipped, withdrawn or left unannounced and that  *)
(* progress is kept, whatever calls fail and wherever the process stops,   *)
(* also when the answer to a batch's checkpoint is lost.                   *)
(***************************************************************************)
EXTENDS Worker, TLAPS

-----------------------------------------------------------------------------
\* Type correctness.

\* A block mined on top of the chain is a block.
LEMMA NewBlockType ==
    ASSUME TypeOK, NEW k \in Nat, NEW txs \in [1..k -> Txs], NEW f \in Nat
    PROVE  NewBlock(k, txs, f) \in Blocks
<1>1. chain[head].supply \in Nat
  BY DEF TypeOK, Blocks
<1>2. \A i \in 1..k : [token |-> chain[head].supply + i, tx |-> txs[i],
                       index |-> i, block |-> head + 1] \in Logs
  BY <1>1 DEF TypeOK, Logs
<1>3. NewBlock(k, txs, f).logs \in SUBSET Logs
  BY <1>2 DEF NewBlock
<1> QED
  BY <1>1, <1>3 DEF NewBlock, Blocks

\* The hash of a block the chain has is a hash.
LEMMA BlockHashType ==
    ASSUME TypeOK, NEW n \in Nat, n <= head
    PROVE  BlockHash(n) \in [0..n -> Blocks] /\ BlockHash(n) # NoHash
<1>1. BlockHash(n) \in [0..n -> Blocks]
  BY DEF TypeOK, BlockHash
<1>2. 0 \in DOMAIN BlockHash(n) /\ 0 \notin DOMAIN NoHash
  BY DEF BlockHash, NoHash
<1> QED
  BY <1>1, <1>2

\* A log and the certificate read for it make a row.
LEMMA RowType ==
    ASSUME NEW l \in Logs, NEW d \in Txs
    PROVE  Row(l, d) \in Rows
BY DEF Logs, Rows, Row

\* A log has a key of the outbox.
LEMMA OutboxKeyType ==
    ASSUME NEW l \in Logs
    PROVE  OutboxKey(l) \in OutboxKeys
BY DEF Logs, OutboxKeys, OutboxKey

\* The node answers with logs, for any range.
LEMMA IssuedLogsType ==
    ASSUME TypeOK, NEW a \in Nat, NEW b \in Nat
    PROVE  IssuedLogs(a, b) \subseteq Logs
BY DEF TypeOK, IssuedLogs, Blocks

\* A mined block keeps the types.
LEMMA MineType ==
    ASSUME TypeOK, MineStep
    PROVE  TypeOK'
<1>0. PICK k \in 0..MaxPerBlock : \E txs \in [1..k -> Txs] :
        Minable(k, txs) /\ Extend(NewBlock(k, txs, forks))
  BY DEF MineStep, Mine
<1>1. PICK txs \in [1..k -> Txs] :
        Minable(k, txs) /\ Extend(NewBlock(k, txs, forks))
  BY <1>0
<1>2. forks \in Nat /\ k \in Nat
  BY ChainAssumption DEF TypeOK
<1>3. NewBlock(k, txs, forks) \in Blocks
  BY <1>2, NewBlockType
<1>4. /\ head' \in 0..MaxHead
      /\ chain' \in [0..head' -> Blocks]
      /\ final' \in Nat
      /\ forks' \in 0..MaxReorgs
  BY <1>1, <1>3, ChainAssumption DEF TypeOK, Extend
<1> QED
  BY <1>4 DEF TypeOK, MineStep, storeVars, workerVars, IsHash

\* A reorganisation keeps the types.
LEMMA ReorgType ==
    ASSUME TypeOK, ReorgStep
    PROVE  TypeOK'
<1>1. PICK h \in final..MaxHead :
        /\ forks < MaxReorgs
        /\ h < head
        /\ chain' = [n \in 0..h |-> chain[n]]
        /\ head' = h
        /\ forks' = forks + 1
        /\ UNCHANGED final
  BY DEF ReorgStep, Reorg
<1>2. /\ head' \in 0..MaxHead
      /\ chain' \in [0..head' -> Blocks]
      /\ final' \in Nat
      /\ forks' \in 0..MaxReorgs
  BY <1>1, ChainAssumption DEF TypeOK
<1> QED
  BY <1>2 DEF TypeOK, ReorgStep, storeVars, workerVars, IsHash

\* The end of a batch is a block of the chain, also when the sum wraps
\* around.
LEMMA BatchEndType ==
    ASSUME TypeOK
    PROVE  BatchEnd \in Nat /\ BatchEnd <= head
<1>1. (next + BatchSize - 1) \in Int /\ head \in Nat
  BY WorkerAssumption, ChainAssumption DEF TypeOK
<1>2. (next + BatchSize - 1) % Word \in 0..(Word - 1)
  BY <1>1, WorkerAssumption
<1> QED
  BY <1>1, <1>2, WorkerAssumption DEF BatchEnd

\* A rollback goes to a block number: the subtraction does not wrap.
LEMMA RewindToType ==
    ASSUME TypeOK
    PROVE  RewindTo \in Nat
BY WorkerAssumption DEF TypeOK, RewindTo

\* Every step keeps the types.
LEMMA StepType ==
    ASSUME TypeOK, Next \/ FaultNext \/ CheckpointUnanswered
    PROVE  TypeOK'
<1> USE DEF chainVars, storeVars
<1>1. CASE InitNext
  BY <1>1, WorkerAssumption DEF InitNext, TypeOK, IsHash, PCs
<1>2. CASE NoReorg
  BY <1>2 DEF NoReorg, TypeOK, IsHash, PCs
<1>3. CASE RollBack
  BY <1>3, RewindToType
  DEF RollBack, DeleteFromBlock, DeleteCertificatesFromBlock, TypeOK, IsHash, PCs
<1>4. ASSUME SaveState(to, BlockHash(to)), to <= head
      PROVE  state'.block \in Nat /\ (IsHash(state.hash))'
  <2>1. BlockHash(to) \in [0..to -> Blocks]
    BY <1>4, BlockHashType DEF TypeOK
  <2> QED
    BY <1>4, <2>1, ChainAssumption DEF TypeOK, SaveState, UpsertIndexerState, IsHash
<1>5. CASE SaveRewound
  BY <1>4, <1>5 DEF SaveRewound, TypeOK, PCs
<1>6. CASE NothingToDo
  BY <1>6 DEF NothingToDo, Return, TypeOK, IsHash, PCs
<1>7. CASE HeadBlock
  BY <1>7, BatchEndType DEF HeadBlock, TypeOK, IsHash, PCs
<1>8. CASE FetchLogs
  BY <1>8, IssuedLogsType DEF FetchLogs, TypeOK, IsHash, PCs
<1>9. CASE ProcessLog
  <2>1. PICK l \in todo, d \in Txs : StoreCertificate(l, d)
    BY <1>9 DEF ProcessLog
  <2>2. Row(l, d) \in Rows
    BY <2>1, RowType DEF TypeOK
  <2> QED
    BY <2>1, <2>2 DEF StoreCertificate, Upsert, UpsertCertificate, TypeOK, IsHash, PCs
<1>10. CASE Reject
  BY <1>10 DEF Reject, Return, TypeOK, IsHash, PCs
<1>11. CASE Checkpoint
  BY <1>4, <1>11 DEF Checkpoint, Return, TypeOK, PCs
<1>12. CASE RecordWebhook
  BY <1>12, OutboxKeyType
  DEF RecordWebhook, InsertWebhookOutbox, IsNew, Done, TypeOK, IsHash, PCs
<1>13. CASE EnqueueWebhook
  BY <1>13, OutboxKeyType DEF EnqueueWebhook, TypeOK, IsHash, PCs
<1>14. CASE MarkWebhook
  BY <1>14, OutboxKeyType
  DEF MarkWebhook, MarkWebhookOutboxEnqueued, Done, TypeOK, IsHash, PCs
<1>15. CASE WebhookStepFails
  BY <1>15 DEF WebhookStepFails, Done, TypeOK, IsHash, PCs
<1>16. CASE PollFails
  BY <1>16 DEF PollFails, Return, TypeOK, IsHash, PCs
<1>17. CASE Crash
  BY <1>17 DEF Crash, TypeOK, IsHash, PCs
<1>18. CASE CheckpointUnanswered
  BY <1>4, <1>18 DEF CheckpointUnanswered, Return, TypeOK, PCs
<1>19. ASSUME NEW b \in BOOLEAN, PublishCertificate(b)
       PROVE  TypeOK'
  BY <1>19 DEF PublishCertificate, TypeOK, IsHash, PCs
<1> QED
  BY <1>1, <1>2, <1>3, <1>5, <1>6, <1>7, <1>8, <1>9, <1>10, <1>11, <1>12,
     <1>13, <1>14, <1>15, <1>16, <1>17, <1>18, <1>19, MineType, ReorgType
  DEF Next, WorkerNext, FaultNext, ReorgBetweenPolls, TypeOK

\* The initial state has them.
LEMMA InitType == Init => TypeOK
<1>1. [n \in 0..0 |-> Genesis] \in [0..0 -> Blocks]
  BY DEF Genesis, Blocks
<1> QED
  BY <1>1, ChainAssumption
  DEF Init, ChainInit, StoreInit, TypeOK, IsHash, NoHash, PCs

\* In every reachable state every variable has its type, whatever calls fail.
THEOREM TypeCorrect == FaultySpec => []TypeOK
<1>1. TypeOK /\ [Next \/ FaultNext]_vars => TypeOK'
  <2> SUFFICES ASSUME TypeOK, [Next \/ FaultNext]_vars PROVE TypeOK'
    OBVIOUS
  <2>1. CASE UNCHANGED vars
    BY <2>1 DEF vars, chainVars, storeVars, workerVars, TypeOK, IsHash
  <2> QED
    BY <2>1, StepType
<1> QED
  BY InitType, <1>1, PTL DEF FaultySpec

-----------------------------------------------------------------------------
\* The chain: how a mined block and a reorganisation change it.

\* What a step of Mine does, in terms of the new block.
LEMMA MineEffect ==
    ASSUME TypeOK, MineStep
    PROVE  \E k, txs, b :
            /\ k \in Nat
            /\ b \in Blocks
            /\ b.fork = forks
            /\ b.supply = chain[head].supply + k
            /\ txs \in [1..k -> Txs]
            /\ b.logs = {[token |-> chain[head].supply + i, tx |-> txs[i],
                          index |-> i, block |-> head + 1] : i \in 1..k}
            /\ Extend(b)
<1>0. PICK k \in 0..MaxPerBlock : \E txs \in [1..k -> Txs] :
        Minable(k, txs) /\ Extend(NewBlock(k, txs, forks))
  BY DEF MineStep, Mine
<1>1. PICK txs \in [1..k -> Txs] :
        Minable(k, txs) /\ Extend(NewBlock(k, txs, forks))
  BY <1>0
<1>2. k \in Nat /\ forks \in Nat
  BY ChainAssumption DEF TypeOK
<1>3. NewBlock(k, txs, forks) \in Blocks
  BY <1>2, NewBlockType
<1>4. /\ NewBlock(k, txs, forks).fork = forks
      /\ NewBlock(k, txs, forks).supply = chain[head].supply + k
      /\ NewBlock(k, txs, forks).logs =
            {[token |-> chain[head].supply + i, tx |-> txs[i],
              index |-> i, block |-> head + 1] : i \in 1..k}
  BY DEF NewBlock
<1> QED
  BY <1>1, <1>2, <1>3, <1>4

\* The blocks the chain has stay; the one on top is of the current branch.
LEMMA MineFrame ==
    ASSUME TypeOK, MineStep
    PROVE  /\ head' = head + 1
           /\ \A n \in 0..head : chain'[n] = chain[n]
           /\ chain'[head + 1].fork = forks
           /\ forks' = forks
           /\ final <= final' /\ final' \in Nat
<1>1. PICK k, txs, b :
        /\ k \in Nat
        /\ b \in Blocks
        /\ b.fork = forks
        /\ Extend(b)
  BY MineEffect
<1>2. head \in Nat /\ final \in Nat
  BY DEF TypeOK
<1>3. final <= final' /\ final' \in Nat
  BY <1>1, <1>2, ChainAssumption DEF Extend
<1> QED
  BY <1>1, <1>2, <1>3 DEF Extend

\* A reorganisation cuts the chain above the final blocks and opens a new
\* branch.
LEMMA ReorgFrame ==
    ASSUME TypeOK, ReorgStep
    PROVE  /\ head' < head /\ final <= head' /\ head' \in Nat
           /\ \A n \in 0..head' : chain'[n] = chain[n]
           /\ forks' = forks + 1
           /\ final' = final
BY ChainAssumption DEF TypeOK, ReorgStep, Reorg

\* A mined block keeps tokens and supplies in order.
LEMMA MineChain ==
    ASSUME TypeOK, ChainOK, MineStep
    PROVE  ChainOK'
<1>1. PICK k, txs, b :
        /\ k \in Nat
        /\ b \in Blocks
        /\ b.fork = forks
        /\ b.supply = chain[head].supply + k
        /\ txs \in [1..k -> Txs]
        /\ b.logs = {[token |-> chain[head].supply + i, tx |-> txs[i],
                      index |-> i, block |-> head + 1] : i \in 1..k}
        /\ Extend(b)
  BY MineEffect
<1> DEFINE s == chain[head].supply
<1>2. s \in Nat /\ head \in Nat /\ \A n \in 0..head : chain[n].supply \in Nat
  BY ChainAssumption DEF TypeOK, Blocks
<1>3. /\ head' = head + 1
      /\ chain'[head + 1] = b
      /\ \A n \in 0..head : chain'[n] = chain[n]
      /\ forks' = forks
  BY <1>1, <1>2 DEF Extend
<1>4. \A l \in b.logs : l.block = head + 1 /\ s < l.token /\ l.token <= b.supply
  BY <1>1, <1>2
<1>5. \A l, m \in b.logs : l.token = m.token => l = m
  BY <1>1, <1>2
<1>6. head' <= final' + ReorgDepth /\ Anchor <= final'
  BY <1>1, ChainAssumption DEF ChainOK, Extend, TypeOK
<1>7. ASSUME NEW n \in 0..head'
      PROVE  /\ chain'[n].fork <= forks'
             /\ \A l \in chain'[n].logs : l.block = n /\ l.token <= chain'[n].supply
             /\ \A l, m \in chain'[n].logs : l.token = m.token => l = m
  <2>1. CASE n \in 0..head
    BY <2>1, <1>3 DEF ChainOK
  <2>2. CASE n = head + 1
    BY <2>2, <1>1, <1>3, <1>4, <1>5 DEF TypeOK
  <2> QED
    BY <2>1, <2>2, <1>2, <1>3
<1>8. ASSUME NEW m \in 0..head', NEW n \in 0..head', m < n
      PROVE  /\ chain'[m].supply <= chain'[n].supply
             /\ \A l \in chain'[n].logs : chain'[m].supply < l.token
  <2>1. m \in 0..head
    BY <1>2, <1>3, <1>8
  <2>2. chain[m].supply <= s
    BY <2>1, <1>2 DEF ChainOK
  <2>3. CASE n \in 0..head
    BY <1>3, <1>8, <2>1, <2>3 DEF ChainOK
  <2>4. CASE n = head + 1
    <3>1. \A l \in b.logs : l.token \in Nat
      BY <1>1, <1>2
    <3> QED
      BY <1>1, <1>2, <1>3, <1>4, <2>1, <2>2, <2>4, <3>1
  <2> QED
    BY <1>2, <1>3, <2>3, <2>4
<1> QED
  BY <1>6, <1>7, <1>8 DEF ChainOK

\* So does a reorganisation.
LEMMA ReorgChain ==
    ASSUME TypeOK, ChainOK, ReorgStep
    PROVE  ChainOK'
<1>1. 0..head' \subseteq 0..head
  BY ReorgFrame DEF TypeOK
<1>2. head' <= final' + ReorgDepth /\ Anchor <= final'
  BY ReorgFrame, ChainAssumption DEF TypeOK, ChainOK
<1>3. \A n \in 0..head' : chain'[n] = chain[n]
  BY ReorgFrame
<1>4. ASSUME NEW n \in 0..head' PROVE chain'[n].fork <= forks'
  <2>1. n \in 0..head /\ chain'[n] = chain[n]
    BY <1>1, <1>3
  <2>2. chain[n] \in Blocks /\ forks \in Nat
    BY <2>1 DEF TypeOK
  <2>3. chain[n].fork \in Nat /\ chain[n].fork <= forks
    BY <2>1, <2>2 DEF ChainOK, Blocks
  <2> QED
    BY <2>1, <2>2, <2>3, ReorgFrame
<1> QED
  BY <1>1, <1>2, <1>3, <1>4 DEF ChainOK

\* No two certificates of the chain have the same token.
LEMMA TokensUnique ==
    ASSUME TypeOK, ChainOK,
           NEW i \in 0..head, NEW l \in chain[i].logs,
           NEW j \in 0..head, NEW m \in chain[j].logs,
           l.token = m.token
    PROVE  l = m /\ i = j
<1>1. /\ chain[i].supply \in Nat /\ chain[j].supply \in Nat
      /\ l.token \in Nat /\ m.token \in Nat
  <2>1. chain[i] \in Blocks /\ chain[j] \in Blocks
    BY DEF TypeOK
  <2>2. l \in Logs /\ m \in Logs
    BY <2>1 DEF Blocks
  <2> QED
    BY <2>1, <2>2 DEF Blocks, Logs
<1>2. ~ (i < j)
  BY <1>1 DEF ChainOK
<1>3. ~ (j < i)
  BY <1>1 DEF ChainOK
<1> QED
  BY <1>2, <1>3 DEF ChainOK

-----------------------------------------------------------------------------
\* The checkpoint's hash.

\* A stored hash is canonical iff the chain has all its blocks.
LEMMA CanonicalBlocks ==
    ASSUME TypeOK, state.hash \in [0..state.block -> Blocks]
    PROVE  CheckpointCanonical <=>
            /\ state.block <= head
            /\ \A i \in 0..state.block : chain[i] = state.hash[i]
BY DEF TypeOK, CheckpointCanonical, BlockHash

\* The empty hash is no block's hash.
LEMMA NoHashDiffers ==
    ASSUME NEW n \in Nat
    PROVE  /\ NoHash \notin [0..n -> Blocks]
           /\ \A c : [i \in 0..n |-> c[i]] # NoHash
<1>1. 0 \in 0..n /\ DOMAIN NoHash = {}
  BY DEF NoHash
<1>2. ASSUME NEW c PROVE [i \in 0..n |-> c[i]] # NoHash
  <2>1. DOMAIN [i \in 0..n |-> c[i]] = 0..n
    OBVIOUS
  <2> QED
    BY <1>1, <2>1
<1>3. ASSUME NoHash \in [0..n -> Blocks] PROVE FALSE
  <2>1. DOMAIN NoHash = 0..n
    BY <1>3
  <2> QED
    BY <1>1, <2>1
<1> QED
  BY <1>2, <1>3

\* What holds of a hash that is set.
LEMMA HashShape ==
    ASSUME TypeOK, HashOK, state.hash # NoHash
    PROVE  /\ state.hash \in [0..state.block -> Blocks]
           /\ state.block <= final + ReorgDepth
           /\ \A i \in 0..state.block :
                /\ state.hash[i].fork <= forks
                /\ (i > head \/ chain[i] # state.hash[i])
                        => state.hash[i].fork < forks
                /\ Settled(i) => i <= head /\ chain[i] = state.hash[i]
BY DEF HashOK

\* A canonical checkpoint has a hash.
LEMMA CanonicalIsSet ==
    ASSUME TypeOK, CheckpointCanonical
    PROVE  state.hash # NoHash
BY BlockHashType DEF TypeOK, CheckpointCanonical

\* Where a rollback goes to was final when the checkpoint was saved.
LEMMA RewindSettled ==
    ASSUME TypeOK, FinalityWithinWindow, NEW i \in 0..state.block, i <= RewindTo
    PROVE  Settled(i)
BY ChainAssumption, WorkerAssumption
DEF TypeOK, FinalityWithinWindow, RewindTo, Settled

\* A mined block keeps the checkpoint as it is: a stale hash stays stale,
\* because the block is of a newer branch than any the hash lacks.
LEMMA MineHash ==
    ASSUME TypeOK, ChainOK, HashOK, MineStep, TypeOK'
    PROVE  HashOK' /\ CheckpointCanonical' = CheckpointCanonical
<1>1. state' = state
  BY DEF MineStep, storeVars
<1>2. CASE state.hash = NoHash
  <2>1. ~ CheckpointCanonical
    BY <1>2, CanonicalIsSet
  <2>2. ~ CheckpointCanonical'
    BY <1>1, <1>2, NoHashDiffers DEF TypeOK, CheckpointCanonical, BlockHash
  <2>3. HashOK'
    <3>1. state.block = 0
      BY <1>2, NoHashDiffers DEF TypeOK, HashOK
    <3> QED
      BY <1>1, <1>2, <3>1 DEF HashOK
  <2> QED
    BY <2>1, <2>2, <2>3 DEF CheckpointCanonical
<1>3. CASE state.hash # NoHash
  <2> DEFINE b == state.block
             h == state.hash
  <2>1. /\ h \in [0..b -> Blocks]
        /\ b <= final + ReorgDepth
        /\ \A i \in 0..b :
            /\ h[i].fork <= forks
            /\ (i > head \/ chain[i] # h[i]) => h[i].fork < forks
            /\ Settled(i) => i <= head /\ chain[i] = h[i]
    BY <1>3, HashShape
  <2>2. b \in Nat /\ head \in Nat /\ final \in Nat /\ forks \in Nat
    BY ChainAssumption DEF TypeOK
  <2>3. \A i \in 0..b : h[i].fork \in Nat
    BY <2>1 DEF Blocks
  <2>4. ASSUME NEW i \in 0..b
        PROVE  /\ (i > head' \/ chain'[i] # h[i]) => h[i].fork < forks
               /\ Settled(i) => i <= head' /\ chain'[i] = h[i]
    <3>1. CASE i <= head
      BY <2>1, <2>2, <3>1, MineFrame
    <3>2. CASE i > head
      BY <2>1, <2>2, <3>2, MineFrame
    <3> QED
      BY <2>2, <3>1, <3>2
  <2>5. HashOK'
    <3>1. b <= final' + ReorgDepth
      BY <2>1, <2>2, MineFrame, ChainAssumption
    <3>2. forks' = forks
      BY MineFrame
    <3>3. \A i \in 0..b : Settled(i)' = Settled(i)
      BY <1>1 DEF Settled
    <3> QED
      BY <1>1, <2>1, <2>4, <3>1, <3>2, <3>3 DEF HashOK
  <2>6. CheckpointCanonical <=> b <= head /\ \A i \in 0..b : chain[i] = h[i]
    BY <2>1, CanonicalBlocks
  <2>7. CheckpointCanonical' <=> b <= head' /\ \A i \in 0..b : chain'[i] = h[i]
    BY <1>1, <2>1 DEF CheckpointCanonical, BlockHash
  <2>8. CASE b <= head
    <3>1. \A i \in 0..b : chain'[i] = chain[i]
      BY <2>2, <2>8, MineFrame
    <3> QED
      BY <2>2, <2>5, <2>6, <2>7, <2>8, <3>1, MineFrame DEF CheckpointCanonical
  <2>9. CASE b > head
    <3>1. head + 1 \in 0..b
      BY <2>2, <2>9
    <3>2. h[head + 1].fork < forks
      BY <2>1, <2>2, <3>1
    <3>3. chain'[head + 1] # h[head + 1]
      BY <2>2, <2>3, <3>1, <3>2, MineFrame
    <3> QED
      BY <2>2, <2>5, <2>6, <2>7, <2>9, <3>1, <3>3 DEF CheckpointCanonical
  <2> QED
    BY <2>2, <2>8, <2>9
<1> QED
  BY <1>2, <1>3

\* A reorganisation can make a canonical checkpoint stale, not the reverse,
\* and it leaves settled blocks alone.
LEMMA ReorgHash ==
    ASSUME TypeOK, ChainOK, HashOK, ReorgStep, TypeOK'
    PROVE  HashOK' /\ (CheckpointCanonical' => CheckpointCanonical)
<1>1. state' = state
  BY DEF ReorgStep, storeVars
<1>2. CASE state.hash = NoHash
  <2>1. ~ CheckpointCanonical'
    BY <1>1, <1>2, NoHashDiffers DEF TypeOK, CheckpointCanonical, BlockHash
  <2>2. HashOK'
    <3>1. state.block = 0
      BY <1>2, NoHashDiffers DEF TypeOK, HashOK
    <3> QED
      BY <1>1, <1>2, <3>1 DEF HashOK
  <2> QED
    BY <2>1, <2>2
<1>3. CASE state.hash # NoHash
  <2> DEFINE b == state.block
             h == state.hash
  <2>1. /\ h \in [0..b -> Blocks]
        /\ b <= final + ReorgDepth
        /\ \A i \in 0..b :
            /\ h[i].fork <= forks
            /\ (i > head \/ chain[i] # h[i]) => h[i].fork < forks
            /\ Settled(i) => i <= head /\ chain[i] = h[i]
    BY <1>3, HashShape
  <2>2. b \in Nat /\ head \in Nat /\ final \in Nat /\ forks \in Nat
    BY ChainAssumption DEF TypeOK
  <2>3. \A i \in 0..b : h[i].fork \in Nat
    BY <2>1 DEF Blocks
  <2>4. ASSUME NEW i \in 0..b, Settled(i)
        PROVE  i <= head' /\ chain'[i] = h[i]
    <3>1. i <= final
      BY <2>1, <2>2, <2>4, ChainAssumption DEF Settled, ChainOK
    <3> QED
      BY <2>1, <2>2, <2>4, <3>1, ReorgFrame
  <2>5. \A i \in 0..b : h[i].fork < forks' /\ h[i].fork <= forks'
    BY <2>1, <2>2, <2>3, ReorgFrame
  <2>6. HashOK'
    <3>1. \A i \in 0..b : Settled(i)' = Settled(i)
      BY <1>1 DEF Settled
    <3>2. final' = final
      BY ReorgFrame
    <3> QED
      BY <1>1, <2>1, <2>4, <2>5, <3>1, <3>2 DEF HashOK
  <2>7. CheckpointCanonical <=> b <= head /\ \A i \in 0..b : chain[i] = h[i]
    BY <2>1, CanonicalBlocks
  <2>8. CheckpointCanonical' <=> b <= head' /\ \A i \in 0..b : chain'[i] = h[i]
    BY <1>1, <2>1 DEF CheckpointCanonical, BlockHash
  <2> QED
    BY <2>2, <2>6, <2>7, <2>8, ReorgFrame
<1> QED
  BY <1>2, <1>3

-----------------------------------------------------------------------------
\* Steps of the chain preserve the invariant.

\* A mined block preserves the invariant.
LEMMA MineInv ==
    ASSUME FinalityWithinWindow, IInv, MineStep
    PROVE  IInv'
<1> USE DEF IInv
<1>1. TypeOK' /\ ChainOK' /\ HashOK' /\ CheckpointCanonical' = CheckpointCanonical
  BY MineType, MineChain, MineHash
<1>2. /\ rows' = rows /\ state' = state /\ outbox' = outbox /\ enqueued' = enqueued
      /\ pc' = pc /\ next' = next /\ to' = to /\ todo' = todo /\ tasks' = tasks
  BY DEF MineStep, storeVars, workerVars
<1>3. /\ head \in Nat /\ head' = head + 1
      /\ \A n \in 0..head : chain'[n] = chain[n]
  BY MineFrame, ChainAssumption DEF TypeOK
<1>4. RewindTo' = RewindTo
  BY <1>2 DEF RewindTo
<1>5. \A l : Stored(l)' = Stored(l)
  BY <1>2 DEF Stored
<1>6. RowsOK'
  <2> SUFFICES ASSUME state.hash # NoHash, NEW i \in StartBlock..state.block,
                      CheckpointCanonical \/ i <= RewindTo
               PROVE  \A l \in chain'[i].logs : Stored(l)'
    BY <1>1, <1>2, <1>4 DEF RowsOK
  <2>1. i \in 0..state.block
    BY WorkerAssumption DEF TypeOK
  <2>2. i <= head
    <3>1. CASE CheckpointCanonical
      BY <2>1, <3>1 DEF CheckpointCanonical, TypeOK
    <3>2. CASE i <= RewindTo
      BY <2>1, <3>2, RewindSettled, HashShape
    <3> QED
      BY <3>1, <3>2
  <2>3. chain'[i] = chain[i]
    BY <1>3, <2>1, <2>2
  <2> QED
    BY <1>5, <2>3 DEF RowsOK
<1>7. NextOK'
  BY <1>2 DEF NextOK
<1>8. PhaseOK'
  BY <1>1, <1>2, <1>3, <1>4 DEF PhaseOK, TypeOK
<1>9. BatchOK'
  <2> SUFFICES ASSUME pc \in {"log", "publish", "outbox", "enqueue", "mark"}
               PROVE  BatchOK'
    BY <1>2 DEF BatchOK
  <2>1. \A n \in next..to : n \in 0..head /\ chain'[n] = chain[n]
    BY <1>3 DEF PhaseOK, TypeOK
  <2>2. \A l : Current(l)' = Current(l)
    BY <1>2 DEF Current
  <2> QED
    BY <1>2, <1>5, <2>1, <2>2 DEF BatchOK
<1>m. MarkedAfterEnqueue'
  BY DEF MineStep, storeVars, MarkedAfterEnqueue, workerVars
<1> QED
  BY <1>m, <1>1, <1>6, <1>7, <1>8, <1>9

\* A reorganisation between polls preserves it: what a rollback would keep is
\* final.
LEMMA ReorgInv ==
    ASSUME FinalityWithinWindow, IInv, ReorgBetweenPolls
    PROVE  IInv'
<1> USE DEF IInv
<1>1. TypeOK' /\ ChainOK' /\ HashOK' /\ (CheckpointCanonical' => CheckpointCanonical)
  BY ReorgType, ReorgChain, ReorgHash DEF ReorgBetweenPolls
<1>2. /\ rows' = rows /\ state' = state /\ outbox' = outbox
      /\ pc' = pc /\ next' = next /\ to' = to /\ todo' = todo
      /\ pc \in {"down", "idle"}
  BY DEF ReorgBetweenPolls, ReorgStep, storeVars, workerVars
<1>3. /\ head' < head /\ final <= head' /\ head' \in Nat
      /\ \A n \in 0..head' : chain'[n] = chain[n]
  BY ReorgFrame DEF ReorgBetweenPolls
<1>4. RewindTo' = RewindTo
  BY <1>2 DEF RewindTo
<1>5. \A l : Stored(l)' = Stored(l)
  BY <1>2 DEF Stored
<1>6. RowsOK'
  <2> SUFFICES ASSUME state.hash # NoHash, NEW i \in StartBlock..state.block,
                      CheckpointCanonical' \/ i <= RewindTo
               PROVE  \A l \in chain'[i].logs : Stored(l)'
    BY <1>2, <1>4 DEF RowsOK
  <2>1. i \in 0..state.block
    BY WorkerAssumption DEF TypeOK
  <2>2. i <= head'
    <3>1. CASE CheckpointCanonical'
      BY <1>2, <1>3, <2>1, <3>1 DEF CheckpointCanonical, TypeOK
    <3>2. CASE i <= RewindTo
      <4>1. Settled(i)
        BY <2>1, <3>2, RewindSettled
      <4>2. i <= final
        BY <2>1, <4>1, HashShape, ChainAssumption DEF Settled, ChainOK, TypeOK
      <4> QED
        BY <1>3, <2>1, <4>2 DEF TypeOK
    <3> QED
      BY <3>1, <3>2
  <2>3. chain'[i] = chain[i]
    BY <1>3, <2>1, <2>2
  <2>4. CheckpointCanonical \/ i <= RewindTo
    BY <1>1
  <2> QED
    BY <1>5, <2>3, <2>4 DEF RowsOK
<1>7. NextOK' /\ PhaseOK' /\ BatchOK'
  BY <1>2 DEF NextOK, PhaseOK, BatchOK
<1>m. MarkedAfterEnqueue'
  BY DEF ReorgBetweenPolls, ReorgStep, storeVars, MarkedAfterEnqueue, workerVars
<1> QED
  BY <1>m, <1>1, <1>6, <1>7

-----------------------------------------------------------------------------
\* Steps of the worker preserve the invariant.

\* A step that changes neither the chain, the checkpoint nor what is stored.
LEMMA ReadFrame ==
    ASSUME IInv, UNCHANGED <<chain, head, final, forks, state, rows, outbox>>
    PROVE  /\ ChainOK' /\ HashOK' /\ RowsOK'
           /\ CheckpointCanonical' = CheckpointCanonical
           /\ RewindTo' = RewindTo
           /\ \A l : Stored(l)' = Stored(l)
<1> USE DEF IInv
<1>1. ChainOK'
  BY DEF ChainOK
<1>2. HashOK'
  BY DEF HashOK, Settled
<1>3. CheckpointCanonical' = CheckpointCanonical
  BY DEF CheckpointCanonical, BlockHash
<1>4. RewindTo' = RewindTo
  BY DEF RewindTo
<1>5. \A l : Stored(l)' = Stored(l)
  BY DEF Stored
<1>6. RowsOK'
  BY <1>3, <1>4, <1>5 DEF RowsOK
<1> QED
  BY <1>1, <1>2, <1>3, <1>4, <1>5, <1>6

\* After a start the worker resumes at or below what the checkpoint covers.
LEMMA InitNextInv ==
    ASSUME IInv, InitNext, TypeOK'
    PROVE  IInv'
<1> USE DEF IInv
<1>1. ChainOK' /\ HashOK' /\ RowsOK'
  BY ReadFrame DEF InitNext, chainVars, storeVars
<1>2. NextOK'
  <2>1. state.block # 0 => state.hash # NoHash
    BY NoHashDiffers DEF HashOK, TypeOK
  <2> QED
    BY <2>1, WorkerAssumption DEF InitNext, NextOK, storeVars, TypeOK
<1>3. PhaseOK' /\ BatchOK'
  BY DEF InitNext, PhaseOK, BatchOK
<1>m. MarkedAfterEnqueue'
  BY DEF InitNext, storeVars, MarkedAfterEnqueue
<1> QED
  BY <1>m, <1>1, <1>2, <1>3

\* A poll goes on when the checkpoint is canonical or there is none.
LEMMA NoReorgInv ==
    ASSUME IInv, NoReorg, TypeOK'
    PROVE  IInv'
<1> USE DEF IInv
<1>1. /\ ChainOK' /\ HashOK' /\ RowsOK'
      /\ CheckpointCanonical' = CheckpointCanonical
  BY ReadFrame DEF NoReorg, chainVars, storeVars
<1>2. NextOK'
  BY DEF NoReorg, NextOK, storeVars
<1>3. PhaseOK' /\ BatchOK'
  BY <1>1 DEF NoReorg, PhaseOK, BatchOK, storeVars
<1>m. MarkedAfterEnqueue'
  BY DEF NoReorg, storeVars, MarkedAfterEnqueue
<1> QED
  BY <1>m, <1>1, <1>2, <1>3

\* poll returns: an error leaves the worker where the next poll starts over.
LEMMA ReturnInv ==
    ASSUME IInv, TypeOK', Return, pc # "down",
           UNCHANGED <<chainVars, storeVars, next, tasks>>
    PROVE  IInv'
<1> USE DEF IInv
<1>1. ChainOK' /\ HashOK' /\ RowsOK'
  BY ReadFrame DEF chainVars, storeVars
<1>2. NextOK'
  BY DEF NextOK, Return, storeVars
<1>3. PhaseOK' /\ BatchOK'
  BY DEF Return, PhaseOK, BatchOK
<1>m. MarkedAfterEnqueue'
  BY DEF storeVars, MarkedAfterEnqueue
<1> QED
  BY <1>m, <1>1, <1>2, <1>3

\* A crash leaves the tables, and the invariant is about them.
LEMMA CrashInv ==
    ASSUME IInv, TypeOK', Crash
    PROVE  IInv'
<1> USE DEF IInv
<1>1. ChainOK' /\ HashOK' /\ RowsOK'
  BY ReadFrame DEF Crash, chainVars, storeVars
<1>2. NextOK' /\ PhaseOK' /\ BatchOK'
  BY DEF Crash, NextOK, PhaseOK, BatchOK
<1>m. MarkedAfterEnqueue'
  BY DEF Crash, storeVars, MarkedAfterEnqueue
<1> QED
  BY <1>m, <1>1, <1>2

\* A rollback keeps the rows up to where it goes back to.
LEMMA RollBackInv ==
    ASSUME FinalityWithinWindow, IInv, TypeOK', RollBack
    PROVE  IInv'
<1> USE DEF IInv
<1>1. /\ UNCHANGED <<chain, head, final, forks, state, outbox, next, todo>>
      /\ rows' = {r \in rows : r.block < RewindTo + 1}
      /\ to' = RewindTo /\ pc' = "rewind" /\ pc = "idle"
      /\ state.hash # NoHash /\ ~ CheckpointCanonical
  BY DEF RollBack, chainVars, DeleteFromBlock, DeleteCertificatesFromBlock,
         CheckpointCanonical
<1>2. ChainOK' /\ HashOK'
  BY <1>1 DEF ChainOK, HashOK, Settled
<1>3. CheckpointCanonical' = CheckpointCanonical /\ RewindTo' = RewindTo
  BY <1>1 DEF CheckpointCanonical, BlockHash, RewindTo
<1>4. RowsOK'
  <2> SUFFICES ASSUME NEW i \in StartBlock..state.block, i <= RewindTo,
                      NEW l \in chain[i].logs
               PROVE  Stored(l)'
    BY <1>1, <1>3 DEF RowsOK
  <2>1. Stored(l)
    BY <1>1 DEF RowsOK
  <2>2. i \in 0..head
    <3>1. i \in 0..state.block
      BY WorkerAssumption DEF TypeOK
    <3> QED
      BY <1>1, <3>1, RewindSettled, HashShape DEF TypeOK
  <2>3. l.block = i
    BY <2>2 DEF ChainOK
  <2>4. TrueRow(l).block < RewindTo + 1
    BY <2>2, <2>3, RewindToType DEF TrueRow, Row, TypeOK
  <2> QED
    BY <1>1, <2>1, <2>4 DEF Stored
<1>5. NextOK'
  BY <1>1 DEF NextOK
<1>6. state.block > Anchor
  <2>1. SUFFICES ASSUME state.block <= Anchor PROVE FALSE
    BY ChainAssumption DEF TypeOK
  <2>2. \A i \in 0..state.block : Settled(i)
    BY <2>1, ChainAssumption DEF Settled, TypeOK
  <2>3. \A i \in 0..state.block : i <= head /\ chain[i] = state.hash[i]
    BY <1>1, <2>2, HashShape
  <2>4. state.block <= head
    BY <2>3 DEF TypeOK
  <2> QED
    BY <1>1, <2>3, <2>4, HashShape, CanonicalBlocks
<1>7. StartBlock <= RewindTo /\ RewindTo <= state.block
  BY <1>6, WorkerAssumption, ChainAssumption
  DEF RewindTo, FinalityWithinWindow, TypeOK
<1>8. PhaseOK' /\ BatchOK'
  BY <1>1, <1>3, <1>7 DEF PhaseOK, BatchOK
<1>m. MarkedAfterEnqueue'
  BY DEF RollBack, storeVars, MarkedAfterEnqueue
<1> QED
  BY <1>m, <1>2, <1>4, <1>5, <1>8

\* A checkpoint at a block of the chain is canonical, and everything about
\* its hash holds.
LEMMA SaveStateHash ==
    ASSUME IInv, SaveState(to, BlockHash(to)), to <= head,
           UNCHANGED chainVars
    PROVE  /\ ChainOK' /\ HashOK'
           /\ state'.block = to /\ state'.hash # NoHash
           /\ CheckpointCanonical'
<1> USE DEF IInv
<1>1. /\ state'.block = to /\ state'.hash = BlockHash(to)
      /\ UNCHANGED <<chain, head, final, forks>>
      /\ to \in Nat /\ head \in Nat /\ final \in Nat
  BY ChainAssumption DEF SaveState, UpsertIndexerState, chainVars, TypeOK
<1>2. BlockHash(to) \in [0..to -> Blocks] /\ BlockHash(to) # NoHash
  BY <1>1, BlockHashType
<1>3. \A i \in 0..to : BlockHash(to)[i] = chain[i] /\ i <= head
  BY <1>1 DEF BlockHash
<1>4. \A i \in 0..to : chain[i].fork <= forks
  BY <1>1, <1>3 DEF ChainOK
<1>5. to <= final + ReorgDepth
  BY <1>1, ChainAssumption DEF ChainOK
<1>6. HashOK'
  BY <1>1, <1>2, <1>3, <1>4, <1>5 DEF HashOK
<1>7. ChainOK'
  BY <1>1 DEF ChainOK
<1>8. CheckpointCanonical'
  BY <1>1 DEF CheckpointCanonical, BlockHash
<1> QED
  BY <1>1, <1>2, <1>6, <1>7, <1>8

\* The rewound checkpoint covers rows that the rollback kept.
LEMMA SaveRewoundInv ==
    ASSUME FinalityWithinWindow, IInv, TypeOK', SaveRewound
    PROVE  IInv'
<1> USE DEF IInv
<1>1. /\ ChainOK' /\ HashOK' /\ CheckpointCanonical'
      /\ state'.block = to /\ state'.hash # NoHash
  BY SaveStateHash DEF SaveRewound
<1>2. /\ UNCHANGED <<chain, rows, outbox>>
      /\ next' = to + 1 /\ pc' = "head"
      /\ state.hash # NoHash /\ to = RewindTo
      /\ to <= state.block
  BY DEF SaveRewound, chainVars, PhaseOK
<1>3. RowsOK'
  <2> SUFFICES ASSUME NEW i \in StartBlock..to, NEW l \in chain[i].logs
               PROVE  Stored(l)'
    BY <1>1, <1>2 DEF RowsOK
  <2>1. i \in StartBlock..state.block /\ i <= RewindTo
    BY <1>2, WorkerAssumption DEF TypeOK
  <2>2. Stored(l)
    BY <1>2, <2>1 DEF RowsOK
  <2> QED
    BY <1>2, <2>2 DEF Stored
<1>4. NextOK' /\ PhaseOK' /\ BatchOK'
  BY <1>1, <1>2 DEF NextOK, PhaseOK, BatchOK, TypeOK
<1>m. MarkedAfterEnqueue'
  BY DEF SaveRewound, storeVars, MarkedAfterEnqueue
<1> QED
  BY <1>m, <1>1, <1>3, <1>4

\* The batch ends: every log between the old checkpoint and the new one has
\* been stored.
LEMMA CheckpointInv ==
    ASSUME IInv, TypeOK', Checkpoint
    PROVE  IInv'
<1> USE DEF IInv
<1>1. /\ ChainOK' /\ HashOK' /\ CheckpointCanonical'
      /\ state'.block = to /\ state'.hash # NoHash
  BY SaveStateHash DEF Checkpoint
<1>2. /\ UNCHANGED <<chain, rows, outbox>>
      /\ next' = to + 1 /\ pc' = "idle" /\ pc = "log" /\ todo = {}
      /\ to \in Nat /\ next \in Nat /\ state.block \in Nat
  BY DEF Checkpoint, Return, chainVars, TypeOK
<1>3. RowsOK'
  <2> SUFFICES ASSUME NEW i \in StartBlock..to, NEW l \in chain[i].logs
               PROVE  Stored(l)'
    BY <1>1, <1>2 DEF RowsOK
  <2>1. CASE i >= next
    <3>1. Stored(l)
      BY <1>2, <2>1, WorkerAssumption DEF BatchOK
    <3> QED
      BY <1>2, <3>1 DEF Stored
  <2>2. CASE i < next
    <3>1. state.hash # NoHash /\ i \in StartBlock..state.block
      BY <1>2, <2>2, WorkerAssumption DEF NextOK
    <3>2. CheckpointCanonical
      BY <1>2, <3>1 DEF PhaseOK
    <3>3. Stored(l)
      BY <3>1, <3>2 DEF RowsOK
    <3> QED
      BY <1>2, <3>3 DEF Stored
  <2> QED
    BY <1>2, <2>1, <2>2, WorkerAssumption
<1>4. NextOK' /\ PhaseOK' /\ BatchOK'
  BY <1>1, <1>2 DEF NextOK, PhaseOK, BatchOK
<1>m. MarkedAfterEnqueue'
  BY DEF Checkpoint, storeVars, MarkedAfterEnqueue
<1> QED
  BY <1>m, <1>1, <1>3, <1>4

\* A batch ends at or below the head.
LEMMA HeadBlockInv ==
    ASSUME IInv, TypeOK', HeadBlock
    PROVE  IInv'
<1> USE DEF IInv
<1>1. /\ ChainOK' /\ HashOK' /\ RowsOK'
      /\ CheckpointCanonical' = CheckpointCanonical
  BY ReadFrame DEF HeadBlock, chainVars, storeVars
<1>2. NextOK'
  BY DEF HeadBlock, NextOK, storeVars
<1>3. PhaseOK' /\ BatchOK'
  BY <1>1, BatchEndType DEF HeadBlock, PhaseOK, BatchOK, storeVars, chainVars
<1>m. MarkedAfterEnqueue'
  BY DEF HeadBlock, storeVars, MarkedAfterEnqueue
<1> QED
  BY <1>m, <1>1, <1>2, <1>3

\* The logs of the batch are those of the chain from next on.
LEMMA FetchLogsInv ==
    ASSUME IInv, TypeOK', FetchLogs
    PROVE  IInv'
<1> USE DEF IInv
<1>1. /\ ChainOK' /\ HashOK' /\ RowsOK'
      /\ CheckpointCanonical' = CheckpointCanonical
  BY ReadFrame DEF FetchLogs, chainVars, storeVars
<1>2. NextOK'
  BY DEF FetchLogs, NextOK, storeVars
<1>3. PhaseOK'
  BY <1>1 DEF FetchLogs, PhaseOK, storeVars, chainVars
<1>4. BatchOK'
  <2>1. /\ todo' = IssuedLogs(next, to) /\ pc' = "log"
        /\ UNCHANGED <<chain, head, next, to, rows, outbox>>
    BY DEF FetchLogs, chainVars, storeVars
  <2>2. \A i \in next..to : i \in 0..head
    BY DEF FetchLogs, PhaseOK, TypeOK
  <2>3. \A i \in next..to : \A l \in chain[i].logs : l \in todo'
    BY <2>1, <2>2 DEF IssuedLogs
  <2>4. \A l \in todo' : \E i \in next..to : l \in chain[i].logs
    BY <2>1 DEF IssuedLogs
  <2>5. \A l \in todo' : l.block \in next..to /\ l \in chain[l.block].logs
    BY <2>2, <2>4 DEF ChainOK
  <2> QED
    BY <2>1, <2>3, <2>5 DEF BatchOK
<1>m. MarkedAfterEnqueue'
  BY DEF FetchLogs, storeVars, MarkedAfterEnqueue
<1> QED
  BY <1>m, <1>1, <1>2, <1>3, <1>4

-----------------------------------------------------------------------------
\* Processing a log.

\* A log of the batch is a log of the chain.
LEMMA TodoOnChain ==
    ASSUME IInv, pc \in {"log", "publish", "outbox", "enqueue", "mark"}, NEW l \in todo
    PROVE  l.block \in 0..head /\ l \in chain[l.block].logs
BY DEF IInv, BatchOK, PhaseOK, TypeOK

\* There is one current log.
LEMMA CurrentUnique ==
    ASSUME IInv, pc \in {"log", "publish", "outbox", "enqueue", "mark"},
           NEW l \in todo, NEW m \in todo, Current(l), Current(m)
    PROVE  l = m
<1>1. l.token \in Nat /\ m.token \in Nat
  BY DEF IInv, TypeOK, Logs
<1>2. l.token = m.token
  BY <1>1 DEF Current
<1> QED
  BY <1>2, TodoOnChain, TokensUnique DEF IInv

\* getCertificate(tokenId) returns what the log's own transaction issued, and
\* storing it takes away no other certificate of the chain.
LEMMA ProcessLogInv ==
    ASSUME IInv, TypeOK', ProcessLog
    PROVE  IInv'
<1> USE DEF IInv
<1>1. PICK l \in todo, d \in Txs :
        /\ pc = "log" /\ Current(l) /\ Certificate(l.token, d)
        /\ StoreCertificate(l, d)
  BY DEF ProcessLog
<1>2. l.block \in 0..head /\ l \in chain[l.block].logs
  BY <1>1, TodoOnChain
<1>3. d = l.tx
  <2>1. PICK m \in AllLogs : m.token = l.token /\ m.tx = d
    BY <1>1 DEF Certificate
  <2>2. PICK j \in 0..head : m \in chain[j].logs
    BY <2>1 DEF AllLogs
  <2> QED
    BY <1>2, <2>1, <2>2, TokensUnique
<1>4. /\ UNCHANGED <<chain, head, final, forks, state, outbox, enqueued, tasks,
                     next, to, todo>>
      /\ rows' = {q \in rows : q.token # l.token} \cup {TrueRow(l)}
      /\ pc' = "publish"
  BY <1>1, <1>3 DEF StoreCertificate, chainVars, Upsert, UpsertCertificate, TrueRow, Row
<1>5. ASSUME NEW j \in 0..head, NEW m \in chain[j].logs, Stored(m)
      PROVE  Stored(m)'
  <2>1. CASE m.token = l.token
    BY <1>2, <1>4, <1>5, <2>1, TokensUnique DEF Stored
  <2>2. CASE m.token # l.token
    BY <1>4, <1>5, <2>2 DEF Stored, TrueRow, Row
  <2> QED
    BY <2>1, <2>2
<1>6. ChainOK' /\ HashOK'
  BY <1>4 DEF ChainOK, HashOK, Settled
<1>7. CheckpointCanonical' = CheckpointCanonical
  BY <1>4 DEF CheckpointCanonical, BlockHash
<1>8. RowsOK'
  <2> SUFFICES ASSUME state.hash # NoHash, NEW i \in StartBlock..state.block,
                      NEW m \in chain[i].logs
               PROVE  Stored(m)'
    BY <1>4 DEF RowsOK
  <2>1. CheckpointCanonical
    BY <1>1 DEF PhaseOK
  <2>2. i \in 0..head
    BY <2>1, WorkerAssumption DEF CheckpointCanonical, TypeOK
  <2>3. Stored(m)
    BY <2>1 DEF RowsOK
  <2> QED
    BY <1>5, <2>2, <2>3
<1>9. NextOK' /\ PhaseOK'
  BY <1>1, <1>4, <1>7 DEF NextOK, PhaseOK
<1>10. BatchOK'
  <2>1. \A m \in todo : m.block \in next..to /\ m \in chain[m.block].logs
    BY <1>1 DEF BatchOK
  <2>2. ASSUME NEW i \in next..to, NEW m \in chain[i].logs
        PROVE  m \in todo \/ Stored(m)'
    <3>1. i \in 0..head
      BY <1>1 DEF PhaseOK, TypeOK
    <3>2. m \in todo \/ Stored(m)
      BY <1>1 DEF BatchOK
    <3> QED
      BY <1>5, <3>1, <3>2
  <2>3. ASSUME NEW m \in todo, Current(m)
        PROVE  TrueRow(m) \in rows'
    BY <1>1, <1>4, <2>3, CurrentUnique
  <2>4. \A m : Current(m)' = Current(m)
    BY <1>4 DEF Current
  <2> QED
    BY <1>4, <2>1, <2>2, <2>3, <2>4 DEF BatchOK
<1>11. MarkedAfterEnqueue'
  BY <1>4 DEF MarkedAfterEnqueue
<1> QED
  BY <1>6, <1>8, <1>9, <1>10, <1>11

\* Publishing a certificate leaves the tables alone.
LEMMA PublishCertificateInv ==
    ASSUME IInv, TypeOK', NEW b, PublishCertificate(b)
    PROVE  IInv'
<1> USE DEF IInv
<1>1. /\ pc = "publish" /\ pc' = "outbox"
      /\ UNCHANGED <<chain, head, final, forks, rows, state, outbox, enqueued,
                     tasks, next, to, todo>>
  BY DEF PublishCertificate, chainVars, storeVars
<1>2. /\ ChainOK' /\ HashOK' /\ RowsOK'
      /\ CheckpointCanonical' = CheckpointCanonical
      /\ \A m : Stored(m)' = Stored(m)
  BY <1>1, ReadFrame
<1>3. NextOK' /\ PhaseOK' /\ MarkedAfterEnqueue'
  BY <1>1, <1>2 DEF NextOK, PhaseOK, MarkedAfterEnqueue
<1>4. BatchOK'
  <2>1. \A m : Current(m)' = Current(m)
    BY <1>1 DEF Current
  <2> QED
    BY <1>1, <1>2, <2>1 DEF BatchOK
<1> QED
  BY <1>2, <1>3, <1>4

\* The worker is done with the current log, which is stored.
LEMMA DoneInv ==
    ASSUME IInv, TypeOK', pc \in {"outbox", "enqueue", "mark"},
           NEW l \in todo, Current(l), OutboxKey(l) \in outbox, Done(l),
           UNCHANGED <<chain, head, final, forks, state, rows, outbox, next, to>>,
           MarkedAfterEnqueue'
    PROVE  IInv'
<1> USE DEF IInv
<1>1. /\ ChainOK' /\ HashOK' /\ RowsOK'
      /\ CheckpointCanonical' = CheckpointCanonical
      /\ \A m : Stored(m)' = Stored(m)
  BY ReadFrame
<1>2. pc' = "log" /\ todo' = todo \ {l}
  BY DEF Done
<1>3. NextOK' /\ PhaseOK'
  BY <1>1, <1>2 DEF NextOK, PhaseOK
<1>4. Stored(l)
  BY DEF BatchOK, Stored
<1>5. BatchOK'
  BY <1>1, <1>2, <1>4 DEF BatchOK
<1> QED
  BY <1>1, <1>3, <1>5

\* The outbox gets the current log's key, or has it from an earlier poll.
LEMMA RecordWebhookInv ==
    ASSUME IInv, TypeOK', RecordWebhook
    PROVE  IInv'
<1> USE DEF IInv
<1>1. PICK l \in todo :
        /\ pc = "outbox" /\ Current(l)
        /\ outbox' = outbox \cup {OutboxKey(l)}
        /\ IF OutboxKey(l) \in outbox
           THEN Done(l)
           ELSE pc' = "enqueue" /\ UNCHANGED todo
        /\ UNCHANGED <<chain, head, final, forks, rows, state, enqueued, tasks,
                       next, to>>
  BY DEF RecordWebhook, InsertWebhookOutbox, IsNew, chainVars
<1>2. MarkedAfterEnqueue'
  BY <1>1 DEF MarkedAfterEnqueue
<1>3. CASE OutboxKey(l) \in outbox
  <2>1. outbox' = outbox
    BY <1>1, <1>3
  <2> QED
    BY <1>1, <1>2, <1>3, <2>1, DoneInv
<1>4. CASE OutboxKey(l) \notin outbox
  <2>1. pc' = "enqueue" /\ todo' = todo
    BY <1>1, <1>4
  <2>2. ChainOK' /\ HashOK'
    BY <1>1 DEF ChainOK, HashOK, Settled
  <2>3. CheckpointCanonical' = CheckpointCanonical /\ RewindTo' = RewindTo
    BY <1>1 DEF CheckpointCanonical, BlockHash, RewindTo
  <2>4. \A m : Stored(m) => Stored(m)'
    BY <1>1 DEF Stored
  <2>5. RowsOK'
    BY <1>1, <2>3, <2>4 DEF RowsOK
  <2>6. NextOK' /\ PhaseOK'
    BY <1>1, <2>1, <2>3 DEF NextOK, PhaseOK
  <2>7. BatchOK'
    <3>1. \A m : Current(m)' = Current(m)
      BY <2>1 DEF Current
    <3>2. \A m \in todo : Current(m) => m = l
      BY <1>1, CurrentUnique
    <3> QED
      BY <1>1, <2>1, <2>4, <3>1, <3>2 DEF BatchOK
  <2> QED
    BY <1>2, <2>2, <2>5, <2>6, <2>7
<1> QED
  BY <1>3, <1>4

\* The task is in the queue before the row is marked.
LEMMA EnqueueWebhookInv ==
    ASSUME IInv, TypeOK', EnqueueWebhook
    PROVE  IInv'
<1> USE DEF IInv
<1>1. PICK l \in todo :
        /\ pc = "enqueue" /\ Current(l)
        /\ tasks' = tasks \cup {OutboxKey(l)}
        /\ pc' = "mark"
        /\ UNCHANGED <<chain, head, final, forks, rows, state, outbox, enqueued,
                       next, to, todo>>
  BY DEF EnqueueWebhook, chainVars, storeVars
<1>2. /\ ChainOK' /\ HashOK' /\ RowsOK'
      /\ CheckpointCanonical' = CheckpointCanonical
      /\ \A m : Stored(m)' = Stored(m)
  BY <1>1, ReadFrame
<1>3. NextOK' /\ PhaseOK' /\ MarkedAfterEnqueue'
  BY <1>1, <1>2 DEF NextOK, PhaseOK, MarkedAfterEnqueue
<1>4. BatchOK'
  <2>1. \A m : Current(m)' = Current(m)
    BY <1>1 DEF Current
  <2>2. \A m \in todo : Current(m) => m = l
    BY <1>1, CurrentUnique
  <2> QED
    BY <1>1, <1>2, <2>1, <2>2 DEF BatchOK
<1> QED
  BY <1>2, <1>3, <1>4

\* Only the row of a task in the queue is marked.
LEMMA MarkWebhookInv ==
    ASSUME IInv, TypeOK', MarkWebhook
    PROVE  IInv'
<1> USE DEF IInv
<1>1. PICK l \in todo :
        /\ pc = "mark" /\ Current(l)
        /\ enqueued' = enqueued \cup {OutboxKey(l)}
        /\ Done(l)
        /\ UNCHANGED <<chain, head, final, forks, rows, state, outbox, tasks,
                       next, to>>
  BY DEF MarkWebhook, MarkWebhookOutboxEnqueued, chainVars
<1>2. OutboxKey(l) \in outbox /\ OutboxKey(l) \in tasks
  BY <1>1 DEF BatchOK
<1>3. MarkedAfterEnqueue'
  BY <1>1, <1>2 DEF MarkedAfterEnqueue
<1> QED
  BY <1>1, <1>2, <1>3, DoneInv

\* A log counts as processed when its key is in the outbox, enqueued or not.
LEMMA WebhookStepFailsInv ==
    ASSUME IInv, TypeOK', WebhookStepFails
    PROVE  IInv'
<1> USE DEF IInv
<1>1. PICK l \in todo :
        /\ pc \in {"enqueue", "mark"} /\ Current(l)
        /\ Done(l)
        /\ UNCHANGED <<chain, head, final, forks, rows, state, outbox, enqueued,
                       tasks, next, to>>
  BY DEF WebhookStepFails, chainVars, storeVars
<1>2. OutboxKey(l) \in outbox
  BY <1>1 DEF BatchOK
<1>3. MarkedAfterEnqueue'
  BY <1>1 DEF MarkedAfterEnqueue
<1> QED
  BY <1>1, <1>2, <1>3, DoneInv

-----------------------------------------------------------------------------
\* The theorems.

\* The initial state satisfies the invariant.
LEMMA InitInv == Init => IInv
<1> SUFFICES ASSUME Init PROVE IInv
  OBVIOUS
<1>1. TypeOK
  BY InitType
<1>2. /\ chain = [n \in 0..0 |-> Genesis] /\ head = 0 /\ final = Anchor /\ forks = 0
      /\ state = [block |-> 0, hash |-> NoHash] /\ pc = "down"
      /\ enqueued = {}
  BY DEF Init, ChainInit, StoreInit
<1>3. ChainOK
  <2>1. \A n \in 0..head : n = 0 /\ chain[n] = Genesis
    BY <1>2
  <2> QED
    BY <1>2, <2>1, ChainAssumption DEF ChainOK, Genesis
<1>4. HashOK /\ RowsOK /\ NextOK /\ PhaseOK /\ BatchOK /\ MarkedAfterEnqueue
  BY <1>2 DEF HashOK, RowsOK, NextOK, PhaseOK, BatchOK, MarkedAfterEnqueue
<1> QED
  BY <1>1, <1>3, <1>4 DEF IInv

\* Every step, failing ones included, preserves it.
LEMMA StepInv ==
    ASSUME FinalityWithinWindow, IInv, [Next \/ FaultNext]_vars
    PROVE  IInv'
<1>1. CASE UNCHANGED vars
  <2>1. /\ ChainOK' /\ HashOK' /\ RowsOK'
        /\ CheckpointCanonical' = CheckpointCanonical
        /\ RewindTo' = RewindTo
        /\ \A l : Stored(l)' = Stored(l)
    BY <1>1, ReadFrame DEF vars, chainVars, storeVars
  <2>2. TypeOK'
    BY <1>1 DEF IInv, vars, chainVars, storeVars, workerVars, TypeOK, IsHash
  <2>3. NextOK' /\ PhaseOK' /\ MarkedAfterEnqueue'
    BY <1>1, <2>1
    DEF IInv, vars, chainVars, storeVars, workerVars, NextOK, PhaseOK,
        MarkedAfterEnqueue
  <2>4. BatchOK'
    BY <1>1, <2>1
    DEF IInv, vars, chainVars, storeVars, workerVars, BatchOK, Current
  <2> QED
    BY <2>1, <2>2, <2>3, <2>4 DEF IInv
<1>2. CASE Next \/ FaultNext
  <2>1. TypeOK'
    BY <1>2, StepType DEF IInv
  <2>2. CASE NothingToDo \/ Reject \/ PollFails
    BY <2>1, <2>2, ReturnInv DEF NothingToDo, Reject, PollFails
  <2>3. CASE InitNext \/ NoReorg \/ RollBack \/ SaveRewound
    BY <2>1, <2>3, InitNextInv, NoReorgInv, RollBackInv, SaveRewoundInv
  <2>4. CASE HeadBlock \/ FetchLogs \/ Checkpoint
    BY <2>1, <2>4, HeadBlockInv, FetchLogsInv, CheckpointInv
  <2>5. CASE ProcessLog \/ PublishCertificate(TRUE) \/ PublishCertificate(trendTask)
    BY <2>1, <2>5, ProcessLogInv, PublishCertificateInv
  <2>6. CASE RecordWebhook \/ EnqueueWebhook \/ MarkWebhook \/ WebhookStepFails
    BY <2>1, <2>6, RecordWebhookInv, EnqueueWebhookInv, MarkWebhookInv,
       WebhookStepFailsInv
  <2>7. CASE Crash \/ MineStep \/ ReorgBetweenPolls
    BY <2>1, <2>7, CrashInv, MineInv, ReorgInv
  <2> QED
    BY <1>2, <2>2, <2>3, <2>4, <2>5, <2>6, <2>7 DEF Next, WorkerNext, FaultNext
<1> QED
  BY <1>1, <1>2

\* The invariant implies that nothing is missing.
LEMMA InvImpliesComplete == IInv => Complete
<1> SUFFICES ASSUME IInv, Trusted, NEW l \in Canonical(state.block)
             PROVE  TrueRow(l) \in rows /\ OutboxKey(l) \in outbox
  BY DEF Complete
<1>1. PICK i \in StartBlock..state.block : l \in chain[i].logs
  BY DEF Canonical, IssuedLogs
<1> QED
  BY <1>1 DEF IInv, RowsOK, Trusted, Stored

\* The invariant behind the two theorems that follow, for every window, batch
\* size, start block and chain whose finality is within the window: whatever
\* calls fail and wherever the process stops, the checkpoint, the tables and
\* the batch in progress agree with each other and with the chain.
THEOREM WorkerInvariant ==
    ASSUME FinalityWithinWindow
    PROVE  FaultySpec => []IInv
<1>1. IInv /\ [Next \/ FaultNext]_vars => IInv'
  BY StepInv
<1> QED
  BY InitInv, <1>1, PTL DEF FaultySpec

\* Under any pattern of failing calls and crashes, no certificate up to a
\* canonical checkpoint is missing from the table or lacks its outbox row,
\* for every window, batch size, start block and chain, provided the chain's
\* finality is within the window.
THEOREM NothingSkipped ==
    ASSUME FinalityWithinWindow
    PROVE  FaultySpec => []Complete
  BY WorkerInvariant, InvImpliesComplete, PTL

\* Under the same assumptions an outbox row is marked as enqueued only after
\* its task is in the queue.
THEOREM MarkedRowsHaveTasks ==
    ASSUME FinalityWithinWindow
    PROVE  FaultySpec => []MarkedAfterEnqueue
<1>1. IInv => MarkedAfterEnqueue
  BY DEF IInv
<1> QED
  BY WorkerInvariant, <1>1, PTL

-----------------------------------------------------------------------------
\* Lost answers.

\* The phases of a poll in which the end of its batch is known.
InBatch == pc \in {"logs", "log", "publish", "outbox", "enqueue", "mark"}

\* With lost answers w.next may be behind the checkpoint.  A batch does not
\* end below where it begins, nor below the checkpoint: the checkpoint is at
\* most as far ahead of w.next as one batch reaches (an empty batch from block
\* 0 on has no last block: its end wraps around and is the head).
PositionOK ==
    /\ InBatch =>
        /\ next <= to + 1
        /\ to < next + BatchSize \/ next + BatchSize = 0
        /\ state.hash # NoHash => state.block <= to
    /\ pc # "down" /\ state.hash # NoHash =>
        state.block < next + BatchSize \/ next + BatchSize = 0

UnansweredInv == IInv /\ PositionOK

\* Where a batch ends.
LEMMA BatchEndPosition ==
    ASSUME TypeOK, FitsWord, next <= head
    PROVE  /\ next <= BatchEnd + 1
           /\ BatchEnd < next + BatchSize \/ next + BatchSize = 0
           /\ \A b \in 0..head : b < next + BatchSize \/ next + BatchSize = 0
                                  => b <= BatchEnd
<1>1. /\ next \in Nat /\ head \in Nat /\ head <= MaxHead
      /\ MaxHead \in Nat /\ BatchSize \in Nat /\ Word \in Nat \ {0}
      /\ MaxHead + BatchSize < Word
  BY ChainAssumption, WorkerAssumption DEF TypeOK, FitsWord
<1>2. CASE next + BatchSize = 0
  <2>1. next + BatchSize - 1 = -1
    BY <1>1, <1>2
  <2>2. (next + BatchSize - 1) % Word = Word - 1
    BY <1>1, <2>1
  <2>3. BatchEnd = head
    BY <1>1, <2>2 DEF BatchEnd
  <2> QED
    BY <1>1, <1>2, <2>3
<1>3. CASE next + BatchSize # 0
  <2>1. next + BatchSize - 1 \in 0..(Word - 1)
    BY <1>1, <1>3
  <2>2. (next + BatchSize - 1) % Word = next + BatchSize - 1
    BY <1>1, <2>1
  <2> QED
    BY <1>1, <1>3, <2>2 DEF BatchEnd
<1> QED
  BY <1>2, <1>3

\* A checkpoint whose answer is lost covers what the batch stored, and the
\* next poll begins at or below it.
LEMMA CheckpointUnansweredInv ==
    ASSUME UnansweredInv, TypeOK', CheckpointUnanswered
    PROVE  IInv'
<1> USE DEF UnansweredInv, IInv, PositionOK, InBatch
<1>1. /\ ChainOK' /\ HashOK' /\ CheckpointCanonical'
      /\ state'.block = to /\ state'.hash # NoHash
  BY SaveStateHash DEF CheckpointUnanswered
<1>2. /\ UNCHANGED <<chain, rows, outbox, next>>
      /\ pc' = "idle" /\ pc = "log" /\ todo = {} /\ next <= to + 1
      /\ to \in Nat /\ next \in Nat /\ state.block \in Nat
  BY DEF CheckpointUnanswered, Return, chainVars, TypeOK
<1>3. RowsOK'
  <2> SUFFICES ASSUME NEW i \in StartBlock..to, NEW l \in chain[i].logs
               PROVE  Stored(l)'
    BY <1>1, <1>2 DEF RowsOK
  <2>1. CASE i >= next
    <3>1. Stored(l)
      BY <1>2, <2>1, WorkerAssumption DEF BatchOK
    <3> QED
      BY <1>2, <3>1 DEF Stored
  <2>2. CASE i < next
    <3>1. state.hash # NoHash /\ i \in StartBlock..state.block
      BY <1>2, <2>2, WorkerAssumption DEF NextOK
    <3>2. CheckpointCanonical
      BY <1>2, <3>1 DEF PhaseOK
    <3>3. Stored(l)
      BY <3>1, <3>2 DEF RowsOK
    <3> QED
      BY <1>2, <3>3 DEF Stored
  <2> QED
    BY <1>2, <2>1, <2>2, WorkerAssumption
<1>4. NextOK' /\ PhaseOK' /\ BatchOK'
  BY <1>1, <1>2 DEF NextOK, PhaseOK, BatchOK
<1>5. MarkedAfterEnqueue'
  BY DEF CheckpointUnanswered, MarkedAfterEnqueue
<1> QED
  BY <1>1, <1>3, <1>4, <1>5

\* A step within a batch that leaves the position alone keeps it.
LEMMA PositionFrame ==
    ASSUME PositionOK, UNCHANGED <<state, next, to>>,
           InBatch' => InBatch, pc' # "down" => pc # "down"
    PROVE  PositionOK'
<1>1. InBatch' => /\ next <= to + 1
                  /\ to < next + BatchSize \/ next + BatchSize = 0
                  /\ state.hash # NoHash => state.block <= to
  BY DEF PositionOK
<1>2. pc' # "down" /\ state.hash # NoHash =>
        state.block < next + BatchSize \/ next + BatchSize = 0
  BY DEF PositionOK
<1> QED
  BY <1>1, <1>2 DEF PositionOK

\* Every step keeps the position in order.
LEMMA StepPosition ==
    ASSUME FitsWord, UnansweredInv, TypeOK',
           [Next \/ FaultNext \/ CheckpointUnanswered]_vars
    PROVE  PositionOK'
<1>0. /\ TypeOK /\ PositionOK /\ PhaseOK
      /\ next \in Nat /\ to \in Nat /\ state.block \in Nat /\ head \in Nat
      /\ BatchSize \in Nat /\ StartBlock \in Nat
  BY WorkerAssumption DEF UnansweredInv, IInv, TypeOK
<1>1. CASE InitNext
  <2>1. /\ ~ InBatch' /\ state' = state
        /\ next' = IF state.block = 0 THEN StartBlock ELSE state.block + 1
    BY <1>1 DEF InitNext, InBatch, storeVars
  <2> QED
    BY <1>0, <2>1 DEF PositionOK
<1>2. CASE HeadBlock
  <2>1. /\ UNCHANGED <<state, next>> /\ to' = BatchEnd /\ pc = "head"
        /\ next <= head
    BY <1>2 DEF HeadBlock, storeVars
  <2>2. state.hash # NoHash => state.block \in 0..head
    BY <1>0, <2>1 DEF PhaseOK, CheckpointCanonical
  <2>3. /\ next <= BatchEnd + 1
        /\ BatchEnd < next + BatchSize \/ next + BatchSize = 0
        /\ state.hash # NoHash => state.block <= BatchEnd
    BY <1>0, <2>1, <2>2, BatchEndPosition DEF PositionOK
  <2> QED
    BY <1>0, <2>1, <2>3 DEF PositionOK
<1>3. CASE SaveRewound \/ Checkpoint
  <2>1. ~ InBatch' /\ state'.block = to /\ next' = to + 1
    BY <1>3 DEF SaveRewound, Checkpoint, Return, SaveState, UpsertIndexerState, InBatch
  <2> QED
    BY <1>0, <2>1 DEF PositionOK
<1>4. CASE CheckpointUnanswered
  <2>1. ~ InBatch' /\ state'.block = to /\ next' = next /\ InBatch
    BY <1>4 DEF CheckpointUnanswered, Return, SaveState, UpsertIndexerState, InBatch
  <2> QED
    BY <1>0, <2>1 DEF PositionOK
<1>5. CASE NoReorg \/ RollBack \/ NothingToDo \/ Reject \/ PollFails
  <2>1. ~ InBatch' /\ pc # "down" /\ UNCHANGED <<state, next>>
    BY <1>5 DEF NoReorg, RollBack, NothingToDo, Reject, PollFails, Return, InBatch,
                storeVars
  <2> QED
    BY <1>0, <2>1 DEF PositionOK
<1>6. CASE Crash
  BY <1>6 DEF Crash, PositionOK, InBatch
<1>7. CASE FetchLogs \/ RecordWebhook \/ EnqueueWebhook \/ MarkWebhook
           \/ WebhookStepFails
  <2>1. InBatch /\ pc # "down" /\ UNCHANGED <<state, next, to>>
    BY <1>7 DEF FetchLogs, RecordWebhook, EnqueueWebhook, MarkWebhook,
                WebhookStepFails, storeVars, InBatch
  <2> QED
    BY <1>0, <2>1, PositionFrame
<1>8. ASSUME NEW b, ProcessLog \/ PublishCertificate(b) PROVE PositionOK'
  <2>1. InBatch /\ pc # "down" /\ UNCHANGED <<state, next, to>>
    BY <1>8 DEF ProcessLog, StoreCertificate, PublishCertificate, storeVars, InBatch
  <2> QED
    BY <1>0, <2>1, PositionFrame
<1>9. CASE MineStep \/ ReorgBetweenPolls \/ UNCHANGED vars
  <2>1. UNCHANGED <<state, next, to, pc>>
    BY <1>9 DEF MineStep, ReorgBetweenPolls, ReorgStep, vars, storeVars, workerVars
  <2> QED
    BY <1>0, <2>1, PositionFrame DEF InBatch
<1> QED
  BY <1>1, <1>2, <1>3, <1>4, <1>5, <1>6, <1>7, <1>8, <1>9
  DEF Next, WorkerNext, FaultNext

\* Every step, a lost answer included, preserves the invariant.
LEMMA UnansweredStep ==
    ASSUME FinalityWithinWindow, FitsWord, UnansweredInv,
           [Next \/ FaultNext \/ CheckpointUnanswered]_vars
    PROVE  UnansweredInv'
<1>1. IInv'
  <2>1. CASE CheckpointUnanswered
    BY <2>1, StepType, CheckpointUnansweredInv DEF UnansweredInv, IInv
  <2>2. CASE [Next \/ FaultNext]_vars
    BY <2>2, StepInv DEF UnansweredInv
  <2> QED
    BY <2>1, <2>2
<1>2. PositionOK'
  BY <1>1, StepPosition DEF IInv
<1> QED
  BY <1>1, <1>2 DEF UnansweredInv

\* The initial state satisfies it.
LEMMA UnansweredInit == Init => UnansweredInv
<1>1. Init => PositionOK
  BY DEF Init, PositionOK, InBatch
<1> QED
  BY <1>1, InitInv DEF UnansweredInv

\* Also when answers to a batch's checkpoint are lost, no certificate up to a
\* canonical checkpoint is missing from the table or lacks its outbox row, and
\* only rows with a task are marked, provided finality is within the window
\* and block numbers fit the word.
THEOREM LostAnswersSkipNothing ==
    ASSUME FinalityWithinWindow, FitsWord
    PROVE  UnansweredSpec => [](Complete /\ MarkedAfterEnqueue)
<1>1. Init => UnansweredInv
  BY UnansweredInit
<1>2. UnansweredInv /\ [Next \/ FaultNext \/ CheckpointUnanswered]_vars
        => UnansweredInv'
  BY UnansweredStep
<1>3. UnansweredInv => Complete /\ MarkedAfterEnqueue
  BY InvImpliesComplete DEF UnansweredInv, IInv
<1> QED
  BY <1>1, <1>2, <1>3, PTL DEF UnansweredSpec

-----------------------------------------------------------------------------
\* What a step never does.

\* A covered certificate is a log of the chain at a block of its own.
LEMMA CoveredOnChain ==
    ASSUME IInv, NEW l \in Covered
    PROVE  /\ l.block \in 0..head /\ l \in chain[l.block].logs
           /\ Trusted \/ l.block <= RewindTo
<1>1. PICK i \in StartBlock..state.block : i <= head /\ l \in chain[i].logs
  BY DEF Covered, Canonical, IssuedLogs
<1>2. i \in 0..head
  BY <1>1, WorkerAssumption DEF IInv, TypeOK
<1> QED
  BY <1>1, <1>2 DEF IInv, ChainOK, Covered

\* No step takes a covered certificate out of the table or changes its row.
LEMMA StepKeepsCovered ==
    ASSUME IInv, [Next \/ FaultNext \/ CheckpointUnanswered]_vars,
           NEW l \in Covered, TrueRow(l) \in rows
    PROVE  TrueRow(l) \in rows'
<1>1. CASE RollBack
  <2>1. /\ rows' = {r \in rows : r.block < RewindTo + 1}
        /\ ~ CheckpointCanonical
    BY <1>1 DEF RollBack, DeleteFromBlock, DeleteCertificatesFromBlock,
                CheckpointCanonical
  <2>2. l.block \in Nat /\ l.block <= RewindTo /\ RewindTo \in Nat
    BY <2>1, CoveredOnChain, RewindToType DEF Trusted, IInv
  <2> QED
    BY <2>1, <2>2 DEF TrueRow, Row
<1>2. CASE ProcessLog
  <2>1. PICK m \in todo, d \in Txs :
          pc = "log" /\ Certificate(m.token, d) /\ StoreCertificate(m, d)
    BY <1>2 DEF ProcessLog
  <2>2. rows' = {q \in rows : q.token # m.token} \cup {Row(m, d)}
    BY <2>1 DEF StoreCertificate, Upsert, UpsertCertificate, Row
  <2>3. CASE l.token # m.token
    BY <2>2, <2>3 DEF TrueRow, Row
  <2>4. CASE l.token = m.token
    <3>1. m = l
      BY <2>1, <2>4, TodoOnChain, CoveredOnChain, TokensUnique DEF IInv
    <3>2. PICK j \in 0..head : \E k \in chain[j].logs : k.token = m.token /\ k.tx = d
      BY <2>1 DEF Certificate, AllLogs
    <3>3. d = l.tx
      BY <3>1, <3>2, CoveredOnChain, TokensUnique DEF IInv
    <3> QED
      BY <2>2, <3>1, <3>3 DEF TrueRow
  <2> QED
    BY <2>3, <2>4
<1>3. CASE UNCHANGED rows
  BY <1>3
<1>4. CASE InitNext \/ NoReorg \/ SaveRewound \/ NothingToDo \/ HeadBlock
           \/ FetchLogs \/ Reject \/ Checkpoint \/ PollFails \/ Crash
           \/ CheckpointUnanswered
  BY <1>3, <1>4 DEF InitNext, NoReorg, SaveRewound, NothingToDo, HeadBlock,
     FetchLogs, Reject, Checkpoint, PollFails, Crash, CheckpointUnanswered, storeVars
<1>5. CASE RecordWebhook \/ EnqueueWebhook \/ MarkWebhook \/ WebhookStepFails
  BY <1>3, <1>5 DEF RecordWebhook, EnqueueWebhook, MarkWebhook, WebhookStepFails,
     storeVars
<1>6. CASE MineStep \/ ReorgBetweenPolls \/ UNCHANGED vars
  BY <1>3, <1>6 DEF MineStep, ReorgBetweenPolls, ReorgStep, vars, storeVars
<1>7. ASSUME NEW b, PublishCertificate(b) PROVE UNCHANGED rows
  BY <1>7 DEF PublishCertificate, storeVars
<1> QED
  BY <1>1, <1>2, <1>3, <1>4, <1>5, <1>6, <1>7 DEF Next, WorkerNext, FaultNext

\* A certificate that the checkpoint vouches for never leaves the table and
\* its row never changes, whatever calls fail, whichever answers to a
\* batch's checkpoint are lost and wherever the process stops.
THEOREM NothingWithdrawn ==
    ASSUME FinalityWithinWindow, FitsWord
    PROVE  UnansweredSpec => NeverWithdrawn
<1>1. Init => UnansweredInv
  BY UnansweredInit
<1>2. UnansweredInv /\ [Next \/ FaultNext \/ CheckpointUnanswered]_vars
        => UnansweredInv'
  BY UnansweredStep
<1>3. UnansweredInv /\ [Next \/ FaultNext \/ CheckpointUnanswered]_vars
        => [\A l \in Covered : TrueRow(l) \in rows => TrueRow(l) \in rows']_vars
  BY StepKeepsCovered DEF UnansweredInv
<1> QED
  BY <1>1, <1>2, <1>3, PTL DEF UnansweredSpec, NeverWithdrawn

\* No step moves a canonical checkpoint back.
LEMMA StepAdvances ==
    ASSUME UnansweredInv, [Next \/ FaultNext \/ CheckpointUnanswered]_vars, Trusted
    PROVE  state'.block >= state.block
<1>0. /\ PositionOK /\ PhaseOK /\ state.block \in Nat /\ to \in Nat
  BY DEF UnansweredInv, IInv, TypeOK
<1>1. CASE Checkpoint \/ CheckpointUnanswered
  <2>1. InBatch /\ state'.block = to
    BY <1>1 DEF Checkpoint, CheckpointUnanswered, SaveState, UpsertIndexerState,
                InBatch
  <2> QED
    BY <1>0, <2>1 DEF PositionOK, Trusted
<1>2. CASE SaveRewound
  BY <1>0, <1>2 DEF SaveRewound, PhaseOK, Trusted
<1>3. CASE UNCHANGED state
  BY <1>0, <1>3
<1>4. CASE InitNext \/ NoReorg \/ RollBack \/ NothingToDo \/ HeadBlock
           \/ FetchLogs \/ Reject \/ PollFails \/ Crash
  BY <1>3, <1>4 DEF InitNext, NoReorg, RollBack, NothingToDo, HeadBlock, FetchLogs,
     Reject, PollFails, Crash, storeVars
<1>5. CASE RecordWebhook \/ EnqueueWebhook \/ MarkWebhook \/ WebhookStepFails
  BY <1>3, <1>5 DEF RecordWebhook, EnqueueWebhook, MarkWebhook, WebhookStepFails,
     storeVars
<1>6. ASSUME NEW b, ProcessLog \/ PublishCertificate(b) PROVE UNCHANGED state
  BY <1>6 DEF ProcessLog, StoreCertificate, PublishCertificate, storeVars
<1>7. CASE MineStep \/ ReorgBetweenPolls \/ UNCHANGED vars
  BY <1>3, <1>7 DEF MineStep, ReorgBetweenPolls, ReorgStep, vars, storeVars
<1> QED
  BY <1>1, <1>2, <1>3, <1>4, <1>5, <1>6, <1>7 DEF Next, WorkerNext, FaultNext

\* A canonical checkpoint never moves back, whatever calls fail, whichever
\* answers to a batch's checkpoint are lost and wherever the process stops.
THEOREM ProgressIsKept ==
    ASSUME FinalityWithinWindow, FitsWord
    PROVE  UnansweredSpec => NeverRecedes
<1>1. Init => UnansweredInv
  BY UnansweredInit
<1>2. UnansweredInv /\ [Next \/ FaultNext \/ CheckpointUnanswered]_vars
        => UnansweredInv'
  BY UnansweredStep
<1>3. UnansweredInv /\ [Next \/ FaultNext \/ CheckpointUnanswered]_vars
        => [Trusted => state'.block >= state.block]_vars
  BY StepAdvances
<1> QED
  BY <1>1, <1>2, <1>3, PTL DEF UnansweredSpec, NeverRecedes

-----------------------------------------------------------------------------
\* Announcing.

\* Every log of the batch is still to be processed or was published in this
\* poll; between Upsert and Publish the row of the current log's token is the
\* certificate that the chain has.
FeedOK ==
    pc \in {"log", "publish", "outbox", "enqueue", "mark"} =>
        /\ \A i \in next..to : \A l \in chain[i].logs :
            l \in todo \/ TrueRow(l) \in feed
        /\ \A l \in todo : Current(l) =>
            /\ pc = "publish" => \A r \in rows : r.token = l.token => r = TrueRow(l)
            /\ pc \in {"outbox", "enqueue", "mark"} => TrueRow(l) \in feed

\* A batch begins with all its logs to be processed.
LEMMA FetchLogsFeed ==
    ASSUME IInv, FetchLogs
    PROVE  FeedOK'
<1> USE DEF IInv
<1>1. /\ todo' = IssuedLogs(next, to) /\ pc' = "log"
      /\ UNCHANGED <<chain, next, to>>
  BY DEF FetchLogs, chainVars
<1>2. \A i \in next..to : i \in 0..head
  BY DEF FetchLogs, PhaseOK, TypeOK
<1>3. \A i \in next..to : \A l \in chain[i].logs : l \in todo'
  BY <1>1, <1>2 DEF IssuedLogs
<1> QED
  BY <1>1, <1>3 DEF FeedOK

\* Upsert leaves one row of the token, the one the chain has.
LEMMA ProcessLogFeed ==
    ASSUME IInv, FeedOK, ProcessLog
    PROVE  FeedOK'
<1> USE DEF IInv
<1>1. PICK l \in todo, d \in Txs :
        /\ pc = "log" /\ Current(l) /\ Certificate(l.token, d)
        /\ StoreCertificate(l, d)
  BY DEF ProcessLog
<1>2. l.block \in 0..head /\ l \in chain[l.block].logs
  BY <1>1, TodoOnChain
<1>3. PICK j \in 0..head : \E m \in chain[j].logs : m.token = l.token /\ m.tx = d
  BY <1>1 DEF Certificate, AllLogs
<1>4. d = l.tx
  BY <1>2, <1>3, TokensUnique
<1>5. /\ UNCHANGED <<chain, next, to, todo, feed>>
      /\ rows' = {q \in rows : q.token # l.token} \cup {TrueRow(l)}
      /\ pc' = "publish"
  BY <1>1, <1>4 DEF StoreCertificate, chainVars, Upsert, UpsertCertificate, TrueRow, Row
<1>6. \A m \in todo : Current(m) => m = l
  BY <1>1, CurrentUnique
<1>7. \A m : Current(m)' = Current(m)
  BY <1>5 DEF Current
<1> QED
  BY <1>1, <1>5, <1>6, <1>7 DEF FeedOK

\* What is published is the current certificate as the chain has it.
LEMMA PublishCertificateFeed ==
    ASSUME IInv, FeedOK, NEW b, PublishCertificate(b)
    PROVE  FeedOK'
<1>1. PICK l \in todo, r \in rows :
        /\ pc = "publish" /\ Current(l) /\ r.token = l.token
        /\ feed' = feed \cup {r} /\ pc' = "outbox"
        /\ UNCHANGED <<chain, next, to, todo>>
  BY DEF PublishCertificate, chainVars
<1>2. r = TrueRow(l)
  BY <1>1 DEF FeedOK
<1>3. \A m \in todo : Current(m) => m = l
  BY <1>1, CurrentUnique
<1>4. \A m : Current(m)' = Current(m)
  BY <1>1 DEF Current
<1> QED
  BY <1>1, <1>2, <1>3, <1>4 DEF FeedOK

\* A log leaves the batch only after it was published.
LEMMA WebhookFeed ==
    ASSUME IInv, FeedOK,
           RecordWebhook \/ EnqueueWebhook \/ MarkWebhook \/ WebhookStepFails
    PROVE  FeedOK'
<1>1. PICK l \in todo :
        /\ pc \in {"outbox", "enqueue", "mark"} /\ Current(l)
        /\ \/ pc' \in {"enqueue", "mark"} /\ todo' = todo
           \/ pc' = "log" /\ todo' = todo \ {l}
        /\ UNCHANGED <<chain, rows, feed, next, to>>
  BY DEF RecordWebhook, EnqueueWebhook, MarkWebhook, WebhookStepFails, Done, chainVars,
         storeVars
<1>2. TrueRow(l) \in feed
  BY <1>1 DEF FeedOK
<1>3. CASE todo' = todo /\ pc' \in {"enqueue", "mark"}
  <2>1. \A m : Current(m)' = Current(m)
    BY <1>3 DEF Current
  <2> QED
    BY <1>1, <1>3, <2>1 DEF FeedOK
<1>4. CASE todo' = todo \ {l} /\ pc' = "log"
  BY <1>1, <1>2, <1>4 DEF FeedOK
<1> QED
  BY <1>1, <1>3, <1>4

\* Every step keeps account of what was published.
LEMMA StepFeed ==
    ASSUME IInv, FeedOK, [Next \/ FaultNext \/ CheckpointUnanswered]_vars
    PROVE  FeedOK'
<1>1. CASE InitNext \/ NoReorg \/ RollBack \/ SaveRewound \/ NothingToDo \/ HeadBlock
  BY <1>1 DEF InitNext, NoReorg, RollBack, SaveRewound, NothingToDo, HeadBlock,
     Return, FeedOK
<1>2. CASE Reject \/ Checkpoint \/ CheckpointUnanswered \/ PollFails \/ Crash
  BY <1>2 DEF Reject, Checkpoint, CheckpointUnanswered, PollFails, Crash, Return, FeedOK
<1>3. CASE MineStep
  <2>1. /\ UNCHANGED <<rows, feed, pc, next, to, todo>>
        /\ \A n \in 0..head : chain'[n] = chain[n]
    BY <1>3, MineFrame DEF MineStep, storeVars, workerVars, IInv
  <2>2. pc \in {"log", "publish", "outbox", "enqueue", "mark"} =>
            \A i \in next..to : chain'[i] = chain[i]
    BY <2>1 DEF IInv, PhaseOK, TypeOK
  <2>3. \A m : Current(m)' = Current(m)
    BY <2>1 DEF Current
  <2> QED
    BY <2>1, <2>2, <2>3 DEF FeedOK
<1>4. CASE ReorgBetweenPolls
  BY <1>4 DEF ReorgBetweenPolls, ReorgStep, workerVars, FeedOK
<1>5. CASE UNCHANGED vars
  <2>1. UNCHANGED <<chain, rows, feed, pc, next, to, todo>>
    BY <1>5 DEF vars, chainVars, storeVars, workerVars
  <2>2. \A m : Current(m)' = Current(m)
    BY <2>1 DEF Current
  <2> QED
    BY <2>1, <2>2 DEF FeedOK
<1> QED
  BY <1>1, <1>2, <1>3, <1>4, <1>5, FetchLogsFeed, ProcessLogFeed,
     PublishCertificateFeed, WebhookFeed
  DEF Next, WorkerNext, FaultNext

\* A step that advances the checkpoint ends a batch whose certificates were
\* published.
LEMMA StepAnnounces ==
    ASSUME IInv, FeedOK, [Next \/ FaultNext \/ CheckpointUnanswered]_vars,
           state'.block > state.block,
           NEW l \in Canonical(state'.block), l.block > state.block
    PROVE  TrueRow(l) \in feed
<1> USE DEF IInv
<1>0. /\ state.block \in Nat /\ to \in Nat /\ next \in Nat /\ head \in Nat
      /\ StartBlock \in Nat
  BY WorkerAssumption DEF TypeOK
<1>1. CASE Checkpoint \/ CheckpointUnanswered
  <2>1. state'.block = to /\ pc = "log" /\ todo = {} /\ to <= head
    BY <1>1 DEF Checkpoint, CheckpointUnanswered, SaveState, UpsertIndexerState
  <2>2. PICK i \in StartBlock..to : i <= head /\ l \in chain[i].logs
    BY <2>1 DEF Canonical, IssuedLogs
  <2>3. l.block = i
    BY <1>0, <2>2 DEF ChainOK
  <2>4. next <= StartBlock \/ next <= state.block + 1
    BY <2>1 DEF NextOK
  <2>5. i \in next..to
    BY <1>0, <2>2, <2>3, <2>4
  <2> QED
    BY <2>1, <2>2, <2>5 DEF FeedOK
<1>2. CASE SaveRewound
  <2>1. state'.block = to /\ to <= state.block
    BY <1>2 DEF SaveRewound, SaveState, UpsertIndexerState, PhaseOK
  <2> QED
    BY <1>0, <2>1
<1>3. CASE UNCHANGED state
  BY <1>0, <1>3
<1>4. CASE InitNext \/ NoReorg \/ RollBack \/ NothingToDo \/ HeadBlock
           \/ FetchLogs \/ Reject \/ PollFails \/ Crash
  BY <1>3, <1>4 DEF InitNext, NoReorg, RollBack, NothingToDo, HeadBlock, FetchLogs,
     Reject, PollFails, Crash, storeVars
<1>5. CASE RecordWebhook \/ EnqueueWebhook \/ MarkWebhook \/ WebhookStepFails
  BY <1>3, <1>5 DEF RecordWebhook, EnqueueWebhook, MarkWebhook, WebhookStepFails,
     storeVars
<1>6. ASSUME NEW b, ProcessLog \/ PublishCertificate(b) PROVE UNCHANGED state
  BY <1>6 DEF ProcessLog, StoreCertificate, PublishCertificate, storeVars
<1>7. CASE MineStep \/ ReorgBetweenPolls \/ UNCHANGED vars
  BY <1>3, <1>7 DEF MineStep, ReorgBetweenPolls, ReorgStep, vars, storeVars
<1> QED
  BY <1>1, <1>2, <1>3, <1>4, <1>5, <1>6, <1>7 DEF Next, WorkerNext, FaultNext

\* The checkpoint never passes a certificate that this process has not
\* published as the chain has it, whatever calls fail, whichever answers to
\* an Upsert or a batch's checkpoint are lost and wherever an earlier process
\* stopped.
THEOREM NothingUnannounced ==
    ASSUME FinalityWithinWindow, FitsWord
    PROVE  UnansweredSpec => AnnouncedFirst
<1>1. Init => UnansweredInv /\ FeedOK
  BY UnansweredInit DEF Init, FeedOK
<1>2. UnansweredInv /\ FeedOK /\ [Next \/ FaultNext \/ CheckpointUnanswered]_vars
        => (UnansweredInv /\ FeedOK)'
  BY UnansweredStep, StepFeed DEF UnansweredInv
<1>3. UnansweredInv /\ FeedOK /\ [Next \/ FaultNext \/ CheckpointUnanswered]_vars
        => [state'.block > state.block =>
                \A l \in Canonical(state'.block) :
                    l.block > state.block => TrueRow(l) \in feed]_vars
  BY StepAnnounces DEF UnansweredInv
<1> QED
  BY <1>1, <1>2, <1>3, PTL DEF UnansweredSpec, AnnouncedFirst
=============================================================================
