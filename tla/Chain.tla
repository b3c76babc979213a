------------------------------- MODULE Chain -------------------------------
(***************************************************************************)
(* The blockchain as the indexer sees it through usecase.EventSource: a    *)
(* chain of blocks that grows, is cut back by a reorganisation and grows   *)
(* again on another branch.  The node is not part of the repository; it is *)
(* modelled from the four calls the indexer makes (HeadBlock, BlockHash,   *)
(* IssuedLogs, GetCertificate in adapter/chain/eventsource.go) and from    *)
(* the contract that assigns the token ids.                                *)
(*                                                                         *)
(* A block hash commits to the block and to all its ancestors, so it is    *)
(* modelled by that prefix of the chain: two hashes are equal iff the      *)
(* prefixes are.                                                           *)
(***************************************************************************)
EXTENDS Integers

CONSTANTS
    Txs,          \* issueCertificate transactions that may be mined
    MaxHead,      \* bound: highest block number
    MaxPerBlock,  \* bound: certificates issued in one block
    MaxReorgs,    \* bound: number of reorganisations
    ReorgDepth,   \* finality: a block this deep is never replaced
    Anchor        \* blocks up to this one are never replaced

ASSUME ChainAssumption ==
    /\ MaxHead \in Nat
    /\ MaxPerBlock \in Nat
    /\ MaxReorgs \in Nat
    /\ ReorgDepth \in Nat
    /\ Anchor \in Nat

VARIABLES
    chain,   \* block number -> block, for the numbers 0..head
    head,    \* number of the latest block
    final,   \* blocks up to this number can no longer be replaced
    forks    \* reorganisations so far; marks the blocks of a branch

chainVars == <<chain, head, final, forks>>

\* A CertificateIssued log: the token id the contract assigned, the
\* transaction, the position in the block and the block's number.
Logs == [token : Nat, tx : Txs, index : Nat, block : Nat]

\* "supply" is the contract's storage after the block: tokens issued so far.
Blocks == [fork : Nat, logs : SUBSET Logs, supply : Nat]

Genesis == [fork |-> 0, logs |-> {}, supply |-> 0]

ChainInit ==
    /\ chain = [n \in 0..0 |-> Genesis]
    /\ head = 0
    /\ final = Anchor
    /\ forks = 0

-----------------------------------------------------------------------------
\* What the node answers.

\* eth_getBlockByNumber; defined for n <= head, "not found" above.
BlockHash(n) == [i \in 0..n |-> chain[i]]

\* eth_getLogs over a block range; blocks above the head have none.
IssuedLogs(from, upto) ==
    UNION {chain[n].logs : n \in {i \in from..upto : i <= head}}

\* What getCertificate can return at the head, for one token or another.
AllLogs == UNION {chain[n].logs : n \in 0..head}

-----------------------------------------------------------------------------
\* How the chain moves.

\* k transactions may be mined in the next block: no transaction is mined
\* twice on one branch.
Minable(k, txs) ==
    /\ \A i, j \in 1..k : txs[i] = txs[j] => i = j
    /\ \A i \in 1..k : \A l \in AllLogs : l.tx # txs[i]

\* The block that issues their certificates on top of the head; the contract
\* numbers them from its counter on (tokenId = _nextTokenId++).
NewBlock(k, txs, fork) ==
    [fork   |-> fork,
     logs   |-> {[token |-> chain[head].supply + i, tx |-> txs[i],
                  index |-> i, block |-> head + 1] : i \in 1..k},
     supply |-> chain[head].supply + k]

Extend(b) ==
    /\ head < MaxHead
    /\ chain' = [n \in 0..(head + 1) |-> IF n <= head THEN chain[n] ELSE b]
    /\ head' = head + 1
    /\ final' = IF head + 1 - ReorgDepth > final
                THEN head + 1 - ReorgDepth ELSE final
    /\ UNCHANGED forks

\* The current branch grows by a block no branch had before.
Mine ==
    \E k \in 0..MaxPerBlock : \E txs \in [1..k -> Txs] :
        Minable(k, txs) /\ Extend(NewBlock(k, txs, forks))

\* The node abandons the blocks above h; the new branch is then mined on h.
Reorg ==
    \E h \in final..MaxHead :
        /\ forks < MaxReorgs
        /\ h < head
        /\ chain' = [n \in 0..h |-> chain[n]]
        /\ head' = h
        /\ forks' = forks + 1
        /\ UNCHANGED final
=============================================================================
