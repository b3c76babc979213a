----------------------------- MODULE ReadModel -----------------------------
(***************************************************************************)
(* The indexer's Postgres tables (adapter/postgres/certificate_repo.go,    *)
(* internal/db/queries.sql and the migrations) and the operations on them. *)
(* Every operation is one SQL statement, hence atomic.  There is one chain *)
(* id per deployment, so the chain_id column is left out.                  *)
(***************************************************************************)
EXTENDS Chain

VARIABLES
    rows,      \* certificates: set of rows, at most one per token
    state,     \* indexer_state: the checkpoint (a singleton row)
    outbox,    \* webhook_outbox: keys (tx, token) recorded so far
    enqueued   \* the outbox keys with enqueued_at set

storeVars == <<rows, state, outbox, enqueued>>

\* A certificate row: the log's provenance columns, and "data" for the
\* columns read from the contract, named by the transaction they come from.
Rows == [token : Nat, tx : Txs, index : Nat, block : Nat, data : Txs]

Row(l, d) == [token |-> l.token, tx |-> l.tx, index |-> l.index,
              block |-> l.block, data |-> d]

\* The row that describes a certificate as the chain has it.
TrueRow(l) == Row(l, l.tx)

OutboxKeys == [tx : Txs, token : Nat]

OutboxKey(l) == [tx |-> l.tx, token |-> l.token]

\* last_processed_hash = '': nothing indexed yet.
NoHash == [i \in {} |-> Genesis]

IsHash(h) == h = NoHash \/ \E n \in 0..MaxHead : h \in [0..n -> Blocks]

StoreInit ==
    /\ rows = {}
    /\ state = [block |-> 0, hash |-> NoHash]
    /\ outbox = {}
    /\ enqueued = {}

-----------------------------------------------------------------------------
\* UNIQUE (chain_id, tx_hash, log_index): the insert fails when another
\* token's row already holds the log's position.  ON CONFLICT (token_id)
\* resolves only conflicts on the token.
UniqueViolation(l) ==
    \E r \in rows : r.token # l.token /\ r.tx = l.tx /\ r.index = l.index

\* INSERT ... ON CONFLICT (token_id) DO UPDATE.
UpsertCertificate(r) == rows' = {q \in rows : q.token # r.token} \cup {r}

Upsert(r) == UpsertCertificate(r)

\* Mutant: the bound is exclusive.
DeleteAboveBlock(n) == rows' = {r \in rows : r.block <= n}

\* DELETE ... WHERE block_number >= n.
DeleteCertificatesFromBlock(n) == rows' = {r \in rows : r.block < n}

DeleteFromBlock(n) == DeleteCertificatesFromBlock(n)

\* INSERT ... ON CONFLICT (id) DO UPDATE of the singleton row.
UpsertIndexerState(s) == state' = s

SaveState(n, h) == UpsertIndexerState([block |-> n, hash |-> h])

\* INSERT ... ON CONFLICT (chain_id, tx_hash, token_id) DO NOTHING.
InsertWebhookOutbox(key) == outbox' = outbox \cup {key}

\* What the repository returns of it: no row came back (pgx.ErrNoRows) when
\* the event had been recorded before.
IsNew(key) == key \notin outbox

MarkWebhookOutboxEnqueued(key) == enqueued' = enqueued \cup {key}
=============================================================================
