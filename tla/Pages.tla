------------------------------- MODULE Pages --------------------------------
(***************************************************************************)
(* Reading the certificates while the worker changes them: the gateway's   *)
(* GET /certificates and GET /certificates/{tokenId} (httpapi), the gRPC   *)
(* calls behind them (adapter/grpc), the repository's List and             *)
(* GetByTokenID with their SQL, and GetIndexerStatus.  A client follows    *)
(* next_cursor from the first page to the last, then looks up what it was  *)
(* shown; a monitor asks for the indexer's status.                         *)
(*                                                                         *)
(* Every block carries one certificate, so a token's number is its block's *)
(* number.  A SQL statement reads one state of the table; its result is a  *)
(* set, as the token orders it.                                            *)
(***************************************************************************)
EXTENDS Integers, FiniteSets, FiniteSetsExt

CONSTANTS
    Owners,         \* addresses that own certificates
    Kinds,          \* what a certificate can be: [owner, hit]; hit: its text
                    \* contains what the client searches for
    Requests,       \* list requests: [owner, search, size], see below
    DefaultLimit,   \* defaultLimit and defaultPageSize (20)
    MaxLimit,       \* maxLimit (100) of the repository
    MaxPageSize,    \* maxPageSize (200) of the gateway
    SaneLag,        \* indexLagSaneLimit (500)
    NaN,            \* a page_size that is absent or does not parse
    MaxToken        \* bound: blocks, and with them certificates

\* The query parameters of a list request: an owner, an empty owner or
\* something that is not an address; whether there is a text to search for;
\* the page size.
NoOwner == "no owner"
BadOwner == "not an address"

ASSUME PagesAssumption ==
    /\ Kinds \subseteq [owner : Owners, hit : BOOLEAN]
    /\ \A n \in {DefaultLimit, MaxLimit, MaxPageSize} : n \in Nat \ {0}
    /\ SaneLag \in Nat /\ MaxToken \in Nat /\ NaN \notin Int
    /\ NoOwner \notin Owners /\ BadOwner \notin Owners
    /\ \A r \in Requests : /\ r.owner \in Owners \cup {NoOwner, BadOwner}
                           /\ r.search \in BOOLEAN
                           /\ r.size = NaN \/ r.size \in Int

VARIABLES
    rows,      \* certificates: set of [token, owner, hit]
    last,      \* indexer_state.last_processed_block
    head,      \* the chain's head
    rewind,    \* the checkpoint a rollback is about to save; -1: none
    req,       \* the list request the client makes
    phase,     \* the client: "idle", "paging", "done"
    cursor,    \* next_cursor of the last answer; 0: none
    page,      \* tokens of the last page
    shown,     \* tokens of the pages before it
    missing,   \* tokens whose lookup answered 404
    steady,    \* tokens that match and are in the table since the first page
    call       \* GetIndexerStatus: [at, last, rolled]

tableVars == <<rows, last, head, rewind>>
clientVars == <<req, phase, cursor, page, shown, missing>>
vars == <<tableVars, clientVars, steady, call>>

Tokens == 1..MaxToken

NoCall == [at |-> "idle", last |-> 0, rolled |-> FALSE]

Init ==
    /\ rows = {} /\ last = 0 /\ head = 0 /\ rewind = -1
    /\ req \in Requests
    /\ phase = "idle" /\ cursor = 0 /\ page = {} /\ shown = {}
    /\ missing = {} /\ steady = {}
    /\ call = NoCall

-----------------------------------------------------------------------------
\* The worker and the chain, as the readers see them.

Row(t, k) == [token |-> t, owner |-> k.owner, hit |-> k.hit]

\* The certificates change; steady keeps those that stayed the same.
SetRows(new) ==
    /\ rows' = new
    /\ steady' = {t \in steady : \E r \in rows \cap new : r.token = t}

\* processLog: the batch after the checkpoint is stored in the order of its
\* tokens, again when an earlier poll failed.
Index(t, k) ==
    /\ rewind = -1
    /\ t \in (last + 1)..head
    /\ \A u \in (last + 1)..(t - 1) : \E r \in rows : r.token = u
    /\ SetRows({r \in rows : r.token # t} \cup {Row(t, k)})
    /\ UNCHANGED <<last, head, rewind, clientVars, call>>

Checkpoint(t) ==
    /\ rewind = -1
    /\ t \in (last + 1)..head
    /\ \A u \in (last + 1)..t : \E r \in rows : r.token = u
    /\ last' = t
    /\ UNCHANGED <<rows, head, rewind, clientVars, steady, call>>

\* reconcile: rows above the rewound point are deleted, then the checkpoint
\* is saved.
RollBack(n) ==
    /\ rewind = -1 /\ last <= head /\ n \in 0..(last - 1)
    /\ SetRows({r \in rows : r.token <= n})
    /\ rewind' = n
    /\ UNCHANGED <<last, head, clientVars, call>>

\* Mutant: the checkpoint is saved one block too low.
SaveRewoundLow ==
    /\ rewind # -1
    /\ last' = rewind - 1 /\ rewind' = -1
    /\ call' = [call EXCEPT !.rolled = (call.at # "idle")]
    /\ UNCHANGED <<rows, head, clientVars, steady>>

SaveRewound ==
    /\ rewind # -1
    /\ last' = rewind /\ rewind' = -1
    /\ call' = [call EXCEPT !.rolled = (call.at # "idle")]
    /\ UNCHANGED <<rows, head, clientVars, steady>>

\* The chain grows, or the node is reset to a shorter one.
HeadMoves(n) ==
    /\ n \in 0..MaxToken /\ n <= head + 1 /\ n # head
    /\ head' = n
    /\ UNCHANGED <<rows, last, rewind, clientVars, steady, call>>

-----------------------------------------------------------------------------
\* ListCertificates.

\* ORDER BY token_id DESC LIMIT n.
Top(n, s) == {r \in s : Cardinality({q \in s : q.token > r.token}) < n}

\* Mutant: the cursor is inclusive.
AfterInclusive(c) == {r \in rows : c = 0 \/ r.token <= c}

\* $cursor IS NULL OR token_id < $cursor.
After(c) == {r \in rows : c = 0 \/ r.token < c}

ListCertificates(c, n) == Top(n, After(c))

ListCertificatesByOwner(o, c, n) == Top(n, {r \in After(c) : r.owner = o})

SearchCertificates(c, n) == Top(n, {r \in After(c) : r.hit})

SearchCertificatesByOwner(o, c, n) ==
    Top(n, {r \in After(c) : r.owner = o /\ r.hit})

Dispatch(o, search, c, n) ==
    IF o = NoOwner
    THEN IF search THEN SearchCertificates(c, n) ELSE ListCertificates(c, n)
    ELSE IF search THEN SearchCertificatesByOwner(o, c, n)
         ELSE ListCertificatesByOwner(o, c, n)

ParsePageSize(raw) ==
    IF raw = NaN THEN DefaultLimit
    ELSE IF raw <= 0 THEN DefaultLimit
    ELSE IF raw > MaxPageSize THEN MaxPageSize ELSE raw

ResolveLimit(n) ==
    IF n <= 0 THEN DefaultLimit ELSE IF n > MaxLimit THEN MaxLimit ELSE n

\* Mutant: the cursor is the first row of the next page.
BuildPageNext(found, n) ==
    LET items == Top(n, found)
        more == Cardinality(found) > n
    IN  [items |-> items, more |-> more,
         next |-> IF more THEN Min({r.token : r \in found}) ELSE 0]

\* One row more than a page was asked for; it tells whether there is more.
BuildPage(found, n) ==
    LET items == Top(n, found)
        more == Cardinality(found) > n
    IN  [items |-> items, more |-> more,
         next |-> IF more /\ items # {} THEN Min({r.token : r \in items})
                  ELSE 0]

EmptyPage == [items |-> {}, more |-> FALSE, next |-> 0]

\* domain.NewAddress accepts it.
IsAddress(raw) == raw \in Owners

\* normalizeOwner returns an error.
BadFilter(raw) == raw # NoOwner /\ ~ IsAddress(raw)

\* Repository List: a filter that is no address yields an empty page.
List(o, search, c, size) ==
    LET n == ResolveLimit(size)
    IN  IF BadFilter(o) THEN EmptyPage
        ELSE BuildPage(Dispatch(o, search, c, n + 1), n)

\* The answer to GET /certificates with this cursor.
Answer(c) == List(req.owner, req.search, c, ParsePageSize(req.size))

Tokened(items) == {r.token : r \in items}

Follow(answer) ==
    /\ page' = Tokened(answer.items)
    /\ cursor' = answer.next
    /\ phase' = IF answer.more THEN "paging" ELSE "done"

\* The certificates the request asks for.
Matches(r) ==
    /\ req.owner = NoOwner \/ r.owner = req.owner
    /\ req.search => r.hit

FirstPage ==
    /\ phase = "idle"
    /\ Follow(Answer(0))
    /\ steady' = Tokened({r \in rows : Matches(r)})
    /\ UNCHANGED <<tableVars, req, shown, missing, call>>

NextPage ==
    /\ phase = "paging"
    /\ Follow(Answer(cursor))
    /\ shown' = shown \cup page
    /\ UNCHANGED <<tableVars, req, missing, steady, call>>

-----------------------------------------------------------------------------
\* GetCertificate.

GetCertificateByTokenID(t) == {r \in rows : r.token = t}

\* Mutant: only certificates below the checkpoint are served.
GetByTokenIDChecked(t) ==
    IF \E r \in GetCertificateByTokenID(t) : r.token <= last
    THEN "found" ELSE "ErrNotFound"

\* pgx.ErrNoRows becomes domain.ErrNotFound.
GetByTokenID(t) ==
    IF GetCertificateByTokenID(t) = {} THEN "ErrNotFound" ELSE "found"

\* The gRPC code the indexer answers with.
GetCertificate(t) ==
    IF GetByTokenID(t) = "ErrNotFound" THEN "NotFound" ELSE "OK"

\* grpcCodeToHTTPStatus, and 200 for an answer.
HTTPStatus(code) ==
    CASE code = "OK" -> 200
      [] code = "NotFound" -> 404
      [] code = "InvalidArgument" -> 400
      [] code \in {"Unavailable", "DeadlineExceeded"} -> 503
      [] OTHER -> 500

Found(t) == HTTPStatus(GetCertificate(t)) = 200

\* GET /certificates/{tokenId}/metadata answers with the same certificate.
GetCertificateMetadata(t) == HTTPStatus(GetCertificate(t)) = 200

\* The client opens a certificate it was shown, or a wallet its metadata.
Lookup(t) ==
    /\ phase = "done"
    /\ t \in shown \cup page
    /\ \E found \in {Found(t), GetCertificateMetadata(t)} :
        missing' = IF found THEN missing ELSE missing \cup {t}
    /\ UNCHANGED <<tableVars, req, phase, cursor, page, shown, steady, call>>

-----------------------------------------------------------------------------
\* GetIndexerStatus: the checkpoint, the count and the head are read one
\* after the other.

\* Mutant: the comparison is the wrong way round.
ComputeStatusSwapped(lastProcessed, top, reachable) ==
    LET lag == IF lastProcessed > top THEN lastProcessed - top ELSE 0
    IN  IF reachable THEN [lag |-> lag, healthy |-> lag < SaneLag]
        ELSE [lag |-> 0, healthy |-> FALSE]

ComputeStatus(lastProcessed, top, reachable) ==
    LET lag == IF lastProcessed > top THEN 0 ELSE top - lastProcessed
    IN  IF reachable THEN [lag |-> lag, healthy |-> lag < SaneLag]
        ELSE [lag |-> 0, healthy |-> FALSE]

StatusReadsState ==
    /\ call.at = "idle"
    /\ call' = [at |-> "head", last |-> last, rolled |-> rewind # -1]
    /\ UNCHANGED <<tableVars, clientVars, steady>>

\* The head is read, or the chain cannot be reached, and the call answers.
StatusAnswers ==
    /\ call.at = "head"
    /\ call' = NoCall
    /\ UNCHANGED <<tableVars, clientVars, steady>>

-----------------------------------------------------------------------------
Next ==
    \/ \E t \in Tokens : \/ \E k \in Kinds : Index(t, k)
                         \/ Checkpoint(t) \/ Lookup(t)
    \/ \E n \in 0..MaxToken : RollBack(n) \/ HeadMoves(n)
    \/ SaveRewound
    \/ FirstPage \/ NextPage
    \/ StatusReadsState \/ StatusAnswers

\* A client that has begun goes on.
Spec == Init /\ [][Next]_vars /\ WF_vars(NextPage)

-----------------------------------------------------------------------------
\* Properties.

\* Types of the variables, in every reachable state.
TypeOK ==
    /\ rows \subseteq [token : Tokens, owner : Owners, hit : BOOLEAN]
    /\ last \in 0..MaxToken /\ head \in 0..MaxToken
    /\ rewind \in -1..MaxToken
    /\ req \in Requests
    /\ phase \in {"idle", "paging", "done"}
    /\ cursor \in 0..MaxToken
    /\ page \subseteq Tokens /\ shown \subseteq Tokens
    /\ missing \subseteq Tokens /\ steady \subseteq Tokens
    /\ call \in [at : {"idle", "head"}, last : 0..MaxToken, rolled : BOOLEAN]

\* No certificate is shown twice and the order holds across pages, whatever
\* the worker inserts, rewrites or deletes between two requests: a page lies
\* below all the pages before it.
Descending == \A t \in page, u \in shown : t < u

\* No certificate is skipped at a page boundary: one that matches and stays
\* in the table from the first page on has been shown once the cursor has
\* passed it (buildPage drops the extra row and continues from the last one
\* it shows).
NoneSkipped ==
    \A t \in steady :
        (phase = "done" \/ (phase = "paging" /\ t >= cursor))
            => t \in shown \cup page

\* What the list shows can be opened: a lookup answers 404 only for a
\* certificate that was deleted or replaced after the first page.
Openable == missing \cap steady = {}

\* The client reaches the last page, however fast certificates are issued:
\* new tokens are above the cursor, so the rest only shrinks.
ReachesTheEnd == (phase = "paging") ~> (phase = "done")

\* The status never flatters: unless a rollback comes between, the lag it
\* reports is at least the lag at the moment it answers, although checkpoint
\* and head are read at different times, and it is never more than the chain
\* is long (computeStatus guards the subtraction of two uint64).
Lag == IF last > head THEN 0 ELSE head - last

StatusHonest ==
    (call.at = "head" /\ ~ call.rolled) =>
        \A reachable \in BOOLEAN :
            LET answer == ComputeStatus(call.last, head, reachable)
            IN  /\ reachable => Lag <= answer.lag /\ answer.lag <= head
                /\ answer.healthy => Lag < SaneLag
=============================================================================
