---------------------------- MODULE PagesProofs -----------------------------
(***************************************************************************)
(* What following next_cursor shows a client while the worker changes the  *)
(* table, for every page size, limit, filter and number of certificates.   *)
(***************************************************************************)
EXTENDS Pages, FiniteSetTheorems, TLAPS

\* The table is finite and a token is its key.
TableOK ==
    /\ IsFiniteSet(rows)
    /\ \A q, r \in rows : q.token = r.token => q = r

\* A token is steady because of the row that is in the table.
SteadyOK == \A t \in steady : \E r \in rows : r.token = t /\ Matches(r)

\* Where a client that goes on will go on: below all it was shown.
CursorOK ==
    /\ phase = "idle" => shown = {} /\ page = {} /\ steady = {} /\ missing = {}
    /\ phase = "paging" => cursor # 0 /\ \A t \in shown \cup page : cursor <= t

\* The checkpoint only grows while a status call is under way, unless it is
\* rolled back.
CallOK == (call.at = "head" /\ ~ call.rolled) => call.last <= last

\* The inductive invariant.
PagesInv ==
    /\ TypeOK /\ TableOK /\ SteadyOK /\ CursorOK /\ CallOK
    /\ Descending /\ NoneSkipped /\ Openable

-----------------------------------------------------------------------------
\* Sets of numbers.

\* A set of naturals that is not empty has a smallest element, and Min is it.
LEMMA MinIsLeast ==
    ASSUME NEW S \in SUBSET Nat, S # {}
    PROVE  Min(S) \in S /\ \A y \in S : Min(S) <= y
<1> DEFINE R == {ss \in Nat \X Nat : ss[1] < ss[2]}
<1>0. IsWellFoundedOn(R, Nat)
  <2>1. OpToRel(<, Nat) = R
    BY Zenon DEF OpToRel
  <2> QED
    BY <2>1, NatLessThanWellFounded, Zenon
<1>1. PICK x \in S : \A y \in S : ~ (<<y, x>> \in R)
  <2> HIDE DEF R
  <2> QED
    BY <1>0, WFMin, Zenon
<1>2. ASSUME NEW y \in S, y < x
      PROVE  FALSE
  <2>1. <<y, x>> \in R
    BY <1>2
  <2> QED
    BY <1>1, <2>1, Zenon
<1>3. \A y \in S : x <= y
  BY <1>2
<1> QED
  BY <1>3 DEF Min

\* A bounded set of naturals that is not empty has a largest element.
LEMMA LargestExists ==
    ASSUME NEW n \in Nat, NEW S \in SUBSET (0..n), S # {}
    PROVE  \E x \in S : \A y \in S : y <= x
<1> DEFINE D == {n - y : y \in S}
<1>1. D \in SUBSET Nat /\ D # {}
  <2>1. \A y \in S : n - y \in Nat
    OBVIOUS
  <2>2. PICK y \in S : TRUE
    OBVIOUS
  <2>3. n - y \in D
    OBVIOUS
  <2> QED
    BY <2>1, <2>3
<1>2. Min(D) \in D /\ \A d \in D : Min(D) <= d
  BY <1>1, MinIsLeast
<1>3. PICK x \in S : Min(D) = n - x
  BY <1>2
<1>4. \A y \in S : n - x <= n - y
  BY <1>2, <1>3
<1> QED
  BY <1>4

-----------------------------------------------------------------------------
\* ORDER BY token_id DESC LIMIT n.

\* Tables as the queries see them: finite, with tokens up to MaxToken.
Table(S) == IsFiniteSet(S) /\ \A r \in S : r.token \in Tokens

\* A part of a table is one.
LEMMA TablePart ==
    ASSUME NEW S, Table(S), NEW T \in SUBSET S
    PROVE  Table(T) /\ Cardinality(T) \in Nat /\ Cardinality(T) <= Cardinality(S)
  BY FS_Subset, FS_CardinalityType DEF Table

\* The first rows of a table: whatever is above one of them is one of them.
LEMMA TopUpward ==
    ASSUME NEW S, Table(S), NEW n \in Nat
    PROVE  /\ Top(n, S) \subseteq S
           /\ \A r \in Top(n, S), q \in S : q.token >= r.token => q \in Top(n, S)
<1>1. Top(n, S) \subseteq S
  BY DEF Top
<1>2. ASSUME NEW r \in Top(n, S), NEW q \in S, q.token >= r.token
      PROVE  q \in Top(n, S)
  <2> DEFINE A(t) == {x \in S : x.token > t}
  <2>1. r \in S /\ Cardinality(A(r.token)) < n
    BY DEF Top
  <2>2. A(q.token) \subseteq A(r.token)
    BY <1>2, <2>1 DEF Table, Tokens
  <2>3. Table(A(r.token)) /\ Cardinality(A(r.token)) \in Nat
    BY TablePart
  <2>4. /\ Cardinality(A(q.token)) \in Nat
        /\ Cardinality(A(q.token)) <= Cardinality(A(r.token))
    <3> HIDE DEF A
    <3> QED
      BY <2>2, <2>3, TablePart
  <2> QED
    BY <2>1, <2>3, <2>4 DEF Top
<1> QED
  BY <1>1, <1>2

\* A table that is not empty has a row with the largest token.
LEMMA TopRow ==
    ASSUME NEW S, Table(S), S # {}
    PROVE  \E r \in S : \A q \in S : q.token <= r.token
<1> DEFINE T == {r.token : r \in S}
<1>1. T \in SUBSET (0..MaxToken) /\ T # {} /\ MaxToken \in Nat
  BY PagesAssumption DEF Table, Tokens
<1>2. PICK t \in T : \A u \in T : u <= t
  <2> HIDE DEF T
  <2> QED
    BY <1>1, LargestExists
<1> QED
  BY <1>2

\* A limit of at least 1 shows a row if there is one.
LEMMA TopNonempty ==
    ASSUME NEW S, Table(S), S # {}, NEW n \in Nat \ {0}
    PROVE  Top(n, S) # {}
<1>1. PICK r \in S : \A q \in S : q.token <= r.token
  BY TopRow
<1>2. {q \in S : q.token > r.token} = {}
  BY <1>1 DEF Table, Tokens
<1>3. Cardinality({q \in S : q.token > r.token}) = 0
  BY <1>2, FS_EmptySet
<1> QED
  BY <1>3 DEF Top

\* Fewer rows than the limit are all there are.
LEMMA TopAll ==
    ASSUME NEW S, Table(S), NEW n \in Nat, Cardinality(Top(n + 1, S)) <= n
    PROVE  Top(n + 1, S) = S
<1> DEFINE F == Top(n + 1, S)
<1>1. F \subseteq S
  BY DEF Top
<1> SUFFICES ASSUME S \ F # {}
             PROVE  FALSE
  BY <1>1
<1>2. Table(S \ F)
  BY TablePart
<1>3. PICK r \in S \ F : \A q \in S \ F : q.token <= r.token
  <2> HIDE DEF F
  <2> QED
    BY <1>2, TopRow
<1>4. {q \in S : q.token > r.token} \subseteq F
  BY <1>3 DEF Table, Tokens
<1>5. Table(F) /\ Cardinality(F) \in Nat
  BY <1>1, TablePart
<1>6. /\ Cardinality({q \in S : q.token > r.token}) \in Nat
      /\ Cardinality({q \in S : q.token > r.token}) <= Cardinality(F)
  <2> HIDE DEF F
  <2> QED
    BY <1>4, <1>5, TablePart
<1>7. Cardinality({q \in S : q.token > r.token}) < n + 1
  BY <1>5, <1>6
<1> QED
  BY <1>3, <1>7 DEF Top

\* The limit does not cut a table that is small enough.
LEMMA TopSmall ==
    ASSUME NEW S, Table(S), NEW n \in Nat, Cardinality(S) <= n
    PROVE  Top(n, S) = S
<1> SUFFICES ASSUME NEW r \in S
             PROVE  Cardinality({q \in S : q.token > r.token}) < n
  BY DEF Top
<1>1. IsFiniteSet(S \ {r}) /\ Cardinality(S \ {r}) = Cardinality(S) - 1
  BY FS_RemoveElement DEF Table
<1>2. {q \in S : q.token > r.token} \in SUBSET (S \ {r})
  BY DEF Table, Tokens
<1>3. Cardinality({q \in S : q.token > r.token}) <= Cardinality(S \ {r})
  BY <1>1, <1>2, FS_Subset
<1>4. /\ Cardinality({q \in S : q.token > r.token}) \in Nat
      /\ Cardinality(S) \in Nat
  BY <1>1, <1>2, FS_Subset, FS_CardinalityType DEF Table
<1> QED
  BY <1>1, <1>3, <1>4

-----------------------------------------------------------------------------
\* A page.

\* The page a of the rows S: all rows above the cursor it returns are on it,
\* and without a cursor all rows are.
Covers(a, S) ==
    /\ a.items \subseteq S
    /\ ~ a.more => a.items = S /\ a.next = 0
    /\ a.more => /\ a.next \in Tokened(a.items)
                 /\ \A t \in Tokened(a.items) : a.next <= t
                 /\ \A r \in S : r.token >= a.next => r \in a.items

\* buildPage on one row more than a page returns such a page.
LEMMA PageComplete ==
    ASSUME NEW S, Table(S), NEW n \in Nat \ {0}
    PROVE  Covers(BuildPage(Top(n + 1, S), n), S)
<1> DEFINE F == Top(n + 1, S)
           I == Top(n, F)
           a == BuildPage(F, n)
<1> SUFFICES Covers(a, S)
  OBVIOUS
<1>1. /\ F \subseteq S /\ Table(F) /\ Cardinality(F) \in Nat
      /\ \A r \in F, q \in S : q.token >= r.token => q \in F
  BY TopUpward, TablePart
<1>2. /\ I \subseteq F
      /\ \A r \in I, q \in F : q.token >= r.token => q \in I
  <2> HIDE DEF F
  <2> QED
    BY <1>1, TopUpward
<1>3. /\ a.items = I
      /\ a.more = (Cardinality(F) > n)
      /\ a.next = IF a.more /\ I # {} THEN Min(Tokened(I)) ELSE 0
  BY DEF BuildPage, Tokened
<1> HIDE DEF a
<1>4. CASE Cardinality(F) > n
  <2>1. F # {}
    BY <1>4, FS_EmptySet
  <2>2. I # {}
    <3> HIDE DEF F
    <3> QED
      BY <1>1, <2>1, TopNonempty
  <2>3. Tokened(I) \in SUBSET Nat /\ Tokened(I) # {}
    BY <1>1, <1>2, <2>2 DEF Tokened, Table, Tokens
  <2>4. a.next = Min(Tokened(I))
    BY <1>3, <1>4, <2>2
  <2>5. a.next \in Tokened(I) /\ \A t \in Tokened(I) : a.next <= t
    BY <2>3, <2>4, MinIsLeast
  <2>6. PICK r \in I : r.token = a.next
    BY <2>5 DEF Tokened
  <2>7. \A q \in S : q.token >= a.next => q \in I
    BY <1>1, <1>2, <2>6
  <2> QED
    BY <1>1, <1>2, <1>3, <1>4, <2>5, <2>7 DEF Covers
<1>5. CASE ~ (Cardinality(F) > n)
  <2>1. F = S
    BY <1>1, <1>5, TopAll
  <2>2. I = F
    <3> HIDE DEF F
    <3> QED
      BY <1>1, <1>5, TopSmall
  <2>3. ~ a.more /\ a.items = S /\ a.next = 0
    BY <1>3, <1>5, <2>1, <2>2
  <2> QED
    BY <2>3 DEF Covers
<1> QED
  BY <1>4, <1>5

\* The rows a list request is about, below a cursor.
Asked(c) == {r \in After(c) : Matches(r)}

\* The answer to a list request, whatever the filter and the page size.
LEMMA AnswerComplete ==
    ASSUME TypeOK, TableOK, NEW c \in 0..MaxToken
    PROVE  Covers(Answer(c), Asked(c))
<1> DEFINE n == ResolveLimit(ParsePageSize(req.size))
<1>1. /\ req.owner \in Owners \cup {NoOwner, BadOwner} /\ req.search \in BOOLEAN
      /\ req.size = NaN \/ req.size \in Int
  BY PagesAssumption DEF TypeOK
<1>2. n \in Nat \ {0}
  <2>1. DefaultLimit \in Nat \ {0} /\ MaxLimit \in Nat \ {0} /\ MaxPageSize \in Nat \ {0}
    BY PagesAssumption
  <2>2. CASE req.size = NaN
    BY <2>1, <2>2 DEF ParsePageSize, ResolveLimit
  <2>3. CASE req.size # NaN
    <3>1. req.size \in Int
      BY <1>1, <2>3
    <3>2. ParsePageSize(req.size) \in Int
      BY <2>1, <2>3, <3>1 DEF ParsePageSize
    <3> QED
      BY <2>1, <3>2 DEF ResolveLimit
  <2> QED
    BY <2>2, <2>3
<1>3. CASE BadFilter(req.owner)
  <2>1. Answer(c) = EmptyPage
    BY <1>3 DEF Answer, List
  <2>2. Asked(c) = {}
    BY <1>3 DEF Asked, After, Matches, TypeOK, BadFilter, IsAddress
  <2> QED
    BY <2>1, <2>2 DEF EmptyPage, Covers
<1>4. CASE ~ BadFilter(req.owner)
  <2>1. Table(Asked(c))
    <3>1. Asked(c) \subseteq rows
      BY DEF Asked, After
    <3> QED
      BY <3>1, FS_Subset DEF TypeOK, TableOK, Table
  <2>2. Dispatch(req.owner, req.search, c, n + 1) = Top(n + 1, Asked(c))
    <3>1. CASE req.owner = NoOwner /\ req.search
      <4>1. {r \in After(c) : r.hit} = Asked(c)
        BY <3>1 DEF Asked, Matches
      <4> QED
        BY <3>1, <4>1 DEF Dispatch, SearchCertificates
    <3>2. CASE req.owner = NoOwner /\ ~ req.search
      <4>1. After(c) = Asked(c)
        BY <3>2 DEF Asked, Matches, After
      <4> QED
        BY <3>2, <4>1 DEF Dispatch, ListCertificates
    <3>3. CASE req.owner # NoOwner /\ req.search
      <4>1. {r \in After(c) : r.owner = req.owner /\ r.hit} = Asked(c)
        BY <3>3 DEF Asked, Matches
      <4> QED
        BY <3>3, <4>1 DEF Dispatch, SearchCertificatesByOwner
    <3>4. CASE req.owner # NoOwner /\ ~ req.search
      <4>1. {r \in After(c) : r.owner = req.owner} = Asked(c)
        BY <3>4 DEF Asked, Matches
      <4> QED
        BY <3>4, <4>1 DEF Dispatch, ListCertificatesByOwner
    <3> QED
      BY <3>1, <3>2, <3>3, <3>4
  <2>3. Answer(c) = BuildPage(Top(n + 1, Asked(c)), n)
    BY <1>4, <2>2 DEF Answer, List
  <2> HIDE DEF n
  <2> QED
    BY <1>2, <2>1, <2>3, PageComplete
<1> QED
  BY <1>3, <1>4

-----------------------------------------------------------------------------
\* The steps preserve the invariant.

\* Initially the table is empty.
LEMMA PagesInit == Init => PagesInv
<1> SUFFICES ASSUME Init
             PROVE  PagesInv
  OBVIOUS
<1>1. TypeOK
  BY PagesAssumption DEF Init, TypeOK, NoCall, Tokens
<1>2. TableOK /\ SteadyOK
  BY FS_EmptySet DEF Init, TableOK, SteadyOK
<1>3. CursorOK /\ CallOK /\ Descending /\ NoneSkipped /\ Openable
  BY DEF Init, CursorOK, CallOK, NoCall, Descending, NoneSkipped, Openable
<1> QED
  BY <1>1, <1>2, <1>3 DEF PagesInv

\* A change of the table: what stays steady is still there, and nothing is
\* added to it.
LEMMA SetRowsInv ==
    ASSUME PagesInv, NEW new, SetRows(new), TypeOK', CallOK',
           IsFiniteSet(new), \A q, r \in new : q.token = r.token => q = r,
           UNCHANGED clientVars
    PROVE  PagesInv'
<1>1. rows' = new /\ steady' \subseteq steady
  BY DEF SetRows
<1>2. UNCHANGED <<req, phase, cursor, page, shown, missing>>
  BY DEF clientVars
<1>3. TableOK'
  BY <1>1 DEF TableOK
<1>4. SteadyOK'
  <2> SUFFICES ASSUME NEW t \in steady'
               PROVE  \E r \in rows' : r.token = t /\ Matches(r)'
    BY DEF SteadyOK
  <2>1. PICK r \in rows \cap new : r.token = t
    BY DEF SetRows
  <2>2. PICK q \in rows : q.token = t /\ Matches(q)
    BY <1>1 DEF PagesInv, SteadyOK
  <2>3. q = r
    BY <2>1, <2>2 DEF PagesInv, TableOK
  <2>4. Matches(r)'
    BY <1>2, <2>2, <2>3 DEF Matches
  <2> QED
    BY <1>1, <2>1, <2>4
<1>5. CursorOK' /\ Descending' /\ NoneSkipped' /\ Openable'
  BY <1>1, <1>2 DEF PagesInv, CursorOK, Descending, NoneSkipped, Openable
<1> QED
  BY <1>3, <1>4, <1>5 DEF PagesInv

\* The worker stores a certificate: it replaces the row with its token.
LEMMA IndexInv ==
    ASSUME PagesInv, NEW t \in Tokens, NEW k \in Kinds, Index(t, k)
    PROVE  PagesInv'
<1> DEFINE old == {r \in rows : r.token # t}
           new == old \cup {Row(t, k)}
<1>1. SetRows(new) /\ UNCHANGED <<last, head, rewind, clientVars, call>>
  BY DEF Index
<1>2. IsFiniteSet(new)
  <2>1. IsFiniteSet(old)
    BY FS_Subset DEF PagesInv, TableOK
  <2> QED
    BY <2>1, FS_AddElement
<1>3. \A q, r \in new : q.token = r.token => q = r
  BY DEF PagesInv, TableOK, Row
<1>4. TypeOK'
  <2>1. Row(t, k) \in [token : Tokens, owner : Owners, hit : BOOLEAN]
    BY PagesAssumption DEF Row
  <2>2. rows' = new /\ steady' \subseteq steady
    BY <1>1 DEF SetRows
  <2> QED
    BY <1>1, <2>1, <2>2 DEF PagesInv, TypeOK, clientVars
<1>5. CallOK'
  BY <1>1 DEF PagesInv, CallOK
<1> HIDE DEF new
<1> QED
  BY <1>1, <1>2, <1>3, <1>4, <1>5, SetRowsInv

\* A rollback deletes rows.
LEMMA RollBackInv ==
    ASSUME PagesInv, NEW n \in 0..MaxToken, RollBack(n)
    PROVE  PagesInv'
<1> DEFINE new == {r \in rows : r.token <= n}
<1>1. SetRows(new) /\ UNCHANGED <<last, head, clientVars, call>> /\ rewind' = n
  BY DEF RollBack
<1>2. IsFiniteSet(new)
  BY FS_Subset DEF PagesInv, TableOK
<1>3. \A q, r \in new : q.token = r.token => q = r
  BY DEF PagesInv, TableOK
<1>4. TypeOK'
  <2>1. rows' = new /\ steady' \subseteq steady
    BY <1>1 DEF SetRows
  <2> QED
    BY <1>1, <2>1, PagesAssumption DEF PagesInv, TypeOK, clientVars
<1>5. CallOK'
  BY <1>1 DEF PagesInv, CallOK
<1> HIDE DEF new
<1> QED
  BY <1>1, <1>2, <1>3, <1>4, <1>5, SetRowsInv

\* The steps that leave rows and clients alone.
LEMMA StateInv ==
    ASSUME PagesInv, UNCHANGED <<rows, clientVars, steady>>, TypeOK', CallOK'
    PROVE  PagesInv'
  BY DEF PagesInv, clientVars, TableOK, SteadyOK, Matches, CursorOK, Descending,
         NoneSkipped, Openable

\* The checkpoint, the head and the status call.
LEMMA CheckpointsInv ==
    ASSUME PagesInv,
           \/ \E t \in Tokens : Checkpoint(t)
           \/ \E n \in 0..MaxToken : HeadMoves(n)
           \/ SaveRewound \/ StatusReadsState \/ StatusAnswers
    PROVE  PagesInv'
<1>0. MaxToken \in Nat
  BY PagesAssumption
<1>1. ASSUME NEW t \in Tokens, Checkpoint(t)
      PROVE  PagesInv'
  <2>1. /\ UNCHANGED <<rows, head, rewind, clientVars, steady, call>>
        /\ last' = t /\ last < t
    BY <1>0, <1>1 DEF Checkpoint, PagesInv, TypeOK
  <2>2. TypeOK'
    BY <1>0, <2>1 DEF PagesInv, TypeOK, clientVars, Tokens
  <2>3. CallOK'
    BY <1>0, <2>1 DEF PagesInv, TypeOK, CallOK, Tokens
  <2> QED
    BY <2>1, <2>2, <2>3, StateInv
<1>2. ASSUME NEW n \in 0..MaxToken, HeadMoves(n)
      PROVE  PagesInv'
  BY <1>2, StateInv DEF HeadMoves, PagesInv, TypeOK, clientVars, CallOK
<1>3. CASE SaveRewound
  <2>1. TypeOK'
    <3>1. PICK b \in BOOLEAN : call' = [call EXCEPT !.rolled = b]
      BY <1>3 DEF SaveRewound
    <3>2. call' \in [at : {"idle", "head"}, last : 0..MaxToken, rolled : BOOLEAN]
      BY <3>1 DEF PagesInv, TypeOK
    <3>3. /\ last' \in 0..MaxToken /\ rewind' = -1
          /\ UNCHANGED <<rows, head, clientVars, steady>>
      BY <1>0, <1>3 DEF SaveRewound, PagesInv, TypeOK
    <3> QED
      BY <1>0, <3>2, <3>3 DEF PagesInv, TypeOK, clientVars
  <2>2. CallOK'
    BY <1>3 DEF SaveRewound, PagesInv, TypeOK, CallOK
  <2> QED
    BY <1>3, <2>1, <2>2, StateInv DEF SaveRewound
<1>4. CASE StatusReadsState
  <2>1. TypeOK' /\ CallOK'
    BY <1>0, <1>4 DEF StatusReadsState, PagesInv, TypeOK, tableVars, clientVars, CallOK
  <2> QED
    BY <1>4, <2>1, StateInv DEF StatusReadsState, tableVars
<1>5. CASE StatusAnswers
  <2>1. TypeOK' /\ CallOK'
    BY <1>0, <1>5
    DEF StatusAnswers, NoCall, PagesInv, TypeOK, tableVars, clientVars, CallOK
  <2> QED
    BY <1>5, <2>1, StateInv DEF StatusAnswers, tableVars
<1> QED
  BY <1>1, <1>2, <1>3, <1>4, <1>5

\* A certificate is looked up: one that is steady is in the table.
LEMMA LookupInv ==
    ASSUME PagesInv, NEW t \in Tokens, Lookup(t)
    PROVE  PagesInv'
<1>1. /\ UNCHANGED <<tableVars, req, phase, cursor, page, shown, steady, call>>
      /\ phase = "done"
  BY DEF Lookup
<1>2. missing' = missing \/ (missing' = missing \cup {t} /\ t \notin steady)
  <2>1. PICK found \in {Found(t), GetCertificateMetadata(t)} :
            missing' = IF found THEN missing ELSE missing \cup {t}
    BY DEF Lookup
  <2>2. ASSUME t \in steady
        PROVE  Found(t) /\ GetCertificateMetadata(t)
    <3>1. \E r \in rows : r.token = t
      BY <2>2 DEF PagesInv, SteadyOK
    <3>2. GetCertificateByTokenID(t) # {}
      BY <3>1 DEF GetCertificateByTokenID
    <3>3. GetCertificate(t) = "OK"
      BY <3>2 DEF GetCertificate, GetByTokenID
    <3>4. HTTPStatus("OK") = 200
      BY Zenon DEF HTTPStatus
    <3> QED
      BY <3>3, <3>4 DEF Found, GetCertificateMetadata
  <2> QED
    BY <2>1, <2>2
<1>3. TypeOK'
  BY <1>1, <1>2 DEF PagesInv, TypeOK, tableVars
<1>4. TableOK' /\ SteadyOK' /\ CallOK'
  BY <1>1 DEF PagesInv, TableOK, SteadyOK, Matches, CallOK, tableVars
<1>5. CursorOK' /\ Descending' /\ NoneSkipped' /\ Openable'
  BY <1>1, <1>2 DEF PagesInv, CursorOK, Descending, NoneSkipped, Openable
<1> QED
  BY <1>3, <1>4, <1>5 DEF PagesInv

\* What an answer does to the client.  Its page lies below the cursor it was
\* asked with; of the certificates asked for, those at or above the cursor it
\* returns are on it, and all of them when it is the last page.
LEMMA FollowEffect ==
    ASSUME PagesInv, NEW c \in 0..MaxToken, Follow(Answer(c))
    PROVE  /\ page' \subseteq Tokens /\ cursor' \in 0..MaxToken
           /\ phase' = "paging" => cursor' # 0
           /\ \A t \in page' : c = 0 \/ t < c
           /\ \/ /\ phase' = "done" /\ cursor' = 0
                 /\ Tokened(Asked(c)) \subseteq page'
              \/ /\ phase' = "paging" /\ cursor' \in page'
                 /\ \A t \in page' : cursor' <= t
                 /\ \A t \in Tokened(Asked(c)) : t >= cursor' => t \in page'
<1> DEFINE a == Answer(c)
<1>1. Covers(a, Asked(c))
  BY AnswerComplete DEF PagesInv
<1>2. /\ page' = Tokened(a.items) /\ cursor' = a.next
      /\ phase' = IF a.more THEN "paging" ELSE "done"
  BY DEF Follow
<1> HIDE DEF a
<1>3. \A t \in page' : \E r \in Asked(c) : r.token = t
  BY <1>1, <1>2 DEF Covers, Tokened
<1>4. \A r \in Asked(c) : r.token \in Tokens /\ (c = 0 \/ r.token < c)
  BY DEF Asked, After, PagesInv, TypeOK
<1>5. CASE a.more
  <2>1. \A t \in Tokened(Asked(c)) : t >= cursor' => t \in page'
    BY <1>1, <1>2, <1>5 DEF Covers, Tokened
  <2>2. cursor' \in page' /\ \A t \in page' : cursor' <= t
    BY <1>1, <1>2, <1>5 DEF Covers
  <2>3. cursor' \in Tokens
    BY <1>3, <1>4, <2>2
  <2>4. cursor' \in 0..MaxToken /\ cursor' # 0
    BY <2>3, PagesAssumption DEF Tokens
  <2> QED
    BY <1>2, <1>3, <1>4, <1>5, <2>1, <2>2, <2>4
<1>6. CASE ~ a.more
  <2>1. phase' = "done" /\ cursor' = 0 /\ page' = Tokened(Asked(c))
    BY <1>1, <1>2, <1>6 DEF Covers
  <2> QED
    BY <1>3, <1>4, <2>1, PagesAssumption
<1> QED
  BY <1>5, <1>6

\* The first page, and with it the certificates to watch.
LEMMA FirstPageInv == ASSUME PagesInv, FirstPage PROVE PagesInv'
<1>1. /\ phase = "idle" /\ Follow(Answer(0))
      /\ steady' = Tokened({r \in rows : Matches(r)})
      /\ UNCHANGED <<tableVars, req, shown, missing, call>>
  BY DEF FirstPage
<1>2. 0 \in 0..MaxToken /\ MaxToken \in Nat
  BY PagesAssumption
<1>3. Asked(0) = {r \in rows : Matches(r)}
  BY DEF Asked, After
<1>4. /\ page' \subseteq Tokens /\ cursor' \in 0..MaxToken
      /\ phase' = "paging" => cursor' # 0
      /\ \/ phase' = "done" /\ cursor' = 0 /\ steady' \subseteq page'
         \/ /\ phase' = "paging" /\ cursor' \in page'
            /\ \A t \in page' : cursor' <= t
            /\ \A t \in steady' : t >= cursor' => t \in page'
  BY <1>1, <1>2, <1>3, FollowEffect
<1>5. \A t \in steady' : \E r \in rows : r.token = t /\ Matches(r)
  BY <1>1 DEF Tokened
<1>6. TypeOK'
  <2>1. steady' \subseteq Tokens
    BY <1>5 DEF PagesInv, TypeOK
  <2> QED
    BY <1>1, <1>2, <1>4, <2>1 DEF PagesInv, TypeOK, tableVars, Tokens
<1>7. TableOK' /\ CallOK'
  BY <1>1 DEF PagesInv, TableOK, CallOK, tableVars
<1>8. SteadyOK'
  BY <1>1, <1>5 DEF SteadyOK, Matches, tableVars
<1>9. shown' = {} /\ missing' = {}
  BY <1>1 DEF PagesInv, CursorOK
<1>10. CursorOK'
  BY <1>4, <1>9 DEF CursorOK
<1>11. Descending' /\ NoneSkipped' /\ Openable'
  BY <1>4, <1>9 DEF Descending, NoneSkipped, Openable
<1> QED
  BY <1>6, <1>7, <1>8, <1>10, <1>11 DEF PagesInv

\* The next page: what is steady is above the cursor, and was shown, or below
\* it, and then in the table the query reads.
LEMMA NextPageInv == ASSUME PagesInv, NextPage PROVE PagesInv'
<1>1. /\ phase = "paging" /\ Follow(Answer(cursor))
      /\ shown' = shown \cup page
      /\ UNCHANGED <<tableVars, req, missing, steady, call>>
  BY DEF NextPage
<1>2. /\ cursor \in 0..MaxToken /\ MaxToken \in Nat /\ cursor # 0
      /\ \A t \in shown \cup page : cursor <= t /\ t \in Tokens
  BY <1>1, PagesAssumption DEF PagesInv, TypeOK, CursorOK
<1>3. /\ page' \subseteq Tokens /\ cursor' \in 0..MaxToken
      /\ phase' = "paging" => cursor' # 0
      /\ \A t \in page' : t < cursor
      /\ \/ /\ phase' = "done" /\ cursor' = 0
            /\ Tokened(Asked(cursor)) \subseteq page'
         \/ /\ phase' = "paging" /\ cursor' \in page'
            /\ \A t \in page' : cursor' <= t
            /\ \A t \in Tokened(Asked(cursor)) : t >= cursor' => t \in page'
  BY <1>1, <1>2, FollowEffect
<1>4. \A t \in steady : t \in shown' \/ t \in Tokened(Asked(cursor))
  <2> SUFFICES ASSUME NEW t \in steady, t \notin shown'
               PROVE  t \in Tokened(Asked(cursor))
    OBVIOUS
  <2>1. t \in Tokens
    BY DEF PagesInv, TypeOK
  <2>2. t < cursor
    BY <1>1, <1>2, <2>1 DEF PagesInv, NoneSkipped, Tokens
  <2>3. PICK r \in rows : r.token = t /\ Matches(r)
    BY DEF PagesInv, SteadyOK
  <2>4. r \in Asked(cursor)
    BY <2>2, <2>3 DEF Asked, After
  <2> QED
    BY <2>3, <2>4 DEF Tokened
<1>5. TypeOK'
  BY <1>1, <1>2, <1>3 DEF PagesInv, TypeOK, tableVars, Tokens
<1>6. TableOK' /\ CallOK' /\ SteadyOK'
  BY <1>1 DEF PagesInv, TableOK, CallOK, SteadyOK, Matches, tableVars
<1>7. Descending'
  BY <1>1, <1>2, <1>3 DEF Descending, Tokens
<1>8. CursorOK'
  <2>1. ASSUME phase' = "paging"
        PROVE  cursor' # 0 /\ \A t \in shown' \cup page' : cursor' <= t
    <3>1. \A t \in page' : cursor' <= t /\ cursor' < cursor
      BY <1>3, <2>1
    <3>2. \A t \in shown' : cursor <= t /\ t \in Nat
      BY <1>1, <1>2 DEF Tokens
    <3>3. cursor' < cursor /\ cursor \in Nat /\ cursor' \in Nat
      BY <1>2, <1>3, <2>1
    <3> QED
      BY <1>3, <2>1, <3>1, <3>2, <3>3
  <2> QED
    BY <1>3, <2>1 DEF CursorOK
<1>9. NoneSkipped'
  BY <1>1, <1>3, <1>4 DEF NoneSkipped
<1>10. Openable'
  BY <1>1 DEF PagesInv, Openable
<1> QED
  BY <1>5, <1>6, <1>7, <1>8, <1>9, <1>10 DEF PagesInv

\* Every step preserves the invariant.
LEMMA PagesStep == PagesInv /\ [Next]_vars => PagesInv'
<1> SUFFICES ASSUME PagesInv, [Next]_vars
             PROVE  PagesInv'
  OBVIOUS
<1>1. ASSUME NEW t \in Tokens, NEW k \in Kinds, Index(t, k)
      PROVE  PagesInv'
  BY <1>1, IndexInv
<1>2. ASSUME NEW t \in Tokens, Lookup(t)
      PROVE  PagesInv'
  BY <1>2, LookupInv
<1>3. ASSUME NEW n \in 0..MaxToken, RollBack(n)
      PROVE  PagesInv'
  BY <1>3, RollBackInv
<1>4. CASE \/ \E t \in Tokens : Checkpoint(t)
           \/ \E n \in 0..MaxToken : HeadMoves(n)
           \/ SaveRewound \/ StatusReadsState \/ StatusAnswers
  BY <1>4, CheckpointsInv
<1>5. CASE FirstPage
  BY <1>5, FirstPageInv
<1>6. CASE NextPage
  BY <1>6, NextPageInv
<1>7. CASE UNCHANGED vars
  <2>1. UNCHANGED <<rows, clientVars, steady>> /\ UNCHANGED <<tableVars, call>>
    BY <1>7 DEF vars, tableVars
  <2>2. TypeOK' /\ CallOK'
    BY <2>1 DEF PagesInv, TypeOK, CallOK, tableVars, clientVars
  <2> QED
    BY <2>1, <2>2, StateInv
<1> QED
  BY <1>1, <1>2, <1>3, <1>4, <1>5, <1>6, <1>7 DEF Next

\* The invariant holds in every reachable state.
LEMMA PagesInvariant == Spec => []PagesInv
  BY PagesInit, PagesStep, PTL DEF Spec

-----------------------------------------------------------------------------
\* The theorems, for every page size, limit, filter and number of
\* certificates.

\* The variables have their types in every reachable state.
THEOREM PagesTypeCorrect == Spec => []TypeOK
<1>1. PagesInv => TypeOK
  BY DEF PagesInv
<1> QED
  BY PagesInvariant, <1>1, PTL

\* No certificate is shown on two pages and the order holds across pages,
\* whatever the worker stores, replaces or deletes between two requests.
THEOREM NothingShownTwice == Spec => []Descending
<1>1. PagesInv => Descending
  BY DEF PagesInv
<1> QED
  BY PagesInvariant, <1>1, PTL

\* A certificate that matches the request and stays in the table is shown
\* before the cursor passes it: the row that buildPage drops comes back as
\* the first one of the next page.
THEOREM NoPageGap == Spec => []NoneSkipped
<1>1. PagesInv => NoneSkipped
  BY DEF PagesInv
<1> QED
  BY PagesInvariant, <1>1, PTL

\* A certificate that stays in the table is never answered with 404.
THEOREM ShownCanBeOpened == Spec => []Openable
<1>1. PagesInv => Openable
  BY DEF PagesInv
<1> QED
  BY PagesInvariant, <1>1, PTL

\* The lag that GetIndexerStatus reports is at least the true one unless a
\* rollback comes between its two reads, and never more than the chain is
\* long: the subtraction of the two uint64 does not wrap around.
THEOREM StatusNeverFlatters == Spec => []StatusHonest
<1>1. PagesInv => StatusHonest
  <2> SUFFICES ASSUME PagesInv, call.at = "head", ~ call.rolled,
                      NEW reachable \in BOOLEAN
               PROVE  LET answer == ComputeStatus(call.last, head, reachable)
                      IN  /\ reachable => Lag <= answer.lag /\ answer.lag <= head
                          /\ answer.healthy => Lag < SaneLag
    BY DEF StatusHonest
  <2>1. /\ call.last \in Nat /\ last \in Nat /\ head \in Nat /\ SaneLag \in Nat
        /\ call.last <= last
    BY PagesAssumption DEF PagesInv, TypeOK, CallOK
  <2> DEFINE lag == IF call.last > head THEN 0 ELSE head - call.last
  <2>2. lag \in Nat /\ lag <= head /\ Lag \in Nat /\ Lag <= lag
    BY <2>1 DEF Lag
  <2>3. CASE reachable
    <3>1. /\ ComputeStatus(call.last, head, reachable).lag = lag
          /\ ComputeStatus(call.last, head, reachable).healthy => lag < SaneLag
      BY <2>3 DEF ComputeStatus
    <3>2. Lag <= lag /\ lag <= head /\ (lag < SaneLag => Lag < SaneLag)
      BY <2>1, <2>2
    <3> HIDE DEF lag
    <3> QED
      BY <3>1, <3>2
  <2>4. CASE ~ reachable
    <3>1. ~ ComputeStatus(call.last, head, reachable).healthy
      BY <2>4 DEF ComputeStatus
    <3> QED
      BY <2>4, <3>1
  <2> QED
    BY <2>3, <2>4
<1> QED
  BY PagesInvariant, <1>1, PTL
=============================================================================
