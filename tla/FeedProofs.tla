----------------------------- MODULE FeedProofs -----------------------------
(***************************************************************************)
(* The pipeline of Stream implements the at-most-once feed of Feed, for    *)
(* any number of sessions, buffer sizes, windows and publications: every   *)
(* step of the two services, the network and the browsers is a step of the *)
(* feed or leaves it as it is.                                             *)
(***************************************************************************)
EXTENDS StreamProofs, SequenceTheorems

-----------------------------------------------------------------------------
\* Sequences.

\* Two sequences in a row: an element at the end of the second, the first
\* element of the second, and a first part that ends in the second.
LEMMA ConcatFacts ==
    ASSUME NEW S, NEW a \in Seq(S), NEW b \in Seq(S)
    PROVE  /\ a \o b \in Seq(S) /\ Len(a \o b) = Len(a) + Len(b)
           /\ \A e \in S : Append(a \o b, e) = a \o Append(b, e)
           /\ \A n \in 0..Len(b) :
                /\ Len(a) + n \in 0..Len(a \o b)
                /\ SubSeq(a \o b, 1, Len(a) + n) = a \o SubSeq(b, 1, n)
           /\ b # <<>> =>
                /\ Len(a) + 1 \in DOMAIN (a \o b)
                /\ (a \o b)[Len(a) + 1] = Head(b)
                /\ SubSeq(a \o b, 1, Len(a)) \o SubSeq(a \o b, Len(a) + 2, Len(a \o b))
                    = a \o Tail(b)
<1>1. /\ a \o b \in Seq(S) /\ Len(a \o b) = Len(a) + Len(b)
      /\ \A i \in 1..(Len(a) + Len(b)) :
            (a \o b)[i] = IF i <= Len(a) THEN a[i] ELSE b[i - Len(a)]
  BY ConcatProperties
<1>2. Len(a) \in Nat /\ Len(b) \in Nat
  OBVIOUS
<1>3. ASSUME NEW e \in S
      PROVE  Append(a \o b, e) = a \o Append(b, e)
  <2>1. /\ <<e>> \in Seq(S) /\ Append(b, e) = b \o <<e>>
        /\ Append(a \o b, e) = (a \o b) \o <<e>>
    BY <1>1, AppendIsConcat
  <2> QED
    BY <2>1, ConcatAssociative
<1>4. ASSUME NEW n \in 0..Len(b)
      PROVE  /\ Len(a) + n \in 0..Len(a \o b)
             /\ SubSeq(a \o b, 1, Len(a) + n) = a \o SubSeq(b, 1, n)
  <2>1. Len(a) + n \in 0..Len(a \o b)
    BY <1>1, <1>2
  <2>2. /\ SubSeq(b, 1, n) \in Seq(S) /\ Len(SubSeq(b, 1, n)) = n
        /\ \A i \in 1..n : SubSeq(b, 1, n)[i] = b[i]
    BY SeqFacts
  <2>3. /\ SubSeq(a \o b, 1, Len(a) + n) \in Seq(S)
        /\ Len(SubSeq(a \o b, 1, Len(a) + n)) = Len(a) + n
        /\ \A i \in 1..(Len(a) + n) : SubSeq(a \o b, 1, Len(a) + n)[i] = (a \o b)[i]
    BY <1>1, <2>1, SeqFacts
  <2>4. /\ a \o SubSeq(b, 1, n) \in Seq(S) /\ Len(a \o SubSeq(b, 1, n)) = Len(a) + n
        /\ \A i \in 1..(Len(a) + n) : (a \o SubSeq(b, 1, n))[i] =
                IF i <= Len(a) THEN a[i] ELSE SubSeq(b, 1, n)[i - Len(a)]
    BY <2>2, ConcatProperties
  <2>5. ASSUME NEW i \in 1..(Len(a) + n)
        PROVE  SubSeq(a \o b, 1, Len(a) + n)[i] = (a \o SubSeq(b, 1, n))[i]
    <3>1. SubSeq(a \o b, 1, Len(a) + n)[i] = IF i <= Len(a) THEN a[i] ELSE b[i - Len(a)]
      BY <1>1, <1>2, <2>3
    <3>2. CASE i <= Len(a)
      BY <2>4, <3>1, <3>2
    <3>3. CASE i > Len(a)
      <4>1. i - Len(a) \in 1..n
        BY <1>2, <3>3
      <4> QED
        BY <1>2, <2>2, <2>4, <3>1, <3>3, <4>1
    <3> QED
      BY <1>2, <3>2, <3>3
  <2> QED
    BY <2>1, <2>3, <2>4, <2>5, SeqEqual
<1>5. ASSUME b # <<>>
      PROVE  /\ Len(a) + 1 \in DOMAIN (a \o b)
             /\ (a \o b)[Len(a) + 1] = Head(b)
             /\ SubSeq(a \o b, 1, Len(a)) \o SubSeq(a \o b, Len(a) + 2, Len(a \o b))
                    = a \o Tail(b)
  <2>1. Len(b) >= 1 /\ Head(b) = b[1] /\ Tail(b) \in Seq(S) /\ Len(Tail(b)) = Len(b) - 1
    BY <1>5, SeqFacts
  <2>2. Len(a) + 1 \in DOMAIN (a \o b) /\ (a \o b)[Len(a) + 1] = Head(b)
    BY <1>1, <1>2, <2>1
  <2>3. SubSeq(a \o b, 1, Len(a)) = a
    <3>1. SubSeq(b, 1, 0) = <<>>
      OBVIOUS
    <3>2. 0 \in 0..Len(b) /\ Len(a) + 0 = Len(a)
      BY <1>2
    <3>3. SubSeq(a \o b, 1, Len(a) + 0) = a \o SubSeq(b, 1, 0)
      BY <1>4, <3>2
    <3> QED
      BY <3>1, <3>2, <3>3, ConcatEmptySeq
  <2>4. SubSeq(a \o b, Len(a) + 2, Len(a \o b)) = Tail(b)
    <3> DEFINE q == SubSeq(a \o b, Len(a) + 2, Len(a) + Len(b))
    <3>1. /\ q \in Seq(S) /\ Len(q) = Len(b) - 1
          /\ \A i \in 1..(Len(b) - 1) : q[i] = (a \o b)[Len(a) + 1 + i]
      BY <1>1, <1>2, <2>1
    <3>2. \A i \in 1..(Len(b) - 1) : (a \o b)[Len(a) + 1 + i] = b[i + 1]
      BY <1>1, <1>2, <2>1
    <3>3. \A i \in 1..(Len(b) - 1) : Tail(b)[i] = b[i + 1]
      BY <1>5, <2>1, SeqFacts
    <3> HIDE DEF q
    <3>4. q = Tail(b)
      <4>1. /\ Tail(b) \in Seq(S) /\ Len(Tail(b)) = Len(q)
            /\ Len(q) = Len(b) - 1
        BY <2>1, <3>1
      <4>2. \A i \in 1..Len(q) : q[i] = Tail(b)[i]
        BY <3>1, <3>2, <3>3, <4>1
      <4> QED
        BY <3>1, <4>1, <4>2, SeqEqual
    <3> QED
      BY <1>1, <3>4 DEF q
  <2> QED
    BY <2>2, <2>3, <2>4
<1> QED
  BY <1>1, <1>3, <1>4, <1>5

\* A sequence is its first element and the rest.
LEMMA HeadTailConcat ==
    ASSUME NEW S, NEW q \in Seq(S), q # <<>>
    PROVE  <<Head(q)>> \o Tail(q) = q
<1>1. /\ Head(q) \in S /\ <<Head(q)>> \in Seq(S) /\ Len(<<Head(q)>>) = 1
      /\ <<Head(q)>>[1] = q[1] /\ Tail(q) \in Seq(S) /\ Len(Tail(q)) = Len(q) - 1
      /\ Len(q) \in Nat /\ Len(q) >= 1
      /\ \A i \in 1..(Len(q) - 1) : Tail(q)[i] = q[i + 1]
  BY SeqFacts
<1>2. /\ <<Head(q)>> \o Tail(q) \in Seq(S) /\ Len(<<Head(q)>> \o Tail(q)) = Len(q)
      /\ \A i \in 1..Len(q) : (<<Head(q)>> \o Tail(q))[i] =
            IF i <= 1 THEN <<Head(q)>>[i] ELSE Tail(q)[i - 1]
  <2>1. Len(<<Head(q)>>) + Len(Tail(q)) = Len(q)
    BY <1>1
  <2> QED
    BY <1>1, <2>1, ConcatProperties
<1>3. \A i \in 1..Len(q) : (<<Head(q)>> \o Tail(q))[i] = q[i]
  BY <1>1, <1>2
<1> QED
  BY <1>2, <1>3, SeqEqual

\* The first element and the rest of a sequence that begins with an element.
LEMMA ConsFacts ==
    ASSUME NEW S, NEW e \in S, NEW q \in Seq(S)
    PROVE  /\ <<e>> \o q \in Seq(S) /\ <<e>> \o q # <<>>
           /\ Head(<<e>> \o q) = e /\ Tail(<<e>> \o q) = q
<1>1. <<e>> \in Seq(S) /\ Len(<<e>>) = 1 /\ <<e>>[1] = e /\ Len(q) \in Nat
  OBVIOUS
<1>2. /\ <<e>> \o q \in Seq(S) /\ Len(<<e>> \o q) = 1 + Len(q)
      /\ \A i \in 1..(1 + Len(q)) :
            (<<e>> \o q)[i] = IF i <= 1 THEN <<e>>[i] ELSE q[i - 1]
  BY <1>1, ConcatProperties
<1> DEFINE p == <<e>> \o q
<1>3. p \in Seq(S) /\ p # <<>> /\ p[1] = e
  BY <1>1, <1>2
<1>4. /\ Head(p) = p[1] /\ Tail(p) \in Seq(S) /\ Len(Tail(p)) = Len(q)
      /\ \A i \in 1..Len(q) : Tail(p)[i] = p[i + 1]
  BY <1>1, <1>2, <1>3, SeqFacts
<1>5. \A i \in 1..Len(q) : p[i + 1] = q[i]
  BY <1>1, <1>2
<1> HIDE DEF p
<1>6. Tail(p) = q
  BY <1>4, <1>5, SeqEqual
<1> QED
  BY <1>3, <1>4, <1>6 DEF p

\* A first part of two sequences in a row may lie in the first of them.
LEMMA PrefixOfFirst ==
    ASSUME NEW S, NEW a \in Seq(S), NEW b \in Seq(S), NEW n \in 0..Len(a)
    PROVE  n \in 0..Len(a \o b) /\ SubSeq(a \o b, 1, n) = SubSeq(a, 1, n)
<1>1. /\ a \o b \in Seq(S) /\ Len(a \o b) = Len(a) + Len(b)
      /\ \A i \in 1..(Len(a) + Len(b)) :
            (a \o b)[i] = IF i <= Len(a) THEN a[i] ELSE b[i - Len(a)]
  BY ConcatProperties
<1>2. Len(a) \in Nat /\ Len(b) \in Nat
  OBVIOUS
<1>3. n \in 0..Len(a \o b) /\ \A i \in 1..n : (a \o b)[i] = a[i]
  BY <1>1, <1>2
<1>4. /\ SubSeq(a, 1, n) \in Seq(S) /\ Len(SubSeq(a, 1, n)) = n
      /\ \A i \in 1..n : SubSeq(a, 1, n)[i] = a[i]
  BY SeqFacts
<1>5. /\ SubSeq(a \o b, 1, n) \in Seq(S) /\ Len(SubSeq(a \o b, 1, n)) = n
      /\ \A i \in 1..n : SubSeq(a \o b, 1, n)[i] = (a \o b)[i]
  BY <1>1, <1>3, SeqFacts
<1>6. SubSeq(a \o b, 1, n) = SubSeq(a, 1, n)
  BY <1>3, <1>4, <1>5, SeqEqual
<1> QED
  BY <1>3, <1>6

-----------------------------------------------------------------------------
\* A publication on its way: what waits is kept in pieces, one for each
\* goroutine and buffer, and one piece passes it to the next.

\* The next piece takes the first element of a buffer.
LEMMA TakeFirst ==
    ASSUME NEW S, NEW a \in Seq(S), NEW b \in Seq(S), b # <<>>
    PROVE  a \o <<Head(b)>> \o Tail(b) = a \o b
<1>1. Head(b) \in S /\ Tail(b) \in Seq(S) /\ <<Head(b)>> \in Seq(S)
  BY SeqFacts
<1>2. (a \o <<Head(b)>>) \o Tail(b) = a \o (<<Head(b)>> \o Tail(b))
  BY <1>1, ConcatAssociative
<1> QED
  BY <1>2, HeadTailConcat

\* The element between two buffers goes to the end of the first.
LEMMA PutLast ==
    ASSUME NEW S, NEW a \in Seq(S), NEW x \in Seq(S), NEW e \in S, NEW b \in Seq(S)
    PROVE  (a \o Append(x, e)) \o <<>> \o b = (a \o x) \o <<e>> \o b
<1> DEFINE y == a \o x
<1>1. y \in Seq(S) /\ a \o Append(x, e) = Append(y, e)
  BY ConcatFacts
<1> HIDE DEF y
<1>2. Append(y, e) = y \o <<e>> /\ Append(y, e) \in Seq(S)
  BY <1>1, AppendIsConcat
<1>3. Append(y, e) \o <<>> = Append(y, e)
  BY <1>2, ConcatEmptySeq
<1>4. Append(y, e) \o <<>> \o b = y \o <<e>> \o b
  BY <1>2, <1>3
<1> QED
  BY <1>1, <1>4 DEF y

-----------------------------------------------------------------------------
\* One session of the feed.

\* What waits for a session and the last publication it was offered.
Queue(s) ==
    IF s \in cancelled THEN <<>>
    ELSE IF s \in cut THEN Ahead(s)
    ELSE Ahead(s) \o OneOf(sending[s]) \o buf[s]

Offered(s) ==
    IF s \notin Served THEN 0
    ELSE IF s \in todo THEN published - 1 ELSE published

\* What the abstract feed's variables stand for, session by session.
LEMMA Views ==
    /\ Waiting = [s \in Sessions |-> Queue(s)]
    /\ LastOffered = [s \in Sessions |-> Offered(s)]
  BY DEF Waiting, LastOffered, Queue, Offered

\* A step leaves everything the feed shows of a session alone.
Same(r) ==
    /\ published' = published
    /\ h'[r] = h[r] /\ sending'[r] = sending[r] /\ wire'[r] = wire[r]
    /\ buf'[r] = buf[r] /\ received'[r] = received[r] /\ writing'[r] = writing[r]
    /\ r \in subs' <=> r \in subs
    /\ r \in todo' <=> r \in todo
    /\ r \in cut' <=> r \in cut
    /\ r \in cancelled' <=> r \in cancelled

\* Then the feed shows the same of it.
LEMMA SameView ==
    ASSUME NEW r, Same(r)
    PROVE  /\ Queue(r)' = Queue(r)
           /\ r \in Served' <=> r \in Served
           /\ Offered(r)' = Offered(r)
<1>1. Queue(r)' = Queue(r)
  BY DEF Same, Queue, Ahead
<1>2. r \in Served' <=> r \in Served
  BY DEF Same, Served
<1>3. Offered(r)' = Offered(r)
  BY <1>2 DEF Same, Offered
<1> QED
  BY <1>1, <1>2, <1>3

\* A step of one session changes the feed in that session only.
LEMMA OneSession ==
    ASSUME StreamInv, StreamInv', NEW s \in Sessions,
           \A r \in Sessions \ {s} : Same(r)
    PROVE  /\ Waiting' = [Waiting EXCEPT ![s] = Queue(s)']
           /\ LastOffered' = [LastOffered EXCEPT ![s] = Offered(s)']
           /\ Served \subseteq Sessions
           /\ s \in Served' => Served' = Served \cup {s}
           /\ s \notin Served' => Served' = Served \ {s}
<1>1. \A r \in Sessions \ {s} : /\ Queue(r)' = Queue(r)
                                /\ r \in Served' <=> r \in Served
                                /\ Offered(r)' = Offered(r)
  BY SameView
<1>2. Served \subseteq Sessions /\ Served' \subseteq Sessions
  BY DEF StreamInv, TypeOK, Served
<1>3. /\ Waiting' = [r \in Sessions |-> Queue(r)']
      /\ LastOffered' = [r \in Sessions |-> Offered(r)']
  BY DEF Waiting, LastOffered, Queue, Offered
<1>4. Waiting' = [Waiting EXCEPT ![s] = Queue(s)']
  BY <1>1, <1>3, Views
<1>5. LastOffered' = [LastOffered EXCEPT ![s] = Offered(s)']
  BY <1>1, <1>3, Views
<1> QED
  BY <1>1, <1>2, <1>4, <1>5

\* A step that changes nothing the feed shows is no step of it.
LEMMA Unseen ==
    ASSUME StreamInv, StreamInv', NEW s \in Sessions,
           \A r \in Sessions \ {s} : Same(r),
           Queue(s)' = Queue(s), s \in Served' <=> s \in Served,
           s \in todo' <=> s \in todo, published' = published, got' = got
    PROVE  UNCHANGED AbstractFeed!vars
<1>1. Offered(s)' = Offered(s)
  BY DEF Offered
<1>2. Waiting' = Waiting
  BY OneSession, Views
<1>3. LastOffered' = LastOffered
  BY <1>1, OneSession, Views
<1>4. Served' = Served
  BY OneSession
<1> QED
  BY <1>2, <1>3, <1>4 DEF AbstractFeed!vars

\* The types of what waits for a session.
LEMMA PieceTypes ==
    ASSUME StreamInv, NEW s \in Sessions
    PROVE  /\ \A e \in 0..MaxEvents : OneOf(e) \in Seq(Events)
           /\ OneOf(0) = <<>>
           /\ \A e \in Events : OneOf(e) = <<e>>
           /\ OneOf(writing[s]) \in Seq(Events) /\ OneOf(received[s]) \in Seq(Events)
           /\ OneOf(sending[s]) \in Seq(Events)
           /\ buf[s] \in Seq(Events) /\ wire[s] \in Seq(Events) /\ got[s] \in Seq(Events)
           /\ Ahead(s) \in Seq(Events) /\ Queue(s) \in Seq(Events)
<1>1. \A e \in 0..MaxEvents : OneOf(e) \in Seq(Events)
  BY EventTypes DEF OneOf
<1>2. OneOf(0) = <<>> /\ \A e \in Events : OneOf(e) = <<e>>
  BY EventTypes DEF OneOf
<1>3. /\ OneOf(writing[s]) \in Seq(Events) /\ OneOf(received[s]) \in Seq(Events)
      /\ OneOf(sending[s]) \in Seq(Events)
      /\ buf[s] \in Seq(Events) /\ wire[s] \in Seq(Events) /\ got[s] \in Seq(Events)
  BY <1>1 DEF StreamInv, TypeOK
<1>4. Ahead(s) \in Seq(Events)
  BY <1>3, ConcatProperties DEF Ahead
<1>5. Queue(s) \in Seq(Events)
  <2>1. Ahead(s) \o OneOf(sending[s]) \in Seq(Events)
    BY <1>3, <1>4, ConcatProperties
  <2>2. Ahead(s) \o OneOf(sending[s]) \o buf[s] \in Seq(Events)
    BY <1>3, <2>1, ConcatProperties
  <2> QED
    BY <1>4, <2>2 DEF Queue
<1> QED
  BY <1>1, <1>2, <1>3, <1>4, <1>5

-----------------------------------------------------------------------------
\* Publish.

\* Taking the lock and giving it back is not seen: a publication has been
\* offered to a session when Publish has come to it.
LEMMA LockFeed ==
    ASSUME StreamInv, StreamInv', PublishLock \/ PublishUnlock
    PROVE  UNCHANGED AbstractFeed!vars
<1>1. UNCHANGED <<subs, buf, closed, callVars, bridgeVars, browserVars>>
  BY DEF PublishLock, PublishUnlock
<1>2. Served' = Served
  BY <1>1 DEF Served, callVars, bridgeVars
<1>3. Waiting' = Waiting
  BY <1>1 DEF Waiting, Ahead, callVars, bridgeVars
<1>4. \A s \in Served : s \in subs
  BY DEF Served
<1>5. LastOffered' = LastOffered
  <2>1. CASE PublishLock
    <3>1. todo = {} /\ todo' = subs /\ published' = published + 1 /\ published \in Nat
      BY <2>1 DEF PublishLock, StreamInv, Registered, TypeOK
    <3>2. \A s \in Sessions : Offered(s)' = Offered(s)
      BY <1>2, <1>4, <3>1 DEF Offered
    <3> QED
      BY <3>2 DEF LastOffered, Offered
  <2>2. CASE PublishUnlock
    BY <1>2, <2>2 DEF PublishUnlock, LastOffered
  <2> QED
    BY <2>1, <2>2
<1> QED
  BY <1>1, <1>2, <1>3, <1>5 DEF AbstractFeed!vars, browserVars

\* A send offers the publication: it is taken in at the end of what waits, or
\* dropped when the channel is full.  A session that has come to its end and
\* is still in the map does not see it.
LEMMA SendFeed ==
    ASSUME StreamInv, StreamInv', NEW s \in Sessions, PublishSend(s)
    PROVE  AbstractFeed!Offer(s) \/ UNCHANGED AbstractFeed!vars
<1>1. /\ s \in todo /\ todo' = todo \ {s} /\ published' = published /\ subs' = subs
      /\ UNCHANGED <<callVars, bridgeVars, browserVars>>
      /\ IF Len(buf[s]) < BufferSize
         THEN buf' = [buf EXCEPT ![s] = Append(@, published)] ELSE UNCHANGED buf
  BY DEF PublishSend
<1>2. \A r \in Sessions \ {s} : Same(r)
  <2>1. \A r \in Sessions \ {s} : r \in todo' <=> r \in todo
    BY <1>1
  <2>2. \A r \in Sessions \ {s} : buf'[r] = buf[r]
    <3>1. buf \in [Sessions -> Seq(Events)]
      BY DEF StreamInv, TypeOK
    <3>2. CASE Len(buf[s]) < BufferSize
      BY <1>1, <3>1, <3>2
    <3>3. CASE ~ (Len(buf[s]) < BufferSize)
      BY <1>1, <3>3
    <3> QED
      BY <3>2, <3>3
  <2> QED
    BY <1>1, <2>1, <2>2 DEF Same, callVars, bridgeVars
<1>3. Served' = Served
  BY <1>1 DEF Served, callVars, bridgeVars
<1>4. published \in Nat /\ published >= 1 /\ published \in Events
  <2>1. held
    BY <1>1 DEF StreamInv, Registered
  <2>2. published \in 0..MaxEvents /\ published > 0
    BY <2>1 DEF StreamInv, TypeOK, Holding
  <2> QED
    BY <2>2, EventTypes
<1>5. Ahead(s)' = Ahead(s) /\ sending' = sending /\ cut' = cut /\ cancelled' = cancelled
  BY <1>1 DEF Ahead, callVars, bridgeVars
<1>6. CASE s \notin Served
  <2>1. s \in cut \/ s \in cancelled
    BY <1>1, <1>6 DEF StreamInv, Registered, Ending, Served
  <2>2. Queue(s)' = Queue(s)
    BY <1>5, <2>1 DEF Queue
  <2>3. Offered(s)' = Offered(s)
    BY <1>3, <1>6 DEF Offered
  <2>4. Waiting' = Waiting /\ LastOffered' = LastOffered
    BY <1>2, <2>2, <2>3, OneSession, Views
  <2> QED
    BY <1>1, <1>3, <2>4 DEF AbstractFeed!vars, browserVars
<1>7. CASE s \in Served
  <2>1. s \notin cut /\ s \notin cancelled
    BY <1>7 DEF Served
  <2> DEFINE front == Ahead(s) \o OneOf(sending[s])
  <2>2. front \in Seq(Events) /\ buf[s] \in Seq(Events)
    BY PieceTypes, ConcatProperties
  <2>3. Queue(s) = front \o buf[s] /\ Queue(s)' = front \o buf'[s]
    BY <1>5, <2>1 DEF Queue
  <2> HIDE DEF front
  <2>4. Offered(s) = published - 1 /\ Offered(s)' = published
    BY <1>1, <1>3, <1>7 DEF Offered
  <2>5. LastOffered' = [LastOffered EXCEPT ![s] = @ + 1] /\ LastOffered'[s] = published
    BY <1>2, <1>4, <2>4, OneSession, Views
  <2>6. \/ Waiting' = [Waiting EXCEPT ![s] = Append(@, published)]
        \/ Len(Waiting[s]) >= BufferSize /\ Waiting' = Waiting
    <3>1. CASE Len(buf[s]) < BufferSize
      <4>1. buf'[s] = Append(buf[s], published)
        BY <1>1, <3>1 DEF StreamInv, TypeOK
      <4>2. front \o Append(buf[s], published) = Append(front \o buf[s], published)
        BY <1>4, <2>2, ConcatFacts
      <4>3. Queue(s)' = Append(Queue(s), published)
        BY <2>3, <4>1, <4>2
      <4> QED
        BY <1>2, <4>3, OneSession, Views
    <3>2. CASE ~ (Len(buf[s]) < BufferSize)
      <4>1. Queue(s)' = Queue(s)
        BY <1>1, <2>3, <3>2
      <4>2. Len(front \o buf[s]) = Len(front) + Len(buf[s])
        BY <2>2, ConcatFacts
      <4>3. Len(front) \in Nat /\ Len(buf[s]) \in Nat /\ BufferSize \in Nat
        BY <2>2, StreamAssumption
      <4>4. Len(front \o buf[s]) >= BufferSize
        BY <3>2, <4>2, <4>3
      <4>5. Len(Queue(s)) >= BufferSize
        BY <2>3, <4>4
      <4> QED
        BY <1>2, <4>1, <4>5, OneSession, Views
    <3> QED
      BY <3>1, <3>2
  <2> QED
    BY <1>1, <1>3, <1>7, <2>5, <2>6 DEF AbstractFeed!Offer, browserVars
<1> QED
  BY <1>6, <1>7

-----------------------------------------------------------------------------
\* The steps of a session.

\* They are not seen by another one.
LEMMA OthersSame ==
    ASSUME StreamInv, NEW s \in Sessions,
           \/ OpenStream(s) \/ OpenFails(s) \/ HandlerSteps(s)
           \/ SelectSteps(s) \/ Heartbeat(s) \/ WriteEnds(s) \/ RecvSteps(s)
           \/ BrowserLeaves(s) \/ CancelArrives(s) \/ Break(s)
    PROVE  \A r \in Sessions \ {s} : Same(r)
<1>1. CASE OpenStream(s) \/ OpenFails(s)
  BY <1>1 DEF StreamInv, TypeOK, Same, OpenStream, OpenFails, busVars
<1>2. CASE HandlerSteps(s)
  <2>1. CASE Subscribe(s) \/ Unsubscribe(s) \/ CloseChannel(s)
    BY <2>1 DEF StreamInv, TypeOK, Same, Subscribe, Unsubscribe, CloseChannel, bridgeVars
  <2>2. CASE TakeEvent(s)
    BY <2>2 DEF StreamInv, TypeOK, Same, TakeEvent, bridgeVars
  <2>3. CASE Send(s) \/ StreamOver(s)
    BY <2>3 DEF StreamInv, TypeOK, Same, Send, StreamOver, busVars, bridgeVars
  <2> QED
    BY <1>2, <2>1, <2>2, <2>3 DEF HandlerSteps
<1>3. CASE SelectSteps(s) \/ Heartbeat(s) \/ WriteEnds(s)
  BY <1>3 DEF StreamInv, TypeOK, Same, SelectSteps, SeeCancelled, SeeError, Return,
              HandOver, Heartbeat, WriteEnds, busVars, callVars
<1>4. CASE RecvSteps(s)
  BY <1>4 DEF StreamInv, TypeOK, Same, RecvSteps, RecvEvent, RecvError, GiveUp,
              busVars, callVars
<1>5. CASE BrowserLeaves(s) \/ CancelArrives(s) \/ Break(s)
  BY <1>5 DEF StreamInv, TypeOK, Same, BrowserLeaves, CancelArrives, Break, busVars,
              callVars, bridgeVars
<1> QED
  BY <1>1, <1>2, <1>3, <1>4, <1>5

\* A request is not yet a session of the feed.
LEMMA RequestFeed ==
    ASSUME StreamInv, StreamInv', NEW s \in Sessions, OpenStream(s) \/ OpenFails(s)
    PROVE  UNCHANGED AbstractFeed!vars
<1>1. \A r \in Sessions \ {s} : Same(r)
  BY OthersSame
<1>2. Queue(s)' = Queue(s) /\ published' = published /\ todo' = todo /\ got' = got
  BY DEF OpenStream, OpenFails, Queue, Ahead, busVars
<1>3. h[s] = "none" /\ h'[s] \in {"start", "done"}
  BY DEF OpenStream, OpenFails, StreamInv, TypeOK, Registered
<1>4. s \notin Served /\ s \notin Served'
  BY <1>3 DEF Served
<1> QED
  BY <1>1, <1>2, <1>4, Unseen

\* A session joins when the handler has subscribed, unless its stream has
\* come to its end before.
LEMMA SubscribeFeed ==
    ASSUME StreamInv, StreamInv', NEW s \in Sessions, Subscribe(s)
    PROVE  AbstractFeed!Join(s) \/ UNCHANGED AbstractFeed!vars
<1>1. \A r \in Sessions \ {s} : Same(r)
  BY OthersSame DEF HandlerSteps
<1>2. /\ h[s] = "start" /\ h'[s] = "select" /\ subs' = subs \cup {s}
      /\ todo = {} /\ todo' = todo /\ published' = published /\ buf' = buf
      /\ UNCHANGED <<sending, wire, cut, bridgeVars, browserVars>>
  BY DEF Subscribe, StreamInv, TypeOK, Registered
<1>3. Queue(s)' = Queue(s) /\ got' = got
  BY <1>2 DEF Queue, Ahead, bridgeVars, browserVars
<1>4. s \notin Served
  BY <1>2 DEF Served
<1>5. CASE s \in cut \cup cancelled
  <2>1. s \notin Served'
    BY <1>2, <1>5 DEF Served, bridgeVars
  <2> QED
    BY <1>1, <1>2, <1>3, <1>4, <2>1, Unseen
<1>6. CASE s \notin cut \cup cancelled
  <2>1. s \in Served'
    BY <1>2, <1>6 DEF Served, bridgeVars
  <2>2. Offered(s)' = published /\ published \in Nat
    BY <1>2, <2>1 DEF Offered, StreamInv, TypeOK
  <2>3. /\ LastOffered' = [LastOffered EXCEPT ![s] = LastOffered'[s]]
        /\ LastOffered'[s] \in Nat
    BY <1>1, <2>2, OneSession, Views
  <2>4. Waiting' = Waiting
    BY <1>1, <1>3, OneSession, Views
  <2>5. got[s] = <<>> /\ Waiting[s] = <<>>
    <3>1. /\ buf[s] = <<>> /\ wire[s] = <<>> /\ got[s] = <<>>
          /\ received[s] = 0 /\ writing[s] = 0 /\ sending[s] = 0
      BY <1>2 DEF StreamInv, Holding
    <3>2. Ahead(s) = <<>> \o <<>> \o <<>> /\ Queue(s) = Ahead(s) \o <<>> \o <<>>
      BY <1>6, <3>1 DEF Ahead, Queue, OneOf
    <3>3. <<>> \o <<>> = <<>>
      OBVIOUS
    <3> QED
      BY <3>1, <3>2, <3>3, Views
  <2>6. Served' = Served \cup {s}
    BY <1>1, <2>1, OneSession
  <2> QED
    BY <1>3, <1>4, <2>3, <2>4, <2>5, <2>6 DEF AbstractFeed!Join
<1> QED
  BY <1>5, <1>6

\* The handler takes a publication from its channel.  One that passes the
\* filter still waits, one that does not is left out.
LEMMA TakeEventFeed ==
    ASSUME StreamInv, StreamInv', NEW s \in Sessions, TakeEvent(s)
    PROVE  AbstractFeed!Skip(s) \/ UNCHANGED AbstractFeed!vars
<1> DEFINE e == Head(buf[s])
<1>1. \A r \in Sessions \ {s} : Same(r)
  BY OthersSame DEF HandlerSteps
<1>2. /\ h[s] = "select" /\ buf[s] # <<>> /\ buf'[s] = Tail(buf[s])
      /\ h'[s] \in {"select", "send"}
      /\ UNCHANGED <<published, todo, subs, wire, cut, bridgeVars, browserVars>>
      /\ Wanted(s, e) => sending'[s] = e
      /\ ~ Wanted(s, e) => sending'[s] = sending[s]
  BY DEF TakeEvent, StreamInv, TypeOK
<1>3. s \in Served' <=> s \in Served
  BY <1>2 DEF Served, bridgeVars
<1>4. Ahead(s)' = Ahead(s) /\ cut' = cut /\ cancelled' = cancelled /\ got' = got
  BY <1>2 DEF Ahead, bridgeVars, browserVars
<1>5. sending[s] = 0
  BY <1>2 DEF StreamInv, Holding
<1>6. /\ Ahead(s) \in Seq(Events) /\ buf[s] \in Seq(Events)
      /\ OneOf(sending[s]) = <<>> /\ OneOf(0) = <<>>
  BY <1>5, PieceTypes
<1>7. e \in Events /\ Tail(buf[s]) \in Seq(Events) /\ OneOf(e) = <<e>>
  BY <1>2, <1>6, SeqFacts, PieceTypes
<1>8. CASE s \in cut \cup cancelled
  <2>1. Queue(s)' = Queue(s)
    BY <1>4, <1>8 DEF Queue
  <2> QED
    BY <1>1, <1>2, <1>3, <1>4, <2>1, Unseen
<1>9. CASE s \notin cut \cup cancelled
  <2>1. Queue(s) = Ahead(s) \o buf[s]
    BY <1>6, <1>9, ConcatEmptySeq DEF Queue
  <2>2. Queue(s)' = Ahead(s) \o OneOf(sending'[s]) \o Tail(buf[s])
    BY <1>2, <1>4, <1>9 DEF Queue
  <2>3. CASE Wanted(s, e)
    <3> DEFINE a == Ahead(s)
               b == buf[s]
    <3>1. /\ a \in Seq(Events) /\ b \in Seq(Events) /\ b # <<>>
          /\ Queue(s) = a \o b /\ Queue(s)' = a \o <<Head(b)>> \o Tail(b)
      BY <1>2, <1>6, <1>7, <2>1, <2>2, <2>3
    <3> HIDE DEF a, b
    <3>3. Queue(s)' = Queue(s)
      BY <3>1, TakeFirst
    <3> QED
      BY <1>1, <1>2, <1>3, <1>4, <3>3, Unseen
  <2>4. CASE ~ Wanted(s, e)
    <3> DEFINE a == Ahead(s)
               b == buf[s]
               q == Queue(s)
               i == Len(a) + 1
    <3>1. /\ a \in Seq(Events) /\ b \in Seq(Events) /\ b # <<>>
          /\ q = a \o b /\ Queue(s)' = a \o Tail(b)
      BY <1>2, <1>6, <2>1, <2>2, <2>4, ConcatEmptySeq
    <3> HIDE DEF a, b, q, e
    <3>2. /\ i \in DOMAIN q /\ q[i] = Head(b)
          /\ SubSeq(q, 1, Len(a)) \o SubSeq(q, Len(a) + 2, Len(q)) = a \o Tail(b)
      BY <3>1, ConcatFacts
    <3>3. i - 1 = Len(a) /\ i + 1 = Len(a) + 2
      BY <3>1
    <3> HIDE DEF i
    <3>4. Queue(s)' = SubSeq(q, 1, i - 1) \o SubSeq(q, i + 1, Len(q))
      BY <3>1, <3>2, <3>3
    <3>5. Waiting[s] = q /\ Waiting' = [Waiting EXCEPT ![s] = Queue(s)']
      BY <1>1, OneSession, Views DEF q
    <3>6. LastOffered' = LastOffered /\ Served' = Served
      <4>1. Offered(s)' = Offered(s)
        BY <1>2, <1>3 DEF Offered
      <4> QED
        BY <1>1, <1>3, <4>1, OneSession, Views
    <3>7. AbstractFeed!RemoveAt(Waiting[s], i) = Queue(s)'
      BY <3>4, <3>5 DEF AbstractFeed!RemoveAt
    <3>8. i \in DOMAIN Waiting[s] /\ ~ Wanted(s, Waiting[s][i])
      BY <2>4, <3>2, <3>5 DEF b, e
    <3>9. AbstractFeed!Skip(s)
      BY <1>4, <3>5, <3>6, <3>7, <3>8 DEF AbstractFeed!Skip
    <3> QED
      BY <3>9
  <2> QED
    BY <2>3, <2>4
<1> QED
  BY <1>8, <1>9

\* A message that is sent still waits, on the wire.
LEMMA SendMessageFeed ==
    ASSUME StreamInv, StreamInv', NEW s \in Sessions, Send(s)
    PROVE  UNCHANGED AbstractFeed!vars
<1>1. \A r \in Sessions \ {s} : Same(r)
  BY OthersSame DEF HandlerSteps
<1>2. /\ h[s] = "send" /\ h'[s] = "select" /\ s \notin cut /\ sending'[s] = 0
      /\ wire'[s] = Append(wire[s], sending[s])
      /\ UNCHANGED <<busVars, cut, bridgeVars, browserVars>>
  BY DEF Send, StreamInv, TypeOK
<1>3. /\ s \in Served' <=> s \in Served
      /\ todo' = todo /\ published' = published /\ got' = got
      /\ cancelled' = cancelled
  BY <1>2 DEF Served, busVars, bridgeVars, browserVars
<1>4. sending[s] \in Events
  BY <1>2, EventTypes DEF StreamInv, TypeOK, Holding
<1>5. Queue(s)' = Queue(s)
  <2>1. CASE s \in cancelled
    BY <1>3, <2>1 DEF Queue
  <2>2. CASE s \notin cancelled
    <3> DEFINE a == OneOf(writing[s]) \o OneOf(received[s])
               x == wire[s]
               e == sending[s]
               b == buf[s]
    <3>1. /\ a \in Seq(Events) /\ x \in Seq(Events) /\ b \in Seq(Events)
          /\ OneOf(e) = <<e>> /\ OneOf(0) = <<>>
      BY <1>4, PieceTypes, ConcatProperties
    <3>2. Queue(s) = (a \o x) \o <<e>> \o b
      BY <1>2, <2>2, <3>1 DEF Queue, Ahead
    <3>3. Queue(s)' = (a \o Append(x, e)) \o <<>> \o b
      BY <1>2, <1>3, <2>2, <3>1 DEF Queue, Ahead, busVars, bridgeVars
    <3>4. e \in Events
      BY <1>4
    <3> HIDE DEF a, x, e, b
    <3> QED
      BY <3>1, <3>2, <3>3, <3>4, PutLast
  <2> QED
    BY <2>1, <2>2
<1> QED
  BY <1>1, <1>3, <1>5, Unseen

\* The end of the indexer's handler is not seen: the session has come to its
\* end before, when its stream was cut.
LEMMA HandlerEndsFeed ==
    ASSUME StreamInv, StreamInv', NEW s \in Sessions,
           StreamOver(s) \/ Unsubscribe(s) \/ CloseChannel(s)
    PROVE  UNCHANGED AbstractFeed!vars
<1>1. \A r \in Sessions \ {s} : Same(r)
  BY OthersSame DEF HandlerSteps
<1>2. /\ h'[s] \in {"unsubscribe", "close", "done"}
      /\ s \in cut \/ h[s] = "unsubscribe" \/ h[s] = "close"
      /\ UNCHANGED <<published, todo, buf, wire, cut, bridgeVars, browserVars>>
      /\ s \notin cut => sending'[s] = sending[s]
  BY DEF StreamOver, Unsubscribe, CloseChannel, StreamInv, TypeOK, busVars
<1>3. s \in cut
  BY <1>2 DEF StreamInv, Ending
<1>4. s \notin Served /\ s \notin Served'
  BY <1>2, <1>3 DEF Served
<1>5. Queue(s)' = Queue(s) /\ got' = got
  BY <1>2, <1>3 DEF Queue, Ahead, bridgeVars, browserVars
<1> QED
  BY <1>1, <1>2, <1>4, <1>5, Unseen

\* A session comes to its end: nothing waits for it any more.
LEMMA CancelFeed ==
    ASSUME StreamInv, StreamInv', NEW s \in Sessions,
           \A r \in Sessions \ {s} : Same(r),
           s \in cancelled', got' = got
    PROVE  AbstractFeed!Cut(s)
<1>1. Queue(s)' = <<>> /\ s \notin Served'
  BY DEF Queue, Served
<1>2. Offered(s)' = 0
  BY <1>1 DEF Offered
<1>3. Queue(s) \in Seq(Events) /\ Waiting[s] = Queue(s)
  BY PieceTypes, Views
<1>4. 0 \in 0..Len(Waiting[s]) /\ SubSeq(Waiting[s], 1, 0) = <<>>
  BY <1>3
<1>5. Waiting' = [Waiting EXCEPT ![s] = SubSeq(Waiting[s], 1, 0)]
  BY <1>1, <1>4, OneSession
<1>6. Served' = Served \ {s} /\ LastOffered' = [LastOffered EXCEPT ![s] = 0]
  BY <1>1, <1>2, OneSession
<1> QED
  BY <1>4, <1>5, <1>6 DEF AbstractFeed!Cut

\* The handler of the gateway sees an error or the browser leaves: the
\* session ends; that it has ended is not seen a second time.
LEMMA EndFeed ==
    ASSUME StreamInv, StreamInv', NEW s \in Sessions,
           SeeCancelled(s) \/ SeeError(s) \/ BrowserLeaves(s)
    PROVE  AbstractFeed!Cut(s)
<1>1. \A r \in Sessions \ {s} : Same(r)
  BY OthersSame DEF SelectSteps
<1>2. s \in cancelled' /\ got' = got
  BY DEF SeeCancelled, SeeError, BrowserLeaves, Return, browserVars
<1> QED
  BY <1>1, <1>2, CancelFeed

\* recvLoop hands an event to the handler, or the handler begins a ping.
LEMMA HandOverFeed ==
    ASSUME StreamInv, StreamInv', NEW s \in Sessions, HandOver(s) \/ Heartbeat(s)
    PROVE  UNCHANGED AbstractFeed!vars
<1>1. \A r \in Sessions \ {s} : Same(r)
  BY OthersSame DEF SelectSteps
<1>2. /\ UNCHANGED <<busVars, callVars, cancelled, browserVars>>
      /\ gw[s] = "select"
      /\ \/ writing'[s] = received[s] /\ received'[s] = 0
         \/ writing'[s] = writing[s] /\ received'[s] = received[s]
  BY DEF HandOver, Heartbeat, StreamInv, TypeOK
<1>3. /\ s \in Served' <=> s \in Served
      /\ todo' = todo /\ published' = published /\ got' = got
  BY <1>2 DEF Served, busVars, callVars, browserVars
<1>4. writing[s] = 0
  BY <1>2 DEF StreamInv, Holding
<1>5. Ahead(s)' = Ahead(s)
  <2>1. CASE writing'[s] = writing[s] /\ received'[s] = received[s]
    BY <1>2, <2>1 DEF Ahead, callVars
  <2>2. CASE writing'[s] = received[s] /\ received'[s] = 0
    <3> DEFINE r == OneOf(received[s])
    <3>1. OneOf(0) = <<>> /\ r \in Seq(Events)
      BY PieceTypes
    <3>2. Ahead(s) = (<<>> \o r) \o wire[s] /\ Ahead(s)' = (r \o <<>>) \o wire[s]
      BY <1>2, <1>4, <2>2, <3>1 DEF Ahead, callVars
    <3> HIDE DEF r
    <3>3. <<>> \o r = r /\ r \o <<>> = r
      BY <3>1, ConcatEmptySeq
    <3> QED
      BY <3>2, <3>3
  <2> QED
    BY <1>2, <2>1, <2>2
<1>6. Queue(s)' = Queue(s)
  BY <1>2, <1>5 DEF Queue, busVars, callVars
<1> QED
  BY <1>1, <1>3, <1>6, Unseen

\* The browser reads an event: the first that waits is delivered.  A ping,
\* and a write to a browser that has left, deliver nothing.
LEMMA WriteFeed ==
    ASSUME StreamInv, StreamInv', NEW s \in Sessions, WriteEnds(s)
    PROVE  AbstractFeed!Deliver(s) \/ UNCHANGED AbstractFeed!vars
<1>1. \A r \in Sessions \ {s} : Same(r)
  BY OthersSame
<1>2. /\ gw[s] = "write" /\ writing'[s] = 0
      /\ UNCHANGED <<busVars, callVars, received, cancelled, browser>>
      /\ got' = IF browser[s] = "here" /\ writing[s] # 0
                THEN [got EXCEPT ![s] = Append(@, writing[s])] ELSE got
  BY DEF WriteEnds, StreamInv, TypeOK
<1>3. /\ s \in Served' <=> s \in Served
      /\ todo' = todo /\ published' = published
  BY <1>2 DEF Served, busVars, callVars
<1>4. CASE s \in cancelled \/ writing[s] = 0
  <2>1. Queue(s)' = Queue(s)
    BY <1>2, <1>4 DEF Queue, Ahead, busVars, callVars
  <2>2. got' = got
    BY <1>2, <1>4 DEF StreamInv, Ending
  <2> QED
    BY <1>1, <1>3, <2>1, <2>2, Unseen
<1>5. CASE s \notin cancelled /\ writing[s] # 0
  <2> DEFINE e == writing[s]
             r == OneOf(received[s])
             x == wire[s]
             o == OneOf(sending[s])
             b == buf[s]
  <2>1. browser[s] = "here" /\ Wanted(s, e) /\ e \in Events
    BY <1>2, <1>5, EventTypes DEF StreamInv, TypeOK, Ending, Filtered
  <2>2. /\ r \in Seq(Events) /\ x \in Seq(Events) /\ o \in Seq(Events)
        /\ b \in Seq(Events) /\ OneOf(e) = <<e>> /\ OneOf(0) = <<>>
    BY <2>1, PieceTypes
  <2>3. \/ Queue(s) = <<e>> \o r \o x /\ Queue(s)' = <<>> \o r \o x
        \/ Queue(s) = <<e>> \o r \o x \o o \o b /\ Queue(s)' = <<>> \o r \o x \o o \o b
    <3>1. Ahead(s) = <<e>> \o r \o x /\ Ahead(s)' = <<>> \o r \o x
      BY <1>2, <2>2 DEF Ahead, callVars
    <3> QED
      BY <1>2, <1>5, <3>1 DEF Queue, busVars, callVars
  <2>4. got' = [got EXCEPT ![s] = Append(@, e)]
    BY <1>2, <1>5, <2>1
  <2> HIDE DEF e, r, x, o, b
  <2>5. Queue(s)' \in Seq(Events) /\ Queue(s) = <<e>> \o Queue(s)'
    <3>1. e \in Events
      BY <2>1
    <3>2. <<e>> \in Seq(Events) /\ <<>> \o r = r
      BY <2>2, <3>1, ConcatEmptySeq
    <3> DEFINE y == r \o x
               z == y \o o
    <3>3. y \in Seq(Events) /\ (<<e>> \o r) \o x = <<e>> \o y
      BY <2>2, <3>2, ConcatAssociative, ConcatProperties
    <3> HIDE DEF y
    <3>4. z \in Seq(Events) /\ (<<e>> \o y) \o o = <<e>> \o z
      BY <2>2, <3>2, <3>3, ConcatAssociative, ConcatProperties
    <3> HIDE DEF z
    <3>5. z \o b \in Seq(Events) /\ (<<e>> \o z) \o b = <<e>> \o (z \o b)
      BY <2>2, <3>2, <3>4, ConcatAssociative, ConcatProperties
    <3>6. \/ Queue(s) = <<e>> \o y /\ Queue(s)' = y
          \/ Queue(s) = <<e>> \o z \o b /\ Queue(s)' = z \o b
      BY <2>3, <3>2, <3>3, <3>4 DEF y, z
    <3> QED
      BY <3>3, <3>5, <3>6
  <2>6. Queue(s) # <<>> /\ Head(Queue(s)) = e /\ Tail(Queue(s)) = Queue(s)'
    BY <2>1, <2>5, ConsFacts
  <2>7. Waiting[s] = Queue(s) /\ Waiting' = [Waiting EXCEPT ![s] = Queue(s)']
    BY <1>1, OneSession, Views
  <2>8. LastOffered' = LastOffered /\ Served' = Served
    <3>1. Offered(s)' = Offered(s)
      BY <1>3 DEF Offered
    <3> QED
      BY <1>1, <1>3, <3>1, OneSession, Views
  <2>9. AbstractFeed!Deliver(s)
    BY <2>1, <2>4, <2>6, <2>7, <2>8 DEF AbstractFeed!Deliver
  <2> QED
    BY <2>9
<1> QED
  BY <1>4, <1>5

\* recvLoop takes a message from the wire, or comes to its end.
LEMMA RecvFeed ==
    ASSUME StreamInv, StreamInv', NEW s \in Sessions, RecvSteps(s)
    PROVE  UNCHANGED AbstractFeed!vars
<1>1. \A r \in Sessions \ {s} : Same(r)
  BY OthersSame
<1>2. UNCHANGED <<busVars, h, sending, cut, writing, cancelled, browserVars>>
  BY DEF RecvSteps, RecvEvent, RecvError, GiveUp, callVars
<1>3. /\ s \in Served' <=> s \in Served
      /\ todo' = todo /\ published' = published /\ got' = got
  BY <1>2 DEF Served, busVars, browserVars
<1>4. CASE RecvEvent(s)
  <2>1. /\ wire[s] # <<>> /\ received'[s] = Head(wire[s]) /\ wire'[s] = Tail(wire[s])
        /\ received[s] = 0
    BY <1>4 DEF RecvEvent, StreamInv, TypeOK, Holding
  <2> DEFINE w == OneOf(writing[s])
             x == wire[s]
  <2>2. w \in Seq(Events) /\ x \in Seq(Events) /\ OneOf(0) = <<>>
    BY PieceTypes
  <2>3. Head(x) \in Events /\ OneOf(Head(x)) = <<Head(x)>>
    BY <2>1, <2>2, SeqFacts, PieceTypes
  <2>4. Ahead(s) = (w \o <<>>) \o x /\ Ahead(s)' = w \o <<Head(x)>> \o Tail(x)
    BY <1>2, <2>1, <2>2, <2>3 DEF Ahead
  <2>5. x # <<>>
    BY <2>1
  <2> HIDE DEF w, x
  <2>6. Ahead(s)' = Ahead(s)
    BY <2>2, <2>4, <2>5, TakeFirst, ConcatEmptySeq
  <2>7. Queue(s)' = Queue(s)
    BY <1>2, <2>6 DEF Queue, busVars
  <2> QED
    BY <1>1, <1>3, <2>7, Unseen
<1>5. CASE RecvError(s) \/ GiveUp(s)
  <2>1. Queue(s)' = Queue(s)
    BY <1>5 DEF RecvError, GiveUp, Queue, Ahead, busVars, callVars
  <2> QED
    BY <1>1, <1>3, <2>1, Unseen
<1> QED
  BY <1>4, <1>5 DEF RecvSteps

\* The stream is cut.  When the gateway has cancelled it the session has come
\* to its end before; when the connection breaks, of what waits a first part
\* is still delivered.
LEMMA CutFeed ==
    ASSUME StreamInv, StreamInv', NEW s \in Sessions, CancelArrives(s) \/ Break(s)
    PROVE  AbstractFeed!Cut(s)
<1>1. \A r \in Sessions \ {s} : Same(r)
  BY OthersSame
<1>2. /\ UNCHANGED <<busVars, h, sending, bridgeVars, browserVars>>
      /\ s \notin cut /\ s \in cut' /\ got' = got /\ cancelled' = cancelled
  BY DEF CancelArrives, Break, bridgeVars, browserVars
<1>3. CASE s \in cancelled
  BY <1>1, <1>2, <1>3, CancelFeed
<1>4. CASE s \notin cancelled
  <2>1. PICK n \in 0..Len(wire[s]) : wire'[s] = SubSeq(wire[s], 1, n)
    BY <1>4 DEF CancelArrives, Break, StreamInv, TypeOK
  <2> DEFINE a == OneOf(writing[s]) \o OneOf(received[s])
             x == wire[s]
             o == OneOf(sending[s])
             b == buf[s]
  <2>2. a \in Seq(Events) /\ x \in Seq(Events) /\ o \in Seq(Events) /\ b \in Seq(Events)
    BY PieceTypes, ConcatProperties
  <2>3. Queue(s) = (a \o x) \o o \o b
    BY <1>2, <1>4 DEF Queue, Ahead
  <2>4. Queue(s)' = a \o SubSeq(x, 1, n)
    BY <1>2, <1>4, <2>1 DEF Queue, Ahead, bridgeVars
  <2>5. n \in 0..Len(x)
    BY <2>1
  <2> HIDE DEF a, x, o, b
  <2>6. PICK m \in 0..Len(Queue(s)) : Queue(s)' = SubSeq(Queue(s), 1, m)
    <3> DEFINE m == Len(a) + n
               y == a \o x
               z == y \o o
    <3>1. y \in Seq(Events) /\ m \in 0..Len(y) /\ a \o SubSeq(x, 1, n) = SubSeq(y, 1, m)
      BY <2>2, <2>5, ConcatFacts
    <3> HIDE DEF m, y
    <3>2. z \in Seq(Events) /\ m \in 0..Len(z) /\ SubSeq(z, 1, m) = SubSeq(y, 1, m)
      BY <2>2, <3>1, PrefixOfFirst, ConcatProperties
    <3> HIDE DEF z
    <3>3. m \in 0..Len(z \o b) /\ SubSeq(z \o b, 1, m) = SubSeq(z, 1, m)
      BY <2>2, <3>2, PrefixOfFirst
    <3>4. Queue(s) = z \o b
      BY <2>3 DEF y, z
    <3> QED
      BY <2>4, <3>1, <3>2, <3>3, <3>4
  <2>7. s \notin Served'
    BY <1>2 DEF Served
  <2>8. Offered(s)' = 0
    BY <2>7 DEF Offered
  <2>9. /\ Served' = Served \ {s} /\ LastOffered' = [LastOffered EXCEPT ![s] = 0]
        /\ Waiting[s] = Queue(s)
        /\ Waiting' = [Waiting EXCEPT ![s] = SubSeq(Waiting[s], 1, m)]
    BY <1>1, <2>6, <2>7, <2>8, OneSession, Views
  <2>10. m \in 0..Len(Waiting[s])
    BY <2>6, <2>9
  <2> QED
    BY <1>2, <2>9, <2>10 DEF AbstractFeed!Cut
<1> QED
  BY <1>3, <1>4

-----------------------------------------------------------------------------
\* The refinement.

\* At first no session is served and nothing waits.
LEMMA FeedInit == Init => AbstractFeed!Init
<1> SUFFICES ASSUME Init
             PROVE  AbstractFeed!Init
  OBVIOUS
<1>1. Served = {}
  BY DEF Init, Served
<1>2. LastOffered = [s \in Sessions |-> 0]
  BY <1>1 DEF LastOffered
<1>3. \A s \in Sessions : Queue(s) = <<>>
  <2>1. <<>> \o <<>> = <<>>
    OBVIOUS
  <2> QED
    BY <2>1 DEF Init, Queue, Ahead, OneOf
<1>4. Waiting = [s \in Sessions |-> <<>>]
  BY <1>3, Views
<1> QED
  BY <1>1, <1>2, <1>4 DEF Init, AbstractFeed!Init

\* Every step of the pipeline is a step of the feed or leaves it as it is.
LEMMA FeedStep ==
    StreamInv /\ StreamInv' /\ [Next]_vars => [AbstractFeed!Next]_(AbstractFeed!vars)
<1> SUFFICES ASSUME StreamInv, StreamInv', [Next]_vars
             PROVE  AbstractFeed!Next \/ UNCHANGED AbstractFeed!vars
  OBVIOUS
<1>1. CASE PublishLock \/ PublishUnlock
  BY <1>1, LockFeed
<1>2. ASSUME NEW s \in Sessions, PublishSend(s)
      PROVE  AbstractFeed!Next \/ UNCHANGED AbstractFeed!vars
  BY <1>2, SendFeed DEF AbstractFeed!Next
<1>3. ASSUME NEW s \in Sessions, OpenStream(s) \/ OpenFails(s)
      PROVE  UNCHANGED AbstractFeed!vars
  BY <1>3, RequestFeed
<1>4. ASSUME NEW s \in Sessions, HandlerSteps(s)
      PROVE  AbstractFeed!Next \/ UNCHANGED AbstractFeed!vars
  <2>1. CASE Subscribe(s)
    BY <2>1, SubscribeFeed DEF AbstractFeed!Next
  <2>2. CASE TakeEvent(s)
    BY <2>2, TakeEventFeed DEF AbstractFeed!Next
  <2>3. CASE Send(s)
    BY <2>3, SendMessageFeed
  <2>4. CASE StreamOver(s) \/ Unsubscribe(s) \/ CloseChannel(s)
    BY <2>4, HandlerEndsFeed
  <2> QED
    BY <1>4, <2>1, <2>2, <2>3, <2>4 DEF HandlerSteps
<1>5. ASSUME NEW s \in Sessions, SelectSteps(s) \/ Heartbeat(s) \/ BrowserLeaves(s)
      PROVE  AbstractFeed!Next \/ UNCHANGED AbstractFeed!vars
  <2>1. CASE SeeCancelled(s) \/ SeeError(s) \/ BrowserLeaves(s)
    BY <2>1, EndFeed DEF AbstractFeed!Next
  <2>2. CASE HandOver(s) \/ Heartbeat(s)
    BY <2>2, HandOverFeed
  <2> QED
    BY <1>5, <2>1, <2>2 DEF SelectSteps
<1>6. ASSUME NEW s \in Sessions, WriteEnds(s)
      PROVE  AbstractFeed!Next \/ UNCHANGED AbstractFeed!vars
  BY <1>6, WriteFeed DEF AbstractFeed!Next
<1>7. ASSUME NEW s \in Sessions, RecvSteps(s)
      PROVE  UNCHANGED AbstractFeed!vars
  BY <1>7, RecvFeed
<1>8. ASSUME NEW s \in Sessions, CancelArrives(s) \/ Break(s)
      PROVE  AbstractFeed!Next
  BY <1>8, CutFeed DEF AbstractFeed!Next
<1>9. CASE UNCHANGED vars
  BY <1>9 DEF AbstractFeed!vars, Served, LastOffered, Waiting, Ahead, vars, busVars,
              callVars, bridgeVars, browserVars
<1> QED
  BY <1>1, <1>2, <1>3, <1>4, <1>5, <1>6, <1>7, <1>8, <1>9 DEF Next, PublishSteps

\* The two services, the stream between them, the gateway's two goroutines
\* and the browsers are together the at-most-once feed that the comment on
\* Broadcaster.Publish promises, for any number of sessions, any buffer and
\* window and any filters: a session gets what it asked for in the order of
\* the Publish calls and nothing twice, and a publication is left out only
\* when the channel was full or the session had come to its end.
THEOREM PipelineIsFeed == Spec => ImplementsFeed
  BY StreamInvariant, FeedInit, FeedStep, PTL
  DEF Spec, ImplementsFeed, AbstractFeed!Spec

-----------------------------------------------------------------------------
\* What the feed means for a browser.

Increasing(q) == \A i, j \in DOMAIN q : i < j => q[i] < q[j]

\* What the browser has read of a session and what waits for it follow each
\* other in the order of the Publish calls, up to the last one offered.
Ordered(s) ==
    /\ Increasing(got[s]) /\ Increasing(Waiting[s])
    /\ \A i \in DOMAIN got[s], j \in DOMAIN Waiting[s] : got[s][i] < Waiting[s][j]
    /\ s \in Served =>
        /\ \A i \in DOMAIN got[s] : got[s][i] <= LastOffered[s]
        /\ \A j \in DOMAIN Waiting[s] : Waiting[s][j] <= LastOffered[s]
    /\ \A i \in DOMAIN got[s] : Wanted(s, got[s][i])

FeedOrdered == \A s \in Sessions : Ordered(s)

\* Every browser reads publications it asked for, in the order of the Publish
\* calls and none twice.
ReadInOrder ==
    \A s \in Sessions :
        Increasing(got[s]) /\ \A i \in DOMAIN got[s] : Wanted(s, got[s][i])

\* The types of what the feed shows.
LEMMA FeedTypes ==
    ASSUME StreamInv
    PROVE  /\ got \in [Sessions -> Seq(Events)]
           /\ Waiting \in [Sessions -> Seq(Events)]
           /\ LastOffered \in [Sessions -> Nat]
<1>1. got \in [Sessions -> Seq(Events)]
  BY DEF StreamInv, TypeOK
<1>2. Waiting \in [Sessions -> Seq(Events)]
  BY PieceTypes, Views
<1>3. \A s \in Sessions : Offered(s) \in Nat
  <2> SUFFICES ASSUME NEW s \in Sessions
               PROVE  Offered(s) \in Nat
    OBVIOUS
  <2>1. published \in Nat /\ (s \in todo => published > 0)
    BY DEF StreamInv, TypeOK, Registered, Holding
  <2> QED
    BY <2>1 DEF Offered
<1>4. LastOffered \in [Sessions -> Nat]
  BY <1>3, Views
<1> QED
  BY <1>1, <1>2, <1>4

\* Elements of a sequence without its i-th element.
LEMMA WithoutOne ==
    ASSUME NEW S, NEW q \in Seq(S), NEW i \in DOMAIN q
    PROVE  LET p == SubSeq(q, 1, i - 1) \o SubSeq(q, i + 1, Len(q))
           IN  /\ DOMAIN p = 1..(Len(q) - 1)
               /\ \A j \in 1..(Len(q) - 1) : p[j] = IF j < i THEN q[j] ELSE q[j + 1]
<1> DEFINE a == SubSeq(q, 1, i - 1)
           b == SubSeq(q, i + 1, Len(q))
<1>1. i \in 1..Len(q) /\ Len(q) \in Nat
  OBVIOUS
<1>2. /\ a \in Seq(S) /\ Len(a) = i - 1
      /\ \A j \in 1..(i - 1) : a[j] = q[j]
  BY <1>1
<1>3. /\ b \in Seq(S) /\ Len(b) = Len(q) - i
      /\ \A j \in 1..(Len(q) - i) : b[j] = q[i + j]
  BY <1>1
<1> HIDE DEF a, b
<1>4. /\ a \o b \in Seq(S) /\ Len(a \o b) = Len(a) + Len(b)
      /\ \A j \in 1..(Len(a) + Len(b)) :
            (a \o b)[j] = IF j <= Len(a) THEN a[j] ELSE b[j - Len(a)]
  BY <1>2, <1>3, ConcatProperties
<1>5. Len(a) + Len(b) = Len(q) - 1
  BY <1>1, <1>2, <1>3
<1>6. DOMAIN (a \o b) = 1..(Len(q) - 1)
  BY <1>4, <1>5
<1>7. ASSUME NEW j \in 1..(Len(q) - 1)
      PROVE  (a \o b)[j] = IF j < i THEN q[j] ELSE q[j + 1]
  <2>1. (a \o b)[j] = IF j <= Len(a) THEN a[j] ELSE b[j - Len(a)]
    BY <1>4, <1>5
  <2>2. CASE j < i
    BY <1>1, <1>2, <2>1, <2>2
  <2>3. CASE j >= i
    <3>1. j - Len(a) \in 1..(Len(q) - i) /\ i + (j - Len(a)) = j + 1
      BY <1>1, <1>2, <2>3
    <3>2. b[j - Len(a)] = q[j + 1]
      BY <1>3, <3>1
    <3> QED
      BY <1>1, <1>2, <2>1, <2>3, <3>2
  <2>4. j < i \/ j >= i
    BY <1>1
  <2> QED
    BY <2>2, <2>3, <2>4
<1> QED
  BY <1>6, <1>7 DEF a, b

\* The steps of the feed keep the order of a session.
LEMMA OrderOfSession ==
    ASSUME StreamInv, StreamInv', NEW s \in Sessions, Ordered(s),
           \/ AbstractFeed!Join(s) \/ AbstractFeed!Offer(s) \/ AbstractFeed!Skip(s)
           \/ AbstractFeed!Deliver(s) \/ AbstractFeed!Cut(s)
    PROVE  Ordered(s)'
<1> DEFINE g == got[s]
           w == Waiting[s]
           n == LastOffered[s]
<1>1. /\ got \in [Sessions -> Seq(Events)] /\ Waiting \in [Sessions -> Seq(Events)]
      /\ LastOffered \in [Sessions -> Nat]
  BY FeedTypes
<1>2. /\ g \in Seq(Events) /\ w \in Seq(Events) /\ n \in Nat /\ Events \subseteq Nat
      /\ DOMAIN g = 1..Len(g) /\ DOMAIN w = 1..Len(w) /\ Len(g) \in Nat /\ Len(w) \in Nat
      /\ \A i \in DOMAIN g : g[i] \in Nat
      /\ \A i \in DOMAIN w : w[i] \in Nat
  BY <1>1, EventTypes
<1>3. CASE AbstractFeed!Join(s)
  <2>1. got'[s] = <<>> /\ Waiting'[s] = <<>>
    BY <1>3 DEF AbstractFeed!Join
  <2> QED
    BY <2>1 DEF Ordered, Increasing
<1>4. CASE AbstractFeed!Offer(s)
  <2>1. /\ s \in Served /\ Served' = Served /\ got'[s] = g
        /\ LastOffered'[s] = n + 1
        /\ Waiting'[s] = Append(w, n + 1) \/ Waiting'[s] = w
    BY <1>1, <1>4 DEF AbstractFeed!Offer
  <2>2. /\ \A i \in DOMAIN g : g[i] <= n
        /\ \A i \in DOMAIN w : w[i] <= n
        /\ Increasing(g) /\ Increasing(w)
        /\ \A i \in DOMAIN g, j \in DOMAIN w : g[i] < w[j]
        /\ \A i \in DOMAIN g : Wanted(s, g[i])
    BY <2>1 DEF Ordered
  <2>3. CASE Waiting'[s] = w
    <3> HIDE DEF g, w, n
    <3>1. /\ \A i \in DOMAIN g : g[i] <= n + 1
          /\ \A i \in DOMAIN w : w[i] <= n + 1
      BY <1>2, <2>2
    <3> QED
      BY <2>1, <2>2, <2>3, <3>1 DEF Ordered
  <2>4. CASE Waiting'[s] = Append(w, n + 1)
    <3> DEFINE v == Append(w, n + 1)
    <3>1. /\ DOMAIN v = 1..(Len(w) + 1) /\ v[Len(w) + 1] = n + 1
          /\ \A i \in DOMAIN w : v[i] = w[i]
      BY <1>2
    <3> HIDE DEF v
    <3>2. \A i \in DOMAIN v : i \in DOMAIN w \/ i = Len(w) + 1
      BY <1>2, <3>1
    <3> HIDE DEF g, w, n
    <3>3. Increasing(v)
      BY <1>2, <2>2, <3>1, <3>2 DEF Increasing
    <3>4. \A i \in DOMAIN g, j \in DOMAIN v : g[i] < v[j]
      BY <1>2, <2>2, <3>1, <3>2
    <3>5. /\ \A i \in DOMAIN g : g[i] <= n + 1
          /\ \A i \in DOMAIN v : v[i] <= n + 1
      BY <1>2, <2>2, <3>1, <3>2
    <3> QED
      BY <2>1, <2>2, <2>4, <3>3, <3>4, <3>5 DEF Ordered, v
  <2> QED
    BY <2>1, <2>3, <2>4
<1>5. CASE AbstractFeed!Skip(s)
  <2>1. PICK i \in DOMAIN w : Waiting'[s] = AbstractFeed!RemoveAt(w, i)
    BY <1>1, <1>5 DEF AbstractFeed!Skip
  <2>2. got'[s] = g /\ LastOffered'[s] = n /\ Served' = Served
    BY <1>5 DEF AbstractFeed!Skip
  <2> DEFINE v == SubSeq(w, 1, i - 1) \o SubSeq(w, i + 1, Len(w))
  <2>3. Waiting'[s] = v
    BY <2>1 DEF AbstractFeed!RemoveAt
  <2> HIDE DEF g, w, n
  <2>4. /\ DOMAIN v = 1..(Len(w) - 1)
        /\ \A j \in 1..(Len(w) - 1) : v[j] = IF j < i THEN w[j] ELSE w[j + 1]
    BY <1>2, WithoutOne
  <2> HIDE DEF v
  <2>5. \A j \in DOMAIN v : \E k \in DOMAIN w : v[j] = w[k]
    <3>1. \A j \in DOMAIN v : j \in DOMAIN w /\ j + 1 \in DOMAIN w
      BY <1>2, <2>4
    <3>2. \A j \in DOMAIN v : v[j] = w[j] \/ v[j] = w[j + 1]
      BY <2>4
    <3> QED
      BY <3>1, <3>2
  <2>6. Increasing(w) => Increasing(v)
    <3>1. i \in 1..Len(w)
      BY <1>2, <2>1
    <3> SUFFICES ASSUME Increasing(w), NEW j \in DOMAIN v, NEW k \in DOMAIN v, j < k
                 PROVE  v[j] < v[k]
      BY DEF Increasing
    <3>2. /\ j \in DOMAIN w /\ j + 1 \in DOMAIN w /\ k \in DOMAIN w /\ k + 1 \in DOMAIN w
          /\ j < k + 1 /\ j + 1 < k + 1
      BY <1>2, <2>4
    <3>3. w[j] < w[k] /\ w[j] < w[k + 1] /\ w[j + 1] < w[k + 1]
      BY <3>2 DEF Increasing
    <3>4. (k < i => j < i) /\ j \in Int /\ k \in Int /\ i \in Int
      BY <1>2, <2>4, <3>1
    <3> QED
      BY <2>4, <3>3, <3>4
  <2> QED
    BY <2>2, <2>3, <2>5, <2>6 DEF Ordered, g, w, n
<1>6. CASE AbstractFeed!Deliver(s)
  <2>1. /\ w # <<>> /\ Wanted(s, Head(w)) /\ got'[s] = Append(g, Head(w))
        /\ Waiting'[s] = Tail(w) /\ LastOffered'[s] = n /\ Served' = Served
    BY <1>1, <1>6 DEF AbstractFeed!Deliver
  <2> DEFINE u == Append(g, Head(w))
             v == Tail(w)
  <2>2. /\ 1 \in DOMAIN w /\ Head(w) = w[1]
        /\ DOMAIN v = 1..(Len(w) - 1) /\ \A j \in DOMAIN v : v[j] = w[j + 1]
        /\ DOMAIN u = 1..(Len(g) + 1) /\ u[Len(g) + 1] = w[1]
        /\ \A j \in DOMAIN g : u[j] = g[j]
    BY <1>2, <2>1
  <2>3. /\ Increasing(g) /\ Increasing(w)
        /\ \A i \in DOMAIN g, j \in DOMAIN w : g[i] < w[j]
        /\ s \in Served => /\ \A i \in DOMAIN g : g[i] <= n
                           /\ \A i \in DOMAIN w : w[i] <= n
        /\ \A i \in DOMAIN g : Wanted(s, g[i])
    BY DEF Ordered
  <2> HIDE DEF g, w, n, u, v
  <2>4. \A j \in DOMAIN v : j + 1 \in DOMAIN w /\ 1 < j + 1
    BY <1>2, <2>2
  <2>5. \A i \in DOMAIN u : i \in DOMAIN g \/ i = Len(g) + 1
    BY <1>2, <2>2
  <2>6. Increasing(u)
    <3> SUFFICES ASSUME NEW i \in DOMAIN u, NEW j \in DOMAIN u, i < j
                 PROVE  u[i] < u[j]
      BY DEF Increasing
    <3>1. i \in DOMAIN g
      BY <1>2, <2>2
    <3>2. CASE j \in DOMAIN g
      BY <2>2, <2>3, <3>1, <3>2 DEF Increasing
    <3>3. CASE j = Len(g) + 1
      BY <2>2, <2>3, <3>1, <3>3
    <3> QED
      BY <2>5, <3>2, <3>3
  <2>7. Increasing(v)
    BY <1>2, <2>2, <2>3, <2>4 DEF Increasing
  <2>8. \A i \in DOMAIN u, j \in DOMAIN v : u[i] < v[j]
    <3>1. \A j \in DOMAIN v : w[1] < v[j]
      BY <2>2, <2>3, <2>4 DEF Increasing
    <3>2. \A i \in DOMAIN g, j \in DOMAIN v : g[i] < v[j]
      BY <2>2, <2>3, <2>4
    <3> QED
      BY <2>2, <2>5, <3>1, <3>2
  <2>9. s \in Served => /\ \A i \in DOMAIN u : u[i] <= n
                        /\ \A j \in DOMAIN v : v[j] <= n
    BY <2>2, <2>3, <2>4, <2>5
  <2>10. \A i \in DOMAIN u : Wanted(s, u[i])
    BY <2>1, <2>2, <2>3, <2>5
  <2> QED
    BY <2>1, <2>6, <2>7, <2>8, <2>9, <2>10 DEF Ordered, u, v
<1>7. CASE AbstractFeed!Cut(s)
  <2>1. PICK m \in 0..Len(w) : Waiting'[s] = SubSeq(w, 1, m)
    BY <1>1, <1>7 DEF AbstractFeed!Cut
  <2>2. got'[s] = g /\ s \notin Served'
    BY <1>7 DEF AbstractFeed!Cut
  <2> DEFINE v == SubSeq(w, 1, m)
  <2>3. DOMAIN v \subseteq DOMAIN w /\ \A j \in DOMAIN v : v[j] = w[j]
    BY <1>2
  <2> HIDE DEF v
  <2>4. Increasing(w) => Increasing(v)
    BY <2>3 DEF Increasing
  <2> QED
    BY <2>1, <2>2, <2>3, <2>4 DEF Ordered, v
<1> QED
  BY <1>3, <1>4, <1>5, <1>6, <1>7

\* Every step of the pipeline keeps the order of all sessions.
LEMMA OrderStep ==
    StreamInv /\ StreamInv' /\ FeedOrdered /\ [Next]_vars => FeedOrdered'
<1> SUFFICES ASSUME StreamInv, StreamInv', FeedOrdered, [Next]_vars
             PROVE  FeedOrdered'
  OBVIOUS
<1>1. /\ got \in [Sessions -> Seq(Events)] /\ Waiting \in [Sessions -> Seq(Events)]
      /\ LastOffered \in [Sessions -> Nat]
  BY FeedTypes
<1>2. AbstractFeed!Next \/ UNCHANGED AbstractFeed!vars
  BY FeedStep
<1>3. CASE UNCHANGED AbstractFeed!vars
  BY <1>3 DEF AbstractFeed!vars, FeedOrdered, Ordered
<1>4. CASE AbstractFeed!Next
  <2>1. PICK s \in Sessions :
            \/ AbstractFeed!Join(s) \/ AbstractFeed!Offer(s) \/ AbstractFeed!Skip(s)
            \/ AbstractFeed!Deliver(s) \/ AbstractFeed!Cut(s)
    BY <1>4 DEF AbstractFeed!Next
  <2>2. Ordered(s)'
    BY <2>1, OrderOfSession DEF FeedOrdered
  <2>3. ASSUME NEW r \in Sessions \ {s}
        PROVE  Ordered(r)'
    <3>1. /\ got'[r] = got[r] /\ Waiting'[r] = Waiting[r]
          /\ LastOffered'[r] = LastOffered[r]
          /\ r \in Served' <=> r \in Served
      <4>1. CASE AbstractFeed!Join(s)
        BY <1>1, <4>1 DEF AbstractFeed!Join
      <4>2. CASE AbstractFeed!Offer(s)
        BY <1>1, <4>2 DEF AbstractFeed!Offer
      <4>3. CASE AbstractFeed!Skip(s)
        BY <1>1, <4>3 DEF AbstractFeed!Skip
      <4>4. CASE AbstractFeed!Deliver(s)
        BY <1>1, <4>4 DEF AbstractFeed!Deliver
      <4>5. CASE AbstractFeed!Cut(s)
        BY <1>1, <4>5 DEF AbstractFeed!Cut
      <4> QED
        BY <2>1, <4>1, <4>2, <4>3, <4>4, <4>5
    <3>2. Ordered(r)
      BY DEF FeedOrdered
    <3> QED
      BY <3>1, <3>2 DEF Ordered
  <2> QED
    BY <2>2, <2>3 DEF FeedOrdered
<1> QED
  BY <1>2, <1>3, <1>4

\* However slow the browser, whatever breaks and whoever leaves, a browser
\* reads the certificates it asked for in the order in which the worker
\* published them, and none of them twice.
THEOREM BrowserReadsInOrder == Spec => []ReadInOrder
<1>1. Init => FeedOrdered
  <2> SUFFICES ASSUME Init
               PROVE  FeedOrdered
    OBVIOUS
  <2>1. got = [s \in Sessions |-> <<>>] /\ Waiting = [s \in Sessions |-> <<>>]
    BY FeedInit DEF AbstractFeed!Init
  <2> QED
    BY <2>1 DEF FeedOrdered, Ordered, Increasing
<1>2. FeedOrdered => ReadInOrder
  BY DEF FeedOrdered, Ordered, ReadInOrder
<1> QED
  BY StreamInvariant, OrderStep, <1>1, <1>2, PTL DEF Spec
=============================================================================
