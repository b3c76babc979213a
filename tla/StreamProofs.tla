---------------------------- MODULE StreamProofs ----------------------------
(***************************************************************************)
(* The pipeline of the live feed for any number of sessions, buffer sizes  *)
(* and publications: Publish never sends on a closed channel, and every    *)
(* publication is where the goroutines take it to be.                      *)
(***************************************************************************)
EXTENDS Stream, TLAPS

\* The order in which a handler registers, unregisters and closes its
\* channel, against the lock that Publish holds: while Publish works through
\* the subscribers nobody leaves, and a channel is closed by a handler that
\* is no subscriber any more.
Registered ==
    /\ h \in [Sessions -> {"none", "start", "select", "send", "unsubscribe",
                           "close", "done"}]
    /\ browser \in [Sessions -> {"out", "here", "left"}]
    /\ \A s \in Sessions : browser[s] = "out" => h[s] = "none"
    /\ subs \subseteq {s \in Sessions : h[s] \in {"select", "send", "unsubscribe"}}
    /\ closed \subseteq {s \in Sessions : h[s] = "done"}
    /\ todo \subseteq subs
    /\ ~ held => todo = {}

\* Where a publication can be: a goroutine holds one exactly while it is
\* sending or writing it, and a session that has not subscribed has none.
Holding ==
    /\ held => published > 0
    /\ \A s \in Sessions :
        /\ h[s] = "send" <=> sending[s] # 0
        /\ recv[s] = "give" <=> received[s] # 0
        /\ writing[s] # 0 => gw[s] = "write"
        /\ h[s] \in {"none", "start"} =>
            /\ buf[s] = <<>> /\ wire[s] = <<>> /\ got[s] = <<>>
            /\ received[s] = 0 /\ writing[s] = 0

\* Who has ended: the indexer's handler unsubscribes only when its stream is
\* cut, and the gateway's context is cancelled when the browser has left or
\* its handler has returned.
Ending ==
    \A s \in Sessions :
        /\ h[s] \in {"unsubscribe", "close"} => s \in cut
        /\ browser[s] = "out" => gw[s] = "none"
        /\ browser[s] = "left" => s \in cancelled \/ gw[s] = "done"
        /\ s \in cancelled => browser[s] = "left" \/ gw[s] = "done"

\* What has passed the owner filter of a session is what it asked for.
Filtered ==
    \A s \in Sessions :
        /\ \A i \in DOMAIN wire[s] : Wanted(s, wire[s][i])
        /\ \A e \in {sending[s], received[s], writing[s]} : e # 0 => Wanted(s, e)

\* The inductive invariant.
StreamInv == TypeOK /\ Registered /\ Holding /\ Ending /\ Filtered

\* Initially there is no subscriber.
LEMMA RegisteredInit == Init => Registered
  BY DEF Init, Registered

\* The steps of Publish: the subscribers are those of the map, under the lock.
LEMMA PublishRegistered ==
    ASSUME Registered, PublishLock \/ PublishSteps
    PROVE  Registered'
<1>1. CASE PublishLock
  BY <1>1 DEF Registered, PublishLock, callVars, browserVars
<1>2. ASSUME NEW s \in Sessions, PublishSend(s)
      PROVE  Registered'
  BY <1>2 DEF Registered, PublishSend, callVars, browserVars
<1>3. CASE PublishUnlock
  BY <1>3 DEF Registered, PublishUnlock, callVars, browserVars
<1> QED
  BY <1>1, <1>2, <1>3 DEF PublishSteps

\* The steps of the indexer's handler: it enters and leaves the map only when
\* Publish does not hold the lock, and closes the channel afterwards.
LEMMA HandlerRegistered ==
    ASSUME Registered, NEW s \in Sessions, HandlerSteps(s)
    PROVE  Registered'
<1>1. CASE Subscribe(s)
  BY <1>1 DEF Registered, Subscribe, browserVars
<1>2. CASE TakeEvent(s)
  BY <1>2 DEF Registered, TakeEvent, browserVars
<1>3. CASE Send(s)
  BY <1>3 DEF Registered, Send, busVars, browserVars
<1>4. CASE StreamOver(s)
  BY <1>4 DEF Registered, StreamOver, busVars, browserVars
<1>5. CASE Unsubscribe(s)
  BY <1>5 DEF Registered, Unsubscribe, browserVars
<1>6. CASE CloseChannel(s)
  BY <1>6 DEF Registered, CloseChannel, browserVars
<1> QED
  BY <1>1, <1>2, <1>3, <1>4, <1>5, <1>6 DEF HandlerSteps

\* A request begins a handler, or ends without one.
LEMMA RequestRegistered ==
    ASSUME Registered, NEW s \in Sessions, OpenStream(s) \/ OpenFails(s)
    PROVE  Registered'
<1>1. CASE OpenStream(s)
  BY <1>1 DEF Registered, OpenStream, busVars
<1>2. CASE OpenFails(s)
  BY <1>2 DEF Registered, OpenFails, busVars
<1> QED
  BY <1>1, <1>2

\* The gateway, the browser and the network touch neither the map nor the
\* handler.
LEMMA BridgeRegistered ==
    ASSUME Registered, NEW s \in Sessions,
           \/ SelectSteps(s) \/ Heartbeat(s) \/ WriteEnds(s) \/ RecvSteps(s)
           \/ BrowserLeaves(s) \/ CancelArrives(s) \/ Break(s)
    PROVE  Registered'
<1>1. /\ UNCHANGED <<h, subs, closed, todo, held>>
      /\ browser' \in [Sessions -> {"out", "here", "left"}]
      /\ \A r \in Sessions : browser'[r] = "out" => browser[r] = "out"
  <2>1. CASE SelectSteps(s)
    BY <2>1 DEF Registered, SelectSteps, SeeCancelled, SeeError, HandOver,
                busVars, callVars, browserVars
  <2>2. CASE Heartbeat(s) \/ WriteEnds(s)
    BY <2>2 DEF Registered, Heartbeat, WriteEnds, busVars, callVars, browserVars
  <2>3. CASE RecvSteps(s)
    BY <2>3 DEF Registered, RecvSteps, RecvEvent, RecvError, GiveUp,
                busVars, callVars, browserVars
  <2>4. CASE BrowserLeaves(s)
    BY <2>4 DEF Registered, BrowserLeaves, busVars, callVars
  <2>5. CASE CancelArrives(s) \/ Break(s)
    BY <2>5 DEF Registered, CancelArrives, Break, busVars, browserVars
  <2> QED
    BY <2>1, <2>2, <2>3, <2>4, <2>5
<1> QED
  BY <1>1 DEF Registered

\* Every step preserves the order of registration.
LEMMA RegisteredStep == Registered /\ [Next]_vars => Registered'
<1> SUFFICES ASSUME Registered, [Next]_vars
             PROVE  Registered'
  OBVIOUS
<1>1. CASE PublishLock \/ PublishSteps
  BY <1>1, PublishRegistered
<1>2. ASSUME NEW s \in Sessions, OpenStream(s) \/ OpenFails(s)
      PROVE  Registered'
  BY <1>2, RequestRegistered
<1>3. ASSUME NEW s \in Sessions, HandlerSteps(s)
      PROVE  Registered'
  BY <1>3, HandlerRegistered
<1>4. ASSUME NEW s \in Sessions,
             \/ SelectSteps(s) \/ Heartbeat(s) \/ WriteEnds(s) \/ RecvSteps(s)
             \/ BrowserLeaves(s) \/ CancelArrives(s) \/ Break(s)
      PROVE  Registered'
  BY <1>4, BridgeRegistered
<1>5. CASE UNCHANGED vars
  BY <1>5 DEF Registered, vars, busVars, callVars, browserVars
<1> QED
  BY <1>1, <1>2, <1>3, <1>4, <1>5 DEF Next

\* No interleaving of Publish with any number of handlers that come and go
\* makes it send on a closed channel, which would bring the indexer down.
THEOREM PublishIsSafe == Spec => []NoSendOnClosed
<1>1. Registered => NoSendOnClosed
  BY DEF Registered, NoSendOnClosed
<1> QED
  BY RegisteredInit, RegisteredStep, <1>1, PTL DEF Spec

-----------------------------------------------------------------------------
\* Sequences of publications.

\* What appending, taking the first and cutting off do to a sequence.
LEMMA SeqFacts ==
    ASSUME NEW S, NEW q \in Seq(S)
    PROVE  /\ \A e \in S : /\ Append(q, e) \in Seq(S)
                            /\ Len(Append(q, e)) = Len(q) + 1
                            /\ \A i \in 1..Len(q) : Append(q, e)[i] = q[i]
                            /\ Append(q, e)[Len(q) + 1] = e
           /\ q # <<>> => /\ Head(q) \in S /\ Tail(q) \in Seq(S)
                          /\ 1 \in 1..Len(q) /\ Head(q) = q[1]
                          /\ Len(Tail(q)) = Len(q) - 1
                          /\ \A i \in 1..Len(Tail(q)) : Tail(q)[i] = q[i + 1]
           /\ \A n \in 0..Len(q) : /\ SubSeq(q, 1, n) \in Seq(S)
                                    /\ Len(SubSeq(q, 1, n)) = n
                                    /\ \A i \in 1..n : SubSeq(q, 1, n)[i] = q[i]
           /\ DOMAIN q = 1..Len(q) /\ Len(q) \in Nat
<1>1. \A e \in S : /\ Append(q, e) \in Seq(S)
                   /\ Len(Append(q, e)) = Len(q) + 1
                   /\ \A i \in 1..Len(q) : Append(q, e)[i] = q[i]
                   /\ Append(q, e)[Len(q) + 1] = e
  OBVIOUS
<1>2. q # <<>> => /\ Head(q) \in S /\ Tail(q) \in Seq(S)
                  /\ 1 \in 1..Len(q) /\ Head(q) = q[1]
                  /\ Len(Tail(q)) = Len(q) - 1
                  /\ \A i \in 1..Len(Tail(q)) : Tail(q)[i] = q[i + 1]
  OBVIOUS
<1>3. \A n \in 0..Len(q) : /\ SubSeq(q, 1, n) \in Seq(S)
                           /\ Len(SubSeq(q, 1, n)) = n
                           /\ \A i \in 1..n : SubSeq(q, 1, n)[i] = q[i]
  OBVIOUS
<1>4. DOMAIN q = 1..Len(q) /\ Len(q) \in Nat
  OBVIOUS
<1> QED
  BY <1>1, <1>2, <1>3, <1>4

-----------------------------------------------------------------------------
\* Every publication has its place.

\* The invariant without the order of registration, which is proved above.
Placed == TypeOK /\ Holding /\ Ending /\ Filtered

\* Publications are numbered from 1; 0 stands for none.
LEMMA EventTypes ==
    /\ MaxEvents \in Nat /\ 0 \in 0..MaxEvents /\ 0 \notin Events
    /\ \A e \in Events : e \in 0..MaxEvents
    /\ \A e \in 0..MaxEvents : e # 0 => e \in Events
  BY StreamAssumption DEF Events

\* Initially there is nothing to deliver.
LEMMA StreamInit == Init => StreamInv
<1> SUFFICES ASSUME Init
             PROVE  StreamInv
  OBVIOUS
<1>1. TypeOK
  <2>1. <<>> \in Seq(Events) /\ Len(<<>>) = 0
    OBVIOUS
  <2>2. /\ buf \in [Sessions -> Seq(Events)] /\ wire \in [Sessions -> Seq(Events)]
        /\ got \in [Sessions -> Seq(Events)]
    BY <2>1 DEF Init
  <2>3. \A s \in Sessions : Len(buf[s]) <= BufferSize /\ Len(wire[s]) <= Window
    BY <2>1, StreamAssumption DEF Init
  <2> QED
    BY <2>2, <2>3, EventTypes DEF Init, TypeOK
<1>2. Holding /\ Ending /\ Filtered
  BY DEF Init, Holding, Ending, Filtered
<1> QED
  BY <1>1, <1>2, RegisteredInit DEF StreamInv

\* Publish takes the lock and gives it back.
LEMMA LockPlaced ==
    ASSUME StreamInv, PublishLock \/ PublishUnlock
    PROVE  Placed'
<1>1. CASE PublishLock
  <2>1. MaxEvents \in Nat
    BY StreamAssumption
  <2>2. TypeOK'
    BY <1>1, <2>1, EventTypes DEF StreamInv, TypeOK, Registered, Holding,
       PublishLock, callVars, bridgeVars, browserVars
  <2>3. Holding'
    BY <1>1, <2>1 DEF StreamInv, TypeOK, Registered, Holding, PublishLock,
       callVars, bridgeVars, browserVars
  <2>4. Ending'
    BY <1>1, <2>1 DEF StreamInv, TypeOK, Registered, Ending, PublishLock,
       callVars, bridgeVars, browserVars
  <2>5. Filtered'
    BY <1>1, <2>1 DEF StreamInv, TypeOK, Holding, Filtered, PublishLock,
       callVars, bridgeVars, browserVars
  <2> QED
    BY <2>2, <2>3, <2>4, <2>5 DEF Placed
<1>2. CASE PublishUnlock
  <2>1. TypeOK'
    BY <1>2, EventTypes DEF StreamInv, TypeOK, Registered, Holding,
       PublishUnlock, callVars, bridgeVars, browserVars
  <2>2. Holding'
    BY <1>2 DEF StreamInv, TypeOK, Registered, Holding, PublishUnlock,
       callVars, bridgeVars, browserVars
  <2>3. Ending'
    BY <1>2 DEF StreamInv, TypeOK, Registered, Ending, PublishUnlock,
       callVars, bridgeVars, browserVars
  <2>4. Filtered'
    BY <1>2 DEF StreamInv, TypeOK, Holding, Filtered, PublishUnlock, callVars,
       bridgeVars, browserVars
  <2> QED
    BY <2>1, <2>2, <2>3, <2>4 DEF Placed
<1> QED
  BY <1>1, <1>2

\* Publish sends to one subscriber.
LEMMA SendPlaced ==
    ASSUME StreamInv, NEW s \in Sessions, PublishSend(s)
    PROVE  Placed'
<1>1. CASE PublishSend(s)
  <2>1. published \in Events
    BY <1>1, EventTypes DEF StreamInv, TypeOK, Registered, Holding, PublishSend
  <2>2. /\ buf[s] \in Seq(Events)
        /\ Append(buf[s], published) \in Seq(Events)
        /\ Len(Append(buf[s], published)) = Len(buf[s]) + 1 /\ Len(buf[s]) \in Nat
    BY <2>1, SeqFacts DEF StreamInv, TypeOK
  <2>3. h[s] \notin {"none", "start"}
    BY <1>1 DEF StreamInv, Registered, PublishSend
  <2>4. BufferSize \in Nat
    BY StreamAssumption
  <2>5. TypeOK'
    <3>1. buf' \in [Sessions -> Seq(Events)]
      <4>1. buf' = buf \/ buf' = [buf EXCEPT ![s] = Append(buf[s], published)]
        BY <1>1 DEF PublishSend
      <4>2. buf \in [Sessions -> Seq(Events)]
        BY DEF StreamInv, TypeOK
      <4> QED
        BY <2>2, <4>1, <4>2
    <3>2. \A r \in Sessions : Len(buf'[r]) <= BufferSize
      <4> SUFFICES ASSUME NEW r \in Sessions
                   PROVE  Len(buf'[r]) <= BufferSize
        OBVIOUS
      <4>1. CASE r = s
        BY <1>1, <2>2, <2>4, <4>1 DEF StreamInv, TypeOK, PublishSend
      <4>2. CASE r # s
        BY <1>1, <4>2 DEF StreamInv, TypeOK, PublishSend
      <4> QED
        BY <4>1, <4>2
    <3> QED
      BY <1>1, <3>1, <3>2
      DEF StreamInv, TypeOK, PublishSend, callVars, bridgeVars, browserVars
  <2>6. Holding'
    BY <1>1, <2>1, <2>2, <2>3, <2>4 DEF StreamInv, TypeOK, Registered,
       Holding, PublishSend, callVars, bridgeVars, browserVars
  <2>7. Ending'
    BY <1>1, <2>1, <2>2, <2>3, <2>4 DEF StreamInv, TypeOK, Registered, Ending,
       PublishSend, callVars, bridgeVars, browserVars
  <2>8. Filtered'
    BY <1>1, <2>1, <2>2, <2>3, <2>4 DEF StreamInv, TypeOK, Holding, Filtered,
       PublishSend, callVars, bridgeVars, browserVars
  <2> QED
    BY <2>5, <2>6, <2>7, <2>8 DEF Placed
<1> QED
  BY <1>1

\* A request begins, or fails at once.
LEMMA RequestPlaced ==
    ASSUME StreamInv, NEW s \in Sessions, OpenStream(s) \/ OpenFails(s)
    PROVE  Placed'
<1>1. CASE OpenStream(s)
  <2>1. TypeOK'
    BY <1>1, EventTypes DEF StreamInv, TypeOK, Registered, Holding,
       OpenStream, busVars
  <2>2. Holding'
    BY <1>1 DEF StreamInv, TypeOK, Registered, Holding, OpenStream, busVars
  <2>3. Ending'
    BY <1>1 DEF StreamInv, TypeOK, Registered, Ending, OpenStream, busVars
  <2>4. Filtered'
    BY <1>1 DEF StreamInv, TypeOK, Holding, Filtered, OpenStream, busVars
  <2> QED
    BY <2>1, <2>2, <2>3, <2>4 DEF Placed
<1>2. CASE OpenFails(s)
  <2>1. TypeOK'
    BY <1>2, EventTypes DEF StreamInv, TypeOK, Registered, Holding, OpenFails,
       busVars
  <2>2. Holding'
    BY <1>2 DEF StreamInv, TypeOK, Registered, Holding, OpenFails, busVars
  <2>3. Ending'
    BY <1>2 DEF StreamInv, TypeOK, Registered, Ending, OpenFails, busVars
  <2>4. Filtered'
    BY <1>2 DEF StreamInv, TypeOK, Holding, Filtered, OpenFails, busVars
  <2> QED
    BY <2>1, <2>2, <2>3, <2>4 DEF Placed
<1> QED
  BY <1>1, <1>2

\* The indexer's handler moves a publication from its channel to the wire.
LEMMA HandlerPlaced ==
    ASSUME StreamInv, NEW s \in Sessions, HandlerSteps(s)
    PROVE  Placed'
<1>1. CASE Subscribe(s)
  <2>1. TypeOK'
    BY <1>1, EventTypes DEF StreamInv, TypeOK, Registered, Holding, Subscribe,
       bridgeVars, browserVars
  <2>2. Holding'
    BY <1>1 DEF StreamInv, TypeOK, Registered, Holding, Subscribe, bridgeVars,
       browserVars
  <2>3. Ending'
    BY <1>1 DEF StreamInv, TypeOK, Registered, Ending, Subscribe, bridgeVars,
       browserVars
  <2>4. Filtered'
    BY <1>1 DEF StreamInv, TypeOK, Holding, Filtered, Subscribe, bridgeVars,
       browserVars
  <2> QED
    BY <2>1, <2>2, <2>3, <2>4 DEF Placed
<1>2. CASE TakeEvent(s)
  <2>1. /\ Head(buf[s]) \in Events /\ Tail(buf[s]) \in Seq(Events)
        /\ Len(Tail(buf[s])) = Len(buf[s]) - 1 /\ Len(buf[s]) \in Nat
    BY <1>2, SeqFacts DEF StreamInv, TypeOK, TakeEvent
  <2>2. Head(buf[s]) # 0 /\ BufferSize \in Nat
    BY <2>1, EventTypes, StreamAssumption
  <2>3. TypeOK'
    <3>1. /\ buf' \in [Sessions -> Seq(Events)]
          /\ \A r \in Sessions : Len(buf'[r]) <= BufferSize
      BY <1>2, <2>1, <2>2 DEF StreamInv, TypeOK, TakeEvent
    <3>2. /\ sending' \in [Sessions -> 0..MaxEvents]
          /\ h' \in [Sessions -> {"none", "start", "select", "send", "unsubscribe",
                                 "close", "done"}]
      <4>1. CASE Wanted(s, Head(buf[s]))
        <5>1. Head(buf[s]) \in 0..MaxEvents
          BY <2>1, EventTypes
        <5>2. /\ sending' = [sending EXCEPT ![s] = Head(buf[s])]
              /\ h' = [h EXCEPT ![s] = "send"]
          BY <1>2, <4>1 DEF TakeEvent
        <5>3. sending' \in [Sessions -> 0..MaxEvents]
          BY <5>1, <5>2 DEF StreamInv, TypeOK
        <5> QED
          BY <5>2, <5>3 DEF StreamInv, TypeOK
      <4>2. CASE ~ Wanted(s, Head(buf[s]))
        BY <1>2, <4>2 DEF StreamInv, TypeOK, TakeEvent
      <4> QED
        BY <4>1, <4>2
    <3> QED
      BY <1>2, <3>1, <3>2
      DEF StreamInv, TypeOK, TakeEvent, bridgeVars, browserVars
  <2>4. Holding'
    <3>1. /\ UNCHANGED <<held, published, wire, recv, received, gw, writing, got>>
          /\ \A r \in Sessions : r # s =>
                h'[r] = h[r] /\ sending'[r] = sending[r] /\ buf'[r] = buf[r]
      BY <1>2 DEF StreamInv, TypeOK, TakeEvent, bridgeVars, browserVars
    <3>2. /\ h'[s] \notin {"none", "start"}
          /\ h'[s] = "send" <=> sending'[s] # 0
      BY <1>2, <2>2 DEF StreamInv, TypeOK, Registered, Holding, TakeEvent
    <3> QED
      BY <3>1, <3>2 DEF StreamInv, Holding
  <2>5. Ending'
    BY <1>2, <2>1, <2>2 DEF StreamInv, TypeOK, Registered, Ending, TakeEvent,
       bridgeVars, browserVars
  <2>6. Filtered'
    <3>1. \A r \in Sessions : sending'[r] # 0 => Wanted(r, sending'[r])
      <4>1. CASE Wanted(s, Head(buf[s]))
        BY <1>2, <4>1 DEF StreamInv, TypeOK, Filtered, TakeEvent
      <4>2. CASE ~ Wanted(s, Head(buf[s]))
        BY <1>2, <4>2 DEF StreamInv, Filtered, TakeEvent
      <4> QED
        BY <4>1, <4>2
    <3> QED
      BY <1>2, <3>1 DEF StreamInv, Filtered, Wanted, TakeEvent, bridgeVars, browserVars
  <2> QED
    BY <2>3, <2>4, <2>5, <2>6 DEF Placed
<1>3. CASE Send(s)
  <2>1. sending[s] \in Events /\ wire[s] \in Seq(Events)
    BY <1>3, EventTypes DEF StreamInv, TypeOK, Holding, Send
  <2>2. /\ Append(wire[s], sending[s]) \in Seq(Events)
        /\ Len(Append(wire[s], sending[s])) = Len(wire[s]) + 1 /\ Len(wire[s]) \in Nat
        /\ DOMAIN Append(wire[s], sending[s]) = 1..(Len(wire[s]) + 1)
        /\ DOMAIN wire[s] = 1..Len(wire[s])
        /\ \A i \in 1..Len(wire[s]) : Append(wire[s], sending[s])[i] = wire[s][i]
        /\ Append(wire[s], sending[s])[Len(wire[s]) + 1] = sending[s]
    BY <2>1, SeqFacts
  <2>3. Window \in Nat
    BY StreamAssumption
  <2>4. TypeOK'
    BY <1>3, <2>1, <2>2, <2>3, EventTypes DEF StreamInv, TypeOK, Registered,
       Holding, Send, busVars, bridgeVars, browserVars
  <2>5. Holding'
    BY <1>3, <2>1, <2>2, <2>3 DEF StreamInv, TypeOK, Registered, Holding,
       Send, busVars, bridgeVars, browserVars
  <2>6. Ending'
    BY <1>3, <2>1, <2>2, <2>3 DEF StreamInv, TypeOK, Registered, Ending, Send,
       busVars, bridgeVars, browserVars
  <2>7. Filtered'
    <3>1. /\ UNCHANGED <<received, writing>>
          /\ \A r \in Sessions : r # s => wire'[r] = wire[r] /\ sending'[r] = sending[r]
          /\ wire'[s] = Append(wire[s], sending[s]) /\ sending'[s] = 0
      BY <1>3 DEF StreamInv, TypeOK, Send, bridgeVars
    <3>2. \A i \in DOMAIN wire'[s] : Wanted(s, wire'[s][i])
      <4>1. sending[s] # 0 /\ Wanted(s, sending[s])
        BY <2>1, EventTypes DEF StreamInv, Filtered
      <4> QED
        BY <2>2, <3>1, <4>1 DEF StreamInv, Filtered
    <3> QED
      BY <3>1, <3>2 DEF StreamInv, Filtered, Wanted
  <2> QED
    BY <2>4, <2>5, <2>6, <2>7 DEF Placed
<1>4. CASE StreamOver(s)
  <2>1. TypeOK'
    BY <1>4, EventTypes DEF StreamInv, TypeOK, Registered, Holding,
       StreamOver, busVars, bridgeVars, browserVars
  <2>2. Holding'
    BY <1>4 DEF StreamInv, TypeOK, Registered, Holding, StreamOver, busVars,
       bridgeVars, browserVars
  <2>3. Ending'
    BY <1>4 DEF StreamInv, TypeOK, Registered, Ending, StreamOver, busVars,
       bridgeVars, browserVars
  <2>4. Filtered'
    BY <1>4 DEF StreamInv, TypeOK, Holding, Filtered, StreamOver, busVars,
       bridgeVars, browserVars
  <2> QED
    BY <2>1, <2>2, <2>3, <2>4 DEF Placed
<1>5. CASE Unsubscribe(s)
  <2>1. TypeOK'
    BY <1>5, EventTypes DEF StreamInv, TypeOK, Registered, Holding,
       Unsubscribe, bridgeVars, browserVars
  <2>2. Holding'
    BY <1>5 DEF StreamInv, TypeOK, Registered, Holding, Unsubscribe,
       bridgeVars, browserVars
  <2>3. Ending'
    BY <1>5 DEF StreamInv, TypeOK, Registered, Ending, Unsubscribe,
       bridgeVars, browserVars
  <2>4. Filtered'
    BY <1>5 DEF StreamInv, TypeOK, Holding, Filtered, Unsubscribe, bridgeVars,
       browserVars
  <2> QED
    BY <2>1, <2>2, <2>3, <2>4 DEF Placed
<1>6. CASE CloseChannel(s)
  <2>1. TypeOK'
    BY <1>6, EventTypes DEF StreamInv, TypeOK, Registered, Holding,
       CloseChannel, bridgeVars, browserVars
  <2>2. Holding'
    BY <1>6 DEF StreamInv, TypeOK, Registered, Holding, CloseChannel,
       bridgeVars, browserVars
  <2>3. Ending'
    BY <1>6 DEF StreamInv, TypeOK, Registered, Ending, CloseChannel,
       bridgeVars, browserVars
  <2>4. Filtered'
    BY <1>6 DEF StreamInv, TypeOK, Holding, Filtered, CloseChannel,
       bridgeVars, browserVars
  <2> QED
    BY <2>1, <2>2, <2>3, <2>4 DEF Placed
<1> QED
  BY <1>1, <1>2, <1>3, <1>4, <1>5, <1>6 DEF HandlerSteps

\* The gateway's handler takes a publication from recvLoop, writes it, and
\* returns.
LEMMA SelectPlaced ==
    ASSUME StreamInv, NEW s \in Sessions, SelectSteps(s) \/ Heartbeat(s) \/ WriteEnds(s)
    PROVE  Placed'
<1>1. CASE SeeCancelled(s)
  <2>1. TypeOK'
    BY <1>1, EventTypes DEF StreamInv, TypeOK, Registered, Holding,
       SeeCancelled, Return, busVars, callVars, browserVars
  <2>2. Holding'
    BY <1>1 DEF StreamInv, TypeOK, Registered, Holding, SeeCancelled, Return,
       busVars, callVars, browserVars
  <2>3. Ending'
    BY <1>1 DEF StreamInv, TypeOK, Registered, Ending, SeeCancelled, Return,
       busVars, callVars, browserVars
  <2>4. Filtered'
    BY <1>1 DEF StreamInv, TypeOK, Holding, Filtered, SeeCancelled, Return,
       busVars, callVars, browserVars
  <2> QED
    BY <2>1, <2>2, <2>3, <2>4 DEF Placed
<1>2. CASE SeeError(s)
  <2>1. TypeOK'
    BY <1>2, EventTypes DEF StreamInv, TypeOK, Registered, Holding, SeeError,
       Return, busVars, callVars, browserVars
  <2>2. Holding'
    BY <1>2 DEF StreamInv, TypeOK, Registered, Holding, SeeError, Return,
       busVars, callVars, browserVars
  <2>3. Ending'
    BY <1>2 DEF StreamInv, TypeOK, Registered, Ending, SeeError, Return,
       busVars, callVars, browserVars
  <2>4. Filtered'
    BY <1>2 DEF StreamInv, TypeOK, Holding, Filtered, SeeError, Return,
       busVars, callVars, browserVars
  <2> QED
    BY <2>1, <2>2, <2>3, <2>4 DEF Placed
<1>3. CASE HandOver(s)
  <2>1. TypeOK'
    BY <1>3, EventTypes DEF StreamInv, TypeOK, Registered, Holding, HandOver,
       busVars, callVars, browserVars
  <2>2. Holding'
    BY <1>3 DEF StreamInv, TypeOK, Registered, Holding, HandOver, busVars,
       callVars, browserVars
  <2>3. Ending'
    BY <1>3 DEF StreamInv, TypeOK, Registered, Ending, HandOver, busVars,
       callVars, browserVars
  <2>4. Filtered'
    BY <1>3 DEF StreamInv, TypeOK, Holding, Filtered, HandOver, busVars,
       callVars, browserVars
  <2> QED
    BY <2>1, <2>2, <2>3, <2>4 DEF Placed
<1>4. CASE Heartbeat(s)
  <2>1. TypeOK'
    BY <1>4, EventTypes DEF StreamInv, TypeOK, Registered, Holding, Heartbeat,
       busVars, callVars, browserVars
  <2>2. Holding'
    BY <1>4 DEF StreamInv, TypeOK, Registered, Holding, Heartbeat, busVars,
       callVars, browserVars
  <2>3. Ending'
    BY <1>4 DEF StreamInv, TypeOK, Registered, Ending, Heartbeat, busVars,
       callVars, browserVars
  <2>4. Filtered'
    BY <1>4 DEF StreamInv, TypeOK, Holding, Filtered, Heartbeat, busVars,
       callVars, browserVars
  <2> QED
    BY <2>1, <2>2, <2>3, <2>4 DEF Placed
<1>5. CASE WriteEnds(s)
  <2>1. /\ got[s] \in Seq(Events)
        /\ writing[s] # 0 => Append(got[s], writing[s]) \in Seq(Events)
    BY EventTypes, SeqFacts DEF StreamInv, TypeOK
  <2>2. TypeOK'
    BY <1>5, <2>1, EventTypes DEF StreamInv, TypeOK, Registered, Holding,
       WriteEnds, busVars, callVars
  <2>3. Holding'
    BY <1>5, <2>1 DEF StreamInv, TypeOK, Registered, Holding, WriteEnds,
       busVars, callVars
  <2>4. Ending'
    BY <1>5, <2>1 DEF StreamInv, TypeOK, Registered, Ending, WriteEnds,
       busVars, callVars
  <2>5. Filtered'
    BY <1>5, <2>1 DEF StreamInv, TypeOK, Holding, Filtered, WriteEnds,
       busVars, callVars
  <2> QED
    BY <2>2, <2>3, <2>4, <2>5 DEF Placed
<1> QED
  BY <1>1, <1>2, <1>3, <1>4, <1>5 DEF SelectSteps

\* recvLoop moves a publication from the wire to the handler.
LEMMA RecvPlaced ==
    ASSUME StreamInv, NEW s \in Sessions, RecvSteps(s)
    PROVE  Placed'
<1>1. CASE RecvEvent(s)
  <2>1. wire[s] \in Seq(Events) /\ wire[s] # <<>>
    BY <1>1 DEF StreamInv, TypeOK, RecvEvent
  <2>2. /\ Head(wire[s]) \in Events /\ Tail(wire[s]) \in Seq(Events)
        /\ Len(Tail(wire[s])) = Len(wire[s]) - 1 /\ Len(wire[s]) \in Nat
        /\ 1 \in DOMAIN wire[s] /\ Head(wire[s]) = wire[s][1]
        /\ DOMAIN Tail(wire[s]) = 1..(Len(wire[s]) - 1)
        /\ DOMAIN wire[s] = 1..Len(wire[s])
        /\ \A i \in 1..(Len(wire[s]) - 1) : Tail(wire[s])[i] = wire[s][i + 1]
    BY <2>1, SeqFacts
  <2>3. Head(wire[s]) # 0 /\ Window \in Nat
    BY <2>2, EventTypes, StreamAssumption
  <2>4. TypeOK'
    <3>1. Head(wire[s]) \in 0..MaxEvents
      BY <2>2, EventTypes
    <3>2. /\ wire' \in [Sessions -> Seq(Events)]
          /\ \A r \in Sessions : Len(wire'[r]) <= Window
      BY <1>1, <2>2, <2>3 DEF StreamInv, TypeOK, RecvEvent
    <3>3. /\ received' \in [Sessions -> 0..MaxEvents]
          /\ recv' \in [Sessions -> {"none", "recv", "give", "done"}]
      BY <1>1, <3>1 DEF StreamInv, TypeOK, RecvEvent
    <3> QED
      BY <1>1, <3>2, <3>3 DEF StreamInv, TypeOK, RecvEvent, busVars, browserVars
  <2>5. Holding'
    <3>1. /\ UNCHANGED <<held, published, h, sending, buf, gw, writing, got>>
          /\ \A r \in Sessions : r # s => /\ recv'[r] = recv[r] /\ wire'[r] = wire[r]
                                         /\ received'[r] = received[r]
      BY <1>1 DEF StreamInv, TypeOK, RecvEvent, busVars, browserVars
    <3>2. recv'[s] = "give" /\ received'[s] # 0 /\ h[s] \notin {"none", "start"}
      BY <1>1, <2>1, <2>3 DEF StreamInv, TypeOK, Holding, RecvEvent
    <3> QED
      BY <3>1, <3>2 DEF StreamInv, Holding
  <2>6. Ending'
    BY <1>1, <2>1, <2>2, <2>3 DEF StreamInv, TypeOK, Registered, Ending,
       RecvEvent, busVars, browserVars
  <2>7. Filtered'
    <3>1. /\ UNCHANGED <<sending, writing>>
          /\ \A r \in Sessions : r # s =>
                wire'[r] = wire[r] /\ received'[r] = received[r]
          /\ wire'[s] = Tail(wire[s]) /\ received'[s] = wire[s][1]
      BY <1>1, <2>2 DEF StreamInv, TypeOK, RecvEvent
    <3>2. /\ \A i \in DOMAIN wire'[s] : Wanted(s, wire'[s][i])
          /\ Wanted(s, received'[s])
      BY <2>2, <3>1 DEF StreamInv, Filtered
    <3>3. ASSUME NEW r \in Sessions
          PROVE  /\ \A i \in DOMAIN wire'[r] : Wanted(r, wire'[r][i])
                 /\ sending'[r] # 0 => Wanted(r, sending'[r])
                 /\ received'[r] # 0 => Wanted(r, received'[r])
                 /\ writing'[r] # 0 => Wanted(r, writing'[r])
      <4>1. CASE r = s
        BY <3>1, <3>2, <4>1 DEF StreamInv, Filtered
      <4>2. CASE r # s
        BY <3>1, <4>2 DEF StreamInv, Filtered
      <4> QED
        BY <4>1, <4>2
    <3> QED
      BY <3>3 DEF Filtered, Wanted
  <2> QED
    BY <2>4, <2>5, <2>6, <2>7 DEF Placed
<1>2. CASE RecvError(s)
  <2>1. TypeOK'
    BY <1>2, EventTypes DEF StreamInv, TypeOK, Registered, Holding, RecvError,
       busVars, callVars, browserVars
  <2>2. Holding'
    BY <1>2 DEF StreamInv, TypeOK, Registered, Holding, RecvError, busVars,
       callVars, browserVars
  <2>3. Ending'
    BY <1>2 DEF StreamInv, TypeOK, Registered, Ending, RecvError, busVars,
       callVars, browserVars
  <2>4. Filtered'
    BY <1>2 DEF StreamInv, TypeOK, Holding, Filtered, RecvError, busVars,
       callVars, browserVars
  <2> QED
    BY <2>1, <2>2, <2>3, <2>4 DEF Placed
<1>3. CASE GiveUp(s)
  <2>1. TypeOK'
    BY <1>3, EventTypes DEF StreamInv, TypeOK, Registered, Holding, GiveUp,
       busVars, callVars, browserVars
  <2>2. Holding'
    BY <1>3 DEF StreamInv, TypeOK, Registered, Holding, GiveUp, busVars,
       callVars, browserVars
  <2>3. Ending'
    BY <1>3 DEF StreamInv, TypeOK, Registered, Ending, GiveUp, busVars,
       callVars, browserVars
  <2>4. Filtered'
    BY <1>3 DEF StreamInv, TypeOK, Holding, Filtered, GiveUp, busVars,
       callVars, browserVars
  <2> QED
    BY <2>1, <2>2, <2>3, <2>4 DEF Placed
<1> QED
  BY <1>1, <1>2, <1>3 DEF RecvSteps

\* The browser leaves, and the stream ends.
LEMMA LeavePlaced ==
    ASSUME StreamInv, NEW s \in Sessions, BrowserLeaves(s) \/ CancelArrives(s) \/ Break(s)
    PROVE  Placed'
<1>1. CASE BrowserLeaves(s)
  <2>1. TypeOK'
    BY <1>1, EventTypes DEF StreamInv, TypeOK, Registered, Holding,
       BrowserLeaves, busVars, callVars
  <2>2. Holding'
    BY <1>1 DEF StreamInv, TypeOK, Registered, Holding, BrowserLeaves,
       busVars, callVars
  <2>3. Ending'
    BY <1>1 DEF StreamInv, TypeOK, Registered, Ending, BrowserLeaves, busVars,
       callVars
  <2>4. Filtered'
    BY <1>1 DEF StreamInv, TypeOK, Holding, Filtered, BrowserLeaves, busVars,
       callVars
  <2> QED
    BY <2>1, <2>2, <2>3, <2>4 DEF Placed
<1>2. CASE CancelArrives(s)
  <2>1. TypeOK'
    BY <1>2, EventTypes DEF StreamInv, TypeOK, Registered, Holding,
       CancelArrives, busVars, bridgeVars, browserVars
  <2>2. Holding'
    BY <1>2 DEF StreamInv, TypeOK, Registered, Holding, CancelArrives,
       busVars, bridgeVars, browserVars
  <2>3. Ending'
    BY <1>2 DEF StreamInv, TypeOK, Registered, Ending, CancelArrives, busVars,
       bridgeVars, browserVars
  <2>4. Filtered'
    BY <1>2 DEF StreamInv, TypeOK, Holding, Filtered, CancelArrives, busVars,
       bridgeVars, browserVars
  <2> QED
    BY <2>1, <2>2, <2>3, <2>4 DEF Placed
<1>3. CASE Break(s)
  <2>1. PICK n \in 0..Len(wire[s]) : wire' = [wire EXCEPT ![s] = SubSeq(@, 1, n)]
    BY <1>3 DEF Break
  <2>2. wire[s] \in Seq(Events)
    BY DEF StreamInv, TypeOK
  <2>3. /\ SubSeq(wire[s], 1, n) \in Seq(Events)
        /\ Len(SubSeq(wire[s], 1, n)) = n /\ Len(wire[s]) \in Nat
        /\ DOMAIN SubSeq(wire[s], 1, n) = 1..n /\ DOMAIN wire[s] = 1..Len(wire[s])
        /\ \A i \in 1..n : SubSeq(wire[s], 1, n)[i] = wire[s][i]
    BY <2>2, SeqFacts
  <2>4. Window \in Nat /\ (wire[s] = <<>> => SubSeq(wire[s], 1, n) = <<>>)
    BY StreamAssumption, <2>2, <2>3
  <2>5. TypeOK'
    <3>1. /\ wire' \in [Sessions -> Seq(Events)]
          /\ \A r \in Sessions : Len(wire'[r]) <= Window
      BY <2>1, <2>2, <2>3, <2>4 DEF StreamInv, TypeOK
    <3> QED
      BY <1>3, <3>1 DEF StreamInv, TypeOK, Break, busVars, bridgeVars, browserVars
  <2>6. Holding'
    BY <1>3, <2>1, <2>2, <2>3, <2>4 DEF StreamInv, TypeOK, Registered,
       Holding, Break, busVars, bridgeVars, browserVars
  <2>7. Ending'
    BY <1>3, <2>1, <2>2, <2>3, <2>4 DEF StreamInv, TypeOK, Registered, Ending,
       Break, busVars, bridgeVars, browserVars
  <2>8. Filtered'
    BY <1>3, <2>1, <2>2, <2>3, <2>4 DEF StreamInv, TypeOK, Holding, Filtered,
       Break, busVars, bridgeVars, browserVars
  <2> QED
    BY <2>5, <2>6, <2>7, <2>8 DEF Placed
<1> QED
  BY <1>1, <1>2, <1>3

\* Every step preserves the invariant.
LEMMA StreamStep == StreamInv /\ [Next]_vars => StreamInv'
<1> SUFFICES ASSUME StreamInv, [Next]_vars
             PROVE  StreamInv'
  OBVIOUS
<1>1. Registered'
  BY RegisteredStep DEF StreamInv
<1>2. CASE PublishLock \/ PublishUnlock
  BY <1>1, <1>2, LockPlaced DEF StreamInv, Placed
<1>3. ASSUME NEW s \in Sessions, PublishSend(s)
      PROVE  StreamInv'
  BY <1>1, <1>3, SendPlaced DEF StreamInv, Placed
<1>4. ASSUME NEW s \in Sessions, OpenStream(s) \/ OpenFails(s)
      PROVE  StreamInv'
  BY <1>1, <1>4, RequestPlaced DEF StreamInv, Placed
<1>5. ASSUME NEW s \in Sessions, HandlerSteps(s)
      PROVE  StreamInv'
  BY <1>1, <1>5, HandlerPlaced DEF StreamInv, Placed
<1>6. ASSUME NEW s \in Sessions, SelectSteps(s) \/ Heartbeat(s) \/ WriteEnds(s)
      PROVE  StreamInv'
  BY <1>1, <1>6, SelectPlaced DEF StreamInv, Placed
<1>7. ASSUME NEW s \in Sessions, RecvSteps(s)
      PROVE  StreamInv'
  BY <1>1, <1>7, RecvPlaced DEF StreamInv, Placed
<1>8. ASSUME NEW s \in Sessions, BrowserLeaves(s) \/ CancelArrives(s) \/ Break(s)
      PROVE  StreamInv'
  BY <1>1, <1>8, LeavePlaced DEF StreamInv, Placed
<1>9. CASE UNCHANGED vars
  <2>1. TypeOK' /\ Holding'
    BY <1>9 DEF StreamInv, TypeOK, Holding, vars, busVars, callVars, bridgeVars,
                browserVars
  <2>2. Ending' /\ Filtered'
    BY <1>9 DEF StreamInv, Ending, Filtered, vars, busVars, callVars, bridgeVars,
                browserVars
  <2> QED
    BY <1>1, <2>1, <2>2 DEF StreamInv
<1> QED
  BY <1>2, <1>3, <1>4, <1>5, <1>6, <1>7, <1>8, <1>9 DEF Next, PublishSteps

\* The invariant holds in every reachable state.
LEMMA StreamInvariant == Spec => []StreamInv
  BY StreamInit, StreamStep, PTL DEF Spec

\* The variables have their types: no channel, window or goroutine holds more
\* than the code gives it room for, whatever browsers, gateway and network do.
THEOREM StreamTypeCorrect == Spec => []TypeOK
<1>1. StreamInv => TypeOK
  BY DEF StreamInv
<1> QED
  BY StreamInvariant, <1>1, PTL
=============================================================================
