------------------------------- MODULE Stream -------------------------------
(***************************************************************************)
(* The live feed from the worker to the browser: the broadcaster           *)
(* (platform/broadcast), the indexer's streaming call (adapter/grpc), the  *)
(* gRPC stream, and the gateway's bridge to server-sent events             *)
(* (httpapi/stream.go), whose handler and recvLoop are two goroutines.     *)
(*                                                                         *)
(* Publications are numbered in the order of the Publish calls; 0 stands   *)
(* for none.  One step is one operation on a lock, a channel, the stream   *)
(* or the connection to the browser.                                       *)
(***************************************************************************)
EXTENDS Naturals, Sequences, FiniteSets

CONSTANTS
    Sessions,     \* browsers that open GET /certificates/stream, once each
    Owners,       \* addresses that own certificates
    OwnerOf,      \* owner of each publication's certificate
    Param,        \* the ?owner= value of each session
    BufferSize,   \* bufferSize (32): capacity of a subscriber's channel
    Window,       \* messages the gRPC flow control lets be under way
    MaxEvents     \* bound: Publish calls

ASSUME StreamAssumption ==
    /\ BufferSize \in Nat \ {0} /\ Window \in Nat \ {0} /\ MaxEvents \in Nat
    /\ OwnerOf \in [1..MaxEvents -> Owners]
    /\ DOMAIN Param = Sessions

VARIABLES
    \* the broadcaster and Publish
    published,   \* number of Publish calls
    held,        \* Publish holds b.mu
    todo,        \* subscribers Publish has not sent to yet
    subs,        \* b.subs
    buf,         \* content of each subscriber's channel
    closed,      \* subscribers whose channel is closed
    \* the indexer's handler and the stream
    h,           \* where StreamCertificateEvents (indexer) is
    sending,     \* the publication it is sending
    wire,        \* messages under way to the gateway
    cut,         \* sessions whose stream context is done at the indexer
    \* the gateway's handler and recvLoop
    recv,        \* where recvLoop is
    received,    \* the publication it holds
    errs,        \* the sessions with an error in the errs channel
    gw,          \* where StreamCertificateEvents (gateway) is
    writing,     \* the publication it writes; 0 with gw = "write": a ping
    cancelled,   \* sessions whose gateway context is cancelled
    \* the browser
    browser,     \* "out" before, "here" while and "left" after the request
    got          \* publications the browser has read

busVars == <<published, held, todo, subs, buf, closed>>
callVars == <<h, sending, wire, cut>>
bridgeVars == <<recv, received, errs, gw, writing, cancelled>>
browserVars == <<browser, got>>
vars == <<busVars, callVars, bridgeVars, browserVars>>

Init ==
    /\ published = 0 /\ held = FALSE /\ todo = {} /\ subs = {} /\ closed = {}
    /\ buf = [s \in Sessions |-> <<>>]
    /\ h = [s \in Sessions |-> "none"]
    /\ sending = [s \in Sessions |-> 0]
    /\ wire = [s \in Sessions |-> <<>>]
    /\ recv = [s \in Sessions |-> "none"]
    /\ received = [s \in Sessions |-> 0]
    /\ gw = [s \in Sessions |-> "none"]
    /\ writing = [s \in Sessions |-> 0]
    /\ cut = {} /\ errs = {} /\ cancelled = {}
    /\ browser = [s \in Sessions |-> "out"]
    /\ got = [s \in Sessions |-> <<>>]

-----------------------------------------------------------------------------
\* Publish, called by the worker.

PublishLock ==
    /\ ~ held /\ published < MaxEvents
    /\ published' = published + 1
    /\ held' = TRUE
    /\ todo' = subs
    /\ UNCHANGED <<subs, buf, closed, callVars, bridgeVars, browserVars>>

\* Mutants: the send waits for room; the last place of the buffer stays
\* free; one event more than the buffer holds.
PublishSendBlocking(s) ==
    /\ s \in todo
    /\ Len(buf[s]) < BufferSize
    /\ buf' = [buf EXCEPT ![s] = Append(@, published)]
    /\ todo' = todo \ {s}
    /\ UNCHANGED <<published, held, subs, closed,
                   callVars, bridgeVars, browserVars>>

PublishSendShort(s) ==
    /\ s \in todo
    /\ IF Len(buf[s]) < BufferSize - 1
       THEN buf' = [buf EXCEPT ![s] = Append(@, published)] ELSE UNCHANGED buf
    /\ todo' = todo \ {s}
    /\ UNCHANGED <<published, held, subs, closed,
                   callVars, bridgeVars, browserVars>>

PublishSendOver(s) ==
    /\ s \in todo
    /\ IF Len(buf[s]) <= BufferSize
       THEN buf' = [buf EXCEPT ![s] = Append(@, published)] ELSE UNCHANGED buf
    /\ todo' = todo \ {s}
    /\ UNCHANGED <<published, held, subs, closed,
                   callVars, bridgeVars, browserVars>>

\* The map is ranged over in any order; a full channel drops the event.
PublishSend(s) ==
    /\ s \in todo
    /\ IF Len(buf[s]) < BufferSize
       THEN buf' = [buf EXCEPT ![s] = Append(@, published)] ELSE UNCHANGED buf
    /\ todo' = todo \ {s}
    /\ UNCHANGED <<published, held, subs, closed,
                   callVars, bridgeVars, browserVars>>

PublishUnlock ==
    /\ held /\ todo = {}
    /\ held' = FALSE
    /\ UNCHANGED <<published, todo, subs, buf, closed,
                   callVars, bridgeVars, browserVars>>

-----------------------------------------------------------------------------
\* StreamCertificateEvents in the indexer.

Subscribe(s) ==
    /\ h[s] = "start" /\ ~ held
    /\ subs' = subs \cup {s}
    /\ h' = [h EXCEPT ![s] = "select"]
    /\ UNCHANGED <<published, held, todo, buf, closed,
                   sending, wire, cut, bridgeVars, browserVars>>

\* domain.NewAddress accepts it and it is not the zero address.
IsAddress(raw) == raw \in Owners

\* The owners that pass the filter: an empty, unparseable or zero
\* owner_address is no filter.
OwnerFilter(raw) == IF IsAddress(raw) THEN {raw} ELSE Owners

Wanted(s, e) == OwnerOf[e] \in OwnerFilter(Param[s])

\* case cert := <-events.
TakeEvent(s) ==
    /\ h[s] = "select" /\ buf[s] # <<>>
    /\ buf' = [buf EXCEPT ![s] = Tail(@)]
    /\ IF Wanted(s, Head(buf[s]))
       THEN /\ sending' = [sending EXCEPT ![s] = Head(buf[s])]
            /\ h' = [h EXCEPT ![s] = "send"]
       ELSE UNCHANGED <<sending, h>>
    /\ UNCHANGED <<published, held, todo, subs, closed,
                   wire, cut, bridgeVars, browserVars>>

\* stream.Send: waits for the flow control, fails when the stream is over.
Send(s) ==
    /\ h[s] = "send" /\ s \notin cut /\ Len(wire[s]) < Window
    /\ wire' = [wire EXCEPT ![s] = Append(@, sending[s])]
    /\ sending' = [sending EXCEPT ![s] = 0]
    /\ h' = [h EXCEPT ![s] = "select"]
    /\ UNCHANGED <<busVars, cut, bridgeVars, browserVars>>

\* case <-ctx.Done(), or Send returns an error: the deferred unsubscribe
\* runs next.
StreamOver(s) ==
    /\ h[s] \in {"select", "send"} /\ s \in cut
    /\ sending' = [sending EXCEPT ![s] = 0]
    /\ h' = [h EXCEPT ![s] = "unsubscribe"]
    /\ UNCHANGED <<busVars, wire, cut, bridgeVars, browserVars>>

\* Mutant: the map entry is deleted without the lock.
UnsubscribeUnlocked(s) ==
    /\ h[s] = "unsubscribe"
    /\ subs' = subs \ {s}
    /\ h' = [h EXCEPT ![s] = "close"]
    /\ UNCHANGED <<published, held, todo, buf, closed,
                   sending, wire, cut, bridgeVars, browserVars>>

Unsubscribe(s) ==
    /\ h[s] = "unsubscribe" /\ ~ held
    /\ subs' = subs \ {s}
    /\ h' = [h EXCEPT ![s] = "close"]
    /\ UNCHANGED <<published, held, todo, buf, closed,
                   sending, wire, cut, bridgeVars, browserVars>>

\* close(ch), outside the lock.
CloseChannel(s) ==
    /\ h[s] = "close"
    /\ closed' = closed \cup {s}
    /\ h' = [h EXCEPT ![s] = "done"]
    /\ UNCHANGED <<published, held, todo, subs, buf,
                   sending, wire, cut, bridgeVars, browserVars>>

-----------------------------------------------------------------------------
\* StreamCertificateEvents in the gateway.

\* A browser sends the request and the handler opens the gRPC stream.
OpenStream(s) ==
    /\ browser[s] = "out"
    /\ browser' = [browser EXCEPT ![s] = "here"]
    /\ gw' = [gw EXCEPT ![s] = "select"]
    /\ recv' = [recv EXCEPT ![s] = "recv"]
    /\ h' = [h EXCEPT ![s] = "start"]
    /\ UNCHANGED <<busVars, sending, wire, cut,
                   received, errs, writing, cancelled, got>>

\* The indexer cannot be reached: writeGRPCError and return.
OpenFails(s) ==
    /\ browser[s] = "out"
    /\ browser' = [browser EXCEPT ![s] = "left"]
    /\ gw' = [gw EXCEPT ![s] = "done"]
    /\ recv' = [recv EXCEPT ![s] = "done"]
    /\ h' = [h EXCEPT ![s] = "done"]
    /\ UNCHANGED <<busVars, sending, wire, cut,
                   received, errs, writing, cancelled, got>>

\* The handler returns; the deferred cancel runs.
Return(s) ==
    /\ gw' = [gw EXCEPT ![s] = "done"]
    /\ cancelled' = cancelled \cup {s}

SeeCancelled(s) ==
    /\ gw[s] = "select" /\ s \in cancelled
    /\ Return(s)
    /\ UNCHANGED <<busVars, callVars, recv, received, errs, writing,
                   browserVars>>

SeeError(s) ==
    /\ gw[s] = "select" /\ s \in errs
    /\ Return(s)
    /\ errs' = errs \ {s}
    /\ UNCHANGED <<busVars, callVars, recv, received, writing, browserVars>>

\* Mutant: recvLoop ends after one event.
HandOverOnce(s) ==
    /\ gw[s] = "select" /\ recv[s] = "give"
    /\ writing' = [writing EXCEPT ![s] = received[s]]
    /\ received' = [received EXCEPT ![s] = 0]
    /\ gw' = [gw EXCEPT ![s] = "write"]
    /\ recv' = [recv EXCEPT ![s] = "done"]
    /\ UNCHANGED <<busVars, callVars, errs, cancelled, browserVars>>

\* The unbuffered events channel: recvLoop sends, the handler receives.
HandOver(s) ==
    /\ gw[s] = "select" /\ recv[s] = "give"
    /\ writing' = [writing EXCEPT ![s] = received[s]]
    /\ received' = [received EXCEPT ![s] = 0]
    /\ gw' = [gw EXCEPT ![s] = "write"]
    /\ recv' = [recv EXCEPT ![s] = "recv"]
    /\ UNCHANGED <<busVars, callVars, errs, cancelled, browserVars>>

Heartbeat(s) ==
    /\ gw[s] = "select"
    /\ gw' = [gw EXCEPT ![s] = "write"]
    /\ UNCHANGED <<busVars, callVars, recv, received, errs, writing,
                   cancelled, browserVars>>

\* The write of an event or a ping ends: the browser reads it, or is gone
\* (the error is ignored).  A browser that does not read keeps it waiting.
WriteEnds(s) ==
    /\ gw[s] = "write"
    /\ gw' = [gw EXCEPT ![s] = "select"]
    /\ got' = IF browser[s] = "here" /\ writing[s] # 0
              THEN [got EXCEPT ![s] = Append(@, writing[s])] ELSE got
    /\ writing' = [writing EXCEPT ![s] = 0]
    /\ UNCHANGED <<busVars, callVars, recv, received, errs, cancelled, browser>>

-----------------------------------------------------------------------------
\* recvLoop.

RecvEvent(s) ==
    /\ recv[s] = "recv" /\ wire[s] # <<>>
    /\ received' = [received EXCEPT ![s] = Head(wire[s])]
    /\ wire' = [wire EXCEPT ![s] = Tail(@)]
    /\ recv' = [recv EXCEPT ![s] = "give"]
    /\ UNCHANGED <<busVars, h, sending, cut, errs, gw, writing, cancelled,
                   browserVars>>

\* Mutant: the error is dropped and the handler never learns of it.
RecvErrorDropped(s) ==
    /\ recv[s] = "recv"
    /\ s \in cancelled \/ (s \in cut /\ wire[s] = <<>>)
    /\ recv' = [recv EXCEPT ![s] = "done"]
    /\ UNCHANGED <<busVars, callVars, received, errs, gw, writing, cancelled,
                   browserVars>>

\* Recv returns an error: the context is cancelled, or the stream is over
\* and everything sent before has been received.  The select puts it into
\* errs, which has room for one, or sees ctx.Done().
RecvError(s) ==
    /\ recv[s] = "recv"
    /\ s \in cancelled \/ (s \in cut /\ wire[s] = <<>>)
    /\ recv' = [recv EXCEPT ![s] = "done"]
    /\ \/ errs' = errs \cup {s}
       \/ s \in cancelled /\ UNCHANGED errs
    /\ UNCHANGED <<busVars, callVars, received, gw, writing, cancelled,
                   browserVars>>

\* case <-ctx.Done() while the handler does not take the event.
GiveUp(s) ==
    /\ recv[s] = "give" /\ s \in cancelled
    /\ received' = [received EXCEPT ![s] = 0]
    /\ recv' = [recv EXCEPT ![s] = "done"]
    /\ UNCHANGED <<busVars, callVars, errs, gw, writing, cancelled, browserVars>>

-----------------------------------------------------------------------------
\* The browser and the network.

\* The browser closes the connection: net/http cancels the request's context.
BrowserLeaves(s) ==
    /\ browser[s] = "here"
    /\ browser' = [browser EXCEPT ![s] = "left"]
    /\ cancelled' = cancelled \cup {s}
    /\ UNCHANGED <<busVars, callVars, recv, received, errs, gw, writing, got>>

\* gRPC tells the indexer that the gateway has cancelled the call.
CancelArrives(s) ==
    /\ s \in cancelled \ cut /\ h[s] # "none"
    /\ cut' = cut \cup {s}
    /\ UNCHANGED <<busVars, h, sending, wire, bridgeVars, browserVars>>

\* The connection between gateway and indexer breaks: messages under way may
\* be lost, the last ones first.
Break(s) ==
    /\ browser[s] # "out" /\ h[s] # "done" /\ s \notin cut
    /\ cut' = cut \cup {s}
    /\ \E n \in 0..Len(wire[s]) : wire' = [wire EXCEPT ![s] = SubSeq(@, 1, n)]
    /\ UNCHANGED <<busVars, h, sending, bridgeVars, browserVars>>

-----------------------------------------------------------------------------
PublishSteps == (\E s \in Sessions : PublishSend(s)) \/ PublishUnlock

HandlerSteps(s) ==
    \/ Subscribe(s) \/ TakeEvent(s) \/ Send(s) \/ StreamOver(s)
    \/ Unsubscribe(s) \/ CloseChannel(s)

SelectSteps(s) == SeeCancelled(s) \/ SeeError(s) \/ HandOver(s)

RecvSteps(s) == RecvEvent(s) \/ RecvError(s) \/ GiveUp(s)

Next ==
    \/ PublishLock \/ PublishSteps
    \/ \E s \in Sessions :
        \/ OpenStream(s) \/ OpenFails(s)
        \/ HandlerSteps(s) \/ SelectSteps(s) \/ Heartbeat(s) \/ WriteEnds(s)
        \/ RecvSteps(s)
        \/ BrowserLeaves(s) \/ CancelArrives(s) \/ Break(s)

\* Goroutines that can go on do so, and a cancellation arrives.  The
\* gateway's select chooses at random between the cases that are ready, so a
\* heartbeat does not keep it from another case for ever: strong fairness.
\* Nothing makes the worker publish or a browser come, read or leave; the
\* write to a browser that has left ends.
Fairness ==
    /\ WF_vars(PublishSteps)
    /\ \A s \in Sessions :
        /\ WF_vars(HandlerSteps(s))
        /\ WF_vars(RecvSteps(s))
        /\ SF_vars(SelectSteps(s))
        /\ WF_vars(browser[s] = "left" /\ WriteEnds(s))
        /\ WF_vars(CancelArrives(s))

Spec == Init /\ [][Next]_vars /\ Fairness

-----------------------------------------------------------------------------
\* Properties.

Events == 1..MaxEvents

\* Types of the variables, in every reachable state.
TypeOK ==
    /\ published \in 0..MaxEvents /\ held \in BOOLEAN
    /\ todo \subseteq Sessions /\ subs \subseteq Sessions
    /\ closed \subseteq Sessions /\ cut \subseteq Sessions
    /\ errs \subseteq Sessions /\ cancelled \subseteq Sessions
    /\ buf \in [Sessions -> Seq(Events)]
    /\ wire \in [Sessions -> Seq(Events)]
    /\ got \in [Sessions -> Seq(Events)]
    /\ \A s \in Sessions : Len(buf[s]) <= BufferSize /\ Len(wire[s]) <= Window
    /\ h \in [Sessions -> {"none", "start", "select", "send", "unsubscribe",
                           "close", "done"}]
    /\ recv \in [Sessions -> {"none", "recv", "give", "done"}]
    /\ gw \in [Sessions -> {"none", "select", "write", "done"}]
    /\ browser \in [Sessions -> {"out", "here", "left"}]
    /\ sending \in [Sessions -> 0..MaxEvents]
    /\ received \in [Sessions -> 0..MaxEvents]
    /\ writing \in [Sessions -> 0..MaxEvents]

\* Publish never sends on a closed channel, which would bring the process
\* down: unsubscribe deletes the map entry under the lock before it closes
\* the channel outside of it.
NoSendOnClosed == todo \cap closed = {}

\* The feed as a session sees it.  Until its stream is cut, what waits for
\* it is what the browser is sent, what recvLoop holds, what is on the wire,
\* what the indexer sends and what its channel holds; after a break only
\* what has passed the indexer; after a cancellation nothing.
OneOf(e) == IF e = 0 THEN <<>> ELSE <<e>>

Ahead(s) == OneOf(writing[s]) \o OneOf(received[s]) \o wire[s]

Waiting == [s \in Sessions |->
    IF s \in cancelled THEN <<>>
    ELSE IF s \in cut THEN Ahead(s)
    ELSE Ahead(s) \o OneOf(sending[s]) \o buf[s]]

Served == {s \in subs : h[s] \in {"select", "send"}} \ (cut \cup cancelled)

LastOffered == [s \in Sessions |->
    IF s \notin Served THEN 0
    ELSE IF s \in todo THEN published - 1 ELSE published]

AbstractFeed == INSTANCE Feed WITH
    Capacity <- BufferSize, open <- Served, offered <- LastOffered,
    pending <- Waiting

\* The pipeline of two services, four goroutines and five buffers is the
\* at-most-once feed: order is kept, nothing is delivered twice or to the
\* wrong owner, and nothing is lost between the channel and the browser.
ImplementsFeed == AbstractFeed!Spec

\* A slow or stalled browser never holds up Publish, and with it the worker.
PublishEnds == held ~> ~ held

\* The indexer's handler has ended and its subscription is removed.
Unsubscribed(s) == h[s] = "done" /\ s \notin subs

Released(s) == gw[s] = "done" /\ recv[s] = "done" /\ Unsubscribed(s)

\* Nothing leaks.  When the browser leaves, both goroutines of the gateway and
\* the indexer's handler end and the subscription is removed.  When the
\* connection between the services breaks, the indexer's side ends whatever
\* the gateway does, and the gateway's side ends unless a browser that stays
\* connected stops reading for good.
NothingLeaks ==
    \A s \in Sessions :
        /\ (browser[s] = "left") ~> Released(s)
        /\ (s \in cut) ~> Unsubscribed(s)
        /\ [](s \in cut => <>Released(s) \/ <>[](gw[s] = "write"))

\* Nobody waits on everybody: unless its browser stops reading for good, what
\* waits for a session is delivered or the session comes to its end.
Flows ==
    \A s \in Sessions :
        [](Waiting[s] # <<>> =>
            <>(Waiting[s] = <<>>) \/ <>[](gw[s] = "write"))
=============================================================================
