-------------------------------- MODULE Feed --------------------------------
(***************************************************************************)
(* What the live feed promises to each of its sessions (the comment on     *)
(* Broadcaster.Publish: "an at-most-once live feed"): the certificates the *)
(* session asked for arrive in the order they were published, none twice,  *)
(* and a certificate is left out only when Capacity others were waiting    *)
(* or the session had come to its end.                                     *)
(***************************************************************************)
EXTENDS Naturals, Sequences, SequencesExt

CONSTANTS
    Sessions,       \* browsers that open the feed, once each
    Capacity,       \* publications that may wait before one is dropped
    Wanted(_, _)    \* Wanted(s, e): session s asked for publication e

VARIABLES
    open,      \* the sessions the feed serves
    offered,   \* per session, the number of the last publication offered
    pending,   \* per session, publications accepted and not yet delivered
    got        \* per session, publications delivered to the browser

vars == <<open, offered, pending, got>>

Init ==
    /\ open = {}
    /\ offered = [s \in Sessions |-> 0]
    /\ pending = [s \in Sessions |-> <<>>]
    /\ got = [s \in Sessions |-> <<>>]

\* A session joins at some publication: it gets only later ones.
Join(s) ==
    /\ s \notin open
    /\ got[s] = <<>> /\ pending[s] = <<>>
    /\ open' = open \cup {s}
    /\ offered'[s] \in Nat
    /\ offered' = [offered EXCEPT ![s] = offered'[s]]
    /\ UNCHANGED <<pending, got>>

\* The next publication is taken in, or dropped because too many wait.
Offer(s) ==
    /\ s \in open
    /\ offered' = [offered EXCEPT ![s] = @ + 1]
    /\ \/ pending' = [pending EXCEPT ![s] = Append(@, offered'[s])]
       \/ Len(pending[s]) >= Capacity /\ UNCHANGED pending
    /\ UNCHANGED <<open, got>>

\* A publication the session did not ask for is left out.
Skip(s) ==
    /\ \E i \in DOMAIN pending[s] :
        /\ ~ Wanted(s, pending[s][i])
        /\ pending' = [pending EXCEPT ![s] = RemoveAt(@, i)]
    /\ UNCHANGED <<open, offered, got>>

Deliver(s) ==
    /\ pending[s] # <<>>
    /\ Wanted(s, Head(pending[s]))
    /\ got' = [got EXCEPT ![s] = Append(@, Head(pending[s]))]
    /\ pending' = [pending EXCEPT ![s] = Tail(@)]
    /\ UNCHANGED <<open, offered>>

\* The session comes to its end: of what waits, at most a first part is
\* still delivered.
Cut(s) ==
    /\ open' = open \ {s}
    /\ offered' = [offered EXCEPT ![s] = 0]
    /\ \E n \in 0..Len(pending[s]) :
        pending' = [pending EXCEPT ![s] = SubSeq(@, 1, n)]
    /\ UNCHANGED got

Next ==
    \E s \in Sessions :
        Join(s) \/ Offer(s) \/ Skip(s) \/ Deliver(s) \/ Cut(s)

Spec == Init /\ [][Next]_vars
=============================================================================
