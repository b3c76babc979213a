------------------------------ MODULE MCStream ------------------------------
\* A session with an owner filter; the publications alternate between two
\* owners.
EXTENDS Stream

CONSTANTS s1, alice, bob

MCOwnerOf == [e \in 1..MaxEvents |-> IF e % 2 = 1 THEN alice ELSE bob]
MCParam == [s \in Sessions |-> alice]
=============================================================================
