------------------------------ MODULE MCPages -------------------------------
\* Two owners, three kinds of certificates and requests that reach every
\* query, every page size rule and a filter that is no address.
EXTENDS Pages

CONSTANTS alice, bob

MCOwners == {alice, bob}
MCKinds == {[owner |-> alice, hit |-> TRUE], [owner |-> alice, hit |-> FALSE],
            [owner |-> bob, hit |-> TRUE]}
MCRequests == {[owner |-> NoOwner, search |-> FALSE, size |-> NaN],
               [owner |-> NoOwner, search |-> TRUE, size |-> 1],
               [owner |-> alice, search |-> FALSE, size |-> 1],
               [owner |-> alice, search |-> TRUE, size |-> 9],
               [owner |-> BadOwner, search |-> FALSE, size |-> 0]}
=============================================================================
