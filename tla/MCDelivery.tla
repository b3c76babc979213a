----------------------------- MODULE MCDelivery -----------------------------
\* Delivery for TLC.  Sweeps are interchangeable model values.
EXTENDS Delivery, TLC

Symmetry == Permutations(Sweepers)
=============================================================================
