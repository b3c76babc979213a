------------------------------ MODULE MCWorker ------------------------------
\* Worker for TLC.  The transactions whose certificates are valid are
\* interchangeable model values.
EXTENDS Worker, TLC

Symmetry == Permutations(Txs \ BadTxs)
=============================================================================
