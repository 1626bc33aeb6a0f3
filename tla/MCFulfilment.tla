---------------------------- MODULE MCFulfilment ----------------------------
EXTENDS Fulfilment, TLC

CONSTANTS r1, r2, w1, w2

\* Riders are interchangeable, and so are requests.
Symmetric == Permutations({r1, r2}) \cup Permutations({w1, w2})
=============================================================================
