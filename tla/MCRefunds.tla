------------------------------ MODULE MCRefunds ------------------------------
EXTENDS Refunds, TLC

CONSTANTS o1, o2, h1, h2

HandlerSymmetry == Permutations({h1, h2})

\* Orders are interchangeable, and so are handlers.
Symmetric == Permutations({o1, o2}) \cup Permutations({h1, h2})
=============================================================================
