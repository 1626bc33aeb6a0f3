-------------------------- MODULE MCWalletFunding --------------------------
EXTENDS WalletFunding, TLC

CONSTANTS p1, h1, h2, h3

\* The amount paid in; a withdrawal takes the same amount.
Amounts == [p \in Payments |-> 2]
=============================================================================
