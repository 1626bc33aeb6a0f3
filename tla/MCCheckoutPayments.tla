------------------------ MODULE MCCheckoutPayments ------------------------
(***************************************************************************)
(* Finite instances of CheckoutPayments.                                   *)
(***************************************************************************)
EXTENDS CheckoutPayments, TLC

CONSTANTS u1, u2, g1, g2, g3, s1, s2, h1, h2

\* A unit costs 1 in every store.
UnitPrices(q, s) == q[s]

ThreeGroups == g1 :> u1 @@ g2 :> u1 @@ g3 :> u2
SingleGroup == g1 :> u1

HandlerSymmetry == Permutations(Handlers)

\* The two groups of one customer.
GroupSymmetry == Permutations({g1, g2})
=============================================================================
