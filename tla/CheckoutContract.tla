------------------------- MODULE CheckoutContract -------------------------
(***************************************************************************)
(* What a checkout promises, whatever payment provider, webhook, timer or  *)
(* cancellation brings it about.  The lines of one checkout are reserved   *)
(* together, and together they are honoured or released; nothing released  *)
(* is honoured later.  Goods leave the shelf once and return at most once. *)
(* Money is owed back only for a line that no longer stands, and it is     *)
(* repaid only if it is owed.                                              *)
(***************************************************************************)
EXTENDS Integers

CONSTANTS Groups, Stores,
          InitStock,  \* units each store has at first
          MaxQty      \* bound: units of one line

VARIABLES deal,   \* what became of each line, by checkout and store
          units,  \* the units of each line
          shelf,  \* the units each store can still sell
          owed    \* what the customer is owed for each line

contractVars == <<deal, units, shelf, owed>>

Lines(g) == {s \in Stores : deal[g][s] # "none"}
Reserved(g) == Lines(g) # {} /\ \A s \in Lines(g) : deal[g][s] = "reserved"

ContractInit ==
  /\ deal = [g \in Groups |-> [s \in Stores |-> "none"]]
  /\ units = [g \in Groups |-> [s \in Stores |-> 0]]
  /\ shelf = [s \in Stores |-> InitStock]
  /\ owed = [g \in Groups |-> [s \in Stores |-> "none"]]

\* A checkout takes its goods off the shelf; one paid at once stands at once.
Open(g, as) ==
  /\ Lines(g) = {}
  /\ \E bought \in [Stores -> 0..MaxQty] :
       /\ \E s \in Stores : bought[s] > 0
       /\ \A s \in Stores : bought[s] <= shelf[s]
       /\ units' = [units EXCEPT ![g] = bought]
       /\ shelf' = [s \in Stores |-> shelf[s] - bought[s]]
       /\ deal' = [deal EXCEPT ![g] = [s \in Stores |-> IF bought[s] > 0 THEN as ELSE "none"]]
  /\ UNCHANGED owed

\* All lines of a checkout share one outcome.
Conclude(g, as) ==
  /\ Reserved(g)
  /\ deal' = [deal EXCEPT ![g] = [s \in Stores |-> IF s \in Lines(g) THEN as ELSE "none"]]
  /\ UNCHANGED <<units, owed>>

Honour(g) == Conclude(g, "standing") /\ UNCHANGED shelf

Release(g) ==
  /\ Conclude(g, "released")
  /\ shelf' = [s \in Stores |-> shelf[s] + units[g][s]]

\* One line of an honoured checkout is taken back, its money owed or returned.
TakeBack(g, s) ==
  /\ deal[g][s] = "standing"
  /\ deal' = [deal EXCEPT ![g][s] = "returned"]
  /\ shelf' = [shelf EXCEPT ![s] = @ + units[g][s]]
  /\ owed[g][s] = "none"
  /\ \E money \in {"owed", "repaid"} : owed' = [owed EXCEPT ![g][s] = money]
  /\ UNCHANGED units

\* Money comes in for a released checkout: every line of it is owed.
MoneyTooLate(g) ==
  /\ Lines(g) # {} /\ \A s \in Lines(g) : deal[g][s] = "released" /\ owed[g][s] = "none"
  /\ owed' = [owed EXCEPT ![g] = [s \in Stores |-> IF s \in Lines(g) THEN "owed" ELSE "none"]]
  /\ UNCHANGED <<deal, units, shelf>>

Repay(g, s) ==
  /\ owed[g][s] = "owed"
  /\ owed' = [owed EXCEPT ![g][s] = "repaid"]
  /\ UNCHANGED <<deal, units, shelf>>

\* Each of them changes something; saying so first lets TLC skip the search
\* for one that explains a step which changes nothing.
ContractNext ==
  /\ contractVars' # contractVars
  /\ \E g \in Groups :
       \/ \E as \in {"reserved", "standing"} : Open(g, as)
       \/ Honour(g) \/ Release(g) \/ MoneyTooLate(g)
       \/ \E s \in Stores : TakeBack(g, s) \/ Repay(g, s)

ContractSpec == ContractInit /\ [][ContractNext]_contractVars
=============================================================================
