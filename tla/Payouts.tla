------------------------------ MODULE Payouts ------------------------------
(***************************************************************************)
(* What stores and riders earn and take out: the settlement of an order    *)
(* and its reversal on cancellation, the release of a delivery fee, the    *)
(* withdrawal requests of both (store-wallet.service.ts,                   *)
(* rider-wallet.service.ts) and the bank accounts a rider is paid to       *)
(* (riders.service.ts).                                                    *)
(*                                                                         *)
(* One store and one rider.  A withdrawal reads the balance, compares,     *)
(* and decrements in a later transaction, with no condition on the row.    *)
(* In a transaction on bank accounts the first read is a snapshot and the  *)
(* writes after it see the rows of the moment.                             *)
(***************************************************************************)
EXTENDS Integers, FiniteSets

CONSTANTS Tellers,     \* concurrent HTTP handlers
          Sales,       \* orders of the store
          Trips,       \* deliveries of the rider
          Earning,     \* what one sale or trip earns
          Amounts,     \* amounts that may be requested
          MaxBanks,    \* bound: bank accounts the rider ever adds
          MaxPayouts   \* bound: withdrawals ever recorded

ASSUME PayoutsAssumption ==
  /\ Earning \in Nat
  /\ Amounts \subseteq Nat
  /\ MaxBanks \in Nat

VARIABLES funds,      \* balance of the StoreWallet and of the rider's Wallet
          sale,       \* settlement of each order
          trip,       \* RiderEarning of each delivery
          banks,      \* RiderBankAccount rows, numbered by createdAt
          payouts,    \* withdrawals recorded, all PENDING
          teller,     \* what each handler has read and does next
          outdated,   \* history: sums decided on a balance since drawn on
          reversed,   \* history: settlements taken back from the store
          crossed     \* history: two changes of bank accounts overlapped

payoutsVars == <<funds, sale, trip, banks, payouts, teller, outdated, reversed, crossed>>

Purses == {"store", "rider"}
Banks == 1..MaxBanks
Free == [step |-> "free", purse |-> "store", amount |-> 0, bank |-> 0,
         primary |-> FALSE, late |-> FALSE]

PayoutsInit ==
  /\ funds = [p \in Purses |-> 0]
  /\ sale = [o \in Sales |-> "paid"]
  /\ trip = [d \in Trips |-> "HELD"]
  /\ banks = [b \in Banks |-> "unknown"]
  /\ payouts = 0
  /\ teller = [t \in Tellers |-> Free]
  /\ outdated = [p \in Purses |-> 0]
  /\ reversed = 0
  /\ crossed = FALSE

-----------------------------------------------------------------------------
(* Earnings.                                                               *)

\* settleOrder: the row with the order's reference makes it happen once.
SettleSale(o) ==
  /\ sale[o] = "paid"
  /\ sale' = [sale EXCEPT ![o] = "settled"]
  /\ funds' = [funds EXCEPT !["store"] = @ + Earning]
  /\ UNCHANGED <<trip, banks, payouts, teller, outdated, reversed, crossed>>

\* cancel: a settlement is taken back, whatever is left in the wallet.
ReverseSale(o) ==
  /\ sale[o] = "settled"
  /\ sale' = [sale EXCEPT ![o] = "reversed"]
  /\ funds' = [funds EXCEPT !["store"] = @ - Earning]
  /\ reversed' = reversed + Earning
  /\ UNCHANGED <<trip, banks, payouts, teller, outdated, crossed>>

\* releaseRiderEarning: claimed by its status, then credited.
ReleaseTrip(d) ==
  /\ trip[d] = "HELD"
  /\ trip' = [trip EXCEPT ![d] = "RELEASED"]
  /\ funds' = [funds EXCEPT !["rider"] = @ + Earning]
  /\ UNCHANGED <<sale, banks, payouts, teller, outdated, reversed, crossed>>

-----------------------------------------------------------------------------
(* Withdrawals.                                                            *)

FaultyDrawable(p, amount) == amount > 0 /\ amount - 1 <= funds[p]
Drawable(p, amount) == amount > 0 /\ amount <= funds[p]

\* requestWithdrawal up to the transaction: owner, wallet, amount.
ReadBalance(t, p, amount) ==
  /\ teller[t] = Free
  /\ Drawable(p, amount)
  /\ teller' = [teller EXCEPT ![t] =
       [Free EXCEPT !.step = IF p = "store" THEN "draw" ELSE "bank",
                    !.purse = p, !.amount = amount]]
  /\ UNCHANGED <<funds, sale, trip, banks, payouts, outdated, reversed, crossed>>

StoreWithdrawalRead(t, amount) == ReadBalance(t, "store", amount)
RiderWithdrawalRead(t, amount) == ReadBalance(t, "rider", amount)

\* The rider names an account or leaves it to the primary one, and is refused
\* when there is none such; accounts are verified when they are added.
PayoutBank(t) ==
  /\ teller[t].step = "bank"
  /\ \/ \E b \in Banks :
          /\ banks[b] \in {"primary", "other"}
          /\ teller' = [teller EXCEPT ![t].step = "draw", ![t].bank = b]
     \/ teller' = [teller EXCEPT ![t] = Free]
  /\ UNCHANGED <<funds, sale, trip, banks, payouts, outdated, reversed, crossed>>

\* Another handler's balance is out of date once this one has drawn on it.
Outdate(t, p) ==
  [u \in Tellers |-> IF u = t THEN Free
                     ELSE IF teller[u].step \in {"bank", "draw"} /\ teller[u].purse = p
                     THEN [teller[u] EXCEPT !.late = TRUE] ELSE teller[u]]

\* The transaction: decrement, DEBIT row and the PENDING withdrawal.
Draw(t) ==
  /\ teller[t].step = "draw" /\ payouts < MaxPayouts
  /\ LET p == teller[t].purse
         amount == teller[t].amount IN
     /\ funds' = [funds EXCEPT ![p] = @ - amount]
     /\ outdated' = [outdated EXCEPT ![p] = @ + IF teller[t].late THEN amount ELSE 0]
     /\ teller' = Outdate(t, p)
  /\ payouts' = payouts + 1
  /\ UNCHANGED <<sale, trip, banks, reversed, crossed>>
StoreWithdraw(t) == teller[t].purse = "store" /\ Draw(t)
RiderWithdraw(t) == teller[t].purse = "rider" /\ Draw(t)

-----------------------------------------------------------------------------
(* Bank accounts of the rider.                                             *)

Held == {b \in Banks : banks[b] \in {"primary", "other"}}

\* A change of accounts has begun elsewhere: the two overlap.
Changing == \E t \in Tellers : teller[t].step \in {"add", "prefer", "remove"}

\* addBankAccount: after the bank has confirmed the account, its transaction
\* counts the accounts there are.
AddRead(t, wanted) ==
  /\ teller[t] = Free
  /\ \E b \in Banks : banks[b] = "unknown"
  /\ teller' = [teller EXCEPT ![t] =
       [Free EXCEPT !.step = "add", !.primary = (wanted \/ Held = {})]]
  /\ crossed' = (crossed \/ Changing)
  /\ UNCHANGED <<funds, sale, trip, banks, payouts, outdated, reversed>>

FaultyDemoted(b) == banks[b]
Demoted(b) == IF banks[b] = "primary" THEN "other" ELSE banks[b]

AddBankAccount(t) ==
  /\ teller[t].step = "add"
  /\ \E b \in Banks :
       /\ banks[b] = "unknown" /\ \A c \in Banks : c < b => banks[c] # "unknown"
       /\ banks' = [c \in Banks |->
            IF c = b THEN (IF teller[t].primary THEN "primary" ELSE "other")
            ELSE IF teller[t].primary THEN Demoted(c) ELSE banks[c]]
  /\ teller' = [teller EXCEPT ![t] = Free]
  /\ UNCHANGED <<funds, sale, trip, payouts, outdated, reversed, crossed>>

\* setPrimaryBankAccount and removeBankAccount read the account first.
ChangeRead(t, step, b) ==
  /\ teller[t] = Free
  /\ b \in Held
  /\ teller' = [teller EXCEPT ![t] =
       [Free EXCEPT !.step = step, !.bank = b, !.primary = (banks[b] = "primary")]]
  /\ crossed' = (crossed \/ Changing)
  /\ UNCHANGED <<funds, sale, trip, banks, payouts, outdated, reversed>>

\* The update fails, and the transaction with it, when the account is gone.
SetPrimaryBankAccount(t) ==
  /\ teller[t].step = "prefer"
  /\ LET b == teller[t].bank IN
     banks' = IF b \in Held
              THEN [c \in Banks |-> IF c = b THEN "primary" ELSE Demoted(c)]
              ELSE banks
  /\ teller' = [teller EXCEPT ![t] = Free]
  /\ UNCHANGED <<funds, sale, trip, payouts, outdated, reversed, crossed>>

\* The oldest account takes the place of a primary one that is removed.
Replacement(b) == {c \in Held \ {b} : \A d \in Held \ {b} : c <= d}

RemoveBankAccount(t) ==
  /\ teller[t].step = "remove"
  /\ LET b == teller[t].bank IN
     banks' = IF b \in Held
              THEN [c \in Banks |-> IF c = b THEN "removed"
                                    ELSE IF teller[t].primary /\ c \in Replacement(b)
                                    THEN "primary" ELSE banks[c]]
              ELSE banks
  /\ teller' = [teller EXCEPT ![t] = Free]
  /\ UNCHANGED <<funds, sale, trip, payouts, outdated, reversed, crossed>>

PayoutsNext ==
  \/ \E o \in Sales : SettleSale(o) \/ ReverseSale(o)
  \/ \E d \in Trips : ReleaseTrip(d)
  \/ \E t \in Tellers :
       \/ \E amount \in Amounts : StoreWithdrawalRead(t, amount) \/ RiderWithdrawalRead(t, amount)
       \/ PayoutBank(t) \/ StoreWithdraw(t) \/ RiderWithdraw(t)
       \/ \E wanted \in BOOLEAN : AddRead(t, wanted)
       \/ \E step \in {"prefer", "remove"}, b \in Banks : ChangeRead(t, step, b)
       \/ AddBankAccount(t) \/ SetPrimaryBankAccount(t) \/ RemoveBankAccount(t)

PayoutsSpec == PayoutsInit /\ [][PayoutsNext]_payoutsVars

-----------------------------------------------------------------------------
(* Properties.                                                             *)

\* requestWithdrawal of a store or a rider checks the balance before the
\* transaction that draws on it, and a cancellation takes a settlement back
\* from a wallet that may be empty.  An overdraft never exceeds what those
\* two races explain: sums decided on an outdated balance, and reversals.
OverdraftHasCause ==
  /\ funds["store"] >= -(outdated["store"] + reversed)
  /\ funds["rider"] >= -outdated["rider"]

\* A rider with bank accounts has exactly one primary, the one a withdrawal
\* without an account is paid to, unless two changes of accounts overlapped.
OnePrimaryBank ==
  crossed \/ Held = {} \/ Cardinality({b \in Held : banks[b] = "primary"}) = 1

\* Money leaves for a bank account only once it is there, and it is known
\* which account, except for the overlaps named above.
PayoutsHaveCover == OverdraftHasCause /\ OnePrimaryBank
=============================================================================
