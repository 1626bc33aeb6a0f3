----------------------------- MODULE Financing -----------------------------
(***************************************************************************)
(* In-house BNPL for the cart of one customer (bnpl.service.ts): the       *)
(* application, its review by staff, confirmation into a paid checkout     *)
(* group, the instalment plan with its due dates, and repayments from the  *)
(* wallet or by card (payments.service.ts).                                *)
(*                                                                         *)
(* Everything about an application happens under its row lock, so it is    *)
(* one step.  A repayment is compared with the instalment first; its       *)
(* completion adds to the amountPaid it has read.                          *)
(***************************************************************************)
EXTENDS Integers, FiniteSets, Functions

CONSTANTS LoanRequests,     \* BnplApplication rows that may come to exist
          CartTotals,    \* what a quote of the cart can come to, in kobo
          Months, Rate,  \* the plan: instalments and interest in percent
          StartDates,    \* <<month, day>> a confirmation can fall on
          Repayments,    \* BnplRepayment rows that may come to exist
          Cashiers,      \* concurrent repayment requests and webhooks
          MaxCartEdits   \* bound: changes of the cart

ASSUME FinancingAssumption ==
  /\ Months \in Nat \ {0} /\ Rate \in Nat
  /\ CartTotals \subseteq Nat
  /\ StartDates \subseteq Nat \X (1..31)
  /\ IsFiniteSet(Repayments)

VARIABLES cartTotal,    \* what the cart would be quoted at now
          planOn,       \* BnplPlan.isActive
          unpaidOpen,   \* an ordinary unpaid checkout holds the cart
          loanRequest,  \* the applications
          paidIn,       \* BnplInstallment.amountPaid
          repayment,    \* BnplRepayment rows and, by card, their charge
          cashier,      \* what each handler has read and does next
          cartEdits,    \* changes of the cart (bound)
          racing        \* history: instalments with overlapping repayments

financingVars == <<cartTotal, planOn, unpaidOpen, loanRequest, paidIn, repayment, cashier,
                   cartEdits, racing>>

-----------------------------------------------------------------------------
(* installmentTerms and dueDate, on kobo and on months counted through.    *)

\* Half a kobo rounds up.
TotalPayable(principal) == (principal * (100 + Rate) + 50) \div 100
MonthlyAmount(principal) == TotalPayable(principal) \div Months

FaultyInstalment(principal, i) == MonthlyAmount(principal)
\* The last instalment takes what rounding down left over.
Instalment(principal, i) ==
  IF i < Months THEN MonthlyAmount(principal)
  ELSE TotalPayable(principal) - MonthlyAmount(principal) * (Months - 1)

\* Months are counted through from a January of the year 0.
LeapYear(y) == y % 4 = 0 /\ (y % 100 # 0 \/ y % 400 = 0)
MonthLength(m) ==
  IF m % 12 = 1 THEN (IF LeapYear(m \div 12) THEN 29 ELSE 28)
  ELSE IF m % 12 \in {3, 5, 8, 10} THEN 30 ELSE 31

DueDate(start, i) ==
  LET m == start[1] + i IN
  <<m, IF start[2] > MonthLength(m) THEN MonthLength(m) ELSE start[2]>>

-----------------------------------------------------------------------------

NoRequest == [status |-> "none", quote |-> 0, financed |-> 0, groups |-> 0, start |-> <<0, 1>>]
NoRepayment == [status |-> "none", number |-> 1, amount |-> 0, charge |-> "none"]
Away == [step |-> "away", number |-> 1, row |-> "none", paid |-> 0]

FinancingInit ==
  /\ cartTotal \in CartTotals
  /\ planOn = TRUE
  /\ unpaidOpen = FALSE
  /\ loanRequest = [a \in LoanRequests |-> NoRequest]
  /\ paidIn = [i \in 1..Months |-> 0]
  /\ repayment = [r \in Repayments |-> NoRepayment]
  /\ cashier = [h \in Cashiers |-> Away]
  /\ cartEdits = 0
  /\ racing = {}

\* activeCartId of an application is set in these states.
HoldsCart(a) == loanRequest[a].status \in {"PENDING_REVIEW", "APPROVED"}
Confirmed == {a \in LoanRequests : loanRequest[a].status = "CONFIRMED"}

SetRequest(a, rec) ==
  /\ loanRequest' = [loanRequest EXCEPT ![a] = rec]
  /\ UNCHANGED <<planOn, unpaidOpen, paidIn, repayment, cashier, cartEdits, racing>>

\* Cart, prices or delivery change; savePlan; an ordinary checkout comes and
\* goes.  None of them looks at an application.  What happens to the cart once
\* the loan is confirmed is nothing to it any more.
EditCart ==
  /\ cartEdits < MaxCartEdits /\ Confirmed = {}
  /\ cartTotal' \in CartTotals \ {cartTotal}
  /\ cartEdits' = cartEdits + 1
  /\ UNCHANGED <<planOn, unpaidOpen, loanRequest, paidIn, repayment, cashier, racing>>

SavePlan ==
  /\ Confirmed = {}
  /\ planOn' = ~planOn
  /\ UNCHANGED <<cartTotal, unpaidOpen, loanRequest, paidIn, repayment, cashier, cartEdits, racing>>

OrdinaryCheckout ==
  /\ Confirmed = {}
  /\ unpaidOpen' = ~unpaidOpen
  /\ UNCHANGED <<cartTotal, planOn, loanRequest, paidIn, repayment, cashier, cartEdits, racing>>

CartIsFree == ~unpaidOpen /\ \A a \in LoanRequests : ~HoldsCart(a)

ApplyForLoan(a) ==
  /\ loanRequest[a].status = "none" /\ Confirmed = {} /\ CartIsFree /\ planOn
  /\ SetRequest(a, [NoRequest EXCEPT !.status = "PENDING_REVIEW", !.quote = cartTotal])
  /\ UNCHANGED cartTotal

ReviewLoan(a, decision) ==
  /\ loanRequest[a].status = "PENDING_REVIEW"
  /\ SetRequest(a, [loanRequest[a] EXCEPT !.status = decision])
  /\ UNCHANGED cartTotal

CancelLoan(a) ==
  /\ HoldsCart(a)
  /\ SetRequest(a, [loanRequest[a] EXCEPT !.status = "CANCELLED"])
  /\ UNCHANGED cartTotal

FaultySamePrice(a) == TRUE
\* quoteFingerprint of the new quote against the one applied for.
SamePrice(a) == cartTotal = loanRequest[a].quote

\* confirm: the checkout is created and completed in the same transaction,
\* and the instalments with it.
ConfirmLoan(a, start) ==
  /\ loanRequest[a].status = "APPROVED" /\ planOn /\ ~unpaidOpen /\ SamePrice(a)
  /\ SetRequest(a, [loanRequest[a] EXCEPT !.status = "CONFIRMED", !.financed = cartTotal,
                                          !.groups = @ + 1, !.start = start])
  /\ UNCHANGED cartTotal

-----------------------------------------------------------------------------
(* Repayments of the confirmed application.                                *)

Owed(i) == LET a == CHOOSE b \in Confirmed : TRUE IN Instalment(loanRequest[a].financed, i)
FullyPaid(i) == paidIn[i] >= Owed(i)
OpenRows(i) == {r \in Repayments : repayment[r].number = i /\ repayment[r].status = "PENDING"}
BusyWith(i) == {h \in Cashiers : cashier[h].step # "away" /\ cashier[h].number = i}

\* payRepayment refuses an instalment that is PAID.
Payable(i) == ~FullyPaid(i)

PayRead(h, i, way) ==
  /\ cashier[h] = Away /\ Confirmed # {} /\ Payable(i)
  /\ cashier' = [cashier EXCEPT ![h] = [Away EXCEPT !.step = way, !.number = i,
                                                    !.paid = Owed(i) - paidIn[i]]]
  /\ racing' = IF OpenRows(i) \cup BusyWith(i) # {} THEN racing \cup {i} ELSE racing
  /\ UNCHANGED <<cartTotal, planOn, unpaidOpen, loanRequest, paidIn, repayment, cartEdits>>

\* A repayment row for the outstanding amount that was read; by card with an
\* open charge, from the wallet on its way to completion in this transaction.
StartRepayment(h, r) ==
  /\ cashier[h].step \in {"card", "wallet"} /\ repayment[r].status = "none"
  /\ LET i == cashier[h].number IN
     /\ repayment' = [repayment EXCEPT ![r] =
          [status |-> "PENDING", number |-> i, amount |-> cashier[h].paid,
           charge |-> IF cashier[h].step = "card" THEN "open" ELSE "success"]]
     /\ cashier' = [cashier EXCEPT ![h] =
          IF cashier[h].step = "card" THEN Away
          ELSE [@ EXCEPT !.step = "complete", !.row = r, !.paid = paidIn[i]]]
  /\ UNCHANGED <<cartTotal, planOn, unpaidOpen, loanRequest, paidIn, cartEdits, racing>>

\* External: Paystack settles the charge.
CardSettles(r, outcome) ==
  /\ repayment[r].charge = "open"
  /\ repayment' = [repayment EXCEPT ![r].charge = outcome]
  /\ UNCHANGED <<cartTotal, planOn, unpaidOpen, loanRequest, paidIn, cashier, cartEdits, racing>>

FaultyUnsettled(r) == repayment[r].status # "none"
\* Read again under the row lock; a replayed webhook finds it settled.
Unsettled(r) == repayment[r].status = "PENDING"

FaultyChargeFailed(r) == FALSE
ChargeFailed(r) == repayment[r].charge = "failed"

\* verify by webhook or by the customer, as often as they like.
VerifyRepayment(h, r) ==
  /\ cashier[h] = Away /\ repayment[r].charge \in {"success", "failed"}
  /\ ~\E g \in Cashiers : cashier[g].step = "complete" /\ cashier[g].row = r
  /\ Unsettled(r)
  /\ IF ChargeFailed(r)
     THEN repayment' = [repayment EXCEPT ![r].status = "FAILED"] /\ UNCHANGED cashier
     ELSE /\ cashier' = [cashier EXCEPT ![h] =
               [Away EXCEPT !.step = "complete", !.number = repayment[r].number,
                            !.row = r, !.paid = paidIn[repayment[r].number]]]
          /\ UNCHANGED repayment
  /\ UNCHANGED <<cartTotal, planOn, unpaidOpen, loanRequest, paidIn, cartEdits, racing>>

\* completeBnplRepayment: amountPaid is set to what was read plus the amount.
CompleteRepayment(h) ==
  /\ cashier[h].step = "complete"
  /\ LET r == cashier[h].row
         i == cashier[h].number IN
     /\ paidIn' = [paidIn EXCEPT ![i] = cashier[h].paid + repayment[r].amount]
     /\ repayment' = [repayment EXCEPT ![r].status = "PAID"]
  /\ cashier' = [cashier EXCEPT ![h] = Away]
  /\ UNCHANGED <<cartTotal, planOn, unpaidOpen, loanRequest, cartEdits, racing>>

FinancingNext ==
  \/ EditCart \/ SavePlan \/ OrdinaryCheckout
  \/ \E a \in LoanRequests :
       \/ ApplyForLoan(a) \/ CancelLoan(a)
       \/ \E decision \in {"APPROVED", "REJECTED"} : ReviewLoan(a, decision)
       \/ \E start \in StartDates : ConfirmLoan(a, start)
  \/ \E h \in Cashiers :
       \/ \E i \in 1..Months, way \in {"card", "wallet"} : PayRead(h, i, way)
       \/ \E r \in Repayments : StartRepayment(h, r) \/ VerifyRepayment(h, r)
       \/ CompleteRepayment(h)
  \/ \E r \in Repayments, outcome \in {"success", "failed"} : CardSettles(r, outcome)

FinancingSpec == FinancingInit /\ [][FinancingNext]_financingVars

-----------------------------------------------------------------------------
(* Properties.                                                             *)

\* What is financed is what was applied for and approved, however the cart,
\* the plan and ordinary checkouts changed meanwhile; an application makes
\* one checkout when it is confirmed and none before or otherwise, and only
\* one application holds the cart.
FinancedAsApproved ==
  /\ \A a \in Confirmed : loanRequest[a].financed = loanRequest[a].quote
  /\ \A a \in LoanRequests : loanRequest[a].groups = IF a \in Confirmed THEN 1 ELSE 0
  /\ \A a, b \in LoanRequests : HoldsCart(a) /\ HoldsCart(b) => a = b

\* The plan adds up to the kobo, its last instalment differs from the others
\* by less than a kobo a month, and one instalment falls due in every month
\* after the confirmation, the last day standing in for a day the month does
\* not have.
PlanIsExact ==
  \A a \in Confirmed :
    LET p == loanRequest[a].financed
        due == [i \in 1..Months |-> DueDate(loanRequest[a].start, i)] IN
    /\ SumFunction([i \in 1..Months |-> Instalment(p, i)]) = TotalPayable(p)
    /\ Instalment(p, Months) - Instalment(p, 1) \in 0..(Months - 1)
    /\ \A i \in 1..Months : due[i][1] = loanRequest[a].start[1] + i
                            /\ due[i][2] \in 1..MonthLength(due[i][1])

SumOver(i, rows) ==
  SumFunction([r \in Repayments |->
                 IF r \in rows /\ repayment[r].number = i THEN repayment[r].amount ELSE 0])
Booked(i) == SumOver(i, {r \in Repayments : repayment[r].status = "PAID"})
Received(i) == SumOver(i, {r \in Repayments : repayment[r].charge = "success"})

\* amountPaid is the sum of the PAID repayments, whatever is replayed, and no
\* customer pays more than the instalment, unless two repayments of it
\* overlapped: payRepayment does not look at the ones under way and
\* completeBnplRepayment adds to a value it read earlier.
RepaidOnce ==
  Confirmed # {} => \A i \in 1..Months :
    (paidIn[i] = Booked(i) /\ paidIn[i] <= Owed(i)) \/ i \in racing

\* Even with overlapping repayments and replayed webhooks an instalment never
\* counts as paid before the wallet or the card has given the money.
PaidIsCovered ==
  Confirmed # {} => \A i \in 1..Months : FullyPaid(i) => Received(i) >= Owed(i)

\* From application to last instalment the customer is held to what was
\* approved, to the kobo, and gets credit for what he paid and only for that.
LoansAreHonoured == FinancedAsApproved /\ PlanIsExact /\ RepaidOnce /\ PaidIsCovered
=============================================================================
