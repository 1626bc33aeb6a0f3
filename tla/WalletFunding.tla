---------------------------- MODULE WalletFunding ----------------------------
(***************************************************************************)
(* Money into and out of a customer's wallet: top-ups by card and by a     *)
(* temporary bank-transfer account, transfers to the customer's dedicated  *)
(* account (DVA), and withdrawals.                                         *)
(*                                                                         *)
(* A top-up row exists before Paystack is asked; a dedicated-account       *)
(* payment is first heard of in a charge.success webhook.  Verification    *)
(* asks Paystack outside any transaction and then commits: what it asked   *)
(* may be old by then, and the same payment may be verified by several     *)
(* webhook deliveries and by the customer at once.  Reconciliation passes  *)
(* over these payments: they belong to no checkout group.                  *)
(*                                                                         *)
(* Wallets share nothing, so the module is about one of them.  Its other   *)
(* movements are in CheckoutPayments (wallet checkouts and their refunds)  *)
(* and Fulfilment (rider earnings).                                        *)
(***************************************************************************)
EXTENDS Integers, FiniteSets, Functions

CONSTANTS
    Payments,        \* references of payments
    NoPayment,
    Amount,
    Handlers,        \* webhook deliveries and customers' verifications
    MaxInterruptions        \* bound: failed starts, lost requests, aborted transactions

TopUps == {"WALLET_TOPUP", "WALLET_TRANSFER_TOPUP"}
Kinds == TopUps \cup {"WALLET_DVA_TOPUP"}

ASSUME WalletAssumption ==
    /\ NoPayment \notin Payments
    /\ Amount \in [Payments -> Nat]
    /\ MaxInterruptions \in Nat

VARIABLES
    kind,       \* metadata.purpose, fixed by the endpoint or the webhook that creates the row
    payment,    \* Payment.status
    starting,   \* top-ups waiting for Paystack's first answer
    charge,     \* external: the transaction at Paystack
    lapsed,     \* transfer accounts past expiresAt and the ten minutes' grace
    ledger,     \* payments with a WalletTransaction (unique reference)
    balance,    \* Wallet.balance
    withdrawn,  \* sum of the Withdrawal rows
    event,      \* PaymentWebhookEvent of charge.success
    task,       \* what each handler is doing
    interruptions

money == <<ledger, balance, withdrawn>>
paystack == <<kind, charge>>
fundingVars == <<payment, starting, paystack, lapsed, money, event, task, interruptions>>

-----------------------------------------------------------------------------
PaymentStatus == {"none", "PENDING", "PAID", "FAILED"}
Task == [pc: {"idle", "ask", "commit", "upsert", "credit", "respond"},
         job: Payments \cup {NoPayment},
         by: {"none", "webhook", "customer"},
         answer: {"none", "success", "failed", "expired", "error"}]

At(pc, p, by, answer) == [pc |-> pc, job |-> p, by |-> by, answer |-> answer]
Idle == At("idle", NoPayment, "none", "none")

FundingTypeOK ==
    /\ kind \in [Payments -> Kinds]
    /\ payment \in [Payments -> PaymentStatus]
    /\ starting \subseteq Payments
    /\ charge \in [Payments -> {"none", "open", "success", "failed"}]
    /\ lapsed \subseteq Payments
    /\ ledger \subseteq Payments
    /\ balance \in Int /\ withdrawn \in Nat
    /\ event \in [Payments -> {"none", "unprocessed", "processed"}]
    /\ task \in [Handlers -> Task]
    /\ \A h \in Handlers : task[h].pc # "idle" => task[h].job \in Payments
    /\ interruptions \in 0..MaxInterruptions

FundingInit ==
    /\ kind \in [Payments -> Kinds]
    /\ payment = [p \in Payments |-> "none"]
    /\ starting = {}
    /\ charge = [p \in Payments |-> "none"]
    /\ lapsed = {}
    /\ ledger = {}
    /\ balance = 0
    /\ withdrawn = 0
    /\ event = [p \in Payments |-> "none"]
    /\ task = [h \in Handlers |-> Idle]
    /\ interruptions = 0

IsTopUp(p) == kind[p] \in TopUps

-----------------------------------------------------------------------------
(***************************************************************************)
(* Starting a top-up (topupWallet, topupWalletByTransfer).                 *)
(***************************************************************************)
TopUp(p) ==
    /\ IsTopUp(p) /\ payment[p] = "none"
    /\ payment' = [payment EXCEPT ![p] = "PENDING"]
    /\ starting' = starting \cup {p}
    /\ UNCHANGED <<paystack, lapsed, money, event, task, interruptions>>

TopUpStarted(p) ==
    /\ p \in starting
    /\ starting' = starting \ {p}
    /\ charge' = [charge EXCEPT ![p] = "open"]
    /\ UNCHANGED <<kind, payment, lapsed, money, event, task, interruptions>>

\* No link or account number reaches the customer, so nothing will be paid.
TopUpFailed(p) ==
    /\ p \in starting /\ interruptions < MaxInterruptions
    /\ interruptions' = interruptions + 1
    /\ starting' = starting \ {p}
    /\ payment' = [payment EXCEPT ![p] = "FAILED"]
    /\ UNCHANGED <<paystack, lapsed, money, event, task>>

\* External: the customer pays, also after a declined attempt; a transfer to the
\* dedicated account needs no request.
ChargeSettles(p) ==
    /\ \/ /\ charge[p] \in {"open", "failed"} \/ (~IsTopUp(p) /\ charge[p] = "none")
          /\ charge' = [charge EXCEPT ![p] = "success"]
       \/ /\ charge[p] = "open"
          /\ charge' = [charge EXCEPT ![p] = "failed"]
    /\ UNCHANGED <<kind, payment, starting, lapsed, money, event, task, interruptions>>

TransferExpires(p) ==
    /\ kind[p] = "WALLET_TRANSFER_TOPUP" /\ charge[p] # "none" /\ p \notin lapsed
    /\ lapsed' = lapsed \cup {p}
    /\ UNCHANGED <<payment, starting, paystack, money, event, task, interruptions>>

-----------------------------------------------------------------------------
(***************************************************************************)
(* Verification.  handleWebhook looks the reference up first; a reference  *)
(* it does not know is a transfer to the dedicated account.                *)
(***************************************************************************)
Webhook(h, p) ==
    /\ task[h] = Idle
    /\ charge[p] = "success" /\ event[p] # "processed"
    /\ task' = [task EXCEPT ![h] =
          At(IF payment[p] = "none" THEN "upsert" ELSE "ask", p, "webhook", "none")]
    /\ UNCHANGED <<payment, starting, paystack, lapsed, money, event, interruptions>>

Verify(h, p) ==
    /\ task[h] = Idle
    /\ payment[p] # "none"
    /\ task' = [task EXCEPT ![h] = At("ask", p, "customer", "none")]
    /\ UNCHANGED <<payment, starting, paystack, lapsed, money, event, interruptions>>

FaultyAlreadyPaid(p) == payment[p] \in {"PAID", "FAILED"}

AlreadyPaid(p) == payment[p] = "PAID"

\* verifyReference up to the answer.  A PAID payment is not asked about; a charge
\* still open is left alone unless the transfer account has lapsed.
Ask(h) ==
    LET p == task[h].job
        then(pc, answer) == task' = [task EXCEPT ![h] = At(pc, p, task[h].by, answer)]
    IN /\ task[h].pc = "ask"
       /\ \/ AlreadyPaid(p) /\ then("respond", "success")
          \/ /\ ~AlreadyPaid(p) /\ charge[p] = "success"
             /\ then("commit", "success")
          \/ /\ ~AlreadyPaid(p) /\ charge[p] = "failed"
             /\ then("commit", "failed")
          \/ /\ ~AlreadyPaid(p) /\ charge[p] = "open"
             /\ IF p \in lapsed THEN then("commit", "expired") ELSE then("respond", "none")
          \/ /\ ~AlreadyPaid(p) /\ charge[p] = "none"
             /\ then("respond", "error")
       /\ UNCHANGED <<payment, starting, paystack, lapsed, money, event, interruptions>>

FaultyCreditable(p) == payment[p] # "PAID"

\* The row is locked and read again; the ledger's unique reference aborts a
\* second credit, for a payment marked FAILED after it was credited.
Creditable(p) == payment[p] # "PAID" /\ p \notin ledger

Credit(p) ==
    /\ balance' = balance + Amount[p]
    /\ ledger' = ledger \cup {p}
    /\ UNCHANGED withdrawn

FaultyTopUpPaid(p) == payment' = [payment EXCEPT ![p] = "PAID"] /\ UNCHANGED money

\* The transaction of a successful top-up.
TopUpPaid(p) == payment' = [payment EXCEPT ![p] = "PAID"] /\ Credit(p)

\* The outcome of a commit: whether the handler goes on or throws.
Respond(h, answer) ==
    task' = [task EXCEPT ![h] = At("respond", task[h].job, task[h].by, answer)]

CommitTopUp(h) ==
    LET p == task[h].job
    IN /\ task[h].pc = "commit" /\ IsTopUp(p)
       /\ \/ /\ task[h].answer = "success" /\ Creditable(p)
             /\ TopUpPaid(p) /\ Respond(h, "success")
          \/ /\ task[h].answer = "success" /\ payment[p] = "PAID"
             /\ Respond(h, "success") /\ UNCHANGED <<payment, money>>
          \/ /\ task[h].answer = "success" /\ payment[p] # "PAID" /\ ~Creditable(p)
             /\ Respond(h, "error") /\ UNCHANGED <<payment, money>>
          \/ /\ task[h].answer \in {"failed", "expired"}
             /\ payment' = [payment EXCEPT ![p] = "FAILED"]
             /\ Respond(h, "failed") /\ UNCHANGED money
       /\ UNCHANGED <<starting, paystack, lapsed, event, interruptions>>

\* verifyReference has no branch for WALLET_DVA_TOPUP: the checkout's runs, over
\* no groups, and credits nothing.
CommitCheckout(h) ==
    LET p == task[h].job
    IN /\ task[h].pc = "commit" /\ ~IsTopUp(p)
       /\ payment' = [payment EXCEPT ![p] = "PAID"]
       /\ Respond(h, "success")
       /\ UNCHANGED <<starting, paystack, lapsed, money, event, interruptions>>

-----------------------------------------------------------------------------
(***************************************************************************)
(* completeDedicatedAccountFunding: the row, then the credit.              *)
(***************************************************************************)
UpsertFunding(h) ==
    LET p == task[h].job
    IN /\ task[h].pc = "upsert"
       /\ payment' = [payment EXCEPT ![p] = IF @ = "none" THEN "PENDING" ELSE @]
       /\ task' = [task EXCEPT ![h] = At("credit", p, task[h].by, "success")]
       /\ UNCHANGED <<starting, paystack, lapsed, money, event, interruptions>>

CreditFunding(h) ==
    LET p == task[h].job
    IN /\ task[h].pc = "credit"
       /\ IF payment[p] = "PAID" THEN UNCHANGED <<payment, money>>
          ELSE /\ payment' = [payment EXCEPT ![p] = "PAID"]
               /\ IF p \in ledger THEN UNCHANGED money ELSE Credit(p)
       /\ Respond(h, "success")
       /\ UNCHANGED <<starting, paystack, lapsed, event, interruptions>>

\* A webhook whose payment does not verify as paid, or that throws, is recorded
\* as unprocessed and Paystack sends it again.
EndHandler(h) ==
    LET p == task[h].job
    IN /\ task[h].pc = "respond"
       /\ event' = IF task[h].by # "webhook" THEN event
                   ELSE [event EXCEPT ![p] =
                           IF task[h].answer = "success" THEN "processed" ELSE "unprocessed"]
       /\ task' = [task EXCEPT ![h] = Idle]
       /\ UNCHANGED <<payment, starting, paystack, lapsed, money, interruptions>>

\* The process stops, Paystack cannot be reached or a transaction aborts.
Interrupted(h) ==
    /\ task[h] # Idle /\ interruptions < MaxInterruptions
    /\ interruptions' = interruptions + 1
    /\ task' = [task EXCEPT ![h] = Idle]
    /\ UNCHANGED <<payment, starting, paystack, lapsed, money, event>>

-----------------------------------------------------------------------------
\* requestWalletWithdrawal holds the wallet row from before it reads the balance.
Withdrawable(n) == n <= balance

Withdraw(n) ==
    /\ Withdrawable(n)
    /\ balance' = balance - n
    /\ withdrawn' = withdrawn + n
    /\ UNCHANGED <<payment, starting, paystack, lapsed, ledger, event, task, interruptions>>

FundingNext ==
    \/ \E p \in Payments : \/ TopUp(p) \/ TopUpStarted(p) \/ TopUpFailed(p)
                           \/ ChargeSettles(p) \/ TransferExpires(p)
                           \/ Withdraw(Amount[p])
    \/ \E h \in Handlers : \/ \E p \in Payments : Webhook(h, p) \/ Verify(h, p)
                           \/ Ask(h) \/ CommitTopUp(h) \/ CommitCheckout(h)
                           \/ UpsertFunding(h) \/ CreditFunding(h)
                           \/ EndHandler(h) \/ Interrupted(h)

FundingSpec == FundingInit /\ [][FundingNext]_fundingVars

(***************************************************************************)
(* A handler that has started goes on; Paystack repeats a webhook until it *)
(* is answered with success.                                               *)
(***************************************************************************)
Continue(h) ==
    Ask(h) \/ CommitTopUp(h) \/ CommitCheckout(h) \/ UpsertFunding(h) \/ CreditFunding(h) \/ EndHandler(h)

FundingFairness ==
    /\ \A h \in Handlers : WF_fundingVars(Continue(h))
    /\ \A p \in Payments : SF_fundingVars(\E h \in Handlers : Webhook(h, p))

FundingFairSpec == FundingSpec /\ FundingFairness

-----------------------------------------------------------------------------
\* The wallet holds exactly what its ledger records, never less than nothing, and
\* nothing enters the ledger that Paystack has not captured: concurrent webhooks,
\* customers and stale answers credit a payment once (completeWalletTopup,
\* completeDedicatedAccountFunding, requestWalletWithdrawal).
WalletMatchesLedger ==
    /\ balance >= 0
    /\ balance + withdrawn = SumFunctionOnSet(Amount, ledger)
    /\ \A p \in ledger : charge[p] = "success"

\* A top-up recorded PAID has reached the wallet (verifyReference).
PaidTopUpIsCredited == \A p \in Payments : IsTopUp(p) /\ payment[p] = "PAID" => p \in ledger

\* Wallet, ledger and payment rows tell the same story at every moment.
FundingIsRecorded == WalletMatchesLedger /\ PaidTopUpIsCredited

\* checkout-flow.spec.ts: "credits the mapped wallet exactly once from a verified
\* dedicated-account webhook".  A webhook recorded as processed has credited.
ProcessedIsCredited == \A p \in Payments : event[p] = "processed" => p \in ledger

\* Money captured for a top-up arrives in the wallet, although the payment may
\* have been marked FAILED or lapsed first: late success still credits.
CapturedTopUpArrives ==
    \A p \in Payments : IsTopUp(p) => (charge[p] = "success" ~> p \in ledger)
=============================================================================
