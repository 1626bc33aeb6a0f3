--------------------------- MODULE CommerceProofs ---------------------------
(***************************************************************************)
(* Money, goods and offers around the checkout, for every number of        *)
(* payments, handlers, customers, accounts and amounts.                    *)
(*                                                                         *)
(* The components share no state; each has a part of its own here, with    *)
(* its inductive invariant.  In all of them a handler reads first and      *)
(* writes later, so the invariant says what the handler's reading is still *)
(* worth, and the history variables say when it is worth nothing.          *)
(***************************************************************************)
EXTENDS WalletFunding, Payouts, Promotions, Merchants, Shopper, Pricing, Rewards,
        Financing, SumTheorems, TLAPS

-----------------------------------------------------------------------------
(***************************************************************************)
(* WalletFunding.                                                          *)
(***************************************************************************)
\* A top-up that Paystack knows of has its row and is not being started.
StartedHasRow ==
  \A p \in Payments :
    /\ p \in starting => IsTopUp(p) /\ payment[p] # "none" /\ charge[p] = "none"
    /\ IsTopUp(p) /\ charge[p] # "none" => payment[p] # "none"

\* A handler about to credit has heard of a captured charge.
HeardOf(t) ==
  (t.pc = "commit" /\ t.answer = "success") \/ t.pc \in {"upsert", "credit"}
    => charge[t.job] = "success"

HandlersHeard == \A h \in Handlers : HeardOf(task[h])

FundingInv ==
  /\ FundingTypeOK
  /\ StartedHasRow
  /\ HandlersHeard
  /\ IsFiniteSet(ledger)
  /\ FundingIsRecorded

\* What no step undoes: a captured charge stays captured, a row stays a row, and
\* the purpose of a payment is fixed.
FundingKept ==
  /\ kind' = kind
  /\ \A p \in Payments :
       /\ charge[p] = "success" => charge'[p] = "success"
       /\ payment[p] # "none" => payment'[p] # "none"

\* The invariant holds at first.
LEMMA FundingStarts == FundingInit => FundingInv
<1> SUFFICES ASSUME FundingInit PROVE FundingInv
  OBVIOUS
<1>1. Idle \in Task
  BY DEF Idle, At, Task
<1>2. FundingTypeOK
  BY <1>1, WalletAssumption DEF FundingInit, FundingTypeOK, PaymentStatus, Idle, At
<1>3. StartedHasRow /\ HandlersHeard
  BY DEF FundingInit, StartedHasRow, HandlersHeard, HeardOf, Idle, At
<1>4. IsFiniteSet(ledger) /\ SumFunctionOnSet(Amount, ledger) = 0
  BY FS_EmptySet, SumEmpty DEF FundingInit
<1>5. QED
  BY <1>2, <1>3, <1>4 DEF FundingInit, FundingInv, FundingIsRecorded, WalletMatchesLedger,
                          PaidTopUpIsCredited

\* The first credit of a captured payment keeps wallet and ledger together.
LEMMA CreditKeeps ==
  ASSUME FundingInv, NEW p \in Payments, p \notin ledger, Credit(p),
         charge[p] = "success", FundingKept
  PROVE  /\ WalletMatchesLedger' /\ IsFiniteSet(ledger') /\ ledger' \subseteq Payments
         /\ balance' \in Int /\ withdrawn' \in Nat
<1>1. /\ balance' = balance + Amount[p] /\ ledger' = ledger \cup {p} /\ withdrawn' = withdrawn
      /\ balance \in Int /\ withdrawn \in Nat /\ Amount[p] \in Nat /\ balance >= 0
      /\ balance + withdrawn = SumFunctionOnSet(Amount, ledger)
      /\ ledger \subseteq Payments /\ IsFiniteSet(ledger)
  BY WalletAssumption DEF Credit, FundingInv, FundingTypeOK, FundingIsRecorded, WalletMatchesLedger
<1>2. IsFiniteSet(ledger') /\ ledger' \subseteq Payments
  BY <1>1, FS_AddElement
<1>3. SumFunctionOnSet(Amount, ledger') = Amount[p] + SumFunctionOnSet(Amount, ledger)
  <2>1. \A q \in ledger \cup {p} : Amount[q] \in Int
    BY <1>1, WalletAssumption
  <2>2. QED BY <1>1, <2>1, SumInsert
<1>4. \A q \in ledger' : charge'[q] = "success"
  BY <1>1 DEF FundingInv, FundingIsRecorded, WalletMatchesLedger, FundingKept
<1>5. QED BY <1>1, <1>2, <1>3, <1>4 DEF WalletMatchesLedger

\* What a handler has heard stays true.
LEMMA HeardKept ==
  ASSUME FundingInv, FundingKept, NEW t, t.job \in Payments, HeardOf(t)
  PROVE  HeardOf(t)'
BY DEF HeardOf, FundingKept

\* A step that gives one handler a task it may have.
LEMMA HandlerMoves ==
  ASSUME FundingInv, FundingKept, NEW h \in Handlers, NEW t \in Task,
         t.pc # "idle" => t.job \in Payments, HeardOf(t)',
         task' = [task EXCEPT ![h] = t]
  PROVE  /\ HandlersHeard'
         /\ task' \in [Handlers -> Task]
         /\ \A g \in Handlers : task'[g].pc # "idle" => task'[g].job \in Payments
<1>1. task \in [Handlers -> Task] /\ \A g \in Handlers : task[g].pc # "idle" => task[g].job \in Payments
  BY DEF FundingInv, FundingTypeOK
<1>2. task'[h] = t /\ \A g \in Handlers \ {h} : task'[g] = task[g]
  BY <1>1
<1>3. ASSUME NEW g \in Handlers PROVE HeardOf(task[g])'
  <2>1. CASE g = h
    BY <1>2, <2>1 DEF HeardOf
  <2>2. CASE g # h
    BY <1>1, <1>2, <2>2 DEF HeardOf, FundingInv, HandlersHeard, FundingKept
  <2>3. QED BY <2>1, <2>2
<1>4. QED BY <1>1, <1>2, <1>3 DEF HandlersHeard

\* A step that moves no money, no row to PAID and no charge away from success.
Harmless ==
  /\ FundingKept
  /\ UNCHANGED money
  /\ \A p \in Payments : payment'[p] = "PAID" => payment[p] = "PAID" \/ ~IsTopUp(p)

\* Such a step keeps what is recorded.
LEMMA HarmlessKeeps ==
  ASSUME FundingInv, Harmless
  PROVE  FundingIsRecorded' /\ IsFiniteSet(ledger)'
BY DEF FundingInv, FundingTypeOK, Harmless, money, FundingKept, FundingIsRecorded,
       WalletMatchesLedger, PaidTopUpIsCredited, IsTopUp

\* The rows a top-up goes through before a handler hears of it.
LEMMA StartKeeps ==
  ASSUME FundingInv, NEW p \in Payments,
         TopUp(p) \/ TopUpStarted(p) \/ TopUpFailed(p) \/ ChargeSettles(p) \/ TransferExpires(p)
  PROVE  FundingInv'
<1> USE DEF FundingInv, FundingTypeOK
<1>1. Harmless
  BY DEF TopUp, TopUpStarted, TopUpFailed, ChargeSettles, TransferExpires, Harmless, FundingKept,
         paystack, money, PaymentStatus, IsTopUp, StartedHasRow
<1>2. StartedHasRow'
  BY DEF TopUp, TopUpStarted, TopUpFailed, ChargeSettles, TransferExpires, StartedHasRow,
         paystack, PaymentStatus, IsTopUp
<1>3. task' = task
  BY DEF TopUp, TopUpStarted, TopUpFailed, ChargeSettles, TransferExpires
<1>4. HandlersHeard'
  BY <1>1, <1>3 DEF HandlersHeard, HeardOf, Harmless, FundingKept
<1>5. interruptions' \in 0..MaxInterruptions
  BY WalletAssumption DEF TopUp, TopUpStarted, TopUpFailed, ChargeSettles, TransferExpires
<1>6. /\ payment' \in [Payments -> PaymentStatus] /\ starting' \subseteq Payments
      /\ charge' \in [Payments -> {"none", "open", "success", "failed"}]
      /\ lapsed' \subseteq Payments /\ kind' = kind /\ event' = event
      /\ UNCHANGED money
  BY DEF TopUp, TopUpStarted, TopUpFailed, ChargeSettles, TransferExpires, paystack, money,
         PaymentStatus
<1>7. FundingTypeOK'
  BY <1>3, <1>5, <1>6 DEF money
<1>8. QED BY <1>1, <1>2, <1>4, <1>7, HarmlessKeeps

\* What changes at most when a handler moves: its task, rows, money and events.
HandlerScope == UNCHANGED <<starting, kind, charge, lapsed>>

\* The invariant, from what a handler's step does to its parts.
LEMMA HandlerKeeps ==
  ASSUME FundingInv, HandlerScope, NEW h \in Handlers, NEW t \in Task,
         t.pc # "idle" => t.job \in Payments, HeardOf(t),
         task' = [task EXCEPT ![h] = t],
         payment' \in [Payments -> PaymentStatus],
         \A p \in Payments : payment[p] # "none" => payment'[p] # "none",
         event' \in [Payments -> {"none", "unprocessed", "processed"}],
         interruptions' \in 0..MaxInterruptions,
         ledger' \subseteq Payments, balance' \in Int, withdrawn' \in Nat,
         IsFiniteSet(ledger'), FundingIsRecorded'
  PROVE  FundingInv'
<1>1. FundingKept
  BY DEF HandlerScope, FundingKept
<1>2. HeardOf(t)'
  BY DEF HeardOf, HandlerScope
<1>3. /\ HandlersHeard'
      /\ task' \in [Handlers -> Task]
      /\ \A g \in Handlers : task'[g].pc # "idle" => task'[g].job \in Payments
  BY <1>1, <1>2, HandlerMoves
<1>4. StartedHasRow'
  BY DEF FundingInv, StartedHasRow, HandlerScope, IsTopUp
<1>5. FundingTypeOK'
  BY <1>3 DEF FundingInv, FundingTypeOK, HandlerScope
<1>6. QED BY <1>3, <1>4, <1>5 DEF FundingInv

\* The steps of a handler that touch neither rows nor money.
LEMMA AskKeeps ==
  ASSUME FundingInv, NEW h \in Handlers,
         \/ \E p \in Payments : Webhook(h, p) \/ Verify(h, p)
         \/ Ask(h) \/ EndHandler(h) \/ Interrupted(h)
  PROVE  FundingInv'
<1>0. /\ task \in [Handlers -> Task] /\ (task[h].pc # "idle" => task[h].job \in Payments)
      /\ interruptions \in 0..MaxInterruptions
      /\ event \in [Payments -> {"none", "unprocessed", "processed"}]
  BY DEF FundingInv, FundingTypeOK
<1>1. Idle \in Task /\ Idle.pc = "idle" /\ HeardOf(Idle)
  BY DEF Idle, At, Task, HeardOf
<1>2. PICK t \in Task : /\ t.pc # "idle" => t.job \in Payments
                        /\ HeardOf(t) /\ task' = [task EXCEPT ![h] = t]
  <2>1. ASSUME NEW p \in Payments, Webhook(h, p) \/ Verify(h, p)
        PROVE  \E t \in Task : /\ t.pc # "idle" => t.job \in Payments
                               /\ HeardOf(t) /\ task' = [task EXCEPT ![h] = t]
    <3>1. ASSUME Webhook(h, p)
          PROVE  \E t \in Task : /\ t.pc # "idle" => t.job \in Payments
                                 /\ HeardOf(t) /\ task' = [task EXCEPT ![h] = t]
      <4> DEFINE t == At(IF payment[p] = "none" THEN "upsert" ELSE "ask", p, "webhook", "none")
      <4>1. t \in Task /\ t.job \in Payments /\ HeardOf(t)
        BY <3>1 DEF At, Task, HeardOf, Webhook
      <4>2. QED BY <3>1, <4>1 DEF Webhook
    <3>2. ASSUME Verify(h, p)
          PROVE  \E t \in Task : /\ t.pc # "idle" => t.job \in Payments
                                 /\ HeardOf(t) /\ task' = [task EXCEPT ![h] = t]
      <4> DEFINE t == At("ask", p, "customer", "none")
      <4>1. t \in Task /\ t.job \in Payments /\ HeardOf(t)
        BY <3>2 DEF At, Task, HeardOf, Verify
      <4>2. QED BY <3>2, <4>1 DEF Verify
    <3>3. QED BY <2>1, <3>1, <3>2
  <2>2. ASSUME Ask(h)
        PROVE  \E t \in Task : /\ t.pc # "idle" => t.job \in Payments
                               /\ HeardOf(t) /\ task' = [task EXCEPT ![h] = t]
    <3> DEFINE p == task[h].job
               to(pc, answer) == At(pc, p, task[h].by, answer)
    <3>1. p \in Payments /\ task[h].by \in {"none", "webhook", "customer"}
      BY <1>0, <2>2 DEF Ask, Task
    <3>2. ASSUME NEW pc \in {"commit", "respond"},
                 NEW answer \in {"none", "success", "failed", "expired", "error"},
                 pc = "commit" /\ answer = "success" => charge[p] = "success",
                 task' = [task EXCEPT ![h] = to(pc, answer)]
          PROVE  \E t \in Task : /\ t.pc # "idle" => t.job \in Payments
                                 /\ HeardOf(t) /\ task' = [task EXCEPT ![h] = t]
      <4>1. to(pc, answer) \in Task
        BY <3>1 DEF At, Task
      <4>2. to(pc, answer).job \in Payments /\ HeardOf(to(pc, answer))
        BY <3>1, <3>2 DEF At, HeardOf
      <4>3. QED BY <3>2, <4>1, <4>2
    <3>3. \/ task' = [task EXCEPT ![h] = to("respond", "success")]
          \/ charge[p] = "success" /\ task' = [task EXCEPT ![h] = to("commit", "success")]
          \/ task' = [task EXCEPT ![h] = to("commit", "failed")]
          \/ task' = [task EXCEPT ![h] = to("commit", "expired")]
          \/ task' = [task EXCEPT ![h] = to("respond", "none")]
          \/ task' = [task EXCEPT ![h] = to("respond", "error")]
      BY <2>2 DEF Ask
    <3> HIDE DEF to, p
    <3>4. QED BY <3>2, <3>3
  <2>3. ASSUME EndHandler(h) \/ Interrupted(h)
        PROVE  task' = [task EXCEPT ![h] = Idle]
    BY <2>3 DEF EndHandler, Interrupted
  <2>4. QED BY <1>1, <2>1, <2>2, <2>3
<1>3. /\ HandlerScope /\ payment' = payment /\ UNCHANGED money
      /\ interruptions' \in 0..MaxInterruptions
  BY <1>0, WalletAssumption DEF Webhook, Verify, Ask, EndHandler, Interrupted, HandlerScope, paystack
<1>4. event' \in [Payments -> {"none", "unprocessed", "processed"}]
  BY <1>0 DEF Webhook, Verify, Ask, EndHandler, Interrupted
<1>5. Harmless
  BY <1>3 DEF Harmless, FundingKept, HandlerScope
<1>6. FundingIsRecorded' /\ IsFiniteSet(ledger')
  BY <1>5, HarmlessKeeps
<1>7. /\ payment' \in [Payments -> PaymentStatus] /\ ledger' \subseteq Payments
      /\ balance' \in Int /\ withdrawn' \in Nat
  BY <1>3 DEF money, FundingInv, FundingTypeOK
<1>8. \A p \in Payments : payment[p] # "none" => payment'[p] # "none"
  BY <1>3
<1>9. QED BY <1>2, <1>3, <1>4, <1>6, <1>7, <1>8, HandlerKeeps

\* The answer of a commit is a task that has nothing left to credit.
LEMMA RespondMoves ==
  ASSUME FundingInv, NEW h \in Handlers, task[h].pc # "idle",
         NEW answer \in {"none", "success", "failed", "expired", "error"}, Respond(h, answer)
  PROVE  \E t \in Task : /\ t.pc # "idle" => t.job \in Payments
                         /\ HeardOf(t) /\ task' = [task EXCEPT ![h] = t]
<1> DEFINE t == At("respond", task[h].job, task[h].by, answer)
<1>1. task[h] \in Task /\ task[h].job \in Payments
  BY DEF FundingInv, FundingTypeOK
<1>2. t \in Task /\ t.job \in Payments /\ HeardOf(t)
  BY <1>1 DEF At, Task, HeardOf
<1>3. QED BY <1>2 DEF Respond

\* The commits: whoever comes first credits, and only what was captured.
LEMMA CommitKeeps ==
  ASSUME FundingInv, NEW h \in Handlers,
         CommitTopUp(h) \/ CommitCheckout(h) \/ UpsertFunding(h) \/ CreditFunding(h)
  PROVE  FundingInv'
<1> DEFINE p == task[h].job
<1>0. /\ task[h] \in Task /\ p \in Payments /\ HeardOf(task[h])
      /\ payment \in [Payments -> PaymentStatus] /\ task[h].pc # "idle"
      /\ event' = event /\ interruptions' = interruptions /\ HandlerScope
  BY DEF CommitTopUp, CommitCheckout, UpsertFunding, CreditFunding, FundingInv, FundingTypeOK,
         HandlersHeard, HandlerScope, paystack
<1>1. PICK t \in Task : /\ t.pc # "idle" => t.job \in Payments
                        /\ HeardOf(t) /\ task' = [task EXCEPT ![h] = t]
  <2>1. ASSUME UpsertFunding(h)
        PROVE  \E t \in Task : /\ t.pc # "idle" => t.job \in Payments
                               /\ HeardOf(t) /\ task' = [task EXCEPT ![h] = t]
    <3> DEFINE t == At("credit", p, task[h].by, "success")
    <3>1. t \in Task /\ t.job \in Payments /\ HeardOf(t)
      BY <1>0, <2>1 DEF At, Task, HeardOf, UpsertFunding
    <3>2. QED BY <2>1, <3>1 DEF UpsertFunding
  <2>2. ASSUME CommitTopUp(h) \/ CommitCheckout(h) \/ CreditFunding(h)
        PROVE  \E answer \in {"none", "success", "failed", "expired", "error"} : Respond(h, answer)
    BY <2>2 DEF CommitTopUp, CommitCheckout, CreditFunding
  <2>3. QED BY <1>0, <2>1, <2>2, RespondMoves
<1>2. \/ /\ UNCHANGED money
         /\ \/ payment' = payment
            \/ payment' = [payment EXCEPT ![p] = "FAILED"]
            \/ payment' = [payment EXCEPT ![p] = "PAID"] /\ (~IsTopUp(p) \/ p \in ledger)
            \/ payment' = [payment EXCEPT ![p] = IF @ = "none" THEN "PENDING" ELSE @]
      \/ /\ payment' = [payment EXCEPT ![p] = "PAID"]
         /\ p \notin ledger /\ Credit(p) /\ charge[p] = "success"
  BY <1>0 DEF CommitTopUp, CommitCheckout, UpsertFunding, CreditFunding, TopUpPaid, Creditable,
              HeardOf
<1>3. /\ payment' \in [Payments -> PaymentStatus]
      /\ \A q \in Payments : payment[q] # "none" => payment'[q] # "none"
      /\ \A q \in Payments \ {p} : payment'[q] = payment[q]
  BY <1>0, <1>2 DEF PaymentStatus
<1>4. FundingKept
  BY <1>0, <1>3 DEF FundingKept, HandlerScope
<1>5. /\ WalletMatchesLedger' /\ IsFiniteSet(ledger') /\ ledger' \subseteq Payments
      /\ balance' \in Int /\ withdrawn' \in Nat
  <2>1. ASSUME UNCHANGED money
        PROVE  /\ WalletMatchesLedger' /\ IsFiniteSet(ledger') /\ ledger' \subseteq Payments
               /\ balance' \in Int /\ withdrawn' \in Nat
    BY <1>0, <2>1 DEF money, HandlerScope, FundingInv, FundingTypeOK, FundingIsRecorded,
                      WalletMatchesLedger
  <2>2. QED BY <1>0, <1>2, <1>4, <2>1, CreditKeeps
<1>6. PaidTopUpIsCredited'
  <2>1. ledger \subseteq ledger' /\ (payment'[p] = "PAID" /\ IsTopUp(p) => p \in ledger')
    BY <1>0, <1>2 DEF money, Credit, FundingInv, FundingIsRecorded, PaidTopUpIsCredited
  <2>2. QED BY <1>0, <1>3, <2>1 DEF FundingInv, FundingIsRecorded, PaidTopUpIsCredited, HandlerScope,
                                    IsTopUp
<1>7. /\ event' \in [Payments -> {"none", "unprocessed", "processed"}]
      /\ interruptions' \in 0..MaxInterruptions
  BY <1>0 DEF FundingInv, FundingTypeOK
<1>8. FundingIsRecorded'
  BY <1>5, <1>6 DEF FundingIsRecorded
<1>9. QED BY <1>0, <1>1, <1>3, <1>5, <1>7, <1>8, HandlerKeeps

\* A withdrawal takes what it has found under the wallet's lock.
LEMMA WithdrawKeeps ==
  ASSUME FundingInv, NEW n \in Nat, Withdraw(n)
  PROVE  FundingInv'
<1>1. /\ n <= balance /\ balance' = balance - n /\ withdrawn' = withdrawn + n
      /\ UNCHANGED <<payment, starting, kind, charge, lapsed, ledger, event, task, interruptions>>
  BY DEF Withdraw, Withdrawable, paystack
<1>2. balance \in Int /\ withdrawn \in Nat /\ balance + withdrawn = SumFunctionOnSet(Amount, ledger)
  BY DEF FundingInv, FundingTypeOK, FundingIsRecorded, WalletMatchesLedger
<1>3. balance' \in Int /\ withdrawn' \in Nat /\ balance' >= 0 /\ balance' + withdrawn' = balance + withdrawn
  BY <1>1, <1>2
<1>4. FundingTypeOK'
  BY <1>1, <1>3 DEF FundingInv, FundingTypeOK
<1>5. StartedHasRow' /\ HandlersHeard' /\ IsFiniteSet(ledger')
  BY <1>1 DEF FundingInv, StartedHasRow, HandlersHeard, HeardOf, IsTopUp
<1>6. FundingIsRecorded'
  BY <1>1, <1>2, <1>3 DEF FundingInv, FundingIsRecorded, WalletMatchesLedger, PaidTopUpIsCredited,
                          IsTopUp
<1>7. QED BY <1>4, <1>5, <1>6 DEF FundingInv

\* Concurrent webhooks, customers and stale answers credit a captured payment
\* once, the wallet holds what its ledger says, and a PAID top-up is in it.
THEOREM FundingCorrect == FundingSpec => []FundingIsRecorded
<1>1. FundingInv /\ [FundingNext]_fundingVars => FundingInv'
  <2> SUFFICES ASSUME FundingInv, [FundingNext]_fundingVars PROVE FundingInv'
    OBVIOUS
  <2>1. ASSUME NEW p \in Payments, Withdraw(Amount[p]) PROVE FundingInv'
    <3>1. Amount[p] \in Nat
      BY WalletAssumption
    <3>2. QED BY <2>1, <3>1, WithdrawKeeps
  <2>2. CASE UNCHANGED fundingVars
    BY <2>2 DEF fundingVars, paystack, money, FundingInv, FundingTypeOK, StartedHasRow,
                HandlersHeard, HeardOf, IsTopUp, FundingIsRecorded, WalletMatchesLedger,
                PaidTopUpIsCredited
  <2>3. CASE FundingNext
    BY <2>1, <2>3, StartKeeps, AskKeeps, CommitKeeps DEF FundingNext
  <2>4. QED BY <2>2, <2>3
<1>2. FundingInv => FundingIsRecorded
  BY DEF FundingInv
<1>3. QED BY FundingStarts, <1>1, <1>2, PTL DEF FundingSpec

-----------------------------------------------------------------------------
(***************************************************************************)
(* Payouts.                                                                *)
(***************************************************************************)
Steps == {"free", "bank", "draw", "add", "prefer", "remove"}
Teller == [step: Steps, purse: Purses, amount: Nat, bank: Int, primary: BOOLEAN, late: BOOLEAN]

PayoutsTypeOK ==
  /\ funds \in [Purses -> Int]
  /\ outdated \in [Purses -> Nat]
  /\ reversed \in Nat
  /\ banks \in [Banks -> {"unknown", "primary", "other", "removed"}]
  /\ teller \in [Tellers -> Teller]

\* What the named races may have taken from a purse.
Explained(p) == IF p = "store" THEN outdated["store"] + reversed ELSE outdated["rider"]

\* A balance that nobody has drawn on since it was read still covers the amount,
\* up to what is explained.
ReadingCovers(t) ==
  t.step \in {"bank", "draw"} /\ ~t.late => t.amount <= funds[t.purse] + Explained(t.purse)

FundsInv ==
  /\ \A t \in Tellers : ReadingCovers(teller[t])
  /\ \A p \in Purses : funds[p] + Explained(p) >= 0

\* Exactly one account is the primary one.
OnePrimary ==
  \E b \in Held : \A c \in Held : banks[c] = "primary" <=> c = b

IsChanger(t) == t.step \in {"add", "prefer", "remove"}

\* What a change of accounts has read is still true.
AccountsAsRead(t) ==
  /\ t.step = "add" /\ Held = {} => t.primary
  /\ t.step \in {"prefer", "remove"} => t.bank \in Held /\ (t.primary <=> banks[t.bank] = "primary")

BanksInv ==
  \/ crossed
  \/ /\ \A t, u \in Tellers : IsChanger(teller[t]) /\ IsChanger(teller[u]) => t = u
     /\ \A t \in Tellers : AccountsAsRead(teller[t])
     /\ Held = {} \/ OnePrimary

PayoutsInv == PayoutsTypeOK /\ FundsInv /\ BanksInv

\* A handler without a task.
LEMMA FreeTeller ==
  /\ Free \in Teller
  /\ Free.step = "free" /\ Free.purse = "store" /\ Free.amount = 0 /\ Free.bank = 0 /\ ~Free.late
BY DEF Free, Teller, Steps, Purses

\* The invariant holds at first.
LEMMA PayoutsStart == PayoutsInit => PayoutsInv
<1> SUFFICES ASSUME PayoutsInit PROVE PayoutsInv
  OBVIOUS
<1>1. Free \in Teller /\ Free.step = "free"
  BY DEF Free, Teller, Steps, Purses
<1>2. PayoutsTypeOK
  BY <1>1 DEF PayoutsInit, PayoutsTypeOK
<1>3. \A t \in Tellers : teller[t] = Free
  BY DEF PayoutsInit
<1>4. FundsInv
  BY <1>1, <1>3 DEF PayoutsInit, FundsInv, ReadingCovers, Explained, Purses
<1>5. BanksInv
  BY <1>1, <1>3 DEF PayoutsInit, BanksInv, IsChanger, AccountsAsRead, Held
<1>6. QED BY <1>2, <1>4, <1>5 DEF PayoutsInv

\* Earnings come and settlements go: the tellers and the accounts stay.
LEMMA EarningsKeep ==
  ASSUME PayoutsInv,
         \/ \E o \in Sales : SettleSale(o) \/ ReverseSale(o)
         \/ \E d \in Trips : ReleaseTrip(d)
  PROVE  PayoutsInv'
<1>1. /\ banks' = banks /\ teller' = teller /\ crossed' = crossed /\ outdated' = outdated
      /\ \/ funds' = [funds EXCEPT !["store"] = @ + Earning] /\ reversed' = reversed
         \/ funds' = [funds EXCEPT !["store"] = @ - Earning] /\ reversed' = reversed + Earning
         \/ funds' = [funds EXCEPT !["rider"] = @ + Earning] /\ reversed' = reversed
  BY DEF SettleSale, ReverseSale, ReleaseTrip
<1>2. /\ Earning \in Nat /\ funds \in [Purses -> Int] /\ outdated \in [Purses -> Nat]
      /\ reversed \in Nat
  BY PayoutsAssumption DEF PayoutsInv, PayoutsTypeOK
<1>3. PayoutsTypeOK'
  BY <1>1, <1>2 DEF PayoutsInv, PayoutsTypeOK, Purses
<1>4. \A p \in Purses : /\ funds'[p] + Explained(p)' >= funds[p] + Explained(p)
                        /\ funds'[p] + Explained(p)' \in Int /\ funds[p] + Explained(p) \in Int
  BY <1>1, <1>2 DEF Explained, Purses
<1>5. ASSUME NEW t \in Tellers PROVE ReadingCovers(teller[t])'
  <2>1. teller[t].purse \in Purses /\ teller[t].amount \in Nat /\ ReadingCovers(teller[t])
    BY DEF PayoutsInv, PayoutsTypeOK, Teller, FundsInv
  <2>2. PICK p \in Purses : p = teller[t].purse
    BY <2>1
  <2>3. /\ funds'[p] + Explained(p)' >= funds[p] + Explained(p)
        /\ funds'[p] + Explained(p)' \in Int /\ funds[p] + Explained(p) \in Int
    BY <1>4
  <2>4. teller'[t].step \in {"bank", "draw"} /\ ~teller'[t].late
          => teller'[t].amount <= funds'[p] + Explained(p)'
    BY <1>1, <2>1, <2>2, <2>3 DEF ReadingCovers
  <2>5. QED BY <1>1, <2>2, <2>4 DEF ReadingCovers, Explained
<1>6. FundsInv'
  <2>1. ASSUME NEW p \in Purses PROVE funds'[p] + Explained(p)' >= 0
    BY <1>4 DEF PayoutsInv, FundsInv
  <2>2. QED BY <1>5, <2>1 DEF FundsInv
<1>7. BanksInv'
  BY <1>1 DEF PayoutsInv, BanksInv, AccountsAsRead, Held, OnePrimary
<1>8. QED BY <1>3, <1>6, <1>7 DEF PayoutsInv

\* A step that moves no money and no accounts, and gives one teller a task
\* that is no change of accounts.
LEMMA TellerMoves ==
  ASSUME PayoutsInv, NEW t \in Tellers, NEW rec \in Teller, ~IsChanger(rec), ReadingCovers(rec),
         teller' = [teller EXCEPT ![t] = rec],
         UNCHANGED <<funds, outdated, reversed, banks, crossed>>
  PROVE  PayoutsInv'
<1>1. /\ teller \in [Tellers -> Teller] /\ teller'[t] = rec
      /\ \A u \in Tellers \ {t} : teller'[u] = teller[u]
  BY DEF PayoutsInv, PayoutsTypeOK
<1>2. PayoutsTypeOK'
  BY <1>1 DEF PayoutsInv, PayoutsTypeOK
<1>3. ASSUME NEW u \in Tellers PROVE ReadingCovers(teller'[u])
  BY <1>1 DEF PayoutsInv, FundsInv
<1>4. FundsInv'
  BY <1>3 DEF FundsInv, PayoutsInv, ReadingCovers, Explained
<1>5. ASSUME NEW u \in Tellers PROVE IsChanger(teller'[u]) => u # t /\ teller'[u] = teller[u]
  BY <1>1
<1>6. AccountsAsRead(rec)
  BY DEF AccountsAsRead, IsChanger
<1>7. \A u \in Tellers : AccountsAsRead(teller[u]) => AccountsAsRead(teller'[u])
  BY <1>1, <1>6
<1>8. BanksInv'
  <2>1. CASE crossed
    BY <2>1 DEF BanksInv
  <2>2. CASE ~crossed
    <3>1. /\ \A v, u \in Tellers : IsChanger(teller[v]) /\ IsChanger(teller[u]) => v = u
          /\ \A v \in Tellers : AccountsAsRead(teller[v])
          /\ Held = {} \/ OnePrimary
      BY <2>2 DEF PayoutsInv, BanksInv
    <3>2. \A v, u \in Tellers : IsChanger(teller'[v]) /\ IsChanger(teller'[u]) => v = u
      BY <3>1, <1>5
    <3>3. \A v \in Tellers : AccountsAsRead(teller'[v])
      BY <3>1, <1>7
    <3>4. Held' = Held /\ (OnePrimary => OnePrimary')
      BY DEF Held, OnePrimary
    <3>5. \A v \in Tellers : AccountsAsRead(teller[v])'
      BY <3>3, <3>4 DEF AccountsAsRead
    <3>6. QED BY <3>1, <3>2, <3>4, <3>5 DEF BanksInv
  <2>3. QED BY <2>1, <2>2
<1>9. QED BY <1>2, <1>4, <1>8 DEF PayoutsInv

\* A withdrawal up to its transaction.
LEMMA ReadBalanceKeeps ==
  ASSUME PayoutsInv, NEW t \in Tellers,
         \/ \E amount \in Amounts : StoreWithdrawalRead(t, amount) \/ RiderWithdrawalRead(t, amount)
         \/ PayoutBank(t)
  PROVE  PayoutsInv'
<1>0. teller \in [Tellers -> Teller] /\ ReadingCovers(teller[t]) /\ teller[t] \in Teller
  BY DEF PayoutsInv, PayoutsTypeOK, FundsInv
<1>1. ASSUME NEW p \in Purses, NEW amount \in Amounts, ReadBalance(t, p, amount)
      PROVE  PayoutsInv'
  <2> DEFINE rec == [Free EXCEPT !.step = IF p = "store" THEN "draw" ELSE "bank",
                                 !.purse = p, !.amount = amount]
  <2>1. amount \in Nat
    BY PayoutsAssumption
  <2>2. rec \in Teller /\ ~IsChanger(rec)
    BY <2>1, FreeTeller DEF Teller, Steps, IsChanger
  <2>3. rec.amount = amount /\ rec.purse = p
    BY FreeTeller DEF Teller
  <2>4. amount <= funds[p] + Explained(p)
    BY <1>1, <2>1 DEF ReadBalance, Drawable, PayoutsInv, PayoutsTypeOK, Explained, Purses
  <2>5. ReadingCovers(rec)
    BY <2>3, <2>4 DEF ReadingCovers
  <2>6. /\ teller' = [teller EXCEPT ![t] = rec]
        /\ UNCHANGED <<funds, outdated, reversed, banks, crossed>>
    BY <1>1 DEF ReadBalance
  <2> HIDE DEF rec
  <2>7. QED BY <2>2, <2>5, <2>6, TellerMoves
<1>2. ASSUME PayoutBank(t) PROVE PayoutsInv'
  <2>1. UNCHANGED <<funds, outdated, reversed, banks, crossed>> /\ teller[t].step = "bank"
    BY <1>2 DEF PayoutBank
  <2>2. CASE teller' = [teller EXCEPT ![t] = Free]
    <3>1. Free \in Teller /\ ~IsChanger(Free) /\ ReadingCovers(Free)
      BY DEF Free, Teller, Steps, IsChanger, ReadingCovers, Purses
    <3>2. QED BY <2>1, <2>2, <3>1, TellerMoves
  <2>3. ASSUME NEW b \in Banks, teller' = [teller EXCEPT ![t].step = "draw", ![t].bank = b]
        PROVE  PayoutsInv'
    <3> DEFINE rec == [teller[t] EXCEPT !.step = "draw", !.bank = b]
    <3>1. teller' = [teller EXCEPT ![t] = rec]
      BY <1>0, <2>3
    <3>2. rec \in Teller /\ ~IsChanger(rec)
      <4>1. b \in Int
        BY PayoutsAssumption DEF Banks
      <4>2. QED BY <1>0, <4>1 DEF Teller, Steps, IsChanger
    <3>3. /\ rec.step = "draw" /\ rec.purse = teller[t].purse /\ rec.amount = teller[t].amount
          /\ rec.late = teller[t].late
      BY <1>0 DEF Teller
    <3>4. ReadingCovers(rec)
      BY <1>0, <2>1, <3>3 DEF ReadingCovers
    <3> HIDE DEF rec
    <3>5. QED BY <2>1, <3>1, <3>2, <3>4, TellerMoves
  <2>4. QED BY <1>2, <2>2, <2>3 DEF PayoutBank
<1>3. QED BY <1>1, <1>2 DEF StoreWithdrawalRead, RiderWithdrawalRead, Purses

\* The withdrawal's transaction: what is drawn was covered, or is recorded as
\* decided on an outdated balance; every other reading of the purse is outdated.
LEMMA DrawKeeps ==
  ASSUME PayoutsInv, NEW t \in Tellers, Draw(t)
  PROVE  PayoutsInv'
<1> DEFINE amount == teller[t].amount
<1>0. /\ teller \in [Tellers -> Teller] /\ teller[t] \in Teller /\ ReadingCovers(teller[t])
      /\ funds \in [Purses -> Int] /\ outdated \in [Purses -> Nat] /\ reversed \in Nat
  BY DEF PayoutsInv, PayoutsTypeOK, FundsInv
<1>1. PICK p \in Purses : p = teller[t].purse
  BY <1>0 DEF Teller
<1>2. PICK d \in Nat : d = IF teller[t].late THEN amount ELSE 0
  BY <1>0 DEF Teller
<1>3. /\ teller[t].step = "draw" /\ funds' = [funds EXCEPT ![p] = @ - amount]
      /\ outdated' = [outdated EXCEPT ![p] = @ + d]
      /\ teller' = Outdate(t, p)
      /\ UNCHANGED <<banks, reversed, crossed>>
  BY <1>1, <1>2 DEF Draw
<1>4. amount \in Nat
  BY <1>0 DEF Teller
<1>5. \A q \in Purses : Explained(q) \in Nat /\ Explained(q)' = Explained(q) + (IF q = p THEN d ELSE 0)
  BY <1>0, <1>3 DEF Explained, Purses
<1>6. \A q \in Purses : funds'[q] \in Int /\ funds[q] \in Int
                        /\ funds'[q] = funds[q] - (IF q = p THEN amount ELSE 0)
  BY <1>0, <1>3, <1>4
<1>7. amount <= funds[p] + Explained(p) + d
  <2>1. amount <= funds[p] + Explained(p) \/ d = amount
    BY <1>0, <1>1, <1>2, <1>3 DEF ReadingCovers
  <2>2. funds[p] \in Int /\ Explained(p) \in Nat /\ funds[p] + Explained(p) >= 0
    BY <1>5, <1>6 DEF PayoutsInv, FundsInv
  <2>3. QED BY <1>4, <2>1, <2>2
<1>8. ASSUME NEW q \in Purses PROVE (funds[q] + Explained(q))' >= 0
  <2>1. funds[q] + Explained(q) >= 0
    BY DEF PayoutsInv, FundsInv
  <2>2. QED BY <1>4, <1>5, <1>6, <1>7, <2>1
<1>9. ASSUME NEW u \in Tellers
      PROVE  /\ teller'[u] \in Teller
             /\ IsChanger(teller'[u]) => teller'[u] = teller[u]
             /\ AccountsAsRead(teller[u]) => AccountsAsRead(teller'[u])
             /\ teller'[u].step \in {"bank", "draw"} /\ ~teller'[u].late
                  => teller'[u] = teller[u] /\ teller[u].purse # p
  <2>1. CASE u = t
    <3>1. teller'[u] = Free
      BY <1>3, <2>1 DEF Outdate
    <3>2. QED BY <3>1, FreeTeller DEF IsChanger, AccountsAsRead
  <2>2. CASE u # t /\ teller[u].step \in {"bank", "draw"} /\ teller[u].purse = p
    <3>1. teller'[u] = [teller[u] EXCEPT !.late = TRUE]
      BY <1>3, <2>2 DEF Outdate
    <3>2. teller[u] \in Teller
      BY <1>0
    <3>3. teller'[u] \in Teller /\ teller'[u].step = teller[u].step /\ teller'[u].late
      BY <3>1, <3>2 DEF Teller
    <3>4. QED BY <2>2, <3>3 DEF IsChanger, AccountsAsRead
  <2>3. CASE u # t /\ ~(teller[u].step \in {"bank", "draw"} /\ teller[u].purse = p)
    <3>1. teller'[u] = teller[u]
      BY <1>3, <2>3 DEF Outdate
    <3>2. QED BY <1>0, <2>3, <3>1
  <2>4. QED BY <2>1, <2>2, <2>3
<1>10. ASSUME NEW u \in Tellers PROVE ReadingCovers(teller[u])'
  <2>1. PICK q \in Purses : q = teller'[u].purse
    BY <1>9 DEF Teller
  <2>2. teller'[u].step \in {"bank", "draw"} /\ ~teller'[u].late
          => teller'[u].amount <= funds'[q] + Explained(q)'
    <3> SUFFICES ASSUME teller'[u].step \in {"bank", "draw"}, ~teller'[u].late
                 PROVE  teller'[u].amount <= funds'[q] + Explained(q)'
      OBVIOUS
    <3>1. teller'[u] = teller[u] /\ q # p
      BY <1>9, <2>1
    <3>2. teller[u].amount <= funds[q] + Explained(q)
      BY <2>1, <3>1 DEF PayoutsInv, FundsInv, ReadingCovers
    <3>3. funds'[q] = funds[q] /\ Explained(q)' = Explained(q)
      BY <1>5, <1>6, <3>1
    <3>4. QED BY <3>1, <3>2, <3>3
  <2>3. QED BY <2>1, <2>2 DEF ReadingCovers, Explained
<1>11. FundsInv'
  BY <1>8, <1>10 DEF FundsInv
<1>12. teller' = [u \in Tellers |-> teller'[u]]
  BY <1>3 DEF Outdate
<1>13. PayoutsTypeOK'
  <2>1. teller' \in [Tellers -> Teller]
    BY <1>9, <1>12
  <2>2. funds' \in [Purses -> Int] /\ outdated' \in [Purses -> Nat]
    BY <1>0, <1>3, <1>4
  <2>3. QED BY <1>3, <2>1, <2>2 DEF PayoutsInv, PayoutsTypeOK
<1>14. BanksInv'
  <2>1. CASE crossed
    BY <1>3, <2>1 DEF BanksInv
  <2>2. CASE ~crossed
    <3>1. /\ \A v, u \in Tellers : IsChanger(teller[v]) /\ IsChanger(teller[u]) => v = u
          /\ \A v \in Tellers : AccountsAsRead(teller[v])
          /\ Held = {} \/ OnePrimary
      BY <2>2 DEF PayoutsInv, BanksInv
    <3>2. \A v, u \in Tellers : IsChanger(teller'[v]) /\ IsChanger(teller'[u]) => v = u
      BY <3>1, <1>9
    <3>3. \A v \in Tellers : AccountsAsRead(teller'[v])
      BY <3>1, <1>9
    <3>4. Held' = Held /\ (OnePrimary => OnePrimary')
      BY <1>3 DEF Held, OnePrimary
    <3>5. \A v \in Tellers : AccountsAsRead(teller[v])'
      BY <1>3, <3>3, <3>4 DEF AccountsAsRead
    <3>6. QED BY <3>1, <3>2, <3>4, <3>5 DEF BanksInv
  <2>3. QED BY <2>1, <2>2
<1>15. QED BY <1>11, <1>13, <1>14 DEF PayoutsInv

\* A step that moves no money and gives a teller a task on accounts, or none.
LEMMA ChangerMoves ==
  ASSUME PayoutsInv, NEW t \in Tellers, NEW rec \in Teller, rec.step \notin {"bank", "draw"},
         teller' = [teller EXCEPT ![t] = rec],
         banks' \in [Banks -> {"unknown", "primary", "other", "removed"}],
         UNCHANGED <<funds, outdated, reversed>>
  PROVE  /\ PayoutsTypeOK' /\ FundsInv'
         /\ teller'[t] = rec /\ \A u \in Tellers \ {t} : teller'[u] = teller[u]
<1>1. /\ teller \in [Tellers -> Teller] /\ teller'[t] = rec
      /\ \A u \in Tellers \ {t} : teller'[u] = teller[u]
  BY DEF PayoutsInv, PayoutsTypeOK
<1>2. PayoutsTypeOK'
  BY <1>1 DEF PayoutsInv, PayoutsTypeOK
<1>3. ASSUME NEW u \in Tellers PROVE ReadingCovers(teller[u])'
  BY <1>1 DEF PayoutsInv, FundsInv, ReadingCovers, Explained
<1>4. FundsInv'
  BY <1>3 DEF FundsInv, PayoutsInv, Explained
<1>5. QED BY <1>1, <1>2, <1>4

\* A change of accounts begins: if another is under way, they have crossed.
LEMMA ChangeBegins ==
  ASSUME PayoutsInv, NEW t \in Tellers,
         \/ \E wanted \in BOOLEAN : AddRead(t, wanted)
         \/ \E step \in {"prefer", "remove"}, b \in Banks : ChangeRead(t, step, b)
  PROVE  PayoutsInv'
<1>1. PICK rec \in Teller :
        /\ IsChanger(rec) /\ AccountsAsRead(rec)
        /\ teller' = [teller EXCEPT ![t] = rec]
        /\ UNCHANGED <<funds, outdated, reversed, banks>>
        /\ ~crossed' => ~crossed /\ ~Changing
  <2>1. ASSUME NEW wanted \in BOOLEAN, AddRead(t, wanted)
        PROVE  \E rec \in Teller :
                 /\ IsChanger(rec) /\ AccountsAsRead(rec)
                 /\ teller' = [teller EXCEPT ![t] = rec]
                 /\ UNCHANGED <<funds, outdated, reversed, banks>>
                 /\ ~crossed' => ~crossed /\ ~Changing
    <3> DEFINE rec == [Free EXCEPT !.step = "add", !.primary = (wanted \/ Held = {})]
    <3>1. rec \in Teller /\ rec.step = "add" /\ (Held = {} => rec.primary)
      BY FreeTeller DEF Teller, Steps
    <3>2. /\ teller' = [teller EXCEPT ![t] = rec] /\ UNCHANGED <<funds, outdated, reversed, banks>>
          /\ crossed' = (crossed \/ Changing)
      BY <2>1 DEF AddRead
    <3>3. ~crossed' => ~crossed /\ ~Changing
      BY <3>2
    <3> HIDE DEF rec
    <3>4. QED BY <3>1, <3>2, <3>3 DEF IsChanger, AccountsAsRead
  <2>2. ASSUME NEW step \in {"prefer", "remove"}, NEW b \in Banks, ChangeRead(t, step, b)
        PROVE  \E rec \in Teller :
                 /\ IsChanger(rec) /\ AccountsAsRead(rec)
                 /\ teller' = [teller EXCEPT ![t] = rec]
                 /\ UNCHANGED <<funds, outdated, reversed, banks>>
                 /\ ~crossed' => ~crossed /\ ~Changing
    <3> DEFINE rec == [Free EXCEPT !.step = step, !.bank = b, !.primary = (banks[b] = "primary")]
    <3>0. b \in Int
      BY PayoutsAssumption DEF Banks
    <3>1. rec \in Teller /\ rec.step = step /\ rec.bank = b /\ (rec.primary <=> banks[b] = "primary")
      BY <3>0, FreeTeller DEF Teller, Steps
    <3>2. /\ teller' = [teller EXCEPT ![t] = rec] /\ UNCHANGED <<funds, outdated, reversed, banks>>
          /\ crossed' = (crossed \/ Changing) /\ b \in Held
      BY <2>2 DEF ChangeRead
    <3>3. ~crossed' => ~crossed /\ ~Changing
      BY <3>2
    <3> HIDE DEF rec
    <3>4. QED BY <3>1, <3>2, <3>3 DEF IsChanger, AccountsAsRead
  <2>3. QED BY <2>1, <2>2
<1>2. banks' \in [Banks -> {"unknown", "primary", "other", "removed"}] /\ rec.step \notin {"bank", "draw"}
  BY <1>1 DEF PayoutsInv, PayoutsTypeOK, IsChanger
<1>3. /\ PayoutsTypeOK' /\ FundsInv'
      /\ teller'[t] = rec /\ \A u \in Tellers \ {t} : teller'[u] = teller[u]
  BY <1>1, <1>2, ChangerMoves
<1>4. BanksInv'
  <2> SUFFICES ASSUME ~crossed' PROVE BanksInv'
    BY DEF BanksInv
  <2>1. /\ \A v \in Tellers : AccountsAsRead(teller[v])
        /\ Held = {} \/ OnePrimary
        /\ \A v \in Tellers : ~IsChanger(teller[v])
    BY <1>1 DEF PayoutsInv, BanksInv, Changing, IsChanger
  <2>2. \A v \in Tellers : /\ AccountsAsRead(teller'[v])
                           /\ IsChanger(teller'[v]) => v = t
    BY <1>1, <1>3, <2>1
  <2>3. Held' = Held /\ (OnePrimary => OnePrimary')
    BY <1>1 DEF Held, OnePrimary
  <2>4. \A v \in Tellers : AccountsAsRead(teller[v])'
    BY <1>1, <2>2, <2>3 DEF AccountsAsRead
  <2>5. QED BY <2>1, <2>2, <2>3, <2>4 DEF BanksInv
<1>5. QED BY <1>3, <1>4 DEF PayoutsInv

\* A change of accounts ends: alone, it leaves one primary account.
LEMMA ChangeEnds ==
  ASSUME PayoutsInv, NEW t \in Tellers,
         AddBankAccount(t) \/ SetPrimaryBankAccount(t) \/ RemoveBankAccount(t)
  PROVE  PayoutsInv'
<1>0. /\ banks \in [Banks -> {"unknown", "primary", "other", "removed"}]
      /\ teller' = [teller EXCEPT ![t] = Free] /\ IsChanger(teller[t])
      /\ UNCHANGED <<funds, outdated, reversed, crossed>>
  BY DEF AddBankAccount, SetPrimaryBankAccount, RemoveBankAccount, PayoutsInv, PayoutsTypeOK,
         IsChanger
<1>1. banks' \in [Banks -> {"unknown", "primary", "other", "removed"}]
  BY <1>0 DEF AddBankAccount, SetPrimaryBankAccount, RemoveBankAccount, Demoted
<1>2. /\ PayoutsTypeOK' /\ FundsInv'
      /\ teller'[t] = Free /\ \A u \in Tellers \ {t} : teller'[u] = teller[u]
  BY <1>0, <1>1, FreeTeller, ChangerMoves
<1>3. ASSUME ~crossed PROVE Held' = {} \/ OnePrimary'
  <2>0. AccountsAsRead(teller[t]) /\ (Held = {} \/ OnePrimary)
    BY <1>3 DEF PayoutsInv, BanksInv
  <2>1. ASSUME AddBankAccount(t) PROVE OnePrimary'
    <3>1. PICK b \in Banks :
            /\ banks[b] = "unknown"
            /\ banks' = [c \in Banks |->
                 IF c = b THEN (IF teller[t].primary THEN "primary" ELSE "other")
                 ELSE IF teller[t].primary THEN Demoted(c) ELSE banks[c]]
      BY <2>1 DEF AddBankAccount
    <3>2. CASE teller[t].primary
      BY <1>0, <3>1, <3>2 DEF OnePrimary, Held, Demoted
    <3>3. CASE ~teller[t].primary
      <4>1. OnePrimary
        BY <2>0, <2>1, <3>3 DEF AccountsAsRead, AddBankAccount
      <4>2. PICK a \in Held : \A c \in Held : banks[c] = "primary" <=> c = a
        BY <4>1 DEF OnePrimary
      <4>3. a # b /\ a \in Held' /\ \A c \in Held' : banks'[c] = "primary" <=> c = a
        BY <1>0, <3>1, <3>3, <4>2 DEF Held
      <4>4. QED BY <4>3 DEF OnePrimary
    <3>4. QED BY <3>2, <3>3
  <2>2. ASSUME SetPrimaryBankAccount(t) PROVE OnePrimary'
    <3> DEFINE b == teller[t].bank
    <3>1. b \in Held
      BY <2>0, <2>2 DEF AccountsAsRead, SetPrimaryBankAccount
    <3>2. PICK a : a = b
      OBVIOUS
    <3>3. a \in Banks /\ banks' = [c \in Banks |-> IF c = a THEN "primary" ELSE Demoted(c)]
      BY <2>2, <3>1, <3>2 DEF SetPrimaryBankAccount, Held
    <3>4. a \in Held' /\ \A c \in Held' : banks'[c] = "primary" <=> c = a
      BY <1>0, <3>3 DEF Held, Demoted
    <3>5. QED BY <3>4 DEF OnePrimary
  <2>3. ASSUME RemoveBankAccount(t) PROVE Held' = {} \/ OnePrimary'
    <3>1. /\ teller[t].bank \in Held /\ (teller[t].primary <=> banks[teller[t].bank] = "primary")
      BY <2>0, <2>3 DEF AccountsAsRead, RemoveBankAccount
    <3>2. PICK b \in Held : b = teller[t].bank
      BY <3>1
    <3>3. banks' = [c \in Banks |-> IF c = b THEN "removed"
                                    ELSE IF teller[t].primary /\ c \in Replacement(b)
                                    THEN "primary" ELSE banks[c]]
      BY <2>3, <3>2 DEF RemoveBankAccount
    <3>4. PICK a \in Held : \A c \in Held : banks[c] = "primary" <=> c = a
      BY <2>0, <3>2 DEF OnePrimary
    <3>5. Held' = Held \ {b}
      BY <1>0, <3>3 DEF Held, Replacement
    <3>6. CASE ~teller[t].primary
      <4>1. a # b /\ a \in Held' /\ \A c \in Held' : banks'[c] = "primary" <=> c = a
        BY <3>1, <3>2, <3>3, <3>4, <3>5, <3>6 DEF Held
      <4>2. QED BY <4>1 DEF OnePrimary
    <3>7. CASE teller[t].primary /\ Held \ {b} # {}
      <4>1. IsFiniteSet(Held \ {b}) /\ \A x \in Held \ {b} : x \in Int
        <5>1. IsFiniteSet(Banks) /\ Held \ {b} \subseteq Banks /\ Banks \subseteq Int
          BY FS_Interval, PayoutsAssumption DEF Banks, Held
        <5>2. QED BY <5>1, FS_Subset
      <4>2. PICK c \in Held \ {b} : \A d \in Held \ {b} : c <= d
        BY <3>7, <4>1, SmallestExists
      <4>3. Replacement(b) = {c}
        BY <4>1, <4>2 DEF Replacement
      <4>4. a = b
        BY <3>1, <3>2, <3>4, <3>7
      <4>5. \A d \in Held' : banks'[d] = "primary" <=> d = c
        BY <3>3, <3>4, <3>5, <3>7, <4>2, <4>3, <4>4 DEF Held
      <4>6. QED BY <3>5, <4>2, <4>5 DEF OnePrimary
    <3>8. QED BY <3>5, <3>6, <3>7
  <2>4. QED BY <2>1, <2>2, <2>3
<1>4. BanksInv'
  <2> SUFFICES ASSUME ~crossed PROVE BanksInv'
    BY <1>0 DEF BanksInv
  <2>1. \A v, u \in Tellers : IsChanger(teller[v]) /\ IsChanger(teller[u]) => v = u
    BY DEF PayoutsInv, BanksInv
  <2>2. \A u \in Tellers : ~IsChanger(teller'[u])
    BY <1>0, <1>2, <2>1, FreeTeller DEF IsChanger
  <2>3. \A u \in Tellers : AccountsAsRead(teller[u])'
    BY <2>2 DEF AccountsAsRead, IsChanger
  <2>4. QED BY <1>3, <2>2, <2>3 DEF BanksInv
<1>5. QED BY <1>2, <1>4 DEF PayoutsInv

\* An overdraft never exceeds what outdated readings and reversals explain, and a
\* rider with accounts has one primary account unless two changes crossed.
THEOREM PayoutsCorrect == PayoutsSpec => []PayoutsHaveCover
<1>1. PayoutsInv /\ [PayoutsNext]_payoutsVars => PayoutsInv'
  <2> SUFFICES ASSUME PayoutsInv, [PayoutsNext]_payoutsVars PROVE PayoutsInv'
    OBVIOUS
  <2>1. CASE UNCHANGED payoutsVars
    BY <2>1 DEF payoutsVars, PayoutsInv, PayoutsTypeOK, FundsInv, ReadingCovers, Explained, BanksInv,
                AccountsAsRead, Held, OnePrimary
  <2>2. CASE PayoutsNext
    BY <2>2, EarningsKeep, ReadBalanceKeeps, DrawKeeps, ChangeBegins, ChangeEnds
       DEF PayoutsNext, StoreWithdraw, RiderWithdraw
  <2>3. QED BY <2>1, <2>2
<1>2. PayoutsInv => PayoutsHaveCover
  <2> SUFFICES ASSUME PayoutsInv PROVE PayoutsHaveCover
    OBVIOUS
  <2>1. OverdraftHasCause
    BY DEF PayoutsInv, PayoutsTypeOK, FundsInv, Explained, Purses, OverdraftHasCause
  <2>2. OnePrimaryBank
    <3> SUFFICES ASSUME ~crossed, Held # {}
                 PROVE  Cardinality({b \in Held : banks[b] = "primary"}) = 1
      BY DEF OnePrimaryBank
    <3>1. PICK b \in Held : \A c \in Held : banks[c] = "primary" <=> c = b
      BY DEF PayoutsInv, BanksInv, OnePrimary
    <3>2. {c \in Held : banks[c] = "primary"} = {b}
      BY <3>1
    <3>3. QED BY <3>2, FS_Singleton
  <2>3. QED BY <2>1, <2>2 DEF PayoutsHaveCover
<1>3. QED BY PayoutsStart, <1>1, <1>2, PTL DEF PayoutsSpec

-----------------------------------------------------------------------------
(***************************************************************************)
(* Promotions.                                                             *)
(***************************************************************************)
BasketRec == [voucher: Campaigns \cup {NoVoucher}, coupon: BOOLEAN]
CheckoutRec == [open: BOOLEAN, voucher: Campaigns \cup {NoVoucher}, coupon: BOOLEAN]

PromotionsTypeOK ==
  /\ holding \in [Shoppers -> [Campaigns -> {"none", "CLAIMED", "REDEEMED"}]]
  /\ granted \in [Shoppers -> [Campaigns -> Nat]]
  /\ strayed \in [Shoppers -> [Campaigns -> Nat]]
  /\ basket \in [Shoppers -> BasketRec]
  /\ checkout \in [Shoppers -> CheckoutRec]
  /\ usedCount \in Nat /\ redeemed \in Nat /\ uncounted \in Nat

\* A voucher on a cart is still to be used.
OnCartIsClaimed(u) == \A v \in Campaigns : basket[u].voucher = v => holding[u][v] = "CLAIMED"

\* A discount that was paid used its voucher up, or strayed.
GrantsAreUsed(u) ==
  \A v \in Campaigns : granted[u][v] <= strayed[u][v] + (IF holding[u][v] = "REDEEMED" THEN 1 ELSE 0)

\* The unpaid checkouts that were quoted with the coupon.
WithCoupon == {u \in Shoppers : checkout[u].open /\ checkout[u].coupon}

\* What was paid out of the coupon and what still may be: each of them found
\* room when it was quoted, and a shopper has one unpaid checkout.
CouponInv ==
  /\ redeemed <= usedCount + uncounted
  /\ \/ redeemed + Cardinality(WithCoupon) <= UsageLimit + uncounted
     \/ redeemed + Cardinality(WithCoupon) < UsageLimit + uncounted + Cardinality(Shoppers)

PromotionsInv ==
  /\ PromotionsTypeOK
  /\ \A u \in Shoppers : OnCartIsClaimed(u)
  /\ \A u \in Shoppers : GrantsAreUsed(u)
  /\ CouponInv

\* The checkouts with the coupon are counted, before and after a step.
LEMMA WithCouponCounted ==
  /\ Cardinality(Shoppers) \in Nat
  /\ IsFiniteSet(WithCoupon) /\ Cardinality(WithCoupon) \in 0..Cardinality(Shoppers)
  /\ IsFiniteSet(WithCoupon') /\ Cardinality(WithCoupon') \in 0..Cardinality(Shoppers)
<1>1. IsFiniteSet(Shoppers) /\ Cardinality(Shoppers) \in Nat
  BY PromotionsAssumption, FS_CardinalityType
<1>2. ASSUME NEW S, S \subseteq Shoppers
      PROVE  IsFiniteSet(S) /\ Cardinality(S) \in 0..Cardinality(Shoppers)
  <2>1. IsFiniteSet(S) /\ Cardinality(S) \in Nat /\ Cardinality(S) <= Cardinality(Shoppers)
    BY <1>1, <1>2, FS_Subset, FS_CardinalityType
  <2>2. QED BY <1>1, <2>1
<1>3. WithCoupon \subseteq Shoppers /\ WithCoupon' \subseteq Shoppers
  BY DEF WithCoupon
<1>4. QED BY <1>1, <1>2, <1>3

\* The invariant holds at first.
LEMMA PromotionsStart == PromotionsInit => PromotionsInv
<1> SUFFICES ASSUME PromotionsInit PROVE PromotionsInv
  OBVIOUS
<1>1. NoCheckout \in CheckoutRec /\ ~NoCheckout.open
  BY DEF NoCheckout, CheckoutRec
<1>2. [voucher |-> NoVoucher, coupon |-> FALSE] \in BasketRec
  BY DEF BasketRec
<1>3. PromotionsTypeOK
  BY <1>1, <1>2 DEF PromotionsInit, PromotionsTypeOK
<1>4. \A u \in Shoppers : checkout[u] = NoCheckout /\ basket[u].voucher = NoVoucher
                          /\ \A v \in Campaigns : granted[u][v] = 0
  BY DEF PromotionsInit
<1>5. WithCoupon = {} /\ Cardinality({}) = 0
  BY <1>1, <1>4, FS_EmptySet DEF WithCoupon
<1>6. CouponInv
  BY <1>5, PromotionsAssumption DEF PromotionsInit, CouponInv
<1>7. \A u \in Shoppers : GrantsAreUsed(u)
  BY DEF PromotionsInit, GrantsAreUsed
<1>8. QED BY <1>3, <1>4, <1>6, <1>7, PromotionsAssumption DEF PromotionsInv, OnCartIsClaimed

\* Switching campaigns and claiming a voucher.
LEMMA ClaimsKeep ==
  ASSUME PromotionsInv,
         \/ \E v \in Campaigns : SwitchCampaign(v)
         \/ SwitchCoupon
         \/ \E u \in Shoppers, v \in Campaigns : HoldVoucher(u, v)
  PROVE  PromotionsInv'
<1>1. UNCHANGED <<basket, checkout, usedCount, granted, strayed, redeemed, uncounted>>
  BY DEF SwitchCampaign, SwitchCoupon, HoldVoucher
<1>2. /\ holding' \in [Shoppers -> [Campaigns -> {"none", "CLAIMED", "REDEEMED"}]]
      /\ \A u \in Shoppers, v \in Campaigns :
           holding[u][v] # "none" => holding'[u][v] = holding[u][v]
  <2>1. holding \in [Shoppers -> [Campaigns -> {"none", "CLAIMED", "REDEEMED"}]]
    BY DEF PromotionsInv, PromotionsTypeOK
  <2>2. ASSUME NEW u \in Shoppers, NEW v \in Campaigns, HoldVoucher(u, v)
        PROVE  /\ holding[u][v] = "none"
               /\ holding' = [holding EXCEPT ![u] = [holding[u] EXCEPT ![v] = "CLAIMED"]]
    BY <2>1, <2>2 DEF HoldVoucher
  <2>3. (\E v \in Campaigns : SwitchCampaign(v)) \/ SwitchCoupon => holding' = holding
    BY DEF SwitchCampaign, SwitchCoupon
  <2>4. QED BY <2>1, <2>2, <2>3
<1>3. PromotionsTypeOK'
  BY <1>1, <1>2 DEF PromotionsInv, PromotionsTypeOK
<1>4. CouponInv'
  BY <1>1 DEF PromotionsInv, CouponInv, WithCoupon
<1>5. \A u \in Shoppers : OnCartIsClaimed(u)'
  BY <1>1, <1>2 DEF PromotionsInv, OnCartIsClaimed
<1>6. ASSUME NEW u \in Shoppers PROVE GrantsAreUsed(u)'
  <2>1. GrantsAreUsed(u) /\ PromotionsTypeOK
    BY DEF PromotionsInv
  <2>2. \A v \in Campaigns : holding[u][v] = "REDEEMED" => holding'[u][v] = "REDEEMED"
    BY <1>2
  <2>3. QED BY <1>1, <2>1, <2>2 DEF GrantsAreUsed, PromotionsTypeOK
<1>7. QED BY <1>3, <1>4, <1>5, <1>6 DEF PromotionsInv

\* The cart changes.
LEMMA BasketKeeps ==
  ASSUME PromotionsInv, NEW u \in Shoppers, NEW b \in BasketRec, SetBasket(u, b),
         \A v \in Campaigns : b.voucher = v => holding[u][v] = "CLAIMED"
  PROVE  PromotionsInv'
<1>1. /\ basket' = [basket EXCEPT ![u] = b]
      /\ UNCHANGED <<holding, checkout, usedCount, granted, strayed, redeemed, uncounted>>
  BY DEF SetBasket
<1>2. /\ basket \in [Shoppers -> BasketRec] /\ basket'[u] = b
      /\ \A w \in Shoppers \ {u} : basket'[w] = basket[w]
  BY <1>1 DEF PromotionsInv, PromotionsTypeOK
<1>3. PromotionsTypeOK'
  BY <1>1, <1>2 DEF PromotionsInv, PromotionsTypeOK
<1>4. \A w \in Shoppers : OnCartIsClaimed(w)'
  BY <1>1, <1>2 DEF PromotionsInv, OnCartIsClaimed
<1>5. \A w \in Shoppers : GrantsAreUsed(w)'
  BY <1>1 DEF PromotionsInv, GrantsAreUsed
<1>6. CouponInv'
  BY <1>1 DEF PromotionsInv, CouponInv, WithCoupon
<1>7. QED BY <1>3, <1>4, <1>5, <1>6 DEF PromotionsInv

\* The changes of a cart that the shopper can make.
LEMMA CartKeeps ==
  ASSUME PromotionsInv, NEW u \in Shoppers,
         (\E v \in Campaigns : ApplyVoucher(u, v)) \/ ApplyCoupon(u) \/ RemoveCoupon(u)
  PROVE  PromotionsInv'
<1>0. basket[u] \in BasketRec /\ OnCartIsClaimed(u)
  BY DEF PromotionsInv, PromotionsTypeOK
<1>1. ASSUME NEW v \in Campaigns, ApplyVoucher(u, v) PROVE PromotionsInv'
  <2> DEFINE b == [basket[u] EXCEPT !.voucher = v]
  <2>1. b \in BasketRec /\ b.voucher = v
    BY <1>0 DEF BasketRec
  <2>2. SetBasket(u, b) /\ holding[u][v] = "CLAIMED"
    BY <1>1 DEF ApplyVoucher, Applicable
  <2> HIDE DEF b
  <2>3. QED BY <2>1, <2>2, BasketKeeps
<1>2. ASSUME ApplyCoupon(u) PROVE PromotionsInv'
  <2> DEFINE b == [basket[u] EXCEPT !.coupon = TRUE]
  <2>1. b \in BasketRec /\ b.voucher = basket[u].voucher
    BY <1>0 DEF BasketRec
  <2>2. SetBasket(u, b)
    BY <1>2 DEF ApplyCoupon
  <2> HIDE DEF b
  <2>3. QED BY <1>0, <2>1, <2>2, BasketKeeps DEF OnCartIsClaimed
<1>3. ASSUME RemoveCoupon(u) PROVE PromotionsInv'
  <2> DEFINE b == [basket[u] EXCEPT !.coupon = FALSE]
  <2>1. b \in BasketRec /\ b.voucher = basket[u].voucher
    BY <1>0 DEF BasketRec
  <2>2. SetBasket(u, b)
    BY <1>3 DEF RemoveCoupon
  <2> HIDE DEF b
  <2>3. QED BY <1>0, <2>1, <2>2, BasketKeeps DEF OnCartIsClaimed
<1>4. QED BY <1>1, <1>2, <1>3

\* A checkout is quoted.
LEMMA StartCheckoutKeeps ==
  ASSUME PromotionsInv, NEW u \in Shoppers, StartCheckout(u)
  PROVE  PromotionsInv'
<1> DEFINE rec == [open |-> TRUE, voucher |-> basket[u].voucher, coupon |-> basket[u].coupon]
<1>0. basket[u] \in BasketRec /\ checkout \in [Shoppers -> CheckoutRec]
  BY DEF PromotionsInv, PromotionsTypeOK
<1>1. /\ ~checkout[u].open /\ (basket[u].coupon => usedCount < UsageLimit)
      /\ checkout' = [checkout EXCEPT ![u] = rec]
      /\ UNCHANGED <<holding, basket, usedCount, granted, strayed, redeemed, uncounted>>
  BY DEF StartCheckout, CouponUsable
<1>2. rec \in CheckoutRec /\ rec.voucher = basket[u].voucher /\ (rec.coupon <=> basket[u].coupon)
  BY <1>0 DEF BasketRec, CheckoutRec
<1> HIDE DEF rec
<1>3. checkout'[u] = rec /\ \A w \in Shoppers \ {u} : checkout'[w] = checkout[w]
  BY <1>0, <1>1
<1>4. PromotionsTypeOK'
  BY <1>0, <1>1, <1>2 DEF PromotionsInv, PromotionsTypeOK
<1>5. \A w \in Shoppers : OnCartIsClaimed(w)'
  BY <1>1 DEF PromotionsInv, OnCartIsClaimed
<1>6. \A w \in Shoppers : GrantsAreUsed(w)'
  BY <1>1 DEF PromotionsInv, GrantsAreUsed
<1>7. CouponInv'
  <2>1. CASE basket[u].coupon
    <3>1. redeemed <= usedCount + uncounted /\ usedCount < UsageLimit
      BY <1>1, <2>1 DEF PromotionsInv, CouponInv
    <3>2. redeemed \in Nat /\ usedCount \in Nat /\ uncounted \in Nat /\ UsageLimit \in Nat
      BY PromotionsAssumption DEF PromotionsInv, PromotionsTypeOK
    <3>3. redeemed < UsageLimit + uncounted
      BY <3>1, <3>2
    <3>4. redeemed + Cardinality(WithCoupon') < UsageLimit + uncounted + Cardinality(Shoppers)
      BY <3>2, <3>3, WithCouponCounted
    <3>5. QED BY <1>1, <3>1, <3>4 DEF CouponInv
  <2>2. CASE ~basket[u].coupon
    <3>1. WithCoupon' = WithCoupon
      BY <1>1, <1>2, <1>3, <2>2 DEF WithCoupon
    <3>2. QED BY <1>1, <3>1 DEF PromotionsInv, CouponInv
  <2>3. QED BY <2>1, <2>2
<1>8. QED BY <1>1, <1>4, <1>5, <1>6, <1>7 DEF PromotionsInv

\* A checkout ends, paid or not.
LEMMA CheckoutEnds ==
  ASSUME PromotionsInv, NEW u \in Shoppers, AbandonCheckout(u) \/ CompleteCheckout(u)
  PROVE  PromotionsInv'
<1>0. /\ basket \in [Shoppers -> BasketRec] /\ checkout \in [Shoppers -> CheckoutRec]
      /\ holding \in [Shoppers -> [Campaigns -> {"none", "CLAIMED", "REDEEMED"}]]
      /\ granted \in [Shoppers -> [Campaigns -> Nat]]
      /\ strayed \in [Shoppers -> [Campaigns -> Nat]]
      /\ usedCount \in Nat /\ redeemed \in Nat /\ uncounted \in Nat /\ UsageLimit \in Nat
  BY PromotionsAssumption DEF PromotionsInv, PromotionsTypeOK
<1>1. NoCheckout \in CheckoutRec /\ ~NoCheckout.open
  BY DEF NoCheckout, CheckoutRec
<1>2. checkout[u].open /\ checkout' = [checkout EXCEPT ![u] = NoCheckout]
  BY DEF AbandonCheckout, CompleteCheckout
<1>3. /\ checkout' \in [Shoppers -> CheckoutRec] /\ ~checkout'[u].open
      /\ \A w \in Shoppers \ {u} : checkout'[w] = checkout[w]
  BY <1>0, <1>1, <1>2
<1>4. WithCoupon' = WithCoupon \ {u}
  BY <1>3 DEF WithCoupon
<1>5. PICK x \in Nat, y \in Nat, n \in Nat, l \in Nat :
        /\ x = Cardinality(WithCoupon) /\ y = Cardinality(WithCoupon')
        /\ n = Cardinality(Shoppers) /\ l = UsageLimit
  BY <1>0, WithCouponCounted
<1>6. y = IF checkout[u].coupon THEN x - 1 ELSE x
  <2>1. checkout[u].coupon <=> u \in WithCoupon
    BY <1>2 DEF WithCoupon
  <2>2. Cardinality(WithCoupon \ {u})
          = IF u \in WithCoupon THEN Cardinality(WithCoupon) - 1 ELSE Cardinality(WithCoupon)
    BY WithCouponCounted, FS_RemoveElement
  <2>3. QED BY <1>4, <1>5, <2>1, <2>2
<1>7. redeemed <= usedCount + uncounted
      /\ (redeemed + x <= l + uncounted \/ redeemed + x < l + uncounted + n)
  BY <1>5 DEF PromotionsInv, CouponInv
<1>8. ASSUME AbandonCheckout(u) PROVE PromotionsInv'
  <2>1. UNCHANGED <<holding, basket, usedCount, granted, strayed, redeemed, uncounted>>
    BY <1>8 DEF AbandonCheckout
  <2>2. PromotionsTypeOK'
    BY <1>3, <2>1 DEF PromotionsInv, PromotionsTypeOK
  <2>3. \A w \in Shoppers : OnCartIsClaimed(w)'
    BY <2>1 DEF PromotionsInv, OnCartIsClaimed
  <2>4. \A w \in Shoppers : GrantsAreUsed(w)'
    BY <2>1 DEF PromotionsInv, GrantsAreUsed
  <2>5. redeemed + y <= l + uncounted \/ redeemed + y < l + uncounted + n
    BY <1>0, <1>6, <1>7
  <2>6. CouponInv'
    BY <1>5, <1>7, <2>1, <2>5 DEF CouponInv
  <2>7. QED BY <2>2, <2>3, <2>4, <2>6 DEF PromotionsInv
<1>9. ASSUME CompleteCheckout(u) PROVE PromotionsInv'
  <2> DEFINE empty == [voucher |-> NoVoucher, coupon |-> FALSE]
             given == [v \in Campaigns |->
                         IF v = checkout[u].voucher THEN granted[u][v] + 1 ELSE granted[u][v]]
             lost == [v \in Campaigns |->
                        IF v = checkout[u].voucher /\ v # basket[u].voucher
                        THEN strayed[u][v] + 1 ELSE strayed[u][v]]
  <2>1. /\ holding' = [holding EXCEPT ![u] = UsedUp(u)]
        /\ usedCount' = IF basket[u].coupon THEN usedCount + 1 ELSE usedCount
        /\ basket' = [basket EXCEPT ![u] = empty]
        /\ redeemed' = IF checkout[u].coupon THEN redeemed + 1 ELSE redeemed
        /\ uncounted' = IF checkout[u].coupon /\ ~basket[u].coupon THEN uncounted + 1 ELSE uncounted
    BY <1>9 DEF CompleteCheckout
  <2>2. granted' = [granted EXCEPT ![u] = given] /\ strayed' = [strayed EXCEPT ![u] = lost]
    BY <1>0, <1>9 DEF CompleteCheckout
  <2>3. empty \in BasketRec /\ empty.voucher = NoVoucher
    BY DEF BasketRec
  <2>4. /\ UsedUp(u) \in [Campaigns -> {"none", "CLAIMED", "REDEEMED"}]
        /\ given \in [Campaigns -> Nat] /\ lost \in [Campaigns -> Nat]
    BY <1>0 DEF UsedUp
  <2>5. PromotionsTypeOK'
    BY <1>0, <1>3, <2>1, <2>2, <2>3, <2>4 DEF PromotionsTypeOK
  <2>6. /\ basket'[u] = empty /\ holding'[u] = UsedUp(u) /\ granted'[u] = given /\ strayed'[u] = lost
        /\ \A w \in Shoppers \ {u} : /\ basket'[w] = basket[w] /\ holding'[w] = holding[w]
                                     /\ granted'[w] = granted[w] /\ strayed'[w] = strayed[w]
    BY <1>0, <2>1, <2>2
  <2>7. \A w \in Shoppers : OnCartIsClaimed(w)'
    BY <2>3, <2>6, PromotionsAssumption DEF PromotionsInv, OnCartIsClaimed
  <2>8. ASSUME NEW w \in Shoppers PROVE GrantsAreUsed(w)'
    <3>1. GrantsAreUsed(w) /\ OnCartIsClaimed(w)
      BY DEF PromotionsInv
    <3>2. CASE w # u
      BY <2>6, <3>1, <3>2 DEF GrantsAreUsed
    <3>3. CASE w = u
      <4>1. ASSUME NEW v \in Campaigns
            PROVE  given[v] <= lost[v] + (IF UsedUp(u)[v] = "REDEEMED" THEN 1 ELSE 0)
        <5>1. granted[u][v] <= strayed[u][v] + (IF holding[u][v] = "REDEEMED" THEN 1 ELSE 0)
          BY <3>1, <3>3 DEF GrantsAreUsed
        <5>2. granted[u][v] \in Nat /\ strayed[u][v] \in Nat
          BY <1>0
        <5>3. CASE v = basket[u].voucher
          <6>1. holding[u][v] = "CLAIMED"
            BY <3>1, <3>3, <5>3 DEF OnCartIsClaimed
          <6>2. UsedUp(u)[v] = "REDEEMED" /\ lost[v] = strayed[u][v]
            BY <5>3, <6>1 DEF UsedUp
          <6>3. given[v] \in {granted[u][v], granted[u][v] + 1}
            OBVIOUS
          <6>4. QED BY <5>1, <5>2, <6>1, <6>2, <6>3
        <5>4. CASE v # basket[u].voucher
          <6>1. UsedUp(u)[v] = holding[u][v]
            BY <5>4 DEF UsedUp
          <6>2. \/ given[v] = granted[u][v] /\ lost[v] = strayed[u][v]
                \/ given[v] = granted[u][v] + 1 /\ lost[v] = strayed[u][v] + 1
            BY <5>4
          <6>3. QED BY <5>1, <5>2, <6>1, <6>2
        <5>5. QED BY <5>3, <5>4
      <4>2. QED BY <2>6, <3>3, <4>1 DEF GrantsAreUsed
    <3>4. QED BY <3>2, <3>3
  <2>9. CouponInv'
    <3>1. /\ redeemed' <= usedCount' + uncounted'
          /\ redeemed' + y <= l + uncounted' \/ redeemed' + y < l + uncounted' + n
      <4>1. basket[u].coupon \in BOOLEAN /\ checkout[u].coupon \in BOOLEAN
        BY <1>0 DEF BasketRec, CheckoutRec
      <4>2. CASE checkout[u].coupon
        <5>1. redeemed' = redeemed + 1 /\ y = x - 1
          BY <1>6, <2>1, <4>2
        <5>2. \/ usedCount' = usedCount + 1 /\ uncounted' = uncounted
              \/ usedCount' = usedCount /\ uncounted' = uncounted + 1
          BY <2>1, <4>1, <4>2
        <5>3. QED BY <1>0, <1>5, <1>7, <5>1, <5>2
      <4>3. CASE ~checkout[u].coupon
        <5>1. redeemed' = redeemed /\ y = x /\ uncounted' = uncounted
          BY <1>6, <2>1, <4>3
        <5>2. usedCount' \in Nat /\ usedCount <= usedCount'
          BY <1>0, <2>1
        <5>3. redeemed <= usedCount' + uncounted
          <6>1. PICK r \in Nat, c \in Nat, d \in Nat, m \in Nat :
                  r = redeemed /\ c = usedCount /\ d = usedCount' /\ m = uncounted
            BY <1>0, <5>2
          <6>2. r <= c + m /\ c <= d
            BY <1>7, <5>2, <6>1
          <6>3. r <= d + m
            BY <6>2
          <6>4. QED BY <6>1, <6>3
        <5>4. QED BY <1>7, <5>1, <5>3
      <4>4. QED BY <4>2, <4>3
    <3>2. QED BY <1>5, <3>1 DEF CouponInv
  <2>10. QED BY <2>5, <2>7, <2>8, <2>9 DEF PromotionsInv
<1>10. QED BY <1>8, <1>9

\* A voucher gives its discount once more only for a payment that found another
\* on the cart, and a coupon gives more than its limit only for checkouts that
\* were unpaid together and for payments that did not find it on the cart.
THEOREM DiscountsCorrect == PromotionsSpec => []DiscountsWithinLimits
<1>1. PromotionsInv /\ [PromotionsNext]_promotionVars => PromotionsInv'
  <2> SUFFICES ASSUME PromotionsInv, [PromotionsNext]_promotionVars PROVE PromotionsInv'
    OBVIOUS
  <2>1. CASE UNCHANGED promotionVars
    BY <2>1 DEF promotionVars, PromotionsInv, PromotionsTypeOK, OnCartIsClaimed, GrantsAreUsed,
                CouponInv, WithCoupon
  <2>2. CASE PromotionsNext
    BY <2>2, ClaimsKeep, CartKeeps, StartCheckoutKeeps, CheckoutEnds DEF PromotionsNext
  <2>3. QED BY <2>1, <2>2
<1>2. PromotionsInv => DiscountsWithinLimits
  <2> SUFFICES ASSUME PromotionsInv PROVE DiscountsWithinLimits
    OBVIOUS
  <2>1. VoucherGrantedOnce
    <3> SUFFICES ASSUME NEW u \in Shoppers, NEW v \in Campaigns
                 PROVE  granted[u][v] <= 1 + strayed[u][v]
      BY DEF VoucherGrantedOnce
    <3>1. granted[u][v] \in Nat /\ strayed[u][v] \in Nat
      BY DEF PromotionsInv, PromotionsTypeOK
    <3>2. granted[u][v] <= strayed[u][v] + (IF holding[u][v] = "REDEEMED" THEN 1 ELSE 0)
      BY DEF PromotionsInv, GrantsAreUsed
    <3>3. QED BY <3>1, <3>2
  <2>2. CouponWithinLimit
    <3>1. redeemed \in Nat /\ uncounted \in Nat /\ UsageLimit \in Nat
      BY PromotionsAssumption DEF PromotionsInv, PromotionsTypeOK
    <3>2. PICK x \in Nat : x = Cardinality(WithCoupon)
      BY WithCouponCounted
    <3>3. \/ redeemed + x <= UsageLimit + uncounted
          \/ redeemed + x < UsageLimit + uncounted + Cardinality(Shoppers)
      BY <3>2 DEF PromotionsInv, CouponInv
    <3>4. QED BY <3>1, <3>3, WithCouponCounted DEF CouponWithinLimit
  <2>3. QED BY <2>1, <2>2 DEF DiscountsWithinLimits
<1>3. QED BY PromotionsStart, <1>1, <1>2, PTL DEF PromotionsSpec

-----------------------------------------------------------------------------
(***************************************************************************)
(* Merchants.                                                              *)
(***************************************************************************)
Clerk == [step: {"free", "cac", "cacFound", "decide", "stock", "nin", "cacRow"},
          answer: {"none", "APPROVED", "REJECTED", "VERIFIED", "FAILED"},
          count: Int, late: BOOLEAN]
RowStates == {"none", "PENDING", "APPROVED"}
VendorRec == [status: {"none", "PROFILE_COMPLETED", "NIN_VERIFIED", "CAC_VERIFIED", "UNDER_REVIEW"},
              review: {"PENDING", "APPROVED", "REJECTED"},
              nin: RowStates, cac: RowStates, role: BOOLEAN]

MerchantsTypeOK ==
  /\ clerk \in [Clerks -> Clerk]
  /\ vendor \in VendorRec
  /\ offer \in [listed: BOOLEAN, stock: Int, promised: Int]
  /\ token \in [left: Int, cached: Int]
  /\ cacRecords \in Seq({"PENDING", "APPROVED", "REJECTED"})

\* What a handler has read holds until it is marked late; the record it has
\* chosen stays.
ReadingHolds(t) ==
  /\ t.step \in {"cac", "cacFound"} /\ ~t.late => ApprovedRecords = {}
  /\ t.step = "cacFound" => t.count \in {0} \cup DOMAIN cacRecords
  /\ t.step = "decide" => t.count \in DOMAIN cacRecords /\ t.answer \in {"APPROVED", "REJECTED"}
  /\ t.step = "stock" /\ ~t.late => t.count = Goods - offer.promised

\* Stock and promises together are what the vendor has, at most.
StockIsReal == offer.stock >= 0 /\ offer.stock + offer.promised <= Goods

\* The submissions that found no record and are about to create one.
RecordMakers == {c \in Clerks : clerk[c].step = "cacFound" /\ clerk[c].count = 0}

MerchantsInv ==
  /\ MerchantsTypeOK
  /\ Len(cacRecords) + Cardinality(RecordMakers) <= Cardinality(Clerks)
  /\ \A c \in Clerks : ReadingHolds(clerk[c])
  /\ OpenShopHasReason
  /\ "recounted" \in causes \/ StockIsReal
  /\ VendorStatusHasRows
  /\ token.cached > 0 => token.left = token.cached + TokenBuffer

\* A handler without a task.
LEMMA UnoccupiedClerk ==
  Unoccupied \in Clerk /\ Unoccupied.step = "free"
BY DEF Unoccupied, Clerk

\* The invariant holds at first.
LEMMA MerchantsStart == MerchantsInit => MerchantsInv
<1> SUFFICES ASSUME MerchantsInit PROVE MerchantsInv
  OBVIOUS
<1>1. vendor \in VendorRec /\ vendor.status = "none"
  BY DEF MerchantsInit, VendorRec, RowStates
<1>2. /\ offer \in [listed: BOOLEAN, stock: Int, promised: Int]
      /\ offer.stock = 0 /\ offer.promised = 0
      /\ token \in [left: Int, cached: Int] /\ token.cached = 0
  BY DEF MerchantsInit
<1>3. clerk \in [Clerks -> Clerk] /\ \A c \in Clerks : clerk[c] = Unoccupied
  BY UnoccupiedClerk DEF MerchantsInit
<1>4. ~shop /\ cacRecords = <<>> /\ ApprovedRecords = {}
  BY DEF MerchantsInit, ApprovedRecords
<1>5. RecordMakers = {}
  BY <1>3, UnoccupiedClerk DEF RecordMakers
<1>6. Cardinality(RecordMakers) = 0 /\ Cardinality(Clerks) \in Nat /\ Len(cacRecords) = 0
  BY <1>4, <1>5, MerchantsAssumption, FS_EmptySet, FS_CardinalityType
<1>7. OpenShopHasReason
  BY <1>4, <1>6 DEF OpenShopHasReason
<1>8. QED
  BY <1>1, <1>2, <1>3, <1>4, <1>6, <1>7, UnoccupiedClerk, MerchantsAssumption
     DEF MerchantsInv, MerchantsTypeOK, ReadingHolds, StockIsReal, VendorStatusHasRows

\* The submissions that create a record are finitely many.
LEMMA MakersFinite ==
  /\ IsFiniteSet(RecordMakers) /\ Cardinality(RecordMakers) \in Nat
  /\ Cardinality(Clerks) \in Nat /\ Cardinality(RecordMakers) <= Cardinality(Clerks)
BY MerchantsAssumption, FS_Subset, FS_CardinalityType DEF RecordMakers

\* Without another that creates a record, and without another record, the
\* count stands.
LEMMA MakersKept ==
  ASSUME MerchantsInv, RecordMakers' \subseteq RecordMakers, Len(cacRecords') = Len(cacRecords)
  PROVE  Len(cacRecords') + Cardinality(RecordMakers') <= Cardinality(Clerks)
<1>1. /\ Len(cacRecords) + Cardinality(RecordMakers) <= Cardinality(Clerks)
      /\ Len(cacRecords) \in Nat
  BY DEF MerchantsInv, MerchantsTypeOK
<1>2. Cardinality(RecordMakers') \in Nat /\ Cardinality(RecordMakers') <= Cardinality(RecordMakers)
  BY MakersFinite, FS_Subset, FS_CardinalityType
<1>3. QED BY <1>1, <1>2, MakersFinite

\* A step that gives one handler a task it may have, and moves nothing else but
\* the vendor's rows, in keeping with their status.
LEMMA ClerkMoves ==
  ASSUME MerchantsInv, NEW c \in Clerks, NEW rec \in Clerk, ReadingHolds(rec),
         rec.step = "cacFound" => rec.count # 0,
         clerk' = [clerk EXCEPT ![c] = rec],
         vendor' \in VendorRec, VendorStatusHasRows',
         UNCHANGED <<shop, cacRecords, offer, token, causes>>
  PROVE  MerchantsInv'
<1>1. clerk \in [Clerks -> Clerk] /\ clerk'[c] = rec /\ \A d \in Clerks \ {c} : clerk'[d] = clerk[d]
  BY DEF MerchantsInv, MerchantsTypeOK
<1>2. \A d \in Clerks : ReadingHolds(clerk[d])'
  BY <1>1 DEF MerchantsInv, ReadingHolds, ApprovedRecords
<1>3. RecordMakers' \subseteq RecordMakers
  BY <1>1 DEF RecordMakers
<1>4. OpenShopHasReason'
  BY DEF MerchantsInv, OpenShopHasReason, ApprovedRecords
<1>5. QED
  BY <1>1, <1>2, <1>3, <1>4, MakersKept DEF MerchantsInv, MerchantsTypeOK, StockIsReal

\* The reading half of a request.
LEMMA ErrandKeeps ==
  ASSUME MerchantsInv, NEW c \in Clerks,
         \/ SubmitCacRead(c) \/ AddProductRead(c)
         \/ \E r \in DOMAIN cacRecords, decision \in {"APPROVED", "REJECTED"} :
              ReviewCacRead(c, r, decision)
         \/ \E answer \in {"VERIFIED", "FAILED"} : VerifyNinRead(c, answer) \/ VerifyCacRead(c, answer)
  PROVE  MerchantsInv'
<1>1. UNCHANGED <<shop, cacRecords, vendor, offer, token, causes>>
  BY DEF SubmitCacRead, AddProductRead, ReviewCacRead, VerifyNinRead, VerifyCacRead, VerifyRead
<1>2. vendor' \in VendorRec /\ VendorStatusHasRows'
  BY <1>1 DEF MerchantsInv, MerchantsTypeOK, VendorStatusHasRows
<1>3. ASSUME NEW step \in {"cac", "decide", "stock", "nin", "cacRow"},
             NEW answer \in {"none", "APPROVED", "REJECTED", "VERIFIED", "FAILED"},
             NEW count \in Int, ErrandWith(c, step, answer, count),
             step = "cac" => ApprovedRecords = {},
             step = "decide" => count \in DOMAIN cacRecords /\ answer \in {"APPROVED", "REJECTED"},
             step = "stock" => count = Goods - offer.promised
      PROVE  MerchantsInv'
  <2> DEFINE rec == [step |-> step, answer |-> answer, count |-> count, late |-> FALSE]
  <2>1. rec \in Clerk /\ rec.step = step /\ rec.count = count /\ rec.answer = answer
    BY DEF Clerk
  <2>2. clerk' = [clerk EXCEPT ![c] = rec]
    BY <1>3 DEF ErrandWith
  <2> HIDE DEF rec
  <2>3. ReadingHolds(rec)
    BY <1>3, <2>1 DEF ReadingHolds
  <2>4. QED BY <1>1, <1>2, <2>1, <2>2, <2>3, ClerkMoves
<1>4. Goods - offer.promised \in Int
  BY MerchantsAssumption DEF MerchantsInv, MerchantsTypeOK
<1>5. \A r \in DOMAIN cacRecords : r \in Int
  BY DEF MerchantsInv, MerchantsTypeOK
<1>6. QED
  BY <1>3, <1>4, <1>5 DEF SubmitCacRead, CacSubmittable, AddProductRead, ReviewCacRead, VerifyNinRead,
                    VerifyCacRead, VerifyRead, Errand

\* The vendor's rows never go away, and the status follows them.
LEMMA VendorKeeps ==
  ASSUME MerchantsInv,
         \/ UpdateVendorProfile \/ SubmitVendor \/ ApproveVendor \/ RejectVendor
         \/ \E c \in Clerks : VerifyNin(c) \/ VerifyCac(c)
  PROVE  MerchantsInv'
<1>0. vendor \in VendorRec /\ VendorStatusHasRows
  BY DEF MerchantsInv, MerchantsTypeOK
<1>1. ASSUME vendor' \in VendorRec, VendorStatusHasRows', clerk' = clerk,
             UNCHANGED <<shop, cacRecords, offer, token, causes>>
      PROVE  MerchantsInv'
  BY <1>1 DEF MerchantsInv, MerchantsTypeOK, ReadingHolds, OpenShopHasReason, ApprovedRecords,
              RecordMakers, StockIsReal
<1>2. ASSUME UpdateVendorProfile PROVE MerchantsInv'
  <2>1. vendor' \in VendorRec /\ VendorStatusHasRows'
    BY <1>0, <1>2 DEF UpdateVendorProfile, VendorRec, RowStates, VendorStatusHasRows
  <2>2. QED BY <1>1, <1>2, <2>1 DEF UpdateVendorProfile
<1>3. ASSUME SubmitVendor PROVE MerchantsInv'
  <2>1. vendor' \in VendorRec /\ VendorStatusHasRows'
    BY <1>0, <1>3 DEF SubmitVendor, Submittable, VendorRec, RowStates, VendorStatusHasRows
  <2>2. QED BY <1>1, <1>3, <2>1 DEF SubmitVendor
<1>4. ASSUME NEW decision \in {"APPROVED", "REJECTED"}, ReviewVendor(decision) PROVE MerchantsInv'
  <2>1. vendor' \in VendorRec /\ VendorStatusHasRows'
    BY <1>0, <1>4 DEF ReviewVendor, VendorRec, RowStates, VendorStatusHasRows
  <2>2. QED BY <1>1, <1>4, <2>1 DEF ReviewVendor
<1>5. ASSUME NEW c \in Clerks, VerifyNin(c) \/ VerifyCac(c) PROVE MerchantsInv'
  <2>1. PICK row \in {"PENDING", "APPROVED"} : row = RowStatus(c)
    BY DEF RowStatus
  <2>2. vendor' \in VendorRec /\ VendorStatusHasRows'
    <3>1. CASE AutoApproved(c)
      BY <1>0, <1>5, <2>1, <3>1 DEF VerifyNin, VerifyCac, VendorRec, RowStates, VendorStatusHasRows
    <3>2. CASE ~AutoApproved(c)
      BY <1>0, <1>5, <2>1, <3>2 DEF VerifyNin, VerifyCac, VendorRec, RowStates, VendorStatusHasRows
    <3>3. QED BY <3>1, <3>2
  <2>3. ReadingHolds(Unoccupied)
    BY UnoccupiedClerk DEF ReadingHolds
  <2>4. /\ clerk' = [clerk EXCEPT ![c] = Unoccupied]
        /\ UNCHANGED <<shop, cacRecords, offer, token, causes>>
    BY <1>5 DEF VerifyNin, VerifyCac, Rest
  <2>5. QED BY <2>2, <2>3, <2>4, UnoccupiedClerk, ClerkMoves
<1>6. QED BY <1>2, <1>3, <1>4, <1>5 DEF ApproveVendor, RejectVendor

\* A submission looks for a record of its store.
LEMMA FindKeeps ==
  ASSUME MerchantsInv, NEW c \in Clerks, SubmitCacFind(c)
  PROVE  MerchantsInv'
<1>0. /\ clerk \in [Clerks -> Clerk] /\ ReadingHolds(clerk[c]) /\ clerk[c].step = "cac"
      /\ vendor \in VendorRec /\ VendorStatusHasRows /\ Len(cacRecords) \in Nat
      /\ DOMAIN cacRecords = 1..Len(cacRecords)
      /\ UNCHANGED <<shop, cacRecords, vendor, offer, token, causes>>
  BY DEF MerchantsInv, MerchantsTypeOK, SubmitCacFind
<1>1. PICK r \in FirstRecord :
        clerk' = [clerk EXCEPT ![c] = [@ EXCEPT !.step = "cacFound", !.count = r]]
  BY DEF SubmitCacFind
<1>2. r \in Int /\ r \in {0} \cup DOMAIN cacRecords /\ (r = 0 => cacRecords = <<>>)
  BY <1>0, <1>1 DEF FirstRecord
<1>3. PICK rec \in Clerk : rec = [clerk[c] EXCEPT !.step = "cacFound", !.count = r]
  BY <1>0, <1>2 DEF Clerk
<1>4. clerk' = [clerk EXCEPT ![c] = rec]
  BY <1>0, <1>1, <1>3
<1>5. rec.step = "cacFound" /\ rec.count = r /\ rec.late = clerk[c].late
  BY <1>0, <1>3 DEF Clerk
<1>6. ReadingHolds(rec)
  BY <1>0, <1>2, <1>5 DEF ReadingHolds
<1>7. VendorStatusHasRows'
  BY <1>0 DEF VendorStatusHasRows
<1>8. CASE r # 0
  BY <1>0, <1>4, <1>5, <1>6, <1>7, <1>8, ClerkMoves
<1>9. CASE r = 0
  <2>1. clerk'[c] = rec /\ \A d \in Clerks \ {c} : clerk'[d] = clerk[d]
    BY <1>0, <1>4
  <2>2. \A d \in Clerks : ReadingHolds(clerk[d])'
    BY <1>0, <1>6, <2>1 DEF MerchantsInv, ReadingHolds, ApprovedRecords
  <2>3. Len(cacRecords') = 0
    BY <1>0, <1>2, <1>9
  <2>4. Cardinality(RecordMakers') \in Nat /\ Cardinality(RecordMakers') <= Cardinality(Clerks)
    BY MerchantsAssumption, FS_Subset, FS_CardinalityType DEF RecordMakers
  <2>5. Len(cacRecords') + Cardinality(RecordMakers') <= Cardinality(Clerks)
    BY <2>3, <2>4, MakersFinite
  <2>6. clerk' \in [Clerks -> Clerk]
    BY <1>0, <1>4
  <2>7. OpenShopHasReason'
    BY <1>0 DEF MerchantsInv, OpenShopHasReason, ApprovedRecords
  <2>8. QED
    BY <1>0, <1>7, <2>2, <2>5, <2>6, <2>7 DEF MerchantsInv, MerchantsTypeOK, StockIsReal
<1>10. QED BY <1>8, <1>9

\* The registration and the store.
LEMMA ShopKeeps ==
  ASSUME MerchantsInv, ActivateStore \/ \E c \in Clerks : SubmitCac(c) \/ ReviewCac(c)
  PROVE  MerchantsInv'
<1> DEFINE States == {"PENDING", "APPROVED", "REJECTED"}
<1>0. /\ clerk \in [Clerks -> Clerk] /\ \A c \in Clerks : ReadingHolds(clerk[c])
      /\ cacRecords \in Seq(States) /\ Len(cacRecords) \in Nat
      /\ DOMAIN cacRecords = 1..Len(cacRecords)
      /\ Len(cacRecords) + Cardinality(RecordMakers) <= Cardinality(Clerks)
      /\ vendor' = vendor /\ offer' = offer /\ token' = token
  BY DEF MerchantsInv, MerchantsTypeOK, ActivateStore, SubmitCac, ReviewCac
<1>1. ASSUME clerk' \in [Clerks -> Clerk], \A c \in Clerks : ReadingHolds(clerk[c])',
             cacRecords' \in Seq(States),
             Len(cacRecords') + Cardinality(RecordMakers') <= Cardinality(Clerks),
             shop' => ApprovedRecords' # {} \/ {"activated", "overwritten"} \cap causes' # {},
             ApprovedRecords' # {} /\ ~shop' => Len(cacRecords') > 1,
             "recounted" \in causes => "recounted" \in causes'
      PROVE  MerchantsInv'
  <2>1. Cardinality(RecordMakers') \in Nat /\ Len(cacRecords') \in Nat
    BY <1>1, MerchantsAssumption, FS_Subset, FS_CardinalityType DEF RecordMakers
  <2>2. Len(cacRecords') <= Cardinality(Clerks)
    BY <1>1, <2>1, MakersFinite
  <2>3. OpenShopHasReason'
    BY <1>1, <2>2 DEF OpenShopHasReason
  <2>4. QED
    BY <1>0, <1>1, <2>3 DEF MerchantsInv, MerchantsTypeOK, StockIsReal, VendorStatusHasRows
<1>2. ASSUME ActivateStore PROVE MerchantsInv'
  <2>1. /\ cacRecords' = cacRecords /\ clerk' = clerk /\ shop' /\ causes' = causes \cup {"activated"}
    BY <1>2 DEF ActivateStore
  <2>2. RecordMakers' = RecordMakers
    BY <2>1 DEF RecordMakers
  <2>3. \A c \in Clerks : ReadingHolds(clerk[c])'
    BY <1>0, <2>1 DEF ReadingHolds, ApprovedRecords
  <2>4. QED BY <1>0, <1>1, <2>1, <2>2, <2>3
<1>3. ASSUME NEW c \in Clerks, SubmitCac(c) PROVE MerchantsInv'
  <2> DEFINE r == clerk[c].count
  <2>1. /\ clerk[c].step = "cacFound" /\ shop' = shop
        /\ cacRecords' = IF r = 0 THEN Append(cacRecords, "PENDING")
                                  ELSE [cacRecords EXCEPT ![r] = "PENDING"]
        /\ causes' = IF clerk[c].late /\ r \in ApprovedRecords
                     THEN causes \cup {"overwritten"} ELSE causes
        /\ clerk' = [clerk EXCEPT ![c] = Unoccupied]
    BY <1>3 DEF SubmitCac, Rest
  <2>2. clerk' \in [Clerks -> Clerk] /\ clerk'[c] = Unoccupied
        /\ \A d \in Clerks \ {c} : clerk'[d] = clerk[d]
    BY <1>0, <2>1, UnoccupiedClerk
  <2>3. r \in {0} \cup DOMAIN cacRecords /\ (~clerk[c].late => ApprovedRecords = {})
    BY <1>0, <2>1 DEF ReadingHolds
  <2> HIDE DEF r
  <2>4. /\ cacRecords' \in Seq(States) /\ DOMAIN cacRecords \subseteq DOMAIN cacRecords'
        /\ ApprovedRecords' = ApprovedRecords \ {r}
        /\ Len(cacRecords') = IF r = 0 THEN Len(cacRecords) + 1 ELSE Len(cacRecords)
    <3>1. CASE r = 0
      <4>1. cacRecords' = Append(cacRecords, "PENDING")
        BY <2>1, <3>1
      <4>2. /\ cacRecords' \in Seq(States) /\ Len(cacRecords') = Len(cacRecords) + 1
            /\ DOMAIN cacRecords' = 1..(Len(cacRecords) + 1)
            /\ \A k \in 1..Len(cacRecords) : cacRecords'[k] = cacRecords[k]
            /\ cacRecords'[Len(cacRecords) + 1] = "PENDING"
        BY <1>0, <4>1
      <4>3. 1..(Len(cacRecords) + 1) = 1..Len(cacRecords) \cup {Len(cacRecords) + 1}
            /\ 0 \notin 1..Len(cacRecords)
        BY <1>0
      <4>4. ApprovedRecords' = ApprovedRecords
        BY <1>0, <4>2, <4>3 DEF ApprovedRecords
      <4>5. r \notin ApprovedRecords
        BY <1>0, <3>1, <4>3 DEF ApprovedRecords
      <4>6. QED BY <1>0, <3>1, <4>2, <4>3, <4>4, <4>5
    <3>2. CASE r # 0
      <4>1. cacRecords' = [cacRecords EXCEPT ![r] = "PENDING"] /\ r \in DOMAIN cacRecords
        BY <2>1, <2>3, <3>2
      <4>2. /\ DOMAIN cacRecords' = DOMAIN cacRecords
            /\ \A k \in DOMAIN cacRecords :
                 cacRecords'[k] = IF k = r THEN "PENDING" ELSE cacRecords[k]
        BY <4>1
      <4>3. cacRecords' \in Seq(States) /\ Len(cacRecords') = Len(cacRecords)
        BY <1>0, <4>1
      <4>4. ApprovedRecords' = ApprovedRecords \ {r}
        BY <4>2 DEF ApprovedRecords
      <4>5. QED BY <3>2, <4>2, <4>3, <4>4
    <3>3. QED BY <3>1, <3>2
  <2>5. \A d \in Clerks : ReadingHolds(clerk[d])'
    <3> SUFFICES ASSUME NEW d \in Clerks PROVE ReadingHolds(clerk[d])'
      OBVIOUS
    <3>1. CASE d = c
      BY <2>2, <3>1, UnoccupiedClerk DEF ReadingHolds
    <3>2. CASE d # c
      BY <1>0, <2>2, <2>4, <3>2 DEF ReadingHolds
    <3>3. QED BY <3>1, <3>2
  <2>6. Len(cacRecords') + Cardinality(RecordMakers') <= Cardinality(Clerks)
    <3>1. RecordMakers' = RecordMakers \ {c}
      BY <2>2, UnoccupiedClerk DEF RecordMakers
    <3>2. CASE r = 0
      <4>1. c \in RecordMakers
        BY <2>1, <3>2 DEF RecordMakers, r
      <4>2. Cardinality(RecordMakers') = Cardinality(RecordMakers) - 1
        BY <3>1, <4>1, MakersFinite, FS_RemoveElement
      <4>3. QED BY <1>0, <2>4, <3>2, <4>2, MakersFinite
    <3>3. CASE r # 0
      BY <2>4, <3>1, <3>3, MakersKept
    <3>4. QED BY <3>2, <3>3
  <2>7. shop' => ApprovedRecords' # {} \/ {"activated", "overwritten"} \cap causes' # {}
    BY <2>1, <2>3, <2>4 DEF MerchantsInv, OpenShopHasReason
  <2>8. ApprovedRecords' # {} /\ ~shop' => Len(cacRecords') > 1
    BY <1>0, <2>1, <2>4 DEF MerchantsInv, OpenShopHasReason
  <2>9. "recounted" \in causes => "recounted" \in causes'
    BY <2>1
  <2>10. QED BY <1>1, <2>2, <2>4, <2>5, <2>6, <2>7, <2>8, <2>9
<1>4. ASSUME NEW c \in Clerks, ReviewCac(c) PROVE MerchantsInv'
  <2> DEFINE r == clerk[c].count  decision == clerk[c].answer
  <2>1. /\ clerk[c].step = "decide"
        /\ cacRecords' = [cacRecords EXCEPT ![r] = decision]
        /\ shop' = (decision = "APPROVED")
        /\ causes' = IF decision = "APPROVED" THEN causes
                     ELSE causes \ {"activated", "overwritten"}
        /\ clerk' = [d \in Clerks |->
             IF d = c THEN Unoccupied
             ELSE IF decision = "APPROVED" /\ clerk[d].step \in {"cac", "cacFound"}
             THEN [clerk[d] EXCEPT !.late = TRUE] ELSE clerk[d]]
    BY <1>4 DEF ReviewCac, ShopAfter
  <2>2. r \in DOMAIN cacRecords /\ decision \in {"APPROVED", "REJECTED"}
    BY <1>0, <2>1 DEF ReadingHolds
  <2> HIDE DEF r, decision
  <2>3. /\ DOMAIN cacRecords' = DOMAIN cacRecords
        /\ \A k \in DOMAIN cacRecords : cacRecords'[k] = IF k = r THEN decision ELSE cacRecords[k]
    BY <2>1, <2>2
  <2>4. cacRecords' \in Seq(States) /\ Len(cacRecords') = Len(cacRecords)
    BY <1>0, <2>1, <2>2
  <2>5. decision = "APPROVED" => r \in ApprovedRecords'
    BY <2>2, <2>3 DEF ApprovedRecords
  <2>6. decision # "APPROVED" => ApprovedRecords' = ApprovedRecords \ {r}
    BY <2>2, <2>3 DEF ApprovedRecords
  <2>7. ASSUME NEW d \in Clerks
        PROVE  /\ clerk'[d] \in Clerk /\ ReadingHolds(clerk[d])'
               /\ d \in RecordMakers' => d \in RecordMakers
    <3>1. CASE d = c
      BY <2>1, <3>1, UnoccupiedClerk DEF ReadingHolds, RecordMakers
    <3>2. CASE d # c /\ decision = "APPROVED" /\ clerk[d].step \in {"cac", "cacFound"}
      <4>1. clerk'[d] = [clerk[d] EXCEPT !.late = TRUE] /\ clerk[d] \in Clerk
        BY <1>0, <2>1, <3>2
      <4>2. clerk'[d] \in Clerk /\ clerk'[d].late /\ clerk'[d].step = clerk[d].step
            /\ clerk'[d].count = clerk[d].count
        BY <4>1 DEF Clerk
      <4>3. ReadingHolds(clerk[d])'
        BY <1>0, <2>3, <3>2, <4>2 DEF ReadingHolds
      <4>4. QED BY <4>2, <4>3 DEF RecordMakers
    <3>3. CASE d # c /\ ~(decision = "APPROVED" /\ clerk[d].step \in {"cac", "cacFound"})
      <4>1. clerk'[d] = clerk[d]
        BY <2>1, <3>3
      <4>2. ReadingHolds(clerk[d])'
        BY <1>0, <2>2, <2>3, <2>6, <3>3, <4>1 DEF ReadingHolds
      <4>3. QED BY <1>0, <4>1, <4>2 DEF RecordMakers
    <3>4. QED BY <3>1, <3>2, <3>3
  <2>8. clerk' \in [Clerks -> Clerk]
    <3>1. clerk' = [d \in Clerks |-> clerk'[d]]
      BY <2>1
    <3>2. QED BY <2>7, <3>1
  <2>9. Len(cacRecords') + Cardinality(RecordMakers') <= Cardinality(Clerks)
    <3>1. RecordMakers' \subseteq RecordMakers
      BY <2>7 DEF RecordMakers
    <3>2. QED BY <2>4, <3>1, MakersKept
  <2>10. shop' => ApprovedRecords' # {}
    BY <2>1, <2>5
  <2>11. ApprovedRecords' # {} /\ ~shop' => Len(cacRecords') > 1
    <3> SUFFICES ASSUME ApprovedRecords' # {}, ~shop' PROVE Len(cacRecords') > 1
      OBVIOUS
    <3>1. ApprovedRecords' = ApprovedRecords \ {r}
      BY <2>1, <2>6
    <3>2. PICK k \in ApprovedRecords : k # r
      BY <3>1
    <3>3. k \in 1..Len(cacRecords) /\ r \in 1..Len(cacRecords) /\ k # r
      BY <1>0, <2>2, <3>2 DEF ApprovedRecords
    <3>4. Len(cacRecords) > 1
      BY <1>0, <3>3
    <3>5. QED BY <2>4, <3>4
  <2>12. "recounted" \in causes => "recounted" \in causes'
    BY <2>1
  <2>13. QED BY <1>1, <2>4, <2>7, <2>8, <2>9, <2>10, <2>11, <2>12
<1>5. QED BY <1>2, <1>3, <1>4

\* The offer: a reservation makes every count taken before it late.
LEMMA OfferKeeps ==
  ASSUME MerchantsInv, ReserveUnit \/ \E c \in Clerks : AddProduct(c)
  PROVE  MerchantsInv'
<1>0. /\ clerk \in [Clerks -> Clerk] /\ \A c \in Clerks : ReadingHolds(clerk[c])
      /\ UNCHANGED <<shop, cacRecords, vendor, token>>
      /\ offer \in [listed: BOOLEAN, stock: Int, promised: Int] /\ Goods \in Nat
      /\ "recounted" \in causes \/ StockIsReal
  BY MerchantsAssumption DEF MerchantsInv, MerchantsTypeOK, ReserveUnit, AddProduct
<1>1. ASSUME clerk' \in [Clerks -> Clerk], \A c \in Clerks : ReadingHolds(clerk[c])',
             offer' \in [listed: BOOLEAN, stock: Int, promised: Int],
             RecordMakers' \subseteq RecordMakers,
             causes \subseteq causes', "recounted" \in causes' \/ StockIsReal'
      PROVE  MerchantsInv'
  <2>1. Len(cacRecords') + Cardinality(RecordMakers') <= Cardinality(Clerks)
    BY <1>0, <1>1, MakersKept
  <2>2. OpenShopHasReason'
    BY <1>0, <1>1 DEF MerchantsInv, OpenShopHasReason, ApprovedRecords
  <2>3. QED
    BY <1>0, <1>1, <2>1, <2>2 DEF MerchantsInv, MerchantsTypeOK, VendorStatusHasRows
<1>2. ASSUME ReserveUnit PROVE MerchantsInv'
  <2>1. /\ offer.stock >= 1 /\ causes' = causes
        /\ offer' = [offer EXCEPT !.stock = @ - 1, !.promised = @ + 1]
    BY <1>2 DEF ReserveUnit, InStock
  <2>2. /\ offer' \in [listed: BOOLEAN, stock: Int, promised: Int]
        /\ offer'.stock = offer.stock - 1 /\ offer'.promised = offer.promised + 1
    <3>1. PICK n \in Int, m \in Int : n = offer.stock - 1 /\ m = offer.promised + 1
      BY <1>0
    <3>2. offer' = [offer EXCEPT !.stock = n, !.promised = m]
      BY <2>1, <3>1
    <3>3. QED BY <1>0, <3>1, <3>2
  <2>3. StockIsReal => StockIsReal'
    BY <1>0, <2>1, <2>2 DEF StockIsReal
  <2>4. ASSUME NEW d \in Clerks
        PROVE  /\ clerk'[d] \in Clerk /\ ReadingHolds(clerk[d])'
               /\ clerk'[d].step = clerk[d].step /\ clerk'[d].count = clerk[d].count
    <3>1. CASE clerk[d].step = "stock"
      <4>1. clerk'[d] = [clerk[d] EXCEPT !.late = TRUE] /\ clerk[d] \in Clerk
        BY <1>0, <1>2, <3>1 DEF ReserveUnit
      <4>2. /\ clerk'[d] \in Clerk /\ clerk'[d].late /\ clerk'[d].step = "stock"
            /\ clerk'[d].count = clerk[d].count
        BY <3>1, <4>1 DEF Clerk
      <4>3. QED BY <3>1, <4>2 DEF ReadingHolds
    <3>2. CASE clerk[d].step # "stock"
      <4>1. clerk'[d] = clerk[d]
        BY <1>2, <3>2 DEF ReserveUnit
      <4>2. QED BY <1>0, <3>2, <4>1 DEF ReadingHolds, ApprovedRecords
    <3>3. QED BY <3>1, <3>2
  <2>5. clerk' = [d \in Clerks |-> clerk'[d]]
    BY <1>2 DEF ReserveUnit
  <2>6. RecordMakers' \subseteq RecordMakers
    BY <2>4 DEF RecordMakers
  <2>7. QED BY <1>0, <1>1, <2>1, <2>2, <2>3, <2>4, <2>5, <2>6
<1>3. ASSUME NEW c \in Clerks, AddProduct(c) PROVE MerchantsInv'
  <2>1. /\ clerk[c].step = "stock" /\ offer' = [offer EXCEPT !.listed = TRUE, !.stock = clerk[c].count]
        /\ causes' = IF clerk[c].late THEN causes \cup {"recounted"} ELSE causes
        /\ clerk' = [clerk EXCEPT ![c] = Unoccupied]
    BY <1>3 DEF AddProduct, Rest
  <2>2. clerk[c].count \in Int
    BY <1>0 DEF Clerk
  <2>3. /\ offer' \in [listed: BOOLEAN, stock: Int, promised: Int]
        /\ offer'.stock = clerk[c].count /\ offer'.promised = offer.promised
    BY <1>0, <2>1, <2>2
  <2>4. "recounted" \in causes' \/ StockIsReal'
    <3>1. CASE clerk[c].late
      BY <2>1, <3>1
    <3>2. CASE ~clerk[c].late
      <4>1. offer'.stock = Goods - offer.promised
        BY <1>0, <2>1, <2>3, <3>2 DEF ReadingHolds
      <4>2. StockIsReal => StockIsReal'
        BY <1>0, <2>3, <4>1 DEF StockIsReal
      <4>3. QED BY <1>0, <2>1, <4>2
    <3>3. QED BY <3>1, <3>2
  <2>5. clerk' \in [Clerks -> Clerk] /\ clerk'[c] = Unoccupied
        /\ \A d \in Clerks \ {c} : clerk'[d] = clerk[d]
    BY <1>0, <2>1, UnoccupiedClerk
  <2>6. \A d \in Clerks : ReadingHolds(clerk[d])'
    BY <1>0, <2>3, <2>5, UnoccupiedClerk DEF ReadingHolds, ApprovedRecords
  <2>7. causes \subseteq causes' /\ RecordMakers' \subseteq RecordMakers
    BY <2>1, <2>5, UnoccupiedClerk DEF RecordMakers
  <2>8. QED BY <1>1, <2>3, <2>4, <2>5, <2>6, <2>7
<1>4. QED BY <1>2, <1>3

\* The token leaves the cache while it still has the buffer to live.
LEMMA TokenKeeps ==
  ASSUME MerchantsInv, GetToken \/ TokenAges
  PROVE  MerchantsInv'
<1>1. /\ UNCHANGED <<shop, cacRecords, vendor, offer, clerk, causes>>
      /\ token \in [left: Int, cached: Int] /\ TokenLife \in Nat /\ TokenBuffer \in Nat
      /\ token.cached > 0 => token.left = token.cached + TokenBuffer
  BY MerchantsAssumption DEF MerchantsInv, MerchantsTypeOK, GetToken, TokenAges
<1>2. /\ token' \in [left: Int, cached: Int]
      /\ token'.cached > 0 => token'.left = token'.cached + TokenBuffer
  <2>1. CASE GetToken
    BY <1>1, <2>1 DEF GetToken, TokenTtl
  <2>2. CASE TokenAges
    BY <1>1, <2>2 DEF TokenAges, Pred
  <2>3. QED BY <2>1, <2>2
<1>3. QED
  BY <1>1, <1>2 DEF MerchantsInv, MerchantsTypeOK, ReadingHolds, OpenShopHasReason, ApprovedRecords,
                    RecordMakers, StockIsReal, VendorStatusHasRows

\* Whichever reviews, submissions and sales overlap, an open store, a promised
\* unit, a verified step and a cached token have their reason in the rows.
THEOREM MerchantsCorrect == MerchantsSpec => []MerchantsAreSound
<1>1. MerchantsInv /\ [MerchantsNext]_merchantVars => MerchantsInv'
  <2> SUFFICES ASSUME MerchantsInv, [MerchantsNext]_merchantVars PROVE MerchantsInv'
    OBVIOUS
  <2>1. CASE UNCHANGED merchantVars
    BY <2>1 DEF merchantVars, MerchantsInv, MerchantsTypeOK, ReadingHolds, OpenShopHasReason,
                ApprovedRecords, RecordMakers, StockIsReal, VendorStatusHasRows
  <2>2. CASE MerchantsNext
    BY <2>2, ErrandKeeps, FindKeeps, VendorKeeps, ShopKeeps, OfferKeeps, TokenKeeps DEF MerchantsNext
  <2>3. QED BY <2>1, <2>2
<1>2. MerchantsInv => MerchantsAreSound
  <2> SUFFICES ASSUME MerchantsInv PROVE MerchantsAreSound
    OBVIOUS
  <2>1. OversellHasCause
    BY MerchantsAssumption DEF MerchantsInv, MerchantsTypeOK, StockIsReal, OversellHasCause
  <2>2. CachedTokenIsFresh
    BY MerchantsAssumption DEF MerchantsInv, MerchantsTypeOK, CachedTokenIsFresh
  <2>3. QED BY <2>1, <2>2 DEF MerchantsInv, MerchantsAreSound
<1>3. QED BY MerchantsStart, <1>1, <1>2, PTL DEF MerchantsSpec

-----------------------------------------------------------------------------
(***************************************************************************)
(* Shopper.                                                                *)
(***************************************************************************)
StoredPictures == {uploads[i] : i \in DOMAIN uploads}

Window == [step: {"closed", "previous", "save", "destroy", "compare", "return"},
           item: Pictures \cup Products \cup {0}, previous: Pictures \cup {0}]

ShopperTypeOK ==
  /\ uploads \in Seq(Pictures)
  /\ returns \in Nat
  /\ window \in [Windows -> Window]

\* One address at most is the default, and one is unless the customer said no.
AddressInv ==
  /\ addresses \in [AddressIds -> {"none", "plain", "default"}]
  /\ \A i, j \in AddressIds : addresses[i] = "default" /\ addresses[j] = "default" => i = j
  /\ (\E i \in AddressIds : addresses[i] # "none") /\ ~cleared
       => \E i \in AddressIds : addresses[i] = "default"

\* A handler with a new picture holds a stored file that no row names and no
\* other handler holds.  The picture it will destroy is named by a row (or is
\* none), and is no longer the profile's once its own is saved.
HoldsPicture(w) ==
  /\ window[w].step \in {"previous", "save"} =>
       window[w].item \in Pictures /\ window[w].item \in files \ StoredPictures
  /\ window[w].step \in {"save", "destroy"} =>
       window[w].previous \in StoredPictures \cup {0}
  /\ window[w].step = "destroy" => avatar = 0 \/ window[w].previous # avatar

PicturesInv ==
  /\ \A w \in Windows : HoldsPicture(w)
  /\ \A v, w \in Windows :
       v # w /\ window[v].step \in {"previous", "save"} /\ window[w].step \in {"previous", "save"}
         => window[v].item # window[w].item
  /\ avatar # 0 => avatar \in files \cap StoredPictures

Comparing == {w \in Windows : window[w].step = "compare"}
Returning == {w \in Windows : window[w].step = "return"}

\* What is on the list and what is under way to it: who has looked found room
\* at a time when the list was shorter, and there are only so many handlers.
CompareInv ==
  /\ IsFiniteSet(compared)
  /\ \/ Cardinality(compared) + Cardinality(Comparing) <= CompareLimit
     \/ Cardinality(compared) + Cardinality(Comparing) < CompareLimit + Cardinality(Windows)

\* Likewise for the returns of an order.
ReturnInv == returns + Cardinality(Returning) <= Cardinality(Windows)

ShopperInv == ShopperTypeOK /\ AddressInv /\ PicturesInv /\ CompareInv /\ ReturnInv

\* A closed window is a window.
LEMMA ClosedWindow == Closed \in Window /\ Closed.step = "closed"
BY DEF Closed, Window

\* The handlers are counted.
LEMMA HandlersCounted ==
  /\ IsFiniteSet(Windows) /\ Cardinality(Windows) \in Nat
  /\ IsFiniteSet(Comparing) /\ Cardinality(Comparing) \in 0..Cardinality(Windows)
  /\ IsFiniteSet(Returning) /\ Cardinality(Returning) \in 0..Cardinality(Windows)
<1>1. IsFiniteSet(Windows) /\ Cardinality(Windows) \in Nat
  BY ShopperAssumption, FS_CardinalityType
<1>2. ASSUME NEW S, S \subseteq Windows
      PROVE  IsFiniteSet(S) /\ Cardinality(S) \in 0..Cardinality(Windows)
  <2>1. IsFiniteSet(S) /\ Cardinality(S) \in Nat /\ Cardinality(S) <= Cardinality(Windows)
    BY <1>1, <1>2, FS_Subset, FS_CardinalityType
  <2>2. QED BY <1>1, <2>1
<1>3. Comparing \subseteq Windows /\ Returning \subseteq Windows
  BY DEF Comparing, Returning
<1>4. QED BY <1>1, <1>2, <1>3

\* The same after a step.
LEMMA HandlersCountedNext ==
  /\ IsFiniteSet(Comparing') /\ Cardinality(Comparing') \in 0..Cardinality(Windows)
  /\ IsFiniteSet(Returning') /\ Cardinality(Returning') \in 0..Cardinality(Windows)
<1>1. IsFiniteSet(Windows) /\ Cardinality(Windows) \in Nat
  BY ShopperAssumption, FS_CardinalityType
<1>2. ASSUME NEW S, S \subseteq Windows
      PROVE  IsFiniteSet(S) /\ Cardinality(S) \in 0..Cardinality(Windows)
  <2>1. IsFiniteSet(S) /\ Cardinality(S) \in Nat /\ Cardinality(S) <= Cardinality(Windows)
    BY <1>1, <1>2, FS_Subset, FS_CardinalityType
  <2>2. QED BY <1>1, <2>1
<1>3. Comparing' \subseteq Windows /\ Returning' \subseteq Windows
  BY DEF Comparing, Returning
<1>4. QED BY <1>2, <1>3

\* Where nobody else looks, the counts do not grow; where a handler writes what
\* it looked for, its count shrinks.
LEMMA CountsStand ==
  ASSUME NEW w \in Windows, \A v \in Windows \ {w} : window'[v] = window[v]
  PROVE  /\ window'[w].step # "compare" => Cardinality(Comparing') <= Cardinality(Comparing)
         /\ window'[w].step # "return" => Cardinality(Returning') <= Cardinality(Returning)
         /\ window'[w].step # "compare" /\ window[w].step = "compare"
              => Cardinality(Comparing') = Cardinality(Comparing) - 1
         /\ window'[w].step # "return" /\ window[w].step = "return"
              => Cardinality(Returning') = Cardinality(Returning) - 1
<1>1. window'[w].step # "compare" => Comparing' = Comparing \ {w}
  BY DEF Comparing
<1>2. window'[w].step # "return" => Returning' = Returning \ {w}
  BY DEF Returning
<1>3. ASSUME NEW S, IsFiniteSet(S)
      PROVE  /\ Cardinality(S \ {w}) <= Cardinality(S)
             /\ w \in S => Cardinality(S \ {w}) = Cardinality(S) - 1
  <2>1. Cardinality(S \ {w}) = IF w \in S THEN Cardinality(S) - 1 ELSE Cardinality(S)
    BY <1>3, FS_RemoveElement
  <2>2. Cardinality(S) \in Nat
    BY <1>3, FS_CardinalityType
  <2>3. QED BY <2>1, <2>2
<1>4. /\ window[w].step = "compare" => w \in Comparing
      /\ window[w].step = "return" => w \in Returning
  BY DEF Comparing, Returning
<1>5. IsFiniteSet(Comparing) /\ IsFiniteSet(Returning)
  BY HandlersCounted
<1>6. QED BY <1>1, <1>2, <1>3, <1>4, <1>5

\* The bounds stand when no count and no number grows.
LEMMA BoundsStand ==
  ASSUME ShopperInv, UNCHANGED <<compared, returns>>,
         Cardinality(Comparing') <= Cardinality(Comparing),
         Cardinality(Returning') <= Cardinality(Returning)
  PROVE  CompareInv' /\ ReturnInv'
<1>1. PICK c \in Nat, d \in Nat, l \in Nat, n \in Nat :
        c = Cardinality(compared) /\ l = CompareLimit /\ n = Cardinality(Windows) /\ d = returns
  BY HandlersCounted, FS_CardinalityType, ShopperAssumption DEF ShopperInv, ShopperTypeOK, CompareInv
<1>2. PICK x \in Nat, y \in Nat, p \in Nat, q \in Nat :
        /\ x = Cardinality(Comparing) /\ y = Cardinality(Comparing')
        /\ p = Cardinality(Returning) /\ q = Cardinality(Returning')
  BY HandlersCounted, HandlersCountedNext
<1>3. (c + x <= l \/ c + x < l + n) /\ d + p <= n /\ IsFiniteSet(compared)
  BY <1>1, <1>2 DEF ShopperInv, CompareInv, ReturnInv
<1>4. (c + y <= l \/ c + y < l + n) /\ d + q <= n
  BY <1>1, <1>2, <1>3
<1>5. CompareInv'
  BY <1>1, <1>2, <1>3, <1>4 DEF CompareInv
<1>6. ReturnInv'
  BY <1>1, <1>2, <1>4 DEF ReturnInv
<1>7. QED BY <1>5, <1>6

\* The invariant holds at first.
LEMMA ShopperStarts == ShopperInit => ShopperInv
<1> SUFFICES ASSUME ShopperInit PROVE ShopperInv
  OBVIOUS
<1>1. ShopperTypeOK
  BY ClosedWindow DEF ShopperInit, ShopperTypeOK
<1>2. AddressInv
  BY DEF ShopperInit, AddressInv
<1>3. \A w \in Windows : window[w].step = "closed"
  BY ClosedWindow DEF ShopperInit
<1>4. PicturesInv
  BY <1>3 DEF ShopperInit, PicturesInv, HoldsPicture
<1>5. Comparing = {} /\ Returning = {} /\ Cardinality({}) = 0 /\ IsFiniteSet({})
  BY <1>3, FS_EmptySet DEF Comparing, Returning
<1>6. CompareInv /\ ReturnInv
  BY <1>5, HandlersCounted, ShopperAssumption DEF ShopperInit, CompareInv, ReturnInv
<1>7. QED BY <1>1, <1>2, <1>4, <1>6 DEF ShopperInv

\* A nonempty set of address ids has a largest one.
LEMMA NewestExists ==
  ASSUME NEW S, S \subseteq AddressIds, S # {}
  PROVE  Max(S) \in S
<1> DEFINE T == {MaxAddresses - i : i \in S}
<1>1. \A i \in S : i \in Nat /\ MaxAddresses - i \in Nat
  BY ShopperAssumption DEF AddressIds
<1>2. T \subseteq Nat /\ T # {}
  BY <1>1
<1>3. \E x \in T : \A y \in T : ~ (<<y, x>> \in OpToRel(<, Nat))
  <2> HIDE DEF T
  <2> QED BY <1>2, NatLessThanWellFounded, WFMin
<1>4. PICK i \in S : \A j \in S : ~ (<<MaxAddresses - j, MaxAddresses - i>> \in OpToRel(<, Nat))
  BY <1>3
<1>5. \A j \in S : i >= j
  <2> SUFFICES ASSUME NEW j \in S PROVE i >= j
    OBVIOUS
  <2>1. PICK a \in Nat, b \in Nat : a = MaxAddresses - j /\ b = MaxAddresses - i
    BY <1>1
  <2>2. ~ (<<a, b>> \in OpToRel(<, Nat))
    BY <1>4, <2>1
  <2>3. ~ (a < b)
    BY <2>2 DEF OpToRel
  <2>4. QED BY <1>1, <2>1, <2>3, ShopperAssumption
<1>6. QED BY <1>5 DEF Max

\* What an address change leaves alone.
LEMMA AddressesKeep ==
  ASSUME ShopperInv,
         \/ \E wish \in {"yes", "no", "absent"} :
              AddAddress(wish) \/ \E i \in AddressIds : UpdateAddress(i, wish)
         \/ \E i \in AddressIds : DeleteAddress(i)
  PROVE  ShopperInv'
<1>0. UNCHANGED <<avatar, uploads, files, compared, returns, window>>
  BY DEF AddAddress, UpdateAddress, DeleteAddress
<1>1. SUFFICES AddressInv'
  BY <1>0 DEF ShopperInv, ShopperTypeOK, PicturesInv, HoldsPicture, StoredPictures, CompareInv,
              ReturnInv, Comparing, Returning
<1>2. /\ \A i \in AddressIds : addresses[i] \in {"none", "plain", "default"}
      /\ \A i, j \in AddressIds : addresses[i] = "default" /\ addresses[j] = "default" => i = j
      /\ (\E i \in AddressIds : addresses[i] # "none") /\ ~cleared
           => \E i \in AddressIds : addresses[i] = "default"
  BY DEF ShopperInv, AddressInv
<1>3. ASSUME NEW wish \in {"yes", "no", "absent"}, AddAddress(wish) PROVE AddressInv'
  <2>1. PICK i \in AddressIds, d \in BOOLEAN :
          /\ addresses[i] = "none"
          /\ d <=> IF wish = "absent" THEN Kept = {} ELSE wish = "yes"
          /\ addresses' = [j \in AddressIds |->
               IF j = i THEN (IF d THEN "default" ELSE "plain")
               ELSE IF d THEN Undefaulted(j) ELSE addresses[j]]
          /\ cleared' = (cleared \/ wish = "no")
    BY <1>3 DEF AddAddress
  <2>2. CASE d
    BY <1>2, <2>1, <2>2 DEF AddressInv, Undefaulted
  <2>3. CASE ~d
    BY <1>2, <2>1, <2>3 DEF AddressInv, Kept
  <2>4. QED BY <2>2, <2>3
<1>4. ASSUME NEW wish \in {"yes", "no", "absent"}, NEW i \in AddressIds, UpdateAddress(i, wish)
      PROVE  AddressInv'
  <2>1. /\ addresses[i] # "none" /\ cleared' = (cleared \/ wish = "no")
        /\ addresses' = [j \in AddressIds |->
             IF j = i THEN CASE wish = "yes" -> "default" [] wish = "no" -> "plain"
                             [] OTHER -> addresses[i]
             ELSE IF wish = "yes" THEN Undefaulted(j) ELSE addresses[j]]
    BY <1>4 DEF UpdateAddress, Kept
  <2>2. CASE wish = "yes"
    BY <1>2, <2>1, <2>2 DEF AddressInv, Undefaulted
  <2>3. CASE wish = "no"
    BY <1>2, <2>1, <2>3 DEF AddressInv
  <2>4. CASE wish = "absent"
    BY <1>2, <2>1, <2>4 DEF AddressInv
  <2>5. QED BY <2>2, <2>3, <2>4
<1>5. ASSUME NEW i \in AddressIds, DeleteAddress(i) PROVE AddressInv'
  <2>1. /\ addresses[i] # "none" /\ cleared' = cleared
        /\ addresses' = [j \in AddressIds |-> IF j = i THEN "none"
                                        ELSE IF j \in NextDefault(i) THEN "default"
                                        ELSE addresses[j]]
    BY <1>5 DEF DeleteAddress, Kept
  <2>2. CASE addresses[i] = "default" /\ Kept # {i}
    <3>1. PICK m : m = Max(Kept \ {i})
      OBVIOUS
    <3>2. Kept \ {i} \subseteq AddressIds /\ Kept \ {i} # {}
      BY <2>1, <2>2 DEF Kept
    <3>3. m \in Kept \ {i}
      BY <3>1, <3>2, NewestExists
    <3>4. NextDefault(i) = {m}
      BY <2>1, <2>2, <3>1 DEF NextDefault, Defaults, Kept
    <3>5. QED BY <1>2, <2>1, <2>2, <3>3, <3>4 DEF AddressInv, Kept
  <2>3. CASE ~ (addresses[i] = "default" /\ Kept # {i})
    <3>1. NextDefault(i) = {}
      BY <2>3 DEF NextDefault, Defaults, Kept
    <3>2. QED BY <1>2, <2>1, <2>3, <3>1 DEF AddressInv, Kept
  <2>4. QED BY <2>2, <2>3
<1>6. QED BY <1>3, <1>4, <1>5

\* A handler that opens a window which is not about a picture.
LEMMA PicturesUntouched ==
  ASSUME ShopperInv, UNCHANGED <<avatar, uploads, files>>, NEW w \in Windows,
         window' \in [Windows -> Window], \A v \in Windows \ {w} : window'[v] = window[v],
         window'[w].step \in {"closed", "compare", "return"}
  PROVE  PicturesInv'
BY DEF ShopperInv, PicturesInv, HoldsPicture, StoredPictures

\* The list to compare.
LEMMA CompareKeeps ==
  ASSUME ShopperInv,
         \/ \E p \in Products : RemoveCompare(p) \/ \E w \in Windows : AddCompareRead(w, p)
         \/ \E w \in Windows : AddCompare(w)
  PROVE  ShopperInv'
<1>0. IsFiniteSet(compared) /\ Cardinality(compared) \in Nat /\ CompareLimit \in Nat
      /\ window \in [Windows -> Window] /\ \A w \in Windows : window[w] \in Window
  BY ShopperAssumption, FS_CardinalityType DEF ShopperInv, ShopperTypeOK, CompareInv
<1>1. ASSUME NEW p \in Products, RemoveCompare(p) PROVE ShopperInv'
  <2>1. UNCHANGED <<addresses, avatar, uploads, files, returns, window, cleared>>
        /\ compared' = compared \ {p} /\ p \in compared
    BY <1>1 DEF RemoveCompare
  <2>2. IsFiniteSet(compared') /\ Cardinality(compared') = Cardinality(compared) - 1
    BY <1>0, <2>1, FS_RemoveElement
  <2>3. Comparing' = Comparing /\ Returning' = Returning
    BY <2>1 DEF Comparing, Returning
  <2>4. CompareInv'
    <3>1. PICK c \in Nat, l \in Nat, n \in Nat, x \in Nat :
            /\ c = Cardinality(compared) /\ l = CompareLimit /\ n = Cardinality(Windows)
            /\ x = Cardinality(Comparing)
      BY <1>0, HandlersCounted
    <3>2. c + x <= l \/ c + x < l + n
      BY <3>1 DEF ShopperInv, CompareInv
    <3>3. (c - 1) + x <= l \/ (c - 1) + x < l + n
      BY <3>1, <3>2
    <3>4. QED BY <2>2, <2>3, <3>1, <3>3 DEF CompareInv
  <2>5. ReturnInv'
    BY <2>1, <2>3 DEF ShopperInv, ReturnInv
  <2>6. QED BY <2>1, <2>4, <2>5 DEF ShopperInv, ShopperTypeOK, AddressInv, PicturesInv, HoldsPicture,
                                    StoredPictures
<1>2. ASSUME NEW p \in Products, NEW w \in Windows, AddCompareRead(w, p) PROVE ShopperInv'
  <2>1. /\ UNCHANGED <<addresses, avatar, uploads, files, compared, returns, cleared>>
        /\ Cardinality(compared) < CompareLimit
        /\ window' = [window EXCEPT ![w] = [Closed EXCEPT !.step = "compare", !.item = p]]
    BY <1>2 DEF AddCompareRead, OpenWindow, RoomToCompare
  <2>2. [Closed EXCEPT !.step = "compare", !.item = p] \in Window
    BY DEF Closed, Window
  <2>3. /\ window' \in [Windows -> Window] /\ \A v \in Windows \ {w} : window'[v] = window[v]
        /\ window'[w].step = "compare"
    BY <1>0, <2>1, <2>2 DEF Closed
  <2>4. PicturesInv'
    BY <2>1, <2>3, PicturesUntouched
  <2>5. CompareInv'
    <3>1. PICK c \in Nat, l \in Nat, n \in Nat, y \in Nat :
            /\ c = Cardinality(compared) /\ l = CompareLimit /\ n = Cardinality(Windows)
            /\ y = Cardinality(Comparing') /\ y <= n /\ c < l
      BY <1>0, <2>1, HandlersCounted, HandlersCountedNext
    <3>2. c + y < l + n
      BY <3>1
    <3>3. QED BY <1>0, <2>1, <3>1, <3>2 DEF CompareInv
  <2>6. ReturnInv'
    <3>1. PICK d \in Nat, n \in Nat, x \in Nat, y \in Nat :
            /\ d = returns /\ n = Cardinality(Windows)
            /\ x = Cardinality(Returning) /\ y = Cardinality(Returning') /\ y <= x
      BY <2>3, HandlersCounted, HandlersCountedNext, CountsStand DEF ShopperInv, ShopperTypeOK
    <3>2. d + x <= n
      BY <3>1 DEF ShopperInv, ReturnInv
    <3>3. d + y <= n
      BY <3>1, <3>2
    <3>4. QED BY <2>1, <3>1, <3>3 DEF ReturnInv
  <2>7. QED BY <2>1, <2>3, <2>4, <2>5, <2>6 DEF ShopperInv, ShopperTypeOK, AddressInv
<1>3. ASSUME NEW w \in Windows, AddCompare(w) PROVE ShopperInv'
  <2>1. /\ UNCHANGED <<addresses, avatar, uploads, files, returns, cleared>>
        /\ window[w].step = "compare" /\ compared' = compared \cup {window[w].item}
        /\ window' = [window EXCEPT ![w] = Closed]
    BY <1>3 DEF AddCompare, CloseWindow
  <2>2. /\ window' \in [Windows -> Window] /\ \A v \in Windows \ {w} : window'[v] = window[v]
        /\ window'[w].step = "closed"
    BY <1>0, <2>1, ClosedWindow
  <2>3. PicturesInv'
    BY <2>1, <2>2, PicturesUntouched
  <2>4. IsFiniteSet(compared')
        /\ (Cardinality(compared') = Cardinality(compared)
            \/ Cardinality(compared') = Cardinality(compared) + 1)
    BY <1>0, <2>1, FS_AddElement
  <2>5. PICK c \in Nat, l \in Nat, n \in Nat, x \in Nat :
          /\ c = Cardinality(compared) /\ l = CompareLimit /\ n = Cardinality(Windows)
          /\ x = Cardinality(Comparing)
    BY <1>0, HandlersCounted
  <2>6. Cardinality(Comparing') = x - 1
    BY <2>1, <2>2, <2>5, CountsStand
  <2>7. c + x <= l \/ c + x < l + n
    BY <2>5 DEF ShopperInv, CompareInv
  <2>8. CompareInv'
    <3>1. PICK e \in Nat : e = Cardinality(compared') /\ e <= c + 1
      BY <2>4, <2>5
    <3>2. e + (x - 1) <= l \/ e + (x - 1) < l + n
      BY <2>5, <2>7, <3>1
    <3>3. QED BY <2>4, <2>5, <2>6, <3>1, <3>2 DEF CompareInv
  <2>9. ReturnInv'
    <3>1. Cardinality(Returning') <= Cardinality(Returning)
      BY <2>1, <2>2, CountsStand
    <3>2. returns' = returns /\ returns \in Nat
      BY <2>1 DEF ShopperInv, ShopperTypeOK
    <3>3. returns + Cardinality(Returning) <= Cardinality(Windows)
      BY DEF ShopperInv, ReturnInv
    <3>4. QED BY <3>1, <3>2, <3>3, HandlersCounted, HandlersCountedNext DEF ReturnInv
  <2>10. QED BY <2>1, <2>2, <2>3, <2>8, <2>9 DEF ShopperInv, ShopperTypeOK, AddressInv
<1>4. QED BY <1>1, <1>2, <1>3

\* The return of an order.
LEMMA ReturnKeeps ==
  ASSUME ShopperInv, NEW w \in Windows, ReturnRead(w) \/ RequestReturn(w) \/ ShopperStops(w)
  PROVE  ShopperInv'
<1>0. /\ window \in [Windows -> Window] /\ returns \in Nat
      /\ UNCHANGED <<addresses, avatar, uploads, files, compared, cleared>>
  BY DEF ShopperInv, ShopperTypeOK, ReturnRead, RequestReturn, ShopperStops
<1>1. ASSUME window' \in [Windows -> Window], \A v \in Windows \ {w} : window'[v] = window[v],
             window'[w].step \in {"closed", "return"}, returns' \in Nat, ReturnInv'
      PROVE  ShopperInv'
  <2>1. PicturesInv'
    BY <1>0, <1>1, PicturesUntouched
  <2>2. CompareInv'
    <3>1. PICK c \in Nat, l \in Nat, n \in Nat, x \in Nat, y \in Nat :
            /\ c = Cardinality(compared) /\ l = CompareLimit /\ n = Cardinality(Windows)
            /\ x = Cardinality(Comparing) /\ y = Cardinality(Comparing')
      BY HandlersCounted, HandlersCountedNext, FS_CardinalityType, ShopperAssumption
         DEF ShopperInv, CompareInv
    <3>2. y <= x
      BY <1>1, <3>1, CountsStand
    <3>3. (c + x <= l \/ c + x < l + n) /\ IsFiniteSet(compared)
      BY <3>1 DEF ShopperInv, CompareInv
    <3>4. c + y <= l \/ c + y < l + n
      BY <3>1, <3>2, <3>3
    <3>5. QED BY <1>0, <3>1, <3>3, <3>4 DEF CompareInv
  <2>3. QED BY <1>0, <1>1, <2>1, <2>2 DEF ShopperInv, ShopperTypeOK, AddressInv
<1>2. CASE ReturnRead(w)
  <2>1. /\ window' = [window EXCEPT ![w] = [Closed EXCEPT !.step = "return"]]
        /\ returns = 0 /\ returns' = returns
    BY <1>2 DEF ReturnRead, OpenWindow, Returnable
  <2>2. [Closed EXCEPT !.step = "return"] \in Window
    BY DEF Closed, Window
  <2>3. window' \in [Windows -> Window] /\ (\A v \in Windows \ {w} : window'[v] = window[v])
        /\ window'[w].step = "return"
    BY <1>0, <2>1, <2>2 DEF Closed
  <2>4. ReturnInv'
    BY <2>1, HandlersCounted, HandlersCountedNext DEF ReturnInv
  <2>5. QED BY <1>0, <1>1, <2>1, <2>3, <2>4
<1>3. CASE RequestReturn(w)
  <2>1. /\ window' = [window EXCEPT ![w] = Closed] /\ window[w].step = "return"
        /\ returns' = returns + 1
    BY <1>3 DEF RequestReturn, CloseWindow
  <2>2. window' \in [Windows -> Window] /\ (\A v \in Windows \ {w} : window'[v] = window[v])
        /\ window'[w].step = "closed"
    BY <1>0, <2>1, ClosedWindow
  <2>3. ReturnInv'
    <3>1. PICK d \in Nat : d = returns
      BY <1>0
    <3>2. PICK n \in Nat : n = Cardinality(Windows)
      BY HandlersCounted
    <3>3. PICK x \in Nat : x = Cardinality(Returning)
      BY HandlersCounted
    <3>4. d + x <= n
      BY <3>1, <3>2, <3>3 DEF ShopperInv, ReturnInv
    <3>5. Cardinality(Returning') = x - 1
      BY <2>1, <2>2, <3>3, CountsStand
    <3>6. returns' + Cardinality(Returning') <= n
      BY <2>1, <3>1, <3>4, <3>5
    <3>7. QED BY <3>2, <3>6 DEF ReturnInv
  <2>4. QED BY <1>0, <1>1, <2>1, <2>2, <2>3
<1>4. CASE ShopperStops(w)
  <2>1. window' = [window EXCEPT ![w] = Closed] /\ returns' = returns
    BY <1>4 DEF ShopperStops, CloseWindow
  <2>2. window' \in [Windows -> Window] /\ (\A v \in Windows \ {w} : window'[v] = window[v])
        /\ window'[w].step = "closed"
    BY <1>0, <2>1, ClosedWindow
  <2>3. ReturnInv'
    BY <1>0, <2>1, <2>2, CountsStand, BoundsStand
  <2>4. QED BY <1>0, <1>1, <2>1, <2>2, <2>3
<1>5. QED BY <1>2, <1>3, <1>4

\* The picture of the profile.
LEMMA PictureKeeps ==
  ASSUME ShopperInv, NEW w \in Windows,
         UploadPicture(w) \/ PreviousPicture(w) \/ UpdateAvatar(w) \/ DestroyPrevious(w)
  PROVE  ShopperInv'
<1>0. /\ window \in [Windows -> Window] /\ uploads \in Seq(Pictures)
      /\ UNCHANGED <<addresses, compared, returns, cleared>>
  BY DEF ShopperInv, ShopperTypeOK, UploadPicture, PreviousPicture, UpdateAvatar, DestroyPrevious
<1>1. ASSUME window' \in [Windows -> Window], \A v \in Windows \ {w} : window'[v] = window[v],
             window'[w].step \in {"previous", "save", "destroy", "closed"},
             uploads' \in Seq(Pictures), PicturesInv'
      PROVE  ShopperInv'
  <2>1. CompareInv' /\ ReturnInv'
    BY <1>0, <1>1, CountsStand, BoundsStand
  <2>2. QED BY <1>0, <1>1, <2>1 DEF ShopperInv, ShopperTypeOK, AddressInv
<1>2. CASE UploadPicture(w)
  <2>1. PICK f \in Pictures :
          /\ f \notin files /\ f \notin StoredPictures /\ files' = files \cup {f}
          /\ window' = [window EXCEPT ![w] = [Closed EXCEPT !.step = "previous", !.item = f]]
          /\ UNCHANGED <<avatar, uploads>>
    BY <1>2 DEF UploadPicture, OpenWindow, Taken, StoredPictures
  <2>2. [Closed EXCEPT !.step = "previous", !.item = f] \in Window
    BY DEF Closed, Window
  <2>3. window' \in [Windows -> Window] /\ (\A v \in Windows \ {w} : window'[v] = window[v])
        /\ window'[w].step = "previous" /\ window'[w].item = f
    BY <1>0, <2>1, <2>2 DEF Closed
  <2>4. StoredPictures' = StoredPictures
    BY <2>1 DEF StoredPictures
  <2>5. \A v \in Windows : HoldsPicture(v)'
    BY <2>1, <2>3, <2>4 DEF ShopperInv, PicturesInv, HoldsPicture
  <2>6. PicturesInv'
    BY <2>1, <2>3, <2>4, <2>5 DEF ShopperInv, PicturesInv, HoldsPicture
  <2>7. QED BY <1>0, <1>1, <2>1, <2>3, <2>6
<1>3. CASE PreviousPicture(w)
  <2>1. PICK q : q = IF uploads = <<>> THEN 0 ELSE uploads[Len(uploads)]
    OBVIOUS
  <2>2. /\ window[w].step = "previous" /\ UNCHANGED <<avatar, uploads, files>>
        /\ window' = [window EXCEPT ![w].step = "save", ![w].previous = q]
    BY <1>3, <2>1 DEF PreviousPicture
  <2>3. q \in StoredPictures \cup {0} /\ q \in Pictures \cup {0}
    BY <1>0, <2>1 DEF StoredPictures
  <2>4. window[w] \in Window /\ window'[w] = [window[w] EXCEPT !.step = "save", !.previous = q]
    BY <1>0, <2>2
  <2>5. window'[w] \in Window /\ window'[w].step = "save" /\ window'[w].previous = q
        /\ window'[w].item = window[w].item
    BY <2>3, <2>4 DEF Window
  <2>6. window' \in [Windows -> Window] /\ (\A v \in Windows \ {w} : window'[v] = window[v])
    BY <1>0, <2>2, <2>5
  <2>7. StoredPictures' = StoredPictures
    BY <2>2 DEF StoredPictures
  <2>8. \A v \in Windows : HoldsPicture(v)'
    BY <2>2, <2>3, <2>5, <2>6, <2>7 DEF ShopperInv, PicturesInv, HoldsPicture
  <2>9. PicturesInv'
    BY <2>2, <2>5, <2>6, <2>7, <2>8 DEF ShopperInv, PicturesInv
  <2>10. QED BY <1>0, <1>1, <2>2, <2>5, <2>6, <2>9
<1>4. CASE UpdateAvatar(w)
  <2>1. /\ window[w].step = "save" /\ uploads' = Append(uploads, window[w].item)
        /\ avatar' = window[w].item /\ window' = [window EXCEPT ![w].step = "destroy"]
        /\ UNCHANGED files
    BY <1>4 DEF UpdateAvatar, AvatarAfter
  <2>2. /\ window[w].item \in Pictures /\ window[w].item \in files
        /\ window[w].item \notin StoredPictures
        /\ window[w].previous \in StoredPictures \cup {0}
    BY <2>1 DEF ShopperInv, PicturesInv, HoldsPicture
  <2>3. uploads' \in Seq(Pictures)
    BY <1>0, <2>1, <2>2
  <2>4. StoredPictures' = StoredPictures \cup {window[w].item}
    <3>1. PICK f \in Pictures : f = window[w].item
      BY <2>2
    <3>2. PICK n \in Nat : n = Len(uploads)
      BY <1>0
    <3>3. DOMAIN uploads = 1..n /\ DOMAIN Append(uploads, f) = 1..(n + 1)
      BY <1>0, <3>1, <3>2
    <3>4. \A i \in 1..n : Append(uploads, f)[i] = uploads[i]
      BY <1>0, <3>1, <3>2
    <3>5. Append(uploads, f)[n + 1] = f
      BY <1>0, <3>1, <3>2
    <3>6. 1..(n + 1) = (1..n) \cup {n + 1}
      BY <3>2
    <3>7. QED BY <2>1, <3>1, <3>3, <3>4, <3>5, <3>6 DEF StoredPictures
  <2>5. window[w] \in Window /\ window'[w] = [window[w] EXCEPT !.step = "destroy"]
    BY <1>0, <2>1
  <2>6. window'[w] \in Window /\ window'[w].step = "destroy"
        /\ window'[w].previous = window[w].previous
    BY <2>5 DEF Window
  <2>7. window' \in [Windows -> Window] /\ (\A v \in Windows \ {w} : window'[v] = window[v])
    BY <1>0, <2>1, <2>6
  <2>8. \A v \in Windows : HoldsPicture(v)'
    <3> SUFFICES ASSUME NEW v \in Windows PROVE HoldsPicture(v)'
      OBVIOUS
    <3>1. CASE v = w
      BY <2>1, <2>2, <2>4, <2>6, <3>1 DEF HoldsPicture
    <3>2. CASE v # w
      <4>1. /\ HoldsPicture(v) /\ window'[v] = window[v]
            /\ window[v].step \in {"previous", "save"} => window[v].item # window[w].item
        BY <2>1, <2>7, <3>2 DEF ShopperInv, PicturesInv
      <4>2. QED BY <2>1, <2>2, <2>4, <4>1 DEF HoldsPicture
    <3>3. QED BY <3>1, <3>2
  <2>9. PicturesInv'
    BY <2>1, <2>2, <2>4, <2>6, <2>7, <2>8 DEF ShopperInv, PicturesInv
  <2>10. QED BY <1>0, <1>1, <2>3, <2>6, <2>7, <2>9
<1>5. CASE DestroyPrevious(w)
  <2>1. /\ window[w].step = "destroy" /\ UNCHANGED <<avatar, uploads>>
        /\ files' = files \ {window[w].previous} \/ files' = files
        /\ window' = [window EXCEPT ![w] = Closed]
    BY <1>5 DEF DestroyPrevious, CloseWindow
  <2>2. window' \in [Windows -> Window] /\ (\A v \in Windows \ {w} : window'[v] = window[v])
        /\ window'[w].step = "closed"
    BY <1>0, <2>1, ClosedWindow
  <2>3. StoredPictures' = StoredPictures
    BY <2>1 DEF StoredPictures
  <2>4. avatar # 0 => avatar \in files' \cap StoredPictures
    BY <2>1 DEF ShopperInv, PicturesInv, HoldsPicture
  <2>5. PicturesInv'
    <3>1. window[w].previous \in StoredPictures \cup {0}
      BY <2>1 DEF ShopperInv, PicturesInv, HoldsPicture
    <3>2. \A v \in Windows : HoldsPicture(v)'
      BY <2>1, <2>2, <2>3, <3>1, ShopperAssumption DEF ShopperInv, PicturesInv, HoldsPicture
    <3>3. QED BY <2>1, <2>2, <2>3, <2>4, <3>2 DEF ShopperInv, PicturesInv
  <2>6. QED BY <1>0, <1>1, <2>1, <2>2, <2>5
<1>6. QED BY <1>2, <1>3, <1>4, <1>5

\* However the requests of a customer overlap, fail or stop half-way, one
\* address at most is the default, the profile's picture is in storage, and the
\* limits of the comparison and of returns hold unless two requests overlapped.
THEOREM ShopperCorrect == ShopperSpec => []ShopperRowsAreSound
<1>1. ShopperInv /\ [ShopperNext]_shopperVars => ShopperInv'
  <2> SUFFICES ASSUME ShopperInv, [ShopperNext]_shopperVars PROVE ShopperInv'
    OBVIOUS
  <2>1. CASE UNCHANGED shopperVars
    BY <2>1 DEF shopperVars, ShopperInv, ShopperTypeOK, AddressInv, PicturesInv, HoldsPicture,
                StoredPictures, CompareInv, ReturnInv, Comparing, Returning
  <2>2. CASE ShopperNext
    BY <2>2, AddressesKeep, CompareKeeps, ReturnKeeps, PictureKeeps DEF ShopperNext
  <2>3. QED BY <2>1, <2>2
<1>2. ShopperInv => ShopperRowsAreSound
  <2> SUFFICES ASSUME ShopperInv PROVE ShopperRowsAreSound
    OBVIOUS
  <2>1. Cardinality(Defaults) <= 1
    <3>1. CASE Defaults = {}
      BY <3>1, FS_EmptySet
    <3>2. CASE Defaults # {}
      <4>1. PICK i \in Defaults : TRUE
        BY <3>2
      <4>2. Defaults = {i}
        BY <4>1 DEF ShopperInv, AddressInv, Defaults, Kept
      <4>3. QED BY <4>2, FS_Singleton
    <3>3. QED BY <3>1, <3>2
  <2>2. OneDefaultAddress
    BY <2>1 DEF ShopperInv, AddressInv, OneDefaultAddress, Defaults, Kept
  <2>3. AvatarIsStored
    BY DEF ShopperInv, PicturesInv, AvatarIsStored
  <2>4. CompareWithinLimit
    BY HandlersCounted, ShopperAssumption, FS_CardinalityType
       DEF ShopperInv, CompareInv, CompareWithinLimit
  <2>5. OneActiveReturn
    BY HandlersCounted DEF ShopperInv, ShopperTypeOK, ReturnInv, OneActiveReturn
  <2>6. QED BY <2>2, <2>3, <2>4, <2>5 DEF ShopperRowsAreSound
<1>3. QED BY ShopperStarts, <1>1, <1>2, PTL DEF ShopperSpec

-----------------------------------------------------------------------------
(***************************************************************************)
(* Pricing.                                                                *)
(***************************************************************************)
Bill == [subtotal: Nat, fee: Nat, discount: Int, feeDiscount: Int, total: Int]

\* An order's parts add up, and it is never negative.
OrderAddsUp(s) ==
  /\ bill[s].total = bill[s].subtotal + bill[s].fee - (bill[s].discount + bill[s].feeDiscount)
  /\ bill[s].total >= 0

PricingTypeOK ==
  /\ bill \in [Shops -> Bill]
  /\ couponLeft \in Int /\ couponSum \in Int
  /\ billed \in -1..(ShopCount + 1)
  /\ voucherOf \in VoucherOffers /\ couponOf \in CouponOffers
  /\ billed = -1 => \A s \in Shops : bill[s].discount = 0 /\ bill[s].feeDiscount = 0

\* The goods of the orders the coupon has still to reach.
Ahead == SumFunctionOnSet([s \in Shops |-> bill[s].subtotal], billed..ShopCount)

\* What is left of the coupon is what those goods call for, but for half a kobo
\* and less from each order before them, or nothing; after the last order it
\* is what that order, come down to nothing, could not take.
LeftIsDue ==
  \/ couponLeft = 0
  \/ /\ billed <= ShopCount
     /\ 2 * (Gross * couponLeft) + (billed - 1) <= 2 * (couponSum * Ahead) + Gross * (billed - 1)
  \/ /\ billed > ShopCount /\ bill[ShopCount].total = 0
     /\ 2 * couponLeft <= ShopCount - 2

PlainCoupon == couponOf.type # "NONE" /\ voucherOf.type = "NONE"

ShareInv ==
  PlainCoupon =>
    /\ \A s \in Shops :
         bill[s].feeDiscount = 0 /\ bill[s].discount >= 0 /\ (s >= billed => bill[s].discount = 0)
    /\ billed > 0 =>
         /\ couponLeft >= 0 /\ couponSum >= couponLeft
         /\ Discounts = couponSum - couponLeft
         /\ couponSum <= Gross => LeftIsDue

PricingInv == PricingTypeOK /\ (\A s \in Shops : OrderAddsUp(s)) /\ ShareInv

\* Division of naturals.
LEMMA Division ==
  ASSUME NEW n \in Nat, NEW d \in Nat \ {0}
  PROVE  n \div d \in Nat /\ d * (n \div d) <= n /\ n < d * (n \div d) + d
OBVIOUS

\* A rounded share is less than half a kobo below the exact one, and no more
\* than the goods it is for when the whole is no more than all goods.
LEMMA RoundedShare ==
  ASSUME NEW c \in Nat, NEW b \in Nat, NEW g \in Nat \ {0}
  PROVE  /\ Rounded(c * b, g) \in Nat
         /\ 2 * (c * b) + 1 <= 2 * (g * Rounded(c * b, g)) + g
         /\ c <= g => Rounded(c * b, g) <= b
<1>1. PICK x \in Nat : x = c * b
  OBVIOUS
<1>2. PICK r \in Nat : r = Rounded(x, g) /\ 2 * g * r <= 2 * x + g /\ 2 * x + g < 2 * g * r + 2 * g
  <2>1. 2 * x + g \in Nat /\ 2 * g \in Nat \ {0}
    OBVIOUS
  <2>2. QED BY <2>1, Division DEF Rounded
<1>3. 2 * g * r = 2 * (g * r) /\ g * r \in Nat
  BY SMT
<1>4. 2 * x + 1 <= 2 * (g * r) + g
  BY <1>2, <1>3
<1>5. ASSUME c <= g, r >= b + 1 PROVE FALSE
  <2>1. g * r >= g * (b + 1)
    BY <1>5, SMT
  <2>2. g * (b + 1) = g * b + g
    BY SMT
  <2>3. x <= g * b
    BY <1>1, <1>5, SMT
  <2>4. g * b \in Nat
    OBVIOUS
  <2>5. QED BY <1>2, <1>3, <2>1, <2>2, <2>3, <2>4
<1>6. QED BY <1>1, <1>2, <1>4, <1>5

\* The shops are finitely many.
LEMMA ShopsAreFinite == IsFiniteSet(Shops) /\ ShopCount \in Shops /\ 1 \in Shops
                        /\ \A b \in Shops : IsFiniteSet(b..ShopCount) /\ b..ShopCount \subseteq Shops
BY PricingAssumption, FS_Interval DEF Shops

\* Sums over the orders, and that the goods are worth nothing negative.
LEMMA OrderSums ==
  ASSUME \A s \in Shops : bill[s] \in Bill
  PROVE  Gross \in Nat /\ Totals \in Int /\ DeliveryFees \in Nat /\ Discounts \in Int
<1>1. Gross \in Nat
  BY ShopsAreFinite, SumFunctionIsNat DEF Gross, Bill
<1>2. DeliveryFees \in Nat
  BY ShopsAreFinite, SumFunctionIsNat DEF DeliveryFees, Bill
<1>3. Totals \in Int
  BY ShopsAreFinite, SumFunctionIsInt DEF Totals, Bill
<1>4. Discounts \in Int
  BY ShopsAreFinite, SumFunctionIsInt DEF Discounts, Bill
<1>5. QED BY <1>1, <1>2, <1>3, <1>4

\* The invariant holds at first.
LEMMA PricingStarts == PricingInit => PricingInv
<1> SUFFICES ASSUME PricingInit PROVE PricingInv
  OBVIOUS
<1>1. PICK amounts \in [Shops -> Subtotals], fee \in Fees :
        bill = [s \in Shops |-> NewOrder(amounts[s], fee)]
  BY DEF PricingInit
<1>2. \A s \in Shops : /\ bill[s] \in Bill /\ OrderAddsUp(s)
                       /\ bill[s].discount = 0 /\ bill[s].feeDiscount = 0
  <2> SUFFICES ASSUME NEW s \in Shops
               PROVE  /\ bill[s] \in Bill /\ OrderAddsUp(s)
                      /\ bill[s].discount = 0 /\ bill[s].feeDiscount = 0
    OBVIOUS
  <2>1. PICK n \in Nat : n = amounts[s]
    BY PricingAssumption
  <2>2. PICK m \in Nat : m = fee
    BY PricingAssumption
  <2>3. bill[s] = NewOrder(n, m)
    BY <1>1, <2>1, <2>2
  <2>4. QED BY <2>3 DEF NewOrder, Bill, OrderAddsUp
<1>3. bill \in [Shops -> Bill]
  BY <1>1, <1>2
<1>4. PricingTypeOK
  BY <1>2, <1>3, PricingAssumption DEF PricingInit, PricingTypeOK
<1>5. ShareInv
  BY <1>2 DEF PricingInit, ShareInv
<1>6. QED BY <1>2, <1>4, <1>5 DEF PricingInv

\* An order with another total.
LEMMA WithTotal ==
  ASSUME NEW o \in Bill, NEW n \in Int, NEW q, q = [o EXCEPT !.total = n]
  PROVE  /\ q \in Bill
         /\ q.total = n
         /\ q.subtotal = o.subtotal
         /\ q.fee = o.fee
         /\ q.discount = o.discount
         /\ q.feeDiscount = o.feeDiscount
BY DEF Bill

\* An order with another discount.
LEMMA WithDiscount ==
  ASSUME NEW o \in Bill, NEW n \in Int, NEW q, q = [o EXCEPT !.discount = n]
  PROVE  /\ q \in Bill
         /\ q.total = o.total
         /\ q.subtotal = o.subtotal
         /\ q.fee = o.fee
         /\ q.discount = n
         /\ q.feeDiscount = o.feeDiscount
BY DEF Bill

\* An order with another feeDiscount.
LEMMA WithFeeDiscount ==
  ASSUME NEW o \in Bill, NEW n \in Int, NEW q, q = [o EXCEPT !.feeDiscount = n]
  PROVE  /\ q \in Bill
         /\ q.total = o.total
         /\ q.subtotal = o.subtotal
         /\ q.fee = o.fee
         /\ q.discount = o.discount
         /\ q.feeDiscount = n
BY DEF Bill

\* What a voucher takes off an order.
LEMMA VoucherTaken ==
  ASSUME PricingTypeOK, NEW order \in Bill
  PROVE  VoucherAmount(order) \in Int /\ VoucherAmount(order) <= order.subtotal
<1>1. PICK n \in Nat : n = order.subtotal
  BY DEF Bill
<1>2. PICK v \in Nat : v = voucherOf.value
  BY PricingAssumption DEF PricingTypeOK
<1>3. PICK x \in Nat : x = n * v
  OBVIOUS
<1>4. PICK r \in Int : r = Rounded(x, 100)
  BY DEF Rounded
<1>5. VoucherAmount(order) = Smaller(n, IF voucherOf.type = "PERCENTAGE" THEN r ELSE v)
  BY <1>1, <1>2, <1>3, <1>4 DEF VoucherAmount
<1>6. QED BY <1>1, <1>4, <1>5 DEF Smaller

\* The voucher, before the coupon.
LEMMA VoucherKeeps ==
  ASSUME PricingInv, PriceVoucher
  PROVE  PricingInv'
<1>0. /\ billed = -1 /\ billed' = 0 /\ bill' = [s \in Shops |-> WithVoucher(s)]
      /\ UNCHANGED <<voucherOf, couponOf, couponLeft, couponSum>>
      /\ bill \in [Shops -> Bill] /\ PricingTypeOK
  BY DEF PricingInv, PricingTypeOK, PriceVoucher
<1>1. ASSUME NEW s \in Shops
      PROVE  bill'[s] \in Bill /\ OrderAddsUp(s)' /\ (voucherOf.type = "NONE" => bill'[s] = bill[s])
  <2>1. /\ bill[s] \in Bill /\ OrderAddsUp(s) /\ bill[s].discount = 0 /\ bill[s].feeDiscount = 0
        /\ bill'[s] = WithVoucher(s)
    BY <1>0, <1>1 DEF PricingInv, PricingTypeOK
  <2>2. CASE ~VoucherIsFor(s)
    <3>1. bill'[s] = bill[s]
      BY <2>1, <2>2 DEF WithVoucher
    <3>2. QED BY <2>1, <3>1 DEF OrderAddsUp
  <2>3. CASE VoucherIsFor(s) /\ voucherOf.type = "FREE_SHIPPING"
    <3>0. PICK o : o = [bill[s] EXCEPT !.feeDiscount = bill[s].fee]
      OBVIOUS
    <3>1. bill'[s] = [o EXCEPT !.total = bill[s].subtotal]
      BY <2>1, <2>3, <3>0, Zenon DEF WithVoucher
    <3>2. /\ bill'[s] \in Bill /\ bill'[s].total = bill[s].subtotal
          /\ bill'[s].subtotal = bill[s].subtotal /\ bill'[s].fee = bill[s].fee
          /\ bill'[s].discount = 0 /\ bill'[s].feeDiscount = bill[s].fee
          /\ bill[s].subtotal \in Nat /\ bill[s].fee \in Nat
      <4>1. bill[s].fee \in Nat /\ bill[s].fee \in Int /\ bill[s].subtotal \in Nat /\ bill[s].subtotal \in Int
        BY <2>1 DEF Bill
      <4>2. /\ o \in Bill /\ o.subtotal = bill[s].subtotal /\ o.fee = bill[s].fee
            /\ o.discount = 0 /\ o.feeDiscount = bill[s].fee
        BY <2>1, <3>0, <4>1, WithFeeDiscount
      <4>3. QED BY <3>1, <4>1, <4>2, WithTotal
    <3>3. OrderAddsUp(s)'
      BY <3>2 DEF OrderAddsUp
    <3>4. QED BY <2>3, <3>2, <3>3 DEF VoucherIsFor
  <2>4. CASE VoucherIsFor(s) /\ voucherOf.type # "FREE_SHIPPING"
    <3>1. PICK v \in Int : v = VoucherAmount(bill[s]) /\ v <= bill[s].subtotal
      BY <1>0, <2>1, VoucherTaken
    <3>0. PICK o : o = [bill[s] EXCEPT !.discount = v]
      OBVIOUS
    <3>2. bill'[s] = [o EXCEPT !.total = bill[s].total - v]
      BY <2>1, <2>4, <3>1, <3>0, Zenon DEF WithVoucher
    <3>3. /\ bill'[s] \in Bill /\ bill'[s].total = bill[s].total - v
          /\ bill'[s].subtotal = bill[s].subtotal /\ bill'[s].fee = bill[s].fee
          /\ bill'[s].discount = v /\ bill'[s].feeDiscount = 0
          /\ bill[s].subtotal \in Nat /\ bill[s].fee \in Nat /\ bill[s].total \in Int
      <4>1. bill[s].fee \in Nat /\ bill[s].subtotal \in Nat /\ bill[s].total \in Int /\ bill[s].total - v \in Int
        BY <2>1, <3>1 DEF Bill
      <4>2. /\ o \in Bill /\ o.subtotal = bill[s].subtotal /\ o.fee = bill[s].fee
            /\ o.discount = v /\ o.feeDiscount = 0
        BY <2>1, <3>0, <3>1, WithDiscount
      <4>3. QED BY <3>2, <4>1, <4>2, WithTotal
    <3>4. bill[s].total = bill[s].subtotal + bill[s].fee
      BY <2>1, <3>3 DEF OrderAddsUp
    <3>5. OrderAddsUp(s)'
      BY <3>1, <3>3, <3>4 DEF OrderAddsUp
    <3>6. QED BY <2>4, <3>3, <3>5 DEF VoucherIsFor
  <2>5. QED BY <2>2, <2>3, <2>4
<1>2. bill' \in [Shops -> Bill]
  BY <1>0, <1>1
<1>3. PricingTypeOK'
  BY <1>0, <1>2, PricingAssumption DEF PricingTypeOK
<1>4. ShareInv'
  BY <1>0, <1>1 DEF PricingTypeOK, ShareInv, PlainCoupon
<1>5. QED BY <1>1, <1>3, <1>4 DEF PricingInv

\* The coupon's worth is worked out.
LEMMA CouponStarts ==
  ASSUME PricingInv, StartCoupon
  PROVE  PricingInv'
<1>0. /\ billed = 0 /\ billed' = 1 /\ UNCHANGED <<bill, voucherOf, couponOf>>
      /\ couponSum' = CouponValue /\ couponLeft' = CouponValue
      /\ PricingTypeOK /\ \A s \in Shops : bill[s] \in Bill /\ OrderAddsUp(s)
  BY DEF PricingInv, PricingTypeOK, StartCoupon
<1>1. Gross \in Nat /\ Totals \in Nat
  <2>1. \A s \in Shops : bill[s].total \in Nat
    BY <1>0 DEF Bill, OrderAddsUp
  <2>2. Totals \in Nat
    BY <2>1, ShopsAreFinite, SumFunctionIsNat DEF Totals
  <2>3. QED BY <1>0, <2>2, OrderSums
<1>2. CouponValue \in Nat
  <2>1. couponOf.value \in Nat /\ couponOf.max \in Nat
    BY <1>0, PricingAssumption DEF PricingTypeOK
  <2>2. PICK x \in Nat : x = Gross * couponOf.value
    BY <1>1, <2>1
  <2>3. Rounded(x, 100) \in Nat
    BY Division DEF Rounded
  <2>4. PICK raw \in Nat : raw = IF couponOf.type = "PERCENTAGE" THEN Rounded(Gross * couponOf.value, 100)
                                 ELSE couponOf.value
    BY <2>1, <2>2, <2>3
  <2>5. CouponValue = Smaller(Totals, IF couponOf.max = 0 THEN raw ELSE Smaller(raw, couponOf.max))
    BY <2>4 DEF CouponValue
  <2>6. QED BY <1>1, <2>1, <2>4, <2>5 DEF Smaller
<1>3. PICK c \in Nat : c = CouponValue /\ couponSum' = c /\ couponLeft' = c
  BY <1>0, <1>2
<1>4. PricingTypeOK'
  BY <1>0, <1>3, PricingAssumption DEF PricingTypeOK
<1>5. ASSUME PlainCoupon PROVE Discounts' = 0 /\ LeftIsDue'
  <2>1. \A s \in Shops : bill[s].discount = 0 /\ bill[s].feeDiscount = 0
    BY <1>0, <1>5 DEF PricingInv, ShareInv, Shops
  <2>2. Discounts = 0
    BY <2>1, ShopsAreFinite, SumFunctionZero DEF Discounts
  <2>3. Discounts' = Discounts /\ Gross' = Gross
    BY <1>0 DEF Discounts, Gross
  <2>4. Ahead' = Gross
    BY <1>0 DEF Ahead, Gross, SumFunction, Shops
  <2>5. PICK x \in Nat : x = Gross * c /\ x = c * Gross
    BY <1>1, <1>3, SMT
  <2>6. 2 * (Gross' * couponLeft') + (billed' - 1) <= 2 * (couponSum' * Ahead') + Gross' * (billed' - 1)
    BY <1>0, <1>1, <1>3, <2>3, <2>4, <2>5
  <2>7. LeftIsDue'
    BY <1>0, <2>6, PricingAssumption DEF LeftIsDue
  <2>8. QED BY <2>2, <2>3, <2>7
<1>6. ShareInv'
  <2> SUFFICES ASSUME PlainCoupon PROVE ShareInv'
    BY <1>0 DEF ShareInv, PlainCoupon
  <2>1. \A s \in Shops : bill[s].discount = 0 /\ bill[s].feeDiscount = 0
    BY <1>0 DEF PricingInv, ShareInv, Shops
  <2>2. QED BY <1>0, <1>3, <1>5, <2>1 DEF ShareInv, PlainCoupon
<1>7. QED BY <1>0, <1>4, <1>6 DEF PricingInv, OrderAddsUp

\* A share is an amount the order can bear, and of a plain coupon one that is
\* left of it.
LEMMA ShareTaken ==
  ASSUME PricingInv, NEW b \in Shops, b = billed
  PROVE  /\ Share(b) \in Int /\ Share(b) <= bill[b].total
         /\ PlainCoupon => Share(b) >= 0 /\ Share(b) <= couponLeft
<1>0. /\ Gross \in Nat /\ couponSum \in Int /\ couponLeft \in Int
      /\ bill[b].subtotal \in Nat /\ bill[b].total \in Int /\ bill[b].total >= 0
  BY OrderSums DEF PricingInv, PricingTypeOK, Bill, OrderAddsUp
<1>1. Proportional(b) \in Int
  <2>1. PICK x \in Int : x = couponSum * bill[b].subtotal
    BY <1>0
  <2>2. Gross # 0 => Rounded(x, Gross) \in Int
    BY <1>0 DEF Rounded
  <2>3. QED BY <2>1, <2>2 DEF Proportional
<1>2. Share(b) \in Int /\ Share(b) <= bill[b].total
  BY <1>0, <1>1 DEF Share, Smaller
<1>3. ASSUME PlainCoupon PROVE Share(b) >= 0 /\ Share(b) <= couponLeft
  <2>1. couponLeft >= 0 /\ couponSum \in Nat
    BY <1>0, <1>3 DEF PricingInv, ShareInv, Shops
  <2>2. Proportional(b) >= 0
    BY <1>0, <2>1, RoundedShare DEF Proportional
  <2>3. QED BY <1>0, <1>1, <2>1, <2>2 DEF Share, Smaller
<1>4. QED BY <1>2, <1>3

\* The share of an order that is not the last leaves the rest due from the
\* goods behind it.
LEMMA LeftStaysDue ==
  ASSUME NEW c \in Nat, NEW g \in Nat, c <= g, NEW n \in Nat, NEW left \in Nat,
         NEW total \in Nat, n <= total, NEW a \in Int, NEW k \in Nat,
         left = 0 \/ 2 * (g * left) + k <= 2 * (c * a) + g * k,
         left <= c,
         NEW r, r = Smaller(total, Smaller(left, IF g = 0 THEN 0 ELSE Rounded(c * n, g)))
  PROVE  left - r = 0 \/ 2 * (g * (left - r)) + (k + 1) <= 2 * (c * (a - n)) + g * (k + 1)
<1>1. CASE left = 0
  <2>1. (IF g = 0 THEN 0 ELSE Rounded(c * n, g)) \in Nat
    BY RoundedShare
  <2>2. QED BY <1>1, <2>1 DEF Smaller
<1>2. CASE left # 0
  <2>1. g \in Nat \ {0}
    BY <1>2
  <2>2. PICK q \in Nat : /\ q = Rounded(c * n, g) /\ q <= n
                         /\ 2 * (c * n) + 1 <= 2 * (g * q) + g
    BY <2>1, RoundedShare
  <2>3. r = IF left <= q THEN left ELSE q
    BY <2>1, <2>2 DEF Smaller
  <2>4. CASE left <= q
    BY <2>3, <2>4
  <2>5. CASE ~ (left <= q)
    <3>1. PICK x \in Int, y \in Int, z \in Int, u \in Int, v \in Int :
            x = g * left /\ y = g * q /\ z = c * a /\ u = c * n /\ v = g * k
      OBVIOUS
    <3>2. g * (left - q) = x - y /\ c * (a - n) = z - u /\ g * (k + 1) = v + g
      BY <3>1, SMT
    <3>3. 2 * x + k <= 2 * z + v /\ 2 * u + 1 <= 2 * y + g
      BY <1>2, <2>2, <3>1
    <3>4. 2 * (x - y) + (k + 1) <= 2 * (z - u) + (v + g)
      BY <3>3
    <3>5. r = q
      BY <2>3, <2>5
    <3>6. QED BY <3>2, <3>4, <3>5
  <2>6. QED BY <2>4, <2>5
<1>3. QED BY <1>1, <1>2

\* What is due from the goods of the last order exceeds them by half a kobo and
\* less for each order before it.
LEMMA LastIsDue ==
  ASSUME NEW c \in Nat, NEW g \in Nat \ {0}, c <= g, NEW n \in Nat, NEW left \in Nat,
         NEW k \in Nat, 2 * (g * left) + k <= 2 * (c * n) + g * k
  PROVE  left <= n \/ 2 * (left - n) <= k - 1
<1>1. PICK x \in Int, z \in Int, u \in Int, v \in Int :
        x = g * left /\ z = c * n /\ u = g * n /\ v = g * k
  OBVIOUS
<1>2. 2 * x + k <= 2 * z + v
  BY <1>1
<1>3. z <= u
  BY <1>1, SMT
<1>4. 2 * (x - u) + k <= v
  BY <1>2, <1>3
<1>5. PICK d \in Int : d = left - n
  OBVIOUS
<1>6. x - u = g * d /\ g * d \in Int
  BY <1>1, <1>5, SMT
<1>7. ASSUME 2 * d >= k + 1 PROVE FALSE
  <2>1. g * (2 * d) >= g * (k + 1)
    BY <1>7, SMT
  <2>2. g * (2 * d) = 2 * (g * d) /\ g * (k + 1) = v + g
    BY <1>1, SMT
  <2>3. QED BY <1>4, <1>6, <2>1, <2>2
<1>8. ASSUME 2 * d = k, d > 0 PROVE FALSE
  <2>1. v = 2 * (g * d)
    BY <1>1, <1>8, SMT
  <2>2. QED BY <1>4, <1>6, <1>8, <2>1
<1>9. QED BY <1>5, <1>7, <1>8

\* What one turn of the loop writes.
LEMMA TurnWrites ==
  ASSUME PricingInv, ShareCoupon, NEW b, b = billed, NEW r, r = Share(b)
  PROVE  /\ b \in Shops /\ r \in Int
         /\ bill' \in [Shops -> Bill]
         /\ \A s \in Shops \ {b} : bill'[s] = bill[s]
         /\ bill'[b].subtotal = bill[b].subtotal /\ bill'[b].fee = bill[b].fee
         /\ bill'[b].feeDiscount = bill[b].feeDiscount
         /\ bill'[b].discount = bill[b].discount + r
         /\ bill'[b].total = bill[b].total - r
<1>1. b \in Shops /\ r \in Int /\ bill \in [Shops -> Bill]
  BY ShareTaken DEF PricingInv, PricingTypeOK, ShareCoupon
<1>2. PICK m : m = [bill EXCEPT ![b].discount = @ + r]
  OBVIOUS
<1>3. bill' = [m EXCEPT ![b].total = bill[b].total - r]
  <2>1. bill' = [m EXCEPT ![b].total = @ - r] \/ bill' = [m EXCEPT ![b].total = bill[b].total - r]
    BY <1>2, Zenon DEF ShareCoupon
  <2>2. QED BY <1>1, <1>2, <2>1 DEF Bill
<1>4. PICK d \in Int, t \in Int : d = bill[b].discount + r /\ t = bill[b].total - r
  BY <1>1 DEF Bill
<1>5. PICK o : o = [bill[b] EXCEPT !.discount = d]
  OBVIOUS
<1>6. m = [bill EXCEPT ![b] = o]
  BY <1>1, <1>2, <1>4, <1>5
<1>7. PICK q : q = [o EXCEPT !.total = t]
  OBVIOUS
<1>8. bill' = [bill EXCEPT ![b] = q]
  BY <1>1, <1>3, <1>4, <1>6, <1>7
<1>9. /\ o \in Bill /\ o.total = bill[b].total /\ o.subtotal = bill[b].subtotal
      /\ o.fee = bill[b].fee /\ o.discount = d /\ o.feeDiscount = bill[b].feeDiscount
  BY <1>1, <1>5, WithDiscount
<1>10. /\ q \in Bill /\ q.total = t /\ q.subtotal = o.subtotal
       /\ q.fee = o.fee /\ q.discount = o.discount /\ q.feeDiscount = o.feeDiscount
  BY <1>7, <1>9, WithTotal
<1>11. bill' \in [Shops -> Bill] /\ bill'[b] = q /\ \A s \in Shops \ {b} : bill'[s] = bill[s]
  BY <1>1, <1>8, <1>10
<1>12. QED BY <1>1, <1>4, <1>9, <1>10, <1>11

\* The coupon reaches the next order.
LEMMA ShareKeeps ==
  ASSUME PricingInv, ShareCoupon
  PROVE  PricingInv'
<1>1. PICK b, r : b = billed /\ r = Share(b)
  OBVIOUS
<1>2. /\ b \in Shops /\ r \in Int /\ bill' \in [Shops -> Bill]
      /\ \A s \in Shops \ {b} : bill'[s] = bill[s]
      /\ bill'[b].subtotal = bill[b].subtotal /\ bill'[b].fee = bill[b].fee
      /\ bill'[b].feeDiscount = bill[b].feeDiscount
      /\ bill'[b].discount = bill[b].discount + r
      /\ bill'[b].total = bill[b].total - r
  BY <1>1, TurnWrites
<1>3. r <= bill[b].total /\ (PlainCoupon => r >= 0 /\ r <= couponLeft)
  BY <1>1, <1>2, ShareTaken
<1>4. /\ billed' = b + 1 /\ couponLeft' = couponLeft - r
      /\ UNCHANGED <<voucherOf, couponOf, couponSum>>
      /\ couponSum \in Int /\ couponLeft \in Int /\ bill \in [Shops -> Bill]
      /\ ShopCount \in Nat \ {0} /\ b \in 1..ShopCount
  BY <1>1, <1>2, PricingAssumption DEF ShareCoupon, PricingInv, PricingTypeOK, Shops
<1>5. PricingTypeOK'
  <2>1. billed' \in -1..(ShopCount + 1) /\ billed' # -1 /\ couponLeft' \in Int
    BY <1>2, <1>4
  <2>2. QED BY <1>2, <1>4, <2>1 DEF PricingInv, PricingTypeOK
<1>6. ASSUME NEW s \in Shops PROVE OrderAddsUp(s)'
  <2>1. OrderAddsUp(s) /\ bill[s] \in Bill
    BY <1>4 DEF PricingInv
  <2>2. CASE s = b
    BY <1>2, <1>3, <2>1, <2>2 DEF OrderAddsUp, Bill
  <2>3. CASE s # b
    BY <1>2, <2>1, <2>3 DEF OrderAddsUp
  <2>4. QED BY <2>2, <2>3
<1>7. ASSUME PlainCoupon PROVE ShareInv'
  <2>1. /\ \A s \in Shops : bill[s].feeDiscount = 0 /\ bill[s].discount >= 0
                            /\ (s >= b => bill[s].discount = 0)
        /\ couponLeft >= 0 /\ couponSum >= couponLeft /\ Discounts = couponSum - couponLeft
        /\ couponSum <= Gross => LeftIsDue
    BY <1>1, <1>4, <1>7 DEF PricingInv, ShareInv
  <2>2. \A s \in Shops : bill'[s].feeDiscount = 0 /\ bill'[s].discount >= 0
                         /\ (s >= b + 1 => bill'[s].discount = 0)
    <3> SUFFICES ASSUME NEW s \in Shops
                 PROVE  bill'[s].feeDiscount = 0 /\ bill'[s].discount >= 0
                        /\ (s >= b + 1 => bill'[s].discount = 0)
      OBVIOUS
    <3>1. CASE s = b
      BY <1>2, <1>3, <1>4, <1>7, <2>1, <3>1
    <3>2. CASE s # b
      BY <1>2, <1>4, <2>1, <3>2 DEF Shops
    <3>3. QED BY <3>1, <3>2
  <2>3. Discounts' = Discounts + r
    <3>1. PICK f : f = [s \in Shops |-> bill[s].discount + bill[s].feeDiscount]
      OBVIOUS
    <3>2. PICK h : h = [s \in Shops |-> bill'[s].discount + bill'[s].feeDiscount]
      OBVIOUS
    <3>3. f \in [Shops -> Int]
      BY <1>4, <3>1 DEF Bill
    <3>4. h \in [Shops -> Int]
      BY <1>2, <3>2 DEF Bill
    <3>5. \A s \in Shops \ {b} : f[s] = h[s]
      BY <1>2, <3>1, <3>2
    <3>6. SumFunction(h) = SumFunction(f) - f[b] + h[b]
      <4>1. b \in Shops /\ IsFiniteSet(Shops)
        BY <1>2, ShopsAreFinite
      <4>2. QED BY <3>3, <3>4, <3>5, <4>1, SumFunctionDiffersAt
    <3>7. f[b] = 0 /\ h[b] = r
      BY <1>2, <1>4, <2>1, <3>1, <3>2
    <3>8. SumFunction(f) \in Int
      BY <3>3, ShopsAreFinite, SumFunctionIsInt
    <3>9. SumFunction(h) = SumFunction(f) + r
      BY <1>2, <3>6, <3>7, <3>8
    <3>10. QED BY <3>1, <3>2, <3>9 DEF Discounts
  <2>4. /\ couponLeft' >= 0 /\ couponSum' >= couponLeft'
        /\ Discounts' = couponSum' - couponLeft'
    BY <1>2, <1>3, <1>4, <1>7, <2>1, <2>3
  <2>5. PICK goods : goods = [s \in Shops |-> bill[s].subtotal]
    OBVIOUS
  <2>6. [s \in Shops |-> bill'[s].subtotal] = goods
    BY <1>2, <2>5
  <2>7. Gross = SumFunction(goods) /\ Gross' = SumFunction(goods)
        /\ Ahead = SumFunctionOnSet(goods, b..ShopCount)
        /\ Ahead' = SumFunctionOnSet(goods, (b + 1)..ShopCount)
    BY <1>1, <1>4, <2>5, <2>6 DEF Gross, Ahead
  <2>8. \A s \in Shops : goods[s] \in Int
    BY <1>4, <2>5 DEF Bill
  <2>9. SumFunctionOnSet(goods, b..ShopCount) \in Int
    BY <1>2, <2>8, ShopsAreFinite, SumIsInt
  <2>10. Gross \in Nat /\ bill[b].subtotal \in Nat /\ bill[b].total \in Nat
         /\ bill[b].subtotal <= bill[b].total
    <3>1. bill[b] \in Bill /\ OrderAddsUp(b) /\ bill[b].discount = 0 /\ bill[b].feeDiscount = 0
      BY <1>2, <1>4, <2>1 DEF PricingInv
    <3>2. QED BY <1>4, <3>1, OrderSums DEF Bill, OrderAddsUp
  <2>11. ASSUME couponSum <= Gross PROVE LeftIsDue'
    <3>1. couponLeft = 0 \/ 2 * (Gross * couponLeft) + (b - 1) <= 2 * (couponSum * Ahead) + Gross * (b - 1)
      BY <1>1, <1>4, <2>1, <2>11 DEF LeftIsDue
    <3>2. CASE b < ShopCount
      <4>1. r = Smaller(bill[b].total, Smaller(couponLeft, IF Gross = 0 THEN 0
                                               ELSE Rounded(couponSum * bill[b].subtotal, Gross)))
        <5>1. b # ShopCount
          BY <1>4, <3>2
        <5>2. QED BY <1>1, <5>1 DEF Share, Proportional
      <4>2. b..ShopCount = ((b + 1)..ShopCount) \cup {b} /\ b \notin (b + 1)..ShopCount
            /\ IsFiniteSet((b + 1)..ShopCount) /\ (b + 1)..ShopCount \subseteq Shops
        <5>1. PICK m \in Int : m = b + 1
          BY <1>4
        <5>2. IsFiniteSet(m..ShopCount)
          BY <1>4, FS_Interval
        <5>3. QED BY <1>4, <3>2, <5>1, <5>2 DEF Shops
      <4>3. Ahead = goods[b] + SumFunctionOnSet(goods, (b + 1)..ShopCount)
        BY <1>2, <2>7, <2>8, <4>2, SumInsert
      <4>4. SumFunctionOnSet(goods, (b + 1)..ShopCount) \in Int
        BY <2>8, <4>2, SumIsInt
      <4>5. Ahead \in Int /\ Ahead' = Ahead - bill[b].subtotal
        BY <1>2, <2>5, <2>7, <2>9, <2>10, <4>3, <4>4
      <4>6. PICK k \in Nat : k = b - 1
        BY <1>4
      <4>7. couponSum \in Nat /\ couponLeft \in Nat
        BY <1>4, <2>1
      <4>8. couponLeft - r = 0 \/ 2 * (Gross * (couponLeft - r)) + (k + 1)
                                    <= 2 * (couponSum * (Ahead - bill[b].subtotal)) + Gross * (k + 1)
        BY <2>1, <2>10, <2>11, <3>1, <4>1, <4>5, <4>6, <4>7, LeftStaysDue
      <4>9. k + 1 = billed' - 1 /\ billed' <= ShopCount
        BY <1>4, <3>2, <4>6
      <4>10. QED BY <1>4, <2>7, <4>5, <4>8, <4>9 DEF LeftIsDue
    <3>3. CASE b = ShopCount
      <4>1. r = Smaller(bill[b].total, couponLeft)
        BY <1>1, <3>3 DEF Share
      <4>2. b..ShopCount = {} \cup {b}
        BY <1>4, <3>3
      <4>3. Ahead = goods[b] + SumFunctionOnSet(goods, {})
        BY <1>2, <2>7, <2>8, <4>2, FS_EmptySet, SumInsert
      <4>4. Ahead = bill[b].subtotal
        BY <1>2, <2>5, <2>10, <4>3, SumEmpty
      <4>5. PICK k \in Nat : k = b - 1
        BY <1>4
      <4>6. couponSum \in Nat /\ couponLeft \in Nat
        BY <1>4, <2>1
      <4>7. couponLeft - r = 0 \/ (bill[b].total - r = 0 /\ 2 * (couponLeft - r) <= k - 1)
        <5>1. couponLeft = 0 \/ 2 * (Gross * couponLeft) + k
                                  <= 2 * (couponSum * bill[b].subtotal) + Gross * k
          BY <3>1, <4>4, <4>5
        <5>2. couponLeft <= couponSum
          BY <2>1, <4>6
        <5>3. CASE couponLeft <= bill[b].total
          BY <2>10, <4>1, <4>6, <5>3 DEF Smaller
        <5>4. CASE ~ (couponLeft <= bill[b].total)
          <6>1. couponLeft # 0 /\ Gross # 0 /\ r = bill[b].total
            BY <2>10, <2>11, <4>1, <4>6, <5>2, <5>4 DEF Smaller
          <6>2. 2 * (Gross * couponLeft) + k <= 2 * (couponSum * bill[b].subtotal) + Gross * k
            BY <5>1, <6>1
          <6>3. couponLeft <= bill[b].subtotal \/ 2 * (couponLeft - bill[b].subtotal) <= k - 1
            BY <2>10, <2>11, <4>5, <4>6, <6>1, <6>2, LastIsDue
          <6>4. QED BY <2>10, <4>5, <4>6, <5>4, <6>1, <6>3
        <5>5. QED BY <5>3, <5>4
      <4>8. billed' > ShopCount /\ k - 1 = ShopCount - 2
        BY <1>4, <3>3, <4>5
      <4>9. QED BY <1>2, <1>4, <3>3, <4>7, <4>8 DEF LeftIsDue
    <3>4. QED BY <1>4, <3>2, <3>3
  <2>12. QED BY <1>4, <2>2, <2>4, <2>7, <2>11 DEF ShareInv
<1>8. ShareInv'
  BY <1>4, <1>7 DEF ShareInv, PlainCoupon
<1>9. QED BY <1>5, <1>6, <1>8 DEF PricingInv

\* Whatever the prices, the fee, the voucher and the coupon, the quote adds up,
\* no order is negative, and the coupon is given in full but for what rounding
\* leaves to a last order that has come down to nothing.
THEOREM QuoteCorrect == PricingSpec => []QuoteIsExact
<1>1. PricingInv /\ [PricingNext]_pricingVars => PricingInv'
  <2> SUFFICES ASSUME PricingInv, [PricingNext]_pricingVars PROVE PricingInv'
    OBVIOUS
  <2>1. CASE UNCHANGED pricingVars
    <3>1. /\ Gross' = Gross /\ Ahead' = Ahead /\ Discounts' = Discounts
          /\ PlainCoupon' = PlainCoupon
      BY <2>1 DEF pricingVars, Gross, Ahead, Discounts, PlainCoupon
    <3>2. LeftIsDue' = LeftIsDue
      BY <2>1, <3>1 DEF pricingVars, LeftIsDue
    <3>3. ShareInv'
      BY <2>1, <3>1, <3>2 DEF pricingVars, PricingInv, ShareInv
    <3>4. QED BY <2>1, <3>3 DEF pricingVars, PricingInv, PricingTypeOK, OrderAddsUp
  <2>2. CASE PricingNext
    BY <2>2, VoucherKeeps, CouponStarts, ShareKeeps DEF PricingNext
  <2>3. QED BY <2>1, <2>2
<1>2. PricingInv => QuoteIsExact
  <2> SUFFICES ASSUME PricingInv PROVE QuoteIsExact
    OBVIOUS
  <2>1. \A s \in Shops : bill[s] \in Bill /\ OrderAddsUp(s)
    BY DEF PricingInv, PricingTypeOK
  <2>2. Totals = Gross + DeliveryFees - Discounts
    <3>1. PICK goods, fees, off, all, gross :
            /\ goods = [s \in Shops |-> bill[s].subtotal]
            /\ fees = [s \in Shops |-> bill[s].fee]
            /\ off = [s \in Shops |-> bill[s].discount + bill[s].feeDiscount]
            /\ all = [s \in Shops |-> bill[s].total]
            /\ gross = [s \in Shops |-> bill[s].subtotal + bill[s].fee]
      OBVIOUS
    <3>2. \A s \in Shops : /\ goods[s] \in Int /\ fees[s] \in Int /\ off[s] \in Int /\ all[s] \in Int
                           /\ gross[s] = goods[s] + fees[s] /\ gross[s] = all[s] + off[s]
      BY <2>1, <3>1 DEF Bill, OrderAddsUp
    <3>3. SumFunctionOnSet(gross, Shops) = SumFunctionOnSet(goods, Shops) + SumFunctionOnSet(fees, Shops)
      BY <3>2, ShopsAreFinite, SumOfSums
    <3>4. SumFunctionOnSet(gross, Shops) = SumFunctionOnSet(all, Shops) + SumFunctionOnSet(off, Shops)
      BY <3>2, ShopsAreFinite, SumOfSums
    <3>5. /\ Totals = SumFunctionOnSet(all, Shops) /\ Gross = SumFunctionOnSet(goods, Shops)
          /\ DeliveryFees = SumFunctionOnSet(fees, Shops) /\ Discounts = SumFunctionOnSet(off, Shops)
      BY <3>1 DEF Totals, Gross, DeliveryFees, Discounts, SumFunction
    <3>6. Gross \in Nat /\ Totals \in Int /\ DeliveryFees \in Nat /\ Discounts \in Int
      BY <2>1, OrderSums
    <3>7. QED BY <3>3, <3>4, <3>5, <3>6
  <2>3. QuoteAddsUp
    BY <2>1, <2>2 DEF QuoteAddsUp, OrderAddsUp
  <2>4. ASSUME Quoted, PlainCoupon, couponSum <= Gross
        PROVE  LET lost == couponSum - Discounts IN
               \/ lost = 0
               \/ lost > 0 /\ bill[ShopCount].total = 0 /\ 2 * lost <= ShopCount - 2
    <3>1. billed > ShopCount /\ billed > 0
      BY <2>4, PricingAssumption DEF PricingInv, PricingTypeOK, Quoted, PlainCoupon
    <3>2. /\ couponLeft >= 0 /\ Discounts = couponSum - couponLeft /\ LeftIsDue
          /\ couponLeft \in Int /\ couponSum \in Int
      BY <2>4, <3>1 DEF PricingInv, PricingTypeOK, ShareInv
    <3>3. couponSum - Discounts = couponLeft
      BY <3>2
    <3>4. couponLeft = 0 \/ (bill[ShopCount].total = 0 /\ 2 * couponLeft <= ShopCount - 2)
      BY <3>1, <3>2, PricingAssumption DEF LeftIsDue, PricingInv, PricingTypeOK
    <3>5. QED BY <3>2, <3>3, <3>4
  <2>5. CouponInFull
    BY <2>4 DEF CouponInFull, PlainCoupon
  <2>6. QED BY <2>3, <2>5 DEF QuoteIsExact
<1>3. QED BY PricingStarts, <1>1, <1>2, PTL DEF PricingSpec

-----------------------------------------------------------------------------
(***************************************************************************)
(* Rewards.                                                                *)
(***************************************************************************)
Dealer == [step: {"shut", "complete", "redeem", "voucher", "referral", "code",
                  "qualify"},
           item: Vouchers \cup {"none"}, amount: Nat,
           rows: SUBSET (Purchases \cup Friends \cup (Purchases \X Nat)), late: BOOLEAN]

Claimed == {f \in Friends : referral[f] = "CLAIMED"}
Redeemed == SumFunction([p \in Purchases |-> earned[p].redeemed])
\* The referral rewards that have reached the wallet.
ReferralsPaid == Cardinality(Claimed) + SumFunction(requalified)

RewardsTypeOK ==
  /\ earned \in [Purchases -> [amount: Nat, redeemed: Nat]]
  /\ completed \subseteq Purchases /\ owned \subseteq Vouchers
  /\ points \in Int /\ credit \in Int /\ collisions \in Nat
  /\ referral \in [Friends -> {"PENDING", "QUALIFIED", "CLAIMED"}]
  /\ counter \in [Counters -> Dealer]
  /\ requalified \in [Friends -> Nat]

\* What the handler of a redemption is about to write: no row beyond what it
\* holds, and together the amount more than what the rows say.
Redeems(rows, amount) ==
  \E v \in [Purchases -> Nat] :
    /\ rows = {<<p, v[p]>> : p \in Purchases}
    /\ \A p \in Purchases : v[p] <= earned[p].amount
    /\ SumFunction(v) = Redeemed + amount

\* What a handler has read is still so, or somebody has noted that it is not.
DealHolds(k) ==
  /\ k.step = "complete" => \E p \in Purchases : k.rows = {p}
  /\ k.step = "redeem" => Redeems(k.rows, k.amount)
  /\ k.step = "referral" => k.rows \subseteq Friends /\ \A f \in k.rows : referral[f] = "QUALIFIED"
  /\ k.step = "voucher" => k.item \in Vouchers /\ (k.late \/ points >= PointsCost)
  /\ k.step = "code" => code \/ k.amount <= collisions
  /\ k.step = "qualify" => \E f \in Friends : k.rows = {f}

\* The row of the user is locked by one handler at a time.
OneHoldsUser ==
  \A g, h \in Counters :
    counter[g].step \in {"redeem", "referral"} /\ counter[h].step \in {"redeem", "referral"} => g = h

RewardsInv ==
  /\ RewardsTypeOK
  /\ \A h \in Counters : DealHolds(counter[h])
  /\ OneHoldsUser
  /\ credit = Redeemed + FriendReward * ReferralsPaid
  /\ \A p \in Purchases : earned[p].redeemed <= earned[p].amount /\ earned[p].amount <= Cashback
  /\ PointsAddUp
  /\ collisions <= Collisions
  /\ CodeFailureHasCause

\* A handler with nothing to do, and what a request makes of it.
LEMMA ShutDealer ==
  /\ Shut \in Dealer /\ Shut.step = "shut" /\ Shut.item = "none" /\ Shut.amount = 0
  /\ Shut.rows = {} /\ Shut.late = FALSE
BY DEF Shut, Dealer

\* The invariant holds at first.
LEMMA RewardsStart == RewardsInit => RewardsInv
<1> SUFFICES ASSUME RewardsInit PROVE RewardsInv
  OBVIOUS
<1>1. \A p \in Purchases : earned[p].amount = 0 /\ earned[p].redeemed = 0
  BY DEF RewardsInit
<1>2. \A h \in Counters : counter[h] = Shut
  BY DEF RewardsInit
<1>3. RewardsTypeOK
  BY ShutDealer DEF RewardsInit, RewardsTypeOK
<1>4. \A h \in Counters : DealHolds(counter[h])
  BY <1>2, ShutDealer DEF DealHolds
<1>5. OneHoldsUser
  BY <1>2, ShutDealer DEF OneHoldsUser
<1>6. Redeemed = 0
  <2>1. PICK f : f = [p \in Purchases |-> earned[p].redeemed]
    OBVIOUS
  <2>2. f \in [Purchases -> Int] /\ \A p \in Purchases : f[p] = 0
    BY <1>1, <2>1
  <2>3. QED BY <2>1, <2>2, RewardsAssumption, SumFunctionZero DEF Redeemed
<1>7. ReferralsPaid = 0 /\ FriendReward * 0 = 0
  <2>1. Claimed = {} /\ Cardinality(Claimed) = 0
    BY FS_EmptySet DEF RewardsInit, Claimed
  <2>2. requalified \in [Friends -> Int] /\ \A f \in Friends : requalified[f] = 0
    BY DEF RewardsInit
  <2>3. SumFunction(requalified) = 0
    BY <2>2, RewardsAssumption, SumFunctionZero
  <2>4. QED BY <2>1, <2>3, RewardsAssumption DEF ReferralsPaid
<1>8. credit = Redeemed + FriendReward * ReferralsPaid
  BY <1>6, <1>7 DEF RewardsInit
<1>9. PointsAddUp
  <2>1. Cardinality(completed) = 0 /\ Cardinality(owned) = 0 /\ points = 0
    BY FS_EmptySet DEF RewardsInit
  <2>2. PointsEarned * 0 = 0 /\ PointsCost * 0 = 0
    BY RewardsAssumption
  <2>3. QED BY <2>1, <2>2 DEF PointsAddUp
<1>10. \A p \in Purchases : earned[p].redeemed <= earned[p].amount /\ earned[p].amount <= Cashback
  BY <1>1, RewardsAssumption
<1>11. collisions <= Collisions /\ CodeFailureHasCause
  BY RewardsAssumption DEF RewardsInit, CodeFailureHasCause
<1>12. QED BY <1>3, <1>4, <1>5, <1>8, <1>9, <1>10, <1>11 DEF RewardsInv

\* The sum of what redemptions took is a number.
LEMMA RedeemedIsNat ==
  ASSUME RewardsTypeOK
  PROVE  /\ Redeemed \in Nat /\ Cardinality(Claimed) \in Nat /\ IsFiniteSet(Claimed)
         /\ SumFunction(requalified) \in Nat
         /\ ReferralsPaid \in Nat /\ FriendReward * ReferralsPaid \in Nat
<1>1. Redeemed \in Nat
  BY RewardsAssumption, SumFunctionIsNat DEF RewardsTypeOK, Redeemed
<1>2. Cardinality(Claimed) \in Nat /\ IsFiniteSet(Claimed)
  BY RewardsAssumption, FS_Subset, FS_CardinalityType DEF Claimed
<1>3. SumFunction(requalified) \in Nat
  BY RewardsAssumption, SumFunctionIsNat DEF RewardsTypeOK
<1>4. QED BY <1>1, <1>2, <1>3, RewardsAssumption DEF ReferralsPaid

\* A handler turns to something else.
LEMMA DealerMoves ==
  ASSUME RewardsInv, NEW h \in Counters, NEW k \in Dealer, counter' = [counter EXCEPT ![h] = k]
  PROVE  /\ counter' \in [Counters -> Dealer] /\ counter'[h] = k
         /\ \A g \in Counters \ {h} : counter'[g] = counter[g]
BY DEF RewardsInv, RewardsTypeOK

\* A request that has been read and writes nothing yet.
LEMMA ReadKeeps ==
  ASSUME RewardsInv, NEW h \in Counters, NEW k \in Dealer, DealHolds(k),
         UserUnlocked \/ k.step \notin {"redeem", "referral"},
         counter' = [counter EXCEPT ![h] = k],
         UNCHANGED <<earned, completed, points, owned, referral, credit, code, collisions, clashes, requalified>>
  PROVE  RewardsInv'
<1>1. /\ counter' \in [Counters -> Dealer] /\ counter'[h] = k
      /\ \A g \in Counters \ {h} : counter'[g] = counter[g]
  BY DealerMoves
<1>2. ASSUME NEW g \in Counters PROVE DealHolds(counter[g])'
  <2>1. CASE g = h
    BY <1>1, <2>1 DEF DealHolds, Redeems, Redeemed
  <2>2. CASE g # h
    <3>1. DealHolds(counter[g]) /\ counter'[g] = counter[g] /\ Redeemed' = Redeemed
      BY <1>1, <2>2 DEF RewardsInv, Redeemed
    <3>2. QED BY <3>1 DEF DealHolds, Redeems
  <2>3. QED BY <2>1, <2>2
<1>3. OneHoldsUser'
  BY <1>1 DEF RewardsInv, OneHoldsUser, UserUnlocked
<1>4. QED
  BY <1>1, <1>2, <1>3 DEF RewardsInv, RewardsTypeOK, Redeemed, ReferralsPaid, Claimed, PointsAddUp, CodeFailureHasCause

\* A handler that has finished without writing.
LEMMA DoneKeeps ==
  ASSUME RewardsInv, NEW h \in Counters, Done(h),
         UNCHANGED <<earned, completed, points, owned, referral, credit, code, collisions, clashes, requalified>>
  PROVE  RewardsInv'
<1>1. DealHolds(Shut)
  BY ShutDealer DEF DealHolds
<1>2. QED BY <1>1, ShutDealer, ReadKeeps DEF Done

-----------------------------------------------------------------------------
\* What the loop takes of x in S, where y holds f[y].
TakenOf(f, S, amount, x) ==
  LET before == SumFunctionOnSet(f, {y \in S : y < x}) IN
  IF amount <= before THEN 0 ELSE IF amount - before <= f[x] THEN amount - before ELSE f[x]

\* The loop of redeem: taken in order, rows give the whole amount, or all they have.
LEMMA TakenInOrder ==
  ASSUME NEW S, IsFiniteSet(S), \A x \in S : x \in Int,
         NEW f, \A x \in S : f[x] \in Nat, NEW amount \in Nat,
         NEW take, \A x \in S : take[x] = TakenOf(f, S, amount, x)
  PROVE  /\ \A x \in S : take[x] \in Nat /\ take[x] <= f[x]
         /\ amount <= SumFunctionOnSet(f, S) => SumFunctionOnSet(take, S) = amount
<1> DEFINE sum(U) == SumFunctionOnSet(f, U)
           taken(U) == SumFunctionOnSet(take, U)
           First(U) == U \subseteq S /\ \A x \in U, y \in S : y < x => y \in U
           least(n) == IF amount <= n THEN amount ELSE n
           B == {U \in SUBSET S : First(U) /\ taken(U) # least(sum(U))}
<1>1. \A U : U \subseteq S => sum(U) \in Nat /\ IsFiniteSet(U)
  BY FS_Subset, SumIsNat
<1>2. ASSUME NEW x \in S PROVE take[x] \in Nat /\ take[x] <= f[x]
  <2>1. PICK n \in Nat : n = sum({y \in S : y < x})
    BY <1>1
  <2>2. take[x] = IF amount <= n THEN 0 ELSE IF amount - n <= f[x] THEN amount - n ELSE f[x]
    BY <2>1 DEF TakenOf
  <2>3. QED BY <2>2
<1>3. ASSUME B # {} PROVE FALSE
  <2>1. PICK T \in B : \A W \in B : W \subseteq T => W = T
    <3>1. B \subseteq SUBSET S
      OBVIOUS
    <3> HIDE DEF B
    <3>2. QED BY <1>3, <3>1, MinimalSubset
  <2>2. T \subseteq S /\ First(T) /\ taken(T) # least(sum(T)) /\ IsFiniteSet(T)
    BY <1>1
  <2>3. T # {}
    BY <2>2, SumEmpty
  <2>4. PICK m \in T : \A x \in T : x <= m
    BY <2>2, <2>3, LargestExists
  <2> DEFINE R == T \ {m}
  <2>5. R \subseteq S /\ R # T /\ m \in S /\ m \in Int
    BY <2>2
  <2>6. {y \in S : y < m} = R
    BY <2>2, <2>4
  <2>7. First(R)
    BY <2>2, <2>4, <2>5
  <2>8. taken(R) = least(sum(R))
    BY <2>1, <2>5, <2>7
  <2>9. take[m] = IF amount <= sum(R) THEN 0
                  ELSE IF amount - sum(R) <= f[m] THEN amount - sum(R) ELSE f[m]
    BY <2>5, <2>6 DEF TakenOf
  <2>10. sum(T) = f[m] + sum(R) /\ taken(T) = take[m] + taken(R)
    BY <1>2, <2>2, SumRemove
  <2>11. sum(R) \in Nat /\ f[m] \in Nat
    BY <1>1, <2>5
  <2>12. QED
    <3> HIDE DEF R, sum, taken
    <3>1. QED BY <2>2, <2>8, <2>9, <2>10, <2>11
<1>4. taken(S) = least(sum(S))
  BY <1>3
<1>5. QED BY <1>2, <1>4

\* The requests that read first.
LEMMA DealsBegin ==
  ASSUME RewardsInv, NEW h \in Counters,
         \/ \E p \in Purchases : CompleteRead(h, p)
         \/ \E v \in Vouchers : ClaimVoucherRead(h, v)
         \/ \E f \in Friends : FriendCompleteRead(h, f)
         \/ ClaimReferralRead(h) \/ CodeRead(h)
  PROVE  RewardsInv'
<1>0. UNCHANGED <<earned, completed, points, owned, referral, credit, code, collisions, clashes, requalified>>
  BY DEF CompleteRead, FriendCompleteRead, ClaimVoucherRead, ClaimReferralRead, CodeRead
<1>1. ASSUME NEW p \in Purchases, CompleteRead(h, p) PROVE RewardsInv'
  <2>1. PICK k : k = [Shut EXCEPT !.step = "complete", !.rows = {p}]
    OBVIOUS
  <2>2. k \in Dealer /\ k.step = "complete" /\ k.rows = {p}
    BY <2>1 DEF Shut, Dealer
  <2>3. counter' = [counter EXCEPT ![h] = k]
    BY <1>1, <2>1 DEF CompleteRead, Deal
  <2>4. DealHolds(k)
    BY <1>1, <2>2 DEF DealHolds
  <2>5. QED BY <1>0, <2>2, <2>3, <2>4, ReadKeeps
<1>2. ASSUME NEW v \in Vouchers, ClaimVoucherRead(h, v) PROVE RewardsInv'
  <2>1. PICK k : k = [Shut EXCEPT !.step = "voucher", !.item = v]
    OBVIOUS
  <2>2. k \in Dealer /\ k.step = "voucher" /\ k.item = v
    BY <2>1 DEF Shut, Dealer
  <2>3. counter' = [counter EXCEPT ![h] = k] /\ points >= PointsCost
    BY <1>2, <2>1 DEF ClaimVoucherRead, Affordable, Deal
  <2>4. DealHolds(k)
    BY <1>2, <2>2, <2>3 DEF DealHolds
  <2>5. QED BY <1>0, <2>2, <2>3, <2>4, ReadKeeps
<1>3. ASSUME ClaimReferralRead(h) PROVE RewardsInv'
  <2>1. PICK s \in SUBSET Friends : s = {f \in Friends : referral[f] = "QUALIFIED"}
    OBVIOUS
  <2>2. PICK k : k = [Shut EXCEPT !.step = "referral", !.rows = s]
    OBVIOUS
  <2>3. k \in Dealer /\ k.step = "referral" /\ k.rows = s
    BY <2>1, <2>2 DEF Shut, Dealer
  <2>4. counter' = [counter EXCEPT ![h] = k] /\ UserUnlocked
    BY <1>3, <2>1, <2>2 DEF ClaimReferralRead, Deal
  <2>5. DealHolds(k)
    BY <2>1, <2>3 DEF DealHolds
  <2>6. QED BY <1>0, <2>3, <2>4, <2>5, ReadKeeps
<1>4. ASSUME CodeRead(h) PROVE RewardsInv'
  <2>1. PICK k : k = [Shut EXCEPT !.step = "code"]
    OBVIOUS
  <2>2. k \in Dealer /\ k.step = "code" /\ k.amount = 0
    BY <2>1 DEF Shut, Dealer
  <2>3. counter' = [counter EXCEPT ![h] = k]
    BY <1>4, <2>1 DEF CodeRead, Deal
  <2>4. DealHolds(k)
    BY <2>2 DEF DealHolds, RewardsInv, RewardsTypeOK
  <2>5. QED BY <1>0, <2>2, <2>3, <2>4, ReadKeeps
<1>5. ASSUME NEW f \in Friends, FriendCompleteRead(h, f) PROVE RewardsInv'
  <2>1. PICK k : k = [Shut EXCEPT !.step = "qualify", !.rows = {f}]
    OBVIOUS
  <2>2. k \in Dealer /\ k.step = "qualify" /\ k.rows = {f}
    BY <2>1 DEF Shut, Dealer
  <2>3. counter' = [counter EXCEPT ![h] = k]
    BY <1>5, <2>1 DEF FriendCompleteRead, Deal
  <2>4. DealHolds(k)
    BY <1>5, <2>2 DEF DealHolds
  <2>5. QED BY <1>0, <2>2, <2>3, <2>4, ReadKeeps
<1>6. QED BY <1>1, <1>2, <1>3, <1>4, <1>5

\* A redemption reads the rows and works out what each of them gives.
LEMMA RedeemBegins ==
  ASSUME RewardsInv, NEW h \in Counters, NEW amount \in 1..Available(Purchases), RedeemRead(h, amount)
  PROVE  RewardsInv'
<1>0. UNCHANGED <<earned, completed, points, owned, referral, credit, code, collisions, clashes, requalified>>
      /\ UserUnlocked
  BY DEF RedeemRead
<1>1. PICK f : f = [p \in Purchases |-> Balance(p)]
  OBVIOUS
<1>2. PICK take : take = [p \in Purchases |-> Applied(p, amount)]
  OBVIOUS
<1>3. \A p \in Purchases : /\ earned[p].amount \in Nat /\ earned[p].redeemed \in Nat
                           /\ earned[p].redeemed <= earned[p].amount
                           /\ f[p] = earned[p].amount - earned[p].redeemed /\ f[p] \in Nat
  BY <1>1 DEF RewardsInv, RewardsTypeOK, Balance
<1>4. \A ps : Available(ps) = SumFunctionOnSet(f, ps)
  BY <1>1 DEF Available
<1>5. SumFunctionOnSet(f, Purchases) \in Nat
  BY <1>3, RewardsAssumption, SumIsNat
<1>6. amount \in Nat /\ amount > 0 /\ amount <= SumFunctionOnSet(f, Purchases)
  BY <1>4, <1>5
<1>7. \A p \in Purchases : take[p] = TakenOf(f, Purchases, amount, p)
  <2> SUFFICES ASSUME NEW p \in Purchases PROVE take[p] = TakenOf(f, Purchases, amount, p)
    OBVIOUS
  <2>1. PICK before : before = SumFunctionOnSet(f, {q \in Purchases : q < p})
    OBVIOUS
  <2>2. Available({q \in Purchases : q < p}) = before
    BY <1>4, <2>1
  <2>3. take[p] = Applied(p, amount) /\ f[p] = Balance(p)
    BY <1>1, <1>2
  <2>4. take[p] = IF amount <= before THEN 0
                  ELSE IF amount - before <= f[p] THEN amount - before ELSE f[p]
    BY <2>2, <2>3 DEF Applied
  <2>5. QED BY <2>1, <2>4 DEF TakenOf
<1>8. /\ \A p \in Purchases : take[p] \in Nat /\ take[p] <= f[p]
      /\ SumFunctionOnSet(take, Purchases) = amount
  <2>1. (\A p \in Purchases : p \in Int) /\ IsFiniteSet(Purchases)
    BY RewardsAssumption
  <2>2. \A p \in Purchases : f[p] \in Nat
    BY <1>3
  <2>3. QED BY <1>6, <1>7, <2>1, <2>2, TakenInOrder
<1>9. PICK v : v = [p \in Purchases |-> earned[p].redeemed + Applied(p, amount)]
  OBVIOUS
<1>10. \A p \in Purchases : v[p] = earned[p].redeemed + take[p]
  BY <1>2, <1>9
<1>11. v \in [Purchases -> Nat] /\ \A p \in Purchases : v[p] <= earned[p].amount
  <2>1. \A p \in Purchases : v[p] \in Nat /\ v[p] <= earned[p].amount
    BY <1>3, <1>8, <1>10
  <2>2. QED BY <1>9, <2>1
<1>12. SumFunction(v) = Redeemed + amount
  <2>1. PICK e : e = [p \in Purchases |-> earned[p].redeemed]
    OBVIOUS
  <2>2. \A p \in Purchases : e[p] \in Int /\ take[p] \in Int /\ v[p] = e[p] + take[p]
    BY <1>3, <1>8, <1>10, <2>1
  <2>3. SumFunctionOnSet(v, Purchases) = SumFunctionOnSet(e, Purchases) + SumFunctionOnSet(take, Purchases)
    BY <2>2, RewardsAssumption, SumOfSums
  <2>4. SumFunction(v) = SumFunctionOnSet(v, Purchases) /\ Redeemed = SumFunctionOnSet(e, Purchases)
    BY <1>9, <2>1 DEF SumFunction, Redeemed
  <2>5. QED BY <1>8, <2>3, <2>4
<1>13. PICK rows : rows = {<<p, earned[p].redeemed + Applied(p, amount)>> : p \in Purchases}
  OBVIOUS
<1>14. rows = {<<p, v[p]>> : p \in Purchases}
  BY <1>9, <1>13
<1>15. rows \in SUBSET (Purchases \X Nat)
  BY <1>11, <1>14
<1>16. PICK k : k = [Shut EXCEPT !.step = "redeem", !.amount = amount, !.rows = rows]
  OBVIOUS
<1>17. k \in Dealer /\ k.step = "redeem" /\ k.amount = amount /\ k.rows = rows
  BY <1>6, <1>15, <1>16 DEF Shut, Dealer
<1>18. counter' = [counter EXCEPT ![h] = k]
  BY <1>13, <1>16 DEF RedeemRead, Deal
<1>19. Redeems(rows, amount)
  BY <1>11, <1>12, <1>14 DEF Redeems
<1>20. DealHolds(k)
  BY <1>17, <1>19 DEF DealHolds
<1>21. QED BY <1>0, <1>17, <1>18, <1>20, ReadKeeps

\* Nobody else is about a redemption or a claim while one holds the user.
LEMMA OthersWait ==
  ASSUME RewardsInv, NEW h \in Counters, counter[h].step \in {"redeem", "referral"},
         NEW g \in Counters, g # h
  PROVE  counter[g].step \notin {"redeem", "referral"}
BY DEF RewardsInv, OneHoldsUser

\* The rows of a redemption are written, and the wallet is credited.
LEMMA RedeemKeeps ==
  ASSUME RewardsInv, NEW h \in Counters, Redeem(h)
  PROVE  RewardsInv'
<1>0. /\ counter[h].step = "redeem" /\ counter' = [counter EXCEPT ![h] = Shut]
      /\ credit' = credit + counter[h].amount
      /\ UNCHANGED <<completed, points, owned, referral, code, collisions, clashes, requalified>>
      /\ earned \in [Purchases -> [amount: Nat, redeemed: Nat]] /\ RewardsTypeOK
      /\ counter[h].amount \in Nat
  BY DEF Redeem, Done, RewardsInv, RewardsTypeOK, Dealer
<1>1. PICK v \in [Purchases -> Nat] :
        /\ counter[h].rows = {<<p, v[p]>> : p \in Purchases}
        /\ \A p \in Purchases : v[p] <= earned[p].amount
        /\ SumFunction(v) = Redeemed + counter[h].amount
  BY <1>0 DEF RewardsInv, DealHolds, Redeems
<1>2. ASSUME NEW p \in Purchases
      PROVE  (CHOOSE r \in counter[h].rows : r[1] = p)[2] = v[p]
  <2>1. PICK r : r = CHOOSE q \in counter[h].rows : q[1] = p
    OBVIOUS
  <2>2. <<p, v[p]>> \in counter[h].rows /\ <<p, v[p]>>[1] = p
    BY <1>1
  <2>3. r \in counter[h].rows /\ r[1] = p
    BY <2>1, <2>2
  <2>4. PICK q \in Purchases : r = <<q, v[q]>>
    BY <1>1, <2>3
  <2>5. q = p /\ r[2] = v[p]
    BY <2>3, <2>4
  <2>6. QED BY <2>1, <2>5
<1>3. earned' = [p \in Purchases |-> [earned[p] EXCEPT !.redeemed = v[p]]]
  <2>1. earned' = [p \in Purchases |->
          [earned[p] EXCEPT !.redeemed = (CHOOSE r \in counter[h].rows : r[1] = p)[2]]]
    BY DEF Redeem
  <2>2. QED BY <1>2, <2>1
<1>4. ASSUME NEW p \in Purchases
      PROVE  /\ earned'[p] \in [amount: Nat, redeemed: Nat]
             /\ earned'[p].amount = earned[p].amount /\ earned'[p].redeemed = v[p]
  BY <1>0, <1>1, <1>3
<1>5. earned' \in [Purchases -> [amount: Nat, redeemed: Nat]]
  BY <1>3, <1>4
<1>6. Redeemed' = SumFunction(v)
  <2>1. [p \in Purchases |-> earned'[p].redeemed] = v
    BY <1>1, <1>4
  <2>2. QED BY <2>1 DEF Redeemed
<1>7. /\ counter' \in [Counters -> Dealer] /\ counter'[h] = Shut
      /\ \A g \in Counters \ {h} : counter'[g] = counter[g]
  BY <1>0, ShutDealer, DealerMoves
<1>8. ASSUME NEW g \in Counters PROVE DealHolds(counter[g])'
  <2>1. CASE g = h
    BY <1>7, <2>1, ShutDealer DEF DealHolds
  <2>2. CASE g # h
    <3>1. counter'[g] = counter[g] /\ counter[g].step # "redeem" /\ DealHolds(counter[g])
      BY <1>0, <1>7, <2>2, OthersWait DEF RewardsInv
    <3>2. QED BY <1>0, <3>1 DEF DealHolds
  <2>3. QED BY <2>1, <2>2
<1>9. OneHoldsUser'
  BY <1>7, ShutDealer DEF RewardsInv, OneHoldsUser
<1>10. credit' = Redeemed' + FriendReward * ReferralsPaid'
  <2>1. ReferralsPaid' = ReferralsPaid
    BY <1>0 DEF ReferralsPaid, Claimed
  <2>2. credit = Redeemed + FriendReward * ReferralsPaid
    BY DEF RewardsInv
  <2>3. QED BY <1>0, <1>1, <1>6, <2>1, <2>2, RedeemedIsNat
<1>11. \A p \in Purchases : earned'[p].redeemed <= earned'[p].amount /\ earned'[p].amount <= Cashback
  BY <1>1, <1>4 DEF RewardsInv
<1>12. QED
  BY <1>0, <1>5, <1>7, <1>8, <1>9, <1>10, <1>11
  DEF RewardsInv, RewardsTypeOK, PointsAddUp, CodeFailureHasCause

\* The referrals that were read are claimed together.
LEMMA ReferralKeeps ==
  ASSUME RewardsInv, NEW h \in Counters, ClaimReferral(h)
  PROVE  RewardsInv'
<1>0. /\ counter[h].step = "referral" /\ counter' = [counter EXCEPT ![h] = Shut]
      /\ UNCHANGED <<earned, completed, points, owned, code, collisions, clashes, requalified>>
      /\ RewardsTypeOK /\ credit \in Int
  BY DEF ClaimReferral, Done, RewardsInv, RewardsTypeOK
<1>1. PICK fs : /\ fs = counter[h].rows /\ fs \subseteq Friends
                /\ \A f \in fs : referral[f] = "QUALIFIED"
  BY <1>0 DEF RewardsInv, DealHolds
<1>2. /\ credit' = credit + FriendReward * Cardinality(fs)
      /\ referral' = [f \in Friends |->
           IF f \in fs /\ referral[f] = "QUALIFIED" THEN "CLAIMED" ELSE referral[f]]
  BY <1>1 DEF ClaimReferral
<1>3. referral' \in [Friends -> {"PENDING", "QUALIFIED", "CLAIMED"}]
  BY <1>0, <1>2 DEF RewardsTypeOK
<1>4. Claimed' = Claimed \cup fs /\ Claimed \cap fs = {}
  BY <1>1, <1>2 DEF Claimed
<1>5. Cardinality(Claimed') = Cardinality(Claimed) + Cardinality(fs) /\ Cardinality(fs) \in Nat
  <2>1. IsFiniteSet(Claimed) /\ IsFiniteSet(fs)
    BY <1>1, RewardsAssumption, FS_Subset DEF Claimed
  <2>2. Cardinality(Claimed \cup fs) = Cardinality(Claimed) + Cardinality(fs) - Cardinality(Claimed \cap fs)
    BY <2>1, FS_Union
  <2>3. Cardinality(Claimed) \in Nat /\ Cardinality(fs) \in Nat
    BY <2>1, FS_CardinalityType
  <2>4. QED BY <1>4, <2>2, <2>3, FS_EmptySet
<1>6. credit' = Redeemed' + FriendReward * ReferralsPaid'
  <2>1. Redeemed' = Redeemed
    BY <1>0 DEF Redeemed
  <2>2. credit = Redeemed + FriendReward * ReferralsPaid
    BY DEF RewardsInv
  <2>3. PICK n \in Nat, m \in Nat : n = ReferralsPaid /\ m = Cardinality(fs)
    BY <1>0, <1>5, RedeemedIsNat
  <2>4. FriendReward * (n + m) = FriendReward * n + FriendReward * m
    BY RewardsAssumption, SMT
  <2>5. FriendReward * n \in Nat /\ FriendReward * m \in Nat
    BY RewardsAssumption
  <2>6. ReferralsPaid' = n + m
    <3>1. SumFunction(requalified) \in Nat /\ Cardinality(Claimed) \in Nat
      BY <1>0, RedeemedIsNat
    <3>2. ReferralsPaid' = Cardinality(Claimed') + SumFunction(requalified)
      BY <1>0 DEF ReferralsPaid
    <3>3. QED BY <1>5, <2>3, <3>1, <3>2 DEF ReferralsPaid
  <2>7. QED BY <1>0, <1>2, <2>1, <2>2, <2>3, <2>4, <2>5, <2>6, RedeemedIsNat
<1>7. /\ counter' \in [Counters -> Dealer] /\ counter'[h] = Shut
      /\ \A g \in Counters \ {h} : counter'[g] = counter[g]
  BY <1>0, ShutDealer, DealerMoves
<1>8. ASSUME NEW g \in Counters PROVE DealHolds(counter[g])'
  <2>1. CASE g = h
    BY <1>7, <2>1, ShutDealer DEF DealHolds
  <2>2. CASE g # h
    <3>1. counter'[g] = counter[g] /\ counter[g].step \notin {"redeem", "referral"} /\ DealHolds(counter[g])
      BY <1>0, <1>7, <2>2, OthersWait DEF RewardsInv
    <3>2. QED BY <1>0, <3>1 DEF DealHolds
  <2>3. QED BY <2>1, <2>2
<1>9. OneHoldsUser'
  BY <1>7, ShutDealer DEF RewardsInv, OneHoldsUser
<1>10. credit' \in Int
  BY <1>0, <1>2, <1>5, RewardsAssumption
<1>11. QED
  BY <1>0, <1>3, <1>6, <1>7, <1>8, <1>9, <1>10
  DEF RewardsInv, RewardsTypeOK, PointsAddUp, CodeFailureHasCause

\* An order of a friend qualifies the referral, also one that was claimed
\* meanwhile.
LEMMA FriendKeeps ==
  ASSUME RewardsInv, NEW h \in Counters, FriendCompletes(h)
  PROVE  RewardsInv'
<1>0. /\ counter[h].step = "qualify" /\ counter' = [counter EXCEPT ![h] = Shut]
      /\ UNCHANGED <<earned, completed, points, owned, credit, code, collisions, clashes>>
      /\ referral \in [Friends -> {"PENDING", "QUALIFIED", "CLAIMED"}]
      /\ requalified \in [Friends -> Nat] /\ RewardsTypeOK
      /\ Redeemed' = Redeemed
  BY DEF FriendCompletes, Done, RewardsInv, RewardsTypeOK, Redeemed
<1>1. PICK f \in Friends : counter[h].rows = {f}
  BY <1>0 DEF RewardsInv, DealHolds
<1>2. /\ referral' = [referral EXCEPT ![f] = "QUALIFIED"]
      /\ requalified' = IF referral[f] = "CLAIMED" THEN [requalified EXCEPT ![f] = @ + 1]
                        ELSE requalified
  BY <1>1 DEF FriendCompletes
<1>3. /\ referral' \in [Friends -> {"PENDING", "QUALIFIED", "CLAIMED"}]
      /\ \A g \in Friends : referral[g] = "QUALIFIED" => referral'[g] = "QUALIFIED"
      /\ requalified' \in [Friends -> Nat]
  BY <1>0, <1>2
<1>4. ReferralsPaid' = ReferralsPaid
  <2>1. /\ Cardinality(Claimed) \in Nat /\ IsFiniteSet(Claimed)
        /\ SumFunction(requalified) \in Nat
    BY <1>0, RedeemedIsNat
  <2>2. CASE referral[f] = "CLAIMED"
    <3>1. Claimed' = Claimed \ {f} /\ f \in Claimed
      BY <1>0, <1>2, <2>2 DEF Claimed
    <3>2. Cardinality(Claimed') = Cardinality(Claimed) - 1
      BY <2>1, <3>1, FS_RemoveElement
    <3>3. /\ requalified \in [Friends -> Int] /\ requalified' \in [Friends -> Int]
          /\ requalified'[f] = requalified[f] + 1 /\ requalified[f] \in Nat
          /\ \A g \in Friends \ {f} : requalified[g] = requalified'[g]
      BY <1>0, <1>2, <1>3, <2>2
    <3>4. SumFunction(requalified') = SumFunction(requalified) - requalified[f] + requalified'[f]
      BY <3>3, RewardsAssumption, SumFunctionDiffersAt
    <3>5. SumFunction(requalified') = SumFunction(requalified) + 1
      BY <2>1, <3>3, <3>4
    <3>6. QED BY <2>1, <3>2, <3>5 DEF ReferralsPaid
  <2>3. CASE referral[f] # "CLAIMED"
    <3>1. Claimed' = Claimed
      BY <1>0, <1>2, <2>3 DEF Claimed
    <3>2. requalified' = requalified
      BY <1>2, <2>3
    <3>3. QED BY <3>1, <3>2 DEF ReferralsPaid
  <2>4. QED BY <2>2, <2>3
<1>5. /\ counter' \in [Counters -> Dealer] /\ counter'[h] = Shut
      /\ \A g \in Counters \ {h} : counter'[g] = counter[g]
  BY <1>0, ShutDealer, DealerMoves
<1>6. ASSUME NEW g \in Counters PROVE DealHolds(counter[g])'
  <2>1. CASE g = h
    BY <1>5, <2>1, ShutDealer DEF DealHolds
  <2>2. CASE g # h
    <3>1. DealHolds(counter[g]) /\ counter'[g] = counter[g]
      BY <1>5, <2>2 DEF RewardsInv
    <3>2. QED BY <1>0, <1>3, <3>1 DEF DealHolds, Redeems
  <2>3. QED BY <2>1, <2>2
<1>7. OneHoldsUser'
  BY <1>5, ShutDealer DEF RewardsInv, OneHoldsUser
<1>8. QED
  BY <1>0, <1>3, <1>4, <1>5, <1>6, <1>7
  DEF RewardsInv, RewardsTypeOK, PointsAddUp, CodeFailureHasCause

\* An order is completed, perhaps by two handlers that both found it open.
LEMMA PurchaseKeeps ==
  ASSUME RewardsInv, NEW h \in Counters, CompletePurchase(h)
  PROVE  RewardsInv'
<1>0. /\ counter[h].step = "complete" /\ counter' = [counter EXCEPT ![h] = Shut]
      /\ points' = points + PointsEarned
      /\ UNCHANGED <<owned, referral, credit, code, collisions, requalified>>
      /\ RewardsTypeOK /\ earned \in [Purchases -> [amount: Nat, redeemed: Nat]]
      /\ points \in Int
  BY DEF CompletePurchase, Done, RewardsInv, RewardsTypeOK
<1>1. PICK p \in Purchases : counter[h].rows = {p}
  BY <1>0 DEF RewardsInv, DealHolds
<1>2. /\ earned' = [earned EXCEPT ![p].amount = Cashback] /\ completed' = completed \cup {p}
      /\ clashes' = IF p \in completed THEN clashes \cup {"twice"} ELSE clashes
  BY <1>1 DEF CompletePurchase
<1>3. /\ earned' \in [Purchases -> [amount: Nat, redeemed: Nat]]
      /\ \A q \in Purchases : earned'[q].redeemed = earned[q].redeemed
      /\ \A q \in Purchases : earned[q].amount <= earned'[q].amount /\ earned'[q].amount <= Cashback
  BY <1>0, <1>2, RewardsAssumption DEF RewardsInv
<1>4. Redeemed' = Redeemed /\ ReferralsPaid' = ReferralsPaid
  BY <1>0, <1>3 DEF Redeemed, ReferralsPaid, Claimed
<1>5. /\ counter' \in [Counters -> Dealer] /\ counter'[h] = Shut
      /\ \A g \in Counters \ {h} : counter'[g] = counter[g]
  BY <1>0, ShutDealer, DealerMoves
<1>6. points' \in Int /\ points' >= points
  BY <1>0, RewardsAssumption
<1>7. ASSUME NEW g \in Counters PROVE DealHolds(counter[g])'
  <2>1. CASE g = h
    BY <1>5, <2>1, ShutDealer DEF DealHolds
  <2>2. CASE g # h
    <3>1. counter'[g] = counter[g] /\ DealHolds(counter[g])
      BY <1>5, <2>2 DEF RewardsInv
    <3>2. counter[g].step = "redeem" => Redeems(counter[g].rows, counter[g].amount)'
      <4> SUFFICES ASSUME counter[g].step = "redeem" PROVE Redeems(counter[g].rows, counter[g].amount)'
        OBVIOUS
      <4>1. PICK v \in [Purchases -> Nat] :
              /\ counter[g].rows = {<<q, v[q]>> : q \in Purchases}
              /\ \A q \in Purchases : v[q] <= earned[q].amount
              /\ SumFunction(v) = Redeemed + counter[g].amount
        BY <3>1 DEF DealHolds, Redeems
      <4>2. \A q \in Purchases : v[q] <= earned'[q].amount
        BY <1>0, <1>3, <4>1
      <4>3. QED BY <1>4, <3>1, <4>1, <4>2 DEF Redeems
    <3>3. counter[g].step = "voucher" => counter[g].item \in Vouchers /\ (counter[g].late \/ points' >= PointsCost)
      <4>1. points >= PointsCost => points' >= PointsCost
        BY <1>0, <1>6, RewardsAssumption
      <4>2. QED BY <3>1, <4>1 DEF DealHolds
    <3>4. QED BY <1>0, <3>1, <3>2, <3>3 DEF DealHolds
  <2>3. QED BY <2>1, <2>2
<1>8. OneHoldsUser'
  BY <1>5, ShutDealer DEF RewardsInv, OneHoldsUser
<1>9. PointsAddUp'
  <2>1. points' >= 0 \/ "spent" \in clashes'
    BY <1>0, <1>2, <1>6 DEF RewardsInv, PointsAddUp
  <2>2. CASE p \in completed
    BY <1>2, <2>1, <2>2 DEF PointsAddUp
  <2>3. CASE p \notin completed
    <3>1. PICK n \in Nat, m \in Nat : n = Cardinality(completed) /\ m = Cardinality(owned)
      BY <1>0, RewardsAssumption, FS_Subset, FS_CardinalityType DEF RewardsTypeOK
    <3>2. Cardinality(completed') = n + 1
      BY <1>0, <1>2, <2>3, <3>1, RewardsAssumption, FS_Subset, FS_AddElement DEF RewardsTypeOK
    <3>3. PointsEarned * (n + 1) = PointsEarned * n + PointsEarned
      BY RewardsAssumption, SMT
    <3>4. PointsEarned * n \in Nat /\ PointsCost * m \in Nat
      BY RewardsAssumption
    <3>5. clashes' = clashes /\ owned' = owned
      BY <1>0, <1>2, <2>3
    <3>6. points = PointsEarned * n - PointsCost * m \/ "twice" \in clashes
      BY <3>1 DEF RewardsInv, PointsAddUp
    <3>7. points' = PointsEarned * (n + 1) - PointsCost * m \/ "twice" \in clashes
      BY <1>0, <3>3, <3>4, <3>6, RewardsAssumption
    <3>8. QED BY <2>1, <3>1, <3>2, <3>5, <3>7 DEF PointsAddUp
  <2>4. QED BY <2>2, <2>3
<1>10. credit' = Redeemed' + FriendReward * ReferralsPaid'
  BY <1>0, <1>4 DEF RewardsInv
<1>11. \A q \in Purchases : earned'[q].redeemed <= earned'[q].amount /\ earned'[q].amount <= Cashback
  <2>1. \A q \in Purchases : earned[q].redeemed <= earned[q].amount
    BY DEF RewardsInv
  <2>2. QED BY <1>0, <1>3, <2>1
<1>12. collisions' <= Collisions /\ CodeFailureHasCause'
  BY <1>0, <1>2 DEF RewardsInv, CodeFailureHasCause
<1>13. RewardsTypeOK'
  BY <1>0, <1>2, <1>3, <1>5, <1>6 DEF RewardsTypeOK
<1>14. QED BY <1>7, <1>8, <1>9, <1>10, <1>11, <1>12, <1>13 DEF RewardsInv

\* A voucher is claimed, or was already owned.
LEMMA ClaimKeeps ==
  ASSUME RewardsInv, NEW h \in Counters, ClaimVoucher(h)
  PROVE  RewardsInv'
<1>0. /\ counter[h].step = "voucher" /\ counter[h].item \in Vouchers
      /\ counter[h].late \/ points >= PointsCost
      /\ RewardsTypeOK
      /\ UNCHANGED <<earned, completed, referral, credit, code, collisions, requalified>>
  BY DEF ClaimVoucher, RewardsInv, DealHolds
<1>1. CASE counter[h].item \in owned
  BY <1>0, <1>1, DoneKeeps DEF ClaimVoucher
<1>2. CASE counter[h].item \notin owned
  <2>1. /\ points' = points - PointsCost /\ owned' = owned \cup {counter[h].item}
        /\ clashes' = IF counter[h].late THEN clashes \cup {"spent"} ELSE clashes
        /\ counter' = [g \in Counters |->
             IF g = h THEN Shut ELSE IF counter[g].step = "voucher"
                                THEN [counter[g] EXCEPT !.late = TRUE] ELSE counter[g]]
    BY <1>2 DEF ClaimVoucher, Note, DoneBefore
  <2>2. \A g \in Counters : counter[g] \in Dealer
    BY <1>0 DEF RewardsTypeOK
  <2>3. ASSUME NEW g \in Counters
        PROVE  [counter[g] EXCEPT !.late = TRUE] \in Dealer
    BY <2>2 DEF Dealer
  <2>4. counter' \in [Counters -> Dealer]
    BY <2>1, <2>2, <2>3, ShutDealer
  <2>5. \A g \in Counters :
          g # h => /\ counter'[g].step = counter[g].step /\ counter'[g].rows = counter[g].rows
                   /\ counter'[g].item = counter[g].item /\ counter'[g].amount = counter[g].amount
                   /\ counter[g].step = "voucher" => counter'[g].late
    BY <2>1, <2>2 DEF Dealer
  <2>6. counter'[h] = Shut
    BY <2>1
  <2>7. Redeemed' = Redeemed /\ ReferralsPaid' = ReferralsPaid
    BY <1>0 DEF Redeemed, ReferralsPaid, Claimed
  <2>8. ASSUME NEW g \in Counters PROVE DealHolds(counter[g])'
    <3>1. CASE g = h
      BY <2>6, <3>1, ShutDealer DEF DealHolds
    <3>2. CASE g # h
      <4>1. DealHolds(counter[g])
        BY DEF RewardsInv
      <4>2. QED BY <1>0, <2>5, <2>7, <3>2, <4>1 DEF DealHolds, Redeems
    <3>3. QED BY <3>1, <3>2
  <2>9. OneHoldsUser'
    <3>1. \A g \in Counters : counter'[g].step \in {"redeem", "referral"}
                              => counter[g].step \in {"redeem", "referral"}
      BY <2>5, <2>6, ShutDealer
    <3>2. QED BY <3>1 DEF RewardsInv, OneHoldsUser
  <2>10. PointsAddUp'
    <3>1. PICK n \in Nat, m \in Nat : n = Cardinality(completed) /\ m = Cardinality(owned)
      BY <1>0, RewardsAssumption, FS_Subset, FS_CardinalityType DEF RewardsTypeOK
    <3>2. Cardinality(owned') = m + 1
      BY <1>0, <1>2, <2>1, <3>1, RewardsAssumption, FS_Subset, FS_AddElement DEF RewardsTypeOK
    <3>3. PointsCost * (m + 1) = PointsCost * m + PointsCost
      BY RewardsAssumption, SMT
    <3>4. PointsEarned * n \in Nat /\ PointsCost * m \in Nat /\ points \in Int
      BY <1>0, RewardsAssumption DEF RewardsTypeOK
    <3>5. points = PointsEarned * n - PointsCost * m \/ "twice" \in clashes
      BY <3>1 DEF RewardsInv, PointsAddUp
    <3>6. points' = PointsEarned * n - PointsCost * (m + 1) \/ "twice" \in clashes
      BY <2>1, <3>3, <3>4, <3>5, RewardsAssumption
    <3>7. points' >= 0 \/ "spent" \in clashes'
      BY <1>0, <2>1, <3>4, RewardsAssumption
    <3>8. clashes \subseteq clashes'
      BY <2>1
    <3>9. QED BY <1>0, <3>1, <3>2, <3>6, <3>7, <3>8 DEF PointsAddUp
  <2>11. RewardsTypeOK'
    BY <1>0, <2>1, <2>4, RewardsAssumption DEF RewardsTypeOK
  <2>12. CodeFailureHasCause'
    BY <2>1 DEF RewardsInv, CodeFailureHasCause
  <2>13. QED BY <1>0, <2>7, <2>8, <2>9, <2>10, <2>11, <2>12 DEF RewardsInv
<1>3. QED BY <1>1, <1>2

\* One attempt at a referral code.
LEMMA CodeKeeps ==
  ASSUME RewardsInv, NEW h \in Counters, CodeAttempt(h)
  PROVE  RewardsInv'
<1>0. /\ counter[h].step = "code" /\ (code \/ counter[h].amount <= collisions)
      /\ RewardsTypeOK /\ counter[h] \in Dealer /\ counter[h].amount \in Nat
      /\ collisions \in Nat /\ collisions <= Collisions
      /\ UNCHANGED <<earned, completed, points, owned, referral, credit, requalified>>
      /\ Redeemed' = Redeemed /\ ReferralsPaid' = ReferralsPaid
  BY DEF CodeAttempt, RewardsInv, RewardsTypeOK, DealHolds, Dealer, Redeemed, ReferralsPaid, Claimed
<1>1. PICK k : k = [counter[h] EXCEPT !.amount = counter[h].amount + 1]
  OBVIOUS
<1>2. k \in Dealer /\ k.step = "code" /\ k.amount = counter[h].amount + 1
  BY <1>0, <1>1 DEF Dealer
<1>3. PICK t \in Dealer :
        /\ counter' = [counter EXCEPT ![h] = t] /\ t.step \in {"shut", "code"}
        /\ t.step = "code" => t = k
        /\ \/ t.step = "shut" /\ code' = TRUE /\ UNCHANGED <<collisions, clashes>>
           \/ /\ code \/ collisions < Collisions
              /\ collisions' = IF code THEN collisions ELSE collisions + 1
              /\ \/ t.step = "shut" /\ k.amount = CodeAttempts
                    /\ clashes' = clashes \cup {IF code THEN "coded" ELSE "uncoded"}
                 \/ t = k /\ UNCHANGED clashes
              /\ UNCHANGED code
  <2>1. CASE code' = TRUE /\ Done(h) /\ UNCHANGED <<collisions, clashes>>
    BY <2>1, ShutDealer DEF Done
  <2>2. CASE /\ code \/ collisions < Collisions
             /\ collisions' = IF code THEN collisions ELSE collisions + 1
             /\ IF GivesUp(counter[h].amount + 1)
                THEN Done(h) /\ clashes' = clashes \cup {IF code THEN "coded" ELSE "uncoded"}
                ELSE counter' = [counter EXCEPT ![h].amount = @ + 1] /\ UNCHANGED clashes
             /\ UNCHANGED code
    <3>1. CASE GivesUp(counter[h].amount + 1)
      BY <1>2, <2>2, <3>1, ShutDealer DEF Done, GivesUp
    <3>2. CASE ~ GivesUp(counter[h].amount + 1)
      <4>1. counter' = [counter EXCEPT ![h] = k]
        BY <1>0, <1>1, <2>2, <3>2 DEF RewardsTypeOK
      <4>2. QED BY <1>2, <2>2, <3>2, <4>1
    <3>3. QED BY <3>1, <3>2
  <2>3. QED BY <2>1, <2>2 DEF CodeAttempt
<1>4. /\ counter' \in [Counters -> Dealer] /\ counter'[h] = t
      /\ \A g \in Counters \ {h} : counter'[g] = counter[g]
  BY <1>3, DealerMoves
<1>5. /\ collisions' \in Nat /\ collisions' <= Collisions /\ collisions <= collisions'
      /\ code => code'
  BY <1>0, <1>3, RewardsAssumption
<1>6. t.step = "code" => code' \/ k.amount <= collisions'
  BY <1>0, <1>2, <1>3
<1>7. ASSUME NEW g \in Counters PROVE DealHolds(counter[g])'
  <2>1. CASE g = h
    BY <1>3, <1>4, <1>6, <2>1 DEF DealHolds
  <2>2. CASE g # h
    <3>1. counter'[g] = counter[g] /\ DealHolds(counter[g]) /\ counter[g].amount \in Nat
      BY <1>0, <1>4, <2>2 DEF RewardsInv, RewardsTypeOK, Dealer
    <3>2. counter[g].step = "code" => code' \/ counter[g].amount <= collisions'
      BY <1>0, <1>5, <3>1 DEF DealHolds
    <3>3. QED BY <1>0, <3>1, <3>2 DEF DealHolds, Redeems
  <2>3. QED BY <2>1, <2>2
<1>8. OneHoldsUser'
  BY <1>3, <1>4 DEF RewardsInv, OneHoldsUser
<1>9. CodeFailureHasCause'
  <2> SUFFICES ASSUME Collisions < CodeAttempts PROVE "uncoded" \notin clashes'
    BY DEF CodeFailureHasCause
  <2>1. "uncoded" \notin clashes
    BY DEF RewardsInv, CodeFailureHasCause
  <2>2. ~ code /\ k.amount = CodeAttempts /\ collisions < Collisions => FALSE
    BY <1>0, <1>2, RewardsAssumption
  <2>3. QED BY <1>3, <2>1, <2>2
<1>10. PointsAddUp'
  <2>1. clashes \subseteq clashes'
    BY <1>3
  <2>2. QED BY <1>0, <2>1 DEF RewardsInv, PointsAddUp
<1>11. RewardsTypeOK'
  BY <1>0, <1>4, <1>5 DEF RewardsTypeOK
<1>12. QED BY <1>0, <1>5, <1>7, <1>8, <1>9, <1>10, <1>11 DEF RewardsInv

-----------------------------------------------------------------------------
\* The completions that found the referral of f pending and have not written.
Qualifying(f) == {h \in Counters : counter[h].step = "qualify" /\ f \in counter[h].rows}

\* The first completion to write uses up one handler; each of the others can
\* write over one claim.
RequalifiedBound(f) ==
  IF referral[f] = "PENDING" THEN requalified[f] = 0
  ELSE requalified[f] + Cardinality(Qualifying(f)) < Cardinality(Counters)
RequalifiedBounded == \A f \in Friends : RequalifiedBound(f)

\* The completions are finitely many.
LEMMA QualifyingFinite ==
  ASSUME NEW f
  PROVE  /\ IsFiniteSet(Qualifying(f)) /\ Cardinality(Qualifying(f)) \in Nat
         /\ Cardinality(Counters) \in Nat
BY RewardsAssumption, FS_Subset, FS_CardinalityType DEF Qualifying

\* Where no completion of a friend's order is concerned, the bound stands.
LEMMA BoundStands ==
  ASSUME RewardsTypeOK, RequalifiedBounded, NEW f \in Friends,
         \A g \in Counters : counter'[g].step = "qualify" /\ f \in counter'[g].rows
           => counter[g].step = "qualify" /\ f \in counter[g].rows,
         referral[f] = "PENDING" <=> referral'[f] = "PENDING",
         requalified'[f] = requalified[f]
  PROVE  RequalifiedBound(f)'
<1>1. Qualifying(f)' \subseteq Qualifying(f)
  BY DEF Qualifying
<1>2. Cardinality(Qualifying(f)') \in Nat /\ Cardinality(Qualifying(f)') <= Cardinality(Qualifying(f))
  BY <1>1, QualifyingFinite, FS_Subset, FS_CardinalityType
<1>3. requalified[f] \in Nat
  BY DEF RewardsTypeOK
<1>4. QED BY <1>2, <1>3, QualifyingFinite DEF RequalifiedBounded, RequalifiedBound

\* What everybody else does.
LEMMA OthersKeepBound ==
  ASSUME RewardsInv, RequalifiedBounded, NEW h \in Counters,
         \/ \E p \in Purchases : CompleteRead(h, p)
         \/ CompletePurchase(h)
         \/ \E amount \in 1..Available(Purchases) : RedeemRead(h, amount)
         \/ Redeem(h)
         \/ \E v \in Vouchers : ClaimVoucherRead(h, v)
         \/ ClaimVoucher(h)
         \/ ClaimReferralRead(h) \/ ClaimReferral(h)
         \/ CodeRead(h) \/ CodeAttempt(h)
  PROVE  RequalifiedBounded'
<1>0. RewardsTypeOK /\ requalified' = requalified /\ \A g \in Counters : counter[g] \in Dealer
  BY DEF RewardsInv, RewardsTypeOK, CompleteRead, CompletePurchase, RedeemRead, Redeem,
         ClaimVoucherRead, ClaimVoucher, ClaimReferralRead, ClaimReferral, CodeRead, CodeAttempt
<1>1. ASSUME NEW k, counter' = [counter EXCEPT ![h] = k], k.step # "qualify"
      PROVE  \A g \in Counters : counter'[g].step = "qualify"
               => counter'[g] = counter[g]
  BY <1>0, <1>1 DEF RewardsTypeOK
<1>2. \A g \in Counters : counter'[g].step = "qualify"
        => counter[g].step = "qualify" /\ counter'[g].rows = counter[g].rows
  <2>1. CASE CompletePurchase(h) \/ Redeem(h) \/ ClaimReferral(h)
    <3>1. counter' = [counter EXCEPT ![h] = Shut] /\ Shut.step # "qualify"
      BY <2>1, ShutDealer DEF CompletePurchase, Redeem, ClaimReferral, Done
    <3>2. QED BY <1>1, <3>1
  <2>2. CASE \E p \in Purchases : CompleteRead(h, p)
    <3>1. PICK p \in Purchases : CompleteRead(h, p)
      BY <2>2
    <3>2. PICK k : k = [Shut EXCEPT !.step = "complete", !.rows = {p}]
      OBVIOUS
    <3>3. k.step # "qualify" /\ counter' = [counter EXCEPT ![h] = k]
      BY <3>1, <3>2 DEF CompleteRead, Deal, Shut
    <3>4. QED BY <1>1, <3>3
  <2>3. CASE \E amount \in 1..Available(Purchases) : RedeemRead(h, amount)
    <3>1. PICK amount \in 1..Available(Purchases) : RedeemRead(h, amount)
      BY <2>3
    <3>2. PICK k : k = [Shut EXCEPT !.step = "redeem", !.amount = amount,
              !.rows = {<<p, earned[p].redeemed + Applied(p, amount)>> : p \in Purchases}]
      OBVIOUS
    <3>3. k.step # "qualify"
      BY <3>2 DEF Shut
    <3>4. counter' = [counter EXCEPT ![h] = k]
      BY <3>1, <3>2 DEF RedeemRead, Deal
    <3>5. QED BY <1>1, <3>3, <3>4
  <2>4. CASE \E v \in Vouchers : ClaimVoucherRead(h, v)
    <3>1. PICK v \in Vouchers : ClaimVoucherRead(h, v)
      BY <2>4
    <3>2. PICK k : k = [Shut EXCEPT !.step = "voucher", !.item = v]
      OBVIOUS
    <3>3. k.step # "qualify" /\ counter' = [counter EXCEPT ![h] = k]
      BY <3>1, <3>2 DEF ClaimVoucherRead, Deal, Shut
    <3>4. QED BY <1>1, <3>3
  <2>5. CASE ClaimVoucher(h)
    <3>1. CASE Done(h)
      BY <1>1, <3>1, ShutDealer DEF Done
    <3>2. CASE DoneBefore(h, "voucher")
      <4>1. \A g \in Counters : counter'[g] =
              IF g = h THEN Shut ELSE IF counter[g].step = "voucher"
                                 THEN [counter[g] EXCEPT !.late = TRUE] ELSE counter[g]
        BY <3>2 DEF DoneBefore
      <4>2. \A g \in Counters : [counter[g] EXCEPT !.late = TRUE].step = counter[g].step
        BY <1>0 DEF Dealer
      <4>3. QED BY <4>1, <4>2, ShutDealer
    <3>3. QED BY <2>5, <3>1, <3>2 DEF ClaimVoucher
  <2>6. CASE ClaimReferralRead(h)
    <3>1. PICK k : k = [Shut EXCEPT !.step = "referral",
                                    !.rows = {f \in Friends : referral[f] = "QUALIFIED"}]
      OBVIOUS
    <3>2. k.step # "qualify" /\ counter' = [counter EXCEPT ![h] = k]
      BY <2>6, <3>1 DEF ClaimReferralRead, Deal, Shut
    <3>3. QED BY <1>1, <3>2
  <2>7. CASE CodeRead(h)
    <3>1. PICK k : k = [Shut EXCEPT !.step = "code"]
      OBVIOUS
    <3>2. k.step # "qualify" /\ counter' = [counter EXCEPT ![h] = k]
      BY <2>7, <3>1 DEF CodeRead, Deal, Shut
    <3>3. QED BY <1>1, <3>2
  <2>8. CASE CodeAttempt(h)
    <3>1. CASE Done(h)
      BY <1>1, <3>1, ShutDealer DEF Done
    <3>2. CASE counter' = [counter EXCEPT ![h].amount = @ + 1]
      <4>1. PICK k : k = [counter[h] EXCEPT !.amount = @ + 1]
        OBVIOUS
      <4>2. k.step # "qualify"
        BY <1>0, <2>8, <4>1 DEF CodeAttempt, Dealer
      <4>3. counter' = [counter EXCEPT ![h] = k]
        BY <1>0, <3>2, <4>1 DEF RewardsTypeOK
      <4>4. QED BY <1>1, <4>2, <4>3
    <3>3. QED BY <2>8, <3>1, <3>2 DEF CodeAttempt
  <2>9. QED BY <2>1, <2>2, <2>3, <2>4, <2>5, <2>6, <2>7, <2>8
<1>3. ASSUME NEW f \in Friends
      PROVE  referral[f] = "PENDING" <=> referral'[f] = "PENDING"
  <2>1. CASE ClaimReferral(h)
    BY <2>1 DEF ClaimReferral
  <2>2. CASE ~ClaimReferral(h)
    <3>1. referral' = referral
      BY <2>2 DEF CompleteRead, CompletePurchase, RedeemRead, Redeem, ClaimVoucherRead,
                  ClaimVoucher, ClaimReferralRead, CodeRead, CodeAttempt
    <3>2. QED BY <3>1
  <2>3. QED BY <2>1, <2>2
<1>4. QED BY <1>0, <1>2, <1>3, BoundStands DEF RequalifiedBounded

\* A completion reads, and a completion writes.
LEMMA FriendsKeepBound ==
  ASSUME RewardsInv, RequalifiedBounded, NEW h \in Counters,
         (\E f \in Friends : FriendCompleteRead(h, f)) \/ FriendCompletes(h)
  PROVE  RequalifiedBounded'
<1>0. /\ RewardsTypeOK /\ requalified \in [Friends -> Nat]
      /\ referral \in [Friends -> {"PENDING", "QUALIFIED", "CLAIMED"}]
  BY DEF RewardsInv, RewardsTypeOK
<1>1. ASSUME NEW f \in Friends, FriendCompleteRead(h, f) PROVE RequalifiedBounded'
  <2>1. PICK k : k = [Shut EXCEPT !.step = "qualify", !.rows = {f}]
    OBVIOUS
  <2>2. k \in Dealer /\ k.step = "qualify" /\ k.rows = {f}
    BY <2>1 DEF Shut, Dealer
  <2>3. counter' = [counter EXCEPT ![h] = k] /\ referral[f] = "PENDING"
        /\ referral' = referral /\ requalified' = requalified
    BY <1>1, <2>1 DEF FriendCompleteRead, StillPending, Deal
  <2>4. /\ counter'[h] = k /\ \A g \in Counters \ {h} : counter'[g] = counter[g]
    BY <2>2, <2>3, DealerMoves
  <2>5. ASSUME NEW e \in Friends
        PROVE  RequalifiedBound(e)'
    <3>1. CASE e = f
      BY <2>3, <3>1 DEF RequalifiedBounded, RequalifiedBound
    <3>2. CASE e # f
      <4>1. \A g \in Counters : counter'[g].step = "qualify" /\ e \in counter'[g].rows
              => counter[g].step = "qualify" /\ e \in counter[g].rows
        BY <2>2, <2>4, <3>2
      <4>2. QED BY <1>0, <2>3, <4>1, BoundStands
    <3>3. QED BY <3>1, <3>2
  <2>6. QED BY <2>5 DEF RequalifiedBounded
<1>2. ASSUME FriendCompletes(h) PROVE RequalifiedBounded'
  <2>1. counter[h].step = "qualify" /\ counter' = [counter EXCEPT ![h] = Shut]
    BY <1>2 DEF FriendCompletes, Done
  <2>2. PICK f \in Friends : counter[h].rows = {f}
    BY <2>1 DEF RewardsInv, DealHolds
  <2>3. /\ referral' = [referral EXCEPT ![f] = "QUALIFIED"]
        /\ requalified' = IF referral[f] = "CLAIMED" THEN [requalified EXCEPT ![f] = @ + 1]
                          ELSE requalified
    BY <1>2, <2>2 DEF FriendCompletes
  <2>4. /\ counter'[h] = Shut /\ \A g \in Counters \ {h} : counter'[g] = counter[g]
    BY <2>1, ShutDealer, DealerMoves
  <2>5. ASSUME NEW e \in Friends
        PROVE  RequalifiedBound(e)'
    <3>1. CASE e # f
      <4>1. \A g \in Counters : counter'[g].step = "qualify" /\ e \in counter'[g].rows
              => counter[g].step = "qualify" /\ e \in counter[g].rows
        BY <2>4, ShutDealer
      <4>2. referral'[e] = referral[e] /\ requalified'[e] = requalified[e]
        BY <1>0, <2>3, <3>1
      <4>3. QED BY <1>0, <4>1, <4>2, BoundStands
    <3>2. CASE e = f
      <4>1. Qualifying(f)' = Qualifying(f) \ {h} /\ h \in Qualifying(f)
        BY <2>1, <2>2, <2>4, ShutDealer DEF Qualifying
      <4>2. /\ Cardinality(Qualifying(f)') = Cardinality(Qualifying(f)) - 1
            /\ Cardinality(Qualifying(f)) \in Nat /\ Cardinality(Counters) \in Nat
            /\ Cardinality(Qualifying(f)) <= Cardinality(Counters)
        <5>1. Qualifying(f) \subseteq Counters
          BY DEF Qualifying
        <5>2. QED BY <4>1, <5>1, RewardsAssumption, QualifyingFinite, FS_Subset, FS_RemoveElement
      <4>3. referral'[f] = "QUALIFIED"
        BY <1>0, <2>3
      <4>4. requalified[f] \in Nat
        BY <1>0
      <4>5. CASE referral[f] = "PENDING"
        <5>1. requalified[f] = 0 /\ requalified'[f] = 0
          BY <2>3, <4>5 DEF RequalifiedBounded, RequalifiedBound
        <5>2. QED BY <3>2, <4>2, <4>3, <5>1 DEF RequalifiedBound
      <4>6. CASE referral[f] # "PENDING"
        <5>1. requalified[f] + Cardinality(Qualifying(f)) < Cardinality(Counters)
          BY <4>6 DEF RequalifiedBounded, RequalifiedBound
        <5>2. requalified'[f] \in {requalified[f], requalified[f] + 1}
          BY <1>0, <2>3
        <5>3. QED BY <3>2, <4>2, <4>3, <4>4, <5>1, <5>2 DEF RequalifiedBound
      <4>7. QED BY <4>5, <4>6
    <3>3. QED BY <3>1, <3>2
  <2>6. QED BY <2>5 DEF RequalifiedBounded
<1>3. QED BY <1>1, <1>2

\* Whatever requests overlap, each cashback reaches the wallet once, a referral
\* reward once and again for each claim that a completion wrote over, points are
\* overdrawn only by a claim that was overtaken, and a customer is left
\* without a code only after as many collisions as there are attempts.
THEOREM RewardsCorrect == RewardsSpec => []RewardsAddUp
<1>1. RewardsInit => RewardsInv /\ RequalifiedBounded
  <2>1. RewardsInit => RequalifiedBounded
    BY DEF RewardsInit, RequalifiedBounded, RequalifiedBound
  <2>2. QED BY <2>1, RewardsStart
<1>2. RewardsInv /\ [RewardsNext]_rewardsVars => RewardsInv'
  <2> SUFFICES ASSUME RewardsInv, [RewardsNext]_rewardsVars PROVE RewardsInv'
    OBVIOUS
  <2>1. ASSUME NEW h \in Counters, \E p \in Purchases : CompleteRead(h, p) PROVE RewardsInv'
    BY <2>1, DealsBegin
  <2>2. ASSUME NEW h \in Counters, CompletePurchase(h) PROVE RewardsInv'
    BY <2>2, PurchaseKeeps
  <2>3. ASSUME NEW h \in Counters, NEW amount \in 1..Available(Purchases), RedeemRead(h, amount)
        PROVE  RewardsInv'
    BY <2>3, RedeemBegins
  <2>4. ASSUME NEW h \in Counters, Redeem(h) PROVE RewardsInv'
    BY <2>4, RedeemKeeps
  <2>5. ASSUME NEW h \in Counters, \E v \in Vouchers : ClaimVoucherRead(h, v) PROVE RewardsInv'
    BY <2>5, DealsBegin
  <2>6. ASSUME NEW h \in Counters, ClaimVoucher(h) PROVE RewardsInv'
    BY <2>6, ClaimKeeps
  <2>7. ASSUME NEW h \in Counters, ClaimReferralRead(h) \/ CodeRead(h) PROVE RewardsInv'
    BY <2>7, DealsBegin
  <2>8. ASSUME NEW h \in Counters, ClaimReferral(h) PROVE RewardsInv'
    BY <2>8, ReferralKeeps
  <2>9. ASSUME NEW h \in Counters, CodeAttempt(h) PROVE RewardsInv'
    BY <2>9, CodeKeeps
  <2>10. ASSUME NEW h \in Counters, (\E f \in Friends : FriendCompleteRead(h, f)) \/ FriendCompletes(h)
         PROVE  RewardsInv'
    BY <2>10, DealsBegin, FriendKeeps
  <2>11. CASE UNCHANGED rewardsVars
    <3>1. /\ UNCHANGED <<earned, completed, points, owned, referral, credit, code, collisions,
                         counter, clashes, requalified>>
          /\ Redeemed' = Redeemed /\ ReferralsPaid' = ReferralsPaid
      BY <2>11 DEF rewardsVars, Redeemed, ReferralsPaid, Claimed
    <3>2. ASSUME NEW g \in Counters PROVE DealHolds(counter[g])'
      BY <3>1 DEF RewardsInv, DealHolds, Redeems
    <3>3. RewardsTypeOK' /\ OneHoldsUser' /\ PointsAddUp' /\ CodeFailureHasCause'
      BY <3>1 DEF RewardsInv, RewardsTypeOK, OneHoldsUser, PointsAddUp, CodeFailureHasCause
    <3>4. QED BY <3>1, <3>2, <3>3 DEF RewardsInv
  <2>12. QED
    BY <2>1, <2>2, <2>3, <2>4, <2>5, <2>6, <2>7, <2>8, <2>9, <2>10, <2>11 DEF RewardsNext
<1>3. RewardsInv /\ RequalifiedBounded /\ [RewardsNext]_rewardsVars => RequalifiedBounded'
  <2> SUFFICES ASSUME RewardsInv, RequalifiedBounded, [RewardsNext]_rewardsVars
               PROVE  RequalifiedBounded'
    OBVIOUS
  <2>1. CASE UNCHANGED rewardsVars
    BY <2>1 DEF rewardsVars, RequalifiedBounded, RequalifiedBound, Qualifying
  <2>2. CASE RewardsNext
    BY <2>2, OthersKeepBound, FriendsKeepBound DEF RewardsNext
  <2>3. QED BY <2>1, <2>2
<1>4. RewardsInv /\ RequalifiedBounded => RewardsAddUp
  <2> SUFFICES ASSUME RewardsInv, RequalifiedBounded PROVE RewardsAddUp
    OBVIOUS
  <2>1. ASSUME NEW f \in Friends PROVE requalified[f] > 0 => requalified[f] < Cardinality(Counters)
    <3>1. requalified[f] \in Nat
      BY DEF RewardsInv, RewardsTypeOK
    <3>2. QED BY <3>1, QualifyingFinite DEF RequalifiedBounded, RequalifiedBound
  <2>2. QED
    BY <2>1 DEF RewardsInv, RewardsAddUp, RewardMoneyConserved, Redeemed, ReferralsPaid, Claimed
<1>5. QED BY <1>1, <1>2, <1>3, <1>4, PTL DEF RewardsSpec

-----------------------------------------------------------------------------
(***************************************************************************)
(* Financing.                                                              *)
(***************************************************************************)
LoanRows == [status: {"none", "PENDING_REVIEW", "APPROVED", "REJECTED", "CANCELLED", "CONFIRMED"},
             quote: Nat, financed: Nat, groups: Nat, start: Nat \X (1..31)]
RepaymentRows == [status: {"none", "PENDING", "PAID", "FAILED"}, number: 1..Months, amount: Nat,
                  charge: {"none", "open", "success", "failed"}]
AtTheDesk == [step: {"away", "card", "wallet", "complete"}, number: 1..Months,
              row: Repayments \cup {"none"}, paid: Nat]

FinancingTypeOK ==
  /\ cartTotal \in CartTotals
  /\ loanRequest \in [LoanRequests -> LoanRows]
  /\ paidIn \in [1..Months -> Nat]
  /\ repayment \in [Repayments -> RepaymentRows]
  /\ cashier \in [Cashiers -> AtTheDesk]

\* One application has the cart or the loan, and the loan is what it asked for.
OneLoan ==
  /\ \A a \in Confirmed : loanRequest[a].financed = loanRequest[a].quote
  /\ \A a \in LoanRequests : loanRequest[a].groups = IF a \in Confirmed THEN 1 ELSE 0
  /\ \A a, b \in LoanRequests :
       (HoldsCart(a) \/ a \in Confirmed) /\ (HoldsCart(b) \/ b \in Confirmed) => a = b

\* Nothing is repaid before there is a loan.
NothingRepaid ==
  Confirmed = {} =>
    /\ \A h \in Cashiers : cashier[h] = Away
    /\ \A r \in Repayments : repayment[r] = NoRepayment
    /\ \A i \in 1..Months : paidIn[i] = 0

Completes(h) == cashier[h].step = "complete"

\* Whoever completes a repayment has the only completion of it, of a charge
\* that succeeded, and has read no more than what the PAID rows come to.
CompletionsHold ==
  /\ \A h \in Cashiers : Completes(h) =>
       /\ cashier[h].row \in Repayments
       /\ repayment[cashier[h].row].status = "PENDING"
       /\ repayment[cashier[h].row].charge = "success"
       /\ repayment[cashier[h].row].number = cashier[h].number
       /\ cashier[h].paid <= Booked(cashier[h].number)
  /\ \A g, h \in Cashiers : Completes(g) /\ Completes(h) /\ cashier[g].row = cashier[h].row => g = h

\* What the books say of every instalment, however requests overlap.
BooksHold ==
  /\ \A i \in 1..Months : paidIn[i] <= Booked(i)
  /\ \A r \in Repayments : repayment[r].status = "PAID" => repayment[r].charge = "success"

\* An instalment whose repayments never overlapped has one request or one open
\* row at a time, for exactly what is still owed.
InTurn(i) ==
  /\ paidIn[i] = Booked(i) /\ paidIn[i] <= Owed(i)
  /\ \A g, h \in BusyWith(i) : g = h
  /\ \A q, r \in OpenRows(i) : q = r
  /\ \A r \in OpenRows(i) : repayment[r].amount = Owed(i) - paidIn[i]
  /\ \A h \in BusyWith(i) :
       IF Completes(h) THEN cashier[h].paid = paidIn[i]
       ELSE OpenRows(i) = {} /\ cashier[h].paid = Owed(i) - paidIn[i]

FinancingInv ==
  /\ FinancingTypeOK /\ OneLoan /\ NothingRepaid /\ CompletionsHold /\ BooksHold
  /\ Confirmed # {} => \A i \in 1..Months : i \in racing \/ InTurn(i)

\* The instalments of a loan are amounts, they add up, and rounding goes to the last.
LEMMA PlanAddsUp ==
  ASSUME NEW p \in Nat
  PROVE  /\ \A i \in 1..Months : Instalment(p, i) \in Nat
         /\ SumFunction([i \in 1..Months |-> Instalment(p, i)]) = TotalPayable(p)
         /\ Instalment(p, Months) - Instalment(p, 1) \in 0..(Months - 1)
<1>1. PICK t \in Nat : t = TotalPayable(p)
  <2>1. p * (100 + Rate) + 50 \in Nat
    BY FinancingAssumption
  <2>2. PICK n \in Nat : n = p * (100 + Rate) + 50
    BY <2>1
  <2>3. n \div 100 \in Nat
    OBVIOUS
  <2>4. QED BY <2>2, <2>3 DEF TotalPayable
<1>2. PICK m \in Nat : m = MonthlyAmount(p) /\ Months * m <= t /\ t < Months * m + Months
  BY <1>1, FinancingAssumption, Division DEF MonthlyAmount
<1>3. PICK s \in Nat : s = m * (Months - 1)
  <2>1. Months - 1 \in Nat
    BY FinancingAssumption
  <2>2. QED BY <2>1
<1>4. Months * m = s + m
  BY <1>3, FinancingAssumption, SMT
<1>5. \A i \in 1..Months : Instalment(p, i) = IF i < Months THEN m ELSE t - s
  BY <1>1, <1>2, <1>3 DEF Instalment
<1>6. t - s \in Nat /\ m <= t - s /\ t - s < m + Months
  BY <1>2, <1>3, <1>4, FinancingAssumption
<1>7. \A i \in 1..Months : Instalment(p, i) \in Nat
  BY <1>5, <1>6
<1>8. Instalment(p, Months) - Instalment(p, 1) \in 0..(Months - 1)
  <2>1. 1 \in 1..Months /\ Months \in 1..Months
    BY FinancingAssumption
  <2>2. Instalment(p, Months) = t - s /\ Instalment(p, 1) = IF 1 < Months THEN m ELSE t - s
    BY <1>5, <2>1, FinancingAssumption
  <2>3. QED BY <1>6, <2>2, FinancingAssumption
<1>9. SumFunction([i \in 1..Months |-> Instalment(p, i)]) = t
  <2>1. PICK f : f = [i \in 1..Months |-> Instalment(p, i)]
    OBVIOUS
  <2>2. \A i \in 1..Months : f[i] \in Int
    BY <1>7, <2>1
  <2>3. PICK R : R = (1..Months) \ {Months}
    OBVIOUS
  <2>4. Months \in 1..Months /\ IsFiniteSet(1..Months) /\ Cardinality(1..Months) = Months
    BY FinancingAssumption, FS_Interval
  <2>5. IsFiniteSet(R) /\ Cardinality(R) = Months - 1
    BY <2>3, <2>4, FS_RemoveElement
  <2>6. \A i \in R : f[i] = m
    BY <1>5, <2>1, <2>3, FinancingAssumption
  <2>7. SumFunctionOnSet(f, R) = m * Cardinality(R)
    BY <2>5, <2>6, SumConstant
  <2>8. SumFunctionOnSet(f, 1..Months) = f[Months] + SumFunctionOnSet(f, R)
    BY <2>2, <2>3, <2>4, SumRemove
  <2>9. f[Months] = t - s
    BY <1>5, <2>1, <2>4, FinancingAssumption
  <2>10. SumFunction(f) = SumFunctionOnSet(f, 1..Months)
    BY <2>1 DEF SumFunction
  <2>11. QED BY <1>3, <2>1, <2>5, <2>7, <2>8, <2>9, <2>10
<1>10. QED BY <1>1, <1>7, <1>8, <1>9

\* What is owed on the loan is an amount.
LEMMA OwedIsNat ==
  ASSUME FinancingTypeOK, Confirmed # {}, NEW i \in 1..Months
  PROVE  Owed(i) \in Nat
<1>1. PICK a : a = CHOOSE b \in Confirmed : TRUE
  OBVIOUS
<1>2. a \in LoanRequests
  BY <1>1 DEF Confirmed
<1>3. loanRequest[a].financed \in Nat
  BY <1>2 DEF FinancingTypeOK, LoanRows
<1>4. QED BY <1>1, <1>3, PlanAddsUp DEF Owed

\* Booked is an amount, of what the rows are now and of what they become.
LEMMA BookedIsNat ==
  ASSUME FinancingTypeOK, NEW i \in 1..Months
  PROVE  Booked(i) \in Nat
<1>1. PICK f : f = [r \in Repayments |->
        IF r \in {q \in Repayments : repayment[q].status = "PAID"} /\ repayment[r].number = i
        THEN repayment[r].amount ELSE 0]
  OBVIOUS
<1>2. \A r \in Repayments : repayment[r].amount \in Nat
  BY DEF FinancingTypeOK, RepaymentRows
<1>3. f \in [Repayments -> Nat]
  BY <1>1, <1>2
<1>4. QED BY <1>1, <1>3, FinancingAssumption, SumFunctionIsNat DEF Booked, SumOver

\* Rows that are not PAID, before and after, do not count.
LEMMA BookedStays ==
  ASSUME \A r \in Repayments :
           \/ repayment'[r] = repayment[r]
           \/ repayment[r].status # "PAID" /\ repayment'[r].status # "PAID"
  PROVE  \A i \in 1..Months : Booked(i)' = Booked(i)
<1> SUFFICES ASSUME NEW i \in 1..Months PROVE Booked(i)' = Booked(i)
  OBVIOUS
<1>1. [r \in Repayments |->
         IF r \in {q \in Repayments : repayment[q].status = "PAID"} /\ repayment[r].number = i
         THEN repayment[r].amount ELSE 0]'
      = [r \in Repayments |->
         IF r \in {q \in Repayments : repayment[q].status = "PAID"} /\ repayment[r].number = i
         THEN repayment[r].amount ELSE 0]
  OBVIOUS
<1>2. QED BY <1>1 DEF Booked, SumOver

\* A row that becomes PAID counts for its instalment.
LEMMA BookedGrows ==
  ASSUME FinancingTypeOK, FinancingTypeOK', NEW r \in Repayments,
         repayment[r].status = "PENDING", repayment' = [repayment EXCEPT ![r].status = "PAID"]
  PROVE  \A i \in 1..Months :
           Booked(i)' = Booked(i) + (IF i = repayment[r].number THEN repayment[r].amount ELSE 0)
<1> SUFFICES ASSUME NEW i \in 1..Months
             PROVE  Booked(i)' = Booked(i) + (IF i = repayment[r].number THEN repayment[r].amount ELSE 0)
  OBVIOUS
<1>1. PICK f : f = [q \in Repayments |->
        IF q \in {s \in Repayments : repayment[s].status = "PAID"} /\ repayment[q].number = i
        THEN repayment[q].amount ELSE 0]
  OBVIOUS
<1>2. PICK g : g = [q \in Repayments |->
        IF q \in {s \in Repayments : repayment'[s].status = "PAID"} /\ repayment'[q].number = i
        THEN repayment'[q].amount ELSE 0]
  OBVIOUS
<1>3. \A q \in Repayments : repayment[q].amount \in Nat
  BY DEF FinancingTypeOK, RepaymentRows
<1>4. repayment'[r].status = "PAID" /\ repayment'[r].number = repayment[r].number
      /\ repayment'[r].amount = repayment[r].amount
  BY DEF FinancingTypeOK, RepaymentRows
<1>5. \A q \in Repayments \ {r} : repayment'[q] = repayment[q]
  BY DEF FinancingTypeOK
<1>6. \A q \in Repayments \ {r} : g[q] = f[q]
  BY <1>1, <1>2, <1>5
<1>7. f[r] = 0 /\ g[r] = IF i = repayment[r].number THEN repayment[r].amount ELSE 0
  BY <1>1, <1>2, <1>4
<1>8. f \in [Repayments -> Int]
  BY <1>1, <1>3
<1>9. g \in [Repayments -> Int]
  BY <1>2, <1>3, <1>6, <1>7, <1>8
<1>10. SumFunction(g) = SumFunction(f) - f[r] + g[r]
  BY <1>6, <1>8, <1>9, FinancingAssumption, SumFunctionDiffersAt
<1>11. SumFunction(f) \in Int /\ g[r] \in Int
  BY <1>8, <1>9, FinancingAssumption, SumFunctionIsInt
<1>12. Booked(i) = SumFunction(f)
  BY <1>1 DEF Booked, SumOver
<1>13. Booked(i)' = SumFunction(g)
  BY <1>2 DEF Booked, SumOver
<1>14. QED BY <1>7, <1>10, <1>11, <1>12, <1>13

\* Nothing about an instalment has changed.
LEMMA StaysInTurn ==
  ASSUME NEW i \in 1..Months, InTurn(i),
         paidIn'[i] = paidIn[i], Booked(i)' = Booked(i), Owed(i)' = Owed(i),
         BusyWith(i)' = BusyWith(i), OpenRows(i)' = OpenRows(i),
         \A h \in BusyWith(i) : cashier'[h] = cashier[h],
         \A r \in OpenRows(i) : repayment'[r].amount = repayment[r].amount
  PROVE  InTurn(i)'
BY DEF InTurn, Completes

\* The loan is not touched by repayments.
LEMMA LoanStays ==
  ASSUME FinancingInv, UNCHANGED loanRequest
  PROVE  /\ Confirmed' = Confirmed /\ OneLoan'
         /\ \A i \in 1..Months : Owed(i)' = Owed(i)
BY DEF FinancingInv, OneLoan, Confirmed, HoldsCart, Owed

\* There is a loan as soon as somebody is at the desk or a row exists.
LEMMA LoanExists ==
  ASSUME FinancingInv, \/ \E h \in Cashiers : cashier[h].step # "away"
                       \/ \E r \in Repayments : repayment[r].charge # "none"
  PROVE  Confirmed # {}
BY DEF FinancingInv, NothingRepaid, Away, NoRepayment

\* An application changes while there is no loan; if it becomes one, nothing is paid yet.
LEMMA LoanMoves ==
  ASSUME FinancingInv, Confirmed = {}, OneLoan',
         loanRequest' \in [LoanRequests -> LoanRows], cartTotal' \in CartTotals,
         UNCHANGED <<paidIn, repayment, cashier>>
  PROVE  FinancingInv'
<1>1. /\ \A h \in Cashiers : cashier[h] = Away
      /\ \A r \in Repayments : repayment[r] = NoRepayment
      /\ \A i \in 1..Months : paidIn[i] = 0
  BY DEF FinancingInv, NothingRepaid
<1>2. FinancingTypeOK'
  BY DEF FinancingInv, FinancingTypeOK
<1>3. \A i \in 1..Months : Booked(i)' = Booked(i)
  BY DEF Booked, SumOver
<1>4. CompletionsHold' /\ NothingRepaid'
  BY <1>1 DEF CompletionsHold, NothingRepaid, Completes, Away
<1>5. BooksHold'
  BY <1>3 DEF FinancingInv, BooksHold
<1>6. ASSUME NEW i \in 1..Months PROVE Booked(i) = 0
  <2>1. PICK f : f = [r \in Repayments |->
          IF r \in {q \in Repayments : repayment[q].status = "PAID"} /\ repayment[r].number = i
          THEN repayment[r].amount ELSE 0]
    OBVIOUS
  <2>2. \A r \in Repayments : f[r] = 0
    BY <1>1, <2>1 DEF NoRepayment
  <2>3. f \in [Repayments -> Int]
    BY <2>1, <2>2
  <2>4. SumFunction(f) = 0
    BY <2>2, <2>3, FinancingAssumption, SumFunctionZero
  <2>5. QED BY <2>1, <2>4 DEF Booked, SumOver
<1>7. ASSUME Confirmed' # {}, NEW i \in 1..Months PROVE InTurn(i)'
  <2>1. Owed(i)' \in Nat
    <3>1. PICK a : a = CHOOSE b \in Confirmed' : TRUE
      OBVIOUS
    <3>2. a \in Confirmed'
      BY <1>7, <3>1
    <3>3. loanRequest'[a].financed \in Nat
      BY <3>2 DEF LoanRows, Confirmed
    <3>4. Instalment(loanRequest'[a].financed, i) \in Nat
      BY <3>3, PlanAddsUp
    <3>5. QED BY <3>1, <3>4 DEF Owed
  <2>2. BusyWith(i)' = {} /\ OpenRows(i)' = {}
    BY <1>1 DEF BusyWith, OpenRows, Away, NoRepayment
  <2>3. paidIn'[i] = 0 /\ Booked(i)' = 0
    BY <1>1, <1>3, <1>6
  <2>4. QED BY <2>1, <2>2, <2>3 DEF InTurn
<1>8. QED BY <1>2, <1>4, <1>5, <1>7 DEF FinancingInv

\* Applications are made, reviewed, cancelled and confirmed.
LEMMA LoansKeep ==
  ASSUME FinancingInv, NEW a \in LoanRequests,
         \/ ApplyForLoan(a) \/ CancelLoan(a)
         \/ \E decision \in {"APPROVED", "REJECTED"} : ReviewLoan(a, decision)
         \/ \E start \in StartDates : ConfirmLoan(a, start)
  PROVE  FinancingInv'
<1>0. /\ loanRequest \in [LoanRequests -> LoanRows] /\ cartTotal \in Nat /\ cartTotal \in CartTotals
      /\ \A b \in LoanRequests : loanRequest[b] \in LoanRows
  BY FinancingAssumption DEF FinancingInv, FinancingTypeOK
<1>1. ASSUME NEW rec \in LoanRows, SetRequest(a, rec), UNCHANGED cartTotal, Confirmed = {},
             rec.status \in {"PENDING_REVIEW", "APPROVED", "CONFIRMED"}
               => \A b \in LoanRequests \ {a} : ~HoldsCart(b),
             rec.status = "CONFIRMED" => rec.financed = rec.quote,
             rec.groups = IF rec.status = "CONFIRMED" THEN 1 ELSE 0
      PROVE  FinancingInv'
  <2>1. /\ loanRequest' = [loanRequest EXCEPT ![a] = rec]
        /\ UNCHANGED <<paidIn, repayment, cashier>>
    BY <1>1 DEF SetRequest
  <2>2. loanRequest' \in [LoanRequests -> LoanRows] /\ loanRequest'[a] = rec
        /\ \A b \in LoanRequests \ {a} : loanRequest'[b] = loanRequest[b]
    BY <1>0, <2>1
  <2>3. \A b \in LoanRequests \ {a} : b \notin Confirmed' /\ (HoldsCart(b)' <=> HoldsCart(b))
    BY <1>1, <2>2 DEF Confirmed, HoldsCart
  <2>4. \A b \in Confirmed' : loanRequest'[b].financed = loanRequest'[b].quote
    BY <1>1, <2>2, <2>3 DEF Confirmed
  <2>5. HoldsCart(a)' \/ a \in Confirmed' => \A b \in LoanRequests \ {a} : ~HoldsCart(b)
    BY <1>1, <2>2 DEF Confirmed, HoldsCart
  <2>6. \A b, c \in LoanRequests :
          (HoldsCart(b)' \/ b \in Confirmed') /\ (HoldsCart(c)' \/ c \in Confirmed') => b = c
    BY <2>3, <2>5 DEF FinancingInv, OneLoan
  <2>7. \A b \in LoanRequests :
          loanRequest'[b].groups = IF b \in Confirmed' THEN 1 ELSE 0
    <3>1. loanRequest'[a].groups = IF a \in Confirmed' THEN 1 ELSE 0
      BY <1>1, <2>2 DEF Confirmed
    <3>2. ASSUME NEW b \in LoanRequests \ {a}
          PROVE  loanRequest'[b].groups = IF b \in Confirmed' THEN 1 ELSE 0
      <4>1. loanRequest[b].groups = 0
        BY <1>1 DEF FinancingInv, OneLoan
      <4>2. QED BY <2>2, <2>3, <4>1
    <3>3. QED BY <3>1, <3>2
  <2>8. OneLoan'
    BY <2>4, <2>6, <2>7 DEF OneLoan
  <2>9. QED BY <1>0, <1>1, <2>1, <2>2, <2>8, LoanMoves
<1>2. HoldsCart(a) => Confirmed = {} /\ \A b \in LoanRequests \ {a} : ~HoldsCart(b)
  <2> SUFFICES ASSUME HoldsCart(a) PROVE Confirmed = {} /\ \A b \in LoanRequests \ {a} : ~HoldsCart(b)
    OBVIOUS
  <2>1. \A b \in LoanRequests : HoldsCart(b) \/ b \in Confirmed => b = a
    BY DEF FinancingInv, OneLoan
  <2>2. a \notin Confirmed /\ Confirmed \subseteq LoanRequests
    BY DEF HoldsCart, Confirmed
  <2>3. QED BY <2>1, <2>2
<1>3. ASSUME ApplyForLoan(a) PROVE FinancingInv'
  <2>1. PICK rec : rec = [NoRequest EXCEPT !.status = "PENDING_REVIEW", !.quote = cartTotal]
    OBVIOUS
  <2>2. <<0, 1>> \in Nat \X (1..31)
    OBVIOUS
  <2>3. NoRequest \in LoanRows
    BY <2>2 DEF NoRequest, LoanRows
  <2>4. rec \in LoanRows /\ rec.status = "PENDING_REVIEW" /\ rec.groups = 0
    <3>1. rec \in LoanRows /\ rec.status = "PENDING_REVIEW" /\ rec.groups = NoRequest.groups
      BY <1>0, <2>1, <2>3 DEF LoanRows
    <3>2. QED BY <3>1 DEF NoRequest
  <2>5. SetRequest(a, rec) /\ UNCHANGED cartTotal /\ Confirmed = {} /\ CartIsFree
    BY <1>3, <2>1 DEF ApplyForLoan
  <2>6. QED BY <1>1, <2>4, <2>5 DEF CartIsFree
<1>4. ASSUME NEW status \in {"APPROVED", "REJECTED", "CANCELLED"}, HoldsCart(a), UNCHANGED cartTotal,
             SetRequest(a, [loanRequest[a] EXCEPT !.status = status])
      PROVE  FinancingInv'
  <2>1. PICK rec : rec = [loanRequest[a] EXCEPT !.status = status]
    OBVIOUS
  <2>2. rec \in LoanRows /\ rec.status = status /\ rec.groups = loanRequest[a].groups
    BY <1>0, <2>1 DEF LoanRows
  <2>3. loanRequest[a].groups = 0
    BY <1>2, <1>4 DEF FinancingInv, OneLoan
  <2>4. QED BY <1>1, <1>2, <1>4, <2>1, <2>2, <2>3
<1>5. ASSUME CancelLoan(a) PROVE FinancingInv'
  BY <1>4, <1>5 DEF CancelLoan
<1>6. ASSUME NEW decision \in {"APPROVED", "REJECTED"}, ReviewLoan(a, decision) PROVE FinancingInv'
  BY <1>4, <1>6 DEF ReviewLoan, HoldsCart
<1>7. ASSUME NEW start \in StartDates, ConfirmLoan(a, start) PROVE FinancingInv'
  <2>1. PICK old \in LoanRows : old = loanRequest[a]
    BY <1>0
  <2>2. PICK rec : rec = [old EXCEPT !.status = "CONFIRMED", !.financed = cartTotal,
                                     !.groups = old.groups + 1, !.start = start]
    OBVIOUS
  <2>3. start \in Nat \X (1..31) /\ old.groups + 1 \in Nat
    BY <2>1, FinancingAssumption DEF LoanRows
  <2>4. rec \in LoanRows /\ rec.status = "CONFIRMED" /\ rec.financed = cartTotal /\ rec.quote = old.quote
    BY <1>0, <2>1, <2>2, <2>3 DEF LoanRows
  <2>5. /\ SetRequest(a, rec) /\ UNCHANGED cartTotal /\ cartTotal = old.quote
        /\ old.status = "APPROVED"
    BY <1>7, <2>1, <2>2 DEF ConfirmLoan, SamePrice
  <2>6. HoldsCart(a)
    BY <2>1, <2>5 DEF HoldsCart
  <2>7. rec.groups = 1
    <3>1. old.groups = 0
      BY <1>2, <2>1, <2>6 DEF FinancingInv, OneLoan
    <3>2. rec.groups = old.groups + 1
      BY <2>1, <2>2 DEF LoanRows
    <3>3. QED BY <3>1, <3>2
  <2>8. QED BY <1>1, <1>2, <2>4, <2>5, <2>6, <2>7
<1>8. QED BY <1>3, <1>5, <1>6, <1>7

\* The cart, the plan and ordinary checkouts change.
LEMMA CartEditsKeep ==
  ASSUME FinancingInv, EditCart \/ SavePlan \/ OrdinaryCheckout
  PROVE  FinancingInv'
<1>1. /\ Confirmed = {} /\ UNCHANGED <<loanRequest, paidIn, repayment, cashier>>
      /\ cartTotal' \in CartTotals
  BY DEF EditCart, SavePlan, OrdinaryCheckout, FinancingInv, FinancingTypeOK
<1>2. loanRequest' \in [LoanRequests -> LoanRows]
  BY <1>1 DEF FinancingInv, FinancingTypeOK
<1>3. QED BY <1>1, <1>2, LoanStays, LoanMoves

-----------------------------------------------------------------------------
\* A cashier moves on; the rows and the amounts paid do not change.
LEMMA DeskMoves ==
  ASSUME FinancingInv, NEW h \in Cashiers, NEW k \in AtTheDesk, Confirmed # {},
         cashier' = [cashier EXCEPT ![h] = k],
         UNCHANGED <<cartTotal, loanRequest, paidIn, repayment>>, racing \subseteq racing',
         k.step = "complete" =>
           /\ k.row \in Repayments
           /\ repayment[k.row].status = "PENDING" /\ repayment[k.row].charge = "success"
           /\ repayment[k.row].number = k.number
           /\ k.paid = paidIn[k.number]
           /\ \A g \in Cashiers : Completes(g) => cashier[g].row # k.row,
         k.step # "away" => cashier[h].step = "away",
         ASSUME k.number \notin racing', InTurn(k.number), k.step # "away"
         PROVE  /\ BusyWith(k.number) = {}
                /\ k.step # "complete" => /\ OpenRows(k.number) = {}
                                          /\ k.paid = Owed(k.number) - paidIn[k.number]
  PROVE  FinancingInv'
<1>0. /\ cashier' \in [Cashiers -> AtTheDesk] /\ cashier'[h] = k
      /\ \A g \in Cashiers \ {h} : cashier'[g] = cashier[g]
      /\ FinancingTypeOK /\ k.number \in 1..Months
  BY DEF FinancingInv, FinancingTypeOK, AtTheDesk
<1>1. /\ Confirmed' = Confirmed /\ OneLoan'
      /\ \A i \in 1..Months : Owed(i)' = Owed(i) /\ Booked(i)' = Booked(i)
      /\ \A i \in 1..Months : OpenRows(i)' = OpenRows(i)
  <2>1. \A i \in 1..Months : Booked(i)' = Booked(i) /\ OpenRows(i)' = OpenRows(i)
    BY DEF Booked, SumOver, OpenRows
  <2>2. QED BY <2>1, LoanStays
<1>2. FinancingTypeOK'
  BY <1>0 DEF FinancingTypeOK
<1>3. NothingRepaid'
  BY <1>1 DEF NothingRepaid
<1>4. BooksHold'
  BY <1>1 DEF FinancingInv, BooksHold
<1>5. CompletionsHold'
  <2>1. ASSUME NEW g \in Cashiers, Completes(g)'
        PROVE  /\ cashier'[g].row \in Repayments
               /\ repayment'[cashier'[g].row].status = "PENDING"
               /\ repayment'[cashier'[g].row].charge = "success"
               /\ repayment'[cashier'[g].row].number = cashier'[g].number
               /\ cashier'[g].paid <= Booked(cashier[g].number)'
    <3>1. CASE g = h
      <4>1. k.step = "complete"
        BY <1>0, <2>1, <3>1 DEF Completes
      <4>2. paidIn[k.number] <= Booked(k.number) /\ Booked(k.number)' = Booked(k.number)
        BY <1>0, <1>1 DEF FinancingInv, BooksHold
      <4>3. Booked(cashier[g].number)' = Booked(k.number)'
        BY <1>0, <3>1 DEF Booked, SumOver
      <4>4. QED BY <1>0, <3>1, <4>1, <4>2, <4>3
    <3>2. CASE g # h
      <4>1. cashier'[g] = cashier[g] /\ Completes(g)
        BY <1>0, <2>1, <3>2 DEF Completes
      <4>2. cashier[g].number \in 1..Months
        BY <1>0 DEF FinancingTypeOK, AtTheDesk
      <4>3. Booked(cashier[g].number)' = Booked(cashier[g].number)
        BY <4>1 DEF Booked, SumOver
      <4>4. QED BY <4>1, <4>3 DEF FinancingInv, CompletionsHold
    <3>3. QED BY <3>1, <3>2
  <2>2. ASSUME NEW f \in Cashiers, NEW g \in Cashiers, Completes(f)', Completes(g)',
               cashier'[f].row = cashier'[g].row
        PROVE  f = g
    BY <1>0, <2>2 DEF FinancingInv, CompletionsHold, Completes
  <2>3. QED BY <2>1, <2>2 DEF CompletionsHold
<1>6. ASSUME NEW i \in 1..Months, i \notin racing' PROVE InTurn(i)'
  <2>1. InTurn(i)
    BY <1>6 DEF FinancingInv
  <2>2. BusyWith(i) \ {h} = BusyWith(i)' \ {h}
    BY <1>0 DEF BusyWith
  <2>3. \A g \in BusyWith(i) \ {h} : cashier'[g] = cashier[g]
    BY <1>0 DEF BusyWith
  <2>4. h \in BusyWith(i)' <=> k.step # "away" /\ k.number = i
    BY <1>0 DEF BusyWith
  <2>5. CASE k.step # "away" /\ k.number = i
    <3>1. BusyWith(i) = {}
      BY <1>6, <2>1, <2>5
    <3>2. BusyWith(i)' = {h}
      BY <2>2, <2>4, <2>5, <3>1
    <3>3. IF Completes(h)' THEN k.paid = paidIn[i]
          ELSE OpenRows(i) = {} /\ k.paid = Owed(i) - paidIn[i]
      BY <1>0, <1>6, <2>1, <2>5 DEF Completes
    <3>4. QED BY <1>0, <1>1, <2>1, <3>2, <3>3 DEF InTurn
  <2>6. CASE ~(k.step # "away" /\ k.number = i)
    <3>1. BusyWith(i)' \subseteq BusyWith(i) /\ h \notin BusyWith(i)'
      BY <2>2, <2>4, <2>6
    <3>2. \A g \in BusyWith(i)' : g \in BusyWith(i) /\ cashier'[g] = cashier[g]
      BY <2>3, <3>1
    <3>3. QED BY <1>1, <2>1, <3>2 DEF InTurn, Completes
  <2>7. QED BY <2>5, <2>6
<1>7. QED BY <1>1, <1>2, <1>3, <1>4, <1>5, <1>6 DEF FinancingInv

\* A customer turns to an instalment, alone or noted as racing.
LEMMA PayKeeps ==
  ASSUME FinancingInv, NEW h \in Cashiers, NEW i \in 1..Months, NEW way \in {"card", "wallet"},
         PayRead(h, i, way)
  PROVE  FinancingInv'
<1>0. /\ cashier[h] = Away /\ Confirmed # {} /\ paidIn[i] < Owed(i)
      /\ racing' = IF OpenRows(i) \cup BusyWith(i) # {} THEN racing \cup {i} ELSE racing
      /\ UNCHANGED <<cartTotal, loanRequest, paidIn, repayment>>
      /\ paidIn[i] \in Nat /\ FinancingTypeOK
  <2>1. paidIn[i] \in Nat /\ FinancingTypeOK
    BY DEF FinancingInv, FinancingTypeOK
  <2>2. Confirmed # {} => Owed(i) \in Nat
    BY <2>1, OwedIsNat
  <2>3. QED BY <2>1, <2>2 DEF PayRead, Payable, FullyPaid
<1>1. PICK owed \in Nat : owed = Owed(i)
  BY <1>0, OwedIsNat
<1>2. PICK k : k = [Away EXCEPT !.step = way, !.number = i, !.paid = owed - paidIn[i]]
  OBVIOUS
<1>3. k \in AtTheDesk /\ k.step = way /\ k.number = i /\ k.paid = owed - paidIn[i]
  <2>1. owed - paidIn[i] \in Nat
    BY <1>0, <1>1
  <2>2. QED BY <1>2, <2>1 DEF Away, AtTheDesk
<1>4. cashier' = [cashier EXCEPT ![h] = k]
  BY <1>1, <1>2 DEF PayRead
<1>5. racing \subseteq racing' /\ (i \notin racing' => OpenRows(i) = {} /\ BusyWith(i) = {})
  BY <1>0
<1>6. cashier[h].step = "away"
  BY <1>0 DEF Away
<1>7. QED BY <1>0, <1>1, <1>3, <1>4, <1>5, <1>6, DeskMoves

\* A row changes that is not PAID and becomes neither PAID nor PENDING again.
LEMMA RowMoves ==
  ASSUME FinancingInv, NEW r \in Repayments, NEW rec \in RepaymentRows,
         repayment' = [repayment EXCEPT ![r] = rec],
         repayment[r].charge \in {"open", "failed"},
         rec.number = repayment[r].number, rec.amount = repayment[r].amount,
         rec.status \in {repayment[r].status, "FAILED"},
         UNCHANGED <<cartTotal, loanRequest, paidIn, cashier, racing>>
  PROVE  FinancingInv'
<1>0. /\ repayment' \in [Repayments -> RepaymentRows] /\ repayment'[r] = rec
      /\ \A q \in Repayments \ {r} : repayment'[q] = repayment[q]
      /\ FinancingTypeOK
  BY DEF FinancingInv, FinancingTypeOK
<1>1. Confirmed' = Confirmed /\ OneLoan' /\ \A i \in 1..Months : Owed(i)' = Owed(i)
  BY LoanStays
<1>2. Confirmed # {}
  BY LoanExists
<1>3. repayment[r].status # "PAID" /\ rec.status # "PAID"
  BY DEF FinancingInv, BooksHold
<1>4. \A i \in 1..Months : Booked(i)' = Booked(i)
  <2>1. \A q \in Repayments :
          \/ repayment'[q] = repayment[q]
          \/ repayment[q].status # "PAID" /\ repayment'[q].status # "PAID"
    BY <1>0, <1>3
  <2>2. QED BY <2>1, BookedStays
<1>5. \A h \in Cashiers : Completes(h) => cashier[h].row # r
  BY DEF FinancingInv, CompletionsHold
<1>6. FinancingTypeOK'
  BY <1>0 DEF FinancingTypeOK
<1>7. NothingRepaid'
  BY <1>1, <1>2 DEF NothingRepaid
<1>8. CompletionsHold'
  <2>1. ASSUME NEW h \in Cashiers, Completes(h)'
        PROVE  /\ cashier'[h].row \in Repayments
               /\ repayment'[cashier'[h].row].status = "PENDING"
               /\ repayment'[cashier'[h].row].charge = "success"
               /\ repayment'[cashier'[h].row].number = cashier'[h].number
               /\ cashier'[h].paid <= Booked(cashier[h].number)'
    <3>1. Completes(h) /\ cashier'[h] = cashier[h]
      BY <2>1 DEF Completes
    <3>2. cashier[h].number \in 1..Months
      BY <1>0 DEF FinancingTypeOK, AtTheDesk
    <3>3. Booked(cashier[h].number)' = Booked(cashier[h].number)
      <4>1. PICK n \in 1..Months : n = cashier[h].number
        BY <3>2
      <4>2. Booked(n)' = Booked(n)
        BY <1>4
      <4>3. QED BY <3>1, <4>1, <4>2 DEF Booked, SumOver
    <3>4. QED BY <1>0, <1>5, <3>1, <3>3 DEF FinancingInv, CompletionsHold
  <2>2. ASSUME NEW f \in Cashiers, NEW g \in Cashiers, Completes(f)', Completes(g)',
               cashier'[f].row = cashier'[g].row
        PROVE  f = g
    BY <2>2 DEF FinancingInv, CompletionsHold, Completes
  <2>3. QED BY <2>1, <2>2 DEF CompletionsHold
<1>9. BooksHold'
  BY <1>0, <1>3, <1>4 DEF FinancingInv, BooksHold
<1>10. ASSUME NEW i \in 1..Months, i \notin racing' PROVE InTurn(i)'
  <2>1. InTurn(i)
    BY <1>2, <1>10 DEF FinancingInv
  <2>2. OpenRows(i)' \subseteq OpenRows(i)
    BY <1>0 DEF OpenRows
  <2>3. \A q \in OpenRows(i)' : repayment'[q].amount = repayment[q].amount
    BY <1>0 DEF OpenRows
  <2>4. BusyWith(i)' = BusyWith(i) /\ \A h \in BusyWith(i) : cashier'[h] = cashier[h]
    BY DEF BusyWith
  <2>5. paidIn'[i] = paidIn[i] /\ Owed(i)' = Owed(i) /\ Booked(i)' = Booked(i)
    BY <1>1, <1>4
  <2>6. QED BY <2>1, <2>2, <2>3, <2>4, <2>5 DEF InTurn, Completes
<1>11. QED BY <1>1, <1>6, <1>7, <1>8, <1>9, <1>10 DEF FinancingInv

\* Paystack settles a charge.
LEMMA SettlesKeeps ==
  ASSUME FinancingInv, NEW r \in Repayments, NEW outcome \in {"success", "failed"},
         CardSettles(r, outcome)
  PROVE  FinancingInv'
<1>1. PICK old \in RepaymentRows : old = repayment[r]
  BY DEF FinancingInv, FinancingTypeOK
<1>2. PICK rec : rec = [old EXCEPT !.charge = outcome]
  OBVIOUS
<1>3. rec \in RepaymentRows /\ rec.status = old.status /\ rec.number = old.number /\ rec.amount = old.amount
  BY <1>1, <1>2 DEF RepaymentRows
<1>4. repayment' = [repayment EXCEPT ![r] = rec] /\ old.charge = "open"
      /\ UNCHANGED <<cartTotal, loanRequest, paidIn, cashier, racing>>
  BY <1>1, <1>2 DEF CardSettles
<1>5. QED BY <1>1, <1>3, <1>4, RowMoves

\* A settled charge is seen, and fails or goes to completion.
LEMMA VerifyKeeps ==
  ASSUME FinancingInv, NEW h \in Cashiers, NEW r \in Repayments, VerifyRepayment(h, r)
  PROVE  FinancingInv'
<1>0. /\ cashier[h] = Away /\ repayment[r].charge \in {"success", "failed"}
      /\ repayment[r].status = "PENDING" /\ FinancingTypeOK
      /\ \A g \in Cashiers : Completes(g) => cashier[g].row # r
      /\ UNCHANGED <<cartTotal, loanRequest, paidIn, racing>>
  BY DEF VerifyRepayment, Unsettled, Completes, FinancingInv
<1>1. PICK old \in RepaymentRows : old = repayment[r]
  BY <1>0 DEF FinancingTypeOK
<1>2. CASE ChargeFailed(r)
  <2>1. PICK rec : rec = [old EXCEPT !.status = "FAILED"]
    OBVIOUS
  <2>2. rec \in RepaymentRows /\ rec.status = "FAILED" /\ rec.number = old.number /\ rec.amount = old.amount
    BY <1>1, <2>1 DEF RepaymentRows
  <2>3. repayment' = [repayment EXCEPT ![r] = rec] /\ old.charge = "failed" /\ UNCHANGED cashier
    BY <1>1, <1>2, <2>1 DEF VerifyRepayment, ChargeFailed
  <2>4. QED BY <1>0, <1>1, <2>2, <2>3, RowMoves
<1>3. CASE ~ ChargeFailed(r)
  <2>1. PICK i \in 1..Months : i = old.number
    BY <1>1 DEF RepaymentRows
  <2>2. PICK k : k = [Away EXCEPT !.step = "complete", !.number = i, !.row = r, !.paid = paidIn[i]]
    OBVIOUS
  <2>3. paidIn[i] \in Nat
    BY <1>0 DEF FinancingTypeOK
  <2>4. k \in AtTheDesk /\ k.step = "complete" /\ k.number = i /\ k.row = r /\ k.paid = paidIn[i]
    BY <2>2, <2>3 DEF Away, AtTheDesk
  <2>5. cashier' = [cashier EXCEPT ![h] = k] /\ UNCHANGED repayment
    BY <1>1, <1>3, <2>1, <2>2 DEF VerifyRepayment
  <2>6. repayment[r].charge = "success" /\ cashier[h].step = "away"
    BY <1>0, <1>3 DEF ChargeFailed, Away
  <2>7. Confirmed # {}
    BY <1>0, LoanExists
  <2>8. ASSUME InTurn(i) PROVE BusyWith(i) = {}
    <3> SUFFICES ASSUME NEW g \in BusyWith(i) PROVE FALSE
      OBVIOUS
    <3>1. r \in OpenRows(i)
      BY <1>0, <1>1, <2>1 DEF OpenRows
    <3>2. Completes(g) /\ g \in Cashiers /\ cashier[g].number = i
      BY <2>8, <3>1 DEF InTurn, BusyWith
    <3>3. cashier[g].row \in OpenRows(i)
      BY <3>2 DEF FinancingInv, CompletionsHold, OpenRows
    <3>4. cashier[g].row = r
      BY <2>8, <3>1, <3>3 DEF InTurn
    <3>5. QED BY <1>0, <3>2, <3>4
  <2>9. QED BY <1>0, <1>1, <2>1, <2>4, <2>5, <2>6, <2>7, <2>8, DeskMoves
<1>4. QED BY <1>2, <1>3

\* A row is made, and a payment from the wallet goes on to complete it.
LEMMA RepaymentStarts ==
  ASSUME FinancingInv, NEW h \in Cashiers, NEW r \in Repayments, StartRepayment(h, r)
  PROVE  FinancingInv'
<1>0. /\ cashier[h].step \in {"card", "wallet"} /\ repayment[r].status = "none"
      /\ cashier[h] \in AtTheDesk /\ FinancingTypeOK
      /\ UNCHANGED <<cartTotal, loanRequest, paidIn, racing>>
  BY DEF StartRepayment, FinancingInv, FinancingTypeOK
<1>1. PICK i \in 1..Months, due \in Nat : i = cashier[h].number /\ due = cashier[h].paid
  BY <1>0 DEF AtTheDesk
<1>2. PICK rec : rec = [status |-> "PENDING", number |-> i, amount |-> due,
                        charge |-> IF cashier[h].step = "card" THEN "open" ELSE "success"]
  OBVIOUS
<1>3. rec \in RepaymentRows /\ rec.status = "PENDING" /\ rec.number = i /\ rec.amount = due
      /\ (cashier[h].step = "wallet" => rec.charge = "success")
  BY <1>0, <1>1, <1>2 DEF RepaymentRows
<1>4. PICK k : k = IF cashier[h].step = "card" THEN Away
                   ELSE [cashier[h] EXCEPT !.step = "complete", !.row = r, !.paid = paidIn[i]]
  OBVIOUS
<1>5. /\ k \in AtTheDesk
      /\ \/ k.step = "away"
         \/ /\ k.step = "complete" /\ cashier[h].step = "wallet"
            /\ k.number = i /\ k.row = r /\ k.paid = paidIn[i]
  <2>1. paidIn[i] \in Nat
    BY <1>0 DEF FinancingTypeOK
  <2>2. CASE cashier[h].step = "card"
    <3>1. 1 \in 1..Months
      BY FinancingAssumption
    <3>2. QED BY <1>4, <2>2, <3>1 DEF Away, AtTheDesk
  <2>3. CASE cashier[h].step = "wallet"
    BY <1>0, <1>1, <1>4, <2>1, <2>3 DEF AtTheDesk
  <2>4. QED BY <1>0, <2>2, <2>3
<1>6. /\ repayment' = [repayment EXCEPT ![r] = rec] /\ cashier' = [cashier EXCEPT ![h] = k]
  <2>1. repayment' = [repayment EXCEPT ![r] = rec]
    BY <1>1, <1>2 DEF StartRepayment
  <2>2. cashier' = [cashier EXCEPT ![h] =
          IF cashier[h].step = "card" THEN Away
          ELSE [cashier[h] EXCEPT !.step = "complete", !.row = r, !.paid = paidIn[i]]]
    BY <1>0, <1>1 DEF StartRepayment, FinancingTypeOK
  <2>3. QED BY <1>4, <2>1, <2>2
<1>7. /\ repayment' \in [Repayments -> RepaymentRows] /\ repayment'[r] = rec
      /\ \A q \in Repayments \ {r} : repayment'[q] = repayment[q]
      /\ cashier' \in [Cashiers -> AtTheDesk] /\ cashier'[h] = k
      /\ \A g \in Cashiers \ {h} : cashier'[g] = cashier[g]
  BY <1>0, <1>3, <1>5, <1>6 DEF FinancingTypeOK
<1>8. Confirmed' = Confirmed /\ OneLoan' /\ \A j \in 1..Months : Owed(j)' = Owed(j)
  BY <1>0, LoanStays
<1>9. Confirmed # {}
  BY <1>0, LoanExists
<1>10. \A j \in 1..Months : Booked(j)' = Booked(j)
  <2>1. \A q \in Repayments :
          \/ repayment'[q] = repayment[q]
          \/ repayment[q].status # "PAID" /\ repayment'[q].status # "PAID"
    BY <1>0, <1>3, <1>7
  <2>2. QED BY <2>1, BookedStays
<1>11. \A g \in Cashiers : Completes(g) => cashier[g].row # r
  BY <1>0 DEF FinancingInv, CompletionsHold
<1>12. FinancingTypeOK' /\ NothingRepaid'
  BY <1>0, <1>7, <1>8, <1>9 DEF FinancingTypeOK, NothingRepaid
<1>13. CompletionsHold'
  <2>1. ASSUME NEW g \in Cashiers, Completes(g)'
        PROVE  /\ cashier'[g].row \in Repayments
               /\ repayment'[cashier'[g].row].status = "PENDING"
               /\ repayment'[cashier'[g].row].charge = "success"
               /\ repayment'[cashier'[g].row].number = cashier'[g].number
               /\ cashier'[g].paid <= Booked(cashier[g].number)'
    <3>1. CASE g = h
      <4>1. k.step = "complete" /\ k.number = i /\ k.row = r /\ k.paid = paidIn[i]
            /\ cashier[h].step = "wallet" /\ cashier'[g] = k
        BY <1>5, <1>7, <2>1, <3>1 DEF Completes
      <4>2. paidIn[i] <= Booked(i) /\ Booked(i)' = Booked(i)
        BY <1>10 DEF FinancingInv, BooksHold
      <4>3. Booked(cashier[g].number)' = Booked(i)'
        BY <4>1 DEF Booked, SumOver
      <4>4. QED BY <1>3, <1>7, <4>1, <4>2, <4>3
    <3>2. CASE g # h
      <4>1. cashier'[g] = cashier[g] /\ Completes(g)
        BY <1>7, <2>1, <3>2 DEF Completes
      <4>2. PICK n \in 1..Months : n = cashier[g].number
        BY <1>0 DEF FinancingTypeOK, AtTheDesk
      <4>3. Booked(cashier[g].number)' = Booked(n)' /\ Booked(cashier[g].number) = Booked(n)
        BY <4>1, <4>2 DEF Booked, SumOver
      <4>4. Booked(n)' = Booked(n)
        BY <1>10
      <4>5. QED BY <1>7, <1>11, <4>1, <4>3, <4>4 DEF FinancingInv, CompletionsHold
    <3>3. QED BY <3>1, <3>2
  <2>2. ASSUME NEW f \in Cashiers, NEW g \in Cashiers, Completes(f)', Completes(g)',
               cashier'[f].row = cashier'[g].row
        PROVE  f = g
    BY <1>5, <1>7, <1>11, <2>2 DEF FinancingInv, CompletionsHold, Completes
  <2>3. QED BY <2>1, <2>2 DEF CompletionsHold
<1>14. BooksHold'
  BY <1>0, <1>3, <1>7, <1>10 DEF FinancingInv, BooksHold
<1>15. ASSUME NEW j \in 1..Months, j \notin racing' PROVE InTurn(j)'
  <2>1. InTurn(j)
    BY <1>0, <1>9, <1>15 DEF FinancingInv
  <2>2. paidIn'[j] = paidIn[j] /\ Owed(j)' = Owed(j) /\ Booked(j)' = Booked(j)
    BY <1>0, <1>8, <1>10
  <2>3. CASE j = i
    <3>1. h \in BusyWith(i) /\ ~Completes(h)
      BY <1>0, <1>1 DEF BusyWith, Completes
    <3>2. OpenRows(i) = {} /\ due = Owed(i) - paidIn[i] /\ \A g \in BusyWith(i) : g = h
      BY <1>1, <2>1, <2>3, <3>1 DEF InTurn
    <3>3. OpenRows(i)' = {r}
      BY <1>3, <1>7, <3>2 DEF OpenRows
    <3>4. \A g \in BusyWith(i)' : g = h
      BY <1>7, <3>2 DEF BusyWith
    <3>5. \A g \in BusyWith(i)' : k.step # "away"
      BY <1>7, <3>4 DEF BusyWith
    <3>6. \A g \in BusyWith(i)' : Completes(g)' /\ cashier'[g].paid = paidIn'[i]
      BY <1>0, <1>5, <1>7, <3>4, <3>5 DEF Completes
    <3>7. QED BY <1>3, <1>7, <2>1, <2>2, <2>3, <3>2, <3>3, <3>4, <3>6 DEF InTurn
  <2>4. CASE j # i
    <3>1. OpenRows(j)' = OpenRows(j)
      BY <1>0, <1>3, <1>7, <2>4 DEF OpenRows
    <3>2. BusyWith(j)' = BusyWith(j) /\ \A g \in BusyWith(j) : cashier'[g] = cashier[g]
      BY <1>1, <1>5, <1>7, <2>4 DEF BusyWith
    <3>3. \A q \in OpenRows(j) : repayment'[q].amount = repayment[q].amount
      BY <1>0, <1>7 DEF OpenRows
    <3>4. QED BY <2>1, <2>2, <3>1, <3>2, <3>3, StaysInTurn
  <2>5. QED BY <2>3, <2>4
<1>16. QED BY <1>8, <1>12, <1>13, <1>14, <1>15 DEF FinancingInv

\* A repayment is completed: what was read plus the amount of the row.
LEMMA CompleteKeeps ==
  ASSUME FinancingInv, NEW h \in Cashiers, CompleteRepayment(h)
  PROVE  FinancingInv'
<1>0. /\ Completes(h) /\ cashier' = [cashier EXCEPT ![h] = Away]
      /\ UNCHANGED <<cartTotal, loanRequest, racing>>
      /\ cashier[h] \in AtTheDesk /\ FinancingTypeOK
  BY DEF CompleteRepayment, Completes, FinancingInv, FinancingTypeOK
<1>1. PICK r \in Repayments, i \in 1..Months :
        /\ r = cashier[h].row /\ i = cashier[h].number
        /\ repayment[r].status = "PENDING" /\ repayment[r].charge = "success"
        /\ repayment[r].number = i
  BY <1>0 DEF FinancingInv, CompletionsHold, AtTheDesk
<1>2. PICK n \in Nat, due \in Nat, p \in Nat :
        n = cashier[h].paid /\ due = repayment[r].amount /\ p = paidIn[i]
  BY <1>0 DEF AtTheDesk, FinancingTypeOK, RepaymentRows
<1>3. paidIn' = [paidIn EXCEPT ![i] = n + due] /\ repayment' = [repayment EXCEPT ![r].status = "PAID"]
  BY <1>1, <1>2 DEF CompleteRepayment
<1>4. n <= Booked(i)
  <2>1. cashier[h].paid <= Booked(cashier[h].number)
    BY <1>0 DEF FinancingInv, CompletionsHold
  <2>2. QED BY <1>1, <1>2, <2>1
<1>5. /\ repayment' \in [Repayments -> RepaymentRows]
      /\ repayment'[r].status = "PAID" /\ repayment'[r].charge = "success"
      /\ \A q \in Repayments \ {r} : repayment'[q] = repayment[q]
  BY <1>0, <1>1, <1>3 DEF FinancingTypeOK, RepaymentRows
<1>6. /\ paidIn' \in [1..Months -> Nat] /\ paidIn'[i] = n + due
      /\ \A j \in 1..Months \ {i} : paidIn'[j] = paidIn[j]
  BY <1>0, <1>3 DEF FinancingTypeOK
<1>7. Away \in AtTheDesk /\ Away.step = "away"
  <2>1. 1 \in 1..Months
    BY FinancingAssumption
  <2>2. QED BY <2>1 DEF Away, AtTheDesk
<1>8. /\ cashier' \in [Cashiers -> AtTheDesk] /\ cashier'[h] = Away
      /\ \A g \in Cashiers \ {h} : cashier'[g] = cashier[g]
  BY <1>0, <1>7 DEF FinancingTypeOK
<1>9. FinancingTypeOK'
  BY <1>0, <1>5, <1>6, <1>8 DEF FinancingTypeOK
<1>10. Confirmed' = Confirmed /\ OneLoan' /\ \A j \in 1..Months : Owed(j)' = Owed(j)
  BY <1>0, LoanStays
<1>11. Confirmed # {}
  BY <1>0, LoanExists DEF Completes
<1>12. \A j \in 1..Months : Booked(j)' = Booked(j) + (IF j = i THEN due ELSE 0)
  BY <1>0, <1>1, <1>2, <1>3, <1>9, BookedGrows
<1>13. \A j \in 1..Months : Booked(j) \in Nat
  BY <1>0, BookedIsNat
<1>14. CompletionsHold'
  <2>1. ASSUME NEW g \in Cashiers, Completes(g)'
        PROVE  /\ g # h /\ Completes(g) /\ cashier'[g] = cashier[g] /\ cashier[g].row # r
    BY <1>0, <1>1, <1>7, <1>8, <2>1 DEF Completes, FinancingInv, CompletionsHold
  <2>2. ASSUME NEW g \in Cashiers, Completes(g)'
        PROVE  /\ cashier'[g].row \in Repayments
               /\ repayment'[cashier'[g].row].status = "PENDING"
               /\ repayment'[cashier'[g].row].charge = "success"
               /\ repayment'[cashier'[g].row].number = cashier'[g].number
               /\ cashier'[g].paid <= Booked(cashier[g].number)'
    <3>1. cashier'[g] = cashier[g] /\ Completes(g) /\ cashier[g].row # r
      BY <2>1, <2>2
    <3>2. PICK j \in 1..Months, paid \in Nat : j = cashier[g].number /\ paid = cashier[g].paid
      BY <1>0 DEF FinancingTypeOK, AtTheDesk
    <3>3. Booked(cashier[g].number)' = Booked(j)' /\ Booked(cashier[g].number) = Booked(j)
      BY <3>1, <3>2 DEF Booked, SumOver
    <3>4. /\ cashier[g].row \in Repayments
          /\ repayment[cashier[g].row].status = "PENDING"
          /\ repayment[cashier[g].row].charge = "success"
          /\ repayment[cashier[g].row].number = cashier[g].number
          /\ paid <= Booked(j)
      BY <3>1, <3>2, <3>3 DEF FinancingInv, CompletionsHold
    <3>5. paid <= Booked(j)'
      BY <1>12, <1>13, <3>2, <3>4
    <3>6. QED BY <1>5, <3>1, <3>2, <3>3, <3>4, <3>5
  <2>3. ASSUME NEW f \in Cashiers, NEW g \in Cashiers, Completes(f)', Completes(g)',
               cashier'[f].row = cashier'[g].row
        PROVE  f = g
    BY <2>1, <2>3 DEF FinancingInv, CompletionsHold
  <2>4. QED BY <2>2, <2>3 DEF CompletionsHold
<1>15. BooksHold'
  <2>1. ASSUME NEW j \in 1..Months PROVE paidIn'[j] <= Booked(j)'
    <3>1. CASE j = i
      BY <1>4, <1>6, <1>12, <1>13, <3>1
    <3>2. CASE j # i
      <4>1. paidIn[j] <= Booked(j) /\ Booked(j)' = Booked(j)
        BY <1>12, <1>13, <3>2 DEF FinancingInv, BooksHold
      <4>2. QED BY <1>6, <3>2, <4>1
    <3>3. QED BY <3>1, <3>2
  <2>2. \A q \in Repayments : repayment'[q].status = "PAID" => repayment'[q].charge = "success"
    BY <1>5 DEF FinancingInv, BooksHold
  <2>3. QED BY <2>1, <2>2 DEF BooksHold
<1>16. ASSUME NEW j \in 1..Months, j \notin racing' PROVE InTurn(j)'
  <2>1. InTurn(j)
    BY <1>0, <1>11, <1>16 DEF FinancingInv
  <2>2. CASE j = i
    <3>1. h \in BusyWith(i) /\ r \in OpenRows(i)
      BY <1>0, <1>1 DEF BusyWith, OpenRows, Completes
    <3>2. PICK owed \in Nat : owed = Owed(i)
      BY <1>0, <1>11, OwedIsNat
    <3>3. n = p /\ due = owed - p /\ p = Booked(i)
      BY <1>0, <1>2, <2>1, <2>2, <3>1, <3>2 DEF InTurn
    <3>4. paidIn'[i] = owed /\ Booked(i)' = owed /\ Owed(i)' = owed
      BY <1>6, <1>10, <1>12, <3>2, <3>3
    <3>5. BusyWith(i)' = {}
      <4>1. \A g \in BusyWith(i) : g = h
        BY <2>1, <2>2, <3>1 DEF InTurn
      <4>2. QED BY <1>7, <1>8, <4>1 DEF BusyWith
    <3>6. OpenRows(i)' = {}
      <4>1. \A q \in OpenRows(i) : q = r
        BY <2>1, <2>2, <3>1 DEF InTurn
      <4>2. QED BY <1>5, <4>1 DEF OpenRows
    <3>7. QED BY <2>2, <3>2, <3>4, <3>5, <3>6 DEF InTurn
  <2>3. CASE j # i
    <3>1. paidIn'[j] = paidIn[j] /\ Owed(j)' = Owed(j) /\ Booked(j)' = Booked(j)
      BY <1>6, <1>10, <1>12, <1>13, <2>3
    <3>2. OpenRows(j)' = OpenRows(j) /\ \A q \in OpenRows(j) : repayment'[q].amount = repayment[q].amount
      <4>1. r \notin OpenRows(j)
        BY <1>1, <2>3 DEF OpenRows
      <4>2. r \notin OpenRows(j)'
        BY <1>5 DEF OpenRows
      <4>3. QED BY <1>5, <4>1, <4>2 DEF OpenRows
    <3>3. BusyWith(j)' = BusyWith(j) /\ \A g \in BusyWith(j) : cashier'[g] = cashier[g]
      BY <1>1, <1>7, <1>8, <2>3 DEF BusyWith
    <3>4. QED BY <2>1, <3>1, <3>2, <3>3, StaysInTurn
  <2>4. QED BY <2>2, <2>3
<1>17. NothingRepaid'
  BY <1>10, <1>11 DEF NothingRepaid
<1>18. QED BY <1>9, <1>10, <1>14, <1>15, <1>16, <1>17 DEF FinancingInv

-----------------------------------------------------------------------------
\* The invariant holds at first.
LEMMA FinancingStarts == FinancingInit => FinancingInv
<1> SUFFICES ASSUME FinancingInit PROVE FinancingInv
  OBVIOUS
<1>1. 1 \in 1..Months /\ <<0, 1>> \in Nat \X (1..31)
  BY FinancingAssumption
<1>2. NoRequest \in LoanRows /\ NoRepayment \in RepaymentRows /\ Away \in AtTheDesk
  BY <1>1 DEF NoRequest, LoanRows, NoRepayment, RepaymentRows, Away, AtTheDesk
<1>3. FinancingTypeOK
  BY <1>2 DEF FinancingInit, FinancingTypeOK
<1>4. Confirmed = {} /\ \A a \in LoanRequests : ~HoldsCart(a) /\ loanRequest[a].groups = 0
  BY DEF FinancingInit, Confirmed, HoldsCart, NoRequest
<1>5. OneLoan
  BY <1>4 DEF OneLoan
<1>6. NothingRepaid /\ CompletionsHold
  BY DEF FinancingInit, NothingRepaid, CompletionsHold, Completes, Away
<1>7. BooksHold
  <2>1. ASSUME NEW i \in 1..Months PROVE paidIn[i] <= Booked(i)
    BY <1>3, BookedIsNat DEF FinancingInit
  <2>2. QED BY <2>1 DEF FinancingInit, BooksHold, NoRepayment
<1>8. QED BY <1>3, <1>4, <1>5, <1>6, <1>7 DEF FinancingInv

\* PAID rows are covered by charges that succeeded.
LEMMA BookedIsReceived ==
  ASSUME FinancingInv, NEW i \in 1..Months
  PROVE  Booked(i) <= Received(i) /\ Received(i) \in Int /\ Booked(i) \in Int
<1>1. PICK f : f = [r \in Repayments |->
        IF r \in {q \in Repayments : repayment[q].status = "PAID"} /\ repayment[r].number = i
        THEN repayment[r].amount ELSE 0]
  OBVIOUS
<1>2. PICK g : g = [r \in Repayments |->
        IF r \in {q \in Repayments : repayment[q].charge = "success"} /\ repayment[r].number = i
        THEN repayment[r].amount ELSE 0]
  OBVIOUS
<1>3. \A r \in Repayments : repayment[r].amount \in Nat
                            /\ (repayment[r].status = "PAID" => repayment[r].charge = "success")
  BY DEF FinancingInv, FinancingTypeOK, RepaymentRows, BooksHold
<1>4. \A r \in Repayments : f[r] \in Int /\ g[r] \in Int /\ f[r] <= g[r]
  BY <1>1, <1>2, <1>3
<1>5. /\ SumFunctionOnSet(f, Repayments) <= SumFunctionOnSet(g, Repayments)
      /\ SumFunctionOnSet(f, Repayments) \in Int /\ SumFunctionOnSet(g, Repayments) \in Int
  BY <1>4, FinancingAssumption, SumMonotone, SumIsInt
<1>6. Booked(i) = SumFunctionOnSet(f, Repayments) /\ Received(i) = SumFunctionOnSet(g, Repayments)
  BY <1>1, <1>2 DEF Booked, Received, SumOver, SumFunction
<1>7. QED BY <1>5, <1>6

\* Whatever else the customer and his requests do meanwhile, what is financed
\* is what was approved, the plan adds up to it, an instalment is credited for
\* the repayments made, once each and no further than it goes unless two of
\* them overlapped, and it is never taken for paid without the money.
THEOREM LoansCorrect == FinancingSpec => []LoansAreHonoured
<1>1. FinancingInit => FinancingInv
  BY FinancingStarts
<1>2. FinancingInv /\ [FinancingNext]_financingVars => FinancingInv'
  <2> SUFFICES ASSUME FinancingInv, [FinancingNext]_financingVars PROVE FinancingInv'
    OBVIOUS
  <2>1. CASE EditCart \/ SavePlan \/ OrdinaryCheckout
    BY <2>1, CartEditsKeep
  <2>2. ASSUME NEW a \in LoanRequests,
               \/ ApplyForLoan(a) \/ CancelLoan(a)
               \/ \E decision \in {"APPROVED", "REJECTED"} : ReviewLoan(a, decision)
               \/ \E start \in StartDates : ConfirmLoan(a, start)
        PROVE  FinancingInv'
    BY <2>2, LoansKeep
  <2>3. ASSUME NEW h \in Cashiers, NEW i \in 1..Months, NEW way \in {"card", "wallet"},
               PayRead(h, i, way)
        PROVE  FinancingInv'
    BY <2>3, PayKeeps
  <2>4. ASSUME NEW h \in Cashiers, NEW r \in Repayments, StartRepayment(h, r)
        PROVE  FinancingInv'
    BY <2>4, RepaymentStarts
  <2>5. ASSUME NEW h \in Cashiers, NEW r \in Repayments, VerifyRepayment(h, r)
        PROVE  FinancingInv'
    BY <2>5, VerifyKeeps
  <2>6. ASSUME NEW h \in Cashiers, CompleteRepayment(h) PROVE FinancingInv'
    BY <2>6, CompleteKeeps
  <2>7. ASSUME NEW r \in Repayments, NEW outcome \in {"success", "failed"}, CardSettles(r, outcome)
        PROVE  FinancingInv'
    BY <2>7, SettlesKeeps
  <2>8. CASE UNCHANGED financingVars
    <3>1. UNCHANGED <<cartTotal, loanRequest, paidIn, repayment, cashier, racing>>
      BY <2>8 DEF financingVars
    <3>2. /\ Confirmed' = Confirmed /\ OneLoan'
          /\ \A i \in 1..Months : Owed(i)' = Owed(i)
      BY <3>1, LoanStays
    <3>3. FinancingTypeOK' /\ NothingRepaid'
      BY <3>1, <3>2 DEF FinancingInv, FinancingTypeOK, NothingRepaid
    <3>4. CompletionsHold' /\ BooksHold'
      BY <3>1 DEF FinancingInv, CompletionsHold, BooksHold, Completes, Booked, SumOver
    <3>5. \A i \in 1..Months : InTurn(i) => InTurn(i)'
      BY <3>1, <3>2 DEF InTurn, BusyWith, OpenRows, Completes, Booked, SumOver
    <3>6. QED BY <3>1, <3>2, <3>3, <3>4, <3>5 DEF FinancingInv
  <2>9. QED BY <2>1, <2>2, <2>3, <2>4, <2>5, <2>6, <2>7, <2>8 DEF FinancingNext
<1>3. FinancingInv => LoansAreHonoured
  <2> SUFFICES ASSUME FinancingInv PROVE LoansAreHonoured
    OBVIOUS
  <2>1. FinancedAsApproved
    BY DEF FinancingInv, OneLoan, FinancedAsApproved
  <2>2. PlanIsExact
    <3> SUFFICES ASSUME NEW a \in Confirmed
                 PROVE  LET p == loanRequest[a].financed
                            due == [i \in 1..Months |-> DueDate(loanRequest[a].start, i)] IN
                        /\ SumFunction([i \in 1..Months |-> Instalment(p, i)]) = TotalPayable(p)
                        /\ Instalment(p, Months) - Instalment(p, 1) \in 0..(Months - 1)
                        /\ \A i \in 1..Months : due[i][1] = loanRequest[a].start[1] + i
                                                /\ due[i][2] \in 1..MonthLength(due[i][1])
      BY DEF PlanIsExact
    <3>1. loanRequest[a] \in LoanRows
      BY DEF FinancingInv, FinancingTypeOK, Confirmed
    <3>2. PICK p \in Nat, m \in Nat, d \in 1..31 :
            p = loanRequest[a].financed /\ loanRequest[a].start = <<m, d>>
      BY <3>1 DEF LoanRows
    <3>3. /\ SumFunction([i \in 1..Months |-> Instalment(p, i)]) = TotalPayable(p)
          /\ Instalment(p, Months) - Instalment(p, 1) \in 0..(Months - 1)
      BY PlanAddsUp
    <3>4. ASSUME NEW i \in 1..Months
          PROVE  /\ DueDate(loanRequest[a].start, i)[1] = m + i
                 /\ DueDate(loanRequest[a].start, i)[2] \in 1..MonthLength(m + i)
      <4>1. PICK l \in Nat : l = MonthLength(m + i) /\ l >= 28
        BY DEF MonthLength
      <4>2. DueDate(<<m, d>>, i) = <<m + i, IF d > l THEN l ELSE d>>
        BY <4>1 DEF DueDate
      <4>3. (IF d > l THEN l ELSE d) \in 1..l
        BY <4>1
      <4>4. QED BY <3>2, <4>1, <4>2, <4>3
    <3>5. QED BY <3>2, <3>3, <3>4
  <2>3. RepaidOnce
    BY DEF FinancingInv, RepaidOnce, InTurn
  <2>4. PaidIsCovered
    <3> SUFFICES ASSUME Confirmed # {}, NEW i \in 1..Months, FullyPaid(i)
                 PROVE  Received(i) >= Owed(i)
      BY DEF PaidIsCovered
    <3>1. paidIn[i] \in Nat /\ FinancingTypeOK /\ paidIn[i] <= Booked(i)
      BY DEF FinancingInv, FinancingTypeOK, BooksHold
    <3>2. Owed(i) \in Nat
      BY <3>1, OwedIsNat
    <3>3. QED BY <3>1, <3>2, BookedIsReceived DEF FullyPaid
  <2>5. QED BY <2>1, <2>2, <2>3, <2>4 DEF LoansAreHonoured
<1>4. QED BY <1>1, <1>2, <1>3, PTL DEF FinancingSpec
=============================================================================
