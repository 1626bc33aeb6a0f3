------------------------- MODULE CheckoutPayments -------------------------
(***************************************************************************)
(* The life of a checkout payment group: stock reserved from the cart, a   *)
(* charge opened with Paystack or a loan with Klump (or the wallet         *)
(* debited), verification by webhook, by the five-minute reconciliation or *)
(* by the customer, cancellation, late payments and order cancellation.    *)
(*                                                                         *)
(* Every database transaction is one step.  The exception is the           *)
(* transaction of PaymentsService.cancel, which is two: CartService.lock   *)
(* takes the user lock and fixes the MySQL snapshot, and only then is the  *)
(* group row locked and read.  PaymentsService.initialize writes the group *)
(* without the user lock, so it can run between the two.  SnapshotReads    *)
(* says what the second half reads: the snapshot (REPEATABLE READ, the     *)
(* default the code runs with) or the committed rows.                      *)
(*                                                                         *)
(* Every other transaction of the group takes the user row first (FOR      *)
(* UPDATE in CartService.lock, or shared, by the foreign key of the rows   *)
(* it inserts) and so waits for CartLocked to clear.                       *)
(*                                                                         *)
(* A store sells one offer, so an order is the line of one store.  The     *)
(* promotions consumed on completion and the delivery, pickup and QR rows  *)
(* of an order are outside this module.                                    *)
(***************************************************************************)
EXTENDS Integers, FiniteSets, Functions

CONSTANTS
    Users, Stores,
    Groups,          \* ids of checkout payment groups
    Owner,           \* the user each id would belong to
    NoGroup,         \* the job of an idle handler
    Methods,         \* payment methods offered
    Handlers,        \* concurrent requests, webhook deliveries and timers
    InitStock, InitWallet,
    Price(_, _),     \* total of one store's order in a cart of these quantities,
                     \* its fee and its share of the discounts included
    MaxQty,          \* bound: units of one cart line
    MaxCalls,        \* bound: concurrent calls to initialize one group
    MaxFaults,       \* bound: crashes, aborted transactions, provider errors
    SnapshotReads

PaystackMethods == {"CARD", "BANK_TRANSFER"}
AllMethods == PaystackMethods \cup {"KLUMP_BNPL", "WALLET"}
Quantities == [Stores -> 0..MaxQty]

ASSUME CheckoutAssumption ==
    /\ Owner \in [Groups -> Users]
    /\ NoGroup \notin Groups
    /\ Methods \subseteq AllMethods
    /\ InitStock \in Nat /\ InitWallet \in Nat
    /\ MaxQty \in Nat /\ MaxCalls \in Nat /\ MaxFaults \in Nat
    /\ \A q \in Quantities, s \in Stores :
          Price(q, s) \in Nat /\ (q[s] = 0 => Price(q, s) = 0)
    /\ IsFiniteSet(Groups) /\ IsFiniteSet(Stores)
    /\ SnapshotReads \in BOOLEAN

\* The quote's total: the totals of its orders.
Amount(q) == SumFunction([s \in Stores |-> Price(q, s)])

VARIABLES
    stock,      \* StoreProduct.stockQuantity
    cart,       \* CartItem.quantity, 0 when there is no line
    wallet,     \* Wallet.balance
    items,      \* OrderItem.quantity, by group and store
    lines,      \* lines of cartSnapshot whose cart item still exists
    method,     \* CheckoutPaymentGroup.paymentMethod
    group,      \* CheckoutPaymentGroup.status
    order,      \* Order.currentStatus
    payment,    \* Payment.status
    link,       \* the way to pay: initializingUntil, paymentUrl, instructions
    calls,      \* calls of initialize waiting for Paystack
    charge,     \* external: the transaction at Paystack
    loan,       \* external: the transaction at Klump
    refund,     \* Refund.status
    settled,    \* StoreWalletTransaction: the credit and its reversal
    outbox,     \* OrderConfirmationOutbox rows
    event,      \* PaymentWebhookEvent of charge.success
    task,       \* what each handler is doing
    faults

shop == <<stock, cart, wallet>>
checkout == <<items, lines, method, group, order>>
provider == <<link, calls, charge, loan>>
books == <<refund, settled, outbox>>
vars == <<shop, checkout, payment, provider, books, event, task, faults>>

-----------------------------------------------------------------------------
GroupStatus == {"none", "PENDING", "PROCESSING", "PAID", "FAILED"}
OrderStatus == {"none", "ORDER_RECEIVED", "CONFIRMED", "CANCELLED"}
PaymentStatus ==
    {"none", "PENDING", "PAID", "FAILED", "PARTIALLY_REFUNDED", "REFUNDED"}
RefundStatus == {"none", "PENDING", "MANUAL_REVIEW", "SUCCEEDED"}
SettlementStatus == {"none", "CREDITED", "REVERSED"}
ChargeStatus == {"none", "open", "success", "failed"}
Answers == {"none", "success", "failed", "error", "REFUND_PENDING"} \cup PaymentStatus

Unpaid == {"PENDING", "PROCESSING"}
Captured == {"PAID", "PARTIALLY_REFUNDED", "REFUNDED"}

Task == [pc: {"idle", "commit", "respond", "cancelTx", "cancelLocked"},
         job: Groups \cup {NoGroup},
         by: {"none", "webhook", "poll", "cancel"},
         answer: Answers,
         sawGroup: GroupStatus,
         sawPayment: PaymentStatus]

Doing(pc, g, by, answer) ==
    [pc |-> pc, job |-> g, by |-> by, answer |-> answer,
     sawGroup |-> "none", sawPayment |-> "none"]

Idle == Doing("idle", NoGroup, "none", "none")

TypeOK ==
    /\ stock \in [Stores -> Int]
    /\ cart \in [Users -> Quantities]
    /\ wallet \in [Users -> Int]
    /\ items \in [Groups -> Quantities]
    /\ lines \in [Groups -> SUBSET Stores]
    /\ method \in [Groups -> Methods \cup {"none"}]
    /\ group \in [Groups -> GroupStatus]
    /\ order \in [Groups -> [Stores -> OrderStatus]]
    /\ payment \in [Groups -> PaymentStatus]
    /\ link \in [Groups -> {"none", "initializing", "ready"}]
    /\ calls \in [Groups -> 0..MaxCalls]
    /\ charge \in [Groups -> ChargeStatus]
    /\ loan \in [Groups -> {"none", "open", "success"}]
    /\ refund \in [Groups -> [Stores -> RefundStatus]]
    /\ settled \in [Groups -> [Stores -> SettlementStatus]]
    /\ outbox \in [Groups -> SUBSET Stores]
    /\ event \in [Groups -> {"none", "unprocessed", "processed"}]
    /\ task \in [Handlers -> Task]
    /\ \A h \in Handlers : task[h].pc # "idle" => task[h].job \in Groups
    /\ faults \in 0..MaxFaults

NoItems == [s \in Stores |-> 0]

Init ==
    /\ stock = [s \in Stores |-> InitStock]
    /\ cart = [u \in Users |-> NoItems]
    /\ wallet = [u \in Users |-> InitWallet]
    /\ items = [g \in Groups |-> NoItems]
    /\ lines = [g \in Groups |-> {}]
    /\ method = [g \in Groups |-> "none"]
    /\ group = [g \in Groups |-> "none"]
    /\ order = [g \in Groups |-> [s \in Stores |-> "none"]]
    /\ payment = [g \in Groups |-> "none"]
    /\ link = [g \in Groups |-> "none"]
    /\ calls = [g \in Groups |-> 0]
    /\ charge = [g \in Groups |-> "none"]
    /\ loan = [g \in Groups |-> "none"]
    /\ refund = [g \in Groups |-> [s \in Stores |-> "none"]]
    /\ settled = [g \in Groups |-> [s \in Stores |-> "none"]]
    /\ outbox = [g \in Groups |-> {}]
    /\ event = [g \in Groups |-> "none"]
    /\ task = [h \in Handlers |-> Idle]
    /\ faults = 0

-----------------------------------------------------------------------------
\* Definitions called "Faulty..." are plausible mistakes in the operator that
\* follows them.  No specification uses them; they show which properties notice.
FaultyCartLocked(u) == FALSE

\* The user row is held by the open transaction of PaymentsService.cancel.
CartLocked(u) ==
    \E h \in Handlers : task[h].pc = "cancelLocked" /\ Owner[task[h].job] = u

OrdersOf(g) == {s \in Stores : order[g][s] # "none"}

\* checkoutPaymentGroup.activeCartId is set exactly while the group is unpaid.
ActiveGroup(g) == group[g] \in Unpaid

CompletedOrders(orders) ==
    [s \in Stores |-> IF orders[s] = "ORDER_RECEIVED" THEN "CONFIRMED" ELSE orders[s]]

\* settleOrder: one credit per order, keyed by the unique ledger reference.
SettledOrders(orders, credits) ==
    [s \in Stores |-> IF orders[s] = "ORDER_RECEIVED" /\ credits[s] = "none"
                      THEN "CREDITED" ELSE credits[s]]

\* Purchased units leave the lines that were quoted; the rest of the cart stays.
CartLeft(quantities, bought, quoted) ==
    [s \in Stores |-> IF s \notin quoted THEN quantities[s]
                      ELSE IF quantities[s] <= bought[s] THEN 0
                      ELSE quantities[s] - bought[s]]

\* A cart line that is deleted loses the id the snapshots refer to.
LinesLeft(u, quantities) ==
    [g \in Groups |-> IF Owner[g] = u THEN {s \in lines[g] : quantities[s] > 0}
                      ELSE lines[g]]

-----------------------------------------------------------------------------
(***************************************************************************)
(* The cart.  A line keeps its id while its quantity changes.              *)
(***************************************************************************)
SetCart(u, quantities) ==
    /\ ~CartLocked(u)
    /\ cart' = [cart EXCEPT ![u] = quantities]
    /\ lines' = LinesLeft(u, quantities)
    /\ UNCHANGED <<stock, wallet, items, method, group, order, payment,
                   provider, books, event, task, faults>>

AddToCart(u, s) ==
    /\ cart[u][s] < MaxQty
    /\ cart[u][s] + 1 <= stock[s]
    /\ SetCart(u, [cart[u] EXCEPT ![s] = @ + 1])

UpdateQuantity(u, s, q) ==
    /\ cart[u][s] > 0
    /\ q <= stock[s]
    /\ SetCart(u, [cart[u] EXCEPT ![s] = q])

RemoveFromCart(u, s) == SetCart(u, [cart[u] EXCEPT ![s] = 0])

ClearCart(u) == SetCart(u, NoItems)

-----------------------------------------------------------------------------
(***************************************************************************)
(* CheckoutService.createInTransaction.  A wallet checkout debits, records *)
(* a PAID payment and completes the group in the same transaction.         *)
(***************************************************************************)
FaultyReservable(u) == cart[u] # NoItems

Reservable(u) ==
    /\ cart[u] # NoItems
    /\ \A s \in Stores : cart[u][s] <= stock[s]

FaultyNoActiveCheckout(u) == TRUE

NoActiveCheckout(u) == \A g \in Groups : Owner[g] = u => ~ActiveGroup(g)

Create(u, g, m) ==
    /\ Owner[g] = u /\ group[g] = "none"
    /\ ~CartLocked(u)
    /\ NoActiveCheckout(u)
    /\ Reservable(u)
    /\ m = "WALLET" => Amount(cart[u]) <= wallet[u]
    /\ LET paid == m = "WALLET"
           bought == {s \in Stores : cart[u][s] > 0}
           received == [s \in Stores |-> IF s \in bought THEN "ORDER_RECEIVED" ELSE "none"]
       IN /\ stock' = [s \in Stores |-> stock[s] - cart[u][s]]
          /\ items' = [items EXCEPT ![g] = cart[u]]
          /\ method' = [method EXCEPT ![g] = m]
          /\ group' = [group EXCEPT ![g] = IF paid THEN "PAID" ELSE "PENDING"]
          /\ order' = [order EXCEPT ![g] = IF paid THEN CompletedOrders(received) ELSE received]
          /\ settled' = IF paid THEN [settled EXCEPT ![g] = SettledOrders(received, @)] ELSE settled
          /\ outbox' = IF paid THEN [outbox EXCEPT ![g] = bought] ELSE outbox
          /\ payment' = IF paid THEN [payment EXCEPT ![g] = "PAID"] ELSE payment
          /\ wallet' = IF paid THEN [wallet EXCEPT ![u] = @ - Amount(cart[u])] ELSE wallet
          /\ cart' = IF paid THEN [cart EXCEPT ![u] = NoItems] ELSE cart
          /\ lines' = IF paid THEN LinesLeft(u, NoItems) ELSE [lines EXCEPT ![g] = bought]
    /\ UNCHANGED <<provider, refund, event, task, faults>>

-----------------------------------------------------------------------------
(***************************************************************************)
(* PaymentsService.initialize: a claim under the group lock only, then a   *)
(* call to Paystack outside any transaction.  An existing payment is       *)
(* claimed whatever its provider.  A claim whose lease lapsed can be taken *)
(* again while the first call is still out.                                *)
(***************************************************************************)
InitializeClaim(g) ==
    /\ group[g] \notin {"none", "FAILED"}
    /\ calls[g] < MaxCalls
    /\ \/ /\ payment[g] = "none"
          /\ method[g] \in PaystackMethods
          /\ payment' = [payment EXCEPT ![g] = "PENDING"]
          /\ group' = [group EXCEPT ![g] = "PROCESSING"]
       \/ /\ payment[g] \notin {"none", "PAID"} /\ link[g] # "ready"
          /\ UNCHANGED <<payment, group>>
    /\ link' = [link EXCEPT ![g] = "initializing"]
    /\ calls' = [calls EXCEPT ![g] = @ + 1]
    /\ UNCHANGED <<shop, items, lines, method, order, charge, loan, books,
                   event, task, faults>>

Opened(g) == [charge EXCEPT ![g] = IF @ = "none" THEN "open" ELSE @]

InitializeSaved(g) ==
    /\ calls[g] > 0
    /\ calls' = [calls EXCEPT ![g] = @ - 1]
    /\ charge' = Opened(g)
    /\ link' = [link EXCEPT ![g] = "ready"]
    /\ UNCHANGED <<shop, checkout, payment, loan, books, event, task, faults>>

\* The catch branch empties metadata: the lease, and with it the transfer
\* instructions another call may have stored; paymentUrl is a column of its own.
InitializeFailed(g) ==
    /\ calls[g] > 0 /\ faults < MaxFaults
    /\ faults' = faults + 1
    /\ calls' = [calls EXCEPT ![g] = @ - 1]
    /\ \/ charge' = Opened(g)
       \/ UNCHANGED charge
    /\ link' = [link EXCEPT ![g] =
                   IF @ = "ready" /\ method[g] # "BANK_TRANSFER" THEN "ready" ELSE "none"]
    /\ UNCHANGED <<shop, checkout, payment, loan, books, event, task>>

InitializeLost(g) ==
    /\ calls[g] > 0 /\ faults < MaxFaults
    /\ faults' = faults + 1
    /\ calls' = [calls EXCEPT ![g] = @ - 1]
    /\ charge' = Opened(g)
    /\ UNCHANGED <<shop, checkout, payment, link, loan, books, event, task>>

\* External: the customer pays, or an attempt fails and may be retried.
ChargeSettles(g) ==
    /\ \/ charge[g] \in {"open", "failed"} /\ charge' = [charge EXCEPT ![g] = "success"]
       \/ charge[g] = "open" /\ charge' = [charge EXCEPT ![g] = "failed"]
    /\ UNCHANGED <<shop, checkout, payment, link, calls, loan, books, event, task, faults>>

-----------------------------------------------------------------------------
(***************************************************************************)
(* PaymentsService.completeGroup and failGroup, as parts of a transaction. *)
(***************************************************************************)
FaultyCompletable(g) == group[g] # "PAID"

Completable(g) == group[g] \in Unpaid /\ \A s \in Stores : order[g][s] # "CANCELLED"

CompleteGroup(g) ==
    LET u == Owner[g]
        left == CartLeft(cart[u], items[g], lines[g])
    IN /\ order' = [order EXCEPT ![g] = CompletedOrders(@)]
       /\ settled' = [settled EXCEPT ![g] = SettledOrders(order[g], @)]
       /\ outbox' = [outbox EXCEPT ![g] = OrdersOf(g)]
       /\ cart' = [cart EXCEPT ![u] = left]
       /\ lines' = LinesLeft(u, left)
       /\ group' = [group EXCEPT ![g] = "PAID"]
       /\ UNCHANGED <<stock, wallet, items, method, refund>>

FailGroup(g) ==
    /\ stock' = [s \in Stores |-> stock[s] + items[g][s]]
    /\ order' = [order EXCEPT ![g] =
                    [s \in Stores |-> IF @[s] = "none" THEN "none" ELSE "CANCELLED"]]
    /\ group' = [group EXCEPT ![g] = "FAILED"]
    /\ UNCHANGED <<cart, wallet, items, lines, method, books>>

-----------------------------------------------------------------------------
(***************************************************************************)
(* PaymentsService.verifyReference.  The first read and Paystack's answer  *)
(* are one step: the charge cannot be captured in the books before it is   *)
(* captured at Paystack, so separating them adds no outcome.               *)
(***************************************************************************)
FaultyProviderAnswers(g) == IF charge[g] = "none" THEN {"error"} ELSE {"success"}

ProviderAnswers(g) ==
    {"error"} \cup
    CASE charge[g] = "none"    -> {}
      [] charge[g] = "open"    -> IF method[g] = "BANK_TRANSFER" /\ link[g] = "ready"
                                  THEN {payment[g], "failed"} ELSE {payment[g]}
      [] OTHER                 -> {charge[g]}

\* handleWebhook, reconcilePending or the callback and verify routes, and cancel.
MayVerify(g, by) ==
    \/ by = "webhook" /\ charge[g] = "success" /\ event[g] # "processed"
    \/ by = "poll"
    \/ by = "cancel" /\ group[g] \in Unpaid /\ payment[g] = "PENDING"

VerifyRead(h, g, by) ==
    /\ task[h].pc = "idle"
    /\ payment[g] # "none" /\ method[g] \in PaystackMethods
    /\ MayVerify(g, by)
    /\ \/ /\ payment[g] \in {"REFUNDED", "PARTIALLY_REFUNDED"}
          /\ task' = [task EXCEPT ![h] = Doing("respond", g, by, payment[g])]
          /\ UNCHANGED faults
       \/ /\ payment[g] = "PAID"   \* completeGroup refuses a released group
          /\ task' = [task EXCEPT ![h] =
                 Doing("respond", g, by, IF group[g] = "PAID" THEN "PAID" ELSE "error")]
          /\ UNCHANGED faults
       \/ /\ payment[g] \in {"PENDING", "FAILED"}
          /\ \E answer \in ProviderAnswers(g) :
                /\ task' = [task EXCEPT ![h] =
                       Doing(IF answer \in {"success", "failed"} THEN "commit" ELSE "respond",
                             g, by, answer)]
                /\ IF answer = "error" /\ charge[g] # "none"
                   THEN faults < MaxFaults /\ faults' = faults + 1
                   ELSE UNCHANGED faults
    /\ UNCHANGED <<shop, checkout, payment, provider, books, event>>

FaultyLateRefunds(g) ==
    LET first == CHOOSE s \in OrdersOf(g) : TRUE
    IN [refund[g] EXCEPT ![first] = IF @ = "none" THEN "PENDING" ELSE @]

\* The upsert of a refund for each order of a checkout paid after its release.
LateRefunds(g) ==
    [s \in Stores |-> IF s \in OrdersOf(g) /\ refund[g][s] = "none"
                      THEN "PENDING" ELSE refund[g][s]]

Answered(h, answer) ==
    task' = [task EXCEPT ![h] = Doing("respond", task[h].job, task[h].by, answer)]

\* The transaction of verifyReference: user lock, payment lock, re-read.
VerifyCommit(h) ==
    LET g == task[h].job
        succeeded == task[h].answer = "success"
        answer == IF succeeded THEN "PAID" ELSE "FAILED"
        unchangedBooks == UNCHANGED <<shop, checkout, payment, books>>
    IN /\ task[h].pc = "commit"
       /\ ~CartLocked(Owner[g])
       /\ \/ /\ payment[g] = "PAID" \/ (payment[g] = "FAILED" /\ ~succeeded)
             /\ unchangedBooks
             /\ Answered(h, answer)
          \/ /\ payment[g] = "FAILED" /\ succeeded
             /\ payment' = [payment EXCEPT ![g] = "PAID"]
             /\ refund' = [refund EXCEPT ![g] = LateRefunds(g)]
             /\ Answered(h, "REFUND_PENDING")
             /\ UNCHANGED <<shop, checkout, settled, outbox>>
          \/ /\ payment[g] \notin {"PAID", "FAILED"} /\ succeeded
             /\ \/ /\ Completable(g)
                   /\ CompleteGroup(g)
                   /\ payment' = [payment EXCEPT ![g] = "PAID"]
                   /\ Answered(h, answer)
                \/ /\ group[g] = "PAID"
                   /\ payment' = [payment EXCEPT ![g] = "PAID"]
                   /\ UNCHANGED <<shop, checkout, books>>
                   /\ Answered(h, answer)
                \/ /\ group[g] = "FAILED"      \* 'Cannot pay a released checkout.'
                   /\ unchangedBooks
                   /\ Answered(h, "error")
          \/ /\ payment[g] \notin {"PAID", "FAILED"} /\ ~succeeded
             /\ \/ /\ group[g] \in Unpaid
                   /\ FailGroup(g)
                   /\ payment' = [payment EXCEPT ![g] = "FAILED"]
                   /\ Answered(h, answer)
                \/ /\ group[g] = "FAILED"
                   /\ payment' = [payment EXCEPT ![g] = "FAILED"]
                   /\ UNCHANGED <<shop, checkout, books>>
                   /\ Answered(h, answer)
                \/ /\ group[g] = "PAID"        \* 'Paid checkouts require the refund workflow.'
                   /\ unchangedBooks
                   /\ Answered(h, "error")
       /\ UNCHANGED <<provider, event, faults>>

\* What the caller of verifyReference does with its result.
Respond(h) ==
    LET g == task[h].job
        answer == task[h].answer
    IN /\ task[h].pc = "respond"
       /\ event' = IF task[h].by = "webhook"
                   THEN [event EXCEPT ![g] = IF answer = "PAID" THEN "processed" ELSE "unprocessed"]
                   ELSE event
       /\ task' = [task EXCEPT ![h] =
              IF task[h].by = "cancel" /\ answer \notin {"PAID", "FAILED", "REFUND_PENDING", "error"}
              THEN Doing("cancelTx", g, "cancel", "none") ELSE Idle]
       /\ UNCHANGED <<shop, checkout, payment, provider, books, faults>>

-----------------------------------------------------------------------------
(***************************************************************************)
(* PaymentsService.cancel.  A Paystack payment that is not failed is       *)
(* verified first (VerifyRead with by = "cancel").                         *)
(***************************************************************************)
CancelRead(h, g) ==
    /\ task[h].pc = "idle"
    /\ group[g] \in Unpaid
    /\ payment[g] = "none" \/ (method[g] \notin PaystackMethods /\ payment[g] # "PAID")
    /\ task' = [task EXCEPT ![h] = Doing("cancelTx", g, "cancel", "none")]
    /\ UNCHANGED <<shop, checkout, payment, provider, books, event, faults>>

\* CartService.lock: the user row, and the snapshot of the transaction.
CancelLock(h) ==
    LET g == task[h].job
    IN /\ task[h].pc = "cancelTx"
       /\ ~CartLocked(Owner[g])
       /\ task' = [task EXCEPT ![h] =
              [pc |-> "cancelLocked", job |-> g, by |-> "cancel", answer |-> "none",
               sawGroup |-> group[g], sawPayment |-> payment[g]]]
       /\ UNCHANGED <<shop, checkout, payment, provider, books, event, faults>>

GroupRead(h) == IF SnapshotReads THEN task[h].sawGroup ELSE group[task[h].job]
PaymentRead(h) == IF SnapshotReads THEN task[h].sawPayment ELSE payment[task[h].job]

CancelCommit(h) ==
    LET g == task[h].job
    IN /\ task[h].pc = "cancelLocked"
       /\ IF GroupRead(h) \in {"PAID", "FAILED"} \/ PaymentRead(h) = "PAID"
          THEN UNCHANGED <<shop, checkout, payment, books>>
          ELSE /\ payment' = IF PaymentRead(h) = "none" THEN payment
                             ELSE [payment EXCEPT ![g] = "FAILED"]
               /\ FailGroup(g)
       /\ task' = [task EXCEPT ![h] = Idle]
       /\ UNCHANGED <<provider, event, faults>>

\* A crash of the process or an aborted transaction: nothing is written.
Abort(h) ==
    /\ task[h].pc # "idle" /\ faults < MaxFaults
    /\ faults' = faults + 1
    /\ \/ task' = [task EXCEPT ![h] = Idle]
       \/ task[h].pc = "commit" /\ Answered(h, "error")
    /\ UNCHANGED <<shop, checkout, payment, provider, books, event>>

-----------------------------------------------------------------------------
(***************************************************************************)
(* KlumpService: initialize, the loan, and verifyProviderTransaction.      *)
(***************************************************************************)
KlumpInitialize(g) ==
    /\ method[g] = "KLUMP_BNPL" /\ group[g] \in Unpaid /\ loan[g] = "none"
    /\ ~CartLocked(Owner[g])
    /\ loan' = [loan EXCEPT ![g] = "open"]
    /\ payment' = [payment EXCEPT ![g] = "PENDING"]
    /\ group' = [group EXCEPT ![g] = "PROCESSING"]
    /\ UNCHANGED <<shop, items, lines, method, order, link, calls, charge,
                   books, event, task, faults>>

\* External: Klump approves the customer.
LoanApproved(g) ==
    /\ loan[g] = "open"
    /\ loan' = [loan EXCEPT ![g] = "success"]
    /\ UNCHANGED <<shop, checkout, payment, link, calls, charge, books, event, task, faults>>

\* Klump's answer, with reference, amount, currency and environment matching.
LoanSucceeded(g) == loan[g] = "success"

\* A payment already FAILED is refused and left for staff: no step.
KlumpVerify(g) ==
    /\ LoanSucceeded(g)
    /\ payment[g] \notin {"PAID", "FAILED"}
    /\ ~CartLocked(Owner[g])
    /\ \/ Completable(g) /\ CompleteGroup(g)
       \/ group[g] = "PAID" /\ UNCHANGED <<shop, checkout, books>>
    /\ payment' = [payment EXCEPT ![g] = "PAID"]
    /\ UNCHANGED <<provider, event, task, faults>>

-----------------------------------------------------------------------------
(***************************************************************************)
(* OrdersService.cancel on a paid order, and the outcome of its refund.    *)
(***************************************************************************)
\* syncPaymentRefundStatus and the same sum in OrdersService.cancel: the
\* refunded amount against the payment's.  The sum may miss a sibling's refund
\* that another transaction is still committing (module Refunds).
RefundedStatus(g, s, refunds) ==
    {status \in {"PARTIALLY_REFUNDED", "REFUNDED"} :
        IF status = "REFUNDED" THEN \A t \in OrdersOf(g) : refunds[t] = "SUCCEEDED"
                               ELSE OrdersOf(g) # {s}}

RefundRecord(g) ==
    CASE method[g] = "WALLET"     -> "SUCCEEDED"
      [] method[g] = "KLUMP_BNPL" -> "MANUAL_REVIEW"
      [] OTHER                    -> "PENDING"

FaultyOrderTotal(g, s) == Amount(items[g])

OrderTotal(g, s) == Price(items[g], s)

Reversal(credit) == IF credit = "CREDITED" THEN "REVERSED" ELSE credit

CancelOrder(g, s) ==
    LET u == Owner[g]
        refunds == [refund[g] EXCEPT ![s] = IF @ = "none" THEN RefundRecord(g) ELSE @]
    IN /\ order[g][s] = "CONFIRMED"
       /\ ~CartLocked(u)
       /\ stock' = [stock EXCEPT ![s] = @ + items[g][s]]
       /\ order' = [order EXCEPT ![g][s] = "CANCELLED"]
       /\ refund' = [refund EXCEPT ![g] = refunds]
       /\ wallet' = IF method[g] = "WALLET" THEN [wallet EXCEPT ![u] = @ + OrderTotal(g, s)] ELSE wallet
       /\ IF refunds[s] = "SUCCEEDED"
          THEN \E status \in RefundedStatus(g, s, refunds) :
                  payment' = [payment EXCEPT ![g] = status]
          ELSE UNCHANGED payment
       /\ settled' = [settled EXCEPT ![g][s] = Reversal(@)]
       /\ UNCHANGED <<cart, items, lines, method, group, outbox, provider, event, task, faults>>

\* processRefund or completeManualRefund reaches SUCCEEDED.
RefundSucceeds(g, s) ==
    LET refunds == [refund[g] EXCEPT ![s] = "SUCCEEDED"]
    IN /\ refund[g][s] \in {"PENDING", "MANUAL_REVIEW"}
       /\ refund' = [refund EXCEPT ![g] = refunds]
       /\ \E status \in RefundedStatus(g, s, refunds) :
             payment' = [payment EXCEPT ![g] = status]
       /\ UNCHANGED <<shop, checkout, provider, settled, outbox, event, task, faults>>

-----------------------------------------------------------------------------
CartNext ==
    \E u \in Users :
        \/ ClearCart(u)
        \/ \E s \in Stores : AddToCart(u, s) \/ RemoveFromCart(u, s)
        \/ \E s \in Stores, q \in 1..MaxQty : UpdateQuantity(u, s, q)
        \/ \E g \in Groups, m \in Methods : Create(u, g, m)

GroupNext ==
    \E g \in Groups :
        \/ InitializeClaim(g) \/ InitializeSaved(g)
        \/ InitializeFailed(g) \/ InitializeLost(g)
        \/ ChargeSettles(g)
        \/ KlumpInitialize(g) \/ LoanApproved(g) \/ KlumpVerify(g)
        \/ \E s \in Stores : CancelOrder(g, s) \/ RefundSucceeds(g, s)

HandlerNext ==
    \E h \in Handlers :
        \/ \E g \in Groups :
              \/ CancelRead(h, g)
              \/ \E by \in {"webhook", "poll", "cancel"} : VerifyRead(h, g, by)
        \/ VerifyCommit(h) \/ Respond(h)
        \/ CancelLock(h) \/ CancelCommit(h) \/ Abort(h)

Next == CartNext \/ GroupNext \/ HandlerNext

Spec == Init /\ [][Next]_vars

(***************************************************************************)
(* Fairness.  Every request runs to its end (the timeouts of the           *)
(* transactions bound them, and MaxFaults bounds what interrupts them);    *)
(* row locks are granted in the order they were asked for, which makes the *)
(* lock waits strongly fair; Paystack redelivers charge.success until it   *)
(* is acknowledged, and refunds are eventually paid out.  Nothing is       *)
(* assumed of customers.                                                   *)
(***************************************************************************)
Fairness ==
    /\ \A g \in Groups :
          /\ SF_vars(\E h \in Handlers : VerifyRead(h, g, "webhook"))
          /\ WF_vars(InitializeSaved(g))
          /\ \A s \in Stores : WF_vars(RefundSucceeds(g, s))
    /\ \A h \in Handlers :
          /\ SF_vars(VerifyCommit(h)) /\ SF_vars(CancelLock(h))
          /\ WF_vars(Respond(h)) /\ WF_vars(CancelCommit(h))

FairSpec == Spec /\ Fairness

-----------------------------------------------------------------------------
Live(g, s) == order[g][s] \in {"ORDER_RECEIVED", "CONFIRMED"}
Held(g, s) == IF Live(g, s) THEN items[g][s] ELSE 0

\* Every unit of stock is on the shelf or held by exactly one live order:
\* checkout, failGroup and OrdersService.cancel never release a unit twice,
\* never lose one, and never sell one that was not reserved.
StockConserved ==
    \A s \in Stores :
        /\ stock[s] >= 0
        /\ stock[s] + SumFunction([g \in Groups |-> Held(g, s)]) = InitStock

\* What a customer's wallet pays for in one group: its orders that still stand.
WalletPays(u, g) ==
    IF Owner[g] = u /\ method[g] = "WALLET"
    THEN SumFunction([s \in Stores |-> IF Live(g, s) THEN OrderTotal(g, s) ELSE 0])
    ELSE 0

\* A customer's wallet is what it held at first less the wallet orders that
\* still stand: a debit is returned once per cancelled order, never twice.
WalletConserved ==
    \A u \in Users :
        wallet[u] + SumFunction([g \in Groups |-> WalletPays(u, g)]) = InitWallet

\* Goods and wallet money are conserved together over every race of payment,
\* expiry, cancellation and refund.
GoodsAndMoneyConserved == StockConserved /\ WalletConserved

\* An order is confirmed only for money that was really captured (README,
\* "confirms orders only after server-side transaction verification"), and it
\* is never refunded while it stands.
ConfirmedIsPaidFor ==
    \A g \in Groups, s \in Stores :
        order[g][s] = "CONFIRMED" =>
            /\ charge[g] = "success" \/ loan[g] = "success" \/ method[g] = "WALLET"
            /\ payment[g] \in Captured
            /\ refund[g][s] = "none"

\* The store holds a settlement credit exactly for the orders that stand
\* confirmed, and a reversal exactly for paid orders cancelled since; a
\* released checkout never credited anyone.
SettlementMatchesOrders ==
    \A g \in Groups, s \in Stores :
        /\ settled[g][s] = "CREDITED" <=> order[g][s] = "CONFIRMED"
        /\ settled[g][s] = "REVERSED" <=> (order[g][s] = "CANCELLED" /\ group[g] = "PAID")

\* Money recorded for a released checkout is owed back: every order of the
\* group has its refund on record (verifyReference, late payment branch).
ReleasedMoneyHasRefund ==
    \A g \in Groups :
        group[g] = "FAILED" /\ payment[g] \in Captured =>
            \A s \in OrdersOf(g) : refund[g][s] # "none"

\* A customer has at most one unpaid checkout: the unique activeCartId, under
\* any interleaving of creation, completion and cancellation.
OneActiveCheckout ==
    \A g1, g2 \in Groups :
        ActiveGroup(g1) /\ ActiveGroup(g2) /\ Owner[g1] = Owner[g2] => g1 = g2

\* No step un-pays a checkout: a group that is PAID or FAILED stays so, and a
\* payment recorded as PAID is never overwritten by a failure, whichever of
\* the webhook, the reconciliation and a cancellation comes last.
SettledOutcome ==
    \A g \in Groups :
        /\ group[g] \in {"PAID", "FAILED"} => group'[g] = group[g]
        /\ payment[g] = "PAID" => payment'[g] # "FAILED"

OutcomeIsFinal == [][SettledOutcome]_vars

\* A checkout that Paystack captured is in the end honoured or refunded: the
\* group is PAID, or its orders have refunds (a checkout released before the
\* money came in).
CapturedIsHonoured ==
    \A g \in Groups :
        (charge[g] = "success" /\ method[g] \in PaystackMethods) ~>
            (group[g] = "PAID" \/ \A s \in OrdersOf(g) : refund[g][s] # "none")

-----------------------------------------------------------------------------
(***************************************************************************)
(* The contract of a checkout, as the rows of the database keep it.        *)
(***************************************************************************)
DealOf(g, s) ==
    CASE order[g][s] = "none"           -> "none"
      [] order[g][s] = "ORDER_RECEIVED" -> "reserved"
      [] order[g][s] = "CONFIRMED"      -> "standing"
      [] OTHER -> IF group[g] = "PAID" THEN "returned" ELSE "released"

OwedOf(g, s) ==
    CASE refund[g][s] = "none"      -> "none"
      [] refund[g][s] = "SUCCEEDED" -> "repaid"
      [] OTHER                      -> "owed"

Contract == INSTANCE CheckoutContract WITH
    deal <- [g \in Groups |-> [s \in Stores |-> DealOf(g, s)]],
    owed <- [g \in Groups |-> [s \in Stores |-> OwedOf(g, s)]],
    units <- items,
    shelf <- stock

\* Every transaction of checkout, payments, Klump and order cancellation is,
\* in these terms, one step of the contract or none: the lines of a checkout
\* are honoured or released together and once, stock moves with them, and a
\* refund is recorded only for a line that was taken back or released.
KeepsContract == Contract!ContractSpec
=============================================================================
