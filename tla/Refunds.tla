------------------------------ MODULE Refunds ------------------------------
(***************************************************************************)
(* The refunds of one payment, one for each of its orders: the claim that  *)
(* sends a refund to Paystack, the reconciliation that polls it, Paystack's *)
(* webhooks (delayed, reordered and duplicated), the superadmin's retry,   *)
(* bank details and manual completion, and the status of the payment that  *)
(* follows from them.  Every await of the code separates two steps.        *)
(***************************************************************************)
EXTENDS Integers, FiniteSets

CONSTANTS
    Orders,         \* orders of the payment; a refund belongs to one order
    Handlers,       \* concurrent requests, webhook deliveries and timers
    NoOrder,        \* the order of an unused attempt and of an idle handler
    MaxAttempts,    \* bound: refunds opened with the provider
    MaxRetries,     \* bound: retries asked by the superadmin, per refund
    MaxErrors,      \* bound: failed calls, lost answers, database errors
    MaxCrashes      \* bound: crashes of the process

Attempts == 1..MaxAttempts

ASSUME RefundsAssumption ==
    /\ IsFiniteSet(Orders) /\ NoOrder \notin Orders
    /\ MaxAttempts \in Nat /\ MaxRetries \in Nat
    /\ MaxErrors \in Nat /\ MaxCrashes \in Nat

VARIABLES
    status,     \* Refund.status, "none" while there is no refund
    refundId,   \* Refund.providerRefundId, 0 when null
    payment,    \* Payment.status
    provider,   \* Payment.provider
    attempt,    \* external: the order and state of each refund at the provider
    told,       \* external: the states Paystack sends a webhook for
    events,     \* PaymentWebhookEvent rows that are processed
    task,       \* what each handler is doing
    retries, errors, crashes

vars == <<status, refundId, payment, provider, attempt, told, events, task, retries, errors, crashes>>
rows == <<status, refundId, payment, provider, events>>
world == <<attempt, told>>
bounds == <<retries, errors, crashes>>

RefundStatus ==
    {"PENDING", "PROCESSING", "SUCCEEDED", "FAILED", "NEEDS_ATTENTION", "MANUAL_REVIEW"}
ProviderStatus == {"processing", "processed", "failed", "needs-attention"}

Task == [pc: {"idle", "create", "save", "fetched", "apply", "resolve", "manual",
              "sync", "synced", "notify"},
         order: Orders \cup {NoOrder},
         by: {"none", "create", "fetch", "webhook", "resolve", "manual"},
         id: 0..MaxAttempts,                      \* the attempt the answer is about
         answer: ProviderStatus \cup {"none", "REFUNDED", "PARTIALLY_REFUNDED"}]

Doing(pc, o, by, id, answer) ==
    [pc |-> pc, order |-> o, by |-> by, id |-> id, answer |-> answer]

Idle == Doing("idle", NoOrder, "none", 0, "none")

TypeOK ==
    /\ status \in [Orders -> RefundStatus \cup {"none"}]
    /\ refundId \in [Orders -> 0..MaxAttempts]
    /\ payment \in {"PAID", "PARTIALLY_REFUNDED", "REFUNDED"}
    /\ provider \in {"PAYSTACK", "KLUMP"}
    /\ attempt \in [Attempts -> [order: Orders \cup {NoOrder}, state: ProviderStatus \cup {"none"}]]
    /\ told \in [Attempts -> SUBSET ProviderStatus]
    /\ events \subseteq ProviderStatus \X Attempts
    /\ task \in [Handlers -> Task]
    /\ retries \in [Orders -> 0..MaxRetries]
    /\ errors \in 0..MaxErrors
    /\ crashes \in 0..MaxCrashes

Init ==
    /\ status = [o \in Orders |-> "none"]
    /\ refundId = [o \in Orders |-> 0]
    /\ payment = "PAID"
    /\ provider \in {"PAYSTACK", "KLUMP"}
    /\ attempt = [a \in Attempts |-> [order |-> NoOrder, state |-> "none"]]
    /\ told = [a \in Attempts |-> {}]
    /\ events = {}
    /\ task = [h \in Handlers |-> Idle]
    /\ retries = [o \in Orders |-> 0]
    /\ errors = 0
    /\ crashes = 0

AttemptsOf(o) == {a \in Attempts : attempt[a].order = o}
Unused == {a \in Attempts : attempt[a].order = NoOrder}
Moves(h, t) == task' = [task EXCEPT ![h] = t]

-----------------------------------------------------------------------------
(***************************************************************************)
(* The provider.                                                           *)
(***************************************************************************)
SetState(a, o, state) ==
    /\ attempt' = [attempt EXCEPT ![a] = [order |-> o, state |-> state]]
    /\ told' = [told EXCEPT ![a] = @ \cup {state}]

\* A refund in progress ends, or waits for the customer's bank details.
ProviderMoves(a, state) ==
    /\ attempt[a].state = "processing"
    /\ SetState(a, attempt[a].order, state)
    /\ UNCHANGED <<rows, task, bounds>>

\* Staff refund a customer in the Klump dashboard.
KlumpDashboard(o) ==
    /\ provider = "KLUMP" /\ status[o] = "MANUAL_REVIEW"
    /\ AttemptsOf(o) = {}
    /\ \E a \in Unused : SetState(a, o, "processed")
    /\ UNCHANGED <<rows, task, bounds>>

-----------------------------------------------------------------------------
(***************************************************************************)
(* A refund row is created by OrdersService.cancel, or by verifyReference  *)
(* for a payment that came in after its checkout was released.             *)
(***************************************************************************)
OpenRefund(o) ==
    /\ status[o] = "none"
    /\ status' = [status EXCEPT ![o] =
                     IF provider = "KLUMP" THEN "MANUAL_REVIEW" ELSE "PENDING"]
    /\ UNCHANGED <<provider, refundId, payment, world, events, task, bounds>>

FaultyClaimable(o) == status[o] \in {"PENDING", "PROCESSING"} /\ refundId[o] = 0

\* The conditional update that claims a refund.
Claimable(o) == status[o] = "PENDING"

\* processRefund, called by the request that opened the refund, by
\* reconcilePending and by retryRefund.
ProcessClaim(h, o) ==
    /\ task[h].pc = "idle" /\ provider = "PAYSTACK"
    /\ Claimable(o)
    /\ status' = [status EXCEPT ![o] = "PROCESSING"]
    /\ Moves(h, Doing("create", o, "create", 0, "none"))
    /\ UNCHANGED <<provider, refundId, payment, world, events, bounds>>

\* Paystack never opens refunds for more than the payment.
Refundable == Cardinality({a \in Attempts : attempt[a].state \notin {"none", "failed"}})
              < Cardinality(Orders)

\* createRefund succeeds, with the state the answer reports.
CreateRefund(h) ==
    LET o == task[h].order
    IN /\ task[h].pc = "create" /\ Refundable
       /\ \E a \in Unused, state \in {"processing", "processed", "needs-attention"} :
             /\ SetState(a, o, state)
             /\ Moves(h, Doing("save", o, "create", a, state))
       /\ UNCHANGED <<rows, bounds>>

FaultyProcessFailed(h) ==
    /\ task[h].by = "create" /\ task[h].pc # "idle"
    /\ errors < MaxErrors /\ errors' = errors + 1
    /\ Moves(h, Idle)
    /\ UNCHANGED <<rows, world, retries, crashes>>

\* The catch branch of processRefund: whatever failed, the refund is FAILED.
ProcessFailed(h) ==
    LET o == task[h].order
    IN /\ task[h].by = "create" /\ task[h].pc # "idle"
       /\ \/ /\ task[h].pc = "create" /\ ~Refundable
             /\ UNCHANGED <<errors, world>>
          \/ /\ errors < MaxErrors /\ errors' = errors + 1
             /\ \/ UNCHANGED world
                \/ /\ task[h].pc = "create" /\ Refundable      \* the answer is lost
                   /\ \E a \in Unused : SetState(a, o, "processing")
       /\ status' = [status EXCEPT ![o] = "FAILED"]
       /\ Moves(h, Idle)
       /\ UNCHANGED <<provider, refundId, payment, events, retries, crashes>>

FaultyRefundStatusOf(state) ==
    CASE state \in {"processed", "processing"} -> "SUCCEEDED"
      [] state = "failed"          -> "FAILED"
      [] OTHER                     -> "NEEDS_ATTENTION"

\* The status recorded for what Paystack reports.
RefundStatusOf(state) ==
    CASE state = "processed"       -> "SUCCEEDED"
      [] state = "failed"          -> "FAILED"
      [] state = "needs-attention" -> "NEEDS_ATTENTION"
      [] OTHER                     -> "PROCESSING"

\* notifyRefund comes last.  Its failure matters where it is caught
\* (processRefund) or leaves the webhook unprocessed.
Notifying(t) == IF t.by \in {"create", "webhook"} THEN [t EXCEPT !.pc = "notify"] ELSE Idle

\* The unconditional update shared by createRefund's answer, fetchRefund's
\* answer and the webhook; a success goes on to syncPaymentRefundStatus.
Record(h, o, a, state) ==
    /\ status' = [status EXCEPT ![o] = RefundStatusOf(state)]
    /\ refundId' = [refundId EXCEPT ![o] = a]
    /\ Moves(h, IF state = "processed" THEN [task[h] EXCEPT !.pc = "sync"] ELSE Notifying(task[h]))

SaveCreated(h) ==
    /\ task[h].pc = "save"
    /\ Record(h, task[h].order, task[h].id, task[h].answer)
    /\ UNCHANGED <<provider, payment, world, events, bounds>>

\* reconcilePending polls a refund that is PROCESSING and has a provider id.
FetchRefund(h, o) ==
    /\ task[h].pc = "idle"
    /\ status[o] = "PROCESSING" /\ refundId[o] # 0
    /\ Moves(h, Doing("fetched", o, "fetch", refundId[o], attempt[refundId[o]].state))
    /\ UNCHANGED <<rows, world, bounds>>

SaveFetched(h) ==
    LET o == task[h].order
    IN /\ task[h].pc = "fetched"
       /\ status' = [status EXCEPT ![o] = RefundStatusOf(task[h].answer)]
       /\ Moves(h, IF task[h].answer = "processed" THEN [task[h] EXCEPT !.pc = "sync"] ELSE Idle)
       /\ UNCHANGED <<provider, refundId, payment, world, events, bounds>>

-----------------------------------------------------------------------------
(***************************************************************************)
(* handleWebhook for refund events: the event is looked up, the refund     *)
(* found by provider id or by the idempotency key in merchant_note, and    *)
(* the event marked when everything after it succeeded.                    *)
(***************************************************************************)
ReceiveWebhook(h, a, state) ==
    /\ task[h].pc = "idle" /\ provider = "PAYSTACK"
    /\ state \in told[a] /\ <<state, a>> \notin events
    /\ Moves(h, Doing("apply", attempt[a].order, "webhook", a, state))
    /\ UNCHANGED <<rows, world, bounds>>

ApplyWebhook(h) ==
    /\ task[h].pc = "apply"
    /\ Record(h, task[h].order, task[h].id, task[h].answer)
    /\ UNCHANGED <<provider, payment, world, events, bounds>>

-----------------------------------------------------------------------------
\* syncPaymentRefundStatus: the sum of the succeeded refunds is read first,
\* the payment written after it; each order counts for one unit of the amount.
FaultyRefundedAmount == Cardinality({o \in Orders : status[o] # "none"})

RefundedAmount == Cardinality({o \in Orders : status[o] = "SUCCEEDED"})

SyncRead(h) ==
    /\ task[h].pc = "sync"
    /\ Moves(h, [task[h] EXCEPT !.pc = "synced",
                    !.answer = IF RefundedAmount >= Cardinality(Orders)
                               THEN "REFUNDED" ELSE "PARTIALLY_REFUNDED"])
    /\ UNCHANGED <<rows, world, bounds>>

\* The event is named by its state, which the answer held before the sync.
Event(h) == <<IF task[h].answer \in ProviderStatus THEN task[h].answer ELSE "processed",
              task[h].id>>

SyncWrite(h) ==
    /\ task[h].pc = "synced"
    /\ payment' = task[h].answer
    /\ Moves(h, Notifying(task[h]))
    /\ UNCHANGED <<provider, status, refundId, events, world, bounds>>

Notify(h) ==
    /\ task[h].pc = "notify"
    /\ events' = IF task[h].by = "webhook" THEN events \cup {Event(h)} ELSE events
    /\ Moves(h, Idle)
    /\ UNCHANGED <<provider, status, refundId, payment, world, bounds>>

-----------------------------------------------------------------------------
(***************************************************************************)
(* The superadmin.                                                         *)
(***************************************************************************)
RetryRefund(o) ==
    /\ provider = "PAYSTACK" /\ status[o] = "FAILED"
    /\ retries[o] < MaxRetries
    /\ retries' = [retries EXCEPT ![o] = @ + 1]
    /\ status' = [status EXCEPT ![o] = "PENDING"]
    /\ UNCHANGED <<provider, refundId, payment, world, events, task, errors, crashes>>

\* Bank details are sent to Paystack for a refund that waits for them.
ResolveRefundAttention(h, o) ==
    /\ task[h].pc = "idle"
    /\ status[o] = "NEEDS_ATTENTION" /\ refundId[o] # 0
    /\ attempt[refundId[o]].state = "needs-attention"
    /\ SetState(refundId[o], o, "processing")
    /\ Moves(h, Doing("resolve", o, "resolve", refundId[o], "processing"))
    /\ UNCHANGED <<rows, bounds>>

SaveResolved(h) ==
    /\ task[h].pc = "resolve"
    /\ status' = [status EXCEPT ![task[h].order] = "PROCESSING"]
    /\ Moves(h, Idle)
    /\ UNCHANGED <<provider, refundId, payment, world, events, bounds>>

CompleteManualRefund(h, o) ==
    /\ task[h].pc = "idle" /\ provider = "KLUMP"
    /\ status[o] = "MANUAL_REVIEW"
    /\ \E a \in AttemptsOf(o) : Moves(h, Doing("manual", o, "manual", a, "processed"))
    /\ UNCHANGED <<rows, world, bounds>>

SaveManual(h) ==
    /\ task[h].pc = "manual"
    /\ Record(h, task[h].order, task[h].id, "processed")
    /\ UNCHANGED <<provider, payment, world, events, bounds>>

-----------------------------------------------------------------------------
\* A call or a query fails: a webhook is left for redelivery, the rest to the
\* next reconciliation.
Fails(h) ==
    /\ task[h].pc # "idle" /\ task[h].by # "create"
    /\ errors < MaxErrors /\ errors' = errors + 1
    /\ Moves(h, Idle)
    /\ UNCHANGED <<rows, world, retries, crashes>>

Crash(h) ==
    /\ task[h].pc # "idle"
    /\ crashes < MaxCrashes /\ crashes' = crashes + 1
    /\ Moves(h, Idle)
    /\ UNCHANGED <<rows, world, retries, errors>>

Next ==
    \/ \E a \in Attempts, state \in {"processed", "failed", "needs-attention"} :
          ProviderMoves(a, state)
    \/ \E o \in Orders : KlumpDashboard(o) \/ OpenRefund(o) \/ RetryRefund(o)
    \/ \E h \in Handlers :
          \/ \E o \in Orders : \/ ProcessClaim(h, o) \/ FetchRefund(h, o)
                               \/ ResolveRefundAttention(h, o) \/ CompleteManualRefund(h, o)
          \/ \E a \in Attempts, state \in ProviderStatus : ReceiveWebhook(h, a, state)
          \/ CreateRefund(h) \/ SaveCreated(h) \/ ProcessFailed(h)
          \/ SaveFetched(h) \/ ApplyWebhook(h)
          \/ SyncRead(h) \/ SyncWrite(h) \/ Notify(h)
          \/ SaveResolved(h) \/ SaveManual(h)
          \/ Fails(h) \/ Crash(h)

Spec == Init /\ [][Next]_vars

\* Requests run to their end, Paystack ends a refund in progress, and the
\* five-minute reconciliation keeps claiming and polling.
Fairness ==
    /\ \A a \in Attempts :
          WF_vars(\E state \in {"processed", "failed", "needs-attention"} : ProviderMoves(a, state))
    /\ \A o \in Orders : /\ SF_vars(\E h \in Handlers : ProcessClaim(h, o))
                         /\ SF_vars(\E h \in Handlers : FetchRefund(h, o))
    /\ \A h \in Handlers :
          WF_vars(\/ CreateRefund(h) \/ SaveCreated(h) \/ ProcessFailed(h)
                  \/ SaveFetched(h) \/ ApplyWebhook(h) \/ SyncRead(h) \/ SyncWrite(h)
                  \/ Notify(h) \/ SaveResolved(h) \/ SaveManual(h))

FairSpec == Spec /\ Fairness

-----------------------------------------------------------------------------
Returned(o) == \E a \in AttemptsOf(o) : attempt[a].state = "processed"

\* A refund is recorded as SUCCEEDED only when the provider returned the
\* money of that very order, whatever order answers, polls and webhooks
\* arrive in.
SucceededIsReturned == \A o \in Orders : status[o] = "SUCCEEDED" => Returned(o)

\* syncPaymentRefundStatus never claims more than was returned: a REFUNDED
\* payment has all its orders returned, a partial one at least one.
PaymentStatusIsEarned ==
    /\ payment = "REFUNDED" => \A o \in Orders : Returned(o)
    /\ payment = "PARTIALLY_REFUNDED" => \E o \in Orders : Returned(o)

\* Without a human retry a refund is sent to Paystack once: the request that
\* cancelled the order, the reconciliation and redelivered webhooks never
\* open a second one, even across crashes.
AttemptsNeedRetries ==
    \A o \in Orders : Cardinality(AttemptsOf(o)) <= 1 + retries[o]

\* The customer gets the money of an order back when the record says so, and
\* not more often than a human asked for it.
ReturnedAsRecorded == SucceededIsReturned /\ AttemptsNeedRetries

\* As long as no process crashes, a refund does not stay open for ever: it
\* succeeds, fails or asks for attention.
RefundSettles ==
    \A o \in Orders :
        status[o] \in {"PENDING", "PROCESSING"} ~>
            status[o] \in {"SUCCEEDED", "FAILED", "NEEDS_ATTENTION"} \/ crashes > 0
=============================================================================
