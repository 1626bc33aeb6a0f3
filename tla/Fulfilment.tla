----------------------------- MODULE Fulfilment -----------------------------
(***************************************************************************)
(* A paid order on its way to the customer: the store prepares and packs   *)
(* it, a rider claims the delivery, takes it over with the store's QR and  *)
(* hands it out with the customer's QR, while the customer may cancel and  *)
(* staff may intervene.                                                    *)
(*                                                                         *)
(* Only OrdersService.cancel locks the order row before it reads it, and   *)
(* only DeliveryService.claimDelivery writes under a condition; both are   *)
(* one step.  Every other handler reads and checks first and writes later, *)
(* unconditionally: a request is a task that carries what it has read.     *)
(*                                                                         *)
(* Orders share nothing here, so the module is about one order that is     *)
(* delivered (not collected), with one line of Quantity units and a        *)
(* shipping fee above zero.  Notifications, history and audit rows have no *)
(* effect on it and are left out.                                          *)
(***************************************************************************)
EXTENDS Integers, FiniteSets

CONSTANTS
    Riders, NoRider,
    Requests,          \* concurrent requests
    Quantity,          \* OrderItem.quantity
    Qrs,               \* bound: ids of QR credentials
    MaxInterventions   \* bound: status changes by staff

ASSUME FulfilmentAssumption ==
    /\ NoRider \notin Riders
    /\ IsFiniteSet(Requests)
    /\ Quantity \in Nat \ {0}
    /\ Qrs \subseteq Nat \ {0}
    /\ MaxInterventions \in Nat

VARIABLES
    status,         \* Order.currentStatus
    delivery,       \* Delivery.status
    rider,          \* Delivery.riderId
    earning,        \* RiderEarning.status
    releases,       \* credits of the shipping fee to the rider's wallet
    qr,             \* OrderQrCredential rows
    scanned,        \* units verified by OrderItemScan rows, by phase
    restocks,       \* times the order's units went back to the shelf
    reversed,       \* the settlement reversal ORDER-CANCEL-<number> exists
    points,         \* times the order's points were granted
    cashback,       \* CashbackReward.status
    referral,       \* Referral.status of the customer
    interventions,
    task            \* what each request is doing

carriage == <<delivery, rider, earning, releases>>
rewards == <<points, cashback, referral>>
vars == <<status, carriage, qr, scanned, restocks, reversed, rewards,
          interventions, task>>

-----------------------------------------------------------------------------
OrderStatus ==
    {"CONFIRMED", "PREPARING", "READY_FOR_PICKUP", "RIDER_ASSIGNED", "PICKED_UP",
     "OUT_FOR_DELIVERY", "DELIVERED", "COMPLETED", "CANCELLED"}
DeliveryStatus ==
    {"PENDING", "ASSIGNED", "PICKED_UP", "IN_TRANSIT", "OUT_FOR_DELIVERY",
     "ARRIVED_AT_CUSTOMER", "DELIVERED", "FAILED", "CANCELLED"}
Purposes == {"RIDER_PICKUP", "CUSTOMER_DELIVERY"}
Phases == {"PACKING", "RIDER_PICKUP"}

\* LAPSED stands for a row still ACTIVE whose expiresAt has passed.
QrStatus == {"none", "ACTIVE", "LAPSED", "REVOKED", "CONSUMED"}
Credential == [purpose: Purposes \cup {"none"}, status: QrStatus]

ORDER_STATUS_TRANSITIONS ==
    UNION { {"CONFIRMED"} \X {"PREPARING", "CANCELLED"},
            {"PREPARING"} \X {"READY_FOR_PICKUP", "RIDER_ASSIGNED", "CANCELLED"},
            {"READY_FOR_PICKUP"} \X {"PICKED_UP", "RIDER_ASSIGNED", "CANCELLED"},
            {"RIDER_ASSIGNED"} \X {"PICKED_UP", "OUT_FOR_DELIVERY", "CANCELLED"},
            {"OUT_FOR_DELIVERY"} \X {"PICKED_UP", "DELIVERED", "CANCELLED"},
            {"PICKED_UP"} \X {"OUT_FOR_DELIVERY", "DELIVERED", "COMPLETED"},
            {"DELIVERED"} \X {"COMPLETED"} }

canTransitionOrder(from, to) == <<from, to>> \in ORDER_STATUS_TRANSITIONS

STORE_MANAGED_ORDER_STATUSES == {"PREPARING", "READY_FOR_PICKUP"}
ADMIN_INTERVENTION_ORDER_STATUSES == OrderStatus \ {"CONFIRMED", "CANCELLED"}

FaultyAllowedTransitions ==
    {"ASSIGNED", "PICKED_UP"} \X {"CANCELLED", "OUT_FOR_DELIVERY"}

\* delivery.service allowedTransitions, less PICKED_UP and DELIVERED, which
\* updateStatus refuses, and the rows of unclaimed deliveries, which have no rider.
AllowedTransitions ==
    UNION { {"ASSIGNED"} \X {"CANCELLED"},
            {"PICKED_UP"} \X {"IN_TRANSIT", "OUT_FOR_DELIVERY", "ARRIVED_AT_CUSTOMER", "FAILED"},
            {"IN_TRANSIT"} \X {"OUT_FOR_DELIVERY", "ARRIVED_AT_CUSTOMER", "FAILED"},
            {"OUT_FOR_DELIVERY"} \X {"ARRIVED_AT_CUSTOMER", "FAILED"},
            {"ARRIVED_AT_CUSTOMER"} \X {"FAILED"} }

Underway == {"IN_TRANSIT", "OUT_FOR_DELIVERY", "ARRIVED_AT_CUSTOMER"}

Task == [op: {"idle", "write", "complete", "scan", "revoke", "create",
              "confirmPickup", "confirmDelivery", "updateStatus"},
         saw: OrderStatus \cup {"none"},
         to: OrderStatus \cup DeliveryStatus \cup Purposes \cup Phases \cup {"none"},
         n: Nat]

Doing(op, saw, to, n) == [op |-> op, saw |-> saw, to |-> to, n |-> n]
Idle == Doing("idle", "none", "none", 0)

TypeOK ==
    /\ status \in OrderStatus
    /\ delivery \in DeliveryStatus
    /\ rider \in Riders \cup {NoRider}
    /\ earning \in {"none", "HELD", "RELEASED"}
    /\ releases \in Nat
    /\ qr \in [Qrs -> Credential]
    /\ scanned \in [Phases -> Nat]
    /\ restocks \in Nat
    /\ reversed \in BOOLEAN
    /\ points \in Nat
    /\ cashback \in {"none", "AVAILABLE", "REVERSED"}
    /\ referral \in {"PENDING", "QUALIFIED"}
    /\ interventions \in 0..MaxInterventions
    /\ task \in [Requests -> Task]

Init ==
    /\ status = "CONFIRMED"
    /\ delivery = "PENDING"
    /\ rider = NoRider
    /\ earning = "none"
    /\ releases = 0
    /\ qr = [q \in Qrs |-> [purpose |-> "none", status |-> "none"]]
    /\ scanned = [p \in Phases |-> 0]
    /\ restocks = 0
    /\ reversed = FALSE
    /\ points = 0
    /\ cashback = "none"
    /\ referral = "PENDING"
    /\ interventions = 0
    /\ task = [r \in Requests |-> Idle]

-----------------------------------------------------------------------------
Begin(r, job) == task[r] = Idle /\ task' = [task EXCEPT ![r] = job]
Finish(r, op) == task[r].op = op /\ task' = [task EXCEPT ![r] = Idle]

Complete(phase) == scanned[phase] >= Quantity

(***************************************************************************)
(* The status written by the store (setStatus, completePacking) and by     *)
(* staff (AdminService.updateOrderStatus), whatever it has become since.   *)
(***************************************************************************)
SetStatus(r, to) ==
    /\ to \in STORE_MANAGED_ORDER_STATUSES
    /\ canTransitionOrder(status, to)
    /\ Begin(r, Doing("write", status, to, 0))
    /\ UNCHANGED <<status, carriage, qr, scanned, restocks, reversed, rewards, interventions>>

CompletePacking(r) ==
    /\ Complete("PACKING")
    /\ status \in {"CONFIRMED", "PREPARING"}
    /\ Begin(r, Doing("write", status, "READY_FOR_PICKUP", 0))
    /\ UNCHANGED <<status, carriage, qr, scanned, restocks, reversed, rewards, interventions>>

UpdateOrderStatus(r, to) ==
    /\ interventions < MaxInterventions
    /\ interventions' = interventions + 1
    /\ to \in ADMIN_INTERVENTION_ORDER_STATUSES
    /\ canTransitionOrder(status, to)
    /\ Begin(r, Doing(IF to = "COMPLETED" THEN "complete" ELSE "write", status, to, 0))
    /\ UNCHANGED <<status, carriage, qr, scanned, restocks, reversed, rewards>>

WriteStatus(r) ==
    /\ Finish(r, "write")
    /\ status' = task[r].to
    /\ UNCHANGED <<carriage, qr, scanned, restocks, reversed, rewards, interventions>>

\* completeOrder: cashback is upserted by order, points are incremented.
CompleteOrder ==
    /\ status' = "COMPLETED"
    /\ cashback' = IF cashback = "none" THEN "AVAILABLE" ELSE cashback
    /\ points' = points + 1
    /\ referral' = "QUALIFIED"

CompleteByStaff(r) ==
    /\ Finish(r, "complete")
    /\ CompleteOrder
    /\ UNCHANGED <<carriage, qr, scanned, restocks, reversed, interventions>>

-----------------------------------------------------------------------------
FaultyScannable(phase, n) == scanned[phase] + n <= Quantity + 1
Scannable(phase, n) == scanned[phase] + n <= Quantity

\* scanItem: the sum of the scans is compared before the new scan is inserted.
ScanItem(r, phase, n) ==
    /\ phase = "RIDER_PICKUP" => rider # NoRider
    /\ Scannable(phase, n)
    /\ Begin(r, Doing("scan", "none", phase, n))
    /\ UNCHANGED <<status, carriage, qr, scanned, restocks, reversed, rewards, interventions>>

InsertScan(r) ==
    /\ Finish(r, "scan")
    /\ scanned' = [scanned EXCEPT ![task[r].to] = @ + task[r].n]
    /\ UNCHANGED <<status, carriage, qr, restocks, reversed, rewards, interventions>>

-----------------------------------------------------------------------------
(***************************************************************************)
(* QR credentials: checked, revoked and created in separate statements.    *)
(***************************************************************************)
Issue(r, purpose, force) ==
    /\ force \/ \A q \in Qrs : qr[q] # [purpose |-> purpose, status |-> "ACTIVE"]
    /\ Begin(r, Doing(IF force THEN "revoke" ELSE "create", status, purpose, 0))
    /\ UNCHANGED <<status, carriage, qr, scanned, restocks, reversed, rewards, interventions>>

CustomerQr(r, regenerate) ==
    /\ status = "OUT_FOR_DELIVERY"
    /\ Issue(r, "CUSTOMER_DELIVERY", regenerate)

HandoffQr(r) ==
    /\ status \in {"READY_FOR_PICKUP", "RIDER_ASSIGNED"}
    /\ Issue(r, "RIDER_PICKUP", TRUE)

Revoked(purposes) ==
    [q \in Qrs |-> IF qr[q].purpose \in purposes /\ qr[q].status \in {"ACTIVE", "LAPSED"}
                   THEN [purpose |-> qr[q].purpose, status |-> "REVOKED"]
                   ELSE qr[q]]

RevokeQr(r) ==
    /\ task[r].op = "revoke"
    /\ task' = [task EXCEPT ![r] = Doing("create", task[r].saw, task[r].to, 0)]
    /\ qr' = Revoked({task[r].to})
    /\ UNCHANGED <<status, carriage, scanned, restocks, reversed, rewards, interventions>>

\* The id is autoincremented.
CreateQr(r, q) ==
    /\ qr[q].status = "none"
    /\ \A p \in Qrs : p < q => qr[p].status # "none"
    /\ Finish(r, "create")
    /\ qr' = [qr EXCEPT ![q] = [purpose |-> task[r].to, status |-> "ACTIVE"]]
    /\ UNCHANGED <<status, carriage, scanned, restocks, reversed, rewards, interventions>>

\* Thirty minutes pass.
Lapse(q) ==
    /\ qr[q].status = "ACTIVE"
    /\ qr' = [qr EXCEPT ![q] = [purpose |-> qr[q].purpose, status |-> "LAPSED"]]
    /\ UNCHANGED <<status, carriage, scanned, restocks, reversed, rewards, interventions, task>>

-----------------------------------------------------------------------------
(***************************************************************************)
(* The rider.                                                              *)
(***************************************************************************)
FaultyClaimable == status \in {"READY_FOR_PICKUP", "RIDER_ASSIGNED"}

\* The conditions of claimDelivery's two conditional updates.
Claimable == rider = NoRider /\ delivery = "PENDING" /\ status = "READY_FOR_PICKUP"

\* holdRiderEarning is part of the transaction.
ClaimDelivery(who) ==
    /\ Claimable
    /\ rider' = who
    /\ delivery' = "ASSIGNED"
    /\ status' = "RIDER_ASSIGNED"
    /\ earning' = IF earning = "none" THEN "HELD" ELSE earning
    /\ UNCHANGED <<releases, qr, scanned, restocks, reversed, rewards, interventions, task>>

FaultyValidCredential(q, purpose) == qr[q].status = "ACTIVE"

ValidCredential(q, purpose) == qr[q].purpose = purpose /\ qr[q].status = "ACTIVE"

ConfirmPickup(r, q) ==
    /\ rider # NoRider
    /\ ValidCredential(q, "RIDER_PICKUP")
    /\ Complete("RIDER_PICKUP")
    /\ status \in {"READY_FOR_PICKUP", "RIDER_ASSIGNED"}
    /\ Begin(r, Doing("confirmPickup", status, "none", q))
    /\ UNCHANGED <<status, carriage, qr, scanned, restocks, reversed, rewards, interventions>>

Consume(q) ==
    /\ qr[q].status = "ACTIVE"
    /\ qr' = [qr EXCEPT ![q] = [purpose |-> qr[q].purpose, status |-> "CONSUMED"]]

SavePickup(r) ==
    /\ Finish(r, "confirmPickup")
    /\ Consume(task[r].n)
    /\ status' = "PICKED_UP"
    /\ delivery' = "PICKED_UP"
    /\ UNCHANGED <<rider, earning, releases, scanned, restocks, reversed, rewards, interventions>>

ConfirmDelivery(r, q) ==
    /\ rider # NoRider
    /\ ValidCredential(q, "CUSTOMER_DELIVERY")
    /\ status = "OUT_FOR_DELIVERY"
    /\ Begin(r, Doing("confirmDelivery", status, "none", q))
    /\ UNCHANGED <<status, carriage, qr, scanned, restocks, reversed, rewards, interventions>>

FaultyReleaseRiderEarning ==
    /\ earning' = IF earning = "none" THEN "none" ELSE "RELEASED"
    /\ releases' = IF earning = "none" THEN releases ELSE releases + 1

ReleaseRiderEarning ==
    /\ earning' = IF earning = "HELD" THEN "RELEASED" ELSE earning
    /\ releases' = IF earning = "HELD" THEN releases + 1 ELSE releases

SaveDelivery(r) ==
    /\ Finish(r, "confirmDelivery")
    /\ Consume(task[r].n)
    /\ delivery' = "DELIVERED"
    /\ ReleaseRiderEarning
    /\ CompleteOrder
    /\ UNCHANGED <<rider, scanned, restocks, reversed, interventions>>

UpdateStatus(r, to) ==
    /\ rider # NoRider
    /\ <<delivery, to>> \in AllowedTransitions
    /\ to \in Underway =>
         status = "OUT_FOR_DELIVERY" \/ canTransitionOrder(status, "OUT_FOR_DELIVERY")
    /\ Begin(r, Doing("updateStatus", status, to, 0))
    /\ UNCHANGED <<status, carriage, qr, scanned, restocks, reversed, rewards, interventions>>

SaveUpdate(r) ==
    /\ Finish(r, "updateStatus")
    /\ delivery' = task[r].to
    /\ status' = IF task[r].to \in Underway /\ task[r].saw # "OUT_FOR_DELIVERY"
                 THEN "OUT_FOR_DELIVERY" ELSE status
    /\ UNCHANGED <<rider, earning, releases, qr, scanned, restocks, reversed, rewards, interventions>>

-----------------------------------------------------------------------------
FaultyCancellable == status \in {"CONFIRMED", "PREPARING"}

\* The reversal's unique ledger reference aborts a second cancellation.
Cancellable == status \in {"CONFIRMED", "PREPARING"} /\ ~reversed

\* OrdersService.cancel.  The refund it opens is in CheckoutPayments and Refunds.
Cancel ==
    /\ Cancellable
    /\ status' = "CANCELLED"
    /\ delivery' = "CANCELLED"
    /\ qr' = Revoked(Purposes)
    /\ restocks' = restocks + 1
    /\ reversed' = TRUE
    /\ cashback' = IF cashback = "AVAILABLE" THEN "REVERSED" ELSE cashback
    /\ UNCHANGED <<rider, earning, releases, scanned, points, referral, interventions, task>>

\* A request is refused at its conditional update, or its process stops.
Abandon(r) ==
    /\ task[r] # Idle
    /\ task' = [task EXCEPT ![r] = Idle]
    /\ UNCHANGED <<status, carriage, qr, scanned, restocks, reversed, rewards, interventions>>

Next ==
    \/ Cancel
    \/ \E who \in Riders : ClaimDelivery(who)
    \/ \E q \in Qrs : Lapse(q)
    \/ \E r \in Requests :
         \/ \E to \in OrderStatus : SetStatus(r, to) \/ UpdateOrderStatus(r, to)
         \/ CompletePacking(r)
         \/ WriteStatus(r)
         \/ CompleteByStaff(r)
         \/ \E phase \in Phases, n \in 1..Quantity : ScanItem(r, phase, n)
         \/ InsertScan(r)
         \/ \E regenerate \in BOOLEAN : CustomerQr(r, regenerate)
         \/ HandoffQr(r)
         \/ RevokeQr(r)
         \/ \E q \in Qrs : CreateQr(r, q) \/ ConfirmPickup(r, q) \/ ConfirmDelivery(r, q)
         \/ SavePickup(r)
         \/ SaveDelivery(r)
         \/ \E to \in DeliveryStatus : UpdateStatus(r, to)
         \/ SaveUpdate(r)
         \/ Abandon(r)

Spec == Init /\ [][Next]_vars

-----------------------------------------------------------------------------
Used(purpose) == \E q \in Qrs : qr[q] = [purpose |-> purpose, status |-> "CONSUMED"]

\* A delivery shows DELIVERED, and the rider's fee is released, only after the
\* customer's own QR was consumed: neither a store QR, nor a stale request, nor a
\* staff intervention gets there (scanning.confirmDelivery, releaseRiderEarning).
DeliveredIsVerified ==
    delivery = "DELIVERED" \/ earning = "RELEASED" => Used("CUSTOMER_DELIVERY")

\* A delivery is on the road only if the store's handoff QR was consumed and the
\* rider scanned every unit, whatever stale progress update is written when
\* (scanning.confirmPickup, delivery.updateStatus).
OnTheRoadIsHandedOver ==
    delivery \in Underway \cup {"PICKED_UP"} => Used("RIDER_PICKUP") /\ Complete("RIDER_PICKUP")

\* The shipping fee reaches the rider's wallet at most once, even when the order
\* is delivered twice (settlements.releaseRiderEarning).
RiderPaidOnce == releases = IF earning = "RELEASED" THEN 1 ELSE 0

\* The units of a cancelled order return to the shelf once, even if a stale
\* status write revives the order and it is cancelled again (orders.cancel).
RestockedOnce == restocks <= 1

\* scanItem adds up the scans before it inserts its own, so two scans of one
\* line can both pass and the line counts more units than were ordered; it is
\* never more than the requests under way together explain.
ScansAreBounded == \A phase \in Phases : scanned[phase] <= Quantity * Cardinality(Requests)

\* A delivery never changes hands: of two riders who claim it one wins, and no
\* later step gives it to another (delivery.claimDelivery).
OneRider == [][rider # NoRider => rider' = rider]_vars

\* order-status.ts: "CANCELLED: []".  No step leaves the status.
CancelledIsFinal == [][status = "CANCELLED" => status' = "CANCELLED"]_vars
=============================================================================
