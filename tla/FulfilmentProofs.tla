------------------------- MODULE FulfilmentProofs -------------------------
(***************************************************************************)
(* For every number of riders, concurrent requests, QR credentials, units  *)
(* and staff interventions: a delivery is DELIVERED only by the customer's *)
(* QR, is on the road only after a verified handoff, pays its rider once,  *)
(* keeps its rider, returns its units to the shelf once, and counts no     *)
(* more units than the concurrent scans explain.                           *)
(*                                                                         *)
(* The requests read first and write later, so the inductive invariant     *)
(* says what a request may still rely on when it writes.  It holds because *)
(* the facts read never become false again: a credential keeps its         *)
(* purpose, a consumed one stays consumed and scans only accumulate.       *)
(***************************************************************************)
EXTENDS Fulfilment, SumTheorems, TLAPS

\* The credential was issued for this purpose; it may have been used since.
Known(q, purpose) == q \in Qrs /\ qr[q].purpose = purpose /\ qr[q].status # "none"

HandedOver == Used("RIDER_PICKUP") /\ Complete("RIDER_PICKUP")

\* What a request in flight has established by its reads.
Holds(t) ==
    /\ t.op = "write" => t.to \in OrderStatus
    /\ t.op = "scan" => t.to \in Phases
    /\ t.op \in {"revoke", "create"} => t.to \in Purposes
    /\ t.op = "confirmPickup" => Known(t.n, "RIDER_PICKUP") /\ Complete("RIDER_PICKUP")
    /\ t.op = "confirmDelivery" => Known(t.n, "CUSTOMER_DELIVERY")
    /\ t.op = "updateStatus" =>
         /\ t.to \in DeliveryStatus \ {"PICKED_UP", "DELIVERED"}
         /\ t.to \in Underway => HandedOver

TasksHold == \A r \in Requests : Holds(task[r])

RestockedByReversal == restocks = IF reversed THEN 1 ELSE 0

IInv ==
    /\ TypeOK
    /\ TasksHold
    /\ DeliveredIsVerified
    /\ OnTheRoadIsHandedOver
    /\ RiderPaidOnce
    /\ RestockedByReversal

-----------------------------------------------------------------------------
\* The requests that only read: they take a task and change nothing else.
Reads(r) ==
    \/ \E to \in OrderStatus : SetStatus(r, to) \/ UpdateOrderStatus(r, to)
    \/ CompletePacking(r)
    \/ \E phase \in Phases, n \in 1..Quantity : ScanItem(r, phase, n)
    \/ \E regenerate \in BOOLEAN : CustomerQr(r, regenerate)
    \/ HandoffQr(r)
    \/ \E q \in Qrs : ConfirmPickup(r, q) \/ ConfirmDelivery(r, q)
    \/ \E to \in DeliveryStatus : UpdateStatus(r, to)

\* The steps that write.
Writes(r) ==
    \/ WriteStatus(r)
    \/ CompleteByStaff(r)
    \/ InsertScan(r)
    \/ RevokeQr(r)
    \/ \E q \in Qrs : CreateQr(r, q)
    \/ SavePickup(r)
    \/ SaveDelivery(r)
    \/ SaveUpdate(r)
    \/ Abandon(r)

\* The step of Next, sorted.
LEMMA NextCases ==
    ASSUME Next
    PROVE  \/ Cancel
           \/ \E who \in Riders : ClaimDelivery(who)
           \/ \E q \in Qrs : Lapse(q)
           \/ \E r \in Requests : Reads(r) \/ Writes(r)
BY DEF Next, Reads, Writes

\* A read takes a task that holds, and leaves everything but the task and the
\* count of interventions alone.
LEMMA ReadStep ==
    ASSUME IInv, NEW r \in Requests, Reads(r)
    PROVE  /\ \E t \in Task : Holds(t) /\ task' = [task EXCEPT ![r] = t]
           /\ interventions' \in 0..MaxInterventions
           /\ UNCHANGED <<status, carriage, qr, scanned, restocks, reversed, rewards>>
<1> USE DEF IInv, TypeOK
<1>1. ASSUME NEW to \in OrderStatus, SetStatus(r, to)
      PROVE  /\ Doing("write", status, to, 0) \in Task
             /\ Holds(Doing("write", status, to, 0))
             /\ task' = [task EXCEPT ![r] = Doing("write", status, to, 0)]
             /\ UNCHANGED <<status, carriage, qr, scanned, restocks, reversed, rewards, interventions>>
  BY <1>1 DEF SetStatus, Begin, Doing, Task, Holds
<1>2. ASSUME NEW to \in OrderStatus, UpdateOrderStatus(r, to)
      PROVE  /\ \E t \in Task : Holds(t) /\ task' = [task EXCEPT ![r] = t]
             /\ interventions' \in 0..MaxInterventions
             /\ UNCHANGED <<status, carriage, qr, scanned, restocks, reversed, rewards>>
  <2> DEFINE t == Doing(IF to = "COMPLETED" THEN "complete" ELSE "write", status, to, 0)
  <2>1. t \in Task /\ Holds(t)
    BY DEF Doing, Task, Holds
  <2>2. task' = [task EXCEPT ![r] = t]
    BY <1>2 DEF UpdateOrderStatus, Begin
  <2>3. interventions' \in 0..MaxInterventions
    BY <1>2, FulfilmentAssumption DEF UpdateOrderStatus
  <2>4. UNCHANGED <<status, carriage, qr, scanned, restocks, reversed, rewards>>
    BY <1>2 DEF UpdateOrderStatus
  <2> QED BY <2>1, <2>2, <2>3, <2>4
<1>3. ASSUME CompletePacking(r)
      PROVE  /\ Doing("write", status, "READY_FOR_PICKUP", 0) \in Task
             /\ Holds(Doing("write", status, "READY_FOR_PICKUP", 0))
             /\ task' = [task EXCEPT ![r] = Doing("write", status, "READY_FOR_PICKUP", 0)]
             /\ UNCHANGED <<status, carriage, qr, scanned, restocks, reversed, rewards, interventions>>
  BY <1>3 DEF CompletePacking, Begin, Doing, Task, Holds, OrderStatus
<1>4. ASSUME NEW phase \in Phases, NEW n \in 1..Quantity, ScanItem(r, phase, n)
      PROVE  /\ Doing("scan", "none", phase, n) \in Task
             /\ Holds(Doing("scan", "none", phase, n))
             /\ task' = [task EXCEPT ![r] = Doing("scan", "none", phase, n)]
             /\ UNCHANGED <<status, carriage, qr, scanned, restocks, reversed, rewards, interventions>>
  BY <1>4, FulfilmentAssumption DEF ScanItem, Begin, Doing, Task, Holds
<1>5. ASSUME NEW purpose \in Purposes, NEW force \in BOOLEAN, Issue(r, purpose, force)
      PROVE  /\ \E t \in Task : Holds(t) /\ task' = [task EXCEPT ![r] = t]
             /\ UNCHANGED <<status, carriage, qr, scanned, restocks, reversed, rewards, interventions>>
  <2> DEFINE t == Doing(IF force THEN "revoke" ELSE "create", status, purpose, 0)
  <2>1. t \in Task /\ Holds(t)
    BY DEF Doing, Task, Holds
  <2>2. task' = [task EXCEPT ![r] = t]
    BY <1>5 DEF Issue, Begin
  <2>3. UNCHANGED <<status, carriage, qr, scanned, restocks, reversed, rewards, interventions>>
    BY <1>5 DEF Issue
  <2> QED BY <2>1, <2>2, <2>3
<1>6. ASSUME NEW q \in Qrs, ConfirmPickup(r, q)
      PROVE  /\ Doing("confirmPickup", status, "none", q) \in Task
             /\ Holds(Doing("confirmPickup", status, "none", q))
             /\ task' = [task EXCEPT ![r] = Doing("confirmPickup", status, "none", q)]
             /\ UNCHANGED <<status, carriage, qr, scanned, restocks, reversed, rewards, interventions>>
  BY <1>6, FulfilmentAssumption
     DEF ConfirmPickup, ValidCredential, Begin, Doing, Task, Holds, Known
<1>7. ASSUME NEW q \in Qrs, ConfirmDelivery(r, q)
      PROVE  /\ Doing("confirmDelivery", status, "none", q) \in Task
             /\ Holds(Doing("confirmDelivery", status, "none", q))
             /\ task' = [task EXCEPT ![r] = Doing("confirmDelivery", status, "none", q)]
             /\ UNCHANGED <<status, carriage, qr, scanned, restocks, reversed, rewards, interventions>>
  BY <1>7, FulfilmentAssumption
     DEF ConfirmDelivery, ValidCredential, Begin, Doing, Task, Holds, Known
<1>8. ASSUME NEW to \in DeliveryStatus, UpdateStatus(r, to)
      PROVE  /\ Doing("updateStatus", status, to, 0) \in Task
             /\ Holds(Doing("updateStatus", status, to, 0))
             /\ task' = [task EXCEPT ![r] = Doing("updateStatus", status, to, 0)]
             /\ UNCHANGED <<status, carriage, qr, scanned, restocks, reversed, rewards, interventions>>
  <2>1. to \notin {"PICKED_UP", "DELIVERED"}
        /\ (to \in Underway => delivery \in Underway \cup {"PICKED_UP"})
    BY <1>8 DEF UpdateStatus, AllowedTransitions, Underway, DeliveryStatus
  <2>2. to \in Underway => HandedOver
    BY <2>1 DEF OnTheRoadIsHandedOver, HandedOver
  <2>3. Doing("updateStatus", status, to, 0) \in Task
    BY DEF Doing, Task
  <2>4. Holds(Doing("updateStatus", status, to, 0))
    BY <2>1, <2>2 DEF Doing, Holds
  <2> QED BY <1>8, <2>3, <2>4 DEF UpdateStatus, Begin
<1>9. ASSUME NEW regenerate \in BOOLEAN, CustomerQr(r, regenerate)
      PROVE  Issue(r, "CUSTOMER_DELIVERY", regenerate)
  BY <1>9 DEF CustomerQr
<1>10. HandoffQr(r) => Issue(r, "RIDER_PICKUP", TRUE)
  BY DEF HandoffQr
<1>11. "CUSTOMER_DELIVERY" \in Purposes /\ "RIDER_PICKUP" \in Purposes
  BY DEF Purposes
<1> QED BY <1>1, <1>2, <1>3, <1>4, <1>5, <1>6, <1>7, <1>8, <1>9, <1>10, <1>11 DEF Reads

-----------------------------------------------------------------------------
(***************************************************************************)
(* What no step undoes.                                                    *)
(***************************************************************************)
\* A credential is created once, keeps its purpose, and once consumed stays so.
QrKept ==
    \A q \in Qrs : qr[q].status # "none" =>
        /\ qr'[q].purpose = qr[q].purpose /\ qr'[q].status # "none"
        /\ qr[q].status = "CONSUMED" => qr'[q] = qr[q]

ScansKept == \A p \in Phases : scanned'[p] >= scanned[p]

\* A write ends its request, or leaves it about to create a credential.
TaskMoves(r) ==
    \E t \in Task :
        /\ task' = [task EXCEPT ![r] = t]
        /\ t = Idle \/ (t.op = "create" /\ t.to \in Purposes)

\* Every write keeps the types, the credentials and the scans.
LEMMA WriteTypes ==
    ASSUME IInv, NEW r \in Requests, Writes(r)
    PROVE  /\ TypeOK'
           /\ QrKept /\ ScansKept
           /\ TaskMoves(r)
<1>0. TypeOK /\ Holds(task[r]) /\ task[r] \in Task
  BY DEF IInv, TasksHold, TypeOK
<1>i. Idle \in Task
  BY DEF Idle, Doing, Task
<1>f. ASSUME NEW op, Finish(r, op)
      PROVE  TaskMoves(r) /\ task' \in [Requests -> Task]
  BY <1>0, <1>i, <1>f DEF Finish, TypeOK, TaskMoves
<1>1. ASSUME WriteStatus(r) PROVE TypeOK' /\ QrKept /\ ScansKept /\ TaskMoves(r)
  <2>1. task[r].to \in OrderStatus
    BY <1>0, <1>1 DEF WriteStatus, Finish, Holds
  <2>2. TaskMoves(r) /\ task' \in [Requests -> Task]
    BY <1>1, <1>f DEF WriteStatus
  <2>3. TypeOK'
    BY <1>0, <1>1, <2>1, <2>2 DEF WriteStatus, TypeOK, carriage, rewards
  <2> QED BY <1>0, <1>1, <2>2, <2>3 DEF WriteStatus, QrKept, ScansKept, TypeOK
<1>2. ASSUME CompleteByStaff(r) PROVE TypeOK' /\ QrKept /\ ScansKept /\ TaskMoves(r)
  <2>2. TaskMoves(r) /\ task' \in [Requests -> Task]
    BY <1>2, <1>f DEF CompleteByStaff
  <2>3. TypeOK'
    BY <1>0, <1>2, <2>2
       DEF CompleteByStaff, CompleteOrder, TypeOK, carriage, OrderStatus
  <2> QED BY <1>0, <1>2, <2>2, <2>3 DEF CompleteByStaff, QrKept, ScansKept, TypeOK
<1>3. ASSUME InsertScan(r) PROVE TypeOK' /\ QrKept /\ ScansKept /\ TaskMoves(r)
  <2>1. task[r].to \in Phases /\ task[r].n \in Nat
    BY <1>0, <1>3 DEF InsertScan, Finish, Holds, Task
  <2>2. TaskMoves(r) /\ task' \in [Requests -> Task]
    BY <1>3, <1>f DEF InsertScan
  <2>3. scanned' \in [Phases -> Nat] /\ ScansKept
    BY <1>0, <1>3, <2>1 DEF InsertScan, TypeOK, ScansKept
  <2>4. TypeOK'
    BY <1>0, <1>3, <2>2, <2>3 DEF InsertScan, TypeOK, carriage, rewards
  <2> QED BY <1>0, <1>3, <2>2, <2>3, <2>4 DEF InsertScan, QrKept
<1>4. ASSUME RevokeQr(r) PROVE TypeOK' /\ QrKept /\ ScansKept /\ TaskMoves(r)
  <2> DEFINE t == Doing("create", task[r].saw, task[r].to, 0)
  <2>1. t \in Task /\ t.op = "create" /\ t.to \in Purposes
    BY <1>0, <1>4 DEF RevokeQr, Holds, Task, Doing
  <2>2. task' = [task EXCEPT ![r] = t]
    BY <1>4 DEF RevokeQr
  <2>3. qr' \in [Qrs -> Credential] /\ QrKept
    BY <1>0, <1>4 DEF RevokeQr, Revoked, TypeOK, Credential, QrStatus, QrKept
  <2>4. TypeOK'
    BY <1>0, <1>4, <2>1, <2>2, <2>3 DEF RevokeQr, TypeOK, carriage, rewards
  <2>5. TaskMoves(r)
    BY <2>1, <2>2 DEF TaskMoves
  <2>6. ScansKept
    BY <1>0, <1>4 DEF RevokeQr, ScansKept, TypeOK
  <2> QED BY <2>3, <2>4, <2>5, <2>6
<1>5. ASSUME NEW q \in Qrs, CreateQr(r, q) PROVE TypeOK' /\ QrKept /\ ScansKept /\ TaskMoves(r)
  <2>1. task[r].to \in Purposes
    BY <1>0, <1>5 DEF CreateQr, Finish, Holds
  <2>2. TaskMoves(r) /\ task' \in [Requests -> Task]
    BY <1>5, <1>f DEF CreateQr
  <2>3. qr' \in [Qrs -> Credential] /\ QrKept
    BY <1>0, <1>5, <2>1 DEF CreateQr, TypeOK, Credential, QrStatus, QrKept
  <2>4. TypeOK'
    BY <1>0, <1>5, <2>2, <2>3 DEF CreateQr, TypeOK, carriage, rewards
  <2> QED BY <1>0, <1>5, <2>2, <2>3, <2>4 DEF CreateQr, ScansKept, TypeOK
<1>c. ASSUME NEW q \in Qrs, Consume(q)
      PROVE  qr' \in [Qrs -> Credential] /\ QrKept
  BY <1>0, <1>c DEF Consume, TypeOK, Credential, QrStatus, QrKept
<1>6. ASSUME SavePickup(r) PROVE TypeOK' /\ QrKept /\ ScansKept /\ TaskMoves(r)
  <2>1. task[r].n \in Qrs /\ Consume(task[r].n)
    BY <1>0, <1>6 DEF SavePickup, Finish, Holds, Known
  <2>2. TaskMoves(r) /\ task' \in [Requests -> Task]
    BY <1>6, <1>f DEF SavePickup
  <2>3. TypeOK'
    BY <1>0, <1>6, <1>c, <2>1, <2>2
       DEF SavePickup, TypeOK, rewards, OrderStatus, DeliveryStatus
  <2> QED BY <1>0, <1>6, <1>c, <2>1, <2>2, <2>3 DEF SavePickup, ScansKept, TypeOK
<1>7. ASSUME SaveDelivery(r) PROVE TypeOK' /\ QrKept /\ ScansKept /\ TaskMoves(r)
  <2>1. task[r].n \in Qrs /\ Consume(task[r].n)
    BY <1>0, <1>7 DEF SaveDelivery, Finish, Holds, Known
  <2>2. TaskMoves(r) /\ task' \in [Requests -> Task]
    BY <1>7, <1>f DEF SaveDelivery
  <2>3. TypeOK'
    BY <1>0, <1>7, <1>c, <2>1, <2>2
       DEF SaveDelivery, ReleaseRiderEarning, CompleteOrder, TypeOK, OrderStatus, DeliveryStatus
  <2> QED BY <1>0, <1>7, <1>c, <2>1, <2>2, <2>3 DEF SaveDelivery, ScansKept, TypeOK
<1>8. ASSUME SaveUpdate(r) PROVE TypeOK' /\ QrKept /\ ScansKept /\ TaskMoves(r)
  <2>1. task[r].to \in DeliveryStatus
    BY <1>0, <1>8 DEF SaveUpdate, Finish, Holds
  <2>2. TaskMoves(r) /\ task' \in [Requests -> Task]
    BY <1>8, <1>f DEF SaveUpdate
  <2>3. TypeOK'
    BY <1>0, <1>8, <2>1, <2>2 DEF SaveUpdate, TypeOK, rewards, OrderStatus
  <2> QED BY <1>0, <1>8, <2>2, <2>3 DEF SaveUpdate, QrKept, ScansKept, TypeOK
<1>9. ASSUME Abandon(r) PROVE TypeOK' /\ QrKept /\ ScansKept /\ TaskMoves(r)
  <2>1. TaskMoves(r) /\ task' \in [Requests -> Task]
    BY <1>0, <1>i, <1>9 DEF Abandon, TypeOK, TaskMoves
  <2>2. TypeOK'
    BY <1>0, <1>9, <2>1 DEF Abandon, TypeOK, carriage, rewards
  <2> QED BY <1>0, <1>9, <2>1, <2>2 DEF Abandon, QrKept, ScansKept, TypeOK
<1> QED BY <1>1, <1>2, <1>3, <1>4, <1>5, <1>6, <1>7, <1>8, <1>9 DEF Writes

\* What a request has established survives every step that keeps the rows.
LEMMA HoldsKept ==
    ASSUME TypeOK, TypeOK', QrKept, ScansKept
    PROVE  /\ \A p \in Purposes : Used(p) => Used(p)'
           /\ \A p \in Phases : Complete(p) => Complete(p)'
           /\ \A t \in Task : Holds(t) => Holds(t)'
<1>1. ASSUME NEW p \in Purposes, Used(p) PROVE Used(p)'
  <2> PICK q \in Qrs : qr[q] = [purpose |-> p, status |-> "CONSUMED"]
    BY <1>1 DEF Used
  <2>1. qr'[q] = qr[q]
    BY DEF QrKept
  <2> QED BY <2>1 DEF Used
<1>2. ASSUME NEW p \in Phases, Complete(p) PROVE Complete(p)'
  BY <1>2, FulfilmentAssumption DEF Complete, ScansKept, TypeOK
<1>3. HandedOver => HandedOver'
  BY <1>1, <1>2 DEF HandedOver, Purposes, Phases
<1>4. ASSUME NEW q, NEW p, Known(q, p) PROVE Known(q, p)'
  BY <1>4 DEF Known, QrKept
<1>5. ASSUME NEW t \in Task, Holds(t) PROVE Holds(t)'
  <2>1. "RIDER_PICKUP" \in Phases
    BY DEF Phases
  <2>2. t.op = "confirmPickup" => Known(t.n, "RIDER_PICKUP")' /\ Complete("RIDER_PICKUP")'
    BY <1>2, <1>4, <1>5, <2>1 DEF Holds
  <2>3. t.op = "confirmDelivery" => Known(t.n, "CUSTOMER_DELIVERY")'
    BY <1>4, <1>5 DEF Holds
  <2>4. t.op = "updateStatus" => (t.to \in Underway => HandedOver')
    BY <1>3, <1>5 DEF Holds
  <2> QED BY <1>5, <2>2, <2>3, <2>4 DEF Holds
<1> QED BY <1>1, <1>2, <1>5

\* The invariant's part on the tasks survives a step that gives one request a task.
LEMMA TasksKept ==
    ASSUME TypeOK, TypeOK', QrKept, ScansKept, TasksHold,
           NEW r \in Requests, NEW t \in Task, Holds(t)', task' = [task EXCEPT ![r] = t]
    PROVE  TasksHold'
<1> SUFFICES ASSUME NEW x \in Requests PROVE Holds(task[x])'
  BY DEF TasksHold
<1>1. \E u \in Task : Holds(u)' /\ task'[x] = u
  <2>1. CASE x = r
    BY <2>1 DEF TypeOK
  <2>2. CASE x # r
    <3>1. PICK u \in Task : u = task[x] /\ Holds(u)
      BY DEF TypeOK, TasksHold
    <3>2. Holds(u)'
      BY <3>1, HoldsKept
    <3>3. task'[x] = u
      BY <2>2, <3>1 DEF TypeOK
    <3> QED BY <3>2, <3>3
  <2> QED BY <2>1, <2>2
<1>2. PICK u \in Task : Holds(u)' /\ task'[x] = u
  BY <1>1
<1> QED BY <1>2 DEF Holds

-----------------------------------------------------------------------------
Safe == DeliveredIsVerified /\ OnTheRoadIsHandedOver /\ RiderPaidOnce /\ RestockedByReversal

\* A step that neither touches the delivery, the fee and the stock, nor undoes
\* what is recorded, keeps the four properties.
LEMMA SafeKept ==
    ASSUME IInv, TypeOK', QrKept, ScansKept,
           delivery' = delivery, earning' = earning, releases' = releases,
           restocks' = restocks, reversed' = reversed
    PROVE  Safe'
<1>1. /\ Used("CUSTOMER_DELIVERY") => Used("CUSTOMER_DELIVERY")'
      /\ Used("RIDER_PICKUP") => Used("RIDER_PICKUP")'
      /\ Complete("RIDER_PICKUP") => Complete("RIDER_PICKUP")'
  BY HoldsKept DEF IInv, Purposes, Phases
<1> QED
  BY <1>1 DEF IInv, Safe, DeliveredIsVerified, OnTheRoadIsHandedOver, RiderPaidOnce,
              RestockedByReversal

\* The invariant holds at first.
LEMMA InvInit == Init => IInv
<1> SUFFICES ASSUME Init PROVE IInv
  OBVIOUS
<1>0. Idle \in Task
  BY DEF Idle, Doing, Task
<1>1. TypeOK
  <2>1. qr \in [Qrs -> Credential]
    BY DEF Init, Credential, QrStatus
  <2>2. task \in [Requests -> Task] /\ scanned \in [Phases -> Nat]
    BY <1>0 DEF Init
  <2>3. interventions \in 0..MaxInterventions /\ releases \in Nat /\ restocks \in Nat /\ points \in Nat
    BY FulfilmentAssumption DEF Init
  <2>4. /\ status \in OrderStatus /\ delivery \in DeliveryStatus
        /\ rider \in Riders \cup {NoRider} /\ reversed \in BOOLEAN
        /\ earning \in {"none", "HELD", "RELEASED"}
        /\ cashback \in {"none", "AVAILABLE", "REVERSED"}
        /\ referral \in {"PENDING", "QUALIFIED"}
    BY DEF Init, OrderStatus, DeliveryStatus
  <2> QED BY <2>1, <2>2, <2>3, <2>4 DEF TypeOK
<1>2. TasksHold
  BY DEF Init, TasksHold, Holds, Idle, Doing
<1> QED
  BY <1>1, <1>2 DEF Init, IInv, DeliveredIsVerified, OnTheRoadIsHandedOver, Underway,
                    RiderPaidOnce, RestockedByReversal

\* The reads keep it.
LEMMA ReadsKeepInv ==
    ASSUME IInv, NEW r \in Requests, Reads(r)
    PROVE  IInv'
<1>1. PICK t \in Task : Holds(t) /\ task' = [task EXCEPT ![r] = t]
  BY ReadStep
<1>2. /\ interventions' \in 0..MaxInterventions
      /\ UNCHANGED <<status, carriage, qr, scanned, restocks, reversed, rewards>>
  BY ReadStep
<1>3. TypeOK'
  BY <1>1, <1>2 DEF IInv, TypeOK, carriage, rewards
<1>4. QrKept /\ ScansKept
  BY <1>2 DEF IInv, TypeOK, QrKept, ScansKept
<1>5. Holds(t)'
  BY <1>1, <1>3, <1>4, HoldsKept DEF IInv
<1>6. TasksHold'
  BY <1>1, <1>3, <1>4, <1>5, TasksKept DEF IInv
<1>7. Safe'
  BY <1>2, <1>3, <1>4, SafeKept DEF carriage
<1> QED BY <1>3, <1>6, <1>7 DEF IInv, Safe

\* The writes keep it, each by what its request has established.
LEMMA WritesKeepInv ==
    ASSUME IInv, NEW r \in Requests, Writes(r)
    PROVE  IInv'
<1>1. TypeOK' /\ QrKept /\ ScansKept /\ TaskMoves(r)
  BY WriteTypes
<1>2. TasksHold'
  <2>1. PICK t \in Task : /\ task' = [task EXCEPT ![r] = t]
                          /\ t = Idle \/ (t.op = "create" /\ t.to \in Purposes)
    BY <1>1 DEF TaskMoves
  <2>2. Holds(t)'
    BY <2>1 DEF Holds, Idle, Doing
  <2> QED BY <1>1, <2>1, <2>2, TasksKept DEF IInv
<1>3. /\ Used("CUSTOMER_DELIVERY") => Used("CUSTOMER_DELIVERY")'
      /\ Used("RIDER_PICKUP") => Used("RIDER_PICKUP")'
      /\ Complete("RIDER_PICKUP") => Complete("RIDER_PICKUP")'
  BY <1>1, HoldsKept DEF IInv, Purposes, Phases
<1>4. ASSUME NEW q, NEW p, Known(q, p), Consume(q)
      PROVE  Used(p)'
  <2>1. q \in Qrs /\ qr'[q] = [purpose |-> p, status |-> "CONSUMED"]
    BY <1>4 DEF IInv, TypeOK, Known, Consume
  <2> QED BY <2>1 DEF Used
<1>5. Holds(task[r])
  BY DEF IInv, TasksHold
<1>6. ASSUME SavePickup(r) PROVE Safe'
  <2>1. Known(task[r].n, "RIDER_PICKUP") /\ Complete("RIDER_PICKUP") /\ Consume(task[r].n)
    BY <1>5, <1>6 DEF SavePickup, Finish, Holds
  <2>2. Used("RIDER_PICKUP")' /\ Complete("RIDER_PICKUP")'
    BY <1>3, <1>4, <2>1
  <2>3. /\ delivery' = "PICKED_UP" /\ earning' = earning /\ releases' = releases
        /\ restocks' = restocks /\ reversed' = reversed
    BY <1>6 DEF SavePickup
  <2> QED
    BY <1>3, <2>2, <2>3 DEF IInv, Safe, DeliveredIsVerified, OnTheRoadIsHandedOver, RiderPaidOnce,
                            RestockedByReversal
<1>7. ASSUME SaveDelivery(r) PROVE Safe'
  <2>1. Known(task[r].n, "CUSTOMER_DELIVERY") /\ Consume(task[r].n)
    BY <1>5, <1>7 DEF SaveDelivery, Finish, Holds
  <2>2. Used("CUSTOMER_DELIVERY")'
    BY <1>4, <2>1
  <2>3. /\ delivery' = "DELIVERED" /\ restocks' = restocks /\ reversed' = reversed
        /\ ReleaseRiderEarning
    BY <1>7 DEF SaveDelivery
  <2>4. RiderPaidOnce'
    BY <2>3 DEF IInv, TypeOK, RiderPaidOnce, ReleaseRiderEarning
  <2> QED
    BY <2>2, <2>3, <2>4 DEF IInv, Safe, DeliveredIsVerified, OnTheRoadIsHandedOver, Underway,
                            RestockedByReversal
<1>8. ASSUME SaveUpdate(r) PROVE Safe'
  <2>1. /\ task[r].to \in DeliveryStatus \ {"PICKED_UP", "DELIVERED"}
        /\ task[r].to \in Underway => HandedOver
    BY <1>5, <1>8 DEF SaveUpdate, Finish, Holds
  <2>2. /\ delivery' = task[r].to /\ earning' = earning /\ releases' = releases
        /\ restocks' = restocks /\ reversed' = reversed
    BY <1>8 DEF SaveUpdate
  <2> QED
    BY <1>3, <2>1, <2>2 DEF IInv, Safe, DeliveredIsVerified, OnTheRoadIsHandedOver, HandedOver,
                            RiderPaidOnce, RestockedByReversal
<1>9. ASSUME \/ WriteStatus(r) \/ CompleteByStaff(r) \/ InsertScan(r) \/ RevokeQr(r)
             \/ (\E q \in Qrs : CreateQr(r, q)) \/ Abandon(r)
      PROVE  Safe'
  <2>1. /\ delivery' = delivery /\ earning' = earning /\ releases' = releases
        /\ restocks' = restocks /\ reversed' = reversed
    BY <1>9 DEF WriteStatus, CompleteByStaff, InsertScan, RevokeQr, CreateQr, Abandon, carriage
  <2> QED BY <1>1, <2>1, SafeKept
<1>10. Safe'
  BY <1>6, <1>7, <1>8, <1>9 DEF Writes
<1> QED BY <1>1, <1>2, <1>10 DEF IInv, Safe

\* The steps outside a request: cancellation, a claim and the passing of time.
LEMMA OthersKeepInv ==
    ASSUME IInv,
           \/ Cancel
           \/ \E who \in Riders : ClaimDelivery(who)
           \/ \E q \in Qrs : Lapse(q)
    PROVE  IInv'
<1>1. ASSUME TypeOK', QrKept, ScansKept, task' = task PROVE TasksHold'
  <2> SUFFICES ASSUME NEW x \in Requests PROVE Holds(task[x])'
    BY DEF TasksHold
  <2>1. PICK u \in Task : u = task[x] /\ Holds(u)
    BY DEF IInv, TypeOK, TasksHold
  <2>2. Holds(u)' /\ task'[x] = u
    BY <1>1, <2>1, HoldsKept DEF IInv
  <2> QED BY <2>2 DEF Holds
<1>2. ASSUME Cancel PROVE IInv'
  <2>1. qr' \in [Qrs -> Credential] /\ QrKept
    BY <1>2 DEF Cancel, Revoked, IInv, TypeOK, Credential, QrStatus, QrKept
  <2>2. TypeOK'
    BY <1>2, <2>1 DEF Cancel, IInv, TypeOK, OrderStatus, DeliveryStatus
  <2>3. ScansKept /\ task' = task
    BY <1>2 DEF Cancel, ScansKept, IInv, TypeOK
  <2>4. TasksHold'
    BY <1>1, <2>1, <2>2, <2>3
  <2>5. Used("CUSTOMER_DELIVERY") => Used("CUSTOMER_DELIVERY")'
    BY <2>1, <2>2, <2>3, HoldsKept DEF IInv, Purposes
  <2>6. DeliveredIsVerified' /\ OnTheRoadIsHandedOver' /\ RiderPaidOnce'
    BY <1>2, <2>5 DEF Cancel, IInv, DeliveredIsVerified, OnTheRoadIsHandedOver, Underway,
                      RiderPaidOnce
  <2>7. RestockedByReversal'
    BY <1>2 DEF Cancel, Cancellable, IInv, TypeOK, RestockedByReversal
  <2> QED BY <2>2, <2>4, <2>6, <2>7 DEF IInv
<1>3. ASSUME NEW who \in Riders, ClaimDelivery(who) PROVE IInv'
  <2>1. TypeOK'
    BY <1>3 DEF ClaimDelivery, IInv, TypeOK, OrderStatus, DeliveryStatus, rewards
  <2>2. QrKept /\ ScansKept /\ task' = task /\ qr' = qr
    BY <1>3 DEF ClaimDelivery, QrKept, ScansKept, IInv, TypeOK
  <2>3. TasksHold'
    BY <1>1, <2>1, <2>2
  <2>4. DeliveredIsVerified' /\ OnTheRoadIsHandedOver' /\ RiderPaidOnce' /\ RestockedByReversal'
    BY <1>3 DEF ClaimDelivery, IInv, DeliveredIsVerified, OnTheRoadIsHandedOver, Underway,
                RiderPaidOnce, RestockedByReversal, Used
  <2> QED BY <2>1, <2>3, <2>4 DEF IInv
<1>4. ASSUME NEW q \in Qrs, Lapse(q) PROVE IInv'
  <2>1. qr' \in [Qrs -> Credential] /\ QrKept
    BY <1>4 DEF Lapse, IInv, TypeOK, Credential, QrStatus, QrKept
  <2>2. TypeOK'
    BY <1>4, <2>1 DEF Lapse, IInv, TypeOK, carriage, rewards
  <2>3. ScansKept /\ task' = task
    BY <1>4 DEF Lapse, ScansKept, IInv, TypeOK
  <2>4. TasksHold'
    BY <1>1, <2>1, <2>2, <2>3
  <2>5. Safe'
    BY <1>4, <2>1, <2>2, <2>3, SafeKept DEF Lapse, carriage
  <2> QED BY <2>2, <2>4, <2>5 DEF IInv, Safe
<1> QED BY <1>2, <1>3, <1>4

\* Every step keeps it.
LEMMA InvNext == IInv /\ [Next]_vars => IInv'
<1> SUFFICES ASSUME IInv, [Next]_vars PROVE IInv'
  OBVIOUS
<1>1. CASE Next
  BY <1>1, NextCases, ReadsKeepInv, WritesKeepInv, OthersKeepInv
<1>2. CASE UNCHANGED vars
  BY <1>2 DEF vars, carriage, rewards, IInv, TypeOK, TasksHold, Holds, Known, HandedOver, Used,
              Complete, DeliveredIsVerified, OnTheRoadIsHandedOver, RiderPaidOnce,
              RestockedByReversal
<1> QED BY <1>1, <1>2

\* The inductive invariant holds in every reachable state.
THEOREM InvCorrect == Spec => []IInv
BY InvInit, InvNext, PTL DEF Spec

\* A delivery is DELIVERED, and its fee released, only by the customer's QR.
THEOREM DeliveredCorrect == Spec => []DeliveredIsVerified
<1>1. IInv => DeliveredIsVerified
  BY DEF IInv
<1> QED BY InvCorrect, <1>1, PTL

\* A delivery is on the road only after the QR handoff of every unit.
THEOREM HandoverCorrect == Spec => []OnTheRoadIsHandedOver
<1>1. IInv => OnTheRoadIsHandedOver
  BY DEF IInv
<1> QED BY InvCorrect, <1>1, PTL

\* The rider's wallet is credited at most once for a delivery.
THEOREM RiderPaidCorrect == Spec => []RiderPaidOnce
<1>1. IInv => RiderPaidOnce
  BY DEF IInv
<1> QED BY InvCorrect, <1>1, PTL

\* A cancelled order's units return to the shelf at most once.
THEOREM RestockedCorrect == Spec => []RestockedOnce
<1>1. IInv => RestockedOnce
  BY DEF IInv, RestockedByReversal, RestockedOnce
<1> QED BY InvCorrect, <1>1, PTL

\* A delivery never changes hands.
THEOREM OneRiderCorrect == Spec => OneRider
<1>1. [Next]_vars => [rider # NoRider => rider' = rider]_vars
  <2> SUFFICES ASSUME Next, rider # NoRider PROVE rider' = rider
    BY DEF vars
  <2>1. \A who \in Riders : ~ClaimDelivery(who)
    BY DEF ClaimDelivery, Claimable
  <2>2. ASSUME NEW r \in Requests, Reads(r) PROVE rider' = rider
    BY <2>2 DEF Reads, SetStatus, UpdateOrderStatus, CompletePacking, ScanItem, CustomerQr,
                HandoffQr, Issue, ConfirmPickup, ConfirmDelivery, UpdateStatus, carriage
  <2>3. ASSUME NEW r \in Requests, Writes(r) PROVE rider' = rider
    BY <2>3 DEF Writes, WriteStatus, CompleteByStaff, InsertScan, RevokeQr, CreateQr, SavePickup,
                SaveDelivery, SaveUpdate, Abandon, carriage
  <2>4. Cancel \/ (\E q \in Qrs : Lapse(q)) => rider' = rider
    BY DEF Cancel, Lapse, carriage
  <2> QED BY <2>1, <2>2, <2>3, <2>4, NextCases
<1> QED BY <1>1, PTL DEF Spec, OneRider

-----------------------------------------------------------------------------
(***************************************************************************)
(* The scans.  A scan that was checked and not inserted yet may add its    *)
(* units at any time, so they are counted with the inserted ones; a check  *)
(* knows nothing of the others, each of which may add up to Quantity.      *)
(***************************************************************************)
\* The units that a request is about to insert for the phase.
Due(t, phase) == IF t.op = "scan" /\ t.to = phase THEN t.n ELSE 0

Pending(phase) == [r \in Requests |-> Due(task[r], phase)]

ScanBudget(phase) ==
    /\ \A r \in Requests : Due(task[r], phase) \in 0..Quantity
    /\ scanned[phase] + SumFunction(Pending(phase)) <= Quantity * Cardinality(Requests)

ScansInv == \A phase \in Phases : ScanBudget(phase)

\* How a step moves the scans of a phase: it begins one, inserts one, or leaves
\* the count alone and at most drops one.
ScansMove(phase) ==
    \/ \E r \in Requests, n \in 1..Quantity :
         /\ scanned[phase] + n <= Quantity
         /\ scanned'[phase] = scanned[phase]
         /\ Due(task'[r], phase) = n
         /\ \A x \in Requests \ {r} : task'[x] = task[x]
    \/ \E r \in Requests :
         /\ scanned'[phase] = scanned[phase] + Due(task[r], phase)
         /\ Due(task'[r], phase) = 0
         /\ \A x \in Requests \ {r} : task'[x] = task[x]
    \/ \E r \in Requests :
         /\ scanned'[phase] = scanned[phase]
         /\ Due(task'[r], phase) = 0
         /\ \A x \in Requests \ {r} : task'[x] = task[x]
    \/ scanned'[phase] = scanned[phase] /\ \A x \in Requests : task'[x] = task[x]

\* The pending units are numbers, and so is their sum.
LEMMA PendingType ==
    ASSUME NEW phase, \A r \in Requests : Due(task[r], phase) \in 0..Quantity
    PROVE  /\ Pending(phase) \in [Requests -> Int]
           /\ SumFunction(Pending(phase)) \in Nat
<1>1. Pending(phase) \in [Requests -> Nat] /\ Pending(phase) \in [Requests -> Int]
  BY FulfilmentAssumption DEF Pending
<1>2. IsFiniteSet(Requests)
  BY FulfilmentAssumption
<1> HIDE DEF Pending
<1>3. QED BY <1>1, <1>2, SumFunctionIsNat

\* The budget survives such a move.
LEMMA BudgetKept ==
    ASSUME TypeOK, TypeOK', NEW phase \in Phases, ScanBudget(phase), ScansMove(phase)
    PROVE  ScanBudget(phase)'
<1> DEFINE f == Pending(phase)
           g == Pending(phase)'
           top == Quantity * Cardinality(Requests)
<1>0. /\ IsFiniteSet(Requests) /\ Quantity \in Nat \ {0} /\ Cardinality(Requests) \in Nat
      /\ scanned[phase] \in Nat /\ scanned'[phase] \in Nat
  BY FulfilmentAssumption, FS_CardinalityType DEF TypeOK
<1>1. top \in Int
  BY <1>0
<1>2. f \in [Requests -> Int] /\ SumFunction(f) \in Nat
  BY PendingType DEF ScanBudget
<1>3. scanned[phase] + SumFunction(f) <= top
  BY DEF ScanBudget
<1>4. \A r \in Requests : f[r] = Due(task[r], phase) /\ g[r] = Due(task'[r], phase)
  BY DEF Pending, Due
<1>5. \A r \in Requests : Due(task[r], phase) \in 0..Quantity
  BY DEF ScanBudget
<1>6. ASSUME \A r \in Requests : Due(task'[r], phase) \in 0..Quantity
      PROVE  /\ \A r \in Requests : g[r] \in 0..Quantity
             /\ g \in [Requests -> Int]
  <2>1. \A r \in Requests : g[r] \in 0..Quantity
    BY <1>4, <1>6
  <2>2. g = [r \in Requests |-> Due(task'[r], phase)]
    BY DEF Pending, Due
  <2>3. QED BY <1>6, <2>1, <2>2, <1>0
<1>7. SUFFICES /\ \A r \in Requests : Due(task'[r], phase) \in 0..Quantity
               /\ scanned'[phase] + SumFunction(g) <= top
  BY DEF ScanBudget, Due
<1>8. ASSUME NEW r \in Requests, NEW n \in 1..Quantity, scanned[phase] + n <= Quantity,
             scanned'[phase] = scanned[phase], Due(task'[r], phase) = n,
             \A x \in Requests \ {r} : task'[x] = task[x]
      PROVE  /\ \A x \in Requests : Due(task'[x], phase) \in 0..Quantity
             /\ scanned'[phase] + SumFunction(g) <= top
  <2>1. \A x \in Requests : Due(task'[x], phase) \in 0..Quantity
    <3>1. \A x \in Requests \ {r} : Due(task'[x], phase) \in 0..Quantity
      BY <1>8, <1>5
    <3>2. n \in 0..Quantity
      BY <1>0
    <3>3. QED BY <3>1, <3>2, <1>8
  <2>2. g \in [Requests -> Int] /\ \A x \in Requests : g[x] \in 0..Quantity
    BY <1>6, <2>1
  <2>3. g[r] = n
    BY <1>4, <1>8
  <2> HIDE DEF f, g
  <2>4. SumFunction(g) = g[r] + SumFunctionOnSet(g, Requests \ {r})
    <3>1. DOMAIN g = Requests /\ \A y \in Requests : g[y] \in Int
      BY <2>2
    <3>2. SumFunctionOnSet(g, Requests) = g[r] + SumFunctionOnSet(g, Requests \ {r})
      BY <1>0, <3>1, SumRemove
    <3>3. QED BY <3>1, <3>2 DEF SumFunction
  <2>5. IsFiniteSet(Requests \ {r}) /\ Cardinality(Requests \ {r}) = Cardinality(Requests) - 1
    BY <1>0, FS_RemoveElement
  <2>6. SumFunctionOnSet(g, Requests \ {r}) <= Quantity * Cardinality(Requests \ {r})
    BY <1>0, <2>2, <2>5, SumBounded
  <2>7. SumFunctionOnSet(g, Requests \ {r}) \in Int
    BY <2>2, <2>5, SumIsInt
  <2>8. Quantity * (Cardinality(Requests) - 1) = top - Quantity
    BY <1>0
  <2> HIDE DEF top
  <2>9. SumFunctionOnSet(g, Requests \ {r}) <= top - Quantity
    BY <2>5, <2>6, <2>8
  <2>10. scanned'[phase] + SumFunction(g) <= top
    BY <1>0, <1>1, <1>8, <2>3, <2>4, <2>7, <2>9
  <2>11. QED BY <2>1, <2>10
<1>9. ASSUME NEW r \in Requests, Due(task'[r], phase) = 0,
             \/ scanned'[phase] = scanned[phase] + Due(task[r], phase)
             \/ scanned'[phase] = scanned[phase],
             \A x \in Requests \ {r} : task'[x] = task[x]
      PROVE  /\ \A x \in Requests : Due(task'[x], phase) \in 0..Quantity
             /\ scanned'[phase] + SumFunction(g) <= top
  <2>1. \A x \in Requests : Due(task'[x], phase) \in 0..Quantity
    <3>1. \A x \in Requests \ {r} : Due(task'[x], phase) \in 0..Quantity
      BY <1>9, <1>5
    <3>2. 0 \in 0..Quantity
      BY <1>0
    <3>3. QED BY <3>1, <3>2, <1>9
  <2>2. g \in [Requests -> Int]
    BY <1>6, <2>1
  <2>3. g[r] = 0 /\ f[r] = Due(task[r], phase) /\ f[r] \in 0..Quantity
    BY <1>4, <1>5, <1>9
  <2>4. \A x \in Requests \ {r} : f[x] = g[x]
    BY <1>4, <1>9
  <2> HIDE DEF f, g, top
  <2>5. SumFunction(g) = SumFunction(f) - f[r] + g[r]
    BY <1>0, <1>2, <2>2, <2>4, SumFunctionDiffersAt
  <2>6. QED BY <1>0, <1>1, <1>2, <1>3, <1>9, <2>1, <2>3, <2>5
<1>10. ASSUME scanned'[phase] = scanned[phase], \A x \in Requests : task'[x] = task[x]
      PROVE  /\ \A x \in Requests : Due(task'[x], phase) \in 0..Quantity
             /\ scanned'[phase] + SumFunction(g) <= top
  <2>1. \A x \in Requests : Due(task'[x], phase) = Due(task[x], phase)
    BY <1>10
  <2>2. g = f
    BY <2>1 DEF Pending, Due
  <2>3. QED BY <1>3, <1>5, <1>10, <2>1, <2>2
<1>11. QED
  BY <1>8, <1>9, <1>10 DEF ScansMove

\* Every step moves the scans of a phase in one of those ways.
LEMMA StepMovesScans ==
    ASSUME IInv, [Next]_vars, NEW phase \in Phases
    PROVE  ScansMove(phase)
<1>0. task \in [Requests -> Task] /\ scanned \in [Phases -> Nat]
  BY DEF IInv, TypeOK
<1>1. ASSUME NEW r \in Requests, NEW t, task' = [task EXCEPT ![r] = t], t.op # "scan",
             scanned' = scanned
      PROVE  ScansMove(phase)
  <2>1. Due(task'[r], phase) = 0 /\ \A x \in Requests \ {r} : task'[x] = task[x]
    BY <1>0, <1>1 DEF Due
  <2>2. QED BY <1>1, <2>1 DEF ScansMove
<1>2. ASSUME NEW r \in Requests, NEW q \in Phases, NEW n \in 1..Quantity, ScanItem(r, q, n)
      PROVE  ScansMove(phase)
  <2> DEFINE t == Doing("scan", "none", q, n)
  <2>1. /\ task' = [task EXCEPT ![r] = t] /\ scanned' = scanned /\ scanned[q] + n <= Quantity
    BY <1>2 DEF ScanItem, Begin, Scannable
  <2>2. task'[r] = t /\ \A x \in Requests \ {r} : task'[x] = task[x]
    BY <1>0, <2>1
  <2>3. Due(t, phase) = IF q = phase THEN n ELSE 0
    BY DEF Due, Doing
  <2> HIDE DEF t
  <2>4. QED BY <2>1, <2>2, <2>3 DEF ScansMove
<1>3. ASSUME NEW r \in Requests, InsertScan(r)
      PROVE  ScansMove(phase)
  <2>1. /\ task[r].op = "scan" /\ task' = [task EXCEPT ![r] = Idle] /\ task[r].to \in Phases
        /\ scanned' = [scanned EXCEPT ![task[r].to] = @ + task[r].n]
    BY <1>3 DEF InsertScan, Finish, IInv, TasksHold, Holds
  <2>2. Due(task'[r], phase) = 0 /\ \A x \in Requests \ {r} : task'[x] = task[x]
    BY <1>0, <2>1 DEF Due, Idle, Doing
  <2>3. scanned'[phase] = scanned[phase] + Due(task[r], phase)
    BY <1>0, <2>1 DEF Due
  <2>4. QED BY <2>2, <2>3 DEF ScansMove
<1>4. ASSUME NEW r \in Requests, Reads(r) PROVE ScansMove(phase)
  <2>1. ASSUME NEW job, Begin(r, job), job.op # "scan", scanned' = scanned PROVE ScansMove(phase)
    BY <2>1, <1>1 DEF Begin
  <2>2. ASSUME NEW to \in OrderStatus, SetStatus(r, to) \/ UpdateOrderStatus(r, to)
        PROVE  ScansMove(phase)
    BY <2>1, <2>2 DEF SetStatus, UpdateOrderStatus, Doing
  <2>3. CompletePacking(r) => ScansMove(phase)
    BY <2>1 DEF CompletePacking, Doing
  <2>4. ASSUME NEW purpose, NEW force \in BOOLEAN, Issue(r, purpose, force) PROVE ScansMove(phase)
    BY <2>1, <2>4 DEF Issue, Doing
  <2>5. (\E regenerate \in BOOLEAN : CustomerQr(r, regenerate)) \/ HandoffQr(r) => ScansMove(phase)
    BY <2>4 DEF CustomerQr, HandoffQr
  <2>6. ASSUME NEW q \in Qrs, ConfirmPickup(r, q) \/ ConfirmDelivery(r, q) PROVE ScansMove(phase)
    BY <2>1, <2>6 DEF ConfirmPickup, ConfirmDelivery, Doing
  <2>7. ASSUME NEW to \in DeliveryStatus, UpdateStatus(r, to) PROVE ScansMove(phase)
    BY <2>1, <2>7 DEF UpdateStatus, Doing
  <2>8. QED BY <1>2, <1>4, <2>2, <2>3, <2>5, <2>6, <2>7 DEF Reads
<1>5. ASSUME NEW r \in Requests, Writes(r) PROVE ScansMove(phase)
  <2>1. ASSUME scanned' = scanned PROVE ScansMove(phase)
    <3>1. PICK t \in Task : /\ task' = [task EXCEPT ![r] = t]
                            /\ t = Idle \/ (t.op = "create" /\ t.to \in Purposes)
      BY <1>5, WriteTypes DEF TaskMoves
    <3>2. t.op # "scan"
      BY <3>1 DEF Idle, Doing
    <3>3. QED BY <1>1, <2>1, <3>1, <3>2
  <2>2. \/ WriteStatus(r) \/ CompleteByStaff(r) \/ RevokeQr(r) \/ (\E q \in Qrs : CreateQr(r, q))
        \/ SavePickup(r) \/ SaveDelivery(r) \/ SaveUpdate(r) \/ Abandon(r)
        => scanned' = scanned
    BY DEF WriteStatus, CompleteByStaff, RevokeQr, CreateQr, SavePickup, SaveDelivery, SaveUpdate,
           Abandon
  <2>3. QED BY <1>3, <1>5, <2>1, <2>2 DEF Writes
<1>6. ASSUME scanned' = scanned, task' = task PROVE ScansMove(phase)
  BY <1>6 DEF ScansMove
<1>7. UNCHANGED vars \/ Cancel \/ (\E who \in Riders : ClaimDelivery(who)) \/ (\E q \in Qrs : Lapse(q))
      => scanned' = scanned /\ task' = task
  BY DEF vars, Cancel, ClaimDelivery, Lapse
<1>8. QED BY <1>4, <1>5, <1>6, <1>7, NextCases

\* However many scans of a line are checked at once, the line counts at most its
\* quantity for each concurrent request.
THEOREM ScansCorrect == Spec => []ScansAreBounded
<1>1. Init => ScansInv
  <2> SUFFICES ASSUME Init, NEW phase \in Phases PROVE ScanBudget(phase)
    BY DEF ScansInv
  <2>1. scanned[phase] = 0 /\ \A r \in Requests : Due(task[r], phase) = 0
    BY DEF Init, Due, Idle, Doing
  <2>2. \A r \in Requests : Due(task[r], phase) \in 0..Quantity
    BY <2>1, FulfilmentAssumption
  <2>3. Pending(phase) \in [Requests -> Int] /\ \A r \in Requests : Pending(phase)[r] = 0
    BY <2>1, <2>2, PendingType DEF Pending
  <2>4. SumFunction(Pending(phase)) = 0
    <3> HIDE DEF Pending
    <3>1. QED BY <2>3, FulfilmentAssumption, SumFunctionZero
  <2>5. Quantity * Cardinality(Requests) \in Nat
    <3>1. Cardinality(Requests) \in Nat /\ Quantity \in Nat
      BY FulfilmentAssumption, FS_CardinalityType
    <3>2. QED BY <3>1, SMT
  <2>6. scanned[phase] + SumFunction(Pending(phase)) <= Quantity * Cardinality(Requests)
    BY <2>1, <2>4, <2>5
  <2>7. QED BY <2>2, <2>6 DEF ScanBudget
<1>2. IInv /\ IInv' /\ ScansInv /\ [Next]_vars => ScansInv'
  <2> SUFFICES ASSUME IInv, IInv', ScansInv, [Next]_vars, NEW phase \in Phases
               PROVE  ScanBudget(phase)'
    BY DEF ScansInv
  <2>1. TypeOK /\ TypeOK' /\ ScanBudget(phase)
    BY DEF IInv, ScansInv
  <2>2. ScansMove(phase)
    BY StepMovesScans
  <2>3. QED BY <2>1, <2>2, BudgetKept
<1>3. IInv /\ ScansInv => ScansAreBounded
  <2> SUFFICES ASSUME IInv, ScansInv, NEW phase \in Phases
               PROVE  scanned[phase] <= Quantity * Cardinality(Requests)
    BY DEF ScansAreBounded
  <2>1. /\ \A r \in Requests : Due(task[r], phase) \in 0..Quantity
        /\ scanned[phase] + SumFunction(Pending(phase)) <= Quantity * Cardinality(Requests)
    BY DEF ScansInv, ScanBudget
  <2>2. SumFunction(Pending(phase)) \in Nat
    BY <2>1, PendingType
  <2>3. scanned[phase] \in Nat /\ Quantity * Cardinality(Requests) \in Int
    <3>1. Cardinality(Requests) \in Nat /\ Quantity \in Nat
      BY FulfilmentAssumption, FS_CardinalityType
    <3>2. QED BY <3>1 DEF IInv, TypeOK
  <2> DEFINE a == SumFunction(Pending(phase))
             b == Quantity * Cardinality(Requests)
  <2>4. scanned[phase] \in Nat /\ a \in Nat /\ b \in Int /\ scanned[phase] + a <= b
    BY <2>1, <2>2, <2>3
  <2> HIDE DEF a, b
  <2>5. scanned[phase] <= b
    BY <2>4
  <2>6. QED BY <2>5 DEF b
<1>4. QED BY InvCorrect, <1>1, <1>2, <1>3, PTL DEF Spec
=============================================================================
