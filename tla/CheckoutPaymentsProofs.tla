---------------------- MODULE CheckoutPaymentsProofs ----------------------
(***************************************************************************)
(* Proofs about CheckoutPayments, for any customers, stores, groups,       *)
(* handlers and prices, and for either value of SnapshotReads.  Three      *)
(* layers: the rows of a checkout agree with one another (IInv), stock and *)
(* wallet money are conserved, and every step is one of CheckoutContract.  *)
(***************************************************************************)
EXTENDS CheckoutPayments, SumTheorems, TLAPS

Funded(g) == charge[g] = "success" \/ loan[g] = "success" \/ method[g] = "WALLET"

\* How the rows of a group agree with its status.
GroupConsistent(g) ==
    /\ group[g] = "none" => payment[g] = "none"
    /\ group[g] = "PENDING" => payment[g] = "none"
    /\ group[g] = "PROCESSING" => payment[g] = "PENDING"
    /\ group[g] = "PAID" => payment[g] \in Captured /\ Funded(g)

\* How the rows of one order agree with the status of its group.
OrderConsistent(g, s) ==
    /\ group[g] = "none" => order[g][s] = "none"
    /\ group[g] \in Unpaid => order[g][s] \in {"none", "ORDER_RECEIVED"}
    /\ group[g] = "PAID" => order[g][s] \in {"none", "CONFIRMED", "CANCELLED"}
    /\ group[g] = "FAILED" => order[g][s] \in {"none", "CANCELLED"}
    /\ settled[g][s] = "CREDITED" <=> order[g][s] = "CONFIRMED"
    /\ settled[g][s] = "REVERSED" <=> (order[g][s] = "CANCELLED" /\ group[g] = "PAID")
    /\ order[g][s] # "CANCELLED" => refund[g][s] = "none"

\* A released group has the refunds of all its orders or of none, and of all
\* once money is on record for it.
RefundsConsistent(g) ==
    group[g] = "FAILED" =>
        /\ payment[g] \in Captured => \A s \in OrdersOf(g) : refund[g][s] # "none"
        /\ (\E s \in Stores : refund[g][s] # "none") =>
              \A s \in OrdersOf(g) : refund[g][s] # "none"

\* What a handler remembers is still true when it writes.
TaskConsistent(h) ==
    task[h].pc # "idle" =>
        /\ group[task[h].job] # "none"
        /\ task[h].pc = "commit" /\ task[h].answer = "success" =>
              charge[task[h].job] = "success"
        /\ task[h].pc = "cancelLocked" =>
              /\ task[h].sawGroup # "none"
              /\ task[h].sawGroup \in Unpaid => group[task[h].job] \in Unpaid

\* The user lock is exclusive.
LockExclusive ==
    \A h1, h2 \in Handlers :
        task[h1].pc = "cancelLocked" /\ task[h2].pc = "cancelLocked"
        /\ Owner[task[h1].job] = Owner[task[h2].job] => h1 = h2

RowsConsistent ==
    /\ \A g \in Groups : GroupConsistent(g)
    /\ \A g \in Groups, s \in Stores : OrderConsistent(g, s)
    /\ \A g \in Groups : RefundsConsistent(g)

TasksConsistent ==
    /\ \A h \in Handlers : TaskConsistent(h)
    /\ LockExclusive

\* The inductive invariant.
IInv == TypeOK /\ RowsConsistent /\ TasksConsistent /\ OneActiveCheckout

-----------------------------------------------------------------------------
\* The record a handler stores is well typed.
LEMMA DoingType ==
    ASSUME NEW pc \in {"idle", "commit", "respond", "cancelTx", "cancelLocked"},
           NEW g \in Groups \cup {NoGroup},
           NEW by \in {"none", "webhook", "poll", "cancel"},
           NEW answer \in Answers
    PROVE  Doing(pc, g, by, answer) \in Task
BY DEF Doing, Task, GroupStatus, PaymentStatus

\* The idle handler is well typed.
LEMMA IdleType == Idle \in Task
BY DoingType DEF Idle, Answers

\* What is left of a cart is well typed.
LEMMA CartType ==
    ASSUME TypeOK, NEW u \in Users, NEW g \in Groups
    PROVE  CartLeft(cart[u], items[g], lines[g]) \in Quantities
BY CheckoutAssumption DEF TypeOK, CartLeft, Quantities

\* What is left of the snapshots' lines is well typed.
LEMMA LinesType ==
    ASSUME TypeOK, NEW u \in Users, NEW q \in Quantities
    PROVE  LinesLeft(u, q) \in [Groups -> SUBSET Stores]
BY CheckoutAssumption DEF TypeOK, LinesLeft

\* No items at all is a vector of quantities.
LEMMA NoItemsType == NoItems \in Quantities
BY CheckoutAssumption DEF NoItems, Quantities

\* The total of a quote is an amount.
LEMMA AmountType == ASSUME NEW q \in Quantities PROVE Amount(q) \in Nat
<1> DEFINE total == [s \in Stores |-> Price(q, s)]
<1>1. IsFiniteSet(Stores) /\ DOMAIN total = Stores /\ \A s \in Stores : total[s] \in Nat
  BY CheckoutAssumption
<1> HIDE DEF total
<1>2. SumFunctionOnSet(total, Stores) \in Nat
  BY <1>1, SumIsNat
<1> QED
  BY <1>1, <1>2 DEF Amount, SumFunction, total

\* The initial state is well typed.
LEMMA TypeInit == Init => TypeOK
BY CheckoutAssumption, NoItemsType, IdleType
   DEF Init, TypeOK, Idle, Doing, GroupStatus, OrderStatus, PaymentStatus, RefundStatus,
       SettlementStatus, ChargeStatus

\* Completing a group keeps the rows it writes well typed.
LEMMA CompleteType ==
    ASSUME TypeOK, NEW g \in Groups, CompleteGroup(g)
    PROVE  /\ order' \in [Groups -> [Stores -> OrderStatus]]
           /\ settled' \in [Groups -> [Stores -> SettlementStatus]]
           /\ outbox' \in [Groups -> SUBSET Stores]
           /\ cart' \in [Users -> Quantities]
           /\ lines' \in [Groups -> SUBSET Stores]
           /\ group' \in [Groups -> GroupStatus]
           /\ UNCHANGED <<stock, wallet, items, method, refund>>
<1>1. Owner[g] \in Users
  BY CheckoutAssumption
<1>2. CartLeft(cart[Owner[g]], items[g], lines[g]) \in Quantities
  BY <1>1, CartType
<1>3. LinesLeft(Owner[g], CartLeft(cart[Owner[g]], items[g], lines[g]))
        \in [Groups -> SUBSET Stores]
  BY <1>1, <1>2, LinesType
<1> QED
  BY <1>1, <1>2, <1>3
     DEF TypeOK, CompleteGroup, CompletedOrders, SettledOrders, OrdersOf,
         OrderStatus, SettlementStatus, GroupStatus

\* Releasing a group keeps the rows it writes well typed.
LEMMA FailType ==
    ASSUME TypeOK, NEW g \in Groups, FailGroup(g)
    PROVE  /\ stock' \in [Stores -> Int]
           /\ order' \in [Groups -> [Stores -> OrderStatus]]
           /\ group' \in [Groups -> GroupStatus]
           /\ UNCHANGED <<cart, wallet, items, lines, method, books>>
BY CheckoutAssumption
   DEF TypeOK, FailGroup, Quantities, OrderStatus, GroupStatus

\* Every step keeps every variable in its type.
LEMMA TypeStep == TypeOK /\ [Next]_vars => TypeOK'
<1> SUFFICES ASSUME TypeOK, [Next]_vars PROVE TypeOK'
  OBVIOUS
<1> USE CheckoutAssumption
<1>0. CASE UNCHANGED vars
  BY <1>0 DEF TypeOK, vars, shop, checkout, provider, books
<1>1. ASSUME NEW u \in Users, NEW q \in Quantities, SetCart(u, q) PROVE TypeOK'
  BY <1>1, LinesType DEF TypeOK, SetCart, provider, books
<1>2. ASSUME NEW u \in Users, NEW s \in Stores, NEW q \in 0..MaxQty
      PROVE  [cart[u] EXCEPT ![s] = q] \in Quantities
  BY DEF TypeOK, Quantities
<1>3. ASSUME NEW u \in Users, NEW g \in Groups, NEW m \in Methods, Create(u, g, m)
      PROVE  TypeOK'
  <2>1. /\ cart[u] \in Quantities
        /\ Amount(cart[u]) \in Nat
        /\ LinesLeft(u, NoItems) \in [Groups -> SUBSET Stores]
    BY NoItemsType, LinesType, AmountType DEF TypeOK
  <2>2. stock' \in [Stores -> Int]
    BY <1>3, <2>1 DEF Create, TypeOK, Quantities
  <2>3. /\ order' \in [Groups -> [Stores -> OrderStatus]]
        /\ settled' \in [Groups -> [Stores -> SettlementStatus]]
        /\ outbox' \in [Groups -> SUBSET Stores]
    BY <1>3 DEF Create, TypeOK, CompletedOrders, SettledOrders, OrderStatus, SettlementStatus
  <2>4. /\ cart' \in [Users -> Quantities]
        /\ lines' \in [Groups -> SUBSET Stores]
        /\ wallet' \in [Users -> Int]
        /\ items' \in [Groups -> Quantities]
    <3>1. CASE m = "WALLET"
      <4>1. wallet[u] - Amount(cart[u]) \in Int
        BY <2>1 DEF TypeOK
      <4>2. /\ wallet' = [wallet EXCEPT ![u] = wallet[u] - Amount(cart[u])]
            /\ cart' = [cart EXCEPT ![u] = NoItems]
            /\ items' = [items EXCEPT ![g] = cart[u]]
            /\ lines' = LinesLeft(u, NoItems)
        BY <1>3, <3>1 DEF Create
      <4> QED
        BY <2>1, <4>1, <4>2, NoItemsType DEF TypeOK
    <3>2. CASE m # "WALLET"
      BY <1>3, <2>1, <3>2 DEF Create, TypeOK
    <3> QED
      BY <3>1, <3>2
  <2>5. /\ method' \in [Groups -> Methods \cup {"none"}]
        /\ group' \in [Groups -> GroupStatus]
        /\ payment' \in [Groups -> PaymentStatus]
    BY <1>3 DEF Create, TypeOK, GroupStatus, PaymentStatus
  <2> QED
    BY <1>3, <2>2, <2>3, <2>4, <2>5 DEF Create, TypeOK, provider
<1>4. CASE CartNext
  <2>1. ASSUME NEW u \in Users, ClearCart(u) PROVE TypeOK'
    BY <1>1, <2>1, NoItemsType DEF ClearCart
  <2>2. ASSUME NEW u \in Users, NEW s \in Stores, AddToCart(u, s) PROVE TypeOK'
    <3>1. cart[u][s] + 1 \in 0..MaxQty
      BY <2>2 DEF AddToCart, TypeOK, Quantities
    <3> QED
      BY <1>1, <1>2, <2>2, <3>1 DEF AddToCart
  <2>3. ASSUME NEW u \in Users, NEW s \in Stores, RemoveFromCart(u, s) PROVE TypeOK'
    BY <1>1, <1>2, <2>3 DEF RemoveFromCart
  <2>4. ASSUME NEW u \in Users, NEW s \in Stores, NEW q \in 1..MaxQty,
               UpdateQuantity(u, s, q)
        PROVE  TypeOK'
    BY <1>1, <1>2, <2>4 DEF UpdateQuantity
  <2> QED
    BY <1>3, <1>4, <2>1, <2>2, <2>3, <2>4 DEF CartNext
<1>5. CASE GroupNext
  <2> SUFFICES ASSUME NEW g \in Groups,
                      \/ InitializeClaim(g) \/ InitializeSaved(g)
                      \/ InitializeFailed(g) \/ InitializeLost(g)
                      \/ ChargeSettles(g)
                      \/ KlumpInitialize(g) \/ LoanApproved(g) \/ KlumpVerify(g)
                      \/ \E s \in Stores : CancelOrder(g, s) \/ RefundSucceeds(g, s)
               PROVE  TypeOK'
    BY <1>5 DEF GroupNext
  <2>1. CASE InitializeClaim(g)
    <3>1. /\ payment' \in [Groups -> PaymentStatus]
          /\ group' \in [Groups -> GroupStatus]
      BY <2>1 DEF InitializeClaim, TypeOK, GroupStatus, PaymentStatus
    <3>2. /\ link' \in [Groups -> {"none", "initializing", "ready"}]
          /\ calls' \in [Groups -> 0..MaxCalls]
      BY <2>1 DEF InitializeClaim, TypeOK
    <3> QED
      BY <2>1, <3>1, <3>2 DEF InitializeClaim, TypeOK, shop, books
  <2>2. CASE InitializeSaved(g)
    BY <2>2 DEF InitializeSaved, Opened, TypeOK, shop, checkout, books, ChargeStatus
  <2>3. CASE InitializeFailed(g)
    BY <2>3 DEF InitializeFailed, Opened, TypeOK, shop, checkout, books, ChargeStatus
  <2>4. CASE InitializeLost(g)
    BY <2>4 DEF InitializeLost, Opened, TypeOK, shop, checkout, books, ChargeStatus
  <2>5. CASE ChargeSettles(g)
    BY <2>5 DEF ChargeSettles, TypeOK, shop, checkout, books, ChargeStatus
  <2>6. CASE KlumpInitialize(g)
    BY <2>6 DEF KlumpInitialize, TypeOK, shop, books, GroupStatus, PaymentStatus
  <2>7. CASE LoanApproved(g)
    BY <2>7 DEF LoanApproved, TypeOK, shop, checkout, books
  <2>8. CASE KlumpVerify(g)
    <3>1. payment' \in [Groups -> PaymentStatus]
      BY <2>8 DEF KlumpVerify, TypeOK, PaymentStatus
    <3>2. CASE CompleteGroup(g)
      BY <2>8, <3>1, <3>2, CompleteType DEF KlumpVerify, TypeOK, provider
    <3>3. CASE UNCHANGED <<shop, checkout, books>>
      BY <2>8, <3>1, <3>3 DEF KlumpVerify, TypeOK, provider, shop, checkout, books
    <3> QED
      BY <2>8, <3>2, <3>3 DEF KlumpVerify
  <2>9. ASSUME NEW s \in Stores, CancelOrder(g, s) PROVE TypeOK'
    <3>1. OrderTotal(g, s) \in Nat
      BY DEF TypeOK, OrderTotal
    <3>2. [refund[g] EXCEPT ![s] = IF @ = "none" THEN RefundRecord(g) ELSE @]
             \in [Stores -> RefundStatus]
      BY DEF TypeOK, RefundRecord, RefundStatus
    <3>3. /\ wallet' \in [Users -> Int]
          /\ stock' \in [Stores -> Int]
      BY <2>9, <3>1 DEF CancelOrder, TypeOK, Quantities
    <3>5. payment' \in [Groups -> PaymentStatus]
      <4>1. payment' \in {payment, [payment EXCEPT ![g] = "REFUNDED"],
                          [payment EXCEPT ![g] = "PARTIALLY_REFUNDED"]}
        BY <2>9 DEF CancelOrder, RefundedStatus
      <4> QED
        BY <4>1 DEF TypeOK, PaymentStatus
    <3>4. /\ order' \in [Groups -> [Stores -> OrderStatus]]
          /\ settled' \in [Groups -> [Stores -> SettlementStatus]]
          /\ refund' \in [Groups -> [Stores -> RefundStatus]]
      BY <2>9, <3>2 DEF CancelOrder, TypeOK, Reversal, OrderStatus, SettlementStatus
    <3> QED
      BY <2>9, <3>3, <3>4, <3>5 DEF CancelOrder, TypeOK, provider
  <2>10. ASSUME NEW s \in Stores, RefundSucceeds(g, s) PROVE TypeOK'
    BY <2>10 DEF RefundSucceeds, TypeOK, RefundedStatus, RefundStatus, PaymentStatus,
                 shop, checkout, provider
  <2> QED
    BY <2>1, <2>2, <2>3, <2>4, <2>5, <2>6, <2>7, <2>8, <2>9, <2>10
<1>6. CASE HandlerNext
  <2> DEFINE TaskOK(t) == /\ t \in [Handlers -> Task]
                           /\ \A h \in Handlers : t[h].pc # "idle" => t[h].job \in Groups
  <2>0. ASSUME NEW h \in Handlers, NEW g \in Groups,
               NEW pc \in {"commit", "respond", "cancelTx"},
               NEW by \in {"none", "webhook", "poll", "cancel"},
               NEW answer \in Answers
        PROVE  TaskOK([task EXCEPT ![h] = Doing(pc, g, by, answer)])
    BY DoingType DEF TypeOK, Doing
  <2>1. ASSUME NEW h \in Handlers PROVE TaskOK([task EXCEPT ![h] = Idle])
    BY IdleType DEF TypeOK, Idle, Doing
  <2>2. ASSUME NEW h \in Handlers, NEW g \in Groups, CancelRead(h, g) PROVE TypeOK'
    <3>1. TaskOK(task')
      BY <2>0, <2>2 DEF CancelRead, Answers
    <3> QED
      BY <2>2, <3>1 DEF CancelRead, TypeOK, shop, checkout, provider, books
  <2>3. ASSUME NEW h \in Handlers, NEW g \in Groups,
               NEW by \in {"webhook", "poll", "cancel"}, VerifyRead(h, g, by)
        PROVE  TypeOK'
    <3>1. TaskOK(task')
      <4>1. ProviderAnswers(g) \subseteq Answers
        BY DEF ProviderAnswers, TypeOK, ChargeStatus, Answers, PaymentStatus
      <4>2. payment[g] \in Answers
        BY DEF TypeOK, Answers
      <4>3. PICK pc \in {"commit", "respond"}, answer \in Answers :
               task' = [task EXCEPT ![h] = Doing(pc, g, by, answer)]
        <5>1. CASE payment[g] \in {"PENDING", "FAILED"}
          <6>1. PICK answer \in ProviderAnswers(g) :
                  task' = [task EXCEPT ![h] =
                       Doing(IF answer \in {"success", "failed"} THEN "commit" ELSE "respond",
                             g, by, answer)]
            BY <2>3, <5>1 DEF VerifyRead
          <6> QED
            BY <4>1, <6>1
        <5>2. CASE payment[g] = "PAID"
          BY <2>3, <5>2 DEF VerifyRead, Answers, PaymentStatus
        <5>3. CASE payment[g] \in {"REFUNDED", "PARTIALLY_REFUNDED"}
          BY <2>3, <4>2, <5>3 DEF VerifyRead
        <5> QED
          BY <2>3, <5>1, <5>2, <5>3 DEF VerifyRead
      <4>4. TaskOK([task EXCEPT ![h] = Doing(pc, g, by, answer)])
        BY <2>0
      <4> QED
        BY <4>3, <4>4
    <3>2. faults' \in 0..MaxFaults
      BY <2>3 DEF VerifyRead, TypeOK
    <3> QED
      BY <2>3, <3>1, <3>2 DEF VerifyRead, TypeOK, shop, checkout, provider, books
  <2>4. ASSUME NEW h \in Handlers, VerifyCommit(h) PROVE TypeOK'
    <3> DEFINE g == task[h].job
    <3>0. g \in Groups /\ task[h].by \in {"none", "webhook", "poll", "cancel"}
      BY <2>4 DEF VerifyCommit, TypeOK, Task
    <3>1. TaskOK(task')
      <4>1. PICK answer \in {"PAID", "FAILED", "REFUND_PENDING", "error"} : Answered(h, answer)
        BY <2>4 DEF VerifyCommit
      <4>a. answer \in Answers
        BY DEF Answers, PaymentStatus
      <4>2. TaskOK([task EXCEPT ![h] = Doing("respond", g, task[h].by, answer)])
        <5> HIDE DEF TaskOK, g
        <5> QED
          BY <2>0, <3>0, <4>a
      <4> QED
        BY <4>1, <4>2 DEF Answered
    <3>2. payment' \in [Groups -> PaymentStatus]
      <4>1. \/ UNCHANGED payment
            \/ \E status \in {"PAID", "FAILED"} : payment' = [payment EXCEPT ![g] = status]
        BY <2>4 DEF VerifyCommit
      <4> QED
        BY <3>0, <4>1 DEF TypeOK, PaymentStatus
    <3>3. /\ \/ CompleteGroup(g)
             \/ FailGroup(g)
             \/ UNCHANGED <<shop, checkout, books>>
             \/ refund' = [refund EXCEPT ![g] = LateRefunds(g)]
                /\ UNCHANGED <<shop, checkout, settled, outbox>>
          /\ UNCHANGED <<provider, event, faults>>
      BY <2>4 DEF VerifyCommit
    <3>4. LateRefunds(g) \in [Stores -> RefundStatus]
      BY <3>0 DEF LateRefunds, TypeOK, RefundStatus
    <3>5. CASE CompleteGroup(g)
      BY <3>0, <3>1, <3>2, <3>3, <3>5, CompleteType DEF TypeOK, provider
    <3>6. CASE FailGroup(g)
      BY <3>0, <3>1, <3>2, <3>3, <3>6, FailType DEF TypeOK, provider, books
    <3>7. CASE UNCHANGED <<shop, checkout, books>>
      BY <3>1, <3>2, <3>3, <3>7 DEF TypeOK, provider, shop, checkout, books
    <3>8. CASE refund' = [refund EXCEPT ![g] = LateRefunds(g)]
               /\ UNCHANGED <<shop, checkout, settled, outbox>>
      BY <3>0, <3>1, <3>2, <3>3, <3>4, <3>8 DEF TypeOK, provider, shop, checkout
    <3> QED
      BY <3>3, <3>5, <3>6, <3>7, <3>8
  <2>5. ASSUME NEW h \in Handlers, Respond(h) PROVE TypeOK'
    <3>0. task[h].job \in Groups
      BY <2>5 DEF Respond, TypeOK
    <3>1. TaskOK(task')
      <4> HIDE DEF TaskOK
      <4> QED
        BY <2>0, <2>1, <2>5, <3>0 DEF Respond, Answers
    <3> QED
      BY <2>5, <3>1 DEF Respond, TypeOK, shop, checkout, provider, books
  <2>6. ASSUME NEW h \in Handlers, CancelLock(h) PROVE TypeOK'
    <3>0. task[h].job \in Groups
      BY <2>6 DEF CancelLock, TypeOK
    <3>1. TaskOK(task')
      BY <2>6, <3>0 DEF CancelLock, TypeOK, Task, Answers
    <3> QED
      BY <2>6, <3>1 DEF CancelLock, TypeOK, shop, checkout, provider, books
  <2>7. ASSUME NEW h \in Handlers, CancelCommit(h) PROVE TypeOK'
    <3> DEFINE g == task[h].job
    <3>0. g \in Groups
      BY <2>7 DEF CancelCommit, TypeOK
    <3>1. TaskOK(task')
      BY <2>1, <2>7 DEF CancelCommit
    <3>2. payment' \in [Groups -> PaymentStatus]
      BY <2>7 DEF CancelCommit, TypeOK, PaymentStatus
    <3>3. CASE FailGroup(g)
      BY <2>7, <3>0, <3>1, <3>2, <3>3, FailType DEF CancelCommit, TypeOK, provider, books
    <3>4. CASE UNCHANGED <<shop, checkout, payment, books>>
      BY <2>7, <3>1, <3>4 DEF CancelCommit, TypeOK, provider, shop, checkout, books
    <3> QED
      BY <2>7, <3>3, <3>4 DEF CancelCommit
  <2>8. ASSUME NEW h \in Handlers, Abort(h) PROVE TypeOK'
    <3>0. task[h].job \in Groups /\ task[h].by \in {"none", "webhook", "poll", "cancel"}
      BY <2>8 DEF Abort, TypeOK, Task
    <3>1. TaskOK(task')
      <4> HIDE DEF TaskOK
      <4> QED
        BY <2>0, <2>1, <2>8, <3>0 DEF Abort, Answered, Answers
    <3> QED
      BY <2>8, <3>1 DEF Abort, TypeOK, shop, checkout, provider, books
  <2> QED
    BY <1>6, <2>2, <2>3, <2>4, <2>5, <2>6, <2>7, <2>8 DEF HandlerNext
<1> QED
  BY <1>0, <1>4, <1>5, <1>6 DEF Next

\* Type correctness: CheckoutPayments keeps every row, balance and handler in
\* its type, however its transactions interleave.
THEOREM TypeCorrect == Spec => []TypeOK
<1>1. Init => TypeOK
  BY TypeInit
<1>2. TypeOK /\ [Next]_vars => TypeOK'
  BY TypeStep
<1> QED
  BY <1>1, <1>2, PTL DEF Spec

-----------------------------------------------------------------------------
rows == <<method, group, order, payment, refund, settled>>

\* Nothing captured at a provider is ever un-captured.
CapturesKept ==
    \A g \in Groups : /\ charge[g] = "success" => charge'[g] = "success"
                      /\ loan[g] = "success" => loan'[g] = "success"

\* A step that leaves the rows alone, and captures nothing back, keeps them
\* consistent.
LEMMA RowsFrame ==
    ASSUME RowsConsistent, OneActiveCheckout, UNCHANGED rows, CapturesKept
    PROVE  RowsConsistent' /\ OneActiveCheckout'
BY DEF RowsConsistent, OneActiveCheckout, ActiveGroup, rows, CapturesKept, GroupConsistent,
       Funded, OrderConsistent, RefundsConsistent, OrdersOf

\* A step that leaves the handlers alone keeps them consistent when the groups
\* whose owner is locked stay unpaid, and no group disappears.
LEMMA TasksFrame ==
    ASSUME TypeOK, TasksConsistent, UNCHANGED task, CapturesKept,
           \A g \in Groups : group[g] # "none" => group'[g] # "none",
           \A g \in Groups : group[g] \in Unpaid /\ CartLocked(Owner[g]) => group'[g] \in Unpaid
    PROVE  TasksConsistent'
<1>1. ASSUME NEW h \in Handlers PROVE TaskConsistent(h)'
  BY DEF TypeOK, TasksConsistent, TaskConsistent, CapturesKept, CartLocked
<1>2. LockExclusive'
  BY DEF TasksConsistent, LockExclusive
<1> QED
  BY <1>1, <1>2 DEF TasksConsistent

\* A step in which only one handler moves, to a state that does not hold the
\* user lock, and the groups other handlers have locked stay unpaid.
LEMMA TaskMoves ==
    ASSUME TypeOK, TypeOK', TasksConsistent, NEW h \in Handlers, NEW t \in Task,
           task' = [task EXCEPT ![h] = t],
           t.pc # "cancelLocked",
           t.pc # "idle" => group'[t.job] # "none",
           t.pc = "commit" /\ t.answer = "success" => charge'[t.job] = "success",
           CapturesKept,
           \A g \in Groups : group[g] # "none" => group'[g] # "none",
           \A k \in Handlers \ {h} :
               task[k].pc = "cancelLocked" => group'[task[k].job] = group[task[k].job]
    PROVE  TasksConsistent'
<1>1. task'[h] = t /\ \A k \in Handlers \ {h} : task'[k] = task[k]
  BY DEF TypeOK
<1>2. ASSUME NEW k \in Handlers \ {h} PROVE TaskConsistent(k)'
  BY <1>1 DEF TypeOK, TasksConsistent, TaskConsistent, CapturesKept
<1>3. TaskConsistent(h)'
  BY <1>1 DEF TaskConsistent
<1>4. LockExclusive'
  BY <1>1 DEF TasksConsistent, LockExclusive
<1> QED
  BY <1>2, <1>3, <1>4 DEF TasksConsistent

\* Completing an unpaid group whose money is captured keeps the rows consistent.
LEMMA CompleteRows ==
    ASSUME TypeOK, RowsConsistent, OneActiveCheckout, NEW g \in Groups,
           Completable(g), CompleteGroup(g),
           payment' = [payment EXCEPT ![g] = "PAID"],
           Funded(g), UNCHANGED <<charge, loan>>
    PROVE  RowsConsistent' /\ OneActiveCheckout'
<1>1. /\ group' = [group EXCEPT ![g] = "PAID"]
      /\ order' = [order EXCEPT ![g] = CompletedOrders(order[g])]
      /\ settled' = [settled EXCEPT ![g] = SettledOrders(order[g], settled[g])]
      /\ UNCHANGED <<method, refund>>
  BY DEF CompleteGroup
<1>2. ASSUME NEW k \in Groups PROVE GroupConsistent(k)'
  BY <1>1 DEF TypeOK, RowsConsistent, GroupConsistent, Funded, Captured
<1>3. ASSUME NEW k \in Groups, NEW s \in Stores PROVE OrderConsistent(k, s)'
  <2>1. CASE k = g
    BY <1>1, <2>1 DEF TypeOK, RowsConsistent, OrderConsistent, Completable, Unpaid,
                      CompletedOrders, SettledOrders, OrderStatus, SettlementStatus
  <2>2. CASE k # g
    BY <1>1, <2>2 DEF TypeOK, RowsConsistent, OrderConsistent
  <2> QED
    BY <2>1, <2>2
<1>4. ASSUME NEW k \in Groups PROVE RefundsConsistent(k)'
  BY <1>1 DEF TypeOK, RowsConsistent, RefundsConsistent, OrdersOf
<1>5. OneActiveCheckout'
  BY <1>1 DEF TypeOK, OneActiveCheckout, ActiveGroup, Unpaid
<1> QED
  BY <1>2, <1>3, <1>4, <1>5 DEF RowsConsistent

\* Releasing an unpaid group keeps the rows consistent, whether or not the
\* payment is closed with it.
LEMMA FailRows ==
    ASSUME TypeOK, RowsConsistent, OneActiveCheckout, NEW g \in Groups,
           group[g] \in Unpaid, FailGroup(g),
           payment' \in {payment, [payment EXCEPT ![g] = "FAILED"]},
           UNCHANGED <<charge, loan>>
    PROVE  RowsConsistent' /\ OneActiveCheckout'
<1>1. /\ group' = [group EXCEPT ![g] = "FAILED"]
      /\ order' = [order EXCEPT ![g] =
                      [s \in Stores |-> IF order[g][s] = "none" THEN "none" ELSE "CANCELLED"]]
      /\ UNCHANGED <<method, refund, settled>>
  BY DEF FailGroup, books
<1>2. payment[g] \in {"none", "PENDING"}
  BY DEF RowsConsistent, GroupConsistent, Unpaid
<1>3. ASSUME NEW k \in Groups PROVE GroupConsistent(k)'
  BY <1>1 DEF TypeOK, RowsConsistent, GroupConsistent, Funded
<1>4. ASSUME NEW k \in Groups, NEW s \in Stores PROVE OrderConsistent(k, s)'
  BY <1>1 DEF TypeOK, RowsConsistent, OrderConsistent, Unpaid
<1>5. ASSUME NEW k \in Groups PROVE RefundsConsistent(k)'
  <2>1. CASE k = g
    <3>1. payment'[g] \notin Captured
      BY <1>2 DEF TypeOK, Captured
    <3>2. \A s \in Stores : refund'[g][s] = "none"
      BY <1>1 DEF RowsConsistent, OrderConsistent, Unpaid
    <3> QED
      BY <2>1, <3>1, <3>2 DEF RefundsConsistent
  <2>2. CASE k # g
    BY <1>1, <2>2 DEF TypeOK, RowsConsistent, RefundsConsistent, OrdersOf
  <2> QED
    BY <2>1, <2>2
<1>6. OneActiveCheckout'
  BY <1>1 DEF TypeOK, OneActiveCheckout, ActiveGroup, Unpaid
<1> QED
  BY <1>3, <1>4, <1>5, <1>6 DEF RowsConsistent

\* A change of the payment and of the refunds of a settled group keeps the rows
\* consistent when a paid group stays captured and only cancelled orders are
\* refunded.
LEMMA PaymentRows ==
    ASSUME TypeOK, RowsConsistent, OneActiveCheckout, NEW g \in Groups,
           NEW status \in PaymentStatus, NEW refunds \in [Stores -> RefundStatus],
           payment' = [payment EXCEPT ![g] = status],
           refund' = [refund EXCEPT ![g] = refunds],
           group[g] \in {"PAID", "FAILED"},
           group[g] = "PAID" => status \in Captured,
           \A s \in Stores : refunds[s] # "none" => order[g][s] = "CANCELLED",
           group[g] = "FAILED" /\ (status \in Captured \/ \E s \in Stores : refunds[s] # "none")
               => \A s \in OrdersOf(g) : refunds[s] # "none",
           UNCHANGED <<method, group, order, settled, charge, loan>>
    PROVE  RowsConsistent' /\ OneActiveCheckout'
<1>1. ASSUME NEW k \in Groups PROVE GroupConsistent(k)'
  BY DEF TypeOK, RowsConsistent, GroupConsistent, Funded
<1>2. ASSUME NEW k \in Groups, NEW s \in Stores PROVE OrderConsistent(k, s)'
  <2>1. CASE k = g
    BY <2>1 DEF TypeOK, RowsConsistent, OrderConsistent
  <2>2. CASE k # g
    BY <2>2 DEF TypeOK, RowsConsistent, OrderConsistent
  <2> QED
    BY <2>1, <2>2
<1>3. ASSUME NEW k \in Groups PROVE RefundsConsistent(k)'
  <2>1. CASE k = g
    BY <2>1 DEF TypeOK, RefundsConsistent, OrdersOf
  <2>2. CASE k # g
    BY <2>2 DEF TypeOK, RowsConsistent, RefundsConsistent, OrdersOf
  <2> QED
    BY <2>1, <2>2
<1>4. OneActiveCheckout'
  BY DEF OneActiveCheckout, ActiveGroup
<1> QED
  BY <1>1, <1>2, <1>3, <1>4 DEF RowsConsistent

\* A new checkout is consistent.
LEMMA CreateRows ==
    ASSUME IInv, NEW u \in Users, NEW g \in Groups, NEW m \in Methods, Create(u, g, m)
    PROVE  RowsConsistent' /\ OneActiveCheckout'
<1> DEFINE paid == m = "WALLET"
           received == [s \in Stores |-> IF cart[u][s] > 0 THEN "ORDER_RECEIVED" ELSE "none"]
<1>1. /\ group[g] = "none" /\ Owner[g] = u /\ NoActiveCheckout(u)
      /\ group' = [group EXCEPT ![g] = IF paid THEN "PAID" ELSE "PENDING"]
      /\ method' = [method EXCEPT ![g] = m]
      /\ order' = [order EXCEPT ![g] = IF paid THEN CompletedOrders(received) ELSE received]
      /\ settled' = IF paid THEN [settled EXCEPT ![g] = SettledOrders(received, settled[g])]
                    ELSE settled
      /\ payment' = IF paid THEN [payment EXCEPT ![g] = "PAID"] ELSE payment
      /\ UNCHANGED <<refund, charge, loan>>
  BY DEF Create, provider
<1>2. /\ payment[g] = "none"
      /\ \A s \in Stores : /\ settled[g][s] = "none"
                           /\ refund[g][s] = "none"
  BY <1>1 DEF IInv, TypeOK, RowsConsistent, GroupConsistent, OrderConsistent, SettlementStatus
<1>3. ASSUME NEW k \in Groups PROVE GroupConsistent(k)'
  BY <1>1, <1>2 DEF IInv, TypeOK, RowsConsistent, GroupConsistent, Funded, Captured
<1>4. ASSUME NEW k \in Groups, NEW s \in Stores PROVE OrderConsistent(k, s)'
  <2>1. CASE k = g
    BY <1>1, <1>2, <2>1 DEF IInv, TypeOK, OrderConsistent, CompletedOrders, SettledOrders, Unpaid
  <2>2. CASE k # g
    BY <1>1, <2>2 DEF IInv, TypeOK, RowsConsistent, OrderConsistent
  <2> QED
    BY <2>1, <2>2
<1>5. ASSUME NEW k \in Groups PROVE RefundsConsistent(k)'
  BY <1>1 DEF IInv, TypeOK, RowsConsistent, RefundsConsistent, OrdersOf
<1>6. OneActiveCheckout'
  BY <1>1 DEF IInv, TypeOK, OneActiveCheckout, NoActiveCheckout, ActiveGroup, Unpaid
<1> QED
  BY <1>3, <1>4, <1>5, <1>6 DEF RowsConsistent

\* Claiming an unpaid group for a provider keeps the rows consistent.
LEMMA ClaimRows ==
    ASSUME IInv, NEW g \in Groups, group[g] \in Unpaid,
           payment' = [payment EXCEPT ![g] = "PENDING"],
           group' = [group EXCEPT ![g] = "PROCESSING"],
           UNCHANGED <<method, order, refund, settled>>, CapturesKept
    PROVE  RowsConsistent' /\ OneActiveCheckout'
<1>1. ASSUME NEW k \in Groups PROVE GroupConsistent(k)'
  BY DEF IInv, TypeOK, RowsConsistent, GroupConsistent, Funded, CapturesKept
<1>2. ASSUME NEW k \in Groups, NEW s \in Stores PROVE OrderConsistent(k, s)'
  BY DEF IInv, TypeOK, RowsConsistent, OrderConsistent, Unpaid
<1>3. ASSUME NEW k \in Groups PROVE RefundsConsistent(k)'
  BY DEF IInv, TypeOK, RowsConsistent, RefundsConsistent, OrdersOf
<1>4. OneActiveCheckout'
  BY DEF IInv, TypeOK, OneActiveCheckout, ActiveGroup, Unpaid
<1> QED
  BY <1>1, <1>2, <1>3, <1>4 DEF RowsConsistent

\* A group without a payment row that can be initialized is unpaid.
LEMMA ClaimUnpaid ==
    ASSUME IInv, NEW g \in Groups, payment[g] = "none", group[g] \notin {"none", "FAILED"}
    PROVE  group[g] \in Unpaid
BY DEF IInv, TypeOK, RowsConsistent, GroupConsistent, GroupStatus, Captured, Unpaid

Consistent == RowsConsistent /\ TasksConsistent /\ OneActiveCheckout

\* The steps of carts, checkouts and providers.
LEMMA GroupStep ==
    ASSUME IInv, CartNext \/ GroupNext PROVE Consistent'
<1> USE DEF IInv
<1>1. ASSUME NEW u \in Users, NEW q, SetCart(u, q) PROVE Consistent'
  <2>1. CapturesKept /\ UNCHANGED <<rows, task>>
    BY <1>1 DEF SetCart, provider, books, rows, CapturesKept
  <2> QED
    BY <2>1, RowsFrame, TasksFrame DEF Consistent, rows
<1>2. ASSUME NEW u \in Users, NEW g \in Groups, NEW m \in Methods, Create(u, g, m)
      PROVE  Consistent'
  <2>1. CapturesKept /\ UNCHANGED task
    BY <1>2 DEF Create, provider, CapturesKept
  <2>2. /\ \A k \in Groups : group[k] # "none" => group'[k] # "none"
        /\ \A k \in Groups : group[k] \in Unpaid => group'[k] \in Unpaid
    BY <1>2 DEF Create, TypeOK, Unpaid
  <2> QED
    BY <1>2, <2>1, <2>2, CreateRows, TasksFrame DEF Consistent
<1>3. CASE CartNext
  BY <1>1, <1>2, <1>3
     DEF CartNext, ClearCart, AddToCart, RemoveFromCart, UpdateQuantity
<1>4. CASE GroupNext
  <2> SUFFICES ASSUME NEW g \in Groups,
                      \/ InitializeClaim(g) \/ InitializeSaved(g)
                      \/ InitializeFailed(g) \/ InitializeLost(g)
                      \/ ChargeSettles(g)
                      \/ KlumpInitialize(g) \/ LoanApproved(g) \/ KlumpVerify(g)
                      \/ \E s \in Stores : CancelOrder(g, s) \/ RefundSucceeds(g, s)
               PROVE  Consistent'
    BY <1>4 DEF GroupNext
  <2>1. CASE InitializeClaim(g)
    <3>1. CapturesKept /\ UNCHANGED <<task, method, order, refund, settled>>
      BY <2>1 DEF InitializeClaim, books, CapturesKept
    <3>2. CASE UNCHANGED <<payment, group>>
      BY <3>1, <3>2, RowsFrame, TasksFrame DEF Consistent, rows
    <3>3. CASE payment[g] = "none" /\ payment' = [payment EXCEPT ![g] = "PENDING"]
               /\ group' = [group EXCEPT ![g] = "PROCESSING"]
      <4>1. group[g] \in Unpaid
        BY <2>1, <3>3, ClaimUnpaid DEF InitializeClaim
      <4>2. /\ \A k \in Groups : group[k] # "none" => group'[k] # "none"
            /\ \A k \in Groups : group[k] \in Unpaid => group'[k] \in Unpaid
        BY <3>3 DEF TypeOK, Unpaid
      <4> QED
        BY <3>1, <3>3, <4>1, <4>2, ClaimRows, TasksFrame DEF Consistent
    <3> QED
      BY <2>1, <3>2, <3>3 DEF InitializeClaim
  <2>2. CASE \/ InitializeSaved(g) \/ InitializeFailed(g) \/ InitializeLost(g)
             \/ ChargeSettles(g) \/ LoanApproved(g)
    <3>1. UNCHANGED <<rows, task>>
      BY <2>2 DEF InitializeSaved, InitializeFailed, InitializeLost, ChargeSettles,
                  LoanApproved, checkout, books, rows
    <3>2. CapturesKept
      BY <2>2 DEF InitializeSaved, InitializeFailed, InitializeLost, ChargeSettles,
                  LoanApproved, Opened, TypeOK, CapturesKept
    <3> QED
      BY <3>1, <3>2, RowsFrame, TasksFrame DEF Consistent, rows
  <2>3. CASE KlumpInitialize(g)
    <3>1. CapturesKept
      BY <2>3 DEF KlumpInitialize, TypeOK, CapturesKept
    <3>2. /\ group[g] \in Unpaid
          /\ payment' = [payment EXCEPT ![g] = "PENDING"]
          /\ group' = [group EXCEPT ![g] = "PROCESSING"]
          /\ UNCHANGED <<method, order, refund, settled, task>>
      BY <2>3 DEF KlumpInitialize, books
    <3>3. /\ \A k \in Groups : group[k] # "none" => group'[k] # "none"
          /\ \A k \in Groups : group[k] \in Unpaid => group'[k] \in Unpaid
      BY <3>2 DEF TypeOK, Unpaid
    <3> QED
      BY <3>1, <3>2, <3>3, ClaimRows, TasksFrame DEF Consistent
  <2>4. CASE KlumpVerify(g)
    <3>1. /\ ~CartLocked(Owner[g])
          /\ loan[g] = "success"
          /\ payment' = [payment EXCEPT ![g] = "PAID"]
          /\ UNCHANGED <<charge, loan, task>>
      BY <2>4 DEF KlumpVerify, LoanSucceeded, provider
    <3>2. CapturesKept
      BY <3>1 DEF CapturesKept
    <3>3. CASE Completable(g) /\ CompleteGroup(g)
      <4>1. RowsConsistent' /\ OneActiveCheckout'
        BY <3>1, <3>3, CompleteRows DEF Funded
      <4>2. /\ \A k \in Groups : group[k] # "none" => group'[k] # "none"
            /\ \A k \in Groups : group[k] \in Unpaid /\ CartLocked(Owner[k]) => group'[k] \in Unpaid
        BY <3>1, <3>3 DEF CompleteGroup, TypeOK
      <4> QED
        BY <3>1, <3>2, <4>1, <4>2, TasksFrame DEF Consistent
    <3>4. CASE group[g] = "PAID" /\ UNCHANGED <<shop, checkout, books>>
      <4>1. /\ UNCHANGED <<method, group, order, settled>>
            /\ refund' = [refund EXCEPT ![g] = refund[g]]
            /\ refund[g] \in [Stores -> RefundStatus]
        BY <3>4 DEF checkout, books, TypeOK
      <4>2. \A s \in Stores : refund[g][s] # "none" => order[g][s] = "CANCELLED"
        BY DEF RowsConsistent, OrderConsistent
      <4>3. RowsConsistent' /\ OneActiveCheckout'
        BY <3>1, <3>4, <4>1, <4>2, PaymentRows DEF PaymentStatus, Captured
      <4> QED
        BY <3>1, <3>2, <4>1, <4>3, TasksFrame DEF Consistent
    <3> QED
      BY <2>4, <3>3, <3>4 DEF KlumpVerify
  <2>5. ASSUME NEW s \in Stores, CancelOrder(g, s) PROVE Consistent'
    <3> DEFINE refunds == [refund[g] EXCEPT ![s] = IF @ = "none" THEN RefundRecord(g) ELSE @]
    <3>1. /\ order[g][s] = "CONFIRMED"
          /\ order' = [order EXCEPT ![g][s] = "CANCELLED"]
          /\ refund' = [refund EXCEPT ![g] = refunds]
          /\ settled' = [settled EXCEPT ![g][s] = Reversal(@)]
          /\ payment' \in {payment, [payment EXCEPT ![g] = "REFUNDED"],
                           [payment EXCEPT ![g] = "PARTIALLY_REFUNDED"]}
          /\ UNCHANGED <<method, group, charge, loan, task>>
      BY <2>5 DEF CancelOrder, RefundedStatus, provider
    <3>2. group[g] = "PAID" /\ settled[g][s] = "CREDITED" /\ payment[g] \in Captured
      BY <3>1 DEF TypeOK, RowsConsistent, OrderConsistent, GroupConsistent, GroupStatus, Unpaid
    <3>3. ASSUME NEW k \in Groups PROVE GroupConsistent(k)'
      BY <3>1, <3>2 DEF TypeOK, RowsConsistent, GroupConsistent, Funded, Captured
    <3>4. ASSUME NEW k \in Groups, NEW t \in Stores PROVE OrderConsistent(k, t)'
      BY <3>1, <3>2 DEF TypeOK, RowsConsistent, OrderConsistent, Reversal, Unpaid
    <3>5. ASSUME NEW k \in Groups PROVE RefundsConsistent(k)'
      <4>1. CASE k = g
        BY <3>1, <3>2, <4>1 DEF RefundsConsistent
      <4>2. CASE k # g
        BY <3>1, <4>2 DEF TypeOK, RowsConsistent, RefundsConsistent, OrdersOf
      <4> QED
        BY <4>1, <4>2
    <3>6. OneActiveCheckout' /\ TasksConsistent'
      BY <3>1, TasksFrame DEF OneActiveCheckout, ActiveGroup, CapturesKept
    <3> QED
      BY <3>3, <3>4, <3>5, <3>6 DEF Consistent, RowsConsistent
  <2>6. ASSUME NEW s \in Stores, RefundSucceeds(g, s) PROVE Consistent'
    <3> DEFINE refunds == [refund[g] EXCEPT ![s] = "SUCCEEDED"]
    <3>1. PICK status \in {"PARTIALLY_REFUNDED", "REFUNDED"} :
             /\ refund[g][s] \in {"PENDING", "MANUAL_REVIEW"}
             /\ refund' = [refund EXCEPT ![g] = refunds]
             /\ payment' = [payment EXCEPT ![g] = status]
             /\ UNCHANGED <<method, group, order, settled, charge, loan, task>>
      BY <2>6 DEF RefundSucceeds, RefundedStatus, checkout, provider
    <3>2. /\ status \in Captured /\ status \in PaymentStatus
          /\ refunds \in [Stores -> RefundStatus]
      BY DEF Captured, PaymentStatus, TypeOK, RefundStatus
    <3>3. order[g][s] = "CANCELLED" /\ group[g] \in {"PAID", "FAILED"}
      <4>1. OrderConsistent(g, s) /\ group[g] \in GroupStatus
        BY DEF TypeOK, RowsConsistent
      <4>2. refund[g][s] # "none"
        BY <3>1
      <4> QED
        BY <4>1, <4>2 DEF OrderConsistent, GroupStatus, Unpaid
    <3>4. \A t \in Stores : refunds[t] # "none" => order[g][t] = "CANCELLED"
      BY <3>3 DEF TypeOK, RowsConsistent, OrderConsistent
    <3>5. group[g] = "FAILED" => \A t \in OrdersOf(g) : refunds[t] # "none"
      BY <3>1 DEF TypeOK, RowsConsistent, RefundsConsistent, OrdersOf
    <3>6. RowsConsistent' /\ OneActiveCheckout'
      <4> HIDE DEF refunds
      <4> QED
        BY <3>1, <3>2, <3>3, <3>4, <3>5, PaymentRows
    <3> QED
      BY <3>1, <3>6, TasksFrame DEF Consistent, CapturesKept
  <2> QED
    BY <2>1, <2>2, <2>3, <2>4, <2>5, <2>6
<1> QED
  BY <1>3, <1>4

\* The transaction of verifyReference.
LEMMA VerifyCommitStep ==
    ASSUME IInv, TypeOK', NEW h \in Handlers, VerifyCommit(h) PROVE Consistent'
<1> USE DEF IInv
<1> DEFINE g == task[h].job
<1>1. /\ task[h].pc = "commit" /\ ~CartLocked(Owner[g])
      /\ g \in Groups
      /\ UNCHANGED <<charge, loan>>
  BY DEF VerifyCommit, TypeOK, provider
<1>2. CapturesKept
  BY <1>1 DEF CapturesKept
<1>3. /\ group[g] # "none"
      /\ task[h].answer = "success" => charge[g] = "success"
  BY <1>1 DEF TasksConsistent, TaskConsistent
<1>4. ASSUME \/ UNCHANGED group
             \/ \E status \in {"PAID", "FAILED"} : group' = [group EXCEPT ![g] = status]
      PROVE  TasksConsistent'
  <2>1. PICK answer \in {"PAID", "FAILED", "REFUND_PENDING", "error"} : Answered(h, answer)
    BY DEF VerifyCommit
  <2>2. Doing("respond", g, task[h].by, answer) \in Task
    <3>1. task[h].by \in {"none", "webhook", "poll", "cancel"} /\ answer \in Answers
      BY DEF TypeOK, Task, Answers, PaymentStatus
    <3> HIDE DEF g
    <3> QED
      BY <1>1, <3>1, DoingType
  <2>3. /\ Doing("respond", g, task[h].by, answer).pc = "respond"
        /\ Doing("respond", g, task[h].by, answer).job = g
    BY DEF Doing
  <2>4. \A k \in Groups : group[k] # "none" => group'[k] # "none"
    BY <1>1, <1>4 DEF TypeOK
  <2>5. \A k \in Handlers \ {h} :
            task[k].pc = "cancelLocked" => group'[task[k].job] = group[task[k].job]
    BY <1>1, <1>4 DEF TypeOK, CartLocked
  <2> HIDE DEF g
  <2> QED
    BY <1>1, <1>2, <1>3, <2>1, <2>2, <2>3, <2>4, <2>5, TaskMoves DEF Answered, g
<1>5. CASE Completable(g) /\ CompleteGroup(g) /\ task[h].answer = "success"
           /\ payment' = [payment EXCEPT ![g] = "PAID"]
  <2>1. group' = [group EXCEPT ![g] = "PAID"]
    BY <1>5 DEF CompleteGroup
  <2>2. RowsConsistent' /\ OneActiveCheckout'
    BY <1>1, <1>3, <1>5, CompleteRows DEF Funded
  <2> QED
    BY <1>4, <2>1, <2>2 DEF Consistent
<1>6. CASE group[g] \in Unpaid /\ FailGroup(g) /\ payment' = [payment EXCEPT ![g] = "FAILED"]
  <2>1. group' = [group EXCEPT ![g] = "FAILED"]
    BY <1>6 DEF FailGroup
  <2>2. RowsConsistent' /\ OneActiveCheckout'
    BY <1>1, <1>6, FailRows
  <2> QED
    BY <1>4, <2>1, <2>2 DEF Consistent
<1>7. CASE UNCHANGED <<shop, checkout, payment, books>>
  <2>1. UNCHANGED rows /\ UNCHANGED group
    BY <1>7 DEF checkout, books, rows
  <2> QED
    BY <1>2, <1>4, <2>1, RowsFrame DEF Consistent
<1>8. ASSUME NEW status \in {"PAID", "FAILED"},
             payment' = [payment EXCEPT ![g] = status],
             UNCHANGED <<shop, checkout, books>>,
             \/ group[g] = "PAID" /\ status = "PAID"
             \/ group[g] = "FAILED" /\ status = "FAILED"
      PROVE  Consistent'
  <2>1. /\ UNCHANGED <<method, group, order, settled>>
        /\ refund' = [refund EXCEPT ![g] = refund[g]]
        /\ refund[g] \in [Stores -> RefundStatus]
    BY <1>1, <1>8 DEF checkout, books, TypeOK
  <2>2. \A s \in Stores : refund[g][s] # "none" => order[g][s] = "CANCELLED"
    BY <1>1 DEF RowsConsistent, OrderConsistent
  <2>3. group[g] = "FAILED" /\ (\E s \in Stores : refund[g][s] # "none")
            => \A s \in OrdersOf(g) : refund[g][s] # "none"
    BY <1>1 DEF RowsConsistent, RefundsConsistent
  <2>4. RowsConsistent' /\ OneActiveCheckout'
    <3>1. /\ status \in PaymentStatus
          /\ group[g] = "PAID" => status \in Captured
          /\ group[g] = "FAILED" => status \notin Captured
      BY <1>8 DEF PaymentStatus, Captured
    <3> HIDE DEF g
    <3> QED
      BY <1>1, <1>8, <2>1, <2>2, <2>3, <3>1, PaymentRows
  <2> QED
    BY <1>4, <2>1, <2>4 DEF Consistent
<1>9. CASE /\ payment[g] = "FAILED"
           /\ payment' = [payment EXCEPT ![g] = "PAID"]
           /\ refund' = [refund EXCEPT ![g] = LateRefunds(g)]
           /\ UNCHANGED <<shop, checkout, settled, outbox>>
  <2>1. group[g] = "FAILED"
    BY <1>1, <1>3, <1>9 DEF TypeOK, RowsConsistent, GroupConsistent, GroupStatus, Captured
  <2>2. UNCHANGED <<method, group, order, settled>>
    BY <1>9 DEF checkout
  <2>3. /\ LateRefunds(g) \in [Stores -> RefundStatus]
        /\ \A s \in OrdersOf(g) : LateRefunds(g)[s] # "none"
    BY <1>1 DEF LateRefunds, TypeOK, RefundStatus, OrdersOf
  <2>4. \A s \in Stores : LateRefunds(g)[s] # "none" => order[g][s] = "CANCELLED"
    BY <1>1, <2>1 DEF LateRefunds, OrdersOf, RowsConsistent, OrderConsistent
  <2>5. RowsConsistent' /\ OneActiveCheckout'
    <3>1. "PAID" \in PaymentStatus /\ "PAID" \in Captured
      BY DEF PaymentStatus, Captured
    <3> HIDE DEF g
    <3> QED
      BY <1>1, <1>9, <2>1, <2>2, <2>3, <2>4, <3>1, PaymentRows
  <2> QED
    BY <1>4, <2>2, <2>5 DEF Consistent
<1> QED
  BY <1>5, <1>6, <1>7, <1>8, <1>9 DEF VerifyCommit

\* The transaction of cancel: only an unpaid group is released.
LEMMA CancelCommitStep ==
    ASSUME IInv, TypeOK', NEW h \in Handlers, CancelCommit(h) PROVE Consistent'
<1> USE DEF IInv
<1> DEFINE g == task[h].job
<1>1. /\ task[h].pc = "cancelLocked" /\ g \in Groups
      /\ task' = [task EXCEPT ![h] = Idle]
      /\ UNCHANGED <<charge, loan>>
  BY DEF CancelCommit, TypeOK, provider
<1>2. CapturesKept
  BY <1>1 DEF CapturesKept
<1>3. ASSUME group' \in {group, [group EXCEPT ![g] = "FAILED"]}
      PROVE  TasksConsistent'
  <2>1. \A k \in Groups : group[k] # "none" => group'[k] # "none"
    BY <1>1, <1>3 DEF TypeOK
  <2>2. \A k \in Handlers \ {h} :
            task[k].pc = "cancelLocked" => group'[task[k].job] = group[task[k].job]
    BY <1>1, <1>3 DEF TypeOK, TasksConsistent, LockExclusive
  <2>3. Idle.pc = "idle"
    BY DEF Idle, Doing
  <2> QED
    BY <1>1, <1>2, <2>1, <2>2, <2>3, IdleType, TaskMoves
<1>4. CASE UNCHANGED <<shop, checkout, payment, books>>
  <2>1. UNCHANGED rows /\ UNCHANGED group
    BY <1>4 DEF checkout, books, rows
  <2> QED
    BY <1>2, <1>3, <2>1, RowsFrame DEF Consistent
<1>5. CASE /\ GroupRead(h) \notin {"PAID", "FAILED"}
           /\ FailGroup(g)
           /\ payment' \in {payment, [payment EXCEPT ![g] = "FAILED"]}
  <2>1. group[g] \in Unpaid
    <3>1. group[g] \in GroupStatus /\ task[h].sawGroup \in GroupStatus
      BY <1>1 DEF TypeOK, Task
    <3>2. /\ group[g] # "none" /\ task[h].sawGroup # "none"
          /\ task[h].sawGroup \in Unpaid => group[g] \in Unpaid
      BY <1>1 DEF TasksConsistent, TaskConsistent
    <3> QED
      BY <1>5, <3>1, <3>2 DEF GroupRead, GroupStatus, Unpaid
  <2>2. RowsConsistent' /\ OneActiveCheckout'
    BY <1>1, <1>5, <2>1, FailRows
  <2>3. group' = [group EXCEPT ![g] = "FAILED"]
    BY <1>5 DEF FailGroup
  <2> QED
    BY <1>3, <2>2, <2>3 DEF Consistent
<1> QED
  BY <1>4, <1>5 DEF CancelCommit

\* The remaining steps of a handler write no row.
LEMMA HandlerStep ==
    ASSUME IInv, TypeOK', HandlerNext PROVE Consistent'
<1> USE DEF IInv
<1>1. ASSUME NEW h \in Handlers, NEW t \in Task, task' = [task EXCEPT ![h] = t],
             t.pc # "cancelLocked", t.pc # "idle" => group[t.job] # "none",
             t.pc = "commit" /\ t.answer = "success" => charge[t.job] = "success",
             UNCHANGED <<shop, checkout, payment, provider, books>>
      PROVE  Consistent'
  <2>1. CapturesKept /\ UNCHANGED rows /\ UNCHANGED <<group, charge>>
    BY <1>1 DEF CapturesKept, rows, provider, checkout, books
  <2>2. TasksConsistent'
    BY <1>1, <2>1, TaskMoves
  <2> QED
    BY <2>1, <2>2, RowsFrame DEF Consistent
<1>2. ASSUME NEW h \in Handlers, task' = [task EXCEPT ![h] = Idle],
             UNCHANGED <<shop, checkout, payment, provider, books>>
      PROVE  Consistent'
  BY <1>1, <1>2, IdleType DEF Idle, Doing
<1>3. ASSUME NEW h \in Handlers, NEW g \in Groups, NEW pc \in {"commit", "respond", "cancelTx"},
             NEW by \in {"none", "webhook", "poll", "cancel"}, NEW answer \in Answers,
             task' = [task EXCEPT ![h] = Doing(pc, g, by, answer)],
             group[g] # "none",
             pc = "commit" /\ answer = "success" => charge[g] = "success",
             UNCHANGED <<shop, checkout, payment, provider, books>>
      PROVE  Consistent'
  <2>1. /\ Doing(pc, g, by, answer).pc = pc /\ Doing(pc, g, by, answer).job = g
        /\ Doing(pc, g, by, answer).answer = answer
    BY DEF Doing
  <2>2. Doing(pc, g, by, answer) \in Task
    BY DoingType
  <2> QED
    BY <1>1, <1>3, <2>1, <2>2
<1>4. ASSUME NEW h \in Handlers, NEW g \in Groups, CancelRead(h, g) PROVE Consistent'
  BY <1>3, <1>4 DEF CancelRead, Unpaid, Answers
<1>5. ASSUME NEW h \in Handlers, NEW g \in Groups,
             NEW by \in {"webhook", "poll", "cancel"}, VerifyRead(h, g, by)
      PROVE  Consistent'
  <2>1. group[g] # "none"
    BY <1>5 DEF VerifyRead, RowsConsistent, GroupConsistent
  <2>2. UNCHANGED <<shop, checkout, payment, provider, books>>
    BY <1>5 DEF VerifyRead
  <2>3. PICK pc \in {"commit", "respond"}, answer \in Answers :
           /\ task' = [task EXCEPT ![h] = Doing(pc, g, by, answer)]
           /\ pc = "commit" /\ answer = "success" => charge[g] = "success"
    <3>1. CASE payment[g] \in {"PENDING", "FAILED"}
      <4>1. PICK answer \in ProviderAnswers(g) :
              task' = [task EXCEPT ![h] =
                   Doing(IF answer \in {"success", "failed"} THEN "commit" ELSE "respond",
                         g, by, answer)]
        BY <1>5, <3>1 DEF VerifyRead
      <4>2. answer \in Answers
        BY DEF ProviderAnswers, TypeOK, ChargeStatus, Answers, PaymentStatus
      <4>3. answer = "success" => charge[g] = "success"
        BY <3>1 DEF ProviderAnswers, TypeOK, ChargeStatus
      <4> QED
        BY <4>1, <4>2, <4>3
    <3>2. CASE payment[g] = "PAID"
      BY <1>5, <3>2 DEF VerifyRead, Answers, PaymentStatus
    <3>3. CASE payment[g] \in {"REFUNDED", "PARTIALLY_REFUNDED"}
      BY <1>5, <3>3 DEF VerifyRead, Answers, PaymentStatus
    <3> QED
      BY <1>5, <3>1, <3>2, <3>3 DEF VerifyRead
  <2> QED
    BY <1>3, <2>1, <2>2, <2>3
<1>6. ASSUME NEW h \in Handlers, task[h].pc # "idle"
      PROVE  /\ task[h].job \in Groups /\ group[task[h].job] # "none"
             /\ task[h].by \in {"none", "webhook", "poll", "cancel"}
  BY <1>6 DEF TypeOK, Task, TasksConsistent, TaskConsistent
<1>7. ASSUME NEW h \in Handlers, Respond(h) PROVE Consistent'
  <2>1. task[h].pc # "idle" /\ UNCHANGED <<shop, checkout, payment, provider, books>>
    BY <1>7 DEF Respond
  <2>2. \/ task' = [task EXCEPT ![h] = Idle]
        \/ task' = [task EXCEPT ![h] = Doing("cancelTx", task[h].job, "cancel", "none")]
    BY <1>7 DEF Respond
  <2>3. "none" \in Answers
    BY DEF Answers
  <2> QED
    BY <1>2, <1>3, <1>6, <2>1, <2>2, <2>3
<1>8. ASSUME NEW h \in Handlers, Abort(h) PROVE Consistent'
  <2>1. task[h].pc # "idle" /\ UNCHANGED <<shop, checkout, payment, provider, books>>
    BY <1>8 DEF Abort
  <2>2. \/ task' = [task EXCEPT ![h] = Idle]
        \/ task' = [task EXCEPT ![h] = Doing("respond", task[h].job, task[h].by, "error")]
    BY <1>8 DEF Abort, Answered
  <2>3. "error" \in Answers
    BY DEF Answers
  <2> QED
    BY <1>2, <1>3, <1>6, <2>1, <2>2, <2>3
<1>9. ASSUME NEW h \in Handlers, CancelLock(h) PROVE Consistent'
  <2> DEFINE g == task[h].job
  <2>1. /\ task[h].pc = "cancelTx" /\ ~CartLocked(Owner[g])
        /\ task' = [task EXCEPT ![h] =
              [pc |-> "cancelLocked", job |-> g, by |-> "cancel", answer |-> "none",
               sawGroup |-> group[g], sawPayment |-> payment[g]]]
        /\ UNCHANGED <<shop, checkout, payment, provider, books>>
    BY <1>9 DEF CancelLock
  <2>2. g \in Groups /\ group[g] # "none"
    BY <1>6, <2>1
  <2>3. CapturesKept /\ UNCHANGED rows /\ UNCHANGED <<group, charge>>
    BY <2>1 DEF CapturesKept, rows, provider, checkout, books
  <2>4. /\ task'[h].pc = "cancelLocked" /\ task'[h].job = g
        /\ task'[h].sawGroup = group[g]
        /\ \A k \in Handlers \ {h} : task'[k] = task[k]
    BY <2>1 DEF TypeOK
  <2>5. ASSUME NEW k \in Handlers PROVE TaskConsistent(k)'
    BY <2>2, <2>3, <2>4 DEF TasksConsistent, TaskConsistent
  <2>6. LockExclusive'
    BY <2>1, <2>4 DEF TasksConsistent, LockExclusive, CartLocked
  <2> QED
    BY <2>3, <2>5, <2>6, RowsFrame DEF Consistent, TasksConsistent
<1> QED
  BY <1>4, <1>5, <1>7, <1>8, <1>9, VerifyCommitStep, CancelCommitStep DEF HandlerNext

\* The invariant holds of the initial state.
LEMMA InvInit == Init => IInv
<1> SUFFICES ASSUME Init PROVE IInv
  OBVIOUS
<1>1. TypeOK
  BY TypeInit
<1>2. RowsConsistent
  BY DEF Init, RowsConsistent, GroupConsistent, OrderConsistent, RefundsConsistent, Unpaid
<1>3. TasksConsistent
  BY DEF Init, TasksConsistent, TaskConsistent, LockExclusive, Idle, Doing
<1>4. OneActiveCheckout
  BY DEF Init, OneActiveCheckout, ActiveGroup, Unpaid
<1> QED
  BY <1>1, <1>2, <1>3, <1>4 DEF IInv

\* No step breaks the invariant.
LEMMA InvStep == IInv /\ [Next]_vars => IInv'
<1> SUFFICES ASSUME IInv, [Next]_vars PROVE IInv'
  OBVIOUS
<1>1. TypeOK'
  BY TypeStep DEF IInv
<1>2. CASE UNCHANGED vars
  <2>1. UNCHANGED rows /\ UNCHANGED <<task, group>> /\ CapturesKept
    BY <1>2 DEF vars, checkout, provider, books, rows, CapturesKept
  <2> QED
    BY <1>1, <2>1, RowsFrame, TasksFrame DEF IInv
<1>3. CASE CartNext \/ GroupNext
  BY <1>1, <1>3, GroupStep DEF IInv, Consistent
<1>4. CASE HandlerNext
  BY <1>1, <1>4, HandlerStep DEF IInv, Consistent
<1> QED
  BY <1>2, <1>3, <1>4 DEF Next

\* The rows of a checkout agree with one another, and what each handler
\* remembers is still true when it writes.
THEOREM InvCorrect == Spec => []IInv
<1>1. Init => IInv
  BY InvInit
<1>2. IInv /\ [Next]_vars => IInv'
  BY InvStep
<1> QED
  BY <1>1, <1>2, PTL DEF Spec

-----------------------------------------------------------------------------
\* completeGroup confirms an order only for captured money, and an order that
\* stands has no refund.
THEOREM ConfirmedCorrect == Spec => []ConfirmedIsPaidFor
<1>1. IInv => ConfirmedIsPaidFor
  <2> SUFFICES ASSUME IInv, NEW g \in Groups, NEW s \in Stores, order[g][s] = "CONFIRMED"
               PROVE  /\ Funded(g)
                      /\ payment[g] \in Captured
                      /\ refund[g][s] = "none"
    BY DEF ConfirmedIsPaidFor, Funded
  <2>1. group[g] = "PAID" /\ refund[g][s] = "none"
    BY DEF IInv, TypeOK, RowsConsistent, OrderConsistent, GroupStatus, Unpaid
  <2> QED
    BY <2>1 DEF IInv, RowsConsistent, GroupConsistent
<1> QED
  BY <1>1, InvCorrect, PTL

\* settleOrder and the reversal in OrdersService.cancel keep a store's credits
\* in step with its orders.
THEOREM SettlementCorrect == Spec => []SettlementMatchesOrders
<1>1. IInv => SettlementMatchesOrders
  BY DEF IInv, RowsConsistent, OrderConsistent, SettlementMatchesOrders
<1> QED
  BY <1>1, InvCorrect, PTL

\* Money recorded for a released checkout has a refund for each of its orders.
THEOREM RefundCorrect == Spec => []ReleasedMoneyHasRefund
<1>1. IInv => ReleasedMoneyHasRefund
  BY DEF IInv, RowsConsistent, RefundsConsistent, ReleasedMoneyHasRefund
<1> QED
  BY <1>1, InvCorrect, PTL

\* A customer has at most one unpaid checkout.
THEOREM OneActiveCorrect == Spec => []OneActiveCheckout
<1>1. IInv => OneActiveCheckout
  BY DEF IInv
<1> QED
  BY <1>1, InvCorrect, PTL

\* No step re-opens a settled group or fails a payment recorded as PAID.
THEOREM OutcomeCorrect == Spec => OutcomeIsFinal
<1>1. IInv /\ [Next]_vars => [SettledOutcome]_vars
  <2> SUFFICES ASSUME IInv, Next, NEW g \in Groups
               PROVE  /\ group[g] \in {"PAID", "FAILED"} => group'[g] = group[g]
                      /\ payment[g] = "PAID" => payment'[g] # "FAILED"
    BY DEF SettledOutcome
  <2> USE DEF IInv
  <2>1. CASE CartNext
    <3>1. ASSUME NEW u \in Users, NEW k \in Groups, NEW m \in Methods, Create(u, k, m)
          PROVE  /\ group[g] \in {"PAID", "FAILED"} => group'[g] = group[g]
                 /\ payment[g] = "PAID" => payment'[g] # "FAILED"
      <4>1. group[k] = "none" /\ payment[k] = "none"
        BY <3>1 DEF Create, RowsConsistent, GroupConsistent
      <4>2. CASE m = "WALLET"
        BY <3>1, <4>1, <4>2 DEF Create, TypeOK
      <4>3. CASE m # "WALLET"
        BY <3>1, <4>1, <4>3 DEF Create, TypeOK
      <4> QED
        BY <4>2, <4>3
    <3> QED
      BY <2>1, <3>1
         DEF CartNext, ClearCart, AddToCart, RemoveFromCart, UpdateQuantity, SetCart
  <2>2. CASE GroupNext
    <3>1. PICK k \in Groups :
             \/ InitializeClaim(k) \/ InitializeSaved(k)
             \/ InitializeFailed(k) \/ InitializeLost(k)
             \/ ChargeSettles(k)
             \/ KlumpInitialize(k) \/ LoanApproved(k) \/ KlumpVerify(k)
             \/ \E s \in Stores : CancelOrder(k, s) \/ RefundSucceeds(k, s)
      BY <2>2 DEF GroupNext
    <3>2. CASE InitializeClaim(k)
      <4>1. \/ UNCHANGED <<payment, group>>
            \/ /\ group[k] \in Unpaid
               /\ payment' = [payment EXCEPT ![k] = "PENDING"]
               /\ group' = [group EXCEPT ![k] = "PROCESSING"]
        BY <3>2, ClaimUnpaid DEF InitializeClaim
      <4> QED
        BY <4>1 DEF TypeOK, Unpaid
    <3>3. CASE \/ InitializeSaved(k) \/ InitializeFailed(k) \/ InitializeLost(k)
               \/ ChargeSettles(k) \/ LoanApproved(k)
      BY <3>3 DEF InitializeSaved, InitializeFailed, InitializeLost, ChargeSettles,
                  LoanApproved, checkout
    <3>4. CASE KlumpInitialize(k)
      BY <3>4 DEF KlumpInitialize, TypeOK, Unpaid
    <3>5. CASE KlumpVerify(k)
      <4>1. payment' = [payment EXCEPT ![k] = "PAID"]
        BY <3>5 DEF KlumpVerify
      <4>2. \/ UNCHANGED group
            \/ group[k] \in Unpaid /\ group' = [group EXCEPT ![k] = "PAID"]
        BY <3>5 DEF KlumpVerify, Completable, CompleteGroup, checkout
      <4> QED
        BY <4>1, <4>2 DEF TypeOK, Unpaid
    <3>6. ASSUME NEW s \in Stores, CancelOrder(k, s) \/ RefundSucceeds(k, s)
          PROVE  /\ group[g] \in {"PAID", "FAILED"} => group'[g] = group[g]
                 /\ payment[g] = "PAID" => payment'[g] # "FAILED"
      <4>1. /\ UNCHANGED group
            /\ payment' \in {payment, [payment EXCEPT ![k] = "REFUNDED"],
                             [payment EXCEPT ![k] = "PARTIALLY_REFUNDED"]}
        BY <3>6 DEF CancelOrder, RefundSucceeds, RefundedStatus, checkout
      <4> QED
        BY <4>1 DEF TypeOK
    <3> QED
      BY <3>1, <3>2, <3>3, <3>4, <3>5, <3>6
  <2>3. CASE HandlerNext
    <3>1. ASSUME NEW h \in Handlers, VerifyCommit(h)
          PROVE  /\ group[g] \in {"PAID", "FAILED"} => group'[g] = group[g]
                 /\ payment[g] = "PAID" => payment'[g] # "FAILED"
      <4> DEFINE k == task[h].job
      <4>1. \/ UNCHANGED payment
            \/ payment' = [payment EXCEPT ![k] = "PAID"]
            \/ payment[k] # "PAID" /\ payment' = [payment EXCEPT ![k] = "FAILED"]
        BY <3>1 DEF VerifyCommit
      <4>2. \/ UNCHANGED group
            \/ group[k] \in Unpaid /\ \E status \in {"PAID", "FAILED"} :
                                          group' = [group EXCEPT ![k] = status]
        BY <3>1 DEF VerifyCommit, Completable, CompleteGroup, FailGroup, checkout
      <4> QED
        BY <4>1, <4>2 DEF TypeOK, Unpaid
    <3>2. ASSUME NEW h \in Handlers, CancelCommit(h)
          PROVE  /\ group[g] \in {"PAID", "FAILED"} => group'[g] = group[g]
                 /\ payment[g] = "PAID" => payment'[g] # "FAILED"
      <4> DEFINE k == task[h].job
      <4>0. k \in Groups /\ task[h].pc = "cancelLocked"
        BY <3>2 DEF CancelCommit, TypeOK
      <4>1. CASE UNCHANGED <<shop, checkout, payment, books>>
        BY <4>1 DEF checkout
      <4>2. CASE /\ GroupRead(h) \notin {"PAID", "FAILED"} /\ FailGroup(k)
                 /\ payment' \in {payment, [payment EXCEPT ![k] = "FAILED"]}
        <5>1. group[k] \in Unpaid
          <6>1. group[k] \in GroupStatus /\ task[h].sawGroup \in GroupStatus
            BY <4>0 DEF TypeOK, Task
          <6>2. /\ group[k] # "none" /\ task[h].sawGroup # "none"
                /\ task[h].sawGroup \in Unpaid => group[k] \in Unpaid
            BY <4>0 DEF TasksConsistent, TaskConsistent
          <6> QED
            BY <4>2, <6>1, <6>2 DEF GroupRead, GroupStatus, Unpaid
        <5>2. payment[k] # "PAID"
          BY <4>0, <5>1 DEF RowsConsistent, GroupConsistent, Unpaid
        <5>3. group' = [group EXCEPT ![k] = "FAILED"]
          BY <4>2 DEF FailGroup
        <5> QED
          BY <4>2, <5>1, <5>2, <5>3 DEF TypeOK, Unpaid
      <4> QED
        BY <3>2, <4>1, <4>2 DEF CancelCommit
    <3> QED
      BY <2>3, <3>1, <3>2
         DEF HandlerNext, CancelRead, VerifyRead, Respond, CancelLock, Abort, checkout
  <2> QED
    BY <2>1, <2>2, <2>3 DEF Next
<1> QED
  BY <1>1, InvCorrect, PTL DEF Spec, OutcomeIsFinal

-----------------------------------------------------------------------------
\* What a checkout holds: a group that exists has an order, units are on record
\* only for orders, and a wallet checkout is never left unpaid.
LineConsistent(g) ==
    /\ group[g] # "none" => \E s \in Stores : order[g][s] # "none"
    /\ group[g] \in Unpaid => method[g] # "WALLET"
    /\ \A s \in Stores : order[g][s] = "none" => items[g][s] = 0

LinesConsistent == \A g \in Groups : LineConsistent(g)

\* A step that moves no goods, no wallet money and no refund.
Quiet ==
    /\ UNCHANGED <<stock, wallet, items, method, order, refund>>
    /\ \A g \in Groups : group'[g] = group[g] \/ (group[g] \in Unpaid /\ group'[g] \in Unpaid)

\* The branch of verifyReference for money that comes in after a release.
LateMoney(g) ==
    /\ group[g] = "FAILED"
    /\ refund' = [refund EXCEPT ![g] = LateRefunds(g)]
    /\ UNCHANGED <<stock, wallet, items, method, order, group>>

\* What a step of checkout does to goods, money and refunds, whatever handler
\* takes it.
Moves ==
    \/ Quiet
    \/ \E u \in Users, g \in Groups, m \in Methods : Create(u, g, m)
    \/ \E g \in Groups :
          \/ Completable(g) /\ CompleteGroup(g)
          \/ group[g] \in Unpaid /\ FailGroup(g) /\ UNCHANGED refund
          \/ LateMoney(g)
          \/ \E s \in Stores : CancelOrder(g, s) \/ RefundSucceeds(g, s)

\* Every step of the specification is one of these moves.
LEMMA StepMoves == IInv /\ [Next]_vars => Moves
<1> SUFFICES ASSUME IInv, [Next]_vars PROVE Moves
  OBVIOUS
<1> USE DEF IInv
<1>0. ASSUME UNCHANGED <<shop, checkout, books>> PROVE Quiet
  BY <1>0 DEF Quiet, shop, checkout, books
<1>1. CASE UNCHANGED vars
  BY <1>0, <1>1 DEF vars, Moves
<1>2. CASE CartNext
  <2>1. ASSUME NEW u \in Users, NEW q, SetCart(u, q) PROVE Quiet
    BY <2>1 DEF SetCart, Quiet, books
  <2> QED
    BY <1>2, <2>1 DEF CartNext, ClearCart, AddToCart, RemoveFromCart, UpdateQuantity, Moves
<1>3. CASE GroupNext
  <2> SUFFICES ASSUME NEW g \in Groups,
                      \/ InitializeClaim(g) \/ InitializeSaved(g)
                      \/ InitializeFailed(g) \/ InitializeLost(g)
                      \/ ChargeSettles(g)
                      \/ KlumpInitialize(g) \/ LoanApproved(g) \/ KlumpVerify(g)
                      \/ \E s \in Stores : CancelOrder(g, s) \/ RefundSucceeds(g, s)
               PROVE  Moves
    BY <1>3 DEF GroupNext
  <2>1. ASSUME group[g] \in Unpaid, group' = [group EXCEPT ![g] = "PROCESSING"],
               UNCHANGED <<shop, items, method, order, books>>
        PROVE  Quiet
    BY <2>1 DEF TypeOK, Quiet, shop, books, Unpaid
  <2>2. CASE InitializeClaim(g)
    <3>1. CASE UNCHANGED group
      BY <2>2, <3>1 DEF InitializeClaim, Moves, Quiet, shop, books
    <3>2. CASE group' = [group EXCEPT ![g] = "PROCESSING"] /\ payment[g] = "none"
      BY <2>1, <2>2, <3>2, ClaimUnpaid DEF InitializeClaim, Moves
    <3> QED
      BY <2>2, <3>1, <3>2 DEF InitializeClaim
  <2>3. CASE KlumpInitialize(g)
    BY <2>1, <2>3 DEF KlumpInitialize, Moves
  <2>4. CASE KlumpVerify(g)
    BY <1>0, <2>4 DEF KlumpVerify, Moves
  <2>5. CASE \/ InitializeSaved(g) \/ InitializeFailed(g) \/ InitializeLost(g)
             \/ ChargeSettles(g) \/ LoanApproved(g)
    BY <1>0, <2>5 DEF InitializeSaved, InitializeFailed, InitializeLost, ChargeSettles,
                      LoanApproved, Moves
  <2> QED
    BY <2>2, <2>3, <2>4, <2>5 DEF Moves
<1>4. CASE HandlerNext
  <2>1. ASSUME NEW h \in Handlers, VerifyCommit(h) PROVE Moves
    <3> DEFINE g == task[h].job
    <3>0. g \in Groups
      BY <2>1 DEF VerifyCommit, TypeOK
    <3>1. \/ Completable(g) /\ CompleteGroup(g)
          \/ group[g] \in Unpaid /\ FailGroup(g)
          \/ UNCHANGED <<shop, checkout, books>>
          \/ /\ payment[g] = "FAILED" /\ refund' = [refund EXCEPT ![g] = LateRefunds(g)]
             /\ UNCHANGED <<shop, checkout, settled, outbox>>
      BY <2>1 DEF VerifyCommit
    <3>2. payment[g] = "FAILED" => group[g] = "FAILED"
      BY <3>0 DEF TypeOK, GroupStatus, RowsConsistent, GroupConsistent, Captured
    <3>3. FailGroup(g) => UNCHANGED refund
      BY DEF FailGroup, books
    <3>4. UNCHANGED <<shop, checkout, settled, outbox>> =>
             UNCHANGED <<stock, wallet, items, method, order, group>>
      BY DEF shop, checkout
    <3> QED
      BY <1>0, <3>0, <3>1, <3>2, <3>3, <3>4 DEF Moves, LateMoney
  <2>2. ASSUME NEW h \in Handlers, CancelCommit(h) PROVE Moves
    <3> DEFINE g == task[h].job
    <3>0. g \in Groups /\ task[h].pc = "cancelLocked"
      BY <2>2 DEF CancelCommit, TypeOK
    <3>1. CASE UNCHANGED <<shop, checkout, payment, books>>
      BY <1>0, <3>1 DEF Moves
    <3>2. CASE GroupRead(h) \notin {"PAID", "FAILED"} /\ FailGroup(g)
      <4>1. group[g] \in GroupStatus /\ task[h].sawGroup \in GroupStatus
        BY <3>0 DEF TypeOK, Task
      <4>2. /\ group[g] # "none" /\ task[h].sawGroup # "none"
            /\ task[h].sawGroup \in Unpaid => group[g] \in Unpaid
        BY <3>0 DEF TasksConsistent, TaskConsistent
      <4>3. group[g] \in Unpaid
        BY <3>2, <4>1, <4>2 DEF GroupRead, GroupStatus, Unpaid
      <4> QED
        BY <3>0, <3>2, <4>3 DEF Moves, FailGroup, books
    <3> QED
      BY <2>2, <3>1, <3>2 DEF CancelCommit
  <2> QED
    BY <1>0, <1>4, <2>1, <2>2
       DEF HandlerNext, CancelRead, VerifyRead, Respond, CancelLock, Abort, Moves
<1> QED
  BY <1>1, <1>2, <1>3, <1>4 DEF Next

\* The lines of a checkout stay consistent.
LEMMA LinesStep == IInv /\ LinesConsistent /\ [Next]_vars => LinesConsistent'
<1> SUFFICES ASSUME IInv, LinesConsistent, Moves, NEW g \in Groups
             PROVE  LineConsistent(g)'
  BY StepMoves DEF LinesConsistent
<1> USE DEF IInv
<1>1. CASE Quiet
  BY <1>1 DEF Quiet, LinesConsistent, LineConsistent, Unpaid
<1>2. ASSUME NEW u \in Users, NEW k \in Groups, NEW m \in Methods, Create(u, k, m)
      PROVE  LineConsistent(g)'
  <2>1. /\ items'[k] = cart[u] /\ \A j \in Groups \ {k} : items'[j] = items[j]
        /\ method'[k] = m /\ \A j \in Groups \ {k} : method'[j] = method[j]
        /\ group'[k] = IF m = "WALLET" THEN "PAID" ELSE "PENDING"
        /\ \A j \in Groups \ {k} : group'[j] = group[j]
        /\ \A s \in Stores : order'[k][s] = "none" <=> cart[u][s] = 0
        /\ \A j \in Groups \ {k} : order'[j] = order[j]
    BY <1>2 DEF Create, CompletedOrders, TypeOK, Quantities
  <2>2. \E s \in Stores : cart[u][s] # 0
    <3>1. cart[u] \in [Stores -> 0..MaxQty] /\ cart[u] # NoItems
      BY <1>2 DEF Create, Reservable, TypeOK, Quantities
    <3> QED
      BY <3>1 DEF NoItems
  <2> QED
    BY <2>1, <2>2 DEF LinesConsistent, LineConsistent, Unpaid
<1>3. ASSUME NEW k \in Groups, Completable(k) /\ CompleteGroup(k)
      PROVE  LineConsistent(g)'
  <2>1. /\ UNCHANGED <<items, method>>
        /\ group'[k] = "PAID" /\ \A j \in Groups \ {k} : group'[j] = group[j]
        /\ \A j \in Groups, s \in Stores : order'[j][s] = "none" <=> order[j][s] = "none"
    BY <1>3 DEF CompleteGroup, CompletedOrders, TypeOK
  <2> QED
    <3>1. group[k] # "none"
      BY <1>3 DEF Completable, Unpaid
    <3> QED
      BY <2>1, <3>1 DEF LinesConsistent, LineConsistent, Unpaid
<1>4. ASSUME NEW k \in Groups, group[k] \in Unpaid /\ FailGroup(k)
      PROVE  LineConsistent(g)'
  <2>1. /\ UNCHANGED <<items, method>>
        /\ group'[k] = "FAILED" /\ \A j \in Groups \ {k} : group'[j] = group[j]
        /\ \A j \in Groups, s \in Stores : order'[j][s] = "none" <=> order[j][s] = "none"
    BY <1>4 DEF FailGroup, TypeOK
  <2> QED
    <3>1. group[k] # "none"
      BY <1>4 DEF Unpaid
    <3> QED
      BY <2>1, <3>1 DEF LinesConsistent, LineConsistent, Unpaid
<1>5. ASSUME NEW k \in Groups, NEW s \in Stores, CancelOrder(k, s)
      PROVE  LineConsistent(g)'
  <2>1. /\ UNCHANGED <<items, method, group>>
        /\ \A j \in Groups, t \in Stores : order'[j][t] = "none" <=> order[j][t] = "none"
    BY <1>5 DEF CancelOrder, TypeOK
  <2> QED
    BY <2>1 DEF LinesConsistent, LineConsistent
<1>6. ASSUME NEW k \in Groups, LateMoney(k) \/ \E s \in Stores : RefundSucceeds(k, s)
      PROVE  LineConsistent(g)'
  BY <1>6 DEF LateMoney, RefundSucceeds, checkout, LinesConsistent, LineConsistent
<1> QED
  BY <1>1, <1>2, <1>3, <1>4, <1>5, <1>6 DEF Moves

-----------------------------------------------------------------------------
\* A step that changes the rows of one group only moves stock as the units the
\* group holds change.
LEMMA StockMoves ==
    ASSUME TypeOK, TypeOK', StockConserved, NEW g \in Groups,
           \A k \in Groups \ {g} : order'[k] = order[k] /\ items'[k] = items[k],
           \A s \in Stores : stock'[s] >= 0 /\ stock'[s] = stock[s] + Held(g, s) - Held(g, s)'
    PROVE  StockConserved'
<1> SUFFICES ASSUME NEW s \in Stores
             PROVE  stock'[s] + SumFunction([k \in Groups |-> Held(k, s)])' = InitStock
  BY DEF StockConserved
<1> DEFINE f == [k \in Groups |-> Held(k, s)]
           h == [k \in Groups |-> Held(k, s)']
<1>1. f \in [Groups -> Int] /\ h \in [Groups -> Int]
  BY CheckoutAssumption DEF TypeOK, Held, Quantities
<1>2. \A k \in Groups \ {g} : f[k] = h[k]
  BY DEF Held, Live
<1>3. f[g] = Held(g, s) /\ h[g] = Held(g, s)'
  OBVIOUS
<1>4. stock[s] + SumFunction(f) = InitStock /\ stock[s] \in Int /\ stock'[s] \in Int
  BY DEF StockConserved, TypeOK
<1>5. h = [k \in Groups |-> Held(k, s)]'
  OBVIOUS
<1>6. stock'[s] = stock[s] + f[g] - h[g] /\ f[g] \in Int /\ h[g] \in Int
  BY <1>1, <1>3
<1>7. SumFunction(f) \in Int
  BY <1>1, CheckoutAssumption, SumFunctionIsInt
<1> HIDE DEF f, h
<1>8. SumFunction(h) = SumFunction(f) - f[g] + h[g]
  BY <1>1, <1>2, CheckoutAssumption, SumFunctionDiffersAt
<1> QED
  BY <1>4, <1>5, <1>6, <1>7, <1>8 DEF f, h

\* What a wallet pays for in one group is an amount.
LEMMA PaysInt == TypeOK => \A u \in Users, g \in Groups : WalletPays(u, g) \in Int
<1> SUFFICES ASSUME TypeOK, NEW u \in Users, NEW g \in Groups PROVE WalletPays(u, g) \in Int
  OBVIOUS
<1> DEFINE f == [s \in Stores |-> IF Live(g, s) THEN OrderTotal(g, s) ELSE 0]
<1>1. f \in [Stores -> Int]
  BY CheckoutAssumption DEF TypeOK, OrderTotal
<1> HIDE DEF f
<1>2. SumFunction(f) \in Int
  BY <1>1, CheckoutAssumption, SumFunctionIsInt
<1> QED
  BY <1>2 DEF WalletPays, f

LEMMA PaysIntNext == TypeOK' => (\A u \in Users, g \in Groups : WalletPays(u, g) \in Int)'
BY PaysInt, PTL

\* A step that changes the rows of one group only moves wallet money as what
\* the wallets pay for in it changes.
LEMMA WalletMoves ==
    ASSUME TypeOK, TypeOK', WalletConserved, NEW g \in Groups,
           \A k \in Groups \ {g} :
               order'[k] = order[k] /\ items'[k] = items[k] /\ method'[k] = method[k],
           \A u \in Users : wallet'[u] = wallet[u] + WalletPays(u, g) - WalletPays(u, g)'
    PROVE  WalletConserved'
<1> SUFFICES ASSUME NEW u \in Users
             PROVE  wallet'[u] + SumFunction([k \in Groups |-> WalletPays(u, k)])' = InitWallet
  BY DEF WalletConserved
<1> DEFINE f == [k \in Groups |-> WalletPays(u, k)]
           h == [k \in Groups |-> WalletPays(u, k)']
<1>1. f \in [Groups -> Int] /\ h \in [Groups -> Int]
  <2>1. \A k \in Groups : WalletPays(u, k) \in Int
    BY PaysInt
  <2>2. \A k \in Groups : WalletPays(u, k)' \in Int
    BY PaysIntNext
  <2> QED
    BY <2>1, <2>2
<1>2. \A k \in Groups \ {g} : f[k] = h[k]
  BY DEF WalletPays, OrderTotal, Live
<1>3. f[g] = WalletPays(u, g) /\ h[g] = WalletPays(u, g)'
  OBVIOUS
<1>4. wallet[u] + SumFunction(f) = InitWallet /\ wallet[u] \in Int /\ wallet'[u] \in Int
  BY DEF WalletConserved, TypeOK
<1>5. h = [k \in Groups |-> WalletPays(u, k)]'
  OBVIOUS
<1>6. wallet'[u] = wallet[u] + f[g] - h[g] /\ f[g] \in Int /\ h[g] \in Int
  BY <1>1, <1>3
<1>7. SumFunction(f) \in Int
  BY <1>1, CheckoutAssumption, SumFunctionIsInt
<1> HIDE DEF f, h
<1>8. SumFunction(h) = SumFunction(f) - f[g] + h[g]
  BY <1>1, <1>2, CheckoutAssumption, SumFunctionDiffersAt
<1> QED
  BY <1>4, <1>5, <1>6, <1>7, <1>8 DEF f, h

\* A step that leaves goods, money and the standing of every order alone.
LEMMA ConservedFrame ==
    ASSUME TypeOK, GoodsAndMoneyConserved, UNCHANGED <<stock, wallet, items, method>>,
           \A g \in Groups, s \in Stores : Live(g, s)' = Live(g, s)
    PROVE  GoodsAndMoneyConserved'
<1>1. ASSUME NEW s \in Stores
      PROVE  [g \in Groups |-> Held(g, s)]' = [g \in Groups |-> Held(g, s)]
  BY DEF Held
<1>2. ASSUME NEW u \in Users
      PROVE  [g \in Groups |-> WalletPays(u, g)]' = [g \in Groups |-> WalletPays(u, g)]
  <2>1. ASSUME NEW g \in Groups PROVE WalletPays(u, g)' = WalletPays(u, g)
    BY DEF WalletPays, OrderTotal
  <2> QED
    BY <2>1
<1> QED
  BY <1>1, <1>2 DEF GoodsAndMoneyConserved, StockConserved, WalletConserved

\* A group none of whose orders stands is paid for by no wallet.
LEMMA NothingPaid ==
    ASSUME NEW u, NEW g, \A s \in Stores : ~Live(g, s) PROVE WalletPays(u, g) = 0
<1> DEFINE f == [s \in Stores |-> IF Live(g, s) THEN OrderTotal(g, s) ELSE 0]
<1>1. f \in [Stores -> Int] /\ \A s \in Stores : f[s] = 0
  OBVIOUS
<1> HIDE DEF f
<1>2. SumFunction(f) = 0
  BY <1>1, CheckoutAssumption, SumFunctionZero
<1> QED
  BY <1>2 DEF WalletPays, f

\* No step loses or duplicates a unit of stock or wallet money.
LEMMA ConservedStep ==
    IInv /\ IInv' /\ LinesConsistent /\ GoodsAndMoneyConserved /\ [Next]_vars
        => GoodsAndMoneyConserved'
<1> SUFFICES ASSUME IInv, IInv', LinesConsistent, GoodsAndMoneyConserved, Moves
             PROVE  GoodsAndMoneyConserved'
  BY StepMoves
<1>0. TypeOK /\ TypeOK'
  BY DEF IInv
<1>1. CASE Quiet
  BY <1>0, <1>1, ConservedFrame DEF Quiet, Live
<1>2. ASSUME NEW u \in Users, NEW g \in Groups, NEW m \in Methods, Create(u, g, m)
      PROVE  GoodsAndMoneyConserved'
  <2>1. /\ \A s \in Stores : order[g][s] = "none" /\ ~Live(g, s)
        /\ Owner[g] = u
        /\ \A s \in Stores : cart[u][s] <= stock[s]
        /\ stock' = [s \in Stores |-> stock[s] - cart[u][s]]
        /\ items'[g] = cart[u] /\ \A k \in Groups \ {g} : items'[k] = items[k]
        /\ method'[g] = m /\ \A k \in Groups \ {g} : method'[k] = method[k]
        /\ \A k \in Groups \ {g} : order'[k] = order[k]
        /\ \A s \in Stores : IF cart[u][s] > 0 THEN order'[g][s] \in {"ORDER_RECEIVED", "CONFIRMED"}
                                               ELSE order'[g][s] = "none"
    BY <1>0, <1>2 DEF Create, Reservable, CompletedOrders, TypeOK, IInv, RowsConsistent,
                      OrderConsistent, Live
  <2>2. cart[u] \in [Stores -> 0..MaxQty] /\ MaxQty \in Nat
    BY <1>0, CheckoutAssumption DEF TypeOK, Quantities
  <2>3. StockConserved'
    <3>1. \A s \in Stores : Held(g, s) = 0 /\ Held(g, s)' = cart[u][s]
      BY <2>1, <2>2 DEF Held, Live
    <3>2. \A s \in Stores : stock'[s] >= 0 /\ stock'[s] = stock[s] + Held(g, s) - Held(g, s)'
      BY <1>0, <2>1, <2>2, <3>1 DEF TypeOK
    <3> QED
      BY <1>0, <2>1, <3>2, StockMoves DEF GoodsAndMoneyConserved
  <2>4. ASSUME NEW v \in Users
        PROVE  wallet'[v] = wallet[v] + WalletPays(v, g) - WalletPays(v, g)'
    <3>1. WalletPays(v, g) = 0
      BY <2>1, NothingPaid
    <3>2. wallet[v] \in Int
      BY <1>0 DEF TypeOK
    <3>3. CASE m = "WALLET" /\ v = u
      <4>1. WalletPays(u, g)' = Amount(cart[u])
        <5>1. [s \in Stores |-> IF Live(g, s) THEN OrderTotal(g, s) ELSE 0]'
                = [s \in Stores |-> Price(cart[u], s)]
          <6>1. ASSUME NEW s \in Stores
                PROVE  (IF Live(g, s) THEN OrderTotal(g, s) ELSE 0)' = Price(cart[u], s)
            <7>1. cart[u][s] \in Nat /\ cart[u] \in Quantities
              BY <2>2 DEF Quantities
            <7>2. CASE cart[u][s] > 0
              BY <2>1, <7>2 DEF Live, OrderTotal
            <7>3. CASE cart[u][s] = 0
              BY <2>1, <7>1, <7>3, CheckoutAssumption DEF Live
            <7> QED
              BY <7>1, <7>2, <7>3
          <6> QED
            BY <6>1
        <5> QED
          BY <2>1, <3>3, <5>1 DEF WalletPays, Amount
      <4>2. wallet'[u] = wallet[u] - Amount(cart[u])
        BY <1>0, <1>2, <3>3 DEF Create, TypeOK
      <4>3. Amount(cart[u]) \in Nat
        BY <1>0, AmountType DEF TypeOK
      <4> QED
        BY <3>1, <3>2, <3>3, <4>1, <4>2, <4>3
    <3>4. CASE m # "WALLET" \/ v # u
      <4>1. WalletPays(v, g)' = 0
        BY <2>1, <3>4 DEF WalletPays
      <4>2. wallet'[v] = wallet[v]
        BY <1>0, <1>2, <3>4 DEF Create, TypeOK
      <4> QED
        BY <3>1, <3>2, <4>1, <4>2
    <3> QED
      BY <3>3, <3>4
  <2>5. WalletConserved'
    BY <1>0, <2>1, <2>4, WalletMoves DEF GoodsAndMoneyConserved
  <2> QED
    BY <2>3, <2>5 DEF GoodsAndMoneyConserved
<1>3. ASSUME NEW g \in Groups, Completable(g) /\ CompleteGroup(g)
      PROVE  GoodsAndMoneyConserved'
  <2>1. /\ UNCHANGED <<stock, wallet, items, method>>
        /\ \A k \in Groups, s \in Stores : Live(k, s)' = Live(k, s)
    BY <1>0, <1>3 DEF CompleteGroup, CompletedOrders, TypeOK, Live
  <2> QED
    BY <1>0, <2>1, ConservedFrame
<1>4. ASSUME NEW g \in Groups, group[g] \in Unpaid /\ FailGroup(g)
      PROVE  GoodsAndMoneyConserved'
  <2>1. /\ UNCHANGED <<wallet, items, method>>
        /\ stock' = [s \in Stores |-> stock[s] + items[g][s]]
        /\ \A k \in Groups \ {g} : order'[k] = order[k]
        /\ \A s \in Stores : ~Live(g, s)'
    BY <1>0, <1>4 DEF FailGroup, TypeOK, Live
  <2>2. /\ method[g] # "WALLET"
        /\ \A s \in Stores : order[g][s] = "none" => items[g][s] = 0
        /\ \A s \in Stores : order[g][s] \in {"none", "ORDER_RECEIVED"}
    BY <1>4 DEF IInv, RowsConsistent, OrderConsistent, LinesConsistent, LineConsistent
  <2>3. \A s \in Stores : stock[s] \in Int /\ stock[s] >= 0 /\ items[g][s] \in Nat
    <3>1. items[g] \in [Stores -> 0..MaxQty] /\ stock \in [Stores -> Int] /\ MaxQty \in Nat
      BY <1>0, CheckoutAssumption DEF TypeOK, Quantities
    <3>2. \A s \in Stores : stock[s] >= 0
      BY DEF GoodsAndMoneyConserved, StockConserved
    <3> QED
      BY <3>1, <3>2
  <2>4. \A s \in Stores : Held(g, s) = items[g][s] /\ Held(g, s)' = 0
    BY <2>1, <2>2 DEF Held, Live
  <2>5. StockConserved'
    <3>1. \A s \in Stores : stock'[s] >= 0 /\ stock'[s] = stock[s] + Held(g, s) - Held(g, s)'
      BY <2>1, <2>3, <2>4
    <3> QED
      BY <1>0, <2>1, <3>1, StockMoves DEF GoodsAndMoneyConserved
  <2>6. \A u \in Users : WalletPays(u, g) = 0 /\ WalletPays(u, g)' = 0
    BY <2>1, <2>2 DEF WalletPays
  <2>7. \A u \in Users : wallet'[u] = wallet[u] + WalletPays(u, g) - WalletPays(u, g)'
    BY <1>0, <2>1, <2>6 DEF TypeOK
  <2> QED
    BY <1>0, <2>1, <2>5, <2>7, WalletMoves DEF GoodsAndMoneyConserved
<1>5. ASSUME NEW g \in Groups, NEW s \in Stores, CancelOrder(g, s)
      PROVE  GoodsAndMoneyConserved'
  <2>1. /\ UNCHANGED <<items, method>>
        /\ stock' = [stock EXCEPT ![s] = @ + items[g][s]]
        /\ \A k \in Groups \ {g} : order'[k] = order[k]
        /\ Live(g, s) /\ ~Live(g, s)'
        /\ \A t \in Stores \ {s} : Live(g, t)' = Live(g, t)
        /\ wallet' = IF method[g] = "WALLET"
                     THEN [wallet EXCEPT ![Owner[g]] = @ + OrderTotal(g, s)] ELSE wallet
    BY <1>0, <1>5 DEF CancelOrder, TypeOK, Live
  <2>2. \A t \in Stores : stock[t] \in Int /\ stock[t] >= 0 /\ items[g][t] \in Nat
    <3>1. items[g] \in [Stores -> 0..MaxQty] /\ stock \in [Stores -> Int] /\ MaxQty \in Nat
      BY <1>0, CheckoutAssumption DEF TypeOK, Quantities
    <3>2. \A t \in Stores : stock[t] >= 0
      BY DEF GoodsAndMoneyConserved, StockConserved
    <3> QED
      BY <3>1, <3>2
  <2>3. StockConserved'
    <3>1. /\ Held(g, s) = items[g][s] /\ Held(g, s)' = 0
          /\ \A t \in Stores \ {s} : Held(g, t)' = Held(g, t) /\ Held(g, t) \in Int
      BY <2>1, <2>2 DEF Held
    <3>2. \A t \in Stores : stock'[t] >= 0 /\ stock'[t] = stock[t] + Held(g, t) - Held(g, t)'
      BY <1>0, <2>1, <2>2, <3>1 DEF TypeOK
    <3> QED
      BY <1>0, <2>1, <3>2, StockMoves DEF GoodsAndMoneyConserved
  <2>4. ASSUME NEW u \in Users
        PROVE  wallet'[u] = wallet[u] + WalletPays(u, g) - WalletPays(u, g)'
    <3>1. wallet[u] \in Int
      BY <1>0 DEF TypeOK
    <3>2. CASE method[g] = "WALLET" /\ Owner[g] = u
      <4> DEFINE f == [t \in Stores |-> IF Live(g, t) THEN OrderTotal(g, t) ELSE 0]
                 h == [t \in Stores |-> (IF Live(g, t) THEN OrderTotal(g, t) ELSE 0)']
      <4>1. \A t \in Stores : OrderTotal(g, t) \in Nat /\ OrderTotal(g, t)' = OrderTotal(g, t)
        BY <1>0, <2>1, CheckoutAssumption DEF TypeOK, OrderTotal
      <4>2. /\ f \in [Stores -> Int] /\ h \in [Stores -> Int]
            /\ f[s] = OrderTotal(g, s) /\ h[s] = 0
            /\ \A t \in Stores \ {s} : f[t] = h[t]
        BY <2>1, <4>1
      <4>3. WalletPays(u, g) = SumFunction(f) /\ WalletPays(u, g)' = SumFunction(h)
        BY <2>1, <3>2 DEF WalletPays
      <4>4. wallet'[u] = wallet[u] + OrderTotal(g, s)
        BY <1>0, <2>1, <3>2 DEF TypeOK
      <4> HIDE DEF f, h
      <4>5. SumFunction(h) = SumFunction(f) - f[s] + h[s] /\ SumFunction(f) \in Int
        BY <4>2, CheckoutAssumption, SumFunctionDiffersAt, SumFunctionIsInt
      <4> QED
        BY <3>1, <4>1, <4>2, <4>3, <4>4, <4>5
    <3>3. CASE method[g] # "WALLET" \/ Owner[g] # u
      <4>1. WalletPays(u, g) = 0 /\ WalletPays(u, g)' = 0
        BY <2>1, <3>3 DEF WalletPays
      <4>2. wallet'[u] = wallet[u]
        BY <1>0, <2>1, <3>3 DEF TypeOK
      <4> QED
        BY <3>1, <4>1, <4>2
    <3> QED
      BY <3>2, <3>3
  <2> QED
    BY <1>0, <2>1, <2>3, <2>4, WalletMoves DEF GoodsAndMoneyConserved
<1>6. ASSUME NEW g \in Groups, LateMoney(g) \/ \E s \in Stores : RefundSucceeds(g, s)
      PROVE  GoodsAndMoneyConserved'
  BY <1>0, <1>6, ConservedFrame DEF LateMoney, RefundSucceeds, shop, checkout, Live
<1> QED
  BY <1>1, <1>2, <1>3, <1>4, <1>5, <1>6 DEF Moves

\* At first everything is on the shelf and in the wallets.
LEMMA ConservedInit == Init => LinesConsistent /\ GoodsAndMoneyConserved
<1> SUFFICES ASSUME Init PROVE LinesConsistent /\ GoodsAndMoneyConserved
  OBVIOUS
<1>1. LinesConsistent
  BY DEF Init, LinesConsistent, LineConsistent, NoItems, Unpaid
<1>2. \A g \in Groups, s \in Stores : ~Live(g, s)
  BY DEF Init, Live
<1>3. ASSUME NEW s \in Stores PROVE SumFunction([g \in Groups |-> Held(g, s)]) = 0
  <2> DEFINE f == [g \in Groups |-> Held(g, s)]
  <2>1. f \in [Groups -> Int] /\ \A g \in Groups : f[g] = 0
    BY <1>2 DEF Held
  <2> HIDE DEF f
  <2>2. SumFunction(f) = 0
    BY <2>1, CheckoutAssumption, SumFunctionZero
  <2> QED
    BY <2>2 DEF f
<1>4. ASSUME NEW u \in Users PROVE SumFunction([g \in Groups |-> WalletPays(u, g)]) = 0
  <2> DEFINE f == [g \in Groups |-> WalletPays(u, g)]
  <2>1. f \in [Groups -> Int] /\ \A g \in Groups : f[g] = 0
    BY <1>2, NothingPaid
  <2> HIDE DEF f
  <2>2. SumFunction(f) = 0
    BY <2>1, CheckoutAssumption, SumFunctionZero
  <2> QED
    BY <2>2 DEF f
<1>5. InitStock \in Nat /\ InitWallet \in Nat
  BY CheckoutAssumption
<1>6. \A s \in Stores : stock[s] = InitStock
  BY DEF Init
<1>7. \A u \in Users : wallet[u] = InitWallet
  BY DEF Init
<1>8. StockConserved
  BY <1>3, <1>5, <1>6 DEF StockConserved
<1>9. WalletConserved
  BY <1>4, <1>5, <1>7 DEF WalletConserved
<1> QED
  BY <1>1, <1>8, <1>9 DEF GoodsAndMoneyConserved

\* The lines of a checkout agree with its status: InvCorrect, extended.
THEOREM LinesCorrect == Spec => []LinesConsistent
<1>1. Init => LinesConsistent
  BY ConservedInit
<1>2. IInv /\ LinesConsistent /\ [Next]_vars => LinesConsistent'
  BY LinesStep
<1> QED
  BY <1>1, <1>2, InvCorrect, PTL DEF Spec

\* Stock and wallet money are conserved: every unit is on the shelf or held by
\* one live order, and every wallet is short by exactly the wallet orders that
\* stand, for any customers, stores, prices and interleaving.
THEOREM ConservedCorrect == Spec => []GoodsAndMoneyConserved
<1>1. Init => GoodsAndMoneyConserved
  BY ConservedInit
<1>2. IInv /\ IInv' /\ LinesConsistent /\ GoodsAndMoneyConserved /\ [Next]_vars
        => GoodsAndMoneyConserved'
  BY ConservedStep
<1> QED
  BY <1>1, <1>2, InvCorrect, LinesCorrect, PTL DEF Spec

\* The part about stock alone.
THEOREM StockCorrect == Spec => []StockConserved
<1>1. GoodsAndMoneyConserved => StockConserved
  BY DEF GoodsAndMoneyConserved
<1> QED
  BY <1>1, ConservedCorrect, PTL

-----------------------------------------------------------------------------
\* The contract's deals and debts, as the rows keep them.
Deal == [g \in Groups |-> [s \in Stores |-> DealOf(g, s)]]
Owed == [g \in Groups |-> [s \in Stores |-> OwedOf(g, s)]]

\* The initial rows are an initial state of the contract.
LEMMA ContractInitial == Init => Contract!ContractInit
BY DEF Init, Contract!ContractInit, DealOf, OwedOf, NoItems

\* A step that changes the rows of one group changes its deals only.
LEMMA DealMoves ==
    ASSUME NEW g \in Groups, NEW STATE d,
           \A s \in Stores : DealOf(g, s)' = d[s],
           DOMAIN d = Stores, d = [s \in Stores |-> d[s]],
           \A k \in Groups \ {g} : order'[k] = order[k] /\ group'[k] = group[k]
    PROVE  Deal' = [Deal EXCEPT ![g] = d]
<1>1. \A k \in Groups \ {g}, s \in Stores : DealOf(k, s)' = DealOf(k, s)
  BY DEF DealOf
<1>2. Deal' = [k \in Groups |-> [s \in Stores |-> DealOf(k, s)']]
  BY DEF Deal
<1>3. [s \in Stores |-> DealOf(g, s)'] = d
  OBVIOUS
<1>4. \A k \in Groups \ {g} : [s \in Stores |-> DealOf(k, s)'] = [s \in Stores |-> DealOf(k, s)]
  BY <1>1
<1>5. /\ \A k \in Groups : Deal[k] = [s \in Stores |-> DealOf(k, s)]
      /\ Deal = [k \in Groups |-> Deal[k]]
  BY DEF Deal
<1> DEFINE new(k) == [s \in Stores |-> DealOf(k, s)']
<1>6. \A k \in Groups : new(k) = IF k = g THEN d ELSE Deal[k]
  BY <1>3, <1>4, <1>5
<1>7. Deal' = [k \in Groups |-> new(k)]
  BY <1>2
<1> HIDE DEF new
<1>8. Deal' = [k \in Groups |-> IF k = g THEN d ELSE Deal[k]]
  BY <1>6, <1>7
<1> QED
  BY <1>5, <1>8

\* A step that changes the refunds of one group changes its debts only.
LEMMA OwedMoves ==
    ASSUME NEW g \in Groups, NEW STATE d,
           \A s \in Stores : OwedOf(g, s)' = d[s],
           DOMAIN d = Stores, d = [s \in Stores |-> d[s]],
           \A k \in Groups \ {g} : refund'[k] = refund[k]
    PROVE  Owed' = [Owed EXCEPT ![g] = d]
<1>1. \A k \in Groups \ {g}, s \in Stores : OwedOf(k, s)' = OwedOf(k, s)
  BY DEF OwedOf
<1>2. Owed' = [k \in Groups |-> [s \in Stores |-> OwedOf(k, s)']]
  BY DEF Owed
<1>3. [s \in Stores |-> OwedOf(g, s)'] = d
  OBVIOUS
<1>4. \A k \in Groups \ {g} : [s \in Stores |-> OwedOf(k, s)'] = [s \in Stores |-> OwedOf(k, s)]
  BY <1>1
<1>5. /\ \A k \in Groups : Owed[k] = [s \in Stores |-> OwedOf(k, s)]
      /\ Owed = [k \in Groups |-> Owed[k]]
  BY DEF Owed
<1> DEFINE new(k) == [s \in Stores |-> OwedOf(k, s)']
<1>6. \A k \in Groups : new(k) = IF k = g THEN d ELSE Owed[k]
  BY <1>3, <1>4, <1>5
<1>7. Owed' = [k \in Groups |-> new(k)]
  BY <1>2
<1> HIDE DEF new
<1>8. Owed' = [k \in Groups |-> IF k = g THEN d ELSE Owed[k]]
  BY <1>6, <1>7
<1> QED
  BY <1>5, <1>8

\* A step that leaves every refund alone.
LEMMA OwedFrame == UNCHANGED refund => UNCHANGED Owed
BY DEF Owed, OwedOf

ContractMove ==
    \/ UNCHANGED Contract!contractVars
    \/ \E g \in Groups :
          \/ \E as \in {"reserved", "standing"} : Contract!Open(g, as)
          \/ Contract!Honour(g) \/ Contract!Release(g) \/ Contract!MoneyTooLate(g)
          \/ \E s \in Stores : Contract!TakeBack(g, s) \/ Contract!Repay(g, s)

\* A new checkout opens a deal.
LEMMA CreateOpens ==
    ASSUME IInv, NEW u \in Users, NEW g \in Groups, NEW m \in Methods, Create(u, g, m)
    PROVE  \E as \in {"reserved", "standing"} : Contract!Open(g, as)
<1> DEFINE as == IF m = "WALLET" THEN "standing" ELSE "reserved"
           d == [s \in Stores |-> IF cart[u][s] > 0 THEN as ELSE "none"]
<1>1. /\ \A s \in Stores : order[g][s] = "none"
      /\ \A s \in Stores : cart[u][s] <= stock[s]
      /\ cart[u] # NoItems
      /\ stock' = [s \in Stores |-> stock[s] - cart[u][s]]
      /\ items' = [items EXCEPT ![g] = cart[u]]
      /\ group' = [group EXCEPT ![g] = IF m = "WALLET" THEN "PAID" ELSE "PENDING"]
      /\ \A k \in Groups \ {g} : order'[k] = order[k] /\ group'[k] = group[k]
      /\ \A s \in Stores : order'[g][s] = IF cart[u][s] > 0
                                          THEN IF m = "WALLET" THEN "CONFIRMED" ELSE "ORDER_RECEIVED"
                                          ELSE "none"
      /\ UNCHANGED refund
  BY DEF Create, Reservable, CompletedOrders, TypeOK, IInv, RowsConsistent, OrderConsistent
<1>2. cart[u] \in [Stores -> 0..MaxQty] /\ MaxQty \in Nat
  BY CheckoutAssumption DEF IInv, TypeOK, Quantities
<1>3. \E s \in Stores : cart[u][s] > 0
  BY <1>1, <1>2 DEF NoItems
<1>4. \A s \in Stores : DealOf(g, s)' = d[s]
  BY <1>1 DEF DealOf
<1>5. Deal' = [Deal EXCEPT ![g] = d]
  <2>1. DOMAIN d = Stores /\ d = [s \in Stores |-> d[s]]
    OBVIOUS
  <2> HIDE DEF d
  <2> QED
    BY <1>1, <1>4, <2>1, DealMoves
<1>6. UNCHANGED Owed
  BY <1>1, OwedFrame
<1>7. {s \in Stores : Deal[g][s] # "none"} = {}
  BY <1>1 DEF Deal, DealOf
<1>8. Contract!Open(g, as)
  <2>1. /\ cart[u] \in [Stores -> 0..MaxQty]
        /\ \E s \in Stores : cart[u][s] > 0
        /\ \A s \in Stores : cart[u][s] <= stock[s]
        /\ items' = [items EXCEPT ![g] = cart[u]]
        /\ stock' = [s \in Stores |-> stock[s] - cart[u][s]]
        /\ Deal' = [Deal EXCEPT ![g] = [s \in Stores |-> IF cart[u][s] > 0 THEN as ELSE "none"]]
    BY <1>1, <1>2, <1>3, <1>5
  <2> HIDE DEF as
  <2> QED
    BY <1>6, <1>7, <2>1 DEF Contract!Open, Contract!Lines, Deal, Owed
<1> QED
  BY <1>8

\* Completing a group honours its deal.
LEMMA CompleteHonours ==
    ASSUME IInv, LinesConsistent, NEW g \in Groups, Completable(g), CompleteGroup(g)
    PROVE  Contract!Honour(g)
<1> DEFINE d == [s \in Stores |-> IF Deal[g][s] # "none" THEN "standing" ELSE "none"]
<1>1. /\ \A s \in Stores : order[g][s] \in {"none", "ORDER_RECEIVED"}
      /\ \E s \in Stores : order[g][s] # "none"
  BY DEF IInv, RowsConsistent, OrderConsistent, LinesConsistent, LineConsistent, Completable,
         Unpaid
<1>2. /\ \A k \in Groups \ {g} : order'[k] = order[k] /\ group'[k] = group[k]
      /\ \A s \in Stores : order'[g][s] = IF order[g][s] = "none" THEN "none" ELSE "CONFIRMED"
      /\ UNCHANGED <<stock, items, refund>>
  BY <1>1 DEF CompleteGroup, CompletedOrders, IInv, TypeOK
<1>3. \A s \in Stores : Deal[g][s] = IF order[g][s] = "none" THEN "none" ELSE "reserved"
  BY <1>1 DEF Deal, DealOf
<1>4. \A s \in Stores : DealOf(g, s)' = d[s]
  BY <1>2, <1>3 DEF DealOf
<1>5. Deal' = [Deal EXCEPT ![g] = d]
  <2>1. DOMAIN d = Stores /\ d = [s \in Stores |-> d[s]]
    OBVIOUS
  <2> HIDE DEF d
  <2> QED
    BY <1>2, <1>4, <2>1, DealMoves
<1>6. UNCHANGED Owed
  BY <1>2, OwedFrame
<1>7. Deal' = [Deal EXCEPT ![g] = [s \in Stores |->
                 IF s \in {t \in Stores : Deal[g][t] # "none"} THEN "standing" ELSE "none"]]
  BY <1>5
<1>8. /\ {t \in Stores : Deal[g][t] # "none"} # {}
      /\ \A s \in {t \in Stores : Deal[g][t] # "none"} : Deal[g][s] = "reserved"
  BY <1>1, <1>3
<1> QED
  BY <1>2, <1>6, <1>7, <1>8
     DEF Contract!Honour, Contract!Conclude, Contract!Reserved, Contract!Lines, Deal, Owed

\* Releasing a group releases its deal.
LEMMA FailReleases ==
    ASSUME IInv, LinesConsistent, NEW g \in Groups, group[g] \in Unpaid, FailGroup(g),
           UNCHANGED refund
    PROVE  Contract!Release(g)
<1> DEFINE d == [s \in Stores |-> IF Deal[g][s] # "none" THEN "released" ELSE "none"]
<1>1. /\ \A s \in Stores : order[g][s] \in {"none", "ORDER_RECEIVED"}
      /\ \E s \in Stores : order[g][s] # "none"
  BY DEF IInv, RowsConsistent, OrderConsistent, LinesConsistent, LineConsistent, Unpaid
<1>2. /\ \A k \in Groups \ {g} : order'[k] = order[k] /\ group'[k] = group[k]
      /\ \A s \in Stores : order'[g][s] = IF order[g][s] = "none" THEN "none" ELSE "CANCELLED"
      /\ group'[g] = "FAILED"
      /\ stock' = [s \in Stores |-> stock[s] + items[g][s]]
      /\ UNCHANGED items
  BY DEF FailGroup, IInv, TypeOK
<1>3. \A s \in Stores : Deal[g][s] = IF order[g][s] = "none" THEN "none" ELSE "reserved"
  BY <1>1 DEF Deal, DealOf
<1>4. \A s \in Stores : DealOf(g, s)' = d[s]
  BY <1>2, <1>3 DEF DealOf
<1>5. Deal' = [Deal EXCEPT ![g] = d]
  <2>1. DOMAIN d = Stores /\ d = [s \in Stores |-> d[s]]
    OBVIOUS
  <2> HIDE DEF d
  <2> QED
    BY <1>2, <1>4, <2>1, DealMoves
<1>6. UNCHANGED Owed
  BY OwedFrame
<1>7. Deal' = [Deal EXCEPT ![g] = [s \in Stores |->
                 IF s \in {t \in Stores : Deal[g][t] # "none"} THEN "released" ELSE "none"]]
  BY <1>5
<1>8. /\ {t \in Stores : Deal[g][t] # "none"} # {}
      /\ \A s \in {t \in Stores : Deal[g][t] # "none"} : Deal[g][s] = "reserved"
  BY <1>1, <1>3
<1> QED
  BY <1>2, <1>6, <1>7, <1>8
     DEF Contract!Release, Contract!Conclude, Contract!Reserved, Contract!Lines, Deal, Owed

\* Cancelling a paid order takes one line back.
LEMMA CancelTakesBack ==
    ASSUME IInv, NEW g \in Groups, NEW s \in Stores, CancelOrder(g, s)
    PROVE  Contract!TakeBack(g, s)
<1> DEFINE d == [Deal[g] EXCEPT ![s] = "returned"]
           money == IF RefundRecord(g) = "SUCCEEDED" THEN "repaid" ELSE "owed"
           w == [Owed[g] EXCEPT ![s] = money]
<1>1. /\ order[g][s] = "CONFIRMED" /\ group[g] = "PAID" /\ refund[g][s] = "none"
      /\ RefundRecord(g) \in {"SUCCEEDED", "MANUAL_REVIEW", "PENDING"}
  <2>1. order[g][s] = "CONFIRMED" /\ RefundRecord(g) \in {"SUCCEEDED", "MANUAL_REVIEW", "PENDING"}
    BY DEF CancelOrder, RefundRecord
  <2>2. OrderConsistent(g, s) /\ group[g] \in GroupStatus
    BY DEF IInv, TypeOK, RowsConsistent
  <2> QED
    BY <2>1, <2>2 DEF OrderConsistent, GroupStatus, Unpaid
<1>2. /\ \A k \in Groups \ {g} : order'[k] = order[k] /\ group'[k] = group[k]
      /\ \A k \in Groups \ {g} : refund'[k] = refund[k]
      /\ order'[g][s] = "CANCELLED" /\ \A t \in Stores \ {s} : order'[g][t] = order[g][t]
      /\ refund'[g][s] = RefundRecord(g) /\ \A t \in Stores \ {s} : refund'[g][t] = refund[g][t]
      /\ group' = group
      /\ stock' = [stock EXCEPT ![s] = @ + items[g][s]]
      /\ UNCHANGED items
  BY <1>1 DEF CancelOrder, IInv, TypeOK
<1>3. Deal[g] = [t \in Stores |-> DealOf(g, t)] /\ Owed[g] = [t \in Stores |-> OwedOf(g, t)]
  BY DEF Deal, Owed
<1>4. \A t \in Stores : DealOf(g, t)' = d[t]
  BY <1>1, <1>2, <1>3 DEF DealOf
<1>5. \A t \in Stores : OwedOf(g, t)' = w[t]
  BY <1>1, <1>2, <1>3 DEF OwedOf
<1>6. /\ DOMAIN d = Stores /\ d = [t \in Stores |-> d[t]]
      /\ DOMAIN w = Stores /\ w = [t \in Stores |-> w[t]]
  BY <1>3
<1>7. Deal' = [Deal EXCEPT ![g] = d]
  <2> HIDE DEF d
  <2> QED
    BY <1>2, <1>4, <1>6, DealMoves
<1>8. Owed' = [Owed EXCEPT ![g] = w]
  <2> HIDE DEF w
  <2> QED
    BY <1>2, <1>5, <1>6, OwedMoves
<1>9. Deal[g][s] = "standing" /\ Owed[g][s] = "none"
  BY <1>1, <1>3 DEF DealOf, OwedOf
<1>10. /\ Deal' = [Deal EXCEPT ![g][s] = "returned"]
       /\ Owed' = [Owed EXCEPT ![g][s] = money]
       /\ money \in {"owed", "repaid"}
  BY <1>7, <1>8
<1> HIDE DEF money
<1> QED
  BY <1>2, <1>9, <1>10 DEF Contract!TakeBack, Deal, Owed

\* Money for a released group is owed on every line of it, once.
LEMMA LateMoneyOwed ==
    ASSUME IInv, LinesConsistent, NEW g \in Groups, LateMoney(g)
    PROVE  UNCHANGED Contract!contractVars \/ Contract!MoneyTooLate(g)
<1>1. /\ \A s \in Stores : order[g][s] \in {"none", "CANCELLED"}
      /\ \E s \in Stores : order[g][s] # "none"
      /\ \A s \in Stores : order[g][s] = "none" => refund[g][s] = "none"
      /\ (\E s \in Stores : refund[g][s] # "none") => \A s \in OrdersOf(g) : refund[g][s] # "none"
  BY DEF LateMoney, IInv, RowsConsistent, OrderConsistent, RefundsConsistent, LinesConsistent,
         LineConsistent
<1>2. UNCHANGED <<stock, items, order, group>> /\ group[g] = "FAILED"
  BY DEF LateMoney
<1>3. UNCHANGED Deal
  BY <1>2 DEF Deal, DealOf
<1>4. /\ \A k \in Groups \ {g} : refund'[k] = refund[k]
      /\ refund'[g] = LateRefunds(g)
  BY DEF LateMoney, IInv, TypeOK
<1>5. CASE \E s \in Stores : refund[g][s] # "none"
  <2>1. LateRefunds(g) = refund[g]
    BY <1>1, <1>5 DEF LateRefunds, IInv, TypeOK
  <2>2. UNCHANGED refund
    BY <2>1 DEF LateMoney, IInv, TypeOK
  <2>3. UNCHANGED Owed
    BY <2>2, OwedFrame
  <2> QED
    BY <1>2, <1>3, <2>3 DEF Contract!contractVars, Deal, Owed
<1>6. CASE \A s \in Stores : refund[g][s] = "none"
  <2> DEFINE w == [s \in Stores |-> IF s \in {t \in Stores : Deal[g][t] # "none"}
                                    THEN "owed" ELSE "none"]
  <2>1. \A s \in Stores : /\ Deal[g][s] = IF order[g][s] = "none" THEN "none" ELSE "released"
                          /\ Owed[g][s] = "none"
    BY <1>1, <1>2, <1>6 DEF Deal, DealOf, Owed, OwedOf
  <2>2. \A s \in Stores : refund'[g][s] = IF order[g][s] = "none" THEN "none" ELSE "PENDING"
    BY <1>4, <1>6 DEF LateRefunds, OrdersOf
  <2>3. \A s \in Stores : OwedOf(g, s)' = w[s]
    BY <2>1, <2>2 DEF OwedOf
  <2>4. Owed' = [Owed EXCEPT ![g] = w]
    <3>1. DOMAIN w = Stores /\ w = [s \in Stores |-> w[s]]
      OBVIOUS
    <3> HIDE DEF w
    <3> QED
      BY <1>4, <2>3, <3>1, OwedMoves
  <2>5. /\ {t \in Stores : Deal[g][t] # "none"} # {}
        /\ \A s \in {t \in Stores : Deal[g][t] # "none"} :
              Deal[g][s] = "released" /\ Owed[g][s] = "none"
    BY <1>1, <2>1
  <2> QED
    BY <1>2, <1>3, <2>4, <2>5 DEF Contract!MoneyTooLate, Contract!Lines, Deal, Owed
<1> QED
  BY <1>5, <1>6

\* A refund that succeeds repays what was owed.
LEMMA RefundRepays ==
    ASSUME IInv, NEW g \in Groups, NEW s \in Stores, RefundSucceeds(g, s)
    PROVE  Contract!Repay(g, s)
<1> DEFINE w == [Owed[g] EXCEPT ![s] = "repaid"]
<1>1. /\ refund[g][s] \in {"PENDING", "MANUAL_REVIEW"}
      /\ refund'[g][s] = "SUCCEEDED" /\ \A t \in Stores \ {s} : refund'[g][t] = refund[g][t]
      /\ \A k \in Groups \ {g} : refund'[k] = refund[k]
      /\ UNCHANGED <<stock, items, order, group>>
  BY DEF RefundSucceeds, IInv, TypeOK, shop, checkout
<1>2. UNCHANGED Deal
  BY <1>1 DEF Deal, DealOf
<1>3. Owed[g] = [t \in Stores |-> OwedOf(g, t)]
  BY DEF Owed
<1>4. \A t \in Stores : OwedOf(g, t)' = w[t]
  BY <1>1, <1>3 DEF OwedOf
<1>5. DOMAIN w = Stores /\ w = [t \in Stores |-> w[t]]
  BY <1>3
<1>6. Owed' = [Owed EXCEPT ![g] = w]
  <2> HIDE DEF w
  <2> QED
    BY <1>1, <1>4, <1>5, OwedMoves
<1>7. Owed[g][s] = "owed" /\ Owed' = [Owed EXCEPT ![g][s] = "repaid"]
  BY <1>1, <1>3, <1>6 DEF OwedOf
<1> QED
  BY <1>1, <1>2, <1>7 DEF Contract!Repay, Deal, Owed

\* A step that moves nothing is no step of the contract.
LEMMA QuietStutters ==
    ASSUME IInv, Quiet PROVE UNCHANGED Contract!contractVars
<1>1. UNCHANGED <<stock, items, order, refund>>
  BY DEF Quiet
<1>2. ASSUME NEW g \in Groups, NEW s \in Stores PROVE DealOf(g, s)' = DealOf(g, s)
  <2>1. group[g] \in Unpaid => order[g][s] \in {"none", "ORDER_RECEIVED"}
    BY DEF IInv, RowsConsistent, OrderConsistent
  <2> QED
    BY <1>1, <2>1 DEF Quiet, DealOf, Unpaid
<1>3. UNCHANGED Deal
  BY <1>2 DEF Deal
<1>4. UNCHANGED Owed
  BY <1>1, OwedFrame
<1> QED
  BY <1>1, <1>3, <1>4 DEF Contract!contractVars, Deal, Owed

\* Every step keeps the contract or leaves it alone.
LEMMA ContractStep ==
    IInv /\ LinesConsistent /\ [Next]_vars => [Contract!ContractNext]_(Contract!contractVars)
<1> SUFFICES ASSUME IInv, LinesConsistent, Moves
             PROVE  ContractMove
  BY StepMoves DEF ContractMove, Contract!ContractNext
<1>1. CASE Quiet
  BY <1>1, QuietStutters DEF ContractMove
<1>2. ASSUME NEW u \in Users, NEW g \in Groups, NEW m \in Methods, Create(u, g, m)
      PROVE  ContractMove
  BY <1>2, CreateOpens DEF ContractMove
<1>3. ASSUME NEW g \in Groups,
             \/ Completable(g) /\ CompleteGroup(g)
             \/ group[g] \in Unpaid /\ FailGroup(g) /\ UNCHANGED refund
             \/ LateMoney(g)
      PROVE  ContractMove
  BY <1>3, CompleteHonours, FailReleases, LateMoneyOwed DEF ContractMove
<1>4. ASSUME NEW g \in Groups, NEW s \in Stores, CancelOrder(g, s) \/ RefundSucceeds(g, s)
      PROVE  ContractMove
  BY <1>4, CancelTakesBack, RefundRepays DEF ContractMove
<1> QED
  BY <1>1, <1>2, <1>3, <1>4 DEF Moves

\* The transactions of checkout, payments, Klump and order cancellation
\* implement the contract of CheckoutContract, for every value of the constants.
THEOREM ContractKept == Spec => KeepsContract
<1>1. Init => Contract!ContractInit
  BY ContractInitial
<1>2. IInv /\ LinesConsistent /\ [Next]_vars => [Contract!ContractNext]_(Contract!contractVars)
  BY ContractStep
<1> QED
  BY <1>1, <1>2, InvCorrect, LinesCorrect, PTL DEF Spec, KeepsContract, Contract!ContractSpec
=============================================================================
