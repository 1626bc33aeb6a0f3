--------------------------- MODULE RefundsProofs ---------------------------
(***************************************************************************)
(* Proofs about Refunds, for any orders, handlers and numbers of attempts, *)
(* retries, errors and crashes.                                            *)
(***************************************************************************)
EXTENDS Refunds, FiniteSetTheorems, TLAPS

\* The provider returned the money of order o, in a world where the attempts
\* are att.
Paid(att, o) == \E a \in Attempts : att[a].order = o /\ att[a].state = "processed"

\* An attempt nobody opened has no state, and one the provider said was
\* processed stays so.
AttemptConsistent(a) ==
    /\ attempt[a].order = NoOrder => attempt[a].state = "none" /\ told[a] = {}
    /\ "processed" \in told[a] => attempt[a].state = "processed"

\* What a handler holds in its hands is true in the world att.
Sound(t, att) ==
    t.pc # "idle" =>
        /\ t.order \in Orders
        /\ t.pc # "create" => t.id \in Attempts /\ att[t.id].order = t.order
        /\ t.pc \in {"save", "fetched", "apply", "manual", "sync"} /\ t.answer = "processed" =>
              att[t.id].state = "processed"
        /\ t.pc \in {"manual", "sync"} => t.answer = "processed"
        /\ t.pc = "synced" =>
              /\ t.answer \in {"REFUNDED", "PARTIALLY_REFUNDED"}
              /\ att[t.id].state = "processed"
              /\ t.answer = "REFUNDED" => \A o \in Orders : Paid(att, o)

\* The row of a refund names an attempt of its own order, and says SUCCEEDED
\* only when the money came back.
RowConsistent(o) ==
    /\ refundId[o] # 0 => attempt[refundId[o]].order = o
    /\ status[o] = "SUCCEEDED" => Paid(attempt, o)

\* The calls that are about to open an attempt.
Creators(o) == {h \in Handlers : task[h].pc = "create" /\ task[h].order = o}

Waiting(o) == IF status[o] = "PENDING" THEN 1 ELSE 0

\* An attempt opened, a call on its way and a refund waiting to be claimed each
\* spend one permission; the first comes with the refund, every other from a
\* human retry.
WithinBudget(o) ==
    /\ IsFiniteSet(Creators(o))
    /\ provider = "KLUMP" => Creators(o) = {} /\ status[o] # "PENDING"
    /\ status[o] = "none" => Creators(o) = {} /\ AttemptsOf(o) = {}
    /\ Cardinality(AttemptsOf(o)) + Cardinality(Creators(o)) + Waiting(o) <= 1 + retries[o]

\* What the steps keep, one lemma for each below.
Consistent ==
    /\ TypeOK
    /\ \A a \in Attempts : AttemptConsistent(a)
    /\ \A h \in Handlers : Sound(task[h], attempt)
    /\ \A o \in Orders : RowConsistent(o)
    /\ \A o \in Orders : WithinBudget(o)
    /\ PaymentStatusIsEarned

\* A Klump payment is only refunded by hand, which leaves no attempt in progress.
KlumpIsProcessed ==
    provider = "KLUMP" =>
        \A a \in Attempts : attempt[a].order # NoOrder => attempt[a].state = "processed"

\* The inductive invariant.
IInv == Consistent /\ KlumpIsProcessed

-----------------------------------------------------------------------------
\* Attempts keep their order, and a processed one its state.
WorldKept ==
    \A a \in Attempts :
        /\ attempt[a].order # NoOrder => attempt'[a].order = attempt[a].order
        /\ attempt[a].state = "processed" => attempt'[a] = attempt[a]

WorldType ==
    /\ attempt \in [Attempts -> [order: Orders \cup {NoOrder}, state: ProviderStatus \cup {"none"}]]
    /\ told \in [Attempts -> SUBSET ProviderStatus]

WorldConsistent == WorldType /\ \A a \in Attempts : AttemptConsistent(a)

\* A record a handler stores is well typed.
LEMMA DoingType ==
    ASSUME NEW pc \in {"idle", "create", "save", "fetched", "apply", "resolve", "manual",
                       "sync", "synced", "notify"},
           NEW o \in Orders \cup {NoOrder},
           NEW by \in {"none", "create", "fetch", "webhook", "resolve", "manual"},
           NEW id \in 0..MaxAttempts,
           NEW answer \in ProviderStatus \cup {"none", "REFUNDED", "PARTIALLY_REFUNDED"}
    PROVE  Doing(pc, o, by, id, answer) \in Task
BY DEF Doing, Task

\* An idle handler is well typed and holds nothing.
LEMMA IdleSound == Idle \in Task /\ Idle.pc = "idle"
<1>1. 0 \in 0..MaxAttempts
  BY RefundsAssumption
<1> QED
  BY <1>1, DoingType DEF Idle, Doing

\* The provider sets the state of an unused attempt, or of one of the same
\* order that was not processed.
LEMMA SetStateKeeps ==
    ASSUME WorldConsistent, NEW a \in Attempts, NEW o \in Orders, NEW state \in ProviderStatus,
           attempt[a].order \in {NoOrder, o}, attempt[a].state # "processed",
           SetState(a, o, state)
    PROVE  /\ WorldConsistent' /\ WorldKept
           /\ attempt'[a].order = o /\ attempt'[a].state = state
           /\ \A b \in Attempts \ {a} : attempt'[b] = attempt[b]
<1>1. /\ attempt'[a] = [order |-> o, state |-> state] /\ told'[a] = told[a] \cup {state}
      /\ \A b \in Attempts \ {a} : attempt'[b] = attempt[b] /\ told'[b] = told[b]
  BY DEF SetState, WorldConsistent, WorldType
<1>2. WorldType'
  BY DEF SetState, WorldConsistent, WorldType
<1>3. o # NoOrder
  BY RefundsAssumption
<1>4. ASSUME NEW b \in Attempts PROVE AttemptConsistent(b)'
  BY <1>1, <1>3 DEF WorldConsistent, AttemptConsistent
<1>5. WorldKept
  BY <1>1 DEF WorldKept
<1> QED
  BY <1>1, <1>2, <1>4, <1>5 DEF WorldConsistent

\* Money returned stays returned.
LEMMA PaidKept ==
    ASSUME WorldKept, NEW o \in Orders, Paid(attempt, o) PROVE Paid(attempt', o)
BY DEF WorldKept, Paid

\* What a handler holds stays true.
LEMMA SoundKept ==
    ASSUME WorldKept, NEW STATE t, Sound(t, attempt) PROVE Sound(t, attempt')
<1> SUFFICES ASSUME t.pc # "idle"
             PROVE  /\ t.order \in Orders
                    /\ t.pc # "create" => t.id \in Attempts /\ attempt'[t.id].order = t.order
                    /\ t.pc \in {"save", "fetched", "apply", "manual", "sync"} /\ t.answer = "processed" =>
                          attempt'[t.id].state = "processed"
                    /\ t.pc \in {"manual", "sync"} => t.answer = "processed"
                    /\ t.pc = "synced" =>
                          /\ t.answer \in {"REFUNDED", "PARTIALLY_REFUNDED"}
                          /\ attempt'[t.id].state = "processed"
                          /\ t.answer = "REFUNDED" => \A o \in Orders : Paid(attempt', o)
  BY DEF Sound
<1>1. t.order \in Orders /\ t.order # NoOrder
  BY RefundsAssumption DEF Sound
<1>2. t.pc # "create" => t.id \in Attempts /\ attempt'[t.id].order = t.order
                         /\ (attempt[t.id].state = "processed" => attempt'[t.id].state = "processed")
  BY <1>1 DEF Sound, WorldKept
<1>3. t.pc = "synced" /\ t.answer = "REFUNDED" => \A o \in Orders : Paid(attempt', o)
  BY PaidKept DEF Sound
<1> QED
  BY <1>1, <1>2, <1>3 DEF Sound

TasksSound == \A h \in Handlers : Sound(task[h], attempt)

\* One handler moves, to a state that is true; the others keep theirs.
LEMMA TaskMoves ==
    ASSUME task \in [Handlers -> Task], TasksSound, WorldKept, NEW h \in Handlers, NEW STATE t,
           t \in Task, Sound(t, attempt'), Moves(h, t)
    PROVE  task' \in [Handlers -> Task] /\ TasksSound'
<1>1. task'[h] = t /\ \A k \in Handlers \ {h} : task'[k] = task[k]
  BY DEF Moves
<1>2. \A k \in Handlers : Sound(task[k], attempt')
  BY SoundKept DEF TasksSound
<1>3. \A k \in Handlers : Sound(task'[k], attempt')
  BY <1>1, <1>2
<1> QED
  BY <1>3 DEF Moves, TasksSound

\* A row whose refund keeps its status, or moves to one the world bears out.
LEMMA RowKept ==
    ASSUME WorldKept, NEW o \in Orders, RowConsistent(o),
           \/ refundId'[o] = refundId[o] /\ refundId[o] \in 0..MaxAttempts
           \/ refundId'[o] \in Attempts /\ attempt'[refundId'[o]].order = o,
           status'[o] = status[o] \/ status'[o] # "SUCCEEDED" \/ Paid(attempt', o)
    PROVE  RowConsistent(o)'
<1>1. status'[o] = "SUCCEEDED" => Paid(attempt', o)
  BY PaidKept DEF RowConsistent
<1>2. refundId'[o] # 0 => attempt'[refundId'[o]].order = o
  <2>1. CASE refundId'[o] \in Attempts /\ attempt'[refundId'[o]].order = o
    BY <2>1
  <2>2. CASE refundId'[o] = refundId[o] /\ refundId[o] \in 0..MaxAttempts /\ refundId[o] # 0
    <3>1. refundId[o] \in Attempts /\ attempt[refundId[o]].order = o /\ o # NoOrder
      BY <2>2, RefundsAssumption DEF Attempts, RowConsistent
    <3> QED
      BY <2>2, <3>1 DEF WorldKept
  <2> QED
    BY <2>1, <2>2
<1> QED
  BY <1>1, <1>2 DEF RowConsistent

\* The status of the payment stays earned when it is not written.
LEMMA EarnedKept ==
    ASSUME WorldKept, PaymentStatusIsEarned, UNCHANGED payment PROVE PaymentStatusIsEarned'
<1>1. \A o \in Orders : Returned(o) => Returned(o)'
  <2> SUFFICES ASSUME NEW o \in Orders, NEW a \in Attempts,
                      attempt[a].order = o, attempt[a].state = "processed"
               PROVE  attempt'[a].order = o /\ attempt'[a].state = "processed"
    BY DEF Returned, AttemptsOf
  <2> QED
    BY DEF WorldKept
<1> QED
  BY <1>1 DEF PaymentStatusIsEarned

\* The permissions of a refund that opens nothing.
LEMMA BudgetKept ==
    ASSUME NEW o \in Orders, WithinBudget(o),
           AttemptsOf(o)' = AttemptsOf(o), Creators(o)' \subseteq Creators(o),
           retries[o] \in Nat, retries'[o] = retries[o], provider' = provider,
           status'[o] = status[o] \/ status'[o] \notin {"PENDING", "none"}
    PROVE  WithinBudget(o)'
<1>1. IsFiniteSet(AttemptsOf(o)) /\ Cardinality(AttemptsOf(o)) \in Nat
  <2>1. IsFiniteSet(Attempts)
    BY FS_Interval, RefundsAssumption DEF Attempts
  <2>2. AttemptsOf(o) \in SUBSET Attempts
    BY DEF AttemptsOf
  <2>3. IsFiniteSet(AttemptsOf(o))
    BY <2>1, <2>2, FS_Subset
  <2> QED
    BY <2>3, FS_CardinalityType
<1> DEFINE C == Creators(o)
           D == Creators(o)'
<1>2. /\ IsFiniteSet(C) /\ D \subseteq C
      /\ Cardinality(AttemptsOf(o)) + Cardinality(C) + Waiting(o) <= 1 + retries[o]
      /\ provider = "KLUMP" => C = {} /\ status[o] # "PENDING"
      /\ status[o] = "none" => C = {} /\ AttemptsOf(o) = {}
  BY DEF WithinBudget
<1> HIDE DEF C, D
<1>3. IsFiniteSet(D) /\ Cardinality(D) \in Nat /\ Cardinality(C) \in Nat /\ Cardinality(D) <= Cardinality(C)
  BY <1>2, FS_Subset, FS_CardinalityType
<1>4. Waiting(o) \in Nat /\ Waiting(o)' \in Nat /\ Waiting(o)' <= Waiting(o)
  BY DEF Waiting
<1>5. Cardinality(AttemptsOf(o)) + Cardinality(D) + Waiting(o)' <= 1 + retries[o]
  BY <1>1, <1>2, <1>3, <1>4
<1>6. /\ IsFiniteSet(D)
      /\ provider' = "KLUMP" => D = {} /\ status'[o] # "PENDING"
      /\ status'[o] = "none" => D = {} /\ AttemptsOf(o)' = {}
      /\ Cardinality(AttemptsOf(o)') + Cardinality(D) + Waiting(o)' <= 1 + retries'[o]
  BY <1>2, <1>3, <1>5
<1> QED
  BY <1>6 DEF WithinBudget, D

-----------------------------------------------------------------------------
\* A step of one handler that opens nothing does not raise the number of calls
\* on their way.
LEMMA CreatorsShrink ==
    ASSUME task \in [Handlers -> Task], NEW h \in Handlers, NEW STATE t, Moves(h, t),
           t.pc # "create"
    PROVE  /\ \A o \in Orders : Creators(o)' \subseteq Creators(o)
           /\ task[h].pc = "create" => \A o \in Orders : h \notin Creators(o)'
BY DEF Moves, Creators

\* The attempts of an order, when none is opened.
LEMMA AttemptsSame ==
    ASSUME UNCHANGED attempt PROVE \A o \in Orders : AttemptsOf(o)' = AttemptsOf(o)
BY DEF AttemptsOf

\* The statuses and provider ids a step may write.
RowsMove ==
    /\ status' \in [Orders -> RefundStatus \cup {"none"}]
    /\ refundId' \in [Orders -> 0..MaxAttempts]
    /\ \A o \in Orders :
          /\ status'[o] = status[o] \/ status'[o] # "SUCCEEDED" \/ Paid(attempt', o)
          /\ refundId'[o] = refundId[o]
             \/ (refundId'[o] \in Attempts /\ attempt'[refundId'[o]].order = o)

\* A step that respects the world, the rows, the handlers and the permissions
\* keeps the invariant.
LEMMA Assemble ==
    ASSUME Consistent, WorldConsistent', WorldKept, RowsMove,
           task' \in [Handlers -> Task], TasksSound',
           \A o \in Orders : WithinBudget(o)',
           provider' \in {"PAYSTACK", "KLUMP"}, events' \subseteq ProviderStatus \X Attempts,
           payment' \in {"PAID", "PARTIALLY_REFUNDED", "REFUNDED"}, PaymentStatusIsEarned',
           retries' \in [Orders -> 0..MaxRetries],
           errors' \in 0..MaxErrors, crashes' \in 0..MaxCrashes
    PROVE  Consistent'
<1>1. TypeOK'
  BY DEF TypeOK, WorldConsistent, WorldType, RowsMove
<1>2. ASSUME NEW o \in Orders PROVE RowConsistent(o)'
  <2>1. RowConsistent(o) /\ refundId[o] \in 0..MaxAttempts
    BY DEF Consistent, TypeOK
  <2> QED
    BY <2>1, RowKept DEF RowsMove
<1> QED
  BY <1>1, <1>2 DEF Consistent, WorldConsistent, TasksSound

\* The parts of the invariant that the lemmas above ask for.
LEMMA Parts ==
    ASSUME Consistent
    PROVE  /\ WorldConsistent /\ TasksSound /\ PaymentStatusIsEarned
           /\ task \in [Handlers -> Task]
           /\ \A o \in Orders : WithinBudget(o) /\ RowConsistent(o) /\ retries[o] \in Nat
           /\ UNCHANGED <<attempt, told>> => WorldKept /\ WorldConsistent'
<1>1. WorldConsistent /\ TasksSound
  BY DEF Consistent, TypeOK, WorldConsistent, WorldType, TasksSound
<1>2. \A o \in Orders : retries[o] \in Nat
  BY RefundsAssumption DEF Consistent, TypeOK
<1>3. UNCHANGED <<attempt, told>> => WorldKept /\ WorldConsistent'
  BY <1>1 DEF WorldKept, WorldConsistent, WorldType, AttemptConsistent
<1> QED
  BY <1>1, <1>2, <1>3 DEF Consistent, TypeOK

\* A step of one handler that writes no row and opens nothing.
LEMMA HandlerMoves ==
    ASSUME Consistent, NEW h \in Handlers, NEW STATE t, t \in Task, Sound(t, attempt), t.pc # "create",
           Moves(h, t), UNCHANGED <<rows, world, retries>>,
           errors' \in 0..MaxErrors, crashes' \in 0..MaxCrashes
    PROVE  Consistent'
<1>1. /\ WorldKept /\ WorldConsistent' /\ UNCHANGED attempt
      /\ UNCHANGED <<status, refundId, payment, provider, events, retries>>
  BY Parts DEF world, rows
<1>2. task' \in [Handlers -> Task] /\ TasksSound'
  BY <1>1, Parts, TaskMoves
<1>3. ASSUME NEW o \in Orders PROVE WithinBudget(o)'
  BY <1>1, Parts, CreatorsShrink, AttemptsSame, BudgetKept
<1>4. PaymentStatusIsEarned'
  BY <1>1, Parts, EarnedKept
<1>5. RowsMove
  BY <1>1 DEF RowsMove, Consistent, TypeOK
<1> QED
  BY <1>1, <1>2, <1>3, <1>4, <1>5, Assemble DEF Consistent, TypeOK

\* A step of one handler that records what it holds about order o.
LEMMA HandlerRecords ==
    ASSUME Consistent, NEW h \in Handlers, NEW STATE t, t \in Task, Sound(t, attempt), t.pc # "create",
           Moves(h, t), NEW o \in Orders,
           NEW STATE st, st \in RefundStatus \ {"PENDING"}, st = "SUCCEEDED" => Paid(attempt, o),
           status' = [status EXCEPT ![o] = st],
           NEW STATE a, a = refundId[o] \/ (a \in Attempts /\ attempt[a].order = o),
           refundId' = [refundId EXCEPT ![o] = a],
           UNCHANGED <<provider, payment, events, world, retries>>,
           errors' \in 0..MaxErrors, crashes' \in 0..MaxCrashes
    PROVE  Consistent'
<1>1. WorldKept /\ WorldConsistent' /\ UNCHANGED <<attempt, payment, provider, events, retries>>
  BY Parts DEF world
<1>2. task' \in [Handlers -> Task] /\ TasksSound'
  BY <1>1, Parts, TaskMoves
<1>3. \A k \in Orders : status'[k] = status[k] \/ status'[k] \notin {"PENDING", "none"}
  BY DEF Consistent, TypeOK, RefundStatus
<1>4. ASSUME NEW k \in Orders PROVE WithinBudget(k)'
  <2>1. Creators(k)' \subseteq Creators(k) /\ AttemptsOf(k)' = AttemptsOf(k)
    BY <1>1, Parts, CreatorsShrink, AttemptsSame
  <2> QED
    BY <1>1, <1>3, <2>1, Parts, BudgetKept
<1>5. PaymentStatusIsEarned'
  BY <1>1, Parts, EarnedKept
<1>6. RowsMove
  <2>1. a \in 0..MaxAttempts
    BY DEF Consistent, TypeOK, Attempts
  <2>2. st \in RefundStatus /\ status \in [Orders -> RefundStatus \cup {"none"}]
        /\ refundId \in [Orders -> 0..MaxAttempts]
    BY DEF Consistent, TypeOK
  <2> QED
    BY <1>1, <2>1, <2>2 DEF RowsMove
<1> QED
  BY <1>1, <1>2, <1>4, <1>5, <1>6, Assemble DEF Consistent, TypeOK

-----------------------------------------------------------------------------
\* The number of attempts and of calls on their way.
LEMMA Counts ==
    ASSUME NEW o \in Orders, WithinBudget(o)
    PROVE  /\ IsFiniteSet(AttemptsOf(o)) /\ Cardinality(AttemptsOf(o)) \in Nat
           /\ IsFiniteSet(Creators(o)) /\ Cardinality(Creators(o)) \in Nat
<1>1. IsFiniteSet(Attempts)
  BY FS_Interval, RefundsAssumption DEF Attempts
<1>2. AttemptsOf(o) \in SUBSET Attempts
  BY DEF AttemptsOf
<1>3. IsFiniteSet(AttemptsOf(o))
  BY <1>1, <1>2, FS_Subset
<1> QED
  BY <1>3, FS_CardinalityType DEF WithinBudget

\* A refund is opened, or opened again by a human: one permission more.
LEMMA OpenStep ==
    ASSUME Consistent, NEW o \in Orders, OpenRefund(o) \/ RetryRefund(o) PROVE Consistent'
<1>1. /\ WorldKept /\ WorldConsistent' /\ UNCHANGED attempt
      /\ UNCHANGED <<refundId, payment, provider, events, task, errors, crashes>>
  BY Parts DEF OpenRefund, RetryRefund, world, bounds
<1>2. task' \in [Handlers -> Task] /\ TasksSound'
  BY <1>1, Parts DEF TasksSound
<1>3. \A k \in Orders : AttemptsOf(k)' = AttemptsOf(k) /\ Creators(k)' = Creators(k)
  BY <1>1 DEF AttemptsOf, Creators
<1>4. /\ \A k \in Orders \ {o} : status'[k] = status[k] /\ retries'[k] = retries[k]
      /\ status'[o] \in {"PENDING", "MANUAL_REVIEW"}
      /\ status' \in [Orders -> RefundStatus \cup {"none"}]
      /\ retries' \in [Orders -> 0..MaxRetries]
      /\ retries'[o] \in Nat
  BY RefundsAssumption DEF OpenRefund, RetryRefund, Consistent, TypeOK, RefundStatus, bounds
<1>5. ASSUME NEW k \in Orders \ {o} PROVE WithinBudget(k)'
  BY <1>1, <1>3, <1>4, Parts, BudgetKept
<1>6. WithinBudget(o)'
  <2>1. WithinBudget(o) /\ Cardinality(AttemptsOf(o)) \in Nat /\ Cardinality(Creators(o)) \in Nat
        /\ retries[o] \in Nat
    BY Parts, Counts
  <2>2. CASE OpenRefund(o)
    <3>1. /\ status[o] = "none" /\ retries' = retries
          /\ status'[o] = IF provider = "KLUMP" THEN "MANUAL_REVIEW" ELSE "PENDING"
      BY <2>2 DEF OpenRefund, bounds, Consistent, TypeOK
    <3>2. Creators(o) = {} /\ AttemptsOf(o) = {}
      BY <2>1, <3>1 DEF WithinBudget
    <3>3. Cardinality(Creators(o)) = 0 /\ Cardinality(AttemptsOf(o)) = 0 /\ IsFiniteSet(Creators(o))
      BY <3>2, FS_EmptySet
    <3>4. Waiting(o)' \in {0, 1}
      BY DEF Waiting
    <3>5. Cardinality(AttemptsOf(o)') + Cardinality(Creators(o)') + Waiting(o)' <= 1 + retries'[o]
      BY <1>3, <2>1, <3>1, <3>3, <3>4
    <3>6. /\ IsFiniteSet(Creators(o)') /\ Creators(o)' = {} /\ AttemptsOf(o)' = {}
          /\ provider' = "KLUMP" => status'[o] # "PENDING"
      BY <1>1, <1>3, <3>1, <3>2, <3>3
    <3> QED
      BY <3>5, <3>6 DEF WithinBudget
  <2>3. CASE RetryRefund(o)
    <3>1. /\ status[o] = "FAILED" /\ provider = "PAYSTACK" /\ status'[o] = "PENDING"
          /\ retries'[o] = retries[o] + 1
      BY <2>3 DEF RetryRefund, Consistent, TypeOK
    <3>2. Waiting(o) = 0 /\ Waiting(o)' = 1
      BY <3>1 DEF Waiting
    <3> QED
      BY <1>1, <1>3, <2>1, <3>1, <3>2 DEF WithinBudget
  <2> QED
    BY <2>2, <2>3
<1>7. PaymentStatusIsEarned'
  BY <1>1, Parts, EarnedKept
<1>8. RowsMove
  BY <1>1, <1>4 DEF RowsMove, Consistent, TypeOK
<1> QED
  BY <1>1, <1>2, <1>4, <1>5, <1>6, <1>7, <1>8, Assemble DEF Consistent, TypeOK

\* The claim turns a waiting refund into a call on its way.
LEMMA ClaimStep ==
    ASSUME Consistent, NEW h \in Handlers, NEW o \in Orders, ProcessClaim(h, o) PROVE Consistent'
<1> DEFINE t == Doing("create", o, "create", 0, "none")
<1>1. /\ WorldKept /\ WorldConsistent' /\ UNCHANGED attempt
      /\ UNCHANGED <<refundId, payment, provider, events, retries, errors, crashes>>
      /\ task[h].pc = "idle" /\ provider = "PAYSTACK" /\ status[o] = "PENDING"
      /\ status' = [status EXCEPT ![o] = "PROCESSING"]
      /\ Moves(h, t)
  BY Parts DEF ProcessClaim, Claimable, world, bounds
<1>2. t \in Task /\ t.pc = "create" /\ t.order = o
  <2>1. 0 \in 0..MaxAttempts
    BY RefundsAssumption
  <2> QED
    BY <2>1, DoingType DEF Doing
<1>3. task' \in [Handlers -> Task] /\ TasksSound'
  <2>1. Sound(t, attempt')
    BY <1>2 DEF Sound
  <2> HIDE DEF t
  <2> QED
    BY <1>1, <1>2, <2>1, Parts, TaskMoves
<1>4. /\ \A k \in Orders : AttemptsOf(k)' = AttemptsOf(k)
      /\ \A k \in Orders \ {o} : Creators(k)' = Creators(k)
      /\ h \notin Creators(o) /\ Creators(o)' = Creators(o) \cup {h}
  <2> HIDE DEF t
  <2> QED
    BY <1>1, <1>2, Parts DEF AttemptsOf, Creators, Moves
<1>5. ASSUME NEW k \in Orders \ {o} PROVE WithinBudget(k)'
  <2>1. status'[k] = status[k]
    BY <1>1 DEF Consistent, TypeOK
  <2> QED
    BY <1>1, <1>4, <2>1, Parts, BudgetKept
<1>6. WithinBudget(o)'
  <2>1. /\ WithinBudget(o) /\ Cardinality(AttemptsOf(o)) \in Nat
        /\ IsFiniteSet(Creators(o)) /\ Cardinality(Creators(o)) \in Nat
        /\ retries[o] \in Nat
    BY Parts, Counts
  <2>2. status'[o] = "PROCESSING" /\ Waiting(o) = 1 /\ Waiting(o)' = 0
    BY <1>1 DEF Waiting, Consistent, TypeOK
  <2>3. IsFiniteSet(Creators(o)') /\ Cardinality(Creators(o)') = Cardinality(Creators(o)) + 1
    BY <1>4, <2>1, FS_AddElement
  <2> QED
    BY <1>1, <1>4, <2>1, <2>2, <2>3 DEF WithinBudget
<1>7. PaymentStatusIsEarned'
  BY <1>1, Parts, EarnedKept
<1>8. RowsMove
  BY <1>1 DEF RowsMove, Consistent, TypeOK, RefundStatus
<1> QED
  BY <1>1, <1>3, <1>5, <1>6, <1>7, <1>8, Assemble DEF Consistent, TypeOK

\* An unused attempt becomes one of order o.
LEMMA AttemptOpens ==
    ASSUME Consistent, NEW o \in Orders, NEW a \in Unused, NEW state \in ProviderStatus,
           SetState(a, o, state)
    PROVE  /\ a \in Attempts /\ WorldKept /\ WorldConsistent'
           /\ attempt'[a].order = o /\ attempt'[a].state = state
           /\ \A k \in Orders \ {o} : AttemptsOf(k)' = AttemptsOf(k)
           /\ WithinBudget(o) => /\ Cardinality(AttemptsOf(o)') = Cardinality(AttemptsOf(o)) + 1
<1>1. a \in Attempts /\ attempt[a].order = NoOrder /\ attempt[a].state = "none"
  BY DEF Unused, Consistent, AttemptConsistent
<1>2. /\ WorldConsistent' /\ WorldKept
      /\ attempt'[a].order = o /\ attempt'[a].state = state
      /\ \A b \in Attempts \ {a} : attempt'[b] = attempt[b]
  BY <1>1, Parts, SetStateKeeps
<1>3. /\ a \notin AttemptsOf(o) /\ AttemptsOf(o)' = AttemptsOf(o) \cup {a}
      /\ \A k \in Orders \ {o} : AttemptsOf(k)' = AttemptsOf(k)
  BY <1>1, <1>2, RefundsAssumption DEF AttemptsOf
<1>4. WithinBudget(o) => Cardinality(AttemptsOf(o)') = Cardinality(AttemptsOf(o)) + 1
  BY <1>3, Counts, FS_AddElement
<1> QED
  BY <1>1, <1>2, <1>3, <1>4

\* A call on its way becomes an attempt, whether or not its answer arrives.
LEMMA CallBudget ==
    ASSUME Consistent, NEW h \in Handlers, task[h].pc = "create",
           NEW o \in Orders, o = task[h].order,
           NEW a \in Unused, NEW state \in ProviderStatus, SetState(a, o, state),
           NEW STATE t, Moves(h, t), t.pc # "create",
           UNCHANGED <<provider, retries>>,
           \A k \in Orders : status'[k] = status[k] \/ status'[k] \notin {"PENDING", "none"}
    PROVE  \A k \in Orders : WithinBudget(k)'
<1>1. ASSUME NEW k \in Orders, k # o PROVE WithinBudget(k)'
  <2>1. AttemptsOf(k)' = AttemptsOf(k) /\ Creators(k)' \subseteq Creators(k)
    BY <1>1, AttemptOpens, CreatorsShrink, Parts
  <2> QED
    BY <2>1, BudgetKept, Parts
<1>2. WithinBudget(o)'
  <2>1. /\ WithinBudget(o) /\ Cardinality(AttemptsOf(o)) \in Nat
        /\ IsFiniteSet(Creators(o)) /\ Cardinality(Creators(o)) \in Nat
        /\ retries[o] \in Nat
    BY Parts, Counts
  <2>2. Cardinality(AttemptsOf(o)') = Cardinality(AttemptsOf(o)) + 1
    BY <2>1, AttemptOpens
  <2>3. h \in Creators(o) /\ Creators(o)' = Creators(o) \ {h}
    BY Parts DEF Creators, Moves
  <2>4. IsFiniteSet(Creators(o)') /\ Cardinality(Creators(o)') = Cardinality(Creators(o)) - 1
    BY <2>1, <2>3, FS_RemoveElement
  <2>5. provider # "KLUMP" /\ status[o] # "none"
    BY <2>1, <2>3 DEF WithinBudget
  <2>6. Waiting(o) \in Nat /\ Waiting(o)' \in Nat /\ Waiting(o)' <= Waiting(o)
    BY DEF Waiting
  <2>7. Cardinality(AttemptsOf(o)) + Cardinality(Creators(o)) + Waiting(o) <= 1 + retries[o]
    BY <2>1 DEF WithinBudget
  <2>8. Cardinality(AttemptsOf(o)') + Cardinality(Creators(o)') + Waiting(o)' <= 1 + retries'[o]
    BY <2>1, <2>2, <2>4, <2>6, <2>7
  <2>9. status'[o] # "none" /\ provider' # "KLUMP"
    BY <2>5
  <2> QED
    BY <2>4, <2>8, <2>9 DEF WithinBudget
<1> QED
  BY <1>1, <1>2

-----------------------------------------------------------------------------
\* A handler that is busy holds an order, and after its call an attempt of it.
LEMMA Holding ==
    ASSUME Consistent, NEW h \in Handlers, task[h].pc # "idle"
    PROVE  /\ task[h] \in Task /\ task[h].order \in Orders /\ Sound(task[h], attempt)
           /\ task[h].pc # "create" =>
                task[h].id \in Attempts /\ attempt[task[h].id].order = task[h].order
BY DEF Consistent, TypeOK, Sound

\* An attempt that was processed returned the money of its order.
LEMMA PaidBy ==
    ASSUME NEW a \in Attempts, attempt[a].state = "processed"
    PROVE  Paid(attempt, attempt[a].order)
BY DEF Paid

\* A handler that only has its pc changed to one that asks for no more.
LEMMA NotifyingSound ==
    ASSUME NEW STATE t, t \in Task, Sound(t, attempt), t.pc \notin {"idle", "create"}
    PROVE  /\ Notifying(t) \in Task /\ Sound(Notifying(t), attempt) /\ Notifying(t).pc # "create"
<1>1. CASE t.by \in {"create", "webhook"}
  <2>1. Notifying(t) = [t EXCEPT !.pc = "notify"]
    BY <1>1 DEF Notifying
  <2> DEFINE u == [t EXCEPT !.pc = "notify"]
  <2>2. u \in Task /\ u.pc = "notify" /\ u.order = t.order /\ u.id = t.id
    BY DEF Task
  <2>3. t.order \in Orders /\ t.id \in Attempts /\ attempt[t.id].order = t.order
    BY DEF Sound
  <2> HIDE DEF u
  <2>4. Sound(u, attempt)
    BY <2>2, <2>3 DEF Sound
  <2> QED
    BY <2>1, <2>2, <2>4 DEF u
<1>2. CASE t.by \notin {"create", "webhook"}
  BY <1>2, IdleSound DEF Notifying, Sound
<1> QED
  BY <1>1, <1>2

\* A success goes on to the payment.
LEMMA SyncSound ==
    ASSUME NEW STATE t, t \in Task, Sound(t, attempt), t.answer = "processed",
           t.pc \in {"save", "fetched", "apply", "manual"}
    PROVE  /\ [t EXCEPT !.pc = "sync"] \in Task /\ Sound([t EXCEPT !.pc = "sync"], attempt)
           /\ [t EXCEPT !.pc = "sync"].pc # "create"
<1> DEFINE u == [t EXCEPT !.pc = "sync"]
<1>1. u \in Task /\ u.pc = "sync" /\ u.order = t.order /\ u.id = t.id /\ u.answer = t.answer
  BY DEF Task
<1>2. /\ t.order \in Orders /\ t.id \in Attempts /\ attempt[t.id].order = t.order
      /\ attempt[t.id].state = "processed"
  BY DEF Sound
<1> HIDE DEF u
<1>3. Sound(u, attempt)
  BY <1>1, <1>2 DEF Sound
<1> QED
  BY <1>1, <1>3 DEF u

\* What is recorded is a status of the table, and never that of a waiting refund.
LEMMA RecordedStatus ==
    \A state : /\ RefundStatusOf(state) \in RefundStatus \ {"PENDING"}
               /\ RefundStatusOf(state) = "SUCCEEDED" => state = "processed"
BY DEF RefundStatusOf, RefundStatus

\* The answer of createRefund, a webhook or the superadmin is recorded.
LEMMA RecordStep ==
    ASSUME Consistent, NEW h \in Handlers, task[h].pc \in {"save", "apply", "manual"},
           Record(h, task[h].order, task[h].id, task[h].answer),
           UNCHANGED <<provider, payment, world, events, bounds>>
    PROVE  Consistent'
<1> DEFINE t == IF task[h].answer = "processed" THEN [task[h] EXCEPT !.pc = "sync"]
                                                ELSE Notifying(task[h])
           st == RefundStatusOf(task[h].answer)
<1>1. /\ task[h] \in Task /\ task[h].order \in Orders /\ Sound(task[h], attempt)
      /\ task[h].id \in Attempts /\ attempt[task[h].id].order = task[h].order
  BY Holding
<1>2. t \in Task /\ Sound(t, attempt) /\ t.pc # "create"
  <2>1. CASE task[h].answer = "processed"
    BY <2>1, <1>1, SyncSound
  <2>2. CASE task[h].answer # "processed"
    BY <2>2, <1>1, NotifyingSound
  <2> QED
    BY <2>1, <2>2
<1>3. Moves(h, t) /\ status' = [status EXCEPT ![task[h].order] = st]
      /\ refundId' = [refundId EXCEPT ![task[h].order] = task[h].id]
  BY DEF Record
<1>4. st \in RefundStatus \ {"PENDING"}
  BY RecordedStatus
<1>5. st = "SUCCEEDED" => Paid(attempt, task[h].order)
  <2>1. st = "SUCCEEDED" => task[h].answer = "processed"
    BY RecordedStatus
  <2>2. task[h].answer = "processed" => attempt[task[h].id].state = "processed"
    BY <1>1 DEF Sound
  <2> QED
    BY <1>1, <2>1, <2>2, PaidBy
<1>6. errors' \in 0..MaxErrors /\ crashes' \in 0..MaxCrashes /\ UNCHANGED retries
  BY DEF Consistent, TypeOK, bounds
<1> HIDE DEF t, st
<1> QED
  BY <1>1, <1>2, <1>3, <1>4, <1>5, <1>6, HandlerRecords

\* The answer of a poll is recorded; the refund keeps its provider id.
LEMMA FetchedStep ==
    ASSUME Consistent, NEW h \in Handlers, SaveFetched(h) PROVE Consistent'
<1> DEFINE t == IF task[h].answer = "processed" THEN [task[h] EXCEPT !.pc = "sync"] ELSE Idle
           st == RefundStatusOf(task[h].answer)
           o == task[h].order
<1>1. /\ task[h] \in Task /\ task[h].order \in Orders /\ Sound(task[h], attempt)
      /\ task[h].id \in Attempts /\ attempt[task[h].id].order = task[h].order
      /\ task[h].pc = "fetched"
  BY Holding DEF SaveFetched
<1>2. t \in Task /\ Sound(t, attempt) /\ t.pc # "create"
  <2>1. CASE task[h].answer = "processed"
    BY <2>1, <1>1, SyncSound
  <2>2. CASE task[h].answer # "processed"
    BY <2>2, IdleSound DEF Sound
  <2> QED
    BY <2>1, <2>2
<1>3. Moves(h, t) /\ status' = [status EXCEPT ![o] = st]
      /\ refundId' = [refundId EXCEPT ![o] = refundId[o]]
  BY DEF SaveFetched, Consistent, TypeOK
<1>4. st \in RefundStatus \ {"PENDING"}
  BY RecordedStatus
<1>5. st = "SUCCEEDED" => Paid(attempt, o)
  <2>1. st = "SUCCEEDED" => task[h].answer = "processed"
    BY RecordedStatus
  <2>2. task[h].answer = "processed" => attempt[task[h].id].state = "processed"
    BY <1>1 DEF Sound
  <2> QED
    BY <1>1, <2>1, <2>2, PaidBy
<1>6. /\ errors' \in 0..MaxErrors /\ crashes' \in 0..MaxCrashes
      /\ UNCHANGED <<provider, payment, events, world, retries>>
  BY DEF Consistent, TypeOK, bounds, SaveFetched
<1>7. o \in Orders
  BY <1>1
<1> DEFINE a == refundId[o]
<1>8. a = refundId[o]
  OBVIOUS
<1> HIDE DEF t, st, o
<1> QED
  BY <1>2, <1>3, <1>4, <1>5, <1>6, <1>7, HandlerRecords

\* A handler ends with a status that is neither a success nor a claim.
LEMMA EndStep ==
    ASSUME Consistent, NEW h \in Handlers, task[h].pc # "idle", Moves(h, Idle),
           NEW STATE st, st \in {"FAILED", "PROCESSING"},
           status' = [status EXCEPT ![task[h].order] = st],
           UNCHANGED <<provider, refundId, payment, events, world, retries>>,
           errors' \in 0..MaxErrors, crashes' \in 0..MaxCrashes
    PROVE  Consistent'
<1> DEFINE o == task[h].order
<1>1. o \in Orders
  BY Holding
<1>2. refundId' = [refundId EXCEPT ![o] = refundId[o]]
  BY DEF Consistent, TypeOK
<1>3. Idle \in Task /\ Sound(Idle, attempt) /\ Idle.pc # "create"
  BY IdleSound DEF Sound
<1>4. st \in RefundStatus \ {"PENDING"} /\ st # "SUCCEEDED" /\ status' = [status EXCEPT ![o] = st]
  BY DEF RefundStatus
<1> HIDE DEF o
<1> QED
  BY <1>1, <1>2, <1>3, <1>4, HandlerRecords

-----------------------------------------------------------------------------
\* A new attempt of the call of h.
LEMMA CallStep ==
    ASSUME Consistent, NEW h \in Handlers, task[h].pc = "create",
           NEW a \in Unused, NEW state \in ProviderStatus, SetState(a, task[h].order, state),
           NEW STATE t, t \in Task, t.pc # "create", Moves(h, t), Sound(t, attempt'),
           UNCHANGED <<provider, refundId, payment, events, retries>>,
           status' = status \/ status' = [status EXCEPT ![task[h].order] = "FAILED"],
           errors' \in 0..MaxErrors, crashes' \in 0..MaxCrashes
    PROVE  Consistent'
<1> DEFINE o == task[h].order
<1>1. o \in Orders
  BY Holding
<1>2. WorldKept /\ WorldConsistent'
  BY <1>1, AttemptOpens
<1>3. task' \in [Handlers -> Task] /\ TasksSound'
  BY <1>2, Parts, TaskMoves
<1>4. /\ \A k \in Orders : status'[k] = status[k] \/ status'[k] = "FAILED"
      /\ status' \in [Orders -> RefundStatus \cup {"none"}]
  BY <1>1 DEF Consistent, TypeOK, RefundStatus
<1>5. \A k \in Orders : WithinBudget(k)'
  <2>1. \A k \in Orders : status'[k] = status[k] \/ status'[k] \notin {"PENDING", "none"}
    BY <1>4
  <2>2. o = task[h].order /\ SetState(a, o, state)
    OBVIOUS
  <2> HIDE DEF o
  <2> QED
    BY <1>1, <2>1, <2>2, CallBudget
<1>6. PaymentStatusIsEarned'
  BY <1>2, Parts, EarnedKept
<1>7. RowsMove
  BY <1>4 DEF RowsMove, Consistent, TypeOK
<1> QED
  BY <1>2, <1>3, <1>5, <1>6, <1>7, Assemble DEF Consistent, TypeOK

\* createRefund answers.
LEMMA CreateStep ==
    ASSUME Consistent, NEW h \in Handlers, CreateRefund(h) PROVE Consistent'
<1> DEFINE o == task[h].order
<1>1. PICK a \in Unused, state \in {"processing", "processed", "needs-attention"} :
         SetState(a, o, state) /\ Moves(h, Doing("save", o, "create", a, state))
  BY DEF CreateRefund
<1>2. /\ task[h].pc = "create" /\ o \in Orders
      /\ UNCHANGED <<status, provider, refundId, payment, events, retries, errors, crashes>>
  BY Holding DEF CreateRefund, rows, bounds
<1>3. state \in ProviderStatus
  BY DEF ProviderStatus
<1>4. a \in Attempts /\ attempt'[a].order = o /\ attempt'[a].state = state
  BY <1>1, <1>2, <1>3, AttemptOpens
<1> DEFINE t == Doing("save", o, "create", a, state)
<1>5. t \in Task
  BY <1>2, <1>3, <1>4, RefundsAssumption, DoingType DEF Attempts
<1>6. t.pc = "save" /\ t.order = o /\ t.id = a /\ t.answer = state
  BY DEF Doing
<1>7. Moves(h, t)
  BY <1>1
<1> HIDE DEF t
<1>8. Sound(t, attempt')
  BY <1>2, <1>4, <1>6 DEF Sound
<1>9. errors' \in 0..MaxErrors /\ crashes' \in 0..MaxCrashes
  BY <1>2 DEF Consistent, TypeOK
<1> QED
  BY <1>1, <1>2, <1>3, <1>5, <1>6, <1>7, <1>8, <1>9, CallStep

\* The catch branch, with or without an attempt nobody heard of.
LEMMA ProcessFailedStep ==
    ASSUME Consistent, NEW h \in Handlers, ProcessFailed(h) PROVE Consistent'
<1> DEFINE o == task[h].order
<1>1. /\ task[h].pc # "idle" /\ Moves(h, Idle) /\ status' = [status EXCEPT ![o] = "FAILED"]
      /\ UNCHANGED <<provider, refundId, payment, events, retries, crashes>>
  BY DEF ProcessFailed
<1>2. errors' \in 0..MaxErrors /\ crashes' \in 0..MaxCrashes
  BY RefundsAssumption DEF ProcessFailed, Consistent, TypeOK
<1>3. CASE UNCHANGED world
  BY <1>1, <1>2, <1>3, EndStep
<1>4. CASE task[h].pc = "create" /\ \E a \in Unused : SetState(a, o, "processing")
  <2>1. PICK a \in Unused : SetState(a, o, "processing")
    BY <1>4
  <2>2. Idle \in Task /\ Sound(Idle, attempt') /\ Idle.pc # "create" /\ "processing" \in ProviderStatus
    BY IdleSound DEF Sound, ProviderStatus
  <2> QED
    BY <1>1, <1>2, <1>4, <2>1, <2>2, CallStep
<1> QED
  BY <1>3, <1>4 DEF ProcessFailed

-----------------------------------------------------------------------------
\* A step of the provider alone.
LEMMA ProviderStep ==
    ASSUME Consistent, WorldConsistent', WorldKept, UNCHANGED <<rows, task, bounds>>,
           \A o \in Orders : WithinBudget(o)'
    PROVE  Consistent'
<1>1. UNCHANGED <<status, refundId, payment, provider, events, task, retries, errors, crashes>>
  BY DEF rows, bounds
<1>2. task' \in [Handlers -> Task] /\ TasksSound'
  <2>1. \A h \in Handlers : Sound(task[h], attempt')
    BY Parts, SoundKept DEF TasksSound
  <2> QED
    BY <1>1, <2>1, Parts DEF TasksSound
<1>3. PaymentStatusIsEarned'
  BY <1>1, Parts, EarnedKept
<1>4. RowsMove
  BY <1>1 DEF RowsMove, Consistent, TypeOK
<1> QED
  BY <1>1, <1>2, <1>3, <1>4, Assemble DEF Consistent, TypeOK

\* A refund in progress ends, or waits for bank details.
LEMMA ProviderMovesStep ==
    ASSUME Consistent, NEW a \in Attempts, NEW state \in {"processed", "failed", "needs-attention"},
           ProviderMoves(a, state)
    PROVE  Consistent'
<1> DEFINE o == attempt[a].order
<1>1. attempt[a].state = "processing" /\ SetState(a, o, state) /\ UNCHANGED <<rows, task, bounds>>
  BY DEF ProviderMoves
<1>2. o \in Orders
  BY <1>1 DEF Consistent, TypeOK, AttemptConsistent
<1>3. state \in ProviderStatus
  BY DEF ProviderStatus
<1>4. /\ WorldConsistent' /\ WorldKept /\ attempt'[a].order = o
      /\ \A b \in Attempts \ {a} : attempt'[b] = attempt[b]
  BY <1>1, <1>2, <1>3, Parts, SetStateKeeps
<1>5. \A k \in Orders : AttemptsOf(k)' = AttemptsOf(k) /\ Creators(k)' = Creators(k)
  BY <1>1, <1>4 DEF AttemptsOf, Creators
<1>6. ASSUME NEW k \in Orders PROVE WithinBudget(k)'
  <2>1. UNCHANGED <<status, provider, retries>>
    BY <1>1 DEF rows, bounds
  <2> QED
    BY <1>5, <2>1, Parts, BudgetKept
<1> QED
  BY <1>1, <1>4, <1>6, ProviderStep

\* Staff refund a customer by hand, once for each order.
LEMMA KlumpStep ==
    ASSUME Consistent, NEW o \in Orders, KlumpDashboard(o) PROVE Consistent'
<1>1. PICK a \in Unused : SetState(a, o, "processed")
  BY DEF KlumpDashboard
<1>2. /\ provider = "KLUMP" /\ status[o] = "MANUAL_REVIEW" /\ AttemptsOf(o) = {}
      /\ UNCHANGED <<rows, task, bounds>>
      /\ UNCHANGED <<status, provider, retries>>
  BY DEF KlumpDashboard, rows, bounds
<1>3. "processed" \in ProviderStatus
  BY DEF ProviderStatus
<1>4. /\ WorldConsistent' /\ WorldKept
      /\ \A k \in Orders \ {o} : AttemptsOf(k)' = AttemptsOf(k)
      /\ WithinBudget(o) => Cardinality(AttemptsOf(o)') = Cardinality(AttemptsOf(o)) + 1
  BY <1>1, <1>3, AttemptOpens
<1>5. \A k \in Orders : Creators(k)' = Creators(k)
  BY <1>2 DEF Creators
<1>6. ASSUME NEW k \in Orders, k # o PROVE WithinBudget(k)'
  BY <1>2, <1>4, <1>5, <1>6, Parts, BudgetKept
<1>7. WithinBudget(o)'
  <2>1. WithinBudget(o) /\ retries[o] \in Nat
    BY Parts
  <2>2. Creators(o) = {} /\ IsFiniteSet(Creators(o))
    BY <1>2, <2>1 DEF WithinBudget
  <2>3. Cardinality(Creators(o)') = 0 /\ Cardinality(AttemptsOf(o)) = 0
    BY <1>2, <1>5, <2>2, FS_EmptySet
  <2>4. Waiting(o)' = 0 /\ Cardinality(AttemptsOf(o)') = 1
    BY <1>2, <1>4, <2>1, <2>3 DEF Waiting
  <2>5. Cardinality(AttemptsOf(o)') + Cardinality(Creators(o)') + Waiting(o)' <= 1 + retries'[o]
    BY <1>2, <2>1, <2>3, <2>4
  <2>6. /\ IsFiniteSet(Creators(o)') /\ Creators(o)' = {}
        /\ status'[o] = "MANUAL_REVIEW"
    BY <1>2, <1>5, <2>2
  <2> QED
    BY <2>5, <2>6 DEF WithinBudget
<1> QED
  BY <1>2, <1>4, <1>6, <1>7, ProviderStep

\* Bank details put a refund that waits for them back in progress.
LEMMA ResolveStep ==
    ASSUME Consistent, NEW h \in Handlers, NEW o \in Orders, ResolveRefundAttention(h, o) PROVE Consistent'
<1> DEFINE a == refundId[o]
           t == Doing("resolve", o, "resolve", a, "processing")
<1>1. /\ a # 0 /\ attempt[a].state = "needs-attention" /\ SetState(a, o, "processing")
      /\ Moves(h, t) /\ UNCHANGED <<rows, bounds>>
      /\ UNCHANGED <<status, refundId, payment, provider, events, retries, errors, crashes>>
  BY DEF ResolveRefundAttention, rows, bounds
<1>2. a \in Attempts /\ attempt[a].order = o
  BY <1>1, RefundsAssumption DEF Consistent, TypeOK, RowConsistent, Attempts
<1>3. "processing" \in ProviderStatus
  BY DEF ProviderStatus
<1> HIDE DEF a
<1>4. /\ WorldConsistent' /\ WorldKept /\ attempt'[a].order = o
      /\ \A b \in Attempts \ {a} : attempt'[b] = attempt[b]
  BY <1>1, <1>2, <1>3, Parts, SetStateKeeps
<1>5. t \in Task /\ t.pc = "resolve" /\ t.order = o /\ t.id = a
  <2>1. a \in 0..MaxAttempts
    BY <1>2, RefundsAssumption DEF Attempts
  <2>2. t \in Task
    BY <1>3, <2>1, DoingType
  <2> QED
    BY <2>2 DEF Doing
<1> HIDE DEF t
<1>6. Sound(t, attempt') /\ t.pc # "create"
  BY <1>2, <1>4, <1>5 DEF Sound
<1>7. task' \in [Handlers -> Task] /\ TasksSound'
  BY <1>1, <1>4, <1>5, <1>6, Parts, TaskMoves
<1>8. ASSUME NEW k \in Orders PROVE WithinBudget(k)'
  <2>1. AttemptsOf(k)' = AttemptsOf(k)
    BY <1>2, <1>4 DEF AttemptsOf
  <2>2. Creators(k)' \subseteq Creators(k)
    BY <1>1, <1>6, Parts, CreatorsShrink
  <2> QED
    BY <1>1, <2>1, <2>2, Parts, BudgetKept
<1>9. PaymentStatusIsEarned'
  BY <1>1, <1>4, Parts, EarnedKept
<1>10. RowsMove
  BY <1>1 DEF RowsMove, Consistent, TypeOK
<1> QED
  BY <1>1, <1>4, <1>7, <1>8, <1>9, <1>10, Assemble DEF Consistent, TypeOK

-----------------------------------------------------------------------------
\* Handlers that start, give up or crash.
LEMMA StartStep ==
    ASSUME Consistent, NEW h \in Handlers,
           NEW pc \in {"fetched", "apply", "manual"},
           NEW by \in {"none", "create", "fetch", "webhook", "resolve", "manual"},
           NEW a \in Attempts, attempt[a].order \in Orders,
           NEW answer \in ProviderStatus \cup {"none"},
           answer = "processed" => attempt[a].state = "processed",
           pc = "manual" => answer = "processed",
           Moves(h, Doing(pc, attempt[a].order, by, a, answer)), UNCHANGED <<rows, world, bounds>>
    PROVE  Consistent'
<1> DEFINE t == Doing(pc, attempt[a].order, by, a, answer)
<1>1. a \in 0..MaxAttempts
  BY RefundsAssumption DEF Attempts
<1>2. t \in Task
  BY <1>1, DoingType
<1>3. t.pc = pc /\ t.order = attempt[a].order /\ t.id = a /\ t.answer = answer
  BY DEF Doing
<1>4. Moves(h, t)
  OBVIOUS
<1> HIDE DEF t
<1>5. Sound(t, attempt) /\ t.pc # "create"
  BY <1>3 DEF Sound
<1>6. errors' \in 0..MaxErrors /\ crashes' \in 0..MaxCrashes /\ UNCHANGED retries
  BY DEF Consistent, TypeOK, bounds
<1> QED
  BY <1>2, <1>4, <1>5, <1>6, HandlerMoves

\* A poll reads the attempt its row names.
LEMMA FetchStep ==
    ASSUME Consistent, NEW h \in Handlers, NEW o \in Orders, FetchRefund(h, o) PROVE Consistent'
<1> DEFINE a == refundId[o]
<1>1. /\ a # 0 /\ UNCHANGED <<rows, world, bounds>>
      /\ Moves(h, Doing("fetched", o, "fetch", a, attempt[a].state))
  BY DEF FetchRefund
<1>2. a \in Attempts /\ attempt[a].order = o
  BY <1>1, RefundsAssumption DEF Consistent, TypeOK, RowConsistent, Attempts
<1> HIDE DEF a
<1>3. attempt[a].state \in ProviderStatus \cup {"none"}
  BY <1>2 DEF Consistent, TypeOK
<1> QED
  BY <1>1, <1>2, <1>3, StartStep

\* A webhook is about an attempt that was opened, in a state it had.
LEMMA ReceiveStep ==
    ASSUME Consistent, NEW h \in Handlers, NEW a \in Attempts, NEW state \in ProviderStatus,
           ReceiveWebhook(h, a, state)
    PROVE  Consistent'
<1>1. /\ state \in told[a] /\ UNCHANGED <<rows, world, bounds>>
      /\ Moves(h, Doing("apply", attempt[a].order, "webhook", a, state))
  BY DEF ReceiveWebhook
<1>2. attempt[a].order \in Orders /\ (state = "processed" => attempt[a].state = "processed")
  BY <1>1 DEF Consistent, TypeOK, AttemptConsistent
<1> QED
  BY <1>1, <1>2, StartStep

\* The superadmin records a refund made by hand, which returned the money.
LEMMA ManualStep ==
    ASSUME IInv, NEW h \in Handlers, NEW o \in Orders, CompleteManualRefund(h, o)
    PROVE  Consistent'
<1>1. PICK a \in AttemptsOf(o) : Moves(h, Doing("manual", o, "manual", a, "processed"))
  BY DEF CompleteManualRefund
<1>2. provider = "KLUMP" /\ UNCHANGED <<rows, world, bounds>> /\ Consistent
  BY DEF CompleteManualRefund, IInv
<1>3. a \in Attempts /\ attempt[a].order = o /\ attempt[a].state = "processed"
  BY <1>2, RefundsAssumption DEF IInv, KlumpIsProcessed, AttemptsOf
<1>4. "processed" \in ProviderStatus
  BY DEF ProviderStatus
<1> QED
  BY <1>1, <1>2, <1>3, <1>4, StartStep

\* Every order is refunded when the sum of the succeeded refunds is the amount.
LEMMA AllRefunded ==
    ASSUME Consistent, RefundedAmount >= Cardinality(Orders)
    PROVE  \A o \in Orders : Paid(attempt, o)
<1> DEFINE S == {o \in Orders : status[o] = "SUCCEEDED"}
<1>1. Cardinality(S) >= Cardinality(Orders)
  BY DEF RefundedAmount
<1>2. S \subseteq Orders /\ IsFiniteSet(Orders)
  BY RefundsAssumption
<1>3. S = Orders
  <2> HIDE DEF S
  <2>1. Cardinality(S) <= Cardinality(Orders) /\ Cardinality(S) \in Nat /\ Cardinality(Orders) \in Nat
    BY <1>2, FS_Subset, FS_CardinalityType
  <2>2. Cardinality(S) = Cardinality(Orders)
    BY <1>1, <2>1
  <2> QED
    BY <1>2, <2>2, FS_Subset
<1> QED
  BY <1>3 DEF Consistent, RowConsistent

\* The sum is read.
LEMMA SyncReadStep ==
    ASSUME Consistent, NEW h \in Handlers, SyncRead(h) PROVE Consistent'
<1> DEFINE ans == IF RefundedAmount >= Cardinality(Orders) THEN "REFUNDED" ELSE "PARTIALLY_REFUNDED"
           t == [task[h] EXCEPT !.pc = "synced", !.answer = ans]
<1>1. task[h].pc = "sync" /\ Moves(h, t) /\ UNCHANGED <<rows, world, bounds>>
  BY DEF SyncRead
<1>2. ans \in {"REFUNDED", "PARTIALLY_REFUNDED"} /\ (ans = "REFUNDED" => \A o \in Orders : Paid(attempt, o))
  BY AllRefunded
<1> HIDE DEF ans
<1>3. /\ task[h] \in Task /\ task[h].order \in Orders /\ Sound(task[h], attempt)
      /\ task[h].id \in Attempts /\ attempt[task[h].id].order = task[h].order
  BY <1>1, Holding
<1>4. attempt[task[h].id].state = "processed"
  BY <1>1, <1>3 DEF Sound
<1>5. t \in Task /\ t.pc = "synced" /\ t.order = task[h].order /\ t.id = task[h].id /\ t.answer = ans
  BY <1>2, <1>3 DEF Task
<1> HIDE DEF t
<1>6. Sound(t, attempt) /\ t.pc # "create"
  BY <1>2, <1>3, <1>4, <1>5 DEF Sound
<1>7. errors' \in 0..MaxErrors /\ crashes' \in 0..MaxCrashes /\ UNCHANGED retries
  BY <1>1 DEF Consistent, TypeOK, bounds
<1> QED
  BY <1>1, <1>5, <1>6, <1>7, HandlerMoves

\* The payment is written with what was read: money does not go back, so what
\* was true then still is.
LEMMA SyncWriteStep ==
    ASSUME Consistent, NEW h \in Handlers, SyncWrite(h) PROVE Consistent'
<1>1. /\ task[h].pc = "synced" /\ payment' = task[h].answer /\ Moves(h, Notifying(task[h]))
      /\ UNCHANGED <<status, refundId, provider, events, attempt, told, retries, errors, crashes>>
  BY DEF SyncWrite, world, bounds
<1>2. /\ task[h] \in Task /\ task[h].order \in Orders /\ Sound(task[h], attempt)
      /\ task[h].id \in Attempts /\ attempt[task[h].id].order = task[h].order
  BY <1>1, Holding
<1>3. WorldKept /\ WorldConsistent'
  BY <1>1, Parts
<1> DEFINE t == Notifying(task[h])
<1>4. t \in Task /\ Sound(t, attempt) /\ t.pc # "create" /\ Moves(h, t)
  BY <1>1, <1>2, NotifyingSound
<1> HIDE DEF t
<1>5. task' \in [Handlers -> Task] /\ TasksSound'
  BY <1>1, <1>3, <1>4, Parts, TaskMoves
<1>6. ASSUME NEW o \in Orders PROVE WithinBudget(o)'
  BY <1>1, <1>4, Parts, CreatorsShrink, AttemptsSame, BudgetKept
<1>7. /\ task[h].answer \in {"REFUNDED", "PARTIALLY_REFUNDED"}
      /\ attempt[task[h].id].state = "processed"
      /\ task[h].answer = "REFUNDED" => \A o \in Orders : Paid(attempt, o)
  BY <1>1, <1>2 DEF Sound
<1>8. PaymentStatusIsEarned'
  <2>1. \A o \in Orders : Paid(attempt, o) => Returned(o)
    BY DEF Paid, Returned, AttemptsOf
  <2>2. Returned(task[h].order)
    BY <1>2, <1>7 DEF Returned, AttemptsOf
  <2>3. \A o \in Orders : Returned(o)' <=> Returned(o)
    BY <1>1 DEF Returned, AttemptsOf
  <2> QED
    BY <1>1, <1>2, <1>7, <2>1, <2>2, <2>3 DEF PaymentStatusIsEarned
<1>9. RowsMove
  BY <1>1 DEF RowsMove, Consistent, TypeOK
<1> QED
  BY <1>1, <1>3, <1>5, <1>6, <1>7, <1>8, <1>9, Assemble DEF Consistent, TypeOK

\* The event is marked when everything else is done.
LEMMA NotifyStep ==
    ASSUME Consistent, NEW h \in Handlers, Notify(h) PROVE Consistent'
<1>1. /\ task[h].pc = "notify" /\ Moves(h, Idle)
      /\ UNCHANGED <<status, refundId, provider, payment, attempt, told, retries, errors, crashes>>
      /\ events' = events \/ events' = events \cup {Event(h)}
  BY DEF Notify, world, bounds
<1>2. task[h].id \in Attempts
  BY <1>1, Holding
<1>3. Event(h) \in ProviderStatus \X Attempts
  BY <1>2 DEF Event, ProviderStatus
<1>4. WorldKept /\ WorldConsistent'
  BY <1>1, Parts
<1>5. Idle \in Task /\ Sound(Idle, attempt') /\ Idle.pc # "create"
  BY IdleSound DEF Sound
<1>6. task' \in [Handlers -> Task] /\ TasksSound'
  BY <1>1, <1>4, <1>5, Parts, TaskMoves
<1>7. ASSUME NEW o \in Orders PROVE WithinBudget(o)'
  BY <1>1, <1>5, Parts, CreatorsShrink, AttemptsSame, BudgetKept
<1>8. PaymentStatusIsEarned'
  BY <1>1, <1>4, Parts, EarnedKept
<1>9. RowsMove
  BY <1>1 DEF RowsMove, Consistent, TypeOK
<1>10. events' \subseteq ProviderStatus \X Attempts
  BY <1>1, <1>3 DEF Consistent, TypeOK
<1> QED
  BY <1>1, <1>4, <1>6, <1>7, <1>8, <1>9, <1>10, Assemble DEF Consistent, TypeOK

\* A request, a webhook or a timer gives up or dies with its process.
LEMMA StopStep ==
    ASSUME Consistent, NEW h \in Handlers, Fails(h) \/ Crash(h) PROVE Consistent'
<1>1. Moves(h, Idle) /\ UNCHANGED <<rows, world, retries>>
  BY DEF Fails, Crash
<1>2. errors' \in 0..MaxErrors /\ crashes' \in 0..MaxCrashes
  BY RefundsAssumption DEF Fails, Crash, Consistent, TypeOK
<1>3. Idle \in Task /\ Sound(Idle, attempt) /\ Idle.pc # "create"
  BY IdleSound DEF Sound
<1> QED
  BY <1>1, <1>2, <1>3, HandlerMoves

\* The bank details are recorded.
LEMMA ResolvedStep ==
    ASSUME Consistent, NEW h \in Handlers, SaveResolved(h) PROVE Consistent'
<1>1. /\ task[h].pc = "resolve" /\ Moves(h, Idle)
      /\ status' = [status EXCEPT ![task[h].order] = "PROCESSING"]
      /\ UNCHANGED <<provider, refundId, payment, events, world, retries, errors, crashes>>
  BY DEF SaveResolved, bounds
<1>2. errors' \in 0..MaxErrors /\ crashes' \in 0..MaxCrashes
  BY <1>1 DEF Consistent, TypeOK
<1> QED
  BY <1>1, <1>2, EndStep

\* The manual refund is recorded.
LEMMA SaveManualStep ==
    ASSUME Consistent, NEW h \in Handlers, SaveManual(h) PROVE Consistent'
<1>1. /\ task[h].pc = "manual" /\ Record(h, task[h].order, task[h].id, "processed")
      /\ UNCHANGED <<provider, payment, world, events, bounds>>
  BY DEF SaveManual
<1>2. task[h].answer = "processed"
  BY <1>1, Holding DEF Sound
<1> QED
  BY <1>1, <1>2, RecordStep

-----------------------------------------------------------------------------
\* Only a refund by hand opens an attempt of a Klump payment, and an attempt
\* that was processed is never touched again.
LEMMA KlumpKept ==
    ASSUME IInv, [Next]_vars PROVE KlumpIsProcessed'
<1> SUFFICES ASSUME provider' = "KLUMP", NEW b \in Attempts, attempt'[b].order # NoOrder
             PROVE  attempt'[b].state = "processed"
  BY DEF KlumpIsProcessed
<1>1. provider = "KLUMP"
  BY DEF Next, vars, ProviderMoves, KlumpDashboard, OpenRefund, RetryRefund, ProcessClaim, FetchRefund,
         ResolveRefundAttention, CompleteManualRefund, ReceiveWebhook, CreateRefund, SaveCreated,
         ProcessFailed, SaveFetched, ApplyWebhook, SyncRead, SyncWrite, Notify, SaveResolved,
         SaveManual, Fails, Crash, rows
<1>2. /\ \A h \in Handlers : task[h].pc # "create"
      /\ \A a \in Attempts : attempt[a].order # NoOrder => attempt[a].state = "processed"
      /\ \A a \in Attempts : attempt[a].state \notin {"none", "processed"} => attempt[a].order # NoOrder
      /\ attempt \in [Attempts -> [order: Orders \cup {NoOrder}, state: ProviderStatus \cup {"none"}]]
      /\ refundId \in [Orders -> 0..MaxAttempts]
  <2>1. \A h \in Handlers : task[h].pc # "create"
    <3> SUFFICES ASSUME NEW h \in Handlers, task[h].pc = "create" PROVE FALSE
      OBVIOUS
    <3>1. task[h].order \in Orders /\ h \in Creators(task[h].order)
      BY Holding DEF Creators, IInv
    <3> QED
      BY <1>1, <3>1 DEF IInv, Consistent, WithinBudget
  <2> QED
    BY <1>1, <2>1 DEF IInv, KlumpIsProcessed, Consistent, AttemptConsistent, TypeOK
<1>3. CASE UNCHANGED attempt
  BY <1>2, <1>3
<1>4. ASSUME NEW a \in Attempts, NEW state, ProviderMoves(a, state) PROVE attempt'[b].state = "processed"
  BY <1>2, <1>4 DEF ProviderMoves
<1>5. ASSUME NEW o \in Orders, KlumpDashboard(o) PROVE attempt'[b].state = "processed"
  BY <1>2, <1>5 DEF KlumpDashboard, SetState
<1>6. ASSUME NEW h \in Handlers, NEW o \in Orders, ResolveRefundAttention(h, o)
      PROVE attempt'[b].state = "processed"
  <2>1. refundId[o] \in Attempts /\ attempt[refundId[o]].state = "needs-attention"
    BY <1>2, <1>6, RefundsAssumption DEF ResolveRefundAttention, Attempts
  <2> QED
    BY <1>2, <2>1
<1>7. ASSUME NEW h \in Handlers, CreateRefund(h) \/ ProcessFailed(h) PROVE attempt'[b].state = "processed"
  <2>1. UNCHANGED attempt
    BY <1>2, <1>7 DEF CreateRefund, ProcessFailed, world
  <2> QED
    BY <1>3, <2>1
<1>8. \/ UNCHANGED attempt
      \/ \E a \in Attempts, state \in {"processed", "failed", "needs-attention"} : ProviderMoves(a, state)
      \/ \E o \in Orders : KlumpDashboard(o)
      \/ \E h \in Handlers, o \in Orders : ResolveRefundAttention(h, o)
      \/ \E h \in Handlers : CreateRefund(h) \/ ProcessFailed(h)
  BY DEF Next, vars, OpenRefund, RetryRefund, ProcessClaim, FetchRefund, CompleteManualRefund,
         ReceiveWebhook, SaveCreated, SaveFetched, ApplyWebhook, SyncRead, SyncWrite, Notify,
         SaveResolved, SaveManual, Fails, Crash, world
<1> QED
  BY <1>3, <1>4, <1>5, <1>6, <1>7, <1>8

\* At the start nothing was opened.
LEMMA InitInv == Init => IInv
<1> SUFFICES ASSUME Init PROVE IInv
  OBVIOUS
<1>1. TypeOK
  <2>1. 0 \in 0..MaxAttempts /\ 0 \in 0..MaxRetries /\ 0 \in 0..MaxErrors /\ 0 \in 0..MaxCrashes
    BY RefundsAssumption
  <2> QED
    BY <2>1, IdleSound DEF Init, TypeOK
<1>2. \A a \in Attempts : AttemptConsistent(a)
  BY DEF Init, AttemptConsistent
<1>3. \A h \in Handlers : Sound(task[h], attempt)
  BY IdleSound DEF Init, Sound
<1>4. \A o \in Orders : RowConsistent(o)
  BY DEF Init, RowConsistent
<1>5. ASSUME NEW o \in Orders PROVE WithinBudget(o)
  <2>1. Creators(o) = {} /\ AttemptsOf(o) = {}
    BY IdleSound, RefundsAssumption DEF Init, Creators, AttemptsOf
  <2>2. IsFiniteSet(Creators(o)) /\ Cardinality(Creators(o)) = 0 /\ Cardinality(AttemptsOf(o)) = 0
    BY <2>1, FS_EmptySet
  <2>3. status[o] = "none" /\ Waiting(o) = 0 /\ retries[o] = 0
    BY DEF Init, Waiting
  <2> QED
    BY <2>1, <2>2, <2>3 DEF WithinBudget
<1>6. PaymentStatusIsEarned /\ KlumpIsProcessed
  BY DEF Init, PaymentStatusIsEarned, KlumpIsProcessed
<1> QED
  BY <1>1, <1>2, <1>3, <1>4, <1>5, <1>6 DEF IInv, Consistent

\* Every step keeps the invariant.
LEMMA InvStep == IInv /\ [Next]_vars => IInv'
<1> SUFFICES ASSUME IInv, [Next]_vars PROVE Consistent'
  BY KlumpKept DEF IInv
<1> Consistent
  BY DEF IInv
<1>1. CASE UNCHANGED vars
  <2>1. UNCHANGED <<status, refundId, payment, provider, attempt, told, events, task, retries, errors, crashes>>
    BY <1>1 DEF vars
  <2>2. /\ \A o \in Orders : Creators(o)' = Creators(o) /\ AttemptsOf(o)' = AttemptsOf(o)
    BY <2>1 DEF Creators, AttemptsOf
  <2>3. WorldConsistent' /\ WorldKept
    BY <2>1, Parts
  <2>4. ASSUME NEW o \in Orders PROVE WithinBudget(o)'
    BY <2>1, <2>2, Parts, BudgetKept
  <2> QED
    BY <2>1, <2>3, <2>4, ProviderStep DEF rows, bounds
<1>2. CASE \E a \in Attempts, state \in {"processed", "failed", "needs-attention"} :
             ProviderMoves(a, state)
  BY <1>2, ProviderMovesStep
<1>3. CASE \E o \in Orders : KlumpDashboard(o) \/ OpenRefund(o) \/ RetryRefund(o)
  BY <1>3, KlumpStep, OpenStep
<1>4. CASE \E h \in Handlers, o \in Orders :
              \/ ProcessClaim(h, o) \/ FetchRefund(h, o)
              \/ ResolveRefundAttention(h, o) \/ CompleteManualRefund(h, o)
  BY <1>4, ClaimStep, FetchStep, ResolveStep, ManualStep
<1>5. CASE \E h \in Handlers, a \in Attempts, state \in ProviderStatus : ReceiveWebhook(h, a, state)
  BY <1>5, ReceiveStep
<1>6. ASSUME NEW h \in Handlers,
             \/ CreateRefund(h) \/ SaveCreated(h) \/ ProcessFailed(h)
             \/ SaveFetched(h) \/ ApplyWebhook(h)
      PROVE  Consistent'
  <2>1. CASE SaveCreated(h) \/ ApplyWebhook(h)
    BY <2>1, RecordStep DEF SaveCreated, ApplyWebhook
  <2> QED
    BY <1>6, <2>1, CreateStep, ProcessFailedStep, FetchedStep
<1>7. ASSUME NEW h \in Handlers,
             \/ SyncRead(h) \/ SyncWrite(h) \/ Notify(h)
             \/ SaveResolved(h) \/ SaveManual(h)
             \/ Fails(h) \/ Crash(h)
      PROVE  Consistent'
  BY <1>7, SyncReadStep, SyncWriteStep, NotifyStep, ResolvedStep, SaveManualStep, StopStep
<1> QED
  BY <1>1, <1>2, <1>3, <1>4, <1>5, <1>6, <1>7 DEF Next

\* The invariant holds in every reachable state of the refunds.
THEOREM InvCorrect == Spec => []IInv
BY InitInv, InvStep, PTL DEF Spec

\* Every variable keeps its type, the rows and handlers of processRefund and
\* the webhooks included.
THEOREM TypeCorrect == Spec => []TypeOK
<1>1. IInv => TypeOK
  BY DEF IInv, Consistent
<1> QED
  BY <1>1, InvCorrect, PTL

\* A refund the back office calls SUCCEEDED was returned by the provider, for
\* the very order, and no order is sent to the provider more often than once
\* and once for each retry, whatever order the claim, the polls and the
\* webhooks run in.
THEOREM ReturnedCorrect == Spec => []ReturnedAsRecorded
<1>1. IInv => ReturnedAsRecorded
  <2> SUFFICES ASSUME IInv PROVE ReturnedAsRecorded
    OBVIOUS
  <2>1. SucceededIsReturned
    BY DEF IInv, Consistent, RowConsistent, Paid, SucceededIsReturned, Returned, AttemptsOf
  <2>2. ASSUME NEW o \in Orders PROVE Cardinality(AttemptsOf(o)) <= 1 + retries[o]
    <3>1. WithinBudget(o) /\ retries[o] \in Nat
      BY Parts DEF IInv
    <3>2. Cardinality(AttemptsOf(o)) \in Nat /\ Cardinality(Creators(o)) \in Nat
      BY <3>1, Counts
    <3>3. Waiting(o) \in Nat
      BY DEF Waiting
    <3>4. Cardinality(AttemptsOf(o)) + Cardinality(Creators(o)) + Waiting(o) <= 1 + retries[o]
      BY <3>1 DEF WithinBudget
    <3> QED
      BY <3>1, <3>2, <3>3, <3>4
  <2> QED
    BY <2>1, <2>2 DEF ReturnedAsRecorded, AttemptsNeedRetries
<1> QED
  BY <1>1, InvCorrect, PTL

\* The status syncPaymentRefundStatus gives the payment is earned: REFUNDED
\* when every order's money came back, PARTIALLY_REFUNDED when some did.
THEOREM EarnedCorrect == Spec => []PaymentStatusIsEarned
<1>1. IInv => PaymentStatusIsEarned
  BY DEF IInv, Consistent
<1> QED
  BY <1>1, InvCorrect, PTL
=============================================================================
