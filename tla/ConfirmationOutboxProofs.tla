---------------------- MODULE ConfirmationOutboxProofs ----------------------
(***************************************************************************)
(* The confirmation outbox loses no email and sends a second one only for  *)
(* a fault, for any number of orders, processes and faults.                *)
(***************************************************************************)
EXTENDS ConfirmationOutbox, FiniteSetTheorems, TLAPS

\* Whoever believes that the email has left is right.
BeliefsTrue ==
    /\ \A j \in Jobs : log[j] = "SENT" => mails[j] > 0
    /\ \A w \in Workers :
          /\ worker[w].pc \in {"claimed", "email", "send", "sent", "unsent", "finish", "failed"}
                => worker[w].job \in Jobs
          /\ worker[w].pc \in {"sent", "finish"} => mails[worker[w].job] > 0

IInv == TypeOK /\ BeliefsTrue /\ ProcessedIsMailed

\* The outbox is empty at first.
LEMMA InvInit == Init => IInv
BY OutboxAssumption
   DEF Init, IInv, TypeOK, BeliefsTrue, ProcessedIsMailed, RowStatus, LogStatus, Worker, Doing, Resting

\* No step of the outbox breaks the invariant.
LEMMA InvStep == IInv /\ [Next]_vars => IInv'
<1> SUFFICES ASSUME IInv, [Next]_vars PROVE IInv'
  OBVIOUS
<1> USE OutboxAssumption DEF IInv
<1>1. CASE UNCHANGED vars
  BY <1>1 DEF vars, TypeOK, BeliefsTrue, ProcessedIsMailed
<1>2. ASSUME NEW j \in Jobs, Enqueue(j) PROVE IInv'
  <2>1. TypeOK'
    BY <1>2 DEF Enqueue, RowStatus, TypeOK
  <2>2. BeliefsTrue'
    BY <1>2 DEF Enqueue, RowStatus, TypeOK, BeliefsTrue
  <2>3. ProcessedIsMailed'
    BY <1>2 DEF Enqueue, RowStatus, TypeOK, BeliefsTrue, ProcessedIsMailed
  <2> QED
    BY <2>1, <2>2, <2>3
<1>3. ASSUME NEW j \in Jobs, BackoffEnds(j) PROVE IInv'
  <2>1. TypeOK'
    BY <1>3 DEF BackoffEnds, TypeOK
  <2>2. BeliefsTrue'
    BY <1>3 DEF BackoffEnds, TypeOK, BeliefsTrue
  <2>3. ProcessedIsMailed'
    BY <1>3 DEF BackoffEnds, TypeOK, BeliefsTrue, ProcessedIsMailed
  <2> QED
    BY <2>1, <2>2, <2>3
<1>4. ASSUME NEW j \in Jobs, LeaseExpires(j) PROVE IInv'
  <2>1. TypeOK'
    BY <1>4 DEF LeaseExpires, Fault, TypeOK
  <2>2. BeliefsTrue'
    BY <1>4 DEF LeaseExpires, Fault, TypeOK, BeliefsTrue
  <2>3. ProcessedIsMailed'
    BY <1>4 DEF LeaseExpires, Fault, TypeOK, BeliefsTrue, ProcessedIsMailed
  <2> QED
    BY <2>1, <2>2, <2>3
<1>5. ASSUME NEW w \in Workers, NEW wanted \in SUBSET Jobs, Start(w, wanted) PROVE IInv'
  <2>1. TypeOK'
    BY <1>5 DEF Start, RowStatus, Worker, Doing, TypeOK
  <2>2. BeliefsTrue'
    BY <1>5 DEF Start, RowStatus, Worker, Doing, TypeOK, BeliefsTrue
  <2>3. ProcessedIsMailed'
    BY <1>5 DEF Start, RowStatus, Worker, Doing, TypeOK, BeliefsTrue, ProcessedIsMailed
  <2> QED
    BY <2>1, <2>2, <2>3
<1>6. ASSUME NEW w \in Workers, NEW j \in Jobs, Claim(w, j) PROVE IInv'
  <2>1. CASE Claimable(j)
    <3>1. /\ row' = [row EXCEPT ![j] = "PROCESSING"]
          /\ expired' = [expired EXCEPT ![j] = FALSE]
          /\ worker' = [worker EXCEPT ![w] = Doing("claimed", worker[w].todo \ {j}, j)]
          /\ UNCHANGED <<ready, log, inbox, mails, faults>>
      BY <1>6, <2>1 DEF Claim, TypeOK, Worker, Doing
    <3> QED
      BY <3>1 DEF TypeOK, BeliefsTrue, ProcessedIsMailed, RowStatus, Worker, Doing
  <2>2. CASE ~Claimable(j)
    <3>1. /\ worker' = [worker EXCEPT ![w] = Doing("next", worker[w].todo \ {j}, NoJob)]
          /\ UNCHANGED <<row, expired, ready, log, inbox, mails, faults>>
      BY <1>6, <2>2 DEF Claim, TypeOK, Worker, Doing
    <3> QED
      BY <1>6, <3>1 DEF Claim, TypeOK, BeliefsTrue, ProcessedIsMailed, Worker, Doing
  <2> QED
    BY <2>1, <2>2
<1>7. ASSUME NEW w \in Workers, PassEnds(w) PROVE IInv'
  <2>1. TypeOK'
    BY <1>7 DEF PassEnds, Resting, Worker, Doing, TypeOK
  <2>2. BeliefsTrue'
    BY <1>7 DEF PassEnds, Resting, Worker, Doing, TypeOK, BeliefsTrue
  <2>3. ProcessedIsMailed'
    BY <1>7 DEF PassEnds, Resting, Worker, Doing, TypeOK, BeliefsTrue, ProcessedIsMailed
  <2> QED
    BY <2>1, <2>2, <2>3
<1>8. ASSUME NEW w \in Workers, InApp(w) PROVE IInv'
  <2>1. worker[w].job \in Jobs
    BY <1>8 DEF InApp, BeliefsTrue
  <2>2. /\ worker' = [worker EXCEPT ![w] = Doing("email", worker[w].todo, worker[w].job)]
        /\ inbox' = inbox \cup {worker[w].job}
        /\ UNCHANGED <<row, ready, expired, log, mails, faults>>
    BY <1>8 DEF InApp, Goes
  <2> QED
    BY <2>1, <2>2 DEF TypeOK, BeliefsTrue, ProcessedIsMailed, Worker, Doing
<1>9. ASSUME NEW w \in Workers, OpenLog(w) PROVE IInv'
  <2> DEFINE j == worker[w].job
  <2>1. j \in Jobs /\ worker[w].pc = "email"
    BY <1>9 DEF OpenLog, BeliefsTrue
  <2>2. CASE log[j] = "SENT"
    <3>1. worker' = [worker EXCEPT ![w] = Doing("finish", worker[w].todo, worker[w].job)] /\ UNCHANGED log
      BY <1>9, <2>2 DEF OpenLog, AlreadySent, Goes
    <3> QED
      BY <1>9, <2>1, <2>2, <3>1
         DEF OpenLog, Doing, TypeOK, BeliefsTrue, ProcessedIsMailed, Worker
  <2>3. CASE log[j] # "SENT"
    <3>1. /\ worker' = [worker EXCEPT ![w] = Doing("send", worker[w].todo, worker[w].job)]
          /\ log' = [log EXCEPT ![j] = "PENDING"]
      BY <1>9, <2>3 DEF OpenLog, AlreadySent, Goes
    <3> QED
      BY <1>9, <2>1, <3>1
         DEF OpenLog, Doing, TypeOK, BeliefsTrue, ProcessedIsMailed, Worker, LogStatus
  <2> QED
    BY <2>2, <2>3
<1>10. ASSUME NEW w \in Workers, Send(w) PROVE IInv'
  <2> DEFINE j == worker[w].job
  <2>1. j \in Jobs /\ worker[w].pc = "send"
    BY <1>10 DEF Send, BeliefsTrue
  <2>2. /\ \/ /\ worker' = [worker EXCEPT ![w] = Doing("sent", worker[w].todo, worker[w].job)]
              /\ mails' = [mails EXCEPT ![j] = @ + 1]
              /\ UNCHANGED faults
           \/ /\ worker' = [worker EXCEPT ![w] = Doing("unsent", worker[w].todo, worker[w].job)]
              /\ mails' \in {mails, [mails EXCEPT ![j] = @ + 1]}
              /\ Fault(j)
        /\ UNCHANGED <<row, ready, expired, log, inbox>>
    BY <1>10 DEF Send, Goes
  <2>3. /\ mails' \in [Jobs -> Nat]
        /\ \A k \in Jobs : mails[k] > 0 => mails'[k] > 0
    BY <2>1, <2>2 DEF TypeOK
  <2>4. faults' \in [Jobs -> 0..MaxFaults]
    BY <2>1, <2>2 DEF TypeOK, Fault
  <2>5. /\ worker' \in [Workers -> Worker]
        /\ worker' \in {[worker EXCEPT ![w] = Doing("sent", worker[w].todo, worker[w].job)], [worker EXCEPT ![w] = Doing("unsent", worker[w].todo, worker[w].job)]}
    BY <2>1, <2>2 DEF TypeOK, Worker, Doing, Doing
  <2>6. TypeOK' /\ ProcessedIsMailed'
    BY <2>2, <2>3, <2>4, <2>5 DEF TypeOK, ProcessedIsMailed
  <2>7. worker'[w].pc = "sent" => mails'[j] > 0
    BY <2>1, <2>2 DEF TypeOK, Doing
  <2>8. BeliefsTrue'
    BY <2>1, <2>2, <2>3, <2>5, <2>7 DEF TypeOK, BeliefsTrue, Doing
  <2> QED
    BY <2>6, <2>8
<1>11. ASSUME NEW w \in Workers, SaveSent(w) PROVE IInv'
  <2>1. TypeOK'
    BY <1>11 DEF SaveSent, Goes, Worker, Doing, LogStatus, TypeOK
  <2>2. BeliefsTrue'
    BY <1>11 DEF SaveSent, Goes, Worker, Doing, LogStatus, TypeOK, BeliefsTrue
  <2>3. ProcessedIsMailed'
    BY <1>11 DEF SaveSent, Goes, Worker, Doing, LogStatus, TypeOK, BeliefsTrue, ProcessedIsMailed
  <2> QED
    BY <2>1, <2>2, <2>3
<1>12. ASSUME NEW w \in Workers, SaveUnsent(w) PROVE IInv'
  <2>1. TypeOK'
    BY <1>12 DEF SaveUnsent, Goes, Worker, Doing, LogStatus, TypeOK
  <2>2. BeliefsTrue'
    BY <1>12 DEF SaveUnsent, Goes, Worker, Doing, LogStatus, TypeOK, BeliefsTrue
  <2>3. ProcessedIsMailed'
    BY <1>12 DEF SaveUnsent, Goes, Worker, Doing, LogStatus, TypeOK, BeliefsTrue, ProcessedIsMailed
  <2> QED
    BY <2>1, <2>2, <2>3
<1>13. ASSUME NEW w \in Workers, Finish(w) PROVE IInv'
  <2>1. TypeOK'
    BY <1>13 DEF Finish, Worker, Doing, RowStatus, TypeOK
  <2>2. BeliefsTrue'
    BY <1>13 DEF Finish, Worker, Doing, RowStatus, TypeOK, BeliefsTrue
  <2>3. ProcessedIsMailed'
    BY <1>13 DEF Finish, Worker, Doing, RowStatus, TypeOK, BeliefsTrue, ProcessedIsMailed
  <2> QED
    BY <2>1, <2>2, <2>3
<1>14. ASSUME NEW w \in Workers, BackOff(w) PROVE IInv'
  <2> DEFINE j == worker[w].job
  <2>1. j \in Jobs
    BY <1>14 DEF BackOff, BeliefsTrue
  <2>2. /\ worker' = [worker EXCEPT ![w] = Doing("next", worker[w].todo, NoJob)]
        /\ row' = [row EXCEPT ![j] = "FAILED"]
        /\ ready' = [ready EXCEPT ![j] = FALSE]
        /\ expired' = [expired EXCEPT ![j] = FALSE]
        /\ UNCHANGED <<log, inbox, mails, faults>>
    BY <1>14 DEF BackOff, TypeOK, Worker, Doing
  <2> QED
    BY <2>1, <2>2 DEF TypeOK, BeliefsTrue, ProcessedIsMailed, Worker, Doing, RowStatus
<1>15. ASSUME NEW w \in Workers, Crash(w) PROVE IInv'
  <2> DEFINE j == worker[w].job
  <2>1. /\ j \in Jobs
        /\ faults' = [faults EXCEPT ![j] = @ + 1] /\ faults[j] < MaxFaults
        /\ UNCHANGED <<row, ready, expired, log, inbox, mails>>
    BY <1>15 DEF Crash, Fault, TypeOK, Worker, Doing
  <2>2. worker' \in {[worker EXCEPT ![w] = Resting], [worker EXCEPT ![w] = Doing("failed", worker[w].todo, worker[w].job)]}
    BY <1>15 DEF Crash, Goes
  <2>3. worker' \in [Workers -> Worker]
    BY <2>1, <2>2 DEF TypeOK, Worker, Doing, Doing, Resting
  <2>4. faults' \in [Jobs -> 0..MaxFaults]
    BY <2>1 DEF TypeOK
  <2>5. BeliefsTrue'
    BY <2>1, <2>2 DEF TypeOK, BeliefsTrue, Doing, Resting
  <2> QED
    BY <2>1, <2>3, <2>4, <2>5 DEF TypeOK, ProcessedIsMailed
<1> QED
  BY <1>1, <1>2, <1>3, <1>4, <1>5, <1>6, <1>7, <1>8, <1>9, <1>10, <1>11, <1>12, <1>13, <1>14, <1>15 DEF Next, Pass

\* A confirmation marked PROCESSED has left, whatever crashes, takeovers and
\* failed sends came before.
THEOREM ProcessedCorrect == Spec => []ProcessedIsMailed
<1>1. IInv => ProcessedIsMailed
  BY DEF IInv
<1> QED
  BY <1>1, InvInit, InvStep, PTL DEF Spec

-----------------------------------------------------------------------------
(***************************************************************************)
(* The number of emails.  A permission to send one is held by a row that a *)
(* pass may claim, now or when its lease runs out, or by a process on its  *)
(* way to the send or back from a failed one.  Sending spends it, and only *)
(* a fault makes a new one.                                                *)
(***************************************************************************)
Carrying == {"claimed", "email", "send", "unsent", "failed"}

Carries(t, j) == t.job = j /\ t.pc \in Carrying
Carriers(j) == {w \in Workers : Carries(worker[w], j)}

Open(j) == \/ row[j] \in {"none", "PENDING", "FAILED"}
           \/ row[j] = "PROCESSING" /\ (expired[j] \/ ~Working(j))

One(b) == IF b THEN 1 ELSE 0

WithinBudget(j) ==
    /\ IsFiniteSet(Carriers(j))
    /\ Cardinality(Carriers(j)) + One(Open(j)) + mails[j] <= 1 + faults[j]

\* A process between two rows holds none.
FreeHanded == \A w \in Workers : worker[w].pc \in {"idle", "next"} => worker[w].job = NoJob

\* The step of one process changes what it carries, and nothing else.
LEMMA CarriersMove ==
    ASSUME TypeOK, NEW w \in Workers, NEW STATE t, worker' = [worker EXCEPT ![w] = t],
           NEW j \in Jobs, IsFiniteSet(Carriers(j))
    PROVE  /\ IsFiniteSet(Carriers(j)') /\ Cardinality(Carriers(j)) \in Nat
           /\ Cardinality(Carriers(j)') =
                Cardinality(Carriers(j)) - One(Carries(worker[w], j)) + One(Carries(t, j))
<1>1. worker'[w] = t /\ \A x \in Workers \ {w} : worker'[x] = worker[x]
  BY DEF TypeOK
<1> DEFINE C == Carriers(j)
           D == Carriers(j)'
<1>2. /\ \A x \in Workers \ {w} : x \in D <=> x \in C
      /\ w \in C <=> Carries(worker[w], j)
      /\ w \in D <=> Carries(t, j)
      /\ C \subseteq Workers /\ D \subseteq Workers
  BY <1>1 DEF Carriers, Carries
<1>3. IsFiniteSet(C)
  OBVIOUS
<1> HIDE DEF C, D
<1>4. Cardinality(C) \in Nat
  BY <1>3, FS_CardinalityType
<1>5. CASE Carries(worker[w], j) /\ Carries(t, j)
  <2>1. D = C
    BY <1>2, <1>5
  <2> QED
    BY <2>1, <1>3, <1>4, <1>5 DEF One, C, D
<1>6. CASE ~Carries(worker[w], j) /\ ~Carries(t, j)
  <2>1. D = C
    BY <1>2, <1>6
  <2> QED
    BY <2>1, <1>3, <1>4, <1>6 DEF One, C, D
<1>7. CASE Carries(worker[w], j) /\ ~Carries(t, j)
  <2>1. D = C \ {w} /\ w \in C
    BY <1>2, <1>7
  <2>2. IsFiniteSet(D) /\ Cardinality(D) = Cardinality(C) - 1
    BY <1>3, <2>1, FS_RemoveElement
  <2> QED
    BY <2>2, <1>4, <1>7 DEF One, C, D
<1>8. CASE ~Carries(worker[w], j) /\ Carries(t, j)
  <2>1. D = C \cup {w} /\ w \notin C
    BY <1>2, <1>8
  <2>2. IsFiniteSet(D) /\ Cardinality(D) = Cardinality(C) + 1
    BY <1>3, <2>1, FS_AddElement
  <2> QED
    BY <2>2, <1>4, <1>8 DEF One, C, D
<1> QED
  BY <1>5, <1>6, <1>7, <1>8

\* A step of one process keeps the budget of every row if it does so at the
\* prices it pays.
LEMMA BudgetMoves ==
    ASSUME TypeOK, TypeOK', NEW w \in Workers, NEW STATE t, worker' = [worker EXCEPT ![w] = t],
           NEW j \in Jobs, WithinBudget(j),
           One(Carries(t, j)) + One(Open(j)') + mails'[j] + faults[j]
             <= One(Carries(worker[w], j)) + One(Open(j)) + mails[j] + faults'[j]
    PROVE  WithinBudget(j)'
<1> DEFINE n == Cardinality(Carriers(j))
           m == Cardinality(Carriers(j)')
           a == One(Carries(worker[w], j))
           b == One(Carries(t, j))
           x == One(Open(j))
           y == One(Open(j)')
<1>1. /\ IsFiniteSet(Carriers(j)') /\ n \in Nat /\ m = n - a + b
  BY CarriersMove DEF WithinBudget
<1>2. a \in Nat /\ b \in Nat /\ x \in Nat /\ y \in Nat
  BY DEF One
<1>3. mails[j] \in Nat /\ mails'[j] \in Nat /\ faults[j] \in Nat /\ faults'[j] \in Nat
  BY OutboxAssumption DEF TypeOK
<1>4. n + x + mails[j] <= 1 + faults[j] /\ b + y + mails'[j] + faults[j] <= a + x + mails[j] + faults'[j]
  BY DEF WithinBudget
<1>5. m + y + mails'[j] <= 1 + faults'[j]
  <2> HIDE DEF n, m, a, b, x, y
  <2> QED
    BY <1>1, <1>2, <1>3, <1>4
<1>6. One(Open(j))' = y
  BY DEF One
<1> QED
  BY <1>1, <1>5, <1>6 DEF WithinBudget

\* Rows another step is about.
LEMMA OthersOpen ==
    ASSUME TypeOK, NEW w \in Workers, NEW STATE t, worker' = [worker EXCEPT ![w] = t],
           NEW j \in Jobs, worker[w].job # j, row'[j] = row[j], expired'[j] = expired[j]
    PROVE  Open(j)' => Open(j)
<1>1. \A x \in Workers : worker[x].job = j => worker'[x].job = j
  BY DEF TypeOK
<1> QED
  BY <1>1 DEF Open, Working

\* A process that keeps the row it works on leaves it as claimable as before.
LEMMA SameOpen ==
    ASSUME TypeOK, NEW w \in Workers, NEW STATE t, worker' = [worker EXCEPT ![w] = t],
           t.job = worker[w].job, NEW j \in Jobs, row'[j] = row[j], expired'[j] = expired[j]
    PROVE  Open(j)' <=> Open(j)
<1>1. \A x \in Workers : worker[x].job = j <=> worker'[x].job = j
  BY DEF TypeOK
<1> QED
  BY <1>1 DEF Open, Working

\* Time and new rows.
LEMMA BudgetWaits ==
    ASSUME TypeOK, TypeOK', UNCHANGED <<worker, mails>>, NEW j \in Jobs, WithinBudget(j),
           (Open(j)' => Open(j)) \/ faults'[j] = faults[j] + 1, faults'[j] >= faults[j]
    PROVE  WithinBudget(j)'
<1>1. Carriers(j)' = Carriers(j)
  BY DEF Carriers
<1>2. Cardinality(Carriers(j)) \in Nat /\ IsFiniteSet(Carriers(j))
  BY FS_CardinalityType DEF WithinBudget
<1>3. mails[j] \in Nat /\ mails'[j] = mails[j] /\ faults[j] \in Nat /\ faults'[j] \in Nat
  BY OutboxAssumption DEF TypeOK
<1>4. One(Open(j)) \in {0, 1} /\ One(Open(j)') \in {0, 1}
      /\ ((Open(j)' => Open(j)) => One(Open(j)') <= One(Open(j)))
  BY DEF One
<1>5. Cardinality(Carriers(j)) + One(Open(j)) + mails[j] <= 1 + faults[j]
  BY DEF WithinBudget
<1>6. Cardinality(Carriers(j)) + One(Open(j)') + mails'[j] <= 1 + faults'[j]
  BY <1>2, <1>3, <1>4, <1>5
<1>7. One(Open(j))' = One(Open(j)')
  BY DEF One
<1> QED
  BY <1>1, <1>2, <1>6, <1>7 DEF WithinBudget

\* What a step of a process may do with the permissions of row j, and how it
\* pays: nothing, put one back, take one, spend one, or spend and take for a
\* fault.
Pays(w, t, j) ==
    \/ /\ mails'[j] = mails[j] /\ faults'[j] = faults[j]
       /\ \/ (Open(j)' => Open(j)) /\ (Carries(t, j) => Carries(worker[w], j))
          \/ Carries(worker[w], j) /\ ~Carries(t, j)
          \/ Open(j) /\ ~Open(j)'
    \/ /\ mails'[j] = mails[j] + 1 /\ faults'[j] = faults[j]
       /\ Carries(worker[w], j) /\ ~Carries(t, j) /\ (Open(j)' => Open(j))
    \/ /\ mails'[j] \in {mails[j], mails[j] + 1} /\ faults'[j] = faults[j] + 1
       /\ (Carries(t, j) => Carries(worker[w], j)) /\ (Open(j)' => Open(j))
    \/ /\ mails'[j] = mails[j] /\ faults'[j] = faults[j] + 1
       /\ (Open(j)' => Open(j)) \/ ~Carries(t, j)

\* Whoever pays keeps the budget.
LEMMA PaidMoves ==
    ASSUME TypeOK, TypeOK', NEW w \in Workers, NEW STATE t, worker' = [worker EXCEPT ![w] = t],
           NEW j \in Jobs, WithinBudget(j), Pays(w, t, j)
    PROVE  WithinBudget(j)'
<1> DEFINE a == Carries(worker[w], j)
           b == Carries(t, j)
           x == Open(j)
           y == Open(j)'
<1>1. mails[j] \in Nat /\ mails'[j] \in Nat /\ faults[j] \in Nat /\ faults'[j] \in Nat
  BY OutboxAssumption DEF TypeOK
<1>2. One(b) + One(y) + mails'[j] + faults[j] <= One(a) + One(x) + mails[j] + faults'[j]
  <2>1. \/ /\ mails'[j] = mails[j] /\ faults'[j] = faults[j]
           /\ ((y => x) /\ (b => a)) \/ (a /\ ~b) \/ (x /\ ~y)
        \/ /\ mails'[j] = mails[j] + 1 /\ faults'[j] = faults[j] /\ a /\ ~b /\ (y => x)
        \/ /\ mails'[j] \in {mails[j], mails[j] + 1} /\ faults'[j] = faults[j] + 1
           /\ (b => a) /\ (y => x)
        \/ /\ mails'[j] = mails[j] /\ faults'[j] = faults[j] + 1 /\ ((y => x) \/ ~b)
    BY DEF Pays
  <2> HIDE DEF a, b, x, y
  <2> QED
    BY <1>1, <2>1 DEF One
<1> QED
  BY <1>2, BudgetMoves

\* Every step pays for the permissions it makes.
LEMMA BudgetStep ==
    ASSUME IInv, IInv', FreeHanded, \A j \in Jobs : WithinBudget(j), Next
    PROVE  FreeHanded' /\ \A j \in Jobs : WithinBudget(j)'
<1> TypeOK /\ TypeOK' /\ BeliefsTrue
  BY DEF IInv
<1>1. ASSUME NEW k \in Jobs, Enqueue(k) \/ BackoffEnds(k) \/ LeaseExpires(k)
      PROVE  FreeHanded' /\ \A j \in Jobs : WithinBudget(j)'
  <2>1. UNCHANGED <<worker, mails>>
    BY <1>1 DEF Enqueue, BackoffEnds, LeaseExpires
  <2>2. ASSUME NEW j \in Jobs PROVE WithinBudget(j)'
    <3>1. faults[j] \in Nat
      BY OutboxAssumption DEF TypeOK
    <3>2. Working(j)' <=> Working(j)
      BY <2>1 DEF Working
    <3>3. faults'[j] >= faults[j] /\ ((Open(j)' => Open(j)) \/ faults'[j] = faults[j] + 1)
      <4>1. CASE Enqueue(k)
        BY <4>1, <3>1, <3>2 DEF Enqueue, Open, TypeOK
      <4>2. CASE BackoffEnds(k)
        BY <4>2, <3>1, <3>2 DEF BackoffEnds, Open
      <4>3. CASE LeaseExpires(k) /\ Working(k)
        BY <4>3, <3>1, <3>2 DEF LeaseExpires, Fault, Open, TypeOK
      <4>4. CASE LeaseExpires(k) /\ ~Working(k)
        BY <4>4, <3>1, <3>2 DEF LeaseExpires, Open, TypeOK
      <4> QED
        BY <1>1, <4>1, <4>2, <4>3, <4>4
    <3> QED
      BY <2>1, <3>3, BudgetWaits
  <2> QED
    BY <2>1, <2>2 DEF FreeHanded
<1>2. ASSUME NEW w \in Workers, NEW t, worker' = [worker EXCEPT ![w] = t],
             t.pc \in {"idle", "next"} => t.job = NoJob,
             \A j \in Jobs : Pays(w, t, j)
      PROVE  FreeHanded' /\ \A j \in Jobs : WithinBudget(j)'
  <2>1. FreeHanded'
    BY <1>2 DEF FreeHanded, TypeOK
  <2> QED
    BY <2>1, <1>2, PaidMoves
<1>3. ASSUME NEW w \in Workers, NEW wanted \in SUBSET Jobs, Start(w, wanted)
      PROVE  FreeHanded' /\ \A j \in Jobs : WithinBudget(j)'
  <2>1. PICK due : worker' = [worker EXCEPT ![w] = Doing("next", due, NoJob)]
    BY <1>3 DEF Start
  <2> DEFINE t == Doing("next", due, NoJob)
  <2>2. t.pc = "next" /\ t.job = NoJob
    BY DEF Doing
  <2>3. /\ worker[w].pc = "idle" /\ worker[w].job = NoJob /\ UNCHANGED <<mails, faults>>
        /\ row' = [i \in Jobs |-> IF Releasable(i) THEN "PENDING" ELSE row[i]]
        /\ expired' = [i \in Jobs |-> expired[i] /\ ~Releasable(i)]
    BY <1>3 DEF Start, FreeHanded
  <2> HIDE DEF t
  <2>4. ASSUME NEW j \in Jobs PROVE Pays(w, t, j)
    <3>1. Working(j)' <=> Working(j)
      BY <2>1, <2>2, <2>3, OutboxAssumption DEF Working, TypeOK, t
    <3>2. Open(j)' <=> Open(j)
      BY <2>3, <3>1 DEF Open, Releasable
    <3>3. ~Carries(t, j)
      BY <2>2, OutboxAssumption DEF Carries
    <3> QED
      BY <2>3, <3>2, <3>3 DEF Pays
  <2> QED
    BY <1>2, <2>1, <2>2, <2>4 DEF t
<1>4. ASSUME NEW w \in Workers, NEW k \in Jobs, Claim(w, k)
      PROVE  FreeHanded' /\ \A j \in Jobs : WithinBudget(j)'
  <2>1. /\ worker[w].pc = "next" /\ worker[w].job = NoJob /\ NoJob \notin Jobs
        /\ UNCHANGED <<mails, faults>>
    BY <1>4, OutboxAssumption DEF Claim, FreeHanded
  <2>2. CASE Claimable(k)
    <3> DEFINE t == Doing("claimed", worker[w].todo \ {k}, k)
    <3>1. t.pc = "claimed" /\ t.job = k
      BY DEF Doing
    <3>2. /\ worker' = [worker EXCEPT ![w] = t]
          /\ row' = [row EXCEPT ![k] = "PROCESSING"] /\ expired' = [expired EXCEPT ![k] = FALSE]
      BY <1>4, <2>2 DEF Claim
    <3> HIDE DEF t
    <3>3. ASSUME NEW j \in Jobs, j # k PROVE Pays(w, t, j)
      <4>1. Open(j)' => Open(j)
        BY <2>1, <3>2, <3>3, OthersOpen DEF TypeOK
      <4>2. ~Carries(t, j)
        BY <3>1, <3>3 DEF Carries
      <4> QED
        BY <2>1, <4>1, <4>2 DEF Pays
    <3>4. Pays(w, t, k)
      <4>1. Open(k)
        BY <2>2 DEF Claimable, Open
      <4>2. worker'[w].job = k /\ row'[k] = "PROCESSING" /\ expired'[k] = FALSE
        BY <3>1, <3>2 DEF TypeOK
      <4>3. ~Open(k)'
        BY <4>2 DEF Open, Working
      <4> QED
        BY <2>1, <4>1, <4>3 DEF Pays
    <3> QED
      BY <1>2, <3>1, <3>2, <3>3, <3>4
  <2>3. CASE ~Claimable(k)
    <3> DEFINE t == Doing("next", worker[w].todo \ {k}, NoJob)
    <3>1. t.pc = "next" /\ t.job = NoJob
      BY DEF Doing
    <3>2. worker' = [worker EXCEPT ![w] = t] /\ UNCHANGED <<row, expired>>
      BY <1>4, <2>3 DEF Claim
    <3> HIDE DEF t
    <3>3. ASSUME NEW j \in Jobs PROVE Pays(w, t, j)
      <4>1. Open(j)' => Open(j)
        BY <2>1, <3>2, OthersOpen
      <4>2. ~Carries(t, j)
        BY <2>1, <3>1 DEF Carries
      <4> QED
        BY <2>1, <4>1, <4>2 DEF Pays
    <3> QED
      BY <1>2, <3>1, <3>2, <3>3
  <2> QED
    BY <2>2, <2>3
<1>5. ASSUME NEW w \in Workers, PassEnds(w)
      PROVE  FreeHanded' /\ \A j \in Jobs : WithinBudget(j)'
  <2>1. /\ worker[w].pc = "next" /\ worker[w].job = NoJob /\ NoJob \notin Jobs
        /\ UNCHANGED <<row, expired, mails, faults>>
        /\ worker' = [worker EXCEPT ![w] = Resting] /\ Resting.pc = "idle" /\ Resting.job = NoJob
    BY <1>5, OutboxAssumption DEF PassEnds, FreeHanded, Resting, Doing
  <2>2. ASSUME NEW j \in Jobs PROVE Pays(w, Resting, j)
    <3>1. Open(j)' => Open(j)
      BY <2>1, OthersOpen
    <3>2. ~Carries(Resting, j)
      BY <2>1 DEF Carries
    <3> QED
      BY <2>1, <3>1, <3>2 DEF Pays
  <2> QED
    BY <1>2, <2>1, <2>2
<1>6. ASSUME NEW w \in Workers, NEW pc \in Carrying \cup {"sent", "finish"},
             worker[w].pc \in Carrying \cup {"sent", "finish"}, Goes(w, pc),
             UNCHANGED <<row, expired>>, NEW k \in Jobs, k = worker[w].job,
             \A j \in Jobs \ {k} : mails'[j] = mails[j] /\ faults'[j] = faults[j],
             \/ /\ mails'[k] = mails[k] /\ faults'[k] = faults[k]
                /\ pc \in Carrying => worker[w].pc \in Carrying
             \/ /\ mails'[k] = mails[k] + 1 /\ faults'[k] = faults[k]
                /\ pc \notin Carrying /\ worker[w].pc \in Carrying
             \/ /\ mails'[k] \in {mails[k], mails[k] + 1} /\ faults'[k] = faults[k] + 1
                /\ mails'[k] = mails[k] \/ worker[w].pc \in Carrying
      PROVE  FreeHanded' /\ \A j \in Jobs : WithinBudget(j)'
  <2> DEFINE t == Doing(pc, worker[w].todo, k)
  <2>1. t.pc = pc /\ t.job = k /\ pc \notin {"idle", "next"}
    BY DEF Doing, Carrying
  <2>2. worker' = [worker EXCEPT ![w] = t]
    BY <1>6 DEF Goes
  <2> HIDE DEF t
  <2>3. ASSUME NEW j \in Jobs PROVE Pays(w, t, j)
    <3>1. Open(j)' <=> Open(j)
      BY <1>6, <2>1, <2>2, SameOpen
    <3>2. /\ Carries(t, j) <=> k = j /\ pc \in Carrying
          /\ Carries(worker[w], j) <=> k = j /\ worker[w].pc \in Carrying
      BY <1>6, <2>1 DEF Carries
    <3>3. CASE j # k
      BY <1>6, <3>1, <3>2, <3>3 DEF Pays
    <3>4. CASE j = k
      BY <1>6, <3>1, <3>2, <3>4 DEF Pays
    <3> QED
      BY <3>3, <3>4
  <2> QED
    BY <1>2, <1>6, <2>1, <2>2, <2>3
<1>7. ASSUME NEW w \in Workers, InApp(w) \/ OpenLog(w) \/ SaveSent(w) \/ SaveUnsent(w)
      PROVE  FreeHanded' /\ \A j \in Jobs : WithinBudget(j)'
  <2>1. UNCHANGED <<row, expired, mails, faults>>
    BY <1>7 DEF InApp, OpenLog, SaveSent, SaveUnsent
  <2> DEFINE k == worker[w].job
  <2>2. k \in Jobs /\ worker[w].pc \in {"claimed", "email", "sent", "unsent"}
    BY <1>7 DEF InApp, OpenLog, SaveSent, SaveUnsent, BeliefsTrue
  <2>3. PICK pc \in {"email", "finish", "send", "failed"} :
           Goes(w, pc) /\ (pc \in Carrying => worker[w].pc \in Carrying)
    BY <1>7 DEF InApp, OpenLog, SaveSent, SaveUnsent, Carrying
  <2>4. pc \in Carrying \cup {"sent", "finish"} /\ worker[w].pc \in Carrying \cup {"sent", "finish"}
    BY <2>2, <2>3 DEF Carrying
  <2> HIDE DEF k
  <2> QED
    BY <2>1, <2>2, <2>3, <2>4, <1>6 DEF k
<1>8. ASSUME NEW w \in Workers, Send(w)
      PROVE  FreeHanded' /\ \A j \in Jobs : WithinBudget(j)'
  <2> DEFINE k == worker[w].job
  <2>1. k \in Jobs /\ worker[w].pc = "send" /\ UNCHANGED <<row, expired>>
        /\ mails \in [Jobs -> Nat] /\ faults \in [Jobs -> 0..MaxFaults]
    BY <1>8 DEF Send, BeliefsTrue, TypeOK
  <2>2. CASE Goes(w, "sent") /\ mails' = [mails EXCEPT ![k] = @ + 1] /\ UNCHANGED faults
    <3>1. mails'[k] = mails[k] + 1 /\ \A j \in Jobs \ {k} : mails'[j] = mails[j]
      BY <2>1, <2>2
    <3>2. \A j \in Jobs : faults'[j] = faults[j]
      BY <2>2
    <3>3. "sent" \notin Carrying /\ "send" \in Carrying
      BY DEF Carrying
    <3> HIDE DEF k
    <3> QED
      BY <2>1, <2>2, <3>1, <3>2, <3>3, <1>6 DEF k
  <2>3. CASE Goes(w, "unsent") /\ Fault(k) /\ mails' \in {mails, [mails EXCEPT ![k] = @ + 1]}
    <3>1. /\ mails'[k] \in {mails[k], mails[k] + 1} /\ faults'[k] = faults[k] + 1
          /\ \A j \in Jobs \ {k} : mails'[j] = mails[j] /\ faults'[j] = faults[j]
      BY <2>1, <2>3 DEF Fault
    <3>2. "unsent" \in Carrying /\ "send" \in Carrying
      BY DEF Carrying
    <3> HIDE DEF k
    <3> QED
      BY <2>1, <2>3, <3>1, <3>2, <1>6 DEF k
  <2> QED
    BY <1>8, <2>2, <2>3 DEF Send
<1>9. ASSUME NEW w \in Workers, Finish(w) \/ BackOff(w)
      PROVE  FreeHanded' /\ \A j \in Jobs : WithinBudget(j)'
  <2> DEFINE k == worker[w].job
             t == Doing("next", worker[w].todo, NoJob)
  <2>1. t.pc = "next" /\ t.job = NoJob /\ NoJob \notin Jobs
    BY OutboxAssumption DEF Doing
  <2>2. /\ worker' = [worker EXCEPT ![w] = t] /\ UNCHANGED <<mails, faults>> /\ k \in Jobs
        /\ \A j \in Jobs \ {k} : row'[j] = row[j] /\ expired'[j] = expired[j]
        /\ worker[w].pc = "failed" \/ row'[k] = "PROCESSED"
    BY <1>9 DEF Finish, BackOff, BeliefsTrue, TypeOK
  <2> HIDE DEF t
  <2>3. ASSUME NEW j \in Jobs PROVE Pays(w, t, j)
    <3>1. ~Carries(t, j)
      BY <2>1 DEF Carries
    <3>2. CASE j # k
      <4>1. Open(j)' => Open(j)
        BY <2>2, <3>2, OthersOpen
      <4> QED
        BY <2>2, <3>1, <4>1 DEF Pays
    <3>3. CASE j = k /\ worker[w].pc = "failed"
      <4>1. Carries(worker[w], j)
        BY <3>3 DEF Carries, Carrying
      <4> QED
        BY <2>2, <3>1, <4>1 DEF Pays
    <3>4. CASE j = k /\ row'[k] = "PROCESSED"
      <4>1. ~Open(j)'
        BY <3>4 DEF Open
      <4> QED
        BY <2>2, <3>1, <4>1 DEF Pays
    <3> QED
      BY <2>2, <3>2, <3>3, <3>4
  <2> QED
    BY <1>2, <2>1, <2>2, <2>3
<1>10. ASSUME NEW w \in Workers, Crash(w)
      PROVE  FreeHanded' /\ \A j \in Jobs : WithinBudget(j)'
  <2> DEFINE k == worker[w].job
  <2>1. /\ k \in Jobs /\ UNCHANGED <<row, expired, mails>>
        /\ faults'[k] = faults[k] + 1 /\ \A j \in Jobs \ {k} : faults'[j] = faults[j]
        /\ worker[w].pc \in Carrying \cup {"sent", "finish"}
    <3>1. worker[w].job \in Jobs \cup {NoJob}
          /\ worker[w].pc \in {"idle", "next", "claimed", "email", "send", "sent", "unsent", "finish", "failed"}
      BY DEF TypeOK, Worker
    <3>2. k \in Jobs /\ Fault(k) /\ UNCHANGED <<row, expired, mails>>
      BY <1>10, <3>1 DEF Crash
    <3>3. worker[w].pc \in Carrying \cup {"sent", "finish"}
      BY <3>1, <3>2, OutboxAssumption DEF FreeHanded, Carrying
    <3> QED
      BY <3>2, <3>3 DEF Fault, TypeOK
  <2>2. CASE Goes(w, "failed")
    <3>1. "failed" \in Carrying
      BY DEF Carrying
    <3>2. mails'[k] = mails[k] /\ \A j \in Jobs \ {k} : mails'[j] = mails[j]
      BY <2>1
    <3> HIDE DEF k
    <3> QED
      BY <2>1, <2>2, <3>1, <3>2, <1>6 DEF k
  <2>3. CASE worker' = [worker EXCEPT ![w] = Resting]
    <3>1. Resting.pc = "idle" /\ Resting.job = NoJob /\ NoJob \notin Jobs
      BY OutboxAssumption DEF Resting, Doing
    <3>2. ASSUME NEW j \in Jobs PROVE Pays(w, Resting, j)
      <4>1. ~Carries(Resting, j)
        BY <3>1 DEF Carries
      <4>2. CASE j # k
        <5>1. Open(j)' => Open(j)
          BY <2>1, <2>3, <4>2, OthersOpen
        <5> QED
          BY <2>1, <4>1, <4>2, <5>1 DEF Pays
      <4>3. CASE j = k
        BY <2>1, <4>1, <4>3 DEF Pays
      <4> QED
        BY <4>2, <4>3
    <3> QED
      BY <1>2, <2>3, <3>1, <3>2
  <2> QED
    BY <1>10, <2>2, <2>3 DEF Crash
<1> QED
  BY <1>1, <1>3, <1>4, <1>5, <1>7, <1>8, <1>9, <1>10 DEF Next, Pass

\* A second email needs a fault: a crash, a failed send or a lease outlived.
\* Concurrent passes of the timers and the payment handlers alone never send
\* one confirmation twice.
THEOREM DuplicatesCorrect == Spec => []DuplicatesNeedFaults
<1> DEFINE Full == IInv /\ FreeHanded /\ \A j \in Jobs : WithinBudget(j)
<1>1. Init => Full
  <2> SUFFICES ASSUME Init PROVE Full
    OBVIOUS
  <2>1. FreeHanded
    BY DEF Init, FreeHanded, Resting, Doing
  <2>2. ASSUME NEW j \in Jobs PROVE WithinBudget(j)
    <3>1. Carriers(j) = {}
      BY OutboxAssumption DEF Init, Carriers, Carries, Resting, Doing, Carrying
    <3>2. IsFiniteSet(Carriers(j)) /\ Cardinality(Carriers(j)) = 0
      BY <3>1, FS_EmptySet
    <3>3. One(Open(j)) <= 1 /\ One(Open(j)) \in Nat /\ mails[j] = 0 /\ faults[j] = 0
      BY DEF Init, One
    <3> QED
      BY <3>2, <3>3 DEF WithinBudget
  <2> QED
    BY <2>1, <2>2, InvInit
<1>2. Full /\ [Next]_vars => Full'
  <2> SUFFICES ASSUME Full, [Next]_vars PROVE Full'
    OBVIOUS
  <2>1. IInv'
    BY InvStep
  <2>2. CASE Next
    BY <2>1, <2>2, BudgetStep
  <2>3. CASE UNCHANGED vars
    BY <2>1, <2>3 DEF vars, FreeHanded, WithinBudget, Carriers, Carries, Open, One, Working
  <2> QED
    BY <2>2, <2>3
<1>3. Full => DuplicatesNeedFaults
  <2> SUFFICES ASSUME Full, NEW j \in Jobs PROVE mails[j] <= 1 + faults[j]
    BY DEF DuplicatesNeedFaults
  <2>1. Cardinality(Carriers(j)) \in Nat /\ One(Open(j)) \in Nat
        /\ Cardinality(Carriers(j)) + One(Open(j)) + mails[j] <= 1 + faults[j]
    BY FS_CardinalityType DEF WithinBudget, One
  <2>2. mails[j] \in Nat /\ faults[j] \in Nat
    BY OutboxAssumption DEF IInv, TypeOK
  <2> QED
    BY <2>1, <2>2
<1> HIDE DEF Full
<1> QED
  BY <1>1, <1>2, <1>3, PTL DEF Spec
=============================================================================
