------------------------- MODULE ConfirmationOutbox -------------------------
(***************************************************************************)
(* The outbox of order confirmations: rows committed with the paid order,  *)
(* drained every minute and after each payment by every server process,    *)
(* under a ten-minute lease, with an email log that remembers what was     *)
(* sent.  A process may crash anywhere, a send may fail, and a slow send   *)
(* may outlive its lease.  The customer has not opted out of the emails;   *)
(* push messages, which nobody confirms, are left out.                     *)
(***************************************************************************)
EXTENDS Integers, FiniteSets

CONSTANTS
    Jobs,           \* outbox rows, one per order
    Workers,        \* server processes
    NoJob,          \* the job of a worker that has none
    MaxFaults       \* bound: crashes, failed sends, leases outlived

ASSUME OutboxAssumption ==
    /\ IsFiniteSet(Jobs) /\ NoJob \notin Jobs
    /\ MaxFaults \in Nat

VARIABLES
    row,        \* OrderConfirmationOutbox.status, "none" before the commit
    ready,      \* availableAt has passed
    expired,    \* processingAt is more than ten minutes old
    log,        \* EmailLog.status of the event key, "none" when missing
    inbox,      \* Notification rows by event key
    mails,      \* external: emails that left, per job
    worker,     \* what each process is doing
    faults      \* faults so far, per job

vars == <<row, ready, expired, log, inbox, mails, worker, faults>>

RowStatus == {"none", "PENDING", "PROCESSING", "FAILED", "PROCESSED"}
LogStatus == {"none", "PENDING", "SENT", "FAILED"}

\* A worker is idle exactly when processingOrderConfirmations is false; todo are
\* the rows its pass selected and has not looked at yet.
Worker == [pc: {"idle", "next", "claimed", "email", "send", "sent", "unsent", "finish", "failed"},
           todo: SUBSET Jobs, job: Jobs \cup {NoJob}]

Doing(pc, todo, j) == [pc |-> pc, todo |-> todo, job |-> j]
Resting == Doing("idle", {}, NoJob)

TypeOK ==
    /\ row \in [Jobs -> RowStatus]
    /\ ready \in [Jobs -> BOOLEAN]
    /\ expired \in [Jobs -> BOOLEAN]
    /\ log \in [Jobs -> LogStatus]
    /\ inbox \subseteq Jobs
    /\ mails \in [Jobs -> Nat]
    /\ worker \in [Workers -> Worker]
    /\ faults \in [Jobs -> 0..MaxFaults]

Init ==
    /\ row = [j \in Jobs |-> "none"]
    /\ ready = [j \in Jobs |-> TRUE]
    /\ expired = [j \in Jobs |-> FALSE]
    /\ log = [j \in Jobs |-> "none"]
    /\ inbox = {}
    /\ mails = [j \in Jobs |-> 0]
    /\ worker = [w \in Workers |-> Resting]
    /\ faults = [j \in Jobs |-> 0]

Goes(w, pc) == worker' = [worker EXCEPT ![w] = Doing(pc, @.todo, @.job)]
Fault(j) == faults[j] < MaxFaults /\ faults' = [faults EXCEPT ![j] = @ + 1]

-----------------------------------------------------------------------------
\* completeGroup commits the row with the confirmed order.
Enqueue(j) ==
    /\ row[j] = "none"
    /\ row' = [row EXCEPT ![j] = "PENDING"]
    /\ UNCHANGED <<ready, expired, log, inbox, mails, worker, faults>>

\* Time passes: a backoff ends, or a lease runs out.
BackoffEnds(j) ==
    /\ ~ready[j]
    /\ ready' = [ready EXCEPT ![j] = TRUE]
    /\ UNCHANGED <<row, expired, log, inbox, mails, worker, faults>>

Working(j) == \E w \in Workers : worker[w].job = j

LeaseExpires(j) ==
    /\ row[j] = "PROCESSING" /\ ~expired[j]
    /\ expired' = [expired EXCEPT ![j] = TRUE]
    /\ IF Working(j) THEN Fault(j) ELSE UNCHANGED faults
    /\ UNCHANGED <<row, ready, log, inbox, mails, worker>>

-----------------------------------------------------------------------------
FaultyReleasable(j) == FALSE

\* A lease of ten minutes has run out: its process is taken for dead.
Releasable(j) == row[j] = "PROCESSING" /\ expired[j]

\* processOrderConfirmations: one pass at a time in a process; stale leases are
\* released, then the due rows selected (those of the order just paid, or all).
Start(w, wanted) ==
    LET released == {j \in Jobs : Releasable(j)}
        due == {j \in wanted : ready[j] /\ (row[j] \in {"PENDING", "FAILED"} \/ j \in released)}
    IN /\ worker[w].pc = "idle" /\ due # {}
       /\ row' = [j \in Jobs |-> IF j \in released THEN "PENDING" ELSE row[j]]
       /\ expired' = [j \in Jobs |-> expired[j] /\ j \notin released]
       /\ worker' = [worker EXCEPT ![w] = Doing("next", due, NoJob)]
       /\ UNCHANGED <<ready, log, inbox, mails, faults>>

FaultyClaimable(j) == row[j] # "PROCESSED"

Claimable(j) == row[j] \in {"PENDING", "FAILED"} /\ ready[j]

\* The conditional update; a row another process took is skipped.
Claim(w, j) ==
    /\ worker[w].pc = "next" /\ j \in worker[w].todo
    /\ IF Claimable(j)
       THEN /\ row' = [row EXCEPT ![j] = "PROCESSING"]
            /\ expired' = [expired EXCEPT ![j] = FALSE]
            /\ worker' = [worker EXCEPT ![w] = Doing("claimed", @.todo \ {j}, j)]
       ELSE /\ worker' = [worker EXCEPT ![w] = Doing("next", @.todo \ {j}, NoJob)]
            /\ UNCHANGED <<row, expired>>
    /\ UNCHANGED <<ready, log, inbox, mails, faults>>

PassEnds(w) ==
    /\ worker[w].pc = "next" /\ worker[w].todo = {}
    /\ worker' = [worker EXCEPT ![w] = Resting]
    /\ UNCHANGED <<row, ready, expired, log, inbox, mails, faults>>

-----------------------------------------------------------------------------
(***************************************************************************)
(* dispatchOrderConfirmation and MailService.sendTemplate.                 *)
(***************************************************************************)
InApp(w) ==
    /\ worker[w].pc = "claimed"
    /\ inbox' = inbox \cup {worker[w].job}
    /\ Goes(w, "email")
    /\ UNCHANGED <<row, ready, expired, log, mails, faults>>

FaultyAlreadySent(j) == log[j] \in {"SENT", "PENDING"}

AlreadySent(j) == log[j] = "SENT"

OpenLog(w) ==
    LET j == worker[w].job
    IN /\ worker[w].pc = "email"
       /\ IF AlreadySent(j)
          THEN UNCHANGED log /\ Goes(w, "finish")
          ELSE log' = [log EXCEPT ![j] = "PENDING"] /\ Goes(w, "send")
       /\ UNCHANGED <<row, ready, expired, inbox, mails, faults>>

\* The SMTP server takes the message; an error may be reported all the same.
Send(w) ==
    LET j == worker[w].job
    IN /\ worker[w].pc = "send"
       /\ \/ /\ mails' = [mails EXCEPT ![j] = @ + 1]
             /\ Goes(w, "sent")
             /\ UNCHANGED faults
          \/ /\ Fault(j)
             /\ mails' \in {mails, [mails EXCEPT ![j] = @ + 1]}
             /\ Goes(w, "unsent")
       /\ UNCHANGED <<row, ready, expired, log, inbox>>

SaveSent(w) ==
    /\ worker[w].pc = "sent"
    /\ log' = [log EXCEPT ![worker[w].job] = "SENT"]
    /\ Goes(w, "finish")
    /\ UNCHANGED <<row, ready, expired, inbox, mails, faults>>

SaveUnsent(w) ==
    /\ worker[w].pc = "unsent"
    /\ log' = [log EXCEPT ![worker[w].job] = "FAILED"]
    /\ Goes(w, "failed")
    /\ UNCHANGED <<row, ready, expired, inbox, mails, faults>>

Finish(w) ==
    /\ worker[w].pc = "finish"
    /\ row' = [row EXCEPT ![worker[w].job] = "PROCESSED"]
    /\ expired' = [expired EXCEPT ![worker[w].job] = FALSE]
    /\ worker' = [worker EXCEPT ![w] = Doing("next", @.todo, NoJob)]
    /\ UNCHANGED <<ready, log, inbox, mails, faults>>

\* The catch branch: FAILED, to be tried again after a growing delay.
BackOff(w) ==
    LET j == worker[w].job
    IN /\ worker[w].pc = "failed"
       /\ row' = [row EXCEPT ![j] = "FAILED"]
       /\ ready' = [ready EXCEPT ![j] = FALSE]
       /\ expired' = [expired EXCEPT ![j] = FALSE]
       /\ worker' = [worker EXCEPT ![w] = Doing("next", @.todo, NoJob)]
       /\ UNCHANGED <<log, inbox, mails, faults>>

\* The process stops, or a query fails inside the dispatch and is caught.
Crash(w) ==
    LET j == worker[w].job
    IN /\ j # NoJob /\ Fault(j)
       /\ \/ worker' = [worker EXCEPT ![w] = Resting]
          \/ worker[w].pc # "failed" /\ Goes(w, "failed")
       /\ UNCHANGED <<row, ready, expired, log, inbox, mails>>

-----------------------------------------------------------------------------
Pass(w) == (\E j \in Jobs : Claim(w, j)) \/ PassEnds(w) \/ InApp(w) \/ OpenLog(w) \/ Send(w)
           \/ SaveSent(w) \/ SaveUnsent(w) \/ Finish(w) \/ BackOff(w)

Next ==
    \/ \E j \in Jobs : Enqueue(j) \/ BackoffEnds(j) \/ LeaseExpires(j)
    \/ \E w \in Workers :
          \/ \E wanted \in {Jobs} \cup {{j} : j \in Jobs} : Start(w, wanted)
          \/ Pass(w) \/ Crash(w)

Spec == Init /\ [][Next]_vars

\* The one-minute timer starts passes, a pass runs to its end, and time passes.
Fairness ==
    /\ \A w \in Workers : WF_vars(Start(w, Jobs)) /\ WF_vars(Pass(w))
    /\ \A j \in Jobs : WF_vars(BackoffEnds(j)) /\ WF_vars(LeaseExpires(j))

FairSpec == Spec /\ Fairness

-----------------------------------------------------------------------------
\* A row is marked PROCESSED only after its email has left: no crash, lease
\* takeover or failed send loses a confirmation.
ProcessedIsMailed == \A j \in Jobs : row[j] = "PROCESSED" => mails[j] > 0

\* A customer gets a second email only for a fault: concurrent passes of the
\* timer and of the payment handlers never send one confirmation twice.
DuplicatesNeedFaults == \A j \in Jobs : mails[j] <= 1 + faults[j]

\* Every committed confirmation is processed in the end.
ConfirmationArrives == \A j \in Jobs : row[j] = "PENDING" ~> row[j] = "PROCESSED"
=============================================================================
