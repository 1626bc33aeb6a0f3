--------------------------- MODULE PushCampaigns ---------------------------
(***************************************************************************)
(* Advertising campaigns (push-campaigns.service.ts): drafts of staff and  *)
(* of one store, the review of the store's drafts, scheduling, immediate   *)
(* sending, cancellation, and the timer of each process that claims due    *)
(* campaigns under a ten-minute lease and pushes them to their recipients. *)
(*                                                                         *)
(* A request reads the campaign (and the store's day) in one step and      *)
(* writes it without a condition in another.  A campaign's text is its     *)
(* version.  One day passes; the recipients are those the audience         *)
(* resolves to, fewer of them at one time than at another.                 *)
(***************************************************************************)
EXTENDS Integers, FiniteSets, Functions

CONSTANTS
    Campaigns, NoCampaign,
    Users,           \* recipients
    Workers,         \* processes, each with its timer and `processing' flag
    Requests,        \* concurrent requests of staff and of the store
    DailyLimit,      \* VENDOR_DAILY_SEND_LIMIT
    BatchSize,       \* deliveries sent at a time
    MaxVersions,     \* bound: versions of a campaign's text
    MaxRequests,     \* bound: requests made
    MaxFaults        \* bound: crashes, lost saves, leases outlived

Versions == 1..MaxVersions

ASSUME CampaignsAssumption ==
    /\ NoCampaign \notin Campaigns
    /\ IsFiniteSet(Campaigns) /\ IsFiniteSet(Users)
    /\ DailyLimit \in Nat /\ BatchSize \in Nat \ {0}
    /\ MaxVersions \in Nat \ {0} /\ MaxRequests \in Nat /\ MaxFaults \in Nat

VARIABLES
    status,      \* PushCampaign.status, "none" before it is created
    vendor,      \* campaigns with a storeId
    approval,    \* PushCampaign.approvalStatus
    version,     \* its title, message, image and link
    due,         \* campaigns whose scheduledAt has come
    old,         \* campaigns whose startedAt is more than ten minutes ago
    delivery,    \* PushCampaignDelivery.status, "none" without a row
    active,      \* Store.isActive
    worker,      \* what each process is doing
    request,     \* what each request is doing
    approved,    \* versions that carried APPROVED at some time
    pushed,      \* messages that reached a user, by campaign, user and version
    requests, faults,
    stale        \* writes to a campaign whose status had moved on since the read

row == <<status, vendor, approval, version, due>>
ghost == <<approved, pushed>>
vars == <<row, old, delivery, active, worker, request, ghost, requests, faults, stale>>

-----------------------------------------------------------------------------
CampaignStatus == {"none", "DRAFT", "SCHEDULED", "SENDING", "SENT", "CANCELLED", "FAILED"}
ApprovalStatus == {"NOT_REQUIRED", "PENDING", "APPROVED", "REJECTED"}
Outcomes == {"DELIVERED", "FAILED", "SKIPPED"}
Operations == {"update", "updateForStore", "schedule", "send", "cancel", "approve", "reject"}

Worker == [pc: {"idle", "find", "claim", "open", "enrol", "loop", "batch", "finish", "fail"},
           todo: SUBSET Campaigns,          \* due campaigns found by the pass
           job: Campaigns \cup {NoCampaign},
           text: Versions \cup {0},         \* the campaign as processCampaign read it
           batch: [Users -> Outcomes \cup {"none", "sending"}]]

Request == [pc: {"idle", "reset", "write"},
            job: Campaigns \cup {NoCampaign},
            op: Operations \cup {"none"}]

NoBatch == [u \in Users |-> "none"]
Working(pc, todo, c, text) ==
    [pc |-> pc, todo |-> todo, job |-> c, text |-> text, batch |-> NoBatch]
Resting == Working("idle", {}, NoCampaign, 0)
Asking(pc, c, op) == [pc |-> pc, job |-> c, op |-> op]
NoRequest == Asking("idle", NoCampaign, "none")

TypeOK ==
    /\ status \in [Campaigns -> CampaignStatus]
    /\ vendor \subseteq Campaigns
    /\ approval \in [Campaigns -> ApprovalStatus]
    /\ version \in [Campaigns -> Versions]
    /\ due \subseteq Campaigns /\ old \subseteq Campaigns
    /\ delivery \in [Campaigns -> [Users -> Outcomes \cup {"none", "PENDING"}]]
    /\ active \in BOOLEAN
    /\ worker \in [Workers -> Worker]
    /\ request \in [Requests -> Request]
    /\ approved \subseteq Campaigns \X Versions
    /\ pushed \in [Campaigns \X Users -> [Versions -> Nat]]
    /\ requests \in 0..MaxRequests /\ faults \in 0..MaxFaults /\ stale \in Nat

Init ==
    /\ status = [c \in Campaigns |-> "none"]
    /\ vendor = {}
    /\ approval = [c \in Campaigns |-> "NOT_REQUIRED"]
    /\ version = [c \in Campaigns |-> 1]
    /\ due = {} /\ old = {}
    /\ delivery = [c \in Campaigns |-> [u \in Users |-> "none"]]
    /\ active = TRUE
    /\ worker = [w \in Workers |-> Resting]
    /\ request = [r \in Requests |-> NoRequest]
    /\ approved = {}
    /\ pushed = [x \in Campaigns \X Users |-> [v \in Versions |-> 0]]
    /\ requests = 0 /\ faults = 0 /\ stale = 0

-----------------------------------------------------------------------------
(***************************************************************************)
(* Requests.                                                               *)
(***************************************************************************)
Create(c) ==
    /\ status[c] = "none"
    /\ status' = [status EXCEPT ![c] = "DRAFT"]
    /\ UNCHANGED <<vendor, approval, version, due, old, delivery, active, worker, request,
                   ghost, requests, faults, stale>>

CreateForStore(c) ==
    /\ status[c] = "none" /\ active
    /\ status' = [status EXCEPT ![c] = "DRAFT"]
    /\ vendor' = vendor \cup {c}
    /\ approval' = [approval EXCEPT ![c] = "PENDING"]
    /\ UNCHANGED <<version, due, old, delivery, active, worker, request,
                   ghost, requests, faults, stale>>

ensureDeliveryApproved(c) == c \in vendor => approval[c] = "APPROVED"

\* assertVendorDailyLimit: other campaigns of the store with a date on this day.
WithinDailyLimit(c) ==
    c \in vendor =>
        Cardinality({d \in vendor \ {c} : status[d] \in {"SCHEDULED", "SENDING", "SENT"}}) < DailyLimit

Sendable == {"DRAFT", "SCHEDULED", "FAILED"}

\* What each operation demands of the campaign it reads.  Staff and the owner of
\* the store share schedule, send and cancel; the owner needs an active store for
\* the first two, and alone may schedule a FAILED campaign.
Allowed(c, op) ==
    \/ op = "update" /\ status[c] \in {"DRAFT", "SCHEDULED"}
    \/ op = "updateForStore" /\ c \in vendor /\ active /\ status[c] = "DRAFT"
    \/ /\ op = "schedule" /\ ensureDeliveryApproved(c) /\ WithinDailyLimit(c)
       /\ \/ status[c] \in {"DRAFT", "SCHEDULED"}
          \/ status[c] = "FAILED" /\ c \in vendor /\ active
    \/ /\ op = "send" /\ ensureDeliveryApproved(c) /\ WithinDailyLimit(c)
       /\ status[c] \in Sendable
    \/ op = "cancel" /\ status[c] \in {"DRAFT", "SCHEDULED", "SENDING"}
    \/ op \in {"approve", "reject"} /\ c \in vendor /\ status[c] = "DRAFT"

Read(r, c, op) ==
    /\ request[r] = NoRequest /\ requests < MaxRequests
    /\ Allowed(c, op)
    /\ requests' = requests + 1
    /\ request' = [request EXCEPT ![r] =
           Asking(IF op = "send" /\ status[c] = "FAILED" THEN "reset" ELSE "write", c, op)]
    /\ UNCHANGED <<row, old, delivery, active, worker, ghost, faults, stale>>

\* Ghost: nothing in the code notices that the status is no longer one of those.
Counted(c, expected) == stale' = IF status[c] \in expected THEN stale ELSE stale + 1

\* Sending a FAILED campaign again retries the recipients it failed for.
ResetDeliveries(r) ==
    LET c == request[r].job
    IN /\ request[r].pc = "reset"
       /\ delivery' = [delivery EXCEPT ![c] =
              [u \in Users |-> IF @[u] = "FAILED" THEN "PENDING" ELSE @[u]]]
       /\ request' = [request EXCEPT ![r].pc = "write"]
       /\ Counted(c, {"FAILED"})
       /\ UNCHANGED <<row, old, active, worker, ghost, requests, faults>>

Writes(r, ops) ==
    /\ request[r].pc = "write" /\ request[r].op \in ops
    /\ request' = [request EXCEPT ![r] = NoRequest]
    /\ UNCHANGED <<old, delivery, active, worker, requests, faults, vendor, pushed>>

\* A new text returns a store's campaign to review; update also to draft.  The
\* guard on the version is the bound.
WriteUpdate(r) ==
    LET c == request[r].job
        review == c \in vendor
    IN /\ Writes(r, {"update", "updateForStore"})
       /\ version[c] < MaxVersions
       /\ version' = [version EXCEPT ![c] = @ + 1]
       /\ approval' = [approval EXCEPT ![c] = IF review THEN "PENDING" ELSE @]
       /\ IF review /\ request[r].op = "update"
          THEN /\ status' = [status EXCEPT ![c] = "DRAFT"] /\ due' = due \ {c}
               /\ Counted(c, {"DRAFT", "SCHEDULED"})
          ELSE UNCHANGED <<status, due, stale>>
       /\ UNCHANGED approved

WriteSchedule(r) ==
    LET c == request[r].job
    IN /\ Writes(r, {"schedule", "send"})
       /\ status' = [status EXCEPT ![c] = "SCHEDULED"]
       /\ due' = IF request[r].op = "send" THEN due \cup {c} ELSE due \ {c}
       /\ Counted(c, Sendable)
       /\ UNCHANGED <<approval, version, approved>>

WriteCancel(r) ==
    /\ Writes(r, {"cancel"})
    /\ status' = [status EXCEPT ![request[r].job] = "CANCELLED"]
    /\ UNCHANGED <<approval, version, due, approved, stale>>

\* reviewVendorCampaign approves the text that is there when it writes.
WriteReview(r) ==
    LET c == request[r].job
        yes == request[r].op = "approve"
    IN /\ Writes(r, {"approve", "reject"})
       /\ approval' = [approval EXCEPT ![c] = IF yes THEN "APPROVED" ELSE "REJECTED"]
       /\ approved' = IF yes THEN approved \cup {<<c, version[c]>>} ELSE approved
       /\ UNCHANGED <<status, version, due, stale>>

\* External to the service: time passes, and staff close or open the store.
DueArrives(c) ==
    /\ status[c] = "SCHEDULED" /\ c \notin due
    /\ due' = due \cup {c}
    /\ UNCHANGED <<status, vendor, approval, version, old, delivery, active, worker, request,
                   ghost, requests, faults, stale>>

StoreCloses ==
    /\ active /\ active' = FALSE
    /\ UNCHANGED <<row, old, delivery, worker, request, ghost, requests, faults, stale>>

\* Ten minutes go by: the process that claimed the campaign died, or is slow.
LeaseLapses(c) ==
    /\ status[c] = "SENDING" /\ c \notin old
    /\ IF \E w \in Workers : worker[w].job = c
       THEN faults < MaxFaults /\ faults' = faults + 1
       ELSE UNCHANGED faults
    /\ old' = old \cup {c}
    /\ UNCHANGED <<row, delivery, active, worker, request, ghost, requests, stale>>

-----------------------------------------------------------------------------
(***************************************************************************)
(* processDueCampaigns.  The flag `processing' keeps a process from        *)
(* starting a second pass.                                                 *)
(***************************************************************************)
Idles(w) == UNCHANGED <<vendor, approval, version, active, request, requests, stale>>
Goes(w, job) == worker' = [worker EXCEPT ![w] = job]

FaultyReleasable == {}

Releasable == {c \in old : status[c] = "SENDING"}

StartPass(w) ==
    /\ worker[w] = Resting
    /\ status' = [c \in Campaigns |-> IF c \in Releasable THEN "SCHEDULED" ELSE status[c]]
    /\ due' = due \cup Releasable
    /\ old' = old \ Releasable
    /\ Goes(w, Working("find", {}, NoCampaign, 0))
    /\ Idles(w) /\ UNCHANGED <<delivery, ghost, faults>>

\* Fewer campaigns than the page of five; the clocks of the processes may differ,
\* so `scheduledAt <= now' holds of every campaign whose time has come.
Due == {c \in due : status[c] = "SCHEDULED" /\ approval[c] \in {"NOT_REQUIRED", "APPROVED"}}

FindDue(w) ==
    /\ worker[w].pc = "find"
    /\ Goes(w, Working("claim", Due, NoCampaign, 0))
    /\ Idles(w) /\ UNCHANGED <<status, due, old, delivery, ghost, faults>>

\* The conditional update; it does not look at the approval again.
Claimable(c) == c \in due /\ status[c] = "SCHEDULED"

Claim(w) ==
    /\ worker[w].pc = "claim"
    /\ \E c \in worker[w].todo :
          LET todo == worker[w].todo \ {c}
          IN IF Claimable(c)
             THEN /\ status' = [status EXCEPT ![c] = "SENDING"]
                  /\ old' = old \ {c}
                  /\ Goes(w, Working("open", todo, c, 0))
             ELSE Goes(w, Working("claim", todo, NoCampaign, 0)) /\ UNCHANGED <<status, old>>
    /\ Idles(w) /\ UNCHANGED <<due, delivery, ghost, faults>>

EndPass(w) ==
    /\ worker[w].pc = "claim" /\ worker[w].todo = {}
    /\ Goes(w, Resting)
    /\ Idles(w) /\ UNCHANGED <<status, due, old, delivery, ghost, faults>>

NextJob(w) == Goes(w, Working("claim", worker[w].todo, NoCampaign, 0))

-----------------------------------------------------------------------------
(***************************************************************************)
(* processCampaign: the campaign is read again, and its text is kept.      *)
(***************************************************************************)
FaultyDeliverableNow(c) == c \in vendor => active

DeliverableNow(c) == ensureDeliveryApproved(c) /\ (c \in vendor => active)

Open(w) ==
    LET c == worker[w].job
        to(pc) == Working(pc, worker[w].todo, c, version[c])
    IN /\ worker[w].pc = "open"
       /\ Goes(w, to(IF DeliverableNow(c) THEN "enrol" ELSE "fail"))
       /\ Idles(w) /\ UNCHANGED <<status, due, old, delivery, ghost, faults>>

\* resolveAudience and createMany with skipDuplicates; the audience may grow.
Enrol(w) ==
    LET c == worker[w].job
    IN /\ worker[w].pc = "enrol"
       /\ \E audience \in SUBSET Users :
             delivery' = [delivery EXCEPT ![c] =
                 [u \in Users |-> IF @[u] = "none" /\ u \in audience THEN "PENDING" ELSE @[u]]]
       /\ Goes(w, Working("loop", worker[w].todo, c, worker[w].text))
       /\ Idles(w) /\ UNCHANGED <<status, due, old, ghost, faults>>

FaultyPending(c) == {u \in Users : delivery[c][u] \in {"PENDING", "DELIVERED"}}

Pending(c) == {u \in Users : delivery[c][u] = "PENDING"}

FaultyBatches(c) == {{}}

\* The next deliveries to send, BatchSize of them while there are as many.
Batches(c) ==
    {b \in SUBSET Pending(c) :
        Cardinality(b) = IF Cardinality(Pending(c)) < BatchSize THEN Cardinality(Pending(c))
                         ELSE BatchSize}

\* A campaign that is no longer SENDING (cancelled) is left alone.
TakeBatch(w) ==
    LET c == worker[w].job
    IN /\ worker[w].pc = "loop"
       /\ IF status[c] # "SENDING" THEN NextJob(w)
          ELSE \E b \in Batches(c) :
                 Goes(w, IF b = {} THEN [worker[w] EXCEPT !.pc = "finish"]
                         ELSE [worker[w] EXCEPT !.pc = "batch",
                                  !.batch = [u \in Users |-> IF u \in b THEN "sending" ELSE "none"]])
       /\ Idles(w) /\ UNCHANGED <<status, due, old, delivery, ghost, faults>>

\* notifyMarketingUser: shown or accepted, refused, or skipped by preference.
Push(w, u) ==
    LET x == <<worker[w].job, u>>
    IN /\ worker[w].batch[u] = "sending"
       /\ \E outcome \in Outcomes :
             /\ Goes(w, [worker[w] EXCEPT !.batch[u] = outcome])
             /\ pushed' = IF outcome = "DELIVERED"
                          THEN [pushed EXCEPT ![x][worker[w].text] = @ + 1] ELSE pushed
       /\ Idles(w) /\ UNCHANGED <<status, due, old, delivery, approved, faults>>

\* The save of the outcome; if it fails, the catch branch records FAILED.
SaveDelivery(w, u) ==
    LET c == worker[w].job
    IN /\ worker[w].batch[u] \in Outcomes
       /\ \/ /\ delivery' = [delivery EXCEPT ![c][u] = worker[w].batch[u]]
             /\ UNCHANGED faults
          \/ /\ faults < MaxFaults /\ faults' = faults + 1
             /\ delivery' = [delivery EXCEPT ![c][u] = "FAILED"]
       /\ Goes(w, [worker[w] EXCEPT !.batch[u] = "none"])
       /\ Idles(w) /\ UNCHANGED <<status, due, old, ghost>>

EndBatch(w) ==
    /\ worker[w].pc = "batch" /\ worker[w].batch = NoBatch
    /\ Goes(w, [worker[w] EXCEPT !.pc = "loop"])
    /\ Idles(w) /\ UNCHANGED <<status, due, old, delivery, ghost, faults>>

\* The counts, and SENT or FAILED if the campaign is still SENDING.
FinishCampaign(w) ==
    LET c == worker[w].job
        result == IF worker[w].pc = "finish" THEN "SENT" ELSE "FAILED"
    IN /\ worker[w].pc \in {"finish", "fail"}
       /\ status' = [status EXCEPT ![c] = IF @ = "SENDING" THEN result ELSE @]
       /\ NextJob(w)
       /\ Idles(w) /\ UNCHANGED <<due, old, delivery, ghost, faults>>

\* A query of processCampaign fails, and its catch branch is taken.
QueryFails(w) ==
    /\ worker[w].pc \in {"open", "enrol", "loop", "finish"}
    /\ faults < MaxFaults /\ faults' = faults + 1
    /\ Goes(w, [worker[w] EXCEPT !.pc = "fail"])
    /\ Idles(w) /\ UNCHANGED <<status, due, old, delivery, ghost>>

\* The process dies, or the catch branch of the pass ends it: nothing is written.
Crash(w) ==
    /\ worker[w] # Resting
    /\ faults < MaxFaults /\ faults' = faults + 1
    /\ Goes(w, Resting)
    /\ Idles(w) /\ UNCHANGED <<status, due, old, delivery, ghost>>

-----------------------------------------------------------------------------
Step(w) ==
    \/ StartPass(w) \/ FindDue(w) \/ Claim(w) \/ EndPass(w)
    \/ Open(w) \/ Enrol(w) \/ TakeBatch(w) \/ EndBatch(w) \/ FinishCampaign(w)
    \/ \E u \in Users : Push(w, u) \/ SaveDelivery(w, u)

Write(r) ==
    \/ ResetDeliveries(r) \/ WriteUpdate(r) \/ WriteSchedule(r)
    \/ WriteCancel(r) \/ WriteReview(r)

Next ==
    \/ \E c \in Campaigns : \/ Create(c) \/ CreateForStore(c)
                            \/ DueArrives(c) \/ LeaseLapses(c)
    \/ StoreCloses
    \/ \E r \in Requests : \/ \E c \in Campaigns, op \in Operations : Read(r, c, op)
                           \/ Write(r)
    \/ \E w \in Workers : Step(w) \/ QueryFails(w) \/ Crash(w)

Spec == Init /\ [][Next]_vars

\* The timers keep firing, a request that has read also writes, and time passes.
FairSpec ==
    /\ Spec
    /\ \A w \in Workers : WF_vars(Step(w))
    /\ \A r \in Requests : WF_vars(Write(r))
    /\ \A c \in Campaigns : WF_vars(DueArrives(c)) /\ WF_vars(LeaseLapses(c))

-----------------------------------------------------------------------------
\* A store's text reaches a customer only if that very text carried staff's
\* approval, although the claim does not look at it and the store may edit,
\* schedule and be reviewed at the same time (ensureDeliveryApproved).
OnlyApprovedIsPushed ==
    \A c \in vendor, u \in Users, v \in Versions :
        pushed[<<c, u>>][v] > 0 => <<c, v>> \in approved

\* No crash, lost save or outlived lease so far, and no request that acted on a
\* status which had moved on.
Undisturbed == faults + stale = 0

\* Without those a customer gets a campaign once, in one of its versions, however
\* the requests and the timers of the processes interleave, and although a
\* FAILED campaign is sent again to those it failed for.
NobodyTwice ==
    \A c \in Campaigns, u \in Users : Undisturbed => SumFunction(pushed[<<c, u>>]) <= 1

\* A campaign shown as SENT has been tried for everyone it was addressed to,
\* as long as none of those disturbances happened (processCampaign).
SentIsComplete ==
    \A c \in Campaigns : Undisturbed /\ status[c] = "SENT" => Pending(c) = {}

\* Everyone is reached and nobody twice, but for those disturbances.
ReachesEveryoneOnce == NobodyTwice /\ SentIsComplete

\* A scheduled campaign does not stay so for ever: it is sent, fails, is
\* cancelled or goes back to review, even if its process dies.
ScheduledEnds ==
    \A c \in Campaigns :
        status[c] \in {"SCHEDULED", "SENDING"} /\ ensureDeliveryApproved(c) ~>
            status[c] \notin {"SCHEDULED", "SENDING"} \/ ~ensureDeliveryApproved(c)
=============================================================================
