------------------------ MODULE PushCampaignsProofs ------------------------
(***************************************************************************)
(* OnlyApprovedIsPushed and ReachesEveryoneOnce for any number of          *)
(* campaigns, customers, processes and concurrent requests.  A process     *)
(* sends the text it kept when it read the campaign, so the invariant has  *)
(* to say that this text was approved then; and it must follow the         *)
(* approval, which belongs to the version.                                 *)
(***************************************************************************)
EXTENDS PushCampaigns, SumTheorems, TLAPS

\* Approval is of the text that is there.
ApprovalEarned ==
    \A c \in vendor : approval[c] = "APPROVED" => <<c, version[c]>> \in approved

\* Only a campaign that exists is a store's.
VendorsExist == \A c \in vendor : status[c] # "none"

\* Nothing is sent of a campaign before it exists.
PushedExist ==
    \A c \in Campaigns, u \in Users, v \in Versions :
        pushed[<<c, u>>][v] # 0 => status[c] # "none"

\* What a process works on exists, and the text it sends has been approved.
JobSound(job) ==
    /\ \A c \in job.todo : status[c] # "none"
    /\ job.pc \in {"open", "enrol", "loop", "batch", "finish", "fail"} =>
          job.job \in Campaigns /\ status[job.job] # "none"
    /\ job.pc \in {"enrol", "loop", "batch", "finish"} =>
          /\ job.text \in Versions
          /\ job.job \in vendor => <<job.job, job.text>> \in approved
    /\ job.pc # "batch" => job.batch = NoBatch

RequestSound(r) ==
    request[r].pc # "idle" =>
        request[r].job \in Campaigns /\ status[request[r].job] # "none"

\* The inductive invariant.
IInv ==
    /\ TypeOK
    /\ ApprovalEarned /\ VendorsExist /\ PushedExist
    /\ \A w \in Workers : JobSound(worker[w])
    /\ \A r \in Requests : RequestSound(r)
    /\ OnlyApprovedIsPushed

-----------------------------------------------------------------------------
\* Campaigns do not vanish, none becomes a store's later, no approval is unmade.
Monotone ==
    /\ \A c \in Campaigns : status[c] # "none" => status'[c] # "none"
    /\ \A c \in Campaigns : c \in vendor' => c \in vendor \/ status[c] = "none"
    /\ approved \subseteq approved'

\* Whoever is not disturbed by a step stays sound.
LEMMA OthersSound ==
    ASSUME IInv, Monotone
    PROVE  /\ \A w \in Workers : worker'[w] = worker[w] => JobSound(worker[w])'
           /\ \A r \in Requests : request'[r] = request[r] => RequestSound(r)'
<1>1. ASSUME NEW w \in Workers, worker'[w] = worker[w] PROVE JobSound(worker[w])'
  <2>1. JobSound(worker[w]) /\ worker[w].todo \subseteq Campaigns
    BY DEF IInv, TypeOK, Worker
  <2> QED
    BY <1>1, <2>1 DEF JobSound, Monotone
<1>2. ASSUME NEW r \in Requests, request'[r] = request[r] PROVE RequestSound(r)'
  BY <1>2 DEF IInv, RequestSound, Monotone
<1> QED
  BY <1>1, <1>2

\* The records processes and requests keep are well typed.
LEMMA RecordTypes ==
    /\ \A pc, todo, c, text :
          /\ pc \in {"idle", "find", "claim", "open", "enrol", "loop", "batch", "finish", "fail"}
          /\ todo \subseteq Campaigns /\ c \in Campaigns \cup {NoCampaign}
          /\ text \in Versions \cup {0}
          => Working(pc, todo, c, text) \in Worker
    /\ NoRequest \in Request
  BY DEF Working, Worker, NoBatch, NoRequest, Asking, Request

\* A step of a process that leaves it sound and pushes nothing unapproved.
LEMMA WorkerStep ==
    ASSUME IInv, NEW w \in Workers, NEW job \in Worker,
           worker' = [worker EXCEPT ![w] = job], Idles(w), UNCHANGED approved,
           status' \in [Campaigns -> CampaignStatus],
           \A c \in Campaigns : status[c] # "none" => status'[c] # "none",
           due' \subseteq Campaigns, old' \subseteq Campaigns,
           delivery' \in [Campaigns -> [Users -> Outcomes \cup {"none", "PENDING"}]],
           pushed' \in [Campaigns \X Users -> [Versions -> Nat]],
           \A c \in Campaigns, u \in Users, v \in Versions :
               pushed'[<<c, u>>][v] = pushed[<<c, u>>][v] \/ status[c] # "none",
           faults' \in 0..MaxFaults,
           JobSound(job)', OnlyApprovedIsPushed'
    PROVE  IInv'
<1>1. /\ UNCHANGED <<vendor, approval, version, active, request, requests, stale>>
      /\ \A v \in Workers : worker'[v] = IF v = w THEN job ELSE worker[v]
  BY DEF Idles, IInv, TypeOK
<1>2. TypeOK'
  BY <1>1 DEF IInv, TypeOK
<1>3. Monotone
  BY <1>1 DEF Monotone
<1>4. ApprovalEarned' /\ VendorsExist'
  BY <1>1, <1>3 DEF IInv, TypeOK, ApprovalEarned, VendorsExist
<1>5. \A v \in Workers : JobSound(worker[v])'
  <2>1. ASSUME NEW v \in Workers PROVE JobSound(worker[v])'
    <3>1. CASE v = w
      <4>1. worker'[v] = job
        BY <1>1, <3>1
      <4> QED
        BY <4>1 DEF JobSound
    <3>2. CASE v # w
      BY <1>1, <1>3, <3>2, OthersSound
    <3> QED
      BY <3>1, <3>2
  <2> QED
    BY <2>1
<1>6. \A r \in Requests : RequestSound(r)'
  BY <1>1, <1>3, OthersSound
<1>7. PushedExist'
  BY DEF IInv, PushedExist
<1> QED
  BY <1>2, <1>4, <1>5, <1>6, <1>7 DEF IInv

\* Most of them change nothing but the process, deliveries and faults.
LEMMA QuietStep ==
    ASSUME IInv, NEW w \in Workers, NEW job \in Worker,
           worker' = [worker EXCEPT ![w] = job], Idles(w),
           UNCHANGED <<status, due, old, approved, pushed>>,
           delivery' \in [Campaigns -> [Users -> Outcomes \cup {"none", "PENDING"}]],
           faults' \in 0..MaxFaults,
           JobSound(job)
    PROVE  IInv'
<1>1. UNCHANGED vendor
  BY DEF Idles
<1>2. JobSound(job)'
  BY <1>1 DEF JobSound
<1>3. OnlyApprovedIsPushed'
  BY <1>1 DEF IInv, OnlyApprovedIsPushed
<1> QED
  BY <1>2, <1>3, WorkerStep DEF IInv, TypeOK

\* The pass over the due campaigns, before one of them is read.
LEMMA PassStep ==
    ASSUME IInv, NEW w \in Workers,
           StartPass(w) \/ FindDue(w) \/ Claim(w) \/ EndPass(w)
    PROVE  IInv'
<1> USE CampaignsAssumption
<1>1. worker[w] \in Worker /\ JobSound(worker[w])
  BY DEF IInv, TypeOK
<1>2. CASE StartPass(w)
  <2>1. /\ worker' = [worker EXCEPT ![w] = Working("find", {}, NoCampaign, 0)]
        /\ Idles(w) /\ UNCHANGED <<approved, pushed, delivery, faults>>
        /\ due' \subseteq Campaigns /\ old' \subseteq Campaigns
        /\ status' \in [Campaigns -> CampaignStatus]
        /\ \A c \in Campaigns : status[c] # "none" => status'[c] # "none"
    BY <1>2 DEF StartPass, Goes, ghost, IInv, TypeOK, Releasable, CampaignStatus
  <2>2. Working("find", {}, NoCampaign, 0) \in Worker
    BY RecordTypes
  <2>3. JobSound(Working("find", {}, NoCampaign, 0))'
    BY DEF JobSound, Working
  <2>4. OnlyApprovedIsPushed'
    BY <2>1 DEF IInv, OnlyApprovedIsPushed, Idles
  <2> QED
    BY <2>1, <2>2, <2>3, <2>4, WorkerStep DEF IInv, TypeOK
<1>3. CASE FindDue(w)
  <2> DEFINE job == Working("claim", Due, NoCampaign, 0)
  <2>1. /\ worker' = [worker EXCEPT ![w] = job] /\ Idles(w)
        /\ UNCHANGED <<status, due, old, delivery, approved, pushed, faults>>
    BY <1>3 DEF FindDue, Goes, ghost
  <2>2. job \in Worker
    BY RecordTypes DEF IInv, TypeOK, Due
  <2>3. JobSound(job)
    BY DEF JobSound, Working, Due
  <2> HIDE DEF job
  <2> QED
    BY <2>1, <2>2, <2>3, QuietStep DEF IInv, TypeOK
<1>4. CASE Claim(w)
  <2>1. PICK c \in worker[w].todo :
           IF Claimable(c)
           THEN /\ status' = [status EXCEPT ![c] = "SENDING"]
                /\ old' = old \ {c}
                /\ worker' = [worker EXCEPT ![w] = Working("open", worker[w].todo \ {c}, c, 0)]
           ELSE /\ worker' = [worker EXCEPT ![w] =
                                Working("claim", worker[w].todo \ {c}, NoCampaign, 0)]
                /\ UNCHANGED <<status, old>>
    BY <1>4 DEF Claim, Goes
  <2>2. Idles(w) /\ UNCHANGED <<due, delivery, approved, pushed, faults>>
    BY <1>4 DEF Claim, ghost
  <2>3. worker[w].todo \subseteq Campaigns /\ c \in Campaigns
    BY <1>1, <2>1 DEF Worker
  <2>4. CASE Claimable(c)
    <3>1. PICK job \in Worker : job = Working("open", worker[w].todo \ {c}, c, 0)
      BY <2>3, RecordTypes
    <3>2. /\ worker' = [worker EXCEPT ![w] = job]
          /\ status' \in [Campaigns -> CampaignStatus] /\ old' \subseteq Campaigns
          /\ \A d \in Campaigns : status[d] # "none" => status'[d] # "none"
          /\ status'[c] = "SENDING"
      BY <2>1, <2>3, <2>4, <3>1 DEF IInv, TypeOK, CampaignStatus
    <3>3. JobSound(job)'
      BY <1>1, <2>3, <3>1, <3>2 DEF JobSound, Working
    <3>4. OnlyApprovedIsPushed'
      BY <2>2 DEF IInv, OnlyApprovedIsPushed, Idles
    <3> QED
      BY <2>2, <3>2, <3>3, <3>4, WorkerStep DEF IInv, TypeOK
  <2>5. CASE ~Claimable(c)
    <3> DEFINE job == Working("claim", worker[w].todo \ {c}, NoCampaign, 0)
    <3>1. worker' = [worker EXCEPT ![w] = job] /\ UNCHANGED <<status, old>>
      BY <2>1, <2>5
    <3>2. job \in Worker
      BY <2>3, RecordTypes
    <3>3. JobSound(job)
      BY <1>1 DEF JobSound, Working
    <3> HIDE DEF job
    <3> QED
      BY <2>2, <3>1, <3>2, <3>3, QuietStep DEF IInv, TypeOK
  <2> QED
    BY <2>4, <2>5
<1>5. CASE EndPass(w)
  <2>1. /\ worker' = [worker EXCEPT ![w] = Resting] /\ Idles(w)
        /\ UNCHANGED <<status, due, old, delivery, approved, pushed, faults>>
    BY <1>5 DEF EndPass, Goes, ghost
  <2>2. Resting \in Worker
    BY RecordTypes DEF Resting
  <2>3. JobSound(Resting)
    BY DEF JobSound, Working, Resting
  <2> QED
    BY <2>1, <2>2, <2>3, QuietStep DEF IInv, TypeOK
<1> QED
  BY <1>2, <1>3, <1>4, <1>5

\* processCampaign, up to the batch of deliveries.
LEMMA CampaignStep ==
    ASSUME IInv, NEW w \in Workers,
           Open(w) \/ Enrol(w) \/ TakeBatch(w) \/ EndBatch(w) \/ QueryFails(w) \/ Crash(w)
    PROVE  IInv'
<1> USE CampaignsAssumption
<1>1. worker[w] \in Worker /\ JobSound(worker[w])
  BY DEF IInv, TypeOK
<1>2. CASE Open(w)
  <2> DEFINE c == worker[w].job
             job == Working(IF DeliverableNow(c) THEN "enrol" ELSE "fail",
                            worker[w].todo, c, version[c])
  <2>1. /\ worker' = [worker EXCEPT ![w] = job] /\ Idles(w)
        /\ UNCHANGED <<status, due, old, delivery, approved, pushed, faults>>
    BY <1>2 DEF Open, Goes, ghost
  <2>2. c \in Campaigns /\ status[c] # "none" /\ version[c] \in Versions
    BY <1>1, <1>2 DEF Open, JobSound, IInv, TypeOK
  <2>3. job \in Worker
    BY <1>1, <2>2, RecordTypes DEF Worker
  <2>4. DeliverableNow(c) /\ c \in vendor => <<c, version[c]>> \in approved
    BY DEF DeliverableNow, ensureDeliveryApproved, IInv, ApprovalEarned
  <2>5. JobSound(job)
    BY <1>1, <2>2, <2>4 DEF JobSound, Working
  <2> HIDE DEF job
  <2> QED
    BY <2>1, <2>3, <2>5, QuietStep DEF IInv, TypeOK
<1>3. CASE Enrol(w)
  <2> DEFINE job == Working("loop", worker[w].todo, worker[w].job, worker[w].text)
  <2>1. /\ worker' = [worker EXCEPT ![w] = job] /\ Idles(w)
        /\ UNCHANGED <<status, due, old, approved, pushed, faults>>
    BY <1>3 DEF Enrol, Goes, ghost
  <2>2. delivery' \in [Campaigns -> [Users -> Outcomes \cup {"none", "PENDING"}]]
    <3> DEFINE c == worker[w].job
               Row(a) == [u \in Users |->
                   IF delivery[c][u] = "none" /\ u \in a THEN "PENDING" ELSE delivery[c][u]]
    <3>1. PICK a \in SUBSET Users : delivery' = [delivery EXCEPT ![c] = Row(a)]
      BY <1>3 DEF Enrol
    <3>2. delivery \in [Campaigns -> [Users -> Outcomes \cup {"none", "PENDING"}]]
          /\ c \in Campaigns
      BY <1>1, <1>3 DEF IInv, TypeOK, JobSound, Enrol
    <3>3. Row(a) \in [Users -> Outcomes \cup {"none", "PENDING"}]
      BY <3>2
    <3> HIDE DEF Row
    <3> QED
      BY <3>1, <3>2, <3>3
  <2>3. job \in Worker
    BY <1>1, RecordTypes DEF Worker
  <2>4. JobSound(job)
    BY <1>1, <1>3 DEF JobSound, Working, Enrol
  <2> HIDE DEF job
  <2> QED
    BY <2>1, <2>2, <2>3, <2>4, QuietStep DEF IInv, TypeOK
<1>4. CASE TakeBatch(w)
  <2>1. Idles(w) /\ UNCHANGED <<status, due, old, delivery, approved, pushed, faults>>
    BY <1>4 DEF TakeBatch, ghost
  <2>2. PICK job \in Worker : worker' = [worker EXCEPT ![w] = job] /\ JobSound(job)
    <3>1. CASE status[worker[w].job] # "SENDING"
      <4> DEFINE job == Working("claim", worker[w].todo, NoCampaign, 0)
      <4>1. worker' = [worker EXCEPT ![w] = job]
        BY <1>4, <3>1 DEF TakeBatch, NextJob, Goes
      <4>2. job \in Worker
        BY <1>1, RecordTypes DEF Worker
      <4>3. JobSound(job)
        BY <1>1 DEF JobSound, Working
      <4> QED
        BY <4>1, <4>2, <4>3
    <3>2. CASE status[worker[w].job] = "SENDING"
      <4>1. PICK b \in Batches(worker[w].job) :
               worker' = [worker EXCEPT ![w] =
                   IF b = {} THEN [worker[w] EXCEPT !.pc = "finish"]
                   ELSE [worker[w] EXCEPT !.pc = "batch",
                            !.batch = [u \in Users |-> IF u \in b THEN "sending" ELSE "none"]]]
        BY <1>4, <3>2 DEF TakeBatch, Goes
      <4>2. CASE b = {}
        <5> DEFINE job == [worker[w] EXCEPT !.pc = "finish"]
        <5>1. job \in Worker /\ JobSound(job)
          BY <1>1, <1>4 DEF Worker, JobSound, TakeBatch
        <5> QED
          BY <4>1, <4>2, <5>1
      <4>3. CASE b # {}
        <5> DEFINE job == [worker[w] EXCEPT !.pc = "batch",
                            !.batch = [u \in Users |-> IF u \in b THEN "sending" ELSE "none"]]
        <5>1. job \in Worker /\ JobSound(job)
          BY <1>1, <1>4 DEF Worker, JobSound, TakeBatch
        <5> QED
          BY <4>1, <4>3, <5>1
      <4> QED
        BY <4>2, <4>3
    <3> QED
      BY <3>1, <3>2
  <2> QED
    BY <2>1, <2>2, QuietStep DEF IInv, TypeOK
<1>5. CASE EndBatch(w)
  <2> DEFINE job == [worker[w] EXCEPT !.pc = "loop"]
  <2>1. /\ worker' = [worker EXCEPT ![w] = job] /\ Idles(w)
        /\ UNCHANGED <<status, due, old, delivery, approved, pushed, faults>>
    BY <1>5 DEF EndBatch, Goes, ghost
  <2>2. job \in Worker /\ JobSound(job)
    BY <1>1, <1>5 DEF Worker, JobSound, EndBatch
  <2> HIDE DEF job
  <2> QED
    BY <2>1, <2>2, QuietStep DEF IInv, TypeOK
<1>6. CASE QueryFails(w)
  <2> DEFINE job == [worker[w] EXCEPT !.pc = "fail"]
  <2>1. /\ worker' = [worker EXCEPT ![w] = job] /\ Idles(w)
        /\ UNCHANGED <<status, due, old, delivery, approved, pushed>>
        /\ faults' \in 0..MaxFaults
    BY <1>6 DEF QueryFails, Goes, ghost, IInv, TypeOK
  <2>2. job \in Worker /\ JobSound(job)
    BY <1>1, <1>6 DEF Worker, JobSound, QueryFails
  <2> HIDE DEF job
  <2> QED
    BY <2>1, <2>2, QuietStep DEF IInv, TypeOK
<1>7. CASE Crash(w)
  <2>1. /\ worker' = [worker EXCEPT ![w] = Resting] /\ Idles(w)
        /\ UNCHANGED <<status, due, old, delivery, approved, pushed>>
        /\ faults' \in 0..MaxFaults
    BY <1>7 DEF Crash, Goes, ghost, IInv, TypeOK
  <2>2. Resting \in Worker
    BY RecordTypes DEF Resting
  <2>3. JobSound(Resting)
    BY DEF JobSound, Working, Resting
  <2> QED
    BY <2>1, <2>2, <2>3, QuietStep DEF IInv, TypeOK
<1> QED
  BY <1>2, <1>3, <1>4, <1>5, <1>6, <1>7

\* One delivery of a batch: this is where a text reaches a customer.
LEMMA DeliveryStep ==
    ASSUME IInv, NEW w \in Workers, NEW u \in Users, Push(w, u) \/ SaveDelivery(w, u)
    PROVE  IInv'
<1> USE CampaignsAssumption
<1> DEFINE c == worker[w].job
           text == worker[w].text
<1>1. worker[w] \in Worker /\ JobSound(worker[w])
  BY DEF IInv, TypeOK
<1>2. worker[w].batch[u] # "none"
  BY DEF Push, SaveDelivery, Outcomes
<1>3. worker[w].pc = "batch"
  BY <1>1, <1>2 DEF JobSound, NoBatch
<1>4. /\ c \in Campaigns /\ text \in Versions /\ status[c] # "none"
      /\ c \in vendor => <<c, text>> \in approved
  BY <1>1, <1>3 DEF JobSound
<1>5. ASSUME NEW outcome \in Outcomes \cup {"none"}
      PROVE  LET job == [worker[w] EXCEPT !.batch[u] = outcome]
             IN job \in Worker /\ JobSound(job)
  BY <1>1, <1>3 DEF Worker, JobSound
<1>6. CASE Push(w, u)
  <2>1. PICK outcome \in Outcomes :
           /\ worker' = [worker EXCEPT ![w] = [worker[w] EXCEPT !.batch[u] = outcome]]
           /\ pushed' = IF outcome = "DELIVERED"
                        THEN [pushed EXCEPT ![<<c, u>>][text] = @ + 1] ELSE pushed
    BY <1>6 DEF Push, Goes
  <2>2. PICK job \in Worker : /\ job = [worker[w] EXCEPT !.batch[u] = outcome]
                              /\ JobSound(job)
    BY <1>5
  <2>3. Idles(w) /\ UNCHANGED <<status, vendor, due, old, delivery, approved, faults>>
    BY <1>6 DEF Push, Idles
  <2>4. /\ pushed' \in [Campaigns \X Users -> [Versions -> Nat]]
        /\ \A x \in Campaigns \X Users, v \in Versions :
              pushed'[x][v] = pushed[x][v] \/ (x = <<c, u>> /\ v = text)
    <3>1. pushed \in [Campaigns \X Users -> [Versions -> Nat]] /\ <<c, u>> \in Campaigns \X Users
      BY <1>4 DEF IInv, TypeOK
    <3>2. CASE pushed' = pushed
      BY <3>1, <3>2
    <3>3. CASE pushed' = [pushed EXCEPT ![<<c, u>>][text] = @ + 1]
      <4> DEFINE counts == [pushed[<<c, u>>] EXCEPT ![text] = @ + 1]
      <4>1. /\ counts \in [Versions -> Nat]
            /\ \A v \in Versions : counts[v] = pushed[<<c, u>>][v] \/ v = text
        BY <1>4, <3>1
      <4>2. pushed' = [pushed EXCEPT ![<<c, u>>] = counts]
        BY <3>3
      <4> HIDE DEF counts
      <4> QED
        BY <3>1, <4>1, <4>2
    <3> QED
      BY <2>1, <3>2, <3>3
  <2>5. OnlyApprovedIsPushed'
    <3>1. ASSUME NEW d \in vendor, NEW k \in Users, NEW v \in Versions, pushed'[<<d, k>>][v] > 0
          PROVE  <<d, v>> \in approved
      <4>1. d \in Campaigns
        BY DEF IInv, TypeOK
      <4>2. CASE pushed'[<<d, k>>][v] = pushed[<<d, k>>][v]
        BY <3>1, <4>2 DEF IInv, OnlyApprovedIsPushed
      <4>3. CASE d = c /\ v = text
        BY <1>4, <4>3
      <4> QED
        BY <2>4, <4>1, <4>2, <4>3
    <3> QED
      BY <2>3, <3>1 DEF OnlyApprovedIsPushed
  <2>6. JobSound(job)'
    BY <2>2, <2>3 DEF JobSound
  <2>7. \A d \in Campaigns, k \in Users, v \in Versions :
           pushed'[<<d, k>>][v] = pushed[<<d, k>>][v] \/ status[d] # "none"
    BY <1>4, <2>4
  <2> QED
    BY <2>1, <2>2, <2>3, <2>4, <2>5, <2>6, <2>7, WorkerStep DEF IInv, TypeOK
<1>7. CASE SaveDelivery(w, u)
  <2> DEFINE job == [worker[w] EXCEPT !.batch[u] = "none"]
  <2>1. /\ worker' = [worker EXCEPT ![w] = job] /\ Idles(w)
        /\ UNCHANGED <<status, due, old, approved, pushed>>
        /\ faults' \in 0..MaxFaults
    BY <1>7 DEF SaveDelivery, Goes, ghost, IInv, TypeOK
  <2>2. PICK outcome \in Outcomes : delivery' = [delivery EXCEPT ![c][u] = outcome]
    BY <1>7 DEF SaveDelivery, Outcomes
  <2>3. delivery' \in [Campaigns -> [Users -> Outcomes \cup {"none", "PENDING"}]]
    BY <1>4, <2>2 DEF IInv, TypeOK
  <2>4. job \in Worker /\ JobSound(job)
    BY <1>5
  <2> HIDE DEF job
  <2> QED
    BY <2>1, <2>3, <2>4, QuietStep DEF IInv, TypeOK
<1> QED
  BY <1>6, <1>7

\* The end of a campaign, if it is still being sent.
LEMMA FinishStep ==
    ASSUME IInv, NEW w \in Workers, FinishCampaign(w) PROVE IInv'
<1>1. worker[w] \in Worker /\ JobSound(worker[w])
  BY DEF IInv, TypeOK
<1>2. PICK job \in Worker : job = Working("claim", worker[w].todo, NoCampaign, 0)
  BY <1>1, RecordTypes DEF Worker
<1>3. /\ worker' = [worker EXCEPT ![w] = job] /\ Idles(w)
      /\ UNCHANGED <<due, old, delivery, approved, pushed, faults>>
  BY <1>2 DEF FinishCampaign, NextJob, Goes, ghost
<1>4. /\ status' \in [Campaigns -> CampaignStatus]
      /\ \A c \in Campaigns : status[c] # "none" => status'[c] # "none"
  BY DEF FinishCampaign, IInv, TypeOK, CampaignStatus
<1>5. JobSound(job)'
  BY <1>1, <1>2, <1>4 DEF JobSound, Working, Worker
<1>6. OnlyApprovedIsPushed'
  BY <1>3 DEF IInv, OnlyApprovedIsPushed, Idles
<1> QED
  BY <1>3, <1>4, <1>5, <1>6, WorkerStep DEF IInv, TypeOK

-----------------------------------------------------------------------------
\* A step that leaves the processes alone and approves or edits soundly.
LEMMA RequestStep ==
    ASSUME IInv, TypeOK', Monotone,
           UNCHANGED <<worker, pushed>>,
           ApprovalEarned', VendorsExist',
           \A r \in Requests : request'[r] = request[r] \/ RequestSound(r)'
    PROVE  IInv'
<1>1. \A w \in Workers : JobSound(worker[w])'
  BY OthersSound
<1>2. \A r \in Requests : RequestSound(r)'
  BY OthersSound
<1>3. OnlyApprovedIsPushed'
  <2>1. ASSUME NEW c \in vendor', NEW u \in Users, NEW v \in Versions, pushed[<<c, u>>][v] > 0
        PROVE  <<c, v>> \in approved'
    <3>1. c \in Campaigns
      BY DEF TypeOK
    <3>2. pushed[<<c, u>>][v] # 0
      BY <2>1, <3>1 DEF IInv, TypeOK
    <3>3. c \in vendor
      BY <3>1, <3>2 DEF Monotone, IInv, PushedExist
    <3> QED
      BY <2>1, <3>3 DEF IInv, OnlyApprovedIsPushed, Monotone
  <2> QED
    BY <2>1 DEF OnlyApprovedIsPushed
<1>4. PushedExist'
  BY DEF IInv, PushedExist, Monotone
<1> QED
  BY <1>1, <1>2, <1>3, <1>4 DEF IInv

\* A campaign is created, becomes due, or outlives its lease.
LEMMA EnvironmentStep ==
    ASSUME IInv, NEW c \in Campaigns,
           Create(c) \/ CreateForStore(c) \/ DueArrives(c) \/ LeaseLapses(c)
    PROVE  IInv'
<1> USE CampaignsAssumption
<1>1. CASE Create(c)
  <2>1. TypeOK'
    BY <1>1 DEF Create, ghost, IInv, TypeOK, CampaignStatus
  <2>2. Monotone /\ ApprovalEarned' /\ VendorsExist'
    BY <1>1 DEF Create, ghost, IInv, TypeOK, Monotone, ApprovalEarned, VendorsExist
  <2> QED
    BY <1>1, <2>1, <2>2, RequestStep DEF Create, ghost
<1>2. CASE CreateForStore(c)
  <2>1. TypeOK'
    BY <1>2 DEF CreateForStore, ghost, IInv, TypeOK, CampaignStatus, ApprovalStatus
  <2>2. Monotone /\ ApprovalEarned' /\ VendorsExist'
    BY <1>2 DEF CreateForStore, ghost, IInv, TypeOK, Monotone, ApprovalEarned, VendorsExist
  <2> QED
    BY <1>2, <2>1, <2>2, RequestStep DEF CreateForStore, ghost
<1>3. CASE DueArrives(c) \/ LeaseLapses(c)
  <2>1. /\ UNCHANGED <<status, vendor, approval, version, delivery, worker, request,
                       approved, pushed, requests, stale>>
        /\ due' \subseteq Campaigns /\ old' \subseteq Campaigns
        /\ active' \in BOOLEAN /\ faults' \in 0..MaxFaults
    <3>1. CASE DueArrives(c)
      BY <3>1 DEF DueArrives, ghost, IInv, TypeOK
    <3>2. CASE LeaseLapses(c)
      BY <3>2 DEF LeaseLapses, ghost, row, IInv, TypeOK
    <3> QED
      BY <1>3, <3>1, <3>2
  <2>2. TypeOK'
    BY <2>1 DEF IInv, TypeOK
  <2>3. Monotone /\ ApprovalEarned' /\ VendorsExist'
    BY <2>1 DEF IInv, Monotone, ApprovalEarned, VendorsExist
  <2> QED
    BY <2>1, <2>2, <2>3, RequestStep
<1> QED
  BY <1>1, <1>2, <1>3

\* A request reads the campaign, and resets the failed deliveries.
LEMMA ReadStep ==
    ASSUME IInv, NEW r \in Requests,
           \/ \E c \in Campaigns, op \in Operations : Read(r, c, op)
           \/ ResetDeliveries(r)
    PROVE  IInv'
<1> USE CampaignsAssumption
<1>1. ASSUME NEW c \in Campaigns, NEW op \in Operations, Read(r, c, op) PROVE IInv'
  <2> DEFINE ask == Asking(IF op = "send" /\ status[c] = "FAILED" THEN "reset" ELSE "write", c, op)
  <2>1. /\ request' = [request EXCEPT ![r] = ask]
        /\ UNCHANGED <<status, vendor, approval, version, due, old, delivery, active, worker,
                       approved, pushed, faults, stale>>
        /\ requests' \in 0..MaxRequests
    BY <1>1 DEF Read, row, ghost, IInv, TypeOK
  <2>2. ask \in Request /\ ask.job = c
    BY DEF Asking, Request
  <2>3. status[c] # "none"
    BY <1>1 DEF Read, Allowed, Sendable
  <2> HIDE DEF ask
  <2>4. TypeOK'
    BY <2>1, <2>2 DEF IInv, TypeOK
  <2>5. Monotone /\ ApprovalEarned' /\ VendorsExist'
    BY <2>1 DEF IInv, Monotone, ApprovalEarned, VendorsExist
  <2>6. \A q \in Requests : request'[q] = request[q] \/ RequestSound(q)'
    BY <2>1, <2>2, <2>3 DEF IInv, TypeOK, RequestSound
  <2> QED
    BY <2>1, <2>4, <2>5, <2>6, RequestStep
<1>2. CASE ResetDeliveries(r)
  <2> DEFINE c == request[r].job
             retried == [u \in Users |->
                 IF delivery[c][u] = "FAILED" THEN "PENDING" ELSE delivery[c][u]]
  <2>1. /\ request[r].pc = "reset"
        /\ delivery' = [delivery EXCEPT ![c] = retried]
        /\ request' = [request EXCEPT ![r] = [request[r] EXCEPT !.pc = "write"]]
        /\ UNCHANGED <<status, vendor, approval, version, due, old, active, worker,
                       approved, pushed, faults, requests>>
        /\ stale' \in Nat
    BY <1>2 DEF ResetDeliveries, Counted, row, ghost, IInv, TypeOK
  <2>2. /\ request[r] \in Request /\ RequestSound(r)
        /\ delivery \in [Campaigns -> [Users -> Outcomes \cup {"none", "PENDING"}]]
    BY DEF IInv, TypeOK
  <2>3. c \in Campaigns /\ status[c] # "none"
    BY <2>1, <2>2 DEF RequestSound
  <2>4. retried \in [Users -> Outcomes \cup {"none", "PENDING"}]
    BY <2>2, <2>3
  <2> HIDE DEF retried
  <2>5. [request[r] EXCEPT !.pc = "write"] \in Request
    BY <2>2 DEF Request
  <2>6. delivery' \in [Campaigns -> [Users -> Outcomes \cup {"none", "PENDING"}]]
    BY <2>1, <2>2, <2>3, <2>4
  <2>7. TypeOK'
    BY <2>1, <2>5, <2>6 DEF IInv, TypeOK
  <2>8. Monotone /\ ApprovalEarned' /\ VendorsExist'
    BY <2>1 DEF IInv, Monotone, ApprovalEarned, VendorsExist
  <2>9. \A q \in Requests : request'[q] = request[q] \/ RequestSound(q)'
    BY <2>1, <2>2, <2>3 DEF IInv, TypeOK, RequestSound, Request
  <2> QED
    BY <2>1, <2>7, <2>8, <2>9, RequestStep
<1> QED
  BY <1>1, <1>2

\* The write of a request: the text and the approval of a store's campaign
\* change together.
LEMMA WriteStep ==
    ASSUME IInv, NEW r \in Requests,
           WriteUpdate(r) \/ WriteSchedule(r) \/ WriteCancel(r) \/ WriteReview(r)
    PROVE  IInv'
<1> USE CampaignsAssumption
<1> DEFINE c == request[r].job
<1>1. /\ request[r].pc = "write"
      /\ request' = [request EXCEPT ![r] = NoRequest]
      /\ UNCHANGED <<old, delivery, active, worker, requests, faults, vendor, pushed>>
  BY DEF WriteUpdate, WriteSchedule, WriteCancel, WriteReview, Writes
<1>2. RequestSound(r) /\ c \in Campaigns /\ status[c] # "none"
  BY <1>1 DEF IInv, RequestSound
<1>3. request' \in [Requests -> Request]
  BY <1>1, RecordTypes DEF IInv, TypeOK
<1>4. \A q \in Requests : request'[q] = request[q] \/ RequestSound(q)'
  BY <1>1 DEF IInv, TypeOK, RequestSound, NoRequest, Asking
<1>5. SUFFICES /\ status' \in [Campaigns -> CampaignStatus]
               /\ approval' \in [Campaigns -> ApprovalStatus]
               /\ version' \in [Campaigns -> Versions]
               /\ due' \subseteq Campaigns /\ stale' \in Nat
               /\ approved' \subseteq Campaigns \X Versions
               /\ \A d \in Campaigns : status[d] # "none" => status'[d] # "none"
               /\ approved \subseteq approved'
               /\ ApprovalEarned'
  <2>1. TypeOK'
    BY <1>1, <1>3, <1>5 DEF IInv, TypeOK
  <2>2. Monotone /\ VendorsExist'
    BY <1>1, <1>5 DEF IInv, TypeOK, Monotone, VendorsExist
  <2> QED
    BY <1>1, <1>4, <1>5, <2>1, <2>2, RequestStep
<1>6. CASE WriteUpdate(r)
  <2>1. /\ version' = [version EXCEPT ![c] = version[c] + 1] /\ version[c] < MaxVersions
        /\ approval' = [approval EXCEPT ![c] = IF c \in vendor THEN "PENDING" ELSE approval[c]]
        /\ UNCHANGED <<vendor, approved>>
        /\ \/ UNCHANGED <<status, due, stale>>
           \/ /\ status' = [status EXCEPT ![c] = "DRAFT"] /\ due' = due \ {c}
              /\ Counted(c, {"DRAFT", "SCHEDULED"})
    BY <1>6 DEF WriteUpdate, Writes
  <2>2. version' \in [Campaigns -> Versions]
    BY <1>2, <2>1 DEF IInv, TypeOK, Versions
  <2>3. approval' \in [Campaigns -> ApprovalStatus]
    BY <1>2, <2>1 DEF IInv, TypeOK, ApprovalStatus
  <2>4. /\ status' \in [Campaigns -> CampaignStatus] /\ due' \subseteq Campaigns /\ stale' \in Nat
        /\ \A d \in Campaigns : status[d] # "none" => status'[d] # "none"
    <3>1. status \in [Campaigns -> CampaignStatus] /\ due \subseteq Campaigns /\ stale \in Nat
      BY DEF IInv, TypeOK
    <3>2. CASE UNCHANGED <<status, due, stale>>
      BY <3>1, <3>2
    <3>3. CASE /\ status' = [status EXCEPT ![c] = "DRAFT"] /\ due' = due \ {c}
               /\ Counted(c, {"DRAFT", "SCHEDULED"})
      <4>1. stale' \in Nat
        BY <3>1, <3>3 DEF Counted
      <4>2. due' \subseteq Campaigns
        BY <3>1, <3>3
      <4>3. /\ status' \in [Campaigns -> CampaignStatus]
            /\ \A d \in Campaigns : status[d] # "none" => status'[d] # "none"
        BY <3>1, <3>3 DEF CampaignStatus
      <4> QED
        BY <4>1, <4>2, <4>3
    <3> QED
      BY <2>1, <3>2, <3>3
  <2>5. ApprovalEarned'
    BY <1>2, <2>1 DEF IInv, TypeOK, ApprovalEarned
  <2> QED
    BY <2>1, <2>2, <2>3, <2>4, <2>5 DEF IInv, TypeOK
<1>7. CASE WriteSchedule(r) \/ WriteCancel(r)
  <2>1. /\ UNCHANGED <<vendor, approval, version, approved>>
        /\ status' = [status EXCEPT ![c] = "SCHEDULED"] \/ status' = [status EXCEPT ![c] = "CANCELLED"]
        /\ due' \in {due, due \cup {c}, due \ {c}}
        /\ stale' = stale \/ Counted(c, Sendable)
    BY <1>7 DEF WriteSchedule, WriteCancel, Writes
  <2>2. /\ status' \in [Campaigns -> CampaignStatus] /\ due' \subseteq Campaigns /\ stale' \in Nat
        /\ \A d \in Campaigns : status[d] # "none" => status'[d] # "none"
    BY <1>2, <2>1 DEF IInv, TypeOK, CampaignStatus, Counted
  <2> QED
    BY <2>1, <2>2 DEF IInv, TypeOK, ApprovalEarned
<1>8. CASE WriteReview(r)
  <2>1. /\ UNCHANGED <<vendor, status, version, due, stale>>
        /\ \/ /\ approval' = [approval EXCEPT ![c] = "APPROVED"]
              /\ approved' = approved \cup {<<c, version[c]>>}
           \/ approval' = [approval EXCEPT ![c] = "REJECTED"] /\ UNCHANGED approved
    BY <1>8 DEF WriteReview, Writes
  <2>2. /\ approval' \in [Campaigns -> ApprovalStatus]
        /\ approved' \subseteq Campaigns \X Versions /\ approved \subseteq approved'
    BY <1>2, <2>1 DEF IInv, TypeOK, ApprovalStatus
  <2>3. ApprovalEarned'
    BY <1>2, <2>1 DEF IInv, TypeOK, ApprovalEarned
  <2> QED
    BY <2>1, <2>2, <2>3 DEF IInv, TypeOK
<1> QED
  BY <1>6, <1>7, <1>8

-----------------------------------------------------------------------------
\* At first there is no campaign.
LEMMA InvInit == Init => IInv
<1> SUFFICES ASSUME Init PROVE IInv
  OBVIOUS
<1> USE CampaignsAssumption
<1>1. Resting \in Worker /\ NoRequest \in Request
  BY RecordTypes DEF Resting
<1>2. TypeOK
  BY <1>1 DEF Init, TypeOK, CampaignStatus, ApprovalStatus, Versions
<1>3. \A w \in Workers : JobSound(worker[w])
  BY DEF Init, JobSound, Resting, Working
<1>4. \A r \in Requests : RequestSound(r)
  BY DEF Init, RequestSound, NoRequest, Asking
<1>5. ApprovalEarned /\ VendorsExist /\ PushedExist /\ OnlyApprovedIsPushed
  BY DEF Init, ApprovalEarned, VendorsExist, PushedExist, OnlyApprovedIsPushed
<1> QED
  BY <1>2, <1>3, <1>4, <1>5 DEF IInv

\* Every step keeps the invariant.
LEMMA InvStep == IInv /\ [Next]_vars => IInv'
<1> SUFFICES ASSUME IInv, [Next]_vars PROVE IInv'
  OBVIOUS
<1>1. CASE UNCHANGED vars
  <2>1. UNCHANGED <<status, vendor, approval, version, due, old, delivery, active, worker,
                    request, approved, pushed, requests, faults, stale>>
    BY <1>1 DEF vars, row, ghost
  <2>2. TypeOK'
    BY <2>1 DEF IInv, TypeOK
  <2>3. Monotone /\ ApprovalEarned' /\ VendorsExist'
    BY <2>1 DEF IInv, Monotone, ApprovalEarned, VendorsExist
  <2> QED
    BY <2>1, <2>2, <2>3, RequestStep
<1>2. ASSUME NEW c \in Campaigns,
             Create(c) \/ CreateForStore(c) \/ DueArrives(c) \/ LeaseLapses(c)
      PROVE  IInv'
  BY <1>2, EnvironmentStep
<1>3. CASE StoreCloses
  <2>1. /\ UNCHANGED <<status, vendor, approval, version, due, old, delivery, worker,
                       request, approved, pushed, requests, faults, stale>>
        /\ active' \in BOOLEAN
    BY <1>3 DEF StoreCloses, row, ghost
  <2>2. TypeOK'
    BY <2>1 DEF IInv, TypeOK
  <2>3. Monotone /\ ApprovalEarned' /\ VendorsExist'
    BY <2>1 DEF IInv, Monotone, ApprovalEarned, VendorsExist
  <2> QED
    BY <2>1, <2>2, <2>3, RequestStep
<1>4. ASSUME NEW r \in Requests,
             (\E c \in Campaigns, op \in Operations : Read(r, c, op)) \/ Write(r)
      PROVE  IInv'
  BY <1>4, ReadStep, WriteStep DEF Write
<1>5. ASSUME NEW w \in Workers, Step(w) \/ QueryFails(w) \/ Crash(w) PROVE IInv'
  <2>1. CASE StartPass(w) \/ FindDue(w) \/ Claim(w) \/ EndPass(w)
    BY <2>1, PassStep
  <2>2. CASE Open(w) \/ Enrol(w) \/ TakeBatch(w) \/ EndBatch(w) \/ QueryFails(w) \/ Crash(w)
    BY <2>2, CampaignStep
  <2>3. CASE FinishCampaign(w)
    BY <2>3, FinishStep
  <2>4. ASSUME NEW u \in Users, Push(w, u) \/ SaveDelivery(w, u) PROVE IInv'
    BY <2>4, DeliveryStep
  <2> QED
    BY <1>5, <2>1, <2>2, <2>3, <2>4 DEF Step
<1> QED
  BY <1>1, <1>2, <1>3, <1>4, <1>5 DEF Next

\* The inductive invariant holds in every reachable state.
THEOREM InvCorrect == Spec => []IInv
  BY InvInit, InvStep, PTL DEF Spec

\* Whatever the store, its customers, staff and the processes do at once, a text
\* of a store that reached a customer carried staff's approval
\* (ensureDeliveryApproved, reviewVendorCampaign, update and updateForStore).
THEOREM ApprovedCorrect == Spec => []OnlyApprovedIsPushed
<1>1. IInv => OnlyApprovedIsPushed
  BY DEF IInv
<1> QED
  BY <1>1, InvCorrect, PTL

-----------------------------------------------------------------------------
(***************************************************************************)
(* Nobody is reached twice, and SENT is complete.  While nothing disturbs  *)
(* the campaigns, at most one process holds a campaign, nobody else writes *)
(* its deliveries meanwhile, and a text that reached a customer is in the  *)
(* delivery row or still in the hands of that process.                     *)
(***************************************************************************)
Holds(w, c) == worker[w].job = c

\* A process between two campaigns holds none.
FreeHanded ==
    \A w \in Workers : worker[w].pc \in {"idle", "find", "claim"} => worker[w].job = NoCampaign

Reached(p, c, u) == SumFunction(p[<<c, u>>])

OneHolder(c) == \A v, w \in Workers : Holds(v, c) /\ Holds(w, c) => v = w

HolderSends(c) ==
    \A w \in Workers : Holds(w, c) =>
        /\ status[c] \in {"SENDING", "CANCELLED"} /\ c \notin old
        /\ \A u \in Users : worker[w].batch[u] # "none" => delivery[c][u] = "PENDING"
        /\ worker[w].pc = "finish" => Pending(c) = {}

ReachedOnce(c) ==
    \A u \in Users :
        \/ Reached(pushed, c, u) = 0
        \/ /\ Reached(pushed, c, u) = 1
           /\ \/ delivery[c][u] = "DELIVERED"
              \/ \E w \in Workers : Holds(w, c) /\ worker[w].batch[u] = "DELIVERED"

Orderly(c) ==
    /\ OneHolder(c) /\ HolderSends(c) /\ ReachedOnce(c)
    /\ status[c] = "SENT" => Pending(c) = {}

\* The inductive invariant, with the one of the approvals.
CalmInv == IInv /\ FreeHanded /\ (Undisturbed => \A c \in Campaigns : Orderly(c))

\* A step that leaves campaign c, its deliveries and its holders alone, or moves
\* its status while nobody holds it, or cancels it.
LEMMA OrderlyKept ==
    ASSUME NEW c \in Campaigns, Orderly(c),
           \A w \in Workers : Holds(w, c)' <=> Holds(w, c),
           \A w \in Workers : Holds(w, c) =>
               /\ worker'[w].batch = worker[w].batch
               /\ worker'[w].pc = "finish" => worker[w].pc = "finish",
           delivery'[c] = delivery[c], \A u \in Users : pushed'[<<c, u>>] = pushed[<<c, u>>],
           \/ status'[c] = status[c] \/ status'[c] = "CANCELLED"
           \/ (status'[c] # "SENT" /\ \A w \in Workers : ~Holds(w, c)),
           c \in old' => c \in old \/ \A w \in Workers : ~Holds(w, c)
    PROVE  Orderly(c)'
<1>1. Pending(c)' = Pending(c) /\ \A u \in Users : Reached(pushed', c, u) = Reached(pushed, c, u)
  BY DEF Pending, Reached
<1>2. OneHolder(c)'
  BY DEF Orderly, OneHolder
<1>3. HolderSends(c)'
  BY <1>1 DEF Orderly, HolderSends
<1>4. ReachedOnce(c)'
  BY <1>1 DEF Orderly, ReachedOnce
<1>5. status'[c] = "SENT" => Pending(c)' = {}
  BY <1>1 DEF Orderly
<1> QED
  BY <1>2, <1>3, <1>4, <1>5 DEF Orderly

\* A step of one process is about the campaign it holds, before or after.
LEMMA OrderlyElsewhere ==
    ASSUME TypeOK, NEW w \in Workers, NEW t, worker' = [worker EXCEPT ![w] = t],
           NEW c \in Campaigns, Orderly(c), ~Holds(w, c), t.job # c,
           delivery'[c] = delivery[c], \A u \in Users : pushed'[<<c, u>>] = pushed[<<c, u>>],
           \/ status'[c] = status[c]
           \/ (status'[c] # "SENT" /\ \A v \in Workers : ~Holds(v, c)),
           old' \subseteq old
    PROVE  Orderly(c)'
<1>1. worker'[w] = t /\ \A v \in Workers \ {w} : worker'[v] = worker[v]
  BY DEF TypeOK
<1>2. \A v \in Workers : Holds(v, c)' <=> Holds(v, c)
  BY <1>1 DEF Holds
<1>3. \A v \in Workers : Holds(v, c) => worker'[v] = worker[v]
  BY <1>1
<1> QED
  BY <1>2, <1>3, OrderlyKept

\* The disturbances are only ever counted.
LEMMA CountsGrow ==
    ASSUME IInv, Next
    PROVE  /\ faults' >= faults /\ stale' >= stale /\ faults \in Nat /\ stale \in Nat
           /\ faults' \in Nat /\ stale' \in Nat
<1>1. faults \in Nat /\ stale \in Nat
  BY CampaignsAssumption DEF IInv, TypeOK
<1>2. stale' = stale \/ stale' = stale + 1
  BY <1>1 DEF Next, Create, CreateForStore, DueArrives, LeaseLapses, StoreCloses, Read, Write, ResetDeliveries,
     WriteUpdate, WriteSchedule, WriteCancel, WriteReview, Counted, Step, StartPass, FindDue, Claim, EndPass,
     Open, Enrol, TakeBatch, EndBatch, FinishCampaign, Push, SaveDelivery, QueryFails, Crash, Idles, row
<1>3. faults' = faults \/ faults' = faults + 1
  BY <1>1 DEF Next, Create, CreateForStore, DueArrives, LeaseLapses, StoreCloses, Read, Write, ResetDeliveries,
     WriteUpdate, WriteSchedule, WriteCancel, WriteReview, Writes, Step, StartPass, FindDue, Claim, EndPass,
     Open, Enrol, TakeBatch, EndBatch, FinishCampaign, Push, SaveDelivery, QueryFails, Crash
<1> QED
  BY <1>1, <1>2, <1>3

\* Every process that is between two campaigns stays free-handed.
LEMMA FreeKept ==
    ASSUME IInv, FreeHanded, Next PROVE FreeHanded'
<1> TypeOK /\ \A w \in Workers : JobSound(worker[w])
  BY DEF IInv
<1>1. CASE UNCHANGED worker
  BY <1>1 DEF FreeHanded
<1>2. ASSUME NEW w \in Workers, NEW t, worker' = [worker EXCEPT ![w] = t],
             t.pc \in {"idle", "find", "claim"} => t.job = NoCampaign
      PROVE  FreeHanded'
  BY <1>2 DEF FreeHanded, TypeOK
<1>3. \A pc, todo, c, text :
         Working(pc, todo, c, text).pc = pc /\ Working(pc, todo, c, text).job = c
  BY DEF Working
<1>4. ASSUME NEW w \in Workers, Step(w) \/ QueryFails(w) \/ Crash(w) PROVE FreeHanded'
  <2> worker[w] \in Worker
    BY DEF TypeOK
  <2>1. CASE StartPass(w) \/ FindDue(w) \/ EndPass(w) \/ Crash(w) \/ FinishCampaign(w)
    BY <2>1, <1>2, <1>3 DEF StartPass, FindDue, EndPass, Crash, FinishCampaign, NextJob, Goes, Resting
  <2>2. CASE Claim(w)
    BY <2>2, <1>2, <1>3 DEF Claim, Goes
  <2>3. CASE Open(w)
    BY <2>3, <1>2, <1>3 DEF Open, Goes
  <2>4. CASE Enrol(w)
    BY <2>4, <1>2, <1>3 DEF Enrol, Goes
  <2>5. CASE TakeBatch(w)
    <3>1. CASE NextJob(w)
      <4> DEFINE t == Working("claim", worker[w].todo, NoCampaign, 0)
      <4>1. worker' = [worker EXCEPT ![w] = t] /\ t.job = NoCampaign
        BY <3>1, <1>3 DEF NextJob, Goes
      <4> HIDE DEF t
      <4> QED
        BY <4>1, <1>2
    <3>2. CASE ~NextJob(w)
      <4>1. PICK b \in Batches(worker[w].job) :
               worker' = [worker EXCEPT ![w] =
                   IF b = {} THEN [worker[w] EXCEPT !.pc = "finish"]
                   ELSE [worker[w] EXCEPT !.pc = "batch",
                            !.batch = [u \in Users |-> IF u \in b THEN "sending" ELSE "none"]]]
        BY <2>5, <3>2 DEF TakeBatch, Goes
      <4> DEFINE t == IF b = {} THEN [worker[w] EXCEPT !.pc = "finish"]
                      ELSE [worker[w] EXCEPT !.pc = "batch",
                               !.batch = [u \in Users |-> IF u \in b THEN "sending" ELSE "none"]]
      <4>2. t.pc \in {"finish", "batch"}
        BY DEF Worker
      <4> QED
        BY <1>2, <4>1, <4>2
    <3> QED
      BY <3>1, <3>2
  <2>6. CASE EndBatch(w)
    <3>1. [worker[w] EXCEPT !.pc = "loop"].pc = "loop"
      BY DEF Worker
    <3> QED
      BY <2>6, <3>1, <1>2 DEF EndBatch, Goes
  <2>7. CASE QueryFails(w)
    <3>1. [worker[w] EXCEPT !.pc = "fail"].pc = "fail"
      BY DEF Worker
    <3> QED
      BY <2>7, <3>1, <1>2 DEF QueryFails, Goes
  <2>8. ASSUME NEW u \in Users, Push(w, u) \/ SaveDelivery(w, u) PROVE FreeHanded'
    <3>1. PICK outcome : worker' = [worker EXCEPT ![w] = [worker[w] EXCEPT !.batch[u] = outcome]]
      BY <2>8 DEF Push, SaveDelivery, Goes
    <3>2. /\ [worker[w] EXCEPT !.batch[u] = outcome].pc = worker[w].pc
          /\ [worker[w] EXCEPT !.batch[u] = outcome].job = worker[w].job
      BY DEF Worker
    <3> QED
      BY <1>2, <3>1, <3>2 DEF FreeHanded
  <2> QED
    BY <1>4, <2>1, <2>2, <2>3, <2>4, <2>5, <2>6, <2>7, <2>8 DEF Step
<1>5. CASE \/ \E c \in Campaigns : Create(c) \/ CreateForStore(c) \/ DueArrives(c) \/ LeaseLapses(c)
           \/ StoreCloses
           \/ \E r \in Requests : (\E c \in Campaigns, op \in Operations : Read(r, c, op)) \/ Write(r)
  <2>1. UNCHANGED worker
    BY <1>5 DEF Create, CreateForStore, DueArrives, LeaseLapses, StoreCloses, Read, Write, ResetDeliveries,
       WriteUpdate, WriteSchedule, WriteCancel, WriteReview, Writes
  <2> QED
    BY <1>1, <2>1
<1> QED
  BY <1>4, <1>5 DEF Next

\* Requests and time, when nothing is disturbed: they move the status of a
\* campaign only while no process holds it, or cancel it.
LEMMA CalmRequests ==
    ASSUME IInv, NEW c \in Campaigns, Orderly(c), UNCHANGED <<faults, stale>>,
           \/ \E d \in Campaigns : Create(d) \/ CreateForStore(d) \/ DueArrives(d) \/ LeaseLapses(d)
           \/ StoreCloses
           \/ \E r \in Requests : (\E d \in Campaigns, op \in Operations : Read(r, d, op)) \/ Write(r)
    PROVE  Orderly(c)'
<1> TypeOK
  BY DEF IInv
<1>1. UNCHANGED <<worker, pushed>>
  BY DEF Create, CreateForStore, DueArrives, LeaseLapses, StoreCloses, Read, Write, ResetDeliveries,
     WriteUpdate, WriteSchedule, WriteCancel, WriteReview, Writes, ghost
<1>2. \A w \in Workers : Holds(w, c) => status[c] \in {"SENDING", "CANCELLED"} /\ c \notin old
  BY DEF Orderly, HolderSends
<1>3. ASSUME delivery' = delivery,
             \/ status'[c] = status[c] \/ status'[c] = "CANCELLED"
             \/ status'[c] # "SENT" /\ status[c] \notin {"SENDING", "CANCELLED"},
             c \in old' => c \in old \/ \A w \in Workers : ~Holds(w, c)
      PROVE  Orderly(c)'
  <2>1. \A w \in Workers : Holds(w, c)' <=> Holds(w, c)
    BY <1>1 DEF Holds
  <2> QED
    BY <1>1, <1>2, <1>3, <2>1, OrderlyKept
<1>4. stale \in Nat /\ faults \in Nat
  BY CampaignsAssumption DEF TypeOK
<1>5. ASSUME NEW d \in Campaigns, Create(d) \/ CreateForStore(d) \/ DueArrives(d)
      PROVE  Orderly(c)'
  <2>1. UNCHANGED <<delivery, old>> /\ (status'[c] = status[c] \/ (status[c] = "none" /\ status'[c] = "DRAFT"))
    BY <1>5 DEF Create, CreateForStore, DueArrives, TypeOK
  <2> QED
    BY <1>3, <2>1
<1>6. ASSUME NEW d \in Campaigns, LeaseLapses(d) PROVE Orderly(c)'
  <2>1. /\ UNCHANGED <<delivery, status>> /\ old' = old \cup {d}
        /\ ~\E w \in Workers : worker[w].job = d
    BY <1>4, <1>6 DEF LeaseLapses, row
  <2>2. c \in old' => c \in old \/ \A w \in Workers : ~Holds(w, c)
    BY <2>1 DEF Holds
  <2> QED
    BY <1>3, <2>1, <2>2
<1>7. CASE StoreCloses \/ \E r \in Requests, d \in Campaigns, op \in Operations : Read(r, d, op)
  <2>1. UNCHANGED <<delivery, old, status>>
    BY <1>7 DEF StoreCloses, Read, row
  <2> QED
    BY <1>3, <2>1
<1>8. ASSUME NEW r \in Requests, WriteUpdate(r) \/ WriteSchedule(r) \/ WriteCancel(r) \/ WriteReview(r)
      PROVE  Orderly(c)'
  <2> DEFINE d == request[r].job
  <2>1. UNCHANGED <<delivery, old>>
    BY <1>8 DEF WriteUpdate, WriteSchedule, WriteCancel, WriteReview, Writes
  <2>2. \/ UNCHANGED status
        \/ status' = [status EXCEPT ![d] = "CANCELLED"]
        \/ status' = [status EXCEPT ![d] = "DRAFT"] /\ status[d] \in {"DRAFT", "SCHEDULED"}
        \/ status' = [status EXCEPT ![d] = "SCHEDULED"] /\ status[d] \in Sendable
    BY <1>4, <1>8 DEF WriteUpdate, WriteSchedule, WriteCancel, WriteReview, Counted
  <2>3. \/ status'[c] = status[c] \/ status'[c] = "CANCELLED"
        \/ status'[c] # "SENT" /\ status[c] \notin {"SENDING", "CANCELLED"}
    BY <2>2 DEF TypeOK, Sendable
  <2> QED
    BY <1>3, <2>1, <2>3
<1>9. ASSUME NEW r \in Requests, ResetDeliveries(r) PROVE Orderly(c)'
  <2> DEFINE d == request[r].job
             retried == [u \in Users |->
                 IF delivery[d][u] = "FAILED" THEN "PENDING" ELSE delivery[d][u]]
  <2>1. /\ UNCHANGED <<status, old>> /\ status[d] = "FAILED"
        /\ delivery' = [delivery EXCEPT ![d] = retried]
    BY <1>4, <1>9 DEF ResetDeliveries, Counted, row
  <2>2. CASE c # d
    <3>1. delivery'[c] = delivery[c]
      BY <2>1, <2>2 DEF TypeOK
    <3>2. \A w \in Workers : Holds(w, c)' <=> Holds(w, c)
      BY <1>1 DEF Holds
    <3> QED
      BY <1>1, <2>1, <3>1, <3>2, OrderlyKept
  <2>3. CASE c = d
    <3>1. \A w \in Workers : ~Holds(w, c) /\ ~Holds(w, c)'
      BY <1>1, <1>2, <2>1, <2>3 DEF Holds
    <3>2. \A u \in Users : delivery[c][u] = "DELIVERED" => delivery'[c][u] = "DELIVERED"
      BY <2>1, <2>3 DEF TypeOK
    <3>3. \A u \in Users : Reached(pushed', c, u) = Reached(pushed, c, u)
      BY <1>1 DEF Reached
    <3>4. ReachedOnce(c)'
      BY <3>1, <3>2, <3>3 DEF Orderly, ReachedOnce
    <3>5. OneHolder(c)' /\ HolderSends(c)'
      BY <3>1 DEF OneHolder, HolderSends
    <3> QED
      BY <2>1, <2>3, <3>4, <3>5 DEF Orderly
  <2> QED
    BY <2>2, <2>3
<1> QED
  BY <1>5, <1>6, <1>7, <1>8, <1>9 DEF Write

\* The passes of the processes: a campaign is claimed only while nobody holds it.
LEMMA CalmPass ==
    ASSUME IInv, FreeHanded, NEW c \in Campaigns, Orderly(c), NEW w \in Workers,
           StartPass(w) \/ FindDue(w) \/ Claim(w) \/ EndPass(w)
    PROVE  Orderly(c)'
<1> TypeOK /\ NoCampaign \notin Campaigns
  BY CampaignsAssumption DEF IInv
<1>1. \A pc, todo, d, text :
         /\ Working(pc, todo, d, text).pc = pc /\ Working(pc, todo, d, text).job = d
         /\ Working(pc, todo, d, text).batch = NoBatch
  BY DEF Working
<1>2. /\ worker[w].job = NoCampaign /\ ~Holds(w, c) /\ UNCHANGED <<delivery, pushed>>
  BY DEF StartPass, FindDue, Claim, EndPass, FreeHanded, Resting, Working, Holds, ghost
<1>3. \A v \in Workers : Holds(v, c) => status[c] \in {"SENDING", "CANCELLED"} /\ c \notin old
  BY DEF Orderly, HolderSends
<1>4. CASE StartPass(w)
  <2> DEFINE t == Working("find", {}, NoCampaign, 0)
  <2>1. /\ worker' = [worker EXCEPT ![w] = t] /\ t.job = NoCampaign /\ old' \subseteq old
        /\ status' = [d \in Campaigns |-> IF d \in Releasable THEN "SCHEDULED" ELSE status[d]]
    BY <1>1, <1>4 DEF StartPass, Goes
  <2>2. status'[c] = status[c] \/ (status'[c] = "SCHEDULED" /\ c \in old)
    BY <2>1 DEF Releasable
  <2> HIDE DEF t
  <2> QED
    BY <1>2, <1>3, <2>1, <2>2, OrderlyElsewhere
<1>5. CASE FindDue(w) \/ EndPass(w)
  <2>1. PICK t : worker' = [worker EXCEPT ![w] = t] /\ t.job = NoCampaign
    BY <1>1, <1>5 DEF FindDue, EndPass, Goes, Resting
  <2>2. UNCHANGED <<status, old>>
    BY <1>5 DEF FindDue, EndPass
  <2> QED
    BY <1>2, <2>1, <2>2, OrderlyElsewhere
<1>6. CASE Claim(w)
  <2>1. PICK d \in worker[w].todo :
           IF Claimable(d)
           THEN /\ status' = [status EXCEPT ![d] = "SENDING"]
                /\ old' = old \ {d}
                /\ worker' = [worker EXCEPT ![w] = Working("open", worker[w].todo \ {d}, d, 0)]
           ELSE /\ worker' = [worker EXCEPT ![w] =
                                Working("claim", worker[w].todo \ {d}, NoCampaign, 0)]
                /\ UNCHANGED <<status, old>>
    BY <1>6 DEF Claim, Goes
  <2>2. CASE ~Claimable(d) \/ d # c
    <3>1. PICK t : worker' = [worker EXCEPT ![w] = t] /\ t.job \in {NoCampaign, d} /\ t.job # c
      <4> DEFINE s == IF Claimable(d) THEN Working("open", worker[w].todo \ {d}, d, 0)
                      ELSE Working("claim", worker[w].todo \ {d}, NoCampaign, 0)
      <4>1. worker' = [worker EXCEPT ![w] = s]
        BY <2>1
      <4>2. s.job = IF Claimable(d) THEN d ELSE NoCampaign
        BY <1>1
      <4> HIDE DEF s
      <4> QED
        BY <2>2, <4>1, <4>2
    <3>2. status'[c] = status[c] /\ old' \subseteq old
      BY <2>1, <2>2 DEF TypeOK
    <3> QED
      BY <1>2, <3>1, <3>2, OrderlyElsewhere
  <2>3. CASE Claimable(c) /\ d = c
    <3> DEFINE t == Working("open", worker[w].todo \ {c}, c, 0)
    <3>1. /\ worker' = [worker EXCEPT ![w] = t] /\ t.pc = "open" /\ t.job = c /\ t.batch = NoBatch
          /\ status'[c] = "SENDING" /\ c \notin old' /\ status[c] = "SCHEDULED"
      BY <1>1, <2>1, <2>3 DEF TypeOK, Claimable
    <3> HIDE DEF t
    <3>2. \A v \in Workers : ~Holds(v, c)
      BY <1>3, <3>1
    <3>3. \A v \in Workers : Holds(v, c)' <=> v = w
      BY <3>1, <3>2 DEF TypeOK, Holds
    <3>4. worker'[w] = t /\ \A u \in Users : t.batch[u] = "none"
      BY <3>1 DEF TypeOK, NoBatch
    <3>5. OneHolder(c)' /\ HolderSends(c)'
      BY <3>1, <3>3, <3>4 DEF OneHolder, HolderSends
    <3>6. ReachedOnce(c)'
      <4>1. \A u \in Users : Reached(pushed', c, u) = Reached(pushed, c, u)
        BY <1>2 DEF Reached
      <4> QED
        BY <1>2, <3>2, <4>1 DEF Orderly, ReachedOnce
    <3> QED
      BY <3>1, <3>5, <3>6 DEF Orderly
  <2> QED
    BY <2>2, <2>3
<1> QED
  BY <1>4, <1>5, <1>6

\* What the process that holds campaign c must leave in order.
InOrder(t, c) ==
    /\ \A u \in Users : t.batch[u] # "none" => delivery'[c][u] = "PENDING"
    /\ t.pc = "finish" => \A u \in Users : delivery'[c][u] # "PENDING"
    /\ \A u \in Users :
          \/ Reached(pushed', c, u) = 0
          \/ /\ Reached(pushed', c, u) = 1
             /\ delivery'[c][u] = "DELIVERED" \/ t.batch[u] = "DELIVERED"

\* A step of the process that holds campaign c, which keeps it.
LEMMA HolderOrderly ==
    ASSUME TypeOK, NEW w \in Workers, NEW t, worker' = [worker EXCEPT ![w] = t],
           NEW c \in Campaigns, Orderly(c), Holds(w, c), t.job = c,
           UNCHANGED <<status, old>>,
           InOrder(t, c)
    PROVE  Orderly(c)'
<1>1. worker'[w] = t /\ \A v \in Workers : Holds(v, c)' <=> v = w
  <2>1. worker'[w] = t /\ \A v \in Workers \ {w} : worker'[v] = worker[v]
    BY DEF TypeOK
  <2>2. \A v \in Workers \ {w} : ~Holds(v, c)
    BY DEF Orderly, OneHolder
  <2> QED
    BY <2>1, <2>2 DEF Holds
<1>2. status'[c] \in {"SENDING", "CANCELLED"} /\ c \notin old'
  BY DEF Orderly, HolderSends
<1>3. OneHolder(c)'
  BY <1>1 DEF OneHolder
<1>4. HolderSends(c)'
  BY <1>1, <1>2 DEF HolderSends, Pending, InOrder
<1>5. ReachedOnce(c)'
  BY <1>1 DEF ReachedOnce, InOrder
<1> QED
  BY <1>2, <1>3, <1>4, <1>5 DEF Orderly

\* The process that holds campaign c lets go of it with nothing in its hands.
LEMMA HolderLeaves ==
    ASSUME TypeOK, NEW w \in Workers, NEW t, worker' = [worker EXCEPT ![w] = t],
           NEW c \in Campaigns, Orderly(c), Holds(w, c), t.job # c, worker[w].batch = NoBatch,
           UNCHANGED <<delivery, pushed>>, status'[c] = "SENT" => Pending(c) = {}
    PROVE  Orderly(c)'
<1>1. \A v \in Workers : ~Holds(v, c)'
  <2>1. worker'[w] = t /\ \A v \in Workers \ {w} : worker'[v] = worker[v]
    BY DEF TypeOK
  <2>2. \A v \in Workers \ {w} : ~Holds(v, c)
    BY DEF Orderly, OneHolder
  <2> QED
    BY <2>1, <2>2 DEF Holds
<1>2. Pending(c)' = Pending(c) /\ \A u \in Users : Reached(pushed', c, u) = Reached(pushed, c, u)
  BY DEF Pending, Reached
<1>3. \A v \in Workers, u \in Users : Holds(v, c) => worker[v].batch[u] # "DELIVERED"
  BY DEF Orderly, OneHolder, NoBatch
<1>4. ReachedOnce(c)'
  BY <1>2, <1>3 DEF Orderly, ReachedOnce
<1> QED
  BY <1>1, <1>2, <1>4 DEF Orderly, OneHolder, HolderSends

\* The push to one customer and its record, when no save is lost.
LEMMA CalmDelivery ==
    ASSUME IInv, FreeHanded, NEW c \in Campaigns, Orderly(c), NEW w \in Workers, NEW u \in Users,
           Push(w, u) \/ SaveDelivery(w, u), UNCHANGED faults
    PROVE  Orderly(c)'
<1> USE CampaignsAssumption
<1> DEFINE d == worker[w].job
<1>1. TypeOK /\ worker[w] \in Worker /\ JobSound(worker[w]) /\ faults \in Nat
  BY DEF IInv, TypeOK
<1>2. worker[w].batch[u] # "none" /\ worker[w].batch \in [Users -> Outcomes \cup {"none", "sending"}]
  BY <1>1 DEF Push, SaveDelivery, Outcomes, Worker
<1>3. worker[w].pc = "batch" /\ d \in Campaigns /\ worker[w].text \in Versions
  BY <1>1, <1>2 DEF JobSound, NoBatch
<1>4. PICK outcome \in Outcomes \cup {"none"} :
         /\ worker' = [worker EXCEPT ![w] = [worker[w] EXCEPT !.batch[u] = outcome]]
         /\ \/ /\ worker[w].batch[u] = "sending" /\ outcome \in Outcomes /\ UNCHANGED delivery
               /\ pushed' = IF outcome = "DELIVERED"
                            THEN [pushed EXCEPT ![<<d, u>>][worker[w].text] = @ + 1] ELSE pushed
            \/ /\ outcome = "none" /\ UNCHANGED pushed /\ worker[w].batch[u] \in Outcomes
               /\ delivery' = [delivery EXCEPT ![d][u] = worker[w].batch[u]]
  <2>1. CASE Push(w, u)
    <3>1. PICK o \in Outcomes :
             /\ worker' = [worker EXCEPT ![w] = [worker[w] EXCEPT !.batch[u] = o]]
             /\ pushed' = IF o = "DELIVERED"
                          THEN [pushed EXCEPT ![<<d, u>>][worker[w].text] = @ + 1] ELSE pushed
      BY <2>1 DEF Push, Goes
    <3>2. worker[w].batch[u] = "sending" /\ UNCHANGED delivery
      BY <2>1 DEF Push
    <3> QED
      BY <3>1, <3>2
  <2>2. CASE SaveDelivery(w, u)
    <3>1. /\ worker[w].batch[u] \in Outcomes /\ UNCHANGED pushed
          /\ worker' = [worker EXCEPT ![w] = [worker[w] EXCEPT !.batch[u] = "none"]]
      BY <2>2 DEF SaveDelivery, Goes, ghost
    <3>2. faults' # faults + 1
      BY <1>1
    <3>3. delivery' = [delivery EXCEPT ![d][u] = worker[w].batch[u]]
      BY <2>2, <3>2 DEF SaveDelivery
    <3> QED
      BY <3>1, <3>3
  <2> QED
    BY <2>1, <2>2
<1>5. UNCHANGED <<status, old>>
  BY DEF Push, SaveDelivery
<1> DEFINE t == [worker[w] EXCEPT !.batch[u] = outcome]
<1>6. /\ t.job = d /\ t.pc = "batch" /\ t.batch[u] = outcome
      /\ \A x \in Users \ {u} : t.batch[x] = worker[w].batch[x]
  BY <1>1, <1>2, <1>3 DEF Worker
<1>7. worker' = [worker EXCEPT ![w] = t]
  BY <1>4
<1> HIDE DEF t
<1>8. CASE c # d
  <2>1. delivery'[c] = delivery[c] /\ \A x \in Users : pushed'[<<c, x>>] = pushed[<<c, x>>]
    BY <1>1, <1>3, <1>4, <1>8 DEF TypeOK
  <2> QED
    BY <1>1, <1>5, <1>6, <1>7, <1>8, <2>1, OrderlyElsewhere DEF Holds
<1>9. CASE c = d
  <2>1. Holds(w, c) /\ OneHolder(c) /\ HolderSends(c) /\ ReachedOnce(c)
    BY <1>9 DEF Holds, Orderly
  <2>2. delivery[c][u] = "PENDING"
    BY <1>2, <2>1 DEF HolderSends
  <2>3. \A x \in Users :
           \/ Reached(pushed, c, x) = 0
           \/ Reached(pushed, c, x) = 1 /\ (delivery[c][x] = "DELIVERED" \/ worker[w].batch[x] = "DELIVERED")
    BY <2>1 DEF ReachedOnce, OneHolder
  <2>4. \A x \in Users : pushed[<<c, x>>] \in [Versions -> Nat]
    BY <1>1 DEF TypeOK
  <2>5. \A x \in Users \ {u} : /\ Reached(pushed', c, x) = Reached(pushed, c, x)
                               /\ delivery'[c][x] = delivery[c][x]
    BY <1>1, <1>4, <1>9 DEF Reached, TypeOK
  <2>6. CASE worker[w].batch[u] = "sending" /\ outcome \in Outcomes /\ UNCHANGED delivery
             /\ pushed' = IF outcome = "DELIVERED"
                          THEN [pushed EXCEPT ![<<d, u>>][worker[w].text] = @ + 1] ELSE pushed
    <3>1. Reached(pushed, c, u) = 0
      BY <2>2, <2>3, <2>6
    <3>2. Reached(pushed', c, u) = IF outcome = "DELIVERED" THEN 1 ELSE 0
      <4>1. CASE outcome # "DELIVERED"
        BY <2>6, <3>1, <4>1 DEF Reached
      <4>2. CASE outcome = "DELIVERED"
        <5> DEFINE v == worker[w].text
                   f == pushed[<<c, u>>]
                   g == [f EXCEPT ![v] = @ + 1]
        <5>1. pushed'[<<c, u>>] = g
          BY <1>1, <1>9, <2>6, <4>2 DEF TypeOK
        <5>2. /\ f \in [Versions -> Int] /\ g \in [Versions -> Int] /\ g[v] = f[v] + 1
              /\ \A y \in Versions \ {v} : f[y] = g[y]
              /\ v \in Versions /\ f[v] \in Int
          BY <1>3, <2>4
        <5>3. SumFunction(f) = 0
          BY <3>1 DEF Reached
        <5>4. IsFiniteSet(Versions)
          BY FS_Interval DEF Versions
        <5> HIDE DEF f, g, v
        <5>5. SumFunction(g) = SumFunction(f) - f[v] + g[v]
          BY <5>2, <5>4, SumFunctionDiffersAt
        <5>6. SumFunction(g) = 1
          BY <5>2, <5>3, <5>5
        <5> QED
          BY <4>2, <5>1, <5>6 DEF Reached
      <4> QED
        BY <4>1, <4>2
    <3>3. \A x \in Users : t.batch[x] # "none" => delivery'[c][x] = "PENDING"
      BY <1>6, <2>1, <2>2, <2>6 DEF HolderSends
    <3>4. \A x \in Users :
             \/ Reached(pushed', c, x) = 0
             \/ /\ Reached(pushed', c, x) = 1
                /\ delivery'[c][x] = "DELIVERED" \/ t.batch[x] = "DELIVERED"
      BY <1>6, <2>3, <2>5, <3>2
    <3>5. InOrder(t, c)
      BY <1>6, <3>3, <3>4 DEF InOrder
    <3> QED
      BY <1>1, <1>5, <1>6, <1>7, <1>9, <2>1, <3>5, HolderOrderly
  <2>7. CASE outcome = "none" /\ UNCHANGED pushed /\ worker[w].batch[u] \in Outcomes
             /\ delivery' = [delivery EXCEPT ![d][u] = worker[w].batch[u]]
    <3>1. delivery'[c][u] = worker[w].batch[u]
      BY <1>1, <1>9, <2>7 DEF TypeOK
    <3>2. Reached(pushed', c, u) = Reached(pushed, c, u)
      BY <2>7 DEF Reached
    <3>3. \A x \in Users : t.batch[x] # "none" => delivery'[c][x] = "PENDING"
      BY <1>6, <2>1, <2>5, <2>7 DEF HolderSends
    <3>4. \A x \in Users :
             \/ Reached(pushed', c, x) = 0
             \/ /\ Reached(pushed', c, x) = 1
                /\ delivery'[c][x] = "DELIVERED" \/ t.batch[x] = "DELIVERED"
      BY <1>6, <2>2, <2>3, <2>5, <3>1, <3>2
    <3>5. InOrder(t, c)
      BY <1>6, <3>3, <3>4 DEF InOrder
    <3> QED
      BY <1>1, <1>5, <1>6, <1>7, <1>9, <2>1, <3>5, HolderOrderly
  <2> QED
    BY <1>4, <2>6, <2>7
<1> QED
  BY <1>8, <1>9

\* processCampaign up to and after the batches.
LEMMA CalmCampaign ==
    ASSUME IInv, FreeHanded, NEW c \in Campaigns, Orderly(c), NEW w \in Workers,
           Open(w) \/ Enrol(w) \/ TakeBatch(w) \/ EndBatch(w) \/ FinishCampaign(w)
    PROVE  Orderly(c)'
<1> USE CampaignsAssumption
<1> DEFINE d == worker[w].job
<1>1. TypeOK /\ worker[w] \in Worker /\ JobSound(worker[w])
  BY DEF IInv, TypeOK
<1>2. d \in Campaigns /\ worker[w].pc \in {"open", "enrol", "loop", "batch", "finish", "fail"}
      /\ worker[w].batch = NoBatch
  BY <1>1 DEF Open, Enrol, TakeBatch, EndBatch, FinishCampaign, JobSound
<1>3. \A pc, todo, x, text :
         /\ Working(pc, todo, x, text).pc = pc /\ Working(pc, todo, x, text).job = x
         /\ Working(pc, todo, x, text).batch = NoBatch
  BY DEF Working
<1>4. UNCHANGED pushed /\ old' = old
  BY DEF Open, Enrol, TakeBatch, EndBatch, FinishCampaign, ghost
<1>5. \A x \in Users : NoBatch[x] = "none"
  BY DEF NoBatch
<1>6. ASSUME NEW t, worker' = [worker EXCEPT ![w] = t], t.job \in {d, NoCampaign}, c # d,
             \A x \in Campaigns \ {d} : delivery'[x] = delivery[x] /\ status'[x] = status[x]
      PROVE  Orderly(c)'
  BY <1>1, <1>2, <1>4, <1>6, OrderlyElsewhere DEF Holds
<1>7. ASSUME c = d
      PROVE  /\ Holds(w, c) /\ OneHolder(c) /\ HolderSends(c)
             /\ \A x \in Users : Reached(pushed', c, x) = Reached(pushed, c, x)
             /\ \A x \in Users : Reached(pushed, c, x) = 0 \/ (Reached(pushed, c, x) = 1 /\ delivery[c][x] = "DELIVERED")
  <2>1. Holds(w, c) /\ OneHolder(c) /\ HolderSends(c) /\ ReachedOnce(c)
    BY <1>7 DEF Holds, Orderly
  <2>2. \A v \in Workers, x \in Users : Holds(v, c) => worker[v].batch[x] # "DELIVERED"
    BY <1>2, <1>5, <2>1 DEF OneHolder
  <2> QED
    BY <1>4, <2>1, <2>2 DEF ReachedOnce, Reached
<1>8. CASE Open(w) \/ EndBatch(w)
  <2>1. PICK t : /\ worker' = [worker EXCEPT ![w] = t] /\ t.job = d /\ t.batch = NoBatch
                 /\ t.pc # "finish"
    <3>1. CASE Open(w)
      <4> DEFINE t == Working(IF DeliverableNow(d) THEN "enrol" ELSE "fail", worker[w].todo, d, version[d])
      <4>1. worker' = [worker EXCEPT ![w] = t]
        BY <3>1 DEF Open, Goes
      <4>2. t.job = d /\ t.batch = NoBatch /\ t.pc # "finish"
        BY <1>3
      <4> HIDE DEF t
      <4> QED
        BY <4>1, <4>2
    <3>2. CASE EndBatch(w)
      <4>1. worker' = [worker EXCEPT ![w] = [worker[w] EXCEPT !.pc = "loop"]]
        BY <3>2 DEF EndBatch, Goes
      <4>2. [worker[w] EXCEPT !.pc = "loop"].job = d /\ [worker[w] EXCEPT !.pc = "loop"].pc = "loop"
            /\ [worker[w] EXCEPT !.pc = "loop"].batch = NoBatch
        BY <1>1, <1>2 DEF Worker
      <4> QED
        BY <4>1, <4>2
    <3> QED
      BY <1>8, <3>1, <3>2
  <2>2. UNCHANGED <<status, delivery>>
    BY <1>8 DEF Open, EndBatch
  <2>3. CASE c = d
    <3>1. InOrder(t, c)
      BY <1>5, <1>7, <2>1, <2>2, <2>3 DEF InOrder
    <3> QED
      BY <1>1, <1>4, <1>7, <2>1, <2>2, <2>3, <3>1, HolderOrderly
  <2> QED
    BY <1>6, <2>1, <2>2, <2>3
<1>9. CASE Enrol(w)
  <2> DEFINE t == Working("loop", worker[w].todo, d, worker[w].text)
             Row(a) == [x \in Users |->
                 IF delivery[d][x] = "none" /\ x \in a THEN "PENDING" ELSE delivery[d][x]]
  <2>1. PICK a \in SUBSET Users : delivery' = [delivery EXCEPT ![d] = Row(a)]
    BY <1>9 DEF Enrol
  <2>2. /\ worker' = [worker EXCEPT ![w] = t] /\ t.job = d /\ t.batch = NoBatch /\ t.pc = "loop"
        /\ UNCHANGED status
    BY <1>3, <1>9 DEF Enrol, Goes
  <2>3. /\ \A x \in Campaigns \ {d} : delivery'[x] = delivery[x]
        /\ \A x \in Users : delivery[d][x] = "DELIVERED" => delivery'[d][x] = "DELIVERED"
    BY <1>1, <1>2, <2>1 DEF TypeOK
  <2> HIDE DEF t
  <2>4. CASE c = d
    <3>1. InOrder(t, c)
      BY <1>5, <1>7, <2>2, <2>3, <2>4 DEF InOrder
    <3> QED
      BY <1>1, <1>4, <1>7, <2>2, <2>4, <3>1, HolderOrderly
  <2> QED
    BY <1>6, <2>2, <2>3, <2>4
<1>10. CASE TakeBatch(w)
  <2>1. UNCHANGED <<status, delivery>>
    BY <1>10 DEF TakeBatch
  <2>2. CASE status[d] # "SENDING"
    <3> DEFINE t == Working("claim", worker[w].todo, NoCampaign, 0)
    <3>1. worker' = [worker EXCEPT ![w] = t] /\ t.job = NoCampaign
      BY <1>3, <1>10, <2>2 DEF TakeBatch, NextJob, Goes
    <3> HIDE DEF t
    <3>2. CASE c = d
      <4>1. Holds(w, c) /\ status[c] # "SENT"
        BY <1>7, <3>2 DEF HolderSends
      <4> QED
        BY <1>1, <1>2, <1>4, <2>1, <3>1, <4>1, HolderLeaves
    <3> QED
      BY <1>6, <2>1, <3>1, <3>2
  <2>3. CASE status[d] = "SENDING"
    <3>1. PICK b \in Batches(d) :
             worker' = [worker EXCEPT ![w] =
                 IF b = {} THEN [worker[w] EXCEPT !.pc = "finish"]
                 ELSE [worker[w] EXCEPT !.pc = "batch",
                          !.batch = [u \in Users |-> IF u \in b THEN "sending" ELSE "none"]]]
      BY <1>10, <2>3 DEF TakeBatch, Goes
    <3> DEFINE t == IF b = {} THEN [worker[w] EXCEPT !.pc = "finish"]
                    ELSE [worker[w] EXCEPT !.pc = "batch",
                             !.batch = [u \in Users |-> IF u \in b THEN "sending" ELSE "none"]]
    <3>2. /\ worker' = [worker EXCEPT ![w] = t] /\ t.job = d
          /\ t.pc = "finish" => b = {}
          /\ \A x \in Users : t.batch[x] # "none" => x \in b
      BY <1>1, <1>2, <1>5, <3>1 DEF Worker
    <3> HIDE DEF t
    <3>3. b \subseteq Pending(d) /\ (b = {} => Pending(d) = {})
      <4>1. IsFiniteSet(Pending(d)) /\ Cardinality(Pending(d)) \in Nat
        <5>1. Pending(d) \in SUBSET Users
          BY DEF Pending
        <5> QED
          BY <5>1, FS_Subset, FS_CardinalityType
      <4>2. b = {} => Cardinality(Pending(d)) = 0
        <5>1. b = {} => Cardinality(b) = 0
          BY FS_EmptySet
        <5>2. Cardinality(b) = IF Cardinality(Pending(d)) < BatchSize THEN Cardinality(Pending(d))
                               ELSE BatchSize
          BY DEF Batches
        <5> QED
          BY <4>1, <5>1, <5>2
      <4> QED
        BY <4>1, <4>2, FS_EmptySet DEF Batches
    <3>4. CASE c = d
      <4>1. \A x \in Users : t.batch[x] # "none" => delivery'[c][x] = "PENDING"
        BY <2>1, <3>2, <3>3, <3>4 DEF Pending
      <4>2. t.pc = "finish" => \A x \in Users : delivery'[c][x] # "PENDING"
        BY <2>1, <3>2, <3>3, <3>4 DEF Pending
      <4>3. InOrder(t, c)
        BY <1>7, <2>1, <3>4, <4>1, <4>2 DEF InOrder
      <4> QED
        BY <1>1, <1>4, <1>7, <2>1, <3>2, <3>4, <4>3, HolderOrderly
    <3> QED
      BY <1>6, <2>1, <3>2, <3>4
  <2> QED
    BY <2>2, <2>3
<1>11. CASE FinishCampaign(w)
  <2> DEFINE t == Working("claim", worker[w].todo, NoCampaign, 0)
             result == IF worker[w].pc = "finish" THEN "SENT" ELSE "FAILED"
  <2>1. /\ worker' = [worker EXCEPT ![w] = t] /\ t.job = NoCampaign /\ UNCHANGED delivery
        /\ status' = [status EXCEPT ![d] = IF status[d] = "SENDING" THEN result ELSE status[d]]
    BY <1>3, <1>11 DEF FinishCampaign, NextJob, Goes
  <2> HIDE DEF t
  <2>2. \A x \in Campaigns \ {d} : status'[x] = status[x]
    BY <1>1, <2>1 DEF TypeOK
  <2>3. CASE c = d
    <3>1. Holds(w, c) /\ HolderSends(c)
      BY <1>7, <2>3
    <3>2. status'[c] = "SENT" => Pending(c) = {}
      BY <1>1, <2>1, <2>3, <3>1 DEF HolderSends, TypeOK
    <3> QED
      BY <1>1, <1>2, <1>4, <2>1, <2>3, <3>1, <3>2, HolderLeaves
  <2> QED
    BY <1>6, <2>1, <2>2, <2>3
<1> QED
  BY <1>8, <1>9, <1>10, <1>11

\* Every step keeps the order, or is counted as a disturbance.
LEMMA CalmStep == CalmInv /\ [Next]_vars => CalmInv'
<1> SUFFICES ASSUME CalmInv, [Next]_vars PROVE CalmInv'
  OBVIOUS
<1> IInv /\ FreeHanded
  BY DEF CalmInv
<1>1. IInv'
  BY InvStep
<1>2. CASE UNCHANGED vars
  <2>1. UNCHANGED <<status, old, delivery, worker, pushed, faults, stale>>
    BY <1>2 DEF vars, row, ghost
  <2>2. FreeHanded' /\ (Undisturbed' <=> Undisturbed)
    BY <2>1 DEF FreeHanded, Undisturbed
  <2>3. ASSUME NEW c \in Campaigns, Orderly(c) PROVE Orderly(c)'
    BY <2>1, <2>3, OrderlyKept DEF Holds
  <2> QED
    BY <1>1, <2>2, <2>3 DEF CalmInv
<1>3. CASE Next
  <2>1. FreeHanded'
    BY <1>3, FreeKept
  <2>2. ASSUME Undisturbed', NEW c \in Campaigns PROVE Orderly(c)'
    <3>1. Undisturbed /\ UNCHANGED <<faults, stale>> /\ faults \in Nat /\ faults' = faults
      BY <1>3, <2>2, CountsGrow DEF Undisturbed
    <3>2. Orderly(c)
      BY <3>1 DEF CalmInv
    <3>3. ASSUME NEW w \in Workers, Step(w) \/ QueryFails(w) \/ Crash(w) PROVE Orderly(c)'
      <4>1. ~QueryFails(w) /\ ~Crash(w)
        BY <3>1 DEF QueryFails, Crash
      <4> QED
        BY <3>1, <3>2, <3>3, <4>1, CalmPass, CalmDelivery, CalmCampaign DEF Step
    <3>4. CASE ~\E w \in Workers : Step(w) \/ QueryFails(w) \/ Crash(w)
      BY <1>3, <3>1, <3>2, <3>4, CalmRequests DEF Next
    <3> QED
      BY <3>3, <3>4
  <2> QED
    BY <1>1, <2>1, <2>2 DEF CalmInv
<1> QED
  BY <1>2, <1>3

\* As long as no process dies or outlives its lease, no save is lost and no
\* request acts on a status that has moved on, nobody gets a campaign twice and
\* a campaign shown as SENT was tried for everyone it was addressed to.
THEOREM ReachedCorrect == Spec => []ReachesEveryoneOnce
<1>1. Init => CalmInv
  <2> SUFFICES ASSUME Init PROVE CalmInv
    OBVIOUS
  <2>1. FreeHanded
    BY DEF Init, FreeHanded, Resting, Working
  <2>2. ASSUME NEW c \in Campaigns PROVE Orderly(c)
    <3>1. \A w \in Workers : ~Holds(w, c)
      BY CampaignsAssumption DEF Init, Holds, Resting, Working
    <3>2. ASSUME NEW u \in Users PROVE Reached(pushed, c, u) = 0
      <4> DEFINE f == [v \in Versions |-> 0]
      <4>1. pushed[<<c, u>>] = f
        BY DEF Init
      <4>2. f \in [Versions -> Int] /\ \A v \in Versions : f[v] = 0
        OBVIOUS
      <4>3. IsFiniteSet(Versions)
        BY CampaignsAssumption, FS_Interval DEF Versions
      <4> HIDE DEF f
      <4>4. SumFunction(f) = 0
        BY <4>2, <4>3, SumFunctionZero
      <4> QED
        BY <4>1, <4>4 DEF Reached
    <3>3. status[c] # "SENT"
      BY DEF Init
    <3> QED
      BY <3>1, <3>2, <3>3 DEF Orderly, OneHolder, HolderSends, ReachedOnce
  <2> QED
    BY <2>1, <2>2, InvInit DEF CalmInv
<1>2. CalmInv => ReachesEveryoneOnce
  <2> SUFFICES ASSUME CalmInv, Undisturbed PROVE \A c \in Campaigns :
                 /\ \A u \in Users : SumFunction(pushed[<<c, u>>]) <= 1
                 /\ status[c] = "SENT" => Pending(c) = {}
    BY DEF ReachesEveryoneOnce, NobodyTwice, SentIsComplete
  <2> QED
    BY DEF CalmInv, Orderly, ReachedOnce, Reached
<1> QED
  BY <1>1, <1>2, CalmStep, PTL DEF Spec
=============================================================================
