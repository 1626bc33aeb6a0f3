-------------------------- MODULE RiderOnboarding --------------------------
(***************************************************************************)
(* One rider from the application to the road: profile and evidence        *)
(* (riders.service.ts), the checks of the identity provider                *)
(* (identro.service.ts), the review by staff (admin.service.ts), and going *)
(* online once rider-readiness.ts says so.                                 *)
(*                                                                         *)
(* One row of each kind of evidence.  A handler reads, asks the provider   *)
(* or checks, and later writes without a condition on what it read, so it  *)
(* is two steps wherever that matters.  Audit rows and notices are left    *)
(* out.                                                                    *)
(***************************************************************************)
EXTENDS Naturals, FiniteSets

CONSTANTS Agents,        \* concurrent HTTP handlers, of the rider and of staff
          Applications,  \* [kinds: evidence the rider hands in, motor: BOOLEAN]
          AutoApprove,   \* IDENTRO_AUTO_APPROVE_ON_MATCH
          MaxVisits      \* bound: two-step requests started

VARIABLES application,  \* which of Applications this rider makes
          profile,      \* the RiderProfile row
          evidence,     \* status of the row of each kind, "none" before it exists
          reply,        \* what the provider last told each checked row
          verdict,      \* what the provider has found out so far (final)
          agent,        \* what each handler has read and does next
          visits,       \* two-step requests started (bound)
          proven        \* history: kinds of evidence that were APPROVED once

onboardingVars ==
  <<application, profile, evidence, reply, verdict, agent, visits, proven>>

EvidenceKinds ==
  {"document", "licence", "check", "liveness", "vehicle", "photo", "registration",
   "guarantor", "reference"}
\* Rows a provider gives its opinion on; "check" is a licence with a provider.
ProviderKinds == {"document", "check", "liveness", "reference"}

Standby == [step |-> "standby", kind |-> "none", answer |-> "none",
            approve |-> {}, late |-> FALSE]

OnboardingInit ==
  /\ application \in Applications
  /\ profile = [status |-> "CREATED", filled |-> FALSE, online |-> FALSE,
                located |-> "none", role |-> FALSE]
  /\ evidence = [k \in EvidenceKinds |-> "none"]
  /\ reply = [k \in ProviderKinds |-> "PENDING"]
  /\ verdict = [k \in ProviderKinds |-> "PENDING"]
  /\ agent = [a \in Agents |-> Standby]
  /\ visits = 0
  /\ proven = {}

-----------------------------------------------------------------------------
(* assessRiderReadiness over a snapshot e of the evidence.                 *)

Present(e, k) == e[k] # "none"
LicenceEvidence(e) == Present(e, "licence") \/ Present(e, "check")
LicenceApproved(e) == "APPROVED" \in {e["licence"], e["check"]}

\* missingApplicationRequirements is empty.  A vehicle without a photo, or a
\* motorised one without a registration, is not enough.
ApplicationComplete(e) ==
  /\ profile.filled
  /\ Present(e, "document") \/ LicenceEvidence(e)
  /\ Present(e, "liveness") /\ Present(e, "vehicle") /\ Present(e, "photo")
  /\ application.motor => LicenceEvidence(e) /\ Present(e, "registration")

FaultyOperational(e) ==
  /\ ApplicationComplete(e)
  /\ e["document"] = "APPROVED" \/ LicenceApproved(e)
  /\ e["vehicle"] = "APPROVED"
  /\ application.motor => LicenceApproved(e) /\ e["registration"] = "APPROVED"

\* missingOperationalRequirements is empty.
Operational(e) ==
  /\ ApplicationComplete(e)
  /\ e["document"] = "APPROVED" \/ LicenceApproved(e)
  /\ e["liveness"] = "APPROVED"
  /\ e["vehicle"] = "APPROVED"
  /\ application.motor => LicenceApproved(e) /\ e["registration"] = "APPROVED"

CanAcceptDeliveries == profile.status = "APPROVED" /\ Operational(evidence)

FaultyEditable(status) == status \notin {"UNDER_REVIEW", "SUSPENDED"}
\* ensureApplicationEditable
Editable(status) == status \notin {"UNDER_REVIEW", "APPROVED", "SUSPENDED"}

-----------------------------------------------------------------------------
(* The identity provider, and how a handler starts and ends.               *)

\* External: the provider reaches its verdict, once.
ProviderDecides(k) ==
  /\ verdict[k] = "PENDING"
  /\ Present(evidence, k) \/ \E a \in Agents : agent[a].step = "create" /\ agent[a].kind = k
  /\ \E v \in {"VERIFIED", "FAILED"} : verdict' = [verdict EXCEPT ![k] = v]
  /\ UNCHANGED <<application, profile, evidence, reply, agent, visits, proven>>

Visit(a, rec) ==
  /\ agent[a] = Standby /\ visits < MaxVisits
  /\ agent' = [agent EXCEPT ![a] = rec]
  /\ visits' = visits + 1
Leave(a) == agent' = [agent EXCEPT ![a] = Standby]

\* Rows an open transaction of decideRiderApplication has updated.
RowLocked(k) == \E a \in Agents : agent[a].step = "approve" /\ k \in agent[a].approve

SetEvidence(k, status) ==
  /\ evidence' = [evidence EXCEPT ![k] = status]
  /\ proven' = IF status = "APPROVED" THEN proven \cup {k} ELSE proven

\* What verifyDriverLicense and completeLivenessSession make of an answer.
StatusOf(answer) ==
  CASE answer = "VERIFIED" -> "APPROVED"
    [] answer = "FAILED"   -> "REJECTED"
    [] OTHER               -> "PENDING"

-----------------------------------------------------------------------------
(* The rider's side.                                                       *)

\* updateProfile: service area and emergency contact.
UpdateRiderProfile ==
  /\ profile' = [profile EXCEPT !.filled = TRUE]
  /\ UNCHANGED <<application, evidence, reply, verdict, agent, visits, proven>>

\* A new PENDING row, whatever the status of the profile.
AddEvidence(k) ==
  /\ k \in application.kinds /\ ~Present(evidence, k)
  /\ evidence' = [evidence EXCEPT ![k] = "PENDING"]
  /\ UNCHANGED <<application, profile, reply, verdict, agent, visits, proven>>

AddDocument == AddEvidence("document")
AddLicence == AddEvidence("licence")
MintKycSession == AddEvidence("liveness")
AddVehicleDocument == Present(evidence, "vehicle") /\ AddEvidence("registration")
\* addGuarantor; its document needs the guarantor.
AddGuarantor == AddEvidence("guarantor")
AddGuarantorDocument == Present(evidence, "guarantor") /\ AddEvidence("reference")

\* The photo is a column of the vehicle, with no status of its own.
AddVehicle(withPhoto) ==
  /\ ~Present(evidence, "vehicle")
  /\ evidence' = [evidence EXCEPT !["vehicle"] = "PENDING",
                                  !["photo"] = IF withPhoto THEN "PENDING" ELSE "none"]
  /\ UNCHANGED <<application, profile, reply, verdict, agent, visits, proven>>

\* updateVehicle and replaceVehicleDocument: only while the application may be
\* edited, and only what staff has not approved.
EditRead(a, k) ==
  /\ Editable(profile.status)
  /\ Visit(a, [Standby EXCEPT !.step = "edit", !.kind = k])
  /\ UNCHANGED <<application, profile, evidence, reply, verdict, proven>>
UpdateVehicle(a) == evidence["vehicle"] \in {"PENDING", "REJECTED"} /\ EditRead(a, "vehicle")
ReplaceVehicleDocument(a) == evidence["registration"] = "REJECTED" /\ EditRead(a, "registration")

EditEvidence(a) ==
  /\ agent[a].step = "edit" /\ ~RowLocked(agent[a].kind)
  /\ \E photo \in IF agent[a].kind = "vehicle" THEN {"PENDING", evidence["photo"]}
                                               ELSE {evidence["photo"]} :
       evidence' = [evidence EXCEPT ![agent[a].kind] = "PENDING", !["photo"] = photo]
  /\ Leave(a)
  /\ UNCHANGED <<application, profile, reply, verdict, visits, proven>>

\* Ask the provider; its answer is written later.
AskProvider(a, k) ==
  /\ Present(evidence, k)
  /\ Visit(a, [Standby EXCEPT !.step = "answer", !.kind = k, !.answer = verdict[k]])
  /\ UNCHANGED <<application, profile, evidence, reply, verdict, proven>>

SyncDriverLicenseRequest(a) == AskProvider(a, "check")
CompleteLivenessSession(a) == evidence["liveness"] = "PENDING" /\ AskProvider(a, "liveness")
VerifyRiderDocument(a) == AskProvider(a, "document")
VerifyGuarantorDocument(a) == AskProvider(a, "reference")

\* verifyDriverLicense: one idempotency key, so the row is created once.
VerifyDriverLicense(a) ==
  /\ "check" \in application.kinds /\ ~Present(evidence, "check")
  /\ Visit(a, [Standby EXCEPT !.step = "create", !.kind = "check", !.answer = verdict["check"]])
  /\ UNCHANGED <<application, profile, evidence, reply, verdict, proven>>

\* The answer is written over whatever the row says by now.  A document is
\* only ever approved this way, a provider licence and a liveness session take
\* the status of the answer.
WriteAnswer(a) ==
  /\ \/ agent[a].step = "answer"
     \/ agent[a].step = "create" /\ ~Present(evidence, "check")
  /\ LET k == agent[a].kind
         answer == agent[a].answer IN
     /\ reply' = [reply EXCEPT ![k] = answer]
     /\ IF k \in {"check", "liveness"} THEN SetEvidence(k, StatusOf(answer))
        ELSE IF answer = "VERIFIED" /\ AutoApprove THEN SetEvidence(k, "APPROVED")
        ELSE UNCHANGED <<evidence, proven>>
  /\ Leave(a)
  /\ UNCHANGED <<application, profile, verdict, visits>>

\* The request fails on the way, or the unique key refuses a second row.
AnswerLost(a) ==
  /\ agent[a].step \in {"answer", "create"}
  /\ Leave(a)
  /\ UNCHANGED <<application, profile, evidence, reply, verdict, visits, proven>>

SubmitRead(a) ==
  /\ Editable(profile.status) /\ ApplicationComplete(evidence)
  /\ Visit(a, [Standby EXCEPT !.step = "submit"])
  /\ UNCHANGED <<application, profile, evidence, reply, verdict, proven>>

\* Every other handler that decided on the old status is late from now on.
WriteStatus(a, status) ==
  /\ profile' = [profile EXCEPT !.status = status,
                                !.role = @ \/ status = "APPROVED"]
  /\ agent' = [b \in Agents |->
       IF b = a THEN Standby
       ELSE IF agent[b].step \in {"submit", "decide", "approve", "reject"}
       THEN [agent[b] EXCEPT !.late = TRUE] ELSE agent[b]]

SubmitForReview(a) ==
  /\ agent[a].step = "submit"
  /\ WriteStatus(a, "UNDER_REVIEW")
  /\ UNCHANGED <<application, evidence, reply, verdict, visits, proven>>

\* updateCurrentLocation, and the position growing old.
UpdateCurrentLocation ==
  /\ profile.status = "APPROVED"
  /\ profile' = [profile EXCEPT !.located = "fresh"]
  /\ UNCHANGED <<application, evidence, reply, verdict, agent, visits, proven>>

LocationAges ==
  /\ profile.located = "fresh"
  /\ profile' = [profile EXCEPT !.located = "stale"]
  /\ UNCHANGED <<application, evidence, reply, verdict, agent, visits, proven>>

FaultyMayGoOnline == CanAcceptDeliveries
\* updateAvailability(true) with ensureFreshJobLocation.
MayGoOnline == CanAcceptDeliveries /\ profile.located = "fresh"

GoOnlineRead(a) ==
  /\ MayGoOnline
  /\ Visit(a, [Standby EXCEPT !.step = "online"])
  /\ UNCHANGED <<application, profile, evidence, reply, verdict, proven>>

GoOnline(a) ==
  /\ agent[a].step = "online"
  /\ profile' = [profile EXCEPT !.online = TRUE]
  /\ Leave(a)
  /\ UNCHANGED <<application, evidence, reply, verdict, visits, proven>>

GoOffline ==
  /\ profile' = [profile EXCEPT !.online = FALSE]
  /\ UNCHANGED <<application, evidence, reply, verdict, agent, visits, proven>>

-----------------------------------------------------------------------------
(* The staff's side.                                                       *)

\* Staff decides on a row, whatever its state or that of the application.
ReviewEvidence(k, status) ==
  /\ Present(evidence, k) /\ ~RowLocked(k)
  /\ SetEvidence(k, status)
  /\ UNCHANGED <<application, profile, reply, verdict, agent, visits>>
ReviewDocument(status) == ReviewEvidence("document", status)
ReviewVehicleDocument(status) == ReviewEvidence("registration", status)
ReviewVehicle(status) == ReviewEvidence("vehicle", status)
ReviewGuarantorDocument(status) == ReviewEvidence("reference", status)
\* reviewRiderLicence for a manual licence: it has an image by construction.
ReviewManualLicence(status) == ReviewEvidence("licence", status)

FaultyLicenceReviewable(status) == Present(evidence, "check")
\* reviewRiderLicence for a licence with a provider.
LicenceReviewable(status) ==
  Present(evidence, "check") /\ (status = "APPROVED" => reply["check"] = "VERIFIED")

ReviewLicenceRead(a, status) ==
  /\ LicenceReviewable(status)
  /\ Visit(a, [Standby EXCEPT !.step = "review", !.kind = "check", !.answer = status])
  /\ UNCHANGED <<application, profile, evidence, reply, verdict, proven>>

ReviewLicence(a) ==
  /\ agent[a].step = "review"
  /\ SetEvidence("check", agent[a].answer)
  /\ Leave(a)
  /\ UNCHANGED <<application, profile, reply, verdict, visits>>

\* Manual evidence decideRiderApplication approves along the way.
PendingManual ==
  {k \in {"licence", "vehicle", "registration"} :
     evidence[k] = "PENDING" /\ (k = "vehicle" => Present(evidence, "photo"))}

WithApprovals(ks) == [k \in EvidenceKinds |-> IF k \in ks THEN "APPROVED" ELSE evidence[k]]

\* approveRider reads and assesses at once; rejectRider needs no readiness.
ApproveRiderRead(a) ==
  /\ profile.status = "UNDER_REVIEW" /\ Operational(evidence)
  /\ Visit(a, [Standby EXCEPT !.step = "approve"])
  /\ UNCHANGED <<application, profile, evidence, reply, verdict, proven>>

\* decideRiderApplication (REJECT) and rejectRider.
RejectRiderRead(a) ==
  /\ profile.status = "UNDER_REVIEW"
  /\ Visit(a, [Standby EXCEPT !.step = "reject"])
  /\ UNCHANGED <<application, profile, evidence, reply, verdict, proven>>

\* decideRiderApplication (APPROVE): what is pending, and whether that is
\* enough, is fixed by the snapshot of the first read; own updates are the
\* only changes the second read sees.
DecideApplicationRead(a, approveManual) ==
  LET manual == IF approveManual THEN PendingManual ELSE {} IN
  /\ profile.status = "UNDER_REVIEW" /\ Operational(WithApprovals(manual))
  /\ Visit(a, [Standby EXCEPT !.step = "decide", !.approve = manual])
  /\ UNCHANGED <<application, profile, evidence, reply, verdict, proven>>

\* The updates lock their rows until the commit.
ApproveManualChecks(a) ==
  /\ agent[a].step = "decide"
  /\ ~\E k \in agent[a].approve : RowLocked(k)
  /\ agent' = [agent EXCEPT ![a].step = "approve"]
  /\ UNCHANGED <<application, profile, evidence, reply, verdict, visits, proven>>

\* The commit: evidence, status and the RIDER role together.
ApproveApplication(a) ==
  /\ agent[a].step = "approve"
  /\ evidence' = WithApprovals(agent[a].approve)
  /\ proven' = proven \cup agent[a].approve
  /\ WriteStatus(a, "APPROVED")
  /\ UNCHANGED <<application, reply, verdict, visits>>

RejectApplication(a) ==
  /\ agent[a].step = "reject"
  /\ WriteStatus(a, "REJECTED")
  /\ UNCHANGED <<application, evidence, reply, verdict, visits, proven>>

OnboardingNext ==
  \/ UpdateRiderProfile \/ UpdateCurrentLocation \/ LocationAges \/ GoOffline
  \/ AddDocument \/ AddLicence \/ MintKycSession \/ AddVehicleDocument
  \/ AddGuarantor \/ AddGuarantorDocument \/ \E b \in BOOLEAN : AddVehicle(b)
  \/ \E k \in ProviderKinds : ProviderDecides(k)
  \/ \E status \in {"APPROVED", "REJECTED"} :
       \/ ReviewDocument(status) \/ ReviewVehicleDocument(status) \/ ReviewVehicle(status)
       \/ ReviewGuarantorDocument(status) \/ ReviewManualLicence(status)
  \/ \E a \in Agents :
       \/ UpdateVehicle(a) \/ ReplaceVehicleDocument(a) \/ EditEvidence(a)
       \/ SyncDriverLicenseRequest(a) \/ CompleteLivenessSession(a) \/ VerifyRiderDocument(a)
       \/ VerifyGuarantorDocument(a) \/ VerifyDriverLicense(a) \/ WriteAnswer(a) \/ AnswerLost(a)
       \/ SubmitRead(a) \/ SubmitForReview(a)
       \/ GoOnlineRead(a) \/ GoOnline(a)
       \/ \E status \in {"APPROVED", "REJECTED"} : ReviewLicenceRead(a, status)
       \/ ReviewLicence(a)
       \/ ApproveRiderRead(a) \/ RejectRiderRead(a)
       \/ \E manual \in BOOLEAN : DecideApplicationRead(a, manual)
       \/ ApproveManualChecks(a) \/ ApproveApplication(a) \/ RejectApplication(a)

OnboardingSpec == OnboardingInit /\ [][OnboardingNext]_onboardingVars

-----------------------------------------------------------------------------
(* Properties.                                                             *)

\* Whoever is approved has had everything approved the road asks for (an
\* identity or a licence, the liveness session, the vehicle and, with an
\* engine, its registration and a licence), whichever way and in whatever
\* order the pieces were reviewed.
ApprovedWasVerified ==
  profile.status = "APPROVED" =>
    /\ {"document", "licence", "check"} \cap proven # {}
    /\ {"liveness", "vehicle"} \subseteq proven
    /\ application.motor => "registration" \in proven /\ {"licence", "check"} \cap proven # {}

\* Whatever staff and late answers do, a licence and a liveness session that
\* the provider judges are approved only when the provider verified them
\* ("An automatic provider failure or pending result cannot be manually
\* approved", admin.service.ts:780).
ProviderHasTheLastWord ==
  \A k \in {"check", "liveness"} : evidence[k] = "APPROVED" => verdict[k] = "VERIFIED"

\* A rider can be online only after an approval gave him the role and a
\* position was published.
OnlineWasCleared == profile.online => profile.role /\ profile.located # "none"

LegalDecisions ==
  {<<"CREATED", "UNDER_REVIEW">>, <<"REJECTED", "UNDER_REVIEW">>,
   <<"UNDER_REVIEW", "APPROVED">>, <<"UNDER_REVIEW", "REJECTED">>}

\* The application moves along submit, decision, resubmission; "UNDER_REVIEW,
\* APPROVED, and SUSPENDED profiles cannot resubmit" (riders.controller.ts:433).
\* A decision is only undone by a handler that checked the status before
\* somebody else changed it.
ApplicationMovesForward ==
  profile.status' # profile.status =>
    \/ <<profile.status, profile.status'>> \in LegalDecisions
    \/ \E a \in Agents : agent[a].late /\ agent'[a] = Standby

\* No step of the rider, of staff or of a provider lets an unverified rider
\* through, and none takes the application where it may not go.
OnboardingIsSound ==
  [][/\ ApplicationMovesForward
     /\ ApprovedWasVerified' /\ ProviderHasTheLastWord' /\ OnlineWasCleared']_onboardingVars
=============================================================================
