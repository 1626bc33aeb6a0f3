----------------------------- MODULE Merchants -----------------------------
(***************************************************************************)
(* A merchant's way to the market: the vendor profile with its identity    *)
(* and business checks (vendors.service.ts, identro.service.ts), the store *)
(* and its business registration (stores.service.ts, store-cac.service.ts, *)
(* qoreid.service.ts with its cached token), the decisions of staff        *)
(* (admin.service.ts), and the stock the vendor states for an offer while  *)
(* customers reserve it.                                                   *)
(*                                                                         *)
(* One vendor with one store and one offer.  A handler that asks a         *)
(* provider or compares before it writes is two steps, and a submission of *)
(* the business registration is three: it looks for an approved record,    *)
(* asks QoreID, looks for any record of the store, and then updates that   *)
(* record or creates one.  No key keeps the records of a store unique.     *)
(***************************************************************************)
EXTENDS Integers, Sequences, FiniteSets

CONSTANTS Clerks,        \* concurrent HTTP handlers
          VendorAuto,    \* IDENTRO_AUTO_APPROVE_ON_MATCH
          TokenLife,     \* lifetime QoreID gives a token, in ticks
          TokenBuffer,   \* TOKEN_TTL_BUFFER_SECONDS, in ticks
          Goods,         \* units the vendor really has
          MaxErrands     \* bound: requests started

ASSUME MerchantsAssumption ==
  IsFiniteSet(Clerks) /\ TokenLife \in Nat /\ TokenBuffer \in Nat /\ Goods \in Nat

VARIABLES shop,       \* Store.isActive
          cacRecords, \* StoreCacVerification rows of the store: status by id
          vendor,     \* VendorProfile with its NIN and CAC rows
          offer,      \* StoreProduct, and what customers were promised of it
          token,      \* QoreID's token: ticks it lives and stays cached
          clerk,      \* what each handler has read and does next
          errands,    \* requests started (bound)
          causes      \* history: what explains an exception

merchantVars == <<shop, cacRecords, vendor, offer, token, clerk, errands, causes>>

\* `count' is the stock the vendor counted, or the id of a record (0: none).
Unoccupied == [step |-> "free", answer |-> "none", count |-> 0, late |-> FALSE]

MerchantsInit ==
  /\ shop = FALSE
  /\ cacRecords = <<>>
  /\ vendor = [status |-> "none", review |-> "PENDING", nin |-> "none",
               cac |-> "none", role |-> FALSE]
  /\ offer = [listed |-> FALSE, stock |-> 0, promised |-> 0]
  /\ token = [left |-> 0, cached |-> 0]
  /\ clerk = [c \in Clerks |-> Unoccupied]
  /\ errands = 0
  /\ causes = {}

ErrandWith(c, step, answer, count) ==
  /\ clerk[c] = Unoccupied /\ errands < MaxErrands
  /\ clerk' = [clerk EXCEPT ![c] = [step |-> step, answer |-> answer,
                                    count |-> count, late |-> FALSE]]
  /\ errands' = errands + 1
Errand(c, step, answer) == ErrandWith(c, step, answer, 0)
Rest(c) == clerk' = [clerk EXCEPT ![c] = Unoccupied]
\* A request that is one step.
Instant == errands < MaxErrands /\ errands' = errands + 1

-----------------------------------------------------------------------------
(* The token of QoreID, shared through Redis.                              *)

FaultyTokenTtl == TokenLife
TokenTtl == TokenLife - TokenBuffer

\* getToken on a cache miss; on a hit nothing changes.
GetToken ==
  /\ token.cached = 0
  /\ token' = [left |-> TokenLife, cached |-> TokenTtl]
  /\ UNCHANGED <<shop, cacRecords, vendor, offer, clerk, errands, causes>>

Pred(n) == IF n = 0 THEN 0 ELSE n - 1
TokenAges ==
  /\ token.left > 0
  /\ token' = [left |-> token.left - 1, cached |-> Pred(token.cached)]
  /\ UNCHANGED <<shop, cacRecords, vendor, offer, clerk, errands, causes>>

-----------------------------------------------------------------------------
(* The store and its business registration.                                *)

ApprovedRecords == {r \in DOMAIN cacRecords : cacRecords[r] = "APPROVED"}

FaultyCacSubmittable == TRUE
\* The owner's store has no approved record yet.
CacSubmittable == ApprovedRecords = {}

\* submit: checked, then QoreID is asked with the cached token.
SubmitCacRead(c) ==
  /\ CacSubmittable /\ token.cached > 0
  /\ Errand(c, "cac", "none")
  /\ UNCHANGED <<shop, cacRecords, vendor, offer, token, causes>>

FaultyFirstRecord == {0}
\* findFirst: any record of the store, in no stated order, or none.
FirstRecord == IF cacRecords = <<>> THEN {0} ELSE DOMAIN cacRecords

SubmitCacFind(c) ==
  /\ clerk[c].step = "cac"
  /\ \E r \in FirstRecord :
       clerk' = [clerk EXCEPT ![c] = [@ EXCEPT !.step = "cacFound", !.count = r]]
  /\ UNCHANGED <<shop, cacRecords, vendor, offer, token, errands, causes>>

\* The upsert by id, whatever the records say by now.
SubmitCac(c) ==
  /\ clerk[c].step = "cacFound"
  /\ LET r == clerk[c].count IN
     /\ cacRecords' = IF r = 0 THEN Append(cacRecords, "PENDING")
                               ELSE [cacRecords EXCEPT ![r] = "PENDING"]
     /\ causes' = IF clerk[c].late /\ r \in ApprovedRecords
                  THEN causes \cup {"overwritten"} ELSE causes
  /\ Rest(c)
  /\ UNCHANGED <<shop, vendor, offer, token, errands>>

\* review of one record by staff, in any state but APPROVED.
ReviewCacRead(c, r, decision) ==
  /\ cacRecords[r] # "APPROVED"
  /\ ErrandWith(c, "decide", decision, r)
  /\ UNCHANGED <<shop, cacRecords, vendor, offer, token, causes>>

ShopAfter(decision) == decision = "APPROVED"

\* One transaction for the record and the store.  A rejection ends what an
\* earlier activation allowed; an approval overtakes the submissions that
\* looked for one before.
ReviewCac(c) ==
  /\ clerk[c].step = "decide"
  /\ LET decision == clerk[c].answer IN
     /\ cacRecords' = [cacRecords EXCEPT ![clerk[c].count] = decision]
     /\ shop' = ShopAfter(decision)
     /\ causes' = IF ShopAfter(decision) THEN causes ELSE causes \ {"activated", "overwritten"}
     /\ clerk' = [d \in Clerks |->
          IF d = c THEN Unoccupied
          ELSE IF ShopAfter(decision) /\ clerk[d].step \in {"cac", "cacFound"}
          THEN [clerk[d] EXCEPT !.late = TRUE] ELSE clerk[d]]
  /\ UNCHANGED <<vendor, offer, token, errands>>

\* activateStore: without a look at the record.
ActivateStore ==
  /\ Instant
  /\ shop' = TRUE
  /\ causes' = causes \cup {"activated"}
  /\ UNCHANGED <<cacRecords, vendor, offer, token, clerk>>

-----------------------------------------------------------------------------
(* The offer.  addProduct states an absolute stock; checkout subtracts.    *)

\* The vendor counts what is left to sell, and sends the form.
AddProductRead(c) ==
  /\ shop
  /\ ErrandWith(c, "stock", "none", Goods - offer.promised)
  /\ UNCHANGED <<shop, cacRecords, vendor, offer, token, causes>>

AddProduct(c) ==
  /\ clerk[c].step = "stock"
  /\ offer' = [offer EXCEPT !.listed = TRUE, !.stock = clerk[c].count]
  /\ causes' = IF clerk[c].late THEN causes \cup {"recounted"} ELSE causes
  /\ Rest(c)
  /\ UNCHANGED <<shop, cacRecords, vendor, token, errands>>

FaultyInStock == offer.listed /\ shop
\* The condition of the updateMany that reserves a unit.
InStock == offer.listed /\ shop /\ offer.stock >= 1

ReserveUnit ==
  /\ InStock /\ Instant
  /\ offer' = [offer EXCEPT !.stock = @ - 1, !.promised = @ + 1]
  /\ clerk' = [c \in Clerks |-> IF clerk[c].step = "stock"
                                THEN [clerk[c] EXCEPT !.late = TRUE] ELSE clerk[c]]
  /\ UNCHANGED <<shop, cacRecords, vendor, token, causes>>

-----------------------------------------------------------------------------
(* The vendor profile.                                                     *)

UpdateVendorProfile ==
  /\ Instant
  /\ vendor' = [vendor EXCEPT !.status = IF @ = "none" THEN "PROFILE_COMPLETED" ELSE @]
  /\ UNCHANGED <<shop, cacRecords, offer, token, clerk, causes>>

\* verifyNin, verifyCac: the provider answers before anything is written.
VerifyRead(c, row, answer) ==
  /\ vendor.status # "none"
  /\ Errand(c, row, answer)
  /\ UNCHANGED <<shop, cacRecords, vendor, offer, token, causes>>
VerifyNinRead(c, answer) == VerifyRead(c, "nin", answer)
VerifyCacRead(c, answer) == VerifyRead(c, "cacRow", answer)

\* isAutoApproved
AutoApproved(c) == clerk[c].answer = "VERIFIED" /\ VendorAuto
RowStatus(c) == IF AutoApproved(c) THEN "APPROVED" ELSE "PENDING"

\* The row is overwritten, and an automatic approval moves the profile,
\* even one that is under review.
VerifyNin(c) ==
  /\ clerk[c].step = "nin"
  /\ vendor' = [vendor EXCEPT !.nin = RowStatus(c),
                              !.status = IF AutoApproved(c) THEN "NIN_VERIFIED" ELSE @]
  /\ Rest(c)
  /\ UNCHANGED <<shop, cacRecords, offer, token, errands, causes>>
VerifyCac(c) ==
  /\ clerk[c].step = "cacRow"
  /\ vendor' = [vendor EXCEPT !.cac = RowStatus(c),
                              !.status = IF AutoApproved(c) THEN "CAC_VERIFIED" ELSE @]
  /\ Rest(c)
  /\ UNCHANGED <<shop, cacRecords, offer, token, errands, causes>>

FaultySubmittable == vendor.nin # "none"
Submittable == vendor.nin # "none" /\ vendor.cac # "none"

\* submitForReview: the rows must exist, approved or not.
SubmitVendor ==
  /\ Submittable /\ Instant
  /\ vendor' = [vendor EXCEPT !.status = "UNDER_REVIEW", !.review = "PENDING"]
  /\ UNCHANGED <<shop, cacRecords, offer, token, clerk, causes>>

\* approveVendor, rejectVendor: in any state of an existing profile.
ReviewVendor(decision) ==
  /\ vendor.status # "none" /\ Instant
  /\ vendor' = [vendor EXCEPT !.review = decision, !.role = @ \/ decision = "APPROVED"]
  /\ UNCHANGED <<shop, cacRecords, offer, token, clerk, causes>>
ApproveVendor == ReviewVendor("APPROVED")
RejectVendor == ReviewVendor("REJECTED")

MerchantsNext ==
  \/ GetToken \/ TokenAges
  \/ \E c \in Clerks :
       \/ SubmitCacRead(c) \/ SubmitCacFind(c) \/ SubmitCac(c) \/ ReviewCac(c)
       \/ \E r \in DOMAIN cacRecords, decision \in {"APPROVED", "REJECTED"} :
            ReviewCacRead(c, r, decision)
       \/ AddProductRead(c) \/ AddProduct(c)
       \/ \E answer \in {"VERIFIED", "FAILED"} : VerifyNinRead(c, answer) \/ VerifyCacRead(c, answer)
       \/ VerifyNin(c) \/ VerifyCac(c)
  \/ ActivateStore \/ ReserveUnit
  \/ UpdateVendorProfile \/ SubmitVendor \/ ApproveVendor \/ RejectVendor

MerchantsSpec == MerchantsInit /\ [][MerchantsNext]_merchantVars

-----------------------------------------------------------------------------
(* Properties.                                                             *)

\* A store trades because a registration of it is approved, because staff
\* opened it by hand, or because a submission that was checked before the
\* approval wrote over the approved record.  Nothing keeps the records of a
\* store unique, but each further one is another first submission under way
\* at the same time; only beside a further record can an approved one belong
\* to a closed store (the other was rejected after it).
OpenShopHasReason ==
  /\ shop => ApprovedRecords # {} \/ {"activated", "overwritten"} \cap causes # {}
  /\ ApprovedRecords # {} /\ ~shop => Len(cacRecords) > 1
  /\ Len(cacRecords) <= Cardinality(Clerks)

\* addProduct writes the count the vendor saw; customers are promised more
\* than there is only if a reservation fell between the count and the write.
OversellHasCause == offer.promised > Goods => "recounted" \in causes

\* A profile is under review, or carries a verified step, only with the rows
\* that step is about.
VendorStatusHasRows ==
  /\ vendor.status = "UNDER_REVIEW" => vendor.nin # "none" /\ vendor.cac # "none"
  /\ vendor.status = "NIN_VERIFIED" => vendor.nin # "none"
  /\ vendor.status = "CAC_VERIFIED" => vendor.cac # "none"

\* A token taken from the cache still lives for the buffer, so the call it is
\* sent with does not outlive it.
CachedTokenIsFresh == token.cached > 0 => token.left > TokenBuffer

\* What the platform says of a merchant (the store is open, the offer is in
\* stock, the steps are verified, the token is good) has its reason in the
\* rows, whichever reviews, submissions and sales overlap.
MerchantsAreSound ==
  OpenShopHasReason /\ OversellHasCause /\ VendorStatusHasRows /\ CachedTokenIsFresh
=============================================================================
