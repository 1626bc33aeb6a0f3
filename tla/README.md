# Verification of the NextGen Superstore backend

The backend (NestJS, Prisma, MySQL) sells the goods of many stores to one
customer in one checkout, takes the money through Paystack, Klump or a wallet,
hands the goods over with QR codes, and settles with stores and riders. This
directory models the parts in which several requests, timers, webhooks and
external services work on the same rows, checks them with TLC, and proves with
TLAPS every safety property that the runs check, and the refinement.

## 1. The system

### Parts, state and operations

| part | state | operations |
|---|---|---|
| cart (`src/src/cart`) | `Cart`, `CartItem` | add, updateQuantity, remove, clear; `lock` is the per-user mutex of the whole commerce code |
| checkout (`src/src/checkout`) | `CheckoutPaymentGroup`, `Order`, reserved stock | createInTransaction: one group per cart, one order per store |
| payments (`src/src/payments`) | `Payment`, `PaymentWebhookEvent`, `Refund`, `Wallet`, `WalletTransaction`, `Withdrawal` | initialize, verifyReference, handleWebhook, reconcilePending (timer), cancel, completeGroup, failGroup, refunds, top-ups, dedicated accounts, withdrawals |
| Klump (`src/src/bnpl/klump.service.ts`) | the same payment rows | initialize, verifyProviderTransaction |
| settlements (`src/src/settlements`) | `StoreWalletTransaction`, `RiderEarning` | settleOrder, releaseRiderEarning |
| orders (`src/src/orders`) | `Order.currentStatus`, history | setStatus, cancel, completeOrder |
| scanning (`src/src/scanning`) | `OrderQrCredential`, scan rows | scanItem, completePacking, customerQr, handoffQr, confirmPickup, confirmDelivery |
| delivery (`src/src/delivery`) | `Delivery`, rider claim | claimDelivery, updateStatus |
| confirmations (`src/src/notifications`, `src/src/mail`) | `OrderConfirmationOutbox`, `EmailLog` | processOrderConfirmations (timer and inline), sendTemplate |
| push campaigns | `PushCampaign`, `PushCampaignDelivery` | create, edit, review, schedule, send, cancel, the delivery timer |
| payouts (`stores/store-wallet.service.ts`, `riders/rider-wallet.service.ts`) | store and rider wallets, rider bank accounts | withdrawal requests, settlement reversals, add, remove, set primary |
| promotions and rewards (`rewards`, `cart/coupon.service.ts`) | vouchers, coupons, points, cashback, referrals | claim, apply, redeem, allocate a code |
| BNPL applications (`bnpl/bnpl.service.ts`) | application, plan, repayments | apply, review, confirm, pay an instalment |
| accounts (`auth`) | user, sessions, one-time codes | register, verify, login, refresh, reset, logout |
| staff, roles, approvals | staff, sessions, roles, overrides, approval requests | invite, update, deactivate; assign, revoke; request, decide |
| rider onboarding (`riders`, `admin`) | profile, evidence, vehicle, availability | submit, provider checks, review, go online |
| rider positions (`delivery-tracking.*`) | socket rooms, Redis rate limit | join, updateLocation |
| merchants (`stores`, `vendors`, `qoreid`) | CAC record, vendor profile, offer, cached token | submit, verify, review, activate, addProduct |
| chats and support | conversations, messages, tickets | create, send, page, reply, close |
| customer profile (`users`, comparison, returns) | addresses, picture, lists | add, edit, delete, upload, request a return |
| seed script (`prisma/seed.ts`) | permissions, roles, settings, demo rows | upsert or find-or-create, section by section |
| catalog, reviews, locations, audit, filters | single rows | reads and single writes |

### How they interact

Everything meets in the database. `checkout` reserves stock, `payments` turns a
group PAID (completeGroup: orders confirmed, stores settled, confirmations put
in the outbox, the cart emptied of what was bought) or FAILED (failGroup: stock
back, orders cancelled). `orders.cancel` undoes one confirmed order: stock,
settlement and a refund. `scanning` and `delivery` carry a confirmed order to
its end. Paystack and Klump call back by webhook and are polled by a timer; the
order of the two, and how often a webhook comes, is not under the code's
control.

### What is hard

* Handlers read, await a provider, and commit later: a webhook, the
  five-minute timer, the customer and a cancellation verify one payment at once.
* MySQL REPEATABLE READ: a plain read inside a transaction sees the snapshot of
  the transaction's first read, not what a lock taken later protects.
* Providers answer late, twice, out of order or never.
* Many writes are unconditional (`update where id`) after a check made earlier.
* A process may stop between any two database calls.

The hazards are listed with their lines in `PROJECT.json`.

## 2. Modules

Every database transaction (or single statement outside one) is one step, and an
`await` between two of them lets any other handler run. A handler in flight is a
record in `task` (or `worker`) that holds what it has read. Definitions called
`Faulty...` are plausible mistakes in the operator that follows them; no
specification uses them. They exist to show that a property can fail.

| module | models |
|---|---|
| `CheckoutPayments` | cart, checkout, initialize, verification, cancellation, Klump, order cancellation, settlement, for any customers, stores and groups |
| `Refunds` | the refunds of one payment: claim, create, poll, webhook, retry, bank details, manual completion |
| `ConfirmationOutbox` | the outbox worker, its lease and back-off, and the e-mail log |
| `Fulfilment` | one home-delivery order from CONFIRMED to COMPLETED or CANCELLED |
| `WalletFunding` | top-ups, dedicated-account transfers and withdrawals of one wallet |
| `PushCampaigns` | advertising campaigns of staff and of stores, and the timer that delivers them |
| `CheckoutContract` | the abstract specification of a checkout that `CheckoutPayments` implements |
| `Pricing` | the arithmetic of a quote: voucher, coupon shares, rounding |
| `Promotions` | a voucher and a coupon from the cart to the paid checkout |
| `Rewards` | cashback, points, claimed vouchers, referral codes and rewards of one customer |
| `Financing` | in-house BNPL: application, confirmation, instalment plan, repayments |
| `Payouts` | earnings and withdrawals of a store and a rider, the rider's bank accounts |
| `Merchants` | vendor profile, CAC records of a store, store activation, stated stock, cached provider token |
| `Accounts` | one account: codes, passwords, sessions, refresh tokens, passkeys, Google |
| `Staff` | staff accounts and sessions, their management, the two kinds of route guards |
| `Permissions` | seeded role tables, overrides, assignment, approval requests |
| `RiderOnboarding` | a rider from the application to being online |
| `Tracking` | live positions: who may watch, the rate limit, the end of the job |
| `Conversations` | chats with their paging, support tickets |
| `Shopper` | addresses, picture, comparison list, returns |
| `Seeding` | the seed script: stopped, overlapping, and run again after rows were edited or renamed |
| `MC...` | finite instances for TLC |
| `SumTheorems` | lemmas about sums over finite sets and about least and greatest numbers |
| `CheckoutPaymentsProofs`, `RefundsProofs`, `ConfirmationOutboxProofs`, `FulfilmentProofs`, `PushCampaignsProofs` | proofs about the module of that name |
| `CommerceProofs` | proofs about WalletFunding, Payouts, Promotions, Merchants, Shopper, Pricing, Rewards, Financing |
| `PeopleProofs` | proofs about Accounts, Staff, Permissions, RiderOnboarding, Tracking, Conversations, Seeding |

**CheckoutPayments.** `group`, `order`, `payment`, `refund`, `settled`, `outbox`
and `event` are the rows; `charge` and `loan` are the provider's side. `Create`
is createInTransaction; `InitializeClaim/Saved/Failed/Lost` the four ways
initialize goes; `VerifyRead` is verifyReference up to the provider's answer,
`VerifyCommit` its transaction, `Respond` what the caller does with the result
(the webhook marks its event, cancel goes on); `CancelRead/Lock/Commit` are
cancel. The transaction of cancel is two steps because CartService.lock fixes
the snapshot before the group row is locked; `SnapshotReads` says whether the
second step reads the snapshot (what MySQL does) or committed rows. All other
transactions of a group wait for the user row, so they are one step each. The
quote's arithmetic is in `Pricing` and the promotions in `Promotions`; here a
store sells one offer and `Amount` is any price function. At its end the module
maps its rows to `CheckoutContract` (`DealOf`, `OwedOf`): a group that is being
paid is an open deal, a paid one is honoured line by line, a cancelled order is
taken back, and a refund row is money owed. The property `KeepsContract` says
that every step is then a step of the contract or a stutter. OPAY appears in
initialize but no checkout can choose it, so it is not a method of the model.

**Refunds.** `attempt` and `told` are the provider's refunds and the webhooks it
may deliver, in any order and repeatedly, until the event is recorded as
processed. `payment` is written by syncPaymentRefundStatus in two steps, the sum
first.

**ConfirmationOutbox.** A row is claimed by a conditional update, mailed through
`EmailLog` (one row per event key) and marked processed. A lease that lapses
puts the row back while its worker may still be at work.

**Fulfilment.** Each request of setStatus, completePacking, updateOrderStatus,
scanItem, issue, confirmPickup, confirmDelivery and updateStatus reads outside
its transaction and writes later; two requests at a time are enough for one to
be stale. The delivery status OFFERED is in allowedTransitions but no code sets
it. Orders collected at a pickup station are left out: no handler consumes
their QR.

**WalletFunding.** The kind of a payment is fixed by what creates it. A
dedicated-account payment is first heard of in a webhook.

### Around the checkout

Most of the remaining code is check-then-write: a handler reads, compares, and
writes later without a condition on what it read. Each such handler is a read
step and a write step of one of two handlers, so that any other request can
come between. What the code excludes in spite of this is stated plainly. What it
does not exclude is stated with its cause: a ghost (`outdated`, `overlaps`,
`clashes`, `causes`, `late`, ...) records that two particular requests
overlapped, and the property says that the anomaly needs that overlap, or is
bounded by the number of handlers. Where anomalies can be counted (`strayed`,
`uncounted`, `requalified`, `renamed`, `parallel`), each one pays for one excess
and no more, so that the first excuses nothing that comes after it. Such a
property fails as soon as the anomaly becomes possible without its cause.

* **Accounts.** `ConsumeRead`, `CountAttempt` and `ConsumeChallenge` are the three
  statements of consumeOtp; `RefreshRead` and `RefreshRotate` the conditional
  rotation; passwords are numbered in the order they were set.
* **Staff, Permissions.** The tables of `STAFF_PERMISSIONS` and of the seed, and the
  permissions the controllers demand along each role's journey, are written out;
  guards use the context built when the request arrived.
* **RiderOnboarding.** Each kind of evidence is one row. The provider's answer, its
  loss and the write of a late answer are steps of their own.
* **Tracking.** The Redis key is `intervals`; a viewer checked on entry stays in the
  room.
* **Payouts, Merchants, Rewards, Promotions, Financing, Shopper, Conversations.** One
  store, vendor, customer or chat each. Row locks that the code takes (`SELECT
  ... FOR UPDATE` on the user or the application) make a handler one step; where
  it takes none, two.
  The CAC records of a store are a sequence, because nothing keeps `storeId`
  unique: a submission looks for the first record, asks the provider, and then
  updates by id or creates. Completing an order reads the referral and writes
  QUALIFIED later, over whatever it is by then.
* **Pricing.** The loop over the orders of a quote is the behaviour, one order per
  step, for every combination of subtotals, fees, voucher and coupon of the
  instance. Percentages and shares are rounded to the kobo as the code rounds.
* **Seeding.** Sections run in their order, outside a transaction. A section with a
  unique key is an upsert, the others a lookup by name and a create. An edit
  through the back office changes a row and, for products, stores and pickup
  stations, perhaps its name (`RenamableSections`); the lookup of the next run
  does not find it then. Categories and FAQs are found by name as well, but no
  operation in `src/` edits them.

## 3. Runs

| run | shows |
|---|---|
| `checkout_races` | one two-store checkout, every method, two handlers, two calls of initialize, one fault: ConfirmedIsPaidFor, SettlementMatchesOrders, ReleasedMoneyHasRefund, GoodsAndMoneyConserved, OutcomeIsFinal, and the refinement KeepsContract |
| `checkout_customers` | three groups of two customers over two units: StockConserved, OneActiveCheckout |
| `captured_snapshot` | **violation** of CapturedIsHonoured |
| `refunds_orders` | two refunds of a payment, two handlers, one crash: PaymentStatusIsEarned |
| `refunds_retried` | one refund, one retry, one error, webhooks of both attempts: ReturnedAsRecorded |
| `work_finishes` | what timers and repeated webhooks finish: ProcessedIsMailed, DuplicatesNeedFaults, FundingIsRecorded, and the liveness properties ConfirmationArrives, CapturedTopUpArrives, RefundSettles |
| `fulfilment_delivery` | one order, two riders, two requests: DeliveredIsVerified, OnTheRoadIsHandedOver, RiderPaidOnce, RestockedOnce, ScansAreBounded, OneRider |
| `fulfilment_cancelled` | **violation** of CancelledIsFinal |
| `wallet_dva` | **violation** of ProcessedIsCredited |
| `push_campaigns` | OnlyApprovedIsPushed, ReachesEveryoneOnce, ScheduledEnds (section 4) |
| `people` | accounts, staff, permissions, onboarding, positions, chats, seed: SessionsAreSound, CodesAreSound, StaffAccessIsSound, AuthorityIsSound, OnboardingIsSound, PositionsAreGuarded, ConversationsAreSound, RerunsAreHarmless |
| `commerce` | payouts, merchants, rewards, promotions, financing, pricing, profile: PayoutsHaveCover, MerchantsAreSound, RewardsAddUp, DiscountsWithinLimits, LoansAreHonoured, QuoteIsExact, ShopperRowsAreSound |

Several of these are conjunctions of named parts; each part is a definition with
its own comment. The parts of the larger ones:

| property | parts |
|---|---|
| GoodsAndMoneyConserved | StockConserved, WalletConserved |
| ReturnedAsRecorded | SucceededIsReturned, AttemptsNeedRetries |
| FundingIsRecorded | WalletMatchesLedger, PaidTopUpIsCredited |
| ReachesEveryoneOnce | NobodyTwice, SentIsComplete |
| SessionsAreSound | a password change ends older sessions; a refresh token works once; no session for an unproven address |
| CodesAreSound | guesses at most the limit plus the other handlers; a code takes effect once |
| StaffAccessIsSound | the last super administrator goes only by his own hand or by two overlapping removals; sessions end with the password; role lists agree with the permission table |
| AuthorityIsSound | no role locks its own journey out; a privileged role comes from somebody else; overlapping requests and decisions are bounded |
| OnboardingIsSound | the application moves along its legal edges, or by a stale handler; APPROVED needs all evidence; the provider has the last word; online needs an approval and a position |
| PositionsAreGuarded | one position per interval; only the customer and the carrier see it; none after the job but by an update already checked |
| PayoutsHaveCover | an overdraft is explained by outdated reads and reversals; one primary account |
| MerchantsAreSound | an open store has its reason, and a closed one an approved record only beside a further record, of which there are at most as many as handlers; overselling needs a reservation between count and write; status needs its rows; a cached token outlives its call |
| RewardsAddUp | credit equals redeemed cashback and claimed referrals, each paid again at most once per other completion under way when the first qualified it; points add up; a code is found |
| DiscountsWithinLimits | a voucher once, and once more per payment that found another voucher on the cart; a coupon within its limit, but for the checkouts unpaid beside its last use and the payments that did not find it |
| LoansAreHonoured | financed as approved, by one checkout per application; due dates in every month, leap years included; the plan adds up to the kobo; an instalment is paid once, and only with money received |
| QuoteIsExact | total = sum of the orders, none negative; a coupon is given in full, but for what rounding spared the other orders when the last one comes to nothing |
| ConversationsAreSound | paging complete and without repeats; the list sorted by the newest; one chat per store; a closed ticket stays closed |
| ShopperRowsAreSound | one default address; the picture shown exists; comparison list and active returns over their limit by less than the handlers |
| RerunsAreHarmless | a further copy of a row needs a rename, or a run started beside another; a unique key admits none; values kept for the administrator stay |

**Scenes.** `MCEventually`, `MCPeople` and `MCCommerce` hold components that share
no state. The variable `scene` picks one at the start and the others stay where
they are, so the states are the sum and not the product of the components; each
component is explored completely within its bounds.

**Bounds.** Named in each module (`MaxCalls`, `MaxFaults`, `MaxRetries`, ...).
Two handlers are the least that can be stale with respect to each other; one
fault is enough to lose an answer or stop a process at each point; two stores
make a partial refund and a partial settlement possible; three groups over two
customers let one customer check out again while another competes for the
stock; swapping the two groups of the first customer is a symmetry of that
instance, and so is permuting the shoppers and the campaigns of `Promotions`. `people` and
`commerce` give every component two handlers and a number
of requests that lets a sequence of three or more meet (`MaxStarted` 3,
`MaxCalls` 4, `MaxVisits` 4, `MaxStaffOps` 5, `MaxErrands` 6, `MaxDealings` 6, `MaxCheckouts` 3,
`MaxTalks` and `MaxClicks` 3, `MaxPayouts` 2). Limits of the code are scaled
down so that they bind: one guess for five, one product for ten to compare,
three attempts at a referral code for five, pages of two messages, one use of
the coupon, two instalments from the last day of
January, before a February of 28 days and one of 29. A quote has four
stores (`ShopCount`), the fewest for which rounding leaves something of a coupon
over (section 5). `MaxSeeds` 2 makes one
re-run, or two runs at once, and `MaxSettings` 1 an edit or a rename before,
during or between them. Where deadlock is not checked the system may stop:
all work is done or the bound is used up.

**Fairness.** A request that has started goes on (weak fairness of its steps);
waits for a row lock are strongly fair, because InnoDB grants locks in order;
timers keep claiming and polling (`setInterval`); Paystack repeats a webhook
until it is acknowledged and ends a refund in progress. `work_finishes` assumes
the fairness of its three components together; in a scene the others have no
fair step enabled, so nothing is added. Nothing is assumed of customers and
staff. RefundSettles leaves out crashes: after one between the claim and the
request, the refund stays PROCESSING without a provider id and no timer looks at
it (payments.service.ts:402).

## 4. Push campaigns

`PushCampaigns` follows a campaign from draft to SENT, FAILED or CANCELLED. A
request of staff or of the store is two steps, `Read` (its checks) and a write
without a condition; `ResetDeliveries` comes between for a FAILED campaign. Each
process runs `StartPass` (release of lapsed leases), `FindDue`, `Claim`, then
`Open` (the campaign is read again and its text kept), `Enrol`, and batches of
`Push` and `SaveDelivery`, and `FinishCampaign`. A text is its version number;
`stale` counts, as a ghost, the writes made on a status that had moved on since
it was read.

`push_campaigns`: one campaign, of staff or of a store, one customer, two
processes, two requests at a time and three in all, one fault (a crash, a failed
query, a lost save, a lease outlived).

* *OnlyApprovedIsPushed*: only a version that carried staff's approval reaches a
  customer. The claim does not check the approval; `Open` does, and reads text
  and approval in one query. It does not follow that staff saw that text: a
  review approves whatever is there when it is written.
* *ReachesEveryoneOnce*, of two parts. NobodyTwice: without a fault and without a
  stale write, a customer gets a campaign once. SentIsComplete: SENT means that
  nobody enrolled is left PENDING, under the same condition. An earlier form also
  bounded the repeats of a disturbed campaign by the number of faults and stale
  writes. It held on this instance and is false on larger ones: with three
  processes, two leases outlived and a third request, one disturbance is repeated
  by every process that still holds the campaign. The proof attempt found this;
  nothing in the code bounds the repeats, so the property claims no bound.
* *ScheduledEnds*: a scheduled, approved campaign ends or goes back to review.

Three requests make the race of an edit, a review and a send; the bound
`MaxVersions` also stops a second edit that read the same version. With one
campaign the daily limit never binds. Weak fairness of each process stands for
the one-minute timer, of each write for a request that goes on, of `DueArrives`
and `LeaseLapses` for time.

## 5. Known gaps

Three runs are expected to fail; each contradicts a sentence of the repository.

1. `captured_snapshot`: cancel locks the cart, whose upsert fixes the snapshot,
   then the group, and reads the group from the old snapshot. An initialize that
   commits in between is unseen: the group is released, its payment stays
   PENDING, and a charge captured later is refused ('Cannot pay a released
   checkout.') without a refund.
2. `fulfilment_cancelled`: a status read before a cancellation is written after
   it; the refunded order is prepared again.
3. `wallet_dva`: a second webhook between the row of a dedicated-account payment
   and its credit marks the payment PAID through the checkout branch; the credit
   then returns early and the wallet never gets the money.

The models also show, on the way, that two QR codes issued at once can
complete an order and grant its points twice; that two scans of the last unit
are both accepted; and that a refund whose answer was lost is recorded FAILED
and may be retried while the first is alive. They are in the hazards, with the
weaker property that does hold.

A coupon can come out short by a kobo or more. The shares of all stores but the
last are rounded, and the last takes what is left, but no more than it costs
(checkout.service.ts). With subtotals of 3, 3, 3 and 1 kobo, no fee and a coupon
of 8, each of the first three gets 2, and the last can take 1 of the remaining
2. With three stores this cannot happen. QuoteIsExact states how much may be
lost.

The modules around the checkout show the same pattern where a check is not
locked: two withdrawals on one balance, and a reversal after a withdrawal,
overdraw a wallet; two repayments of an instalment are both taken; two claims
spend the same points; two super administrators remove each other; an old
submission writes over an approved registration; the stock a vendor stated
before a sale promises goods twice; a promotion changed under an unpaid checkout
leaves the one that was priced unused; a claimed referral is made payable again by
a completion that read it before; two first CAC submissions leave two records,
and then an approved one can belong to a closed store; a renamed station, store
or product is created again by the next run of the seed. Each is the exception
named in the property.

Seen while reading, without a run of their own:

* catalog routes list OPERATIONS_ADMIN in `@RequireRoles`, but its seeded
  permissions lack products.create, products.update and products.archive, which
  the same routes demand;
* the wallet documentation lists VENDOR, but only CUSTOMER has payments.initiate;
* requestReturn counts its 14 days from `order.updatedAt`, which any later
  write moves;
* a re-run of the seed resets stock and prices of the demo offers;
* "so re-runs don't duplicate stations" (prisma/seed.ts:1284) holds as long as
  nobody renames a station, which the back office allows;
* Klump's verification writes PAID over a payment already REFUNDED; orders and
  refunds are not affected, which `KeepsContract` checks.

## 6. Proofs

Every safety property and action property of a passing run is a theorem of its
specification, for every value of the constants that satisfies the assumption of
its module (`CheckoutAssumption`, `RefundsAssumption`, ...). The assumptions give
the types of the constants; besides, that handlers, rows or runs are finitely
many where the property counts them, that a null value (`NoOrder`, `NoRider`) is
none of the values, and that a limit which the code keeps at one or more (guesses
at a code, messages of a page, instalments) is not zero. The theorems are listed
in `PROJECT.json`. Few of the properties are inductive. What the invariants add:

**Checkout.** `IInv` adds `RowsConsistent`, how the status, payment, orders,
refunds and settlements of a group go together, and `TasksConsistent`, what a
handler between its read and its commit may rely on: an answer "success" means a
captured charge, and while a cancellation holds the cart lock nothing but
initialize has changed its group. ConfirmedIsPaidFor, SettlementMatchesOrders,
ReleasedMoneyHasRefund, OneActiveCheckout and OutcomeIsFinal follow, for either
value of `SnapshotReads`. For GoodsAndMoneyConserved, `LinesConsistent` says
which orders have lines and which groups are paid from the wallet; each step is
then shown to move a sum over groups at one place, by the amount that stock or
wallet moves (`SumTheorems`). The same two invariants make every step a step of
`CheckoutContract` or a stutter (ContractKept). What a cart costs at a store is
`Price`, any natural number that is zero for no goods.

**Refunds.** A permission budget: an attempt at the provider, a call about to open
one and a refund waiting to be claimed are together at most one more than the
retries (`WithinBudget`). What a handler holds is true of the attempts it knows
(`Sound`), and an attempt at a Klump refund, which is made by hand, is one that
returned the money (`KlumpIsProcessed`).

**Confirmations.** A process past its send has a SENT log row and log rows are
never un-sent (ProcessedIsMailed). For DuplicatesNeedFaults: mails sent, processes
that carry a row without having mailed it, and a row that may be claimed are
together at most one more than the faults.

**Fulfilment.** What an unfinished request has read (a consumed credential, a
complete checklist, a hand-over) never becomes false again, so a stale write
cannot break DeliveredIsVerified, OnTheRoadIsHandedOver, RiderPaidOnce or
RestockedOnce; `TasksHold` states this for each kind of request. For
ScansAreBounded, the units about to be inserted are counted with the inserted
ones.

**Push campaigns.** The approval of a store's campaign belongs to its present
version, and the version a process keeps past `Open` has been approved. For
ReachesEveryoneOnce: while nothing disturbs it, one process at most holds a
campaign, and a text that reached a customer is in the delivery row or in the
hands of that process (`Orderly`).

**Commerce.** WalletFunding: a handler about to credit has heard of a captured
charge (`HeardOf`), and a top-up that Paystack knows of has its row
(`StartedHasRow`). Payouts: a withdrawal whose reading is not recorded as
outdated is covered by the balance and the overdraft explained so far
(`ReadingCovers`); one handler at a time changes bank accounts, or the overlap
is recorded (`BanksInv`). Promotions: a voucher whose discount was paid is used
up, or that payment strayed (`GrantsAreUsed`); what was paid out of the coupon
and the unpaid checkouts quoted with it are together within its limit, but for
one such checkout per other shopper (`CouponInv`). Merchants: the count a handler
is about to write is still right, or marked late (`ReadingHolds`); the records of
a store and the submissions that found none are together no more than the
handlers. Shopper: a handler with a new picture holds a stored file that no row
names and no other handler holds (`HoldsPicture`); the list or the returns and
what is under way to them are counted together (`CompareInv`, `ReturnInv`).
Rewards: what is about to be written is within each row and adds up to the amount
to credit (`Redeems`); the times a referral was made payable again and the
completions that still hold it as pending are fewer than the handlers
(`RequalifiedBounded`). Financing: one application has
the cart or the loan, a repayment has one completion, and the instalments whose
repayments never overlapped are taken in turn (`InTurn`); the lemma PlanAddsUp
shows that the instalments add up for every principal and number of months.
Pricing: what is left of the coupon is what the goods ahead call for, but for
half a kobo per order behind (`LeftIsDue`).

**People.** Accounts: guesses at a live code are at most the counted attempts
and the handlers that have compared and not yet counted (`CodeHolds`); a session
has the present password or was kept through its change (`SessionHolds`). Staff:
a login under way has the present password or is recorded as late (`DeskHolds`,
`LoginHolds`). Permissions: requests pending and about to be filed, and
decisions taken and about to be taken, are no more than the handlers.
RiderOnboarding: what was proven stays proven, and with what a handler approves
itself it clears the rider before that handler approves the profile
(`AgentHolds`, `Cleared`). Tracking: a position stored or about to be stored has
an interval. Conversations: the reader has seen all there was down to the cursor
(`PagingHolds`), by a lemma that a page of n is the n newest, or everything when
it is shorter (NewestAreNewest); the message being written is newer than the
conversation says unless two sends overlap (`SendHolds`). Seeding: a run
that found no copy found all of them renamed (`Lost`), so the copies of a row and
the runs about to create one (`Making`) are together at most one, the renames and
the runs started beside another (`SeedingInv`).

Left to TLC: the liveness properties (CapturedIsHonoured, RefundSettles,
ConfirmationArrives, CapturedTopUpArrives, ScheduledEnds), which need fairness and
ENABLED; and the three expected violations. The type invariants are proved as
parts of the inductive invariants and not run.

## 7. Not modelled

Dedicated-account assignment; test sends and audience filters of campaigns;
pickup-station orders; product codes; e-mail and push payloads; HTTP clients,
hashing and signatures (the identity providers are external steps that answer,
fail or are lost); names, logos and opening hours of a store; profile fields,
wishlist and notification settings, which are single-row writes; catalog,
reviews, locations and all listings; for the seed, rows that staff create under
the seed's name or delete; request filters, decorators and the
append-only audit log; wiring. `delivery-code.service.ts` is registered in no
module and cannot run. `PROJECT.json` gives the reason for each.

## 8. Plan

In order of importance:

1. *(done)* CheckoutPayments, its proofs; Refunds; ConfirmationOutbox;
   Fulfilment; WalletFunding; PushCampaigns.
2. *(done)* Payouts; Promotions and Rewards; Financing; Accounts, Staff,
   Permissions, RiderOnboarding, Merchants; Tracking, Conversations, Shopper;
   Pricing; Seeding.
3. *(done)* CheckoutContract and the refinement.
4. *(done)* Proofs of the safety properties and of the refinement.
5. Two campaigns, so that the daily limit binds; pickup-station orders;
   dedicated-account assignment.
