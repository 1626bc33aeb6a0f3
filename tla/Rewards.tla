------------------------------ MODULE Rewards ------------------------------
(***************************************************************************)
(* What one customer earns and spends outside checkout: cashback and       *)
(* points from completed orders (complete-order.ts), cashback redeemed     *)
(* into the wallet and vouchers claimed with points (rewards.service.ts),  *)
(* referral rewards and the referral code (referrals.service.ts).          *)
(*                                                                         *)
(* redeem and the referral claim hold the row of the user from read to     *)
(* commit; claiming a voucher, completing an order (the customer's own, or *)
(* a friend's, which qualifies the referral) and allocating a code compare *)
(* first and write later without a lock.                                   *)
(***************************************************************************)
EXTENDS Integers, FiniteSets, Functions

CONSTANTS Purchases,      \* the customer's orders, numbered by creation
          Friends,        \* users who registered with the customer's code
          Vouchers,       \* vouchers with a price in points
          Cashback,       \* cashback of one order
          PointsEarned,   \* points of one order
          PointsCost,     \* points of one voucher
          FriendReward,   \* referral_reward_amount
          CodeAttempts,   \* attempts of ReferralsService.profile
          Collisions,     \* bound: random codes that are already taken
          Counters,       \* concurrent HTTP handlers
          MaxDealings     \* bound: requests started

ASSUME RewardsAssumption ==
  /\ Purchases \subseteq Nat
  /\ IsFiniteSet(Purchases) /\ IsFiniteSet(Friends) /\ IsFiniteSet(Vouchers)
  /\ IsFiniteSet(Counters)
  /\ Cashback \in Nat /\ PointsEarned \in Nat /\ PointsCost \in Nat
  /\ FriendReward \in Nat /\ CodeAttempts \in Nat /\ Collisions \in Nat

VARIABLES earned,      \* CashbackReward by order: amount and redeemedAmount
          completed,   \* orders with status COMPLETED
          points,      \* RewardAccount.availablePoints
          owned,       \* UserVoucher rows
          referral,    \* Referral.status by friend
          credit,      \* wallet credit from rewards
          code,        \* the customer's ReferralProfile exists
          collisions,  \* codes found taken so far
          counter,     \* what each handler has read and does next
          dealings,    \* requests started (bound)
          clashes,     \* history: which reads were overtaken
          requalified  \* history: by friend, claims that a completion wrote over

rewardsVars == <<earned, completed, points, owned, referral, credit, code,
                 collisions, counter, dealings, clashes, requalified>>

Shut == [step |-> "shut", item |-> "none", amount |-> 0, rows |-> {}, late |-> FALSE]

RewardsInit ==
  /\ earned = [p \in Purchases |-> [amount |-> 0, redeemed |-> 0]]
  /\ completed = {}
  /\ points = 0
  /\ owned = {}
  /\ referral = [f \in Friends |-> "PENDING"]
  /\ credit = 0
  /\ code = FALSE
  /\ collisions = 0
  /\ counter = [h \in Counters |-> Shut]
  /\ dealings = 0
  /\ clashes = {}
  /\ requalified = [f \in Friends |-> 0]

Deal(h, rec) ==
  /\ counter[h] = Shut /\ dealings < MaxDealings
  /\ counter' = [counter EXCEPT ![h] = rec]
  /\ dealings' = dealings + 1
Done(h) == counter' = [counter EXCEPT ![h] = Shut]
\* Everybody else at that step decided on what is now out of date.
DoneBefore(h, step) ==
  counter' = [g \in Counters |-> IF g = h THEN Shut
                                 ELSE IF counter[g].step = step
                                 THEN [counter[g] EXCEPT !.late = TRUE] ELSE counter[g]]
Note(h, what) == clashes' = IF counter[h].late THEN clashes \cup {what} ELSE clashes

FaultyUserUnlocked == TRUE
\* SELECT ... FROM User ... FOR UPDATE of redeem and of the referral claim.
UserUnlocked == \A h \in Counters : counter[h].step \notin {"redeem", "referral"}

-----------------------------------------------------------------------------

\* updateOrderStatus of staff or confirmDelivery finds the order completable.
CompleteRead(h, p) ==
  /\ p \notin completed
  /\ Deal(h, [Shut EXCEPT !.step = "complete", !.rows = {p}])
  /\ UNCHANGED <<earned, completed, points, owned, referral, credit, code, collisions,
                 clashes, requalified>>

\* completeOrder: cashback once per order, points every time.  Its last part
\* is the referral of who ordered: the customer's own is not modelled, a
\* friend's is FriendCompletes.
CompletePurchase(h) ==
  /\ counter[h].step = "complete"
  /\ \E p \in counter[h].rows :
       /\ earned' = [earned EXCEPT ![p].amount = Cashback]
       /\ completed' = completed \cup {p}
       /\ clashes' = IF p \in completed THEN clashes \cup {"twice"} ELSE clashes
  /\ points' = points + PointsEarned
  /\ Done(h)
  /\ UNCHANGED <<owned, referral, credit, code, collisions, dealings, requalified>>

FaultyStillPending(f) == TRUE
StillPending(f) == referral[f] = "PENDING"

\* An order of a friend completes, and the transaction reads the referral.
FriendCompleteRead(h, f) ==
  /\ StillPending(f)
  /\ Deal(h, [Shut EXCEPT !.step = "qualify", !.rows = {f}])
  /\ UNCHANGED <<earned, completed, points, owned, referral, credit, code, collisions, clashes,
                 requalified>>

\* The update by id, whatever the status is by now.
FriendCompletes(h) ==
  /\ counter[h].step = "qualify"
  /\ \E f \in counter[h].rows :
       /\ referral' = [referral EXCEPT ![f] = "QUALIFIED"]
       /\ requalified' = IF referral[f] = "CLAIMED" THEN [requalified EXCEPT ![f] = @ + 1]
                         ELSE requalified
  /\ Done(h)
  /\ UNCHANGED <<earned, completed, points, owned, credit, code, collisions, dealings, clashes>>

-----------------------------------------------------------------------------
(* Cashback into the wallet, oldest order first.                           *)

Balance(p) == earned[p].amount - earned[p].redeemed
Available(ps) == SumFunctionOnSet([p \in Purchases |-> Balance(p)], ps)
\* The loop of redeem: what is taken of row p.
Applied(p, amount) ==
  LET before == Available({q \in Purchases : q < p}) IN
  IF amount <= before THEN 0
  ELSE IF amount - before <= Balance(p) THEN amount - before ELSE Balance(p)

RedeemRead(h, amount) ==
  /\ UserUnlocked /\ amount > 0 /\ amount <= Available(Purchases)
  /\ Deal(h, [Shut EXCEPT !.step = "redeem", !.amount = amount,
              !.rows = {<<p, earned[p].redeemed + Applied(p, amount)>> : p \in Purchases}])
  /\ UNCHANGED <<earned, completed, points, owned, referral, credit, code, collisions,
                 clashes, requalified>>

\* The rows are set to what was computed, the wallet is incremented.
Redeem(h) ==
  /\ counter[h].step = "redeem"
  /\ earned' = [p \in Purchases |->
       [earned[p] EXCEPT !.redeemed = (CHOOSE r \in counter[h].rows : r[1] = p)[2]]]
  /\ credit' = credit + counter[h].amount
  /\ Done(h)
  /\ UNCHANGED <<completed, points, owned, referral, code, collisions, dealings,
                 clashes, requalified>>

-----------------------------------------------------------------------------
(* Vouchers for points.                                                    *)

FaultyAffordable == TRUE
Affordable == points >= PointsCost

ClaimVoucherRead(h, v) ==
  /\ v \notin owned /\ Affordable
  /\ Deal(h, [Shut EXCEPT !.step = "voucher", !.item = v])
  /\ UNCHANGED <<earned, completed, points, owned, referral, credit, code, collisions,
                 clashes, requalified>>

\* The unique key refuses a second row of one voucher and rolls back.
ClaimVoucher(h) ==
  /\ counter[h].step = "voucher"
  /\ IF counter[h].item \in owned
     THEN Done(h) /\ UNCHANGED <<points, owned, clashes>>
     ELSE /\ points' = points - PointsCost
          /\ owned' = owned \cup {counter[h].item}
          /\ Note(h, "spent")
          /\ DoneBefore(h, "voucher")
  /\ UNCHANGED <<earned, completed, referral, credit, code, collisions, dealings, requalified>>

-----------------------------------------------------------------------------
(* Referrals.                                                              *)

ClaimReferralRead(h) ==
  /\ UserUnlocked
  /\ \E f \in Friends : referral[f] = "QUALIFIED"
  /\ Deal(h, [Shut EXCEPT !.step = "referral",
                          !.rows = {f \in Friends : referral[f] = "QUALIFIED"}])
  /\ UNCHANGED <<earned, completed, points, owned, referral, credit, code, collisions,
                 clashes, requalified>>

ClaimReferral(h) ==
  /\ counter[h].step = "referral"
  /\ credit' = credit + FriendReward * Cardinality(counter[h].rows)
  /\ referral' = [f \in Friends |->
       IF f \in counter[h].rows /\ referral[f] = "QUALIFIED" THEN "CLAIMED" ELSE referral[f]]
  /\ Done(h)
  /\ UNCHANGED <<earned, completed, points, owned, code, collisions, dealings,
                 clashes, requalified>>

CodeRead(h) ==
  /\ ~code
  /\ Deal(h, [Shut EXCEPT !.step = "code"])
  /\ UNCHANGED <<earned, completed, points, owned, referral, credit, code, collisions,
                 clashes, requalified>>

FaultyGivesUp(n) == n = 1
GivesUp(n) == n = CodeAttempts

\* One attempt of the loop: the profile is created, or the insert fails
\* because the code is taken or because the profile exists by now, which the
\* loop cannot tell apart.
CodeAttempt(h) ==
  /\ counter[h].step = "code"
  /\ \/ /\ ~code
        /\ code' = TRUE
        /\ Done(h)
        /\ UNCHANGED <<collisions, clashes>>
     \/ /\ code \/ collisions < Collisions
        /\ collisions' = IF code THEN collisions ELSE collisions + 1
        /\ IF GivesUp(counter[h].amount + 1)
           THEN Done(h) /\ clashes' = clashes \cup {IF code THEN "coded" ELSE "uncoded"}
           ELSE counter' = [counter EXCEPT ![h].amount = @ + 1] /\ UNCHANGED clashes
        /\ UNCHANGED code
  /\ UNCHANGED <<earned, completed, points, owned, referral, credit, dealings, requalified>>

RewardsNext ==
  \/ \E h \in Counters :
       \/ \E p \in Purchases : CompleteRead(h, p)
       \/ CompletePurchase(h)
       \/ \E f \in Friends : FriendCompleteRead(h, f)
       \/ FriendCompletes(h)
       \/ \E amount \in 1..Available(Purchases) : RedeemRead(h, amount)
       \/ Redeem(h)
       \/ \E v \in Vouchers : ClaimVoucherRead(h, v)
       \/ ClaimVoucher(h)
       \/ ClaimReferralRead(h) \/ ClaimReferral(h)
       \/ CodeRead(h) \/ CodeAttempt(h)

RewardsSpec == RewardsInit /\ [][RewardsNext]_rewardsVars

-----------------------------------------------------------------------------
(* Properties.                                                             *)

\* The wallet gets what the cashback rows say was redeemed and what the
\* claimed referrals are worth, to the unit and whichever redemptions and
\* claims overlap; no row gives more than it holds.  Only a completion that
\* read the referral before it was claimed can make a claimed one payable
\* again, so it is paid again at most once for every other completion that
\* was under way when the first one qualified it.
RewardMoneyConserved ==
  /\ credit = SumFunction([p \in Purchases |-> earned[p].redeemed])
              + FriendReward * (Cardinality({f \in Friends : referral[f] = "CLAIMED"})
                                + SumFunction(requalified))
  /\ \A p \in Purchases : earned[p].redeemed <= earned[p].amount
  /\ \A f \in Friends : requalified[f] > 0 => requalified[f] < Cardinality(Counters)

\* Points are what the completed orders gave minus what the vouchers cost,
\* unless two completions of one order overlapped; and they are overdrawn only
\* if a claim was decided on points another claim was about to spend.
PointsAddUp ==
  /\ points = PointsEarned * Cardinality(completed) - PointsCost * Cardinality(owned)
     \/ "twice" \in clashes
  /\ points >= 0 \/ "spent" \in clashes

\* ReferralsService.profile gives up ("Unable to allocate referral code") only
\* when somebody else created the profile meanwhile: fewer collisions than
\* attempts never leave the customer without a code.
CodeFailureHasCause == Collisions < CodeAttempts => "uncoded" \notin clashes

\* Cashback, points and referral rewards add up under overlapping requests.
RewardsAddUp == RewardMoneyConserved /\ PointsAddUp /\ CodeFailureHasCause
=============================================================================
