---------------------------- MODULE Promotions ----------------------------
(***************************************************************************)
(* A claimed voucher and a coupon of limited use, from the cart to the     *)
(* paid checkout (rewards.service.ts apply, coupon.service.ts,             *)
(* checkout.service.ts quoteInTransaction, payments.service.ts             *)
(* completeGroup), while store and staff switch campaigns on and off       *)
(* (stores.service.ts, rewards.service.ts saveVoucher).                    *)
(*                                                                         *)
(* A checkout is priced with what is on the cart when it is created;       *)
(* completeGroup uses up what is on the cart when the payment arrives.     *)
(***************************************************************************)
EXTENDS Naturals, FiniteSets, FiniteSetsExt

CONSTANTS Shoppers,      \* customers, each with one cart
          Campaigns,     \* RewardVoucher rows
          UsageLimit,    \* Coupon.usageLimit
          MaxCheckouts   \* bound: checkouts started

NoVoucher == "none"

ASSUME PromotionsAssumption ==
  /\ NoVoucher \notin Campaigns
  /\ UsageLimit \in Nat
  /\ IsFiniteSet(Shoppers)

VARIABLES campaign,    \* RewardVoucher.isActive within its dates
          couponOn,    \* Coupon.isActive within its dates
          holding,     \* UserVoucher.status by shopper and voucher
          basket,      \* CartVoucher and CartCoupon by shopper
          checkout,    \* the unpaid group and what it was priced with
          usedCount,   \* Coupon.usedCount
          checkouts,   \* checkouts started (bound)
          granted,     \* history: paid discounts by shopper and voucher
          strayed,     \* history: those whose voucher was no longer on the cart
          redeemed,    \* history: paid coupon discounts
          uncounted    \* history: those whose coupon was no longer on the cart

promotionVars == <<campaign, couponOn, holding, basket, checkout, usedCount, checkouts,
                   granted, strayed, redeemed, uncounted>>

NoCheckout == [open |-> FALSE, voucher |-> NoVoucher, coupon |-> FALSE]

PromotionsInit ==
  /\ campaign = [v \in Campaigns |-> TRUE]
  /\ couponOn = TRUE
  /\ holding = [u \in Shoppers |-> [v \in Campaigns |-> "none"]]
  /\ basket = [u \in Shoppers |-> [voucher |-> NoVoucher, coupon |-> FALSE]]
  /\ checkout = [u \in Shoppers |-> NoCheckout]
  /\ usedCount = 0
  /\ checkouts = 0
  /\ granted = [u \in Shoppers |-> [v \in Campaigns |-> 0]]
  /\ strayed = granted
  /\ redeemed = 0 /\ uncounted = 0

\* createCampaign, updateCampaign, saveVoucher; the dates passing; the coupon
\* likewise.
SwitchCampaign(v) ==
  /\ campaign' = [campaign EXCEPT ![v] = ~@]
  /\ UNCHANGED <<couponOn, holding, basket, checkout, usedCount, checkouts, granted,
                 strayed, redeemed, uncounted>>

SwitchCoupon ==
  /\ couponOn' = ~couponOn
  /\ UNCHANGED <<campaign, holding, basket, checkout, usedCount, checkouts, granted,
                 strayed, redeemed, uncounted>>

\* claim, with enough points.
HoldVoucher(u, v) ==
  /\ campaign[v] /\ holding[u][v] = "none"
  /\ holding' = [holding EXCEPT ![u][v] = "CLAIMED"]
  /\ UNCHANGED <<campaign, couponOn, basket, checkout, usedCount, checkouts, granted,
                 strayed, redeemed, uncounted>>

SetBasket(u, b) ==
  /\ basket' = [basket EXCEPT ![u] = b]
  /\ UNCHANGED <<campaign, couponOn, holding, checkout, usedCount, checkouts, granted,
                 strayed, redeemed, uncounted>>

Applicable(u, v) == campaign[v] /\ holding[u][v] = "CLAIMED"

ApplyVoucher(u, v) == Applicable(u, v) /\ SetBasket(u, [basket[u] EXCEPT !.voucher = v])

FaultyCouponUsable == couponOn
\* Also part of the quote.
CouponUsable == couponOn /\ usedCount < UsageLimit

ApplyCoupon(u) == CouponUsable /\ SetBasket(u, [basket[u] EXCEPT !.coupon = TRUE])
RemoveCoupon(u) == basket[u].coupon /\ SetBasket(u, [basket[u] EXCEPT !.coupon = FALSE])

\* createInTransaction: the quote refuses a promotion that is no longer valid.
\* It does not look at UserVoucher again.
StartCheckout(u) ==
  /\ ~checkout[u].open /\ checkouts < MaxCheckouts
  /\ basket[u].voucher # NoVoucher => campaign[basket[u].voucher]
  /\ basket[u].coupon => CouponUsable
  /\ checkout' = [checkout EXCEPT ![u] = [open |-> TRUE, voucher |-> basket[u].voucher,
                                          coupon |-> basket[u].coupon]]
  /\ checkouts' = checkouts + 1
  /\ UNCHANGED <<campaign, couponOn, holding, basket, usedCount, granted, strayed, redeemed, uncounted>>

\* failGroup, cancel: the promotions stay on the cart.
AbandonCheckout(u) ==
  /\ checkout[u].open
  /\ checkout' = [checkout EXCEPT ![u] = NoCheckout]
  /\ UNCHANGED <<campaign, couponOn, holding, basket, usedCount, checkouts, granted,
                 strayed, redeemed, uncounted>>

FaultyUsedUp(u) == holding[u]
\* updateMany where CLAIMED: the voucher now on the cart becomes REDEEMED.
UsedUp(u) ==
  [v \in Campaigns |-> IF v = basket[u].voucher /\ holding[u][v] = "CLAIMED"
                       THEN "REDEEMED" ELSE holding[u][v]]

\* completeGroup.
CompleteCheckout(u) ==
  /\ checkout[u].open
  /\ holding' = [holding EXCEPT ![u] = UsedUp(u)]
  /\ usedCount' = IF basket[u].coupon THEN usedCount + 1 ELSE usedCount
  /\ basket' = [basket EXCEPT ![u] = [voucher |-> NoVoucher, coupon |-> FALSE]]
  /\ checkout' = [checkout EXCEPT ![u] = NoCheckout]
  /\ LET given == checkout[u].voucher
         on == basket[u].voucher IN
     /\ granted' = [granted EXCEPT ![u] = [v \in Campaigns |->
          IF v = given THEN @[v] + 1 ELSE @[v]]]
     /\ strayed' = [strayed EXCEPT ![u] = [v \in Campaigns |->
          IF v = given /\ v # on THEN @[v] + 1 ELSE @[v]]]
  /\ redeemed' = IF checkout[u].coupon THEN redeemed + 1 ELSE redeemed
  /\ uncounted' = IF checkout[u].coupon /\ ~basket[u].coupon THEN uncounted + 1 ELSE uncounted
  /\ UNCHANGED <<campaign, couponOn, checkouts>>

PromotionsNext ==
  \/ \E v \in Campaigns : SwitchCampaign(v)
  \/ SwitchCoupon
  \/ \E u \in Shoppers :
       \/ \E v \in Campaigns : HoldVoucher(u, v) \/ ApplyVoucher(u, v)
       \/ ApplyCoupon(u) \/ RemoveCoupon(u)
       \/ StartCheckout(u) \/ AbandonCheckout(u) \/ CompleteCheckout(u)

PromotionsSpec == PromotionsInit /\ [][PromotionsNext]_promotionVars

-----------------------------------------------------------------------------
(* Properties.                                                             *)

\* A voucher gives its discount in one paid checkout, over any number of
\* abandoned ones and whenever the campaign is switched: once more only for
\* each payment that found another voucher on the cart than was quoted, because
\* completeGroup looks at the cart, not at the quote.
VoucherGrantedOnce ==
  \A u \in Shoppers, v \in Campaigns : granted[u][v] <= 1 + strayed[u][v]

\* The coupon is paid out within its limit, however checkouts overlap and carts
\* change: the limit is exceeded only by the checkouts that can be unpaid beside
\* the one that took its last use, and by the payments that did not find the
\* coupon on the cart any more and so did not count.
CouponWithinLimit ==
  redeemed > UsageLimit + uncounted
    => redeemed < UsageLimit + uncounted + Cardinality(Shoppers)

\* Vouchers and coupons give what they promise and no more, except for the
\* changes of the cart under an unpaid checkout named above.
DiscountsWithinLimits == VoucherGrantedOnce /\ CouponWithinLimit
=============================================================================
