-------------------------------- MODULE MCCommerce --------------------------------
(***************************************************************************)
(* Money, goods and offers around the checkout: components that share no   *)
(* state.  `scene' says which of them this behaviour is about; the others  *)
(* stay put.                                                               *)
(***************************************************************************)
EXTENDS Payouts, Merchants, Rewards, Promotions, Financing, Pricing, Shopper, TLC

\* The last day of January before a February of 28 days and before one of 29.
Dates == {<<12 * 2027, 31>>, <<12 * 2028, 31>>}

NoOffer == [type |-> "NONE", value |-> 0, shop |-> 0]
NoCoupon == [type |-> "NONE", value |-> 0, max |-> 0]
VoucherKinds ==
  {NoOffer,
   [type |-> "FREE_SHIPPING", value |-> 0, shop |-> 1],
   [type |-> "FREE_SHIPPING", value |-> 0, shop |-> 0],
   [type |-> "FIXED", value |-> 3, shop |-> 2],
   [type |-> "PERCENTAGE", value |-> 50, shop |-> 0]}
CouponKinds ==
  {NoCoupon,
   [type |-> "FIXED", value |-> 2, max |-> 0],
   [type |-> "FIXED", value |-> 8, max |-> 0],
   [type |-> "PERCENTAGE", value |-> 30, max |-> 2],
   [type |-> "PERCENTAGE", value |-> 50, max |-> 0]}

\* No rule of a promotion tells two shoppers or two campaigns apart.
PromotionSymmetry == Permutations(Shoppers) \cup Permutations(Campaigns)

VARIABLE scene

CommerceInit ==
  /\ scene \in {"payouts", "merchants", "rewards", "promotions", "financing", "pricing", "shopper"}
  /\ PayoutsInit /\ MerchantsInit /\ RewardsInit /\ PromotionsInit /\ FinancingInit /\ PricingInit /\ ShopperInit
  \* One initial state for a component that is not in the scene.
  /\ scene # "financing" => cartTotal = 100
  /\ scene # "pricing" =>
       /\ voucherOf = NoOffer /\ couponOf = NoCoupon
       /\ bill = [s \in Shops |-> NewOrder(1, 0)]

CommerceNext ==
  \/ scene = "payouts" /\ PayoutsNext
     /\ UNCHANGED <<scene, merchantVars, rewardsVars, promotionVars, financingVars, pricingVars, shopperVars>>
  \/ scene = "merchants" /\ MerchantsNext
     /\ UNCHANGED <<scene, payoutsVars, rewardsVars, promotionVars, financingVars, pricingVars, shopperVars>>
  \/ scene = "rewards" /\ RewardsNext
     /\ UNCHANGED <<scene, payoutsVars, merchantVars, promotionVars, financingVars, pricingVars, shopperVars>>
  \/ scene = "promotions" /\ PromotionsNext
     /\ UNCHANGED <<scene, payoutsVars, merchantVars, rewardsVars, financingVars, pricingVars, shopperVars>>
  \/ scene = "financing" /\ FinancingNext
     /\ UNCHANGED <<scene, payoutsVars, merchantVars, rewardsVars, promotionVars, pricingVars, shopperVars>>
  \/ scene = "pricing" /\ PricingNext
     /\ UNCHANGED <<scene, payoutsVars, merchantVars, rewardsVars, promotionVars, financingVars, shopperVars>>
  \/ scene = "shopper" /\ ShopperNext
     /\ UNCHANGED <<scene, payoutsVars, merchantVars, rewardsVars, promotionVars, financingVars, pricingVars>>

CommerceSpec ==
  CommerceInit /\ [][CommerceNext]_<<scene, payoutsVars, merchantVars, rewardsVars, promotionVars, financingVars, pricingVars, shopperVars>>
=============================================================================
