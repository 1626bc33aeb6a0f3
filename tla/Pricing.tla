------------------------------ MODULE Pricing ------------------------------
(***************************************************************************)
(* The arithmetic of a quote (checkout.service.ts quoteInTransaction):     *)
(* one order per store of the cart, a voucher for all of them or for one   *)
(* store, and a coupon shared out among them in proportion, the last order *)
(* taking what rounding left.  Amounts are kobo.                           *)
(*                                                                         *)
(* The loop over the orders is the behaviour: one step per order.          *)
(***************************************************************************)
EXTENDS Integers, FiniteSets, Functions

CONSTANTS ShopCount,      \* the stores of the cart
          Subtotals,      \* what the lines of one store can come to
          Fees,           \* deliveryFeePerStore, 0 for pickup
          VoucherOffers,  \* [type, value, shop]: shop 0 is any
          CouponOffers    \* [type, value, max]: max 0 is no maximumDiscount

ASSUME PricingAssumption ==
  /\ ShopCount \in Nat \ {0}
  /\ Subtotals \subseteq Nat /\ Fees \subseteq Nat
  /\ \A v \in VoucherOffers : v.value \in Nat
  /\ \A c \in CouponOffers : c.value \in Nat /\ c.max \in Nat

VARIABLES bill,       \* the orders of the quote
          voucherOf,  \* the voucher applied to the cart
          couponOf,   \* the coupon applied to the cart
          couponLeft, \* remaining of the coupon
          couponSum,  \* couponTotal
          billed      \* orders the loop has gone through; -1 before the voucher

pricingVars == <<bill, voucherOf, couponOf, couponLeft, couponSum, billed>>

\* In the order of their ids.
Shops == 1..ShopCount

NewOrder(subtotal, fee) ==
  [subtotal |-> subtotal, fee |-> fee, discount |-> 0, feeDiscount |-> 0,
   total |-> subtotal + fee]

PricingInit ==
  /\ \E amounts \in [Shops -> Subtotals], fee \in Fees :
       bill = [s \in Shops |-> NewOrder(amounts[s], fee)]
  /\ voucherOf \in VoucherOffers
  /\ couponOf \in CouponOffers
  /\ couponLeft = 0
  /\ couponSum = 0
  /\ billed = -1

Smaller(a, b) == IF a < b THEN a ELSE b
\* money(): the nearest kobo, half a kobo up.
Rounded(num, den) == (2 * num + den) \div (2 * den)
Gross == SumFunction([s \in Shops |-> bill[s].subtotal])
Totals == SumFunction([s \in Shops |-> bill[s].total])

FaultyVoucherAmount(order) ==
  IF voucherOf.type = "PERCENTAGE" THEN Rounded(order.subtotal * voucherOf.value, 100)
  ELSE voucherOf.value
VoucherAmount(order) ==
  Smaller(order.subtotal,
          IF voucherOf.type = "PERCENTAGE" THEN Rounded(order.subtotal * voucherOf.value, 100)
          ELSE voucherOf.value)

VoucherIsFor(s) == voucherOf.type # "NONE" /\ voucherOf.shop \in {0, s}

WithVoucher(s) ==
  IF ~VoucherIsFor(s) THEN bill[s]
  ELSE IF voucherOf.type = "FREE_SHIPPING"
  THEN [bill[s] EXCEPT !.feeDiscount = bill[s].fee, !.total = bill[s].subtotal]
  ELSE [bill[s] EXCEPT !.discount = VoucherAmount(bill[s]), !.total = @ - VoucherAmount(bill[s])]

PriceVoucher ==
  /\ billed = -1 /\ couponSum = 0
  /\ bill' = [s \in Shops |-> WithVoucher(s)]
  /\ billed' = 0
  /\ UNCHANGED <<voucherOf, couponOf, couponLeft, couponSum>>

CouponValue ==
  LET raw == IF couponOf.type = "PERCENTAGE" THEN Rounded(Gross * couponOf.value, 100)
             ELSE couponOf.value IN
  Smaller(Totals, IF couponOf.max = 0 THEN raw ELSE Smaller(raw, couponOf.max))

Proportional(s) == IF Gross = 0 THEN 0 ELSE Rounded(couponSum * bill[s].subtotal, Gross)

FaultyShare(s) == Smaller(bill[s].total, Smaller(couponLeft, Proportional(s)))
\* What order s gets of the coupon.
Share(s) ==
  Smaller(bill[s].total,
          IF s = ShopCount THEN couponLeft ELSE Smaller(couponLeft, Proportional(s)))

StartCoupon ==
  /\ billed = 0 /\ couponOf.type # "NONE"
  /\ couponSum' = CouponValue
  /\ couponLeft' = CouponValue
  /\ billed' = 1
  /\ UNCHANGED <<bill, voucherOf, couponOf>>

ShareCoupon ==
  /\ billed \in Shops
  /\ LET given == Share(billed) IN
     /\ bill' = [bill EXCEPT ![billed].discount = @ + given, ![billed].total = @ - given]
     /\ couponLeft' = couponLeft - given
  /\ billed' = billed + 1
  /\ UNCHANGED <<voucherOf, couponOf, couponSum>>

PricingNext == PriceVoucher \/ StartCoupon \/ ShareCoupon

PricingSpec == PricingInit /\ [][PricingNext]_pricingVars

-----------------------------------------------------------------------------
(* Properties.                                                             *)

Quoted == billed > ShopCount \/ (billed = 0 /\ couponOf.type = "NONE")
Discounts == SumFunction([s \in Shops |-> bill[s].discount + bill[s].feeDiscount])
DeliveryFees == SumFunction([s \in Shops |-> bill[s].fee])

\* The total of the quote, which is what the payment group charges, is the sum
\* of its orders, which is what allocations, settlements and refunds share
\* out, and no order is negative, whatever voucher and coupon meet.
QuoteAddsUp ==
  /\ Quoted => Totals = Gross + DeliveryFees - Discounts
  /\ \A s \in Shops : bill[s].total >= 0

\* A coupon worth no more than the goods is given in full when no voucher has
\* lowered the orders before it.  Only a last order that has come down to
\* nothing leaves some of it over: what rounding down has spared the other
\* orders, less than half a kobo for each of them.
CouponInFull ==
  Quoted /\ couponOf.type # "NONE" /\ voucherOf.type = "NONE" /\ couponSum <= Gross
    => LET lost == couponSum - Discounts IN
       \/ lost = 0
       \/ lost > 0 /\ bill[ShopCount].total = 0 /\ 2 * lost <= ShopCount - 2

\* The quote is exact: its parts add up, and the coupon is shared out.
QuoteIsExact == QuoteAddsUp /\ CouponInFull
=============================================================================
