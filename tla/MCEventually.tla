---------------------------- MODULE MCEventually ----------------------------
(***************************************************************************)
(* What timers and redelivered webhooks must finish in the end: order      *)
(* confirmations, wallet top-ups and refunds.  The three share no state;   *)
(* `scene' says which of them this behaviour is about, the others stay     *)
(* where they start, where no fair action is enabled.                      *)
(***************************************************************************)
EXTENDS ConfirmationOutbox, WalletFunding, TLC

CONSTANTS j1, j2, w1, w2, p1, h1, h2, o1, NoOrder

VARIABLES scene,
          status, refundId, refunded, refunder, attempt, told, refundEvents, refundTask,
          retries, errors, crashes

R == INSTANCE Refunds WITH
       Orders <- {o1}, MaxAttempts <- 1, MaxRetries <- 0,
       MaxErrors <- 1, MaxCrashes <- 0,
       payment <- refunded, provider <- refunder, events <- refundEvents, task <- refundTask

refundVars == <<status, refundId, refunded, refunder, attempt, told, refundEvents, refundTask,
                retries, errors, crashes>>

\* The amount paid in; a withdrawal takes the same amount.
Amounts == [p \in Payments |-> 2]

allVars == <<scene, vars, fundingVars, refundVars>>

EventuallyInit ==
  /\ scene \in {"confirmations", "funding", "refunds"}
  /\ Init /\ FundingInit /\ R!Init
  /\ scene # "funding" => kind = [p \in Payments |-> "WALLET_TOPUP"]
  /\ scene # "refunds" => refunder = "PAYSTACK"

EventuallyNext ==
  \/ scene = "confirmations" /\ Next /\ UNCHANGED <<scene, fundingVars, refundVars>>
  \/ scene = "funding" /\ FundingNext /\ UNCHANGED <<scene, vars, refundVars>>
  \/ scene = "refunds" /\ R!Next /\ UNCHANGED <<scene, vars, fundingVars>>

EventuallySpec ==
  /\ EventuallyInit /\ [][EventuallyNext]_allVars
  /\ Fairness /\ FundingFairness /\ R!Fairness

\* Every open refund settles (Refunds.RefundSettles).
RefundSettles == R!RefundSettles
=============================================================================
