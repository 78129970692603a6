------------------------------ MODULE MCBilling -----------------------------
(* Two subscriptions for one vault, one after the other or at once, and a   *)
(* vault that is comped: MCBilling.cfg, MCBillingGap.cfg                    *)
EXTENDS Billing
CONSTANTS v, w
MCVaultOf == [s \in Sub |-> v]
=============================================================================
