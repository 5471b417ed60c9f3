---------------------------- MODULE MCGovernance ----------------------------
(* A small instance of the bridge whose roles change hands.                  *)
EXTENDS MCOnboardingBridge, BridgeAuthEntry

(* Governance: both roles change hands while fees accrue and are withdrawn,  *)
(* under pausing, deactivation and caps, with replayed call nonces, and an   *)
(* account has authorization entries verified.                               *)
GovernanceBalances == Holdings(2, 0)

GovernanceInit ==
    {[admin |-> admin, fee_collector |-> collector, fee_bps |-> MAX_FEE_BPS, nonce |-> n] :
        n \in {0, None}}

GovernanceOptions ==
    {[nonce |-> None, deadline |-> None], [nonce |-> 0, deadline |-> 0]}

GovernanceNext ==
    \/ CloseLedger
    \/ \E amount \in Amounts, opt \in CallOptions : FundCAddress(alice, bob, xlm, amount, opt)
    \/ OperatorTransfer \/ Handover \/ CircuitBreaker
    \/ \E limit \in Limits, opt \in CallOptions :
          SetMaxWithdrawPerTx(limit, opt) \/ SetMinimumAmount(limit, opt)
    \/ \E opt \in CallOptions : AddAsset(xlm, opt)

AuthWindows == {[valid_after |-> 0, valid_before |-> 1], [valid_after |-> 1, valid_before |-> 3]}

GovernanceSpec ==
    /\ Init /\ AuthInit
    /\ [][(GovernanceNext /\ UNCHANGED authVars) \/ AuthEntries]_<<vars, authVars>>
=============================================================================
