-------------------------- MODULE BridgeSafetyProofs --------------------------
(* What the contract records and what its steps may never do, for every set  *)
(* of accounts, assets, relayers and amounts.                                *)
EXTENDS OnboardingBridgeProofs, FiniteSetTheorems

-----------------------------------------------------------------------------
(* What each kind of step leaves alone.                                      *)
Funding == DirectFunding \/ SwapFunding \/ OperatorTransfer \/ StrayTransfer

Administration ==
    \/ FeeConfiguration \/ LimitConfiguration \/ LoyaltyConfiguration
    \/ AccessLists \/ AssetWhitelist \/ PoolWhitelist \/ CircuitBreaker \/ Handover

(* The funding entry points touch balances, counters, usage and call nonces. *)
LEMMA FundingFrame ==
    ASSUME Funding
    PROVE  UNCHANGED untouchedByFunding
<1>1. CASE DirectFunding
  <2>1. ASSUME NEW source, NEW target, NEW asset, NEW amount, NEW opt,
               FundCAddress(source, target, asset, amount, opt)
        PROVE  UNCHANGED untouchedByFunding
    BY <2>1 DEF FundCAddress
  <2>2. ASSUME NEW source, NEW target, NEW referrer, NEW asset, NEW amount, NEW opt,
               FundCAddressWithReferral(source, target, referrer, asset, amount, opt)
        PROVE  UNCHANGED untouchedByFunding
    BY <2>2 DEF FundCAddressWithReferral
  <2>3. ASSUME NEW source, NEW batch, NEW asset, NEW opt,
               BatchFundCAddress(source, batch, asset, opt)
        PROVE  UNCHANGED untouchedByFunding
    BY <2>3 DEF BatchFundCAddress
  <2> QED
    BY <1>1, <2>1, <2>2, <2>3 DEF DirectFunding
<1>2. CASE SwapFunding
  BY <1>2 DEF SwapFunding, FundCAddressWithSwap
<1>3. CASE OperatorTransfer
  BY <1>3 DEF OperatorTransfer, WithdrawFees, ReclaimTokens
<1>4. CASE StrayTransfer
  BY <1>4 DEF StrayTransfer, SendToBridge
<1> QED
  BY <1>1, <1>2, <1>3, <1>4 DEF Funding

(* The administrator's configuration moves no token and no deposit.          *)
LEMMA AdministrationFrame ==
    ASSUME Administration
    PROVE  UNCHANGED untouchedByAdmin
<1>1. CASE FeeConfiguration \/ LimitConfiguration \/ LoyaltyConfiguration
  BY <1>1 DEF FeeConfiguration, LimitConfiguration, LoyaltyConfiguration, SetFeeBps,
     SetReferralRate, SetAssetFeeCap, SetFeeTiers, SetMinimumAmount, SetMaxWithdrawPerTx,
     SetSourceDailyLimit, SetLoyaltyToken, Configure
<1>2. CASE AccessLists \/ AssetWhitelist \/ PoolWhitelist
  BY <1>2 DEF AccessLists, AssetWhitelist, PoolWhitelist, AddToBlocklist,
     RemoveFromBlocklist, AddToAllowlist, RemoveFromAllowlist, SetAllowlistMode, AddAsset,
     RemoveAsset, AddSwapPool, RemoveSwapPool, SetList, Configure
<1>3. CASE CircuitBreaker
  BY <1>3 DEF CircuitBreaker, Pause, Unpause, EmergencyMigrate, Configure
<1>4. CASE Handover
  BY <1>4 DEF Handover, SetAdmin, SetFeeCollector, ProposeNewAdmin, ProposeNewFeeCollector,
     AcceptAdmin, AcceptFeeCollector, ClearPendingAdmin, ClearPendingFeeCollector, Configure
<1> QED
  BY <1>1, <1>2, <1>3, <1>4 DEF Administration

(* Deposits and claims leave the configuration, the commitments, the         *)
(* registry and the replay records alone.                                    *)
LEMMA TimelocksFrame ==
    ASSUME Timelocks
    PROVE  UNCHANGED <<ledger, config, lists, fee_cap, reserve, commitments, relayers,
                       used_nonces, meta>>
<1> DEFINE rest == <<ledger, config, lists, fee_cap, reserve, commitments, relayers,
                     used_nonces, meta>>
<1>1. ASSUME NEW source, NEW target, NEW asset, NEW amount, NEW release_time, NEW opt,
             FundCAddressTimelocked(source, target, asset, amount, release_time, opt)
      PROVE  UNCHANGED rest
  BY <1>1 DEF FundCAddressTimelocked
<1>2. ASSUME NEW id, ClaimTimelocked(id)
      PROVE  UNCHANGED rest
  BY <1>2 DEF ClaimTimelocked
<1> QED
  BY <1>1, <1>2 DEF Timelocks

(* The cross-chain payouts and their reserve leave deposits, commitments and *)
(* the registry alone.                                                       *)
LEMMA CrossChainFrame ==
    ASSUME CrossChain
    PROVE  UNCHANGED <<nonces, relayers, untouchedByCrossChain>>
<1> DEFINE rest == <<nonces, relayers, untouchedByCrossChain>>
<1>1. ASSUME NEW asset, NEW amount, FundCrosschainReserve(asset, amount)
      PROVE  UNCHANGED rest
  BY <1>1 DEF FundCrosschainReserve
<1>2. ASSUME NEW asset, NEW amount, WithdrawCrosschainReserve(asset, amount)
      PROVE  UNCHANGED rest
  BY <1>2 DEF WithdrawCrosschainReserve
<1>3. ASSUME NEW tx, NEW target, NEW asset, NEW amount, NEW signers,
             FundCAddressCrosschain(tx, target, asset, amount, signers)
      PROVE  UNCHANGED rest
  BY <1>3 DEF FundCAddressCrosschain
<1> QED
  BY <1>1, <1>2, <1>3 DEF CrossChain

(* The registry of relayers is apart from the funds and the payouts.         *)
LEMMA RegistryFrame ==
    ASSUME Registry
    PROVE  UNCHANGED <<fundVars, used_nonces, published, untouchedByCrossChain>>
  BY DEF Registry, AddRelayer, RemoveRelayer, SetRelayerThreshold

(* Commitments and signed messages leave the configuration, the deposits and *)
(* the registry alone.                                                       *)
LEMMA SignedFrame ==
    ASSUME CommitReveal \/ MetaFunding
    PROVE  UNCHANGED <<nonces, untouchedBySigned>>
<1> DEFINE rest == <<nonces, untouchedBySigned>>
<1>1. ASSUME NEW source, NEW target, NEW asset, NEW amount, NEW deadline,
             CommitFund(source, target, asset, amount, deadline)
      PROVE  UNCHANGED rest
  BY <1>1 DEF CommitFund
<1>2. ASSUME NEW id, NEW amount, RevealFund(id, amount)
      PROVE  UNCHANGED rest
  BY <1>2 DEF RevealFund
<1>3. ASSUME NEW id, CancelCommitment(id)
      PROVE  UNCHANGED rest
  BY <1>3 DEF CancelCommitment
<1>4. ASSUME NEW source, RegisterMetaSigner(source)
      PROVE  UNCHANGED rest
  BY <1>4 DEF RegisterMetaSigner
<1>5. ASSUME NEW source, UnregisterMetaSigner(source)
      PROVE  UNCHANGED rest
  BY <1>5 DEF UnregisterMetaSigner
<1>6. ASSUME NEW source, NEW target, NEW asset, NEW amount, NEW nonce, NEW deadline,
             ExecuteMetaFund(source, target, asset, amount, nonce, deadline)
      PROVE  UNCHANGED rest
  BY <1>6 DEF ExecuteMetaFund
<1> QED
  BY <1>1, <1>2, <1>3, <1>4, <1>5, <1>6 DEF CommitReveal, MetaFunding

(* The kinds of step there are.                                              *)
LEMMA StepKinds ==
    ASSUME [Next]_vars
    PROVE  \/ Funding \/ Timelocks \/ CrossChain \/ Registry \/ CommitReveal \/ MetaFunding
           \/ Administration \/ CloseLedger \/ UNCHANGED vars
  BY DEF Next, Funding, Administration

-----------------------------------------------------------------------------
(* No token is stranded or taken silently by any entry point.                *)
THEOREM BridgeExplainsSurplus == Spec => SurplusExplained
<1>1. ASSUME BridgeInv, [Next]_vars
      PROVE  \A a \in Asset :
                \/ Reclaimable(a)' = Reclaimable(a)
                \/ a = config.loyalty_token
                \/ StrayTransfer
                \/ OperatorTransfer /\ counters' = counters
  <2>1. SurplusStep
    BY <1>1, NextKeeps
  <2>2. ASSUME SurplusKept, NEW a \in Asset, a # config.loyalty_token
        PROVE  Reclaimable(a)' = Reclaimable(a)
    <3>1. balance'[a][Bridge] - counters'[a].accrued_fees - counters'[a].locked_timelock
              - reserve'[a] = Reclaimable(a)
      BY <2>2 DEF SurplusKept, SurplusLeft
    <3> QED
      BY <3>1 DEF Reclaimable
  <2> QED
    BY <2>1, <2>2 DEF SurplusStep
<1> QED
  BY <1>1, BridgeInvariant, PTL DEF Spec, SurplusExplained

-----------------------------------------------------------------------------
(* Deactivation.                                                             *)

(* Without the circuit breaker's leave, users neither fund, commit, reveal   *)
(* nor are paid from other chains.                                           *)
LEMMA OnlyRecovery ==
    ASSUME ~CheckNotPaused, [Next]_vars
    PROVE  \/ OperatorTransfer \/ StrayTransfer \/ Registry \/ Administration \/ CloseLedger
           \/ \E asset \in ReserveAssets, amount \in Amounts :
                 \/ FundCrosschainReserve(asset, amount)
                 \/ WithdrawCrosschainReserve(asset, amount)
           \/ \E id \in DOMAIN timelocks : ClaimTimelocked(id)
           \/ UNCHANGED vars
<1>1. ASSUME DirectFunding
      PROVE  CheckNotPaused
  <2>1. ASSUME NEW source, NEW target, NEW asset, NEW amount, NEW opt,
               FundCAddress(source, target, asset, amount, opt)
        PROVE  CheckNotPaused
    BY <2>1 DEF FundCAddress
  <2>2. ASSUME NEW source, NEW target, NEW referrer, NEW asset, NEW amount, NEW opt,
               FundCAddressWithReferral(source, target, referrer, asset, amount, opt)
        PROVE  CheckNotPaused
    BY <2>2 DEF FundCAddressWithReferral
  <2>3. ASSUME NEW source, NEW batch, NEW asset, NEW opt,
               BatchFundCAddress(source, batch, asset, opt)
        PROVE  CheckNotPaused
    BY <2>3 DEF BatchFundCAddress
  <2> QED
    BY <1>1, <2>1, <2>2, <2>3 DEF DirectFunding
<1>2. ~SwapFunding
  BY DEF SwapFunding, FundCAddressWithSwap
<1>3. ASSUME NEW source, NEW target, NEW asset, NEW amount, NEW release_time, NEW opt,
             FundCAddressTimelocked(source, target, asset, amount, release_time, opt)
      PROVE  CheckNotPaused
  BY <1>3 DEF FundCAddressTimelocked
<1>4. ASSUME NEW tx, NEW target, NEW asset, NEW amount, NEW signers,
             FundCAddressCrosschain(tx, target, asset, amount, signers)
      PROVE  CheckNotPaused
  BY <1>4 DEF FundCAddressCrosschain
<1>5. ASSUME CommitReveal \/ MetaFunding
      PROVE  CheckNotPaused
  <2>1. ASSUME NEW source, NEW target, NEW asset, NEW amount, NEW deadline,
               CommitFund(source, target, asset, amount, deadline)
        PROVE  CheckNotPaused
    BY <2>1 DEF CommitFund
  <2>2. ASSUME NEW id, NEW amount, RevealFund(id, amount)
        PROVE  CheckNotPaused
    BY <2>2 DEF RevealFund
  <2>3. ASSUME NEW id, CancelCommitment(id)
        PROVE  CheckNotPaused
    BY <2>3 DEF CancelCommitment
  <2>4. ASSUME NEW source, RegisterMetaSigner(source)
        PROVE  CheckNotPaused
    BY <2>4 DEF RegisterMetaSigner
  <2>5. ASSUME NEW source, UnregisterMetaSigner(source)
        PROVE  CheckNotPaused
    BY <2>5 DEF UnregisterMetaSigner
  <2>6. ASSUME NEW source, NEW target, NEW asset, NEW amount, NEW nonce, NEW deadline,
               ExecuteMetaFund(source, target, asset, amount, nonce, deadline)
        PROVE  CheckNotPaused
    BY <2>6 DEF ExecuteMetaFund
  <2> QED
    BY <1>5, <2>1, <2>2, <2>3, <2>4, <2>5, <2>6 DEF CommitReveal, MetaFunding
<1> QED
  BY <1>1, <1>2, <1>3, <1>4, <1>5, StepKinds DEF Funding, Timelocks, CrossChain

(* What a claim does to the counters of its asset: what it unlocks covers    *)
(* what it counts as bridged.                                                *)
LEMMA ClaimCounters ==
    ASSUME TypeOK, NEW id \in DOMAIN timelocks, ClaimTimelocked(id), NEW a \in Asset
    PROVE  counters'[a].total_bridged - counters[a].total_bridged
               <= counters[a].locked_timelock - counters'[a].locked_timelock
<1> DEFINE entry == timelocks[id]
           asset == entry.asset
           amount == entry.amount
           rate == FlatRate(asset)
           fee == CalculateFee(amount, rate)
           unlocked == LockTimelock(counters, asset, -amount)
<1>1. counters' = AddFees(unlocked, asset, fee, fee, amount - fee)
  BY DEF ClaimTimelocked
<1>2. asset \in Asset /\ amount \in 1..I128_MAX /\ entry.source \in Account
  <2>1. entry \in TimelockEntry
    BY DEF TypeOK
  <2> HIDE DEF entry
  <2> QED
    BY <2>1 DEF TimelockEntry
<1> HIDE DEF entry, asset, amount
<1>3. amount \in Nat
  BY <1>2, FeeConstants DEF FeeConstants
<1>4. fee \in 0..amount
  <2>1. rate \in 0..FEE_DENOMINATOR
    BY <1>2, RatesTyped
  <2> HIDE DEF rate
  <2> QED
    BY <1>3, <2>1, FeeBounds
<1> HIDE DEF fee
<1>5. counters \in [Asset -> Counters]
  BY DEF TypeOK
<1>6. /\ unlocked[a].locked_timelock =
             counters[a].locked_timelock + (IF a = asset THEN -amount ELSE 0)
      /\ unlocked[a].total_bridged = counters[a].total_bridged
  BY <1>3, <1>5, FeeConstants DEF LockTimelock, Counters, I128, FeeConstants
<1>7. /\ counters'[a].locked_timelock = unlocked[a].locked_timelock
      /\ counters'[a].total_bridged =
             unlocked[a].total_bridged + (IF a = asset THEN amount - fee ELSE 0)
  <2>1. unlocked = [b \in Asset |-> IF b = asset
                        THEN [counters[b] EXCEPT !.locked_timelock = @ + -amount]
                        ELSE counters[b]]
    BY <1>5 DEF LockTimelock
  <2>2. \A b \in Asset : DOMAIN unlocked[b] = {"accrued_fees", "total_bridged",
                                               "total_fees_collected", "locked_timelock"}
    BY <1>5, <2>1 DEF Counters
  <2>3. unlocked[a].total_bridged \in Int
    BY <1>5, <1>6, FeeConstants DEF Counters, I128, FeeConstants
  <2>4. DOMAIN unlocked = Asset
    BY <2>1
  <2> HIDE DEF unlocked
  <2> QED
    BY <1>1, <1>3, <1>4, <2>2, <2>3, <2>4 DEF AddFees
<1> HIDE DEF unlocked
<1>8. counters[a].locked_timelock \in Int /\ counters[a].total_bridged \in Int
  BY <1>5, FeeConstants DEF Counters, I128, FeeConstants
<1> QED
  BY <1>3, <1>4, <1>6, <1>7, <1>8

(* On a deactivated contract the administrator's calls change neither role   *)
(* and do not undo the deactivation.                                         *)
LEMMA RolesFrozen ==
    ASSUME config \in Config, config.deactivated, Administration
    PROVE  /\ config'.deactivated
           /\ config'.admin = config.admin
           /\ config'.fee_collector = config.fee_collector
<1> DEFINE Frozen == /\ config'.deactivated
                     /\ config'.admin = config.admin
                     /\ config'.fee_collector = config.fee_collector
<1>1. ~CheckNotPaused /\ ~CheckNotDeactivated
  BY DEF CheckNotPaused, CheckNotDeactivated
<1>2. CASE FeeConfiguration \/ LimitConfiguration \/ LoyaltyConfiguration
  <2>1. config' = config \/ \E x : \/ config' = [config EXCEPT !.referral_rate = x]
                                   \/ config' = [config EXCEPT !.minimum_amount = x]
                                   \/ config' = [config EXCEPT !.max_withdraw_per_tx = x]
                                   \/ \E y : config' = [config EXCEPT !.loyalty_token = x,
                                                                      !.loyalty_amount = y]
    BY <1>1, <1>2 DEF FeeConfiguration, LimitConfiguration, LoyaltyConfiguration, SetFeeBps,
       SetReferralRate, SetAssetFeeCap, SetFeeTiers, SetMinimumAmount, SetMaxWithdrawPerTx,
       SetSourceDailyLimit, SetLoyaltyToken, Configure
  <2> QED
    BY <2>1 DEF Config
<1>3. CASE AccessLists \/ AssetWhitelist \/ PoolWhitelist
  <2>1. config' = config \/ \E x : config' = [config EXCEPT !.allowlist_mode = x]
    BY <1>3 DEF AccessLists, AssetWhitelist, PoolWhitelist, AddToBlocklist,
       RemoveFromBlocklist, AddToAllowlist, RemoveFromAllowlist, SetAllowlistMode, AddAsset,
       RemoveAsset, AddSwapPool, RemoveSwapPool, SetList, Configure
  <2> QED
    BY <2>1 DEF Config
<1>4. CASE CircuitBreaker
  <2>1. \E x : config' = [config EXCEPT !.paused = x]
    BY <1>1, <1>4 DEF CircuitBreaker, Pause, Unpause, EmergencyMigrate, Configure
  <2> QED
    BY <2>1 DEF Config
<1>5. ~Handover
  BY <1>1 DEF Handover, SetAdmin, SetFeeCollector, ProposeNewAdmin, ProposeNewFeeCollector,
     AcceptAdmin, AcceptFeeCollector, ClearPendingAdmin, ClearPendingFeeCollector
<1> QED
  BY <1>2, <1>3, <1>4, <1>5 DEF Administration

(* emergency_migrate is final: the roles are frozen, nothing new is taken in *)
(* and only what was locked before is still delivered.                       *)
THEOREM BridgeDeactivationIsFinal == Spec => DeactivationIsFinal
<1> DEFINE Frozen ==
             /\ config'.deactivated
             /\ config'.admin = config.admin
             /\ config'.fee_collector = config.fee_collector
             /\ Len(timelocks') = Len(timelocks)
             /\ Len(commitments') = Len(commitments)
             /\ \A a \in Asset :
                   counters'[a].total_bridged - counters[a].total_bridged
                       <= counters[a].locked_timelock - counters'[a].locked_timelock
<1>1. ASSUME TypeOK, [Next]_vars, config.deactivated
      PROVE  Frozen
  <2>1. ~CheckNotPaused
    BY <1>1 DEF CheckNotPaused
  <2>2. \A a \in Asset : /\ counters[a].total_bridged \in Int
                         /\ counters[a].locked_timelock \in Int
    BY <1>1, FeeConstants DEF TypeOK, Counters, I128, FeeConstants
  <2>3. ASSUME UNCHANGED <<config, timelocks, commitments>>,
               \A a \in Asset : /\ counters'[a].total_bridged = counters[a].total_bridged
                                /\ counters'[a].locked_timelock = counters[a].locked_timelock
        PROVE  Frozen
    BY <1>1, <2>2, <2>3
  <2>4. CASE OperatorTransfer
    <3>1. \/ counters' = counters
          \/ \E asset \in Asset : \E amount :
                counters' = [counters EXCEPT ![asset].accrued_fees = @ - amount]
      BY <2>4 DEF OperatorTransfer, WithdrawFees, ReclaimTokens
    <3>2. \A a \in Asset : /\ counters'[a].total_bridged = counters[a].total_bridged
                           /\ counters'[a].locked_timelock = counters[a].locked_timelock
      <4> SUFFICES ASSUME NEW a \in Asset
                   PROVE  /\ counters'[a].total_bridged = counters[a].total_bridged
                          /\ counters'[a].locked_timelock = counters[a].locked_timelock
        OBVIOUS
      <4>1. counters \in [Asset -> Counters] /\ counters[a] \in Counters
        BY <1>1 DEF TypeOK
      <4> QED
        BY <3>1, <4>1 DEF Counters
    <3> QED
      BY <2>3, <2>4, <3>2, FundingFrame DEF Funding, untouchedByFunding
  <2>5. CASE StrayTransfer
    <3>1. counters' = counters
      BY <2>5 DEF StrayTransfer, SendToBridge
    <3> QED
      BY <2>3, <2>5, <3>1, FundingFrame DEF Funding, untouchedByFunding
  <2>6. CASE Registry
    BY <2>3, <2>6, RegistryFrame DEF fundVars, untouchedByCrossChain
  <2>7. CASE Administration
    BY <1>1, <2>2, <2>7, AdministrationFrame, RolesFrozen DEF untouchedByAdmin, fundVars, TypeOK
  <2>8. CASE CloseLedger
    BY <2>3, <2>8 DEF CloseLedger
  <2>9. ASSUME NEW asset, NEW amount,
               \/ FundCrosschainReserve(asset, amount)
               \/ WithdrawCrosschainReserve(asset, amount)
        PROVE  Frozen
    BY <2>3, <2>9
    DEF FundCrosschainReserve, WithdrawCrosschainReserve, untouchedByCrossChain
  <2>10. ASSUME NEW id \in DOMAIN timelocks, ClaimTimelocked(id)
         PROVE  Frozen
    <3>1. /\ timelocks' = [timelocks EXCEPT ![id].claimed = TRUE]
          /\ UNCHANGED <<config, commitments>>
      BY <2>10 DEF ClaimTimelocked
    <3>2. Len(timelocks') = Len(timelocks)
      BY <1>1, <3>1 DEF TypeOK
    <3> QED
      BY <1>1, <2>10, <3>1, <3>2, ClaimCounters
  <2>11. CASE UNCHANGED vars
    BY <2>3, <2>11 DEF vars
  <2> QED
    BY <1>1, <2>1, <2>4, <2>5, <2>6, <2>7, <2>8, <2>9, <2>10, <2>11, OnlyRecovery
<1>2. TypeOK /\ [Next]_vars => (config.deactivated => Frozen)
  BY <1>1
<1> QED
  BY <1>2, BridgeTypeCorrect, PTL DEF Spec, DeactivationIsFinal

-----------------------------------------------------------------------------
(* Who holds the roles, and who has committed.                               *)

(* The two roles, held or proposed, belong to accounts that were named for   *)
(* them, and a commitment to an account that funds.                          *)
RolesNamed ==
    /\ config.admin \in Operators
    /\ config.fee_collector \in Operators
    /\ config.pending_admin \in Operators \cup {None}
    /\ config.pending_fee_collector \in Operators \cup {None}

CommittersFund ==
    \A id \in DOMAIN commitments : commitments[id] # None => commitments[id].source \in Sources

(* A step that changes the configuration is the administrator's.             *)
LEMMA ConfigFrame ==
    ASSUME [Next]_vars, ~Administration
    PROVE  UNCHANGED <<config, lists, fee_cap>>
<1>1. CASE Funding
  BY <1>1, FundingFrame DEF untouchedByFunding
<1>2. CASE Timelocks
  BY <1>2, TimelocksFrame
<1>3. CASE CrossChain
  BY <1>3, CrossChainFrame DEF untouchedByCrossChain
<1>4. CASE Registry
  BY <1>4, RegistryFrame DEF untouchedByCrossChain
<1>5. CASE CommitReveal \/ MetaFunding
  BY <1>5, SignedFrame DEF untouchedBySigned
<1>6. CASE CloseLedger \/ UNCHANGED vars
  BY <1>6 DEF CloseLedger, vars
<1> QED
  BY <1>1, <1>2, <1>3, <1>4, <1>5, <1>6, StepKinds

(* A handover only ever names one of the accounts proposed for a role.       *)
LEMMA RolesKept ==
    ASSUME TypeOK, RolesNamed, [Next]_vars
    PROVE  RolesNamed'
<1>1. config \in Config /\ None \notin Operators
  BY StateConstants DEF TypeOK, StateConstants
<1>2. CASE ~Administration
  BY <1>2, ConfigFrame DEF RolesNamed
<1> DEFINE Same == /\ config'.admin = config.admin
                   /\ config'.fee_collector = config.fee_collector
                   /\ config'.pending_admin = config.pending_admin
                   /\ config'.pending_fee_collector = config.pending_fee_collector
<1>3. CASE FeeConfiguration \/ LimitConfiguration \/ LoyaltyConfiguration
  <2>1. config' = config \/ \E x : \/ config' = [config EXCEPT !.fee_bps = x]
                                   \/ config' = [config EXCEPT !.fee_tiers = x]
                                   \/ config' = [config EXCEPT !.referral_rate = x]
                                   \/ config' = [config EXCEPT !.minimum_amount = x]
                                   \/ config' = [config EXCEPT !.max_withdraw_per_tx = x]
                                   \/ \E y : config' = [config EXCEPT !.loyalty_token = x,
                                                                      !.loyalty_amount = y]
    BY <1>3 DEF FeeConfiguration, LimitConfiguration, LoyaltyConfiguration, SetFeeBps,
       SetReferralRate, SetAssetFeeCap, SetFeeTiers, SetMinimumAmount, SetMaxWithdrawPerTx,
       SetSourceDailyLimit, SetLoyaltyToken, Configure
  <2>2. Same
    BY <1>1, <2>1 DEF Config
  <2> QED
    BY <2>2 DEF RolesNamed
<1>4. CASE AccessLists \/ AssetWhitelist \/ PoolWhitelist
  <2>1. config' = config \/ \E x : config' = [config EXCEPT !.allowlist_mode = x]
    BY <1>4 DEF AccessLists, AssetWhitelist, PoolWhitelist, AddToBlocklist,
       RemoveFromBlocklist, AddToAllowlist, RemoveFromAllowlist, SetAllowlistMode, AddAsset,
       RemoveAsset, AddSwapPool, RemoveSwapPool, SetList, Configure
  <2>2. Same
    BY <1>1, <2>1 DEF Config
  <2> QED
    BY <2>2 DEF RolesNamed
<1>5. CASE CircuitBreaker
  <2>1. \E x : \/ config' = [config EXCEPT !.paused = x]
               \/ config' = [config EXCEPT !.deactivated = x]
    BY <1>5 DEF CircuitBreaker, Pause, Unpause, EmergencyMigrate, Configure
  <2>2. Same
    BY <1>1, <2>1 DEF Config
  <2> QED
    BY <2>2 DEF RolesNamed
<1>6. CASE Handover
  <2>1. \/ \E new \in Operators :
              \/ config' = [config EXCEPT !.admin = new]
              \/ config' = [config EXCEPT !.fee_collector = new]
              \/ config' = [config EXCEPT !.pending_admin = new]
              \/ config' = [config EXCEPT !.pending_fee_collector = new]
        \/ config' = [config EXCEPT !.pending_admin = None]
        \/ config' = [config EXCEPT !.pending_fee_collector = None]
        \/ /\ config.pending_admin # None
           /\ config' = [config EXCEPT !.admin = config.pending_admin, !.pending_admin = None]
        \/ /\ config.pending_fee_collector # None
           /\ config' = [config EXCEPT !.fee_collector = config.pending_fee_collector,
                                       !.pending_fee_collector = None]
    BY <1>6 DEF Handover, SetAdmin, SetFeeCollector, ProposeNewAdmin, ProposeNewFeeCollector,
       AcceptAdmin, AcceptFeeCollector, ClearPendingAdmin, ClearPendingFeeCollector, Configure
  <2> QED
    BY <1>1, <2>1 DEF RolesNamed, Config
<1> QED
  BY <1>2, <1>3, <1>4, <1>5, <1>6 DEF Administration

(* From deployment on, the two roles are held by accounts named for them.    *)
LEMMA RolesInvariant == Spec => []RolesNamed
<1>1. Init => RolesNamed
  <2> SUFFICES ASSUME Init
               PROVE  RolesNamed
    OBVIOUS
  <2>1. PICK args \in InitArgs :
            config = [admin |-> args.admin, fee_collector |-> args.fee_collector,
                      pending_admin |-> None, pending_fee_collector |-> None,
                      fee_bps |-> args.fee_bps, paused |-> FALSE, allowlist_mode |-> FALSE,
                      deactivated |-> FALSE, minimum_amount |-> 0, max_withdraw_per_tx |-> 0,
                      referral_rate |-> 0, loyalty_token |-> None, loyalty_amount |-> 0,
                      fee_tiers |-> <<>>]
    BY DEF Init
  <2>2. args.admin \in Operators /\ args.fee_collector \in Operators
    BY StateConstants DEF StateConstants
  <2> QED
    BY <2>1, <2>2 DEF RolesNamed
<1>2. TypeOK /\ RolesNamed /\ [Next]_vars => RolesNamed'
  BY RolesKept
<1> QED
  BY <1>1, <1>2, BridgeTypeCorrect, PTL DEF Spec

(* A commitment is touched by commit_fund, reveal_fund and cancel_commitment alone. *)
LEMMA CommitmentsFrame ==
    ASSUME [Next]_vars, ~CommitReveal
    PROVE  UNCHANGED commitments
<1>1. CASE Funding
  BY <1>1, FundingFrame DEF untouchedByFunding
<1>2. CASE Timelocks
  BY <1>2, TimelocksFrame
<1>3. CASE CrossChain
  BY <1>3, CrossChainFrame DEF untouchedByCrossChain
<1>4. CASE Registry
  BY <1>4, RegistryFrame DEF untouchedByCrossChain
<1>5. CASE MetaFunding
  <2>1. ASSUME NEW source, RegisterMetaSigner(source) \/ UnregisterMetaSigner(source)
        PROVE  UNCHANGED commitments
    BY <2>1 DEF RegisterMetaSigner, UnregisterMetaSigner
  <2>2. ASSUME NEW source, NEW target, NEW asset, NEW amount, NEW nonce, NEW deadline,
               ExecuteMetaFund(source, target, asset, amount, nonce, deadline)
        PROVE  UNCHANGED commitments
    BY <2>2 DEF ExecuteMetaFund
  <2> QED
    BY <1>5, <2>1, <2>2 DEF MetaFunding
<1>6. CASE Administration
  BY <1>6, AdministrationFrame DEF untouchedByAdmin
<1>7. CASE CloseLedger \/ UNCHANGED vars
  BY <1>7 DEF CloseLedger, vars
<1> QED
  BY <1>1, <1>2, <1>3, <1>4, <1>5, <1>6, <1>7, StepKinds

(* Whoever commits is one of the accounts that fund.                         *)
LEMMA CommittersInvariant == Spec => []CommittersFund
<1>1. Init => CommittersFund
  BY DEF Init, CommittersFund
<1>2. ASSUME TypeOK, CommittersFund, [Next]_vars
      PROVE  CommittersFund'
  <2> DEFINE Entries == CommitmentEntry \cup {None}
  <2>1. commitments \in Seq(Entries)
    BY <1>2 DEF TypeOK
  <2>2. CASE ~CommitReveal
    BY <1>2, <2>2, CommitmentsFrame DEF CommittersFund
  <2>3. ASSUME NEW source \in Sources, NEW target, NEW asset, NEW amount, NEW deadline,
               CommitFund(source, target, asset, amount, deadline)
        PROVE  CommittersFund'
    <3>1. PICK entry : commitments' = Append(commitments, entry) /\ entry.source = source
      BY <2>3 DEF CommitFund
    <3> HIDE DEF Entries
    <3>2. ASSUME NEW id \in DOMAIN commitments'
          PROVE  commitments'[id] = entry \/ (id \in DOMAIN commitments
                                                 /\ commitments'[id] = commitments[id])
      BY <2>1, <3>1
    <3> QED
      BY <1>2, <3>1, <3>2 DEF CommittersFund
  <2>4. ASSUME NEW id \in DOMAIN commitments, NEW amount, RevealFund(id, amount)
        PROVE  CommittersFund'
    <3>1. /\ commitments[id] # None
          /\ commitments' = [commitments EXCEPT ![id].revealed = TRUE]
      BY <2>4 DEF RevealFund
    <3>2. commitments[id] \in CommitmentEntry
      BY <2>1, <3>1
    <3>3. commitments'[id].source = commitments[id].source
      BY <2>1, <3>1, <3>2 DEF CommitmentEntry
    <3>4. /\ DOMAIN commitments' = DOMAIN commitments
          /\ \A j \in DOMAIN commitments \ {id} : commitments'[j] = commitments[j]
      BY <3>1
    <3> QED
      BY <1>2, <3>1, <3>3, <3>4 DEF CommittersFund
  <2>5. ASSUME NEW id \in DOMAIN commitments, CancelCommitment(id)
        PROVE  CommittersFund'
    BY <1>2, <2>5 DEF CommittersFund, CancelCommitment
  <2> QED
    BY <2>2, <2>3, <2>4, <2>5 DEF CommitReveal
<1>3. TypeOK /\ CommittersFund /\ [Next]_vars => CommittersFund'
  BY <1>2
<1> QED
  BY <1>1, <1>3, BridgeTypeCorrect, PTL DEF Spec

-----------------------------------------------------------------------------
(* The relayer registry.                                                     *)

(* The registry is finite, being built one key at a time, its threshold is   *)
(* one until there is a key, and the keys can reach it.                      *)
RegistryInv ==
    /\ IsFiniteSet(relayers.keys)
    /\ relayers.keys = {} => relayers.threshold = 1
    /\ ThresholdReachable

(* add_relayer, remove_relayer and set_relayer_threshold keep the threshold  *)
(* within reach.                                                             *)
LEMMA RegistryStep ==
    ASSUME TypeOK, RegistryInv, Registry
    PROVE  RegistryInv'
<1> DEFINE keys == relayers.keys
           n == Cardinality(relayers.keys)
<1>1. /\ relayers \in [keys : SUBSET RelayerKey, threshold : Nat \ {0}]
      /\ IsFiniteSet(keys) /\ n \in Nat
  BY FS_CardinalityType DEF TypeOK, RegistryInv
<1>2. ASSUME NEW key \in RelayerKey, NEW opt, AddRelayer(key, opt)
      PROVE  RegistryInv'
  <2>1. relayers'.keys = keys \cup {key} /\ relayers'.threshold = relayers.threshold
    BY <1>1, <1>2 DEF AddRelayer
  <2>2. /\ IsFiniteSet(keys \cup {key})
        /\ Cardinality(keys \cup {key}) = IF key \in keys THEN n ELSE n + 1
    BY <1>1, FS_AddElement
  <2>3. keys = {} => n = 0
    BY FS_EmptySet
  <2>4. relayers.threshold <= Cardinality(keys \cup {key})
    BY <1>1, <2>2, <2>3 DEF RegistryInv, ThresholdReachable
  <2> QED
    BY <2>1, <2>2, <2>4 DEF RegistryInv, ThresholdReachable
<1>3. ASSUME NEW key \in RelayerKey, NEW opt, RemoveRelayer(key, opt)
      PROVE  RegistryInv'
  <2>1. /\ relayers'.keys = keys \ {key} /\ relayers'.threshold = relayers.threshold
        /\ key \in keys => n > 1 /\ n - 1 >= relayers.threshold
    BY <1>1, <1>3 DEF RemoveRelayer
  <2>2. /\ IsFiniteSet(keys \ {key})
        /\ Cardinality(keys \ {key}) = IF key \in keys THEN n - 1 ELSE n
    BY <1>1, FS_RemoveElement
  <2>3. CASE key \in keys
    <3>1. Cardinality(keys \ {key}) = n - 1 /\ n - 1 >= relayers.threshold /\ n - 1 # 0
      BY <1>1, <2>1, <2>2, <2>3
    <3>2. keys \ {key} # {}
      BY <3>1, FS_EmptySet
    <3> QED
      BY <1>1, <2>1, <2>2, <3>1, <3>2 DEF RegistryInv, ThresholdReachable
  <2>4. CASE key \notin keys
    <3>1. keys \ {key} = keys
      BY <2>4
    <3> QED
      BY <2>1, <3>1 DEF RegistryInv, ThresholdReachable
  <2> QED
    BY <2>3, <2>4
<1>4. ASSUME NEW threshold, NEW opt, SetRelayerThreshold(threshold, opt)
      PROVE  RegistryInv'
  <2>1. /\ threshold \in 1..n
        /\ relayers'.keys = keys /\ relayers'.threshold = threshold
    BY <1>1, <1>4 DEF SetRelayerThreshold
  <2>2. keys # {}
    BY <1>1, <2>1, FS_EmptySet
  <2> QED
    BY <1>1, <2>1, <2>2 DEF RegistryInv, ThresholdReachable
<1> QED
  BY <1>2, <1>3, <1>4 DEF Registry

(* Every other step leaves the registry alone.                               *)
LEMMA RelayersFrame ==
    ASSUME [Next]_vars, ~Registry
    PROVE  UNCHANGED relayers
<1>1. CASE Funding
  BY <1>1, FundingFrame DEF untouchedByFunding
<1>2. CASE Timelocks
  BY <1>2, TimelocksFrame
<1>3. CASE CrossChain
  BY <1>3, CrossChainFrame
<1>4. CASE CommitReveal \/ MetaFunding
  BY <1>4, SignedFrame DEF untouchedBySigned
<1>5. CASE Administration
  BY <1>5, AdministrationFrame DEF untouchedByAdmin
<1>6. CASE CloseLedger \/ UNCHANGED vars
  BY <1>6 DEF CloseLedger, vars
<1> QED
  BY <1>1, <1>2, <1>3, <1>4, <1>5, <1>6, StepKinds

(* However keys and the threshold are moved, the registered relayers can     *)
(* always authorise a payout: the guards of remove_relayer and of            *)
(* set_relayer_threshold suffice together.                                   *)
THEOREM BridgeThresholdReachable == Spec => []ThresholdReachable
<1>1. Init => RegistryInv
  BY FS_EmptySet DEF Init, RegistryInv, ThresholdReachable
<1>2. ASSUME TypeOK, RegistryInv, [Next]_vars
      PROVE  RegistryInv'
  BY <1>2, RegistryStep, RelayersFrame DEF RegistryInv, ThresholdReachable
<1>3. TypeOK /\ RegistryInv /\ [Next]_vars => RegistryInv'
  BY <1>2
<1>4. RegistryInv => ThresholdReachable
  BY DEF RegistryInv
<1> QED
  BY <1>1, <1>3, <1>4, BridgeTypeCorrect, PTL DEF Spec

-----------------------------------------------------------------------------
(* One-shot payouts.                                                         *)

(* What the storage says was paid.                                           *)
Claimed(id) == id \in DOMAIN timelocks /\ timelocks[id].claimed

Revealed(id) ==
    id \in DOMAIN commitments /\ commitments[id] # None /\ commitments[id].revealed

Recorded(p) ==
    \/ p[1] = "timelock" /\ Claimed(p[2])
    \/ p[1] = "commitment" /\ Revealed(p[2])
    \/ p[1] = "crosschain" /\ p[2] \in used_nonces
    \/ p[1] = "meta" /\ p[2] \in meta.used

AsRecorded == \A p \in Payout : published[p] = IF Recorded(p) THEN 1 ELSE 0

(* A step pays nothing and records nothing, or pays what was not recorded    *)
(* and records it.                                                           *)
PaysNothing == published' = published /\ \A p \in Payout : Recorded(p)' <=> Recorded(p)

Pays(q) ==
    /\ ~Recorded(q)
    /\ published' = [published EXCEPT ![q] = @ + 1]
    /\ \A p \in Payout : Recorded(p)' <=> Recorded(p) \/ p = q

(* Either way, the announcements agree with the record.                      *)
LEMMA PayingOnce ==
    ASSUME TypeOK, AsRecorded, PaysNothing \/ \E q : Pays(q)
    PROVE  AsRecorded'
<1>1. published \in [Payout -> Nat]
  BY DEF TypeOK
<1>2. CASE PaysNothing
  BY <1>2 DEF AsRecorded, PaysNothing
<1>3. ASSUME NEW q, Pays(q)
      PROVE  AsRecorded'
  <2> SUFFICES ASSUME NEW p \in Payout
               PROVE  published'[p] = IF Recorded(p)' THEN 1 ELSE 0
    BY DEF AsRecorded
  <2>1. CASE p = q
    BY <1>1, <1>3, <2>1 DEF Pays, AsRecorded
  <2>2. CASE p # q
    BY <1>1, <1>3, <2>2 DEF Pays, AsRecorded
  <2> QED
    BY <2>1, <2>2
<1> QED
  BY <1>2, <1>3

(* A step that leaves the four records and the announcements alone.          *)
LEMMA RecordsStand ==
    ASSUME UNCHANGED <<timelocks, commitments, used_nonces, published>>, meta'.used = meta.used
    PROVE  PaysNothing
  BY DEF PaysNothing, Recorded, Claimed, Revealed

(* Of the timelocks, claim_timelocked alone pays, and marks the entry.       *)
LEMMA TimelocksPay ==
    ASSUME TypeOK, Timelocks
    PROVE  PaysNothing \/ \E q : Pays(q)
<1> DEFINE Same(p) == \/ p[1] = "commitment" /\ Revealed(p[2])
                      \/ p[1] = "crosschain" /\ p[2] \in used_nonces
                      \/ p[1] = "meta" /\ p[2] \in meta.used
<1>1. UNCHANGED <<commitments, used_nonces, meta>>
  BY TimelocksFrame
<1>2. \A p : Same(p)' <=> Same(p)
  BY <1>1 DEF Revealed
<1>3. \A p : Recorded(p) <=> (p[1] = "timelock" /\ Claimed(p[2])) \/ Same(p)
  BY DEF Recorded
<1>4. \A p : Recorded(p)' <=> (p[1] = "timelock" /\ Claimed(p[2])') \/ Same(p)'
  BY DEF Recorded
<1> HIDE DEF Same
<1>5. timelocks \in Seq(TimelockEntry)
  BY DEF TypeOK
<1>6. ASSUME NEW source, NEW target, NEW asset, NEW amount, NEW release_time, NEW opt,
             FundCAddressTimelocked(source, target, asset, amount, release_time, opt)
      PROVE  PaysNothing
  <2>1. PICK entry : timelocks' = Append(timelocks, entry) /\ ~entry.claimed
    BY <1>6 DEF FundCAddressTimelocked
  <2>2. \A id : Claimed(id)' <=> Claimed(id)
    BY <1>5, <2>1 DEF Claimed
  <2>3. published' = published
    BY <1>6 DEF FundCAddressTimelocked
  <2> QED
    BY <1>2, <1>3, <1>4, <2>2, <2>3 DEF PaysNothing
<1>7. ASSUME NEW id \in DOMAIN timelocks, ClaimTimelocked(id)
      PROVE  Pays(<<"timelock", id>>)
  <2> DEFINE q == <<"timelock", id>>
  <2>1. /\ ~timelocks[id].claimed
        /\ timelocks' = [timelocks EXCEPT ![id].claimed = TRUE]
        /\ published' = [published EXCEPT ![q] = @ + 1]
    BY <1>7 DEF ClaimTimelocked
  <2>2. timelocks[id] \in TimelockEntry
    BY <1>5
  <2>3. \A j : Claimed(j)' <=> Claimed(j) \/ j = id
    BY <1>5, <2>1, <2>2 DEF Claimed, TimelockEntry
  <2>4. ~Claimed(id)
    BY <2>1 DEF Claimed
  <2>5. ~Recorded(q)
    BY <2>4 DEF Recorded
  <2>6. \A p \in Payout : p = q <=> p[1] = "timelock" /\ p[2] = id
    BY DEF Payout
  <2> HIDE DEF q
  <2>7. \A p \in Payout : Recorded(p)' <=> Recorded(p) \/ p = q
    BY <1>2, <1>3, <1>4, <2>3, <2>6
  <2> QED
    BY <2>1, <2>5, <2>7 DEF Pays, q
<1> QED
  BY <1>6, <1>7 DEF Timelocks

(* Of the commitments, reveal_fund alone pays, and marks the entry; a        *)
(* cancelled entry was never paid.                                           *)
LEMMA CommitmentsPay ==
    ASSUME TypeOK, CommitReveal
    PROVE  PaysNothing \/ \E q : Pays(q)
<1> DEFINE Same(p) == \/ p[1] = "timelock" /\ Claimed(p[2])
                      \/ p[1] = "crosschain" /\ p[2] \in used_nonces
                      \/ p[1] = "meta" /\ p[2] \in meta.used
           Entries == CommitmentEntry \cup {None}
<1>1. UNCHANGED <<timelocks, used_nonces, meta>>
  <2>1. UNCHANGED <<timelocks, used_nonces>>
    BY SignedFrame DEF untouchedBySigned
  <2>2. UNCHANGED meta
    BY DEF CommitReveal, CommitFund, RevealFund, CancelCommitment
  <2> QED
    BY <2>1, <2>2
<1>2. \A p : Same(p)' <=> Same(p)
  BY <1>1 DEF Claimed
<1>3. \A p : Recorded(p) <=> (p[1] = "commitment" /\ Revealed(p[2])) \/ Same(p)
  BY DEF Recorded
<1>4. \A p : Recorded(p)' <=> (p[1] = "commitment" /\ Revealed(p[2])') \/ Same(p)'
  BY DEF Recorded
<1> HIDE DEF Same
<1>5. commitments \in Seq(Entries)
  BY DEF TypeOK
<1>6. ASSUME published' = published, \A j : Revealed(j)' <=> Revealed(j)
      PROVE  PaysNothing
  BY <1>2, <1>3, <1>4, <1>6 DEF PaysNothing
<1>7. ASSUME NEW source, NEW target, NEW asset, NEW amount, NEW deadline,
             CommitFund(source, target, asset, amount, deadline)
      PROVE  PaysNothing
  <2>1. PICK entry : commitments' = Append(commitments, entry) /\ ~entry.revealed
    BY <1>7 DEF CommitFund
  <2> HIDE DEF Entries
  <2>2. \A id : Revealed(id)' <=> Revealed(id)
    BY <1>5, <2>1 DEF Revealed
  <2>3. published' = published
    BY <1>7 DEF CommitFund
  <2> QED
    BY <1>6, <2>2, <2>3
<1>8. ASSUME NEW id \in DOMAIN commitments, NEW amount, RevealFund(id, amount)
      PROVE  Pays(<<"commitment", id>>)
  <2> DEFINE q == <<"commitment", id>>
  <2>1. /\ commitments[id] # None /\ ~commitments[id].revealed
        /\ commitments' = [commitments EXCEPT ![id].revealed = TRUE]
        /\ published' = [published EXCEPT ![q] = @ + 1]
    BY <1>8 DEF RevealFund
  <2>2. commitments[id] \in CommitmentEntry
    BY <1>5, <2>1
  <2>3. Revealed(id)'
    <3>1. commitments'[id] = [commitments[id] EXCEPT !.revealed = TRUE]
      BY <1>5, <2>1
    <3>2. commitments'[id] \in CommitmentEntry /\ commitments'[id].revealed
      BY <2>2, <3>1 DEF CommitmentEntry
    <3> QED
      BY <1>5, <2>1, <3>2, NoneIsNoEntry DEF Revealed, NoneIsNoEntry
  <2>4. \A j : j # id => (Revealed(j)' <=> Revealed(j))
    BY <1>5, <2>1 DEF Revealed
  <2>5. ~Revealed(id)
    BY <2>1 DEF Revealed
  <2>6. ~Recorded(q)
    BY <2>5 DEF Recorded
  <2>7. \A p \in Payout : p = q <=> p[1] = "commitment" /\ p[2] = id
    BY DEF Payout
  <2> HIDE DEF q
  <2>8. \A p \in Payout : Recorded(p)' <=> Recorded(p) \/ p = q
    BY <1>2, <1>3, <1>4, <2>3, <2>4, <2>7
  <2> QED
    BY <2>1, <2>6, <2>8 DEF Pays, q
<1>9. ASSUME NEW id \in DOMAIN commitments, CancelCommitment(id)
      PROVE  PaysNothing
  <2>1. /\ commitments[id] # None /\ ~commitments[id].revealed
        /\ commitments' = [commitments EXCEPT ![id] = None]
        /\ published' = published
    BY <1>9 DEF CancelCommitment
  <2>2. \A j : Revealed(j)' <=> Revealed(j)
    BY <1>5, <2>1 DEF Revealed
  <2> QED
    BY <1>6, <2>1, <2>2
<1> QED
  BY <1>7, <1>8, <1>9 DEF CommitReveal

(* A payout from another chain marks its pair, a signed message its nonce.   *)
LEMMA CrossChainPays ==
    ASSUME TypeOK, CrossChain
    PROVE  PaysNothing \/ \E q : Pays(q)
<1>1. ASSUME NEW asset, NEW amount,
             FundCrosschainReserve(asset, amount) \/ WithdrawCrosschainReserve(asset, amount)
      PROVE  PaysNothing
  BY <1>1, RecordsStand
  DEF FundCrosschainReserve, WithdrawCrosschainReserve, untouchedByCrossChain
<1>2. ASSUME NEW tx, NEW target, NEW asset, NEW amount, NEW signers,
             FundCAddressCrosschain(tx, target, asset, amount, signers)
      PROVE  Pays(<<"crosschain", tx>>)
  <2> DEFINE q == <<"crosschain", tx>>
  <2>1. /\ tx \notin used_nonces /\ used_nonces' = used_nonces \cup {tx}
        /\ published' = [published EXCEPT ![q] = @ + 1]
        /\ UNCHANGED <<timelocks, commitments, meta>>
    BY <1>2 DEF FundCAddressCrosschain, MarkNonceUsed, untouchedByCrossChain
  <2>2. \A p \in Payout : p = q <=> p[1] = "crosschain" /\ p[2] = tx
    BY DEF Payout
  <2>3. \A p \in Payout : Recorded(p)' <=> Recorded(p) \/ (p[1] = "crosschain" /\ p[2] = tx)
    BY <2>1 DEF Recorded, Claimed, Revealed
  <2>4. ~Recorded(q)
    BY <2>1 DEF Recorded
  <2> QED
    BY <2>1, <2>2, <2>3, <2>4 DEF Pays
<1> QED
  BY <1>1, <1>2 DEF CrossChain

(* execute_meta_fund pays under a nonce it marks; registering a key pays nothing. *)
LEMMA MetaPays ==
    ASSUME TypeOK, MetaFunding
    PROVE  PaysNothing \/ \E q : Pays(q)
<1>1. meta \in [signers : SUBSET Account, used : SUBSET (Account \X MetaNonces)]
  BY DEF TypeOK
<1>2. ASSUME NEW source, RegisterMetaSigner(source) \/ UnregisterMetaSigner(source)
      PROVE  PaysNothing
  <2>1. meta'.used = meta.used
    BY <1>1, <1>2 DEF RegisterMetaSigner, UnregisterMetaSigner
  <2> QED
    BY <1>2, <2>1, RecordsStand DEF RegisterMetaSigner, UnregisterMetaSigner, untouchedBySigned
<1>3. ASSUME NEW source, NEW target, NEW asset, NEW amount, NEW nonce, NEW deadline,
             ExecuteMetaFund(source, target, asset, amount, nonce, deadline)
      PROVE  Pays(<<"meta", <<source, nonce>>>>)
  <2> DEFINE k == <<source, nonce>>
             q == <<"meta", k>>
  <2>1. /\ k \notin meta.used /\ meta' = [meta EXCEPT !.used = @ \cup {k}]
        /\ published' = [published EXCEPT ![q] = @ + 1]
        /\ UNCHANGED <<timelocks, commitments, used_nonces>>
    BY <1>3 DEF ExecuteMetaFund, untouchedBySigned
  <2> HIDE DEF k
  <2>2. \A p \in Payout : p = q <=> p[1] = "meta" /\ p[2] = k
    BY DEF Payout
  <2>3. meta'.used = meta.used \cup {k}
    BY <1>1, <2>1
  <2>4. \A p \in Payout : Recorded(p)' <=> Recorded(p) \/ (p[1] = "meta" /\ p[2] = k)
    BY <2>1, <2>3 DEF Recorded, Claimed, Revealed
  <2>5. ~Recorded(q)
    BY <2>1 DEF Recorded
  <2>6. Pays(q)
    BY <2>1, <2>2, <2>4, <2>5 DEF Pays
  <2> QED
    BY <2>6 DEF k
<1> QED
  BY <1>2, <1>3 DEF MetaFunding

(* Nothing else pays or records.                                             *)
LEMMA StepPays ==
    ASSUME TypeOK, [Next]_vars
    PROVE  PaysNothing \/ \E q : Pays(q)
<1>1. CASE Funding
  BY <1>1, FundingFrame, RecordsStand DEF untouchedByFunding
<1>2. CASE Registry
  BY <1>2, RegistryFrame, RecordsStand DEF untouchedByCrossChain
<1>3. CASE Administration
  BY <1>3, AdministrationFrame, RecordsStand DEF untouchedByAdmin
<1>4. CASE CloseLedger \/ UNCHANGED vars
  BY <1>4, RecordsStand DEF CloseLedger, vars
<1> QED
  BY <1>1, <1>2, <1>3, <1>4, TimelocksPay, CommitmentsPay, CrossChainPays, MetaPays, StepKinds

(* The property, read payout by payout.                                      *)
LEMMA RecordedPayouts == AsRecorded <=> PaidOnceAsRecorded
<1>1. ASSUME NEW id \in 1..MaxTimelocks
      PROVE  /\ <<"timelock", id>> \in Payout
             /\ Recorded(<<"timelock", id>>) <=> id \in DOMAIN timelocks /\ timelocks[id].claimed
  BY DEF Payout, Recorded, Claimed
<1>2. ASSUME NEW id \in 1..MaxCommitments
      PROVE  /\ <<"commitment", id>> \in Payout
             /\ Recorded(<<"commitment", id>>) <=>
                    /\ id \in DOMAIN commitments
                    /\ commitments[id] # None
                    /\ commitments[id].revealed
  BY DEF Payout, Recorded, Revealed
<1>3. ASSUME NEW tx \in CrossTx
      PROVE  /\ <<"crosschain", tx>> \in Payout
             /\ Recorded(<<"crosschain", tx>>) <=> tx \in used_nonces
  BY DEF Payout, Recorded
<1>4. ASSUME NEW k \in Account \X MetaNonces
      PROVE  <<"meta", k>> \in Payout /\ (Recorded(<<"meta", k>>) <=> k \in meta.used)
  BY DEF Payout, Recorded
<1>5. ASSUME NEW p \in Payout
      PROVE  \/ \E id \in 1..MaxTimelocks : p = <<"timelock", id>>
             \/ \E id \in 1..MaxCommitments : p = <<"commitment", id>>
             \/ \E tx \in CrossTx : p = <<"crosschain", tx>>
             \/ \E k \in Account \X MetaNonces : p = <<"meta", k>>
  BY DEF Payout
<1> HIDE DEF Recorded
<1>6. AsRecorded => PaidOnceAsRecorded
  BY <1>1, <1>2, <1>3, <1>4 DEF AsRecorded, PaidOnceAsRecorded
<1>7. PaidOnceAsRecorded => AsRecorded
  <2> SUFFICES ASSUME PaidOnceAsRecorded, NEW p \in Payout
               PROVE  published[p] = IF Recorded(p) THEN 1 ELSE 0
    BY DEF AsRecorded
  <2> QED
    BY <1>1, <1>2, <1>3, <1>4, <1>5 DEF PaidOnceAsRecorded
<1> QED
  BY <1>6, <1>7

(* No timelock, commitment, (chain, tx) pair or signed nonce is ever paid    *)
(* twice, and its record tells exactly whether it was paid.                  *)
THEOREM BridgePaysOnce == Spec => []PaidOnceAsRecorded
<1>1. Init => AsRecorded
  BY DEF Init, AsRecorded, Recorded, Claimed, Revealed
<1>2. TypeOK /\ AsRecorded /\ [Next]_vars => AsRecorded'
  BY StepPays, PayingOnce
<1>3. AsRecorded => PaidOnceAsRecorded
  BY RecordedPayouts
<1> QED
  BY <1>1, <1>2, <1>3, BridgeTypeCorrect, PTL DEF Spec
=============================================================================
