--------------------------- MODULE BridgeFlowProofs ---------------------------
(* What one call of the contract takes, charges and pays, for every set of   *)
(* accounts, assets and amounts.                                             *)
EXTENDS BridgeSafetyProofs

-----------------------------------------------------------------------------
(* What a step does to the counters.                                         *)

(* A step counts fees and net amounts of one asset, within its cap.          *)
ChargedTo(ctr) ==
    \E asset \in Asset, accrued \in Nat, fees \in Nat, bridged \in Int :
        /\ counters' = AddFees(ctr, asset, accrued, fees, bridged)
        /\ fees * FEE_DENOMINATOR <= fee_cap[asset] * (fees + bridged)

(* calculate_fee at a rate within the cap charges within the cap.            *)
LEMMA FeeWithinCap ==
    ASSUME NEW amount \in Nat, NEW cap \in Nat, NEW rate \in 0..FEE_DENOMINATOR, rate <= cap
    PROVE  /\ CalculateFee(amount, rate) \in 0..amount
           /\ CalculateFee(amount, rate) * FEE_DENOMINATOR <= amount * cap
           /\ CalculateFee(amount, rate) * FEE_DENOMINATOR <= cap * amount
<1> DEFINE p == amount * rate
           q == p \div FEE_DENOMINATOR
<1>1. FEE_DENOMINATOR \in Nat \ {0}
  BY FeeConstants DEF FeeConstants
<1>2. q \in 0..amount
  BY FeeBounds DEF CalculateFee
<1>3. p \in Nat
  OBVIOUS
<1>4. q * FEE_DENOMINATOR <= p
  <2> HIDE DEF p
  <2> QED
    BY <1>1, <1>3
<1>5. p <= amount * cap
  OBVIOUS
<1>6. amount * cap = cap * amount
  OBVIOUS
<1>7. q * FEE_DENOMINATOR <= amount * cap
  <2>1. q * FEE_DENOMINATOR \in Int /\ amount * cap \in Int
    BY <1>1, <1>2
  <2> HIDE DEF p, q
  <2> QED
    BY <1>3, <1>4, <1>5, <2>1
<1> QED
  BY <1>2, <1>6, <1>7 DEF CalculateFee

(* Both rates that the entry points charge are within the cap of the asset.  *)
LEMMA RatesWithinCap ==
    ASSUME TypeOK, NEW source \in Account, NEW asset \in Asset
    PROVE  /\ fee_cap[asset] \in Nat
           /\ TieredRate(source, asset) <= fee_cap[asset]
           /\ FlatRate(asset) <= fee_cap[asset]
<1>1. /\ fee_cap[asset] \in 0..MAX_FEE_BPS /\ config.fee_bps \in 0..MAX_FEE_BPS
      /\ config.fee_tiers \in Seq(FeeTier)
  BY DEF TypeOK, Config
<1>2. usage[source][asset].volume \in Int
  BY FeeConstants DEF TypeOK, SourceUsage, I128, FeeConstants
<1>3. TieredFeeBps(config.fee_tiers, usage[source][asset].volume, config.fee_bps)
          \in 0..MAX_FEE_BPS
  BY <1>1, <1>2, TierBounds
<1>4. MAX_FEE_BPS \in Nat
  BY FeeConstants DEF FeeConstants
<1> DEFINE tiered == TieredFeeBps(config.fee_tiers, usage[source][asset].volume, config.fee_bps)
           cap == fee_cap[asset]
<1>5. tiered \in Int /\ cap \in Nat /\ config.fee_bps \in Int
  BY <1>1, <1>3, <1>4
<1>6. TieredRate(source, asset) = Lesser(tiered, cap)
  BY DEF TieredRate, EffectiveFeeBps
<1>7. FlatRate(asset) = Lesser(config.fee_bps, cap)
  BY DEF FlatRate, EffectiveFeeBps
<1> HIDE DEF tiered, cap
<1>8. TieredRate(source, asset) <= cap /\ FlatRate(asset) <= cap
  BY <1>5, <1>6, <1>7 DEF Lesser
<1> QED
  BY <1>5, <1>8 DEF cap

(* fund_c_address, reveal_fund and execute_meta_fund.                        *)
LEMMA DeliverCharges ==
    ASSUME TypeOK, NEW source \in Account, NEW target, NEW asset \in Asset,
           NEW amount \in Int, CheckAmount(amount), Deliver(source, target, asset, amount)
    PROVE  ChargedTo(counters)
<1> DEFINE rate == TieredRate(source, asset)
           fee == CalculateFee(amount, rate)
<1>1. amount \in Nat
  BY DEF CheckAmount
<1>2. counters' = AddFees(counters, asset, fee, fee, amount - fee)
  BY DEF Deliver
<1>3. fee \in 0..amount /\ fee * FEE_DENOMINATOR <= fee_cap[asset] * amount
  <2>1. rate \in 0..FEE_DENOMINATOR /\ rate <= fee_cap[asset] /\ fee_cap[asset] \in Nat
    BY RatesTyped, RatesWithinCap
  <2> HIDE DEF rate
  <2> QED
    BY <1>1, <2>1, FeeWithinCap
<1> HIDE DEF fee
<1>4. fee \in Nat /\ amount - fee \in Int /\ fee + (amount - fee) = amount
  BY <1>1, <1>3
<1> QED
  BY <1>2, <1>3, <1>4 DEF ChargedTo

(* fund_c_address_with_referral: the referrer's share is part of the fee.    *)
LEMMA ReferralCharges ==
    ASSUME TypeOK, NEW source \in Account, NEW target, NEW referrer, NEW asset \in Asset,
           NEW amount \in Int, NEW opt,
           FundCAddressWithReferral(source, target, referrer, asset, amount, opt)
    PROVE  ChargedTo(counters)
<1> DEFINE rate == TieredRate(source, asset)
           fee == CalculateFee(amount, rate)
           share == IF referrer = None THEN 0 ELSE CalculateFee(fee, config.referral_rate)
<1>1. amount \in Nat
  BY DEF FundCAddressWithReferral, CheckAmount
<1>2. counters' = AddFees(counters, asset, fee - share, fee, amount - fee)
  BY DEF FundCAddressWithReferral
<1>3. fee \in 0..amount /\ fee * FEE_DENOMINATOR <= fee_cap[asset] * amount
  <2>1. rate \in 0..FEE_DENOMINATOR /\ rate <= fee_cap[asset] /\ fee_cap[asset] \in Nat
    BY RatesTyped, RatesWithinCap
  <2> HIDE DEF rate
  <2> QED
    BY <1>1, <2>1, FeeWithinCap
<1> HIDE DEF fee
<1>4. share \in 0..fee
  <2>1. config.referral_rate \in 0..FEE_DENOMINATOR /\ fee \in Nat
    BY <1>1, <1>3 DEF TypeOK, Config
  <2>2. CalculateFee(fee, config.referral_rate) \in 0..fee
    BY <2>1, FeeBounds
  <2> QED
    BY <2>1, <2>2
<1> HIDE DEF share
<1>5. /\ fee \in Nat /\ fee - share \in Nat /\ amount - fee \in Int
      /\ fee + (amount - fee) = amount
  BY <1>1, <1>3, <1>4
<1> QED
  BY <1>2, <1>3, <1>5 DEF ChargedTo

(* The terms that the batch loop adds up are integers, each fee within its   *)
(* amount.                                                                   *)
LEMMA BatchTerms ==
    ASSUME NEW batch \in Batches, NEW rate \in 0..FEE_DENOMINATOR,
           \A i \in DOMAIN batch : CheckAmount(batch[i].amount)
    PROVE  /\ DOMAIN batch = 1..Len(batch) /\ Len(batch) \in Nat
           /\ \A i \in DOMAIN batch :
                 /\ batch[i].target \in Targets /\ batch[i].amount \in Nat
                 /\ CalculateFee(batch[i].amount, rate) \in 0..batch[i].amount
<1> DEFINE Entry == [target : Targets, amount : Int]
<1>1. batch \in Seq(Entry)
  BY StateConstants DEF StateConstants
<1>2. ASSUME NEW i \in DOMAIN batch
      PROVE  /\ batch[i].target \in Targets /\ batch[i].amount \in Nat
             /\ CalculateFee(batch[i].amount, rate) \in 0..batch[i].amount
  <2>1. batch[i] \in Entry
    <3> HIDE DEF Entry
    <3> QED
      BY <1>1
  <2>2. batch[i].target \in Targets /\ batch[i].amount \in Nat
    BY <2>1 DEF CheckAmount
  <2> QED
    BY <2>2, FeeBounds
<1> QED
  BY <1>1, <1>2

(* batch_fund_c_address: each entry is charged within the cap, so the call is. *)
LEMMA BatchCharges ==
    ASSUME TypeOK, NEW source \in Account, NEW batch \in Batches, NEW asset \in Asset,
           NEW opt, BatchFundCAddress(source, batch, asset, opt)
    PROVE  ChargedTo(counters)
<1> DEFINE rate == TieredRate(source, asset)
           delivered == BatchDelivered(batch)
           fees == BatchFees(batch, rate)
           cap == fee_cap[asset]
           small == [i \in DOMAIN batch |-> IF CheckAccess(batch[i].target)
                                            THEN CalculateFee(batch[i].amount, rate) ELSE 0]
           large == [i \in DOMAIN batch |-> IF CheckAccess(batch[i].target)
                                            THEN batch[i].amount ELSE 0]
<1>1. /\ \A i \in DOMAIN batch : CheckAmount(batch[i].amount)
      /\ {delivered, fees} \subseteq 0..I128_MAX
      /\ counters' = AddFees(counters, asset, fees, fees, delivered - fees)
  BY DEF BatchFundCAddress
<1>2. rate \in 0..FEE_DENOMINATOR /\ rate <= cap /\ cap \in Nat
  BY RatesTyped, RatesWithinCap
<1>3. fees = Total(small) /\ delivered = Total(large)
  BY DEF BatchFees, BatchDelivered
<1> HIDE DEF fees, delivered, rate, cap
<1>4. /\ DOMAIN batch = 1..Len(batch) /\ Len(batch) \in Nat
      /\ \A i \in DOMAIN batch :
            /\ batch[i].amount \in Nat
            /\ CalculateFee(batch[i].amount, rate) \in 0..batch[i].amount
  BY <1>1, <1>2, BatchTerms
<1>5. FEE_DENOMINATOR \in Nat \ {0} /\ I128_MAX \in Nat
  BY FeeConstants DEF FeeConstants
<1>6. /\ small \in Seq(Int) /\ large \in Seq(Int)
      /\ Len(small) = Len(batch) /\ Len(large) = Len(batch)
  <2>1. \A i \in 1..Len(batch) : small[i] \in Int /\ large[i] \in Int
    BY <1>4
  <2> QED
    BY <1>4, <2>1
<1>7. ASSUME NEW i \in 1..Len(small)
      PROVE  small[i] * FEE_DENOMINATOR <= large[i] * cap
  <2>1. i \in DOMAIN batch
    BY <1>4, <1>6
  <2>2. CalculateFee(batch[i].amount, rate) * FEE_DENOMINATOR <= batch[i].amount * cap
    BY <1>2, <1>4, <2>1, FeeWithinCap
  <2>3. CASE CheckAccess(batch[i].target)
    BY <2>1, <2>2, <2>3
  <2>4. CASE ~CheckAccess(batch[i].target)
    BY <1>2, <1>5, <2>1, <2>4
  <2> QED
    BY <2>3, <2>4
<1> HIDE DEF small, large
<1>8. Total(small) * FEE_DENOMINATOR <= Total(large) * cap
  <2>1. FEE_DENOMINATOR \in Int /\ cap \in Int /\ Len(small) = Len(large)
    BY <1>2, <1>5, <1>6
  <2> QED
    BY <1>6, <1>7, <2>1, TotalInProportion, Zenon
<1>9. /\ fees \in Nat /\ delivered - fees \in Int /\ fees + (delivered - fees) = delivered
      /\ delivered * cap = cap * delivered
  BY <1>1, <1>2, <1>5
<1>10. fees * FEE_DENOMINATOR <= fee_cap[asset] * (fees + (delivered - fees))
  BY <1>3, <1>8, <1>9 DEF cap
<1> DEFINE bridged == delivered - fees
<1>11. /\ counters' = AddFees(counters, asset, fees, fees, bridged)
       /\ fees * FEE_DENOMINATOR <= fee_cap[asset] * (fees + bridged)
       /\ fees \in Nat /\ bridged \in Int
  BY <1>1, <1>9, <1>10
<1> HIDE DEF bridged
<1> QED
  BY <1>11, Zenon DEF ChargedTo


(* fund_c_address_with_swap charges what the swap yielded.                   *)
LEMMA SwapCharges ==
    ASSUME TypeOK, NEW source \in Account, NEW target, NEW source_asset, 
           NEW target_asset \in Asset, NEW amount, NEW min \in Int, NEW pool,
           NEW received \in Int, NEW opt,
           FundCAddressWithSwap(source, target, source_asset, target_asset, amount, min,
                                pool, received, opt)
    PROVE  ChargedTo(counters)
<1> DEFINE rate == TieredRate(source, target_asset)
           fee == CalculateFee(received, rate)
<1>1. received \in Nat
  BY DEF FundCAddressWithSwap
<1>2. counters' = AddFees(counters, target_asset, fee, fee, received - fee)
  BY DEF FundCAddressWithSwap
<1>3. fee \in 0..received /\ fee * FEE_DENOMINATOR <= fee_cap[target_asset] * received
  <2>1. /\ rate \in 0..FEE_DENOMINATOR
        /\ rate <= fee_cap[target_asset] /\ fee_cap[target_asset] \in Nat
    BY RatesTyped, RatesWithinCap
  <2> HIDE DEF rate
  <2> QED
    BY <1>1, <2>1, FeeWithinCap
<1> HIDE DEF fee
<1>4. fee \in Nat /\ received - fee \in Int /\ fee + (received - fee) = received
  BY <1>1, <1>3
<1> QED
  BY <1>2, <1>3, <1>4 DEF ChargedTo

(* claim_timelocked: what leaves the locked deposits is charged and counted. *)
LEMMA ClaimCharges ==
    ASSUME TypeOK, NEW id \in DOMAIN timelocks, ClaimTimelocked(id)
    PROVE  /\ timelocks[id].asset \in Asset /\ timelocks[id].amount \in Nat
           /\ ChargedTo(LockTimelock(counters, timelocks[id].asset, -timelocks[id].amount))
<1> DEFINE asset == timelocks[id].asset
           amount == timelocks[id].amount
           rate == FlatRate(asset)
           fee == CalculateFee(amount, rate)
           unlocked == LockTimelock(counters, asset, -amount)
<1>1. counters' = AddFees(unlocked, asset, fee, fee, amount - fee)
  BY DEF ClaimTimelocked
<1>2. asset \in Asset /\ amount \in Nat /\ timelocks[id].source \in Account
  <2>1. timelocks[id] \in TimelockEntry
    BY DEF TypeOK
  <2>2. amount \in 1..I128_MAX /\ asset \in Asset /\ timelocks[id].source \in Account
    BY <2>1 DEF TimelockEntry
  <2> HIDE DEF amount, asset
  <2> QED
    BY <2>2, FeeConstants DEF FeeConstants
<1> HIDE DEF amount, asset, unlocked
<1>3. fee \in 0..amount /\ fee * FEE_DENOMINATOR <= fee_cap[asset] * amount
  <2>1. rate \in 0..FEE_DENOMINATOR /\ rate <= fee_cap[asset] /\ fee_cap[asset] \in Nat
    BY <1>2, RatesTyped, RatesWithinCap
  <2> HIDE DEF rate
  <2> QED
    BY <1>2, <2>1, FeeWithinCap
<1> HIDE DEF fee
<1>4. fee \in Nat /\ amount - fee \in Int /\ fee + (amount - fee) = amount
  BY <1>2, <1>3
<1>5. ChargedTo(unlocked)
  BY <1>1, <1>2, <1>3, <1>4 DEF ChargedTo
<1> QED
  BY <1>2, <1>5 DEF asset, amount, unlocked

(* fund_c_address_crosschain counts what it pays and charges nothing to the  *)
(* counters: its fee stays in the reserve.                                   *)
LEMMA CrosschainCharges ==
    ASSUME TypeOK, NEW tx, NEW target \in Account, NEW asset \in Asset, NEW amount \in Int,
           NEW signers, FundCAddressCrosschain(tx, target, asset, amount, signers)
    PROVE  ChargedTo(counters)
<1> DEFINE rate == FlatRate(asset)
           fee == CalculateFee(amount, rate)
           net == amount - fee
<1>1. amount \in Nat
  BY DEF FundCAddressCrosschain, CheckAmount
<1>2. counters' = AddFees(counters, asset, 0, 0, net)
  BY DEF FundCAddressCrosschain
<1>3. rate \in 0..FEE_DENOMINATOR /\ fee_cap[asset] \in Nat
  BY RatesTyped, RatesWithinCap
<1>4. fee \in 0..amount
  <2> HIDE DEF rate
  <2> QED
    BY <1>1, <1>3, FeeBounds
<1> HIDE DEF fee
<1>5. net \in Nat
  BY <1>1, <1>4
<1> HIDE DEF net
<1>6. 0 * FEE_DENOMINATOR <= fee_cap[asset] * (0 + net)
  <2>1. fee_cap[asset] * net >= 0 /\ 0 + net = net /\ 0 * FEE_DENOMINATOR = 0
    BY <1>3, <1>5, FeeConstants DEF FeeConstants
  <2> QED
    BY <2>1
<1> QED
  BY <1>2, <1>5, <1>6 DEF ChargedTo

(* The five ways a step can treat the counters. Only a deposit and a claim   *)
(* touch the timelocks.                                                      *)
LEMMA CounterSteps ==
    ASSUME TypeOK, [Next]_vars
    PROVE  \/ counters' = counters /\ timelocks' = timelocks
           \/ ChargedTo(counters) /\ timelocks' = timelocks
           \/ \E asset \in Asset, amount \in Amounts, opt \in CallOptions :
                 WithdrawFees(asset, amount, opt) /\ timelocks' = timelocks
           \/ \E source \in Sources, target \in Targets, asset \in Asset, amount \in Amounts,
                 release_time \in Times, opt \in CallOptions :
                 FundCAddressTimelocked(source, target, asset, amount, release_time, opt)
           \/ \E id \in DOMAIN timelocks : ClaimTimelocked(id)
<1>1. /\ Sources \subseteq Account /\ Targets \subseteq Account /\ Amounts \subseteq Int
      /\ Times \subseteq Nat
  BY StateConstants DEF StateConstants
<1>2. CASE DirectFunding
  <2>1. ASSUME NEW source \in Sources, NEW target \in Targets, NEW asset \in Asset,
               NEW amount \in Amounts, NEW opt, FundCAddress(source, target, asset, amount, opt)
        PROVE  ChargedTo(counters)
    BY <1>1, <2>1, DeliverCharges DEF FundCAddress
  <2>2. ASSUME NEW source \in Sources, NEW target \in Targets, NEW referrer,
               NEW asset \in Asset, NEW amount \in Amounts, NEW opt,
               FundCAddressWithReferral(source, target, referrer, asset, amount, opt)
        PROVE  ChargedTo(counters)
    BY <1>1, <2>2, ReferralCharges
  <2>3. ASSUME NEW source \in Sources, NEW batch \in Batches, NEW asset \in Asset, NEW opt,
               BatchFundCAddress(source, batch, asset, opt)
        PROVE  ChargedTo(counters)
    BY <1>1, <2>3, BatchCharges
  <2>4. timelocks' = timelocks
    BY <1>2, FundingFrame DEF Funding, untouchedByFunding
  <2> QED
    BY <1>2, <2>1, <2>2, <2>3, <2>4 DEF DirectFunding
<1>3. CASE SwapFunding
  <2>1. ASSUME NEW source \in Sources, NEW target \in Targets, NEW opt,
               NEW source_asset \in Asset, NEW target_asset \in Asset, NEW amount \in Amounts,
               NEW received \in Amounts, NEW pool, NEW min \in Amounts,
               FundCAddressWithSwap(source, target, source_asset, target_asset, amount, min,
                                    pool, received, opt)
        PROVE  ChargedTo(counters)
    BY <1>1, <2>1, SwapCharges
  <2>2. timelocks' = timelocks
    BY <1>3, FundingFrame DEF Funding, untouchedByFunding
  <2> QED
    BY <1>3, <2>1, <2>2 DEF SwapFunding
<1>4. CASE OperatorTransfer \/ StrayTransfer
  <2>1. timelocks' = timelocks
    BY <1>4, FundingFrame DEF Funding, untouchedByFunding
  <2> QED
    BY <1>4, <2>1 DEF OperatorTransfer, StrayTransfer, ReclaimTokens, SendToBridge
<1>5. CASE Timelocks
  BY <1>5 DEF Timelocks
<1>6. CASE CrossChain
  <2>1. timelocks' = timelocks
    BY <1>6, CrossChainFrame DEF untouchedByCrossChain
  <2>2. ASSUME NEW tx, NEW target \in Targets, NEW asset \in Asset, NEW amount \in Amounts,
               NEW signers, FundCAddressCrosschain(tx, target, asset, amount, signers)
        PROVE  ChargedTo(counters)
    BY <1>1, <2>2, CrosschainCharges
  <2>3. ASSUME NEW asset, NEW amount,
               FundCrosschainReserve(asset, amount) \/ WithdrawCrosschainReserve(asset, amount)
        PROVE  counters' = counters
    BY <2>3 DEF FundCrosschainReserve, WithdrawCrosschainReserve
  <2> QED
    BY <1>6, <2>1, <2>2, <2>3 DEF CrossChain
<1>7. CASE Registry
  BY <1>7, RegistryFrame DEF fundVars, untouchedByCrossChain
<1>8. CASE CommitReveal
  <2>1. timelocks' = timelocks
    BY <1>8, SignedFrame DEF untouchedBySigned
  <2>2. ASSUME NEW id \in DOMAIN commitments, NEW amount \in Amounts, RevealFund(id, amount)
        PROVE  ChargedTo(counters)
    <3> DEFINE entry == commitments[id]
    <3>1. /\ entry # None /\ CheckAmount(amount)
          /\ Deliver(entry.source, entry.target, entry.asset, amount)
      BY <2>2 DEF RevealFund
    <3>2. entry \in CommitmentEntry
      BY <3>1 DEF TypeOK
    <3>3. entry.source \in Account /\ entry.asset \in Asset /\ amount \in Int
      BY <1>1, <3>2 DEF CommitmentEntry
    <3> HIDE DEF entry
    <3> QED
      BY <3>1, <3>3, DeliverCharges
  <2>3. ASSUME NEW source, NEW target, NEW asset, NEW amount, NEW deadline,
               CommitFund(source, target, asset, amount, deadline)
        PROVE  counters' = counters
    BY <2>3 DEF CommitFund
  <2>4. ASSUME NEW id, CancelCommitment(id)
        PROVE  counters' = counters
    BY <2>4 DEF CancelCommitment
  <2> QED
    BY <1>8, <2>1, <2>2, <2>3, <2>4 DEF CommitReveal
<1>9. CASE MetaFunding
  <2>1. timelocks' = timelocks
    BY <1>9, SignedFrame DEF untouchedBySigned
  <2>2. ASSUME NEW source \in Sources, NEW target \in Targets, NEW asset \in Asset,
               NEW amount \in Amounts, NEW nonce, NEW deadline,
               ExecuteMetaFund(source, target, asset, amount, nonce, deadline)
        PROVE  ChargedTo(counters)
    BY <1>1, <2>2, DeliverCharges DEF ExecuteMetaFund
  <2>3. ASSUME NEW source, RegisterMetaSigner(source) \/ UnregisterMetaSigner(source)
        PROVE  counters' = counters
    BY <2>3 DEF RegisterMetaSigner, UnregisterMetaSigner
  <2> QED
    BY <1>9, <2>1, <2>2, <2>3 DEF MetaFunding
<1>10. CASE Administration
  BY <1>10, AdministrationFrame DEF untouchedByAdmin, fundVars
<1>11. CASE CloseLedger \/ UNCHANGED vars
  BY <1>11 DEF CloseLedger, vars
<1> QED
  BY <1>2, <1>3, <1>4, <1>5, <1>6, <1>7, <1>8, <1>9, <1>10, <1>11, StepKinds DEF Funding


-----------------------------------------------------------------------------
(* Fees.                                                                     *)

(* Counters whatever the width of their values.                              *)
Tally == [accrued_fees : Int, total_bridged : Int, total_fees_collected : Int,
          locked_timelock : Int]

(* The stored counters are such.                                             *)
LEMMA CountersTally ==
    ASSUME TypeOK
    PROVE  counters \in [Asset -> Tally]
  BY FeeConstants DEF TypeOK, Tally, Counters, I128, FeeConstants

(* update_asset_counters_split, field by field.                              *)
LEMMA AddFeesFields ==
    ASSUME NEW ctr \in [Asset -> Tally], NEW asset \in Asset, NEW accrued \in Int,
           NEW fees \in Int, NEW bridged \in Int
    PROVE  LET new == AddFees(ctr, asset, accrued, fees, bridged)
           IN  /\ new \in [Asset -> Tally]
               /\ \A a \in Asset :
                     /\ new[a].locked_timelock = ctr[a].locked_timelock
                     /\ a # asset => new[a] = ctr[a]
               /\ new[asset].accrued_fees = ctr[asset].accrued_fees + accrued
               /\ new[asset].total_bridged = ctr[asset].total_bridged + bridged
               /\ new[asset].total_fees_collected = ctr[asset].total_fees_collected + fees
<1> DEFINE new == AddFees(ctr, asset, accrued, fees, bridged)
           old == ctr[asset]
           row == [old EXCEPT !.accrued_fees = @ + accrued, !.total_bridged = @ + bridged,
                              !.total_fees_collected = @ + fees]
<1>1. new = [ctr EXCEPT ![asset] = row]
  BY DEF AddFees, Tally
<1>2. old \in Tally
  OBVIOUS
<1>3. /\ row \in Tally
      /\ row.locked_timelock = old.locked_timelock
      /\ row.accrued_fees = old.accrued_fees + accrued
      /\ row.total_bridged = old.total_bridged + bridged
      /\ row.total_fees_collected = old.total_fees_collected + fees
  <2>1. row = [old EXCEPT !.accrued_fees = @ + accrued, !.total_bridged = @ + bridged,
                          !.total_fees_collected = @ + fees]
    OBVIOUS
  <2> HIDE DEF old, row
  <2>2. row = [accrued_fees |-> old.accrued_fees + accrued,
               total_bridged |-> old.total_bridged + bridged,
               total_fees_collected |-> old.total_fees_collected + fees,
               locked_timelock |-> old.locked_timelock]
    BY <1>2, <2>1 DEF Tally
  <2> QED
    BY <1>2, <2>2 DEF Tally
<1> HIDE DEF new, row
<1>4. new \in [Asset -> Tally] /\ new[asset] = row /\ \A a \in Asset : a # asset => new[a] = ctr[a]
  BY <1>1, <1>3
<1> QED
  BY <1>3, <1>4 DEF new

(* increment_locked_timelock and decrement_locked_timelock, field by field.  *)
LEMMA LockFields ==
    ASSUME NEW ctr \in [Asset -> Tally], NEW asset \in Asset, NEW amount \in Int
    PROVE  LET new == LockTimelock(ctr, asset, amount)
           IN  /\ new \in [Asset -> Tally]
               /\ \A a \in Asset :
                     /\ new[a].accrued_fees = ctr[a].accrued_fees
                     /\ new[a].total_bridged = ctr[a].total_bridged
                     /\ new[a].total_fees_collected = ctr[a].total_fees_collected
                     /\ new[a].locked_timelock =
                            ctr[a].locked_timelock + (IF a = asset THEN amount ELSE 0)
  BY DEF LockTimelock, Tally

(* withdraw_fees takes what it withdraws off the accrued fees alone.         *)
LEMMA WithdrawFields ==
    ASSUME NEW ctr \in [Asset -> Tally], NEW asset \in Asset, NEW amount \in Int,
           counters' = [ctr EXCEPT ![asset].accrued_fees = @ - amount]
    PROVE  \A a \in Asset :
               /\ counters'[a].total_bridged = ctr[a].total_bridged
               /\ counters'[a].total_fees_collected = ctr[a].total_fees_collected
               /\ counters'[a].locked_timelock = ctr[a].locked_timelock
               /\ counters'[a].accrued_fees =
                      ctr[a].accrued_fees - (IF a = asset THEN amount ELSE 0)
  BY DEF Tally

(* What a charge does, field by field.                                       *)
LEMMA ChargeFields ==
    ASSUME NEW ctr \in [Asset -> Tally], ChargedTo(ctr), TypeOK
    PROVE  \A a \in Asset :
               /\ counters'[a].locked_timelock = ctr[a].locked_timelock
               /\ counters'[a].accrued_fees >= ctr[a].accrued_fees
               /\ LET fees == counters'[a].total_fees_collected - ctr[a].total_fees_collected
                      bridged == counters'[a].total_bridged - ctr[a].total_bridged
                  IN  fees * FEE_DENOMINATOR <= fee_cap[a] * (fees + bridged)
<1>1. PICK asset \in Asset, accrued \in Nat, charged \in Nat, net \in Int :
          /\ counters' = AddFees(ctr, asset, accrued, charged, net)
          /\ charged * FEE_DENOMINATOR <= fee_cap[asset] * (charged + net)
  BY DEF ChargedTo
<1>2. /\ \A a \in Asset : /\ counters'[a].locked_timelock = ctr[a].locked_timelock
                          /\ a # asset => counters'[a] = ctr[a]
      /\ counters'[asset].accrued_fees = ctr[asset].accrued_fees + accrued
      /\ counters'[asset].total_bridged = ctr[asset].total_bridged + net
      /\ counters'[asset].total_fees_collected = ctr[asset].total_fees_collected + charged
  BY <1>1, AddFeesFields
<1> SUFFICES ASSUME NEW a \in Asset
             PROVE  /\ counters'[a].locked_timelock = ctr[a].locked_timelock
                    /\ counters'[a].accrued_fees >= ctr[a].accrued_fees
                    /\ LET fees == counters'[a].total_fees_collected
                                       - ctr[a].total_fees_collected
                           bridged == counters'[a].total_bridged - ctr[a].total_bridged
                       IN  fees * FEE_DENOMINATOR <= fee_cap[a] * (fees + bridged)
  OBVIOUS
<1> DEFINE fees == counters'[a].total_fees_collected - ctr[a].total_fees_collected
           bridged == counters'[a].total_bridged - ctr[a].total_bridged
<1>3. /\ ctr[a].accrued_fees \in Int /\ ctr[a].total_bridged \in Int
      /\ ctr[a].total_fees_collected \in Int
  BY DEF Tally
<1>4. CASE a = asset
  <2>1. fees = charged /\ bridged = net
    BY <1>2, <1>3, <1>4
  <2>2. counters'[a].accrued_fees >= ctr[a].accrued_fees
    BY <1>2, <1>3, <1>4
  <2> HIDE DEF fees, bridged
  <2>3. fees * FEE_DENOMINATOR <= fee_cap[a] * (fees + bridged)
    BY <1>1, <1>4, <2>1
  <2> QED
    BY <1>2, <2>2, <2>3 DEF fees, bridged
<1>5. CASE a # asset
  <2>1. fees = 0 /\ bridged = 0 /\ counters'[a].accrued_fees = ctr[a].accrued_fees
    BY <1>2, <1>3, <1>5
  <2> HIDE DEF fees, bridged
  <2>2. fees * FEE_DENOMINATOR <= fee_cap[a] * (fees + bridged)
    <3>1. fee_cap[a] \in Int
      BY FeeConstants DEF TypeOK, FeeConstants
    <3> QED
      BY <2>1, <3>1, FeeConstants DEF FeeConstants
  <2> QED
    BY <1>2, <1>3, <2>1, <2>2 DEF fees, bridged
<1> QED
  BY <1>4, <1>5


(* No call charges more than the cap of the asset, through tiers, referral   *)
(* shares, batches and late claims.                                          *)
THEOREM BridgeFeesWithinCap == Spec => FeesWithinCap
<1> DEFINE Within(a) ==
             LET fees == counters'[a].total_fees_collected - counters[a].total_fees_collected
                 bridged == counters'[a].total_bridged - counters[a].total_bridged
             IN  fees * FEE_DENOMINATOR <= fee_cap[a] * (fees + bridged)
<1>1. ASSUME TypeOK, [Next]_vars, NEW a \in Asset
      PROVE  Within(a)
  <2>1. counters \in [Asset -> Tally]
    BY <1>1, CountersTally
  <2>2. /\ counters[a].total_fees_collected \in Int /\ counters[a].total_bridged \in Int
        /\ fee_cap[a] \in Int
    BY <1>1, <2>1, FeeConstants DEF Tally, TypeOK, FeeConstants
  <2>3. ASSUME counters'[a].total_fees_collected = counters[a].total_fees_collected,
               counters'[a].total_bridged = counters[a].total_bridged
        PROVE  Within(a)
    BY <2>2, <2>3, FeeConstants DEF FeeConstants
  <2>4. CASE ChargedTo(counters)
    BY <1>1, <2>1, <2>4, ChargeFields
  <2>5. ASSUME NEW asset \in Asset, NEW amount \in Amounts, NEW opt,
               WithdrawFees(asset, amount, opt)
        PROVE  Within(a)
    <3>1. counters' = [counters EXCEPT ![asset].accrued_fees = @ - amount] /\ amount \in Int
      BY <2>5, StateConstants DEF WithdrawFees, StateConstants
    <3> QED
      BY <2>1, <2>3, <3>1, WithdrawFields
  <2>6. ASSUME NEW source, NEW target, NEW asset \in Asset, NEW amount \in Amounts,
               NEW release_time, NEW opt,
               FundCAddressTimelocked(source, target, asset, amount, release_time, opt)
        PROVE  Within(a)
    <3>1. counters' = LockTimelock(counters, asset, amount) /\ amount \in Int
      BY <2>6, StateConstants DEF FundCAddressTimelocked, StateConstants
    <3> QED
      BY <2>1, <2>3, <3>1, LockFields
  <2>7. ASSUME NEW id \in DOMAIN timelocks, ClaimTimelocked(id)
        PROVE  Within(a)
    <3> DEFINE asset == timelocks[id].asset
               amount == timelocks[id].amount
               unlocked == LockTimelock(counters, asset, -amount)
    <3>1. asset \in Asset /\ amount \in Nat /\ ChargedTo(unlocked)
      BY <1>1, <2>7, ClaimCharges
    <3> HIDE DEF asset, amount
    <3>2. /\ unlocked \in [Asset -> Tally]
          /\ unlocked[a].total_fees_collected = counters[a].total_fees_collected
          /\ unlocked[a].total_bridged = counters[a].total_bridged
      <4>1. -amount \in Int
        BY <3>1
      <4> QED
        BY <2>1, <3>1, <4>1, LockFields
    <3> HIDE DEF unlocked
    <3>3. LET fees == counters'[a].total_fees_collected - unlocked[a].total_fees_collected
              bridged == counters'[a].total_bridged - unlocked[a].total_bridged
          IN  fees * FEE_DENOMINATOR <= fee_cap[a] * (fees + bridged)
      BY <1>1, <3>1, <3>2, ChargeFields
    <3> QED
      BY <3>2, <3>3
  <2>8. CASE counters' = counters
    BY <2>3, <2>8
  <2> QED
    BY <1>1, <2>4, <2>5, <2>6, <2>7, <2>8, CounterSteps
<1>2. TypeOK /\ [Next]_vars => \A a \in Asset : Within(a)
  BY <1>1
<1> QED
  BY <1>2, BridgeTypeCorrect, PTL DEF Spec, FeesWithinCap

(* Accrued fees leave the accounting only in withdraw_fees, which hands them *)
(* to the collector of that moment to the last unit.                         *)
THEOREM BridgeFeesLeaveToCollector == Spec => FeesLeaveToCollector
<1> DEFINE Leaves(a) == counters'[a].accrued_fees < counters[a].accrued_fees
           Received(a) == balance'[a][config.fee_collector] - balance[a][config.fee_collector]
                              = counters[a].accrued_fees - counters'[a].accrued_fees
<1>1. ASSUME TypeOK, TypeOK', [Next]_vars, NEW a \in Asset, Leaves(a)
      PROVE  Received(a)
  <2>1. counters \in [Asset -> Tally]
    BY <1>1, CountersTally
  <2>2. counters[a].accrued_fees \in Int
    BY <2>1 DEF Tally
  <2>3. counters'[a].accrued_fees \in Int
    BY <1>1, FeeConstants DEF TypeOK, Counters, FeeConstants
  <2>4. ~ChargedTo(counters)
    BY <1>1, <2>1, <2>2, <2>3, ChargeFields
  <2>5. ASSUME NEW asset \in Asset, NEW amount \in Amounts, NEW opt,
               WithdrawFees(asset, amount, opt)
        PROVE  Received(a)
    <3> DEFINE collector == config.fee_collector
    <3>1. /\ counters' = [counters EXCEPT ![asset].accrued_fees = @ - amount]
          /\ balance' = Transfer(balance, asset, Bridge, collector, amount)
          /\ amount \in Int
      BY <2>5, StateConstants DEF WithdrawFees, StateConstants
    <3>2. counters'[a].accrued_fees =
              counters[a].accrued_fees - (IF a = asset THEN amount ELSE 0)
      BY <2>1, <3>1, WithdrawFields
    <3>3. a = asset
      BY <1>1, <2>2, <3>2
    <3>4. /\ collector \in Account /\ collector # Bridge
          /\ balance \in [Asset -> [Holder -> 0..I128_MAX]]
      BY <1>1, StateConstants DEF TypeOK, Config, StateConstants
    <3>5. balance[a][collector] \in Int
      BY <3>4 DEF Holder
    <3>6. balance'[a][collector] = balance[a][collector] + amount
      BY <3>1, <3>3, <3>4 DEF Transfer, Holder
    <3> QED
      BY <2>2, <3>1, <3>2, <3>3, <3>5, <3>6
  <2>6. ~ \E source \in Sources, target \in Targets, asset \in Asset, amount \in Amounts,
             release_time \in Times, opt \in CallOptions :
             FundCAddressTimelocked(source, target, asset, amount, release_time, opt)
    <3>1. ASSUME NEW source, NEW target, NEW asset \in Asset, NEW amount \in Amounts,
                 NEW release_time, NEW opt,
                 FundCAddressTimelocked(source, target, asset, amount, release_time, opt)
          PROVE  counters'[a].accrued_fees = counters[a].accrued_fees
      <4>1. counters' = LockTimelock(counters, asset, amount) /\ amount \in Int
        BY <3>1, StateConstants DEF FundCAddressTimelocked, StateConstants
      <4> QED
        BY <2>1, <4>1, LockFields
    <3> QED
      BY <1>1, <2>2, <3>1
  <2>7. ~ \E id \in DOMAIN timelocks : ClaimTimelocked(id)
    <3>1. ASSUME NEW id \in DOMAIN timelocks, ClaimTimelocked(id)
          PROVE  counters'[a].accrued_fees >= counters[a].accrued_fees
      <4> DEFINE asset == timelocks[id].asset
                 amount == timelocks[id].amount
                 unlocked == LockTimelock(counters, asset, -amount)
      <4>1. asset \in Asset /\ amount \in Nat /\ ChargedTo(unlocked)
        BY <1>1, <3>1, ClaimCharges
      <4> HIDE DEF asset, amount
      <4>2. /\ unlocked \in [Asset -> Tally]
            /\ unlocked[a].accrued_fees = counters[a].accrued_fees
        <5>1. -amount \in Int
          BY <4>1
        <5> QED
          BY <2>1, <4>1, <5>1, LockFields
      <4> HIDE DEF unlocked
      <4> QED
        BY <1>1, <4>1, <4>2, ChargeFields
    <3> QED
      BY <1>1, <2>2, <2>3, <3>1
  <2> QED
    BY <1>1, <2>2, <2>4, <2>5, <2>6, <2>7, CounterSteps
<1>2. TypeOK /\ TypeOK' /\ [Next]_vars => \A a \in Asset : Leaves(a) => Received(a)
  BY <1>1
<1> QED
  BY <1>2, BridgeTypeCorrect, PTL DEF Spec, FeesLeaveToCollector


-----------------------------------------------------------------------------
(* Locked deposits.                                                          *)

(* What each entry still locks of an asset.                                  *)
Open(entries, a) ==
    [i \in DOMAIN entries |->
        IF entries[i].asset = a /\ ~entries[i].claimed THEN entries[i].amount ELSE 0]

(* The entries lock integers.                                                *)
LEMMA OpenTyped ==
    ASSUME NEW entries \in Seq(TimelockEntry), NEW a
    PROVE  /\ Open(entries, a) \in Seq(Int)
           /\ Len(Open(entries, a)) = Len(entries)
<1>1. ASSUME NEW i \in DOMAIN entries
      PROVE  entries[i].amount \in Int
  <2>1. entries[i] \in TimelockEntry
    <3> HIDE DEF TimelockEntry
    <3> QED
      OBVIOUS
  <2> QED
    BY <2>1, FeeConstants DEF TimelockEntry, FeeConstants
<1>2. DOMAIN entries = 1..Len(entries) /\ Len(entries) \in Nat
  OBVIOUS
<1>3. \A i \in 1..Len(entries) :
          (IF entries[i].asset = a /\ ~entries[i].claimed THEN entries[i].amount ELSE 0) \in Int
  BY <1>1, <1>2
<1> QED
  BY <1>2, <1>3 DEF Open

(* A new entry locks its amount.                                             *)
LEMMA OpenAppend ==
    ASSUME NEW entries \in Seq(TimelockEntry), NEW a, NEW entry \in TimelockEntry, ~entry.claimed
    PROVE  Total(Open(Append(entries, entry), a)) =
               Total(Open(entries, a)) + (IF entry.asset = a THEN entry.amount ELSE 0)
<1> DEFINE x == IF entry.asset = a THEN entry.amount ELSE 0
           n == Len(entries)
           old == Open(entries, a)
           new == Open(Append(entries, entry), a)
<1>1. x \in Int
  BY FeeConstants DEF TimelockEntry, FeeConstants
<1>2. n \in Nat /\ old \in Seq(Int) /\ Len(old) = n
  BY OpenTyped
<1>3. Append(entries, entry) \in Seq(TimelockEntry) /\ Len(Append(entries, entry)) = n + 1
  OBVIOUS
<1>4. new \in Seq(Int) /\ Len(new) = n + 1
  BY <1>3, OpenTyped
<1>5. ASSUME NEW i \in 1..(n + 1)
      PROVE  new[i] = Append(old, x)[i]
  <2>1. CASE i = n + 1
    <3>1. Append(entries, entry)[i] = entry
      BY <2>1
    <3>2. Append(old, x)[i] = x
      BY <1>2, <2>1
    <3>3. i \in DOMAIN Append(entries, entry)
      BY <1>3
    <3> QED
      BY <3>1, <3>2, <3>3 DEF Open
  <2>2. CASE i # n + 1
    <3>1. i \in 1..n
      BY <1>2, <2>2
    <3>2. Append(entries, entry)[i] = entries[i]
      BY <3>1
    <3>3. Append(old, x)[i] = old[i]
      BY <1>2, <3>1
    <3>4. i \in DOMAIN Append(entries, entry) /\ i \in DOMAIN entries
      BY <1>3, <3>1
    <3> QED
      BY <3>2, <3>3, <3>4 DEF Open
  <2> QED
    BY <2>1, <2>2
<1>6. new = Append(old, x)
  <2> HIDE DEF new, old, x
  <2>1. Append(old, x) \in Seq(Int) /\ Len(Append(old, x)) = n + 1
    BY <1>1, <1>2
  <2> HIDE DEF n
  <2> QED
    BY <1>2, <1>4, <1>5, <2>1
<1>7. Total(Append(old, x)) = Total(old) + x
  BY <1>1, <1>2, TotalAppend
<1> QED
  BY <1>6, <1>7

(* A claimed entry locks nothing any more.                                   *)
LEMMA OpenClaim ==
    ASSUME NEW entries \in Seq(TimelockEntry), NEW a, NEW id \in DOMAIN entries,
           ~entries[id].claimed
    PROVE  Total(Open([entries EXCEPT ![id].claimed = TRUE], a)) =
               Total(Open(entries, a))
                   - (IF entries[id].asset = a THEN entries[id].amount ELSE 0)
<1> DEFINE x == IF entries[id].asset = a THEN entries[id].amount ELSE 0
           old == Open(entries, a)
           after == [entries EXCEPT ![id].claimed = TRUE]
           new == Open(after, a)
<1>1. old \in Seq(Int) /\ Len(old) = Len(entries) /\ Len(entries) \in Nat
  BY OpenTyped
<1>2. id \in 1..Len(old) /\ DOMAIN entries = 1..Len(old)
  BY <1>1
<1>3. old[id] = x
  BY DEF Open
<1>4. DOMAIN after = DOMAIN entries
  OBVIOUS
<1>5. after[id].claimed = TRUE
  <2>1. entries[id] \in TimelockEntry
    <3> HIDE DEF TimelockEntry
    <3> QED
      OBVIOUS
  <2>2. after[id] = [entries[id] EXCEPT !.claimed = TRUE]
    OBVIOUS
  <2> QED
    BY <2>1, <2>2 DEF TimelockEntry
<1>6. \A i \in DOMAIN entries : i # id => after[i] = entries[i]
  OBVIOUS
<1> HIDE DEF after
<1>7. new = [old EXCEPT ![id] = 0]
  BY <1>4, <1>5, <1>6 DEF Open
<1>8. Total([old EXCEPT ![id] = 0]) = Total(old) - old[id] + 0
  BY <1>1, <1>2, TotalExcept
<1>9. Total(old) \in Int /\ old[id] \in Int
  BY <1>1, <1>2, TotalBounds
<1> QED
  BY <1>3, <1>7, <1>8, <1>9 DEF after


(* The counter of locked deposits moves with the entries: a deposit adds its *)
(* amount to both, a claim takes it off both, and no other call touches      *)
(* either.                                                                   *)
THEOREM BridgeLockedIsOutstanding == Spec => []LockedIsOutstanding
<1>1. \A a : OutstandingAmount(a) = Total(Open(timelocks, a))
  BY DEF OutstandingAmount, Open
<1>2. Init => LockedIsOutstanding
  <2> SUFFICES ASSUME Init, NEW a \in Asset
               PROVE  counters[a].locked_timelock = OutstandingAmount(a)
    BY DEF LockedIsOutstanding
  <2>1. timelocks = <<>> /\ counters[a].locked_timelock = 0
    BY DEF Init
  <2>2. <<>> \in Seq(TimelockEntry) /\ Len(<<>>) = 0
    OBVIOUS
  <2>3. Open(<<>>, a) \in Seq(Int) /\ Len(Open(<<>>, a)) = 0
    BY <2>2, OpenTyped
  <2>4. Total(Open(<<>>, a)) = 0
    BY <2>3, TotalBounds
  <2> QED
    BY <1>1, <2>1, <2>4
<1>3. ASSUME TypeOK, LockedIsOutstanding, [Next]_vars
      PROVE  LockedIsOutstanding'
  <2> SUFFICES ASSUME NEW a \in Asset
               PROVE  counters'[a].locked_timelock = OutstandingAmount(a)'
    BY DEF LockedIsOutstanding
  <2>1. OutstandingAmount(a)' = Total(Open(timelocks', a))
    BY DEF OutstandingAmount, Open
  <2>2. /\ counters[a].locked_timelock = Total(Open(timelocks, a))
        /\ timelocks \in Seq(TimelockEntry)
        /\ counters \in [Asset -> Tally]
    BY <1>1, <1>3, CountersTally DEF LockedIsOutstanding, TypeOK
  <2>3. CASE timelocks' = timelocks /\ counters'[a].locked_timelock = counters[a].locked_timelock
    BY <2>1, <2>2, <2>3
  <2>4. CASE timelocks' = timelocks /\ ChargedTo(counters)
    BY <1>3, <2>2, <2>3, <2>4, ChargeFields
  <2>5. ASSUME NEW asset \in Asset, NEW amount \in Amounts, NEW opt,
               WithdrawFees(asset, amount, opt), timelocks' = timelocks
        PROVE  counters'[a].locked_timelock = OutstandingAmount(a)'
    <3>1. counters' = [counters EXCEPT ![asset].accrued_fees = @ - amount] /\ amount \in Int
      BY <2>5, StateConstants DEF WithdrawFees, StateConstants
    <3> QED
      BY <2>2, <2>3, <2>5, <3>1, WithdrawFields
  <2>6. ASSUME NEW source \in Sources, NEW target \in Targets, NEW asset \in Asset,
               NEW amount \in Amounts, NEW release_time \in Times, NEW opt,
               FundCAddressTimelocked(source, target, asset, amount, release_time, opt)
        PROVE  counters'[a].locked_timelock = OutstandingAmount(a)'
    <3> DEFINE entry == [source |-> source, target |-> target, asset |-> asset,
                         amount |-> amount, release_time |-> release_time, claimed |-> FALSE]
    <3>1. /\ counters' = LockTimelock(counters, asset, amount)
          /\ timelocks' = Append(timelocks, entry)
          /\ CheckAmount(amount) /\ amount \in Int
          /\ balance[asset][source] >= amount
      BY <2>6, StateConstants DEF FundCAddressTimelocked, StateConstants
    <3>2. entry \in TimelockEntry
      <4>1. source \in Account /\ target \in Account /\ release_time \in Nat
        BY StateConstants DEF StateConstants
      <4>2. balance[asset][source] \in 0..I128_MAX
        BY <1>3, <4>1 DEF TypeOK, Holder
      <4>3. amount \in 1..I128_MAX
        BY <3>1, <4>2, FeeConstants DEF CheckAmount, FeeConstants
      <4> QED
        BY <4>1, <4>3 DEF TimelockEntry
    <3>3. entry.asset = asset /\ entry.amount = amount /\ ~entry.claimed
      OBVIOUS
    <3> HIDE DEF entry
    <3>4. Total(Open(timelocks', a)) =
              Total(Open(timelocks, a)) + (IF asset = a THEN amount ELSE 0)
      BY <2>2, <3>1, <3>2, <3>3, OpenAppend
    <3>5. counters'[a].locked_timelock =
              counters[a].locked_timelock + (IF a = asset THEN amount ELSE 0)
      BY <2>2, <3>1, LockFields
    <3> QED
      BY <2>1, <2>2, <3>4, <3>5
  <2>7. ASSUME NEW id \in DOMAIN timelocks, ClaimTimelocked(id)
        PROVE  counters'[a].locked_timelock = OutstandingAmount(a)'
    <3> DEFINE asset == timelocks[id].asset
               amount == timelocks[id].amount
               unlocked == LockTimelock(counters, asset, -amount)
    <3>1. asset \in Asset /\ amount \in Nat /\ ChargedTo(unlocked)
      BY <1>3, <2>7, ClaimCharges
    <3>2. timelocks' = [timelocks EXCEPT ![id].claimed = TRUE] /\ ~timelocks[id].claimed
      BY <2>7 DEF ClaimTimelocked
    <3>3. Total(Open(timelocks', a)) =
              Total(Open(timelocks, a)) - (IF asset = a THEN amount ELSE 0)
      BY <2>2, <3>2, OpenClaim
    <3> HIDE DEF asset, amount
    <3>4. /\ unlocked \in [Asset -> Tally]
          /\ unlocked[a].locked_timelock =
                 counters[a].locked_timelock + (IF a = asset THEN -amount ELSE 0)
      <4>1. -amount \in Int
        BY <3>1
      <4> QED
        BY <2>2, <3>1, <4>1, LockFields
    <3> HIDE DEF unlocked
    <3>5. counters'[a].locked_timelock = unlocked[a].locked_timelock
      BY <1>3, <3>1, <3>4, ChargeFields
    <3>6. counters[a].locked_timelock \in Int
      BY <2>2 DEF Tally
    <3> QED
      BY <2>1, <2>2, <3>1, <3>3, <3>4, <3>5, <3>6
  <2>8. CASE counters' = counters /\ timelocks' = timelocks
    BY <2>3, <2>8
  <2> QED
    BY <1>3, <2>4, <2>5, <2>6, <2>7, <2>8, CounterSteps
<1>4. TypeOK /\ LockedIsOutstanding /\ [Next]_vars => LockedIsOutstanding'
  BY <1>3
<1> QED
  BY <1>2, <1>4, BridgeTypeCorrect, PTL DEF Spec

(* What a claim needs of the bridge's funds: each unclaimed deposit is still *)
(* counted and still held, next to the accrued fees and the reserve.         *)
DepositsHeld ==
    \A id \in DOMAIN timelocks :
        LET entry == timelocks[id]
        IN  ~entry.claimed =>
              /\ entry.amount <= counters[entry.asset].locked_timelock
              /\ entry.asset \notin LoyaltyTokens \cap ReserveAssets =>
                     entry.amount + counters[entry.asset].accrued_fees + reserve[entry.asset]
                         <= balance[entry.asset][Bridge]

(* claim_timelocked never lacks the tokens, nor underflows the counter, for  *)
(* any deposit, whatever was withdrawn, reclaimed, rewarded or paid before.  *)
THEOREM BridgeHoldsDeposits == Spec => []DepositsHeld
<1>1. ASSUME TypeOK, RingFenced, LockedIsOutstanding, NEW id \in DOMAIN timelocks,
             ~timelocks[id].claimed
      PROVE  LET entry == timelocks[id]
             IN  /\ entry.amount <= counters[entry.asset].locked_timelock
                 /\ entry.asset \notin LoyaltyTokens \cap ReserveAssets =>
                        entry.amount + counters[entry.asset].accrued_fees + reserve[entry.asset]
                            <= balance[entry.asset][Bridge]
  <2> DEFINE asset == timelocks[id].asset
             amount == timelocks[id].amount
             terms == Open(timelocks, asset)
             rest == [terms EXCEPT ![id] = 0]
             locked == counters[asset].locked_timelock
             accrued == counters[asset].accrued_fees
             set_aside == reserve[asset]
             held == balance[asset][Bridge]
  <2>1. timelocks \in Seq(TimelockEntry)
    BY <1>1 DEF TypeOK
  <2>2. \A i \in DOMAIN timelocks : timelocks[i] \in TimelockEntry
    <3> HIDE DEF TimelockEntry
    <3> QED
      BY <2>1
  <2>3. asset \in Asset /\ amount \in Nat
    BY <1>1, <2>2, FeeConstants DEF TimelockEntry, FeeConstants
  <2>4. terms \in Seq(Int) /\ Len(terms) = Len(timelocks) /\ id \in 1..Len(terms)
    BY <1>1, <2>1, OpenTyped
  <2>5. terms[id] = amount
    BY <1>1 DEF Open
  <2>6. \A i \in 1..Len(terms) : terms[i] >= 0
    <3> SUFFICES ASSUME NEW i \in DOMAIN timelocks
                 PROVE  terms[i] >= 0
      BY <2>1, <2>4, SMTT(30)
    <3>1. timelocks[i].amount \in Nat
      BY <2>2, FeeConstants DEF TimelockEntry, FeeConstants
    <3> QED
      BY <3>1 DEF Open
  <2>7. locked = Total(terms)
    BY <1>1, <2>3 DEF LockedIsOutstanding, OutstandingAmount, Open
  <2> HIDE DEF terms
  <2>8. rest \in Seq(Int) /\ Len(rest) = Len(terms) /\ \A i \in 1..Len(rest) : rest[i] >= 0
    BY <2>4, <2>6
  <2>9. Total(rest) = Total(terms) - amount
    <3>1. Total(rest) = Total(terms) - terms[id] + 0
      <4>1. 0 \in Int
        OBVIOUS
      <4> QED
        BY <2>4, <4>1, TotalExcept, Zenon
    <3>2. Total(terms) \in Int
      BY <2>4, TotalBounds
    <3> HIDE DEF rest, amount
    <3> QED
      BY <2>3, <2>5, <3>1, <3>2
  <2> HIDE DEF rest
  <2>10. Total(rest) \in Int /\ Total(rest) >= 0 /\ Total(terms) \in Int
    BY <2>4, <2>8, TotalBounds
  <2>11. accrued \in Int /\ set_aside \in Int /\ held \in Int
    BY <1>1, <2>3, FundsTyped
  <2>12. asset \notin LoyaltyTokens \cap ReserveAssets => held >= accrued + locked + set_aside
    BY <1>1, <2>3 DEF RingFenced, Owed
  <2> HIDE DEF asset, amount, locked, accrued, set_aside, held
  <2>13. /\ amount <= locked
         /\ asset \notin LoyaltyTokens \cap ReserveAssets => amount + accrued + set_aside <= held
    BY <2>3, <2>7, <2>9, <2>10, <2>11, <2>12
  <2> QED
    BY <2>13 DEF asset, amount, locked, accrued, set_aside, held
<1>2. TypeOK /\ RingFenced /\ LockedIsOutstanding => DepositsHeld
  BY <1>1 DEF DepositsHeld
<1> QED
  BY <1>2, BridgeTypeCorrect, BridgeRingFenced, BridgeLockedIsOutstanding, PTL

(* The numbers a claim adds to: the product of amount and rate, the lifetime *)
(* totals, and what the target holds.                                        *)
RoomForClaim(entry) ==
    /\ FeeFits(entry.amount, FlatRate(entry.asset))
    /\ balance[entry.asset][entry.target] + entry.amount <= I128_MAX
    /\ counters[entry.asset].total_bridged + entry.amount <= I128_MAX
    /\ counters[entry.asset].total_fees_collected + entry.amount <= I128_MAX

(* The checked arithmetic and the token transfer of claim_timelocked.        *)
ClaimComputes(entry) ==
    LET fee == CalculateFee(entry.amount, FlatRate(entry.asset))
        unlocked == LockTimelock(counters, entry.asset, -entry.amount)
    IN  /\ BalancesFit(Transfer(balance, entry.asset, Bridge, entry.target, entry.amount - fee))
        /\ CountersFit(unlocked)
        /\ CountersFit(AddFees(unlocked, entry.asset, fee, fee, entry.amount - fee))

(* Past its release time an unclaimed deposit can only be held up by the     *)
(* pause, or by a number that reaches the end of an i128.                    *)
ClaimsGoThrough ==
    \A id \in DOMAIN timelocks :
        LET entry == timelocks[id]
        IN  /\ ~entry.claimed
            /\ entry.asset \notin LoyaltyTokens \cap ReserveAssets
            /\ RoomForClaim(entry)
            => ClaimComputes(entry)

(* A transfer out of the bridge, holder by holder.                           *)
LEMMA PaidOut ==
    ASSUME NEW bal, Book(bal), NEW asset \in Asset, NEW to \in Account, NEW amount,
           NEW a \in Asset, NEW h \in Holder
    PROVE  Transfer(bal, asset, Bridge, to, amount)[a][h] =
               IF a = asset /\ h = Bridge THEN bal[a][h] - amount
               ELSE IF a = asset /\ h = to THEN bal[a][h] + amount
               ELSE bal[a][h]
  BY StateConstants DEF Book, Transfer, Holder, StateConstants

LEMMA TalliesFit ==
    ASSUME NEW ctr,
           \A a \in Asset : /\ ctr[a].accrued_fees \in I128 /\ ctr[a].total_bridged \in I128
                            /\ ctr[a].total_fees_collected \in I128
                            /\ ctr[a].locked_timelock \in I128
    PROVE  CountersFit(ctr)
  BY Zenon DEF CountersFit

LEMMA WithinI128 ==
    ASSUME NEW x \in Int, I128_MAX \in Nat, -I128_MAX <= x, x <= I128_MAX
    PROVE  x \in I128
  BY DEF I128

LEMMA HeldClaimComputes ==
    ASSUME TypeOK, NEW entry \in TimelockEntry, RoomForClaim(entry),
           entry.amount <= counters[entry.asset].locked_timelock,
           entry.amount + counters[entry.asset].accrued_fees + reserve[entry.asset]
               <= balance[entry.asset][Bridge]
    PROVE  ClaimComputes(entry)
<1> DEFINE asset == entry.asset
           target == entry.target
           amount == entry.amount
           rate == FlatRate(asset)
           fee == CalculateFee(amount, rate)
           unlocked == LockTimelock(counters, asset, -amount)
           net == amount - fee
           paid == Transfer(balance, asset, Bridge, target, net)
           new == AddFees(unlocked, asset, fee, fee, net)
<1>1. /\ asset \in Asset /\ target \in Account /\ amount \in 1..I128_MAX
      /\ Bridge \notin Account /\ I128_MAX \in Nat
  BY FeeConstants, StateConstants DEF TimelockEntry, FeeConstants, StateConstants
<1>2. amount \in Nat /\ -amount \in Int
  BY <1>1
<1>3. fee \in 0..amount
  <2>1. rate \in 0..FEE_DENOMINATOR
    BY <1>1, RatesTyped
  <2> HIDE DEF rate, amount
  <2>. QED  BY <1>2, <2>1, FeeBounds
<1>4. net \in 0..amount /\ amount - net = fee
  BY <1>2, <1>3
<1>5. balance \in [Asset -> [Holder -> 0..I128_MAX]] /\ reserve \in [Asset -> 0..I128_MAX]
  BY DEF TypeOK
<1>6. counters \in [Asset -> Tally]
  BY CountersTally
<1>7. \A a \in Asset :
          /\ counters[a].accrued_fees \in 0..I128_MAX /\ counters[a].total_bridged \in I128
          /\ counters[a].total_fees_collected \in I128 /\ counters[a].locked_timelock \in I128
  BY DEF TypeOK, Counters
<1>8. I128 = (-I128_MAX)..I128_MAX
  BY DEF I128
<1>9. /\ amount <= counters[asset].locked_timelock
      /\ amount + counters[asset].accrued_fees + reserve[asset] <= balance[asset][Bridge]
      /\ balance[asset][target] + amount <= I128_MAX
      /\ counters[asset].total_bridged + amount <= I128_MAX
      /\ counters[asset].total_fees_collected + amount <= I128_MAX
  BY DEF RoomForClaim
<1> HIDE DEF asset, target, amount, rate, fee, net
<1>10. BalancesFit(paid)
  <2>1. \A a \in Asset, h \in Holder :
            paid[a][h] = IF a = asset /\ h = Bridge THEN balance[a][h] - net
                         ELSE IF a = asset /\ h = target THEN balance[a][h] + net
                         ELSE balance[a][h]
    BY <1>1, FundsTyped, PaidOut
  <2>2. Bridge \in Holder /\ target \in Holder
    BY <1>1 DEF Holder
  <2>3. \A a \in Asset, h \in Holder : balance[a][h] \in 0..I128_MAX
    BY <1>5
  <2>4. counters[asset].accrued_fees \in 0..I128_MAX /\ reserve[asset] \in 0..I128_MAX
    BY <1>1, <1>5, <1>7
  <2> HIDE DEF paid
  <2>5. paid[asset][Bridge] \in 0..I128_MAX
    <3>1. paid[asset][Bridge] = balance[asset][Bridge] - net
      BY <1>1, <2>1, <2>2
    <3>2. balance[asset][Bridge] \in 0..I128_MAX
      BY <1>1, <2>2, <2>3
    <3>. QED  BY <1>1, <1>2, <1>4, <1>9, <2>4, <3>1, <3>2
  <2>6. paid[asset][target] \in 0..I128_MAX
    <3>1. paid[asset][target] = balance[asset][target] + net
      BY <1>1, <2>1, <2>2
    <3>2. balance[asset][target] \in 0..I128_MAX
      BY <1>1, <2>2, <2>3
    <3>. QED  BY <1>1, <1>2, <1>4, <1>9, <3>1, <3>2
  <2>. QED
    BY <2>1, <2>3, <2>5, <2>6 DEF BalancesFit
<1>11. /\ unlocked \in [Asset -> Tally]
       /\ \A a \in Asset :
             /\ unlocked[a].accrued_fees = counters[a].accrued_fees
             /\ unlocked[a].total_bridged = counters[a].total_bridged
             /\ unlocked[a].total_fees_collected = counters[a].total_fees_collected
             /\ unlocked[a].locked_timelock =
                    counters[a].locked_timelock + (IF a = asset THEN -amount ELSE 0)
  BY <1>1, <1>2, <1>6, LockFields
<1> HIDE DEF unlocked, paid
<1>12. \A a \in Asset : unlocked[a].locked_timelock \in I128
  <2> SUFFICES ASSUME NEW a \in Asset
               PROVE  unlocked[a].locked_timelock \in I128
    OBVIOUS
  <2> DEFINE locked == counters[a].locked_timelock
  <2>1. locked \in Int /\ -I128_MAX <= locked /\ locked <= I128_MAX
    BY <1>7, <1>8
  <2>2. a = asset => amount <= locked
    BY <1>9
  <2>3. unlocked[a].locked_timelock = locked + (IF a = asset THEN -amount ELSE 0)
    BY <1>11
  <2> HIDE DEF locked
  <2>4. LET x == locked + (IF a = asset THEN -amount ELSE 0)
        IN  x \in Int /\ -I128_MAX <= x /\ x <= I128_MAX
    BY <1>1, <2>1, <2>2
  <2>. QED  BY <1>1, <2>3, <2>4, WithinI128
<1>13. CountersFit(unlocked)
  <2>1. \A a \in Asset : counters[a].accrued_fees \in I128
    BY <1>1, <1>7, <1>8
  <2>. QED  BY <1>7, <1>11, <1>12, <2>1, TalliesFit
<1>14. /\ \A a \in Asset : /\ new[a].locked_timelock = unlocked[a].locked_timelock
                           /\ a # asset => new[a] = unlocked[a]
       /\ new[asset].accrued_fees = unlocked[asset].accrued_fees + fee
       /\ new[asset].total_bridged = unlocked[asset].total_bridged + net
       /\ new[asset].total_fees_collected = unlocked[asset].total_fees_collected + fee
  BY <1>1, <1>3, <1>4, <1>11 DEF AddFees, Tally
<1> HIDE DEF new
<1>15. CountersFit(new)
  <2> DEFINE accrued == counters[asset].accrued_fees
             bridged == counters[asset].total_bridged
             collected == counters[asset].total_fees_collected
             set_aside == reserve[asset]
             held == balance[asset][Bridge]
  <2>1. /\ accrued \in 0..I128_MAX /\ set_aside \in 0..I128_MAX /\ held \in 0..I128_MAX
        /\ bridged \in (-I128_MAX)..I128_MAX /\ collected \in (-I128_MAX)..I128_MAX
    BY <1>1, <1>5, <1>7, <1>8 DEF Holder
  <2>2. /\ amount + accrued + set_aside <= held
        /\ bridged + amount <= I128_MAX /\ collected + amount <= I128_MAX
    BY <1>9
  <2>3. /\ new[asset].accrued_fees = accrued + fee
        /\ new[asset].total_bridged = bridged + net
        /\ new[asset].total_fees_collected = collected + fee
    BY <1>1, <1>11, <1>14
  <2> HIDE DEF accrued, bridged, collected, set_aside, held
  <2>4. new[asset].accrued_fees \in I128
    <3>1. accrued + fee \in Int /\ -I128_MAX <= accrued + fee /\ accrued + fee <= I128_MAX
      BY <1>1, <1>3, <2>1, <2>2
    <3>. QED  BY <1>1, <2>3, <3>1, WithinI128
  <2>5. new[asset].total_bridged \in I128
    <3>1. bridged + net \in Int /\ -I128_MAX <= bridged + net /\ bridged + net <= I128_MAX
      BY <1>1, <1>4, <2>1, <2>2
    <3>. QED  BY <1>1, <2>3, <3>1, WithinI128
  <2>6. new[asset].total_fees_collected \in I128
    <3>1. /\ collected + fee \in Int
          /\ -I128_MAX <= collected + fee /\ collected + fee <= I128_MAX
      BY <1>1, <1>3, <2>1, <2>2
    <3>. QED  BY <1>1, <2>3, <3>1, WithinI128
  <2>7. \A a \in Asset : a # asset =>
            /\ new[a].accrued_fees \in I128 /\ new[a].total_bridged \in I128
            /\ new[a].total_fees_collected \in I128
    <3> SUFFICES ASSUME NEW a \in Asset, a # asset
                 PROVE  /\ new[a].accrued_fees \in I128 /\ new[a].total_bridged \in I128
                        /\ new[a].total_fees_collected \in I128
      OBVIOUS
    <3>1. counters[a].accrued_fees \in I128
      BY <1>1, <1>7, <1>8
    <3>. QED  BY <1>7, <1>11, <1>14, <3>1
  <2>. QED  BY <1>12, <1>14, <2>4, <2>5, <2>6, <2>7, TalliesFit
<1>. QED
  BY <1>10, <1>15, <1>13
  DEF ClaimComputes, asset, target, amount, rate, fee, net, unlocked, paid, new

(* claim_timelocked's transfer and checked arithmetic succeed for every      *)
(* deposit, whatever was withdrawn, reclaimed, rewarded or paid before.      *)
THEOREM BridgeClaimsGoThrough == Spec => []ClaimsGoThrough
<1>1. ASSUME TypeOK, DepositsHeld, NEW id \in DOMAIN timelocks, ~timelocks[id].claimed,
             timelocks[id].asset \notin LoyaltyTokens \cap ReserveAssets,
             RoomForClaim(timelocks[id])
      PROVE  ClaimComputes(timelocks[id])
  <2>1. timelocks[id] \in TimelockEntry
    BY <1>1 DEF TypeOK
  <2>2. LET entry == timelocks[id]
        IN  /\ entry.amount <= counters[entry.asset].locked_timelock
            /\ entry.amount + counters[entry.asset].accrued_fees + reserve[entry.asset]
                   <= balance[entry.asset][Bridge]
    BY <1>1 DEF DepositsHeld
  <2>. QED  BY <1>1, <2>1, <2>2, HeldClaimComputes
<1>2. TypeOK /\ DepositsHeld => ClaimsGoThrough
  BY <1>1 DEF ClaimsGoThrough
<1>. QED  BY <1>2, BridgeTypeCorrect, BridgeHoldsDeposits, PTL

(* What a claim leaves behind.                                               *)
ClaimEffect(id) ==
    LET entry == timelocks[id]
        fee == CalculateFee(entry.amount, FlatRate(entry.asset))
        unlocked == LockTimelock(counters, entry.asset, -entry.amount)
    IN  /\ timelocks' = [timelocks EXCEPT ![id].claimed = TRUE]
        /\ balance' = Transfer(balance, entry.asset, Bridge, entry.target, entry.amount - fee)
        /\ counters' = AddFees(unlocked, entry.asset, fee, fee, entry.amount - fee)
        /\ published' = [published EXCEPT ![<<"timelock", id>>] = @ + 1]
        /\ UNCHANGED <<ledger, config, lists, fee_cap, reserve, usage, nonces, commitments,
                       relayers, used_nonces, meta>>

(* ClaimsGoThrough is about claim_timelocked: where it holds, a matured      *)
(* deposit is claimed by the step to the state that ClaimEffect gives.       *)
LEMMA MaturedClaimSteps ==
    ASSUME ClaimsGoThrough, NEW id \in DOMAIN timelocks, ~timelocks[id].claimed,
           timelocks[id].asset \notin LoyaltyTokens \cap ReserveAssets,
           RoomForClaim(timelocks[id]),
           ledger.timestamp >= timelocks[id].release_time, CheckRecoveryAllowed, ClaimEffect(id)
    PROVE  ClaimTimelocked(id)
<1>1. ClaimComputes(timelocks[id])
  BY DEF ClaimsGoThrough
<1>2. FeeFits(timelocks[id].amount, FlatRate(timelocks[id].asset))
  BY DEF RoomForClaim
<1>. QED  BY <1>1, <1>2, Zenon DEF ClaimComputes, ClaimEffect, ClaimTimelocked

-----------------------------------------------------------------------------
(* The circuit breaker.                                                      *)

(* reclaim_tokens moves what the bridge holds for nobody, and nothing else.  *)
LEMMA ReclaimEffect ==
    ASSUME TypeOK, NEW asset \in Asset, NEW amount \in Int, NEW destination \in Account, NEW opt,
           ReclaimTokens(asset, amount, destination, opt)
    PROVE  /\ amount > 0 /\ amount <= Reclaimable(asset)
           /\ balance' = Transfer(balance, asset, Bridge, destination, amount)
           /\ UNCHANGED <<counters, reserve, timelocks, commitments, used_nonces, meta, published>>
           /\ \A a \in Asset :
                 balance'[a][Bridge] =
                     IF a = asset THEN balance[a][Bridge] - amount ELSE balance[a][Bridge]
<1>1. /\ amount > 0 /\ Reclaimable(asset) >= amount
      /\ balance' = Transfer(balance, asset, Bridge, destination, amount)
      /\ UNCHANGED <<counters, usage, untouchedByFunding>>
  BY DEF ReclaimTokens
<1>2. Reclaimable(asset) \in Int
  BY FundsTyped DEF Reclaimable
<1>3. \A a \in Asset :
          balance'[a][Bridge] =
              IF a = asset THEN balance[a][Bridge] - amount ELSE balance[a][Bridge]
  BY <1>1, FundsTyped, TransferOut
<1> QED
  BY <1>1, <1>2, <1>3 DEF untouchedByFunding

(* While the contract is paused and not deactivated, the accounting and every *)
(* record of the users stand still, and what leaves the bridge is either the  *)
(* reserve, to the administrator, or held for nobody, whoever receives it.    *)
THEOREM BridgePauseFreezesUsers == Spec => PauseFreezesUsers
<1> DEFINE Allowed(a) ==
             LET out == balance[a][Bridge] - balance'[a][Bridge] IN
             \/ out <= 0
             \/ /\ reserve[a] - reserve'[a] = out
                /\ balance'[a][config.admin] = balance[a][config.admin] + out
             \/ reserve'[a] = reserve[a] /\ out <= Reclaimable(a)
           Frozen ==
             /\ UNCHANGED <<counters, timelocks, commitments, used_nonces, meta, published>>
             /\ \A a \in Asset : Allowed(a)
<1>1. ASSUME TypeOK, RolesNamed, [Next]_vars, config.paused, ~config.deactivated
      PROVE  Frozen
  <2>1. ~CheckNotPaused /\ ~CheckRecoveryAllowed
    BY <1>1 DEF CheckNotPaused, CheckRecoveryAllowed
  <2>2. /\ balance \in [Asset -> [Holder -> 0..I128_MAX]]
        /\ Bridge \notin Account /\ Operators \subseteq Account /\ Sources \subseteq Account
        /\ Amounts \subseteq Int /\ ReserveAssets \subseteq Asset
    BY <1>1, StateConstants DEF TypeOK, StateConstants
  <2>3. \A a \in Asset : balance[a][Bridge] \in Int
    BY <1>1, FundsTyped
  <2>4. ASSUME UNCHANGED <<balance, counters, timelocks, commitments, used_nonces, meta,
                           published>>
        PROVE  Frozen
    BY <2>3, <2>4
  <2>5. ASSUME NEW asset \in Asset, NEW amount \in Int, amount > 0, NEW from \in Account,
               balance' = Transfer(balance, asset, from, Bridge, amount), NEW a \in Asset
        PROVE  Allowed(a)
    <3>1. balance'[a][Bridge] = IF a = asset THEN balance[a][Bridge] + amount
                                ELSE balance[a][Bridge]
      BY <1>1, <2>5, FundsTyped, TransferIn
    <3> QED
      BY <2>3, <2>5, <3>1
  <2>6. config.admin \in Account
    BY <1>1, <2>2 DEF RolesNamed
  <2>7. CASE OperatorTransfer
    <3>1. ASSUME NEW asset, NEW amount, NEW opt
          PROVE  ~WithdrawFees(asset, amount, opt)
      BY <2>1 DEF WithdrawFees
    <3>2. PICK asset \in Asset, amount \in Amounts, destination \in Account, opt \in CallOptions :
              ReclaimTokens(asset, amount, destination, opt)
      BY <2>7, <3>1 DEF OperatorTransfer
    <3>3. amount \in Int
      BY <2>2
    <3>4. /\ amount > 0 /\ amount <= Reclaimable(asset)
          /\ UNCHANGED <<counters, reserve, timelocks, commitments, used_nonces, meta, published>>
          /\ \A a \in Asset :
                balance'[a][Bridge] =
                    IF a = asset THEN balance[a][Bridge] - amount ELSE balance[a][Bridge]
      BY <1>1, <3>2, <3>3, ReclaimEffect
    <3>5. ASSUME NEW a \in Asset
          PROVE  Allowed(a)
      <4>1. CASE a = asset
        BY <2>3, <3>3, <3>4, <4>1
      <4>2. CASE a # asset
        BY <2>3, <3>4, <4>2
      <4> QED
        BY <4>1, <4>2
    <3> QED
      BY <3>4, <3>5
  <2>8. CASE StrayTransfer
    <3>1. PICK from \in Sources, asset \in Asset, amount \in Amounts :
              SendToBridge(from, asset, amount)
      BY <2>8 DEF StrayTransfer
    <3>2. /\ amount > 0 /\ balance' = Transfer(balance, asset, from, Bridge, amount)
          /\ UNCHANGED <<counters, timelocks, commitments, used_nonces, meta, published>>
      BY <3>1 DEF SendToBridge, untouchedByFunding
    <3> QED
      BY <2>2, <2>5, <3>2
  <2>9. CASE Registry \/ Administration \/ CloseLedger \/ UNCHANGED vars
    BY <2>4, <2>9, RegistryFrame, AdministrationFrame
    DEF fundVars, untouchedByCrossChain, untouchedByAdmin, CloseLedger, vars
  <2>10. ASSUME NEW asset \in ReserveAssets, NEW amount \in Amounts,
                FundCrosschainReserve(asset, amount)
         PROVE  Frozen
    <3>1. /\ amount > 0 /\ balance' = Transfer(balance, asset, config.admin, Bridge, amount)
          /\ UNCHANGED <<counters, timelocks, commitments, used_nonces, meta, published>>
      BY <2>10 DEF FundCrosschainReserve, untouchedByCrossChain
    <3> QED
      BY <2>2, <2>5, <2>6, <3>1
  <2>11. ASSUME NEW asset \in ReserveAssets, NEW amount \in Amounts,
                WithdrawCrosschainReserve(asset, amount)
         PROVE  Frozen
    <3>1. /\ amount > 0 /\ balance' = Transfer(balance, asset, Bridge, config.admin, amount)
          /\ reserve' = [reserve EXCEPT ![asset] = @ - amount]
          /\ UNCHANGED <<counters, timelocks, commitments, used_nonces, meta, published>>
      BY <2>11 DEF WithdrawCrosschainReserve, DebitReserve, untouchedByCrossChain
    <3>2. asset \in Asset /\ amount \in Int
      BY <2>2
    <3>3. ASSUME NEW a \in Asset
          PROVE  Allowed(a)
      <4>1. balance'[a][Bridge] =
                IF a = asset THEN balance[a][Bridge] - amount ELSE balance[a][Bridge]
        BY <1>1, <2>6, <3>1, <3>2, FundsTyped, TransferOut
      <4>2. CASE a = asset
        <5>1. balance'[a][config.admin] = balance[a][config.admin] + amount
          BY <1>1, <2>2, <2>6, <3>1, <3>2, <4>2, FundsTyped, PaidOut DEF Holder
        <5>2. reserve'[a] = reserve[a] - amount /\ reserve[a] \in Int
          BY <1>1, <3>1, <3>2, <4>2, FundsTyped DEF TypeOK
        <5> QED
          BY <2>3, <3>2, <4>1, <4>2, <5>1, <5>2
      <4>3. CASE a # asset
        BY <2>3, <4>1, <4>3
      <4> QED
        BY <4>2, <4>3
    <3> QED
      BY <3>1, <3>3
  <2>12. ASSUME NEW id
         PROVE  ~ClaimTimelocked(id)
    BY <2>1 DEF ClaimTimelocked
  <2> QED
    BY <1>1, <2>1, <2>7, <2>8, <2>9, <2>10, <2>11, <2>12, OnlyRecovery
<1>2. TypeOK /\ RolesNamed /\ [Next]_vars => (config.paused /\ ~config.deactivated => Frozen)
  BY <1>1
<1> QED
  BY <1>2, BridgeTypeCorrect, RolesInvariant, PTL DEF Spec, PauseFreezesUsers

-----------------------------------------------------------------------------
(* Who gains and who pays. Operators and swap pools are left out: the first  *)
(* are paid by the contract, the second trade with it.                       *)
Outsiders == Account \ (Operators \cup lists.pools)

(* No outsider but the source pays, and it no more than the amount.          *)
OnlySpends(source, asset, amount) ==
    \A a \in Asset, h \in Outsiders :
        balance'[a][h] >= balance[a][h] - (IF h = source /\ a = asset THEN amount ELSE 0)

(* No outsider without access gains, unless it funds.                        *)
NoneDeniedGains ==
    \A a \in Asset, h \in Outsiders \ Sources : CheckAccess(h) \/ balance'[a][h] <= balance[a][h]

(* Balances whatever their width.                                            *)
Balances == [Asset -> [Holder -> Int]]

(* What a transfer into the bridge, and one out of it, do to the accounts.   *)
Debited(new, bal, asset, from, amount) ==
    \A a \in Asset, h \in Account :
        new[a][h] = IF h = from /\ a = asset THEN bal[a][h] - amount ELSE bal[a][h]

Credited(new, bal, asset, to, amount) ==
    \A a \in Asset, h \in Account :
        new[a][h] = IF h = to /\ a = asset THEN bal[a][h] + amount ELSE bal[a][h]

(* A transfer into the bridge.                                               *)
LEMMA Pulled ==
    ASSUME NEW bal \in Balances, NEW asset \in Asset, NEW from \in Account, NEW amount \in Int
    PROVE  /\ Transfer(bal, asset, from, Bridge, amount) \in Balances
           /\ Debited(Transfer(bal, asset, from, Bridge, amount), bal, asset, from, amount)
<1> DEFINE row == [bal[asset] EXCEPT ![from] = @ - amount, ![Bridge] = @ + amount]
           new == Transfer(bal, asset, from, Bridge, amount)
<1>1. new = [bal EXCEPT ![asset] = row]
  BY DEF Transfer, Balances
<1>2. bal[asset] \in [Holder -> Int] /\ from \in Holder /\ Bridge \in Holder /\ from # Bridge
  BY StateConstants DEF Balances, Holder, StateConstants
<1>3. row \in [Holder -> Int]
  BY <1>2
<1>4. \A h \in Account : row[h] = IF h = from THEN bal[asset][h] - amount ELSE bal[asset][h]
  BY <1>2, StateConstants DEF Holder, StateConstants
<1> HIDE DEF row, new
<1>5. new \in Balances /\ new[asset] = row /\ \A a \in Asset : a # asset => new[a] = bal[a]
  BY <1>1, <1>3 DEF Balances
<1>6. \A a \in Asset, h \in Account :
          new[a][h] = IF h = from /\ a = asset THEN bal[a][h] - amount ELSE bal[a][h]
  BY <1>4, <1>5
<1> QED
  BY <1>5, <1>6 DEF new, Debited

(* A transfer out of the bridge.                                             *)
LEMMA Paid ==
    ASSUME NEW bal \in Balances, NEW asset \in Asset, NEW to \in Account, NEW amount \in Int
    PROVE  /\ Transfer(bal, asset, Bridge, to, amount) \in Balances
           /\ Credited(Transfer(bal, asset, Bridge, to, amount), bal, asset, to, amount)
<1> DEFINE row == [bal[asset] EXCEPT ![Bridge] = @ - amount, ![to] = @ + amount]
           new == Transfer(bal, asset, Bridge, to, amount)
<1>1. new = [bal EXCEPT ![asset] = row]
  BY DEF Transfer, Balances
<1>2. bal[asset] \in [Holder -> Int] /\ to \in Holder /\ Bridge \in Holder /\ to # Bridge
  BY StateConstants DEF Balances, Holder, StateConstants
<1>3. row \in [Holder -> Int]
  BY <1>2
<1>4. \A h \in Account : row[h] = IF h = to THEN bal[asset][h] + amount ELSE bal[asset][h]
  BY <1>2, StateConstants DEF Holder, StateConstants
<1> HIDE DEF row, new
<1>5. new \in Balances /\ new[asset] = row /\ \A a \in Asset : a # asset => new[a] = bal[a]
  BY <1>1, <1>3 DEF Balances
<1>6. \A a \in Asset, h \in Account :
          new[a][h] = IF h = to /\ a = asset THEN bal[a][h] + amount ELSE bal[a][h]
  BY <1>4, <1>5
<1> QED
  BY <1>5, <1>6 DEF new, Credited

(* mint_loyalty_tokens pays its recipient or nobody.                         *)
LEMMA MintEffect ==
    ASSUME NEW bal \in Balances, NEW ctr, NEW recipient \in Account, config \in Config
    PROVE  \A a \in Asset, h \in Account :
               /\ MintLoyalty(bal, ctr, recipient)[a][h] \in Int
               /\ MintLoyalty(bal, ctr, recipient)[a][h] >= bal[a][h]
               /\ h # recipient => MintLoyalty(bal, ctr, recipient)[a][h] = bal[a][h]
<1> DEFINE t == config.loyalty_token
           n == config.loyalty_amount
           new == MintLoyalty(bal, ctr, recipient)
<1>1. t \in Asset \cup {None} /\ n \in Nat
  BY StateConstants DEF Config, StateConstants
<1>2. new = bal \/ (t # None /\ new = Transfer(bal, t, Bridge, recipient, n))
  BY DEF MintLoyalty
<1> HIDE DEF t, n, new
<1>3. ASSUME NEW a \in Asset, NEW h \in Account
      PROVE  /\ new[a][h] \in Int /\ new[a][h] >= bal[a][h]
             /\ h # recipient => new[a][h] = bal[a][h]
  <2>1. bal[a][h] \in Int
    BY DEF Balances, Holder
  <2>2. CASE new = bal
    BY <2>1, <2>2
  <2>3. CASE t # None /\ new = Transfer(bal, t, Bridge, recipient, n)
    <3>1. new[a][h] = IF h = recipient /\ a = t THEN bal[a][h] + n ELSE bal[a][h]
      <4>1. t \in Asset /\ n \in Int
        BY <1>1, <2>3
      <4> QED
        BY <2>3, <4>1, Paid DEF Credited
    <3> QED
      BY <1>1, <2>1, <3>1
  <2> QED
    BY <1>2, <2>2, <2>3
<1> QED
  BY <1>3 DEF new

(* The balances that a step starts from.                                     *)
LEMMA BalancesTyped ==
    ASSUME TypeOK
    PROVE  /\ balance \in Balances /\ config \in Config
           /\ \A a \in Asset, h \in Account : balance[a][h] \in Int
<1>1. balance \in [Asset -> [Holder -> 0..I128_MAX]] /\ config \in Config
  BY DEF TypeOK
<1>2. 0..I128_MAX \subseteq Int
  BY FeeConstants DEF FeeConstants
<1>3. balance \in Balances
  <2>1. \A a \in Asset : balance[a] \in [Holder -> Int]
    BY <1>1, <1>2
  <2> QED
    BY <1>1, <2>1 DEF Balances
<1> QED
  BY <1>1, <1>3 DEF Balances, Holder

(* fund_c_address, reveal_fund and execute_meta_fund take the amount from    *)
(* the source and pay the target.                                            *)
LEMMA DeliverFlows ==
    ASSUME TypeOK, NEW source \in Sources, NEW target \in Account, NEW asset \in Asset,
           NEW amount \in Int, CheckAmount(amount), CheckAccess(target),
           Deliver(source, target, asset, amount)
    PROVE  OnlySpends(source, asset, amount) /\ NoneDeniedGains
<1> DEFINE rate == TieredRate(source, asset)
           fee == CalculateFee(amount, rate)
           pulled == Transfer(balance, asset, source, Bridge, amount)
           paid == Transfer(pulled, asset, Bridge, target, amount - fee)
<1>1. balance' = MintLoyalty(paid, counters', source)
  BY DEF Deliver
<1>2. source \in Account
  BY StateConstants DEF StateConstants
<1>3. amount \in Nat
  BY DEF CheckAmount
<1>4. fee \in 0..amount
  <2>1. rate \in 0..FEE_DENOMINATOR
    BY <1>2, RatesTyped
  <2> HIDE DEF rate
  <2> QED
    BY <1>3, <2>1, FeeBounds
<1> HIDE DEF fee
<1>5. pulled \in Balances /\ Debited(pulled, balance, asset, source, amount)
  BY <1>2, BalancesTyped, Pulled, Zenon
<1> HIDE DEF pulled
<1>6. amount - fee \in Nat /\ amount - fee \in Int
  BY <1>3, <1>4
<1>7. paid \in Balances /\ Credited(paid, pulled, asset, target, amount - fee)
  BY <1>5, <1>6, Paid, Zenon
<1> HIDE DEF paid
<1>8. \A a \in Asset, h \in Account :
          /\ balance'[a][h] \in Int /\ balance'[a][h] >= paid[a][h]
          /\ h # source => balance'[a][h] = paid[a][h]
  BY <1>1, <1>2, <1>7, BalancesTyped, MintEffect
<1>9. \A a \in Asset, h \in Account : /\ balance[a][h] \in Int /\ pulled[a][h] \in Int
                                      /\ paid[a][h] \in Int
  BY <1>5, <1>7, BalancesTyped DEF Balances, Holder
<1>10. ASSUME NEW a \in Asset, NEW h \in Account
       PROVE  balance'[a][h] >= balance[a][h] - (IF h = source /\ a = asset THEN amount ELSE 0)
  <2>1. balance'[a][h] >= paid[a][h] /\ balance'[a][h] \in Int
    BY <1>8
  <2>2. paid[a][h] >= pulled[a][h]
    BY <1>6, <1>7, <1>9 DEF Debited, Credited
  <2>3. pulled[a][h] >= balance[a][h] - (IF h = source /\ a = asset THEN amount ELSE 0)
    BY <1>3, <1>5, <1>9 DEF Debited, Credited
  <2> QED
    BY <1>9, <2>1, <2>2, <2>3
<1>11. ASSUME NEW a \in Asset, NEW h \in Account \ Sources
       PROVE  CheckAccess(h) \/ balance'[a][h] <= balance[a][h]
  <2>1. h # source /\ (h = target => CheckAccess(h))
    OBVIOUS
  <2> HIDE DEF CheckAccess
  <2> QED
    BY <1>5, <1>7, <1>8, <1>9, <2>1 DEF Debited, Credited
<1> QED
  BY <1>10, <1>11 DEF OnlySpends, NoneDeniedGains, Outsiders


(* fund_c_address_with_referral: the referrer, too, has been checked.        *)
LEMMA ReferralFlows ==
    ASSUME TypeOK, NEW source \in Sources, NEW target \in Account,
           NEW referrer \in Account \cup {None}, NEW asset \in Asset, NEW amount \in Int, NEW opt,
           FundCAddressWithReferral(source, target, referrer, asset, amount, opt)
    PROVE  OnlySpends(source, asset, amount) /\ NoneDeniedGains
<1> DEFINE rate == TieredRate(source, asset)
           fee == CalculateFee(amount, rate)
           share == IF referrer = None THEN 0 ELSE CalculateFee(fee, config.referral_rate)
           pulled == Transfer(balance, asset, source, Bridge, amount)
           paid == Transfer(pulled, asset, Bridge, target, amount - fee)
           shared == IF share > 0 THEN Transfer(paid, asset, Bridge, referrer, share) ELSE paid
<1>1. /\ balance' = MintLoyalty(shared, counters', source)
      /\ CheckAmount(amount) /\ CheckAccess(target) /\ (referrer # None => CheckAccess(referrer))
  BY DEF FundCAddressWithReferral
<1>2. source \in Account /\ amount \in Nat
  BY <1>1, StateConstants DEF StateConstants, CheckAmount
<1>3. fee \in 0..amount
  <2>1. rate \in 0..FEE_DENOMINATOR
    BY <1>2, RatesTyped
  <2> HIDE DEF rate
  <2> QED
    BY <1>2, <2>1, FeeBounds
<1> HIDE DEF fee
<1>4. share \in Nat /\ (share > 0 => referrer \in Account /\ CheckAccess(referrer))
  <2>1. config.referral_rate \in 0..FEE_DENOMINATOR /\ fee \in Nat
    BY <1>2, <1>3 DEF TypeOK, Config
  <2>2. CalculateFee(fee, config.referral_rate) \in 0..fee
    BY <2>1, FeeBounds
  <2> QED
    BY <1>1, <2>1, <2>2
<1> HIDE DEF share
<1>5. pulled \in Balances /\ Debited(pulled, balance, asset, source, amount)
  BY <1>2, BalancesTyped, Pulled, Zenon
<1> HIDE DEF pulled
<1>6. amount - fee \in Nat /\ amount - fee \in Int
  BY <1>2, <1>3
<1>7. paid \in Balances /\ Credited(paid, pulled, asset, target, amount - fee)
  BY <1>5, <1>6, Paid, Zenon
<1> HIDE DEF paid
<1>8. /\ shared \in Balances
      /\ \A a \in Asset, h \in Account :
            shared[a][h] = IF share > 0 /\ h = referrer /\ a = asset THEN paid[a][h] + share
                           ELSE paid[a][h]
  BY <1>4, <1>7, Paid, SMTT(30) DEF Credited
<1> HIDE DEF shared
<1>9. \A a \in Asset, h \in Account :
          /\ balance'[a][h] \in Int /\ balance'[a][h] >= shared[a][h]
          /\ h # source => balance'[a][h] = shared[a][h]
  BY <1>1, <1>2, <1>8, BalancesTyped, MintEffect
<1>10. \A a \in Asset, h \in Account : /\ balance[a][h] \in Int /\ pulled[a][h] \in Int
                                       /\ paid[a][h] \in Int /\ shared[a][h] \in Int
  BY <1>5, <1>7, <1>8, BalancesTyped DEF Balances, Holder
<1>11. ASSUME NEW a \in Asset, NEW h \in Account
       PROVE  balance'[a][h] >= balance[a][h] - (IF h = source /\ a = asset THEN amount ELSE 0)
  <2>1. balance'[a][h] >= shared[a][h] /\ balance'[a][h] \in Int
    BY <1>9
  <2>2. shared[a][h] >= paid[a][h] /\ paid[a][h] >= pulled[a][h]
    BY <1>4, <1>6, <1>7, <1>8, <1>10 DEF Debited, Credited
  <2>3. pulled[a][h] >= balance[a][h] - (IF h = source /\ a = asset THEN amount ELSE 0)
    BY <1>2, <1>5, <1>10 DEF Debited, Credited
  <2> QED
    BY <1>10, <2>1, <2>2, <2>3
<1>12. ASSUME NEW a \in Asset, NEW h \in Account \ Sources
       PROVE  CheckAccess(h) \/ balance'[a][h] <= balance[a][h]
  <2>1. /\ h # source /\ (h = target => CheckAccess(h))
        /\ share > 0 /\ h = referrer => CheckAccess(h)
    BY <1>1, <1>4
  <2> HIDE DEF CheckAccess
  <2> QED
    BY <1>5, <1>7, <1>8, <1>9, <1>10, <2>1 DEF Debited, Credited
<1> QED
  BY <1>11, <1>12 DEF OnlySpends, NoneDeniedGains, Outsiders

(* What an account receives of a batch is never negative, and nothing when   *)
(* it has no access.                                                         *)
LEMMA BatchReceives ==
    ASSUME NEW batch \in Batches, NEW rate \in 0..FEE_DENOMINATOR,
           \A i \in DOMAIN batch : CheckAmount(batch[i].amount), NEW h
    PROVE  /\ BatchReceived(batch, rate, h) \in Nat
           /\ CheckAccess(h) \/ BatchReceived(batch, rate, h) = 0
<1> DEFINE terms == [i \in DOMAIN batch |->
                        IF batch[i].target = h /\ CheckAccess(batch[i].target)
                        THEN batch[i].amount - CalculateFee(batch[i].amount, rate) ELSE 0]
<1>1. BatchReceived(batch, rate, h) = Total(terms)
  BY DEF BatchReceived
<1>2. /\ DOMAIN batch = 1..Len(batch) /\ Len(batch) \in Nat
      /\ \A i \in DOMAIN batch :
            /\ batch[i].amount \in Nat
            /\ CalculateFee(batch[i].amount, rate) \in 0..batch[i].amount
  BY BatchTerms
<1> HIDE DEF CheckAccess
<1>3. \A i \in 1..Len(batch) : /\ terms[i] \in Int /\ terms[i] >= 0
                               /\ CheckAccess(h) \/ terms[i] = 0
  BY <1>2
<1>4. terms \in Seq(Int) /\ Len(terms) = Len(batch)
  BY <1>2, <1>3
<1> HIDE DEF terms
<1>5. Total(terms) \in Int /\ Total(terms) >= 0
  BY <1>3, <1>4, TotalBounds
<1>6. CheckAccess(h) \/ Total(terms) = 0
  BY <1>3, <1>4, TotalBounds
<1> QED
  BY <1>1, <1>5, <1>6

(* batch_fund_c_address: the source pays what is delivered; who has no       *)
(* access is skipped.                                                        *)
LEMMA BatchFlows ==
    ASSUME TypeOK, NEW source \in Sources, NEW batch \in Batches, NEW asset \in Asset, NEW opt,
           BatchFundCAddress(source, batch, asset, opt)
    PROVE  /\ BatchDelivered(batch) \in Int
           /\ OnlySpends(source, asset, BatchDelivered(batch))
           /\ NoneDeniedGains
<1> DEFINE rate == TieredRate(source, asset)
           delivered == BatchDelivered(batch)
           fees == BatchFees(batch, rate)
           row == [h \in Holder |->
                       balance[asset][h]
                           + (IF h = Bridge THEN fees ELSE BatchReceived(batch, rate, h))
                           - (IF h = source THEN delivered ELSE 0)]
           paid == [balance EXCEPT ![asset] = row]
<1>1. /\ \A i \in DOMAIN batch : CheckAmount(batch[i].amount)
      /\ {delivered, fees} \subseteq 0..I128_MAX
      /\ balance' \in {paid, MintLoyalty(paid, counters', source)}
  BY DEF BatchFundCAddress
<1>2. source \in Account /\ Bridge \notin Account
  BY StateConstants DEF StateConstants
<1>3. rate \in 0..FEE_DENOMINATOR
  BY <1>2, RatesTyped
<1> HIDE DEF rate, delivered, fees
<1>4. delivered \in Nat /\ fees \in Nat
  BY <1>1, FeeConstants DEF FeeConstants
<1>5. \A h : /\ BatchReceived(batch, rate, h) \in Nat
             /\ CheckAccess(h) \/ BatchReceived(batch, rate, h) = 0
  BY <1>1, <1>3, BatchReceives
<1>6. balance \in Balances /\ balance[asset] \in [Holder -> Int]
  BY BalancesTyped DEF Balances
<1>7. row \in [Holder -> Int]
  <2>1. ASSUME NEW h \in Holder
        PROVE  balance[asset][h]
                   + (IF h = Bridge THEN fees ELSE BatchReceived(batch, rate, h))
                   - (IF h = source THEN delivered ELSE 0) \in Int
    <3>1. /\ balance[asset][h] \in Int
          /\ (IF h = Bridge THEN fees ELSE BatchReceived(batch, rate, h)) \in Int
          /\ (IF h = source THEN delivered ELSE 0) \in Int
      BY <1>4, <1>5, <1>6
    <3> QED
      BY <3>1
  <2> QED
    BY <2>1
<1>8. \A h \in Account : row[h] = balance[asset][h] + BatchReceived(batch, rate, h)
                                      - (IF h = source THEN delivered ELSE 0)
  BY <1>2 DEF Holder
<1> HIDE DEF row
<1>9. paid \in Balances /\ paid[asset] = row /\ \A a \in Asset : a # asset => paid[a] = balance[a]
  BY <1>6, <1>7 DEF Balances
<1> HIDE DEF paid
<1>10. \A a \in Asset, h \in Account : balance[a][h] \in Int /\ paid[a][h] \in Int
  BY <1>9, BalancesTyped DEF Balances, Holder
<1>11. \A a \in Asset, h \in Account :
          /\ balance'[a][h] \in Int /\ balance'[a][h] >= paid[a][h]
          /\ h # source => balance'[a][h] = paid[a][h]
  BY <1>1, <1>2, <1>9, <1>10, BalancesTyped, MintEffect
<1>12. ASSUME NEW a \in Asset, NEW h \in Account
       PROVE  balance'[a][h] >= balance[a][h] - (IF h = source /\ a = asset THEN delivered ELSE 0)
  <2>1. balance'[a][h] >= paid[a][h] /\ balance'[a][h] \in Int
    BY <1>11
  <2>2. CASE a = asset
    <3>1. paid[a][h] >= balance[a][h] - (IF h = source THEN delivered ELSE 0)
      BY <1>4, <1>5, <1>8, <1>9, <1>10, <2>2
    <3> QED
      BY <1>4, <1>10, <2>1, <2>2, <3>1
  <2>3. CASE a # asset
    BY <1>9, <1>10, <2>1, <2>3
  <2> QED
    BY <2>2, <2>3
<1>13. ASSUME NEW a \in Asset, NEW h \in Account \ Sources
       PROVE  CheckAccess(h) \/ balance'[a][h] <= balance[a][h]
  <2> HIDE DEF CheckAccess
  <2>1. h # source /\ balance'[a][h] = paid[a][h]
    BY <1>11
  <2> QED
    BY <1>5, <1>8, <1>9, <1>10, <2>1
<1> QED
  BY <1>4, <1>12, <1>13 DEF OnlySpends, NoneDeniedGains, Outsiders, delivered


(* fund_c_address_with_swap takes the source asset from the source and pays  *)
(* the target; the pool is a whitelisted one.                                *)
LEMMA SwapFlows ==
    ASSUME TypeOK, NEW source \in Sources, NEW target \in Account, NEW source_asset \in Asset,
           NEW target_asset \in Asset, NEW amount \in Int, NEW min \in Int, NEW pool,
           NEW received \in Int, NEW opt,
           FundCAddressWithSwap(source, target, source_asset, target_asset, amount, min,
                                pool, received, opt)
    PROVE  OnlySpends(source, source_asset, amount) /\ NoneDeniedGains
<1> DEFINE rate == TieredRate(source, target_asset)
           fee == CalculateFee(received, rate)
           pulled == Transfer(balance, source_asset, source, Bridge, amount)
           pushed == Transfer(pulled, source_asset, Bridge, pool, amount)
           swapped == Transfer(pushed, target_asset, pool, Bridge, received)
           paid == Transfer(swapped, target_asset, Bridge, target, received - fee)
<1>1. /\ balance' = MintLoyalty(paid, counters', source)
      /\ CheckAmount(amount) /\ CheckAccess(target) /\ pool \in lists.pools
      /\ received >= min /\ min > 0
  BY DEF FundCAddressWithSwap
<1>2. /\ source \in Account /\ amount \in Nat /\ received \in Nat
      /\ pool \in Account /\ pool \notin Outsiders /\ Outsiders \subseteq Account
  BY <1>1, StateConstants DEF StateConstants, CheckAmount, TypeOK, Outsiders
<1>3. fee \in 0..received
  <2>1. rate \in 0..FEE_DENOMINATOR
    BY <1>2, RatesTyped
  <2> HIDE DEF rate
  <2> QED
    BY <1>2, <2>1, FeeBounds
<1> HIDE DEF fee
<1>4. pulled \in Balances /\ Debited(pulled, balance, source_asset, source, amount)
  BY <1>2, BalancesTyped, Pulled, Zenon
<1> HIDE DEF pulled
<1>5. pushed \in Balances /\ \A a \in Asset, h \in Outsiders : pushed[a][h] = pulled[a][h]
  <2>1. pushed \in Balances /\ Credited(pushed, pulled, source_asset, pool, amount)
    BY <1>2, <1>4, Paid, Zenon
  <2> QED
    BY <1>2, <2>1 DEF Credited
<1> HIDE DEF pushed
<1>6. swapped \in Balances /\ \A a \in Asset, h \in Outsiders : swapped[a][h] = pushed[a][h]
  <2>1. swapped \in Balances /\ Debited(swapped, pushed, target_asset, pool, received)
    BY <1>2, <1>5, Pulled, Zenon
  <2> QED
    BY <1>2, <2>1 DEF Debited
<1> HIDE DEF swapped
<1>7. received - fee \in Nat /\ received - fee \in Int
  BY <1>2, <1>3
<1>8. paid \in Balances /\ Credited(paid, swapped, target_asset, target, received - fee)
  BY <1>6, <1>7, Paid, Zenon
<1> HIDE DEF paid
<1>9. \A a \in Asset, h \in Account :
          /\ balance'[a][h] \in Int /\ balance'[a][h] >= paid[a][h]
          /\ h # source => balance'[a][h] = paid[a][h]
  BY <1>1, <1>2, <1>8, BalancesTyped, MintEffect
<1>10. \A a \in Asset, h \in Outsiders :
           /\ balance[a][h] \in Int /\ pulled[a][h] \in Int /\ paid[a][h] \in Int
           /\ swapped[a][h] = pulled[a][h]
  BY <1>2, <1>4, <1>5, <1>6, <1>8, BalancesTyped DEF Balances, Holder
<1>11. ASSUME NEW a \in Asset, NEW h \in Outsiders
       PROVE  balance'[a][h] >=
                  balance[a][h] - (IF h = source /\ a = source_asset THEN amount ELSE 0)
  <2>1. balance'[a][h] >= paid[a][h] /\ balance'[a][h] \in Int
    BY <1>2, <1>9
  <2>2. paid[a][h] >= pulled[a][h]
    BY <1>2, <1>7, <1>8, <1>10 DEF Debited, Credited
  <2>3. pulled[a][h] >= balance[a][h] - (IF h = source /\ a = source_asset THEN amount ELSE 0)
    BY <1>2, <1>4, <1>10 DEF Debited, Credited
  <2> QED
    BY <1>2, <1>10, <2>1, <2>2, <2>3
<1>12. ASSUME NEW a \in Asset, NEW h \in Outsiders \ Sources
       PROVE  CheckAccess(h) \/ balance'[a][h] <= balance[a][h]
  <2>1. h # source /\ (h = target => CheckAccess(h))
    BY <1>1
  <2> HIDE DEF CheckAccess
  <2> QED
    BY <1>2, <1>4, <1>8, <1>9, <1>10, <2>1 DEF Debited, Credited
<1> QED
  BY <1>11, <1>12 DEF OnlySpends, NoneDeniedGains

(* fund_c_address_timelocked takes the deposit and pays nobody but a reward. *)
LEMMA TimelockedFlows ==
    ASSUME TypeOK, NEW source \in Sources, NEW target, NEW asset \in Asset,
           NEW amount \in Int, NEW release_time, NEW opt,
           FundCAddressTimelocked(source, target, asset, amount, release_time, opt)
    PROVE  OnlySpends(source, asset, amount) /\ NoneDeniedGains
<1> DEFINE pulled == Transfer(balance, asset, source, Bridge, amount)
<1>1. balance' = MintLoyalty(pulled, counters', source) /\ CheckAmount(amount)
  BY DEF FundCAddressTimelocked
<1>2. source \in Account /\ amount \in Nat
  BY <1>1, StateConstants DEF StateConstants, CheckAmount
<1>3. pulled \in Balances /\ Debited(pulled, balance, asset, source, amount)
  BY <1>2, BalancesTyped, Pulled, Zenon
<1> HIDE DEF pulled
<1>4. \A a \in Asset, h \in Account :
          /\ balance'[a][h] \in Int /\ balance'[a][h] >= pulled[a][h]
          /\ h # source => balance'[a][h] = pulled[a][h]
  BY <1>1, <1>2, <1>3, BalancesTyped, MintEffect
<1>5. \A a \in Asset, h \in Account : balance[a][h] \in Int /\ pulled[a][h] \in Int
  BY <1>3, BalancesTyped DEF Balances, Holder
<1>6. ASSUME NEW a \in Asset, NEW h \in Account
      PROVE  /\ balance'[a][h] >= balance[a][h] - (IF h = source /\ a = asset THEN amount ELSE 0)
             /\ h \notin Sources => balance'[a][h] <= balance[a][h]
  <2>1. balance'[a][h] >= pulled[a][h] /\ balance'[a][h] \in Int
    BY <1>4
  <2>2. pulled[a][h] >= balance[a][h] - (IF h = source /\ a = asset THEN amount ELSE 0)
    BY <1>2, <1>3, <1>5 DEF Debited, Credited
  <2>3. h \notin Sources => balance'[a][h] <= balance[a][h]
    BY <1>3, <1>4, <1>5 DEF Debited, Credited
  <2> QED
    BY <1>2, <1>5, <2>1, <2>2, <2>3
<1> QED
  BY <1>6 DEF OnlySpends, NoneDeniedGains, Outsiders

(* claim_timelocked pays the target of the entry and takes from no account.  *)
LEMMA ClaimFlows ==
    ASSUME TypeOK, NEW id \in DOMAIN timelocks, ClaimTimelocked(id)
    PROVE  \A a \in Asset, h \in Account :
               /\ balance'[a][h] >= balance[a][h]
               /\ h # timelocks[id].target => balance'[a][h] = balance[a][h]
<1> DEFINE asset == timelocks[id].asset
           amount == timelocks[id].amount
           target == timelocks[id].target
           rate == FlatRate(asset)
           fee == CalculateFee(amount, rate)
<1>1. balance' = Transfer(balance, asset, Bridge, target, amount - fee)
  BY DEF ClaimTimelocked
<1>2. asset \in Asset /\ target \in Account /\ amount \in Nat
  <2>1. timelocks[id] \in TimelockEntry
    BY DEF TypeOK
  <2>2. asset \in Asset /\ target \in Account /\ amount \in 1..I128_MAX
    BY <2>1 DEF TimelockEntry
  <2> HIDE DEF asset, target, amount
  <2> QED
    BY <2>2, FeeConstants DEF FeeConstants
<1> HIDE DEF asset, target, amount
<1>3. fee \in 0..amount
  <2>1. rate \in 0..FEE_DENOMINATOR
    BY <1>2, RatesTyped
  <2> HIDE DEF rate
  <2> QED
    BY <1>2, <2>1, FeeBounds
<1> HIDE DEF fee
<1>4. amount - fee \in Nat /\ amount - fee \in Int
  BY <1>2, <1>3
<1>5. Credited(balance', balance, asset, target, amount - fee)
  BY <1>1, <1>2, <1>4, BalancesTyped, Paid, Zenon
<1> QED
  BY <1>4, <1>5, BalancesTyped DEF target, Debited, Credited

(* fund_c_address_crosschain pays its target, which has been checked.        *)
LEMMA CrosschainFlows ==
    ASSUME TypeOK, NEW tx, NEW target \in Account, NEW asset \in Asset, NEW amount \in Int,
           NEW signers, FundCAddressCrosschain(tx, target, asset, amount, signers)
    PROVE  NoneDeniedGains /\ \A a \in Asset, h \in Account : balance'[a][h] >= balance[a][h]
<1> DEFINE rate == FlatRate(asset)
           fee == CalculateFee(amount, rate)
           paid == Transfer(balance, asset, Bridge, target, amount - fee)
<1>1. /\ balance' = MintLoyalty(paid, counters', target)
      /\ CheckAmount(amount) /\ CheckAccess(target)
  BY DEF FundCAddressCrosschain
<1>2. amount \in Nat
  BY <1>1 DEF CheckAmount
<1>3. fee \in 0..amount
  <2>1. rate \in 0..FEE_DENOMINATOR
    BY RatesTyped
  <2> HIDE DEF rate
  <2> QED
    BY <1>2, <2>1, FeeBounds
<1> HIDE DEF fee
<1>4. amount - fee \in Nat /\ amount - fee \in Int
  BY <1>2, <1>3
<1>5. paid \in Balances /\ Credited(paid, balance, asset, target, amount - fee)
  BY <1>4, BalancesTyped, Paid, Zenon
<1> HIDE DEF paid
<1>6. \A a \in Asset, h \in Account :
          /\ balance'[a][h] \in Int /\ balance'[a][h] >= paid[a][h]
          /\ h # target => balance'[a][h] = paid[a][h]
  BY <1>1, <1>5, BalancesTyped, MintEffect
<1>7. \A a \in Asset, h \in Account : balance[a][h] \in Int /\ paid[a][h] \in Int
  BY <1>5, BalancesTyped DEF Balances, Holder
<1>8. ASSUME NEW a \in Asset, NEW h \in Account
      PROVE  balance'[a][h] >= balance[a][h]
  <2>1. paid[a][h] >= balance[a][h]
    BY <1>4, <1>5, <1>7 DEF Debited, Credited
  <2> QED
    BY <1>6, <1>7, <2>1
<1>9. ASSUME NEW a \in Asset, NEW h \in Account
      PROVE  CheckAccess(h) \/ balance'[a][h] <= balance[a][h]
  <2>1. h = target => CheckAccess(h)
    BY <1>1
  <2> HIDE DEF CheckAccess
  <2> QED
    BY <1>5, <1>6, <1>7, <2>1 DEF Debited, Credited
<1> QED
  BY <1>8, <1>9 DEF NoneDeniedGains, Outsiders


-----------------------------------------------------------------------------
(* The daily count.                                                          *)

(* The day of the ledger is a day the usage records have.                    *)
LEMMA TodayTyped ==
    ASSUME ledger \in [timestamp : 0..MaxTimestamp, sequence : Nat]
    PROVE  Today \in Day
<1> DEFINE t == ledger.timestamp
           d == SECONDS_PER_DAY
           m == t \div d
           n == MaxTimestamp \div d
<1>1. d \in Nat \ {0} /\ MaxTimestamp \in Nat /\ t \in 0..MaxTimestamp
  BY StateConstants DEF StateConstants
<1> HIDE DEF t, d
<1>2. /\ m \in Int /\ m * d <= t /\ t < (m + 1) * d
      /\ n \in Int /\ n * d <= MaxTimestamp /\ MaxTimestamp < (n + 1) * d
  BY <1>1
<1>3. m >= 0
  BY <1>1, <1>2
<1> HIDE DEF m, n
<1>4. m <= n
  <2> SUFFICES ASSUME m >= n + 1
               PROVE  FALSE
    BY <1>2
  <2>1. m * d >= (n + 1) * d
    BY <1>1, <1>2
  <2>2. m * d \in Int /\ (n + 1) * d \in Int
    BY <1>1, <1>2
  <2> QED
    BY <1>1, <1>2, <2>1, <2>2
<1>5. m \in 0..n
  BY <1>2, <1>3, <1>4
<1> QED
  BY <1>5 DEF Today, Day, m, n, t, d

(* Usage whatever the width of its values.                                   *)
Usages == [Account -> [Asset -> [limit : Nat, used : [Day -> Int], volume : Int, deposit : Int]]]

(* Recording the volume or the deposit of a call leaves the daily counts be. *)
LEMMA RecordsAside ==
    ASSUME NEW u \in Usages, NEW source \in Account, NEW asset \in Asset, NEW amount \in Int
    PROVE  /\ AddVolume(u, source, asset, amount) \in Usages
           /\ AddDeposit(u, source, asset, amount) \in Usages
           /\ \A s \in Account, a \in Asset :
                 /\ AddVolume(u, source, asset, amount)[s][a].used = u[s][a].used
                 /\ AddDeposit(u, source, asset, amount)[s][a].used = u[s][a].used
<1> DEFINE row == u[source][asset]
           vol == [row EXCEPT !.volume = @ + amount]
           dep == [row EXCEPT !.deposit = @ + amount]
           Row == [limit : Nat, used : [Day -> Int], volume : Int, deposit : Int]
<1>1. u \in [Account -> [Asset -> Row]]
  BY DEF Usages
<1>2. row \in Row
  <2> HIDE DEF Row
  <2> QED
    BY <1>1
<1>3. vol \in Row /\ vol.used = row.used /\ dep \in Row /\ dep.used = row.used
  <2> HIDE DEF row
  <2> QED
    BY <1>2
<1>4. /\ AddVolume(u, source, asset, amount) = [u EXCEPT ![source] = [u[source] EXCEPT ![asset] = vol]]
      /\ AddDeposit(u, source, asset, amount) = [u EXCEPT ![source] = [u[source] EXCEPT ![asset] = dep]]
  BY <1>1 DEF AddVolume, AddDeposit
<1> HIDE DEF Row, vol, dep
<1> QED
  BY <1>1, <1>3, <1>4 DEF Usages, Row

(* A call counts its amount against the limit of the day, if there is one.   *)
LEMMA CountedDaily ==
    ASSUME TypeOK, NEW source \in Account, NEW asset \in Asset, NEW amount \in Int,
           usage[source][asset].limit # 0
    PROVE  /\ CountDaily(usage, source, asset, amount) \in Usages
           /\ CountDaily(usage, source, asset, amount)[source][asset].used[Today] =
                  usage[source][asset].used[Today] + amount
<1> DEFINE Row == [limit : Nat, used : [Day -> Int], volume : Int, deposit : Int]
           row == usage[source][asset]
           new == [row EXCEPT !.used = [row.used EXCEPT ![Today] = @ + amount]]
           counted == CountDaily(usage, source, asset, amount)
<1>1. Today \in Day
  BY TodayTyped DEF TypeOK
<1>2. usage \in [Account -> [Asset -> Row]]
  <2>1. SourceUsage \subseteq Row
    BY FeeConstants DEF SourceUsage, I128, FeeConstants
  <2>2. usage \in [Account -> [Asset -> SourceUsage]]
    BY DEF TypeOK
  <2> HIDE DEF Row
  <2> QED
    BY <2>1, <2>2
<1>3. row \in Row
  <2> HIDE DEF Row
  <2> QED
    BY <1>2
<1>4. new \in Row /\ new.used[Today] = row.used[Today] + amount
  <2> HIDE DEF row
  <2> QED
    BY <1>1, <1>3
<1>5. counted = [usage EXCEPT ![source] = [usage[source] EXCEPT ![asset] = new]]
  BY <1>2 DEF CountDaily
<1> HIDE DEF Row, new, row, counted
<1>6. counted \in [Account -> [Asset -> Row]] /\ counted[source][asset] = new
  BY <1>2, <1>4, <1>5
<1> QED
  BY <1>4, <1>6 DEF Usages, Row, row, counted

(* Whatever else a call records, it counts its amount of the day.            *)
Counts(source, asset, amount) ==
    /\ WithinDailyLimit(source, asset, amount)
    /\ usage[source][asset].limit # 0 =>
           usage'[source][asset].used[Today] = usage[source][asset].used[Today] + amount

(* The four ways the entry points compose the records.                       *)
LEMMA CountsDaily ==
    ASSUME TypeOK, NEW source \in Account, NEW asset \in Asset, NEW amount \in Int,
           NEW other \in Asset, NEW volume \in Int, WithinDailyLimit(source, asset, amount),
           LET counted == CountDaily(usage, source, asset, amount)
           IN  \/ usage' = AddVolume(counted, source, other, volume)
               \/ usage' = AddDeposit(counted, source, asset, amount)
               \/ usage' = AddVolume(AddDeposit(counted, source, asset, amount),
                                     source, other, volume)
    PROVE  Counts(source, asset, amount)
<1> DEFINE counted == CountDaily(usage, source, asset, amount)
           deposited == AddDeposit(counted, source, asset, amount)
<1> SUFFICES ASSUME usage[source][asset].limit # 0
             PROVE  usage'[source][asset].used[Today] = usage[source][asset].used[Today] + amount
  BY DEF Counts
<1>1. /\ counted \in Usages
      /\ counted[source][asset].used[Today] = usage[source][asset].used[Today] + amount
  BY CountedDaily
<1>2. \/ usage' = AddVolume(counted, source, other, volume)
      \/ usage' = deposited
      \/ usage' = AddVolume(deposited, source, other, volume)
  OBVIOUS
<1> HIDE DEF counted
<1>3. deposited \in Usages /\ deposited[source][asset].used = counted[source][asset].used
  BY <1>1, RecordsAside
<1>4. AddVolume(counted, source, other, volume)[source][asset].used = counted[source][asset].used
  BY <1>1, RecordsAside
<1> HIDE DEF deposited
<1>5. AddVolume(deposited, source, other, volume)[source][asset].used
          = deposited[source][asset].used
  BY <1>3, RecordsAside
<1> QED
  BY <1>1, <1>2, <1>3, <1>4, <1>5


-----------------------------------------------------------------------------
(* Every step that moves tokens.                                             *)

(* The call of a source: it pays the amount, which its limit counts.         *)
SourcePays ==
    \E source \in Sources, asset \in Asset, amount \in Int :
        /\ OnlySpends(source, asset, amount)
        /\ NoneDeniedGains
        /\ Counts(source, asset, amount)

(* No outsider pays.                                                         *)
NoneSpends == \A a \in Asset, h \in Outsiders : balance'[a][h] >= balance[a][h]

(* fund_c_address, its referred and its batched form.                        *)
LEMMA DirectPays ==
    ASSUME TypeOK, DirectFunding
    PROVE  SourcePays
<1>1. Sources \subseteq Account /\ Targets \subseteq Account /\ Amounts \subseteq Int
  BY StateConstants DEF StateConstants
<1>2. ASSUME NEW source \in Sources, NEW target \in Targets, NEW asset \in Asset,
             NEW amount \in Amounts, NEW opt, FundCAddress(source, target, asset, amount, opt)
      PROVE  SourcePays
  <2>1. /\ CheckAmount(amount) /\ CheckAccess(target) /\ WithinDailyLimit(source, asset, amount)
        /\ Deliver(source, target, asset, amount)
        /\ usage' = AddVolume(CountDaily(usage, source, asset, amount), source, asset, amount)
    BY <1>2 DEF FundCAddress
  <2>2. source \in Account /\ target \in Account /\ amount \in Int
    BY <1>1
  <2>3. Counts(source, asset, amount)
    BY <2>1, <2>2, CountsDaily
  <2>4. OnlySpends(source, asset, amount) /\ NoneDeniedGains
    BY <2>1, <2>2, DeliverFlows
  <2> QED
    BY <2>2, <2>3, <2>4 DEF SourcePays
<1>3. ASSUME NEW source \in Sources, NEW target \in Targets, NEW referrer \in Targets \cup {None},
             NEW asset \in Asset, NEW amount \in Amounts, NEW opt,
             FundCAddressWithReferral(source, target, referrer, asset, amount, opt)
      PROVE  SourcePays
  <2>1. /\ WithinDailyLimit(source, asset, amount)
        /\ usage' = AddVolume(AddDeposit(CountDaily(usage, source, asset, amount),
                                         source, asset, amount), source, asset, amount)
    BY <1>3 DEF FundCAddressWithReferral
  <2>2. source \in Account /\ target \in Account /\ referrer \in Account \cup {None} /\ amount \in Int
    BY <1>1
  <2>3. Counts(source, asset, amount)
    BY <2>1, <2>2, CountsDaily
  <2>4. OnlySpends(source, asset, amount) /\ NoneDeniedGains
    BY <1>3, <2>2, ReferralFlows
  <2> QED
    BY <2>2, <2>3, <2>4 DEF SourcePays
<1>4. ASSUME NEW source \in Sources, NEW batch \in Batches, NEW asset \in Asset, NEW opt,
             BatchFundCAddress(source, batch, asset, opt)
      PROVE  SourcePays
  <2> DEFINE delivered == BatchDelivered(batch)
  <2>1. /\ WithinDailyLimit(source, asset, delivered)
        /\ usage' = AddVolume(CountDaily(usage, source, asset, delivered),
                              source, asset, delivered)
    BY <1>4 DEF BatchFundCAddress
  <2>2. source \in Account
    BY <1>1
  <2>3. delivered \in Int /\ OnlySpends(source, asset, delivered) /\ NoneDeniedGains
    BY <1>4, BatchFlows
  <2> HIDE DEF delivered
  <2>4. Counts(source, asset, delivered)
    BY <2>1, <2>2, <2>3, CountsDaily
  <2> QED
    BY <2>3, <2>4 DEF SourcePays
<1> QED
  BY <1>2, <1>3, <1>4 DEF DirectFunding

(* fund_c_address_with_swap.                                                 *)
LEMMA SwapPays ==
    ASSUME TypeOK, SwapFunding
    PROVE  SourcePays
<1>1. Sources \subseteq Account /\ Targets \subseteq Account /\ Amounts \subseteq Int
  BY StateConstants DEF StateConstants
<1>2. PICK source \in Sources, target \in Targets, opt \in CallOptions, source_asset \in Asset,
           target_asset \in Asset, amount \in Amounts, received \in Amounts, pool \in lists.pools,
           min \in Amounts :
           FundCAddressWithSwap(source, target, source_asset, target_asset, amount, min,
                                pool, received, opt)
  BY DEF SwapFunding
<1>3. /\ WithinDailyLimit(source, source_asset, amount)
      /\ usage' = AddVolume(CountDaily(usage, source, source_asset, amount),
                            source, target_asset, received)
  BY <1>2 DEF FundCAddressWithSwap
<1>4. /\ source \in Account /\ target \in Account
      /\ amount \in Int /\ received \in Int /\ min \in Int
  BY <1>1
<1>5. Counts(source, source_asset, amount)
  BY <1>3, <1>4, CountsDaily
<1>6. OnlySpends(source, source_asset, amount) /\ NoneDeniedGains
  BY <1>2, <1>4, SwapFlows
<1> QED
  BY <1>4, <1>5, <1>6 DEF SourcePays

(* fund_c_address_timelocked.                                                *)
LEMMA TimelockedPays ==
    ASSUME TypeOK, NEW source \in Sources, NEW target, NEW asset \in Asset,
           NEW amount \in Amounts, NEW release_time, NEW opt,
           FundCAddressTimelocked(source, target, asset, amount, release_time, opt)
    PROVE  SourcePays
<1>1. source \in Account /\ amount \in Int
  BY StateConstants DEF StateConstants
<1>2. /\ WithinDailyLimit(source, asset, amount)
      /\ usage' = AddDeposit(CountDaily(usage, source, asset, amount), source, asset, amount)
  BY DEF FundCAddressTimelocked
<1>3. Counts(source, asset, amount)
  BY <1>1, <1>2, CountsDaily
<1>4. OnlySpends(source, asset, amount) /\ NoneDeniedGains
  BY <1>1, TimelockedFlows
<1> QED
  BY <1>1, <1>3, <1>4 DEF SourcePays

(* reveal_fund, long after the commitment, and execute_meta_fund.            *)
LEMMA SignedPays ==
    ASSUME TypeOK, CommittersFund, CommitReveal \/ MetaFunding
    PROVE  SourcePays \/ balance' = balance
<1>1. Sources \subseteq Account /\ Targets \subseteq Account /\ Amounts \subseteq Int
  BY StateConstants DEF StateConstants
<1>2. ASSUME NEW id \in DOMAIN commitments, NEW amount \in Amounts, RevealFund(id, amount)
      PROVE  SourcePays
  <2> DEFINE entry == commitments[id]
             source == entry.source
             target == entry.target
             asset == entry.asset
  <2>1. /\ entry # None /\ CheckAmount(amount) /\ CheckAccess(target)
        /\ WithinDailyLimit(source, asset, amount)
        /\ Deliver(source, target, asset, amount)
        /\ usage' = AddVolume(CountDaily(usage, source, asset, amount), source, asset, amount)
    BY <1>2 DEF RevealFund
  <2>2. entry \in CommitmentEntry
    BY <2>1 DEF TypeOK
  <2>3. target \in Account /\ asset \in Asset
    BY <2>2 DEF CommitmentEntry
  <2>4. source \in Sources
    BY <2>1 DEF CommittersFund
  <2> HIDE DEF source, target, asset, entry
  <2>5. source \in Account /\ amount \in Int
    BY <1>1, <2>4
  <2>6. Counts(source, asset, amount)
    BY <2>1, <2>3, <2>5, CountsDaily
  <2>7. OnlySpends(source, asset, amount) /\ NoneDeniedGains
    BY <2>1, <2>3, <2>4, <2>5, DeliverFlows
  <2> QED
    BY <2>3, <2>4, <2>5, <2>6, <2>7 DEF SourcePays
<1>3. ASSUME NEW source \in Sources, NEW target \in Targets, NEW asset \in Asset,
             NEW amount \in Amounts, NEW nonce, NEW deadline,
             ExecuteMetaFund(source, target, asset, amount, nonce, deadline)
      PROVE  SourcePays
  <2>1. /\ CheckAmount(amount) /\ CheckAccess(target) /\ WithinDailyLimit(source, asset, amount)
        /\ Deliver(source, target, asset, amount)
        /\ usage' = AddVolume(AddDeposit(CountDaily(usage, source, asset, amount),
                                         source, asset, amount), source, asset, amount)
    BY <1>3 DEF ExecuteMetaFund
  <2>2. source \in Account /\ target \in Account /\ amount \in Int
    BY <1>1
  <2>3. Counts(source, asset, amount)
    BY <2>1, <2>2, CountsDaily
  <2>4. OnlySpends(source, asset, amount) /\ NoneDeniedGains
    BY <2>1, <2>2, DeliverFlows
  <2> QED
    BY <2>2, <2>3, <2>4 DEF SourcePays
<1>4. ASSUME NEW source, NEW target, NEW asset, NEW amount, NEW deadline,
             CommitFund(source, target, asset, amount, deadline)
      PROVE  balance' = balance
  BY <1>4 DEF CommitFund
<1>5. ASSUME NEW id, CancelCommitment(id)
      PROVE  balance' = balance
  BY <1>5 DEF CancelCommitment
<1>6. ASSUME NEW source, RegisterMetaSigner(source) \/ UnregisterMetaSigner(source)
      PROVE  balance' = balance
  BY <1>6 DEF RegisterMetaSigner, UnregisterMetaSigner
<1> QED
  BY <1>2, <1>3, <1>4, <1>5, <1>6 DEF CommitReveal, MetaFunding

(* What goes between the bridge and its operators is nobody else's.          *)
LEMMA OperatorsAside ==
    ASSUME TypeOK, NEW asset \in Asset, NEW amount \in Int, NEW o \in Operators,
           \/ balance' = Transfer(balance, asset, Bridge, o, amount)
           \/ balance' = Transfer(balance, asset, o, Bridge, amount)
    PROVE  \A a \in Asset, h \in Outsiders : balance'[a][h] = balance[a][h]
<1>1. o \in Account /\ o \notin Outsiders /\ Outsiders \subseteq Account
  BY StateConstants DEF StateConstants, Outsiders
<1>2. CASE balance' = Transfer(balance, asset, Bridge, o, amount)
  <2>1. Credited(balance', balance, asset, o, amount)
    BY <1>1, <1>2, BalancesTyped, Paid, Zenon
  <2> QED
    BY <1>1, <2>1 DEF Credited
<1>3. CASE balance' = Transfer(balance, asset, o, Bridge, amount)
  <2>1. Debited(balance', balance, asset, o, amount)
    BY <1>1, <1>3, BalancesTyped, Pulled, Zenon
  <2> QED
    BY <1>1, <2>1 DEF Debited
<1> QED
  BY <1>2, <1>3


(* A step that leaves the outsiders' balances alone.                         *)
LEMMA RestingFlows ==
    ASSUME TypeOK, \A a \in Asset, h \in Outsiders : balance'[a][h] = balance[a][h]
    PROVE  NoneSpends /\ NoneDeniedGains
<1>1. \A a \in Asset, h \in Outsiders : balance[a][h] \in Int
  BY BalancesTyped DEF Outsiders
<1> QED
  BY <1>1 DEF NoneSpends, NoneDeniedGains

(* reclaim_tokens, which checks nobody's access.                             *)
SurplusReclaimed ==
    \E asset \in Asset, amount \in Int, destination \in Account, opt \in CallOptions :
        ReclaimTokens(asset, amount, destination, opt)

(* Every step is a source's counted payment, a transfer past the contract, a *)
(* claim, a reclaim of surplus, or takes nothing from an outsider.           *)
LEMMA FlowSteps ==
    ASSUME TypeOK, RolesNamed, CommittersFund, [Next]_vars
    PROVE  \/ SourcePays
           \/ StrayTransfer /\ NoneDeniedGains
           \/ \E id \in DOMAIN timelocks : ClaimTimelocked(id)
           \/ NoneSpends /\ SurplusReclaimed
           \/ NoneSpends /\ NoneDeniedGains
<1>1. /\ Sources \subseteq Account /\ Targets \subseteq Account /\ Amounts \subseteq Int
      /\ ReserveAssets \subseteq Asset
  BY StateConstants DEF StateConstants
<1>2. balance' = balance => NoneSpends /\ NoneDeniedGains
  BY RestingFlows
<1>3. CASE OperatorTransfer
  <2>1. ASSUME NEW asset \in Asset, NEW amount \in Amounts, NEW opt,
               WithdrawFees(asset, amount, opt)
        PROVE  NoneSpends /\ NoneDeniedGains
    <3>1. balance' = Transfer(balance, asset, Bridge, config.fee_collector, amount)
      BY <2>1 DEF WithdrawFees
    <3> QED
      BY <1>1, <3>1, OperatorsAside, RestingFlows DEF RolesNamed
  <2>2. ASSUME NEW asset \in Asset, NEW amount \in Amounts, NEW destination \in Account,
               NEW opt \in CallOptions, ReclaimTokens(asset, amount, destination, opt)
        PROVE  NoneSpends /\ SurplusReclaimed
    <3>1. amount \in Int
      BY <1>1
    <3>2. amount > 0 /\ balance' = Transfer(balance, asset, Bridge, destination, amount)
      BY <2>2, <3>1, ReclaimEffect
    <3>3. Credited(balance', balance, asset, destination, amount)
      BY <3>1, <3>2, BalancesTyped, Paid, Zenon
    <3>4. \A a \in Asset, h \in Account : balance[a][h] \in Int
      BY BalancesTyped
    <3>5. NoneSpends
      BY <3>1, <3>2, <3>3, <3>4 DEF Credited, NoneSpends, Outsiders
    <3> QED
      BY <2>2, <3>1, <3>5 DEF SurplusReclaimed
  <2> QED
    BY <1>3, <2>1, <2>2 DEF OperatorTransfer
<1>4. CASE StrayTransfer
  <2>1. PICK from \in Sources, asset \in Asset, amount \in Amounts :
            SendToBridge(from, asset, amount)
    BY <1>4 DEF StrayTransfer
  <2>2. balance' = Transfer(balance, asset, from, Bridge, amount)
    BY <2>1 DEF SendToBridge
  <2>3. from \in Account /\ amount \in Int
    BY <1>1
  <2>4. Debited(balance', balance, asset, from, amount)
    BY <2>2, <2>3, BalancesTyped, Pulled, Zenon
  <2>5. \A a \in Asset, h \in Account : balance[a][h] \in Int
    BY BalancesTyped
  <2>6. NoneDeniedGains
    BY <2>4, <2>5 DEF Debited, NoneDeniedGains, Outsiders
  <2> QED
    BY <1>4, <2>6
<1>5. CASE Timelocks
  BY <1>5, TimelockedPays DEF Timelocks
<1>6. CASE CrossChain
  <2>1. ASSUME NEW asset \in ReserveAssets, NEW amount \in Amounts,
               FundCrosschainReserve(asset, amount) \/ WithdrawCrosschainReserve(asset, amount)
        PROVE  NoneSpends /\ NoneDeniedGains
    <3>1. \/ balance' = Transfer(balance, asset, config.admin, Bridge, amount)
          \/ balance' = Transfer(balance, asset, Bridge, config.admin, amount)
      BY <2>1 DEF FundCrosschainReserve, WithdrawCrosschainReserve
    <3> QED
      BY <1>1, <3>1, OperatorsAside, RestingFlows DEF RolesNamed
  <2>2. ASSUME NEW tx, NEW target \in Targets, NEW asset \in Asset, NEW amount \in Amounts,
               NEW signers, FundCAddressCrosschain(tx, target, asset, amount, signers)
        PROVE  NoneSpends /\ NoneDeniedGains
    BY <1>1, <2>2, CrosschainFlows DEF NoneSpends, Outsiders
  <2> QED
    BY <1>6, <2>1, <2>2 DEF CrossChain
<1>7. CASE CommitReveal \/ MetaFunding
  BY <1>2, <1>7, SignedPays
<1>8. CASE Registry \/ Administration \/ CloseLedger \/ UNCHANGED vars
  BY <1>2, <1>8, RegistryFrame, AdministrationFrame
  DEF fundVars, untouchedByAdmin, CloseLedger, vars
<1> QED
  BY <1>3, <1>4, <1>5, <1>6, <1>7, <1>8, DirectPays, SwapPays, StepKinds DEF Funding

(* A daily limit, once set, bounds what every entry point takes from its     *)
(* source, also where the call comes long after the source signed for it.    *)
THEOREM BridgeOutflowWithinLimit == Spec => OutflowWithinLimit
<1> DEFINE Limited(s, a) ==
             \/ usage[s][a].limit = 0
             \/ balance[a][s] - balance'[a][s] <= 0
             \/ StrayTransfer
             \/ /\ balance[a][s] - balance'[a][s]
                       <= usage'[s][a].used[Today] - usage[s][a].used[Today]
                /\ usage'[s][a].used[Today] <= usage[s][a].limit
<1>1. ASSUME TypeOK, TypeOK', RolesNamed, CommittersFund, [Next]_vars,
             NEW s \in Sources \ (Operators \cup lists.pools), NEW a \in Asset
      PROVE  Limited(s, a)
  <2>1. s \in Outsiders /\ s \in Account
    BY StateConstants DEF StateConstants, Outsiders
  <2>2. balance[a][s] \in Int /\ balance'[a][s] \in Int
    <3>1. balance'[a][s] \in 0..I128_MAX /\ 0..I128_MAX \subseteq Int
      BY <1>1, <2>1, FeeConstants DEF TypeOK, Holder, FeeConstants
    <3> QED
      BY <1>1, <2>1, <3>1, BalancesTyped
  <2>3. CASE SourcePays
    <3>1. PICK source \in Sources, asset \in Asset, amount \in Int :
              /\ OnlySpends(source, asset, amount)
              /\ Counts(source, asset, amount)
      BY <2>3 DEF SourcePays
    <3>2. balance'[a][s] >= balance[a][s] - (IF s = source /\ a = asset THEN amount ELSE 0)
      BY <2>1, <3>1 DEF OnlySpends
    <3>3. CASE s = source /\ a = asset
      <4> DEFINE before == usage[s][a].used[Today]
                 after == usage'[s][a].used[Today]
                 limit == usage[s][a].limit
      <4>1. limit # 0 => after = before + amount /\ before + amount <= limit
        BY <3>1, <3>3 DEF Counts, WithinDailyLimit
      <4>2. before \in Int
        <5>1. Today \in Day
          BY <1>1, TodayTyped DEF TypeOK
        <5>2. usage[s][a] \in SourceUsage
          BY <1>1, <2>1 DEF TypeOK
        <5> QED
          BY <5>1, <5>2, FeeConstants DEF SourceUsage, I128, FeeConstants
      <4> HIDE DEF before, after, limit
      <4>3. limit = 0 \/ (balance[a][s] - balance'[a][s] <= after - before /\ after <= limit)
        BY <2>2, <3>2, <3>3, <4>1, <4>2
      <4> QED
        BY <4>3 DEF before, after, limit
    <3>4. CASE ~(s = source /\ a = asset)
      BY <2>2, <3>2, <3>4
    <3> QED
      BY <3>3, <3>4
  <2>4. CASE \E id \in DOMAIN timelocks : ClaimTimelocked(id)
    <3>1. balance'[a][s] >= balance[a][s]
      BY <1>1, <2>1, <2>4, ClaimFlows
    <3> QED
      BY <2>2, <3>1
  <2>5. CASE NoneSpends
    <3>1. balance'[a][s] >= balance[a][s]
      BY <2>1, <2>5 DEF NoneSpends
    <3> QED
      BY <2>2, <3>1
  <2> QED
    BY <1>1, <2>3, <2>4, <2>5, FlowSteps
<1>2. TypeOK /\ TypeOK' /\ RolesNamed /\ CommittersFund /\ [Next]_vars
          => \A s \in Sources \ (Operators \cup lists.pools), a \in Asset : Limited(s, a)
  BY <1>1
<1> QED
  BY <1>2, BridgeTypeCorrect, RolesInvariant, CommittersInvariant, PTL
  DEF Spec, OutflowWithinLimit

(* Whatever was committed, batched, signed or attested before the target was *)
(* denied, nothing but its own matured deposit reaches it afterwards, unless *)
(* the administrator gives it tokens that belong to nobody.                  *)
THEOREM BridgeDeniedReceiveNothing == Spec => DeniedReceiveNothing
<1> DEFINE Denied(t) == t \in lists.blocked \/ (config.allowlist_mode /\ t \notin lists.allowlisted)
           Own(t) == \E id \in DOMAIN timelocks : /\ timelocks[id].target = t
                                                  /\ ~timelocks[id].claimed
                                                  /\ timelocks'[id].claimed
<1>1. ASSUME TypeOK, TypeOK', RolesNamed, CommittersFund, [Next]_vars,
             NEW t \in Targets \ (Sources \cup Operators \cup lists.pools), NEW a \in Asset,
             Denied(t), balance'[a][t] > balance[a][t]
      PROVE  Own(t) \/ FromSurplus(t, a)
  <2>1. t \in Outsiders /\ t \in Account /\ t \notin Sources
    BY StateConstants DEF StateConstants, Outsiders
  <2>2. ~CheckAccess(t)
    BY <1>1 DEF CheckAccess
  <2>3. balance[a][t] \in Int /\ balance'[a][t] \in Int
    <3>1. balance'[a][t] \in 0..I128_MAX /\ 0..I128_MAX \subseteq Int
      BY <1>1, <2>1, FeeConstants DEF TypeOK, Holder, FeeConstants
    <3> QED
      BY <1>1, <2>1, <3>1, BalancesTyped
  <2>4. ~NoneDeniedGains
    <3>1. NoneDeniedGains => balance'[a][t] <= balance[a][t]
      BY <2>1, <2>2 DEF NoneDeniedGains
    <3> QED
      BY <1>1, <2>3, <3>1
  <2>5. CASE SurplusReclaimed
    <3>1. PICK asset \in Asset, amount \in Int, destination \in Account, opt \in CallOptions :
              ReclaimTokens(asset, amount, destination, opt)
      BY <2>5 DEF SurplusReclaimed
    <3>2. /\ amount <= Reclaimable(asset)
          /\ balance' = Transfer(balance, asset, Bridge, destination, amount)
          /\ UNCHANGED <<counters, reserve, timelocks>>
          /\ balance'[asset][Bridge] = balance[asset][Bridge] - amount
      BY <1>1, <3>1, ReclaimEffect
    <3>3. Credited(balance', balance, asset, destination, amount)
      BY <1>1, <3>1, <3>2, BalancesTyped, Paid, Zenon
    <3>4. t = destination /\ a = asset /\ balance'[a][t] = balance[a][t] + amount
      BY <1>1, <2>1, <2>3, <3>3 DEF Credited
    <3>5. /\ Reclaimable(a) \in Int
          /\ Reclaimable(a)' = Reclaimable(a) - amount
      BY <1>1, <3>1, <3>2, <3>4, FundsTyped DEF Reclaimable
    <3>6. /\ balance'[a][t] - balance[a][t] = Reclaimable(a) - Reclaimable(a)'
          /\ Reclaimable(a)' >= 0
      BY <2>3, <3>1, <3>2, <3>4, <3>5
    <3> QED
      BY <3>2, <3>6 DEF FromSurplus
  <2>6. ASSUME NEW id \in DOMAIN timelocks, ClaimTimelocked(id)
        PROVE  Own(t)
    <3>1. timelocks[id].target = t
      BY <1>1, <2>1, <2>3, <2>6, ClaimFlows
    <3>2. timelocks \in Seq(TimelockEntry)
      BY <1>1 DEF TypeOK
    <3>3. timelocks[id] \in TimelockEntry
      BY <2>6, <3>2
    <3>4. ~timelocks[id].claimed /\ timelocks' = [timelocks EXCEPT ![id].claimed = TRUE]
      BY <2>6 DEF ClaimTimelocked
    <3>5. timelocks'[id] = [timelocks[id] EXCEPT !.claimed = TRUE]
      BY <2>6, <3>2, <3>4
    <3>6. timelocks'[id].claimed
      BY <3>3, <3>5 DEF TimelockEntry
    <3> QED
      BY <3>1, <3>4, <3>6
  <2> QED
    BY <1>1, <2>4, <2>5, <2>6, FlowSteps DEF SourcePays
<1>2. TypeOK /\ TypeOK' /\ RolesNamed /\ CommittersFund /\ [Next]_vars
          => DeniedGainOwnOrSurplus
  BY <1>1 DEF DeniedGainOwnOrSurplus
<1> QED
  BY <1>2, BridgeTypeCorrect, RolesInvariant, CommittersInvariant, PTL
  DEF Spec, DeniedReceiveNothing

-----------------------------------------------------------------------------
(* Deposits and commitments as promised payouts.                             *)

(* What the abstract specification asks of the balances when a promise with  *)
(* these terms is kept.                                                      *)
Settled(payer, payee, asset, amount) ==
    \E net \in 0..amount :
        /\ (amount - net) * FEE_DENOMINATOR <= MAX_FEE_BPS * amount
        /\ \A a \in Asset, h \in Account \ {payer} :
              balance'[a][h] = balance[a][h] + (IF h = payee /\ a = asset THEN net ELSE 0)
        /\ \A a \in Asset :
              balance'[a][payer] >= balance[a][payer] - (IF a = asset THEN amount ELSE 0)

(* Whatever the cap, the tier and the configured rate, the fee is within the *)
(* contract's maximum.                                                       *)
LEMMA FeeWithinMaximum ==
    ASSUME TypeOK, NEW source \in Account, NEW asset \in Asset, NEW amount \in Nat,
           NEW rate, rate = TieredRate(source, asset) \/ rate = FlatRate(asset)
    PROVE  /\ CalculateFee(amount, rate) \in 0..amount
           /\ CalculateFee(amount, rate) * FEE_DENOMINATOR <= MAX_FEE_BPS * amount
<1>1. fee_cap[asset] \in 0..MAX_FEE_BPS
  BY DEF TypeOK
<1>2. rate \in 0..FEE_DENOMINATOR /\ rate <= fee_cap[asset]
  BY RatesTyped, RatesWithinCap
<1>3. MAX_FEE_BPS \in Nat
  BY FeeConstants DEF FeeConstants
<1>4. rate <= MAX_FEE_BPS
  BY <1>1, <1>2, <1>3, FeeConstants DEF FeeConstants
<1> QED
  BY <1>2, <1>3, <1>4, FeeWithinCap

(* reveal_fund pays the target out of the source's account.                  *)
LEMMA DeliverSettles ==
    ASSUME TypeOK, NEW source \in Account, NEW target \in Account, NEW asset \in Asset,
           NEW amount \in Int, CheckAmount(amount), Deliver(source, target, asset, amount)
    PROVE  Settled(source, target, asset, amount)
<1> DEFINE fee == CalculateFee(amount, TieredRate(source, asset))
           net == amount - fee
           pulled == Transfer(balance, asset, source, Bridge, amount)
           paid == Transfer(pulled, asset, Bridge, target, net)
<1>1. balance' = MintLoyalty(paid, counters', source)
  BY DEF Deliver
<1>2. amount \in Nat
  BY DEF CheckAmount
<1>3. fee \in 0..amount /\ fee * FEE_DENOMINATOR <= MAX_FEE_BPS * amount
  BY <1>2, FeeWithinMaximum
<1> HIDE DEF fee
<1>4. net \in 0..amount /\ net \in Int /\ amount - net = fee
  BY <1>2, <1>3
<1> HIDE DEF net
<1>5. pulled \in Balances /\ Debited(pulled, balance, asset, source, amount)
  BY BalancesTyped, Pulled, Zenon
<1> HIDE DEF pulled
<1>6. paid \in Balances /\ Credited(paid, pulled, asset, target, net)
  BY <1>4, <1>5, Paid, Zenon
<1> HIDE DEF paid
<1>7. \A a \in Asset, h \in Account :
          /\ balance'[a][h] \in Int /\ balance'[a][h] >= paid[a][h]
          /\ h # source => balance'[a][h] = paid[a][h]
  BY <1>1, <1>6, BalancesTyped, MintEffect
<1>8. \A a \in Asset, h \in Account : /\ balance[a][h] \in Int /\ pulled[a][h] \in Int
                                      /\ paid[a][h] \in Int
  BY <1>5, <1>6, BalancesTyped DEF Balances, Holder
<1>9. ASSUME NEW a \in Asset, NEW h \in Account \ {source}
      PROVE  balance'[a][h] = balance[a][h] + (IF h = target /\ a = asset THEN net ELSE 0)
  BY <1>4, <1>5, <1>6, <1>7, <1>8 DEF Debited, Credited
<1>10. ASSUME NEW a \in Asset
       PROVE  balance'[a][source] >= balance[a][source] - (IF a = asset THEN amount ELSE 0)
  <2>1. balance'[a][source] >= paid[a][source] /\ balance'[a][source] \in Int
    BY <1>7
  <2>2. paid[a][source] >= pulled[a][source]
    BY <1>2, <1>4, <1>6, <1>8 DEF Credited
  <2>3. pulled[a][source] = balance[a][source] - (IF a = asset THEN amount ELSE 0)
    BY <1>5, <1>8 DEF Debited
  <2> QED
    BY <1>8, <2>1, <2>2, <2>3
<1>11. (amount - net) * FEE_DENOMINATOR <= MAX_FEE_BPS * amount
  BY <1>3, <1>4
<1> QED
  BY <1>4, <1>9, <1>10, <1>11 DEF Settled

(* claim_timelocked pays the target out of what the bridge holds.            *)
LEMMA ClaimSettles ==
    ASSUME TypeOK, NEW id \in DOMAIN timelocks, ClaimTimelocked(id)
    PROVE  Settled(Bridge, timelocks[id].target, timelocks[id].asset, timelocks[id].amount)
<1> DEFINE asset == timelocks[id].asset
           amount == timelocks[id].amount
           target == timelocks[id].target
           fee == CalculateFee(amount, FlatRate(asset))
           net == amount - fee
<1>1. balance' = Transfer(balance, asset, Bridge, target, net)
  BY DEF ClaimTimelocked
<1>2. asset \in Asset /\ target \in Account /\ amount \in Nat
  <2>1. timelocks[id] \in TimelockEntry
    BY DEF TypeOK
  <2>2. asset \in Asset /\ target \in Account /\ amount \in 1..I128_MAX
    BY <2>1 DEF TimelockEntry
  <2> HIDE DEF asset, target, amount
  <2> QED
    BY <2>2, FeeConstants DEF FeeConstants
<1> HIDE DEF asset, target, amount
<1>3. fee \in 0..amount /\ fee * FEE_DENOMINATOR <= MAX_FEE_BPS * amount
  BY <1>2, FeeWithinMaximum
<1> HIDE DEF fee
<1>4. net \in 0..amount /\ net \in Int /\ amount - net = fee
  BY <1>2, <1>3
<1> HIDE DEF net
<1>5. Credited(balance', balance, asset, target, net)
  BY <1>1, <1>2, <1>4, BalancesTyped, Paid, Zenon
<1>6. ASSUME NEW a \in Asset, NEW h \in Account
      PROVE  balance'[a][h] = balance[a][h] + (IF h = target /\ a = asset THEN net ELSE 0)
  BY <1>5, <1>6, BalancesTyped DEF Credited
<1>7. ASSUME NEW a \in Asset
      PROVE  balance'[a][Bridge] >= balance[a][Bridge] - (IF a = asset THEN amount ELSE 0)
  <2>1. balance'[a][Bridge] = IF a = asset THEN balance[a][Bridge] - net ELSE balance[a][Bridge]
    BY <1>1, <1>2, <1>7, FundsTyped, TransferOut
  <2>2. balance[a][Bridge] \in Int
    BY <1>7, FundsTyped
  <2> QED
    BY <1>2, <1>4, <2>1, <2>2
<1>8. (amount - net) * FEE_DENOMINATOR <= MAX_FEE_BPS * amount
  BY <1>3, <1>4
<1>9. Settled(Bridge, target, asset, amount)
  BY <1>4, <1>6, <1>7, <1>8 DEF Settled
<1> QED
  BY <1>9 DEF target, asset, amount


(* The promises that a sequence of entries stands for.                       *)
DepositPromises(entries) == [id \in DOMAIN entries |-> DepositTerms(entries[id])]

CommitmentPromises(entries) == [id \in DOMAIN entries |-> CommitmentTerms(entries[id])]

(* A new entry is one more promise.                                          *)
LEMMA DepositAppended ==
    ASSUME NEW entries \in Seq(TimelockEntry), NEW entry,
           NEW new, new = DepositPromises(Append(entries, entry))
    PROVE  /\ new = Append(DepositPromises(entries), DepositTerms(entry))
           /\ Len(new) = Len(DepositPromises(entries)) + 1
           /\ new[Len(new)] = DepositTerms(entry)
<1> DEFINE old == DepositPromises(entries)
           p == DepositTerms(entry)
           n == Len(entries)
<1>1. n \in Nat /\ DOMAIN entries = 1..n
  OBVIOUS
<1>2. /\ DOMAIN Append(entries, entry) = 1..(n + 1)
      /\ \A i \in 1..n : Append(entries, entry)[i] = entries[i]
      /\ Append(entries, entry)[n + 1] = entry
  OBVIOUS
<1>3. old = [i \in 1..n |-> DepositTerms(entries[i])]
  BY <1>1 DEF DepositPromises
<1>4. old \in Seq({old[i] : i \in 1..n}) /\ Len(old) = n
  BY <1>1, <1>3
<1>5. new = [i \in 1..(n + 1) |-> IF i = n + 1 THEN p ELSE old[i]]
  BY <1>1, <1>2, <1>3 DEF DepositPromises
<1> HIDE DEF p
<1>6. new = Append(old, p)
  <2> DEFINE Items == {old[i] : i \in 1..n} \cup {p}
  <2>1. old \in Seq(Items) /\ p \in Items
    BY <1>4
  <2> HIDE DEF old, n, Items
  <2>2. /\ Append(old, p) \in Seq(Items) /\ Len(Append(old, p)) = n + 1
        /\ \A i \in 1..n : Append(old, p)[i] = old[i]
        /\ Append(old, p)[n + 1] = p
    BY <1>1, <1>4, <2>1
  <2>3. Append(old, p) = [i \in 1..(n + 1) |-> Append(old, p)[i]]
    <3> DEFINE longer == Append(old, p)
    <3>1. longer \in Seq(Items) /\ Len(longer) = n + 1
      BY <2>2
    <3> HIDE DEF longer
    <3>2. longer \in [1..(n + 1) -> Items]
      BY <3>1
    <3>3. longer = [i \in 1..(n + 1) |-> longer[i]]
      BY <3>2
    <3> QED
      BY <3>3 DEF longer
  <2>4. \A i \in 1..(n + 1) :
            Append(old, p)[i] = IF i = n + 1 THEN p ELSE old[i]
    BY <1>1, <2>2
  <2>5. [i \in 1..(n + 1) |-> Append(old, p)[i]]
            = [i \in 1..(n + 1) |-> IF i = n + 1 THEN p ELSE old[i]]
    BY <2>4, Zenon
  <2> QED
    BY <1>5, <2>3, <2>5, Zenon
<1>7. Len(new) = n + 1 /\ new[n + 1] = p
  <2> HIDE DEF old, n
  <2> QED
    BY <1>1, <1>5
<1> QED
  BY <1>4, <1>6, <1>7 DEF p

LEMMA CommitmentAppended ==
    ASSUME NEW entries \in Seq(CommitmentEntry \cup {None}), NEW entry,
           NEW new, new = CommitmentPromises(Append(entries, entry))
    PROVE  /\ new = Append(CommitmentPromises(entries), CommitmentTerms(entry))
           /\ Len(new) = Len(CommitmentPromises(entries)) + 1
           /\ new[Len(new)] = CommitmentTerms(entry)
<1> DEFINE old == CommitmentPromises(entries)
           p == CommitmentTerms(entry)
           n == Len(entries)
           Entries == CommitmentEntry \cup {None}
<1> HIDE DEF Entries
<1>0. entries \in Seq(Entries)
  BY DEF Entries
<1>1. n \in Nat /\ DOMAIN entries = 1..n
  BY <1>0
<1>2. /\ DOMAIN Append(entries, entry) = 1..(n + 1)
      /\ \A i \in 1..n : Append(entries, entry)[i] = entries[i]
      /\ Append(entries, entry)[n + 1] = entry
  BY <1>0
<1>3. old = [i \in 1..n |-> CommitmentTerms(entries[i])]
  BY <1>1 DEF CommitmentPromises
<1>4. old \in Seq({old[i] : i \in 1..n}) /\ Len(old) = n
  BY <1>1, <1>3
<1>5. new = [i \in 1..(n + 1) |-> IF i = n + 1 THEN p ELSE old[i]]
  BY <1>1, <1>2, <1>3 DEF CommitmentPromises
<1> HIDE DEF p
<1>6. new = Append(old, p)
  <2> DEFINE Items == {old[i] : i \in 1..n} \cup {p}
  <2>1. old \in Seq(Items) /\ p \in Items
    BY <1>4
  <2> HIDE DEF old, n, Items
  <2>2. /\ Append(old, p) \in Seq(Items) /\ Len(Append(old, p)) = n + 1
        /\ \A i \in 1..n : Append(old, p)[i] = old[i]
        /\ Append(old, p)[n + 1] = p
    BY <1>1, <1>4, <2>1
  <2>3. Append(old, p) = [i \in 1..(n + 1) |-> Append(old, p)[i]]
    <3> DEFINE longer == Append(old, p)
    <3>1. longer \in Seq(Items) /\ Len(longer) = n + 1
      BY <2>2
    <3> HIDE DEF longer
    <3>2. longer \in [1..(n + 1) -> Items]
      BY <3>1
    <3>3. longer = [i \in 1..(n + 1) |-> longer[i]]
      BY <3>2
    <3> QED
      BY <3>3 DEF longer
  <2>4. \A i \in 1..(n + 1) :
            Append(old, p)[i] = IF i = n + 1 THEN p ELSE old[i]
    BY <1>1, <2>2
  <2>5. [i \in 1..(n + 1) |-> Append(old, p)[i]]
            = [i \in 1..(n + 1) |-> IF i = n + 1 THEN p ELSE old[i]]
    BY <2>4, Zenon
  <2> QED
    BY <1>5, <2>3, <2>5, Zenon
<1>7. Len(new) = n + 1 /\ new[n + 1] = p
  <2> HIDE DEF old, n
  <2> QED
    BY <1>1, <1>5
<1> QED
  BY <1>4, <1>6, <1>7 DEF p

(* Only a closing ledger moves the clock, and it moves it on.                *)
LEMMA ClockRuns ==
    ASSUME TypeOK, [Next]_vars
    PROVE  /\ ledger'.timestamp >= ledger.timestamp /\ ledger'.sequence >= ledger.sequence
           /\ CloseLedger \/ ledger' = ledger
<1>1. /\ ledger.timestamp \in Nat /\ ledger.sequence \in Nat
      /\ LedgerSeconds \subseteq Nat
  BY StateConstants DEF TypeOK, StateConstants
<1>2. CASE CloseLedger
  BY <1>1, <1>2 DEF CloseLedger
<1>3. CASE ledger' = ledger
  BY <1>1, <1>3
<1>4. CASE Funding
  BY <1>3, <1>4, FundingFrame DEF untouchedByFunding
<1>5. CASE Timelocks
  BY <1>3, <1>5, TimelocksFrame
<1>6. CASE CrossChain
  BY <1>3, <1>6, CrossChainFrame DEF untouchedByCrossChain
<1>7. CASE Registry
  BY <1>3, <1>7, RegistryFrame DEF untouchedByCrossChain
<1>8. CASE CommitReveal \/ MetaFunding
  BY <1>3, <1>8, SignedFrame DEF untouchedBySigned
<1>9. CASE Administration
  BY <1>3, <1>9, AdministrationFrame DEF untouchedByAdmin
<1>10. CASE UNCHANGED vars
  BY <1>3, <1>10 DEF vars
<1> QED
  BY <1>2, <1>4, <1>5, <1>6, <1>7, <1>8, <1>9, <1>10, StepKinds

(* A deposit is touched by its making and its claim alone.                   *)
LEMMA DepositsFrame ==
    ASSUME [Next]_vars, ~Timelocks
    PROVE  UNCHANGED timelocks
<1>1. CASE Funding
  BY <1>1, FundingFrame DEF untouchedByFunding
<1>2. CASE CrossChain
  BY <1>2, CrossChainFrame DEF untouchedByCrossChain
<1>3. CASE Registry
  BY <1>3, RegistryFrame DEF untouchedByCrossChain
<1>4. CASE CommitReveal \/ MetaFunding
  BY <1>4, SignedFrame DEF untouchedBySigned
<1>5. CASE Administration
  BY <1>5, AdministrationFrame DEF untouchedByAdmin
<1>6. CASE CloseLedger \/ UNCHANGED vars
  BY <1>6 DEF CloseLedger, vars
<1> QED
  BY <1>1, <1>2, <1>3, <1>4, <1>5, <1>6, StepKinds

(* A claim or a reveal leaves the terms as they were; a cancellation takes   *)
(* one promise back.                                                         *)
LEMMA DepositTermsStay ==
    ASSUME NEW entries \in Seq(TimelockEntry), NEW id \in DOMAIN entries
    PROVE  DepositPromises([entries EXCEPT ![id].claimed = TRUE]) = DepositPromises(entries)
<1> DEFINE new == [entries EXCEPT ![id].claimed = TRUE]
<1>1. entries[id] \in TimelockEntry /\ new[id] = [entries[id] EXCEPT !.claimed = TRUE]
  OBVIOUS
<1>2. DOMAIN new = DOMAIN entries /\ \A i \in DOMAIN entries : i # id => new[i] = entries[i]
  OBVIOUS
<1> HIDE DEF new
<1>3. /\ new[id].target = entries[id].target /\ new[id].asset = entries[id].asset
      /\ new[id].amount = entries[id].amount
      /\ new[id].release_time = entries[id].release_time
  BY <1>1 DEF TimelockEntry
<1>4. DepositTerms(new[id]) = DepositTerms(entries[id])
  BY <1>3 DEF DepositTerms
<1>5. \A i \in DOMAIN entries : DepositTerms(new[i]) = DepositTerms(entries[i])
  BY <1>2, <1>4
<1>6. DepositPromises(new) = DepositPromises(entries)
  BY <1>2, <1>5 DEF DepositPromises
<1> QED
  BY <1>6 DEF new

LEMMA CommitmentTermsStay ==
    ASSUME NEW entries \in Seq(CommitmentEntry \cup {None}), NEW id \in DOMAIN entries,
           entries[id] # None
    PROVE  /\ CommitmentPromises([entries EXCEPT ![id].revealed = TRUE])
                  = CommitmentPromises(entries)
           /\ CommitmentPromises([entries EXCEPT ![id] = None])
                  = [CommitmentPromises(entries) EXCEPT ![id] = None]
<1> DEFINE new == [entries EXCEPT ![id].revealed = TRUE]
           gone == [entries EXCEPT ![id] = None]
           old == CommitmentPromises(entries)
<1>1. entries[id] \in CommitmentEntry /\ new[id] = [entries[id] EXCEPT !.revealed = TRUE]
  OBVIOUS
<1>2. /\ DOMAIN new = DOMAIN entries /\ \A i \in DOMAIN entries : i # id => new[i] = entries[i]
      /\ DOMAIN gone = DOMAIN entries /\ \A i \in DOMAIN entries : i # id => gone[i] = entries[i]
      /\ gone[id] = None
  OBVIOUS
<1>3. old = [i \in DOMAIN entries |-> CommitmentTerms(entries[i])]
  BY DEF CommitmentPromises
<1> HIDE DEF new, gone, old
<1>4. new[id] \in CommitmentEntry
  BY <1>1 DEF CommitmentEntry
<1>5. new[id] # None
  BY <1>4, NoneIsNoEntry DEF NoneIsNoEntry
<1>6. /\ new[id].source = entries[id].source /\ new[id].target = entries[id].target
      /\ new[id].asset = entries[id].asset /\ new[id].amount_hash = entries[id].amount_hash
      /\ new[id].deadline = entries[id].deadline
      /\ new[id].committed_at_ledger = entries[id].committed_at_ledger
  BY <1>1 DEF CommitmentEntry
<1>7. CommitmentTerms(new[id]) = CommitmentTerms(entries[id])
  BY <1>5, <1>6 DEF CommitmentTerms
<1>8. \A i \in DOMAIN entries : CommitmentTerms(new[i]) = CommitmentTerms(entries[i])
  BY <1>2, <1>7
<1>9. CommitmentPromises(new) = old
  BY <1>2, <1>3, <1>8 DEF CommitmentPromises
<1>10. \A i \in DOMAIN entries :
          CommitmentTerms(gone[i]) = IF i = id THEN None ELSE CommitmentTerms(entries[i])
  BY <1>2 DEF CommitmentTerms
<1>11. CommitmentPromises(gone) = [old EXCEPT ![id] = None]
  BY <1>2, <1>3, <1>10 DEF CommitmentPromises
<1> QED
  BY <1>9, <1>11 DEF new, gone, old

(* Every step of the contract is a step of the abstract specification of the *)
(* deposits, and one of the abstract specification of the commitments.       *)
LEMMA DepositSteps ==
    ASSUME TypeOK, [Next]_vars
    PROVE  [Deposited!PromiseNext]_(Deposited!promiseVars)
<1> DEFINE promises == [id \in DOMAIN timelocks |-> DepositTerms(timelocks[id])]
           kept == {id \in DOMAIN timelocks : timelocks[id].claimed}
<1>1. timelocks \in Seq(TimelockEntry)
  BY DEF TypeOK
<1>2. promises = DepositPromises(timelocks) /\ promises' = DepositPromises(timelocks')
  BY DEF DepositPromises
<1>3. CASE timelocks' = timelocks
  BY <1>3, ClockRuns DEF Deposited!PromiseNext, Deposited!Elsewhere
<1>4. ASSUME NEW source, NEW target, NEW asset, NEW amount, NEW release_time, NEW opt,
             FundCAddressTimelocked(source, target, asset, amount, release_time, opt)
      PROVE  Deposited!Make
  <2>1. PICK entry : /\ timelocks' = Append(timelocks, entry)
                     /\ entry.release_time = release_time
                     /\ entry.claimed = FALSE
    BY <1>4 DEF FundCAddressTimelocked
  <2>2. release_time > ledger.timestamp /\ ledger' = ledger
    BY <1>4 DEF FundCAddressTimelocked
  <2>3. kept' = kept
    BY <1>1, <2>1
  <2> DEFINE p == DepositTerms(entry)
  <2> HIDE DEF promises, kept
  <2>4. /\ promises' = Append(promises, p) /\ Len(promises') = Len(promises) + 1
        /\ promises'[Len(promises')] = p
    BY <1>1, <1>2, <2>1, DepositAppended
  <2>5. p.opens = release_time /\ p.closes = None
    BY <2>1 DEF DepositTerms
  <2>6. ledger.timestamp < p.opens
    BY <2>2, <2>5 DEF TypeOK
  <2> HIDE DEF p
  <2> QED
    BY <2>2, <2>3, <2>4, <2>5, <2>6 DEF Deposited!Make, promises, kept
<1>5. ASSUME NEW id \in DOMAIN timelocks, ClaimTimelocked(id)
      PROVE  id \in DOMAIN promises /\ Deposited!Keep(id)
  <2> DEFINE p == DepositTerms(timelocks[id])
  <2>1. /\ ~timelocks[id].claimed /\ ledger.timestamp >= timelocks[id].release_time
        /\ timelocks' = [timelocks EXCEPT ![id].claimed = TRUE]
        /\ ledger' = ledger
    BY <1>5 DEF ClaimTimelocked
  <2>2. promises' = promises
    <3>1. DepositPromises([timelocks EXCEPT ![id].claimed = TRUE]) = DepositPromises(timelocks)
      BY <1>1, DepositTermsStay
    <3>2. timelocks' = [timelocks EXCEPT ![id].claimed = TRUE]
      BY <2>1
    <3> HIDE DEF promises
    <3> QED
      BY <1>2, <3>1, <3>2
  <2>3. timelocks[id] \in TimelockEntry
    BY <1>1
  <2>4. kept' = kept \cup {id} /\ id \notin kept
    BY <1>1, <2>1, <2>3 DEF TimelockEntry
  <2>5. promises[id] = p /\ id \in DOMAIN promises
    OBVIOUS
  <2>6. p # None
    <3>1. p \in Terms
      BY <2>3, FeeConstants DEF DepositTerms, TimelockEntry, Terms, FeeConstants
    <3> QED
      BY <3>1, NoneIsNoTerms DEF NoneIsNoTerms
  <2>7. Deposited!Due(p)
    <3>1. ledger.sequence \in Nat
      BY DEF TypeOK
    <3> QED
      BY <2>1, <3>1 DEF DepositTerms, Deposited!Due
  <2>8. Deposited!Settles(p)
    BY <1>5, ClaimSettles DEF Settled, Deposited!Settles, DepositTerms
  <2> HIDE DEF p, promises, kept
  <2> QED
    BY <2>1, <2>2, <2>4, <2>5, <2>6, <2>7, <2>8 DEF Deposited!Keep, promises, kept
<1>6. CASE Timelocks
  BY <1>4, <1>5, <1>6 DEF Timelocks, Deposited!PromiseNext
<1> QED
  BY <1>3, <1>6, DepositsFrame

LEMMA CommitmentSteps ==
    ASSUME TypeOK, [Next]_vars
    PROVE  [Committed!PromiseNext]_(Committed!promiseVars)
<1> DEFINE promises == [id \in DOMAIN commitments |-> CommitmentTerms(commitments[id])]
           kept == {id \in DOMAIN commitments : commitments[id] # None /\ commitments[id].revealed}
           Entries == CommitmentEntry \cup {None}
<1>1. commitments \in Seq(Entries)
  BY DEF TypeOK
<1>2. promises = CommitmentPromises(commitments) /\ promises' = CommitmentPromises(commitments')
  BY DEF CommitmentPromises
<1>3. CASE commitments' = commitments
  BY <1>3, ClockRuns DEF Committed!PromiseNext, Committed!Elsewhere
<1>4. ASSUME NEW id \in DOMAIN commitments, commitments[id] # None
      PROVE  /\ commitments[id] \in CommitmentEntry
             /\ promises[id] = CommitmentTerms(commitments[id]) /\ promises[id] # None
             /\ promises[id].closes # None
  <2>1. commitments[id] \in CommitmentEntry
    BY <1>1, <1>4
  <2>2. CommitmentTerms(commitments[id]) \in Terms
    BY <1>4, <2>1, StateConstants
    DEF CommitmentTerms, CommitmentEntry, Terms, StateConstants
  <2>3. CommitmentTerms(commitments[id]).closes = commitments[id].deadline
    BY <1>4 DEF CommitmentTerms
  <2>4. commitments[id].deadline # None
    BY <2>1, StateConstants DEF CommitmentEntry, StateConstants
  <2> QED
    BY <1>4, <2>1, <2>2, <2>3, <2>4, NoneIsNoTerms DEF NoneIsNoTerms
<1>5. ASSUME NEW source \in Account, NEW target \in Account, NEW asset \in Asset,
             NEW amount \in Int, NEW deadline \in Nat,
             CommitFund(source, target, asset, amount, deadline)
      PROVE  Committed!Make
  <2>1. PICK entry : /\ commitments' = Append(commitments, entry)
                     /\ entry.revealed = FALSE /\ entry.deadline = deadline
                     /\ entry.committed_at_ledger = ledger.sequence
                     /\ entry = [source |-> source, target |-> target, asset |-> asset,
                                 amount_hash |-> amount, deadline |-> deadline,
                                 committed_at_ledger |-> ledger.sequence, revealed |-> FALSE]
    BY <1>5 DEF CommitFund
  <2>2. deadline > ledger.timestamp /\ ledger' = ledger
    BY <1>5 DEF CommitFund, untouchedBySigned
  <2> HIDE DEF Entries
  <2>3. kept' = kept
    BY <1>1, <2>1
  <2> DEFINE p == CommitmentTerms(entry)
  <2> HIDE DEF promises, kept
  <2>4. /\ promises' = Append(promises, p) /\ Len(promises') = Len(promises) + 1
        /\ promises'[Len(promises')] = p
    BY <1>1, <1>2, <2>1, CommitmentAppended DEF Entries
  <2>5. entry # None
    <3>1. entry \in CommitmentEntry
      BY <1>5, <2>1 DEF CommitmentEntry, TypeOK
    <3> QED
      BY <3>1, NoneIsNoEntry DEF NoneIsNoEntry
  <2>6. /\ p.closes = deadline
        /\ p.since = ledger.sequence + COMMIT_REVEAL_MIN_DELAY_LEDGERS
    BY <2>1, <2>5 DEF CommitmentTerms
  <2>7. ledger.sequence <= p.since
    BY <2>6, StateConstants DEF TypeOK, StateConstants
  <2>8. ledger.timestamp < p.closes
    BY <2>2, <2>6 DEF TypeOK
  <2> HIDE DEF p
  <2> QED
    BY <2>2, <2>3, <2>4, <2>7, <2>8 DEF Committed!Make, promises, kept
<1>6. ASSUME NEW id \in DOMAIN commitments, NEW amount \in Int, RevealFund(id, amount)
      PROVE  id \in DOMAIN promises /\ Committed!Keep(id)
  <2> DEFINE p == CommitmentTerms(commitments[id])
             e == commitments[id]
  <2>1. /\ commitments[id] # None /\ ~commitments[id].revealed
        /\ ledger.timestamp <= e.deadline
        /\ ledger.sequence >= e.committed_at_ledger + COMMIT_REVEAL_MIN_DELAY_LEDGERS
        /\ amount = e.amount_hash /\ CheckAmount(amount)
        /\ commitments' = [commitments EXCEPT ![id].revealed = TRUE]
        /\ Deliver(e.source, e.target, e.asset, amount)
        /\ ledger' = ledger
    BY <1>6 DEF RevealFund, untouchedBySigned
  <2>2. /\ e \in CommitmentEntry
        /\ promises[id] = p /\ p # None
    BY <1>4, <2>1
  <2>3. promises' = promises
    <3>1. CommitmentPromises([commitments EXCEPT ![id].revealed = TRUE])
              = CommitmentPromises(commitments)
      BY <1>1, <2>1, CommitmentTermsStay
    <3>2. commitments' = [commitments EXCEPT ![id].revealed = TRUE]
      BY <2>1
    <3> HIDE DEF promises, Entries
    <3> QED
      BY <1>2, <3>1, <3>2
  <2>4. kept' = kept \cup {id} /\ id \notin kept
    <3>1. commitments'[id] = [e EXCEPT !.revealed = TRUE]
      BY <1>1, <2>1
    <3>2. commitments'[id] \in CommitmentEntry /\ commitments'[id].revealed
      BY <2>2, <3>1 DEF CommitmentEntry
    <3>3. commitments'[id] # None
      BY <3>2, NoneIsNoEntry DEF NoneIsNoEntry
    <3>4. /\ DOMAIN commitments' = DOMAIN commitments
          /\ \A j \in DOMAIN commitments \ {id} : commitments'[j] = commitments[j]
      BY <1>1, <2>1
    <3> QED
      BY <2>1, <3>2, <3>3, <3>4
  <2>5. id \in DOMAIN promises
    OBVIOUS
  <2>6. Committed!Due(p)
    <3>1. /\ p.opens = 0 /\ p.closes = e.deadline
          /\ p.since = e.committed_at_ledger + COMMIT_REVEAL_MIN_DELAY_LEDGERS
      BY <2>1 DEF CommitmentTerms
    <3>2. ledger.timestamp \in Nat
      BY StateConstants DEF TypeOK, StateConstants
    <3> QED
      BY <2>1, <3>1, <3>2 DEF Committed!Due
  <2>7. Committed!Settles(p)
    <3>1. e.source \in Account /\ e.target \in Account /\ e.asset \in Asset
      BY <2>2 DEF CommitmentEntry
    <3>2. Settled(e.source, e.target, e.asset, amount)
      BY <2>1, <3>1, DeliverSettles
    <3>3. /\ p.payer = e.source /\ p.payee = e.target /\ p.asset = e.asset /\ p.amount = amount
      BY <2>1 DEF CommitmentTerms
    <3> HIDE DEF p, e
    <3> QED
      BY <3>2, <3>3 DEF Settled, Committed!Settles
  <2> HIDE DEF p, e, promises, kept
  <2> QED
    BY <2>1, <2>2, <2>3, <2>4, <2>5, <2>6, <2>7 DEF Committed!Keep, promises, kept
<1>7. ASSUME NEW id \in DOMAIN commitments, CancelCommitment(id)
      PROVE  id \in DOMAIN promises /\ Committed!Withdraw(id)
  <2>1. /\ commitments[id] # None /\ ~commitments[id].revealed
        /\ commitments' = [commitments EXCEPT ![id] = None]
        /\ UNCHANGED <<ledger, balance>>
    BY <1>7 DEF CancelCommitment, untouchedBySigned
  <2>2. promises[id] # None /\ promises[id].closes # None
    BY <1>4, <2>1
  <2>3. promises' = [promises EXCEPT ![id] = None]
    <3>1. CommitmentPromises([commitments EXCEPT ![id] = None])
              = [CommitmentPromises(commitments) EXCEPT ![id] = None]
      BY <1>1, <2>1, CommitmentTermsStay
    <3>2. commitments' = [commitments EXCEPT ![id] = None]
      BY <2>1
    <3> HIDE DEF promises, Entries
    <3> QED
      BY <1>2, <3>1, <3>2
  <2>4. kept' = kept /\ id \notin kept
    BY <1>1, <2>1
  <2>5. id \in DOMAIN promises
    OBVIOUS
  <2> HIDE DEF promises, kept
  <2> QED
    BY <2>1, <2>2, <2>3, <2>4, <2>5 DEF Committed!Withdraw, promises, kept
<1>8. CASE CommitReveal
  <2>1. /\ Sources \subseteq Account /\ Targets \subseteq Account
        /\ Times \subseteq Nat /\ Amounts \subseteq Int
    BY StateConstants DEF StateConstants
  <2> QED
    BY <1>5, <1>6, <1>7, <1>8, <2>1 DEF CommitReveal, Committed!PromiseNext
<1> QED
  BY <1>3, <1>8, CommitmentsFrame

(* Deposits and commitments are promises: their terms never change, each is  *)
(* paid at most once, when due, in full but for a fee within the contract's  *)
(* maximum, to the party named and at nobody else's expense.                 *)
THEOREM BridgePaysAsPromised == Spec => PayoutsAsPromised
<1>1. Init => Deposited!PromiseInit /\ Committed!PromiseInit
  BY DEF Init, Deposited!PromiseInit, Committed!PromiseInit
<1>2. TypeOK /\ [Next]_vars => /\ [Deposited!PromiseNext]_(Deposited!promiseVars)
                               /\ [Committed!PromiseNext]_(Committed!promiseVars)
  BY DepositSteps, CommitmentSteps
<1> QED
  BY <1>1, <1>2, BridgeTypeCorrect, PTL
  DEF Spec, PayoutsAsPromised, Deposited!PromiseSpec, Committed!PromiseSpec
=============================================================================
