------------------------------ MODULE SdkProofs ------------------------------
(* What holds of every application of the SDK: any calls of its methods, any *)
(* number of retries, of cached keys and of overlapping fetches.             *)
EXTENDS Sdk, FiniteSetTheorems, SequenceTheorems, NaturalsInduction, TLAPS

-----------------------------------------------------------------------------
(* The methods.                                                              *)

(* A mutation submits one transaction; the cached client asks for the        *)
(* account twice; a query builds none.                                       *)
Submits(m) ==
    /\ ~m.query /\ ~m.cached
    /\ m.requests = <<"getAccount", "prepareTransaction", "sendTransaction">>
    /\ ~(m.waits /\ m.splits)

SubmitsCached(m) ==
    /\ ~m.query /\ m.cached /\ ~m.waits /\ ~m.splits
    /\ m.requests = <<"getAccount", "getAccount", "prepareTransaction", "sendTransaction">>

Asks(m) ==
    /\ m.query /\ ~m.cached /\ ~m.waits /\ ~m.splits
    /\ \/ m.requests = <<"simulateTransaction">>
       \/ m.requests = <<"simulateTransaction", "getFeeStats", "getLedgerEntries">>

LEMMA SubmissionSubmits ==
    \A name, account, checked, fn, args :
        LET m == Submission(name, account, checked, fn, args)
        IN  Submits(m) /\ ~m.waits /\ ~m.splits
  BY DEF Submission, Submits

LEMMA CachedSubmits ==
    \A name, account, checked, fn, args :
        SubmitsCached(Cached(Submission(name, account, checked, fn, args)))
<1>1. <<"getAccount">> \o <<"getAccount", "prepareTransaction", "sendTransaction">>
         = <<"getAccount", "getAccount", "prepareTransaction", "sendTransaction">>
  <2> DEFINE a == <<"getAccount">>
             b == <<"getAccount", "prepareTransaction", "sendTransaction">>
             t == <<"getAccount", "getAccount", "prepareTransaction", "sendTransaction">>
  <2>1. /\ a \in Seq(Stages) /\ b \in Seq(Stages) /\ t \in Seq(Stages)
        /\ Len(a) = 1 /\ Len(b) = 3 /\ Len(t) = 4
    <3>1. a \in Seq(Stages) /\ Len(a) = 1
      BY DEF Stages
    <3>2. b \in Seq(Stages) /\ Len(b) = 3
      BY DEF Stages
    <3>3. t \in Seq(Stages) /\ Len(t) = 4
      BY DEF Stages
    <3> HIDE DEF a, b, t
    <3>. QED  BY <3>1, <3>2, <3>3
  <2>2. a[1] = t[1] /\ b[1] = t[2] /\ b[2] = t[3] /\ b[3] = t[4]
    OBVIOUS
  <2> HIDE DEF a, b, t
  <2>3. /\ a \o b \in Seq(Stages) /\ Len(a \o b) = Len(a) + Len(b)
        /\ \A i \in 1 .. Len(a) + Len(b) :
              (a \o b)[i] = IF i <= Len(a) THEN a[i] ELSE b[i - Len(a)]
    BY <2>1, ConcatProperties, Zenon
  <2>4. PICK u : u = a \o b
    OBVIOUS
  <2>5. u \in Seq(Stages) /\ Len(u) = 4 /\ u[1] = t[1] /\ u[2] = t[2] /\ u[3] = t[3] /\ u[4] = t[4]
    BY <2>1, <2>2, <2>3, <2>4
  <2>6. u = t
    BY <2>1, <2>5
  <2>. QED  BY <2>4, <2>6 DEF a, b, t
<1>. QED  BY <1>1 DEF Submission, SubmitsCached, Cached

LEMMA QueryAsks ==
    \A fn, checked, args : Asks(Query(fn, checked, args))
  BY DEF Submission, Asks, Query

(* The ones that differ in more than data.                                   *)
LEMMA VariantsSubmit ==
    \A name, account, checked, fn, args, inputs :
        LET m == Submission(name, account, checked, fn, args)
        IN  /\ Submits(Raw(m, inputs)) /\ Submits(AndWait(m)) /\ Submits(AndWait(Raw(m, inputs)))
            /\ Submits([m EXCEPT !.needs = inputs]) /\ Submits([m EXCEPT !.splits = TRUE])
  BY DEF Submission, Submits, Raw, AndWait

LEMMA VariantsAsk ==
    \A fn, checked, args, inputs :
        LET m == Query(fn, checked, args)
        IN  Asks(Raw(m, inputs)) /\ Asks([m EXCEPT !.optional = TRUE])
  BY DEF Submission, Query, Asks, Raw

LEMMA EstimateAsks == Asks(estimateCost)
<1> DEFINE a == <<"simulateTransaction">>
           b == <<"getFeeStats">>
           c == <<"getLedgerEntries">>
           t == <<"simulateTransaction", "getFeeStats", "getLedgerEntries">>
<1>1. (a \o b) \o c = t
  <2>1. /\ a \in Seq(Stages) /\ b \in Seq(Stages) /\ c \in Seq(Stages)
        /\ Len(a) = 1 /\ Len(b) = 1 /\ Len(c) = 1
    BY DEF Stages
  <2>2. t \in Seq(Stages) /\ Len(t) = 3
    BY DEF Stages
  <2>3. a[1] = t[1] /\ b[1] = t[2] /\ c[1] = t[3]
    OBVIOUS
  <2> HIDE DEF a, b, c, t
  <2>4. /\ a \o b \in Seq(Stages) /\ Len(a \o b) = Len(a) + Len(b)
        /\ \A i \in 1 .. Len(a) + Len(b) :
              (a \o b)[i] = IF i <= Len(a) THEN a[i] ELSE b[i - Len(a)]
    BY <2>1, ConcatProperties, Zenon
  <2>5. PICK u : u = a \o b
    OBVIOUS
  <2>6. u \in Seq(Stages) /\ Len(u) = 2 /\ u[1] = t[1] /\ u[2] = t[2]
    BY <2>1, <2>3, <2>4, <2>5
  <2>7. /\ u \o c \in Seq(Stages) /\ Len(u \o c) = Len(u) + Len(c)
        /\ \A i \in 1 .. Len(u) + Len(c) :
              (u \o c)[i] = IF i <= Len(u) THEN u[i] ELSE c[i - Len(u)]
    BY <2>1, <2>6, ConcatProperties, Zenon
  <2>8. PICK v : v = u \o c
    OBVIOUS
  <2>9. v \in Seq(Stages) /\ Len(v) = 3 /\ v[1] = t[1] /\ v[2] = t[2] /\ v[3] = t[3]
    BY <2>1, <2>3, <2>6, <2>7, <2>8
  <2>10. v = t
    BY <2>2, <2>9
  <2>. QED  BY <2>5, <2>8, <2>10
<1> HIDE DEF a, b, c, t
<1>2. estimateCost.requests = (a \o b) \o c
  BY DEF estimateCost, Query, Submission, getSubentryCount, a, b, c
<1>3. estimateCost.requests = t
  BY <1>1, <1>2
<1>. QED  BY <1>3 DEF estimateCost, Query, Submission, Asks, t

(* What a method of the SDK does is one of these three.                      *)
LEMMA MethodShapes ==
    \A m \in Mutations \cup Queries : Submits(m) \/ SubmitsCached(m) \/ Asks(m)
<1>1. /\ Submits(fundCAddress) /\ Submits(fundCAddressWithReferral) /\ Submits(revealFund)
      /\ Submits(fundCAddressTimelocked) /\ Submits(fundCAddressWithSwap)
  BY SubmissionSubmits, Zenon
     DEF fundCAddress, fundCAddressWithReferral, revealFund, fundCAddressTimelocked,
         fundCAddressWithSwap
<1>2. /\ Submits(withdrawFees) /\ Submits(reclaimTokens) /\ Submits(setFee)
      /\ Submits(setReferralRate) /\ Submits(setLoyaltyToken)
  BY SubmissionSubmits, Zenon
     DEF withdrawFees, reclaimTokens, setFee, setReferralRate, setLoyaltyToken
<1>3. /\ Submits(setFeeTiers) /\ Submits(setFeeCollector) /\ Submits(setAdmin)
      /\ Submits(proposeNewAdmin) /\ Submits(acceptAdmin)
  BY SubmissionSubmits, Zenon
     DEF setFeeTiers, setFeeCollector, setAdmin, proposeNewAdmin, acceptAdmin
<1>4. /\ Submits(proposeNewFeeCollector) /\ Submits(acceptFeeCollector)
      /\ Submits(cancelUpgrade) /\ Submits(executeMetaFund) /\ Submits(addRelayer)
  BY SubmissionSubmits, Zenon
     DEF proposeNewFeeCollector, acceptFeeCollector, cancelUpgrade, executeMetaFund,
         addRelayer
<1>5. /\ Submits(removeRelayer) /\ Submits(setRelayerThreshold) /\ Submits(upgrade)
      /\ Submits(scheduleUpgrade) /\ Submits(executeUpgrade)
  BY SubmissionSubmits, Zenon
     DEF removeRelayer, setRelayerThreshold, upgrade, scheduleUpgrade, executeUpgrade,
         submitAdminWasmHashMutation
<1>6. /\ Submits(commitFund) /\ Submits(commitFundAndWait) /\ Submits(claimTimelocked)
      /\ Submits(fundCrosschain)
  BY VariantsSubmit, Zenon
     DEF commitFund, commitFundAndWait, claimTimelocked, fundCrosschain
<1>7. /\ Submits(fundCAddressTimelockedAndWait) /\ Submits(batchFundCAddresses)
      /\ Submits(scheduleUpgradeAndWait)
  BY VariantsSubmit, Zenon
     DEF fundCAddressTimelockedAndWait, batchFundCAddresses, scheduleUpgradeAndWait,
         fundCAddressTimelocked, scheduleUpgrade, submitAdminWasmHashMutation
<1>8. /\ SubmitsCached(cachedFundCAddress) /\ SubmitsCached(cachedFundCAddressWithSwap)
      /\ SubmitsCached(cachedWithdrawFees) /\ SubmitsCached(cachedUpgrade)
  BY CachedSubmits, Zenon
     DEF cachedFundCAddress, cachedFundCAddressWithSwap, cachedWithdrawFees,
         cachedUpgrade, fundCAddress, fundCAddressWithSwap, withdrawFees, upgrade
<1>9. /\ SubmitsCached(cachedSetFee) /\ SubmitsCached(cachedSetFeeCollector)
      /\ SubmitsCached(cachedSetAdmin)
  BY CachedSubmits, Zenon
     DEF cachedSetFee, cachedSetFeeCollector, cachedSetAdmin
<1>10. /\ Asks(getFee) /\ Asks(queryReferralRate) /\ Asks(getFeeCollector) /\ Asks(getAdmin)
      /\ Asks(getCAddressBalance) /\ Asks(queryTimelocked) /\ Asks(queryCommitment)
      /\ Asks(queryFeeTiers)
  BY QueryAsks, Zenon
     DEF getFee, queryReferralRate, getFeeCollector, getAdmin, getCAddressBalance,
         queryTimelocked, queryCommitment, queryFeeTiers
<1>11. /\ Asks(queryCurrentTier) /\ Asks(getFeeBalance) /\ Asks(getContractBalance)
      /\ Asks(getAllBalances) /\ Asks(isInitialized) /\ Asks(getPendingAdmin)
      /\ Asks(getPendingFeeCollector)
  BY QueryAsks, Zenon
     DEF queryCurrentTier, getFeeBalance, getContractBalance, getAllBalances,
         isInitialized, getPendingAdmin, getPendingFeeCollector
<1>12. /\ Asks(queryPendingUpgrade) /\ Asks(queryRelayerThreshold)
      /\ Asks(getWhitelistedAssets) /\ Asks(isBlocked) /\ Asks(isAllowlisted)
  BY QueryAsks, Zenon
     DEF queryPendingUpgrade, queryRelayerThreshold, getWhitelistedAssets, isBlocked,
         isAllowlisted
<1>13. /\ Asks(queryLoyaltyToken) /\ Asks(queryIsRelayer)
  BY VariantsAsk, Zenon
     DEF queryLoyaltyToken, queryIsRelayer
<1>. QED
  BY <1>1, <1>2, <1>3, <1>4, <1>5, <1>6, <1>7, <1>8, <1>9, <1>10, <1>11, <1>12, <1>13,
     EstimateAsks, Zenon
     DEF Mutations, Queries

-----------------------------------------------------------------------------
(* The encoding of the methods' arguments.                                   *)

Matches(m) == m.args = Signature(m.fn)

LEMMA SubmissionMatches ==
    ASSUME NEW name, NEW account, NEW checked, NEW fn, NEW args, args = Signature(fn)
    PROVE  LET m == Submission(name, account, checked, fn, args) IN
           /\ Matches(m) /\ Matches(AndWait(m)) /\ Matches([m EXCEPT !.splits = TRUE])
           /\ Matches(Cached(m))
           /\ \A inputs : /\ Matches(Raw(m, inputs)) /\ Matches(AndWait(Raw(m, inputs)))
                          /\ Matches([m EXCEPT !.needs = inputs])
  BY DEF Submission, Matches, Raw, AndWait, Cached

LEMMA QueryMatches ==
    ASSUME NEW checked, NEW fn, NEW args, args = Signature(fn)
    PROVE  LET m == Query(fn, checked, args) IN
           /\ Matches(m) /\ Matches([m EXCEPT !.optional = TRUE])
           /\ \A inputs : Matches(Raw(m, inputs))
  BY DEF Submission, Query, Matches, Raw

(* Almost every method passes exactly what the contract's interface lists.   *)
LEMMA SubmissionsMatch ==
    /\ Matches(fundCAddress) /\ Matches(fundCAddressWithReferral) /\ Matches(revealFund)
    /\ Matches(fundCAddressTimelocked) /\ Matches(fundCAddressWithSwap)
    /\ Matches(withdrawFees) /\ Matches(reclaimTokens) /\ Matches(setFee)
    /\ Matches(setReferralRate) /\ Matches(setLoyaltyToken) /\ Matches(setFeeTiers)
    /\ Matches(setFeeCollector) /\ Matches(setAdmin) /\ Matches(proposeNewAdmin)
    /\ Matches(acceptAdmin) /\ Matches(proposeNewFeeCollector)
    /\ Matches(acceptFeeCollector) /\ Matches(cancelUpgrade) /\ Matches(executeMetaFund)
    /\ Matches(addRelayer) /\ Matches(removeRelayer) /\ Matches(setRelayerThreshold)
    /\ Matches(upgrade) /\ Matches(scheduleUpgrade) /\ Matches(executeUpgrade)
<1>1. Matches(fundCAddress)
  BY Zenon DEF fundCAddress, Submission, Matches, Signature, EntryPoints, Parameterless
<1>2. Matches(fundCAddressWithReferral)
  BY Zenon DEF fundCAddressWithReferral, Submission, Matches, Signature, EntryPoints,
         Parameterless
<1>3. Matches(revealFund)
  BY Zenon DEF revealFund, Submission, Matches, Signature, EntryPoints, Parameterless
<1>4. Matches(fundCAddressTimelocked)
  BY Zenon DEF fundCAddressTimelocked, Submission, Matches, Signature, EntryPoints,
         Parameterless
<1>5. Matches(fundCAddressWithSwap)
  BY Zenon DEF fundCAddressWithSwap, Submission, Matches, Signature, EntryPoints, Parameterless
<1>6. Matches(withdrawFees)
  BY Zenon DEF withdrawFees, Submission, Matches, Signature, EntryPoints, Parameterless
<1>7. Matches(reclaimTokens)
  BY Zenon DEF reclaimTokens, Submission, Matches, Signature, EntryPoints, Parameterless
<1>8. Matches(setFee)
  BY Zenon DEF setFee, Submission, Matches, Signature, EntryPoints, Parameterless
<1>9. Matches(setReferralRate)
  BY Zenon DEF setReferralRate, Submission, Matches, Signature, EntryPoints, Parameterless
<1>10. Matches(setLoyaltyToken)
  BY Zenon DEF setLoyaltyToken, Submission, Matches, Signature, EntryPoints, Parameterless
<1>11. Matches(setFeeTiers)
  BY Zenon DEF setFeeTiers, Submission, Matches, Signature, EntryPoints, Parameterless
<1>12. Matches(setFeeCollector)
  BY Zenon DEF setFeeCollector, Submission, Matches, Signature, EntryPoints, Parameterless
<1>13. Matches(setAdmin)
  BY Zenon DEF setAdmin, Submission, Matches, Signature, EntryPoints, Parameterless
<1>14. Matches(proposeNewAdmin)
  BY Zenon DEF proposeNewAdmin, Submission, Matches, Signature, EntryPoints, Parameterless
<1>15. Matches(acceptAdmin)
  BY Zenon DEF acceptAdmin, Submission, Matches, Signature, EntryPoints, Parameterless
<1>16. Matches(proposeNewFeeCollector)
  BY Zenon DEF proposeNewFeeCollector, Submission, Matches, Signature, EntryPoints,
         Parameterless
<1>17. Matches(acceptFeeCollector)
  BY Zenon DEF acceptFeeCollector, Submission, Matches, Signature, EntryPoints, Parameterless
<1>18. Matches(cancelUpgrade)
  BY Zenon DEF cancelUpgrade, Submission, Matches, Signature, EntryPoints, Parameterless
<1>19. Matches(executeMetaFund)
  BY Zenon DEF executeMetaFund, Submission, Matches, Signature, EntryPoints, Parameterless
<1>20. Matches(addRelayer)
  BY Zenon DEF addRelayer, Submission, Matches, Signature, EntryPoints, Parameterless
<1>21. Matches(removeRelayer)
  BY Zenon DEF removeRelayer, Submission, Matches, Signature, EntryPoints, Parameterless
<1>22. Matches(setRelayerThreshold)
  BY Zenon DEF setRelayerThreshold, Submission, Matches, Signature, EntryPoints, Parameterless
<1>23. Matches(upgrade)
  BY Zenon DEF upgrade, Submission, Matches, Signature, EntryPoints, Parameterless
<1>24. Matches(scheduleUpgrade)
  BY Zenon DEF scheduleUpgrade, submitAdminWasmHashMutation, Submission, Matches, Signature,
               EntryPoints, Parameterless
<1>25. Matches(executeUpgrade)
  BY Zenon DEF executeUpgrade, submitAdminWasmHashMutation, Submission, Matches, Signature,
               EntryPoints, Parameterless
<1>. QED  BY <1>1, <1>2, <1>3, <1>4, <1>5, <1>6, <1>7, <1>8, <1>9, <1>10, <1>11, <1>12, <1>13,
             <1>14, <1>15, <1>16, <1>17, <1>18, <1>19, <1>20, <1>21, <1>22, <1>23, <1>24,
             <1>25, Zenon

LEMMA VariantsMatch ==
    /\ Matches(commitFund) /\ Matches(commitFundAndWait)
    /\ Matches(fundCAddressTimelockedAndWait) /\ Matches(claimTimelocked)
    /\ Matches(batchFundCAddresses) /\ Matches(scheduleUpgradeAndWait)
    /\ Matches(fundCrosschain) /\ Matches(cachedFundCAddress)
    /\ Matches(cachedFundCAddressWithSwap) /\ Matches(cachedWithdrawFees)
    /\ Matches(cachedUpgrade)
<1>1. Matches(commitFund) /\ Matches(commitFundAndWait)
  <2>1. Signature("commit_fund")
           = Addresses(<<"source", "target", "asset">>) \o Hash("amount_hash")
             \o Params("u64", <<"deadline">>)
    BY DEF Signature, EntryPoints, Parameterless
  <2>. QED  BY <2>1, SubmissionMatches, Zenon DEF commitFund, commitFundAndWait
<1>2. Matches(fundCAddressTimelockedAndWait)
  <2>1. Signature("fund_c_address_timelocked")
           = Funding \o Params("u64", <<"release_time", "cliff_time">>) \o Replay
    BY DEF Signature, EntryPoints, Parameterless
  <2>. QED  BY <2>1, SubmissionMatches, Zenon
            DEF fundCAddressTimelockedAndWait, fundCAddressTimelocked
<1>3. Matches(claimTimelocked)
  <2>1. Signature("claim_timelocked") = Params("u64", <<"id">>)
    BY DEF Signature, EntryPoints, Parameterless
  <2>. QED  BY <2>1, SubmissionMatches, Zenon DEF claimTimelocked
<1>4. Matches(batchFundCAddresses)
  <2>1. Signature("batch_fund_c_address")
           = Addresses(<<"source">>) \o Params("Vec<Address>", <<"targets">>)
             \o Params("Vec<i128>", <<"amounts">>) \o Addresses(<<"asset">>) \o Replay
    BY DEF Signature, EntryPoints, Parameterless
  <2>. QED  BY <2>1, SubmissionMatches, Zenon DEF batchFundCAddresses
<1>5. Matches(scheduleUpgradeAndWait)
  <2>1. Signature("schedule_upgrade") = Hash("new_wasm_hash") \o Nonce
    BY DEF Signature, EntryPoints, Parameterless
  <2>. QED  BY <2>1, SubmissionMatches, Zenon
            DEF scheduleUpgradeAndWait, scheduleUpgrade, submitAdminWasmHashMutation
<1>6. Matches(fundCrosschain)
  <2>1. Signature("fund_c_address_crosschain")
           = Params("u32", <<"chain_id">>) \o Hash("tx_hash")
             \o Addresses(<<"target", "asset">>) \o Params("i128", <<"amount">>)
             \o Params("Vec<RelayerSig>", <<"sigs">>)
    BY DEF Signature, EntryPoints, Parameterless
  <2>. QED  BY <2>1, SubmissionMatches, Zenon DEF fundCrosschain
<1>7. Matches(cachedFundCAddress)
  <2>1. Signature("fund_c_address") = Funding \o Replay
    BY DEF Signature, EntryPoints, Parameterless
  <2>. QED  BY <2>1, SubmissionMatches, Zenon DEF cachedFundCAddress, fundCAddress
<1>8. Matches(cachedFundCAddressWithSwap)
  <2>1. Signature("fund_c_address_with_swap")
           = Addresses(<<"source", "target", "source_asset", "target_asset">>)
             \o Params("i128", <<"source_amount", "min_target_amount">>)
             \o Params("Vec<Address>", <<"swap_route">>) \o Replay
    BY DEF Signature, EntryPoints, Parameterless
  <2>. QED  BY <2>1, SubmissionMatches, Zenon
            DEF cachedFundCAddressWithSwap, fundCAddressWithSwap
<1>9. Matches(cachedWithdrawFees)
  <2>1. Signature("withdraw_fees")
           = Addresses(<<"asset">>) \o Params("i128", <<"amount">>) \o Nonce
    BY DEF Signature, EntryPoints, Parameterless
  <2>. QED  BY <2>1, SubmissionMatches, Zenon DEF cachedWithdrawFees, withdrawFees
<1>10. Matches(cachedUpgrade)
  <2>1. Signature("upgrade") = Hash("new_wasm_hash") \o Nonce
    BY DEF Signature, EntryPoints, Parameterless
  <2>. QED  BY <2>1, SubmissionMatches, Zenon DEF cachedUpgrade, upgrade
<1>. QED  BY <1>1, <1>2, <1>3, <1>4, <1>5, <1>6, <1>7, <1>8, <1>9, <1>10, Zenon

LEMMA QueriesMatch ==
    /\ Matches(getFee) /\ Matches(queryReferralRate) /\ Matches(getFeeCollector)
    /\ Matches(getAdmin) /\ Matches(queryLoyaltyToken) /\ Matches(queryFeeTiers)
    /\ Matches(isInitialized) /\ Matches(getPendingAdmin) /\ Matches(getPendingFeeCollector)
    /\ Matches(queryPendingUpgrade) /\ Matches(queryRelayerThreshold)
    /\ Matches(getCAddressBalance) /\ Matches(queryTimelocked) /\ Matches(queryCommitment)
    /\ Matches(queryCurrentTier) /\ Matches(getFeeBalance) /\ Matches(getContractBalance)
    /\ Matches(getAllBalances) /\ Matches(queryIsRelayer) /\ Matches(getWhitelistedAssets)
    /\ Matches(isBlocked) /\ Matches(isAllowlisted) /\ Matches(estimateCost)
<1>1. \A fn \in Parameterless : Signature(fn) = <<>>
  BY DEF Signature
<1>2. /\ Matches(getFee) /\ Matches(queryReferralRate) /\ Matches(getFeeCollector)
      /\ Matches(getAdmin)
  <2>1. /\ "query_fee_bps" \in Parameterless /\ "query_referral_rate" \in Parameterless
        /\ "query_fee_collector" \in Parameterless /\ "query_admin" \in Parameterless
    BY DEF Parameterless
  <2>. QED  BY <1>1, <2>1, QueryMatches, Zenon
            DEF getFee, queryReferralRate, getFeeCollector, getAdmin
<1>3. /\ Matches(queryLoyaltyToken) /\ Matches(queryFeeTiers) /\ Matches(isInitialized)
      /\ Matches(getPendingAdmin)
  <2>1. /\ "query_loyalty_token" \in Parameterless /\ "query_fee_tiers" \in Parameterless
        /\ "query_is_initialized" \in Parameterless /\ "query_pending_admin" \in Parameterless
    BY DEF Parameterless
  <2>. QED  BY <1>1, <2>1, QueryMatches, Zenon
            DEF queryLoyaltyToken, queryFeeTiers, isInitialized, getPendingAdmin
<1>4. /\ Matches(getPendingFeeCollector) /\ Matches(queryPendingUpgrade)
      /\ Matches(queryRelayerThreshold)
  <2>1. /\ "query_pending_fee_collector" \in Parameterless
        /\ "query_pending_upgrade" \in Parameterless
        /\ "query_relayer_threshold" \in Parameterless
    BY DEF Parameterless
  <2>. QED  BY <1>1, <2>1, QueryMatches, Zenon
            DEF getPendingFeeCollector, queryPendingUpgrade, queryRelayerThreshold
<1>5. Matches(getCAddressBalance) /\ Matches(queryTimelocked) /\ Matches(queryCommitment)
  <2>1. /\ Signature("query_balance") = Addresses(<<"c_address", "asset">>)
        /\ Signature("query_timelocked") = Params("u64", <<"id">>)
        /\ Signature("query_commitment") = Params("u64", <<"id">>)
    BY DEF Signature, EntryPoints, Parameterless
  <2>. QED  BY <2>1, QueryMatches, Zenon
            DEF getCAddressBalance, queryTimelocked, queryCommitment
<1>6. Matches(queryCurrentTier) /\ Matches(getFeeBalance) /\ Matches(getContractBalance)
  <2>1. /\ Signature("query_current_tier") = Addresses(<<"source", "asset">>)
        /\ Signature("query_accrued_fees") = Addresses(<<"asset">>)
        /\ Signature("query_contract_balance") = Addresses(<<"asset">>)
    BY DEF Signature, EntryPoints, Parameterless
  <2>. QED  BY <2>1, QueryMatches, Zenon
            DEF queryCurrentTier, getFeeBalance, getContractBalance
<1>7. Matches(getAllBalances) /\ Matches(queryIsRelayer) /\ Matches(getWhitelistedAssets)
  <2>1. /\ Signature("query_all_balances") = Params("Vec<Address>", <<"assets">>)
        /\ Signature("query_is_relayer") = Hash("pubkey")
        /\ Signature("query_whitelisted_assets") = Params("u32", <<"offset", "limit">>)
    BY DEF Signature, EntryPoints, Parameterless
  <2>. QED  BY <2>1, QueryMatches, Zenon
            DEF getAllBalances, queryIsRelayer, getWhitelistedAssets
<1>8. Matches(isBlocked) /\ Matches(isAllowlisted)
  <2>1. /\ Signature("query_is_blocked") = Addresses(<<"address">>)
        /\ Signature("query_is_allowlisted") = Addresses(<<"address">>)
    BY DEF Signature, EntryPoints, Parameterless
  <2>. QED  BY <2>1, QueryMatches, Zenon DEF isBlocked, isAllowlisted
<1>9. Matches(estimateCost)
  <2>1. Signature("fund_c_address") = Funding \o Replay
    BY DEF Signature, EntryPoints, Parameterless
  <2>2. estimateCost.fn = "fund_c_address" /\ estimateCost.args = Funding \o Replay
    BY DEF estimateCost, Query, Submission
  <2>. QED  BY <2>1, <2>2, Zenon DEF Matches
<1>. QED  BY <1>2, <1>3, <1>4, <1>5, <1>6, <1>7, <1>8, <1>9, Zenon

(* ... and the cached administration passes no nonce.                        *)
Fits(m) ==
    LET params == Signature(m.fn) IN
    /\ DOMAIN m.args = DOMAIN params
    /\ \A i \in DOMAIN m.args :
          /\ m.args[i].name = params[i].name
          /\ \/ m.args[i].type = params[i].type
             \/ m.args[i].type = "void" /\ params[i].type = "Option<u64>"

LEMMA MatchingFits ==
    ASSUME NEW m, Matches(m)
    PROVE  Fits(m)
  BY Zenon DEF Matches, Fits

LEMMA PairOfSingles ==
    ASSUME NEW S, NEW a \in Seq(S), NEW b \in Seq(S), Len(a) = 1, Len(b) = 1
    PROVE  DOMAIN (a \o b) = 1 .. 2 /\ (a \o b)[1] = a[1] /\ (a \o b)[2] = b[1]
<1>1. /\ a \o b \in Seq(S) /\ Len(a \o b) = Len(a) + Len(b)
      /\ \A i \in 1 .. Len(a) + Len(b) :
            (a \o b)[i] = IF i <= Len(a) THEN a[i] ELSE b[i - Len(a)]
  BY ConcatProperties, Zenon
<1>2. PICK u : u = a \o b
  OBVIOUS
<1>3. DOMAIN u = 1 .. 2 /\ u[1] = a[1] /\ u[2] = b[1]
  BY <1>1, <1>2
<1>. QED  BY <1>2, <1>3

LEMMA WithoutNonceFits ==
    ASSUME NEW m, NEW type, NEW name,
           m.args = Params(type, <<name>>) \o NoNonce,
           Signature(m.fn) = Params(type, <<name>>) \o Nonce
    PROVE  Fits(m)
<1> DEFINE Param == [name : {name, "nonce"}, type : {type, "void", "Option<u64>"}]
<1>1. PICK first : first = Params(type, <<name>>)
  OBVIOUS
<1>2. first \in Seq(Param) /\ Len(first) = 1
  BY <1>1 DEF Params
<1>3. PICK none : none = NoNonce
  OBVIOUS
<1>4. /\ none \in Seq(Param) /\ Len(none) = 1
      /\ none[1].name = "nonce" /\ none[1].type = "void"
  BY <1>3 DEF NoNonce, Params
<1>5. PICK one : one = Nonce
  OBVIOUS
<1>6. /\ one \in Seq(Param) /\ Len(one) = 1
      /\ one[1].name = "nonce" /\ one[1].type = "Option<u64>"
  BY <1>5 DEF Nonce, Params
<1> HIDE DEF Param
<1>7. PICK args : args = first \o none
  OBVIOUS
<1>8. DOMAIN args = 1 .. 2 /\ args[1] = first[1] /\ args[2] = none[1]
  BY <1>2, <1>4, <1>7, PairOfSingles
<1>9. PICK params : params = first \o one
  OBVIOUS
<1>10. DOMAIN params = 1 .. 2 /\ params[1] = first[1] /\ params[2] = one[1]
  BY <1>2, <1>6, <1>9, PairOfSingles
<1>11. m.args = args /\ Signature(m.fn) = params
  BY <1>1, <1>3, <1>5, <1>7, <1>9
<1>12. ASSUME NEW i \in DOMAIN args
       PROVE  /\ args[i].name = params[i].name
              /\ \/ args[i].type = params[i].type
                 \/ args[i].type = "void" /\ params[i].type = "Option<u64>"
  <2>1. i = 1 \/ i = 2
    BY <1>8
  <2>. QED  BY <1>4, <1>6, <1>8, <1>10, <2>1, Zenon
<1>13. DOMAIN args = DOMAIN params
  BY <1>8, <1>10
<1>. QED  BY <1>11, <1>12, <1>13, Zenon DEF Fits

LEMMA MethodsFit ==
    \A m \in Mutations \cup Queries : Fits(m)
<1>1. Fits(cachedSetFee)
  <2>1. Signature("set_fee_bps") = Params("u32", <<"new_fee_bps">>) \o Nonce
    BY DEF Signature, EntryPoints, Parameterless
  <2>2. /\ cachedSetFee.fn = "set_fee_bps"
        /\ cachedSetFee.args = Params("u32", <<"new_fee_bps">>) \o NoNonce
    BY DEF cachedSetFee, Cached, Submission
  <2>. QED  BY <2>1, <2>2, WithoutNonceFits, Zenon
<1>2. Fits(cachedSetFeeCollector)
  <2>1. Signature("set_fee_collector") = Params("Address", <<"new_fee_collector">>) \o Nonce
    BY DEF Signature, EntryPoints, Parameterless, Addresses
  <2>2. /\ cachedSetFeeCollector.fn = "set_fee_collector"
        /\ cachedSetFeeCollector.args = Params("Address", <<"new_fee_collector">>) \o NoNonce
    BY DEF cachedSetFeeCollector, Cached, Submission, Addresses
  <2>. QED  BY <2>1, <2>2, WithoutNonceFits, Zenon
<1>3. Fits(cachedSetAdmin)
  <2>1. Signature("set_admin") = Params("Address", <<"new_admin">>) \o Nonce
    BY DEF Signature, EntryPoints, Parameterless, Addresses
  <2>2. /\ cachedSetAdmin.fn = "set_admin"
        /\ cachedSetAdmin.args = Params("Address", <<"new_admin">>) \o NoNonce
    BY DEF cachedSetAdmin, Cached, Submission, Addresses
  <2>. QED  BY <2>1, <2>2, WithoutNonceFits, Zenon
<1>4. ASSUME NEW m \in Mutations, m \notin {cachedSetFee, cachedSetFeeCollector, cachedSetAdmin}
      PROVE  Matches(m)
  BY <1>4, SubmissionsMatch, VariantsMatch, Zenon DEF Mutations
<1>5. ASSUME NEW m \in Queries
      PROVE  Matches(m)
  BY QueriesMatch, Zenon DEF Queries
<1>. QED  BY <1>1, <1>2, <1>3, <1>4, <1>5, MatchingFits, Zenon

(* Well-formed inputs are encoded as the entry point takes them.             *)
LEMMA FittingConforms ==
    ASSUME NEW c, Fits(Method(c)), request[c].bad = {}
    PROVE  Conforms(Method(c).fn, Encoded(c))
<1> DEFINE args == Method(c).args
           params == Signature(Method(c).fn)
           given == request[c].given
           encoded == Encoded(c)
<1>1. DOMAIN encoded = DOMAIN args
  BY DEF Encoded
<1>2. ASSUME NEW i \in DOMAIN args
      PROVE  Accepts(params[i], encoded[i])
  <2>1. PICK arg, e : arg = args[i] /\ e = encoded[i]
    OBVIOUS
  <2>2. e = [name |-> arg.name,
             type |-> CASE arg.type = "Option<u64>" -> IF arg.name \in given THEN "u64" ELSE "void"
                        [] arg.type = "Option<Address>" ->
                               IF arg.name \in given THEN "Address" ELSE "void"
                        [] OTHER -> arg.type]
    BY <2>1 DEF Encoded
  <2>3. /\ e.name = arg.name
        /\ arg.type = "Option<u64>" => e.type \in {"u64", "void"}
        /\ arg.type = "Option<Address>" => e.type \in {"Address", "void"}
        /\ arg.type \notin {"Option<u64>", "Option<Address>"} => e.type = arg.type
    BY <2>2
  <2>4. /\ arg.name = params[i].name
        /\ \/ arg.type = params[i].type
           \/ arg.type = "void" /\ params[i].type = "Option<u64>"
    BY <2>1 DEF Fits
  <2>5. Accepts(params[i], e)
    BY <2>3, <2>4 DEF Accepts
  <2>. QED  BY <2>1, <2>5
<1>3. DOMAIN args = DOMAIN params
  BY DEF Fits
<1> HIDE DEF args, params, encoded
<1>4. DOMAIN encoded = DOMAIN params /\ \A i \in DOMAIN encoded : Accepts(params[i], encoded[i])
  BY <1>1, <1>2, <1>3
<1>. QED  BY <1>4 DEF Conforms, params, encoded

-----------------------------------------------------------------------------
(* What an application asks for stands.                                      *)

Requested ==
    /\ Calls \subseteq Call
    /\ \A c \in Calls :
          /\ Method(c) \in Mutations \cup Queries /\ AccountOf(c) \in Account
          /\ request[c].chunks \in Nat \ {0} /\ (request[c].chunks = 1 \/ Method(c).splits)
    /\ \A c, d \in Calls :
          "nonce" \in request[c].given \cap request[d].given /\ AccountOf(c) = AccountOf(d)
              => c = d

LEMMA RequestedInitially == Init => Requested
<1> SUFFICES ASSUME Init
             PROVE  Requested
  OBVIOUS
<1>1. PICK app \in Applications : request = app.requests
  BY DEF Init
<1>2. /\ DOMAIN request \subseteq Call
      /\ \A c \in DOMAIN request :
            /\ request[c].method \in Mutations \cup Queries
            /\ request[c].source \in Account /\ request[c].signer \in Account
            /\ request[c].chunks \in Nat \ {0}
            /\ request[c].chunks = 1 \/ request[c].method.splits
  BY <1>1, ApplicationConstants, Zenon DEF ApplicationConstants
<1>3. \A c, d \in DOMAIN request :
          "nonce" \in request[c].given \cap request[d].given
              /\ Payer(request[c]) = Payer(request[d]) => c = d
  BY <1>1, NoncesOfOneCall, Zenon DEF NoncesOfOneCall
<1>4. \A c \in DOMAIN request : Payer(request[c]) \in Account
  BY <1>2 DEF Payer
<1>. QED  BY <1>2, <1>3, <1>4, Zenon DEF Requested, Calls, Method, AccountOf

LEMMA RequestsStand ==
    ASSUME [Next]_vars
    PROVE  request' = request
<1>1. CASE vars' = vars
  BY <1>1 DEF vars, clientVars
<1>2. CASE \E c \in Calls : Begin(c) \/ Proceed(c) \/ Disturb(c)
  BY <1>2 DEF Begin, Proceed, Disturb, Start, submitMutation, Answer, Read, Send, Fault, Lost,
              AnswerLost
<1>3. CASE Ledger
  BY <1>3 DEF Ledger, Include, Expire, clientVars
<1>4. CASE Cache
  BY <1>4 DEF Cache, clientVars
<1>5. CASE Subscriber \/ Poll \/ Events
  BY <1>5 DEF Subscriber, Poll, Events, clientVars
<1>. QED  BY <1>1, <1>2, <1>3, <1>4, <1>5 DEF Next

LEMMA RequestedStill ==
    ASSUME Requested, request' = request
    PROVE  Requested'
  BY DEF Requested, Calls, Method, AccountOf

-----------------------------------------------------------------------------
(* The subscription.                                                         *)

(* Every readable event from the origin to k was dispatched.                 *)
Shown(k) == \A e \in (origin + 1 .. k) \ Unreadable : e \in dispatched

(* An answer is a run of events, the ones after the cursor it was asked for. *)
RunFrom(fetch, k) ==
    /\ fetch.from # Now => k = fetch.from
    /\ \A i \in 1 .. Len(fetch.page) : fetch.page[i] = k + i
    /\ k + Len(fetch.page) <= emitted

Fetched(fetch) ==
    /\ fetch \in [stage : {"none", "asked", "answered"}, from : Now .. emitted, page : Seq(Nat)]
    /\ fetch.stage = "answered" => \E k \in 0 .. emitted : RunFrom(fetch, k)

(* What is behind the cursor, and behind every request that is under way,    *)
(* was dispatched: an answer follows what was shown when it was asked for.   *)
SubscriberInv ==
    /\ SubscriberTypeOK
    /\ DOMAIN fetches = Fetch /\ \A f \in Fetch : Fetched(fetches[f])
    /\ listening = "unused" => \A f \in Fetch : fetches[f].stage = "none"
    /\ listening # "destroyed" => Shown(cursor) /\ \A f \in Fetch : Shown(fetches[f].from)

LEMMA SubscriberStarts ==
    ASSUME NEW start \in {0, Now}, SubscriberInit(start)
    PROVE  SubscriberInv
  BY SubscriberAssumption
     DEF SubscriberInit, SubscriberInv, SubscriberTypeOK, SubscriberAssumption, Fetched, Shown,
         NoFetch, Now

LEMMA SubscriberRests ==
    ASSUME SubscriberInv, UNCHANGED subscriberVars
    PROVE  SubscriberInv'
  BY DEF subscriberVars, SubscriberInv, SubscriberTypeOK, Fetched, RunFrom, Shown

LEMMA FetchedStill ==
    ASSUME NEW fetch, Fetched(fetch), emitted \in Nat, emitted' \in Nat, emitted <= emitted'
    PROVE  Fetched(fetch)'
<1>1. \A k \in 0 .. emitted : k \in 0 .. emitted' /\ (RunFrom(fetch, k) => RunFrom(fetch, k)')
  BY DEF Fetched, RunFrom
<1>2. fetch.from \in Now .. emitted'
  BY DEF Fetched, Now
<1>. QED  BY <1>1, <1>2 DEF Fetched

(* Where only some fetches change.                                           *)
LEMMA SubscriberKeeps ==
    ASSUME SubscriberInv, UNCHANGED <<origin, dispatched, startedAt, cursor>>,
           emitted' \in emitted .. MaxEvents, listening' \in {"yes", "destroyed", listening},
           listening = "destroyed" => listening' = "destroyed",
           DOMAIN fetches' = Fetch,
           \A f \in Fetch : \/ fetches'[f] = fetches[f]
                            \/ /\ listening' # "unused" /\ Fetched(fetches[f])'
                               /\ listening' # "destroyed" => Shown(fetches'[f].from)
    PROVE  SubscriberInv'
<1>1. ASSUME NEW f \in Fetch
      PROVE  Fetched(fetches[f])'
  <2>1. PICK fetched : fetched = fetches[f]
    OBVIOUS
  <2>2. Fetched(fetched)
    BY <2>1 DEF SubscriberInv
  <2>3. emitted \in Nat /\ emitted' \in Nat /\ emitted <= emitted'
    BY SubscriberAssumption DEF SubscriberInv, SubscriberTypeOK, SubscriberAssumption
  <2>4. Fetched(fetched)'
    BY <2>2, <2>3, FetchedStill
  <2>. QED  BY <2>1, <2>4
<1>2. SubscriberTypeOK'
  <2>1. \A f \in Fetch : fetches'[f].stage \in {"none", "asked", "answered"}
    BY <1>1 DEF Fetched
  <2>. QED  BY <2>1, SubscriberAssumption DEF SubscriberInv, SubscriberTypeOK,
               SubscriberAssumption, Now
<1>3. \A k : Shown(k)' = Shown(k)
  BY DEF Shown
<1>. QED  BY <1>1, <1>2, <1>3 DEF SubscriberInv

LEMMA Emits ==
    ASSUME SubscriberInv, Emit
    PROVE  SubscriberInv'
<1>1. emitted' \in emitted .. MaxEvents
  BY SubscriberAssumption DEF SubscriberInv, SubscriberTypeOK, SubscriberAssumption, Emit
<1>2. DOMAIN fetches' = Fetch
  BY DEF SubscriberInv, Emit
<1>. QED  BY <1>1, <1>2, SubscriberKeeps DEF Emit

LEMMA ListensOrNot ==
    ASSUME SubscriberInv, on \/ destroy
    PROVE  SubscriberInv'
<1>1. emitted' \in emitted .. MaxEvents
  BY SubscriberAssumption DEF SubscriberInv, SubscriberTypeOK, SubscriberAssumption, on, destroy
<1>2. DOMAIN fetches' = Fetch
  BY DEF SubscriberInv, on, destroy
<1>. QED  BY <1>1, <1>2, SubscriberKeeps DEF on, destroy

LEMMA AsksForEvents ==
    ASSUME SubscriberInv, NEW f \in Fetch, fetchAndDispatch(f)
    PROVE  SubscriberInv'
<1>1. emitted' \in emitted .. MaxEvents
  BY SubscriberAssumption DEF SubscriberInv, SubscriberTypeOK, SubscriberAssumption,
     fetchAndDispatch
<1>2. DOMAIN fetches' = Fetch
  BY DEF SubscriberInv, fetchAndDispatch
<1>3. fetches'[f] = [stage |-> "asked", from |-> cursor, page |-> <<>>]
  BY DEF SubscriberInv, fetchAndDispatch
<1>4. Fetched(fetches[f])'
  BY <1>3 DEF Fetched, SubscriberInv, SubscriberTypeOK, fetchAndDispatch
<1>5. listening' = "yes" /\ Shown(fetches'[f].from)
  BY <1>3 DEF SubscriberInv, fetchAndDispatch
<1>6. \A g \in Fetch \ {f} : fetches'[g] = fetches[g]
  BY DEF SubscriberInv, fetchAndDispatch
<1>. QED  BY <1>1, <1>2, <1>4, <1>5, <1>6, SubscriberKeeps DEF fetchAndDispatch

LEMMA Answers ==
    ASSUME SubscriberInv, NEW f \in Fetch, getEvents(f)
    PROVE  SubscriberInv'
<1>1. emitted' \in emitted .. MaxEvents
  BY SubscriberAssumption DEF SubscriberInv, SubscriberTypeOK, SubscriberAssumption, getEvents
<1>2. DOMAIN fetches' = Fetch
  BY DEF SubscriberInv, getEvents
<1>3. fetches[f].stage = "asked" /\ fetches[f].from \in Now .. emitted /\ emitted \in Nat
  BY DEF SubscriberInv, SubscriberTypeOK, getEvents, Fetched
<1>4. PICK k \in IF fetches[f].from = Now THEN 0 .. emitted ELSE {fetches[f].from} :
         LET count == IF emitted - k > Limit THEN Limit ELSE emitted - k
         IN  fetches' = [fetches EXCEPT ![f].stage = "answered",
                                        ![f].page = [i \in 1 .. count |-> k + i]]
  BY DEF getEvents
<1>5. k \in 0 .. emitted /\ (fetches[f].from # Now => k = fetches[f].from)
  BY <1>3, <1>4 DEF Now
<1>6. PICK count : count = IF emitted - k > Limit THEN Limit ELSE emitted - k
  OBVIOUS
<1>7. count \in Nat /\ k + count <= emitted
  BY <1>3, <1>5, <1>6, SubscriberAssumption DEF SubscriberAssumption
<1>8. PICK page : page = [i \in 1 .. count |-> k + i]
  OBVIOUS
<1>9. page \in Seq(Nat) /\ Len(page) = count /\ \A i \in 1 .. count : page[i] = k + i
  BY <1>5, <1>7, <1>8
<1>10. PICK old : old = fetches[f]
  OBVIOUS
<1>17. PICK new : new = [old EXCEPT !.stage = "answered", !.page = page]
  OBVIOUS
<1>11. /\ new = [stage |-> "answered", from |-> old.from, page |-> page]
       /\ old.from \in Now .. emitted /\ (old.from # Now => k = old.from)
  BY <1>5, <1>10, <1>17 DEF SubscriberInv, Fetched
<1>12. fetches' = [fetches EXCEPT ![f] = new]
  BY <1>4, <1>6, <1>8, <1>10, <1>17 DEF SubscriberInv
<1>13. fetches'[f] = new /\ \A g \in Fetch \ {f} : fetches'[g] = fetches[g]
  BY <1>12 DEF SubscriberInv
<1>14. emitted' = emitted
  BY DEF getEvents
<1>15. Fetched(new)'
  <2>1. RunFrom(new, k)'
    BY <1>7, <1>9, <1>11, <1>14 DEF RunFrom
  <2>. QED  BY <2>1, <1>3, <1>5, <1>9, <1>11, <1>14 DEF Fetched
<1>16. listening' # "unused" /\ (listening' # "destroyed" => Shown(new.from))
  BY <1>3, <1>10, <1>11 DEF SubscriberInv, getEvents
<1>18. /\ UNCHANGED <<origin, dispatched, startedAt, cursor>>
       /\ listening' = listening
       /\ listening' \in {"yes", "destroyed", listening}
  BY DEF getEvents
<1>19. Fetched(fetches[f])'
  <2>1. fetches'[f] = new
    BY <1>13
  <2>. QED  BY <1>15, <2>1
<1>20. listening' # "destroyed" => Shown(fetches'[f].from)
  BY <1>13, <1>16
<1>. QED  BY <1>1, <1>2, <1>13, <1>16, <1>18, <1>19, <1>20, SubscriberKeeps

LEMMA AnswerFails ==
    ASSUME SubscriberInv, NEW f \in Fetch, dispatchError(f)
    PROVE  SubscriberInv'
<1>1. emitted' \in emitted .. MaxEvents
  BY SubscriberAssumption DEF SubscriberInv, SubscriberTypeOK, SubscriberAssumption, dispatchError
<1>2. DOMAIN fetches' = Fetch /\ fetches'[f] = NoFetch /\ \A g \in Fetch \ {f} : fetches'[g] = fetches[g]
  BY DEF SubscriberInv, dispatchError
<1>3. fetches[f].stage = "asked" /\ emitted \in Nat /\ origin \in Nat /\ emitted' = emitted
  BY DEF SubscriberInv, SubscriberTypeOK, dispatchError
<1>4. Fetched(NoFetch)' /\ Shown(NoFetch.from)
  BY <1>3 DEF Fetched, Shown, NoFetch, Now
<1>5. listening' # "unused"
  BY <1>3 DEF SubscriberInv, dispatchError
<1>. QED  BY <1>1, <1>2, <1>4, <1>5, SubscriberKeeps DEF dispatchError

(* The heart of it: an answer is dispatched and the cursor put behind it,    *)
(* while other answers are still to come.                                    *)
LEMMA Advances ==
    ASSUME SubscriberInv, NEW f \in Fetch, Advance(f)
    PROVE  SubscriberInv'
<1>1. PICK fetch : fetch = fetches[f]
  OBVIOUS
<1>2. /\ fetch.stage = "answered" /\ fetch.page \in Seq(Nat) /\ fetch.from \in Now .. emitted
      /\ emitted \in 0 .. MaxEvents /\ emitted \in Nat /\ origin \in 0 .. emitted /\ dispatched \subseteq 1 .. emitted
      /\ cursor \in Now .. emitted /\ emitted' = emitted /\ listening' = listening
      /\ startedAt' = startedAt
  BY <1>1, SubscriberAssumption
     DEF SubscriberAssumption, SubscriberInv, SubscriberTypeOK, Fetched, Advance
<1>3. PICK k \in 0 .. emitted : RunFrom(fetch, k)
  BY <1>1, <1>2 DEF SubscriberInv, Fetched
<1>4. PICK n : n = Len(fetch.page)
  OBVIOUS
<1>5. /\ n \in Nat /\ k + n <= emitted /\ DOMAIN fetch.page = 1 .. n
      /\ \A i \in 1 .. n : fetch.page[i] = k + i
      /\ fetch.page = <<>> <=> n = 0
  <2>1. fetch.page \in Seq(Nat)
    BY <1>2
  <2>2. n \in Nat /\ DOMAIN fetch.page = 1 .. n /\ (fetch.page = <<>> <=> n = 0)
    BY <1>4, <2>1
  <2>. QED  BY <1>3, <1>4, <2>2 DEF RunFrom
<1>6. Page(f) = k + 1 .. k + n
  <2>1. Page(f) = {fetch.page[i] : i \in 1 .. n}
    BY <1>1, <1>5 DEF Page
  <2>2. ASSUME NEW e \in k + 1 .. k + n
        PROVE  \E i \in 1 .. n : e = fetch.page[i]
    <3>1. e - k \in 1 .. n /\ fetch.page[e - k] = e
      BY <1>5, <2>2
    <3>. QED  BY <3>1
  <2>3. \A i \in 1 .. n : fetch.page[i] \in k + 1 .. k + n
    BY <1>5
  <2>. QED  BY <2>1, <2>2, <2>3
<1>7. dispatched' = IF listening = "yes" THEN dispatched \cup ((k + 1 .. k + n) \ Unreadable)
                    ELSE dispatched
  BY <1>6 DEF Advance, dispatch, parseEvent
<1>8. cursor' = IF n = 0 THEN cursor ELSE k + n
  BY <1>1, <1>4, <1>5 DEF Advance
<1>9. origin' = IF fetch.from = Now /\ n # 0 /\ k + 1 > origin THEN k ELSE origin
  <2>1. origin' = IF fetch.from = Now /\ n # 0 /\ fetch.page[1] > origin
                  THEN fetch.page[1] - 1 ELSE origin
    BY <1>1, <1>5 DEF Advance, MoveOrigin
  <2>2. n # 0 => fetch.page[1] = k + 1
    BY <1>5
  <2>. QED  BY <1>5, <2>1, <2>2
<1>10. DOMAIN fetches' = Fetch /\ fetches'[f] = NoFetch /\ \A g \in Fetch \ {f} : fetches'[g] = fetches[g]
  BY DEF SubscriberInv, Advance
<1>11. SubscriberTypeOK'
  <2>1. \A g \in Fetch : fetches'[g].stage \in {"none", "asked", "answered"}
    <3>1. NoFetch.stage = "none"
      BY DEF NoFetch
    <3>2. \A g \in Fetch : fetches[g].stage \in {"none", "asked", "answered"}
      BY DEF SubscriberInv, SubscriberTypeOK
    <3>. QED  BY <1>10, <3>1, <3>2
  <2>2. dispatched' \subseteq 1 .. emitted
    <3>1. k + 1 .. k + n \subseteq 1 .. emitted
      BY <1>2, <1>5
    <3>. QED  BY <1>2, <1>7, <3>1
  <2>3. cursor' \in Now .. emitted /\ origin' \in 0 .. emitted
    BY <1>2, <1>5, <1>8, <1>9 DEF Now
  <2>4. listening \in {"unused", "yes", "destroyed"} /\ startedAt \in {0, Now}
    BY DEF SubscriberInv, SubscriberTypeOK
  <2>. QED  BY <1>2, <2>1, <2>2, <2>3, <2>4 DEF SubscriberTypeOK
<1>12. \A g \in Fetch : Fetched(fetches[g])'
  <2>1. Fetched(NoFetch)'
    BY <1>2 DEF Fetched, NoFetch, Now
  <2>2. ASSUME NEW fetched, Fetched(fetched)
        PROVE  Fetched(fetched)'
    BY <1>2, <2>2 DEF Fetched, RunFrom
  <2>3. ASSUME NEW g \in Fetch
        PROVE  Fetched(fetches[g])'
    <3>1. PICK fetched : fetched = fetches[g]
      OBVIOUS
    <3>2. Fetched(fetched)' /\ (g # f => fetches'[g] = fetched)
      BY <2>2, <3>1, <1>10 DEF SubscriberInv
    <3>. QED  BY <1>10, <2>1, <3>2
  <2>. QED  BY <2>3
<1>13. listening = "yes" \/ listening = "destroyed"
  BY <1>1, <1>2 DEF SubscriberInv, SubscriberTypeOK
<1>14. CASE listening = "yes"
  <2>1. \A j \in Int : Shown(j) => Shown(j)'
    BY <1>2, <1>5, <1>7, <1>9, <1>14 DEF Shown
  <2>2. ASSUME n # 0
        PROVE  Shown(k + n)'
    <3>1. ASSUME NEW e \in (origin' + 1 .. k + n) \ Unreadable, e <= k
          PROVE  e \in dispatched'
      <4>1. fetch.from # Now
        BY <1>2, <1>3, <1>5, <1>9, <2>2, <3>1
      <4>2. fetch.from = k /\ Shown(k)
        BY <1>1, <1>3, <1>14, <4>1 DEF RunFrom, SubscriberInv
      <4>3. origin' = origin
        BY <1>9, <4>1
      <4>. QED  BY <1>2, <1>7, <1>14, <3>1, <4>2, <4>3 DEF Shown
    <3>2. ASSUME NEW e \in (origin' + 1 .. k + n) \ Unreadable, ~(e <= k)
          PROVE  e \in dispatched'
      BY <1>2, <1>5, <1>7, <1>9, <1>14, <3>2
    <3>3. \A e \in (origin' + 1 .. k + n) \ Unreadable : e \in dispatched'
      BY <3>1, <3>2, Zenon
    <3>. QED  BY <3>3, Zenon DEF Shown
  <2>3. Shown(cursor)'
    <3>1. Shown(cursor)
      BY <1>14 DEF SubscriberInv
    <3>. QED  BY <1>2, <1>8, <2>1, <2>2, <3>1 DEF Now
  <2>4. ASSUME NEW g \in Fetch
        PROVE  Shown(fetches[g].from)'
    <3>1. CASE g = f
      <4>1. origin' \in Nat
        BY <1>2, <1>9
      <4>2. fetches'[g].from = 0
        BY <1>10, <3>1 DEF NoFetch
      <4>3. ASSUME NEW e \in origin' + 1 .. 0
            PROVE  FALSE
        <5>1. PICK o : o = origin'
          OBVIOUS
        <5>2. o \in Nat /\ e \in o + 1 .. 0
          BY <4>1, <4>3, <5>1
        <5>. QED  BY <5>2
      <4>. QED  BY <4>2, <4>3 DEF Shown
    <3>2. CASE g # f
      <4>1. Shown(fetches[g].from) /\ fetches[g].from \in Int
        BY <1>2, <1>14 DEF SubscriberInv, Fetched, Now
      <4>. QED  BY <1>10, <2>1, <3>2, <4>1
    <3>. QED  BY <3>1, <3>2
  <2>. QED  BY <1>2, <1>10, <1>11, <1>12, <1>14, <2>3, <2>4, Zenon DEF SubscriberInv
<1>15. CASE listening = "destroyed"
  BY <1>2, <1>10, <1>11, <1>12, <1>15 DEF SubscriberInv
<1>. QED  BY <1>13, <1>14, <1>15

LEMMA SubscriberInvariant == Spec => []SubscriberInv
<1>1. ASSUME Init
      PROVE  SubscriberInv
  <2>1. PICK app \in Applications : SubscriberInit(app.start)
    BY <1>1 DEF Init
  <2>2. app.start \in {0, Now}
    BY ApplicationConstants DEF ApplicationConstants
  <2>. QED  BY <2>1, <2>2, SubscriberStarts
<1>2. ASSUME SubscriberInv, [Next]_vars
      PROVE  SubscriberInv'
  <2>1. CASE UNCHANGED subscriberVars
    BY <1>2, <2>1, SubscriberRests
  <2>2. CASE Subscriber
    BY <1>2, <2>2, Emits, ListensOrNot, AnswerFails DEF Subscriber
  <2>3. CASE Poll
    BY <1>2, <2>3, AsksForEvents, Advances DEF Poll
  <2>4. CASE Events
    BY <1>2, <2>4, Answers DEF Events
  <2>. QED  BY <1>2, <2>1, <2>2, <2>3, <2>4, Zenon
            DEF Next, Begin, Proceed, Disturb, Ledger, Cache, vars
<1>. QED  BY <1>1, <1>2, PTL DEF Spec

(* events.ts fetchAndDispatch: a timer's tick does not wait for the last     *)
(* one. In whatever order the answers of overlapping fetches arrive, no      *)
(* readable event behind the cursor was passed over, once a ledger to start  *)
(* from was given or found.                                                  *)
THEOREM SdkNoEventSkipped == Spec => []NoEventSkipped
<1>1. SubscriberInv => NoEventSkipped
  BY DEF SubscriberInv, NoEventSkipped, Shown
<1>. QED  BY <1>1, SubscriberInvariant, PTL

-----------------------------------------------------------------------------
(* The cache's list of entries.                                              *)

(* A set of numbers has a least one, because they are well-founded.          *)
LEMMA LeastNatural ==
    ASSUME NEW S \in SUBSET Nat, S # {}
    PROVE  \E x \in S : \A y \in S : x <= y
<1>1. \A x, y \in Nat : y < x => <<y, x>> \in OpToRel(<, Nat)
  BY Zenon DEF OpToRel
<1>2. PICK R : IsWellFoundedOn(R, Nat) /\ \A x, y \in Nat : y < x => <<y, x>> \in R
  BY <1>1, NatLessThanWellFounded, Zenon
<1>3. PICK x \in S : \A y \in S : ~ (<<y, x>> \in R)
  BY <1>2, WFMin
<1>4. ASSUME NEW y \in S
      PROVE  x <= y
  <2>1. ~ (y < x)
    BY <1>2, <1>3
  <2>. QED  BY <2>1
<1>. QED  BY <1>4

(* Induction up to a bound, for a set: the least number left out would have  *)
(* its predecessor in.                                                       *)
LEMMA UpToBound ==
    ASSUME NEW n \in Nat, NEW S, 0 \in S, \A i \in 1 .. n : i - 1 \in S => i \in S
    PROVE  0 .. n \subseteq S
<1> DEFINE Out == (0 .. n) \ S
<1> SUFFICES ASSUME Out # {}
             PROVE  FALSE
  OBVIOUS
<1>1. PICK m \in Out : \A y \in Out : m <= y
  <2>1. Out \in SUBSET Nat
    OBVIOUS
  <2> HIDE DEF Out
  <2>. QED  BY <2>1, LeastNatural
<1>2. m \in 1 .. n /\ m - 1 \in 0 .. n
  BY <1>1
<1>3. m - 1 \in S
  BY <1>1, <1>2
<1>. QED  BY <1>1, <1>2, <1>3

Entry == [key : CacheKey, version : Nat, late : BOOLEAN, filled : Nat, expiresAt : Nat]

(* A map: no key has two entries.                                            *)
Distinct(s) == \A i, j \in 1 .. Len(s) : s[i].key = s[j].key => i = j

(* What is left of a list: some of its entries at some places.               *)
Left(r, s, places) ==
    /\ r \in Seq(Entry) /\ Len(r) <= Len(s) /\ Distinct(r)
    /\ ~(1 .. Len(s) \subseteq places) => Len(r) < Len(s)
    /\ \A i \in 1 .. Len(r) : \E m \in places \cap (1 .. Len(s)) : r[i] = s[m]

(* The lists that Only goes through.                                         *)
Gone(k, s, places, n) ==
    /\ k = [m \in 0 .. n |-> k[m]] /\ k[0] = <<>>
    /\ \A m \in 1 .. n : k[m] = IF m \in places THEN Append(k[m - 1], s[m]) ELSE k[m - 1]

LEMMA OnlyGoes ==
    ASSUME NEW s \in Seq(Entry), NEW places
    PROVE  \E k : Gone(k, s, places, Len(s)) /\ Only(s, places) = k[Len(s)]
<1> DEFINE n == Len(s)
           S == {m \in 0 .. n : \E k : Gone(k, s, places, m)}
           P(k) == k = [m \in 0 .. n |-> IF m = 0 THEN <<>>
                        ELSE IF m \in places THEN Append(k[m - 1], s[m]) ELSE k[m - 1]]
           kept == CHOOSE k : P(k)
<1>1. n \in Nat
  OBVIOUS
<1>2. 0 \in S
  <2>1. Gone([m \in 0 .. 0 |-> <<>>], s, places, 0)
    BY DEF Gone
  <2>. QED  BY <1>1, <2>1
<1>3. ASSUME NEW m \in 1 .. n, m - 1 \in S
      PROVE  m \in S
  <2>1. PICK k : Gone(k, s, places, m - 1)
    BY <1>3
  <2> DEFINE last == IF m \in places THEN Append(k[m - 1], s[m]) ELSE k[m - 1]
             t == [i \in 0 .. m |-> IF i = m THEN last ELSE k[i]]
  <2> HIDE DEF last
  <2>2. t[0] = <<>> /\ t[m] = last /\ t[m - 1] = k[m - 1]
    BY <2>1 DEF Gone
  <2>3. \A i \in 1 .. (m - 1) : t[i] = k[i] /\ t[i - 1] = k[i - 1]
    OBVIOUS
  <2> HIDE DEF t
  <2>4. \A i \in 1 .. (m - 1) : t[i] = IF i \in places THEN Append(t[i - 1], s[i]) ELSE t[i - 1]
    BY <2>1, <2>3, Zenon DEF Gone
  <2>5. t[m] = IF m \in places THEN Append(t[m - 1], s[m]) ELSE t[m - 1]
    BY <2>2, Zenon DEF last
  <2>6. \A i \in 1 .. m : i \in 1 .. (m - 1) \/ i = m
    OBVIOUS
  <2>7. t = [i \in 0 .. m |-> t[i]]
    BY DEF t
  <2>8. Gone(t, s, places, m)
    BY <2>2, <2>4, <2>5, <2>6, <2>7, Zenon DEF Gone
  <2>. QED  BY <1>1, <2>8
<1>4. PICK k : Gone(k, s, places, n)
  <2> HIDE DEF S
  <2>1. 0 .. n \subseteq S
    BY <1>1, <1>2, <1>3, UpToBound
  <2>. QED  BY <1>1, <2>1 DEF S
<1>5. P(k)
  <2>1. \A m \in 0 .. n : m = 0 \/ m \in 1 .. n
    BY <1>1
  <2>2. \A m \in 1 .. n : m # 0
    OBVIOUS
  <2>3. \A m \in 0 .. n : k[m] = IF m = 0 THEN <<>>
                                 ELSE IF m \in places THEN Append(k[m - 1], s[m]) ELSE k[m - 1]
    BY <1>4, <2>1, <2>2, Zenon DEF Gone
  <2>4. k = [m \in 0 .. n |-> k[m]]
    BY <1>4 DEF Gone
  <2>. QED  BY <2>3, <2>4, Zenon
<1>6. P(kept)
  BY <1>5, Zenon
<1>7. Only(s, places) = kept[n]
  BY DEF Only
<1> HIDE DEF kept
<1>8. Gone(kept, s, places, n)
  <2>1. 0 \in 0 .. n /\ \A m \in 1 .. n : m # 0 /\ m \in 0 .. n
    BY <1>1
  <2>2. kept = [m \in 0 .. n |-> kept[m]]
    BY <1>6
  <2>3. \A m \in 0 .. n : kept[m] = IF m = 0 THEN <<>>
                            ELSE IF m \in places THEN Append(kept[m - 1], s[m]) ELSE kept[m - 1]
    BY <1>6, Zenon
  <2>. QED  BY <2>1, <2>2, <2>3, Zenon DEF Gone
<1>. QED  BY <1>7, <1>8

LEMMA OnlyLeaves ==
    ASSUME NEW s \in Seq(Entry), Distinct(s), NEW places
    PROVE  Left(Only(s, places), s, places)
<1> DEFINE n == Len(s)
<1>1. PICK k : Gone(k, s, places, n) /\ Only(s, places) = k[n]
  BY OnlyGoes
<1>2. n \in Nat
  OBVIOUS
<1> HIDE DEF n
<1> DEFINE Part(r, m) ==
               /\ r \in Seq(Entry) /\ Len(r) <= m /\ Distinct(r)
               /\ ~(1 .. m \subseteq places) => Len(r) < m
               /\ \A i \in 1 .. Len(r) : \E j \in places \cap (1 .. m) : r[i] = s[j]
           S == {m \in 0 .. n : Part(k[m], m)}
<1>3. 0 \in S
  <2>1. Part(<<>>, 0)
    BY DEF Distinct
  <2>2. k[0] = <<>> /\ 0 \in 0 .. n
    BY <1>1, <1>2 DEF Gone
  <2> HIDE DEF Part
  <2>. QED  BY <2>1, <2>2
<1>4. ASSUME NEW m \in 1 .. n, m - 1 \in S
      PROVE  m \in S
  <2>1. PICK r : r = k[m - 1]
    OBVIOUS
  <2>2. Part(r, m - 1)
    BY <1>4, <2>1
  <2>3. k[m] = IF m \in places THEN Append(r, s[m]) ELSE r
    BY <1>1, <2>1 DEF Gone
  <2>4. CASE m \notin places
    <3>1. Part(r, m)
      BY <2>2
    <3>2. k[m] = r /\ m \in 0 .. n
      BY <1>2, <2>3, <2>4
    <3>. QED  BY <3>1, <3>2
  <2>5. CASE m \in places
    <3>1. PICK e, t : e = s[m] /\ t = Append(r, e)
      OBVIOUS
    <3>2. e \in Entry
      BY <3>1 DEF n
    <3>3. PICK l : l = Len(r)
      OBVIOUS
    <3>4. /\ l \in Nat /\ l <= m - 1 /\ t \in Seq(Entry) /\ Len(t) = l + 1 /\ t[l + 1] = e
          /\ \A i \in 1 .. l : t[i] = r[i]
      BY <2>2, <3>1, <3>2, <3>3
    <3>5. \A i \in 1 .. l : r[i].key # e.key
      <4>1. ASSUME NEW i \in 1 .. l, r[i].key = e.key
            PROVE  FALSE
        <5>1. PICK j \in 1 .. m - 1 : r[i] = s[j]
          BY <2>2, <3>3
        <5>2. s[j].key = s[m].key /\ j \in 1 .. Len(s) /\ m \in 1 .. Len(s) /\ j # m
          BY <1>2, <3>1, <4>1, <5>1 DEF n
        <5>. QED  BY <5>2 DEF Distinct
      <4>. QED  BY <4>1
    <3>6. Distinct(t)
      <4>1. ASSUME NEW i \in 1 .. l + 1, NEW j \in 1 .. l + 1, t[i].key = t[j].key
            PROVE  i = j
        <5>1. CASE i \in 1 .. l /\ j \in 1 .. l
          BY <2>2, <3>3, <3>4, <4>1, <5>1 DEF Distinct
        <5>2. CASE i = l + 1 /\ j \in 1 .. l
          BY <3>4, <3>5, <4>1, <5>2
        <5>3. CASE j = l + 1 /\ i \in 1 .. l
          BY <3>4, <3>5, <4>1, <5>3
        <5>. QED  BY <3>4, <5>1, <5>2, <5>3
      <4>. QED  BY <3>4, <4>1 DEF Distinct
    <3>7. \A i \in 1 .. l + 1 : \E j \in places \cap (1 .. m) : t[i] = s[j]
      <4>1. ASSUME NEW i \in 1 .. l
            PROVE  \E j \in places \cap (1 .. m) : t[i] = s[j]
        <5>1. PICK j \in places \cap (1 .. m - 1) : r[i] = s[j]
          BY <2>2, <3>3
        <5>. QED  BY <3>4, <5>1
      <4>2. t[l + 1] = s[m] /\ m \in places \cap (1 .. m)
        BY <2>5, <3>1, <3>4
      <4>. QED  BY <3>4, <4>1, <4>2
    <3>8. ~(1 .. m \subseteq places) => Len(t) < m
      <4>1. ~(1 .. m \subseteq places) => ~(1 .. m - 1 \subseteq places)
        BY <2>5
      <4>. QED  BY <2>2, <3>3, <3>4, <4>1
    <3>9. Part(t, m)
      BY <3>4, <3>6, <3>7, <3>8
    <3>10. k[m] = t /\ m \in 0 .. n
      BY <1>2, <2>3, <2>5, <3>1
    <3>. QED  BY <3>9, <3>10
  <2>. QED  BY <2>4, <2>5
<1>5. Part(k[n], n)
  <2> HIDE DEF S
  <2>1. 0 .. n \subseteq S
    BY <1>2, <1>3, <1>4, UpToBound
  <2>. QED  BY <1>2, <2>1 DEF S
<1>. QED  BY <1>1, <1>5 DEF Left, n

(* The last entries of a list.                                               *)
LEMMA EndLeaves ==
    ASSUME NEW s \in Seq(Entry), Distinct(s), NEW first \in 1 .. Len(s)
    PROVE  Left(SubSeq(s, first, Len(s)), s, 1 .. Len(s))
<1>2. PICK n : n = Len(s)
  OBVIOUS
<1>3. n \in Nat /\ first \in 1 .. n /\ first \in Int /\ n \in Int
  BY <1>2
<1>6. \A i \in first .. n : s[i] \in Entry
  BY <1>2, <1>3
<1> DEFINE r == SubSeq(s, first, n)
<1>1. /\ r \in Seq(Entry) /\ Len(r) = n - first + 1
      /\ \A i \in 1 .. n - first + 1 : r[i] = s[first + i - 1]
  <2>1. /\ r \in Seq(Entry) /\ Len(r) = IF first <= n THEN n - first + 1 ELSE 0
        /\ \A i \in 1 .. n - first + 1 : r[i] = s[first + i - 1]
    BY <1>3, <1>6, SubSeqProperties, SMT
  <2> HIDE DEF r
  <2>. QED  BY <1>3, <2>1
<1> HIDE DEF r
<1>4. Distinct(r)
  <2>1. ASSUME NEW i \in 1 .. Len(r), NEW j \in 1 .. Len(r), r[i].key = r[j].key
        PROVE  i = j
    <3>1. first + i - 1 \in 1 .. n /\ first + j - 1 \in 1 .. n
      BY <1>1, <1>2, <1>3
    <3>2. s[first + i - 1].key = s[first + j - 1].key
      BY <1>1, <1>2, <1>3, <2>1
    <3>3. first + i - 1 = first + j - 1
      BY <1>2, <3>1, <3>2 DEF Distinct
    <3>. QED  BY <1>1, <1>2, <1>3, <3>3
  <2>. QED  BY <2>1 DEF Distinct
<1>5. \A i \in 1 .. Len(r) : first + i - 1 \in 1 .. n
  BY <1>1, <1>2, <1>3
<1>7. Len(r) <= Len(s)
  BY <1>1, <1>2, <1>3
<1>8. Left(r, s, 1 .. n)
  BY <1>1, <1>2, <1>4, <1>5, <1>7 DEF Left
<1>. QED  BY <1>2, <1>8 DEF r

(* An entry lives for Ttl, and is not older than the confirmed configuration *)
(* unless its read was under way then.                                       *)
Good(e) ==
    /\ e.filled <= now /\ e.expiresAt = e.filled + Ttl
    /\ e.version < confirmed => e.late

Shelf(s) ==
    s \in Seq(Entry) /\ Distinct(s) /\ \A i \in 1 .. Len(s) : Good(s[i])

LEMMA ShelfLeft ==
    ASSUME NEW s, Shelf(s), NEW r, NEW places, Left(r, s, places)
    PROVE  Shelf(r)
<1>1. ASSUME NEW i \in 1 .. Len(r)
      PROVE  Good(r[i])
  <2>1. PICK m \in 1 .. Len(s) : r[i] = s[m]
    BY DEF Left
  <2>2. Good(s[m])
    BY DEF Shelf
  <2>. QED  BY <2>1, <2>2
<1>. QED  BY <1>1 DEF Left, Shelf

LEMMA ShelfFilled ==
    ASSUME NEW s, Shelf(s), NEW e \in Entry, Good(e), \A i \in 1 .. Len(s) : s[i].key # e.key
    PROVE  Shelf(Append(s, e)) /\ Len(Append(s, e)) = Len(s) + 1
<1>1. PICK t, n : t = Append(s, e) /\ n = Len(s)
  OBVIOUS
<1>2. /\ n \in Nat /\ t \in Seq(Entry) /\ Len(t) = n + 1 /\ t[n + 1] = e
      /\ \A i \in 1 .. n : t[i] = s[i]
  BY <1>1 DEF Shelf
<1>3. Distinct(t)
  <2>1. ASSUME NEW i \in 1 .. n + 1, NEW j \in 1 .. n + 1, t[i].key = t[j].key
        PROVE  i = j
    <3>1. CASE i \in 1 .. n /\ j \in 1 .. n
      BY <1>1, <1>2, <2>1, <3>1 DEF Distinct, Shelf
    <3>2. CASE i = n + 1 /\ j \in 1 .. n
      BY <1>1, <1>2, <2>1, <3>2
    <3>3. CASE j = n + 1 /\ i \in 1 .. n
      BY <1>1, <1>2, <2>1, <3>3
    <3>. QED  BY <1>2, <3>1, <3>2, <3>3
  <2>. QED  BY <1>2, <2>1 DEF Distinct
<1>4. ASSUME NEW i \in 1 .. n + 1
      PROVE  Good(t[i])
  <2>1. CASE i \in 1 .. n
    <3>1. Good(s[i]) /\ t[i] = s[i]
      BY <1>1, <1>2, <2>1 DEF Shelf
    <3>. QED  BY <3>1
  <2>2. CASE i = n + 1
    <3>1. t[i] = e
      BY <1>2, <2>2
    <3>. QED  BY <3>1
  <2>. QED  BY <1>2, <2>1, <2>2
<1>. QED  BY <1>1, <1>2, <1>3, <1>4 DEF Shelf

LEMMA ShelfStays ==
    ASSUME NEW s, Shelf(s), confirmed' = confirmed, now \in Nat, now' \in {now, now + 1}
    PROVE  Shelf(s)'
<1>1. ASSUME NEW i \in 1 .. Len(s)
      PROVE  Good(s[i])'
  <2>1. PICK e \in Entry : e = s[i]
    BY DEF Shelf
  <2>2. Good(e)
    BY <2>1 DEF Shelf
  <2>3. Good(e)'
    BY <2>2 DEF Good, Entry
  <2>. QED  BY <2>1, <2>3
<1>. QED  BY <1>1 DEF Shelf, Distinct

LEMMA WithoutLeaves ==
    ASSUME NEW s, Shelf(s), NEW key
    PROVE  /\ Shelf(Without(s, key)) /\ Len(Without(s, key)) <= Len(s)
           /\ \A i \in 1 .. Len(Without(s, key)) : Without(s, key)[i].key # key
           /\ (\E i \in 1 .. Len(s) : s[i].key = key) => Len(Without(s, key)) < Len(s)
<1>1. PICK places : places = {i \in DOMAIN s : s[i].key # key}
  OBVIOUS
<1>2. PICK r : r = Without(s, key)
  OBVIOUS
<1>3. Left(r, s, places)
  BY <1>1, <1>2, OnlyLeaves DEF Without, Shelf
<1>4. Shelf(r)
  BY <1>3, ShelfLeft
<1>5. \A i \in 1 .. Len(r) : r[i].key # key
  BY <1>1, <1>3 DEF Left
<1>6. (\E i \in 1 .. Len(s) : s[i].key = key) => Len(r) < Len(s)
  BY <1>1, <1>3 DEF Left
<1>7. Len(r) <= Len(s)
  BY <1>3 DEF Left
<1>. QED  BY <1>2, <1>4, <1>5, <1>6, <1>7

LEMMA SetLeaves ==
    ASSUME NEW s, Shelf(s), MaxEntries \in Nat \ {0}
    PROVE  LET r == evictOverflow(sweepExpired(s)) IN Shelf(r) /\ Len(r) <= MaxEntries
<1>1. PICK t : t = sweepExpired(s)
  OBVIOUS
<1>2. Shelf(t)
  <2>1. t = s \/ t = Only(s, {i \in DOMAIN s : ~Expired(s[i])})
    BY <1>1 DEF sweepExpired
  <2>2. Left(Only(s, {i \in DOMAIN s : ~Expired(s[i])}), s, {i \in DOMAIN s : ~Expired(s[i])})
    BY OnlyLeaves DEF Shelf
  <2>. QED  BY <2>1, <2>2, ShelfLeft
<1>3. PICK r : r = evictOverflow(t)
  OBVIOUS
<1>4. CASE Len(t) > MaxEntries
  <2>1. PICK first : first = Len(t) - MaxEntries + 1
    OBVIOUS
  <2>2. first \in 1 .. Len(t) /\ r = SubSeq(t, first, Len(t))
    BY <1>2, <1>3, <1>4, <2>1 DEF evictOverflow, Shelf
  <2>3. Left(r, t, 1 .. Len(t))
    BY <1>2, <2>2, EndLeaves DEF Shelf
  <2>4. Len(r) = MaxEntries
    <3>1. PICK n : n = Len(t)
      OBVIOUS
    <3>2. n \in Nat /\ first \in Int /\ n \in Int /\ \A i \in first .. n : t[i] \in Entry
      BY <1>2, <2>2, <3>1 DEF Shelf
    <3>3. Len(r) = IF first <= n THEN n - first + 1 ELSE 0
      BY <2>2, <3>1, <3>2, SubSeqProperties, SMT
    <3>. QED  BY <2>1, <3>1, <3>2, <3>3, <1>4
  <2>5. Shelf(r)
    BY <1>2, <2>3, ShelfLeft
  <2>. QED  BY <1>1, <1>3, <2>4, <2>5
<1>5. CASE ~(Len(t) > MaxEntries)
  BY <1>1, <1>2, <1>3, <1>5 DEF evictOverflow, Shelf
<1>. QED  BY <1>4, <1>5

-----------------------------------------------------------------------------
(* The cache, and what its own mutations invalidate.                         *)

Reading == [stage : {"idle", "asked", "answered"}, key : CacheKey \cup {None},
            version : Nat, late : BOOLEAN]

(* What a read will fill in is not older than the confirmed configuration,   *)
(* unless the confirmation arrived while it was under way.                   *)
UnderWay(read) ==
    /\ read.version <= version
    /\ read.stage # "idle" => read.key \in CacheKey
    /\ read.stage = "answered" /\ read.version < confirmed => read.late

CacheInv ==
    /\ now \in 0 .. MaxTime /\ lastSweep \in -SweepInterval .. now
    /\ version \in Nat /\ confirmed \in 0 .. version
    /\ Shelf(store) /\ Len(store) <= MaxEntries
    /\ reading \in [Reader -> Reading] /\ \A r \in Reader : UnderWay(reading[r])
    /\ age <= Ttl

LEMMA CacheStarts ==
    ASSUME CacheInit
    PROVE  CacheInv
<1>1. /\ now \in 0 .. MaxTime /\ lastSweep \in -SweepInterval .. now
      /\ version \in Nat /\ confirmed \in 0 .. version /\ age <= Ttl
  BY CacheAssumption DEF CacheInit, CacheAssumption
<1>2. Shelf(store) /\ Len(store) <= MaxEntries
  BY CacheAssumption DEF CacheInit, CacheAssumption, Shelf, Distinct
<1>3. reading \in [Reader -> Reading] /\ \A r \in Reader : UnderWay(reading[r])
  BY DEF CacheInit, NotReading, Reading, UnderWay
<1>. QED  BY <1>1, <1>2, <1>3 DEF CacheInv

(* Where at most a value is filled in or deleted, and the clock or the       *)
(* configuration move.                                                       *)
LEMMA CacheKeeps ==
    ASSUME CacheInv, confirmed' = confirmed, age' <= Ttl,
           now' \in 0 .. MaxTime, now' \in {now, now + 1},
           lastSweep' \in -SweepInterval .. now',
           version' \in {version, version + 1},
           Shelf(store)', Len(store') <= MaxEntries,
           reading' \in [Reader -> Reading],
           \A r \in Reader : reading'[r] = reading[r] \/ UnderWay(reading[r])'
    PROVE  CacheInv'
<1>1. version' \in Nat /\ confirmed' \in 0 .. version'
  BY DEF CacheInv
<1>2. ASSUME NEW r \in Reader
      PROVE  UnderWay(reading[r])'
  <2>1. CASE reading'[r] = reading[r]
    <3>1. PICK read : read = reading[r]
      OBVIOUS
    <3>2. UnderWay(read) /\ read.version \in Nat
      BY <3>1 DEF CacheInv, Reading
    <3>3. UnderWay(read)'
      BY <3>2 DEF UnderWay, CacheInv
    <3>. QED  BY <2>1, <3>1, <3>3
  <2>. QED  BY <2>1
<1>. QED  BY <1>1, <1>2 DEF CacheInv

(* The same, with the shelf as it was and the clock too.                     *)
LEMMA ShelfUntouched ==
    ASSUME CacheInv, store' = store, confirmed' = confirmed, now' \in {now, now + 1}
    PROVE  Shelf(store)' /\ Len(store') <= MaxEntries
<1>1. PICK s : s = store
  OBVIOUS
<1>2. Shelf(s) /\ now \in Nat
  BY <1>1 DEF CacheInv
<1>3. Shelf(s)'
  BY <1>2, ShelfStays
<1>. QED  BY <1>1, <1>3 DEF CacheInv

LEMMA ShelfNow ==
    ASSUME NEW s, Shelf(s), confirmed' = confirmed, now' = now, now \in Nat, store' = s,
           Len(s) <= MaxEntries
    PROVE  Shelf(store)' /\ Len(store') <= MaxEntries
<1>1. Shelf(s)'
  BY ShelfStays
<1>. QED  BY <1>1

LEMMA CacheRests ==
    ASSUME CacheInv, UNCHANGED cacheVars
    PROVE  CacheInv'
<1>1. Shelf(store)' /\ Len(store') <= MaxEntries
  BY ShelfUntouched DEF cacheVars
<1>. QED  BY <1>1, CacheKeeps DEF cacheVars, CacheInv

LEMMA Deletes ==
    ASSUME CacheInv, NEW keys, delete(keys)
    PROVE  \E s : /\ store' = s /\ Shelf(s) /\ Len(s) <= MaxEntries
                  /\ \A i \in 1 .. Len(s) : s[i].key \notin keys
<1>1. PICK s, places : /\ places = {i \in DOMAIN store : store[i].key \notin keys}
                       /\ s = Only(store, places)
  OBVIOUS
<1>2. Left(s, store, places)
  BY <1>1, OnlyLeaves DEF CacheInv, Shelf
<1>3. Shelf(s) /\ Len(s) <= MaxEntries
  <2>1. Shelf(s)
    BY <1>2, ShelfLeft DEF CacheInv
  <2>2. Len(s) <= Len(store) /\ Len(store) <= MaxEntries /\ Len(s) \in Nat /\ Len(store) \in Nat
    BY <1>2 DEF Left, CacheInv, Shelf
  <2>3. MaxEntries \in Nat
    BY CacheAssumption DEF CacheAssumption
  <2>. QED  BY <2>1, <2>2, <2>3
<1>4. \A i \in 1 .. Len(s) : s[i].key \notin keys
  BY <1>1, <1>2 DEF Left
<1>5. store' = s
  BY <1>1 DEF delete
<1>. QED  BY <1>3, <1>4, <1>5

LEMMA DeletionKeeps ==
    ASSUME CacheInv, NEW keys, delete(keys),
           UNCHANGED <<now, version, lastSweep, reading, confirmed, age>>
    PROVE  CacheInv'
<1>1. PICK s : store' = s /\ Shelf(s) /\ Len(s) <= MaxEntries
  BY Deletes
<1>2. Shelf(store)' /\ Len(store') <= MaxEntries
  BY <1>1, ShelfNow DEF CacheInv
<1>. QED  BY <1>2, CacheKeeps DEF CacheInv

LEMMA Hits ==
    ASSUME CacheInv, NEW r \in Reader, NEW key, Hit(r, key)
    PROVE  CacheInv'
<1>1. PICK i \in Entries(key) :
         /\ ~Expired(store[i])
         /\ store' = Append(Without(store, key), store[i])
         /\ age' = now - store[i].filled
  BY DEF Hit
<1>2. PICK e, w : e = store[i] /\ w = Without(store, key)
  OBVIOUS
<1>3. Shelf(store) /\ i \in 1 .. Len(store) /\ e.key = key /\ e \in Entry /\ Good(e)
  BY <1>1, <1>2 DEF Entries, CacheInv, Shelf
<1>4. /\ Shelf(w) /\ Len(w) < Len(store) /\ \A j \in 1 .. Len(w) : w[j].key # key
  BY <1>2, <1>3, WithoutLeaves
<1>5. PICK s : s = Append(w, e)
  OBVIOUS
<1>6. Shelf(s) /\ Len(s) = Len(w) + 1
  BY <1>3, <1>4, <1>5, ShelfFilled
<1>7. Len(s) <= MaxEntries
  <2>1. Len(store) \in Nat /\ Len(w) \in Nat /\ MaxEntries \in Nat /\ Len(store) <= MaxEntries
    BY <1>3, <1>4, CacheAssumption DEF Shelf, CacheInv, CacheAssumption
  <2>. QED  BY <1>4, <1>6, <2>1
<1>8. UNCHANGED <<now, version, lastSweep, reading, confirmed>> /\ store' = s
  BY <1>1, <1>2, <1>5 DEF Hit
<1>9. Shelf(store)' /\ Len(store') <= MaxEntries
  BY <1>6, <1>7, <1>8, ShelfNow DEF CacheInv
<1>10. age' <= Ttl
  <2>1. e.filled \in Nat /\ now \in Nat /\ e.expiresAt = e.filled + Ttl /\ ~(now > e.expiresAt)
        /\ age' = now - e.filled /\ Ttl \in Nat
    BY <1>1, <1>2, <1>3, CacheAssumption DEF Good, Entry, Expired, CacheInv, CacheAssumption
  <2>. QED  BY <2>1
<1>. QED  BY <1>8, <1>9, <1>10, CacheKeeps DEF CacheInv

LEMMA Misses ==
    ASSUME CacheInv, NEW r \in Reader, NEW key \in CacheKey, Miss(r, key)
    PROVE  CacheInv'
<1>1. PICK w : w = Without(store, key)
  OBVIOUS
<1>2. Shelf(w) /\ Len(w) <= Len(store)
  BY <1>1, WithoutLeaves DEF CacheInv
<1>3. Len(w) <= MaxEntries
  <2>1. Len(store) \in Nat /\ Len(w) \in Nat /\ MaxEntries \in Nat /\ Len(store) <= MaxEntries
    BY <1>2, CacheAssumption DEF Shelf, CacheInv, CacheAssumption
  <2>. QED  BY <1>2, <2>1
<1>4. UNCHANGED <<now, version, lastSweep, confirmed, age>> /\ store' = w
  BY <1>1 DEF Miss
<1>5. Shelf(store)' /\ Len(store') <= MaxEntries
  BY <1>2, <1>3, <1>4, ShelfNow DEF CacheInv
<1>6. PICK read : read = [stage |-> "asked", key |-> key, version |-> 0, late |-> FALSE]
  OBVIOUS
<1>7. read \in Reading /\ reading' = [reading EXCEPT ![r] = read]
  BY <1>6 DEF Miss, Reading
<1>8. /\ reading' \in [Reader -> Reading] /\ reading'[r] = read
      /\ \A q \in Reader \ {r} : reading'[q] = reading[q]
  BY <1>7 DEF CacheInv
<1>9. UnderWay(read)'
  BY <1>4, <1>6 DEF UnderWay, CacheInv
<1>10. UnderWay(reading[r])'
  BY <1>8, <1>9
<1>. QED  BY <1>4, <1>5, <1>8, <1>10, CacheKeeps DEF CacheInv

LEMMA Simulates ==
    ASSUME CacheInv, NEW r \in Reader, Simulate(r)
    PROVE  CacheInv'
<1>10. PICK old : old = reading[r]
  OBVIOUS
<1>1. PICK read : old = reading[r] /\ read = [old EXCEPT !.stage = "answered", !.version = version]
  BY <1>10
<1>2. old \in Reading /\ old.stage = "asked" /\ UnderWay(old)
  BY <1>1 DEF CacheInv, Simulate
<1>3. read \in Reading /\ read.version = version /\ read.key = old.key
  BY <1>1, <1>2 DEF Reading, CacheInv
<1>4. reading' = [reading EXCEPT ![r] = read]
  BY <1>1 DEF Simulate, CacheInv
<1>5. /\ reading' \in [Reader -> Reading] /\ reading'[r] = read
      /\ \A q \in Reader \ {r} : reading'[q] = reading[q]
  BY <1>3, <1>4 DEF CacheInv
<1>6. UNCHANGED <<now, version, store, lastSweep, confirmed, age>>
  BY DEF Simulate
<1>7. UnderWay(read)'
  BY <1>2, <1>3, <1>6 DEF UnderWay, CacheInv
<1>8. UnderWay(reading[r])'
  BY <1>5, <1>7
<1>9. Shelf(store)' /\ Len(store') <= MaxEntries
  BY <1>6, ShelfUntouched
<1>. QED  BY <1>5, <1>6, <1>8, <1>9, CacheKeeps DEF CacheInv

LEMMA StopsReading ==
    ASSUME CacheInv, NEW r \in Reader, reading' = [reading EXCEPT ![r] = NotReading],
           version' = version
    PROVE  /\ reading' \in [Reader -> Reading]
           /\ \A q \in Reader : reading'[q] = reading[q] \/ UnderWay(reading[q])'
<1>1. NotReading \in Reading
  BY DEF NotReading, Reading
<1>2. /\ reading' \in [Reader -> Reading] /\ reading'[r] = NotReading
      /\ \A q \in Reader \ {r} : reading'[q] = reading[q]
  BY <1>1 DEF CacheInv
<1>3. UnderWay(NotReading)'
  BY DEF UnderWay, NotReading, CacheInv
<1>4. UnderWay(reading[r])'
  BY <1>2, <1>3
<1>. QED  BY <1>2, <1>4

LEMMA Fills ==
    ASSUME CacheInv, NEW r \in Reader, Fill(r)
    PROVE  CacheInv'
<1>1. PICK e : e = [key |-> reading[r].key, version |-> reading[r].version,
                    late |-> reading[r].late, filled |-> now, expiresAt |-> now + Ttl]
  OBVIOUS
<1>2. PICK read : read = reading[r]
  OBVIOUS
<1>3. read \in Reading /\ UnderWay(read) /\ read.stage = "answered" /\ now \in Nat /\ Ttl \in Nat
  BY <1>2, CacheAssumption DEF CacheInv, Fill, CacheAssumption
<1>4. e \in Entry /\ Good(e)
  <2>1. read.key \in CacheKey /\ read.version \in Nat /\ read.late \in BOOLEAN
    BY <1>3 DEF Reading, UnderWay
  <2>2. e = [key |-> read.key, version |-> read.version, late |-> read.late,
             filled |-> now, expiresAt |-> now + Ttl]
    BY <1>1, <1>2
  <2>3. e \in Entry
    BY <1>3, <2>1, <2>2 DEF Entry
  <2>4. /\ e.filled = now /\ e.expiresAt = now + Ttl /\ e.version = read.version
        /\ (e.late <=> read.late)
    BY <2>2
  <2>5. read.version < confirmed => read.late
    BY <1>3 DEF UnderWay
  <2>. QED  BY <1>3, <2>3, <2>4, <2>5 DEF Good
<1>5. PICK w, s : w = Without(store, e.key) /\ s = Append(w, e)
  OBVIOUS
<1>6. Shelf(s)
  BY <1>4, <1>5, WithoutLeaves, ShelfFilled DEF CacheInv
<1>7. PICK t : t = evictOverflow(sweepExpired(s))
  OBVIOUS
<1>8. Shelf(t) /\ Len(t) <= MaxEntries
  BY <1>6, <1>7, SetLeaves, CacheAssumption DEF CacheAssumption
<1>9. /\ set(e) /\ reading' = [reading EXCEPT ![r] = NotReading]
      /\ UNCHANGED <<now, version, confirmed, age>>
  BY <1>1 DEF Fill
<1>10. store' = t
  BY <1>5, <1>7, <1>9 DEF set
<1>11. Shelf(store)' /\ Len(store') <= MaxEntries
  BY <1>3, <1>8, <1>9, <1>10, ShelfNow
<1>12. lastSweep' \in -SweepInterval .. now
  BY <1>3, <1>9, CacheAssumption DEF set, CacheInv, CacheAssumption
<1>. QED  BY <1>9, <1>11, <1>12, StopsReading, CacheKeeps DEF CacheInv

LEMMA Throws ==
    ASSUME CacheInv, NEW r \in Reader, NoValue(r)
    PROVE  CacheInv'
<1>1. /\ UNCHANGED <<now, version, store, lastSweep, confirmed, age>>
      /\ reading' = [reading EXCEPT ![r] = NotReading]
  BY DEF NoValue
<1>2. Shelf(store)' /\ Len(store') <= MaxEntries
  BY <1>1, ShelfUntouched
<1>. QED  BY <1>1, <1>2, StopsReading, CacheKeeps DEF CacheInv

(* The confirmed configuration is the current one: every entry is deleted,   *)
(* and every read that is under way is late.                                 *)
LEMMA Confirms ==
    ASSUME CacheInv, NEW tx, invalidateAfterConfirmation(tx)
    PROVE  CacheInv'
<1>1. PICK s : /\ store' = s /\ Shelf(s) /\ Len(s) <= MaxEntries
               /\ \A i \in 1 .. Len(s) : s[i].key \notin CACHE_KEYS
  BY Deletes DEF invalidateAfterConfirmation
<1>2. /\ UNCHANGED <<now, version, lastSweep, age>> /\ confirmed' = version
      /\ reading' = [r \in Reader |-> [reading[r] EXCEPT !.late = TRUE]]
  BY DEF invalidateAfterConfirmation
<1>3. \A i \in 1 .. Len(s) : FALSE
  <2>1. ASSUME NEW i \in 1 .. Len(s)
        PROVE  FALSE
    <3>1. PICK e \in Entry : e = s[i]
      BY <1>1 DEF Shelf
    <3>2. e.key \in CACHE_KEYS
      BY CacheAssumption DEF Entry, CacheAssumption
    <3>. QED  BY <1>1, <3>1, <3>2
  <2>. QED  BY <2>1
<1>4. Shelf(s)'
  BY <1>1, <1>3 DEF Shelf, Distinct
<1>5. ASSUME NEW r \in Reader
      PROVE  reading'[r] \in Reading /\ UnderWay(reading[r])'
  <2>1. PICK old, read : old = reading[r] /\ read = [old EXCEPT !.late = TRUE]
    OBVIOUS
  <2>2. old \in Reading /\ UnderWay(old)
    BY <2>1 DEF CacheInv
  <2>3. read \in Reading /\ read.late /\ read.version = old.version /\ read.key = old.key
        /\ read.stage = old.stage
    BY <2>1, <2>2 DEF Reading
  <2>4. UnderWay(read)'
    BY <1>2, <2>2, <2>3 DEF UnderWay
  <2>5. reading'[r] = read
    BY <1>2, <2>1
  <2>. QED  BY <2>3, <2>4, <2>5
<1>6. reading' \in [Reader -> Reading]
  BY <1>2, <1>5
<1>. QED  BY <1>1, <1>2, <1>4, <1>5, <1>6 DEF CacheInv

LEMMA CacheInvariant == Spec => []CacheInv
<1>1. Init => CacheInv
  BY CacheStarts DEF Init
<1>2. ASSUME CacheInv, [Next]_vars
      PROVE  CacheInv'
  <2>1. CASE UNCHANGED cacheVars
    BY <1>2, <2>1, CacheRests
  <2>2. ASSUME NEW c \in Calls, Proceed(c)
        PROVE  CacheInv'
    <3>1. /\ UNCHANGED <<now, version, lastSweep, reading, confirmed, age>>
          /\ delete(CACHE_KEYS) \/ UNCHANGED <<store, following>>
      BY <2>2 DEF Proceed, submitMutation, Submitted
    <3>2. CASE delete(CACHE_KEYS)
      BY <1>2, <3>1, <3>2, DeletionKeeps
    <3>3. CASE UNCHANGED <<store, following>>
      <4>1. Shelf(store)' /\ Len(store') <= MaxEntries
        BY <1>2, <3>1, <3>3, ShelfUntouched
      <4>. QED  BY <1>2, <3>1, <3>3, <4>1, CacheKeeps DEF CacheInv
    <3>. QED  BY <3>1, <3>2, <3>3
  <2>3. CASE Ledger
    <3>1. PICK tx : Effect(tx)
      BY <2>3 DEF Ledger
    <3>2. /\ version' \in {version, version + 1}
          /\ UNCHANGED <<now, store, lastSweep, reading, following, confirmed, age>>
      BY <3>1 DEF Effect
    <3>3. Shelf(store)' /\ Len(store') <= MaxEntries
      BY <1>2, <3>2, ShelfUntouched
    <3>. QED  BY <1>2, <3>2, <3>3, CacheKeeps DEF CacheInv
  <2>4. ASSUME NEW r \in Reader, NEW key \in CacheKey, Hit(r, key) \/ Miss(r, key)
        PROVE  CacheInv'
    BY <1>2, <2>4, Hits, Misses
  <2>5. ASSUME NEW r \in Reader, Simulate(r) \/ Fill(r) \/ NoValue(r)
        PROVE  CacheInv'
    BY <1>2, <2>5, Simulates, Fills, Throws
  <2>6. ASSUME NEW keys, invalidateCache(keys)
        PROVE  CacheInv'
    BY <1>2, <2>6, DeletionKeeps DEF invalidateCache
  <2>7. ASSUME NEW tx, invalidateAfterConfirmation(tx) \/ GiveUp(tx)
        PROVE  CacheInv'
    <3>1. CASE invalidateAfterConfirmation(tx)
      BY <1>2, <3>1, Confirms
    <3>2. CASE GiveUp(tx)
      <4>1. UNCHANGED <<now, version, store, lastSweep, reading, confirmed, age>>
        BY <3>2 DEF GiveUp
      <4>2. Shelf(store)' /\ Len(store') <= MaxEntries
        BY <1>2, <4>1, ShelfUntouched
      <4>. QED  BY <1>2, <4>1, <4>2, CacheKeeps DEF CacheInv
    <3>. QED  BY <2>7, <3>1, <3>2
  <2>8. CASE OtherChange \/ Tick
    <3>1. /\ UNCHANGED <<store, lastSweep, reading, confirmed, age>>
          /\ now' \in {now, now + 1} /\ now' \in 0 .. MaxTime /\ version' \in {version, version + 1}
      <4>1. now \in 0 .. MaxTime /\ MaxTime \in Nat /\ version \in Nat
        BY <1>2, CacheAssumption DEF CacheInv, CacheAssumption
      <4>2. CASE OtherChange
        BY <4>1, <4>2 DEF OtherChange
      <4>3. CASE Tick
        BY <4>1, <4>3 DEF Tick
      <4>. QED  BY <2>8, <4>2, <4>3
    <3>2. Shelf(store)' /\ Len(store') <= MaxEntries
      BY <1>2, <3>1, ShelfUntouched
    <3>3. lastSweep' \in -SweepInterval .. now'
      BY <1>2, <3>1, CacheAssumption DEF CacheInv, CacheAssumption
    <3>. QED  BY <1>2, <3>1, <3>2, <3>3, CacheKeeps DEF CacheInv
  <2>9. CASE Cache
    BY <2>4, <2>5, <2>6, <2>7, <2>8, <2>9, Zenon DEF Cache
  <2>. QED  BY <1>2, <2>1, <2>2, <2>3, <2>9, Zenon
            DEF Next, Begin, Disturb, Subscriber, Poll, Events, vars
<1>. QED  BY <1>1, <1>2, PTL DEF Spec

(* cache.ts: set, get and the sweep. No value is served when its time to     *)
(* live is over, however often a hit moved it to the end.                    *)
THEOREM SdkCacheAge == Spec => []CacheAge
<1>1. CacheInv => CacheAge
  BY DEF CacheInv, CacheAge
<1>. QED  BY <1>1, CacheInvariant, PTL

(* cachedBridge.ts submitMutation and invalidateAfterConfirmation: what is   *)
(* older than the confirmed configuration is in the cache only if its read   *)
(* was under way at the confirmation.                                        *)
THEOREM SdkOwnWritesShow == Spec => []OwnWritesShow
<1>1. CacheInv => OwnWritesShow
  BY DEF CacheInv, OwnWritesShow, Shelf, Good
<1>. QED  BY <1>1, CacheInvariant, PTL

-----------------------------------------------------------------------------
(* How far a call can be.                                                    *)

Reply == [hash : Transaction \cup {None}, status : {"pending", "failed", "success"}]

Progress == [stage : Stages, step : Nat, attempt : Nat, chunk : Nat,
             tx : Transaction \cup {None}, results : Seq(Reply)]

Requesting == {"getAccount", "prepareTransaction", "sendTransaction", "simulateTransaction",
               "getFeeStats", "getLedgerEntries"}

Ending == {"returned", "thrown"}

(* The request that is under way is the method's next one.                   *)
Placed(c, e) ==
    /\ e.attempt <= Retries(e.stage)
    /\ e.chunk \in 1 .. request[c].chunks
    /\ e.stage \in Requesting =>
          e.step \in 1 .. Len(Requests(c)) /\ e.stage = Requests(c)[e.step]
    /\ e.stage = "getTransaction" =>
          Method(c).waits \/ (Sequential(c) /\ e.chunk < request[c].chunks)

(* The transaction is there once the account is known, and is the call's.    *)
Built(c, e) ==
    /\ IsQuery(c) => e.tx = None
    /\ e.stage = "idle" \/ (e.stage = "getAccount" /\ e.step = 1) => e.tx = None
    /\ \/ e.stage \in {"prepareTransaction", "sendTransaction", "getTransaction"}
       \/ e.stage = "getAccount" /\ e.step = 2
       => e.tx # None
    /\ e.tx # None => e.tx.call = c /\ e.tx.chunk = e.chunk /\ e.tx.account = AccountOf(c)

(* A result for every chunk so far, the last one of the one that is waited   *)
(* for, and in the end for every chunk.                                      *)
Answered(c, e) ==
    /\ e.stage = "idle" => e.chunk = 1 /\ e.results = <<>>
    /\ IsQuery(c) => e.results = <<>>
    /\ ~IsQuery(c) /\ e.stage \in Requesting => Len(e.results) = e.chunk - 1
    /\ e.stage = "getTransaction" =>
          Len(e.results) = e.chunk /\ e.results[e.chunk] = Result(e.tx, "pending")
    /\ e.stage = "returned" /\ ~IsQuery(c) /\ ~Rejected(c) => Len(e.results) = request[c].chunks

(* A chunk with a nonce follows chunks that are confirmed, and none follows  *)
(* one that failed.                                                          *)
InTurn(c, e) ==
    Sequential(c) =>
        \A i \in 1 .. Len(e.results) :
            /\ e.stage \notin Ending => e.results[i].status = "pending"
            /\ e.results[i].status = "failed" => i >= e.chunk
            /\ i > e.chunk => e.results[i].status = "failed"

Sound(c, e) ==
    e \in Progress /\ Placed(c, e) /\ Built(c, e) /\ Answered(c, e) /\ InTurn(c, e)

(* What the results so far say.                                              *)
Told(results, accepted, applied) ==
    \A i \in 1 .. Len(results) :
        /\ results[i].status = "success" => results[i].hash \in applied
        /\ results[i].status = "pending" => results[i].hash \in accepted

(* What a step of a call may rely on.                                        *)
Shaped(c) ==
    /\ Submits(Method(c)) \/ SubmitsCached(Method(c)) \/ Asks(Method(c))
    /\ c \in Call /\ AccountOf(c) \in Account
    /\ request[c].chunks \in Nat \ {0} /\ (request[c].chunks = 1 \/ Method(c).splits)

LEMMA CallsAreShaped ==
    ASSUME Requested, NEW c \in Calls
    PROVE  Shaped(c)
  BY MethodShapes DEF Requested, Shaped

LEMMA RetriesAreNatural ==
    /\ \A rpc : Retries(rpc) \in Nat
    /\ \A rpc : rpc \notin VIEW_RPC_METHODS \cup STATE_CHANGING_RPC_METHODS => Retries(rpc) = 0
<1>1. Min({MaxRetries, 1}) \in Nat
  <2>1. \E x \in {MaxRetries, 1} : \A y \in {MaxRetries, 1} : x <= y
    BY ClientAssumption DEF ClientAssumption
  <2>2. Min({MaxRetries, 1}) \in {MaxRetries, 1}
    BY <2>1, Zenon DEF Min
  <2>. QED  BY <2>2, ClientAssumption DEF ClientAssumption
<1>. QED  BY <1>1, ClientAssumption DEF Retries, ClientAssumption

LEMMA RequestsOf ==
    ASSUME NEW c
    PROVE  LET r == Requests(c) IN
           /\ Submits(Method(c)) => /\ Len(r) = 3 /\ r[1] = "getAccount"
                                    /\ r[2] = "prepareTransaction" /\ r[3] = "sendTransaction"
           /\ SubmitsCached(Method(c)) =>
                 /\ Len(r) = 4 /\ r[1] = "getAccount" /\ r[2] = "getAccount"
                 /\ r[3] = "prepareTransaction" /\ r[4] = "sendTransaction"
           /\ Asks(Method(c)) =>
                 /\ r[1] = "simulateTransaction"
                 /\ \/ Len(r) = 1
                    \/ Len(r) = 3 /\ r[2] = "getFeeStats" /\ r[3] = "getLedgerEntries"
<1>1. CASE Submits(Method(c))
  BY <1>1 DEF Submits, SubmitsCached, Asks, Requests
<1>2. CASE SubmitsCached(Method(c))
  BY <1>2 DEF Submits, SubmitsCached, Asks, Requests
<1>3. CASE Asks(Method(c))
  BY <1>3 DEF Submits, SubmitsCached, Asks, Requests
<1>. QED  BY <1>1, <1>2, <1>3

(* Where a call is.                                                          *)
At(stage, step, attempt, chunk, tx, results) ==
    [stage |-> stage, step |-> step, attempt |-> attempt, chunk |-> chunk, tx |-> tx,
     results |-> results]

LEMMA Fields ==
    ASSUME NEW stage, NEW step, NEW attempt, NEW chunk, NEW tx, NEW results
    PROVE  LET f == At(stage, step, attempt, chunk, tx, results) IN
           /\ f.stage = stage /\ f.step = step /\ f.attempt = attempt /\ f.chunk = chunk
           /\ f.tx = tx /\ f.results = results
  BY DEF At

(* What Update leaves of it.                                                 *)
Changed(e, changes) ==
    [field \in DOMAIN e |-> IF field \in DOMAIN changes THEN changes[field] ELSE e[field]]

(* The results of the chunks that were not submitted follow.                 *)
LEMMA FailedFollow ==
    ASSUME NEW r \in Seq(Reply), NEW k \in Nat
    PROVE  LET t == r \o [i \in 1 .. k |-> Result(None, "failed")] IN
           /\ t \in Seq(Reply) /\ Len(t) = Len(r) + k
           /\ \A i \in 1 .. Len(r) : t[i] = r[i]
           /\ \A i \in Len(r) + 1 .. Len(r) + k : t[i] = Result(None, "failed")
<1> DEFINE f == Result(None, "failed")
           q == [i \in 1 .. k |-> f]
<1>1. f \in Reply
  BY DEF Result, Reply
<1> HIDE DEF f
<1>2. q \in Seq(Reply) /\ Len(q) = k /\ \A i \in 1 .. k : q[i] = f
  BY <1>1
<1> HIDE DEF q
<1>3. /\ r \o q \in Seq(Reply) /\ Len(r \o q) = Len(r) + Len(q)
      /\ \A i \in 1 .. Len(r) + Len(q) : (r \o q)[i] = IF i <= Len(r) THEN r[i] ELSE q[i - Len(r)]
  BY <1>2, ConcatProperties, Zenon
<1>4. PICK t, n : t = r \o q /\ n = Len(r)
  OBVIOUS
<1>5. n \in Nat
  BY <1>4
<1>6. /\ t \in Seq(Reply) /\ Len(t) = n + k
      /\ \A i \in 1 .. n + k : t[i] = IF i <= n THEN r[i] ELSE q[i - n]
  BY <1>2, <1>3, <1>4
<1>7. /\ \A i \in 1 .. n : t[i] = r[i]
      /\ \A i \in n + 1 .. n + k : t[i] = f
  BY <1>2, <1>5, <1>6
<1>. QED  BY <1>4, <1>6, <1>7 DEF q, f

LEMMA ReplyAppended ==
    ASSUME NEW r \in Seq(Reply), NEW reply \in Reply
    PROVE  LET t == Append(r, reply) IN
           /\ t \in Seq(Reply) /\ Len(t) = Len(r) + 1 /\ t[Len(r) + 1] = reply
           /\ \A i \in 1 .. Len(r) : t[i] = r[i]
  OBVIOUS

LEMMA LastDecided ==
    ASSUME NEW r \in Seq(Reply), Len(r) # 0, NEW status \in {"failed", "success"}
    PROVE  LET t == [r EXCEPT ![Len(r)].status = status] IN
           /\ t \in Seq(Reply) /\ Len(t) = Len(r)
           /\ t[Len(r)] = Result(r[Len(r)].hash, status)
           /\ \A i \in 1 .. Len(r) - 1 : t[i] = r[i]
<1>1. PICK n, old : n = Len(r) /\ old = r[n]
  OBVIOUS
<1>2. n \in Nat \ {0} /\ old \in Reply
  BY <1>1
<1>3. PICK new : new = [old EXCEPT !.status = status]
  OBVIOUS
<1>4. new \in Reply /\ new = Result(old.hash, status)
  BY <1>2, <1>3 DEF Reply, Result
<1>5. PICK t : t = [r EXCEPT ![n] = new]
  OBVIOUS
<1>6. t \in Seq(Reply) /\ Len(t) = n /\ t[n] = new /\ \A i \in 1 .. n - 1 : t[i] = r[i]
  BY <1>1, <1>2, <1>4, <1>5
<1>7. [r EXCEPT ![Len(r)].status = status] = t
  BY <1>1, <1>3, <1>5
<1>. QED  BY <1>1, <1>4, <1>6, <1>7

-----------------------------------------------------------------------------
(* Every step of a call leaves it sound.                                     *)

LEMMA Starting ==
    ASSUME NEW c, Shaped(c), NEW e, Sound(c, e), e.stage = "idle"
    PROVE  Sound(c, At(Requests(c)[1], 1, e.attempt, e.chunk, e.tx, e.results))
<1>1. PICK stage, f : /\ stage = Requests(c)[1]
                      /\ f = At(stage, 1, e.attempt, e.chunk, e.tx, e.results)
  OBVIOUS
<1>2. /\ f.stage = stage /\ f.step = 1 /\ f.attempt = e.attempt /\ f.chunk = e.chunk
      /\ f.tx = e.tx /\ f.results = e.results
  BY <1>1, Fields
<1>3. stage \in {"getAccount", "simulateTransaction"} /\ 1 \in 1 .. Len(Requests(c))
      /\ (IsQuery(c) <=> stage = "simulateTransaction")
  BY <1>1, RequestsOf DEF Shaped, Submits, SubmitsCached, Asks, IsQuery
<1>4. e.attempt = 0
  BY RetriesAreNatural DEF Sound, Placed, Progress, VIEW_RPC_METHODS, STATE_CHANGING_RPC_METHODS
<1>5. f \in Progress
  BY <1>1, <1>3 DEF Sound, Progress, At, Stages
<1>6. Placed(c, f)
  BY <1>1, <1>2, <1>3, <1>4, RetriesAreNatural DEF Sound, Placed, Requesting
<1>7. Built(c, f)
  BY <1>2, <1>3 DEF Sound, Built
<1>8. Answered(c, f)
  BY <1>2, <1>3 DEF Sound, Answered, Requesting
<1>9. InTurn(c, f)
  BY <1>2 DEF Sound, Answered, InTurn
<1>. QED  BY <1>1, <1>5, <1>6, <1>7, <1>8, <1>9 DEF Sound

(* Inputs that a builder rejects are reported as failed, or thrown.          *)
LEMMA Refusing ==
    ASSUME NEW c, Shaped(c), NEW e, Sound(c, e), e.stage = "idle"
    PROVE  /\ Sound(c, At("thrown", e.step, e.attempt, e.chunk, e.tx, e.results))
           /\ ~IsQuery(c) /\ Rejected(c) =>
                 Sound(c, At("returned", e.step, e.attempt, e.chunk, e.tx,
                             <<Result(None, "failed")>>))
<1>1. PICK f : f = At("thrown", e.step, e.attempt, e.chunk, e.tx, e.results)
  OBVIOUS
<1>2. /\ f.stage = "thrown" /\ f.step = e.step /\ f.attempt = e.attempt /\ f.chunk = e.chunk
      /\ f.tx = e.tx /\ f.results = e.results
  BY <1>1, Fields
<1>3. PICK failed, g : /\ failed = <<Result(None, "failed")>>
                       /\ g = At("returned", e.step, e.attempt, e.chunk, e.tx, failed)
  OBVIOUS
<1>4. /\ g.stage = "returned" /\ g.step = e.step /\ g.attempt = e.attempt /\ g.chunk = e.chunk
      /\ g.tx = e.tx /\ g.results = failed
  BY <1>3, Fields
<1>5. failed \in Seq(Reply) /\ Len(failed) = 1 /\ failed[1].status = "failed"
  BY <1>3 DEF Reply, Result
<1>6. e.attempt = 0
  BY RetriesAreNatural DEF Sound, Placed, Progress, VIEW_RPC_METHODS, STATE_CHANGING_RPC_METHODS
<1>7. f \in Progress /\ g \in Progress
  BY <1>1, <1>3, <1>5 DEF Sound, Progress, At, Stages
<1>8. Placed(c, f) /\ Placed(c, g)
  BY <1>2, <1>4, <1>6, RetriesAreNatural DEF Sound, Placed, Requesting
<1>9. Built(c, f) /\ Built(c, g)
  BY <1>2, <1>4 DEF Sound, Built
<1>10. Answered(c, f) /\ (~IsQuery(c) /\ Rejected(c) => Answered(c, g))
  BY <1>2, <1>4 DEF Sound, Answered, Requesting
<1>11. InTurn(c, f) /\ InTurn(c, g)
  BY <1>2, <1>4, <1>5 DEF Sound, Answered, InTurn, Ending
<1>. QED  BY <1>1, <1>3, <1>7, <1>8, <1>9, <1>10, <1>11 DEF Sound

LEMMA Building ==
    ASSUME NEW c, Shaped(c), NEW e, Sound(c, e), e.stage = "getAccount", e.step = 1,
           NEW seq \in Nat, NEW tx,
           tx = [call |-> c, chunk |-> e.chunk, account |-> AccountOf(c), seq |-> seq]
    PROVE  /\ Sound(c, At(Requests(c)[2], 2, 0, e.chunk, tx, e.results))
           /\ Requests(c)[2] \in {"getAccount", "prepareTransaction"} /\ e.tx = None
<1>1. PICK stage, f : /\ stage = Requests(c)[2]
                      /\ f = At(stage, 2, 0, e.chunk, tx, e.results)
  OBVIOUS
<1>2. /\ f.stage = stage /\ f.step = 2 /\ f.attempt = 0 /\ f.chunk = e.chunk
      /\ f.tx = tx /\ f.results = e.results
  BY <1>1, Fields
<1>3. /\ e.chunk \in Nat /\ e.results \in Seq(Reply) /\ e.tx = None
      /\ e.stage = Requests(c)[e.step]
  BY DEF Sound, Progress, Built, Placed, Requesting
<1>4. /\ ~IsQuery(c) /\ stage \in {"getAccount", "prepareTransaction"}
      /\ 2 \in 1 .. Len(Requests(c))
  BY <1>1, <1>3, RequestsOf DEF Shaped, Submits, SubmitsCached, Asks, IsQuery
<1>5. tx \in Transaction /\ tx # None
  BY <1>3, ClientAssumption DEF Transaction, Shaped, ClientAssumption
<1>6. f \in Progress
  BY <1>1, <1>3, <1>4, <1>5 DEF Progress, At, Stages
<1>7. Placed(c, f)
  BY <1>1, <1>2, <1>4, RetriesAreNatural DEF Sound, Placed, Requesting
<1>8. Built(c, f)
  BY <1>2, <1>4, <1>5 DEF Built
<1>9. Answered(c, f)
  BY <1>2, <1>4 DEF Sound, Answered, Requesting
<1>10. InTurn(c, f)
  BY <1>2, <1>4 DEF Sound, InTurn, Ending
<1>. QED  BY <1>1, <1>3, <1>4, <1>6, <1>7, <1>8, <1>9, <1>10 DEF Sound

LEMMA Going ==
    ASSUME NEW c, Shaped(c), NEW e, Sound(c, e), e.stage \in Requesting,
           e.step < Len(Requests(c)), e.stage = "getAccount" => e.step = 2
    PROVE  /\ Sound(c, At(Requests(c)[e.step + 1], e.step + 1, 0, e.chunk, e.tx, e.results))
           /\ Requests(c)[e.step + 1] \in {"getAccount", "prepareTransaction"}
                 => e.stage = "getAccount"
<1>1. PICK stage, step, f : /\ step = e.step + 1 /\ stage = Requests(c)[step]
                            /\ f = At(stage, step, 0, e.chunk, e.tx, e.results)
  OBVIOUS
<1>2. /\ f.stage = stage /\ f.step = step /\ f.attempt = 0 /\ f.chunk = e.chunk
      /\ f.tx = e.tx /\ f.results = e.results
  BY <1>1, Fields
<1>3. /\ e.chunk \in Nat /\ e.results \in Seq(Reply) /\ e.tx \in Transaction \cup {None}
      /\ e.stage = Requests(c)[e.step] /\ e.step \in 1 .. Len(Requests(c))
  BY DEF Sound, Progress, Placed
<1>4. /\ ~IsQuery(c) => stage \in {"prepareTransaction", "sendTransaction"}
      /\ IsQuery(c) => stage \in {"getFeeStats", "getLedgerEntries"}
      /\ stage = "prepareTransaction" => e.stage = "getAccount"
      /\ step \in 1 .. Len(Requests(c))
      /\ ~IsQuery(c) => e.stage = "getAccount" \/ e.stage = "prepareTransaction"
  <2>1. PICK r, n : r = Requests(c) /\ n = Len(Requests(c))
    OBVIOUS
  <2>2. CASE Submits(Method(c))
    <3>1. n = 3 /\ r[1] = "getAccount" /\ r[2] = "prepareTransaction" /\ r[3] = "sendTransaction"
      BY <2>1, <2>2, RequestsOf
    <3>2. e.step \in 1 .. 3 /\ e.step # 3 /\ e.step # 1
      BY <1>3, <2>1, <3>1
    <3>3. e.step = 2 /\ step = 3
      BY <1>1, <3>2
    <3>4. ~IsQuery(c)
      BY <2>2 DEF Submits, IsQuery
    <3>. QED  BY <1>1, <1>3, <2>1, <3>1, <3>3, <3>4
  <2>3. CASE SubmitsCached(Method(c))
    <3>1. /\ n = 4 /\ r[1] = "getAccount" /\ r[2] = "getAccount"
          /\ r[3] = "prepareTransaction" /\ r[4] = "sendTransaction"
      BY <2>1, <2>3, RequestsOf
    <3>2. e.step \in 1 .. 4 /\ e.step # 4 /\ e.step # 1
      BY <1>3, <2>1, <3>1
    <3>3. (e.step = 2 /\ step = 3) \/ (e.step = 3 /\ step = 4)
      BY <1>1, <3>2
    <3>4. ~IsQuery(c)
      BY <2>3 DEF SubmitsCached, IsQuery
    <3>. QED  BY <1>1, <1>3, <2>1, <3>1, <3>3, <3>4
  <2>4. CASE Asks(Method(c))
    <3>1. n = 1 \/ (n = 3 /\ r[2] = "getFeeStats" /\ r[3] = "getLedgerEntries")
      BY <2>1, <2>4, RequestsOf
    <3>2. n = 3 /\ e.step \in 1 .. 3 /\ e.step # 3
      BY <1>3, <2>1, <3>1
    <3>3. (e.step = 1 /\ step = 2) \/ (e.step = 2 /\ step = 3)
      BY <1>1, <3>2
    <3>4. IsQuery(c)
      BY <2>4 DEF Asks, IsQuery
    <3>. QED  BY <1>1, <1>3, <2>1, <3>1, <3>2, <3>3, <3>4
  <2>. QED  BY <2>2, <2>3, <2>4 DEF Shaped
<1>5. stage \in Requesting /\ stage # "getAccount"
  BY <1>4 DEF Requesting
<1>6. f \in Progress
  BY <1>1, <1>3, <1>5 DEF Progress, At, Stages, Requesting
<1>7. Placed(c, f)
  BY <1>1, <1>2, <1>4, <1>5, RetriesAreNatural DEF Sound, Placed, Requesting
<1>8. Built(c, f)
  BY <1>2, <1>4, <1>5 DEF Sound, Built, Requesting
<1>9. Answered(c, f)
  BY <1>2, <1>5 DEF Sound, Answered, Requesting
<1>10. InTurn(c, f)
  BY <1>2 DEF Sound, InTurn, Ending, Requesting
<1>. QED  BY <1>1, <1>4, <1>5, <1>6, <1>7, <1>8, <1>9, <1>10 DEF Sound

LEMMA Repeating ==
    ASSUME NEW c, NEW e, Sound(c, e), NEW attempt \in Nat, attempt <= Retries(e.stage)
    PROVE  Sound(c, At(e.stage, e.step, attempt, e.chunk, e.tx, e.results))
<1>1. PICK f : f = At(e.stage, e.step, attempt, e.chunk, e.tx, e.results)
  OBVIOUS
<1>2. /\ f.stage = e.stage /\ f.step = e.step /\ f.attempt = attempt /\ f.chunk = e.chunk
      /\ f.tx = e.tx /\ f.results = e.results
  BY <1>1, Fields
<1>3. f \in Progress
  BY <1>1 DEF Sound, Progress, At
<1>4. Placed(c, f) /\ Built(c, f)
  BY <1>2 DEF Sound, Placed, Built
<1>5. Answered(c, f) /\ InTurn(c, f)
  BY <1>2 DEF Sound, Answered, InTurn
<1>. QED  BY <1>1, <1>3, <1>4, <1>5 DEF Sound

(* A query, or a call of the cached client, ends without a result.           *)
LEMMA EndingEmpty ==
    ASSUME NEW c, Shaped(c), NEW e, Sound(c, e), NEW stage \in Ending,
           IsQuery(c) \/ stage = "thrown"
    PROVE  Sound(c, At(stage, e.step, 0, e.chunk, e.tx, <<>>))
<1>1. PICK f : f = At(stage, e.step, 0, e.chunk, e.tx, <<>>)
  OBVIOUS
<1>2. /\ f.stage = stage /\ f.step = e.step /\ f.attempt = 0 /\ f.chunk = e.chunk
      /\ f.tx = e.tx /\ f.results = <<>>
  BY <1>1, Fields
<1>3. f \in Progress
  BY <1>1 DEF Sound, Progress, At, Ending, Stages
<1>4. Placed(c, f)
  BY <1>2, RetriesAreNatural DEF Sound, Placed, Ending, Requesting
<1>5. Built(c, f)
  BY <1>2 DEF Sound, Built, Ending
<1>6. Answered(c, f) /\ InTurn(c, f)
  BY <1>2 DEF Answered, InTurn, Ending, Requesting
<1>. QED  BY <1>1, <1>3, <1>4, <1>5, <1>6 DEF Sound

(* A submission is over: the next chunk is taken up, unless it depends on    *)
(* this one, or its confirmation is awaited, or the results are complete.    *)
LEMMA TakingNextChunk ==
    ASSUME NEW c, Shaped(c), NEW e, Sound(c, e), e.chunk < request[c].chunks, ~IsQuery(c),
           NEW results \in Seq(Reply), Len(results) = e.chunk,
           Sequential(c) => \A i \in 1 .. Len(results) : results[i].status = "pending"
    PROVE  Sound(c, At("getAccount", 1, 0, e.chunk + 1, None, results))
<1>1. PICK chunk, f : chunk = e.chunk + 1 /\ f = At("getAccount", 1, 0, chunk, None, results)
  OBVIOUS
<1>2. /\ f.stage = "getAccount" /\ f.step = 1 /\ f.attempt = 0 /\ f.chunk = chunk
      /\ f.tx = None /\ f.results = results
  BY <1>1, Fields
<1>3. e.chunk \in Nat /\ e.chunk \in 1 .. request[c].chunks /\ chunk \in 1 .. request[c].chunks
      /\ chunk \in Nat
  BY <1>1 DEF Sound, Progress, Placed, Shaped
<1>4. f \in Progress
  BY <1>1, <1>3 DEF Progress, At, Stages
<1>5. Requests(c)[1] = "getAccount" /\ 1 \in 1 .. Len(Requests(c))
  BY RequestsOf DEF Shaped, Asks, IsQuery
<1>6. Placed(c, f)
  BY <1>2, <1>3, <1>5, RetriesAreNatural DEF Placed, Requesting
<1>7. Built(c, f)
  BY <1>2 DEF Built
<1>8. Answered(c, f)
  BY <1>1, <1>2, <1>3 DEF Answered, Requesting
<1>9. InTurn(c, f)
  BY <1>1, <1>2, <1>3 DEF InTurn, Ending
<1>. QED  BY <1>1, <1>4, <1>6, <1>7, <1>8, <1>9 DEF Sound

LEMMA Awaiting ==
    ASSUME NEW c, Shaped(c), NEW e, Sound(c, e), e.stage \in Requesting, ~IsQuery(c),
           e.tx # None, Method(c).waits \/ (Sequential(c) /\ e.chunk < request[c].chunks),
           NEW results, results = Append(e.results, Result(e.tx, "pending"))
    PROVE  Sound(c, At("getTransaction", e.step, 0, e.chunk, e.tx, results))
<1>1. PICK f : f = At("getTransaction", e.step, 0, e.chunk, e.tx, results)
  OBVIOUS
<1>2. /\ f.stage = "getTransaction" /\ f.step = e.step /\ f.attempt = 0 /\ f.chunk = e.chunk
      /\ f.tx = e.tx /\ f.results = results
  BY <1>1 DEF At
<1>3. /\ e.chunk \in Nat /\ e.chunk \in 1 .. request[c].chunks /\ e.results \in Seq(Reply)
      /\ Len(e.results) = e.chunk - 1 /\ e.tx \in Transaction \cup {None} /\ e.step \in Nat
  BY DEF Sound, Progress, Placed, Answered
<1>4. PICK reply : reply = Result(e.tx, "pending")
  OBVIOUS
<1>5. reply \in Reply /\ reply.status = "pending"
  BY <1>3, <1>4 DEF Reply, Result
<1>6. /\ results \in Seq(Reply) /\ Len(results) = e.chunk /\ results[e.chunk] = reply
      /\ \A i \in 1 .. e.chunk - 1 : results[i] = e.results[i]
  <2>1. /\ results \in Seq(Reply) /\ Len(results) = Len(e.results) + 1
        /\ results[Len(e.results) + 1] = reply
        /\ \A i \in 1 .. Len(e.results) : results[i] = e.results[i]
    BY <1>3, <1>4, <1>5, ReplyAppended
  <2>2. PICK n : n = Len(e.results)
    OBVIOUS
  <2>. QED  BY <1>3, <2>1, <2>2
<1>7. f \in Progress
  BY <1>1, <1>3, <1>6 DEF Progress, At, Stages
<1>8. Placed(c, f)
  BY <1>2, <1>3, RetriesAreNatural DEF Placed, Requesting
<1>9. Built(c, f)
  BY <1>2 DEF Sound, Built, Requesting
<1>10. Answered(c, f)
  BY <1>2, <1>4, <1>6 DEF Answered, Requesting
<1>11. InTurn(c, f)
  <2>1. ASSUME Sequential(c), NEW i \in 1 .. e.chunk
        PROVE  results[i].status = "pending"
    <3>1. CASE i = e.chunk
      BY <1>5, <1>6, <3>1
    <3>2. CASE i # e.chunk
      <4>1. i \in 1 .. e.chunk - 1
        BY <1>3, <3>2
      <4>2. e.results[i].status = "pending"
        BY <1>3, <2>1, <4>1 DEF Sound, InTurn, Ending, Requesting
      <4>. QED  BY <1>6, <4>1, <4>2
    <3>. QED  BY <3>1, <3>2
  <2>2. \A i \in 1 .. e.chunk : ~(i > e.chunk)
    BY <1>3
  <2>. QED  BY <1>2, <1>6, <2>1, <2>2 DEF InTurn
<1>. QED  BY <1>1, <1>7, <1>8, <1>9, <1>10, <1>11 DEF Sound

(* What the caller of a mutation is given.                                   *)
LEMMA Returning ==
    ASSUME NEW c, Shaped(c), NEW e, Sound(c, e), ~IsQuery(c), e.stage # "idle",
           NEW results \in Seq(Reply), Len(results) = request[c].chunks,
           Sequential(c) => \A i \in 1 .. Len(results) :
               /\ results[i].status = "failed" => i >= e.chunk
               /\ i > e.chunk => results[i].status = "failed"
    PROVE  Sound(c, At("returned", e.step, 0, e.chunk, e.tx, results))
<1>1. PICK f : f = At("returned", e.step, 0, e.chunk, e.tx, results)
  OBVIOUS
<1>2. /\ f.stage = "returned" /\ f.step = e.step /\ f.attempt = 0 /\ f.chunk = e.chunk
      /\ f.tx = e.tx /\ f.results = results
  BY <1>1, Fields
<1>3. f \in Progress
  BY <1>1 DEF Sound, Progress, At, Stages
<1>4. Placed(c, f)
  BY <1>2, RetriesAreNatural DEF Sound, Placed, Requesting
<1>5. Built(c, f)
  BY <1>2 DEF Sound, Built
<1>6. Answered(c, f)
  BY <1>2 DEF Answered, Requesting
<1>7. InTurn(c, f)
  BY <1>2 DEF InTurn, Ending
<1>. QED  BY <1>1, <1>3, <1>4, <1>5, <1>6, <1>7 DEF Sound

(* The last result, and the chunks that are given up with it.                *)
Extended(c, e, reply, results) ==
    /\ results \in Seq(Reply) /\ Len(results) = e.chunk /\ results[e.chunk] = reply
    /\ \A i \in 1 .. e.chunk - 1 : results[i] = e.results[i]
    /\ Sequential(c) => \A i \in 1 .. e.chunk - 1 : results[i].status = "pending"
    /\ e.chunk \in Nat \ {0} /\ e.chunk <= request[c].chunks

LEMMA ResultsOfLast ==
    ASSUME NEW c, Shaped(c), NEW e, Sound(c, e), e.stage \in Requesting, ~IsQuery(c),
           NEW reply \in Reply, NEW results, results = Append(e.results, reply)
    PROVE  Extended(c, e, reply, results)
<1>1. /\ e.chunk \in Nat /\ e.chunk \in 1 .. request[c].chunks /\ e.results \in Seq(Reply)
      /\ Len(e.results) = e.chunk - 1
  BY DEF Sound, Progress, Placed, Answered
<1>2. /\ results \in Seq(Reply) /\ Len(results) = Len(e.results) + 1
      /\ results[Len(e.results) + 1] = reply
      /\ \A i \in 1 .. Len(e.results) : results[i] = e.results[i]
  BY <1>1, ReplyAppended
<1>3. PICK n : n = Len(e.results)
  OBVIOUS
<1>4. /\ results \in Seq(Reply) /\ Len(results) = e.chunk /\ results[e.chunk] = reply
      /\ \A i \in 1 .. e.chunk - 1 : results[i] = e.results[i]
  BY <1>1, <1>2, <1>3
<1>5. Sequential(c) => \A i \in 1 .. e.chunk - 1 : e.results[i].status = "pending"
  BY <1>1 DEF Sound, InTurn, Ending, Requesting
<1>. QED  BY <1>1, <1>4, <1>5 DEF Shaped, Extended

LEMMA GivingUp ==
    ASSUME NEW c, Shaped(c), NEW e, Sound(c, e), ~IsQuery(c), e.stage # "idle",
           NEW head \in Seq(Reply), Len(head) = e.chunk, head[e.chunk].status = "failed",
           Sequential(c) => \A i \in 1 .. e.chunk - 1 : head[i].status = "pending",
           NEW rest, rest = [i \in 1 .. request[c].chunks - e.chunk |-> Result(None, "failed")]
    PROVE  Sound(c, At("returned", e.step, 0, e.chunk, e.tx, head \o rest))
<1>1. PICK k, n : k = request[c].chunks - e.chunk /\ n = e.chunk
  OBVIOUS
<1>2. k \in Nat /\ n \in Nat \ {0} /\ n + k = request[c].chunks
  <2>1. /\ e.chunk \in Nat /\ e.chunk \in 1 .. request[c].chunks
        /\ request[c].chunks \in Nat
    BY DEF Sound, Progress, Placed, Shaped
  <2>. QED  BY <1>1, <2>1
<1>3. PICK t : t = head \o [i \in 1 .. k |-> Result(None, "failed")]
  OBVIOUS
<1>4. /\ t \in Seq(Reply) /\ Len(t) = n + k /\ \A i \in 1 .. n : t[i] = head[i]
      /\ \A i \in n + 1 .. n + k : t[i] = Result(None, "failed")
  <2>1. /\ t \in Seq(Reply) /\ Len(t) = Len(head) + k
        /\ \A i \in 1 .. Len(head) : t[i] = head[i]
        /\ \A i \in Len(head) + 1 .. Len(head) + k : t[i] = Result(None, "failed")
    BY <1>2, <1>3, FailedFollow, Zenon
  <2>2. Len(head) = n
    BY <1>1
  <2>. QED  BY <2>1, <2>2
<1>5. Result(None, "failed").status = "failed"
  BY DEF Result
<1>6. ASSUME Sequential(c), NEW i \in 1 .. Len(t)
      PROVE  /\ t[i].status = "failed" => i >= n
             /\ i > n => t[i].status = "failed"
  <2>1. CASE i \in 1 .. n - 1
    <3>1. head[i].status = "pending"
      BY <1>1, <1>6, <2>1
    <3>2. t[i] = head[i] /\ ~(i > n)
      BY <1>2, <1>4, <2>1
    <3>. QED  BY <3>1, <3>2
  <2>2. CASE i = n
    BY <1>2, <2>2
  <2>3. CASE i \in n + 1 .. n + k
    BY <1>2, <1>4, <1>5, <2>3
  <2>. QED  BY <1>2, <1>4, <1>6, <2>1, <2>2, <2>3
<1>7. Sound(c, At("returned", e.step, 0, e.chunk, e.tx, t))
  BY <1>1, <1>2, <1>4, <1>6, Returning
<1>. QED  BY <1>1, <1>3, <1>7

(* What holds when a confirmation is awaited.                                *)
LEMMA Awaited ==
    ASSUME NEW c, Shaped(c), NEW e, Sound(c, e), e.stage = "getTransaction"
    PROVE  /\ ~IsQuery(c) /\ e.tx # None /\ e.results \in Seq(Reply)
           /\ e.chunk \in Nat \ {0} /\ e.chunk <= request[c].chunks /\ Len(e.results) = e.chunk
           /\ e.results[e.chunk] = Result(e.tx, "pending")
           /\ Sequential(c) => \A i \in 1 .. e.chunk : e.results[i].status = "pending"
           /\ Sequential(c) => e.chunk < request[c].chunks
           /\ Method(c).waits => request[c].chunks = 1 /\ ~Sequential(c)
<1>1. /\ e.chunk \in Nat /\ e.chunk \in 1 .. request[c].chunks /\ e.results \in Seq(Reply)
      /\ Len(e.results) = e.chunk /\ e.results[e.chunk] = Result(e.tx, "pending") /\ e.tx # None
      /\ Method(c).waits \/ (Sequential(c) /\ e.chunk < request[c].chunks)
  BY DEF Sound, Progress, Placed, Answered, Built
<1>2. ~IsQuery(c) /\ ~(Method(c).waits /\ Method(c).splits)
  BY <1>1 DEF Shaped, Submits, SubmitsCached, Asks, IsQuery, Sequential
<1>3. Sequential(c) => \A i \in 1 .. e.chunk : e.results[i].status = "pending"
  BY <1>1 DEF Sound, InTurn, Ending
<1>. QED  BY <1>1, <1>2, <1>3 DEF Shaped, Sequential

-----------------------------------------------------------------------------
(* The steps of one call.                                                    *)

Unsubmitted == {"idle", "getAccount", "prepareTransaction"}

(* The transaction is the same one, or the first one of its chunk, or a new  *)
(* chunk is begun: with a nonce, after the last one was applied.             *)
Carried(c, e, f) ==
    \/ /\ f.tx = e.tx /\ f.chunk = e.chunk
       /\ f.stage \in Unsubmitted => e.stage \in Unsubmitted
    \/ e.tx = None /\ f.tx # None /\ f.chunk = e.chunk
    \/ f.tx = None /\ f.chunk = e.chunk + 1 /\ (Sequential(c) => e.tx \in succeeded)

(* The caller has what the span is about.                                    *)
Settled(c, e) == e.stage \in Ending \/ (e.stage = "getTransaction" /\ Method(c).waits)

Spanned(c, e, f) ==
    \/ e.stage # "idle" /\ CloseSpan(c)
    \/ e.stage # "idle" /\ UNCHANGED <<spans, ended>> /\ (Settled(c, f) => Settled(c, e))
    \/ e.stage = "idle" /\ OpenSpan(c) /\ UNCHANGED ended /\ ~Settled(c, f)
    \/ e.stage = "idle" /\ spans' = spans \ SameName(c) /\ ended' = ended \cup {s \in {c} : Traced(s)}

(* A report stands once it is not 'pending', and a new one that is not       *)
(* 'failed' is about the transaction of the current chunk.                   *)
Adds(e, results) ==
    /\ Len(e.results) <= Len(results)
    /\ \A i \in 1 .. Len(results) :
          /\ i <= Len(e.results) =>
                \/ results[i] = e.results[i]
                \/ e.results[i].status = "pending" /\ results[i].status # "pending"
          /\ results[i].status # "failed" =>
                \/ /\ i <= Len(e.results) /\ results[i].hash = e.results[i].hash
                   /\ e.results[i].status # "failed"
                \/ i = e.chunk /\ results[i].hash = e.tx /\ e.tx # None

Steps(c, e, f, accepted) ==
    /\ call' = [call EXCEPT ![c] = f] /\ f.stage # "idle"
    /\ Sound(c, f) /\ Carried(c, e, f) /\ Spanned(c, e, f)
    /\ Told(e.results, accepted, succeeded) => Told(f.results, accepted, succeeded)
    /\ Adds(e, f.results)

LEMMA AddsNothing ==
    ASSUME NEW c, NEW e, Sound(c, e)
    PROVE  Adds(e, e.results)
<1>1. PICK r : r = e.results
  OBVIOUS
<1>2. r \in Seq(Reply)
  BY <1>1 DEF Sound, Progress
<1>3. Len(r) \in Nat
  BY <1>2
<1>. QED  BY <1>1, <1>3 DEF Adds

LEMMA AddsRest ==
    ASSUME NEW e, NEW head \in Seq(Reply), Adds(e, head), e.results \in Seq(Reply), NEW k \in Nat
    PROVE  Adds(e, head \o [i \in 1 .. k |-> Result(None, "failed")])
<1>1. PICK t, n, m : /\ t = head \o [i \in 1 .. k |-> Result(None, "failed")]
                     /\ n = Len(head) /\ m = Len(e.results)
  OBVIOUS
<1>2. /\ Len(t) = n + k /\ n \in Nat /\ m \in Nat /\ \A i \in 1 .. n : t[i] = head[i]
      /\ \A i \in n + 1 .. n + k : t[i].status = "failed"
  <2>1. /\ Len(t) = Len(head) + k /\ \A i \in 1 .. Len(head) : t[i] = head[i]
        /\ \A i \in Len(head) + 1 .. Len(head) + k : t[i] = Result(None, "failed")
    BY <1>1, FailedFollow, Zenon
  <2>2. Len(head) \in Nat /\ Len(e.results) \in Nat
    OBVIOUS
  <2>. QED  BY <1>1, <2>1, <2>2 DEF Result
<1>3. m <= n /\ m <= n + k
  BY <1>1, <1>2 DEF Adds
<1>4. ASSUME NEW i \in 1 .. n + k
      PROVE  /\ i <= m => \/ t[i] = e.results[i]
                          \/ e.results[i].status = "pending" /\ t[i].status # "pending"
             /\ t[i].status # "failed" =>
                   \/ /\ i <= m /\ t[i].hash = e.results[i].hash
                      /\ e.results[i].status # "failed"
                   \/ i = e.chunk /\ t[i].hash = e.tx /\ e.tx # None
  <2>1. CASE i \in 1 .. n
    <3>1. t[i] = head[i]
      BY <1>2, <2>1
    <3>. QED  BY <1>1, <2>1, <3>1, Zenon DEF Adds
  <2>2. CASE i \in n + 1 .. n + k
    <3>1. ~(i <= m) /\ t[i].status = "failed"
      BY <1>2, <1>3, <2>2
    <3>. QED  BY <3>1
  <2>. QED  BY <1>2, <2>1, <2>2
<1>5. Adds(e, t)
  <2>1. Len(t) = n + k /\ Len(e.results) = m
    BY <1>1, <1>2
  <2>. QED  BY <1>3, <1>4, <2>1, Zenon DEF Adds
<1>. QED  BY <1>1, <1>5

LEMMA UpdatesTo ==
    ASSUME NEW c, NEW changes, Update(c, changes)
    PROVE  call' = [call EXCEPT ![c] = Changed(call[c], changes)]
  BY DEF Update, Changed

LEMMA Finishes ==
    ASSUME NEW c, NEW e \in Progress, e = call[c], NEW stage, NEW results, Finish(c, stage, results)
    PROVE  /\ call' = [call EXCEPT ![c] = At(stage, e.step, 0, e.chunk, e.tx, results)]
           /\ CloseSpan(c)
<1>1. /\ call' = [call EXCEPT ![c] =
                      Changed(call[c], [stage |-> stage, attempt |-> 0, results |-> results])]
      /\ CloseSpan(c)
  BY UpdatesTo, Zenon DEF Finish
<1>2. Changed(e, [stage |-> stage, attempt |-> 0, results |-> results])
         = At(stage, e.step, 0, e.chunk, e.tx, results)
  BY DEF Changed, Progress, At
<1>. QED  BY <1>1, <1>2, Zenon

LEMMA GoesTo ==
    ASSUME NEW c, NEW e \in Progress, e = call[c], NEW step, GoTo(c, step)
    PROVE  /\ call' = [call EXCEPT ![c] = At(Requests(c)[step], step, 0, e.chunk, e.tx, e.results)]
           /\ UNCHANGED <<spans, ended>>
<1>1. /\ call' = [call EXCEPT ![c] =
                      Changed(call[c], [stage |-> Requests(c)[step], step |-> step, attempt |-> 0])]
      /\ UNCHANGED <<spans, ended>>
  BY UpdatesTo, Zenon DEF GoTo
<1>2. Changed(e, [stage |-> Requests(c)[step], step |-> step, attempt |-> 0])
         = At(Requests(c)[step], step, 0, e.chunk, e.tx, e.results)
  BY DEF Changed, Progress, At
<1>. QED  BY <1>1, <1>2, Zenon

LEMMA TakesNextChunk ==
    ASSUME NEW c, NEW e \in Progress, e = call[c], NEW results, NextChunk(c, results)
    PROVE  /\ call' = [call EXCEPT ![c] = At("getAccount", 1, 0, e.chunk + 1, None, results)]
           /\ UNCHANGED <<spans, ended>>
<1>1. /\ call' = [call EXCEPT ![c] =
                      Changed(call[c], [stage |-> "getAccount", step |-> 1, attempt |-> 0,
                                        tx |-> None, chunk |-> call[c].chunk + 1,
                                        results |-> results])]
      /\ UNCHANGED <<spans, ended>>
  BY UpdatesTo, Zenon DEF NextChunk
<1>2. Changed(e, [stage |-> "getAccount", step |-> 1, attempt |-> 0, tx |-> None,
                  chunk |-> call[c].chunk + 1, results |-> results])
         = At("getAccount", 1, 0, e.chunk + 1, None, results)
  BY DEF Changed, Progress, At
<1>. QED  BY <1>1, <1>2, Zenon

LEMMA Waits ==
    ASSUME NEW c, NEW e \in Progress, e = call[c], NEW results, Wait(c, results)
    PROVE  call' = [call EXCEPT ![c] = At("getTransaction", e.step, 0, e.chunk, e.tx, results)]
<1>1. call' = [call EXCEPT ![c] = Changed(call[c], [stage |-> "getTransaction",
                                      attempt |-> 0, results |-> results])]
  BY UpdatesTo, Zenon DEF Wait
<1>2. Changed(e, [stage |-> "getTransaction", attempt |-> 0, results |-> results])
         = At("getTransaction", e.step, 0, e.chunk, e.tx, results)
  BY DEF Changed, Progress, At
<1>. QED  BY <1>1, <1>2, Zenon

LEMMA Attempts ==
    ASSUME NEW c, NEW e \in Progress, e = call[c], NEW attempt, Update(c, [attempt |-> attempt])
    PROVE  call' = [call EXCEPT ![c] = At(e.stage, e.step, attempt, e.chunk, e.tx, e.results)]
<1>1. call' = [call EXCEPT ![c] = Changed(call[c], [attempt |-> attempt])]
  BY UpdatesTo, Zenon
<1>2. Changed(e, [attempt |-> attempt])
         = At(e.stage, e.step, attempt, e.chunk, e.tx, e.results)
  BY DEF Changed, Progress, At
<1>. QED  BY <1>1, <1>2, Zenon

LEMMA Returns ==
    ASSUME NEW c, NEW e \in Progress, e = call[c], NEW results,
           Update(c, [stage |-> "returned", attempt |-> 0, results |-> results])
    PROVE  call' = [call EXCEPT ![c] = At("returned", e.step, 0, e.chunk, e.tx, results)]
<1>1. call' = [call EXCEPT ![c] = Changed(call[c], [stage |-> "returned", attempt |-> 0,
                                      results |-> results])]
  BY UpdatesTo, Zenon
<1>2. Changed(e, [stage |-> "returned", attempt |-> 0, results |-> results])
         = At("returned", e.step, 0, e.chunk, e.tx, results)
  BY DEF Changed, Progress, At
<1>. QED  BY <1>1, <1>2, Zenon

(* What is told of a submission: that the network accepted it, or that it    *)
(* did not.                                                                  *)
Reported(e, reply, accepted) ==
    /\ reply \in Reply
    /\ \/ reply = Result(e.tx, "pending") /\ e.tx # None /\ e.tx \in accepted
       \/ reply.status = "failed"

LEMMA ToldOfLast ==
    ASSUME NEW c, Shaped(c), NEW e, Sound(c, e), e.stage \in Requesting, ~IsQuery(c),
           NEW accepted, NEW reply, Reported(e, reply, accepted),
           Told(e.results, accepted, succeeded)
    PROVE  Told(Append(e.results, reply), accepted, succeeded)
<1>1. PICK results, n : results = Append(e.results, reply) /\ n = e.chunk
  OBVIOUS
<1>2. /\ Len(results) = n /\ results[n] = reply /\ n \in Nat \ {0}
      /\ \A i \in 1 .. n - 1 : results[i] = e.results[i]
  BY <1>1, ResultsOfLast DEF Reported, Extended
<1>3. Len(e.results) = n - 1
  BY <1>1 DEF Sound, Answered
<1>4. /\ reply.status # "success"
      /\ reply.status = "pending" => reply.hash \in accepted
  BY DEF Reported, Result
<1>5. ASSUME NEW i \in 1 .. n
      PROVE  /\ results[i].status = "success" => results[i].hash \in succeeded
             /\ results[i].status = "pending" => results[i].hash \in accepted
  <2>1. CASE i = n
    BY <1>2, <1>4, <2>1
  <2>2. CASE i # n
    <3>1. i \in 1 .. n - 1
      BY <1>2, <2>2
    <3>. QED  BY <1>2, <1>3, <3>1 DEF Told
  <2>. QED  BY <2>1, <2>2
<1>. QED  BY <1>1, <1>2, <1>5 DEF Told

LEMMA AddsLast ==
    ASSUME NEW c, Shaped(c), NEW e, Sound(c, e), e.stage \in Requesting, ~IsQuery(c),
           NEW accepted, NEW reply, Reported(e, reply, accepted)
    PROVE  Adds(e, Append(e.results, reply))
<1>1. PICK results, n : results = Append(e.results, reply) /\ n = e.chunk
  OBVIOUS
<1>2. /\ Len(results) = n /\ results[n] = reply /\ n \in Nat \ {0}
      /\ \A i \in 1 .. n - 1 : results[i] = e.results[i]
  BY <1>1, ResultsOfLast DEF Reported, Extended
<1>3. Len(e.results) = n - 1
  BY <1>1 DEF Sound, Answered
<1>4. reply.status # "failed" => reply.hash = e.tx /\ e.tx # None
  BY DEF Reported, Result
<1>5. ASSUME NEW i \in 1 .. n
      PROVE  /\ i <= n - 1 => results[i] = e.results[i]
             /\ results[i].status # "failed" =>
                   \/ /\ i <= n - 1 /\ results[i].hash = e.results[i].hash
                      /\ e.results[i].status # "failed"
                   \/ i = n /\ results[i].hash = e.tx /\ e.tx # None
  <2>1. CASE i = n
    BY <1>2, <1>4, <2>1
  <2>2. CASE i # n
    <3>1. i \in 1 .. n - 1
      BY <1>2, <2>2
    <3>. QED  BY <1>2, <3>1
  <2>. QED  BY <2>1, <2>2
<1>6. n - 1 <= n
  BY <1>2
<1>. QED  BY <1>1, <1>2, <1>3, <1>5, <1>6, Zenon DEF Adds

LEMMA ToldWithRest ==
    ASSUME NEW head \in Seq(Reply), NEW k \in Nat, NEW accepted, Told(head, accepted, succeeded)
    PROVE  Told(head \o [i \in 1 .. k |-> Result(None, "failed")], accepted, succeeded)
<1>1. PICK t, n : t = head \o [i \in 1 .. k |-> Result(None, "failed")] /\ n = Len(head)
  OBVIOUS
<1>2. /\ t \in Seq(Reply) /\ Len(t) = n + k /\ n \in Nat /\ \A i \in 1 .. n : t[i] = head[i]
      /\ \A i \in n + 1 .. n + k : t[i] = Result(None, "failed")
  <2>1. /\ t \in Seq(Reply) /\ Len(t) = Len(head) + k
        /\ \A i \in 1 .. Len(head) : t[i] = head[i]
        /\ \A i \in Len(head) + 1 .. Len(head) + k : t[i] = Result(None, "failed")
    BY <1>1, FailedFollow, Zenon
  <2>. QED  BY <1>1, <2>1
<1>3. Result(None, "failed").status = "failed"
  BY DEF Result
<1>4. ASSUME NEW i \in 1 .. n + k
      PROVE  /\ t[i].status = "success" => t[i].hash \in succeeded
             /\ t[i].status = "pending" => t[i].hash \in accepted
  <2>1. CASE i \in 1 .. n
    BY <1>1, <1>2, <2>1 DEF Told
  <2>2. CASE i \in n + 1 .. n + k
    BY <1>2, <1>3, <2>2
  <2>. QED  BY <1>2, <2>1, <2>2
<1>. QED  BY <1>1, <1>2, <1>4 DEF Told

LEMMA Records ==
    ASSUME NEW c, Shaped(c), NEW e, e = call[c], Sound(c, e), e.stage \in Requesting, ~IsQuery(c),
           NEW accepted, NEW reply, Reported(e, reply, accepted), Record(c, reply)
    PROVE  \E f : Steps(c, e, f, accepted)
<1>1. PICK results : results = Append(e.results, reply)
  OBVIOUS
<1>2. PICK pending : pending = (reply.status = "pending")
  OBVIOUS
<1>3. /\ results \in Seq(Reply) /\ Len(results) = e.chunk /\ results[e.chunk] = reply
      /\ Sequential(c) => \A i \in 1 .. e.chunk - 1 : results[i].status = "pending"
      /\ e.chunk \in Nat \ {0} /\ e.chunk <= request[c].chunks /\ request[c].chunks \in Nat
  <2>1. reply \in Reply
    BY DEF Reported
  <2>2. request[c].chunks \in Nat
    BY DEF Shaped
  <2>3. Extended(c, e, reply, results)
    BY <1>1, <2>1, ResultsOfLast, Zenon
  <2>. QED  BY <1>1, <2>2, <2>3 DEF Extended
<1>4. e \in Progress /\ e.stage # "idle" /\ e.stage # "getTransaction" /\ e.stage \notin Ending
  BY DEF Sound, Requesting, Ending
<1>5. Told(e.results, accepted, succeeded) => Told(results, accepted, succeeded)
  BY <1>1, ToldOfLast
<1>6. reply.status = "pending" => reply = Result(e.tx, "pending") /\ e.tx # None
  BY DEF Reported
<1>0. Adds(e, results)
  BY <1>1, AddsLast
<1>7. CASE Method(c).waits /\ reply.status = "pending" /\ Wait(c, results) /\ CloseSpan(c)
  <2>1. PICK f : f = At("getTransaction", e.step, 0, e.chunk, e.tx, results)
    OBVIOUS
  <2>2. f.stage = "getTransaction" /\ f.tx = e.tx /\ f.chunk = e.chunk /\ f.results = results
    BY <2>1 DEF At
  <2>3. call' = [call EXCEPT ![c] = f]
    BY <1>4, <1>7, <2>1, Waits
  <2>4. Sound(c, f)
    BY <1>1, <1>6, <1>7, <2>1, Awaiting
  <2>5. Carried(c, e, f) /\ Spanned(c, e, f)
    BY <1>4, <1>7, <2>2 DEF Carried, Spanned, Unsubmitted
  <2>. QED  BY <1>0, <1>5, <2>2, <2>3, <2>4, <2>5 DEF Steps
<1>8. CASE /\ ~Method(c).waits /\ Sequential(c) /\ More(c) /\ reply.status = "pending"
           /\ Wait(c, results) /\ UNCHANGED <<spans, ended>>
  <2>1. PICK f : f = At("getTransaction", e.step, 0, e.chunk, e.tx, results)
    OBVIOUS
  <2>2. f.stage = "getTransaction" /\ f.tx = e.tx /\ f.chunk = e.chunk /\ f.results = results
    BY <2>1 DEF At
  <2>3. call' = [call EXCEPT ![c] = f]
    BY <1>4, <1>8, <2>1, Waits
  <2>4. Sound(c, f)
    BY <1>1, <1>6, <1>8, <2>1, Awaiting DEF More
  <2>5. Carried(c, e, f) /\ Spanned(c, e, f)
    BY <1>4, <1>8, <2>2 DEF Carried, Spanned, Unsubmitted, Settled, Ending
  <2>. QED  BY <1>0, <1>5, <2>2, <2>3, <2>4, <2>5 DEF Steps
<1>9. CASE /\ Sequential(c) /\ More(c) /\ ~(reply.status = "pending")
           /\ Finish(c, "returned", results \o NotSubmitted(c))
  <2>1. PICK rest, all, f : /\ rest = NotSubmitted(c) /\ all = results \o rest
                            /\ f = At("returned", e.step, 0, e.chunk, e.tx, all)
    OBVIOUS
  <2>2. f.stage = "returned" /\ f.tx = e.tx /\ f.chunk = e.chunk /\ f.results = all
    BY <2>1 DEF At
  <2>3. call' = [call EXCEPT ![c] = f] /\ CloseSpan(c)
    BY <1>4, <1>9, <2>1, Finishes
  <2>4. rest = [i \in 1 .. request[c].chunks - e.chunk |-> Result(None, "failed")]
    BY <2>1 DEF NotSubmitted
  <2>5. results[e.chunk].status = "failed"
    BY <1>3, <1>9 DEF Reported, Result
  <2>6. Sound(c, f)
    BY <1>3, <1>4, <2>1, <2>4, <2>5, GivingUp
  <2>7. Carried(c, e, f) /\ Spanned(c, e, f)
    BY <1>4, <2>2, <2>3 DEF Carried, Spanned, Unsubmitted
  <2>8. request[c].chunks - e.chunk \in Nat
    BY <1>3
  <2>9. Told(results, accepted, succeeded) => Told(all, accepted, succeeded)
    BY <1>3, <2>1, <2>4, <2>8, ToldWithRest, Zenon
  <2>10. Adds(e, all)
    <3>1. e.results \in Seq(Reply)
      BY DEF Sound, Progress
    <3>. QED  BY <1>0, <1>3, <2>1, <2>4, <2>8, <3>1, AddsRest, Zenon
  <2>. QED  BY <1>5, <2>2, <2>3, <2>6, <2>7, <2>9, <2>10 DEF Steps
<1>10. CASE Method(c).splits /\ ~Sequential(c) /\ More(c) /\ NextChunk(c, results)
  <2>1. PICK f : f = At("getAccount", 1, 0, e.chunk + 1, None, results)
    OBVIOUS
  <2>2. f.stage = "getAccount" /\ f.tx = None /\ f.chunk = e.chunk + 1 /\ f.results = results
    BY <2>1 DEF At
  <2>3. call' = [call EXCEPT ![c] = f] /\ UNCHANGED <<spans, ended>>
    BY <1>4, <1>10, <2>1, TakesNextChunk
  <2>4. Sound(c, f)
    BY <1>3, <1>10, <2>1, TakingNextChunk DEF More
  <2>5. Carried(c, e, f) /\ Spanned(c, e, f)
    BY <1>4, <1>10, <2>2, <2>3 DEF Carried, Spanned, Settled, Ending
  <2>. QED  BY <1>0, <1>5, <2>2, <2>3, <2>4, <2>5 DEF Steps
<1>11. CASE /\ ~(Method(c).waits /\ reply.status = "pending") /\ ~(Method(c).splits /\ More(c))
            /\ Finish(c, "returned", results)
  <2>1. PICK f : f = At("returned", e.step, 0, e.chunk, e.tx, results)
    OBVIOUS
  <2>2. f.stage = "returned" /\ f.tx = e.tx /\ f.chunk = e.chunk /\ f.results = results
    BY <2>1 DEF At
  <2>3. call' = [call EXCEPT ![c] = f] /\ CloseSpan(c)
    BY <1>4, <1>11, <2>1, Finishes
  <2>4. e.chunk = request[c].chunks
    BY <1>3, <1>11 DEF More, Shaped
  <2>5. Sequential(c) => \A i \in 1 .. Len(results) :
            /\ results[i].status = "failed" => i >= e.chunk
            /\ i > e.chunk => results[i].status = "failed"
    <3>1. PICK n : n = e.chunk
      OBVIOUS
    <3>2. ASSUME Sequential(c), NEW i \in 1 .. n
          PROVE  /\ results[i].status = "failed" => i >= n
                 /\ i > n => results[i].status = "failed"
      <4>1. CASE i = n
        BY <1>3, <3>1, <4>1
      <4>2. CASE i # n
        <5>1. i \in 1 .. n - 1
          BY <1>3, <3>1, <4>2
        <5>2. results[i].status = "pending" /\ ~(i > n)
          BY <1>3, <3>1, <3>2, <5>1
        <5>. QED  BY <5>2
      <4>. QED  BY <4>1, <4>2
    <3>. QED  BY <1>3, <3>1, <3>2
  <2>6. Sound(c, f)
    BY <1>3, <1>4, <2>1, <2>4, <2>5, Returning
  <2>7. Carried(c, e, f) /\ Spanned(c, e, f)
    BY <1>4, <2>2, <2>3 DEF Carried, Spanned, Unsubmitted
  <2>. QED  BY <1>0, <1>5, <2>2, <2>3, <2>6, <2>7 DEF Steps
<1>. QED  BY <1>1, <1>7, <1>8, <1>9, <1>10, <1>11 DEF Record

(* The submission is not confirmed, and the results say so.                  *)
LEMMA NotConfirms ==
    ASSUME NEW c, Shaped(c), NEW e, e = call[c], Sound(c, e), e.stage = "getTransaction",
           NEW accepted, NotConfirmed(c)
    PROVE  \E f : Steps(c, e, f, accepted)
<1>0. PICK head : head = [e.results EXCEPT ![Len(e.results)].status = "failed"]
  OBVIOUS
<1>1. PICK rest, all, f : /\ rest = NotSubmitted(c) /\ all = head \o rest
                          /\ f = At("returned", e.step, 0, e.chunk, e.tx, all)
  OBVIOUS
<1>2. f.stage = "returned" /\ f.tx = e.tx /\ f.chunk = e.chunk /\ f.results = all
  BY <1>1 DEF At
<1>3. PICK n : n = e.chunk
  OBVIOUS
<1>4. /\ ~IsQuery(c) /\ e.results \in Seq(Reply) /\ Len(e.results) = n
      /\ n \in Nat \ {0} /\ n <= request[c].chunks /\ request[c].chunks \in Nat
      /\ Sequential(c) => \A i \in 1 .. n : e.results[i].status = "pending"
  BY <1>3, Awaited DEF Shaped
<1>5. /\ head \in Seq(Reply) /\ Len(head) = n
      /\ head[n] = Result(e.results[n].hash, "failed")
      /\ \A i \in 1 .. n - 1 : head[i] = e.results[i]
  BY <1>0, <1>4, LastDecided
<1>6. head[n].status = "failed"
  BY <1>5 DEF Result
<1>7. Sequential(c) => \A i \in 1 .. n - 1 : head[i].status = "pending"
  BY <1>4, <1>5
<1>8. rest = [i \in 1 .. request[c].chunks - e.chunk |-> Result(None, "failed")]
  BY <1>1 DEF NotSubmitted
<1>9. Sound(c, f)
  <2>1. /\ e.stage # "idle" /\ Len(head) = e.chunk /\ head[e.chunk].status = "failed"
        /\ Sequential(c) => \A i \in 1 .. e.chunk - 1 : head[i].status = "pending"
    BY <1>3, <1>5, <1>6, <1>7
  <2>2. Sound(c, At("returned", e.step, 0, e.chunk, e.tx, head \o rest))
    BY <1>4, <1>5, <1>8, <2>1, GivingUp, Zenon
  <2>. QED  BY <1>1, <2>2, Zenon
<1>10. Told(e.results, accepted, succeeded) => Told(all, accepted, succeeded)
  <2>1. SUFFICES ASSUME Told(e.results, accepted, succeeded)
                 PROVE  Told(all, accepted, succeeded)
    OBVIOUS
  <2>2. ASSUME NEW i \in 1 .. n
        PROVE  /\ head[i].status = "success" => head[i].hash \in succeeded
               /\ head[i].status = "pending" => head[i].hash \in accepted
    <3>1. CASE i = n
      BY <1>6, <3>1
    <3>2. CASE i # n
      <4>1. i \in 1 .. n - 1 /\ head[i] = e.results[i]
        BY <1>4, <1>5, <3>2
      <4>. QED  BY <1>4, <2>1, <4>1 DEF Told
    <3>. QED  BY <3>1, <3>2
  <2>3. Told(head, accepted, succeeded)
    BY <1>5, <2>2 DEF Told
  <2>4. request[c].chunks - e.chunk \in Nat
    BY <1>3, <1>4
  <2>. QED  BY <1>1, <1>5, <1>8, <2>3, <2>4, ToldWithRest, Zenon
<1>11. Carried(c, e, f)
  BY <1>2 DEF Carried, Unsubmitted
<1>12. e \in Progress
  BY DEF Sound
<1>15. Adds(e, all)
  <2>1. e.results[n].status = "pending" /\ n <= n
    <3>1. e.results[n] = Result(e.tx, "pending")
      BY <1>3, Awaited
    <3>. QED  BY <1>4, <3>1 DEF Result
  <2>2. ASSUME NEW i \in 1 .. n
        PROVE  /\ head[i] = e.results[i]
                  \/ (e.results[i].status = "pending" /\ head[i].status # "pending")
               /\ head[i].status # "failed" =>
                     /\ i <= n /\ head[i].hash = e.results[i].hash
                     /\ e.results[i].status # "failed"
    <3>1. CASE i = n
      BY <1>6, <2>1, <3>1
    <3>2. CASE i # n
      <4>1. i \in 1 .. n - 1 /\ i <= n
        BY <1>4, <3>2
      <4>. QED  BY <1>5, <4>1
    <3>. QED  BY <3>1, <3>2
  <2>3. Adds(e, head)
    <3>1. Len(head) = n /\ Len(e.results) = n /\ n <= n
      BY <1>4, <1>5, <2>1
    <3>2. \A i \in 1 .. Len(head) :
              /\ i <= Len(e.results) =>
                    \/ head[i] = e.results[i]
                    \/ e.results[i].status = "pending" /\ head[i].status # "pending"
              /\ head[i].status # "failed" =>
                    /\ i <= Len(e.results) /\ head[i].hash = e.results[i].hash
                    /\ e.results[i].status # "failed"
      BY <2>2, <3>1
    <3>3. Len(e.results) <= Len(head)
      BY <3>1
    <3>. QED  BY <3>2, <3>3, Zenon DEF Adds
  <2>4. request[c].chunks - e.chunk \in Nat
    BY <1>3, <1>4
  <2>5. head \in Seq(Reply) /\ e.results \in Seq(Reply)
    BY <1>4, <1>5
  <2>6. Adds(e, head \o [i \in 1 .. request[c].chunks - e.chunk |-> Result(None, "failed")])
    BY <2>3, <2>4, <2>5, AddsRest, Zenon
  <2>. QED  BY <1>1, <1>8, <2>6, Zenon
<1>13. CASE /\ Method(c).waits /\ Update(c, [stage |-> "returned", attempt |-> 0, results |-> all])
            /\ UNCHANGED <<spans, ended>>
  <2>1. call' = [call EXCEPT ![c] = f]
    <3>1. Update(c, [stage |-> "returned", attempt |-> 0, results |-> all])
      BY <1>13
    <3>2. call' = [call EXCEPT ![c] = At("returned", e.step, 0, e.chunk, e.tx, all)]
      BY <1>12, <3>1, Returns, Zenon
    <3>. QED  BY <1>1, <3>2
  <2>2. Spanned(c, e, f)
    BY <1>2, <1>13 DEF Spanned, Settled
  <2>. QED  BY <1>2, <1>9, <1>10, <1>11, <1>15, <2>1, <2>2 DEF Steps
<1>14. CASE ~Method(c).waits /\ Finish(c, "returned", all)
  <2>1. call' = [call EXCEPT ![c] = f] /\ CloseSpan(c)
    BY <1>1, <1>12, <1>14, Finishes
  <2>2. Spanned(c, e, f)
    BY <2>1 DEF Spanned
  <2>. QED  BY <1>2, <1>9, <1>10, <1>11, <1>15, <2>1, <2>2 DEF Steps
<1>. QED  BY <1>0, <1>1, <1>13, <1>14 DEF NotConfirmed

(* A call that ends without a result.                                        *)
LEMMA EndsEmpty ==
    ASSUME NEW c, Shaped(c), NEW e, e = call[c], Sound(c, e), e.stage # "idle",
           NEW stage \in Ending, IsQuery(c) \/ stage = "thrown", NEW accepted,
           e.results = <<>>, Finish(c, stage, <<>>)
    PROVE  \E f : Steps(c, e, f, accepted)
<1>1. PICK f : f = At(stage, e.step, 0, e.chunk, e.tx, <<>>)
  OBVIOUS
<1>2. f.stage = stage /\ f.tx = e.tx /\ f.chunk = e.chunk /\ f.results = <<>>
  BY <1>1, Fields
<1>3. e \in Progress
  BY DEF Sound
<1>4. call' = [call EXCEPT ![c] = f] /\ CloseSpan(c)
  BY <1>1, <1>3, Finishes
<1>5. Sound(c, f)
  BY <1>1, EndingEmpty
<1>6. Carried(c, e, f) /\ Spanned(c, e, f)
  BY <1>2, <1>4 DEF Carried, Spanned, Unsubmitted, Ending
<1>7. Told(f.results, accepted, succeeded)
  BY <1>2 DEF Told
<1>8. Adds(e, f.results)
  BY <1>2, AddsNothing
<1>. QED  BY <1>2, <1>4, <1>5, <1>6, <1>7, <1>8 DEF Steps, Ending

LEMMA FailsSoundly ==
    ASSUME NEW c, Shaped(c), NEW e, e = call[c], Sound(c, e), e.stage # "idle",
           e.stage \notin Ending, NEW accepted, Fails(c)
    PROVE  \E f : Steps(c, e, f, accepted)
<1>1. CASE e.stage = "getTransaction"
  <2>1. NotConfirmed(c)
    BY <1>1 DEF Fails
  <2>. QED  BY <1>1, <2>1, NotConfirms
<1>2. CASE e.stage # "getTransaction" /\ (IsQuery(c) \/ Method(c).cached)
  <2>1. Finish(c, "thrown", <<>>)
    BY <1>2 DEF Fails
  <2>2. e.results = <<>>
    <3>1. CASE IsQuery(c)
      BY <3>1 DEF Sound, Answered
    <3>2. CASE ~IsQuery(c) /\ Method(c).cached
      <4>1. request[c].chunks = 1
        BY <3>2 DEF Shaped, Submits, SubmitsCached, Asks, IsQuery
      <4>2. e.stage \in Requesting
        BY <1>2 DEF Sound, Progress, Stages, Requesting, Ending
      <4>3. e.chunk = 1 /\ Len(e.results) = e.chunk - 1 /\ e.results \in Seq(Reply)
        BY <3>2, <4>1, <4>2 DEF Sound, Placed, Answered, Progress
      <4>. QED  BY <4>3
    <3>. QED  BY <1>2, <3>1, <3>2
  <2>. QED  BY <1>2, <2>1, <2>2, EndsEmpty DEF Ending
<1>3. CASE e.stage # "getTransaction" /\ ~IsQuery(c) /\ ~Method(c).cached
  <2>1. PICK reply : reply = Result(None, "failed")
    OBVIOUS
  <2>2. Record(c, reply)
    BY <1>3, <2>1 DEF Fails
  <2>3. Reported(e, reply, accepted)
    BY <2>1 DEF Reported, Reply, Result
  <2>4. e.stage \in Requesting
    BY <1>3 DEF Sound, Progress, Stages, Requesting, Ending
  <2>. QED  BY <1>3, <2>2, <2>3, <2>4, Records
<1>. QED  BY <1>1, <1>2, <1>3

(* A request is repeated, or the next chunk asked for once more.             *)
LEMMA Repeats ==
    ASSUME NEW c, NEW e, e = call[c], Sound(c, e), e.stage # "idle", NEW attempt \in Nat,
           attempt <= Retries(e.stage), NEW accepted, Update(c, [attempt |-> attempt]),
           UNCHANGED <<spans, ended>>
    PROVE  \E f : Steps(c, e, f, accepted)
<1>1. PICK f : f = At(e.stage, e.step, attempt, e.chunk, e.tx, e.results)
  OBVIOUS
<1>2. f.stage = e.stage /\ f.tx = e.tx /\ f.chunk = e.chunk /\ f.results = e.results
  BY <1>1, Fields
<1>3. e \in Progress
  BY DEF Sound
<1>4. call' = [call EXCEPT ![c] = f]
  BY <1>1, <1>3, Attempts
<1>5. Sound(c, f)
  BY <1>1, Repeating
<1>6. Carried(c, e, f) /\ Spanned(c, e, f)
  BY <1>2 DEF Carried, Spanned, Settled
<1>7. Adds(e, f.results)
  BY <1>2, AddsNothing
<1>. QED  BY <1>2, <1>4, <1>5, <1>6, <1>7 DEF Steps

LEMMA Retried ==
    ASSUME NEW c, Shaped(c), NEW e, e = call[c], Sound(c, e), e.stage # "idle",
           e.stage \notin Ending, NEW accepted, withRetry(c)
    PROVE  \E f : Steps(c, e, f, accepted)
<1>1. CASE e.attempt < Retries(e.stage) /\ Retry(c)
  <2>1. e.attempt + 1 \in Nat /\ e.attempt + 1 <= Retries(e.stage)
    BY <1>1, RetriesAreNatural DEF Sound, Progress
  <2>2. Update(c, [attempt |-> e.attempt + 1]) /\ UNCHANGED <<spans, ended>>
    BY <1>1 DEF Retry
  <2>. QED  BY <2>1, <2>2, Repeats
<1>2. CASE Fails(c)
  BY <1>2, FailsSoundly
<1>. QED  BY <1>1, <1>2 DEF withRetry

LEMMA RequestsRequest ==
    ASSUME NEW c, Shaped(c), NEW i \in 1 .. Len(Requests(c))
    PROVE  Requests(c)[i] \in Requesting
<1>1. PICK r, n : r = Requests(c) /\ n = Len(Requests(c))
  OBVIOUS
<1>2. CASE Submits(Method(c))
  <2>1. n = 3 /\ r[1] = "getAccount" /\ r[2] = "prepareTransaction" /\ r[3] = "sendTransaction"
    BY <1>1, <1>2, RequestsOf
  <2>2. i = 1 \/ i = 2 \/ i = 3
    BY <1>1, <2>1
  <2>. QED  BY <1>1, <2>1, <2>2 DEF Requesting
<1>3. CASE SubmitsCached(Method(c))
  <2>1. /\ n = 4 /\ r[1] = "getAccount" /\ r[2] = "getAccount"
        /\ r[3] = "prepareTransaction" /\ r[4] = "sendTransaction"
    BY <1>1, <1>3, RequestsOf
  <2>2. i = 1 \/ i = 2 \/ i = 3 \/ i = 4
    BY <1>1, <2>1
  <2>. QED  BY <1>1, <2>1, <2>2 DEF Requesting
<1>4. CASE Asks(Method(c))
  <2>1. /\ r[1] = "simulateTransaction"
        /\ n = 1 \/ (n = 3 /\ r[2] = "getFeeStats" /\ r[3] = "getLedgerEntries")
    BY <1>1, <1>4, RequestsOf
  <2>2. i = 1 \/ (n = 3 /\ (i = 2 \/ i = 3))
    BY <1>1, <2>1
  <2>. QED  BY <1>1, <2>1, <2>2 DEF Requesting
<1>. QED  BY <1>2, <1>3, <1>4 DEF Shaped

(* The simulation is not the last request of a submission.                   *)
LEMMA Prepares ==
    ASSUME NEW c, Shaped(c), NEW e, Sound(c, e),
           \/ e.stage = "prepareTransaction"
           \/ e.stage = "getAccount" /\ e.step = 2
    PROVE  e.step < Len(Requests(c))
<1>1. PICK r, n : r = Requests(c) /\ n = Len(Requests(c))
  OBVIOUS
<1>2. e.step \in 1 .. n /\ e.stage = r[e.step] /\ e.step \in Nat
  BY <1>1 DEF Sound, Placed, Requesting, Progress
<1>3. CASE Submits(Method(c))
  <2>1. n = 3 /\ r[1] = "getAccount" /\ r[2] = "prepareTransaction" /\ r[3] = "sendTransaction"
    BY <1>1, <1>3, RequestsOf
  <2>. QED  BY <1>1, <1>2, <2>1
<1>4. CASE SubmitsCached(Method(c))
  <2>1. /\ n = 4 /\ r[1] = "getAccount" /\ r[2] = "getAccount"
        /\ r[3] = "prepareTransaction" /\ r[4] = "sendTransaction"
    BY <1>1, <1>4, RequestsOf
  <2>. QED  BY <1>1, <1>2, <2>1
<1>5. CASE Asks(Method(c))
  <2>1. /\ r[1] = "simulateTransaction"
        /\ n = 1 \/ (n = 3 /\ r[2] = "getFeeStats" /\ r[3] = "getLedgerEntries")
    BY <1>1, <1>5, RequestsOf
  <2>. QED  BY <1>1, <1>2, <2>1
<1>. QED  BY <1>3, <1>4, <1>5 DEF Shaped

LEMMA GoesOnSoundly ==
    ASSUME NEW c, Shaped(c), NEW e, e = call[c], Sound(c, e), e.stage \in Requesting,
           e.step < Len(Requests(c)), e.stage = "getAccount" => e.step = 2, NEW accepted,
           NEW step, step = e.step + 1, GoTo(c, step)
    PROVE  \E f : Steps(c, e, f, accepted)
<1>1. PICK stage : stage = Requests(c)[step]
  OBVIOUS
<1>2. PICK f : f = At(stage, step, 0, e.chunk, e.tx, e.results)
  OBVIOUS
<1>3. f.stage = stage /\ f.tx = e.tx /\ f.chunk = e.chunk /\ f.results = e.results
  BY <1>2, Fields
<1>4. e \in Progress /\ e.step \in 1 .. Len(Requests(c))
  BY DEF Sound, Placed
<1>5. call' = [call EXCEPT ![c] = f] /\ UNCHANGED <<spans, ended>>
  BY <1>1, <1>2, <1>4, GoesTo
<1>6. /\ Sound(c, f)
      /\ stage \in {"getAccount", "prepareTransaction"} => e.stage = "getAccount"
  BY <1>1, <1>2, Going
<1>7. stage \in Requesting
  <2>1. step \in 1 .. Len(Requests(c))
    BY <1>4
  <2>. QED  BY <1>1, <2>1, RequestsRequest
<1>8. Carried(c, e, f)
  BY <1>3, <1>6, <1>7 DEF Carried, Unsubmitted, Requesting
<1>9. Spanned(c, e, f)
  BY <1>3, <1>5, <1>7 DEF Spanned, Settled, Ending, Requesting
<1>10. Adds(e, f.results)
  BY <1>3, AddsNothing
<1>. QED  BY <1>3, <1>5, <1>6, <1>7, <1>8, <1>9, <1>10 DEF Steps, Requesting

LEMMA Starts ==
    ASSUME NEW c, Shaped(c), NEW e, e = call[c], Sound(c, e), NEW accepted, Start(c)
    PROVE  \E f : Steps(c, e, f, accepted)
<1>1. e.stage = "idle" /\ e \in Progress /\ e.results = <<>>
  BY DEF Start, Sound, Answered
<1>5. Adds(e, e.results)
  BY AddsNothing
<1>2. CASE /\ ~Rejected(c) /\ ~Unconverted(c)
           /\ Update(c, [stage |-> Requests(c)[1], step |-> 1]) /\ OpenSpan(c) /\ UNCHANGED ended
  <2>1. PICK stage : stage = Requests(c)[1]
    OBVIOUS
  <2>2. PICK f : f = At(stage, 1, e.attempt, e.chunk, e.tx, e.results)
    OBVIOUS
  <2>3. f.stage = stage /\ f.tx = e.tx /\ f.chunk = e.chunk /\ f.results = e.results
    BY <2>2, Fields
  <2>4. call' = [call EXCEPT ![c] = Changed(call[c], [stage |-> stage, step |-> 1])]
    BY <1>2, <2>1, UpdatesTo
  <2>5. Changed(e, [stage |-> stage, step |-> 1]) = f
    BY <1>1, <2>2 DEF Changed, Progress, At
  <2>6. call' = [call EXCEPT ![c] = f]
    BY <2>4, <2>5
  <2>7. Sound(c, f)
    BY <1>1, <2>1, <2>2, Starting
  <2>8. stage \in Requesting
    <3>1. 1 \in 1 .. Len(Requests(c))
      BY RequestsOf DEF Shaped
    <3>. QED  BY <2>1, <3>1, RequestsRequest
  <2>9. Carried(c, e, f) /\ Spanned(c, e, f)
    BY <1>1, <1>2, <2>3, <2>8
       DEF Carried, Spanned, Unsubmitted, Settled, Ending, Requesting
  <2>. QED  BY <1>5, <2>3, <2>6, <2>7, <2>8, <2>9 DEF Steps, Requesting
<1>3. CASE /\ Rejected(c) \/ Unconverted(c)
           /\ spans' = spans \ SameName(c) /\ ended' = ended \cup {s \in {c} : Traced(s)}
           /\ Update(c, [stage |-> "thrown"])
  <2>1. PICK f : f = At("thrown", e.step, e.attempt, e.chunk, e.tx, e.results)
    OBVIOUS
  <2>2. f.stage = "thrown" /\ f.tx = e.tx /\ f.chunk = e.chunk /\ f.results = e.results
    BY <2>1, Fields
  <2>3. call' = [call EXCEPT ![c] = Changed(call[c], [stage |-> "thrown"])]
    BY <1>3, UpdatesTo
  <2>4. Changed(e, [stage |-> "thrown"]) = f
    BY <1>1, <2>1 DEF Changed, Progress, At
  <2>5. call' = [call EXCEPT ![c] = f] /\ Sound(c, f)
    BY <1>1, <2>1, <2>3, <2>4, Refusing
  <2>6. Carried(c, e, f) /\ Spanned(c, e, f)
    BY <1>1, <1>3, <2>2 DEF Carried, Spanned, Unsubmitted
  <2>. QED  BY <1>5, <2>2, <2>5, <2>6 DEF Steps
<1>4. CASE /\ ~IsQuery(c) /\ Rejected(c)
           /\ Update(c, [stage |-> "returned", results |-> <<Result(None, "failed")>>])
           /\ spans' = spans \ SameName(c) /\ ended' = ended \cup {s \in {c} : Traced(s)}
  <2>1. PICK failed : failed = <<Result(None, "failed")>>
    OBVIOUS
  <2>2. PICK f : f = At("returned", e.step, e.attempt, e.chunk, e.tx, failed)
    OBVIOUS
  <2>3. f.stage = "returned" /\ f.tx = e.tx /\ f.chunk = e.chunk /\ f.results = failed
    BY <2>2, Fields
  <2>4. call' = [call EXCEPT ![c] = Changed(call[c], [stage |-> "returned", results |-> failed])]
    BY <1>4, <2>1, UpdatesTo
  <2>5. Changed(e, [stage |-> "returned", results |-> failed]) = f
    BY <1>1, <2>2 DEF Changed, Progress, At
  <2>6. call' = [call EXCEPT ![c] = f] /\ Sound(c, f)
    BY <1>1, <1>4, <2>1, <2>2, <2>4, <2>5, Refusing
  <2>7. Carried(c, e, f) /\ Spanned(c, e, f)
    BY <1>1, <1>4, <2>3 DEF Carried, Spanned, Unsubmitted
  <2>8. Told(failed, accepted, succeeded)
    BY <2>1 DEF Told, Result
  <2>9. Adds(e, failed)
    <3>1. Len(failed) = 1 /\ failed[1].status = "failed"
      BY <2>1 DEF Result
    <3>2. Len(e.results) = 0
      BY <1>1
    <3>3. \A i \in 1 .. 1 : ~(i <= 0) /\ failed[i].status = "failed"
      BY <3>1
    <3>. QED  BY <3>1, <3>2, <3>3 DEF Adds
  <2>. QED  BY <2>3, <2>6, <2>7, <2>8, <2>9 DEF Steps
<1>. QED  BY <1>2, <1>3, <1>4 DEF Start

LEMMA Builds ==
    ASSUME NEW c, Shaped(c), NEW e, e = call[c], Sound(c, e), e.stage = "getAccount", e.step = 1,
           sequence \in [Account -> Nat], NEW accepted, Build(c)
    PROVE  \E f : Steps(c, e, f, accepted)
<1>1. e \in Progress /\ AccountOf(c) \in Account
  BY DEF Sound, Shaped
<1>2. CASE Convertible(c)
  <2>1. PICK seq, stage : seq = sequence[AccountOf(c)] + 1 /\ stage = Requests(c)[2]
    OBVIOUS
  <2>2. PICK tx : tx = [call |-> c, chunk |-> e.chunk, account |-> AccountOf(c), seq |-> seq]
    OBVIOUS
  <2>3. PICK f : f = At(stage, 2, 0, e.chunk, tx, e.results)
    OBVIOUS
  <2>4. f.stage = stage /\ f.tx = tx /\ f.chunk = e.chunk /\ f.results = e.results
    BY <2>3, Fields
  <2>5. seq \in Nat
    BY <1>1, <2>1
  <2>6. /\ Update(c, [stage |-> stage, step |-> 2, attempt |-> 0, tx |-> tx])
        /\ UNCHANGED <<spans, ended>>
    BY <1>2, <2>1, <2>2 DEF Build
  <2>7. call' = [call EXCEPT ![c] =
                     Changed(call[c], [stage |-> stage, step |-> 2, attempt |-> 0, tx |-> tx])]
    BY <2>6, UpdatesTo
  <2>8. Changed(e, [stage |-> stage, step |-> 2, attempt |-> 0, tx |-> tx]) = f
    BY <1>1, <2>3 DEF Changed, Progress, At
  <2>9. call' = [call EXCEPT ![c] = f]
    BY <2>7, <2>8
  <2>10. Sound(c, f) /\ stage \in {"getAccount", "prepareTransaction"} /\ e.tx = None
    BY <2>1, <2>2, <2>3, <2>5, Building
  <2>11. tx # None
    <3>1. tx \in Transaction
      BY <1>1, <2>2, <2>5 DEF Progress, Transaction, Shaped
    <3>. QED  BY <3>1, ClientAssumption DEF ClientAssumption
  <2>12. Carried(c, e, f) /\ Spanned(c, e, f)
    BY <2>4, <2>6, <2>10, <2>11 DEF Carried, Spanned, Settled, Ending
  <2>13. Adds(e, f.results)
    BY <2>4, AddsNothing
  <2>. QED  BY <2>4, <2>9, <2>10, <2>12, <2>13 DEF Steps
<1>3. CASE ~Convertible(c)
  <2>1. Fails(c)
    BY <1>3 DEF Build
  <2>. QED  BY <2>1, FailsSoundly DEF Ending
<1>. QED  BY <1>2, <1>3

LEMMA HasValue ==
    ASSUME NEW c, Shaped(c), NEW e, e = call[c], Sound(c, e), NEW accepted, Value(c),
           e.stage \in {"simulateTransaction", "getFeeStats", "getLedgerEntries"}
    PROVE  \E f : Steps(c, e, f, accepted)
<1>1. e.stage \in Requesting /\ e.step \in 1 .. Len(Requests(c)) /\ e.stage = Requests(c)[e.step]
  BY DEF Sound, Placed, Requesting
<1>2. IsQuery(c)
  <2>1. PICK r, n : r = Requests(c) /\ n = Len(Requests(c))
    OBVIOUS
  <2>2. CASE Submits(Method(c))
    <3>1. n = 3 /\ r[1] = "getAccount" /\ r[2] = "prepareTransaction" /\ r[3] = "sendTransaction"
      BY <2>1, <2>2, RequestsOf
    <3>2. e.step = 1 \/ e.step = 2 \/ e.step = 3
      BY <1>1, <2>1, <3>1
    <3>. QED  BY <1>1, <2>1, <3>1, <3>2
  <2>3. CASE SubmitsCached(Method(c))
    <3>1. /\ n = 4 /\ r[1] = "getAccount" /\ r[2] = "getAccount"
          /\ r[3] = "prepareTransaction" /\ r[4] = "sendTransaction"
      BY <2>1, <2>3, RequestsOf
    <3>2. e.step = 1 \/ e.step = 2 \/ e.step = 3 \/ e.step = 4
      BY <1>1, <2>1, <3>1
    <3>. QED  BY <1>1, <2>1, <3>1, <3>2
  <2>4. CASE Asks(Method(c))
    BY <2>4 DEF Asks, IsQuery
  <2>. QED  BY <2>2, <2>3, <2>4 DEF Shaped
<1>3. CASE e.step = Len(Requests(c))
  <2>1. Finish(c, "returned", <<>>)
    BY <1>3 DEF Value
  <2>2. e.stage # "idle" /\ "returned" \in Ending
    BY DEF Ending
  <2>3. e.results = <<>>
    BY <1>2 DEF Sound, Answered
  <2>. QED  BY <1>2, <2>1, <2>2, <2>3, EndsEmpty
<1>4. CASE e.step # Len(Requests(c))
  <2>1. PICK step : step = e.step + 1
    OBVIOUS
  <2>2. GoTo(c, step)
    BY <1>4, <2>1 DEF Value
  <2>3. e.step < Len(Requests(c))
    BY <1>1, <1>4
  <2>. QED  BY <1>1, <2>1, <2>2, <2>3, GoesOnSoundly
<1>. QED  BY <1>3, <1>4

LEMMA IsConfirmed ==
    ASSUME NEW c, Shaped(c), NEW e, e = call[c], Sound(c, e), e.stage = "getTransaction",
           NEW accepted, Confirmation(c)
    PROVE  \E f : Steps(c, e, f, accepted)
<1>1. e \in Progress
  BY DEF Sound
<1>2. PICK n : n = e.chunk
  OBVIOUS
<1>3. /\ ~IsQuery(c) /\ e.results \in Seq(Reply) /\ Len(e.results) = n
      /\ n \in Nat \ {0} /\ n <= request[c].chunks /\ request[c].chunks \in Nat
      /\ e.results[n] = Result(e.tx, "pending")
      /\ Sequential(c) => \A i \in 1 .. n : e.results[i].status = "pending"
      /\ Sequential(c) => n < request[c].chunks
      /\ Method(c).waits => request[c].chunks = 1 /\ ~Sequential(c)
  BY <1>2, Awaited DEF Shaped
<1>4. CASE Update(c, [attempt |-> 0]) /\ UNCHANGED <<spans, ended>>
  <2>1. 0 \in Nat /\ 0 <= Retries(e.stage) /\ e.stage # "idle"
    BY RetriesAreNatural
  <2>. QED  BY <1>4, <2>1, Repeats
<1>5. CASE NotConfirmed(c)
  BY <1>5, NotConfirms
<1>6. CASE e.tx \in succeeded /\ Sequential(c) /\ NextChunk(c, e.results)
  <2>1. PICK f : f = At("getAccount", 1, 0, e.chunk + 1, None, e.results)
    OBVIOUS
  <2>2. f.stage = "getAccount" /\ f.tx = None /\ f.chunk = e.chunk + 1 /\ f.results = e.results
    BY <2>1, Fields
  <2>3. call' = [call EXCEPT ![c] = f] /\ UNCHANGED <<spans, ended>>
    BY <1>1, <1>6, <2>1, TakesNextChunk
  <2>4. /\ e.chunk < request[c].chunks /\ Len(e.results) = e.chunk
        /\ Sequential(c) => \A i \in 1 .. Len(e.results) : e.results[i].status = "pending"
    BY <1>2, <1>3, <1>6
  <2>5. Sound(c, f)
    BY <1>3, <2>1, <2>4, TakingNextChunk
  <2>6. Carried(c, e, f) /\ Spanned(c, e, f)
    BY <1>6, <2>2, <2>3 DEF Carried, Spanned, Settled, Ending
  <2>7. Adds(e, f.results)
    BY <2>2, AddsNothing
  <2>. QED  BY <2>2, <2>3, <2>5, <2>6, <2>7 DEF Steps
<1>7. CASE /\ e.tx \in succeeded /\ Method(c).waits
           /\ Update(c, [stage |-> "returned", attempt |-> 0,
                         results |-> [e.results EXCEPT ![Len(e.results)].status = "success"]])
           /\ UNCHANGED <<spans, ended>>
  <2>1. PICK all : all = [e.results EXCEPT ![Len(e.results)].status = "success"]
    OBVIOUS
  <2>2. PICK f : f = At("returned", e.step, 0, e.chunk, e.tx, all)
    OBVIOUS
  <2>3. f.stage = "returned" /\ f.tx = e.tx /\ f.chunk = e.chunk /\ f.results = all
    BY <2>2, Fields
  <2>4. /\ all \in Seq(Reply) /\ Len(all) = n
        /\ all[n] = Result(e.results[n].hash, "success")
        /\ \A i \in 1 .. n - 1 : all[i] = e.results[i]
    BY <1>3, <2>1, LastDecided
  <2>5. n = 1 /\ request[c].chunks = 1 /\ ~Sequential(c)
    BY <1>3, <1>7
  <2>6. all[1].status = "success" /\ all[1].hash = e.tx
    BY <1>3, <2>4, <2>5 DEF Result
  <2>7. call' = [call EXCEPT ![c] = f]
    <3>1. Update(c, [stage |-> "returned", attempt |-> 0, results |-> all])
      BY <1>7, <2>1
    <3>2. call' = [call EXCEPT ![c] = At("returned", e.step, 0, e.chunk, e.tx, all)]
      BY <1>1, <3>1, Returns, Zenon
    <3>. QED  BY <2>2, <3>2
  <2>8. Sound(c, f)
    <3>1. Len(all) = request[c].chunks /\ e.stage # "idle"
      BY <2>4, <2>5
    <3>. QED  BY <1>3, <2>2, <2>4, <2>5, <3>1, Returning
  <2>9. Carried(c, e, f) /\ Spanned(c, e, f)
    BY <1>7, <2>3 DEF Carried, Spanned, Unsubmitted, Settled
  <2>10. Told(all, accepted, succeeded)
    BY <1>7, <2>4, <2>5, <2>6 DEF Told
  <2>11. Adds(e, all)
    <3>1. all[1].status = "success" /\ all[1].hash = e.results[1].hash
      BY <2>4, <2>5 DEF Result
    <3>2. e.results[1].status = "pending" /\ Len(e.results) = 1 /\ Len(all) = 1
      BY <1>3, <2>4, <2>5 DEF Result
    <3>3. \A i \in 1 .. 1 : i = 1
      OBVIOUS
    <3>. QED  BY <3>1, <3>2, <3>3 DEF Adds
  <2>. QED  BY <2>3, <2>7, <2>8, <2>9, <2>10, <2>11 DEF Steps
<1>. QED  BY <1>4, <1>5, <1>6, <1>7 DEF Confirmation

LEMMA Reads ==
    ASSUME NEW c, Shaped(c), NEW e, e = call[c], Sound(c, e), sequence \in [Account -> Nat],
           NEW accepted, Read(c)
    PROVE  \E f : Steps(c, e, f, accepted)
<1>1. CASE e.stage = "getAccount" /\ e.step = 1 /\ Build(c)
  BY <1>1, Builds
<1>2. CASE e.stage = "getAccount" /\ e.step = 2 /\ GoTo(c, 3)
  <2>1. e.step < Len(Requests(c))
    BY <1>2, Prepares
  <2>2. PICK step : step = e.step + 1
    OBVIOUS
  <2>3. GoTo(c, step)
    BY <1>2, <2>2
  <2>. QED  BY <1>2, <2>1, <2>2, <2>3, GoesOnSoundly DEF Requesting
<1>3. CASE e.stage = "prepareTransaction" /\ GoTo(c, e.step + 1)
  <2>1. e.step < Len(Requests(c))
    BY <1>3, Prepares
  <2>2. PICK step : step = e.step + 1
    OBVIOUS
  <2>. QED  BY <1>3, <2>1, <2>2, GoesOnSoundly DEF Requesting
<1>4. CASE e.stage \in {"prepareTransaction", "simulateTransaction"} /\ Fails(c)
  BY <1>4, FailsSoundly DEF Ending
<1>5. CASE e.stage \in {"simulateTransaction", "getFeeStats", "getLedgerEntries"} /\ Value(c)
  BY <1>5, HasValue
<1>6. CASE e.stage = "getTransaction" /\ Confirmation(c)
  BY <1>6, IsConfirmed
<1>. QED  BY <1>1, <1>2, <1>3, <1>4, <1>5, <1>6 DEF Read

(* The answer to a submission is about the transaction that was sent.        *)
LEMMA Sends ==
    ASSUME NEW c, Shaped(c), NEW e, e = call[c], Sound(c, e), NEW reply, Send(c, reply)
    PROVE  /\ e.stage = "sendTransaction" /\ e.tx # None /\ ~IsQuery(c)
           /\ \E f : Steps(c, e, f, sent')
<1>1. /\ e.stage = "sendTransaction" /\ Deliver(e.tx, reply)
      /\ Record(c, Result(e.tx, IF reply = "PENDING" THEN "pending" ELSE "failed"))
  BY DEF Send
<1>2. e.tx # None /\ ~IsQuery(c) /\ e.tx \in Transaction
  BY <1>1 DEF Sound, Built, Progress
<1>3. PICK answer : answer = Result(e.tx, IF reply = "PENDING" THEN "pending" ELSE "failed")
  OBVIOUS
<1>4. Reported(e, answer, sent')
  <2>1. CASE reply = "PENDING"
    <3>1. e.tx \in sent'
      BY <1>1, <2>1 DEF Deliver
    <3>2. answer = Result(e.tx, "pending")
      BY <1>3, <2>1
    <3>. QED  BY <1>2, <3>1, <3>2 DEF Reported, Reply, Result
  <2>2. CASE reply # "PENDING"
    <3>1. answer = Result(e.tx, "failed")
      BY <1>3, <2>2
    <3>. QED  BY <1>2, <3>1 DEF Reported, Reply, Result
  <2>. QED  BY <2>1, <2>2
<1>5. e.stage \in Requesting
  BY <1>1 DEF Requesting
<1>. QED  BY <1>1, <1>2, <1>3, <1>4, <1>5, Records

LEMMA IsLost ==
    ASSUME NEW c, Shaped(c), NEW e, e = call[c], Sound(c, e), NEW accepted,
           \/ Lost(c)
           \/ \E reply : AnswerLost(c, reply)
    PROVE  \E f : Steps(c, e, f, accepted)
<1>1. e.stage # "idle" /\ e.stage \notin Ending /\ withRetry(c)
  BY DEF Lost, AnswerLost, Over, Ending
<1>. QED  BY <1>1, Retried

-----------------------------------------------------------------------------
(* The client's invariant: every call is sound, what was accepted is the     *)
(* calls' own, and the contract's nonces and the spans keep step with them.  *)

CallsSound ==
    /\ DOMAIN call = Calls
    /\ \A c \in Calls : Sound(c, call[c]) /\ Told(call[c].results, sent, succeeded)

Accepted ==
    /\ sent \subseteq Transaction /\ pool \cup succeeded \cup reverted \subseteq sent
    /\ \A t \in sent :
          /\ t.call \in Calls /\ t.account = AccountOf(t.call)
          /\ t.chunk <= call[t.call].chunk
          /\ t.chunk = call[t.call].chunk => t = call[t.call].tx
    /\ \A t, u \in sent : t.call = u.call /\ t.chunk = u.chunk => t = u
    /\ \A c \in Calls : call[c].stage \in Unsubmitted => call[c].tx \notin sent

Numbered ==
    \A c \in Calls :
        Sequential(c) =>
            nonce[AccountOf(c)] = IF call[c].tx \in succeeded THEN call[c].chunk
                                  ELSE call[c].chunk - 1

Replaced(c) ==
    \E d \in Calls \ {c} : Method(d).name = Method(c).name /\ call[d].stage # "idle"

SpansFollow ==
    /\ spans \cup ended \subseteq Calls
    /\ \A c \in Calls :
          Traced(c) =>
              /\ call[c].stage # "idle" => c \in spans \cup ended \/ Replaced(c)
              /\ Settled(c, call[c]) => c \in ended \/ Replaced(c)

ClientInv ==
    /\ Requested /\ CallsSound /\ Accepted /\ Numbered /\ SpansFollow
    /\ sequence \in [Account -> Nat] /\ nonce \in [Account -> Nat]

LEMMA SoundStill ==
    ASSUME NEW c, NEW e, Sound(c, e), request' = request
    PROVE  Sound(c, e)'
<1>1. Placed(c, e)'
  BY DEF Sound, Placed, Requests, Method, Sequential
<1>2. Built(c, e)'
  BY DEF Sound, Built, IsQuery, Method, AccountOf
<1>3. Answered(c, e)'
  BY DEF Sound, Answered, IsQuery, Method, Rejected
<1>4. InTurn(c, e)'
  BY DEF Sound, InTurn, Sequential, Method
<1>. QED  BY <1>1, <1>2, <1>3, <1>4 DEF Sound

LEMMA ClientStarts ==
    ASSUME Init
    PROVE  ClientInv
<1>1. /\ call = [c \in Calls |-> NotStarted] /\ spans = {} /\ ended = {}
      /\ sequence = [a \in Account |-> 0] /\ nonce = [a \in Account |-> 0]
      /\ pool = {} /\ sent = {} /\ succeeded = {} /\ reverted = {}
  BY DEF Init, ClientInit
<1>2. PICK e : e = NotStarted
  OBVIOUS
<1>3. /\ e.stage = "idle" /\ e.step = 0 /\ e.attempt = 0 /\ e.chunk = 1 /\ e.tx = None
      /\ e.results = <<>> /\ e \in Progress
  BY <1>2 DEF NotStarted, Progress, Stages
<1>4. Requested
  BY RequestedInitially
<1>5. ASSUME NEW c \in Calls
      PROVE  call[c] = e /\ Sound(c, e) /\ Told(e.results, sent, succeeded)
  <2>1. call[c] = e
    BY <1>1, <1>2
  <2>2. Shaped(c)
    BY <1>4, CallsAreShaped
  <2>3. Placed(c, e)
    BY <1>3, <2>2, RetriesAreNatural DEF Placed, Requesting, Shaped
  <2>4. Built(c, e) /\ Answered(c, e) /\ InTurn(c, e) /\ Told(e.results, sent, succeeded)
    BY <1>3 DEF Built, Answered, InTurn, Told, Requesting
  <2>. QED  BY <1>3, <2>1, <2>3, <2>4 DEF Sound
<1>6. CallsSound
  BY <1>1, <1>5 DEF CallsSound
<1>7. Accepted
  BY <1>1 DEF Accepted
<1>8. ASSUME NEW c \in Calls
      PROVE  nonce[AccountOf(c)] = IF call[c].tx \in succeeded THEN call[c].chunk
                                   ELSE call[c].chunk - 1
  <2>1. call[c].chunk = 1
    BY <1>3, <1>5
  <2>2. AccountOf(c) \in Account
    BY <1>4 DEF Requested
  <2>. QED  BY <1>1, <2>1, <2>2
<1>9. SpansFollow
  BY <1>1, <1>3, <1>5 DEF SpansFollow, Settled, Ending
<1>. QED  BY <1>1, <1>4, <1>6, <1>7, <1>8, <1>9 DEF ClientInv, Numbered

(* What a step of one call does to the others.                               *)
LEMMA OneMoves ==
    ASSUME CallsSound, NEW c \in Calls, NEW e, e = call[c], NEW f, NEW accepted,
           Steps(c, e, f, accepted), request' = request
    PROVE  /\ Calls' = Calls /\ DOMAIN call' = Calls /\ call'[c] = f
           /\ \A b \in Calls : b # c => call'[b] = call[b]
           /\ f.stage # "idle" /\ Sound(c, f) /\ Carried(c, e, f) /\ Spanned(c, e, f)
           /\ Told(f.results, accepted, succeeded) \/ ~Told(e.results, accepted, succeeded)
           /\ Adds(e, f.results)
  BY DEF CallsSound, Steps, Calls

LEMMA TellsMore ==
    ASSUME NEW results, NEW less, NEW more, NEW few, NEW many, Told(results, less, few),
           less \subseteq more, few \subseteq many
    PROVE  Told(results, more, many)
  BY DEF Told

LEMMA CallsStaySound ==
    ASSUME ClientInv, NEW c \in Calls, NEW e, e = call[c], NEW f, Steps(c, e, f, sent'),
           sent \subseteq sent', request' = request, succeeded' = succeeded
    PROVE  CallsSound'
<1>1. /\ Calls' = Calls /\ DOMAIN call' = Calls /\ call'[c] = f
      /\ \A b \in Calls : b # c => call'[b] = call[b]
      /\ Sound(c, f)
      /\ Told(f.results, sent', succeeded) \/ ~Told(e.results, sent', succeeded)
  BY OneMoves DEF ClientInv
<1>2. ASSUME NEW b \in Calls
      PROVE  Sound(b, call[b])' /\ Told(call'[b].results, sent', succeeded')
  <2>1. PICK g, h : g = call[b] /\ h = call'[b]
    OBVIOUS
  <2>2. Sound(b, g) /\ Told(g.results, sent, succeeded)
    BY <2>1 DEF ClientInv, CallsSound
  <2>3. Told(g.results, sent', succeeded)
    BY <2>2, TellsMore, Zenon
  <2>4. CASE b = c
    <3>1. h = f /\ g = e
      BY <1>1, <2>1, <2>4
    <3>2. Sound(b, h)
      BY <1>1, <2>4, <3>1
    <3>3. Sound(b, h)'
      BY <3>2, SoundStill
    <3>. QED  BY <1>1, <2>1, <2>3, <3>1, <3>3
  <2>5. CASE b # c
    <3>1. h = g
      BY <1>1, <2>1, <2>5
    <3>2. Sound(b, h)'
      BY <2>2, <3>1, SoundStill
    <3>. QED  BY <2>1, <2>3, <3>1, <3>2
  <2>. QED  BY <2>4, <2>5
<1>. QED  BY <1>1, <1>2 DEF CallsSound

(* The network's part in a step of call c: nothing, or it accepts the        *)
(* transaction that was sent.                                                *)
Delivered(e) ==
    /\ UNCHANGED <<request, sequence, nonce, succeeded, reverted>>
    /\ pool' \subseteq pool \cup (sent' \ sent)
    /\ \/ sent' = sent
       \/ sent' = sent \cup {e.tx} /\ e.stage = "sendTransaction"

LEMMA AcceptsOne ==
    ASSUME ClientInv, NEW c \in Calls, NEW e, e = call[c], NEW f, Steps(c, e, f, sent'),
           Delivered(e)
    PROVE  Accepted'
<1>1. /\ Calls' = Calls /\ call'[c] = f
      /\ \A b \in Calls : b # c => call'[b] = call[b]
      /\ Sound(c, f) /\ Carried(c, e, f)
  BY OneMoves DEF ClientInv, Delivered
<1>2. /\ Accepted /\ Sound(c, e)
  BY DEF ClientInv, CallsSound
<1>3. /\ e.stage = "sendTransaction" => /\ e.tx \in Transaction /\ e.tx # None
                                        /\ e.stage \notin Unsubmitted
      /\ e.tx # None => e.tx.call = c /\ e.tx.chunk = e.chunk /\ e.tx.account = AccountOf(c)
      /\ f.tx # None => f.tx.call = c /\ f.tx.chunk = f.chunk
      /\ e.chunk \in Nat /\ f.chunk \in Nat /\ f.tx \in Transaction \cup {None}
  BY <1>1, <1>2 DEF Sound, Built, Progress, Unsubmitted
<1>4. None \notin Transaction
  BY ClientAssumption DEF ClientAssumption
<1>5. /\ sent \subseteq sent' /\ sent' \subseteq Transaction
      /\ (pool \cup succeeded \cup reverted)' \subseteq sent'
  BY <1>2, <1>3 DEF Delivered, Accepted
<1>6. \A b : AccountOf(b)' = AccountOf(b)
  BY DEF Delivered, AccountOf
<1>7. e.chunk <= f.chunk /\ f.chunk <= e.chunk + 1
  BY <1>1, <1>3 DEF Carried
<1>8. ASSUME NEW t \in sent'
      PROVE  /\ t.call \in Calls /\ t.account = AccountOf(t.call)
             /\ t.chunk \in Nat
             /\ t.chunk <= call[t.call].chunk
             /\ t.chunk = call[t.call].chunk => t = call[t.call].tx
  <2>1. CASE t \in sent
    BY <1>2, <2>1 DEF Accepted, Transaction
  <2>2. CASE t \notin sent
    BY <1>3, <2>2 DEF Delivered
  <2>. QED  BY <2>1, <2>2
<1>9. ASSUME NEW t \in sent'
      PROVE  /\ t.call \in Calls' /\ t.account = AccountOf(t.call)'
             /\ t.chunk <= call'[t.call].chunk
             /\ t.chunk = call'[t.call].chunk => t = call'[t.call].tx
  <2>1. t.call \in Calls' /\ t.account = AccountOf(t.call)'
    BY <1>1, <1>6, <1>8
  <2>2. CASE t.call # c
    BY <1>1, <1>8, <2>1, <2>2
  <2>3. CASE t.call = c
    <3>1. call[t.call] = e /\ call'[t.call] = f
      BY <1>1, <2>3
    <3>2. t.chunk \in Nat /\ t.chunk <= e.chunk /\ (t.chunk = e.chunk => t = e.tx)
      BY <1>8, <3>1
    <3>3. t.chunk <= f.chunk
      BY <1>3, <1>7, <3>2
    <3>4. t.chunk = f.chunk => t = f.tx
      <4>1. CASE f.tx = e.tx /\ f.chunk = e.chunk
        BY <3>2, <4>1
      <4>2. CASE e.tx = None /\ f.chunk = e.chunk
        <5>1. t # None
          BY <1>4, <1>5
        <5>. QED  BY <3>2, <4>2, <5>1
      <4>3. CASE f.chunk = e.chunk + 1
        BY <1>3, <3>2, <4>3
      <4>. QED  BY <1>1, <4>1, <4>2, <4>3 DEF Carried
    <3>. QED  BY <2>1, <3>1, <3>3, <3>4
  <2>. QED  BY <2>2, <2>3
<1>10. ASSUME NEW t \in sent', NEW u \in sent', t.call = u.call, t.chunk = u.chunk
       PROVE  t = u
  <2>1. CASE t \in sent /\ u \in sent
    BY <1>2, <1>10, <2>1 DEF Accepted
  <2>2. CASE t \notin sent
    <3>1. t = e.tx /\ t.call = c /\ t.chunk = e.chunk
      BY <1>3, <2>2 DEF Delivered
    <3>2. u = e.tx
      BY <1>8, <1>10, <3>1
    <3>. QED  BY <3>1, <3>2
  <2>3. CASE u \notin sent
    <3>1. u = e.tx /\ u.call = c /\ u.chunk = e.chunk
      BY <1>3, <2>3 DEF Delivered
    <3>2. t = e.tx
      BY <1>8, <1>10, <3>1
    <3>. QED  BY <3>1, <3>2
  <2>. QED  BY <2>1, <2>2, <2>3
<1>11. ASSUME NEW b \in Calls, call'[b].stage \in Unsubmitted
       PROVE  call'[b].tx \notin sent'
  <2>1. CASE b # c
    <3>1. call'[b] = call[b] /\ call[b].tx \notin sent
      BY <1>1, <1>2, <1>11, <2>1 DEF Accepted
    <3>2. e.stage = "sendTransaction" => call[b].tx # e.tx
      <4>1. call[b].tx # None => call[b].tx.call = b
        BY DEF ClientInv, CallsSound, Sound, Built
      <4>. QED  BY <1>3, <2>1, <4>1
    <3>. QED  BY <3>1, <3>2 DEF Delivered
  <2>2. CASE b = c
    <3>0. call'[b] = f /\ f.stage \in Unsubmitted
      BY <1>1, <1>11, <2>2
    <3>1. CASE f.tx = e.tx /\ e.stage \in Unsubmitted
      <4>1. e.tx \notin sent /\ sent' = sent
        BY <1>2, <1>3, <3>1 DEF Accepted, Delivered
      <4>. QED  BY <3>0, <3>1, <4>1
    <3>2. CASE e.tx = None /\ f.tx # None /\ f.chunk = e.chunk
      <4>1. sent' = sent
        BY <1>3, <3>2 DEF Delivered
      <4>2. ASSUME f.tx \in sent
            PROVE  FALSE
        <5>1. f.tx.call = c /\ f.tx.chunk = e.chunk
          BY <1>3, <3>2
        <5>2. f.tx = e.tx
          BY <1>8, <4>1, <4>2, <5>1
        <5>. QED  BY <3>2, <5>2
      <4>. QED  BY <3>0, <4>1, <4>2
    <3>3. CASE f.tx = None
      BY <1>4, <1>5, <3>0, <3>3
    <3>. QED  BY <1>1, <3>0, <3>1, <3>2, <3>3 DEF Carried
  <2>. QED  BY <2>1, <2>2
<1>. QED  BY <1>1, <1>5, <1>9, <1>10, <1>11 DEF Accepted

LEMMA StaysNumbered ==
    ASSUME ClientInv, NEW c \in Calls, NEW e, e = call[c], NEW f, Steps(c, e, f, sent'),
           Delivered(e)
    PROVE  Numbered'
<1>1. /\ Calls' = Calls /\ call'[c] = f
      /\ \A b \in Calls : b # c => call'[b] = call[b]
      /\ Sound(c, f) /\ Carried(c, e, f)
  BY OneMoves DEF ClientInv, Delivered
<1>2. /\ Accepted /\ Sound(c, e) /\ Numbered
  BY DEF ClientInv, CallsSound
<1>3. None \notin succeeded
  BY <1>2, ClientAssumption DEF Accepted, ClientAssumption
<1>4. \A b : AccountOf(b)' = AccountOf(b) /\ Sequential(b)' = Sequential(b)
  BY DEF Delivered, AccountOf, Sequential, Method
<1>5. nonce' = nonce /\ succeeded' = succeeded
  BY DEF Delivered
<1>6. ASSUME NEW b \in Calls, Sequential(b)
      PROVE  nonce[AccountOf(b)] = IF call'[b].tx \in succeeded THEN call'[b].chunk
                                   ELSE call'[b].chunk - 1
  <2>1. nonce[AccountOf(b)] = IF call[b].tx \in succeeded THEN call[b].chunk
                              ELSE call[b].chunk - 1
    BY <1>2, <1>6 DEF Numbered
  <2>2. CASE b # c
    BY <1>1, <2>1, <2>2
  <2>3. CASE b = c
    <3>1. e.chunk \in Nat /\ call[b] = e /\ call'[b] = f
      BY <1>1, <1>2, <2>3 DEF Sound, Progress
    <3>2. CASE f.tx = e.tx /\ f.chunk = e.chunk
      BY <2>1, <3>1, <3>2
    <3>3. CASE e.tx = None /\ f.tx # None /\ f.chunk = e.chunk
      <4>1. f.tx \notin succeeded
        <5>1. f.tx.call = c /\ f.tx.chunk = f.chunk
          BY <1>1, <3>3 DEF Sound, Built
        <5>. QED  BY <1>2, <3>3, <5>1 DEF Accepted
      <4>. QED  BY <1>3, <2>1, <3>1, <3>3, <4>1
    <3>4. CASE f.tx = None /\ f.chunk = e.chunk + 1 /\ e.tx \in succeeded
      BY <1>3, <2>1, <3>1, <3>4
    <3>. QED  BY <1>1, <1>6, <2>3, <3>2, <3>3, <3>4 DEF Carried
  <2>. QED  BY <2>2, <2>3
<1>. QED  BY <1>1, <1>4, <1>5, <1>6 DEF Numbered

LEMMA SpansGoOn ==
    ASSUME ClientInv, NEW c \in Calls, NEW e, e = call[c], NEW f, NEW accepted,
           Steps(c, e, f, accepted), request' = request
    PROVE  SpansFollow'
<1>1. /\ Calls' = Calls /\ call'[c] = f
      /\ \A b \in Calls : b # c => call'[b] = call[b]
      /\ f.stage # "idle" /\ Spanned(c, e, f)
  BY OneMoves DEF ClientInv
<1>2. \A b : /\ Method(b)' = Method(b) /\ Traced(b)' = Traced(b)
  BY DEF Method, Traced, IsQuery
<1>3. ASSUME NEW b \in Calls, Replaced(b)
      PROVE  Replaced(b)'
  <2>1. PICK d \in Calls \ {b} : Method(d).name = Method(b).name /\ call[d].stage # "idle"
    BY <1>3 DEF Replaced
  <2>2. call'[d].stage # "idle"
    BY <1>1, <2>1
  <2>. QED  BY <1>1, <1>2, <2>1, <2>2 DEF Replaced
<1>4. ASSUME NEW b \in SameName(c), b # c
      PROVE  Replaced(b)'
  <2>1. Method(c).name = Method(b).name
    BY <1>4 DEF SameName
  <2>. QED  BY <1>1, <1>2, <1>4, <2>1 DEF Replaced
<1>5. spans' \cup ended' \subseteq Calls
  BY <1>1 DEF ClientInv, SpansFollow, Spanned, CloseSpan, OpenSpan, SameName
<1>6. ASSUME NEW b \in Calls, Traced(b)
      PROVE  /\ call'[b].stage # "idle" => b \in spans' \cup ended' \/ Replaced(b)'
             /\ Settled(b, call'[b]) => b \in ended' \/ Replaced(b)'
  <2>1. /\ call[b].stage # "idle" => b \in spans \cup ended \/ Replaced(b)
        /\ Settled(b, call[b]) => b \in ended \/ Replaced(b)
    BY <1>6 DEF ClientInv, SpansFollow
  <2>2. CASE b # c
    <3>1. call'[b] = call[b]
      BY <1>1, <2>2
    <3>2. /\ b \in ended => b \in ended'
          /\ b \in spans => b \in spans' \cup ended' \/ b \in SameName(c)
      BY <1>1 DEF Spanned, CloseSpan, OpenSpan
    <3>. QED  BY <1>3, <1>4, <2>1, <2>2, <3>1, <3>2
  <2>3. CASE b = c
    <3>0. call[b] = e /\ call'[b] = f
      BY <1>1, <2>3
    <3>1. CASE e.stage # "idle" /\ CloseSpan(c)
      <4>1. b \in spans => b \in SameName(c)
        BY <1>6, <2>3 DEF SameName
      <4>2. b \in spans \cup ended => b \in ended'
        BY <3>1, <4>1 DEF CloseSpan
      <4>. QED  BY <1>3, <2>1, <3>0, <3>1, <4>2
    <3>2. CASE /\ e.stage # "idle" /\ UNCHANGED <<spans, ended>>
               /\ Settled(c, f) => Settled(c, e)
      BY <1>3, <2>1, <2>3, <3>0, <3>2
    <3>3. CASE e.stage = "idle" /\ OpenSpan(c) /\ UNCHANGED ended /\ ~Settled(c, f)
      BY <1>6, <2>3, <3>0, <3>3 DEF OpenSpan
    <3>4. CASE ended' = ended \cup {s \in {c} : Traced(s)}
      BY <1>6, <2>3, <3>4
    <3>. QED  BY <1>1, <3>1, <3>2, <3>3, <3>4 DEF Spanned
  <2>. QED  BY <2>2, <2>3
<1>7. ASSUME NEW b \in Calls
      PROVE  Settled(b, call[b])' = Settled(b, call'[b])
  BY <1>2 DEF Settled
<1>. QED  BY <1>1, <1>2, <1>5, <1>6, <1>7 DEF SpansFollow

LEMMA ClientSteps ==
    ASSUME ClientInv, NEW c \in Calls, NEW e, e = call[c],
           \E f : Steps(c, e, f, sent'), Delivered(e)
    PROVE  ClientInv'
<1>1. PICK f : Steps(c, e, f, sent')
  OBVIOUS
<1>2. request' = request /\ succeeded' = succeeded /\ sent \subseteq sent'
  BY DEF Delivered
<1>3. CallsSound'
  BY <1>1, <1>2, CallsStaySound
<1>4. Accepted' /\ Numbered' /\ SpansFollow'
  BY <1>1, <1>2, AcceptsOne, StaysNumbered, SpansGoOn
<1>5. Requested' /\ (sequence \in [Account -> Nat])' /\ (nonce \in [Account -> Nat])'
  BY <1>2, RequestedStill DEF ClientInv, Delivered
<1>. QED  BY <1>3, <1>4, <1>5 DEF ClientInv

LEMMA ClientRests ==
    ASSUME ClientInv, UNCHANGED <<clientVars, ledgerVars>>
    PROVE  ClientInv'
<1>1. /\ UNCHANGED <<request, call, spans, ended>>
      /\ UNCHANGED <<sequence, nonce, pool, sent, succeeded, reverted>>
  BY DEF clientVars, ledgerVars
<1>2. /\ Calls' = Calls
      /\ \A c : /\ Method(c)' = Method(c) /\ AccountOf(c)' = AccountOf(c)
                /\ Sequential(c)' = Sequential(c) /\ Traced(c)' = Traced(c)
  BY <1>1 DEF Calls, Method, AccountOf, Sequential, Traced, IsQuery
<1>3. CallsSound'
  <2>1. ASSUME NEW c \in Calls
        PROVE  Sound(c, call[c])' /\ Told(call[c].results, sent, succeeded)'
    <3>1. PICK e : e = call[c]
      OBVIOUS
    <3>2. Sound(c, e) /\ Told(e.results, sent, succeeded)
      BY <3>1 DEF ClientInv, CallsSound
    <3>3. Sound(c, e)'
      BY <1>1, <3>2, SoundStill
    <3>. QED  BY <1>1, <3>1, <3>2, <3>3
  <2>. QED  BY <1>1, <1>2, <2>1 DEF ClientInv, CallsSound
<1>4. Accepted' /\ Numbered'
  BY <1>1, <1>2 DEF ClientInv, Accepted, Numbered
<1>5. SpansFollow'
  BY <1>1, <1>2 DEF ClientInv, SpansFollow, Settled, Replaced
<1>6. Requested'
  BY <1>1, RequestedStill DEF ClientInv
<1>. QED  BY <1>1, <1>3, <1>4, <1>5, <1>6 DEF ClientInv

(* A ledger: of the calls, only their transactions' fate changes.            *)
LEMMA LedgerCloses ==
    ASSUME ClientInv, UNCHANGED <<request, call, spans, ended, sent>>,
           pool' \subseteq pool, succeeded \subseteq succeeded', succeeded' \subseteq sent,
           reverted' \subseteq sent, sequence' \in [Account -> Nat], nonce' \in [Account -> Nat],
           Numbered'
    PROVE  ClientInv'
<1>1. /\ Calls' = Calls
      /\ \A c : /\ Method(c)' = Method(c) /\ AccountOf(c)' = AccountOf(c)
                /\ Sequential(c)' = Sequential(c) /\ Traced(c)' = Traced(c)
  BY DEF Calls, Method, AccountOf, Sequential, Traced, IsQuery
<1>2. CallsSound'
  <2>1. ASSUME NEW c \in Calls
        PROVE  Sound(c, call[c])' /\ Told(call[c].results, sent, succeeded)'
    <3>1. PICK e : e = call[c]
      OBVIOUS
    <3>2. Sound(c, e) /\ Told(e.results, sent, succeeded)
      BY <3>1 DEF ClientInv, CallsSound
    <3>3. Sound(c, e)' /\ Told(e.results, sent, succeeded')
      BY <3>2, SoundStill, TellsMore
    <3>. QED  BY <3>1, <3>3
  <2>. QED  BY <1>1, <2>1 DEF ClientInv, CallsSound
<1>3. Accepted'
  BY <1>1 DEF ClientInv, Accepted
<1>4. SpansFollow'
  BY <1>1 DEF ClientInv, SpansFollow, Settled, Replaced
<1>5. Requested'
  BY RequestedStill DEF ClientInv
<1>. QED  BY <1>2, <1>3, <1>4, <1>5 DEF ClientInv

LEMMA Expires ==
    ASSUME ClientInv, NEW t, Expire(t)
    PROVE  ClientInv'
<1>1. /\ UNCHANGED <<request, call, spans, ended, sent>>
      /\ UNCHANGED <<sequence, nonce, succeeded, reverted>> /\ pool' \subseteq pool
  BY DEF Expire, clientVars
<1>2. Numbered'
  BY <1>1 DEF ClientInv, Numbered, Calls, AccountOf, Sequential, Method
<1>3. succeeded' \subseteq sent /\ reverted' \subseteq sent /\ succeeded \subseteq succeeded'
  BY <1>1 DEF ClientInv, Accepted
<1>4. sequence' \in [Account -> Nat] /\ nonce' \in [Account -> Nat]
  BY <1>1 DEF ClientInv
<1>. QED  BY <1>1, <1>2, <1>3, <1>4, LedgerCloses

LEMMA Includes ==
    ASSUME ClientInv, NEW t, Include(t)
    PROVE  ClientInv'
<1>1. /\ t \in pool /\ UNCHANGED <<request, call, spans, ended, sent>>
      /\ pool' \subseteq pool /\ sequence' = [sequence EXCEPT ![t.account] = t.seq]
  BY DEF Include, clientVars
<1>2. /\ t \in sent /\ t \in Transaction /\ t.call \in Calls /\ t.account = AccountOf(t.call)
      /\ t.chunk <= call[t.call].chunk
      /\ t.chunk = call[t.call].chunk => t = call[t.call].tx
  BY <1>1 DEF ClientInv, Accepted
<1>3. t.account \in Account /\ t.seq \in Nat /\ t.chunk \in Nat
  BY <1>2 DEF Transaction
<1>4. sequence' \in [Account -> Nat]
  BY <1>1, <1>3 DEF ClientInv
<1>5. /\ Calls' = Calls
      /\ \A c : AccountOf(c)' = AccountOf(c) /\ Sequential(c)' = Sequential(c)
  BY <1>1 DEF Calls, Method, AccountOf, Sequential
<1>6. \A c \in Calls : /\ call[c].chunk \in Nat /\ AccountOf(c) \in Account
                       /\ call[c].tx # None => call[c].tx.call = c
  BY DEF ClientInv, CallsSound, Sound, Progress, Built, Requested
<1>7. t # None
  BY <1>2, ClientAssumption DEF ClientAssumption
<1>8. CASE /\ NonceFits(t.call, t) /\ succeeded' = succeeded \cup {t} /\ UNCHANGED reverted
           /\ nonce' = [nonce EXCEPT ![t.account] =
                            IF "nonce" \in request[t.call].given THEN @ + 1 ELSE @]
  <2>1. nonce' \in [Account -> Nat] /\ nonce[t.account] \in Nat
    BY <1>3, <1>8 DEF ClientInv
  <2>2. /\ succeeded' \subseteq sent /\ reverted' \subseteq sent /\ succeeded \subseteq succeeded'
    BY <1>2, <1>8 DEF ClientInv, Accepted
  <2>3. ASSUME NEW c \in Calls, Sequential(c)
        PROVE  nonce'[AccountOf(c)] = IF call[c].tx \in succeeded' THEN call[c].chunk
                                      ELSE call[c].chunk - 1
    <3>1. nonce[AccountOf(c)] = IF call[c].tx \in succeeded THEN call[c].chunk
                                ELSE call[c].chunk - 1
      BY <2>3 DEF ClientInv, Numbered
    <3>2. "nonce" \in request[c].given
      BY <2>3 DEF Sequential
    <3>3. CASE c = t.call
      <4>1. nonce[t.account] = t.chunk - 1 /\ nonce'[t.account] = nonce[t.account] + 1
        BY <1>3, <1>8, <2>1, <3>2, <3>3 DEF NonceFits, ClientInv
      <4>2. t.chunk <= call[c].chunk /\ call[c].chunk \in Nat /\ t.account = AccountOf(c)
        BY <1>2, <1>6, <3>3
      <4>3. t.chunk = call[c].chunk
        BY <1>3, <3>1, <4>1, <4>2
      <4>4. t = call[c].tx
        BY <1>2, <3>3, <4>3
      <4>5. call[c].tx \in succeeded'
        BY <1>8, <4>4
      <4>6. nonce'[AccountOf(c)] = call[c].chunk
        BY <4>1, <4>2, <4>3
      <4>. QED  BY <4>5, <4>6
    <3>4. CASE c # t.call
      <4>1. call[c].tx # t
        BY <1>6, <1>7, <3>4
      <4>2. call[c].tx \in succeeded' <=> call[c].tx \in succeeded
        BY <1>8, <4>1
      <4>3. nonce'[AccountOf(c)] = nonce[AccountOf(c)]
        <5>1. CASE AccountOf(c) = t.account /\ "nonce" \in request[t.call].given
          <6>1. c = t.call
            BY <1>2, <3>2, <5>1 DEF ClientInv, Requested
          <6>. QED  BY <3>4, <6>1
        <5>2. CASE AccountOf(c) # t.account
          BY <1>6, <1>8, <5>2 DEF ClientInv
        <5>3. CASE ~("nonce" \in request[t.call].given)
          BY <1>3, <1>6, <1>8, <5>3 DEF ClientInv
        <5>. QED  BY <5>1, <5>2, <5>3
      <4>. QED  BY <3>1, <4>2, <4>3
    <3>. QED  BY <3>3, <3>4
  <2>4. Numbered'
    BY <1>1, <1>5, <2>3 DEF Numbered
  <2>. QED  BY <1>1, <1>4, <2>1, <2>2, <2>4, LedgerCloses
<1>9. CASE reverted' = reverted \cup {t} /\ UNCHANGED <<succeeded, nonce>>
  <2>1. Numbered'
    BY <1>1, <1>5, <1>9 DEF ClientInv, Numbered
  <2>2. /\ succeeded' \subseteq sent /\ reverted' \subseteq sent /\ succeeded \subseteq succeeded'
        /\ nonce' \in [Account -> Nat]
    BY <1>2, <1>9 DEF ClientInv, Accepted
  <2>. QED  BY <1>1, <1>4, <2>1, <2>2, LedgerCloses
<1>. QED  BY <1>8, <1>9 DEF Include

(* What a delivery leaves the network with.                                  *)
LEMMA Delivers ==
    ASSUME NEW c, NEW e, e.stage = "sendTransaction", NEW reply \in Replies(c, e.tx),
           Deliver(e.tx, reply), UNCHANGED request
    PROVE  Delivered(e)
<1>1. CASE reply = "PENDING"
  <2>1. e.tx \notin sent
    BY <1>1 DEF Replies
  <2>. QED  BY <1>1, <2>1 DEF Deliver, Delivered
<1>2. CASE reply # "PENDING"
  BY <1>2 DEF Deliver, Delivered
<1>. QED  BY <1>1, <1>2

LEMMA Rests ==
    ASSUME NEW e, UNCHANGED <<request, ledgerVars>>
    PROVE  Delivered(e)
  BY DEF Delivered, ledgerVars

(* A step of one call, whatever it is answered.                              *)
LEMMA CallMoves ==
    ASSUME ClientInv, NEW c \in Calls, Start(c) \/ Answer(c) \/ Fault(c), NEW e, e = call[c]
    PROVE  (\E f : Steps(c, e, f, sent')) /\ Delivered(e)
<1>1. Shaped(c) /\ Sound(c, e) /\ sequence \in [Account -> Nat]
  BY CallsAreShaped DEF ClientInv, CallsSound
<1>2. CASE Start(c)
  BY <1>1, <1>2, Starts, Rests DEF Start
<1>3. CASE Read(c)
  BY <1>1, <1>3, Reads, Rests DEF Read
<1>4. ASSUME NEW reply, Send(c, reply)
      PROVE  (\E f : Steps(c, e, f, sent')) /\ Delivered(e)
  <2>1. \E f : Steps(c, e, f, sent')
    BY <1>1, <1>4, Sends
  <2>2. Delivered(e)
    BY <1>4, Delivers DEF Send
  <2>. QED  BY <2>1, <2>2
<1>5. CASE Lost(c)
  BY <1>1, <1>5, IsLost, Rests DEF Lost
<1>6. ASSUME NEW reply, AnswerLost(c, reply)
      PROVE  (\E f : Steps(c, e, f, sent')) /\ Delivered(e)
  <2>1. \E f : Steps(c, e, f, sent')
    BY <1>1, <1>6, IsLost
  <2>2. Delivered(e)
    BY <1>6, Delivers DEF AnswerLost
  <2>. QED  BY <2>1, <2>2
<1>. QED  BY <1>2, <1>3, <1>4, <1>5, <1>6 DEF Answer, Fault

LEMMA ClientInvariant == Spec => []ClientInv
<1>1. Init => ClientInv
  BY ClientStarts
<1>2. ASSUME ClientInv, [Next]_vars
      PROVE  ClientInv'
  <2>1. CASE UNCHANGED <<clientVars, ledgerVars>>
    BY <1>2, <2>1, ClientRests
  <2>2. ASSUME NEW c \in Calls, Start(c) \/ Answer(c) \/ Fault(c)
        PROVE  ClientInv'
    <3>1. PICK e : e = call[c]
      OBVIOUS
    <3>. QED  BY <1>2, <2>2, <3>1, CallMoves, ClientSteps
  <2>3. CASE Ledger
    <3>1. PICK t : Include(t) \/ Expire(t)
      BY <2>3 DEF Ledger
    <3>. QED  BY <1>2, <3>1, Includes, Expires
  <2>. QED  BY <1>2, <2>1, <2>2, <2>3, Zenon
            DEF Next, Begin, Proceed, submitMutation, Disturb, Subscriber, Poll, Events, Cache, vars
<1>. QED  BY <1>1, <1>2, PTL DEF Spec

(* Whether a call that is over, or under way, ever got past its conversion.  *)
Unasked(c) == Rejected(c) \/ Unconverted(c)

ConversionInv ==
    \A c \in Calls :
        IF call[c].step = 0
        THEN call[c].stage = "idle" \/ (call[c].stage \in Ending /\ Unasked(c))
        ELSE call[c].stage # "idle" /\ ~Unasked(c)

(* A step that leaves the call at one of its requests, or over after one.    *)
Moved(c) == \E f : call' = [call EXCEPT ![c] = f] /\ f.step # 0

LEMMA Moves ==
    ASSUME NEW c, NEW e, e = call[c], e \in Progress, e.step # 0
    PROVE  /\ \A stage, results : Finish(c, stage, results) => Moved(c)
           /\ \A step : GoTo(c, step) /\ step # 0 => Moved(c)
           /\ \A results : NextChunk(c, results) \/ Wait(c, results) => Moved(c)
           /\ \A attempt : Update(c, [attempt |-> attempt]) => Moved(c)
           /\ \A results :
                 Update(c, [stage |-> "returned", attempt |-> 0, results |-> results]) => Moved(c)
<1>1. ASSUME NEW stage, NEW results, Finish(c, stage, results)
      PROVE  Moved(c)
  BY <1>1, Finishes, Fields DEF Moved
<1>2. ASSUME NEW step, GoTo(c, step), step # 0
      PROVE  Moved(c)
  BY <1>2, GoesTo, Fields DEF Moved
<1>3. ASSUME NEW results, NextChunk(c, results)
      PROVE  Moved(c)
  <2>1. 1 # 0
    OBVIOUS
  <2>. QED  BY <1>3, <2>1, TakesNextChunk, Fields DEF Moved
<1>4. ASSUME NEW results, Wait(c, results)
      PROVE  Moved(c)
  BY <1>4, Waits, Fields DEF Moved
<1>5. ASSUME NEW attempt, Update(c, [attempt |-> attempt])
      PROVE  Moved(c)
  BY <1>5, Attempts, Fields DEF Moved
<1>6. ASSUME NEW results, Update(c, [stage |-> "returned", attempt |-> 0, results |-> results])
      PROVE  Moved(c)
  BY <1>6, Returns, Fields DEF Moved
<1>. QED  BY <1>1, <1>2, <1>3, <1>4, <1>5, <1>6

LEMMA FailureMoves ==
    ASSUME NEW c, NEW e, e = call[c], e \in Progress, e.step # 0
    PROVE  /\ \A result : Record(c, result) => Moved(c)
           /\ NotConfirmed(c) => Moved(c)
           /\ Fails(c) \/ withRetry(c) => Moved(c)
<1>1. ASSUME NEW result, Record(c, result)
      PROVE  Moved(c)
  BY <1>1, Moves DEF Record
<1>2. NotConfirmed(c) => Moved(c)
  BY Moves DEF NotConfirmed
<1>3. Fails(c) => Moved(c)
  BY <1>1, <1>2, Moves DEF Fails
<1>4. Retry(c) => Moved(c)
  BY Moves DEF Retry
<1>. QED  BY <1>1, <1>2, <1>3, <1>4 DEF withRetry

LEMMA AnswerMoves ==
    ASSUME NEW c, NEW e, e = call[c], e \in Progress, e.step # 0, Answer(c) \/ Fault(c)
    PROVE  Moved(c)
<1>1. CASE Build(c)
  <2>1. CASE ~Convertible(c)
    BY <1>1, <2>1, FailureMoves DEF Build
  <2>2. CASE Convertible(c)
    <3>1. PICK tx : Update(c, [stage |-> Requests(c)[2], step |-> 2, attempt |-> 0, tx |-> tx])
      BY <1>1, <2>2 DEF Build
    <3>2. call' = [call EXCEPT ![c] = Changed(e, [stage |-> Requests(c)[2], step |-> 2,
                                                  attempt |-> 0, tx |-> tx])]
      BY <3>1, UpdatesTo, Zenon
    <3>3. Changed(e, [stage |-> Requests(c)[2], step |-> 2, attempt |-> 0, tx |-> tx]).step = 2
      BY DEF Changed, Progress
    <3>4. PICK f : f = Changed(e, [stage |-> Requests(c)[2], step |-> 2, attempt |-> 0, tx |-> tx])
      OBVIOUS
    <3>5. call' = [call EXCEPT ![c] = f] /\ f.step = 2
      BY <3>2, <3>3, <3>4, Zenon
    <3>6. f.step # 0
      BY <3>5
    <3>. QED  BY <3>5, <3>6, Zenon DEF Moved
  <2>. QED  BY <2>1, <2>2
<1>2. ASSUME NEW step \in {3, e.step + 1}, GoTo(c, step)
      PROVE  Moved(c)
  <2>1. step # 0
    BY <1>2 DEF Progress
  <2>. QED  BY <1>2, <2>1, Moves
<1>3. CASE Value(c)
  BY <1>2, <1>3, Moves DEF Value
<1>4. CASE Confirmation(c)
  BY <1>4, Moves, FailureMoves DEF Confirmation
<1>5. CASE Read(c)
  BY <1>1, <1>2, <1>3, <1>4, <1>5, FailureMoves DEF Read
<1>6. ASSUME NEW reply, Send(c, reply)
      PROVE  Moved(c)
  BY <1>6, FailureMoves DEF Send
<1>7. CASE Fault(c)
  BY <1>7, FailureMoves DEF Fault, Lost, AnswerLost
<1>. QED  BY <1>5, <1>6, <1>7 DEF Answer

LEMMA ConversionStill ==
    ASSUME ConversionInv, UNCHANGED <<request, call>>
    PROVE  ConversionInv'
  BY DEF ConversionInv, Unasked, Rejected, Unconverted, Convertible, IsQuery, Method, Calls

LEMMA ConversionKept ==
    ASSUME ClientInv, ConversionInv, NEW c \in Calls, Start(c) \/ Answer(c) \/ Fault(c)
    PROVE  ConversionInv'
<1>1. PICK e : e = call[c]
  OBVIOUS
<1>2. e \in Progress /\ DOMAIN call = Calls
  BY <1>1 DEF ClientInv, CallsSound, Sound
<1>3. PICK f : Steps(c, e, f, sent') /\ request' = request
  BY <1>1, CallMoves DEF Delivered
<1>4. call' = [call EXCEPT ![c] = f] /\ f.stage # "idle"
  BY <1>3 DEF Steps
<1>5. call'[c] = f /\ \A b \in Calls : b # c => call'[b] = call[b]
  BY <1>2, <1>4
<1>6. IF f.step = 0 THEN f.stage \in Ending /\ Unasked(c) ELSE ~Unasked(c)
  <2>1. CASE Start(c) /\ ~Unasked(c)
    <3>1. Update(c, [stage |-> Requests(c)[1], step |-> 1])
      BY <2>1 DEF Start, Unasked
    <3>2. call' = [call EXCEPT ![c] = Changed(e, [stage |-> Requests(c)[1], step |-> 1])]
      BY <1>1, <3>1, UpdatesTo, Zenon
    <3>3. f.step = 1
      BY <1>2, <1>5, <3>2 DEF Changed, Progress
    <3>. QED  BY <2>1, <3>3
  <2>2. CASE Start(c) /\ Unasked(c)
    <3>1. e.step = 0
      BY <1>1, <2>2 DEF ConversionInv, Start
    <3>2. PICK changes : /\ call' = [call EXCEPT ![c] = Changed(e, changes)]
                         /\ changes.stage \in Ending /\ "stage" \in DOMAIN changes
                         /\ "step" \notin DOMAIN changes
      <4>1. CASE Update(c, [stage |-> "thrown"])
        BY <1>1, <4>1, UpdatesTo DEF Ending
      <4>2. CASE Update(c, [stage |-> "returned", results |-> <<Result(None, "failed")>>])
        BY <1>1, <4>2, UpdatesTo DEF Ending
      <4>. QED  BY <2>2, <4>1, <4>2 DEF Start, Unasked
    <3>3. f = Changed(e, changes)
      BY <1>2, <1>5, <3>2
    <3>4. f.step = 0 /\ f.stage \in Ending
      BY <1>2, <3>1, <3>2, <3>3 DEF Changed, Progress
    <3>. QED  BY <2>2, <3>4
  <2>3. CASE Answer(c) \/ Fault(c)
    <3>1. e.stage # "idle" /\ e.stage \notin Ending
      BY <1>1, <2>3
         DEF Answer, Fault, Read, Send, Lost, AnswerLost, Over, Ending
    <3>2. e.step # 0 /\ ~Unasked(c)
      BY <1>1, <3>1 DEF ConversionInv
    <3>3. f.step # 0
      BY <1>1, <1>2, <1>5, <2>3, <3>2, AnswerMoves DEF Moved
    <3>. QED  BY <3>2, <3>3
  <2>. QED  BY <2>1, <2>2, <2>3
<1>7. \A b \in Calls : Unasked(b)' <=> Unasked(b)
  BY <1>3 DEF Unasked, Rejected, Unconverted, Convertible, IsQuery, Method
<1>8. Calls' = Calls
  BY <1>3 DEF Calls
<1>9. ASSUME NEW b \in Calls
      PROVE  IF call'[b].step = 0
             THEN call'[b].stage = "idle" \/ (call'[b].stage \in Ending /\ Unasked(b))
             ELSE call'[b].stage # "idle" /\ ~Unasked(b)
  BY <1>4, <1>5, <1>6 DEF ConversionInv
<1>. QED  BY <1>7, <1>8, <1>9 DEF ConversionInv

(* bridge.ts, encoding.ts: whatever other calls, retries and faults surround *)
(* it, a call with well-formed inputs encodes what the entry point takes;    *)
(* every method gets that far but getWhitelistedAssets, which never does.    *)
THEOREM SdkEncodesAbi == Spec => []EncodesAbi
<1>1. Init => ConversionInv
  BY DEF Init, ClientInit, ConversionInv, NotStarted, Calls
<1>2. ASSUME ClientInv, ConversionInv, [Next]_vars
      PROVE  ConversionInv'
  <2>1. ASSUME NEW c \in Calls, Start(c) \/ Answer(c) \/ Fault(c)
        PROVE  ConversionInv'
    BY <1>2, <2>1, ConversionKept
  <2>2. CASE Ledger
    BY <1>2, <2>2, ConversionStill DEF Ledger, Include, Expire, clientVars
  <2>3. CASE UNCHANGED clientVars
    BY <1>2, <2>3, ConversionStill DEF clientVars
  <2>. QED  BY <1>2, <2>1, <2>2, <2>3, Zenon
            DEF Next, Begin, Proceed, submitMutation, Disturb, Subscriber, Poll, Events, Cache, vars
<1>3. ASSUME ClientInv, ConversionInv, NEW c \in Calls, request[c].bad = {}
      PROVE  /\ call[c].stage \in {"prepareTransaction", "simulateTransaction"}
                    => Conforms(Method(c).fn, Encoded(c))
             /\ call[c].stage # "idle" =>
                    (call[c].step = 0 <=> Method(c) = getWhitelistedAssets)
  <2>1. Conforms(Method(c).fn, Encoded(c))
    BY <1>3, MethodsFit, FittingConforms, Zenon DEF ClientInv, Requested
  <2>2. Unasked(c) <=> IsQuery(c) /\ Method(c) = getWhitelistedAssets
    BY <1>3 DEF Unasked, Rejected, Unconverted, Convertible, EncodedTwice
  <2>3. getWhitelistedAssets.query
    BY DEF getWhitelistedAssets, Query, Submission
  <2>4. Unasked(c) <=> Method(c) = getWhitelistedAssets
    BY <2>2, <2>3 DEF IsQuery
  <2>. QED  BY <1>3, <2>1, <2>4 DEF ConversionInv
<1>4. ClientInv /\ ConversionInv => EncodesAbi
  BY <1>3 DEF EncodesAbi
<1>. QED  BY <1>1, <1>2, <1>4, ClientInvariant, PTL DEF Spec

(* retry.ts: a retried submission carries the same transaction. However      *)
(* often requests and answers are lost, the network accepts one for every    *)
(* chunk of every call.                                                      *)
THEOREM SdkEffectOnce == Spec => []EffectOnce
<1>1. ASSUME ClientInv, NEW c \in Calls, NEW chunk
      PROVE  Cardinality(TransactionsOf(c, chunk)) <= 1
  <2>1. ASSUME NEW t \in TransactionsOf(c, chunk), NEW u \in TransactionsOf(c, chunk)
        PROVE  t = u
    <3>1. t \in sent /\ u \in sent /\ t.call = u.call /\ t.chunk = u.chunk
      BY DEF TransactionsOf
    <3>. QED  BY <1>1, <3>1 DEF ClientInv, Accepted
  <2>2. CASE TransactionsOf(c, chunk) = {}
    BY <2>2, FS_EmptySet
  <2>3. CASE TransactionsOf(c, chunk) # {}
    <3>1. PICK t : t \in TransactionsOf(c, chunk)
      BY <2>3
    <3>2. TransactionsOf(c, chunk) = {t}
      BY <2>1, <3>1
    <3>3. Cardinality({t}) = 1
      BY FS_Singleton
    <3>. QED  BY <3>2, <3>3
  <2>. QED  BY <2>2, <2>3
<1>2. ClientInv => EffectOnce
  BY <1>1 DEF EffectOnce
<1>. QED  BY <1>2, ClientInvariant, PTL

(* bridge.ts, waitForContractReturnValue and waitForConfirmation: a caller   *)
(* is told 'success' of an applied transaction only, and 'pending' of one    *)
(* that the network accepted, also when answers are lost in between.         *)
THEOREM SdkReportsAreTrue == Spec => []ReportsAreTrue
<1>1. ASSUME ClientInv, NEW c \in Calls, NEW i \in DOMAIN call[c].results
      PROVE  /\ call[c].results[i].status = "success" => call[c].results[i].hash \in succeeded
             /\ call[c].results[i].status = "pending" => call[c].results[i].hash \in sent
  <2>1. Told(call[c].results, sent, succeeded) /\ call[c].results \in Seq(Reply)
    BY <1>1 DEF ClientInv, CallsSound, Sound, Progress
  <2>2. i \in 1 .. Len(call[c].results)
    BY <2>1
  <2>. QED  BY <2>1, <2>2 DEF Told
<1>2. ClientInv => ReportsAreTrue
  BY <1>1 DEF ReportsAreTrue
<1>. QED  BY <1>2, ClientInvariant, PTL

(* batchFundCAddresses: a chunk that carries a nonce is simulated when the   *)
(* contract expects that nonce, whatever the chunks before it met.           *)
THEOREM SdkNonceInTurn == Spec => []NonceInTurn
<1>1. ASSUME ClientInv, NEW c \in Calls, call[c].stage = "prepareTransaction", Sequential(c)
      PROVE  nonce[AccountOf(c)] = call[c].chunk - 1
  <2>1. call[c].tx \notin succeeded
    BY <1>1 DEF ClientInv, Accepted, Unsubmitted
  <2>. QED  BY <1>1, <2>1 DEF ClientInv, Numbered
<1>2. ClientInv => NonceInTurn
  BY <1>1 DEF NonceInTurn
<1>. QED  BY <1>2, ClientInvariant, PTL

(* batchFundCAddresses: after a chunk that was reported as failed, nothing   *)
(* more of the batch was sent, and its other results say so.                 *)
THEOREM SdkFailedChunkIsLast == Spec => []FailedChunkIsLast
<1>1. ASSUME ClientInv, NEW c \in Calls, NEW i \in DOMAIN call[c].results,
             NEW j \in DOMAIN call[c].results,
             Sequential(c), i < j, call[c].results[i].status = "failed"
      PROVE  TransactionsOf(c, j) = {} /\ call[c].results[j].status = "failed"
  <2>1. PICK e, n : e = call[c] /\ n = Len(e.results)
    OBVIOUS
  <2>2. /\ e.results \in Seq(Reply) /\ e.chunk \in Nat /\ n \in Nat
        /\ i \in 1 .. n /\ j \in 1 .. n /\ InTurn(c, e)
    BY <1>1, <2>1 DEF ClientInv, CallsSound, Sound, Progress
  <2>3. i >= e.chunk
    BY <1>1, <2>1, <2>2 DEF InTurn
  <2>4. j > e.chunk
    BY <1>1, <2>2, <2>3
  <2>5. e.results[j].status = "failed"
    BY <1>1, <2>1, <2>2, <2>4 DEF InTurn
  <2>6. ASSUME NEW t \in TransactionsOf(c, j)
        PROVE  FALSE
    <3>1. t \in sent /\ t.call = c /\ t.chunk = j
      BY DEF TransactionsOf
    <3>2. t.chunk <= e.chunk
      BY <1>1, <2>1, <3>1 DEF ClientInv, Accepted
    <3>. QED  BY <2>2, <2>4, <3>1, <3>2
  <2>. QED  BY <2>1, <2>5, <2>6
<1>2. ClientInv => FailedChunkIsLast
  BY <1>1 DEF FailedChunkIsLast
<1>. QED  BY <1>2, ClientInvariant, PTL

(* batchFundCAddresses: results are pushed per chunk, and filled up when the *)
(* batch is given up.                                                        *)
THEOREM SdkResultPerChunk == Spec => []ResultPerChunk
<1>1. ClientInv => ResultPerChunk
  BY DEF ClientInv, CallsSound, Sound, Answered, ResultPerChunk
<1>. QED  BY <1>1, ClientInvariant, PTL

(* observability.ts: the span of every traced call that is over was ended,   *)
(* unless another call of the method took its place in the map.              *)
THEOREM SdkSpansEnd == Spec => []SpansEnd
<1>1. ClientInv => SpansEnd
  BY DEF ClientInv, SpansFollow, Settled, Replaced, Over, Ending, SpansEnd
<1>. QED  BY <1>1, ClientInvariant, PTL

-----------------------------------------------------------------------------
(* Type correctness. What the cached client follows was accepted: it returns *)
(* only after its submission was answered.                                   *)

LEMMA CachedReads ==
    ASSUME NEW c, Shaped(c), NEW e, e = call[c], Sound(c, e), c \in DOMAIN call,
           Method(c).cached, Read(c)
    PROVE  call'[c].stage # "returned"
<1>1. SubmitsCached(Method(c)) /\ ~IsQuery(c) /\ e \in Progress
  BY DEF Shaped, Submits, SubmitsCached, Asks, IsQuery, Sound
<1>2. PICK r : r = Requests(c)
  OBVIOUS
<1>3. /\ Len(r) = 4 /\ r[1] = "getAccount" /\ r[2] = "getAccount"
      /\ r[3] = "prepareTransaction" /\ r[4] = "sendTransaction"
  BY <1>1, <1>2, RequestsOf
<1>4. e.stage # "getTransaction"
  BY <1>1 DEF Sound, Placed, SubmitsCached, Sequential
<1>5. e.stage \in Requesting => e.stage \in {"getAccount", "prepareTransaction", "sendTransaction"}
  <2>1. e.stage \in Requesting => e.step \in 1 .. 4 /\ e.stage = r[e.step]
    BY <1>2, <1>3 DEF Sound, Placed
  <2>2. e.step \in 1 .. 4 => e.step = 1 \/ e.step = 2 \/ e.step = 3 \/ e.step = 4
    BY <1>1 DEF Progress
  <2>. QED  BY <1>3, <2>1, <2>2
<1>6. ASSUME Fails(c)
      PROVE  call'[c].stage = "thrown"
  <2>1. Finish(c, "thrown", <<>>)
    BY <1>4, <1>6 DEF Fails
  <2>2. call' = [call EXCEPT ![c] = At("thrown", e.step, 0, e.chunk, e.tx, <<>>)]
    BY <1>1, <2>1, Finishes
  <2>. QED  BY <2>2 DEF At
<1>7. ASSUME NEW step, GoTo(c, step)
      PROVE  call'[c].stage = Requests(c)[step]
  <2>1. call' = [call EXCEPT ![c] = At(Requests(c)[step], step, 0, e.chunk, e.tx, e.results)]
    BY <1>1, <1>7, GoesTo
  <2>. QED  BY <2>1 DEF At
<1>8. CASE e.stage = "getAccount" /\ Build(c)
  <2>1. CASE Convertible(c)
    <3>1. PICK tx : Update(c, [stage |-> Requests(c)[2], step |-> 2, attempt |-> 0, tx |-> tx])
      BY <1>8, <2>1 DEF Build
    <3>2. call' = [call EXCEPT ![c] = Changed(call[c], [stage |-> Requests(c)[2], step |-> 2,
                                                        attempt |-> 0, tx |-> tx])]
      BY <3>1, UpdatesTo, Zenon
    <3>3. call'[c].stage = Requests(c)[2]
      BY <1>1, <3>2 DEF Changed, Progress
    <3>. QED  BY <1>2, <1>3, <3>3
  <2>2. CASE ~Convertible(c)
    BY <1>6, <1>8, <2>2 DEF Build
  <2>. QED  BY <2>1, <2>2
<1>9. CASE e.stage = "getAccount" /\ GoTo(c, 3)
  BY <1>2, <1>3, <1>7, <1>9
<1>10. CASE e.stage = "prepareTransaction" /\ GoTo(c, e.step + 1)
  <2>1. e.step \in 1 .. 4 /\ e.step = 3
    <3>1. e.step \in 1 .. 4 /\ e.stage = r[e.step]
      BY <1>2, <1>3, <1>10 DEF Sound, Placed, Requesting
    <3>2. e.step = 1 \/ e.step = 2 \/ e.step = 3 \/ e.step = 4
      BY <3>1
    <3>. QED  BY <1>3, <1>10, <3>1, <3>2
  <2>2. PICK step : step = e.step + 1
    OBVIOUS
  <2>3. step = 4
    BY <2>1, <2>2
  <2>. QED  BY <1>2, <1>3, <1>7, <1>10, <2>2, <2>3
<1>11. CASE e.stage = "prepareTransaction" /\ Fails(c)
  BY <1>6, <1>11
<1>12. CASE e.stage \in {"simulateTransaction", "getFeeStats", "getLedgerEntries"}
  BY <1>5, <1>12 DEF Requesting
<1>. QED  BY <1>4, <1>8, <1>9, <1>10, <1>11, <1>12 DEF Read

LEMMA CachedSends ==
    ASSUME NEW c, Shaped(c), NEW e, e = call[c], Sound(c, e), c \in DOMAIN call,
           Method(c).cached, NEW reply, Send(c, reply)
    PROVE  call'[c].results[1].status = "pending" => e.tx \in sent'
<1>1. /\ e.stage = "sendTransaction" /\ e \in Progress /\ Deliver(e.tx, reply)
      /\ Record(c, Result(e.tx, IF reply = "PENDING" THEN "pending" ELSE "failed"))
  BY DEF Send, Sound
<1>2. ~Method(c).waits /\ ~Method(c).splits /\ ~Sequential(c) /\ ~IsQuery(c)
  BY DEF Shaped, Submits, SubmitsCached, Asks, Sequential, IsQuery
<1>3. PICK answer : answer = Result(e.tx, IF reply = "PENDING" THEN "pending" ELSE "failed")
  OBVIOUS
<1>4. Finish(c, "returned", Append(e.results, answer))
  BY <1>1, <1>2, <1>3 DEF Record
<1>5. e.results \in Seq(Reply) /\ Len(e.results) = 0
  <2>1. e.chunk \in 1 .. request[c].chunks /\ request[c].chunks = 1 /\ e.results \in Seq(Reply)
    BY <1>1, <1>2 DEF Sound, Placed, Shaped, Progress
  <2>2. Len(e.results) = e.chunk - 1
    BY <1>1, <1>2 DEF Sound, Answered, Requesting
  <2>. QED  BY <2>1, <2>2
<1>6. PICK results : results = Append(e.results, answer)
  OBVIOUS
<1>7. answer \in Reply
  BY <1>1, <1>3 DEF Result, Reply, Progress
<1>8. results[1] = answer
  BY <1>5, <1>6, <1>7
<1>9. call' = [call EXCEPT ![c] = At("returned", e.step, 0, e.chunk, e.tx, results)]
  BY <1>1, <1>4, <1>6, Finishes
<1>10. call'[c].results[1] = answer
  BY <1>8, <1>9 DEF At
<1>11. CASE reply = "PENDING"
  BY <1>1, <1>11 DEF Deliver
<1>12. CASE reply # "PENDING"
  BY <1>3, <1>10, <1>12 DEF Result
<1>. QED  BY <1>11, <1>12

FollowInv == following \subseteq sent

LEMMA FollowsAccepted == Spec => []FollowInv
<1>1. Init => FollowInv
  BY DEF Init, CacheInit, FollowInv
<1>2. ASSUME ClientInv, FollowInv, [Next]_vars
      PROVE  FollowInv'
  <2>0. following \subseteq sent
    BY <1>2 DEF FollowInv
  <2> SUFFICES following' \subseteq sent'
    BY DEF FollowInv
  <2>1. CASE following' \subseteq following /\ sent \subseteq sent'
    BY <2>0, <2>1
  <2>2. ASSUME NEW c, Fault(c)
        PROVE  sent \subseteq sent'
    BY <2>2 DEF Fault, Lost, AnswerLost, Deliver, ledgerVars
  <2>3. ASSUME NEW c, Answer(c)
        PROVE  sent \subseteq sent'
    BY <2>3 DEF Answer, Read, Send, Deliver, ledgerVars
  <2>4. ASSUME NEW c \in Calls, Proceed(c)
        PROVE  following' \subseteq sent'
    <3>1. Answer(c) /\ Submitted(c)
      BY <2>4 DEF Proceed, submitMutation
    <3>2. CASE UNCHANGED <<store, following>>
      BY <2>0, <2>3, <3>1, <3>2
    <3>3. CASE /\ Method(c).cached /\ call'[c].stage = "returned"
               /\ call'[c].results[1].status = "pending"
               /\ following' = following \cup {call[c].tx}
      <4>1. PICK e : e = call[c]
        OBVIOUS
      <4>2. Shaped(c) /\ Sound(c, e) /\ c \in DOMAIN call
        BY <1>2, <4>1, CallsAreShaped DEF ClientInv, CallsSound
      <4>3. ~Read(c)
        BY <3>3, <4>1, <4>2, CachedReads
      <4>4. PICK reply : Send(c, reply)
        BY <3>1, <4>3 DEF Answer
      <4>5. e.tx \in sent'
        BY <3>3, <4>1, <4>2, <4>4, CachedSends
      <4>. QED  BY <2>0, <2>3, <3>1, <3>3, <4>1, <4>5
    <3>. QED  BY <3>1, <3>2, <3>3 DEF Submitted
  <2>5. ASSUME NEW c \in Calls, Begin(c) \/ Disturb(c)
        PROVE  following' \subseteq sent'
    BY <2>0, <2>2, <2>5 DEF Begin, Disturb, Start, ledgerVars, cacheVars
  <2>6. CASE Ledger
    BY <2>0, <2>6 DEF Ledger, Include, Expire, Effect
  <2>7. CASE Cache
    <3>1. sent' = sent
      BY <2>7 DEF Cache, ledgerVars
    <3>2. following' \subseteq following
      BY <2>7, Zenon DEF Cache, Hit, Miss, Simulate, Fill, NoValue, invalidateCache,
                         invalidateAfterConfirmation, GiveUp, OtherChange, Tick
    <3>. QED  BY <2>0, <3>1, <3>2
  <2>8. CASE UNCHANGED <<ledgerVars, cacheVars>>
    BY <2>0, <2>8 DEF ledgerVars, cacheVars
  <2>. QED  BY <1>2, <2>4, <2>5, <2>6, <2>7, <2>8, Zenon
            DEF Next, Subscriber, Poll, Events, vars
<1>. QED  BY <1>1, <1>2, ClientInvariant, PTL DEF Spec

(* A call is at one of its requests with as many attempts as they are        *)
(* allowed, holds its own transaction, and what is pooled, applied or        *)
(* followed was accepted; the cache and the subscriber keep their bounds.    *)
THEOREM SdkTypeOK == Spec => []TypeOK
<1>1. ClientInv => ClientTypeOK
  <2>1. ASSUME ClientInv, NEW c \in Calls
        PROVE  /\ call[c].stage \in Stages
               /\ call[c].attempt \in 0 .. Retries(call[c].stage)
               /\ call[c].chunk \in 1 .. request[c].chunks
               /\ call[c].tx = None \/ call[c].tx \in [call : {c}, chunk : {call[c].chunk},
                                                       account : {AccountOf(c)}, seq : Nat]
    <3>1. PICK e : e = call[c]
      OBVIOUS
    <3>2. e \in Progress /\ Placed(c, e) /\ Built(c, e)
      BY <2>1, <3>1 DEF ClientInv, CallsSound, Sound
    <3>3. e.attempt \in 0 .. Retries(e.stage)
      BY <3>2, RetriesAreNatural DEF Placed, Progress
    <3>4. e.tx = None \/ e.tx \in [call : {c}, chunk : {e.chunk}, account : {AccountOf(c)},
                                   seq : Nat]
      BY <3>2 DEF Built, Progress, Transaction
    <3>. QED  BY <3>1, <3>2, <3>3, <3>4 DEF Placed, Progress
  <2>2. ClientInv => /\ Calls \subseteq Call /\ ended \subseteq Call
                     /\ sequence \in [Account -> Nat] /\ nonce \in [Account -> Nat]
                     /\ pool \cup succeeded \cup reverted \subseteq sent
    BY DEF ClientInv, Requested, SpansFollow, Accepted
  <2>. QED  BY <2>1, <2>2 DEF ClientTypeOK
<1>2. CacheInv /\ FollowInv => CacheTypeOK
  <2>1. ASSUME CacheInv
        PROVE  \A i, j \in DOMAIN store : store[i].key = store[j].key => i = j
    BY <2>1 DEF CacheInv, Shelf, Distinct
  <2>2. ASSUME CacheInv
        PROVE  \A r \in Reader : reading[r].version \in 0 .. version
    BY <2>2 DEF CacheInv, UnderWay, Reading
  <2>. QED  BY <2>1, <2>2 DEF CacheInv, CacheTypeOK, FollowInv
<1>3. SubscriberInv => SubscriberTypeOK
  BY DEF SubscriberInv
<1>4. ClientInv /\ CacheInv /\ SubscriberInv /\ FollowInv => TypeOK
  BY <1>1, <1>2, <1>3 DEF TypeOK
<1>. QED  BY <1>4, ClientInvariant, CacheInvariant, SubscriberInvariant, FollowsAccepted, PTL

-----------------------------------------------------------------------------
(* The submissions implement the promise of SubmittedBatches.                *)

(* The chunks that transactions carry, and the statuses reported so far.     *)
Units(txs) == {<<tx.call, tx.chunk>> : tx \in txs}

Statuses(results) == [i \in DOMAIN results |-> results[i].status]

Tells == [c \in Calls |-> Statuses(call[c].results)]

(* A report that is not 'failed' is about the transaction of its chunk.      *)
Labelled(c, results) ==
    \A i \in 1 .. Len(results) :
        results[i].status # "failed" => results[i].hash.call = c /\ results[i].hash.chunk = i

(* A chunk with a nonce is taken up when the ones before it have taken       *)
(* effect; and what is pooled has no outcome yet.                            *)
BatchInv ==
    /\ \A c \in Calls : Labelled(c, call[c].results)
    /\ \A c \in Calls :
          Sequential(c) => \A i \in 1 .. call[c].chunk - 1 : <<c, i>> \in Units(succeeded)
    /\ pool \cap (succeeded \cup reverted) = {}

LEMMA LabelsStay ==
    ASSUME NEW c, NEW e, Sound(c, e), NEW results, Adds(e, results), Labelled(c, e.results)
    PROVE  Labelled(c, results)
<1>1. PICK old, m, n : old = e.results /\ m = Len(old) /\ n = Len(results)
  OBVIOUS
<1>2. old \in Seq(Reply)
  BY <1>1 DEF Sound, Progress
<1>3. m \in Nat
  BY <1>1, <1>2
<1>4. e.tx # None => e.tx.call = c /\ e.tx.chunk = e.chunk
  BY DEF Sound, Built
<1>5. ASSUME NEW i \in 1 .. n, results[i].status # "failed"
      PROVE  results[i].hash.call = c /\ results[i].hash.chunk = i
  <2>1. CASE i <= m /\ results[i].hash = old[i].hash /\ old[i].status # "failed"
    <3>1. i \in 1 .. m
      BY <1>3, <2>1
    <3>. QED  BY <1>1, <2>1, <3>1, Zenon DEF Labelled
  <2>2. CASE i = e.chunk /\ results[i].hash = e.tx /\ e.tx # None
    BY <1>4, <2>2
  <2>. QED  BY <1>1, <1>5, <2>1, <2>2, Zenon DEF Adds
<1>. QED  BY <1>1, <1>5, Zenon DEF Labelled

LEMMA BatchStays ==
    ASSUME ClientInv, BatchInv, NEW c \in Calls, NEW e, e = call[c], NEW f,
           Steps(c, e, f, sent'), Delivered(e)
    PROVE  BatchInv'
<1>1. /\ Calls' = Calls /\ call'[c] = f
      /\ \A b \in Calls : b # c => call'[b] = call[b]
      /\ Sound(c, f) /\ Carried(c, e, f) /\ Adds(e, f.results)
  BY OneMoves DEF ClientInv, Delivered
<1>2. /\ Accepted /\ Sound(c, e) /\ Labelled(c, e.results)
  BY DEF ClientInv, CallsSound, BatchInv
<1>3. \A b : Sequential(b)' = Sequential(b)
  BY DEF Delivered, Sequential, Method
<1>4. ASSUME NEW b \in Calls
      PROVE  Labelled(b, call'[b].results)
  <2>1. CASE b = c
    BY <1>1, <1>2, <2>1, LabelsStay
  <2>2. CASE b # c
    BY <1>1, <2>2 DEF BatchInv
  <2>. QED  BY <2>1, <2>2
<1>5. ASSUME NEW b \in Calls, Sequential(b), NEW i \in 1 .. call'[b].chunk - 1
      PROVE  <<b, i>> \in Units(succeeded)
  <2>1. CASE i \in 1 .. call[b].chunk - 1
    BY <1>5, <2>1 DEF BatchInv
  <2>2. CASE i \notin 1 .. call[b].chunk - 1
    <3>1. b = c
      BY <1>1, <1>5, <2>2
    <3>2. e.chunk \in Nat /\ f.chunk \in Nat /\ i \in 1 .. f.chunk - 1 /\ i \notin 1 .. e.chunk - 1
      BY <1>1, <1>2, <1>5, <2>2, <3>1 DEF Sound, Progress
    <3>3. f.chunk = e.chunk + 1 /\ e.tx \in succeeded
      BY <1>1, <1>5, <3>1, <3>2 DEF Carried
    <3>4. i = e.chunk
      BY <3>2, <3>3
    <3>5. e.tx # None
      BY <1>2, <3>3, ClientAssumption DEF Accepted, ClientAssumption
    <3>6. e.tx.call = c /\ e.tx.chunk = e.chunk
      BY <1>2, <3>5 DEF Sound, Built
    <3>. QED  BY <3>1, <3>3, <3>4, <3>6 DEF Units
  <2>. QED  BY <2>1, <2>2
<1>6. pool' \cap (succeeded \cup reverted)' = {}
  BY <1>2 DEF BatchInv, Delivered, Accepted
<1>7. succeeded' = succeeded
  BY DEF Delivered
<1>8. \A b \in Calls : Labelled(b, call[b].results)' = Labelled(b, call'[b].results)
  BY DEF Labelled
<1>. QED  BY <1>1, <1>3, <1>4, <1>5, <1>6, <1>7, <1>8, Zenon DEF BatchInv, Units

LEMMA BatchRests ==
    ASSUME BatchInv, UNCHANGED <<request, call>>, succeeded \subseteq succeeded',
           pool' \cap (succeeded \cup reverted)' = {}
    PROVE  BatchInv'
<1>1. Calls' = Calls /\ \A c : Sequential(c)' = Sequential(c)
  BY DEF Calls, Sequential, Method
<1>2. Units(succeeded) \subseteq Units(succeeded')
  BY DEF Units
<1>. QED  BY <1>1, <1>2 DEF BatchInv, Labelled, Units

(* A step of a call extends its own reports; no other call's change.         *)
LEMMA TellsOfOne ==
    ASSUME ClientInv, NEW c \in Calls, NEW e, e = call[c], NEW f, Steps(c, e, f, sent'),
           Delivered(e)
    PROVE  /\ Tells[c] = Statuses(e.results) /\ Tells'[c] = Statuses(f.results)
           /\ Tells' = [Tells EXCEPT ![c] = Statuses(f.results)]
           /\ DOMAIN Tells = Calls
<1>1. /\ Calls' = Calls /\ call'[c] = f
      /\ \A b \in Calls : b # c => call'[b] = call[b]
  BY OneMoves DEF ClientInv, Delivered
<1>2. Tells' = [b \in Calls |-> Statuses(call'[b].results)]
  BY <1>1 DEF Tells, Statuses
<1>3. Tells' = [b \in Calls |-> IF b = c THEN Statuses(f.results) ELSE Statuses(call[b].results)]
  BY <1>1, <1>2
<1>. QED  BY <1>1, <1>2, <1>3 DEF Tells

LEMMA ReportsOne ==
    ASSUME ClientInv, BatchInv, NEW c \in Calls, NEW e, e = call[c], NEW f,
           Steps(c, e, f, sent'), Delivered(e)
    PROVE  LET old == Statuses(e.results)
               new == Statuses(f.results)
           IN  /\ DOMAIN old \subseteq DOMAIN new
               /\ \A i \in DOMAIN new :
                     /\ i \in DOMAIN old => new[i] = old[i] \/ old[i] = "pending"
                     /\ new[i] = "pending" => <<c, i>> \in Units(sent')
                     /\ new[i] = "success" => <<c, i>> \in Units(succeeded)
<1> DEFINE r == e.results
           s == f.results
<1>1. /\ Sound(c, f) /\ Adds(e, s) /\ Sound(c, e) /\ Labelled(c, r)
      /\ Told(s, sent', succeeded) \/ ~Told(r, sent', succeeded)
  BY OneMoves DEF ClientInv, CallsSound, BatchInv, Delivered
<1>2. Told(r, sent', succeeded)
  <2>1. Told(r, sent, succeeded) /\ sent \subseteq sent'
    BY DEF ClientInv, CallsSound, Delivered
  <2>. QED  BY <2>1, TellsMore, Zenon
<1>3. Told(s, sent', succeeded) /\ Labelled(c, s)
  BY <1>1, <1>2, LabelsStay
<1>4. PICK m, n : m = Len(r) /\ n = Len(s)
  OBVIOUS
<1>5. DOMAIN r = 1 .. m /\ DOMAIN s = 1 .. n /\ m \in Nat /\ n \in Nat
  BY <1>1, <1>4 DEF Sound, Progress
<1>6. m <= n
  BY <1>1, <1>4 DEF Adds
<1> HIDE DEF r, s
<1>7. ASSUME NEW i \in 1 .. n
      PROVE  /\ i \in 1 .. m => s[i].status = r[i].status \/ r[i].status = "pending"
             /\ s[i].status = "pending" => <<c, i>> \in Units(sent')
             /\ s[i].status = "success" => <<c, i>> \in Units(succeeded)
  <2>1. i \in 1 .. m => s[i] = r[i] \/ r[i].status = "pending"
    BY <1>1, <1>4, <1>5 DEF Adds, r, s
  <2>2. s[i].status # "failed" => s[i].hash.call = c /\ s[i].hash.chunk = i
    BY <1>3, <1>4, Zenon DEF Labelled
  <2>3. /\ s[i].status = "success" => s[i].hash \in succeeded
        /\ s[i].status = "pending" => s[i].hash \in sent'
    BY <1>3, <1>4, Zenon DEF Told
  <2>4. \A t : t.call = c /\ t.chunk = i => (t \in sent' => <<c, i>> \in Units(sent'))
                                            /\ (t \in succeeded => <<c, i>> \in Units(succeeded))
    BY DEF Units
  <2>. QED  BY <2>1, <2>2, <2>3, <2>4
<1>8. /\ DOMAIN Statuses(r) = 1 .. m /\ \A i \in 1 .. m : Statuses(r)[i] = r[i].status
      /\ DOMAIN Statuses(s) = 1 .. n /\ \A i \in 1 .. n : Statuses(s)[i] = s[i].status
  BY <1>5 DEF Statuses
<1>9. 1 .. m \subseteq 1 .. n
  BY <1>5, <1>6
<1>. QED  BY <1>7, <1>8, <1>9 DEF r, s

LEMMA AcceptsNext ==
    ASSUME ClientInv, BatchInv, NEW c \in Calls, NEW e, e = call[c], Delivered(e),
           e.tx \notin sent, e.stage = "sendTransaction", sent' = sent \cup {e.tx}
    PROVE  LET old  == Statuses(e.results)
               next == Len(old) + 1
           IN  /\ <<c, next>> \notin Units(sent)
               /\ Sequential(c) =>
                     \A i \in DOMAIN old : <<c, i>> \in Units(succeeded) /\ old[i] # "failed"
               /\ Units(sent') = Units(sent) \cup {<<c, next>>}
<1>1. Accepted /\ Sound(c, e)
  BY DEF ClientInv, CallsSound
<1>2. ~IsQuery(c) /\ e.tx # None /\ e.tx.call = c /\ e.tx.chunk = e.chunk
  BY <1>1 DEF Sound, Built
<1>3. /\ e.results \in Seq(Reply) /\ Len(e.results) = e.chunk - 1 /\ e.chunk \in Nat
      /\ e.chunk \in 1 .. request[c].chunks
  BY <1>1, <1>2 DEF Sound, Progress, Answered, Placed, Requesting
<1>4. PICK old : old = Statuses(e.results)
  OBVIOUS
<1>5. /\ Len(old) = Len(e.results) /\ DOMAIN old = DOMAIN e.results
      /\ \A i \in DOMAIN old : old[i] = e.results[i].status
  <2>1. PICK m : m = Len(e.results)
    OBVIOUS
  <2>2. m \in Nat /\ DOMAIN e.results = 1 .. m
    BY <1>3, <2>1
  <2>4. old = [i \in 1 .. m |-> e.results[i].status]
    BY <1>4, <2>2 DEF Statuses
  <2>5. Len(old) = m /\ DOMAIN old = 1 .. m
    BY <2>2, <2>4
  <2>. QED  BY <2>1, <2>2, <2>4, <2>5
<1>6. Len(old) + 1 = e.chunk /\ DOMAIN old = 1 .. e.chunk - 1
  BY <1>3, <1>5
<1>7. <<c, e.chunk>> \notin Units(sent)
  <2>1. ASSUME NEW t \in sent, t.call = c, t.chunk = e.chunk
        PROVE  FALSE
    BY <1>1, <2>1 DEF Accepted
  <2>. QED  BY <2>1 DEF Units
<1>8. ASSUME Sequential(c), NEW i \in 1 .. e.chunk - 1
      PROVE  <<c, i>> \in Units(succeeded) /\ old[i] # "failed"
  <2>1. <<c, i>> \in Units(succeeded)
    BY <1>8 DEF BatchInv
  <2>2. e.results[i].status = "pending"
    BY <1>1, <1>3, <1>8 DEF Sound, InTurn, Ending
  <2>. QED  BY <1>5, <1>6, <2>1, <2>2
<1>9. Units(sent') = Units(sent) \cup {<<c, e.chunk>>}
  BY <1>2 DEF Units
<1>. QED  BY <1>4, <1>6, <1>7, <1>8, <1>9

LEMMA CallSubmits ==
    ASSUME ClientInv, BatchInv, NEW c \in Calls, NEW e, e = call[c],
           \E f : Steps(c, e, f, sent'), Delivered(e)
    PROVE  Batches!BatchNext
<1>1. PICK f : Steps(c, e, f, sent')
  OBVIOUS
<1>2. PICK old, new : old = Statuses(e.results) /\ new = Statuses(f.results)
  OBVIOUS
<1>3. /\ Tells[c] = old /\ Tells'[c] = new /\ Tells' = [Tells EXCEPT ![c] = new]
      /\ DOMAIN Tells = Calls
  BY <1>1, <1>2, TellsOfOne
<1>4. /\ DOMAIN old \subseteq DOMAIN new
      /\ \A i \in DOMAIN new :
            /\ i \in DOMAIN old => new[i] = old[i] \/ old[i] = "pending"
            /\ new[i] = "pending" => <<c, i>> \in Units(sent')
            /\ new[i] = "success" => <<c, i>> \in Units(succeeded)
  BY <1>1, <1>2, ReportsOne
<1>5. Batches!Report(c)
  BY <1>3, <1>4 DEF Batches!Report, Tells, Statuses, Units
<1>6. /\ {b \in Calls : Sequential(b)}' = {b \in Calls : Sequential(b)}
      /\ Units(succeeded)' = Units(succeeded)
  BY DEF Delivered, Calls, Sequential, Method, Units
<1>7. CASE sent' = sent
  <2>1. Units(sent)' = Units(sent)
    BY <1>7 DEF Units
  <2>2. Batches!Submit(c)
    BY <1>5, <1>6, <2>1 DEF Batches!Submit, Units
  <2>. QED  BY <1>3, <2>2 DEF Batches!BatchNext, Tells, Statuses
<1>8. CASE e.tx \notin sent /\ e.stage = "sendTransaction" /\ sent' = sent \cup {e.tx}
  <2>1. /\ <<c, Len(old) + 1>> \notin Units(sent)
        /\ Sequential(c) =>
              \A i \in DOMAIN old : <<c, i>> \in Units(succeeded) /\ old[i] # "failed"
        /\ Units(sent') = Units(sent) \cup {<<c, Len(old) + 1>>}
    BY <1>2, <1>8, AcceptsNext
  <2>2. Batches!Accept(c)
    BY <1>3, <2>1 DEF Batches!Accept, Tells, Statuses, Units
  <2>3. Batches!Submit(c)
    BY <1>5, <1>6, <2>2 DEF Batches!Submit, Units
  <2>. QED  BY <1>3, <2>3 DEF Batches!BatchNext, Tells, Statuses
<1>. QED  BY <1>7, <1>8 DEF Delivered

(* A transaction that a ledger includes takes effect in turn: the contract's *)
(* nonce lets a chunk pass only when the chunks before it did.               *)
LEMMA LedgerApplies ==
    ASSUME ClientInv, BatchInv, NEW t, Include(t)
    PROVE  BatchInv' /\ [Batches!BatchNext]_(Batches!batchVars)
<1>1. /\ t \in pool /\ pool' = pool \ {t} /\ UNCHANGED <<request, call, sent>>
  BY DEF Include, clientVars
<1>2. /\ t \in sent /\ t.call \in Calls /\ t.chunk \in Nat /\ t.chunk <= call[t.call].chunk
      /\ t \notin succeeded \cup reverted /\ call[t.call].chunk \in Nat
  BY <1>1 DEF ClientInv, Accepted, CallsSound, Sound, Progress, BatchInv, Transaction
<1>3. succeeded' \in {succeeded, succeeded \cup {t}} /\ reverted' \in {reverted, reverted \cup {t}}
  BY DEF Include
<1>4. pool' \cap (succeeded \cup reverted)' = {} /\ succeeded \subseteq succeeded'
  BY <1>1, <1>3 DEF BatchInv
<1>5. BatchInv'
  BY <1>1, <1>4, BatchRests
<1>6. /\ Tells' = Tells /\ Units(sent)' = Units(sent)
      /\ {b \in Calls : Sequential(b)}' = {b \in Calls : Sequential(b)}
  BY <1>1 DEF Tells, Units, Statuses, Calls, Sequential, Method
<1>7. CASE succeeded' = succeeded
  <2>1. Units(succeeded)' = Units(succeeded)
    BY <1>7 DEF Units
  <2>2. UNCHANGED Batches!batchVars
    BY <1>6, <2>1 DEF Batches!batchVars, Tells, Statuses, Units
  <2>. QED  BY <1>5, <2>2
<1>8. CASE succeeded' = succeeded \cup {t}
  <2>1. PICK c, i : c = t.call /\ i = t.chunk
    OBVIOUS
  <2>2. <<c, i>> \in Units(sent) /\ Units(succeeded)' = Units(succeeded) \cup {<<c, i>>}
    BY <1>2, <1>8, <2>1 DEF Units
  <2>3. <<c, i>> \notin Units(succeeded)
    <3>1. ASSUME NEW u \in succeeded, u.call = t.call, u.chunk = t.chunk
          PROVE  FALSE
      <4>1. u = t
        BY <1>2, <3>1 DEF ClientInv, Accepted
      <4>. QED  BY <1>2, <4>1
    <3>. QED  BY <2>1, <3>1 DEF Units
  <2>4. Sequential(c) => \A j \in 1 .. i - 1 : <<c, j>> \in Units(succeeded)
    BY <1>2, <2>1 DEF BatchInv
  <2>5. Batches!Apply(c, i)
    BY <1>6, <2>2, <2>3, <2>4 DEF Batches!Apply, Tells, Statuses, Units
  <2>6. Batches!BatchNext
    <3>1. <<c, i>>[1] = c /\ <<c, i>>[2] = i
      OBVIOUS
    <3>2. \E chunk \in Units(sent) : Batches!Apply(chunk[1], chunk[2])
      BY <2>2, <2>5, <3>1, Zenon
    <3>. QED  BY <3>2 DEF Batches!BatchNext, Units
  <2>. QED  BY <1>5, <2>6
<1>. QED  BY <1>3, <1>7, <1>8

LEMMA BatchesStep ==
    ASSUME ClientInv, BatchInv, [Next]_vars
    PROVE  BatchInv' /\ [Batches!BatchNext]_(Batches!batchVars)
<1>1. ASSUME UNCHANGED <<request, call, sent, succeeded>>,
             pool' \cap (succeeded \cup reverted)' = {}
      PROVE  BatchInv' /\ [Batches!BatchNext]_(Batches!batchVars)
  <2>1. BatchInv'
    BY <1>1, BatchRests
  <2>2. UNCHANGED Batches!batchVars
    BY <1>1 DEF Batches!batchVars, Calls, Sequential, Method
  <2>. QED  BY <2>1, <2>2
<1>2. ASSUME NEW c \in Calls, Start(c) \/ Answer(c) \/ Fault(c)
      PROVE  BatchInv' /\ [Batches!BatchNext]_(Batches!batchVars)
  <2>1. PICK e : e = call[c]
    OBVIOUS
  <2>2. PICK f : Steps(c, e, f, sent') /\ Delivered(e)
    BY <1>2, <2>1, CallMoves
  <2>. QED  BY <2>1, <2>2, BatchStays, CallSubmits
<1>3. CASE Ledger
  <2>1. PICK t : Include(t) \/ Expire(t)
    BY <1>3 DEF Ledger
  <2>2. CASE Expire(t)
    BY <1>1, <2>2 DEF Expire, clientVars, BatchInv
  <2>. QED  BY <2>1, <2>2, LedgerApplies
<1>4. CASE UNCHANGED <<clientVars, ledgerVars>>
  BY <1>1, <1>4 DEF clientVars, ledgerVars, BatchInv
<1>. QED  BY <1>2, <1>3, <1>4, Zenon
          DEF Next, Begin, Proceed, submitMutation, Disturb, Subscriber, Poll, Events, Cache, vars

(* retry.ts, batchFundCAddresses and waitForConfirmation together: whatever  *)
(* is lost or fails, a chunk is accepted once and takes effect once, one     *)
(* that carries a nonce only after every chunk before it took effect, and    *)
(* what a caller was told stands.                                            *)
THEOREM SdkSubmitsBatches == Spec => SubmitsBatches
<1>1. Init => BatchInv /\ Batches!BatchInit
  <2> SUFFICES ASSUME Init
               PROVE  BatchInv /\ Batches!BatchInit
    OBVIOUS
  <2>1. /\ call = [c \in Calls |-> NotStarted] /\ pool = {} /\ sent = {} /\ succeeded = {}
    BY DEF Init, ClientInit
  <2>2. \A c \in Calls : call[c].results = <<>> /\ call[c].chunk = 1
    BY <2>1 DEF NotStarted
  <2>3. BatchInv
    BY <2>1, <2>2 DEF BatchInv, Labelled
  <2>4. Statuses(<<>>) = <<>>
    BY DEF Statuses
  <2>5. Tells = [c \in DOMAIN Tells |-> <<>>]
    BY <2>2, <2>4 DEF Tells
  <2>6. Batches!BatchInit
    BY <2>1, <2>5 DEF Batches!BatchInit, Tells, Statuses
  <2>. QED  BY <2>3, <2>6
<1>2. ClientInv /\ BatchInv /\ [Next]_vars => BatchInv' /\ [Batches!BatchNext]_(Batches!batchVars)
  BY BatchesStep
<1>. QED  BY <1>1, <1>2, ClientInvariant, PTL DEF Spec, SubmitsBatches, Batches!BatchSpec
=============================================================================
