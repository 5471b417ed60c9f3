----------------------------- MODULE SdkMethods -----------------------------
(* The methods of OnboardingBridgeSDK (sdk/src/bridge.ts) and of the cached  *)
(* ContractClient (sdk/src/cachedBridge.ts). Every mutation runs the same    *)
(* requests, every query another one: a method is the record of what it does *)
(* differently. An argument is named for the contract's parameter that it is *)
(* meant for.                                                                *)
EXTENDS ContractAbi

(* account: whose sequence number the transaction uses; checked: the inputs  *)
(* asserted before the first request; raw: inputs that are encoded whatever  *)
(* they hold. The conversion of any other malformed input throws.            *)
Submission(name, account, checked, fn, args) ==
    [name |-> name, account |-> account, checked |-> checked, fn |-> fn, args |-> args,
     requests |-> <<"getAccount", "prepareTransaction", "sendTransaction">>,
     raw |-> {}, needs |-> {}, waits |-> FALSE, splits |-> FALSE, cached |-> FALSE,
     query |-> FALSE, optional |-> FALSE]

Raw(method, inputs) == [method EXCEPT !.raw = inputs]

(* waitForContractReturnValue follows the submission.                        *)
AndWait(method) == [method EXCEPT !.waits = TRUE]

fundCAddress ==
    Submission("fundCAddress", "source", {"source", "target", "asset"},
               "fund_c_address", Funding \o Replay)

fundCAddressWithReferral ==
    Submission("fundCAddressWithReferral", "source", {"source", "target", "asset", "referrer"},
               "fund_c_address_with_referral",
               Funding \o Params("Option<Address>", <<"referrer">>) \o Replay)

commitFund ==
    Raw(Submission("commitFund", "source", {"source", "target", "asset"}, "commit_fund",
                   Addresses(<<"source", "target", "asset">>) \o Hash("amount_hash")
                   \o Params("u64", <<"deadline">>)),
        {"amount_hash"})

commitFundAndWait == AndWait(commitFund)

revealFund ==
    Submission("revealFund", "source", {"source", "target", "asset"}, "reveal_fund",
               Params("u64", <<"commitment_id">>) \o Funding \o Params("u64", <<"nonce">>))

fundCAddressTimelocked ==
    Submission("fundCAddressTimelocked", "source", {"source", "target", "asset"},
               "fund_c_address_timelocked",
               Funding \o Params("u64", <<"release_time", "cliff_time">>) \o Replay)

fundCAddressTimelockedAndWait == AndWait(fundCAddressTimelocked)

(* The callback that authorises the target is asked for after the            *)
(* transaction was prepared.                                                 *)
claimTimelocked ==
    [Submission("claimTimelocked", "signer", {}, "claim_timelocked", Params("u64", <<"id">>))
        EXCEPT !.needs = {"authorizeTarget"}]

fundCAddressWithSwap ==
    Submission("fundCAddressWithSwap", "source",
               {"source", "target", "source_asset", "target_asset", "swap_route"},
               "fund_c_address_with_swap",
               Addresses(<<"source", "target", "source_asset", "target_asset">>)
               \o Params("i128", <<"source_amount", "min_target_amount">>)
               \o Params("Vec<Address>", <<"swap_route">>) \o Replay)

batchFundCAddresses ==
    [Submission("batchFundCAddresses", "source", {"source", "lengths", "targets", "asset"},
                "batch_fund_c_address",
                Addresses(<<"source">>) \o Params("Vec<Address>", <<"targets">>)
                \o Params("Vec<i128>", <<"amounts">>) \o Addresses(<<"asset">>) \o Replay)
        EXCEPT !.splits = TRUE]

withdrawFees ==
    Submission("withdrawFees", "signer", {"asset"}, "withdraw_fees",
               Addresses(<<"asset">>) \o Params("i128", <<"amount">>) \o Nonce)

(* A slip: the destination is passed before the amount.                      *)
DestinationFirst ==
    Submission("reclaimTokens", "signer", {"asset", "destination"}, "reclaim_tokens",
               Addresses(<<"asset", "destination">>) \o Params("i128", <<"amount">>) \o Nonce)

reclaimTokens ==
    Submission("reclaimTokens", "signer", {"asset", "destination"}, "reclaim_tokens",
               Addresses(<<"asset">>) \o Params("i128", <<"amount">>)
               \o Addresses(<<"destination">>) \o Nonce)

setFee ==
    Submission("setFee", "signer", {"new_fee_bps"}, "set_fee_bps",
               Params("u32", <<"new_fee_bps">>) \o Nonce)

setReferralRate ==
    Submission("setReferralRate", "signer", {}, "set_referral_rate",
               Params("u32", <<"bps">>) \o Nonce)

setLoyaltyToken ==
    Submission("setLoyaltyToken", "signer", {"token"}, "set_loyalty_token",
               Addresses(<<"token">>) \o Params("i128", <<"amount_per_fund">>) \o Nonce)

setFeeTiers ==
    Submission("setFeeTiers", "signer", {}, "set_fee_tiers",
               Params("Vec<FeeTier>", <<"tiers">>) \o Nonce)

setFeeCollector ==
    Submission("setFeeCollector", "signer", {"new_fee_collector"}, "set_fee_collector",
               Addresses(<<"new_fee_collector">>) \o Nonce)

setAdmin ==
    Submission("setAdmin", "signer", {"new_admin"}, "set_admin",
               Addresses(<<"new_admin">>) \o Nonce)

proposeNewAdmin ==
    Submission("proposeNewAdmin", "signer", {"new_admin"}, "propose_new_admin",
               Addresses(<<"new_admin">>) \o Nonce)

acceptAdmin == Submission("acceptAdmin", "signer", {}, "accept_admin", <<>>)

proposeNewFeeCollector ==
    Submission("proposeNewFeeCollector", "signer", {"new_collector"},
               "propose_new_fee_collector", Addresses(<<"new_collector">>) \o Nonce)

acceptFeeCollector ==
    Submission("acceptFeeCollector", "signer", {}, "accept_fee_collector", <<>>)

upgrade ==
    Submission("upgrade", "signer", {"new_wasm_hash"}, "upgrade", Hash("new_wasm_hash") \o Nonce)

submitAdminWasmHashMutation(name, fn, parameter) ==
    Submission(name, "signer", {}, fn, Hash(parameter) \o Nonce)

scheduleUpgrade ==
    submitAdminWasmHashMutation("scheduleUpgrade", "schedule_upgrade", "new_wasm_hash")

scheduleUpgradeAndWait == AndWait(scheduleUpgrade)

executeUpgrade ==
    submitAdminWasmHashMutation("executeUpgrade", "execute_upgrade", "expected_hash")

cancelUpgrade == Submission("cancelUpgrade", "signer", {}, "cancel_upgrade", Nonce)

executeMetaFund ==
    Submission("executeMetaFund", "signer", {"params.source", "params.target", "params.asset"},
               "execute_meta_fund",
               Params("MetaFundParams", <<"params">>) \o Hash("pubkey")
               \o Params("BytesN<64>", <<"signature">>))

fundCrosschain ==
    Raw(Submission("fundCrosschain", "signer", {"sigs"}, "fund_c_address_crosschain",
                   Params("u32", <<"chain_id">>) \o Hash("tx_hash")
                   \o Addresses(<<"target", "asset">>) \o Params("i128", <<"amount">>)
                   \o Params("Vec<RelayerSig>", <<"sigs">>)),
        {"tx_hash"})

addRelayer ==
    Submission("addRelayer", "signer", {"pubkey"}, "add_relayer", Hash("pubkey") \o Nonce)

removeRelayer ==
    Submission("removeRelayer", "signer", {"pubkey"}, "remove_relayer", Hash("pubkey") \o Nonce)

setRelayerThreshold ==
    Submission("setRelayerThreshold", "signer", {}, "set_relayer_threshold",
               Params("u32", <<"threshold">>) \o Nonce)

(* The mutations of ContractClient, the cached client, which throw.          *)
Cached(method) ==
    [method EXCEPT !.cached = TRUE, !.requests = <<"getAccount">> \o @]

NoNonce == Params("void", <<"nonce">>)

cachedFundCAddress == Cached(fundCAddress)

cachedFundCAddressWithSwap == Cached(fundCAddressWithSwap)

cachedWithdrawFees == Cached(withdrawFees)

cachedSetFee ==
    Cached(Submission("setFee", "signer", {}, "set_fee_bps",
                      Params("u32", <<"new_fee_bps">>) \o NoNonce))

cachedSetFeeCollector ==
    Cached(Submission("setFeeCollector", "signer", {"new_fee_collector"}, "set_fee_collector",
                      Addresses(<<"new_fee_collector">>) \o NoNonce))

cachedSetAdmin ==
    Cached(Submission("setAdmin", "signer", {"new_admin"}, "set_admin",
                      Addresses(<<"new_admin">>) \o NoNonce))

cachedUpgrade == Cached(upgrade)

Mutations ==
    { fundCAddress, fundCAddressWithReferral, commitFund, commitFundAndWait, revealFund,
      fundCAddressTimelocked, fundCAddressTimelockedAndWait, claimTimelocked,
      fundCAddressWithSwap, batchFundCAddresses, withdrawFees, reclaimTokens, setFee,
      setReferralRate, setLoyaltyToken, setFeeTiers, setFeeCollector, setAdmin,
      proposeNewAdmin, acceptAdmin, proposeNewFeeCollector, acceptFeeCollector, upgrade,
      scheduleUpgrade, scheduleUpgradeAndWait, executeUpgrade, cancelUpgrade,
      executeMetaFund, fundCrosschain, addRelayer, removeRelayer, setRelayerThreshold,
      cachedFundCAddress, cachedFundCAddressWithSwap, cachedWithdrawFees, cachedSetFee,
      cachedSetFeeCollector, cachedSetAdmin, cachedUpgrade }

-----------------------------------------------------------------------------
(* A query simulates one contract call and decodes what it returns, or       *)
(* answers a default. It throws what an assertion, a request or the          *)
(* simulation reports.                                                       *)
Query(fn, checked, args) ==
    [Submission(fn, "signer", checked, fn, args)
        EXCEPT !.query = TRUE, !.requests = <<"simulateTransaction">>]

getFee == Query("query_fee_bps", {}, <<>>)

queryReferralRate == Query("query_referral_rate", {}, <<>>)

getFeeCollector == Query("query_fee_collector", {}, <<>>)

getAdmin == Query("query_admin", {}, <<>>)

getCAddressBalance ==
    Query("query_balance", {"c_address", "asset"}, Addresses(<<"c_address", "asset">>))

queryTimelocked == Query("query_timelocked", {}, Params("u64", <<"id">>))

queryCommitment == Query("query_commitment", {}, Params("u64", <<"id">>))

(* The contract's "not set" error is an answer, not an exception.            *)
queryLoyaltyToken == [Query("query_loyalty_token", {}, <<>>) EXCEPT !.optional = TRUE]

queryFeeTiers == Query("query_fee_tiers", {}, <<>>)

queryCurrentTier ==
    Query("query_current_tier", {"source", "asset"}, Addresses(<<"source", "asset">>))

getFeeBalance == Query("query_accrued_fees", {"asset"}, Addresses(<<"asset">>))

getContractBalance == Query("query_contract_balance", {"asset"}, Addresses(<<"asset">>))

getAllBalances ==
    Query("query_all_balances", {"assets"}, Params("Vec<Address>", <<"assets">>))

isInitialized == Query("query_is_initialized", {}, <<>>)

getPendingAdmin == Query("query_pending_admin", {}, <<>>)

getPendingFeeCollector == Query("query_pending_fee_collector", {}, <<>>)

queryPendingUpgrade == Query("query_pending_upgrade", {}, <<>>)

queryRelayerThreshold == Query("query_relayer_threshold", {}, <<>>)

queryIsRelayer == Raw(Query("query_is_relayer", {}, Hash("pubkey")), {"pubkey"})

getWhitelistedAssets ==
    Query("query_whitelisted_assets", {"limit"}, Params("u32", <<"offset", "limit">>))

isBlocked == Query("query_is_blocked", {"address"}, Addresses(<<"address">>))

isAllowlisted == Query("query_is_allowlisted", {"address"}, Addresses(<<"address">>))

getSubentryCount == <<"getLedgerEntries">>

estimateCost ==
    [Query("fund_c_address", {"source", "target", "asset"}, Funding \o Replay)
        EXCEPT !.requests = @ \o <<"getFeeStats">> \o getSubentryCount]

Queries ==
    { getFee, queryReferralRate, getFeeCollector, getAdmin, getCAddressBalance,
      queryTimelocked, queryCommitment, queryLoyaltyToken, queryFeeTiers, queryCurrentTier,
      getFeeBalance, getContractBalance, getAllBalances, isInitialized, getPendingAdmin,
      getPendingFeeCollector, queryPendingUpgrade, queryRelayerThreshold, queryIsRelayer,
      getWhitelistedAssets, isBlocked, isAllowlisted, estimateCost }

(* toScVals is given these methods' inputs encoded already. It takes an      *)
(* ScVal, which has a method "value", for a { value, type } pair, and cannot *)
(* convert that method.                                                      *)
EncodedTwice == { getWhitelistedAssets }

=============================================================================
