--------------------------- MODULE BridgeTimelock ---------------------------
(* Deposits held until a release time, and their claims. cliff_time is       *)
(* stored and checked against release_time, and read by no entry point: it   *)
(* is left out, a call that passes a bad one being a call that fails.        *)
EXTENDS BridgeFunding

FundCAddressTimelocked(source, target, asset, amount, release_time, opt) ==
    /\ CheckNotPaused
    /\ CheckDeadline(opt)
    /\ CheckAmount(amount)
    /\ release_time > ledger.timestamp
    /\ CheckAccess(target)
    /\ CheckAssetWhitelisted(asset)
    /\ WithinDailyLimit(source, asset, amount)
    /\ ConsumeNonce(source, opt)
    /\ Len(timelocks) < MaxTimelocks
    /\ balance[asset][source] >= amount
    /\ timelocks' = Append(timelocks,
                           [source |-> source, target |-> target, asset |-> asset,
                            amount |-> amount, release_time |-> release_time,
                            claimed |-> FALSE])
    /\ counters' = LockTimelock(counters, asset, amount)
    /\ CountersFit(counters')
    /\ usage' = AddDeposit(CountDaily(usage, source, asset, amount), source, asset, amount)
    /\ UsageFits(usage')
    /\ balance' = MintLoyalty(Transfer(balance, asset, source, Bridge, amount),
                              counters', source)
    /\ BalancesFit(balance')
    /\ UNCHANGED <<ledger, config, lists, fee_cap, reserve, commitments, relayers,
                   used_nonces, meta, published>>

(* The fee is the one in force at the claim; no access list applies.         *)
ClaimTimelocked(id) ==
    LET entry == timelocks[id]
        rate == FlatRate(entry.asset)
        fee == CalculateFee(entry.amount, rate)
        unlocked == LockTimelock(counters, entry.asset, -entry.amount)
    IN  /\ CheckRecoveryAllowed
        /\ ~entry.claimed
        /\ ledger.timestamp >= entry.release_time
        /\ FeeFits(entry.amount, rate)
        /\ timelocks' = [timelocks EXCEPT ![id].claimed = TRUE]
        /\ balance' = Transfer(balance, entry.asset, Bridge, entry.target, entry.amount - fee)
        /\ BalancesFit(balance')
        /\ counters' = AddFees(unlocked, entry.asset, fee, fee, entry.amount - fee)
        /\ CountersFit(unlocked) /\ CountersFit(counters')
        /\ published' = [published EXCEPT ![<<"timelock", id>>] = @ + 1]
        /\ UNCHANGED <<ledger, config, lists, fee_cap, reserve, usage, nonces, commitments,
                       relayers, used_nonces, meta>>

(* What the deposits not yet claimed add up to.                              *)
OutstandingAmount(asset) ==
    Total([i \in DOMAIN timelocks |->
              IF timelocks[i].asset = asset /\ ~timelocks[i].claimed
              THEN timelocks[i].amount ELSE 0])
=============================================================================
