----------------------- MODULE OnboardingBridgeProofs -----------------------
(* Type correctness of the contract and the backing of what it owes, for     *)
(* every set of accounts, assets and amounts.                                *)
EXTENDS BridgeLemmas

(* The steps of the contract. Each keeps the types and the backing, and all  *)
(* but the transfers past the contract and reclaim_tokens keep the surplus.  *)
Backed == TypeOK' /\ (ReserveWhereFunded /\ RingFenced => RingFenced' /\ ReserveWhereFunded')

Kept == Backed /\ SurplusKept

(* fund_c_address.                                                           *)
LEMMA FundKeeps ==
    ASSUME TypeOK, NEW source \in Account, NEW target \in Account, NEW asset \in Asset,
           NEW amount \in Int, NEW opt, FundCAddress(source, target, asset, amount, opt)
    PROVE  Kept
<1>1. amount > 0
  BY DEF FundCAddress, CheckAmount
<1>2. /\ Deliver(source, target, asset, amount) /\ ConsumeNonce(source, opt)
      /\ usage' = AddVolume(CountDaily(usage, source, asset, amount), source, asset, amount)
      /\ UsageFits(usage') /\ UNCHANGED untouchedByFunding
  BY DEF FundCAddress
<1>3. /\ balance' \in [Asset -> [Holder -> 0..I128_MAX]]
      /\ counters' \in [Asset -> Counters]
      /\ ReserveWhereFunded /\ RingFenced => Covered(balance', counters', reserve)
      /\ SurplusLeft(counters', reserve)
  BY <1>1, <1>2, DeliverKeeps
<1>4. usage' \in [Account -> [Asset -> SourceUsage]]
  <2>1. UsageBook(usage)
    BY UsageTyped DEF TypeOK
  <2>2. UsageBook(CountDaily(usage, source, asset, amount))
    BY <2>1, UsageUpdates
  <2> QED
    BY <1>2, <2>2, UsageUpdates, UsageTyped
<1>5. nonces' \in [Account -> Nat]
  BY <1>2, NonceTyped DEF TypeOK
<1>6. TypeOK'
  BY <1>2, <1>3, <1>4, <1>5 DEF TypeOK, untouchedByFunding
<1> QED
  BY <1>2, <1>3, <1>6
  DEF Kept, Backed, SurplusKept, Covered, RingFenced, Owed, ReserveWhereFunded,
      untouchedByFunding

(* fund_c_address_with_referral: what is pulled is paid out, shared with the *)
(* referrer or kept as a fee.                                                *)
LEMMA ReferralKeeps ==
    ASSUME TypeOK, NEW source \in Account, NEW target \in Account,
           NEW referrer \in Account \cup {None}, NEW asset \in Asset, NEW amount \in Int,
           NEW opt, FundCAddressWithReferral(source, target, referrer, asset, amount, opt)
    PROVE  Kept
<1> DEFINE rate == TieredRate(source, asset)
           fee == CalculateFee(amount, rate)
           share == IF referrer = None THEN 0 ELSE CalculateFee(fee, config.referral_rate)
           pulled == Transfer(balance, asset, source, Bridge, amount)
           paid == Transfer(pulled, asset, Bridge, target, amount - fee)
           shared == IF share > 0 THEN Transfer(paid, asset, Bridge, referrer, share) ELSE paid
           counted == CountDaily(usage, source, asset, amount)
           deposited == AddDeposit(counted, source, asset, amount)
<1>1. /\ amount > 0 /\ ConsumeNonce(source, opt) /\ UsageFits(usage')
      /\ usage' = AddVolume(deposited, source, asset, amount)
      /\ counters' = AddFees(counters, asset, fee - share, fee, amount - fee)
      /\ balance' = MintLoyalty(shared, counters', source)
      /\ CountersFit(counters') /\ BalancesFit(balance')
      /\ UNCHANGED untouchedByFunding
  BY DEF FundCAddressWithReferral, CheckAmount
<1>2. fee \in 0..amount
  <2>1. rate \in 0..FEE_DENOMINATOR /\ amount \in Nat
    BY <1>1, RatesTyped
  <2> HIDE DEF rate
  <2> QED
    BY <2>1, FeeBounds
<1> HIDE DEF fee
<1>3. share \in 0..fee
  <2>1. config.referral_rate \in 0..FEE_DENOMINATOR /\ fee \in Nat
    BY <1>2 DEF TypeOK, Config
  <2>2. CalculateFee(fee, config.referral_rate) \in 0..fee
    BY <2>1, FeeBounds
  <2> QED
    BY <2>1, <2>2
<1>4. share > 0 => referrer \in Account
  OBVIOUS
<1> HIDE DEF share
<1>5. Book(pulled) /\ Book(paid)
  BY FundsTyped, TransferBook DEF Holder
<1>6. Book(shared)
  BY <1>4, <1>5, TransferBook DEF Holder
<1>7. /\ counters' \in [Asset -> Counters]
      /\ \A a \in Asset :
            /\ counters'[a].locked_timelock = counters[a].locked_timelock
            /\ counters'[a].accrued_fees = counters[a].accrued_fees
                                               + (IF a = asset THEN fee - share ELSE 0)
  <2>1. counters \in [Asset -> Counters] /\ fee - share \in Nat /\ fee \in Int
        /\ amount - fee \in Int
    BY <1>2, <1>3 DEF TypeOK
  <2> QED
    BY <1>1, <2>1, AddFeesEffect
<1>8. ASSUME NEW a \in Asset
      PROVE  /\ shared[a][Bridge] \in Int
             /\ shared[a][Bridge] - counters'[a].accrued_fees - counters'[a].locked_timelock
                    - reserve[a] = Reclaimable(a)
  <2>1. pulled[a][Bridge] = IF a = asset THEN balance[a][Bridge] + amount ELSE balance[a][Bridge]
    BY FundsTyped, TransferIn
  <2> HIDE DEF pulled
  <2>2. paid[a][Bridge] =
            IF a = asset THEN pulled[a][Bridge] - (amount - fee) ELSE pulled[a][Bridge]
    BY <1>5, TransferOut
  <2> HIDE DEF paid
  <2>3. share > 0 =>
            shared[a][Bridge] = IF a = asset THEN paid[a][Bridge] - share ELSE paid[a][Bridge]
    BY <1>4, <1>5, TransferOut
  <2>4. ~ (share > 0) => shared[a][Bridge] = paid[a][Bridge]
    OBVIOUS
  <2> HIDE DEF shared
  <2> QED
    BY <1>2, <1>3, <1>7, <2>1, <2>2, <2>3, <2>4, FundsTyped DEF Reclaimable
<1> HIDE DEF shared
<1>9. /\ balance' \in [Asset -> [Holder -> 0..I128_MAX]]
      /\ ReserveWhereFunded /\ RingFenced => Covered(balance', counters', reserve)
      /\ SurplusLeft(counters', reserve)
  <2>1. reserve \in [Asset -> 0..I128_MAX]
    BY DEF TypeOK
  <2> QED
    BY <1>1, <1>6, <1>7, <1>8, <2>1, SettleKeeps DEF ReserveWhereFunded
<1>10. usage' \in [Account -> [Asset -> SourceUsage]]
  <2>1. UsageBook(counted)
    BY UsageTyped, UsageUpdates DEF TypeOK
  <2> HIDE DEF counted
  <2>2. UsageBook(deposited)
    BY <2>1, UsageUpdates
  <2> HIDE DEF deposited
  <2> QED
    BY <1>1, <2>2, UsageUpdates, UsageTyped
<1>11. nonces' \in [Account -> Nat]
  BY <1>1, NonceTyped DEF TypeOK
<1>12. TypeOK'
  BY <1>1, <1>7, <1>9, <1>10, <1>11 DEF TypeOK, untouchedByFunding
<1> QED
  BY <1>1, <1>9, <1>12
  DEF Kept, Backed, SurplusKept, Covered, RingFenced, Owed, ReserveWhereFunded,
      untouchedByFunding

(* batch_fund_c_address: the fees are all the bridge keeps, refunds and      *)
(* payments being for others.                                                *)
LEMMA BatchKeeps ==
    ASSUME TypeOK, NEW source \in Account, NEW batch, NEW asset \in Asset, NEW opt,
           BatchFundCAddress(source, batch, asset, opt)
    PROVE  Kept
<1> DEFINE rate == TieredRate(source, asset)
           delivered == BatchDelivered(batch)
           fees == BatchFees(batch, rate)
           paid == [balance EXCEPT ![asset] =
                       [h \in Holder |->
                           @[h] + (IF h = Bridge THEN fees ELSE BatchReceived(batch, rate, h))
                                - (IF h = source THEN delivered ELSE 0)]]
           counted == CountDaily(usage, source, asset, delivered)
<1>1. /\ delivered \in Nat /\ fees \in Nat /\ ConsumeNonce(source, opt) /\ UsageFits(usage')
      /\ usage' = AddVolume(counted, source, asset, delivered)
      /\ counters' = AddFees(counters, asset, fees, fees, delivered - fees)
      /\ balance' \in {paid, MintLoyalty(paid, counters', source)}
      /\ CountersFit(counters') /\ BalancesFit(balance')
      /\ UNCHANGED untouchedByFunding
  BY FeeConstants DEF BatchFundCAddress, FeeConstants
<1> HIDE DEF rate, delivered, fees
<1>2. Book(paid)
  BY FundsTyped DEF Book
<1>3. \A a \in Asset : paid[a][Bridge] = balance[a][Bridge] + (IF a = asset THEN fees ELSE 0)
  BY <1>1, FundsTyped, StateConstants DEF Book, Holder, StateConstants
<1> HIDE DEF paid
<1>4. /\ counters' \in [Asset -> Counters]
      /\ \A a \in Asset :
            /\ counters'[a].locked_timelock = counters[a].locked_timelock
            /\ counters'[a].accrued_fees = counters[a].accrued_fees
                                               + (IF a = asset THEN fees ELSE 0)
  <2>1. counters \in [Asset -> Counters] /\ delivered - fees \in Int
    BY <1>1 DEF TypeOK
  <2> QED
    BY <1>1, <2>1, AddFeesEffect
<1>5. ASSUME NEW a \in Asset
      PROVE  /\ paid[a][Bridge] \in Int
             /\ paid[a][Bridge] - counters'[a].accrued_fees - counters'[a].locked_timelock
                    - reserve[a] = Reclaimable(a)
  BY <1>1, <1>3, <1>4, FundsTyped DEF Reclaimable
<1>6. /\ balance' \in [Asset -> [Holder -> 0..I128_MAX]]
      /\ ReserveWhereFunded /\ RingFenced => Covered(balance', counters', reserve)
      /\ SurplusLeft(counters', reserve)
  <2>1. reserve \in [Asset -> 0..I128_MAX]
    BY DEF TypeOK
  <2> QED
    BY <1>1, <1>2, <1>4, <1>5, <2>1, SettleKeeps DEF ReserveWhereFunded
<1>7. usage' \in [Account -> [Asset -> SourceUsage]]
  <2>1. UsageBook(counted)
    BY UsageTyped, UsageUpdates DEF TypeOK
  <2> HIDE DEF counted
  <2> QED
    BY <1>1, <2>1, UsageUpdates, UsageTyped
<1>8. nonces' \in [Account -> Nat]
  BY <1>1, NonceTyped DEF TypeOK
<1>9. TypeOK'
  BY <1>1, <1>4, <1>6, <1>7, <1>8 DEF TypeOK, untouchedByFunding
<1> QED
  BY <1>1, <1>6, <1>9
  DEF Kept, Backed, SurplusKept, Covered, RingFenced, Owed, ReserveWhereFunded,
      untouchedByFunding

(* fund_c_address_with_swap: the source asset passes through, of the target  *)
(* asset the fee is kept, whatever the pool pays.                            *)
LEMMA SwapKeeps ==
    ASSUME TypeOK, NEW source \in Account, NEW target \in Account,
           NEW source_asset \in Asset, NEW target_asset \in Asset, NEW source_amount \in Int,
           NEW min_target_amount \in Int, NEW pool \in Account, NEW received \in Int, NEW opt,
           FundCAddressWithSwap(source, target, source_asset, target_asset, source_amount,
                                min_target_amount, pool, received, opt)
    PROVE  Kept
<1> DEFINE rate == TieredRate(source, target_asset)
           fee == CalculateFee(received, rate)
           pulled == Transfer(balance, source_asset, source, Bridge, source_amount)
           pushed == Transfer(pulled, source_asset, Bridge, pool, source_amount)
           swapped == Transfer(pushed, target_asset, pool, Bridge, received)
           paid == Transfer(swapped, target_asset, Bridge, target, received - fee)
           counted == CountDaily(usage, source, source_asset, source_amount)
<1>1. /\ received > 0 /\ ConsumeNonce(source, opt) /\ UsageFits(usage')
      /\ usage' = AddVolume(counted, source, target_asset, received)
      /\ counters' = AddFees(counters, target_asset, fee, fee, received - fee)
      /\ balance' = MintLoyalty(paid, counters', source)
      /\ CountersFit(counters') /\ BalancesFit(balance')
      /\ UNCHANGED untouchedByFunding
  BY DEF FundCAddressWithSwap
<1>2. fee \in 0..received
  <2>1. rate \in 0..FEE_DENOMINATOR /\ received \in Nat
    BY <1>1, RatesTyped
  <2> HIDE DEF rate
  <2> QED
    BY <2>1, FeeBounds
<1> HIDE DEF fee
<1>3. Book(pulled) /\ Book(pushed)
  BY FundsTyped, TransferBook DEF Holder
<1>4. Book(swapped) /\ Book(paid)
  <2> HIDE DEF pushed
  <2> QED
    BY <1>3, TransferBook DEF Holder
<1>5. /\ counters' \in [Asset -> Counters]
      /\ \A a \in Asset :
            /\ counters'[a].locked_timelock = counters[a].locked_timelock
            /\ counters'[a].accrued_fees = counters[a].accrued_fees
                                               + (IF a = target_asset THEN fee ELSE 0)
  <2>1. counters \in [Asset -> Counters] /\ fee \in Nat /\ received - fee \in Int
    BY <1>2 DEF TypeOK
  <2> QED
    BY <1>1, <2>1, AddFeesEffect
<1>6. ASSUME NEW a \in Asset
      PROVE  /\ paid[a][Bridge] \in Int
             /\ paid[a][Bridge] - counters'[a].accrued_fees - counters'[a].locked_timelock
                    - reserve[a] = Reclaimable(a)
  <2>1. pulled[a][Bridge] =
            IF a = source_asset THEN balance[a][Bridge] + source_amount ELSE balance[a][Bridge]
    BY FundsTyped, TransferIn
  <2> HIDE DEF pulled
  <2>2. pushed[a][Bridge] =
            IF a = source_asset THEN pulled[a][Bridge] - source_amount ELSE pulled[a][Bridge]
    BY <1>3, TransferOut
  <2> HIDE DEF pushed
  <2>3. swapped[a][Bridge] =
            IF a = target_asset THEN pushed[a][Bridge] + received ELSE pushed[a][Bridge]
    BY <1>3, TransferIn
  <2> HIDE DEF swapped
  <2>4. paid[a][Bridge] =
            IF a = target_asset THEN swapped[a][Bridge] - (received - fee)
                                ELSE swapped[a][Bridge]
    BY <1>4, TransferOut
  <2> HIDE DEF paid
  <2>5. paid[a][Bridge] = balance[a][Bridge] + (IF a = target_asset THEN fee ELSE 0)
    BY <1>2, <2>1, <2>2, <2>3, <2>4, FundsTyped
  <2> QED
    BY <1>2, <1>5, <2>5, FundsTyped DEF Reclaimable
<1> HIDE DEF paid
<1>7. /\ balance' \in [Asset -> [Holder -> 0..I128_MAX]]
      /\ ReserveWhereFunded /\ RingFenced => Covered(balance', counters', reserve)
      /\ SurplusLeft(counters', reserve)
  <2>1. reserve \in [Asset -> 0..I128_MAX]
    BY DEF TypeOK
  <2> QED
    BY <1>1, <1>4, <1>5, <1>6, <2>1, SettleKeeps DEF ReserveWhereFunded
<1>8. usage' \in [Account -> [Asset -> SourceUsage]]
  <2>1. UsageBook(counted)
    BY UsageTyped, UsageUpdates DEF TypeOK
  <2> HIDE DEF counted
  <2> QED
    BY <1>1, <2>1, UsageUpdates, UsageTyped
<1>9. nonces' \in [Account -> Nat]
  BY <1>1, NonceTyped DEF TypeOK
<1>10. TypeOK'
  BY <1>1, <1>5, <1>7, <1>8, <1>9 DEF TypeOK, untouchedByFunding
<1> QED
  BY <1>1, <1>7, <1>10
  DEF Kept, Backed, SurplusKept, Covered, RingFenced, Owed, ReserveWhereFunded,
      untouchedByFunding

(* withdraw_fees takes no more than accrued, reclaim_tokens no more than is  *)
(* left over, and a stray transfer only adds.                                *)
LEMMA WithdrawFeesKeeps ==
    ASSUME TypeOK, NEW asset \in Asset, NEW amount \in Int, NEW opt,
           WithdrawFees(asset, amount, opt)
    PROVE  Kept
<1> DEFINE paid == Transfer(balance, asset, Bridge, config.fee_collector, amount)
<1>1. /\ amount > 0 /\ amount <= counters[asset].accrued_fees
      /\ ConsumeNonce(config.fee_collector, opt) /\ balance' = paid /\ BalancesFit(balance')
      /\ counters' = [counters EXCEPT ![asset].accrued_fees = @ - amount]
      /\ UNCHANGED <<usage, untouchedByFunding>>
  BY DEF WithdrawFees
<1>2. config.fee_collector \in Account
  BY DEF TypeOK, Config
<1>3. Book(paid)
  BY <1>2, FundsTyped, TransferBook DEF Holder
<1>4. counters[asset].accrued_fees - amount \in 0..I128_MAX
  BY <1>1, FeeConstants DEF TypeOK, Counters, FeeConstants
<1>5. counters' \in [Asset -> Counters]
  <2>1. counters \in [Asset -> Counters]
    BY DEF TypeOK
  <2>2. [counters[asset] EXCEPT !.accrued_fees = @ - amount] \in Counters
    BY <1>4, <2>1 DEF Counters
  <2> HIDE DEF Counters
  <2> QED
    BY <1>1, <2>1, <2>2
<1>6. ASSUME NEW a \in Asset
      PROVE  balance'[a][Bridge] - counters'[a].accrued_fees - counters'[a].locked_timelock
                 - reserve[a] = Reclaimable(a)
  <2>1. paid[a][Bridge] = IF a = asset THEN balance[a][Bridge] - amount ELSE balance[a][Bridge]
    BY <1>2, FundsTyped, TransferOut
  <2> HIDE DEF paid
  <2>2. /\ counters'[a].locked_timelock = counters[a].locked_timelock
        /\ counters'[a].accrued_fees =
               IF a = asset THEN counters[a].accrued_fees - amount ELSE counters[a].accrued_fees
    BY <1>1 DEF TypeOK, Counters
  <2> QED
    BY <1>1, <2>1, <2>2, FundsTyped DEF Reclaimable
<1>7. balance' \in [Asset -> [Holder -> 0..I128_MAX]]
  BY <1>1, <1>3, BookTyped
<1>8. TypeOK'
  BY <1>1, <1>2, <1>5, <1>7, NonceTyped DEF TypeOK, untouchedByFunding
<1>9. ASSUME RingFenced, NEW a \in Asset \ (LoyaltyTokens \cap ReserveAssets)
      PROVE  balance'[a][Bridge] >= Owed(a)'
  <2>1. /\ balance'[a][Bridge] \in Int /\ counters'[a].accrued_fees \in Int
        /\ counters'[a].locked_timelock \in Int
    BY <1>5, <1>7, FeeConstants DEF Counters, I128, FeeConstants, Holder
  <2> QED
    BY <1>1, <1>6, <1>9, <2>1, FundsTyped DEF RingFenced, Owed, Reclaimable, untouchedByFunding
<1> QED
  BY <1>1, <1>6, <1>8, <1>9
  DEF Kept, Backed, SurplusKept, SurplusLeft, RingFenced, ReserveWhereFunded, untouchedByFunding

(* reclaim_tokens keeps the invariant: its guard is exactly that the asset stays covered. *)
LEMMA ReclaimKeeps ==
    ASSUME TypeOK, NEW asset \in Asset, NEW amount \in Int, NEW destination \in Account, NEW opt,
           ReclaimTokens(asset, amount, destination, opt)
    PROVE  Backed
<1> DEFINE paid == Transfer(balance, asset, Bridge, destination, amount)
<1>1. /\ Reclaimable(asset) >= amount /\ ConsumeNonce(config.admin, opt)
      /\ balance' = paid /\ BalancesFit(balance')
      /\ UNCHANGED <<counters, usage, untouchedByFunding>>
  BY DEF ReclaimTokens
<1>2. Book(paid)
  BY FundsTyped, TransferBook DEF Holder
<1>3. balance' \in [Asset -> [Holder -> 0..I128_MAX]]
  BY <1>1, <1>2, BookTyped
<1>4. config.admin \in Account
  BY DEF TypeOK, Config
<1>5. TypeOK'
  BY <1>1, <1>3, <1>4, NonceTyped DEF TypeOK, untouchedByFunding
<1>6. ASSUME RingFenced, NEW a \in Asset \ (LoyaltyTokens \cap ReserveAssets)
      PROVE  balance'[a][Bridge] >= Owed(a)'
  <2>1. paid[a][Bridge] = IF a = asset THEN balance[a][Bridge] - amount ELSE balance[a][Bridge]
    BY FundsTyped, TransferOut
  <2> HIDE DEF paid
  <2> QED
    BY <1>1, <1>6, <2>1, FundsTyped DEF RingFenced, Owed, Reclaimable, untouchedByFunding
<1> QED
  BY <1>1, <1>5, <1>6 DEF Backed, RingFenced, ReserveWhereFunded, untouchedByFunding

(* A transfer past the contract only adds to what the bridge holds.          *)
LEMMA SendKeeps ==
    ASSUME TypeOK, NEW from \in Account, NEW asset \in Asset, NEW amount \in Int,
           SendToBridge(from, asset, amount)
    PROVE  Backed
<1> DEFINE paid == Transfer(balance, asset, from, Bridge, amount)
<1>1. /\ amount > 0 /\ balance' = paid /\ BalancesFit(balance')
      /\ UNCHANGED <<counters, usage, nonces, untouchedByFunding>>
  BY DEF SendToBridge
<1>2. Book(paid)
  BY FundsTyped, TransferBook DEF Holder
<1>3. balance' \in [Asset -> [Holder -> 0..I128_MAX]]
  BY <1>1, <1>2, BookTyped
<1>4. TypeOK'
  BY <1>1, <1>3 DEF TypeOK, untouchedByFunding
<1>5. ASSUME RingFenced, NEW a \in Asset \ (LoyaltyTokens \cap ReserveAssets)
      PROVE  balance'[a][Bridge] >= Owed(a)'
  <2>1. paid[a][Bridge] = IF a = asset THEN balance[a][Bridge] + amount ELSE balance[a][Bridge]
    BY FundsTyped, TransferIn
  <2> HIDE DEF paid
  <2> QED
    BY <1>1, <1>5, <2>1, FundsTyped DEF RingFenced, Owed, untouchedByFunding
<1> QED
  BY <1>1, <1>4, <1>5 DEF Backed, RingFenced, ReserveWhereFunded, untouchedByFunding

-----------------------------------------------------------------------------
(* fund_c_address_timelocked locks what it pulls.                            *)
LEMMA TimelockedKeeps ==
    ASSUME TypeOK, NEW source \in Account, NEW target \in Account, NEW asset \in Asset,
           NEW amount \in Int, NEW release_time \in Nat, NEW opt,
           FundCAddressTimelocked(source, target, asset, amount, release_time, opt)
    PROVE  Kept
<1> DEFINE pulled == Transfer(balance, asset, source, Bridge, amount)
           counted == CountDaily(usage, source, asset, amount)
           entry == [source |-> source, target |-> target, asset |-> asset, amount |-> amount,
                     release_time |-> release_time, claimed |-> FALSE]
           rest == <<ledger, config, lists, fee_cap, reserve, commitments, relayers,
                     used_nonces, meta, published>>
<1>1. /\ amount > 0 /\ balance[asset][source] >= amount /\ ConsumeNonce(source, opt)
      /\ timelocks' = Append(timelocks, entry)
      /\ counters' = LockTimelock(counters, asset, amount) /\ CountersFit(counters')
      /\ usage' = AddDeposit(counted, source, asset, amount) /\ UsageFits(usage')
      /\ balance' = MintLoyalty(pulled, counters', source) /\ BalancesFit(balance')
      /\ UNCHANGED rest
  BY DEF FundCAddressTimelocked, CheckAmount
<1>2. Book(pulled)
  BY FundsTyped, TransferBook DEF Holder
<1>3. /\ counters' \in [Asset -> Counters]
      /\ \A a \in Asset :
            /\ counters'[a].accrued_fees = counters[a].accrued_fees
            /\ counters'[a].locked_timelock = counters[a].locked_timelock
                                                  + (IF a = asset THEN amount ELSE 0)
  <2>1. counters \in [Asset -> Counters]
    BY DEF TypeOK
  <2> QED
    BY <1>1, <2>1, LockEffect
<1>4. ASSUME NEW a \in Asset
      PROVE  /\ pulled[a][Bridge] \in Int
             /\ pulled[a][Bridge] - counters'[a].accrued_fees - counters'[a].locked_timelock
                    - reserve[a] = Reclaimable(a)
  <2>1. pulled[a][Bridge] = IF a = asset THEN balance[a][Bridge] + amount ELSE balance[a][Bridge]
    BY FundsTyped, TransferIn
  <2> HIDE DEF pulled
  <2> QED
    BY <1>3, <2>1, FundsTyped DEF Reclaimable
<1> HIDE DEF pulled
<1>5. /\ balance' \in [Asset -> [Holder -> 0..I128_MAX]]
      /\ ReserveWhereFunded /\ RingFenced => Covered(balance', counters', reserve)
      /\ SurplusLeft(counters', reserve)
  <2>1. reserve \in [Asset -> 0..I128_MAX]
    BY DEF TypeOK
  <2>2. /\ balance' \in {pulled, MintLoyalty(pulled, counters', source)}
        /\ BalancesFit(balance')
    BY <1>1
  <2> QED
    BY <1>2, <1>3, <1>4, <2>1, <2>2, SettleKeeps DEF ReserveWhereFunded
<1>6. usage' \in [Account -> [Asset -> SourceUsage]]
  <2>1. UsageBook(counted)
    BY UsageTyped, UsageUpdates DEF TypeOK
  <2> HIDE DEF counted
  <2> QED
    BY <1>1, <2>1, UsageUpdates, UsageTyped
<1>7. timelocks' \in Seq(TimelockEntry)
  <2>1. amount \in 1..I128_MAX
    <3>1. balance[asset][source] \in 0..I128_MAX
      BY DEF TypeOK, Holder
    <3> QED
      BY <1>1, <3>1, FeeConstants DEF FeeConstants
  <2>2. entry \in TimelockEntry
    BY <2>1 DEF TimelockEntry
  <2> HIDE DEF entry
  <2> QED
    BY <1>1, <2>2 DEF TypeOK
<1>8. nonces' \in [Account -> Nat]
  BY <1>1, NonceTyped DEF TypeOK
<1>9. TypeOK'
  BY <1>1, <1>3, <1>5, <1>6, <1>7, <1>8 DEF TypeOK
<1> QED
  BY <1>1, <1>5, <1>9
  DEF Kept, Backed, SurplusKept, Covered, RingFenced, Owed, ReserveWhereFunded

(* claim_timelocked unlocks what it pays and the fee it keeps.               *)
LEMMA ClaimKeeps ==
    ASSUME TypeOK, NEW id \in DOMAIN timelocks, ClaimTimelocked(id)
    PROVE  Kept
<1> DEFINE entry == timelocks[id]
           asset == entry.asset
           amount == entry.amount
           rate == FlatRate(asset)
           fee == CalculateFee(amount, rate)
           unlocked == LockTimelock(counters, asset, -amount)
           paid == Transfer(balance, asset, Bridge, entry.target, amount - fee)
           rest == <<ledger, config, lists, fee_cap, reserve, usage, nonces, commitments,
                     relayers, used_nonces, meta>>
<1>1. /\ timelocks' = [timelocks EXCEPT ![id].claimed = TRUE]
      /\ balance' = paid /\ BalancesFit(balance')
      /\ counters' = AddFees(unlocked, asset, fee, fee, amount - fee)
      /\ CountersFit(unlocked) /\ CountersFit(counters')
      /\ published' = [published EXCEPT ![<<"timelock", id>>] = @ + 1]
      /\ UNCHANGED rest
  BY DEF ClaimTimelocked
<1>2. entry \in TimelockEntry
  BY DEF TypeOK
<1>3. asset \in Asset /\ amount \in 1..I128_MAX /\ entry.target \in Account
  BY <1>2 DEF TimelockEntry
<1>4. timelocks' \in Seq(TimelockEntry)
  <2>1. [entry EXCEPT !.claimed = TRUE] \in TimelockEntry
    BY <1>2 DEF TimelockEntry
  <2>2. timelocks' = [timelocks EXCEPT ![id] = [entry EXCEPT !.claimed = TRUE]]
    BY <1>1
  <2> HIDE DEF entry
  <2> QED
    BY <2>1, <2>2 DEF TypeOK
<1> HIDE DEF entry, asset, amount
<1>5. fee \in 0..amount
  <2>1. amount \in Nat
    BY <1>3, FeeConstants DEF FeeConstants
  <2>2. rate \in 0..FEE_DENOMINATOR
    BY <1>3, <1>2, RatesTyped DEF TimelockEntry
  <2> HIDE DEF rate
  <2> QED
    BY <2>1, <2>2, FeeBounds
<1> HIDE DEF fee
<1>6. /\ unlocked \in [Asset -> Counters]
      /\ \A a \in Asset :
            /\ unlocked[a].accrued_fees = counters[a].accrued_fees
            /\ unlocked[a].locked_timelock = counters[a].locked_timelock
                                                 + (IF a = asset THEN -amount ELSE 0)
  <2>1. counters \in [Asset -> Counters] /\ -amount \in Int
    BY <1>3, FeeConstants DEF TypeOK, FeeConstants
  <2> QED
    BY <1>1, <1>3, <2>1, LockEffect
<1> HIDE DEF unlocked
<1>7. /\ counters' \in [Asset -> Counters]
      /\ \A a \in Asset :
            /\ counters'[a].locked_timelock = unlocked[a].locked_timelock
            /\ counters'[a].accrued_fees = unlocked[a].accrued_fees
                                               + (IF a = asset THEN fee ELSE 0)
  <2>1. fee \in Nat /\ amount - fee \in Int
    BY <1>3, <1>5, FeeConstants DEF FeeConstants
  <2> QED
    BY <1>1, <1>3, <1>6, <2>1, AddFeesEffect
<1>8. Book(paid)
  BY <1>3, FundsTyped, TransferBook DEF Holder
<1>9. ASSUME NEW a \in Asset
      PROVE  /\ paid[a][Bridge] \in Int
             /\ paid[a][Bridge] - counters'[a].accrued_fees - counters'[a].locked_timelock
                    - reserve[a] = Reclaimable(a)
  <2>1. paid[a][Bridge] =
            IF a = asset THEN balance[a][Bridge] - (amount - fee) ELSE balance[a][Bridge]
    BY <1>3, FundsTyped, TransferOut
  <2> HIDE DEF paid
  <2>2. amount \in Int /\ fee \in Int
    BY <1>3, <1>5, FeeConstants DEF FeeConstants
  <2> QED
    BY <1>6, <1>7, <2>1, <2>2, FundsTyped DEF Reclaimable
<1> HIDE DEF paid
<1>10. /\ balance' \in [Asset -> [Holder -> 0..I128_MAX]]
       /\ ReserveWhereFunded /\ RingFenced => Covered(balance', counters', reserve)
       /\ SurplusLeft(counters', reserve)
  <2>1. reserve \in [Asset -> 0..I128_MAX]
    BY DEF TypeOK
  <2>2. /\ balance' \in {paid, MintLoyalty(paid, counters', entry.target)}
        /\ BalancesFit(balance')
    BY <1>1
  <2> QED
    BY <1>3, <1>7, <1>8, <1>9, <2>1, <2>2, SettleKeeps DEF ReserveWhereFunded
<1>11. published' \in [Payout -> Nat]
  BY <1>1, PublishedTyped DEF TypeOK
<1>12. TypeOK'
  BY <1>1, <1>4, <1>7, <1>10, <1>11 DEF TypeOK
<1> QED
  BY <1>1, <1>10, <1>12
  DEF Kept, Backed, SurplusKept, Covered, RingFenced, Owed, ReserveWhereFunded

-----------------------------------------------------------------------------
(* The cross-chain reserve is funded, withdrawn and paid out unit for unit.  *)
LEMMA FundReserveKeeps ==
    ASSUME TypeOK, NEW asset \in ReserveAssets, NEW amount \in Int,
           FundCrosschainReserve(asset, amount)
    PROVE  Kept
<1> DEFINE paid == Transfer(balance, asset, config.admin, Bridge, amount)
           rest == <<counters, nonces, relayers, used_nonces, published, untouchedByCrossChain>>
<1>1. /\ amount > 0 /\ balance' = paid /\ BalancesFit(balance')
      /\ reserve' = [reserve EXCEPT ![asset] = @ + amount] /\ reserve'[asset] <= I128_MAX
      /\ UNCHANGED rest
  BY DEF FundCrosschainReserve
<1>2. config.admin \in Account /\ asset \in Asset
  BY StateConstants DEF TypeOK, Config, StateConstants
<1>3. reserve' \in [Asset -> 0..I128_MAX]
  <2>1. reserve \in [Asset -> 0..I128_MAX]
    BY DEF TypeOK
  <2>2. reserve[asset] + amount \in 0..I128_MAX
    BY <1>1, <1>2, <2>1, FeeConstants DEF FeeConstants
  <2> QED
    BY <1>1, <2>1, <2>2
<1>4. Book(paid)
  BY <1>2, FundsTyped, TransferBook DEF Holder
<1>5. balance' \in [Asset -> [Holder -> 0..I128_MAX]]
  BY <1>1, <1>4, BookTyped
<1>6. TypeOK'
  BY <1>1, <1>3, <1>5 DEF TypeOK, untouchedByCrossChain
<1>7. ASSUME NEW a \in Asset
      PROVE  /\ balance'[a][Bridge] - reserve'[a] = balance[a][Bridge] - reserve[a]
             /\ balance'[a][Bridge] \in Int /\ reserve'[a] \in Int
  <2>1. paid[a][Bridge] = IF a = asset THEN balance[a][Bridge] + amount ELSE balance[a][Bridge]
    BY <1>2, FundsTyped, TransferIn
  <2>2. reserve'[a] = IF a = asset THEN reserve[a] + amount ELSE reserve[a]
    BY <1>1 DEF TypeOK
  <2> HIDE DEF paid
  <2> QED
    BY <1>1, <2>1, <2>2, FundsTyped
<1>8. ASSUME RingFenced, NEW a \in Asset \ (LoyaltyTokens \cap ReserveAssets)
      PROVE  balance'[a][Bridge] >= Owed(a)'
  <2>1. /\ balance[a][Bridge] >=
               counters[a].accrued_fees + counters[a].locked_timelock + reserve[a]
        /\ counters'[a] = counters[a]
    BY <1>1, <1>8 DEF RingFenced, Owed
  <2> QED
    BY <1>7, <2>1, FundsTyped DEF Owed
<1>9. SurplusKept
  <2> SUFFICES ASSUME NEW a \in Asset
               PROVE  balance'[a][Bridge] - counters'[a].accrued_fees
                          - counters'[a].locked_timelock - reserve'[a] = Reclaimable(a)
    BY DEF SurplusKept, SurplusLeft
  <2>1. counters'[a] = counters[a]
    BY <1>1
  <2> QED
    BY <1>7, <2>1, FundsTyped DEF Reclaimable
<1>10. ReserveWhereFunded => ReserveWhereFunded'
  BY <1>1 DEF ReserveWhereFunded, TypeOK
<1> QED
  BY <1>6, <1>8, <1>9, <1>10 DEF Kept, Backed, RingFenced

(* withdraw_crosschain_reserve.                                              *)
LEMMA WithdrawReserveKeeps ==
    ASSUME TypeOK, NEW asset \in ReserveAssets, NEW amount \in Int,
           WithdrawCrosschainReserve(asset, amount)
    PROVE  Kept
<1> DEFINE paid == Transfer(balance, asset, Bridge, config.admin, amount)
           rest == <<counters, nonces, relayers, used_nonces, published, untouchedByCrossChain>>
<1>1. /\ amount > 0 /\ amount <= reserve[asset] /\ balance' = paid /\ BalancesFit(balance')
      /\ reserve' = [reserve EXCEPT ![asset] = @ - amount]
      /\ UNCHANGED rest
  BY DEF WithdrawCrosschainReserve, DebitReserve
<1>2. config.admin \in Account /\ asset \in Asset
  BY StateConstants DEF TypeOK, Config, StateConstants
<1>3. reserve' \in [Asset -> 0..I128_MAX]
  <2>1. reserve \in [Asset -> 0..I128_MAX]
    BY DEF TypeOK
  <2>2. reserve[asset] - amount \in 0..I128_MAX
    BY <1>1, <1>2, <2>1, FeeConstants DEF FeeConstants
  <2> QED
    BY <1>1, <2>1, <2>2
<1>4. Book(paid)
  BY <1>2, FundsTyped, TransferBook DEF Holder
<1>5. balance' \in [Asset -> [Holder -> 0..I128_MAX]]
  BY <1>1, <1>4, BookTyped
<1>6. TypeOK'
  BY <1>1, <1>3, <1>5 DEF TypeOK, untouchedByCrossChain
<1>7. ASSUME NEW a \in Asset
      PROVE  /\ balance'[a][Bridge] - reserve'[a] = balance[a][Bridge] - reserve[a]
             /\ balance'[a][Bridge] \in Int /\ reserve'[a] \in Int
  <2>1. paid[a][Bridge] = IF a = asset THEN balance[a][Bridge] - amount ELSE balance[a][Bridge]
    BY <1>2, FundsTyped, TransferOut
  <2>2. reserve'[a] = IF a = asset THEN reserve[a] - amount ELSE reserve[a]
    BY <1>1 DEF TypeOK
  <2> HIDE DEF paid
  <2> QED
    BY <1>1, <2>1, <2>2, FundsTyped
<1>8. ASSUME RingFenced, NEW a \in Asset \ (LoyaltyTokens \cap ReserveAssets)
      PROVE  balance'[a][Bridge] >= Owed(a)'
  <2>1. /\ balance[a][Bridge] >=
               counters[a].accrued_fees + counters[a].locked_timelock + reserve[a]
        /\ counters'[a] = counters[a]
    BY <1>1, <1>8 DEF RingFenced, Owed
  <2> QED
    BY <1>7, <2>1, FundsTyped DEF Owed
<1>9. SurplusKept
  <2> SUFFICES ASSUME NEW a \in Asset
               PROVE  balance'[a][Bridge] - counters'[a].accrued_fees
                          - counters'[a].locked_timelock - reserve'[a] = Reclaimable(a)
    BY DEF SurplusKept, SurplusLeft
  <2>1. counters'[a] = counters[a]
    BY <1>1
  <2> QED
    BY <1>7, <2>1, FundsTyped DEF Reclaimable
<1>10. ReserveWhereFunded => ReserveWhereFunded'
  BY <1>1 DEF ReserveWhereFunded, TypeOK
<1> QED
  BY <1>6, <1>8, <1>9, <1>10 DEF Kept, Backed, RingFenced

(* fund_c_address_crosschain debits the reserve by exactly what it pays.     *)
LEMMA CrosschainKeeps ==
    ASSUME TypeOK, NEW tx \in CrossTx, NEW target \in Account, NEW asset \in Asset,
           NEW amount \in Int, NEW signers, FundCAddressCrosschain(tx, target, asset, amount, signers)
    PROVE  Kept
<1> DEFINE rate == FlatRate(asset)
           fee == CalculateFee(amount, rate)
           net == amount - fee
           paid == Transfer(balance, asset, Bridge, target, net)
           rest == <<nonces, relayers, untouchedByCrossChain>>
<1>1. /\ amount > 0 /\ net <= reserve[asset]
      /\ reserve' = [reserve EXCEPT ![asset] = @ - net]
      /\ used_nonces' = used_nonces \cup {tx}
      /\ counters' = AddFees(counters, asset, 0, 0, net) /\ CountersFit(counters')
      /\ balance' = MintLoyalty(paid, counters', target) /\ BalancesFit(balance')
      /\ published' = [published EXCEPT ![<<"crosschain", tx>>] = @ + 1]
      /\ UNCHANGED rest
  BY DEF FundCAddressCrosschain, CheckAmount, DebitReserve, MarkNonceUsed
<1>2. net \in Nat
  <2>1. rate \in 0..FEE_DENOMINATOR /\ amount \in Nat
    BY <1>1, RatesTyped
  <2> HIDE DEF rate
  <2>2. fee \in 0..amount
    BY <2>1, FeeBounds
  <2> HIDE DEF fee
  <2> QED
    BY <2>1, <2>2
<1> HIDE DEF net
<1>3. /\ reserve' \in [Asset -> 0..I128_MAX]
      /\ \A a \in Asset : reserve'[a] = IF a = asset THEN reserve[a] - net ELSE reserve[a]
  <2>1. reserve \in [Asset -> 0..I128_MAX]
    BY DEF TypeOK
  <2>2. reserve[asset] - net \in 0..I128_MAX
    BY <1>1, <1>2, <2>1, FeeConstants DEF FeeConstants
  <2> QED
    BY <1>1, <2>1, <2>2
<1>4. /\ counters' \in [Asset -> Counters]
      /\ \A a \in Asset : /\ counters'[a].locked_timelock = counters[a].locked_timelock
                          /\ counters'[a].accrued_fees = counters[a].accrued_fees
  <2>1. counters \in [Asset -> Counters] /\ net \in Int /\ 0 \in Nat
    BY <1>2 DEF TypeOK
  <2>2. /\ counters' \in [Asset -> Counters]
        /\ \A a \in Asset : /\ counters'[a].locked_timelock = counters[a].locked_timelock
                            /\ counters'[a].accrued_fees = counters[a].accrued_fees
                                                              + (IF a = asset THEN 0 ELSE 0)
    BY <1>1, <2>1, AddFeesEffect
  <2> QED
    BY <2>2, FundsTyped
<1>5. Book(paid)
  BY FundsTyped, TransferBook DEF Holder
<1>6. ASSUME NEW a \in Asset
      PROVE  /\ paid[a][Bridge] \in Int
             /\ paid[a][Bridge] - counters'[a].accrued_fees - counters'[a].locked_timelock
                    - reserve'[a] = Reclaimable(a)
  <2>1. paid[a][Bridge] = IF a = asset THEN balance[a][Bridge] - net ELSE balance[a][Bridge]
    BY FundsTyped, TransferOut
  <2> HIDE DEF paid
  <2>2. reserve'[a] = IF a = asset THEN reserve[a] - net ELSE reserve[a]
    BY <1>3
  <2>3. /\ balance[a][Bridge] \in Int /\ reserve[a] \in Int
        /\ counters[a].accrued_fees \in Int /\ counters[a].locked_timelock \in Int
    BY FundsTyped
  <2> QED
    BY <1>2, <1>4, <2>1, <2>2, <2>3 DEF Reclaimable
<1> HIDE DEF paid
<1>7. \A a \in Asset \ ReserveAssets : reserve[a] = 0 => reserve'[a] = 0
  BY <1>1, <1>2, <1>3, FundsTyped
<1>8. /\ balance' \in [Asset -> [Holder -> 0..I128_MAX]]
      /\ ReserveWhereFunded /\ RingFenced => Covered(balance', counters', reserve')
      /\ SurplusLeft(counters', reserve')
  <2>1. /\ balance' \in {paid, MintLoyalty(paid, counters', target)}
        /\ BalancesFit(balance')
    BY <1>1
  <2> QED
    <3> HIDE DEF rest
    <3>1. ReserveWhereFunded => \A a \in Asset \ ReserveAssets : reserve'[a] = 0
      BY <1>7 DEF ReserveWhereFunded
    <3> QED
      BY <1>3, <1>4, <1>5, <1>6, <2>1, <3>1, SettleKeeps
<1>9. published' \in [Payout -> Nat]
  BY <1>1, PublishedTyped DEF TypeOK
<1>10. TypeOK'
  BY <1>1, <1>3, <1>4, <1>8, <1>9 DEF TypeOK, untouchedByCrossChain
<1> QED
  BY <1>1, <1>7, <1>8, <1>10
  DEF Kept, Backed, SurplusKept, Covered, RingFenced, Owed, ReserveWhereFunded

-----------------------------------------------------------------------------
(* Calls that move no tokens.                                                *)
LEMMA StillKeeps ==
    ASSUME UNCHANGED fundVars, TypeOK'
    PROVE  Kept
  BY DEF fundVars, Kept, Backed, SurplusKept, SurplusLeft, Reclaimable, RingFenced, Owed,
         ReserveWhereFunded

(* A change of the registry that keeps its shape.                            *)
LEMMA RelayersKeep ==
    ASSUME TypeOK, NEW opt, ConsumeNonce(config.admin, opt),
           relayers' \in [keys : SUBSET RelayerKey, threshold : Nat \ {0}],
           UNCHANGED <<fundVars, used_nonces, published, untouchedByCrossChain>>
    PROVE  Kept
<1>1. nonces' \in [Account -> Nat]
  BY NonceTyped DEF TypeOK, Config
<1>2. TypeOK'
  BY <1>1 DEF TypeOK, fundVars, untouchedByCrossChain
<1> QED
  BY <1>2, StillKeeps

(* add_relayer, remove_relayer and set_relayer_threshold keep a positive     *)
(* threshold.                                                                *)
LEMMA RegistryKeeps ==
    ASSUME TypeOK, NEW opt, NEW key \in RelayerKey,
           AddRelayer(key, opt) \/ RemoveRelayer(key, opt)
    PROVE  Kept
<1>1. relayers \in [keys : SUBSET RelayerKey, threshold : Nat \ {0}]
  BY DEF TypeOK
<1>2. CASE AddRelayer(key, opt)
  BY <1>1, <1>2, RelayersKeep DEF AddRelayer
<1>3. CASE RemoveRelayer(key, opt)
  BY <1>1, <1>3, RelayersKeep DEF RemoveRelayer
<1> QED
  BY <1>2, <1>3

(* set_relayer_threshold keeps the types: the new threshold is at least one. *)
LEMMA ThresholdKeeps ==
    ASSUME TypeOK, NEW opt, NEW n, SetRelayerThreshold(n, opt)
    PROVE  Kept
<1>1. relayers \in [keys : SUBSET RelayerKey, threshold : Nat \ {0}]
  BY DEF TypeOK
<1>2. n \in Nat \ {0} /\ relayers' = [relayers EXCEPT !.threshold = n]
  BY DEF SetRelayerThreshold
<1> QED
  BY <1>1, <1>2, RelayersKeep DEF SetRelayerThreshold

(* commit_fund and cancel_commitment.                                        *)
LEMMA CommitKeeps ==
    ASSUME TypeOK, NEW source \in Account, NEW target \in Account, NEW asset \in Asset,
           NEW amount_hash \in Int, NEW deadline \in Nat,
           CommitFund(source, target, asset, amount_hash, deadline)
    PROVE  Kept
<1> DEFINE entry == [source |-> source, target |-> target, asset |-> asset,
                     amount_hash |-> amount_hash, deadline |-> deadline,
                     committed_at_ledger |-> ledger.sequence, revealed |-> FALSE]
           Entries == CommitmentEntry \cup {None}
           rest == <<balance, counters, usage, nonces, meta, published, untouchedBySigned>>
<1>1. commitments' = Append(commitments, entry) /\ UNCHANGED rest
  BY DEF CommitFund
<1>2. entry \in Entries
  BY DEF TypeOK, CommitmentEntry
<1>3. commitments \in Seq(Entries)
  BY DEF TypeOK
<1>4. commitments' \in Seq(Entries)
  <2> HIDE DEF entry, Entries
  <2> QED
    BY <1>1, <1>2, <1>3
<1>5. TypeOK'
  BY <1>1, <1>4 DEF TypeOK, untouchedBySigned
<1> QED
  BY <1>1, <1>5, StillKeeps DEF fundVars, untouchedBySigned

(* cancel_commitment removes an entry and moves no token.                    *)
LEMMA CancelKeeps ==
    ASSUME TypeOK, NEW id \in DOMAIN commitments, CancelCommitment(id)
    PROVE  Kept
<1> DEFINE Entries == CommitmentEntry \cup {None}
           rest == <<balance, counters, usage, nonces, meta, published, untouchedBySigned>>
<1>1. commitments' = [commitments EXCEPT ![id] = None] /\ UNCHANGED rest
  BY DEF CancelCommitment
<1>2. commitments \in Seq(Entries) /\ None \in Entries
  BY DEF TypeOK
<1>3. commitments' \in Seq(Entries)
  <2> HIDE DEF Entries
  <2> QED
    BY <1>1, <1>2
<1>4. TypeOK'
  BY <1>1, <1>3 DEF TypeOK, untouchedBySigned
<1> QED
  BY <1>1, <1>4, StillKeeps DEF fundVars, untouchedBySigned

(* reveal_fund.                                                              *)
LEMMA RevealKeeps ==
    ASSUME TypeOK, NEW id \in DOMAIN commitments, NEW amount \in Int, RevealFund(id, amount)
    PROVE  Kept
<1> DEFINE Entries == CommitmentEntry \cup {None}
           entry == commitments[id]
           source == entry.source
           asset == entry.asset
           counted == CountDaily(usage, source, asset, amount)
           rest == <<nonces, meta, untouchedBySigned>>
<1>1. /\ entry # None /\ amount > 0 /\ Deliver(source, entry.target, asset, amount)
      /\ commitments' = [commitments EXCEPT ![id].revealed = TRUE]
      /\ usage' = AddVolume(counted, source, asset, amount) /\ UsageFits(usage')
      /\ published' = [published EXCEPT ![<<"commitment", id>>] = @ + 1]
      /\ UNCHANGED rest
  BY DEF RevealFund, CheckAmount
<1>2. commitments \in Seq(Entries)
  BY DEF TypeOK
<1>3. entry \in CommitmentEntry
  <2>1. entry \in Entries
    <3> HIDE DEF Entries
    <3> QED
      BY <1>2
  <2> QED
    BY <1>1, <2>1
<1>4. source \in Account /\ entry.target \in Account /\ asset \in Asset
  BY <1>3 DEF CommitmentEntry
<1>5. commitments' \in Seq(Entries)
  <2>1. [entry EXCEPT !.revealed = TRUE] \in Entries
    BY <1>3 DEF CommitmentEntry
  <2>2. commitments' = [commitments EXCEPT ![id] = [entry EXCEPT !.revealed = TRUE]]
    BY <1>1
  <2> HIDE DEF Entries, entry
  <2> QED
    BY <1>2, <2>1, <2>2
<1> HIDE DEF entry, source, asset
<1>6. /\ balance' \in [Asset -> [Holder -> 0..I128_MAX]]
      /\ counters' \in [Asset -> Counters]
      /\ ReserveWhereFunded /\ RingFenced => Covered(balance', counters', reserve)
      /\ SurplusLeft(counters', reserve)
  BY <1>1, <1>4, DeliverKeeps
<1>7. usage' \in [Account -> [Asset -> SourceUsage]]
  <2>1. UsageBook(counted)
    BY <1>4, UsageTyped, UsageUpdates DEF TypeOK
  <2> HIDE DEF counted
  <2> QED
    BY <1>1, <1>4, <2>1, UsageUpdates, UsageTyped
<1>8. published' \in [Payout -> Nat]
  BY <1>1, PublishedTyped DEF TypeOK
<1>9. TypeOK'
  BY <1>1, <1>5, <1>6, <1>7, <1>8 DEF TypeOK, untouchedBySigned
<1> QED
  BY <1>1, <1>6, <1>9
  DEF Kept, Backed, SurplusKept, Covered, RingFenced, Owed, ReserveWhereFunded, untouchedBySigned

(* register_meta_signer and unregister_meta_signer.                          *)
LEMMA SignerKeeps ==
    ASSUME TypeOK, NEW source \in Account,
           RegisterMetaSigner(source) \/ UnregisterMetaSigner(source)
    PROVE  Kept
<1> DEFINE rest == <<balance, counters, usage, nonces, commitments, published, untouchedBySigned>>
<1>1. UNCHANGED rest
  BY DEF RegisterMetaSigner, UnregisterMetaSigner
<1>2. meta' \in [signers : SUBSET Account, used : SUBSET (Account \X MetaNonces)]
  <2> DEFINE Used == SUBSET (Account \X MetaNonces)
  <2>1. meta \in [signers : SUBSET Account, used : Used]
    BY DEF TypeOK
  <2> HIDE DEF Used
  <2>2. meta' \in [signers : SUBSET Account, used : Used]
    BY <2>1 DEF RegisterMetaSigner, UnregisterMetaSigner
  <2> QED
    BY <2>2 DEF Used
<1>3. TypeOK'
  BY <1>1, <1>2 DEF TypeOK, untouchedBySigned
<1> QED
  BY <1>1, <1>3, StillKeeps DEF fundVars, untouchedBySigned

(* execute_meta_fund.                                                        *)
LEMMA MetaKeeps ==
    ASSUME TypeOK, NEW source \in Account, NEW target \in Account, NEW asset \in Asset,
           NEW amount \in Int, NEW nonce \in MetaNonces, NEW deadline,
           ExecuteMetaFund(source, target, asset, amount, nonce, deadline)
    PROVE  Kept
<1> DEFINE counted == CountDaily(usage, source, asset, amount)
           deposited == AddDeposit(counted, source, asset, amount)
           Used == SUBSET (Account \X MetaNonces)
           rest == <<nonces, commitments, untouchedBySigned>>
<1>1. /\ amount > 0 /\ Deliver(source, target, asset, amount)
      /\ meta' = [meta EXCEPT !.used = @ \cup {<<source, nonce>>}]
      /\ usage' = AddVolume(deposited, source, asset, amount) /\ UsageFits(usage')
      /\ published' = [published EXCEPT ![<<"meta", <<source, nonce>>>>] = @ + 1]
      /\ UNCHANGED rest
  BY DEF ExecuteMetaFund, CheckAmount
<1>2. /\ balance' \in [Asset -> [Holder -> 0..I128_MAX]]
      /\ counters' \in [Asset -> Counters]
      /\ ReserveWhereFunded /\ RingFenced => Covered(balance', counters', reserve)
      /\ SurplusLeft(counters', reserve)
  BY <1>1, DeliverKeeps
<1>3. meta' \in [signers : SUBSET Account, used : Used]
  <2>1. meta \in [signers : SUBSET Account, used : Used]
    BY DEF TypeOK
  <2>2. meta.used \cup {<<source, nonce>>} \in Used
    BY <2>1
  <2> HIDE DEF Used
  <2> QED
    BY <1>1, <2>1, <2>2
<1>4. usage' \in [Account -> [Asset -> SourceUsage]]
  <2>1. UsageBook(counted)
    BY UsageTyped, UsageUpdates DEF TypeOK
  <2> HIDE DEF counted
  <2>2. UsageBook(deposited)
    BY <2>1, UsageUpdates
  <2> HIDE DEF deposited
  <2> QED
    BY <1>1, <2>2, UsageUpdates, UsageTyped
<1>5. published' \in [Payout -> Nat]
  BY <1>1, PublishedTyped DEF TypeOK
<1>6. TypeOK'
  BY <1>1, <1>2, <1>3, <1>4, <1>5 DEF TypeOK, untouchedBySigned
<1> QED
  BY <1>1, <1>2, <1>6
  DEF Kept, Backed, SurplusKept, Covered, RingFenced, Owed, ReserveWhereFunded, untouchedBySigned

-----------------------------------------------------------------------------
(* The administrator's calls rewrite one record of typed values.             *)
LEMMA ConfigureKeeps ==
    ASSUME TypeOK, NEW new \in Config, NEW opt, Configure(new, opt)
    PROVE  Kept
<1>1. /\ ConsumeNonce(config.admin, opt) /\ config' = new
      /\ UNCHANGED <<lists, fee_cap, usage, untouchedByAdmin>>
  BY DEF Configure
<1>2. nonces' \in [Account -> Nat]
  BY <1>1, NonceTyped DEF TypeOK, Config
<1>3. TypeOK'
  BY <1>1, <1>2 DEF TypeOK, untouchedByAdmin, fundVars
<1> QED
  BY <1>1, <1>3, StillKeeps DEF untouchedByAdmin

ListRecord == [blocked : SUBSET Account, allowlisted : SUBSET Account,
               assets : SUBSET Asset, pools : SUBSET Account]

(* Every change of an access list or whitelist keeps the invariant: no token moves. *)
LEMMA SetListKeeps ==
    ASSUME TypeOK, NEW new \in ListRecord, NEW opt, SetList(new, opt)
    PROVE  Kept
<1>1. /\ ConsumeNonce(config.admin, opt) /\ lists' = new
      /\ UNCHANGED <<config, fee_cap, usage, untouchedByAdmin>>
  BY DEF SetList
<1>2. nonces' \in [Account -> Nat]
  BY <1>1, NonceTyped DEF TypeOK, Config
<1>3. TypeOK'
  BY <1>1, <1>2 DEF TypeOK, untouchedByAdmin, fundVars, ListRecord
<1> QED
  BY <1>1, <1>3, StillKeeps DEF untouchedByAdmin

(* Rates, caps, tiers and referral shares.                                   *)
LEMMA FeeConfigurationKeeps ==
    ASSUME TypeOK, FeeConfiguration
    PROVE  Kept
<1>1. config \in Config
  BY DEF TypeOK
<1>2. ASSUME NEW opt \in CallOptions, NEW bps \in Rates, SetFeeBps(bps, opt)
      PROVE  Kept
  <2>1. bps \in 0..MAX_FEE_BPS
    BY <1>2, StateConstants, FeeConstants DEF SetFeeBps, StateConstants, FeeConstants
  <2>2. [config EXCEPT !.fee_bps = bps] \in Config
    BY <1>1, <2>1 DEF Config
  <2> QED
    BY <1>2, <2>2, ConfigureKeeps DEF SetFeeBps
<1>3. ASSUME NEW opt \in CallOptions, NEW bps \in Rates, SetReferralRate(bps, opt)
      PROVE  Kept
  <2>1. bps \in 0..FEE_DENOMINATOR
    BY <1>3, StateConstants, FeeConstants DEF SetReferralRate, StateConstants, FeeConstants
  <2>2. [config EXCEPT !.referral_rate = bps] \in Config
    BY <1>1, <2>1 DEF Config
  <2> QED
    BY <1>3, <2>2, ConfigureKeeps DEF SetReferralRate
<1>4. ASSUME NEW opt \in CallOptions, NEW asset \in Asset, NEW bps \in Rates,
             SetAssetFeeCap(asset, bps, opt)
      PROVE  Kept
  <2>1. /\ ConsumeNonce(config.admin, opt) /\ fee_cap' = [fee_cap EXCEPT ![asset] = bps]
        /\ UNCHANGED <<config, lists, usage, untouchedByAdmin>>
    BY <1>4 DEF SetAssetFeeCap
  <2>2. bps \in 0..MAX_FEE_BPS
    BY <1>4, StateConstants, FeeConstants DEF SetAssetFeeCap, StateConstants, FeeConstants
  <2>3. fee_cap' \in [Asset -> 0..MAX_FEE_BPS]
    BY <2>1, <2>2 DEF TypeOK
  <2>4. nonces' \in [Account -> Nat]
    BY <2>1, NonceTyped DEF TypeOK, Config
  <2>5. TypeOK'
    BY <2>1, <2>3, <2>4 DEF TypeOK, untouchedByAdmin, fundVars
  <2> QED
    BY <2>1, <2>5, StillKeeps DEF untouchedByAdmin
<1>5. ASSUME NEW opt \in CallOptions, NEW tiers \in TierLists, SetFeeTiers(tiers, opt)
      PROVE  Kept
  <2>1. tiers \in Seq(FeeTier)
    BY StateConstants DEF StateConstants
  <2>2. [config EXCEPT !.fee_tiers = tiers] \in Config
    BY <1>1, <2>1 DEF Config
  <2> QED
    BY <1>5, <2>2, ConfigureKeeps DEF SetFeeTiers
<1> QED
  BY <1>2, <1>3, <1>4, <1>5 DEF FeeConfiguration

(* Minimum amounts, withdrawal caps and daily limits.                        *)
LEMMA LimitConfigurationKeeps ==
    ASSUME TypeOK, LimitConfiguration
    PROVE  Kept
<1>1. PICK opt \in CallOptions, limit \in Limits :
          \/ SetMinimumAmount(limit, opt)
          \/ SetMaxWithdrawPerTx(limit, opt)
          \/ \E source \in Sources, asset \in Asset :
                SetSourceDailyLimit(source, asset, limit, opt)
  BY DEF LimitConfiguration
<1>2. config \in Config /\ limit \in Int
  BY StateConstants DEF TypeOK, StateConstants
<1>3. CASE SetMinimumAmount(limit, opt)
  <2>1. limit \in Nat
    BY <1>2, <1>3 DEF SetMinimumAmount
  <2>2. [config EXCEPT !.minimum_amount = limit] \in Config
    BY <1>2, <2>1 DEF Config
  <2> QED
    BY <1>3, <2>2, ConfigureKeeps DEF SetMinimumAmount
<1>4. CASE SetMaxWithdrawPerTx(limit, opt)
  <2>1. limit \in Nat
    BY <1>2, <1>4 DEF SetMaxWithdrawPerTx
  <2>2. [config EXCEPT !.max_withdraw_per_tx = limit] \in Config
    BY <1>2, <2>1 DEF Config
  <2> QED
    BY <1>4, <2>2, ConfigureKeeps DEF SetMaxWithdrawPerTx
<1>5. ASSUME NEW source \in Sources, NEW asset \in Asset,
             SetSourceDailyLimit(source, asset, limit, opt)
      PROVE  Kept
  <2>1. /\ limit >= 0 /\ ConsumeNonce(config.admin, opt)
        /\ usage' = [usage EXCEPT ![source][asset].limit = limit]
        /\ UNCHANGED <<config, lists, fee_cap, untouchedByAdmin>>
    BY <1>5 DEF SetSourceDailyLimit
  <2>2. usage' \in [Account -> [Asset -> SourceUsage]]
    <3> DEFINE Daily == [Day -> I128]
    <3>1. usage \in [Account -> [Asset -> SourceUsage]] /\ source \in Account
      BY StateConstants DEF TypeOK, StateConstants
    <3>2. usage[source][asset] \in SourceUsage
      BY <3>1
    <3>3. [usage[source][asset] EXCEPT !.limit = limit] \in SourceUsage
      <4>1. SourceUsage = [limit : Nat, used : Daily, volume : I128, deposit : I128]
        BY DEF SourceUsage
      <4> HIDE DEF Daily
      <4> QED
        BY <1>2, <2>1, <3>2, <4>1
    <3>4. usage' = [usage EXCEPT ![source] =
                       [usage[source] EXCEPT ![asset] =
                           [usage[source][asset] EXCEPT !.limit = limit]]]
      BY <2>1, <3>1
    <3> QED
      BY <3>1, <3>3, <3>4
  <2>3. nonces' \in [Account -> Nat]
    BY <2>1, NonceTyped DEF TypeOK, Config
  <2>4. TypeOK'
    BY <2>1, <2>2, <2>3 DEF TypeOK, untouchedByAdmin, fundVars
  <2> QED
    BY <2>1, <2>4, StillKeeps DEF untouchedByAdmin
<1> QED
  BY <1>1, <1>3, <1>4, <1>5

(* The loyalty token and its reward.                                         *)
LEMMA LoyaltyConfigurationKeeps ==
    ASSUME TypeOK, LoyaltyConfiguration
    PROVE  Kept
<1>1. PICK token \in LoyaltyTokens, amount \in Amounts, opt \in CallOptions :
          SetLoyaltyToken(token, amount, opt)
  BY DEF LoyaltyConfiguration
<1>2. amount \in Nat
  BY <1>1, StateConstants DEF SetLoyaltyToken, StateConstants
<1>3. [config EXCEPT !.loyalty_token = token, !.loyalty_amount = amount] \in Config
  BY <1>2 DEF TypeOK, Config
<1> QED
  BY <1>1, <1>3, ConfigureKeeps DEF SetLoyaltyToken

(* Access lists and whitelists.                                              *)
LEMMA ListsKeep ==
    ASSUME TypeOK, AccessLists \/ AssetWhitelist \/ PoolWhitelist
    PROVE  Kept
<1>1. lists \in ListRecord /\ config \in Config
  BY DEF TypeOK, ListRecord
<1>2. Targets \subseteq Account
  BY StateConstants DEF StateConstants
<1>3. ASSUME NEW opt \in CallOptions, NEW addr \in Targets,
             \/ AddToBlocklist(addr, opt) \/ RemoveFromBlocklist(addr, opt)
             \/ AddToAllowlist(addr, opt) \/ RemoveFromAllowlist(addr, opt)
      PROVE  Kept
  <2>1. /\ [lists EXCEPT !.blocked = @ \cup {addr}] \in ListRecord
        /\ [lists EXCEPT !.blocked = @ \ {addr}] \in ListRecord
        /\ [lists EXCEPT !.allowlisted = @ \cup {addr}] \in ListRecord
        /\ [lists EXCEPT !.allowlisted = @ \ {addr}] \in ListRecord
    BY <1>1, <1>2 DEF ListRecord
  <2> QED
    BY <1>3, <2>1, SetListKeeps
    DEF AddToBlocklist, RemoveFromBlocklist, AddToAllowlist, RemoveFromAllowlist
<1>4. ASSUME NEW opt \in CallOptions, NEW enabled \in BOOLEAN, SetAllowlistMode(enabled, opt)
      PROVE  Kept
  <2>1. [config EXCEPT !.allowlist_mode = enabled] \in Config
    BY <1>1 DEF Config
  <2> QED
    BY <1>4, <2>1, ConfigureKeeps DEF SetAllowlistMode
<1>5. ASSUME NEW asset \in Asset, NEW opt \in CallOptions,
             AddAsset(asset, opt) \/ RemoveAsset(asset, opt)
      PROVE  Kept
  <2>1. /\ [lists EXCEPT !.assets = @ \cup {asset}] \in ListRecord
        /\ [lists EXCEPT !.assets = @ \ {asset}] \in ListRecord
    BY <1>1 DEF ListRecord
  <2> QED
    BY <1>5, <2>1, SetListKeeps DEF AddAsset, RemoveAsset
<1>6. ASSUME NEW pool \in Account, NEW opt \in CallOptions,
             AddSwapPool(pool, opt) \/ RemoveSwapPool(pool, opt)
      PROVE  Kept
  <2>1. /\ [lists EXCEPT !.pools = @ \cup {pool}] \in ListRecord
        /\ [lists EXCEPT !.pools = @ \ {pool}] \in ListRecord
    BY <1>1 DEF ListRecord
  <2> QED
    BY <1>6, <2>1, SetListKeeps DEF AddSwapPool, RemoveSwapPool
<1> QED
  BY <1>3, <1>4, <1>5, <1>6 DEF AccessLists, AssetWhitelist, PoolWhitelist

(* Pausing, deactivation and the handover of the two roles.                  *)
LEMMA GovernanceKeeps ==
    ASSUME TypeOK, CircuitBreaker \/ Handover
    PROVE  Kept
<1>1. config \in Config
  BY DEF TypeOK
<1>2. ASSUME NEW opt \in CallOptions, Pause(opt) \/ Unpause(opt) \/ EmergencyMigrate(opt)
      PROVE  Kept
  <2>1. /\ [config EXCEPT !.paused = TRUE] \in Config
        /\ [config EXCEPT !.paused = FALSE] \in Config
        /\ [config EXCEPT !.deactivated = TRUE] \in Config
    BY <1>1 DEF Config
  <2> QED
    BY <1>2, <2>1, ConfigureKeeps DEF Pause, Unpause, EmergencyMigrate
<1>3. ASSUME NEW new \in Operators, NEW opt \in CallOptions,
             \/ SetAdmin(new, opt) \/ ProposeNewAdmin(new, opt)
             \/ SetFeeCollector(new, opt) \/ ProposeNewFeeCollector(new, opt)
      PROVE  Kept
  <2>1. new \in Account
    BY StateConstants DEF StateConstants
  <2>2. /\ [config EXCEPT !.admin = new] \in Config
        /\ [config EXCEPT !.pending_admin = new] \in Config
        /\ [config EXCEPT !.fee_collector = new] \in Config
        /\ [config EXCEPT !.pending_fee_collector = new] \in Config
    BY <1>1, <2>1 DEF Config, OptAccount
  <2> QED
    BY <1>3, <2>2, ConfigureKeeps
    DEF SetAdmin, ProposeNewAdmin, SetFeeCollector, ProposeNewFeeCollector
<1>4. ASSUME NEW opt \in CallOptions, ClearPendingAdmin(opt) \/ ClearPendingFeeCollector(opt)
      PROVE  Kept
  <2>1. /\ [config EXCEPT !.pending_admin = None] \in Config
        /\ [config EXCEPT !.pending_fee_collector = None] \in Config
    BY <1>1 DEF Config, OptAccount
  <2> QED
    BY <1>4, <2>1, ConfigureKeeps DEF ClearPendingAdmin, ClearPendingFeeCollector
<1>5. CASE AcceptAdmin \/ AcceptFeeCollector
  <2>1. /\ config.pending_admin # None =>
               [config EXCEPT !.admin = config.pending_admin, !.pending_admin = None] \in Config
        /\ config.pending_fee_collector # None =>
               [config EXCEPT !.fee_collector = config.pending_fee_collector,
                              !.pending_fee_collector = None] \in Config
    BY <1>1 DEF Config, OptAccount
  <2>2. config' \in Config
    BY <1>5, <2>1 DEF AcceptAdmin, AcceptFeeCollector
  <2>3. UNCHANGED <<lists, fee_cap, usage, nonces, untouchedByAdmin>>
    BY <1>5 DEF AcceptAdmin, AcceptFeeCollector
  <2>4. TypeOK'
    BY <2>2, <2>3 DEF TypeOK, untouchedByAdmin, fundVars
  <2> QED
    BY <2>3, <2>4, StillKeeps DEF untouchedByAdmin
<1> QED
  BY <1>2, <1>3, <1>4, <1>5 DEF CircuitBreaker, Handover

(* Time passes.                                                              *)
LEMMA CloseLedgerKeeps ==
    ASSUME TypeOK, CloseLedger
    PROVE  Kept
<1>1. PICK d \in LedgerSeconds :
          /\ ledger.timestamp + d <= MaxTimestamp
          /\ ledger' = [timestamp |-> ledger.timestamp + d, sequence |-> ledger.sequence + 1]
  BY DEF CloseLedger
<1>2. ledger' \in [timestamp : 0..MaxTimestamp, sequence : Nat]
  BY <1>1, StateConstants DEF TypeOK, StateConstants
<1>3. TypeOK'
  BY <1>2 DEF TypeOK, CloseLedger
<1> QED
  BY <1>3, StillKeeps DEF CloseLedger, fundVars

-----------------------------------------------------------------------------
(* The bridge owes nothing when it is deployed.                              *)
LEMMA InitTyped == Init => BridgeInv
<1> SUFFICES ASSUME Init
             PROVE  BridgeInv
  OBVIOUS
<1>1. PICK args \in InitArgs :
          /\ config = [admin |-> args.admin, fee_collector |-> args.fee_collector,
                       pending_admin |-> None, pending_fee_collector |-> None,
                       fee_bps |-> args.fee_bps, paused |-> FALSE, allowlist_mode |-> FALSE,
                       deactivated |-> FALSE, minimum_amount |-> 0, max_withdraw_per_tx |-> 0,
                       referral_rate |-> 0, loyalty_token |-> None, loyalty_amount |-> 0,
                       fee_tiers |-> <<>>]
          /\ nonces = [s \in Account |-> IF s = args.admin /\ args.nonce = 0 THEN 1 ELSE 0]
  BY DEF Init
<1>2. /\ args.admin \in Account /\ args.fee_collector \in Account
      /\ args.fee_bps \in 0..MAX_FEE_BPS
  BY StateConstants DEF StateConstants
<1>3. FEE_DENOMINATOR \in Nat /\ MAX_FEE_BPS \in Nat /\ I128_MAX \in Nat
      /\ 0 \in 0..I128_MAX /\ 0 \in I128 /\ 0 \in 0..FEE_DENOMINATOR
  BY FeeConstants DEF FeeConstants, I128
<1>4. <<>> \in Seq(FeeTier)
  OBVIOUS
<1>5. config \in Config
  BY <1>1, <1>2, <1>3, <1>4 DEF Config, OptAccount
<1>6. balance \in [Asset -> [Holder -> 0..I128_MAX]]
  <2>1. \A a \in Asset : \A h \in Account : InitialBalances[a][h] \in 0..I128_MAX
    BY StateConstants DEF StateConstants
  <2>2. balance = [a \in Asset |->
                      [h \in Holder |-> IF h = Bridge THEN 0 ELSE InitialBalances[a][h]]]
    BY DEF Init
  <2> QED
    BY <1>3, <2>1, <2>2 DEF Holder
<1>7. counters \in [Asset -> Counters] /\ reserve \in [Asset -> 0..I128_MAX]
  BY <1>3 DEF Init, Counters
<1>8. usage \in [Account -> [Asset -> SourceUsage]]
  <2> DEFINE fresh == [limit |-> 0, used |-> [d \in Day |-> 0], volume |-> 0, deposit |-> 0]
  <2>1. fresh \in SourceUsage
    BY <1>3 DEF SourceUsage
  <2>2. usage = [s \in Account |-> [a \in Asset |-> fresh]]
    BY DEF Init
  <2> HIDE DEF fresh
  <2> QED
    BY <2>1, <2>2
<1>9. ledger \in [timestamp : 0..MaxTimestamp, sequence : Nat]
  BY StateConstants DEF Init, StateConstants
<1>10. /\ lists \in [blocked : SUBSET Account, allowlisted : SUBSET Account,
                     assets : SUBSET Asset, pools : SUBSET Account]
       /\ fee_cap \in [Asset -> 0..MAX_FEE_BPS]
  BY <1>3 DEF Init
<1>11. /\ nonces \in [Account -> Nat]
       /\ timelocks \in Seq(TimelockEntry)
       /\ commitments \in Seq(CommitmentEntry \cup {None})
  BY <1>1 DEF Init
<1>12. /\ relayers \in [keys : SUBSET RelayerKey, threshold : Nat \ {0}]
       /\ used_nonces \subseteq CrossTx
       /\ published \in [Payout -> Nat]
  BY DEF Init
<1>13. meta \in [signers : SUBSET Account, used : SUBSET (Account \X MetaNonces)]
  BY DEF Init
<1>14. TypeOK
  BY <1>5, <1>6, <1>7, <1>8, <1>9, <1>10, <1>11, <1>12, <1>13 DEF TypeOK
<1>15. RingFenced /\ ReserveWhereFunded
  BY DEF Init, RingFenced, Owed, ReserveWhereFunded, Holder
<1> QED
  BY <1>14, <1>15 DEF BridgeInv

(* The surplus is kept by a step, or explained by the kind of step it is.    *)
SurplusStep == SurplusKept \/ StrayTransfer \/ (OperatorTransfer /\ counters' = counters)

(* Every step of the contract keeps the types and the backing.               *)
LEMMA NextKeeps == BridgeInv /\ [Next]_vars => BridgeInv' /\ SurplusStep
<1> SUFFICES ASSUME BridgeInv, [Next]_vars
             PROVE  BridgeInv' /\ SurplusStep
  OBVIOUS
<1>1. TypeOK /\ ReserveWhereFunded /\ RingFenced
  BY DEF BridgeInv
<1>2. /\ Sources \subseteq Account /\ Targets \subseteq Account /\ Operators \subseteq Account
      /\ Amounts \subseteq Int /\ Times \subseteq Nat /\ ReserveAssets \subseteq Asset
  BY StateConstants DEF StateConstants
<1>3. CASE DirectFunding
  BY <1>1, <1>2, <1>3, FundKeeps, ReferralKeeps, BatchKeeps
  DEF DirectFunding, Kept, Backed, BridgeInv, SurplusStep
<1>4. CASE SwapFunding
  <2>1. lists.pools \subseteq Account
    BY <1>1 DEF TypeOK
  <2> QED
    BY <1>1, <1>2, <1>4, <2>1, SwapKeeps DEF SwapFunding, Kept, Backed, BridgeInv, SurplusStep
<1>5. CASE OperatorTransfer
  <2>1. PICK asset \in Asset, amount \in Amounts, opt \in CallOptions :
            \/ WithdrawFees(asset, amount, opt)
            \/ \E destination \in Account : ReclaimTokens(asset, amount, destination, opt)
    BY <1>5 DEF OperatorTransfer
  <2>2. CASE WithdrawFees(asset, amount, opt)
    BY <1>1, <1>2, <2>2, WithdrawFeesKeeps DEF Kept, Backed, BridgeInv, SurplusStep
  <2>3. ASSUME NEW destination \in Account, ReclaimTokens(asset, amount, destination, opt)
        PROVE  BridgeInv' /\ SurplusStep
    <3>1. counters' = counters
      BY <2>3 DEF ReclaimTokens
    <3> QED
      BY <1>1, <1>2, <1>5, <2>3, <3>1, ReclaimKeeps DEF Backed, BridgeInv, SurplusStep
  <2> QED
    BY <2>1, <2>2, <2>3
<1>6. CASE StrayTransfer
  BY <1>1, <1>2, <1>6, SendKeeps DEF StrayTransfer, Kept, Backed, BridgeInv, SurplusStep
<1>7. CASE Timelocks
  BY <1>1, <1>2, <1>7, TimelockedKeeps, ClaimKeeps
  DEF Timelocks, Kept, Backed, BridgeInv, SurplusStep
<1>8. CASE CrossChain
  BY <1>1, <1>2, <1>8, FundReserveKeeps, WithdrawReserveKeeps, CrosschainKeeps
  DEF CrossChain, Kept, Backed, BridgeInv, SurplusStep
<1>9. CASE Registry
  <2>1. PICK opt \in CallOptions :
            \/ \E key \in RelayerKey : AddRelayer(key, opt) \/ RemoveRelayer(key, opt)
            \/ \E n \in 0..Cardinality(RelayerKey) : SetRelayerThreshold(n, opt)
    BY <1>9 DEF Registry
  <2> QED
    BY <1>1, <2>1, RegistryKeeps, ThresholdKeeps DEF Kept, Backed, BridgeInv, SurplusStep
<1>10. CASE CommitReveal
  BY <1>1, <1>2, <1>10, CommitKeeps, RevealKeeps, CancelKeeps
  DEF CommitReveal, Kept, Backed, BridgeInv, SurplusStep
<1>11. CASE MetaFunding
  BY <1>1, <1>2, <1>11, SignerKeeps, MetaKeeps
  DEF MetaFunding, Kept, Backed, BridgeInv, SurplusStep
<1>12. CASE \/ FeeConfiguration \/ LimitConfiguration \/ LoyaltyConfiguration
            \/ AccessLists \/ AssetWhitelist \/ PoolWhitelist \/ CircuitBreaker \/ Handover
  BY <1>1, <1>12, FeeConfigurationKeeps, LimitConfigurationKeeps, LoyaltyConfigurationKeeps,
     ListsKeep, GovernanceKeeps DEF Kept, Backed, BridgeInv, SurplusStep
<1>13. CASE CloseLedger
  BY <1>1, <1>13, CloseLedgerKeeps DEF Kept, Backed, BridgeInv, SurplusStep
<1>14. CASE UNCHANGED vars
  <2>1. UNCHANGED fundVars /\ TypeOK'
    BY <1>1, <1>14 DEF vars, fundVars, TypeOK
  <2> QED
    BY <1>1, <2>1, StillKeeps DEF Kept, Backed, BridgeInv, SurplusStep
<1> QED
  BY <1>3, <1>4, <1>5, <1>6, <1>7, <1>8, <1>9, <1>10, <1>11, <1>12, <1>13, <1>14 DEF Next

(* The inductive invariant holds in every state of every behaviour of the contract. *)
LEMMA BridgeInvariant == Spec => []BridgeInv
  BY InitTyped, NextKeeps, PTL DEF Spec

(* The storage of the contract and the balances it moves keep their types,   *)
(* in particular no counter or reserve that the code compares against        *)
(* balances ever turns negative.                                             *)
THEOREM BridgeTypeCorrect == Spec => []TypeOK
  BY BridgeInvariant, PTL DEF BridgeInv

(* The bridge always holds the accrued fees, the locked deposits and the     *)
(* cross-chain reserve, asset by asset, whatever is called in whatever       *)
(* order: reclaim_tokens, withdraw_fees and loyalty rewards cannot dip into  *)
(* them.                                                                     *)
THEOREM BridgeRingFenced == Spec => []RingFenced
  BY BridgeInvariant, PTL DEF BridgeInv
=============================================================================
