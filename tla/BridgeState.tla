---------------------------- MODULE BridgeState -----------------------------
(* The storage of the onboarding bridge contract, the token balances it      *)
(* moves, and the checks its entry points share.                             *)
(*                                                                           *)
(* A contract call is one atomic step: an Err or a trap reverts everything,  *)
(* so a call that fails is a call that does not happen, and every check of   *)
(* the code is a conjunct of the action.                                     *)
EXTENDS BridgeFees, FiniteSets, SequencesExt

CONSTANTS
    Account,        \* addresses outside the bridge: users, admin, collector, pools
    Bridge,         \* the contract's own address
    Asset,          \* token contracts
    None,           \* an absent Option
    RelayerKey,     \* ed25519 public keys of relayers
    CrossTx,        \* (chain_id, tx_hash) pairs of deposits on other chains
    SECONDS_PER_DAY,                  \* 86_400
    COMMIT_REVEAL_MIN_DELAY_LEDGERS,  \* 5
    MAX_BATCH_SIZE                    \* 100

\* Who calls, and what the callers pass.
CONSTANTS
    Sources,        \* accounts that fund
    Targets,        \* accounts that are funded or refer
    Operators,      \* accounts ever named administrator or fee collector
    InitArgs,       \* arguments of initialize: [admin, fee_collector, fee_bps, nonce]
    Amounts,        \* token amounts, also zero and negative ones
    Rates,          \* fee, cap and referral rates
    Limits,         \* daily limits, minimum amounts and withdrawal caps
    TierLists,      \* arguments of set_fee_tiers
    Batches,        \* arguments of batch_fund_c_address: sequences of [target, amount]
    CallOptions,    \* the optional [nonce, deadline] of a call
    Times,          \* release times and deadlines
    MetaNonces,     \* nonces of signed meta-transactions
    LoyaltyTokens,  \* assets ever passed to set_loyalty_token
    ReserveAssets   \* assets ever passed to fund_crosschain_reserve

\* Bounds of the model, and what exists before the bridge does.
CONSTANTS
    MaxTimestamp,     \* the clock stops here
    LedgerSeconds,    \* how long a ledger takes to close
    MaxTimelocks, MaxCommitments,
    InitialBalances   \* token balances when the bridge is deployed

VARIABLES
    ledger,         \* [timestamp, sequence] of the ledger being closed
    config,         \* instance storage: BridgeConfigData and single-valued keys
    lists,          \* block list, allow list, whitelisted assets and pools
    fee_cap,        \* AssetFeeCap
    balance,        \* token balances of every holder, kept by the token contracts
    counters,       \* AssetStats
    reserve,        \* CrossChainReserve
    usage,          \* SourceDailyLimit, DailyUsage, SourceBridgedVolume, UserDeposit
    nonces,         \* Nonce
    timelocks,      \* Timelock entries, by id
    commitments,    \* Commitment entries, by id; None once cancelled
    relayers,       \* RelayerSet and RelayerThreshold
    used_nonces,    \* CrossChain nonces marked used
    meta,           \* MetaSigner and MetaTxNonce
    published       \* how often each one-shot payout was announced by an event

fundVars == <<balance, counters, reserve>>
vars == <<ledger, config, lists, fee_cap, balance, counters, reserve, usage, nonces,
          timelocks, commitments, relayers, used_nonces, meta, published>>

Holder == Account \cup {Bridge}
OptAccount == Account \cup {None}
Day == 0..(MaxTimestamp \div SECONDS_PER_DAY)

(* The one-shot payouts, each announced by an event of its own:              *)
(* TimelockClaimed, CommitRevealFunded, CrossChainFunded, MetaFundExecuted.  *)
Payout ==
    ({"timelock"} \X (1..MaxTimelocks))
        \cup ({"commitment"} \X (1..MaxCommitments))
        \cup ({"crosschain"} \X CrossTx)
        \cup ({"meta"} \X (Account \X MetaNonces))

ASSUME StateConstants ==
    /\ Bridge \notin Account
    /\ None \notin Account \cup Asset \cup Nat
    /\ SECONDS_PER_DAY \in Nat \ {0}
    /\ COMMIT_REVEAL_MIN_DELAY_LEDGERS \in Nat
    /\ MAX_BATCH_SIZE \in Nat
    /\ Sources \cup Targets \cup Operators \subseteq Account
    /\ InitArgs \subseteq [admin : Operators, fee_collector : Operators,
                            fee_bps : 0..MAX_FEE_BPS, nonce : {0, None}]
    /\ Amounts \subseteq Int
    /\ CallOptions \subseteq [nonce : Nat \cup {None}, deadline : Nat \cup {None}]
    /\ Batches \subseteq Seq([target : Targets, amount : Int])
    /\ TierLists \subseteq Seq(FeeTier)
    /\ Rates \subseteq Nat
    /\ Limits \subseteq Int
    /\ Times \subseteq Nat
    /\ LoyaltyTokens \subseteq Asset
    /\ ReserveAssets \subseteq Asset
    /\ InitialBalances \in [Asset -> [Account -> 0..I128_MAX]]
    /\ MaxTimestamp \in Nat
    /\ LedgerSeconds \subseteq Nat \ {0}
    /\ MaxTimelocks \in Nat
    /\ MaxCommitments \in Nat

-----------------------------------------------------------------------------
(* The shape of the storage.                                                 *)
Counters == [accrued_fees : 0..I128_MAX, total_bridged : I128,
             total_fees_collected : I128, locked_timelock : I128]

TimelockEntry == [source : Account, target : Account, asset : Asset, amount : 1..I128_MAX,
                  release_time : Nat, claimed : BOOLEAN]

CommitmentEntry == [source : Account, target : Account, asset : Asset, amount_hash : Int,
                    deadline : Nat, committed_at_ledger : Nat, revealed : BOOLEAN]

(* A cancelled commitment is told from every entry.                          *)
ASSUME NoneIsNoEntry == None \notin CommitmentEntry

SourceUsage == [limit : Nat, used : [Day -> I128], volume : I128, deposit : I128]

Config == [admin : Account, fee_collector : Account,
           pending_admin : OptAccount, pending_fee_collector : OptAccount,
           fee_bps : 0..MAX_FEE_BPS, paused : BOOLEAN, allowlist_mode : BOOLEAN,
           deactivated : BOOLEAN, minimum_amount : Nat, max_withdraw_per_tx : Nat,
           referral_rate : 0..FEE_DENOMINATOR,
           loyalty_token : LoyaltyTokens \cup {None}, loyalty_amount : Nat,
           fee_tiers : Seq(FeeTier)]

(* Right after `initialize`, which succeeds once; the keys it leaves unset   *)
(* have the defaults their readers give them.                                *)
Init ==
    /\ ledger = [timestamp |-> 0, sequence |-> 0]
    /\ \E args \in InitArgs :
          /\ config = [admin |-> args.admin, fee_collector |-> args.fee_collector,
                       pending_admin |-> None, pending_fee_collector |-> None,
                       fee_bps |-> args.fee_bps, paused |-> FALSE, allowlist_mode |-> FALSE,
                       deactivated |-> FALSE, minimum_amount |-> 0, max_withdraw_per_tx |-> 0,
                       referral_rate |-> 0, loyalty_token |-> None, loyalty_amount |-> 0,
                       fee_tiers |-> <<>>]
          /\ nonces = [s \in Account |-> IF s = args.admin /\ args.nonce = 0 THEN 1 ELSE 0]
    /\ lists = [blocked |-> {}, allowlisted |-> {}, assets |-> {}, pools |-> {}]
    /\ fee_cap = [a \in Asset |-> MAX_FEE_BPS]
    /\ balance = [a \in Asset |->
                     [h \in Holder |-> IF h = Bridge THEN 0 ELSE InitialBalances[a][h]]]
    /\ counters = [a \in Asset |-> [accrued_fees |-> 0, total_bridged |-> 0,
                                    total_fees_collected |-> 0, locked_timelock |-> 0]]
    /\ reserve = [a \in Asset |-> 0]
    /\ usage = [s \in Account |-> [a \in Asset |->
                   [limit |-> 0, used |-> [d \in Day |-> 0], volume |-> 0, deposit |-> 0]]]
    /\ timelocks = <<>>
    /\ commitments = <<>>
    /\ relayers = [keys |-> {}, threshold |-> 1]
    /\ used_nonces = {}
    /\ meta = [signers |-> {}, used |-> {}]
    /\ published = [p \in Payout |-> 0]

(* Ledgers close: the sequence number advances by one, the clock by seconds. *)
CloseLedger ==
    /\ \E d \in LedgerSeconds :
          /\ ledger.timestamp + d <= MaxTimestamp
          /\ ledger' = [timestamp |-> ledger.timestamp + d, sequence |-> ledger.sequence + 1]
    /\ UNCHANGED <<config, lists, fee_cap, balance, counters, reserve, usage, nonces,
                   timelocks, commitments, relayers, used_nonces, meta, published>>

-----------------------------------------------------------------------------
(* Checks shared by the entry points.                                        *)
CheckNotDeactivated == ~config.deactivated

\* Mutant: the circuit breaker forgets about deactivation.
NotPausedOnly == ~config.paused

CheckNotPaused == ~config.deactivated /\ ~config.paused

\* Mutant: recovery is open whatever the breaker says.
RecoveryAlwaysAllowed == TRUE

(* Recovery stays open on a deactivated contract, even a paused one.         *)
CheckRecoveryAllowed == config.deactivated \/ ~config.paused

CheckAmount(amount) == amount > 0 /\ amount >= config.minimum_amount

\* Mutant: the allow list is not consulted.
CheckBlocklistOnly(target) == target \notin lists.blocked

CheckAccess(target) ==
    /\ target \notin lists.blocked
    /\ config.allowlist_mode => target \in lists.allowlisted

CheckAssetWhitelisted(asset) == asset \in lists.assets

CheckDeadline(opt) == opt.deadline # None => ledger.timestamp <= opt.deadline

Today == ledger.timestamp \div SECONDS_PER_DAY

WithinDailyLimit(source, asset, amount) ==
    LET u == usage[source][asset]
    IN  u.limit # 0 => u.used[Today] + amount <= u.limit

(* An optional nonce must be the caller's next one, which it uses up.        *)
ConsumeNonce(caller, opt) ==
    \/ opt.nonce = None /\ UNCHANGED nonces
    \/ opt.nonce = nonces[caller] /\ nonces' = [nonces EXCEPT ![caller] = @ + 1]

-----------------------------------------------------------------------------
(* Updates of the storage, each a function of the value it updates, so that  *)
(* an entry point composes them in the order of the code.                    *)

(* A token transfer. The token contract (external) refuses an overdraft and  *)
(* an overflow: BalancesFit is a guard of every action that moves tokens.    *)
Transfer(bal, asset, from, to, amount) ==
    [bal EXCEPT ![asset][from] = @ - amount, ![asset][to] = @ + amount]

BalancesFit(bal) == \A a \in Asset : \A h \in Holder : bal[a][h] \in 0..I128_MAX

CountersFit(ctr) ==
    \A a \in Asset : {ctr[a].accrued_fees, ctr[a].total_bridged,
                      ctr[a].total_fees_collected, ctr[a].locked_timelock} \subseteq I128

\* Mutant: the referrer's share of the fee accrues as well.
AddFeesUnsplit(ctr, asset, accrued, fees, bridged) ==
    [ctr EXCEPT ![asset].accrued_fees = @ + fees,
                ![asset].total_bridged = @ + bridged,
                ![asset].total_fees_collected = @ + fees]

AddFees(ctr, asset, accrued, fees, bridged) ==
    [ctr EXCEPT ![asset].accrued_fees = @ + accrued,
                ![asset].total_bridged = @ + bridged,
                ![asset].total_fees_collected = @ + fees]

\* Mutant: the counter is not decremented by a claim.
LockTimelockOnly(ctr, asset, amount) ==
    IF amount > 0 THEN [ctr EXCEPT ![asset].locked_timelock = @ + amount] ELSE ctr

LockTimelock(ctr, asset, amount) == [ctr EXCEPT ![asset].locked_timelock = @ + amount]

UsageFits(u) == \A s \in Account : \A a \in Asset : u[s][a] \in SourceUsage

\* Mutant: the updated usage is not stored.
CountNothing(u, source, asset, amount) == u

(* Usage is recorded only while a limit is set.                              *)
CountDaily(u, source, asset, amount) ==
    IF u[source][asset].limit = 0
    THEN u
    ELSE [u EXCEPT ![source][asset].used[Today] = @ + amount]

AddVolume(u, source, asset, amount) == [u EXCEPT ![source][asset].volume = @ + amount]

AddDeposit(u, source, asset, amount) == [u EXCEPT ![source][asset].deposit = @ + amount]

\* Mutant: locked deposits are not set aside.
MintLoyaltyFromDeposits(bal, ctr, recipient) ==
    LET t == config.loyalty_token
        n == config.loyalty_amount
    IN  IF t # None /\ n > 0 /\ bal[t][Bridge] - ctr[t].accrued_fees >= n
        THEN Transfer(bal, t, Bridge, recipient, n)
        ELSE bal

(* The loyalty reward is paid out of what the bridge holds beyond accrued    *)
(* fees and locked deposits, and skipped when that is too little. The        *)
(* cross-chain reserve is not set aside.                                     *)
MintLoyalty(bal, ctr, recipient) ==
    LET t == config.loyalty_token
        n == config.loyalty_amount
    IN  IF /\ t # None
           /\ n > 0
           /\ bal[t][Bridge] - ctr[t].accrued_fees - ctr[t].locked_timelock >= n
        THEN Transfer(bal, t, Bridge, recipient, n)
        ELSE bal

(* The rate on what a source sends, and on what has no source on chain.      *)
FlatRate(asset) == EffectiveFeeBps(fee_cap[asset], config.fee_bps)

TieredRate(source, asset) ==
    EffectiveFeeBps(fee_cap[asset],
        TieredFeeBps(config.fee_tiers, usage[source][asset].volume, config.fee_bps))

(* What fund_c_address, reveal_fund and execute_meta_fund share: pull the    *)
(* gross amount, pay the net to the target, keep the fee, reward the source. *)
Deliver(source, target, asset, amount) ==
    LET rate == TieredRate(source, asset)
        fee == CalculateFee(amount, rate)
        pulled == Transfer(balance, asset, source, Bridge, amount)
        paid == Transfer(pulled, asset, Bridge, target, amount - fee)
    IN  /\ FeeFits(amount, rate)
        /\ balance[asset][source] >= amount
        /\ counters' = AddFees(counters, asset, fee, fee, amount - fee)
        /\ balance' = MintLoyalty(paid, counters', source)
        /\ CountersFit(counters')
        /\ BalancesFit(balance')

-----------------------------------------------------------------------------
(* One type invariant for the whole storage.                                 *)
TypeOK ==
    /\ ledger \in [timestamp : 0..MaxTimestamp, sequence : Nat]
    /\ config \in Config
    /\ lists \in [blocked : SUBSET Account, allowlisted : SUBSET Account,
                  assets : SUBSET Asset, pools : SUBSET Account]
    /\ fee_cap \in [Asset -> 0..MAX_FEE_BPS]
    /\ balance \in [Asset -> [Holder -> 0..I128_MAX]]
    /\ counters \in [Asset -> Counters]
    /\ reserve \in [Asset -> 0..I128_MAX]
    /\ usage \in [Account -> [Asset -> SourceUsage]]
    /\ nonces \in [Account -> Nat]
    /\ timelocks \in Seq(TimelockEntry)
    /\ commitments \in Seq(CommitmentEntry \cup {None})
    /\ relayers \in [keys : SUBSET RelayerKey, threshold : Nat \ {0}]
    /\ used_nonces \subseteq CrossTx
    /\ meta \in [signers : SUBSET Account, used : SUBSET (Account \X MetaNonces)]
    /\ published \in [Payout -> Nat]
=============================================================================
