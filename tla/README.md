# Verification of the C-address onboarding bridge

TLA+ models of the onboarding bridge, their TLC configurations and their TLAPS
proofs. `PROJECT.json` maps every definition to the lines it models. Without another
file, line numbers refer to `src/contracts/onboarding-bridge/src/lib.rs`.

## 1. Inventory

| part | state | operations | interacts with |
|---|---|---|---|
| bridge contract (`lib.rs`) | instance and persistent storage: configuration, lists, counters, reserve, usage, nonces, timelocks, commitments, relayers, meta signers, pending upgrade, authorization nonces | about 50 state-changing entry points | token contracts, swap pools, whoever calls |
| relayer (`src/relayer/index.ts`) | nonce store, dead-letter queue, block and signature stores on disk; in-flight map, cursors and delivery queues in memory | poll or follow a chain, handle an event, collect signatures, submit, retry | source chains, signer services, the contract through the SDK |
| signer service (`src/relayer/signer-service.ts`) | one key | sign a payload hash | relayer |
| SDK client (`src/sdk/src/bridge.ts`, `retry.ts`, `observability.ts`) | attempts of a request, progress of a batch, open spans | build, simulate, send, confirm; queries | RPC node, contract |
| SDK cache (`cache.ts`, `cachedBridge.ts`) | entries in order of use, the confirmations awaited in the background | cached reads, mutations that invalidate | SDK client |
| SDK events (`events.ts`) | cursor, timer | poll, dispatch | RPC node |
| indexer (`src/indexer/src/*.rs`) | SQLite: events, subscriptions, deliveries, cursor | poll, fan out, deliver, retry, HTTP API | Soroban RPC, subscribers |
| scripts, off-ramp | none of interest | deploy, estimate, sign and verify releases; fetch quotes | |

What makes each part correct, and what is hard about it:

* **Contract.** One pot of tokens per asset holds what belongs to the fee
  collector, to the targets of locked deposits and to the cross-chain reserve;
  counters say which is which. Correct means: the pot always covers the counters,
  the counters agree with the entries they summarise, each attestation,
  commitment and signed message is paid once, limits, caps and lists hold on every
  path, pausing and deactivation stop exactly what they should, and no role or
  code change happens without its protocol. Calls are atomic (an error or trap
  reverts the call), so the difficulty is the *order* of calls by several parties
  over time: checks made at one call and relied on at another, administration
  between two user calls, and about twenty entry points sharing the same counters.
* **Relayer.** Every final deposit ends paid, dead-lettered or known to be worthless,
  and none is paid without being final and genuine. Hard: polls overlap because the
  timer does not wait, a reconnect overlaps the old delivery queue, three files are
  written one after the other and a crash falls between any two writes, and the send
  of a payout may succeed without an answer.
* **SDK.** A retry may repeat a request but never its effect; what the caller is told
  is true; a batch with nonces sends its chunks in turn; a cached answer is no older
  than its lifetime and than the caller's own confirmed writes; a subscription
  dispatches every event although fetches overlap.
* **Indexer.** Every event is stored once and delivered or given up. Not modelled: see
  section 5.

The hazards are listed one by one in `PROJECT.json`.

## 2. Modules

### The contract

| module | models |
|---|---|
| `BridgeFees` | fee arithmetic: rate, cap, tiers, rounding, the i128 product |
| `BridgeState` | the contract's storage, `Init`, the shared checks, the updates of counters and balances, `TypeOK` |
| `BridgeFunding` | direct, referred, batched and swapped funding; `withdraw_fees`, `reclaim_tokens`; transfers past the contract |
| `BridgeTimelock` | `fund_c_address_timelocked`, `claim_timelocked` |
| `BridgeCrossChain` | the reserve, `fund_c_address_crosschain`, the relayer registry |
| `BridgeSigned` | commit, reveal, cancel; meta signers, `execute_meta_fund` |
| `BridgeAdmin` | configuration, lists, circuit breaker, `emergency_migrate`, handover of roles |
| `PromisedPayouts` | abstract specification: what a recorded promise of a payout is worth to its payer and its payee |
| `OnboardingBridge` | `Next` over these entry points, the properties; refines `PromisedPayouts` twice, by its deposits and by its commitments |
| `BridgeAuthEntry` | `verify_auth_entry` beside the rest of the contract |
| `MCOnboardingBridge`, `MCGovernance` | small instances for TLC |
| `UpgradeNotice` | abstract specification: what the upgrade events promise, and what retiring the contract ends |
| `BridgeUpgrade` | `upgrade`, `schedule_upgrade`, `execute_upgrade`, `cancel_upgrade` and the deactivation by `emergency_migrate`; refines `UpgradeNotice` |
| `BridgeLemmas`, `OnboardingBridgeProofs` | proofs: lemmas; types and backing |
| `BridgeSafetyProofs`, `BridgeFlowProofs` | proofs: records, registry, surplus, deactivation; what a call takes, charges and pays, promised payouts |
| `BridgeUpgradeProofs`, `BridgeAuthEntryProofs` | proofs |

Each module extends the previous one; an action is one call of one entry
point, with the code's checks as guards and its updates composed in the code's
order. How state corresponds:

* `config` is `BridgeConfigData` with the single-valued instance keys; `lists`,
  `fee_cap`, `counters` (`AssetCounters`), `reserve`, `nonces`, `relayers`,
  `used_nonces` and `meta` are the keys of the same purpose; `usage` gathers the
  four keys indexed by source and asset; `timelocks` and `commitments` are
  sequences because ids are consecutive. A cancelled commitment is `None`.
  `auth_nonce` and `used_auth_nonces` are the keys `AuthNonce` and `UsedAuthNonce`.
* `balance` is kept by the token contracts (external). A transfer that overdraws or
  overflows traps, hence the guards `BalancesFit` and `balance[..] >= amount`.
* `published` counts the four events that announce one-shot payouts. No guard
  reads it: it is what an observer sees.
* `ledger` has a timestamp and a sequence number that advance together.

Deliberate abstractions: a call that fails is a call that does not happen, so error
codes are absent; hashes and signatures are represented by what they bind (a
commitment's `amount_hash` by the amount, relayer signatures by the set of keys that
signed exactly this call, a meta signature by its parameters); the commitment's
preimage nonce is left out; `cliff_time`, which no entry point reads, is left out;
swap pools pay any amount they own, and the contract's own minimum is the only
guarantee; the re-entrancy guard is invisible because calls are atomic; a target is
never the bridge itself, and neither is the destination of a reclaim (such a reclaim
moves nothing), which is any other account. `BridgeUpgrade` omits the optional call nonce, which
`BridgeAdmin` models for the other administrative calls.

### The relayer

| module | models |
|---|---|
| `RelayerConfig` | `validateEnv`, the nodes `main` builds, what a local key or a signer service answers, the deduplication of signatures |
| `SourceChain` | blocks with a confirmation depth and reorganisations, or finalised transactions (external) |
| `RelayerService` | `handleEvent`, `processEvent`, `retryDeadLetters`, `NonceStore`, `DeadLetterQueue`; the Stellar ledger (external); crashes |
| `EthListener` | `pollOnce` with its timer, `BlockStore` |
| `SolanaListener` | connection, backfill, notifications, delivery queue, `extractBridgeFundEvents`, `SolanaSignatureStore` |
| `RelayedPayouts` | abstract specification: what the relayer owes the contract |
| `Relayer` | the process, its faults, fairness, the properties; refines `RelayedPayouts` |
| `MCRelayer` | scenarios for TLC |
| `RelayerProofs` | proofs |

JavaScript is one thread, so an action is one stretch between two awaits. A *task* is
one `pollOnce` or one delivery queue that is running; `call[c]` is what the task, or
the dead-letter sweep, awaits of `handleEvent`: `joined` is the promise found in
`inFlight`, `signing` lasts until the signatures are in, and `sent` from
`sendTransaction` to its answer. `nonces`, `dlq`, `stored` and `checkpoint` are the
four files; the rest of the process state is lost in `Crash`, which may also fall
between the two writes of `enqueue` and between `nonces.mark` and `remove`. `mempool`
and `paid` are what the ledger knows. Ghosts, read by no code: `submitted`, `lost`,
`origin` and `missed`; `extracts` tabulates `extractBridgeFundEvents`. Its expression for
the runtime's line that opens a frame (1169) also matches what a program logs as
`invoke [1]` (the line `Program log: invoke [1]`); no program of the model logs that.

Signer answers are decided by which services are `reachable`, which does not change
during a behaviour. A payload is its event; signatures are keys. One listener runs at a
time (its environment's options decide which); a deposit's worth (`fate`) is fixed. A
poll whose requests fail changes nothing and is left out unless it held `latest`. The
code's five attempts are `RetryLimit`; delays between retries are abstracted, the sweep
takes any non-empty set of entries that are due.

### The SDK

| module | models |
|---|---|
| `ContractAbi` | the entry points' parameters, from `lib.rs` |
| `SdkMethods` | one record per method: account, checked inputs, encoded arguments, requests |
| `SdkClient` | the requests of one call with retries, batches, confirmation, results, tracing spans; the network (external) |
| `SdkCache` | `InMemoryCache`, the cached reads, invalidation at submission and after confirmation |
| `EventSubscriber` | `on`, `destroy`, `fetchAndDispatch`, `parseEvent`, `dispatch` |
| `SubmittedBatches` | abstract specification: what an application may rely on when it submits calls |
| `Sdk` | an application that uses these, fairness, the properties; refines `SubmittedBatches` |
| `MCSdk` | applications for TLC |
| `SdkProofs` | proofs |

`bridge.ts` has about forty mutations of the same shape, `withTransactionHooks` around
getAccount, build, prepareTransaction, sign and sendTransaction; what distinguishes them
is data, so each is a record and the requests are one set of actions over `call[c]`:
`stage` is the request that is under way, `attempt` the retry it is at, `chunk` the
chunk of a batch. An argument is named for the contract parameter its value is meant
for, so that swapped or missing arguments show against `ContractAbi`. A transaction is
identified by its call, chunk, account and sequence number: a rebuilt one is another
transaction. Values of arguments are reduced to well-formed or malformed (`bad`) and
given or not (`given`); `toScVals` is modelled where it fails (`EncodedTwice`), and
otherwise by the type it gives a value; waiting between retries and polls is left out.

## 3. Runs

Every property has a mutant in `PROJECT.json`: an operator defined before the one it
mutates, with the bug it stands for in a comment. No run uses symmetry.

### The contract

Rates are out of a denominator of 2 or 4 with a maximum of one half, so that a fee on
1 to 4 units is rounded down, is zero, or is not. Amounts include zero and minus one,
which the contract must refuse. Each run takes the part of `Next` its question is
about; together they take every entry point.

| run | question | bounds |
|---|---|---|
| `custody` | Does the bridge always hold what it owes (`RingFenced`), does `locked_timelock` equal the unclaimed entries (`LockedIsOutstanding`), can every matured deposit be claimed whenever recovery is allowed (`MaturedIsClaimable`), does a pause freeze users (`PauseFreezesUsers`)? | one asset that is also the loyalty token, two deposits of 1 to 3, three ledgers, 5 tokens, stray transfers and every reclaim, to any account |
| `fees` | Is every unit accounted for (`SurplusExplained`) and within the cap (`FeesWithinCap`) on all four immediate paths? | two assets, a pool, a batch of two, two-tier lists, one of them invalid |
| `access` | Do daily limits and access lists hold across commit/reveal, timelocks, batches and a change of day? | two targets, a day of one second, two days, one stray unit and its reclaim to a target |
| `oneshot` | Do deposits and commitments implement `PromisedPayouts` (`PayoutsAsPromised`)? Is each attestation, reveal and signed nonce paid once as recorded (`PaidOnceAsRecorded`), from what the bridge holds for it (`RingFenced`), with a reachable threshold (`ThresholdReachable`)? | three relayers, two foreign transactions, two signed nonces, one deposit, one commitment |
| `governance` | Do fees reach the collector of the moment, is deactivation final, and does the authorization counter name the lowest free nonce (`AuthNonceIsLowestUnused`)? | both roles change among two accounts; call nonces replayed; `initialize` with and without a nonce; two authorization nonces, two windows |
| `upgrade` | Does the upgrade protocol implement `UpgradeNotice`, which deactivation seals (`GivesNotice`)? | three hashes, timelock 2, window 2, 8 ledgers: a schedule can lapse and be redone |
| `loyalty` | (violation) finding 1 | |
| `upgrade_replaced` | (violation) finding 2 | |

The bounds are enough for the interleavings the properties are about: two deposits
are needed for one to be paid from the other, two targets for a batch to be half
refunded, three relayers for a threshold of two to survive one removal, two days for
the limit to renew, and a third hash for a replaced schedule to differ from both the
running and the announced code. No fairness is assumed of the contract's callers:
nothing happens unless somebody calls. `MaturedIsClaimable` says, instead, that the
claim is *enabled*. These runs do not check for deadlock: a bounded clock and bounded
numbers of deposits end every behaviour.

### The relayer

| run | question | bounds |
|---|---|---|
| `relayer` | Is every payout backed by a final deposit (`PayoutsAreBacked`), is nothing below a cursor unaccounted for (`EthAccounted`, `SolanaAccounted`), is no event processed twice at a time (`OneProcessing`), submitted without its signatures (`SubmissionsAreSigned`) or dropped from the dead letters (`DeadLetterKept`)? Does what it sends and marks implement `RelayedPayouts` (`RelaysPayouts`)? Do deposits settle (`DepositsSettle`) and retries end (`RetriesEnd`)? | two deposits, two concurrent polls or delivery queues besides the sweep, three positions, one confirmation, ranges of two blocks, two attempts; nine scenarios: three on Ethereum, four on Solana, and two that `validateEnv` refuses |
| `signers` | (violation) finding 3 | |

Two tasks are what it takes for polls or queues to overlap; a third would only repeat
the second. With three positions and one confirmation a deposit can be mined, replaced
and mined again, two ranges can be queried, and a cursor can move back. Two attempts
distinguish the first failure, a retry and the last. Each fault of a scenario (a crash,
a failed poll or backfill, a disconnect) happens at most once: one per behaviour reaches
every gap between two writes and every state of the other task. Failed submissions
and lost answers are not bounded.

`Fairness` is weak fairness of the event loop (`Work`) and of the retry timer
(`Retry`). Timers fire, every request is answered or times out (the signer requests have
a timeout, `fetch` and WebSocket errors reject or close), and Node runs whatever is
ready, so the process does not stand still while it can move. Nothing is assumed of the
chains: blocks, reorganisations and ledgers may come or not. `DepositsSettle` takes a
deposit that is confirmed; the cases where the code does lose one are in its conclusion:
a later `latest` (below), or the Solana gap (`missed`). Deadlock is not checked: after
`MaxHead` the chain stops and the relayer has nothing left to do.

### The SDK

| run | question | bounds |
|---|---|---|
| `sdk` | Does every method but one encode what the contract takes, and which one never asks (`EncodesAbi`)? Does a call take effect once (`EffectOnce`) and report the truth (`ReportsAreTrue`)? Do chunks go in turn (`NonceInTurn`), implement `SubmittedBatches` (`SubmitsBatches`) and each get a result (`ResultPerChunk`)? Do spans end (`SpansEnd`), calls end (`CallsEnd`)? Are cached values young (`CacheAge`) and own writes visible (`OwnWritesShow`)? Is no event skipped (`NoEventSkipped`), and do all arrive (`EventsArrive`)? | one call of every method with all, no and each malformed input; batches of two and three chunks; two concurrent calls of one account; one retry; a cache of one entry for two keys and two readers; three events, one unreadable, pages of two, two fetches |
| `lost_answers` | (violation) finding 4 | |

Applications use the parts that the question needs, so the run is a union of small
graphs and not their product. One retry exposes a rebuilt or repeated transaction; the
third chunk shows that a failure stops all that follow; a page of two makes the
third event need a second fetch, and two fetches overlap in every order.

Fairness: each request is answered once the network stops disturbing it
(`WF Proceed(c)`; a disturbance is bounded by the retries, or is repeated polling of
`getTransaction`); a transaction in the pool is included or expires (its time bound);
the subscriber's timer ticks (`WF Poll`); and a node that is asked for events again and
again answers again and again (`SF Events`), without which `EventsArrive` is false for
the simple reason that every request fails. `CallsEnd` excludes confirmation of a
transaction that expired: `waitForContractReturnValue` polls for it without end.
Deadlock is not checked: an application may be done.

### Findings

1. `mint_loyalty_tokens` (1369-1388) sets aside accrued fees and locked deposits but
   not the cross-chain reserve. When the loyalty token is also a reserve asset, a
   reward spends the reserve while its counter stays, and a later
   `fund_c_address_crosschain` is paid out of locked deposits, although "Payouts debit
   this reserve, not accrued fees or timelocked funds" (4048). `RingFenced` is
   therefore stated for the other assets. Run `loyalty` shows the loss.
2. `schedule_upgrade` (3091) replaces a pending upgrade, although its documentation
   (3025) asks for `cancel_upgrade` first. Run `upgrade_replaced`. `GivesNotice`
   shows that the replacement does get the full notice.
3. `requestRemoteSignature` (`src/relayer/index.ts:91`) sends no `Authorization`
   header, and the signer service answers 401 without one
   (`src/relayer/signer-service.ts:60`). In the custody that the code recommends no
   signature is ever collected, and every event becomes a dead letter. Run `signers`.
   The scenarios of run `relayer` use in-process keys for that reason.
4. When `sendTransaction` was accepted but neither of its answers arrived, the caller
   gets status `failed` with the hash `''` (`src/sdk/src/bridge.ts:298`), which
   `types.ts:726` reserves for transactions that were never submitted. Run
   `lost_answers`. A caller who repeats such a call pays twice. `EffectOnce` shows
   that the SDK's own retry does not.

Met while modelling, without a run.

Contract:

* `remove_relayer` refers to an undeclared `was_registered` (4295); the model takes the
  evident meaning. `batch_fund_c_address` reports an oversized batch as
  `TooManyFeeTiers`. A proposal made by a former administrator survives `set_admin`.
* `emergency_migrate`, `register_meta_signer` and `cancel_commitment` do not extend the
  instance TTL, although the header (11-16) says that every state change does.
* A deposit larger than i128's maximum divided by the rate could be locked but not
  claimed until the rate is lowered, because `calculate_fee` multiplies first; the runs'
  amounts stay below that.
* `verify_auth_entry` documents `AuthNonceAlreadyUsed` for a replay (5000), but the
  check before it (1058) always answers `DuplicateNonce`: `AuthNonceCorrect` shows that
  the used set never holds the nonce the counter names.

Relayer (`src/relayer/index.ts`):

* A payout that is answered PENDING is marked as handled (615); if it then fails or
  expires on the ledger (`Expire`), nobody retries it. `MarkedIsSubmitted` says
  submitted, not paid.
* A submission answered DUPLICATE, while the first one is in flight, comes back as failed;
  the event is dead-lettered until the ledger's nonce settles the matter (`Replayed`).
* Overlapping first polls each resolve `latest` (747-756), and the later answer moves
  the cursor past blocks that the first had promised to watch; deposits in between are
  lost. The ghost `origin` is the block that was resolved last.
* What Solana finalises between the backfill's listing and the subscription, or on a
  fresh install before the subscription, reaches neither (`missed`).
* `enqueue` (235-258) persists the queue without the entry before it persists it
  with it: a crash in between loses the event (`lost`).

SDK (`src/sdk/src`):

* `getWhitelistedAssets` always throws. It hands `buildSimulationTx` arguments that are
  ScVals already (`bridge.ts:3122`); `toSingleScVal` takes an ScVal, which has a method
  `value`, for a `{ value, type }` pair (`encoding.ts:56`) and converts the method, which
  fails without its object. The unit test (`__tests__/bridge.test.ts:1488`) replaces
  `nativeToScVal` and does not see it. `EncodesAbi` says that no other method does this.
* `events.ts` 240-243 promises a self-scheduling `setTimeout`, but `startPolling` (374)
  uses `setInterval`: fetches overlap, events are dispatched twice and the cursor can
  move back. From `now`, each poll starts at the ledger of that moment until one
  answers with an event, so events between the answers of two such polls are skipped.
  `NoEventSkipped` therefore speaks of what follows `origin`, a ghost: the start of
  the subscription, or what precedes the latest first answer to a poll from `now`.
  `on` is cut off in the middle of a comment before it returns its unsubscribe function.
* `bridge.ts` 921 says that a batch goes on with the remaining chunks after a failure; a
  batch with nonces stops (`FailedChunkIsLast`), as it must. 923 says that it never
  throws; a malformed nonce or deadline throws (`Unconverted`).
* A read of the cache that is under way when a mutation is confirmed may fill in the
  old value afterwards (`late` in `OwnWritesShow`), for at most one lifetime.

## 4. Proofs

Every safety property that a run checks is also a theorem, for every value of the
constants, except `MaturedIsClaimable`, whose content is proved without `ENABLED` (below).
Among them are the refinements of the four abstract specifications. In parentheses is
the property that TLC checks on the small instance, where its name is not that of
the theorem without its first word. "No run" marks what is proved only.

| module | theorems, `Spec => []...` or `Spec => [][...]_vars` |
|---|---|
| `OnboardingBridgeProofs` | `BridgeTypeCorrect` (`TypeOK`), `BridgeRingFenced` (`RingFenced`), both for the full `Next` |
| `BridgeSafetyProofs` | `BridgePaysOnce` (`PaidOnceAsRecorded`), `BridgeThresholdReachable`, `BridgeDeactivationIsFinal`, `BridgeExplainsSurplus` (`SurplusExplained`) |
| `BridgeFlowProofs` | `BridgeFeesWithinCap`, `BridgeFeesLeaveToCollector`, `BridgeLockedIsOutstanding`, `BridgeHoldsDeposits` (no run: `DepositsHeld`), `BridgeClaimsGoThrough` (no run: `ClaimsGoThrough`), `BridgePauseFreezesUsers`, `BridgeOutflowWithinLimit`, `BridgeDeniedReceiveNothing`, `BridgePaysAsPromised` (`PayoutsAsPromised`: deposits and commitments implement `PromisedPayouts`) |
| `BridgeUpgradeProofs` | `UpgradeGivesNotice` (`GivesNotice`: implements `UpgradeNotice`), `UpgradeFrozenOnceDeactivated` (no run) |
| `BridgeAuthEntryProofs` | `AuthNonceCorrect` (`AuthNonceIsLowestUnused`) |
| `RelayerProofs` | `RelayerProcessesOnce`, `RelayerMarksSubmitted` (no run: `MarkedIsSubmitted`), `RelayerKeepsDeadLetters`, `RelayerTypeCorrect`, `RelayerSignsSubmissions`, `RelayerReadsOwnFrames` (no run: a fact about logs), `RelayerPayoutsAreBacked`, `RelayerAccountsForBlocks` (`EthAccounted`), `RelayerAccountsForTransactions` (`SolanaAccounted`), `RelayerRelaysPayouts` (implements `RelayedPayouts`) |
| `SdkProofs` | `SdkTypeOK`, `SdkEncodesAbi`, `SdkEffectOnce`, `SdkReportsAreTrue`, `SdkNonceInTurn`, `SdkFailedChunkIsLast` (no run), `SdkResultPerChunk`, `SdkSpansEnd`, `SdkCacheAge`, `SdkOwnWritesShow`, `SdkNoEventSkipped`, `SdkSubmitsBatches` (implements `SubmittedBatches`) |

`BridgeLemmas` holds what these rest on about fees, transfers, counters and sums.

### Assumptions

All are named in the module that declares the constant, and TLC evaluates them.

* Contract. `FeeConstants`, `StateConstants`, `AuthConstants`: the types of the
  parameters, `MAX_FEE_BPS` at most `FEE_DENOMINATOR`, `Bridge` not an account, a window
  of commit and reveal that is not negative, the accounts of a role are accounts.
  `NoneIsNoEntry`, `NoneIsNoTerms`, and `None` elsewhere: it is not a value.
  `UpgradeConstants`: ledger numbers stay so far from the u32 limit that `saturating_add`
  is addition.
* Relayer. `ChainConstants`: finitely many deposits, a depth that is a number.
  `RangeConstant`, `RetryConstant`: `MAX_BLOCK_RANGE` and the number of attempts are
  positive (constants of the code). `ScenarioConstants`: a scenario is one of the
  environments and faults defined. `OneChain`: there is one source chain in the model, so
  a scenario watches it as one of the two kinds.
* SDK. `ClientAssumption`, `CacheAssumption`, `SubscriberAssumption`: types, a cache of
  at least one entry, a page of at least one event. `ApplicationConstants`: requests name
  methods of the SDK, and only a batch has several chunks. `NoncesOfOneCall`: two calls
  are not given nonces of the same account, because `nonce[a]` counts from the first
  one a call is given; the contract would refuse one of two such calls.

### The contract

`BridgeInv` is `TypeOK`, `RingFenced` and `ReserveWhereFunded` (an asset outside
`ReserveAssets` has an empty reserve). `RingFenced` alone is not inductive: a loyalty
reward leaves the bridge with accrued fees and locked deposits only, which covers what is
owed just when the reserve is empty. For each entry point a lemma `...Keeps` shows that
what the bridge holds and what it owes change by the same amount; `SettleKeeps`
states this once for every path that charges a fee, from `FeeBounds`, `TierBounds` and
`CapBounds`. The same lemmas give `SurplusKept`, hence `SurplusExplained`.

* *Sums.* Batches and `OutstandingAmount` are added up by `Total`, a recursive function.
  `PartialSums` are the values of the accumulator; that they exist and that `Total` is the
  last of them is shown with `UpToBound`, induction up to a bound as a statement about a
  set of numbers. `TotalAppend`, `TotalExcept`, `TotalBounds` and `TotalInProportion` follow.
* `LockedIsOutstanding` is inductive with `TypeOK`: `Open` is what each entry still locks,
  a deposit appends a term, a claim turns one to zero. `DepositsHeld` follows from it and
  `RingFenced`: a claim never lacks the tokens.
* `PaidOnceAsRecorded` is `AsRecorded` over all payouts: every step either
  `PaysNothing` or `Pays` exactly one payout that was not recorded before.
* `ThresholdReachable` needs `RegistryInv`: the registry is finite, and its threshold is
  one while it has no key.
* `FeesWithinCap`, `FeesLeaveToCollector`: every step leaves the counters, or is
  `ChargedTo` them, or withdraws.
* `OutflowWithinLimit`, `DeniedReceiveNothing`, `PauseFreezesUsers` are about balances.
  `reclaim_tokens` checks neither the lists nor the pause, so the last two allow for
  it: it pays anyone, but only what the bridge holds for nobody (`FromSurplus`, lemma
  `ReclaimEffect`).
  `Debited` and `Credited` describe every transfer, and each entry point either leaves
  every outsider's balance alone or `OnlySpends` one source's, by what it `Counts` as
  used. They rest on `RolesNamed` (who is administrator or collector was named an
  operator) and `CommittersFund` (who committed is a source). A whitelisted pool
  that is also a source or a target is left out of the first two: a swap moves a
  pool's tokens whatever its limit or its standing as a target. The proof attempt showed
  that, where the instances of the runs had no such account.
* `ClaimsGoThrough` is what `MaturedIsClaimable` says, for every value of the constants
  and without `ENABLED`: the arithmetic and the transfer of `claim_timelocked` succeed for
  every unclaimed deposit. The other guards are that it is unclaimed and released, and
  the pause: `MaturedClaimSteps` shows that the claim is then a step. `RoomForClaim` is the
  hypothesis that the numbers the claim adds to do not reach the end of an i128: the product of
  amount and rate, the lifetime totals, the target's balance. An asset that is both the
  loyalty token and a reserve asset is excluded, because of finding 1.
* `PayoutsAsPromised` maps a deposit to a promise of the bridge to the target that opens at
  `release_time` and never closes, and a commitment to one of its source that opens a number
  of ledgers after it was made and closes at `deadline`. Every entry point either leaves both
  records alone (`Elsewhere`) or is one of make, keep and withdraw for one of them and
  `Elsewhere` for the other. The abstract `Settles` speaks of every account, so the proof of
  a claim or a reveal goes through what it does to each holder.

**Upgrades.** `UpgradeInv` adds to the types `ScheduledAsAnnounced`: what storage
says is pending is what the last event announced, executable exactly
`UPGRADE_TIMELOCK_LEDGERS` after it and for the length of the window. The contract is
sealed when it is deactivated, and no abstract action but the clock is possible then.

**Authorization nonces.** The used pairs of a source are exactly those below its
counter. The property alone would allow a used nonce above the counter, which the
counter would run into.

### The relayer

* `ServiceInv` is `OneProcessing` and `MarkedIsSubmitted` with the shape of `call`; what
  is in `mempool` or `paid` was submitted; and so was the event of a caller at stage
  `sent`. `OneProcessing` is what makes `Finish` safe: awakening everyone who awaits an
  event ends one processing only. The listeners and the chain touch these variables
  through `HandleEvent` alone, so one lemma serves polls, queues and the sweep.
  `DeadLetterKept` needs only the guards of the four places that write `dlq`.
* `SignedInv`: the environment was accepted by `validateEnv`, so its threshold is
  positive, and a caller at stage `sent` holds as many distinct keys. What
  `CollectSignatures` returns has no duplicates although services may share a key.
* `RelayerReadsOwnFrames`: reading a log line by line keeps a stack of the programs that
  run, and only a line printed while the bridge is on top counts. `Readings` is the
  run of that stack, `Printed` and `Concatenates` describe the log of several deposits.
  `ExtractsInv` uses it once, in the initial state.
* `EthInv`: neither the cursor nor its copy on disk has passed a deposit since `origin`
  that is not settled, and a poll that handles `from..to` asked for confirmed blocks,
  above settled ones, and has every deposit of its range `InHand`. The bound by the head
  matters: a cursor beyond it would let a new block be mined behind it.
* `PayInv`: whatever a listener, a caller, the sweep or the dead letters hold is
  confirmed and was printed by the bridge; what is confirmed stays.
* `RelaysPayouts`: what is genuine and confirmed is final, `mempool` is what was sent, and
  the nonce store is what counts as handled. `RelaysInv` needs, besides `PayInv`, that
  nobody processes an event whose nonce is marked (`Unhandled`): the check of the nonce is
  made long before the send, so only the in-flight map keeps a second task from sending
  what the first has marked in between.
* `SolanaInv`: `QueueAccounts` for each delivery queue, whether its connection lives or
  not, and `SocketAccounts` while a subscription is awaited. Queues of successive
  connections overlap and all write `lastSignature`, so each has to account for
  everything below its own place, not only for its own part.

### The SDK

* `Requested`: what the application asked for stands, and each method is one of three
  shapes (`Submits`, `SubmitsCached`, `Asks`). `EncodesAbi` is then one fact per
  method, `Matches`, and one on optional arguments; that `getWhitelistedAssets` alone
  stops at its conversion is `ConversionInv`, which rests on `ClientInv`.
* `ClientInv` has five parts. `CallsSound`: each call is at one of its requests, with
  the transaction of its own chunk and results of the chunks before. `Told`: each result
  says what happened. `Accepted`: what the network accepted is, chunk by chunk, the
  one transaction the call holds or held; none was accepted before it was sent. `Numbered`:
  the contract's nonce is the chunk's, or one less until it is applied. `SpansFollow`.
  A step of a call is first described by itself (`Steps`: the next state is sound,
  `Carried` says which transaction it holds, `Spanned` what it does to spans), then with
  the network's part (`Delivered`), and one lemma per part of `ClientInv` combines them.
* `EffectOnce` is not inductive without `Unsubmitted`: a transaction is rebuilt only at stages
  where the one held was not accepted.
* `SubmitsBatches`: a chunk is its call and its number, so the abstract batch does not see
  that a transaction was rebuilt. `Adds` says what a step does to the results of a call:
  it adds some at the end, or replaces a pending one, and each that is not `failed`
  carries the transaction of its own chunk (`Labelled`). `BatchInv` adds that the chunks
  before the one a call is at have been applied, if they have nonces, and that nothing in the
  pool has an outcome: a transaction is applied once.
* `CacheInv` says of each entry (`Shelf`) that it expires a lifetime after it was filled,
  and is older than the confirmed configuration only if `late`; and of each read
  (`UnderWay`) that it will not fill in anything worse.
* `SubscriberInv`: everything from `origin` to the cursor, and to the start of each
  request under way, was dispatched. Answers may then arrive in any order: each
  starts at a place up to which all was shown.

**Only model-checked.** Liveness: `DepositsSettle`, `RetriesEnd`, `CallsEnd` and
`EventsArrive` rest on fairness, which this prover does not handle. `MaturedIsClaimable` says
`ENABLED`, which it does not handle either; `DepositsHeld` proves that the funds are there,
`ClaimsGoThrough` that nothing traps. The four
expected violations are counterexamples and need no proof.

## 5. Not modelled

* **Indexer.** As committed it can neither be compiled nor store what it is for, and a
  model would have to invent the meaning. `poll_once` in `src/indexer/src/poller.rs`
  (165-240) interleaves two versions of its loop body. The only migration, 0001, does not
  create the column `secret` that the insertion of a subscription and the fan-out of an
  event (`src/indexer/src/db.rs:153`) name, so both fail. `retry_delivery` and
  `list_deliveries` are not routed. The hazards it will meet are listed without a
  property.
* **Storage TTL** of the contract and its entry points: no modelled check reads a TTL,
  and the ledger restores an archived entry on demand.
  **Queries** of the contract: they change nothing.
* **Relayer:** a failing write to disk, `removed` logs, RPC nodes that lag behind one
  another, the health endpoint, and two listeners in one process (they share only the
  service, and their events have different keys).
* **SDK:** progress callbacks, abort signals, the console logger, the composition of
  hooks, the decoding of answers, batches of no recipients, the off-ramp (quotes fetched
  over HTTP, no state).
* **Scripts and deployment:** no state of interest.

## 6. Plan

The models, the runs and the safety proofs of sections 2 to 4 are done. What is left:

1. When the indexer compiles: its poller, transactional fan-out and deliveries, with an
   abstract at-least-once delivery as its specification.
2. When `upgrade_replaced`, `signers`, `lost_answers` or `loyalty` is repaired in the code:
   the repaired handler, with the violated property as a checked one, and its proof.
