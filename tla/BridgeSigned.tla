---------------------------- MODULE BridgeSigned ----------------------------
(* Funding in two phases (commit, then reveal) and funding on a signed       *)
(* message that a third party submits.                                       *)
EXTENDS BridgeCrossChain

untouchedBySigned ==
    <<ledger, config, lists, fee_cap, reserve, timelocks, relayers, used_nonces>>

(* amount_hash binds the amount and the parties and hides them; the model    *)
(* keeps the amount it is the hash of. No tokens move.                       *)
CommitFund(source, target, asset, amount_hash, deadline) ==
    /\ CheckNotPaused
    /\ ledger.timestamp < deadline
    /\ CheckAccess(target)
    /\ CheckAssetWhitelisted(asset)
    /\ Len(commitments) < MaxCommitments
    /\ commitments' = Append(commitments,
                             [source |-> source, target |-> target, asset |-> asset,
                              amount_hash |-> amount_hash, deadline |-> deadline,
                              committed_at_ledger |-> ledger.sequence, revealed |-> FALSE])
    /\ UNCHANGED <<balance, counters, usage, nonces, meta, published, untouchedBySigned>>

\* Mutant: the minimum delay is not checked.
RevealFundAtOnce(id, amount) ==
    LET entry == commitments[id]
    IN  /\ CheckNotPaused
        /\ entry # None
        /\ ~entry.revealed
        /\ ledger.timestamp <= entry.deadline
        /\ amount = entry.amount_hash
        /\ CheckAmount(amount)
        /\ CheckAccess(entry.target)
        /\ CheckAssetWhitelisted(entry.asset)
        /\ WithinDailyLimit(entry.source, entry.asset, amount)
        /\ commitments' = [commitments EXCEPT ![id].revealed = TRUE]
        /\ Deliver(entry.source, entry.target, entry.asset, amount)
        /\ usage' = AddVolume(CountDaily(usage, entry.source, entry.asset, amount),
                              entry.source, entry.asset, amount)
        /\ UsageFits(usage')
        /\ published' = [published EXCEPT ![<<"commitment", id>>] = @ + 1]
        /\ UNCHANGED <<nonces, meta, untouchedBySigned>>

(* Every check is made again at the reveal, against the lists, limits and    *)
(* rates of that moment.                                                     *)
RevealFund(id, amount) ==
    LET entry == commitments[id]
    IN  /\ CheckNotPaused
        /\ entry # None
        /\ ~entry.revealed
        /\ ledger.timestamp <= entry.deadline
        /\ ledger.sequence >= entry.committed_at_ledger + COMMIT_REVEAL_MIN_DELAY_LEDGERS
        /\ amount = entry.amount_hash
        /\ CheckAmount(amount)
        /\ CheckAccess(entry.target)
        /\ CheckAssetWhitelisted(entry.asset)
        /\ WithinDailyLimit(entry.source, entry.asset, amount)
        /\ commitments' = [commitments EXCEPT ![id].revealed = TRUE]
        /\ Deliver(entry.source, entry.target, entry.asset, amount)
        /\ usage' = AddVolume(CountDaily(usage, entry.source, entry.asset, amount),
                              entry.source, entry.asset, amount)
        /\ UsageFits(usage')
        /\ published' = [published EXCEPT ![<<"commitment", id>>] = @ + 1]
        /\ UNCHANGED <<nonces, meta, untouchedBySigned>>

CancelCommitment(id) ==
    /\ CheckNotPaused
    /\ commitments[id] # None
    /\ ~commitments[id].revealed
    /\ commitments' = [commitments EXCEPT ![id] = None]
    /\ UNCHANGED <<balance, counters, usage, nonces, meta, published, untouchedBySigned>>

-----------------------------------------------------------------------------
(* The key a source accepts signatures of; only whether it has one matters,  *)
(* a signature by any other key being refused.                               *)
RegisterMetaSigner(source) ==
    /\ CheckNotPaused
    /\ meta' = [meta EXCEPT !.signers = @ \cup {source}]
    /\ UNCHANGED <<balance, counters, usage, nonces, commitments, published, untouchedBySigned>>

UnregisterMetaSigner(source) ==
    /\ CheckNotPaused
    /\ meta' = [meta EXCEPT !.signers = @ \ {source}]
    /\ UNCHANGED <<balance, counters, usage, nonces, commitments, published, untouchedBySigned>>

(* The source's signature covers every parameter; anyone may submit it, more *)
(* than once.                                                                *)
ExecuteMetaFund(source, target, asset, amount, nonce, deadline) ==
    /\ CheckNotPaused
    /\ ledger.timestamp <= deadline
    /\ <<source, nonce>> \notin meta.used
    /\ CheckAmount(amount)
    /\ CheckAccess(target)
    /\ CheckAssetWhitelisted(asset)
    /\ WithinDailyLimit(source, asset, amount)
    /\ source \in meta.signers
    /\ meta' = [meta EXCEPT !.used = @ \cup {<<source, nonce>>}]
    /\ Deliver(source, target, asset, amount)
    /\ usage' = AddVolume(AddDeposit(CountDaily(usage, source, asset, amount),
                                     source, asset, amount), source, asset, amount)
    /\ UsageFits(usage')
    /\ published' = [published EXCEPT ![<<"meta", <<source, nonce>>>>] = @ + 1]
    /\ UNCHANGED <<nonces, commitments, untouchedBySigned>>
=============================================================================
