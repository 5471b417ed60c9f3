------------------------------- MODULE Relayer -------------------------------
(* The relayer process: the service, the listener its environment sets up,   *)
(* the source chain it watches, and crashes.                                 *)
EXTENDS EthListener, SolanaListener

CONSTANT
    Scenarios   \* [env, fate, resumes, faults]: an environment, what the deposits turn
                \* out to be worth, whether an earlier run left its position on disk,
                \* and the faults that may happen, each once

VARIABLE faults   \* the faults that may still happen

Faults == {"crash", "failed poll", "failed backfill", "disconnect"}

ASSUME ScenarioConstants ==
    \A scenario \in Scenarios :
        /\ scenario.env \in Environment /\ scenario.fate \in [Event -> Worths]
        /\ scenario.faults \subseteq Faults

(* There is one source chain here. A relayer that watches both kinds runs    *)
(* two listeners, each on a chain of its own.                                *)
ASSUME OneChain ==
    \A scenario \in Scenarios :
        ~(Watches(scenario.env, "ETH_RPC_URL") /\ Watches(scenario.env, "SOLANA_WS_URL"))

vars == <<chainVars, serviceVars, ethVars, solanaVars, faults>>

TypeOK ==
    /\ head \in Nat /\ included \in [Event -> Nat \cup {NotMined}]
    /\ ServiceTypeOK /\ EthTypeOK /\ SolanaTypeOK
    /\ faults \subseteq Faults

Init ==
    /\ \E scenario \in Scenarios :
          /\ validateEnv(scenario.env)
          /\ env = scenario.env /\ fate = scenario.fate /\ faults = scenario.faults
          /\ EthInit(scenario.resumes) /\ SolanaInit(scenario.resumes)
    /\ ChainInit /\ ServiceInit

Chain ==
    /\ \/ \E deposits \in SUBSET Event : Mine(deposits)
       \/ Watches(env, "ETH_RPC_URL") /\ \E deposits \in SUBSET Event : Reorg(deposits)
    /\ UNCHANGED <<serviceVars, ethVars, solanaVars, faults>>

Stellar ==
    /\ \E e \in Event : Apply(e) \/ Expire(e)
    /\ UNCHANGED <<chainVars, ethVars, solanaVars, faults>>

(* What the process does by itself: each caller's promise, the sweep, the    *)
(* polls, the subscription and the delivery queues.                          *)
Promise(c) == ServiceStep(c) /\ UNCHANGED <<chainVars, ethVars, solanaVars, faults>>

Retry ==
    /\ StartSweep \/ \E e \in Event : RetryNext(e)
    /\ UNCHANGED <<chainVars, ethVars, solanaVars, faults>>

Ethereum(p) == EthStep(p) /\ UNCHANGED <<chainVars, solanaVars, faults>>

Subscription == (Subscribed \/ Notify) /\ UNCHANGED <<chainVars, ethVars, faults>>

Solana(q) == SolanaStep(q) /\ UNCHANGED <<chainVars, ethVars, faults>>

Crash ==
    /\ CrashBetweenSteps \/ \E c \in Caller : CrashInEnqueue(c) \/ CrashInMark(c)
    /\ EthRestart /\ SolanaRestart
    /\ UNCHANGED chainVars

Fault(kind) ==
    /\ kind \in faults /\ faults' = faults \ {kind}
    /\ \/ kind = "crash" /\ Crash
       \/ /\ kind = "failed poll" /\ \E p \in Task : PollError(p)
          /\ UNCHANGED <<chainVars, solanaVars>>
       \/ /\ kind = "failed backfill" /\ \E q \in Task : BackfillFails(q)
          /\ UNCHANGED <<chainVars, ethVars>>
       \/ /\ kind = "disconnect" /\ Disconnect
          /\ UNCHANGED <<chainVars, ethVars>>

(* The event loop.                                                           *)
Work ==
    \/ \E c \in Caller : Promise(c)
    \/ \E t \in Task : Ethereum(t) \/ Solana(t)
    \/ Subscription

Next == Work \/ Retry \/ Chain \/ Stellar \/ \E kind \in Faults : Fault(kind)

(* The event loop runs while it has work: timers fire, and requests are      *)
(* answered or time out. The sweep's timer fires too. The listeners'         *)
(* requests succeed in the end, since each fault happens once. Nothing is    *)
(* assumed of the chains.                                                    *)
Fairness == WF_vars(Work) /\ WF_vars(Retry)

Spec == Init /\ [][Next]_vars /\ Fairness

-----------------------------------------------------------------------------
(* What a deposit below the listener's position has become.                  *)
Settled(e) ==
    e \in nonces \/ e \in DOMAIN dlq \/ e \in lost \/ fate[e] \in Worthless

Confirmed(e) ==
    /\ included[e] # NotMined
    /\ Watches(env, "ETH_RPC_URL") => included[e] <= head - Confirmations

(* Every payout the contract made, or may still make, is backed by a genuine *)
(* deposit that can no longer be reorganised away (the confirmation depth of *)
(* pollOnce, and the frames of extractBridgeFundEvents).                     *)
PayoutsAreBacked ==
    \A e \in mempool \cup paid : Confirmed(e) /\ fate[e] = "payable"

(* The comment above BlockStore: a restart never skips a deposit. A deposit  *)
(* below the Ethereum cursor, in memory or on disk, has been handled, if it  *)
(* was made since the listener last resolved 'latest'.                       *)
EthAccounted ==
    \A e \in Event, position \in {cursor, stored} :
        included[e] # NotMined /\ origin <= included[e] /\ included[e] < position
            => Settled(e)

(* A deposit at or before the processed signature, in memory or on disk, has *)
(* been handled, unless no connection delivered it: it was finalised between *)
(* a backfill's listing and the subscription behind it.                      *)
SolanaAccounted ==
    \A e \in Event, position \in {lastSignature, checkpoint} :
        included[e] # NotMined /\ included[e] <= position /\ e \notin missed
            => Settled(e)

(* handleEvent's inFlight map: overlapping polls, delivery queues and the    *)
(* sweep never sign and submit the same event at the same time.              *)
OneProcessing ==
    \A c, d \in Caller :
        /\ call[c].stage \in {"signing", "sent"}
        /\ call[d].stage \in {"signing", "sent"}
        /\ call[c].event = call[d].event
        => c = d

(* A nonce is marked only for an event whose payout was submitted: across    *)
(* failures, lost answers and crashes no event is given up as handled while  *)
(* nothing was ever sent for it. (A payout that then fails on the ledger is  *)
(* not retried.)                                                             *)
MarkedIsSubmitted == nonces \subseteq submitted

Payouts ==
    INSTANCE RelayedPayouts WITH
        final   <- {e \in Event : Confirmed(e) /\ fate[e] = "payable"},
        sent    <- mempool,
        tried   <- submitted,
        handled <- nonces

(* What the nonce store, the in-flight map and the confirmation depth are    *)
(* for together: overlapping polls, retries, lost answers and crashes send a *)
(* payout only for a final, genuine deposit that is neither paid nor marked, *)
(* and mark a nonce only when its payout was sent.                           *)
RelaysPayouts == Payouts!RelaySpec

(* What fundCrosschain is given: exactly the threshold of signatures, all by *)
(* different keys.                                                           *)
SubmissionsAreSigned ==
    \A c \in Caller : call[c].stage = "sent" =>
        /\ Len(call[c].sigs) = env.threshold
        /\ Cardinality(Range(call[c].sigs)) = env.threshold

(* An event leaves the dead-letter queue only as handled; a crash while the  *)
(* file is rewritten is the one exception.                                   *)
DeadLetterKept ==
    [][\A e \in DOMAIN dlq : e \in DOMAIN dlq' \/ e \in nonces' \/ e \in lost']_vars

(* Every deposit that becomes final is handled in the end, through failing   *)
(* requests, reconnects and crashes, or falls before a later 'latest'.       *)
DepositsSettle ==
    \A e \in Event :
        /\ Confirmed(e)
        /\ Watches(env, "ETH_RPC_URL") => origin # Latest /\ origin <= included[e]
        ~> \/ Settled(e) \/ e \in missed
           \/ Watches(env, "ETH_RPC_URL") /\ ~(origin <= included[e])

(* A dead letter is retried until it is handled, its error is terminal or    *)
(* its attempts are used up.                                                 *)
RetriesEnd ==
    \A e \in Event : e \in DOMAIN dlq ~>
        \/ e \in nonces \cup lost
        \/ e \in DOMAIN dlq /\ (dlq[e].reason = "terminal" \/ dlq[e].attempts = RetryLimit)
=============================================================================
