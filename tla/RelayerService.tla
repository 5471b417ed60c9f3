---------------------------- MODULE RelayerService ---------------------------
(* The relayer's service: the events it is handling, the store of handled    *)
(* nonces and the dead-letter queue, which survive a restart, and the        *)
(* Stellar ledger the payouts are submitted to.                              *)
(*                                                                           *)
(* The service is one JavaScript thread. A caller, a listener's poll, its    *)
(* delivery queue or the dead-letter sweep, hands over an event and awaits   *)
(* it; between two awaits a step is atomic.                                  *)
EXTENDS RelayerConfig, SourceChain

CONSTANTS
    Task,         \* polls or delivery queues that may run at the same time
    RetryLimit    \* attempts after which a dead letter is left alone; the code's 5

ASSUME RetryConstant == RetryLimit \in Nat \ {0}

VARIABLES
    env,       \* the environment validateEnv accepted
    reachable, \* the signer services that answer
    fate,      \* what a deposit is worth: "payable", "refused" by the contract,
               \* "invalid" to the service, "malformed" to the listener, or
               \* "forged" by another contract or program
    call,      \* what each caller awaits: [event, stage, sigs]
    sweep,     \* dead letters the running sweep has yet to hand over
    nonces,    \* NonceStore: events never handled again
    dlq,       \* DeadLetterQueue entries, by event: [attempts, reason]
    mempool,   \* submitted payouts the ledger has not closed over
    paid,      \* events whose nonce the contract has consumed
    submitted, \* ghost: events a payout was ever sent for
    lost       \* ghost: events a crash took out of the queue while it was rewritten

settings    == <<env, reachable, fate>>
stellarVars == <<mempool, paid, submitted>>
serviceVars == <<settings, call, sweep, nonces, dlq, stellarVars, lost>>

Sweep  == "sweep"
Caller == Task \cup {Sweep}
Idle   == [event |-> None, stage |-> "idle", sigs |-> <<>>]

\* Fates no payout can be made for: nothing is lost when they are skipped.
Worthless == {"invalid", "malformed", "forged"}
Worths    == {"payable", "refused"} \cup Worthless

Reasons == {"insufficient", "failed", "terminal"}

ServiceTypeOK ==
    /\ env \in Environment /\ env.threshold >= 1
    /\ reachable \subseteq DOMAIN Nodes(env)
    /\ fate \in [Event -> Worths]
    /\ call \in [Caller -> [event : Event \cup {None}, sigs : Seq(Key),
                            stage : {"idle", "joined", "signing", "sent"}]]
    /\ DOMAIN dlq \subseteq Event
    /\ \A e \in DOMAIN dlq : dlq[e] \in [attempts : 1..RetryLimit, reason : Reasons]
    /\ sweep \cup nonces \cup mempool \cup paid \cup submitted \cup lost \subseteq Event

ServiceInit ==
    /\ reachable \in SUBSET {i \in DOMAIN Nodes(env) : Nodes(env)[i].custody = "remote"}
    /\ call = [c \in Caller |-> Idle]
    /\ sweep = {} /\ nonces = {} /\ lost = {}
    /\ mempool = {} /\ paid = {} /\ submitted = {}
    /\ dlq = [e \in {} |-> [attempts |-> 1, reason |-> "failed"]]

-----------------------------------------------------------------------------
(* The dead-letter queue                                                     *)

Attempts(e) == IF e \in DOMAIN dlq THEN dlq[e].attempts ELSE 0

Lesser(a, b) == IF a <= b THEN a ELSE b

(* enqueue: replaces an entry of the same event, counting its attempts.      *)
(* Counts beyond the limit are not told apart.                               *)
Enqueue(e, reason) ==
    dlq' = [f \in DOMAIN dlq \cup {e} |->
              IF f = e THEN [attempts |-> Lesser(Attempts(e) + 1, RetryLimit),
                             reason |-> reason]
              ELSE dlq[f]]

(* remove *)
RemoveEntry(e) == dlq' = [f \in DOMAIN dlq \ {e} |-> dlq[f]]

\* Mutant: the last attempt is not made.
LastAttemptSkipped(e) ==
    /\ e \in DOMAIN dlq
    /\ dlq[e].reason # "terminal"
    /\ dlq[e].attempts + 1 < RetryLimit

(* An entry a sweep may take, once its nextRetryAt has passed.               *)
Retriable(e) ==
    /\ e \in DOMAIN dlq
    /\ dlq[e].reason # "terminal"
    /\ dlq[e].attempts < RetryLimit

-----------------------------------------------------------------------------
(* Handling an event                                                         *)

InFlight == {call[c].event : c \in {d \in Caller : call[d].stage # "idle"}}

validateBridgeEvent(e) == fate[e] # "invalid"

\* Mutant: the nonce store is not consulted.
NonceNotChecked(e) == ~validateBridgeEvent(e)

(* An event that was handled before, or is invalid, is answered at once.     *)
Ignored(e) == e \in nonces \/ ~validateBridgeEvent(e)

Awaiting(e, stage) == [event |-> e, stage |-> stage, sigs |-> <<>>]

\* Mutant: the in-flight map is not consulted.
ProcessedTwice(c, e) ==
    /\ call[c].stage = "idle"
    /\ \/ Ignored(e) /\ UNCHANGED call
       \/ ~Ignored(e) /\ call' = [call EXCEPT ![c] = Awaiting(e, "signing")]
    /\ UNCHANGED <<settings, nonces, dlq, stellarVars, lost>>

(* handleEvent: an event in flight is awaited, not processed again.          *)
HandleEvent(c, e) ==
    /\ call[c].stage = "idle"
    /\ \/ Ignored(e) /\ UNCHANGED call
       \/ ~Ignored(e) /\ e \in InFlight /\ call' = [call EXCEPT ![c] = Awaiting(e, "joined")]
       \/ ~Ignored(e) /\ e \notin InFlight /\ call' = [call EXCEPT ![c] = Awaiting(e, "signing")]
    /\ UNCHANGED <<settings, nonces, dlq, stellarVars, lost>>

(* Everyone who awaits the event of c goes on.                               *)
Finish(c) ==
    call' = [d \in Caller |-> IF call[d].event = call[c].event THEN Idle ELSE call[d]]

DeadLetter(c, reason) ==
    /\ Enqueue(call[c].event, reason)
    /\ Finish(c)
    /\ UNCHANGED <<settings, sweep, nonces, stellarVars, lost>>

\* Mutant: only the dead letter is removed.
NonceNotMarked(c) ==
    /\ RemoveEntry(call[c].event)
    /\ Finish(c)
    /\ UNCHANGED <<settings, nonces, sweep, stellarVars, lost>>

(* The nonce is marked, then the dead letter is removed.                     *)
MarkHandled(c) ==
    /\ nonces' = nonces \cup {call[c].event}
    /\ RemoveEntry(call[c].event)
    /\ Finish(c)
    /\ UNCHANGED <<settings, sweep, stellarVars, lost>>

Signatures == CollectSignatures(env, reachable)
EnoughSigners == Len(Signatures) >= env.threshold

\* The signatures are in, and too few.
Insufficient(c) ==
    /\ call[c].stage = "signing" /\ ~EnoughSigners
    /\ DeadLetter(c, "insufficient")

\* The signatures are in, and fundCrosschain is called with the threshold of them.
Submitting(c) == call[c].stage = "signing" /\ EnoughSigners

(* The simulation against the ledger passed and the transaction is sent,     *)
(* whatever answer comes back.                                               *)
Send(c) ==
    /\ Submitting(c)
    /\ call[c].event \notin paid /\ fate[call[c].event] # "refused"
    /\ mempool' = mempool \cup {call[c].event}
    /\ submitted' = submitted \cup {call[c].event}
    /\ call' = [call EXCEPT ![c].stage = "sent",
                            ![c].sigs = SubSeq(Signatures, 1, env.threshold)]
    /\ UNCHANGED <<settings, sweep, nonces, dlq, paid, lost>>

\* Mutant: a failed submission counts as handled.
FailureMarked(c) == Submitting(c) /\ MarkHandled(c)

(* Nothing was sent: the RPC node failed, or the contract would refuse the   *)
(* call with an error whose name did not reach the relayer.                  *)
NotSent(c) == Submitting(c) /\ DeadLetter(c, "failed")

(* The simulation named the error ReplayedNonce: the payout was made before. *)
Replayed(c) == Submitting(c) /\ call[c].event \in paid /\ MarkHandled(c)

(* The simulation named an error that no retry can cure.                     *)
Refused(c) == Submitting(c) /\ fate[call[c].event] = "refused" /\ DeadLetter(c, "terminal")

(* The send was answered PENDING.                                            *)
Accepted(c) == call[c].stage = "sent" /\ MarkHandled(c)

(* The send, and its one retry, got no usable answer.                        *)
AnswerLost(c) == call[c].stage = "sent" /\ DeadLetter(c, "failed")

ServiceStep(c) ==
    \/ Insufficient(c) \/ Send(c) \/ NotSent(c) \/ Replayed(c) \/ Refused(c)
    \/ Accepted(c) \/ AnswerLost(c)

-----------------------------------------------------------------------------
(* Retrying dead letters                                                     *)

SweepRunning == sweep # {} \/ call[Sweep].stage # "idle"

(* retryDeadLetters takes a snapshot of what is due, unless one is running.  *)
StartSweep ==
    /\ ~SweepRunning
    /\ \E due \in SUBSET {e \in Event : Retriable(e)} : due # {} /\ sweep' = due
    /\ UNCHANGED <<settings, call, nonces, dlq, stellarVars, lost>>

(* It hands over one entry after the other.                                  *)
RetryNext(e) ==
    /\ e \in sweep
    /\ sweep' = sweep \ {e}
    /\ HandleEvent(Sweep, e)

-----------------------------------------------------------------------------
(* The Stellar ledger, external: a payout is applied once, or not at all.    *)
Apply(e) ==
    /\ e \in mempool
    /\ mempool' = mempool \ {e} /\ paid' = paid \cup {e}
    /\ UNCHANGED <<settings, call, sweep, nonces, dlq, submitted, lost>>

(* The payout expires, or fails in a ledger that changed after the           *)
(* simulation: a reserve drained, a pause.                                   *)
Expire(e) ==
    /\ e \in mempool
    /\ mempool' = mempool \ {e}
    /\ UNCHANGED <<settings, call, sweep, nonces, dlq, paid, submitted, lost>>

-----------------------------------------------------------------------------
(* A crash, or stop(): what is on disk stays.                                *)
Restart ==
    /\ call' = [c \in Caller |-> Idle] /\ sweep' = {}
    /\ UNCHANGED <<settings, stellarVars>>

CrashBetweenSteps == Restart /\ UNCHANGED <<nonces, dlq, lost>>

(* enqueue writes the file without the old entry before it writes the new    *)
(* one: a crash between the two loses both.                                  *)
CrashInEnqueue(c) ==
    /\ call[c].stage \in {"signing", "sent"}
    /\ call[c].event \in DOMAIN dlq
    /\ RemoveEntry(call[c].event)
    /\ lost' = lost \cup {call[c].event}
    /\ Restart
    /\ UNCHANGED nonces

(* The nonce is on disk and the dead letter is still there.                  *)
CrashInMark(c) ==
    /\ call[c].stage = "sent" \/ (Submitting(c) /\ call[c].event \in paid)
    /\ nonces' = nonces \cup {call[c].event}
    /\ Restart
    /\ UNCHANGED <<dlq, lost>>
=============================================================================
