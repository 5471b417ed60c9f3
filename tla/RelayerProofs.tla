---------------------------- MODULE RelayerProofs ----------------------------
(* The relayer never has an event processed twice at a time, marks only what *)
(* it has submitted, gives up no dead letter, submits with its signatures    *)
(* and only for deposits that are final and genuine, and passes no deposit   *)
(* over: for any number of events, of polls and delivery queues, and any     *)
(* choice of faults.                                                         *)
EXTENDS Relayer, FiniteSetTheorems, TLAPS

Processing(c) == call[c].stage \in {"signing", "sent"}

Await == [event : Event \cup {None}, stage : {"idle", "joined", "signing", "sent"}]

(* What a caller awaits, its signatures aside.                               *)
CallShape ==
    /\ call = [c \in Caller |-> call[c]]
    /\ \A c \in Caller :
          /\ call[c] = [event |-> call[c].event, stage |-> call[c].stage, sigs |-> call[c].sigs]
          /\ [event |-> call[c].event, stage |-> call[c].stage] \in Await
          /\ Processing(c) => call[c].event \in Event

PayoutsSubmitted == mempool \subseteq submitted /\ paid \subseteq submitted

SentIsSubmitted == \A c \in Caller : call[c].stage = "sent" => call[c].event \in submitted

(* The inductive invariant: a nonce is marked for a payout that was sent, or *)
(* that the contract has made before, and both were submitted.               *)
ServiceInv ==
    CallShape /\ OneProcessing /\ MarkedIsSubmitted /\ PayoutsSubmitted /\ SentIsSubmitted

protected == <<call, nonces, mempool, paid, submitted>>

USE DEF Processing

LEMMA ServiceInitially == ServiceInit => ServiceInv
  BY DEF ServiceInit, ServiceInv, CallShape, OneProcessing, MarkedIsSubmitted,
         PayoutsSubmitted, SentIsSubmitted, Idle, Await

LEMMA Untouched == ServiceInv /\ UNCHANGED protected => ServiceInv'
  BY DEF protected, ServiceInv, CallShape, OneProcessing, MarkedIsSubmitted,
         PayoutsSubmitted, SentIsSubmitted, Await

(* Awaiting callers go back to being idle.                                   *)
LEMMA IdleKeeps ==
    ASSUME CallShape, OneProcessing, SentIsSubmitted, submitted' = submitted,
           call' = [c \in Caller |-> call'[c]],
           \A c \in Caller : call'[c] = Idle \/ call'[c] = call[c]
    PROVE  CallShape' /\ OneProcessing' /\ SentIsSubmitted'
<1>1. CallShape'
  BY DEF CallShape, Idle, Await
<1>2. \A c \in Caller : call'[c].stage # "idle" => call'[c] = call[c]
  BY DEF Idle
<1>3. OneProcessing'
  BY <1>2 DEF OneProcessing
<1>4. SentIsSubmitted'
  BY <1>2 DEF SentIsSubmitted
<1>. QED  BY <1>1, <1>3, <1>4

LEMMA HandleEventKeeps ==
    ASSUME ServiceInv, NEW c \in Caller, NEW e \in Event, HandleEvent(c, e)
    PROVE  ServiceInv'
<1>1. /\ nonces' = nonces /\ mempool' = mempool /\ paid' = paid /\ submitted' = submitted
  BY DEF HandleEvent, stellarVars
<1>2. CASE UNCHANGED call
  BY <1>1, <1>2, Untouched DEF protected
<1>3. CASE call' = [call EXCEPT ![c] = Awaiting(e, "joined")]
  <2>1. \A d \in Caller : d # c => call'[d] = call[d]
    BY <1>3 DEF ServiceInv, CallShape
  <2>2. call'[c] = [event |-> e, stage |-> "joined", sigs |-> <<>>]
    BY <1>3 DEF ServiceInv, CallShape, Awaiting
  <2>3. CallShape'
    BY <1>3, <2>1, <2>2 DEF ServiceInv, CallShape, Await
  <2>4. OneProcessing'
    BY <2>1, <2>2 DEF ServiceInv, OneProcessing
  <2>5. SentIsSubmitted'
    BY <1>1, <2>1, <2>2 DEF ServiceInv, SentIsSubmitted
  <2>. QED  BY <1>1, <2>3, <2>4, <2>5 DEF ServiceInv, MarkedIsSubmitted, PayoutsSubmitted
<1>4. CASE e \notin InFlight /\ call' = [call EXCEPT ![c] = Awaiting(e, "signing")]
  <2>1. \A d \in Caller : d # c => call'[d] = call[d]
    BY <1>4 DEF ServiceInv, CallShape
  <2>2. call'[c] = [event |-> e, stage |-> "signing", sigs |-> <<>>]
    BY <1>4 DEF ServiceInv, CallShape, Awaiting
  <2>3. CallShape'
    BY <1>4, <2>1, <2>2 DEF ServiceInv, CallShape, Await
  <2>4. \A d \in Caller : Processing(d) => call[d].event # e
    BY <1>4 DEF InFlight
  <2>5. OneProcessing'
    BY <2>1, <2>2, <2>4 DEF ServiceInv, OneProcessing
  <2>6. SentIsSubmitted'
    BY <1>1, <2>1, <2>2 DEF ServiceInv, SentIsSubmitted
  <2>. QED  BY <1>1, <2>3, <2>5, <2>6 DEF ServiceInv, MarkedIsSubmitted, PayoutsSubmitted
<1>. QED  BY <1>2, <1>3, <1>4 DEF HandleEvent

LEMMA FinishKeeps ==
    ASSUME ServiceInv, NEW c \in Caller, Finish(c), submitted' = submitted
    PROVE  CallShape' /\ OneProcessing' /\ SentIsSubmitted'
<1>1. \A d \in Caller : call'[d] = Idle \/ call'[d] = call[d]
  BY DEF Finish
<1>2. call' = [d \in Caller |-> call'[d]]
  BY DEF Finish
<1>. QED  BY <1>1, <1>2, IdleKeeps DEF ServiceInv

LEMMA DeadLetterKeeps ==
    ASSUME ServiceInv, NEW c \in Caller, NEW reason, DeadLetter(c, reason)
    PROVE  ServiceInv'
<1>1. CallShape' /\ OneProcessing' /\ SentIsSubmitted'
  BY FinishKeeps DEF DeadLetter, stellarVars
<1>. QED  BY <1>1 DEF DeadLetter, stellarVars, ServiceInv, MarkedIsSubmitted, PayoutsSubmitted

LEMMA MarkHandledKeeps ==
    ASSUME ServiceInv, NEW c \in Caller, MarkHandled(c), call[c].event \in submitted
    PROVE  ServiceInv'
<1>1. CallShape' /\ OneProcessing' /\ SentIsSubmitted'
  BY FinishKeeps DEF MarkHandled, stellarVars
<1>. QED  BY <1>1 DEF MarkHandled, stellarVars, ServiceInv, MarkedIsSubmitted, PayoutsSubmitted

LEMMA SendKeeps ==
    ASSUME ServiceInv, NEW c \in Caller, Send(c)
    PROVE  ServiceInv'
<1>1. \A d \in Caller : d # c => call'[d] = call[d]
  BY DEF Send, ServiceInv, CallShape
<1>2. call'[c] = [event |-> call[c].event, stage |-> "sent", sigs |-> call'[c].sigs]
  <2>1. PICK first : first = SubSeq(Signatures, 1, env.threshold)
    OBVIOUS
  <2>2. call' = [call EXCEPT ![c].stage = "sent", ![c].sigs = first]
    BY <2>1 DEF Send
  <2>3. call[c] = [event |-> call[c].event, stage |-> call[c].stage, sigs |-> call[c].sigs]
    BY DEF ServiceInv, CallShape
  <2>4. call'[c] = [[call[c] EXCEPT !.stage = "sent"] EXCEPT !.sigs = first]
    BY <2>2 DEF ServiceInv, CallShape
  <2>5. call'[c] = [event |-> call[c].event, stage |-> "sent", sigs |-> first]
    BY <2>3, <2>4
  <2>. QED  BY <2>5
<1>3. call' = [d \in Caller |-> call'[d]]
  BY DEF Send, ServiceInv, CallShape
<1>4. Processing(c)
  BY DEF Send, Submitting
<1>5. CallShape'
  BY <1>1, <1>2, <1>3, <1>4 DEF ServiceInv, CallShape, Await
<1>6. \A d \in Caller : Processing(d)' => Processing(d) /\ call'[d].event = call[d].event
  BY <1>1, <1>2, <1>4
<1>7. OneProcessing'
  BY <1>6 DEF ServiceInv, OneProcessing
<1>8. submitted' = submitted \cup {call[c].event} /\ mempool' = mempool \cup {call[c].event}
      /\ nonces' = nonces /\ paid' = paid
  BY DEF Send
<1>9. SentIsSubmitted'
  BY <1>1, <1>2, <1>8 DEF ServiceInv, SentIsSubmitted
<1>. QED  BY <1>5, <1>7, <1>8, <1>9 DEF ServiceInv, MarkedIsSubmitted, PayoutsSubmitted

LEMMA ServiceStepKeeps ==
    ASSUME ServiceInv, NEW c \in Caller, ServiceStep(c)
    PROVE  ServiceInv'
<1>1. CASE Insufficient(c)
  BY <1>1, DeadLetterKeeps DEF Insufficient
<1>2. CASE Send(c)
  BY <1>2, SendKeeps
<1>3. CASE NotSent(c)
  BY <1>3, DeadLetterKeeps DEF NotSent
<1>4. CASE Replayed(c)
  BY <1>4, MarkHandledKeeps DEF Replayed, ServiceInv, PayoutsSubmitted
<1>5. CASE Refused(c)
  BY <1>5, DeadLetterKeeps DEF Refused
<1>6. CASE Accepted(c)
  BY <1>6, MarkHandledKeeps DEF Accepted, ServiceInv, SentIsSubmitted
<1>7. CASE AnswerLost(c)
  BY <1>7, DeadLetterKeeps DEF AnswerLost
<1>. QED  BY <1>1, <1>2, <1>3, <1>4, <1>5, <1>6, <1>7 DEF ServiceStep

LEMMA CrashKeeps ==
    ASSUME ServiceInv, Crash
    PROVE  ServiceInv'
<1>1. Restart /\ \/ nonces' = nonces
                 \/ \E c \in Caller : /\ nonces' = nonces \cup {call[c].event}
                                      /\ call[c].stage = "sent" \/ call[c].event \in paid
  BY DEF Crash, CrashBetweenSteps, CrashInEnqueue, CrashInMark
<1>2. mempool' = mempool /\ paid' = paid /\ submitted' = submitted
  BY <1>1 DEF Restart, stellarVars
<1>3. call' = [c \in Caller |-> Idle]
  BY <1>1 DEF Restart
<1>4. CallShape' /\ OneProcessing' /\ SentIsSubmitted'
  BY <1>2, <1>3, IdleKeeps DEF ServiceInv
<1>5. MarkedIsSubmitted'
  BY <1>1, <1>2 DEF ServiceInv, MarkedIsSubmitted, SentIsSubmitted, PayoutsSubmitted
<1>. QED  BY <1>2, <1>4, <1>5 DEF ServiceInv, PayoutsSubmitted

LEMMA NextKeeps ==
    ASSUME ServiceInv, [Next]_vars
    PROVE  ServiceInv'
<1>0. CASE UNCHANGED vars
  BY <1>0, Untouched DEF vars, serviceVars, stellarVars, protected
<1>1. ASSUME NEW c \in Caller, Promise(c)
      PROVE  ServiceInv'
  BY <1>1, ServiceStepKeeps DEF Promise
<1>2. ASSUME NEW p \in Task, Ethereum(p)
      PROVE  ServiceInv'
  <2>1. CASE UNCHANGED serviceVars
    BY <2>1, Untouched DEF serviceVars, stellarVars, protected
  <2>2. ASSUME NEW e \in Event, HandleEvent(p, e)
        PROVE  ServiceInv'
    BY <2>2, HandleEventKeeps DEF Caller
  <2>. QED
    BY <1>2, <2>1, <2>2 DEF Ethereum, EthStep, StartResolving, ResolveLatest, QueryLogs,
                            NextLog, EndPoll
<1>3. ASSUME NEW q \in Task, Solana(q)
      PROVE  ServiceInv'
  <2>1. CASE UNCHANGED serviceVars
    BY <2>1, Untouched DEF serviceVars, stellarVars, protected
  <2>2. ASSUME NEW e \in Event, HandleEvent(q, e)
        PROVE  ServiceInv'
    BY <2>2, HandleEventKeeps DEF Caller
  <2>. QED
    BY <1>3, <2>1, <2>2 DEF Solana, SolanaStep, Connect, ListBackfill, FetchNext,
                            NextNotification, HandOver, recordSignature
<1>4. CASE Subscription
  BY <1>4, Untouched DEF Subscription, Subscribed, Notify, serviceVars, stellarVars, protected
<1>5. CASE Retry
  <2>1. CASE StartSweep
    BY <2>1, Untouched DEF StartSweep, stellarVars, protected
  <2>2. ASSUME NEW e \in Event, RetryNext(e)
        PROVE  ServiceInv'
    BY <2>2, HandleEventKeeps DEF RetryNext, Caller
  <2>. QED  BY <1>5, <2>1, <2>2 DEF Retry
<1>6. CASE Chain
  BY <1>6, Untouched DEF Chain, serviceVars, stellarVars, protected
<1>7. CASE Stellar
  <2>1. PICK e \in Event : Apply(e) \/ Expire(e)
    BY <1>7 DEF Stellar
  <2>2. /\ call' = call /\ nonces' = nonces /\ submitted' = submitted
        /\ mempool' \subseteq submitted /\ paid' \subseteq submitted
    BY <2>1 DEF Apply, Expire, ServiceInv, PayoutsSubmitted
  <2>. QED
    BY <2>2 DEF ServiceInv, CallShape, OneProcessing, MarkedIsSubmitted, PayoutsSubmitted,
                SentIsSubmitted, Await
<1>8. ASSUME NEW kind \in Faults, Fault(kind)
      PROVE  ServiceInv'
  <2>1. CASE Crash
    BY <2>1, CrashKeeps
  <2>2. CASE UNCHANGED serviceVars
    BY <2>2, Untouched DEF serviceVars, stellarVars, protected
  <2>. QED  BY <1>8, <2>1, <2>2 DEF Fault, PollError, BackfillFails, Disconnect
<1>. QED  BY <1>0, <1>1, <1>2, <1>3, <1>4, <1>5, <1>6, <1>7, <1>8 DEF Next, Work

LEMMA ServiceInvariant == Spec => []ServiceInv
<1>1. Init => ServiceInv
  BY ServiceInitially DEF Init
<1>2. ServiceInv /\ [Next]_vars => ServiceInv'
  BY NextKeeps
<1>. QED  BY <1>1, <1>2, PTL DEF Spec

(* handleEvent's inFlight map: whatever polls, delivery queues and sweeps    *)
(* hand over together, an event is signed and submitted by one at a time.    *)
THEOREM RelayerProcessesOnce == Spec => []OneProcessing
  BY ServiceInvariant, PTL DEF ServiceInv

(* Across failures, lost answers and crashes a nonce is marked only for an   *)
(* event a payout was sent for.                                              *)
THEOREM RelayerMarksSubmitted == Spec => []MarkedIsSubmitted
  BY ServiceInvariant, PTL DEF ServiceInv

-----------------------------------------------------------------------------
Kept == \A e \in DOMAIN dlq : e \in DOMAIN dlq' \/ e \in nonces' \/ e \in lost'

LEMMA SameQueueKept == dlq' = dlq => Kept
  BY DEF Kept

LEMMA DeadLetterAdds ==
    ASSUME NEW c, NEW reason, DeadLetter(c, reason)
    PROVE  Kept
<1>1. DOMAIN dlq' = DOMAIN dlq \cup {call[c].event}
  BY DEF DeadLetter, Enqueue
<1>. QED  BY <1>1 DEF Kept

LEMMA MarkHandledRemoves ==
    ASSUME NEW c, MarkHandled(c)
    PROVE  Kept
<1>1. DOMAIN dlq' = DOMAIN dlq \ {call[c].event}
  BY DEF MarkHandled, RemoveEntry
<1>2. call[c].event \in nonces'
  BY DEF MarkHandled
<1>. QED  BY <1>1, <1>2 DEF Kept

LEMMA CrashKept ==
    ASSUME Crash
    PROVE  Kept
<1>1. CASE dlq' = dlq
  BY <1>1, SameQueueKept
<1>2. ASSUME NEW c \in Caller, CrashInEnqueue(c)
      PROVE  Kept
  <2>1. DOMAIN dlq' = DOMAIN dlq \ {call[c].event}
    BY <1>2 DEF CrashInEnqueue, RemoveEntry
  <2>2. call[c].event \in lost'
    BY <1>2 DEF CrashInEnqueue
  <2>. QED  BY <2>1, <2>2 DEF Kept
<1>. QED  BY <1>1, <1>2 DEF Crash, CrashBetweenSteps, CrashInMark

LEMMA StepKept ==
    ASSUME [Next]_vars
    PROVE  Kept
<1>0. CASE UNCHANGED vars
  BY <1>0, SameQueueKept DEF vars, serviceVars
<1>1. ASSUME NEW c \in Caller, Promise(c)
      PROVE  Kept
  <2>1. CASE Send(c)
    BY <2>1, SameQueueKept DEF Send
  <2>2. ASSUME NEW reason, DeadLetter(c, reason)
        PROVE  Kept
    BY <2>2, DeadLetterAdds
  <2>3. CASE MarkHandled(c)
    BY <2>3, MarkHandledRemoves
  <2>. QED
    BY <1>1, <2>1, <2>2, <2>3 DEF Promise, ServiceStep, Insufficient, NotSent, Replayed,
                                  Refused, Accepted, AnswerLost
<1>2. ASSUME NEW t \in Task, Ethereum(t) \/ Solana(t)
      PROVE  Kept
  BY <1>2, SameQueueKept
  DEF Ethereum, EthStep, StartResolving, ResolveLatest, QueryLogs, NextLog, EndPoll, Solana,
      SolanaStep, Connect, ListBackfill, FetchNext, NextNotification, HandOver,
      recordSignature, HandleEvent, serviceVars
<1>3. CASE Subscription
  BY <1>3, SameQueueKept DEF Subscription, Subscribed, Notify, serviceVars
<1>4. CASE Retry
  BY <1>4, SameQueueKept DEF Retry, StartSweep, RetryNext, HandleEvent
<1>5. CASE Chain \/ Stellar
  BY <1>5, SameQueueKept DEF Chain, Stellar, Apply, Expire, serviceVars
<1>6. ASSUME NEW kind \in Faults, Fault(kind)
      PROVE  Kept
  <2>1. CASE Crash
    BY <2>1, CrashKept
  <2>2. CASE UNCHANGED serviceVars
    BY <2>2, SameQueueKept DEF serviceVars
  <2>. QED  BY <1>6, <2>1, <2>2 DEF Fault, PollError, BackfillFails, Disconnect
<1>. QED  BY <1>0, <1>1, <1>2, <1>3, <1>4, <1>5, <1>6 DEF Next, Work

(* enqueue and remove: an event leaves the dead-letter queue only as handled *)
(* or, in a crash while the file is rewritten, as lost.                      *)
THEOREM RelayerKeepsDeadLetters == Spec => DeadLetterKept
<1>1. [Next]_vars => [Kept]_vars
  BY StepKept
<1>. QED  BY <1>1, PTL DEF Spec, DeadLetterKept, Kept


-----------------------------------------------------------------------------
(* The Ethereum cursor.                                                      *)

(* What survives: settings stay, and what is marked or lost stays so.        *)
LEMMA RecordsGrow ==
    ASSUME [Next]_vars
    PROVE  /\ nonces \subseteq nonces' /\ lost \subseteq lost'
           /\ fate' = fate /\ env' = env /\ reachable' = reachable
<1>0. CASE UNCHANGED vars
  BY <1>0 DEF vars, serviceVars, settings
<1>1. ASSUME NEW c \in Caller, Promise(c)
      PROVE  nonces \subseteq nonces' /\ lost' = lost /\ UNCHANGED settings
  BY <1>1 DEF Promise, ServiceStep, Insufficient, NotSent, Replayed, Refused, Accepted,
              AnswerLost, Send, DeadLetter, MarkHandled
<1>2. ASSUME NEW t \in Task, Ethereum(t) \/ Solana(t)
      PROVE  nonces' = nonces /\ lost' = lost /\ UNCHANGED settings
  BY <1>2
  DEF Ethereum, EthStep, StartResolving, ResolveLatest, QueryLogs, NextLog, EndPoll, Solana,
      SolanaStep, Connect, ListBackfill, FetchNext, NextNotification, HandOver,
      recordSignature, HandleEvent, serviceVars
<1>3. CASE Subscription \/ Retry \/ Chain \/ Stellar
  BY <1>3 DEF Subscription, Subscribed, Notify, Retry, StartSweep, RetryNext, HandleEvent,
              Chain, Stellar, Apply, Expire, serviceVars, settings
<1>4. ASSUME NEW kind \in Faults, Fault(kind)
      PROVE  nonces \subseteq nonces' /\ lost \subseteq lost' /\ UNCHANGED settings
  BY <1>4 DEF Fault, PollError, BackfillFails, Disconnect, Crash, CrashBetweenSteps,
              CrashInEnqueue, CrashInMark, Restart, serviceVars
<1>. QED  BY <1>0, <1>1, <1>2, <1>3, <1>4 DEF Next, Work, settings

(* An event that is accounted for stays so.                                  *)
LEMMA SettledStays ==
    ASSUME [Next]_vars, NEW e, Settled(e)
    PROVE  Settled(e)'
  BY RecordsGrow, StepKept DEF Settled, Kept

(* A step in which the process does not die.                                 *)
Orderly == Work \/ Retry \/ Chain \/ Stellar \/ UNCHANGED call

(* A caller goes on awaiting its event until that is accounted for, or the   *)
(* process dies.                                                             *)
LEMMA AwaitedStays ==
    ASSUME CallShape, Orderly, NEW c \in Caller, NEW e,
           call[c].stage # "idle", call[c].event = e
    PROVE  (call[c].stage # "idle" /\ call[c].event = e)' \/ Settled(e)'
<1> DEFINE Goes == (call[c].stage # "idle" /\ call[c].event = e)' \/ Settled(e)'
<1>1. ASSUME NEW d \in Caller, Finish(d), call[d].event \in nonces' \cup DOMAIN dlq'
      PROVE  Goes
  <2>1. call'[c] = IF call[c].event = call[d].event THEN Idle ELSE call[c]
    BY <1>1 DEF Finish
  <2>. QED  BY <1>1, <2>1 DEF Settled
<1>2. ASSUME NEW d \in Caller, ServiceStep(d)
      PROVE  Goes
  <2>1. ASSUME NEW reason, DeadLetter(d, reason)
        PROVE  Goes
    BY <1>1, <2>1 DEF DeadLetter, Enqueue
  <2>2. CASE MarkHandled(d)
    BY <1>1, <2>2 DEF MarkHandled
  <2>3. CASE Send(d)
    <3>1. PICK first : call' = [call EXCEPT ![d].stage = "sent", ![d].sigs = first]
      BY <2>3 DEF Send
    <3>2. c # d => call'[c] = call[c]
      BY <3>1 DEF CallShape
    <3>3. call[d] = [event |-> call[d].event, stage |-> call[d].stage, sigs |-> call[d].sigs]
      BY DEF CallShape
    <3>4. call'[d] = [[call[d] EXCEPT !.stage = "sent"] EXCEPT !.sigs = first]
      BY <3>1 DEF CallShape
    <3>5. call'[d].stage = "sent" /\ call'[d].event = call[d].event
      BY <3>3, <3>4
    <3>. QED  BY <3>2, <3>5
  <2>. QED
    BY <1>2, <2>1, <2>2, <2>3 DEF ServiceStep, Insufficient, NotSent, Replayed, Refused,
                                  Accepted, AnswerLost
<1>3. ASSUME NEW d \in Caller, NEW f, HandleEvent(d, f)
      PROVE  Goes
  <2>1. call[d].stage = "idle" /\ (call' = call \/ \E v : call' = [call EXCEPT ![d] = v])
    BY <1>3 DEF HandleEvent
  <2>. QED  BY <2>1 DEF CallShape
<1>4. CASE call' = call
  BY <1>4
<1>5. ASSUME NEW t \in Task, Ethereum(t) \/ Solana(t)
      PROVE  Goes
  BY <1>3, <1>4, <1>5
  DEF Ethereum, EthStep, StartResolving, ResolveLatest, QueryLogs, NextLog, EndPoll, Solana,
      SolanaStep, Connect, ListBackfill, FetchNext, NextNotification, HandOver,
      recordSignature, serviceVars, Caller
<1>6. CASE Retry
  BY <1>3, <1>4, <1>6 DEF Retry, StartSweep, RetryNext, Caller
<1>7. CASE Subscription \/ Chain \/ Stellar
  BY <1>4, <1>7 DEF Subscription, Subscribed, Notify, Chain, Stellar, Apply, Expire,
                    serviceVars
<1>. QED  BY <1>2, <1>4, <1>5, <1>6, <1>7 DEF Orderly, Work, Promise


(* Blocks are numbered from one, and the chain ends at its head.             *)
ChainShape ==
    /\ head \in Nat /\ included \in [Event -> Nat \cup {NotMined}]
    /\ \A e \in Event : included[e] # NotMined => 1 <= included[e] /\ included[e] <= head

(* Everything since the last 'latest' and below a block is accounted for.    *)
HandledBelow(block) ==
    \A e \in Event :
        included[e] # NotMined /\ origin <= included[e] /\ included[e] < block => Settled(e)

(* A deposit of a poll's range is yet to be handed over, awaited by the      *)
(* poll, or accounted for.                                                   *)
InHand(p, e) == e \in poll[p].todo \/ (call[p].stage # "idle" /\ call[p].event = e) \/ Settled(e)

(* A poll that handles logs asked for confirmed blocks only, above ones that *)
(* are accounted for.                                                        *)
PollAccounts(p) ==
    poll[p].stage = "handling" =>
        /\ poll[p].from <= poll[p].to /\ poll[p].to <= SafeToBlock
        /\ HandledBelow(poll[p].from)
        /\ \A e \in Event :
              /\ included[e] # NotMined
              /\ poll[p].from <= included[e] /\ included[e] <= poll[p].to
              => InHand(p, e)

(* The inductive invariant of the cursor: it and its copy on disk have only  *)
(* passed what is accounted for, and so has every poll under way. None is    *)
(* beyond the blocks that exist, so a new block is never behind it.          *)
EthInv ==
    /\ ChainShape /\ EthTypeOK
    /\ origin <= head /\ cursor <= head + 1 /\ stored <= head + 1
    /\ HandledBelow(cursor) /\ HandledBelow(stored)
    /\ \A p \in Task : PollAccounts(p)

LEMMA EthInitially == Init => EthInv
<1> SUFFICES ASSUME Init
             PROVE  EthInv
  OBVIOUS
<1>1. /\ head = 1 /\ included = [e \in Event |-> NotMined]
      /\ poll = [p \in Task |-> NoPoll] /\ cursor = stored /\ origin = stored
      /\ stored = 1 \/ stored = Latest
  BY DEF Init, ChainInit, EthInit
<1>2. ChainShape
  BY <1>1 DEF ChainShape
<1>3. EthTypeOK
  BY <1>1 DEF EthTypeOK, NoPoll, Latest
<1>4. HandledBelow(cursor) /\ HandledBelow(stored)
  BY <1>1 DEF HandledBelow
<1>5. ASSUME NEW p \in Task
      PROVE  PollAccounts(p)
  BY <1>1 DEF PollAccounts, NoPoll
<1>. QED  BY <1>1, <1>2, <1>3, <1>4, <1>5 DEF EthInv, Latest

(* What a step may do to the chain: blocks are added at its end, and what is *)
(* confirmed stays.                                                          *)
ChainGrows ==
    /\ head' \in Nat /\ head' >= head
    /\ \A e \in Event : \/ included'[e] = included[e]
                        \/ included'[e] = NotMined
                        \/ included'[e] = head + 1 /\ head' = head + 1

LEMMA ChainSteps ==
    ASSUME ChainShape, [Next]_vars
    PROVE  ChainShape' /\ ChainGrows
<1>1. CASE UNCHANGED chainVars
  BY <1>1 DEF chainVars, ChainShape, ChainGrows
<1>2. ASSUME NEW deposits \in SUBSET Event, Mine(deposits)
      PROVE  ChainShape' /\ ChainGrows
  <2>1. /\ head' = head + 1
        /\ included' = [e \in Event |-> IF e \in deposits THEN head + 1 ELSE included[e]]
    BY <1>2 DEF Mine
  <2>. QED  BY <2>1 DEF ChainShape, ChainGrows
<1>3. ASSUME NEW deposits \in SUBSET Event, Reorg(deposits)
      PROVE  ChainShape' /\ ChainGrows
  <2>1. /\ head' = head
        /\ included' = [e \in Event |-> IF e \in deposits THEN NotMined ELSE included[e]]
    BY <1>3 DEF Reorg
  <2>. QED  BY <2>1 DEF ChainShape, ChainGrows
<1>4. CASE Chain
  BY <1>2, <1>3, <1>4 DEF Chain
<1>5. Next => Chain \/ UNCHANGED chainVars
  BY DEF Next, Work, Promise, Ethereum, Solana, Subscription, Retry, Stellar, Fault, Crash
<1>. QED  BY <1>1, <1>4, <1>5 DEF vars

(* Below a block that exists, or the next one, nothing new appears.          *)
LEMMA HandledStays ==
    ASSUME ChainShape, [Next]_vars, origin \in Int, origin' \in Int, origin <= origin',
           NEW block \in Int, block <= head + 1, HandledBelow(block)
    PROVE  HandledBelow(block)'
<1> SUFFICES ASSUME NEW e \in Event, included'[e] # NotMined, origin' <= included'[e],
                    included'[e] < block
             PROVE  Settled(e)'
  BY DEF HandledBelow
<1>1. ChainShape' /\ ChainGrows
  BY ChainSteps
<1>2. head \in Nat /\ included'[e] \in Nat /\ included[e] \in Nat \cup {NotMined}
  BY <1>1 DEF ChainShape
<1>3. included'[e] = included[e]
  BY <1>1, <1>2 DEF ChainGrows
<1>4. Settled(e)
  BY <1>2, <1>3 DEF HandledBelow
<1>. QED  BY <1>4, SettledStays

(* What is left of a length when its last n are held back.                   *)
LEMMA HoldBack ==
    ASSUME NEW n \in Nat, NEW a \in Nat, NEW b \in Nat, a <= b
    PROVE  /\ Larger(a - n, 0) \in Nat /\ Larger(a - n, 0) <= a
           /\ Larger(b - n, 0) \in Nat /\ Larger(a - n, 0) <= Larger(b - n, 0)
  BY DEF Larger

(* The confirmed blocks are never fewer.                                     *)
LEMMA SafeGrows ==
    ASSUME ChainShape, ChainGrows
    PROVE  /\ SafeToBlock \in Nat /\ SafeToBlock <= head
           /\ SafeToBlock' \in Nat /\ SafeToBlock <= SafeToBlock'
<1>1. Confirmations \in Nat /\ head \in Nat /\ head' \in Nat /\ head <= head'
  BY ChainConstants DEF ChainShape, ChainGrows
<1>2. SafeToBlock = Larger(head - Confirmations, 0)
  BY DEF SafeToBlock
<1>3. SafeToBlock' = Larger(head' - Confirmations, 0)
  BY DEF SafeToBlock
<1>. QED  BY <1>1, <1>2, <1>3, HoldBack

(* A poll that goes on accounts for its range.                               *)
LEMMA PollGoesOn ==
    ASSUME CallShape, EthInv, [Next]_vars, Orderly, origin' \in Int, origin <= origin',
           NEW p \in Task, poll'[p].stage = "handling" => poll'[p] = poll[p]
    PROVE  PollAccounts(p)'
<1> SUFFICES ASSUME poll'[p].stage = "handling"
             PROVE  PollAccounts(p)'
  BY DEF PollAccounts
<1>1. /\ poll'[p] = poll[p] /\ poll[p].stage = "handling"
      /\ poll[p].from \in Nat /\ poll[p].to \in Int /\ origin \in Int
  BY DEF EthInv, EthTypeOK, Latest
<1>2. ChainShape /\ ChainShape' /\ ChainGrows
  BY ChainSteps DEF EthInv
<1>3. poll'[p].to <= SafeToBlock'
  <2>1. poll[p].to <= SafeToBlock
    BY <1>1 DEF EthInv, PollAccounts
  <2>. QED  BY <1>1, <1>2, <2>1, SafeGrows
<1>4. HandledBelow(poll[p].from)'
  <2>1. HandledBelow(poll[p].from)
    BY <1>1 DEF EthInv, PollAccounts
  <2>2. poll[p].from <= head + 1
    <3>1. poll[p].from <= poll[p].to /\ poll[p].to <= SafeToBlock /\ head \in Nat
      BY <1>1, <1>2 DEF EthInv, PollAccounts, ChainShape
    <3>. QED  BY <1>1, <1>2, <3>1, SafeGrows
  <2>3. ASSUME NEW block \in Int, block = poll[p].from
        PROVE  HandledBelow(block)'
    <3>1. block <= head + 1 /\ HandledBelow(block)
      BY <2>1, <2>2, <2>3
    <3>. QED  BY <1>1, <1>2, <3>1, HandledStays
  <2>4. poll'[p].from \in Int /\ poll'[p].from = poll[p].from
    BY <1>1
  <2>. QED  BY <2>3, <2>4 DEF HandledBelow
<1>5. ASSUME NEW e \in Event, included'[e] # NotMined, poll[p].from <= included'[e],
             included'[e] <= poll[p].to
      PROVE  InHand(p, e)'
  <2>1. /\ included'[e] \in Nat /\ included[e] \in Nat \cup {NotMined} /\ head \in Nat
        /\ SafeToBlock \in Nat /\ SafeToBlock <= head /\ poll[p].to <= SafeToBlock
    BY <1>1, <1>2, <1>5, SafeGrows DEF ChainShape, EthInv, PollAccounts
  <2>2. included'[e] = included[e]
    BY <1>1, <1>2, <1>5, <2>1 DEF ChainGrows
  <2>3. InHand(p, e)
    BY <1>1, <1>5, <2>2 DEF EthInv, PollAccounts
  <2>. QED  BY <1>1, <2>3, AwaitedStays, SettledStays DEF InHand, Caller
<1>6. poll'[p].from <= poll'[p].to
  BY <1>1 DEF EthInv, PollAccounts
<1>. QED  BY <1>1, <1>3, <1>4, <1>5, <1>6 DEF PollAccounts


(* Everything but a poll and a crash leaves the cursor alone.                *)
LEMMA OthersKeepCursor ==
    ASSUME CallShape, EthInv, [Next]_vars, Orderly, UNCHANGED <<cursor, stored, origin>>,
           EthTypeOK'
    PROVE  (\A p \in Task : PollAccounts(p)') => EthInv'
<1>1. ChainShape /\ EthTypeOK /\ ChainShape' /\ ChainGrows
  BY ChainSteps DEF EthInv
<1>2. /\ origin \in Int /\ cursor \in Int /\ stored \in Int /\ head \in Nat /\ head' \in Nat
      /\ head' >= head
  BY <1>1 DEF EthTypeOK, Latest, ChainShape, ChainGrows
<1>3. origin' <= head' /\ cursor' <= head' + 1 /\ stored' <= head' + 1
  <2>1. origin <= head /\ cursor <= head + 1 /\ stored <= head + 1
    BY DEF EthInv
  <2>2. origin' = origin /\ cursor' = cursor /\ stored' = stored
    OBVIOUS
  <2>3. origin' <= head'
    BY <1>2, <2>1, <2>2
  <2>4. \A n, h, g \in Int : n <= h + 1 /\ g >= h => n <= g + 1
    OBVIOUS
  <2>5. head \in Int /\ head' \in Int
    BY <1>2
  <2>6. cursor <= head' + 1 /\ stored <= head' + 1
    BY <1>2, <2>1, <2>4, <2>5, Zenon
  <2>. QED  BY <2>2, <2>3, <2>6
<1>4. ASSUME NEW block \in Int, block \in {cursor, stored}
      PROVE  HandledBelow(block)'
  <2>1. HandledBelow(block) /\ block <= head + 1
    BY <1>4 DEF EthInv
  <2>. QED  BY <1>1, <1>2, <2>1, HandledStays
<1>5. HandledBelow(cursor)' /\ HandledBelow(stored)'
  BY <1>2, <1>4 DEF HandledBelow
<1>. QED  BY <1>1, <1>3, <1>5 DEF EthInv

(* pollOnce.                                                                 *)
LEMMA EthStepKeeps ==
    ASSUME CallShape, EthInv, NEW p \in Task, Ethereum(p), [Next]_vars
    PROVE  EthInv'
<1>1. /\ ChainShape /\ EthTypeOK /\ head \in Nat /\ p \in Caller
      /\ poll \in [Task -> [stage : {"idle", "resolving", "handling"},
                            from : Nat, to : Int, todo : SUBSET Event]]
      /\ cursor \in Int /\ stored \in Int /\ origin \in Int
  BY DEF EthInv, EthTypeOK, ChainShape, Latest, Caller
<1>2. Orderly /\ UNCHANGED chainVars
  BY DEF Orderly, Work, Ethereum
<1>3. \A q \in Task : \A v : q # p => [poll EXCEPT ![p] = v][q] = poll[q]
  BY <1>1
<1>4. CASE StartResolving(p)
  <2>1. /\ poll' = [poll EXCEPT ![p].stage = "resolving"]
        /\ UNCHANGED <<cursor, stored, origin>>
    BY <1>4 DEF StartResolving
  <2>2. poll'[p].stage = "resolving" /\ \A q \in Task : q # p => poll'[q] = poll[q]
    BY <1>1, <2>1
  <2>3. EthTypeOK'
    BY <1>1, <2>1 DEF EthTypeOK
  <2>4. ASSUME NEW q \in Task
        PROVE  PollAccounts(q)'
    BY <1>1, <1>2, <2>1, <2>2, PollGoesOn
  <2>. QED  BY <1>2, <2>1, <2>3, <2>4, OthersKeepCursor
<1>5. CASE QueryLogs(p)
  <2> DEFINE to == Lesser(cursor + MaxBlockRange - 1, SafeToBlock)
             range == [stage |-> "handling", from |-> cursor, to |-> to, todo |-> Logs(cursor, to)]
  <2>1. /\ cursor # Latest /\ cursor <= SafeToBlock
        /\ poll' = [poll EXCEPT ![p] = range]
        /\ UNCHANGED <<cursor, stored, origin>> /\ UNCHANGED <<call, nonces, dlq, lost, fate>>
    BY <1>5 DEF QueryLogs, serviceVars, settings
  <2>2. SafeToBlock \in Nat /\ SafeToBlock <= head
    <3>1. ChainGrows
      BY <1>1, ChainSteps
    <3>. QED  BY <1>1, <3>1, SafeGrows
  <2>3. cursor \in Nat /\ to \in Int /\ cursor <= to /\ to <= SafeToBlock
    BY <1>1, <2>1, <2>2, RangeConstant DEF Lesser, EthInv, EthTypeOK
  <2> HIDE DEF to
  <2>4. \A e \in Event : e \in Logs(cursor, to) <=>
            /\ included[e] # NotMined /\ cursor <= included[e] /\ included[e] <= to
            /\ fate[e] # "forged" /\ fate[e] # "malformed"
    BY <1>1, <2>3 DEF Logs, EventsIn, Matches, Decodable, ChainShape
  <2>5. poll'[p] = range /\ \A q \in Task : q # p => poll'[q] = poll[q]
    BY <1>1, <1>3, <2>1
  <2>6. EthTypeOK'
    <3>1. range \in [stage : {"idle", "resolving", "handling"}, from : Nat, to : Int,
                     todo : SUBSET Event]
      BY <2>3 DEF Logs, EventsIn
    <3> HIDE DEF range
    <3>. QED  BY <1>1, <2>1, <3>1 DEF EthTypeOK
  <2>7. PollAccounts(p)'
    <3>1. HandledBelow(cursor)'
      BY <2>1, <1>2 DEF EthInv, HandledBelow, Settled, chainVars
    <3>2. \A e \in Event : included[e] # NotMined /\ cursor <= included[e] /\ included[e] <= to
              => e \in Logs(cursor, to) \/ Settled(e)
      BY <2>4 DEF Settled, Worthless
    <3>3. poll'[p].from = cursor /\ poll'[p].to = to /\ poll'[p].todo = Logs(cursor, to)
      BY <2>5
    <3>4. SafeToBlock' = SafeToBlock /\ included' = included /\ fate' = fate
      BY <1>2, <2>1 DEF chainVars, SafeToBlock
    <3>5. \A e \in Event : Settled(e) => Settled(e)'
      BY SettledStays
    <3>6. HandledBelow(poll[p].from)'
      BY <2>1, <3>1, <3>3 DEF HandledBelow
    <3>7. ASSUME NEW e \in Event, included'[e] # NotMined, cursor <= included'[e],
                 included'[e] <= to
          PROVE  InHand(p, e)'
      BY <3>2, <3>3, <3>4, <3>5, <3>7 DEF InHand
    <3>. QED  BY <2>3, <3>3, <3>4, <3>6, <3>7 DEF PollAccounts
  <2>8. ASSUME NEW q \in Task
        PROVE  PollAccounts(q)'
    BY <1>1, <1>2, <2>1, <2>5, <2>7, PollGoesOn
  <2>. QED  BY <1>2, <2>1, <2>6, <2>8, OthersKeepCursor
<1>6. ASSUME NEW e \in Event, NextLog(p, e)
      PROVE  EthInv'
  <2> DEFINE rest == [poll[p] EXCEPT !.todo = @ \ {e}]
  <2>1. /\ poll[p].stage = "handling" /\ e \in poll[p].todo
        /\ poll' = [poll EXCEPT ![p] = rest]
        /\ UNCHANGED <<cursor, stored, origin>>
        /\ HandleEvent(p, e) /\ call[p].stage = "idle"
    BY <1>6 DEF NextLog, HandleEvent
  <2>2. /\ rest \in [stage : {"idle", "resolving", "handling"}, from : Nat, to : Int,
                     todo : SUBSET Event]
        /\ rest.stage = "handling" /\ rest.from = poll[p].from /\ rest.to = poll[p].to
        /\ rest.todo = poll[p].todo \ {e}
    BY <1>1, <2>1
  <2> HIDE DEF rest
  <2>3. poll'[p] = rest /\ \A q \in Task : q # p => poll'[q] = poll[q]
    BY <1>1, <1>3, <2>1
  <2>4. EthTypeOK'
    BY <1>1, <2>1, <2>2 DEF EthTypeOK
  <2>5. InHand(p, e)'
    <3>1. CASE Ignored(e)
      <4>1. Settled(e)
        BY <3>1 DEF Ignored, validateBridgeEvent, Settled, Worthless
      <4>. QED  BY <4>1, SettledStays DEF InHand
    <3>2. CASE \E stage \in {"joined", "signing"} : call' = [call EXCEPT ![p] = Awaiting(e, stage)]
      BY <1>1, <3>2 DEF CallShape, Awaiting, InHand
    <3>. QED  BY <2>1, <3>1, <3>2 DEF HandleEvent
  <2>6. PollAccounts(p)'
    <3>1. /\ poll[p].from <= poll[p].to /\ poll[p].to <= SafeToBlock
          /\ HandledBelow(poll[p].from)
          /\ \A f \in Event :
                included[f] # NotMined /\ poll[p].from <= included[f] /\ included[f] <= poll[p].to
                    => InHand(p, f)
      BY <2>1 DEF EthInv, PollAccounts
    <3>2. SafeToBlock' = SafeToBlock /\ included' = included
      BY <1>2 DEF chainVars, SafeToBlock
    <3>3. \A f \in Event : Settled(f) => Settled(f)'
      BY SettledStays
    <3>4. HandledBelow(poll[p].from)'
      BY <2>1, <2>2, <2>3, <3>1, <3>2, <3>3 DEF HandledBelow
    <3>5. \A f \in Event : InHand(p, f) => InHand(p, f)'
      BY <2>1, <2>2, <2>3, <2>5, <3>3 DEF InHand
    <3>. QED  BY <2>2, <2>3, <3>1, <3>2, <3>4, <3>5 DEF PollAccounts
  <2>7. ASSUME NEW q \in Task
        PROVE  PollAccounts(q)'
    BY <1>1, <1>2, <2>1, <2>3, <2>6, PollGoesOn
  <2>. QED  BY <1>2, <2>1, <2>4, <2>7, OthersKeepCursor
<1>7. CASE ResolveLatest(p)
  <2>1. /\ poll' = [poll EXCEPT ![p] = NoPoll]
        /\ cursor' = head /\ stored' = head /\ origin' = head
    BY <1>7 DEF ResolveLatest
  <2>2. poll'[p].stage = "idle" /\ \A q \in Task : q # p => poll'[q] = poll[q]
    BY <1>1, <1>3, <2>1 DEF NoPoll
  <2>3. EthTypeOK'
    BY <1>1, <2>1 DEF EthTypeOK, NoPoll
  <2>4. ChainShape' /\ head' = head
    BY <1>1, <1>2, ChainSteps DEF chainVars
  <2>5. HandledBelow(cursor)' /\ HandledBelow(stored)'
    BY <2>1, <2>4 DEF HandledBelow, ChainShape
  <2>6. origin <= origin' /\ origin' \in Int
    BY <1>1, <2>1 DEF EthInv
  <2>7. ASSUME NEW q \in Task
        PROVE  PollAccounts(q)'
    BY <1>2, <2>2, <2>6, PollGoesOn
  <2>. QED  BY <1>1, <2>1, <2>3, <2>4, <2>5, <2>7 DEF EthInv
<1>8. CASE EndPoll(p)
  <2> DEFINE block == poll[p].to + 1
  <2>1. /\ poll[p].stage = "handling" /\ poll[p].todo = {} /\ call[p].stage = "idle"
        /\ cursor' = block /\ stored' = block /\ origin' = origin
        /\ poll' = [poll EXCEPT ![p] = NoPoll]
    BY <1>8 DEF EndPoll
  <2>2. poll'[p].stage = "idle" /\ \A q \in Task : q # p => poll'[q] = poll[q]
    BY <1>1, <1>3, <2>1 DEF NoPoll
  <2>3. /\ poll[p].from \in Nat /\ poll[p].to \in Int
        /\ poll[p].from <= poll[p].to /\ poll[p].to <= SafeToBlock
        /\ HandledBelow(poll[p].from)
        /\ \A e \in Event :
              included[e] # NotMined /\ poll[p].from <= included[e] /\ included[e] <= poll[p].to
                  => Settled(e)
    BY <1>1, <2>1 DEF EthInv, PollAccounts, InHand
  <2>4. SafeToBlock \in Nat /\ SafeToBlock <= head
    <3>1. ChainGrows
      BY <1>1, ChainSteps
    <3>. QED  BY <1>1, <3>1, SafeGrows
  <2>5. block \in Nat /\ block <= head + 1
    BY <1>1, <2>3, <2>4
  <2>6. HandledBelow(block)
    BY <1>1, <2>3 DEF HandledBelow, ChainShape
  <2> HIDE DEF block
  <2>7. EthTypeOK'
    BY <1>1, <2>1, <2>5 DEF EthTypeOK, NoPoll, EthInv
  <2>8. ChainShape' /\ head' = head
    BY <1>1, <1>2, ChainSteps DEF chainVars
  <2>9. HandledBelow(cursor)' /\ HandledBelow(stored)'
    <3>1. \A e \in Event : Settled(e) => Settled(e)'
      BY SettledStays
    <3>. QED  BY <1>2, <2>1, <2>6, <3>1 DEF HandledBelow, chainVars
  <2>10. ASSUME NEW q \in Task
         PROVE  PollAccounts(q)'
    BY <1>1, <1>2, <2>1, <2>2, PollGoesOn
  <2>. QED  BY <2>1, <2>5, <2>7, <2>8, <2>9, <2>10 DEF EthInv
<1>. QED  BY <1>4, <1>5, <1>6, <1>7, <1>8 DEF Ethereum, EthStep


(* A crash ends the polls; the constructor goes back to the stored block.    *)
LEMMA CrashKeepsCursor ==
    ASSUME EthInv, Crash, [Next]_vars
    PROVE  EthInv'
<1>1. /\ poll' = [p \in Task |-> NoPoll] /\ cursor' = stored /\ stored' = stored
      /\ origin' = origin /\ UNCHANGED chainVars
  BY DEF Crash, EthRestart
<1>2. ChainShape' /\ head' = head /\ included' = included
  BY <1>1, ChainSteps DEF EthInv, chainVars
<1>3. EthTypeOK'
  BY <1>1 DEF EthInv, EthTypeOK, NoPoll
<1>4. HandledBelow(cursor)' /\ HandledBelow(stored)'
  <2>1. \A e \in Event : Settled(e) => Settled(e)'
    BY SettledStays
  <2>. QED  BY <1>1, <1>2, <2>1 DEF EthInv, HandledBelow
<1>5. ASSUME NEW p \in Task
      PROVE  PollAccounts(p)'
  BY <1>1 DEF PollAccounts, NoPoll
<1>. QED  BY <1>1, <1>2, <1>3, <1>4, <1>5 DEF EthInv

LEMMA NextKeepsCursor ==
    ASSUME CallShape, EthInv, [Next]_vars
    PROVE  EthInv'
<1>1. ASSUME NEW p \in Task, Ethereum(p)
      PROVE  EthInv'
  BY <1>1, EthStepKeeps
<1>2. CASE Crash
  BY <1>2, CrashKeepsCursor
<1>3. CASE Orderly /\ UNCHANGED <<cursor, stored, origin>>
           /\ EthTypeOK' /\ \A p \in Task : poll'[p].stage = "handling" => poll'[p] = poll[p]
  <2>1. origin \in Int
    BY DEF EthInv, EthTypeOK, Latest
  <2>2. ASSUME NEW p \in Task
        PROVE  PollAccounts(p)'
    BY <1>3, <2>1, PollGoesOn
  <2>. QED  BY <1>3, <2>2, OthersKeepCursor
<1>4. UNCHANGED ethVars => EthTypeOK' /\ UNCHANGED <<poll, cursor, stored, origin>>
  BY DEF EthInv, ethVars, EthTypeOK
<1>5. ASSUME NEW p \in Task, PollError(p), UNCHANGED chainVars
      PROVE  EthInv'
  <2>1. /\ poll' = [poll EXCEPT ![p] = NoPoll] /\ UNCHANGED <<cursor, stored, origin>>
        /\ Orderly
    BY <1>5 DEF PollError, Orderly, serviceVars
  <2>2. EthTypeOK'
    BY <2>1 DEF EthInv, EthTypeOK, NoPoll
  <2>3. \A q \in Task : poll'[q].stage = "handling" => poll'[q] = poll[q]
    BY <2>1 DEF EthInv, EthTypeOK, NoPoll
  <2>. QED  BY <1>3, <2>1, <2>2, <2>3
<1>6. CASE Orderly /\ UNCHANGED ethVars
  BY <1>3, <1>4, <1>6
<1>7. ASSUME NEW kind \in Faults, Fault(kind)
      PROVE  EthInv'
  BY <1>2, <1>5, <1>6, <1>7 DEF Fault, BackfillFails, Disconnect, Orderly, serviceVars
<1>8. CASE UNCHANGED vars
  BY <1>6, <1>8 DEF vars, serviceVars, Orderly
<1>. QED
  BY <1>1, <1>6, <1>7, <1>8 DEF Next, Work, Promise, Solana, Subscription, Retry, Chain,
                                Stellar, Orderly

(* The comment above BlockStore, "a restart never skips a deposit": whatever *)
(* polls overlap, blocks are replaced or writes are cut short, the cursor on *)
(* disk and in memory has only passed deposits that are accounted for.       *)
THEOREM RelayerAccountsForBlocks == Spec => []EthAccounted
<1>1. CallShape /\ EthInv /\ [Next]_vars => EthInv'
  BY NextKeepsCursor
<1>2. EthInv => EthAccounted
  BY DEF EthInv, HandledBelow, EthAccounted
<1>3. ServiceInv => CallShape
  BY DEF ServiceInv
<1>. QED  BY <1>1, <1>2, <1>3, EthInitially, ServiceInvariant, PTL DEF Spec


-----------------------------------------------------------------------------
(* Signatures.                                                               *)

(* A set of natural numbers that is not empty has a least element.           *)
LEMMA LeastNatural ==
    ASSUME NEW S \in SUBSET Nat, S # {}
    PROVE  \E x \in S : \A y \in S : x <= y
<1>1. \A x, y \in Nat : y < x => <<y, x>> \in OpToRel(<, Nat)
  BY Zenon DEF OpToRel
<1>2. PICK R : IsWellFoundedOn(R, Nat) /\ \A x, y \in Nat : y < x => <<y, x>> \in R
  BY <1>1, NatLessThanWellFounded, Zenon
<1>3. PICK x \in S : \A y \in S : ~ (<<y, x>> \in R)
  BY <1>2, WFMin
<1>4. ASSUME NEW y \in S
      PROVE  x <= y
  <2>1. ~ (y < x)
    BY <1>2, <1>3
  <2>. QED  BY <2>1
<1>. QED  BY <1>4

(* A set of the first positions has a k-th member, for every k up to its     *)
(* size: what collectSignatures keeps is numbered without gaps.              *)
LEMMA KthMember ==
    ASSUME NEW n \in Nat, NEW kept \in SUBSET (1..n)
    PROVE  /\ IsFiniteSet(kept) /\ Cardinality(kept) \in Nat
           /\ \A k \in 1..Cardinality(kept) :
                 \E i \in kept : Cardinality({j \in kept : j <= i}) = k
<1> DEFINE Upto(i) == {j \in kept : j <= i}
           rank(i) == Cardinality(Upto(i))
<1>0. \A j \in kept : j \in Nat /\ 1 <= j /\ j <= n
  OBVIOUS
<1>1. IsFiniteSet(kept)
  <2>1. 1 \in Int /\ n \in Int
    OBVIOUS
  <2>2. IsFiniteSet(1..n)
    BY <2>1, FS_Interval, Zenon
  <2>. QED  BY <2>2, FS_Subset, Zenon
<1>2. ASSUME NEW i \in Int
      PROVE  IsFiniteSet(Upto(i)) /\ rank(i) \in Nat
  <2>1. Upto(i) \subseteq kept
    OBVIOUS
  <2>2. IsFiniteSet(Upto(i))
    BY <1>1, <2>1, FS_Subset
  <2>. QED  BY <2>2, FS_CardinalityType
<1>3. rank(0) = 0 /\ rank(n) = Cardinality(kept)
  <2>1. \A j \in kept : ~ (j <= 0) /\ j <= n
    BY <1>0
  <2>2. \A i : \A j : j \in Upto(i) <=> j \in kept /\ j <= i
    OBVIOUS
  <2> HIDE DEF Upto
  <2>3. Upto(0) = {} /\ Upto(n) = kept
    BY <2>1, <2>2, Zenon
  <2>. QED  BY <2>3, FS_EmptySet
<1>4. ASSUME NEW i \in 1..n
      PROVE  rank(i) = IF i \in kept THEN rank(i - 1) + 1 ELSE rank(i - 1)
  <2>1. i - 1 \in Int /\ i \notin Upto(i - 1)
    OBVIOUS
  <2>2. CASE i \in kept
    <3>0. \A j \in kept : j <= i <=> j <= i - 1 \/ j = i
      BY <1>0
    <3>1. Upto(i) = Upto(i - 1) \cup {i}
      BY <2>2, <3>0, Zenon
    <3>2. IsFiniteSet(Upto(i - 1))
      BY <1>2, <2>1
    <3> HIDE DEF Upto
    <3>3. Cardinality(Upto(i - 1) \cup {i}) = Cardinality(Upto(i - 1)) + 1
      BY <2>1, <3>2, FS_AddElement
    <3>. QED  BY <2>2, <3>1, <3>3
  <2>3. CASE i \notin kept
    <3>0. \A j \in kept : j <= i <=> j <= i - 1
      BY <1>0, <2>3
    <3>1. Upto(i) = Upto(i - 1)
      BY <3>0, Zenon
    <3> HIDE DEF Upto
    <3>. QED  BY <2>3, <3>1
  <2>. QED  BY <2>2, <2>3
<1>5. ASSUME NEW k \in 1..Cardinality(kept)
      PROVE  \E i \in kept : rank(i) = k
  <2> DEFINE enough == {i \in 0..n : rank(i) >= k}
  <2>1. Cardinality(kept) \in Nat /\ k \in Nat /\ k >= 1
    BY <1>1, FS_CardinalityType
  <2> HIDE DEF rank
  <2>2. enough \in SUBSET Nat /\ n \in enough
    BY <1>3, <2>1
  <2>3. PICK i \in enough : \A j \in enough : i <= j
    BY <2>2, LeastNatural
  <2>4. i \in 1..n
    BY <1>3, <2>1, <2>3
  <2>5. i - 1 \in 0..n /\ ~ (rank(i - 1) >= k)
    BY <2>3, <2>4
  <2>6. rank(i) \in Nat /\ rank(i - 1) \in Nat /\ rank(i) >= k
    <3>1. i \in Int /\ i - 1 \in Int
      BY <2>4
    <3>2. rank(i) \in Nat /\ rank(i - 1) \in Nat
      BY <1>2, <3>1, Zenon
    <3>3. rank(i) >= k
      BY <2>3
    <3>. QED  BY <3>2, <3>3
  <2>7. rank(i) = IF i \in kept THEN rank(i - 1) + 1 ELSE rank(i - 1)
    BY <1>4, <2>4, Zenon
  <2>8. i \in kept /\ rank(i) = k
    BY <2>1, <2>5, <2>6, <2>7
  <2>. QED  BY <2>8
<1>. QED  BY <1>1, <1>5, FS_CardinalityType

(* main() builds a list of nodes with keys.                                  *)
LEMMA NodesTyped ==
    ASSUME NEW v \in Environment
    PROVE  \E n \in Nat : /\ DOMAIN Nodes(v) = 1..n
                          /\ \A i \in 1..n : Nodes(v)[i].key \in Key
<1>1. v.signer_urls \in Seq(Key) /\ v.private_keys \in Seq(Key)
  BY DEF Environment
<1>2. CASE v.signer_urls # <<>>
  <2>1. Nodes(v) = [i \in DOMAIN v.signer_urls |->
                      [custody |-> "remote", key |-> v.signer_urls[i],
                       expectedPubkey |-> IF i \in DOMAIN v.signer_pubkeys
                                          THEN v.signer_pubkeys[i] ELSE None]]
    BY <1>2 DEF Nodes
  <2>2. DOMAIN Nodes(v) = 1..Len(v.signer_urls) /\ Len(v.signer_urls) \in Nat
    BY <1>1, <2>1
  <2>. QED  BY <1>1, <2>1, <2>2
<1>3. CASE v.signer_urls = <<>>
  <2>1. Nodes(v) = [i \in DOMAIN v.private_keys |->
                      [custody |-> "local", key |-> v.private_keys[i], expectedPubkey |-> None]]
    BY <1>3 DEF Nodes
  <2>2. DOMAIN Nodes(v) = 1..Len(v.private_keys) /\ Len(v.private_keys) \in Nat
    BY <1>1, <2>1
  <2>. QED  BY <1>1, <2>1, <2>2
<1>. QED  BY <1>2, <1>3

(* collectSignatures: a list of signatures of which no two are by one key.   *)
Distinct(sigs) == \A i, j \in DOMAIN sigs : sigs[i] = sigs[j] => i = j

LEMMA CollectedAreDistinct ==
    ASSUME NEW v \in Environment, NEW services
    PROVE  /\ CollectSignatures(v, services) \in Seq(Key)
           /\ Distinct(CollectSignatures(v, services))
<1> DEFINE nodes == Nodes(v)
           answers == [i \in DOMAIN nodes |-> signWithNode(nodes[i], i \in services)]
           First(i) == /\ answers[i] # None
                       /\ \A j \in 1..(i - 1) : answers[j] # answers[i]
           kept == {i \in DOMAIN nodes : First(i)}
           rank(i) == Cardinality({j \in kept : j <= i})
           nth(k) == CHOOSE i \in kept : rank(i) = k
           sigs == [k \in 1..Cardinality(kept) |-> answers[nth(k)]]
<1>1. CollectSignatures(v, services) = sigs
  BY DEF CollectSignatures
<1>2. PICK n \in Nat : DOMAIN nodes = 1..n /\ \A i \in 1..n : nodes[i].key \in Key
  BY NodesTyped
<1>3. \A i \in 1..n : answers[i] # None => answers[i] \in Key
  BY <1>2 DEF signWithNode, requestRemoteSignature, SignerReply
<1> HIDE DEF answers, nodes
<1>4. kept \in SUBSET (1..n) /\ \A i \in kept : First(i)
  BY <1>2
<1>5. \A i, j \in kept : answers[i] = answers[j] => i = j
  <2> SUFFICES ASSUME NEW i \in kept, NEW j \in kept, answers[i] = answers[j], i < j
               PROVE  FALSE
    BY <1>4
  <2>1. i \in 1..(j - 1)
    BY <1>4
  <2>. QED  BY <1>4, <2>1
<1>6. \A i \in kept : answers[i] \in Key
  BY <1>3, <1>4
<1> HIDE DEF kept
<1>7. Cardinality(kept) \in Nat /\ \A k \in 1..Cardinality(kept) : \E i \in kept : rank(i) = k
  BY <1>4, KthMember
<1> HIDE DEF rank
<1>8. \A k \in 1..Cardinality(kept) : nth(k) \in kept /\ rank(nth(k)) = k
  BY <1>7
<1> HIDE DEF nth
<1>9. sigs \in Seq(Key) /\ DOMAIN sigs = 1..Cardinality(kept)
  BY <1>6, <1>7, <1>8
<1>10. Distinct(sigs)
  BY <1>5, <1>8 DEF Distinct
<1>. QED  BY <1>1, <1>9, <1>10


(* A list without repetitions has as many members as places.                 *)
LEMMA DistinctCount ==
    ASSUME NEW n \in Nat, NEW sigs \in Seq(Key), Len(sigs) = n, Distinct(sigs)
    PROVE  Cardinality(Range(sigs)) = n
<1>1. sigs \in [1..n -> Range(sigs)] /\ DOMAIN sigs = 1..n
  BY DEF Range
<1>2. \A y \in Range(sigs) : \E i \in 1..n : sigs[i] = y
  BY <1>1 DEF Range
<1>3. sigs \in Bijection(1..n, Range(sigs))
  BY <1>1, <1>2 DEF Bijection, Injection, Surjection, IsInjective, Distinct
<1>4. 1 \in Int /\ n \in Int /\ ~(1 > n /\ n # 0)
  OBVIOUS
<1>5. IsFiniteSet(1..n) /\ Cardinality(1..n) = IF 1 > n THEN 0 ELSE n - 1 + 1
  BY <1>4, FS_Interval, Zenon
<1>6. Cardinality(1..n) = n
  BY <1>4, <1>5
<1>7. ExistsBijection(1..n, Range(sigs))
  BY <1>3, Zenon DEF ExistsBijection
<1>8. Cardinality(Range(sigs)) = Cardinality(1..n)
  BY <1>5, <1>7, FS_Bijection, Zenon
<1>. QED  BY <1>6, <1>8

\* The events a caller may hand over: its poll's, its delivery queue's, the sweep's.
Offered(c) ==
    (UNION {poll[t].todo \cup queue[t].todo : t \in Task \cap {c}})
        \cup (IF c = Sweep THEN sweep ELSE {})

(* What a step may do to a call: it is left alone, answered, begun, or its   *)
(* payout is sent.                                                           *)
CallMoves(c) ==
    \/ call'[c] = call[c] \/ call'[c] = Idle
    \/ \E e \in Event \cap Offered(c) :
          ~Ignored(e) /\ call'[c] \in {Awaiting(e, "joined"), Awaiting(e, "signing")}
    \/ Send(c)

LEMMA CallSteps ==
    ASSUME CallShape, [Next]_vars, NEW c \in Caller
    PROVE  CallMoves(c)
<1>1. CASE call' = call
  BY <1>1 DEF CallMoves
<1>2. ASSUME NEW d \in Caller, Finish(d)
      PROVE  CallMoves(c)
  BY <1>2 DEF Finish, CallMoves
<1>3. ASSUME NEW d \in Caller, Send(d)
      PROVE  CallMoves(c)
  <2>1. c # d => call'[c] = call[c]
    BY <1>3 DEF Send, CallShape
  <2>. QED  BY <1>3, <2>1 DEF CallMoves
<1>4. ASSUME NEW d \in Caller, NEW e \in Event \cap Offered(d), HandleEvent(d, e)
      PROVE  CallMoves(c)
  <2>1. \/ UNCHANGED call
        \/ ~Ignored(e) /\ (\/ call' = [call EXCEPT ![d] = Awaiting(e, "joined")]
                           \/ call' = [call EXCEPT ![d] = Awaiting(e, "signing")])
    BY <1>4 DEF HandleEvent
  <2>2. c # d /\ ~UNCHANGED call => call'[c] = call[c]
    BY <2>1 DEF CallShape
  <2>3. c = d /\ ~UNCHANGED call
           => ~Ignored(e) /\ call'[c] \in {Awaiting(e, "joined"), Awaiting(e, "signing")}
    BY <2>1 DEF CallShape
  <2> HIDE DEF Offered
  <2>. QED  BY <1>4, <2>2, <2>3 DEF CallMoves
<1>5. ASSUME NEW d \in Caller, Promise(d)
      PROVE  CallMoves(c)
  BY <1>2, <1>3, <1>5
  DEF Promise, ServiceStep, Insufficient, NotSent, Replayed, Refused, Accepted, AnswerLost,
      DeadLetter, MarkHandled
<1>6. ASSUME NEW t \in Task, Ethereum(t) \/ Solana(t)
      PROVE  CallMoves(c)
  <2>1. \A e : e \in poll[t].todo \/ e \in queue[t].todo => e \in Offered(t)
    BY DEF Offered
  <2>. QED
    BY <1>1, <1>4, <1>6, <2>1
    DEF Ethereum, EthStep, StartResolving, ResolveLatest, QueryLogs, NextLog, EndPoll, Solana,
        SolanaStep, Connect, ListBackfill, FetchNext, NextNotification, HandOver,
        recordSignature, serviceVars, Caller
<1>7. CASE Retry
  <2>1. \A e : e \in sweep => e \in Offered(Sweep)
    BY DEF Offered
  <2>. QED  BY <1>1, <1>4, <1>7, <2>1 DEF Retry, StartSweep, RetryNext, Caller
<1>8. CASE Subscription \/ Chain \/ Stellar \/ UNCHANGED vars
  BY <1>1, <1>8 DEF Subscription, Subscribed, Notify, Chain, Stellar, Apply, Expire,
                    serviceVars, vars
<1>9. ASSUME NEW kind \in Faults, Fault(kind)
      PROVE  CallMoves(c)
  <2>1. CASE Restart
    BY <2>1 DEF Restart, CallMoves
  <2>. QED
    BY <1>1, <1>9, <2>1 DEF Fault, PollError, BackfillFails, Disconnect, Crash,
                            CrashBetweenSteps, CrashInEnqueue, CrashInMark, serviceVars
<1>. QED  BY <1>1, <1>5, <1>6, <1>7, <1>8, <1>9 DEF Next, Work

(* A payout is sent with the first signatures that were collected.           *)
LEMMA SendSigns ==
    ASSUME CallShape, NEW c \in Caller, Send(c)
    PROVE  call'[c] = [event |-> call[c].event, stage |-> "sent",
                       sigs |-> SubSeq(Signatures, 1, env.threshold)]
<1>1. PICK first : first = SubSeq(Signatures, 1, env.threshold)
  OBVIOUS
<1>2. call' = [call EXCEPT ![c].stage = "sent", ![c].sigs = first]
  BY <1>1 DEF Send
<1>3. call[c] = [event |-> call[c].event, stage |-> call[c].stage, sigs |-> call[c].sigs]
  BY DEF CallShape
<1>4. call'[c] = [[call[c] EXCEPT !.stage = "sent"] EXCEPT !.sigs = first]
  BY <1>2 DEF CallShape
<1>5. call'[c] = [event |-> call[c].event, stage |-> "sent", sigs |-> first]
  BY <1>3, <1>4
<1>. QED  BY <1>1, <1>5

(* The inductive invariant of signatures: the environment has a threshold,   *)
(* and what was submitted carries that many different signatures.            *)
Signed(sigs) == sigs \in Seq(Key) /\ Len(sigs) = env.threshold /\ Distinct(sigs)

SignedInv ==
    /\ env \in Environment /\ env.threshold >= 1
    /\ \A c \in Caller : call[c].stage = "sent" => Signed(call[c].sigs)

LEMMA SignedInitially == Init => SignedInv
<1> SUFFICES ASSUME Init
             PROVE  SignedInv
  OBVIOUS
<1>1. env \in Environment /\ env.threshold >= 1
  BY ScenarioConstants DEF Init, validateEnv
<1>2. \A c \in Caller : call[c].stage = "idle"
  BY DEF Init, ServiceInit, Idle
<1>. QED  BY <1>1, <1>2 DEF SignedInv

LEMMA SignedKeeps ==
    ASSUME CallShape, SignedInv, [Next]_vars
    PROVE  SignedInv'
<1>1. env' = env
  BY RecordsGrow
<1>2. ASSUME NEW c \in Caller, Send(c)
      PROVE  Signed(call'[c].sigs)
  <2> DEFINE n == env.threshold
             first == SubSeq(Signatures, 1, n)
  <2>1. Signatures \in Seq(Key) /\ Distinct(Signatures)
    BY CollectedAreDistinct DEF Signatures, SignedInv
  <2>2. n \in Nat /\ n >= 1 /\ n <= Len(Signatures)
    BY <1>2, <2>1 DEF Send, Submitting, EnoughSigners, SignedInv, Environment
  <2>3. call'[c].sigs = first
    <3>1. call'[c] = [event |-> call[c].event, stage |-> "sent", sigs |-> first]
      BY <1>2, SendSigns, Zenon
    <3> HIDE DEF first
    <3>. QED  BY <3>1
  <2> HIDE DEF n
  <2>4. /\ first \in Seq(Key) /\ Len(first) = n /\ DOMAIN first = 1..n
        /\ \A i \in 1..n : first[i] = Signatures[i] /\ i \in DOMAIN Signatures
    BY <2>1, <2>2
  <2>5. Distinct(first)
    BY <2>1, <2>4 DEF Distinct
  <2>. QED  BY <2>3, <2>4, <2>5 DEF Signed, n
<1>3. ASSUME NEW c \in Caller, call'[c].stage = "sent"
      PROVE  Signed(call'[c].sigs)
  BY <1>2, <1>3, CallSteps DEF CallMoves, SignedInv, Idle, Awaiting
<1>4. \A c \in Caller : call'[c].stage = "sent" => Signed(call[c].sigs)'
  BY <1>1, <1>3 DEF Signed, Distinct
<1>. QED  BY <1>1, <1>4 DEF SignedInv

(* fundCrosschain is given exactly the threshold of signatures, by as many   *)
(* different keys, whichever nodes answered and whatever keys are repeated.  *)
THEOREM RelayerSignsSubmissions == Spec => []SubmissionsAreSigned
<1>1. Init => SignedInv
  BY SignedInitially
<1>2. CallShape /\ SignedInv /\ [Next]_vars => SignedInv'
  BY SignedKeeps
<1>3. SignedInv => SubmissionsAreSigned
  BY DistinctCount DEF SignedInv, Signed, SubmissionsAreSigned, Environment
<1>4. ServiceInv => CallShape
  BY DEF ServiceInv
<1>. QED  BY <1>1, <1>2, <1>3, <1>4, ServiceInvariant, PTL DEF Spec



-----------------------------------------------------------------------------
(* Transaction logs.                                                         *)

(* Induction up to a bound, for a set: the least number left out would have  *)
(* its predecessor in.                                                       *)
LEMMA UpToBound ==
    ASSUME NEW n \in Nat, NEW S, 0 \in S, \A i \in 1..n : i - 1 \in S => i \in S
    PROVE  0..n \subseteq S
<1> DEFINE Out == (0..n) \ S
<1> SUFFICES ASSUME Out # {}
             PROVE  FALSE
  OBVIOUS
<1>1. PICK m \in Out : \A y \in Out : m <= y
  <2>1. Out \in SUBSET Nat
    OBVIOUS
  <2> HIDE DEF Out
  <2>. QED  BY <2>1, LeastNatural
<1>2. m \in 1..n /\ m - 1 \in 0..n
  BY <1>1
<1>3. m - 1 \in S
  BY <1>1, <1>2
<1>. QED  BY <1>1, <1>2, <1>3

LogLine == [kind : {"invoke", "end", "fund"}, program : {"bridge", "other"},
            event : Event \cup {None}, worth : Worths \cup {None}]

(* The states the loop over the lines of a log goes through.                 *)
Readings(r, lines, n) ==
    /\ r = [k \in 0..n |-> r[k]] /\ r[0] = NothingRead
    /\ \A k \in 1..n : r[k] = ReadLine(r[k - 1], lines[k])

LEMMA LogIsRead ==
    ASSUME NEW lines \in Seq(LogLine)
    PROVE  \E r : Readings(r, lines, Len(lines)) /\ ReadLines(lines) = r[Len(lines)]
<1> DEFINE n == Len(lines)
           S == {k \in 0..n : \E r : Readings(r, lines, k)}
           P(f) == f = [k \in 0..n |-> IF k = 0 THEN NothingRead
                                       ELSE ReadLine(f[k - 1], lines[k])]
           read == CHOOSE f : P(f)
<1>1. n \in Nat
  OBVIOUS
<1>2. 0 \in S
  <2>1. Readings([k \in 0..0 |-> NothingRead], lines, 0)
    BY DEF Readings
  <2>. QED  BY <1>1, <2>1
<1>3. ASSUME NEW k \in 1..n, k - 1 \in S
      PROVE  k \in S
  <2>1. PICK r : Readings(r, lines, k - 1)
    BY <1>3
  <2>2. PICK line : line = lines[k]
    OBVIOUS
  <2> DEFINE last == ReadLine(r[k - 1], line)
             t == [i \in 0..k |-> IF i = k THEN last ELSE r[i]]
  <2> HIDE DEF last
  <2>3. t[0] = NothingRead /\ t[k] = last /\ t[k - 1] = r[k - 1]
    BY <2>1 DEF Readings
  <2>4. \A i \in 1..(k - 1) : t[i] = r[i] /\ t[i - 1] = r[i - 1]
    OBVIOUS
  <2> HIDE DEF t
  <2>5. \A i \in 1..(k - 1) : t[i] = ReadLine(t[i - 1], lines[i])
    BY <2>1, <2>4, Zenon DEF Readings
  <2>6. t[k] = ReadLine(t[k - 1], lines[k])
    BY <2>2, <2>3 DEF last
  <2>7. \A i \in 1..k : i \in 1..(k - 1) \/ i = k
    OBVIOUS
  <2>8. t = [i \in 0..k |-> t[i]]
    BY DEF t
  <2>9. Readings(t, lines, k)
    BY <2>3, <2>5, <2>6, <2>7, <2>8, Zenon DEF Readings
  <2>. QED  BY <1>1, <2>9
<1>4. PICK r : Readings(r, lines, n)
  <2> HIDE DEF S
  <2>1. 0..n \subseteq S
    BY <1>1, <1>2, <1>3, UpToBound
  <2>. QED  BY <1>1, <2>1 DEF S
<1>5. P(r)
  <2>1. \A k \in 0..n : k = 0 \/ k \in 1..n
    BY <1>1
  <2>2. \A k \in 1..n : k # 0
    OBVIOUS
  <2>3. \A k \in 0..n : r[k] = IF k = 0 THEN NothingRead ELSE ReadLine(r[k - 1], lines[k])
    BY <1>4, <2>1, <2>2, Zenon DEF Readings
  <2>4. r = [k \in 0..n |-> r[k]]
    BY <1>4 DEF Readings
  <2>. QED  BY <2>3, <2>4, Zenon
<1>6. P(read)
  BY <1>5, Zenon
<1>7. ReadLines(lines) = read[n]
  BY DEF ReadLines
<1> HIDE DEF read
<1>8. Readings(read, lines, n)
  <2>1. 0 \in 0..n /\ \A k \in 1..n : k # 0 /\ k \in 0..n
    BY <1>1
  <2>2. read = [k \in 0..n |-> read[k]]
    BY <1>6
  <2>3. \A k \in 0..n : read[k] = IF k = 0 THEN NothingRead ELSE ReadLine(read[k - 1], lines[k])
    BY <1>6, Zenon
  <2>. QED  BY <2>1, <2>2, <2>3, Zenon DEF Readings
<1>. QED  BY <1>7, <1>8

(* The loop reads one line more.                                             *)
LEMMA OneMoreLine ==
    ASSUME NEW lines \in Seq(LogLine), NEW line \in LogLine
    PROVE  ReadLines(Append(lines, line)) = ReadLine(ReadLines(lines), line)
<1> DEFINE n == Len(lines)
           more == Append(lines, line)
<1>1. /\ n \in Nat /\ more \in Seq(LogLine) /\ Len(more) = n + 1 /\ more[n + 1] = line
      /\ \A k \in 1..n : more[k] = lines[k]
  OBVIOUS
<1>2. PICK r : Readings(r, lines, n) /\ ReadLines(lines) = r[n]
  BY LogIsRead
<1>3. PICK t : Readings(t, more, n + 1) /\ ReadLines(more) = t[n + 1]
  BY <1>1, LogIsRead
<1> DEFINE S == {k \in 0..n : t[k] = r[k]}
<1> HIDE DEF n, more
<1>4. 0 \in S
  BY <1>1, <1>2, <1>3 DEF Readings
<1>5. ASSUME NEW k \in 1..n, k - 1 \in S
      PROVE  k \in S
  <2>1. k \in 1..(n + 1) /\ k \in 0..n
    BY <1>1
  <2>2. t[k] = ReadLine(t[k - 1], lines[k])
    BY <1>1, <1>3, <2>1, Zenon DEF Readings
  <2>3. r[k] = ReadLine(r[k - 1], lines[k])
    BY <1>2, Zenon DEF Readings
  <2>. QED  BY <1>5, <2>1, <2>2, <2>3
<1>6. t[n] = r[n]
  <2> HIDE DEF S
  <2>1. 0..n \subseteq S
    BY <1>1, <1>4, <1>5, UpToBound
  <2>. QED  BY <1>1, <2>1 DEF S
<1>7. n + 1 \in 1..(n + 1) /\ (n + 1) - 1 = n
  BY <1>1
<1>8. t[n + 1] = ReadLine(t[n], line)
  BY <1>1, <1>3, <1>7, Zenon DEF Readings
<1>. QED  BY <1>2, <1>3, <1>6, <1>8 DEF more

LEMMA NothingToRead == ReadLines(<<>>) = NothingRead
<1>1. <<>> \in Seq(LogLine) /\ Len(<<>>) = 0
  OBVIOUS
<1>. QED  BY <1>1, LogIsRead DEF Readings


(* A list of one.                                                            *)
LEMMA Singleton ==
    ASSUME NEW S, NEW list \in Seq(S), Len(list) = 1
    PROVE  list = <<list[1]>>
  OBVIOUS

(* What the loop has found, with the frames that are open.                   *)
Reading(frames, events) == [stack |-> frames, events |-> events]

(* The frame of the bridge is opened and closed; one of a program it calls   *)
(* lies on top of it in between, and what is printed there does not count.   *)
LEMMA ReadFrames ==
    ASSUME NEW events, NEW e, NEW worth
    PROVE  /\ ReadLine(NothingRead, Opens("bridge")) = Reading(<<"bridge">>, {})
           /\ ReadLine(Reading(<<"bridge">>, events), Line("fund", "bridge", e, worth))
                 = Reading(<<"bridge">>, events \cup decodeLine(Line("fund", "bridge", e, worth)))
           /\ ReadLine(Reading(<<"bridge">>, events), Opens("other"))
                 = Reading(<<"bridge", "other">>, events)
           /\ ReadLine(Reading(<<"bridge", "other">>, events), Line("fund", "other", e, worth))
                 = Reading(<<"bridge", "other">>, events)
           /\ ReadLine(Reading(<<"bridge", "other">>, events), Closes("other"))
                 = Reading(<<"bridge">>, events)
           /\ ReadLine(Reading(<<"bridge">>, events), Closes("bridge")).events = events
<1> USE DEF Reading, Opens, Closes, Line
<1>1. ReadLine(NothingRead, Opens("bridge")) = Reading(<<"bridge">>, {})
  <2>1. PICK none : none = {}
    OBVIOUS
  <2>2. Append(<<>>, "bridge") = <<"bridge">>
    OBVIOUS
  <2>3. ReadLine(Reading(<<>>, none), Opens("bridge")) = Reading(<<"bridge">>, none)
    BY <2>2 DEF ReadLine
  <2>. QED  BY <2>1, <2>3 DEF NothingRead
<1>2. ReadLine(Reading(<<"bridge">>, events), Opens("other"))
         = Reading(<<"bridge", "other">>, events)
  BY DEF ReadLine
<1>3. Last(<<"bridge">>) = "bridge" /\ Last(<<"bridge", "other">>) = "other"
  BY DEF Last
<1>4. PICK found : found = decodeLine(Line("fund", "bridge", e, worth))
  OBVIOUS
<1>5. ReadLine(Reading(<<"bridge">>, events), Line("fund", "bridge", e, worth))
         = Reading(<<"bridge">>, events \cup found)
  BY <1>3, <1>4 DEF ReadLine
<1>6. ReadLine(Reading(<<"bridge", "other">>, events), Line("fund", "other", e, worth))
         = Reading(<<"bridge", "other">>, events)
  BY <1>3 DEF ReadLine
<1>7. ReadLine(Reading(<<"bridge">>, events), Closes("bridge")).events = events
  <2>1. PICK idx : idx = SelectLastInSeq(<<"bridge">>, LAMBDA x : x = "bridge")
    OBVIOUS
  <2>. QED  BY <2>1 DEF ReadLine
<1>8. SelectLastInSeq(<<"bridge", "other">>, LAMBDA x : x = "other") = 2
  <2>1. {i \in 1..Len(<<"bridge", "other">>) : <<"bridge", "other">>[i] = "other"} = {2}
    OBVIOUS
  <2>2. Max({2}) = 2
    BY DEF Max
  <2>. QED  BY <2>1, <2>2 DEF SelectLastInSeq
<1>9. RemoveAt(<<"bridge", "other">>, 2) = <<"bridge">>
  <2>1. <<"bridge", "other">> \in Seq({"bridge", "other"}) /\ Len(<<"bridge", "other">>) = 2
    OBVIOUS
  <2>2. PICK both : both = <<"bridge", "other">>
    OBVIOUS
  <2>3. SubSeq(both, 1, 1) = <<"bridge">>
    <3>1. both \in Seq({"bridge", "other"}) /\ Len(both) = 2 /\ both[1] = "bridge"
      BY <2>1, <2>2
    <3>2. PICK one : one = SubSeq(both, 1, 1)
      OBVIOUS
    <3>3. one \in Seq({"bridge", "other"}) /\ Len(one) = 1 /\ one[1] = "bridge"
      BY <3>1, <3>2
    <3>5. one = <<one[1]>>
      BY <3>3, Singleton
    <3>. QED  BY <3>2, <3>3, <3>5
  <2>4. SubSeq(both, 3, 2) = <<>>
    BY <2>1, <2>2
  <2>5. RemoveAt(both, 2) = SubSeq(both, 1, 1) \o SubSeq(both, 3, 2)
    BY <2>1, <2>2 DEF RemoveAt
  <2>. QED  BY <2>2, <2>3, <2>4, <2>5
<1>10. ReadLine(Reading(<<"bridge", "other">>, events), Closes("other"))
         = Reading(<<"bridge">>, events)
  BY <1>8, <1>9 DEF ReadLine
<1>. QED  BY <1>1, <1>2, <1>4, <1>5, <1>6, <1>7, <1>10


\* What a transaction's log is worth reading for.
Extractable(e, worths) == worths[e] \notin {"forged", "malformed"}

(* Of the deposits in a transaction, exactly those the bridge printed itself *)
(* and in full are found: no line of a program the bridge calls counts.      *)
LEMMA ReadDeposit ==
    ASSUME NEW lines \in Seq(LogLine), NEW events, NEW e \in Event, NEW worths \in [Event -> Worths],
           ReadLines(lines) = Reading(<<"bridge">>, events)
    PROVE  /\ lines \o DepositLines(e, worths[e]) \in Seq(LogLine)
           /\ ReadLines(lines \o DepositLines(e, worths[e]))
                 = Reading(<<"bridge">>, events \cup (IF Extractable(e, worths) THEN {e} ELSE {}))
<1> DEFINE w == worths[e]
<1>1. w \in Worths
  OBVIOUS
<1>2. /\ Opens("other") \in LogLine /\ Closes("other") \in LogLine
      /\ Line("fund", "other", e, w) \in LogLine /\ Line("fund", "bridge", e, w) \in LogLine
  BY <1>1 DEF Opens, Closes, Line, LogLine
<1> HIDE DEF w
<1>3. CASE w = "forged"
  <2>1. PICK a, b, c : a = Opens("other") /\ b = Line("fund", "other", e, w) /\ c = Closes("other")
    OBVIOUS
  <2>2. DepositLines(e, w) = <<a, b, c>>
    BY <1>3, <2>1 DEF DepositLines
  <2>3. a \in LogLine /\ b \in LogLine /\ c \in LogLine
    BY <1>2, <2>1
  <2>4. lines \o <<a, b, c>> = Append(Append(Append(lines, a), b), c)
    BY <2>3
  <2>5. Append(lines, a) \in Seq(LogLine) /\ Append(Append(lines, a), b) \in Seq(LogLine)
        /\ Append(Append(Append(lines, a), b), c) \in Seq(LogLine)
    BY <2>3
  <2>6. ReadLines(Append(lines, a)) = Reading(<<"bridge", "other">>, events)
    BY <2>1, <2>3, OneMoreLine, ReadFrames
  <2>7. ReadLines(Append(Append(lines, a), b)) = Reading(<<"bridge", "other">>, events)
    <3>1. ReadLines(Append(Append(lines, a), b)) = ReadLine(ReadLines(Append(lines, a)), b)
      BY <2>3, <2>5, OneMoreLine
    <3>2. ReadLine(Reading(<<"bridge", "other">>, events), Line("fund", "other", e, w))
             = Reading(<<"bridge", "other">>, events)
      BY ReadFrames, ZenonT(30)
    <3>. QED  BY <2>1, <2>6, <3>1, <3>2
  <2>8. ReadLines(Append(Append(Append(lines, a), b), c)) = Reading(<<"bridge">>, events)
    <3>1. ReadLines(Append(Append(Append(lines, a), b), c))
             = ReadLine(ReadLines(Append(Append(lines, a), b)), c)
      BY <2>3, <2>5, OneMoreLine
    <3>2. ReadLine(Reading(<<"bridge", "other">>, events), c) = Reading(<<"bridge">>, events)
      BY <2>1, ReadFrames, Zenon
    <3>. QED  BY <2>7, <3>1, <3>2
  <2>9. ~Extractable(e, worths)
    BY <1>3 DEF Extractable, w
  <2>10. events \cup {} = events
    OBVIOUS
  <2>. QED  BY <2>2, <2>4, <2>5, <2>8, <2>9, <2>10 DEF w
<1>4. CASE w # "forged"
  <2>1. PICK a : a = Line("fund", "bridge", e, w)
    OBVIOUS
  <2>2. DepositLines(e, w) = <<a>>
    BY <1>4, <2>1 DEF DepositLines
  <2>3. a \in LogLine
    BY <1>2, <2>1
  <2>4. lines \o <<a>> = Append(lines, a) /\ Append(lines, a) \in Seq(LogLine)
    BY <2>3
  <2>5. ReadLines(Append(lines, a)) = Reading(<<"bridge">>, events \cup decodeLine(a))
    BY <2>1, <2>3, OneMoreLine, ReadFrames
  <2>6. decodeLine(a) = IF Extractable(e, worths) THEN {e} ELSE {}
    BY <1>4, <2>1 DEF decodeLine, Line, Extractable, w
  <2>. QED  BY <2>2, <2>4, <2>5, <2>6 DEF w
<1>. QED  BY <1>3, <1>4


(* Every order of a finite set's members is a list of all of them.           *)
LEMMA ListedOnce ==
    ASSUME NEW S, IsFiniteSet(S)
    PROVE  /\ Cardinality(S) \in Nat
           /\ SetToSeq(S) \in [1..Cardinality(S) -> S]
           /\ \A x \in S : \E i \in 1..Cardinality(S) : SetToSeq(S)[i] = x
<1> DEFINE n == Cardinality(S)
<1>1. n \in Nat
  BY FS_CardinalityType
<1>2. IsFiniteSet(1..n) /\ Cardinality(1..n) = n
  <2>1. 1 \in Int /\ n \in Int
    BY <1>1
  <2>2. IsFiniteSet(1..n) /\ Cardinality(1..n) = IF 1 > n THEN 0 ELSE n - 1 + 1
    BY <2>1, FS_Interval, Zenon
  <2> HIDE DEF n
  <2>. QED  BY <1>1, <2>2
<1>3. ExistsBijection(1..n, S)
  BY <1>2, FS_SameCardinalityBij
<1>4. PICK f : f \in Bijection(1..n, S)
  BY <1>3, Zenon DEF ExistsBijection
<1>5. f \in [1..n -> S] /\ IsInjective(f)
  BY <1>4 DEF Bijection, Injection
<1> DEFINE list == SetToSeq(S)
<1>6. list \in [1..n -> S] /\ IsInjective(list)
  BY <1>5, Zenon DEF SetToSeq
<1>7. list \in Injection(1..n, S)
  BY <1>6 DEF Injection
<1> HIDE DEF list
<1>8. list \in Surjection(1..n, S)
  BY <1>2, <1>7, FS_Injection
<1>9. \A x \in S : \E i \in 1..n : list[i] = x
  BY <1>8 DEF Surjection
<1>. QED  BY <1>1, <1>6, <1>9 DEF list


(* What is printed block after block.                                        *)
Printed(f, n, base, blocks) ==
    /\ f = [k \in 0..n |-> f[k]] /\ f[0] = base
    /\ \A k \in 1..n : f[k] = f[k - 1] \o blocks[k]

Concatenates(f, n, base, blocks) ==
    f = [k \in 0..n |-> IF k = 0 THEN base ELSE f[k - 1] \o blocks[k]]

LEMMA LogIsPrinted ==
    ASSUME NEW n \in Nat, NEW base, NEW blocks
    PROVE  \E f : Concatenates(f, n, base, blocks)
<1> DEFINE S == {k \in 0..n : \E f : Printed(f, k, base, blocks)}
<1>1. 0 \in S
  <2>1. Printed([k \in 0..0 |-> base], 0, base, blocks)
    BY DEF Printed
  <2>. QED  BY <2>1
<1>2. ASSUME NEW k \in 1..n, k - 1 \in S
      PROVE  k \in S
  <2>1. PICK r : Printed(r, k - 1, base, blocks)
    BY <1>2
  <2> DEFINE last == r[k - 1] \o blocks[k]
             t == [i \in 0..k |-> IF i = k THEN last ELSE r[i]]
  <2> HIDE DEF last
  <2>3. t[0] = base /\ t[k] = last /\ t[k - 1] = r[k - 1]
    BY <2>1 DEF Printed
  <2>4. \A i \in 1..(k - 1) : t[i] = r[i] /\ t[i - 1] = r[i - 1]
    OBVIOUS
  <2> HIDE DEF t
  <2>5. \A i \in 1..(k - 1) : t[i] = t[i - 1] \o blocks[i]
    BY <2>1, <2>4, Zenon DEF Printed
  <2>6. t[k] = t[k - 1] \o blocks[k]
    BY <2>3 DEF last
  <2>7. \A i \in 1..k : i \in 1..(k - 1) \/ i = k
    OBVIOUS
  <2>8. t = [i \in 0..k |-> t[i]]
    BY DEF t
  <2>9. Printed(t, k, base, blocks)
    BY <2>3, <2>5, <2>6, <2>7, <2>8, Zenon DEF Printed
  <2>. QED  BY <2>9
<1>3. PICK f : Printed(f, n, base, blocks)
  <2> HIDE DEF S
  <2>1. 0..n \subseteq S
    BY <1>1, <1>2, UpToBound
  <2>. QED  BY <2>1 DEF S
<1>4. \A k \in 0..n : k = 0 \/ k \in 1..n
  OBVIOUS
<1>5. \A k \in 1..n : k # 0
  OBVIOUS
<1>6. \A k \in 0..n : f[k] = IF k = 0 THEN base ELSE f[k - 1] \o blocks[k]
  BY <1>3, <1>4, <1>5, Zenon DEF Printed
<1>7. f = [k \in 0..n |-> f[k]]
  BY <1>3 DEF Printed
<1>. QED  BY <1>6, <1>7, Zenon DEF Concatenates

(* extractBridgeFundEvents, over the log of a transaction: it finds exactly  *)
(* the deposits that the bridge program printed itself and in full, in       *)
(* whatever order, and none that a program it calls has forged.              *)
THEOREM RelayerReadsOwnFrames ==
    ASSUME NEW deposits, IsFiniteSet(deposits), deposits \subseteq Event,
           NEW worths \in [Event -> Worths]
    PROVE  extractBridgeFundEvents(TransactionLog(deposits, worths))
              = {e \in deposits : Extractable(e, worths)}
<1> DEFINE made == SetToSeq(deposits)
           n == Cardinality(deposits)
           P(f) == f = [k \in 0..Len(made) |->
                          IF k = 0 THEN <<Opens("bridge")>>
                          ELSE f[k - 1] \o DepositLines(made[k], worths[made[k]])]
           printed == CHOOSE f : P(f)
           Found(k) == {e \in Event : Extractable(e, worths) /\ \E i \in 1..k : made[i] = e}
<1>1. /\ n \in Nat /\ made \in [1..n -> Event] /\ Len(made) = n
      /\ \A e : e \in deposits <=> \E i \in 1..n : made[i] = e
  <2>1. n \in Nat /\ made \in [1..n -> deposits] /\ \A e \in deposits : \E i \in 1..n : made[i] = e
    BY ListedOnce
  <2> HIDE DEF made, n
  <2>. QED  BY <2>1
<1>2. TransactionLog(deposits, worths) = Append(printed[n], Closes("bridge"))
  BY <1>1 DEF TransactionLog
<1> HIDE DEF made, n
<1>3. P(printed)
  <2>0. PICK blocks, base : /\ blocks = [k \in 1..n |-> DepositLines(made[k], worths[made[k]])]
                            /\ base = <<Opens("bridge")>>
    OBVIOUS
  <2>1. PICK f : Concatenates(f, n, base, blocks)
    BY <1>1, LogIsPrinted
  <2>2. \A k \in 0..n : k # 0 => blocks[k] = DepositLines(made[k], worths[made[k]])
    BY <1>1, <2>0
  <2>3. P(f)
    BY <1>1, <2>0, <2>1, <2>2 DEF Concatenates
  <2> HIDE DEF P
  <2>. QED  BY <2>3, Zenon
<1> HIDE DEF printed
<1>4. /\ printed[0] = <<Opens("bridge")>>
      /\ \A k \in 1..n : printed[k] = printed[k - 1] \o DepositLines(made[k], worths[made[k]])
  <2>1. 0 \in 0..n /\ \A k \in 1..n : k # 0 /\ k \in 0..n
    BY <1>1
  <2>. QED  BY <1>1, <1>3, <2>1
<1> HIDE DEF P
<1> DEFINE S == {k \in 0..n : /\ printed[k] \in Seq(LogLine)
                              /\ ReadLines(printed[k]) = Reading(<<"bridge">>, Found(k))}
<1>5. 0 \in S
  <2>1. Opens("bridge") \in LogLine /\ 0 \in 0..n
    BY <1>1 DEF Opens, Line, LogLine
  <2>2. <<Opens("bridge")>> = Append(<<>>, Opens("bridge")) /\ <<>> \in Seq(LogLine)
    OBVIOUS
  <2>3. ReadLines(<<Opens("bridge")>>) = ReadLine(NothingRead, Opens("bridge"))
    BY <2>1, <2>2, OneMoreLine, NothingToRead
  <2>4. ReadLine(NothingRead, Opens("bridge")) = Reading(<<"bridge">>, {})
    BY ReadFrames, Zenon
  <2>5. Found(0) = {}
    OBVIOUS
  <2>6. <<Opens("bridge")>> \in Seq(LogLine)
    BY <2>1
  <2>. QED  BY <1>4, <2>1, <2>3, <2>4, <2>5, <2>6
<1>6. ASSUME NEW k \in 1..n, k - 1 \in S
      PROVE  k \in S
  <2> DEFINE e == made[k]
             new == IF Extractable(e, worths) THEN {e} ELSE {}
  <2>1. e \in Event /\ k \in 0..n
    BY <1>1
  <2>2. printed[k] = printed[k - 1] \o DepositLines(e, worths[e])
    BY <1>4
  <2>3. Found(k) = Found(k - 1) \cup new
    <3>1. \A i : i \in 1..k <=> i \in 1..(k - 1) \/ i = k
      BY <1>1
    <3>2. \A f : f \in Found(k) <=> f \in Found(k - 1) \/ f \in new
      BY <2>1, <3>1
    <3> HIDE DEF Found, new
    <3>. QED  BY <3>2
  <2> HIDE DEF e, Found
  <2>4. /\ printed[k - 1] \in Seq(LogLine)
        /\ ReadLines(printed[k - 1]) = Reading(<<"bridge">>, Found(k - 1))
    BY <1>6
  <2>5. /\ printed[k - 1] \o DepositLines(e, worths[e]) \in Seq(LogLine)
        /\ ReadLines(printed[k - 1] \o DepositLines(e, worths[e]))
              = Reading(<<"bridge">>, Found(k - 1) \cup new)
    BY <2>1, <2>4, ReadDeposit
  <2>. QED  BY <2>1, <2>2, <2>3, <2>5
<1>7. printed[n] \in Seq(LogLine) /\ ReadLines(printed[n]) = Reading(<<"bridge">>, Found(n))
  <2> HIDE DEF S
  <2>1. 0..n \subseteq S
    BY <1>1, <1>5, <1>6, UpToBound
  <2>. QED  BY <1>1, <2>1 DEF S
<1>8. Found(n) = {e \in deposits : Extractable(e, worths)}
  BY <1>1
<1> HIDE DEF Found
<1>9. ReadLines(Append(printed[n], Closes("bridge"))).events = Found(n)
  <2>1. Closes("bridge") \in LogLine
    BY DEF Closes, Line, LogLine
  <2>2. ReadLines(Append(printed[n], Closes("bridge")))
           = ReadLine(Reading(<<"bridge">>, Found(n)), Closes("bridge"))
    BY <1>7, <2>1, OneMoreLine
  <2>3. ReadLine(Reading(<<"bridge">>, Found(n)), Closes("bridge")).events = Found(n)
    BY ReadFrames, Zenon
  <2>. QED  BY <2>2, <2>3
<1>. QED  BY <1>2, <1>8, <1>9 DEF extractBridgeFundEvents



-----------------------------------------------------------------------------
(* Types.                                                                    *)

QueueTyped ==
    /\ DOMAIN dlq \subseteq Event
    /\ \A e \in DOMAIN dlq : dlq[e] \in [attempts : 1..RetryLimit, reason : Reasons]

RecordsTyped == sweep \cup nonces \cup mempool \cup paid \cup submitted \cup lost \subseteq Event

LEMMA EnqueueTyped ==
    ASSUME QueueTyped, NEW e \in Event, NEW reason \in Reasons, Enqueue(e, reason)
    PROVE  QueueTyped'
<1> DEFINE count == Lesser(Attempts(e) + 1, RetryLimit)
<1>1. count \in 1..RetryLimit
  <2>1. Attempts(e) \in 0..RetryLimit /\ RetryLimit \in Nat \ {0}
    BY RetryConstant DEF Attempts, QueueTyped
  <2> HIDE DEF Attempts
  <2>. QED  BY <2>1 DEF Lesser
<1>2. dlq' = [f \in DOMAIN dlq \cup {e} |-> IF f = e THEN [attempts |-> count, reason |-> reason]
                                              ELSE dlq[f]]
  BY DEF Enqueue
<1> HIDE DEF count
<1>3. DOMAIN dlq' = DOMAIN dlq \cup {e}
  BY <1>2
<1>4. ASSUME NEW f \in DOMAIN dlq'
      PROVE  dlq'[f] \in [attempts : 1..RetryLimit, reason : Reasons]
  <2>1. CASE f = e
    BY <1>1, <1>2, <1>3, <2>1
  <2>2. CASE f # e
    <3>1. f \in DOMAIN dlq /\ dlq'[f] = dlq[f]
      BY <1>2, <1>3, <2>2
    <3>. QED  BY <3>1 DEF QueueTyped
  <2>. QED  BY <2>1, <2>2
<1>. QED  BY <1>3, <1>4 DEF QueueTyped

LEMMA RemovalTyped ==
    ASSUME QueueTyped, NEW e, RemoveEntry(e)
    PROVE  QueueTyped'
<1>1. dlq' = [f \in DOMAIN dlq \ {e} |-> dlq[f]]
  BY DEF RemoveEntry
<1>2. DOMAIN dlq' = DOMAIN dlq \ {e} /\ \A f \in DOMAIN dlq' : f \in DOMAIN dlq /\ dlq'[f] = dlq[f]
  BY <1>1
<1>. QED  BY <1>2, Zenon DEF QueueTyped

LEMMA ServiceStepTyped ==
    ASSUME CallShape, QueueTyped, RecordsTyped, NEW c \in Caller, ServiceStep(c)
    PROVE  QueueTyped' /\ RecordsTyped'
<1>1. call[c].event \in Event
  BY DEF CallShape, ServiceStep, Insufficient, Send, NotSent, Replayed, Refused, Accepted,
         AnswerLost, Submitting
<1>2. ASSUME NEW reason \in Reasons, DeadLetter(c, reason)
      PROVE  QueueTyped' /\ RecordsTyped'
  BY <1>1, <1>2, EnqueueTyped DEF DeadLetter, RecordsTyped, stellarVars
<1>3. CASE MarkHandled(c)
  BY <1>1, <1>3, RemovalTyped DEF MarkHandled, RecordsTyped, stellarVars
<1>4. CASE Send(c)
  BY <1>1, <1>4 DEF Send, RecordsTyped, QueueTyped
<1>. QED  BY <1>2, <1>3, <1>4 DEF ServiceStep, Insufficient, NotSent, Replayed, Refused,
                                  Accepted, AnswerLost, Reasons

LEMMA CrashTyped ==
    ASSUME CallShape, QueueTyped, RecordsTyped, Crash
    PROVE  QueueTyped' /\ RecordsTyped'
<1>1. Restart /\ sweep' = {}
  BY DEF Crash, CrashBetweenSteps, CrashInEnqueue, CrashInMark, Restart
<1>2. CASE CrashBetweenSteps
  BY <1>1, <1>2 DEF CrashBetweenSteps, Restart, RecordsTyped, QueueTyped, stellarVars
<1>3. ASSUME NEW c \in Caller, CrashInEnqueue(c)
      PROVE  QueueTyped' /\ RecordsTyped'
  <2>1. call[c].event \in Event
    BY <1>3 DEF CrashInEnqueue, CallShape
  <2>2. QueueTyped'
    BY <1>3, RemovalTyped DEF CrashInEnqueue
  <2>3. RecordsTyped'
    BY <1>1, <1>3, <2>1 DEF CrashInEnqueue, Restart, RecordsTyped, stellarVars
  <2>. QED  BY <2>2, <2>3
<1>4. ASSUME NEW c \in Caller, CrashInMark(c)
      PROVE  QueueTyped' /\ RecordsTyped'
  <2>1. call[c].event \in Event
    BY <1>4 DEF CrashInMark, CallShape, Submitting
  <2>. QED
    BY <1>1, <1>4, <2>1 DEF CrashInMark, Restart, RecordsTyped, QueueTyped, stellarVars
<1>. QED  BY <1>2, <1>3, <1>4 DEF Crash

LEMMA RecordsStayTyped ==
    ASSUME CallShape, QueueTyped, RecordsTyped, [Next]_vars
    PROVE  QueueTyped' /\ RecordsTyped'
<1>1. CASE UNCHANGED <<sweep, nonces, dlq, stellarVars, lost>>
  BY <1>1 DEF QueueTyped, RecordsTyped, stellarVars
<1>2. ASSUME NEW c \in Caller, Promise(c)
      PROVE  QueueTyped' /\ RecordsTyped'
  BY <1>2, ServiceStepTyped DEF Promise
<1>3. ASSUME NEW t \in Task, Ethereum(t) \/ Solana(t)
      PROVE  QueueTyped' /\ RecordsTyped'
  BY <1>1, <1>3
  DEF Ethereum, EthStep, StartResolving, ResolveLatest, QueryLogs, NextLog, EndPoll, Solana,
      SolanaStep, Connect, ListBackfill, FetchNext, NextNotification, HandOver,
      recordSignature, HandleEvent, serviceVars
<1>4. CASE Subscription \/ Chain \/ UNCHANGED vars
  BY <1>1, <1>4 DEF Subscription, Subscribed, Notify, Chain, vars, serviceVars
<1>5. CASE Retry
  <2>1. UNCHANGED <<nonces, dlq, stellarVars, lost>> /\ sweep' \subseteq sweep \cup Event
    BY <1>5 DEF Retry, StartSweep, RetryNext, HandleEvent
  <2>. QED  BY <2>1 DEF QueueTyped, RecordsTyped, stellarVars
<1>6. CASE Stellar
  <2>1. PICK e \in Event : Apply(e) \/ Expire(e)
    BY <1>6 DEF Stellar
  <2>2. /\ UNCHANGED <<sweep, nonces, dlq, submitted, lost>>
        /\ mempool' \subseteq mempool /\ paid' \subseteq paid \cup {e}
    BY <2>1 DEF Apply, Expire
  <2>. QED  BY <2>2 DEF QueueTyped, RecordsTyped
<1>7. ASSUME NEW kind \in Faults, Fault(kind)
      PROVE  QueueTyped' /\ RecordsTyped'
  BY <1>1, <1>7, CrashTyped DEF Fault, PollError, BackfillFails, Disconnect, serviceVars
<1>. QED  BY <1>2, <1>3, <1>4, <1>5, <1>6, <1>7 DEF Next, Work


Delivery == [stage : {"idle", "listing", "ready", "handling"}, next : Nat, upto : Nat,
             live : Nat, notified : Nat, at : Nat, todo : SUBSET Event]

Socket == [open : BOOLEAN, queue : Task \cup {None}, listed : Int, acked : Int]

(* A delivery queue with what a step sets in it.                             *)
Becomes(q, stage, next, upto, live, notified, at, todo) ==
    queue' = [queue EXCEPT ![q] = [stage |-> stage, next |-> next, upto |-> upto, live |-> live,
                                   notified |-> notified, at |-> at, todo |-> todo]]

(* The fields of a queue, one by one.                                        *)
LEMMA DeliveryFields ==
    ASSUME queue \in [Task -> Delivery], NEW q \in Task
    PROVE  queue[q] = [stage |-> queue[q].stage, next |-> queue[q].next,
                       upto |-> queue[q].upto, live |-> queue[q].live,
                       notified |-> queue[q].notified, at |-> queue[q].at,
                       todo |-> queue[q].todo]
  BY DEF Delivery

LEMMA SetTwo ==
    ASSUME queue \in [Task -> Delivery], NEW q \in Task, NEW a, NEW b
    PROVE  /\ queue' = [queue EXCEPT ![q].live = a, ![q].notified = b]
              => Becomes(q, queue[q].stage, queue[q].next, queue[q].upto, a, b, queue[q].at,
                         queue[q].todo)
           /\ queue' = [queue EXCEPT ![q].stage = a, ![q].at = b]
              => Becomes(q, a, queue[q].next, queue[q].upto, queue[q].live, queue[q].notified,
                         b, queue[q].todo)
           /\ queue' = [queue EXCEPT ![q].notified = b]
              => Becomes(q, queue[q].stage, queue[q].next, queue[q].upto, queue[q].live, b,
                         queue[q].at, queue[q].todo)
           /\ queue' = [queue EXCEPT ![q].todo = a]
              => Becomes(q, queue[q].stage, queue[q].next, queue[q].upto, queue[q].live,
                         queue[q].notified, queue[q].at, a)
  BY DeliveryFields DEF Becomes

LEMMA SetFour ==
    ASSUME queue \in [Task -> Delivery], NEW q \in Task, NEW a, NEW b, NEW c, NEW d, NEW e
    PROVE  /\ queue' = [queue EXCEPT ![q].stage = a, ![q].at = b, ![q].next = c, ![q].upto = d]
              => Becomes(q, a, c, d, queue[q].live, queue[q].notified, b, queue[q].todo)
           /\ queue' = [queue EXCEPT ![q].stage = a, ![q].at = b, ![q].live = c, ![q].todo = d]
              => Becomes(q, a, queue[q].next, queue[q].upto, c, queue[q].notified, b, d)
           /\ queue' = [queue EXCEPT ![q].stage = a, ![q].at = b, ![q].next = c, ![q].upto = d,
                                     ![q].todo = e]
              => Becomes(q, a, c, d, queue[q].live, queue[q].notified, b, e)
  BY DeliveryFields DEF Becomes


LEMMA BecomesTyped ==
    ASSUME queue \in [Task -> Delivery], NEW q \in Task,
           NEW stage \in {"idle", "listing", "ready", "handling"}, NEW next \in Nat,
           NEW upto \in Nat, NEW live \in Nat, NEW notified \in Nat, NEW at \in Nat,
           NEW todo \in SUBSET Event,
           Becomes(q, stage, next, upto, live, notified, at, todo)
    PROVE  queue' \in [Task -> Delivery]
  BY DEF Becomes, Delivery

(* Closing some queues.                                                      *)
LEMMA ClosesTyped ==
    ASSUME queue \in [Task -> Delivery],
           queue' = [r \in Task |-> queue'[r]],
           \A r \in Task : queue'[r] = Drained \/ queue'[r] = queue[r]
    PROVE  queue' \in [Task -> Delivery]
<1>1. Drained \in Delivery
  BY DEF Drained, Delivery
<1>. QED  BY <1>1

LEMMA CoveredTyped ==
    ASSUME ws \in Socket, missed \subseteq Event, NEW listed \in Int, NEW acked \in Int,
           Covered(listed, acked)
    PROVE  /\ ws' \in Socket /\ missed' \subseteq Event
           /\ ws'.open = ws.open /\ ws'.queue = ws.queue
<1>1. ws = [open |-> ws.open, queue |-> ws.queue, listed |-> ws.listed, acked |-> ws.acked]
      /\ ws.open \in BOOLEAN /\ ws.queue \in Task \cup {None}
  BY DEF Socket
<1>2. ASSUME NEW a \in Int, NEW b \in Int, ws' = [ws EXCEPT !.listed = a, !.acked = b]
      PROVE  ws' \in Socket /\ ws'.open = ws.open /\ ws'.queue = ws.queue
  <2>1. ws' = [open |-> ws.open, queue |-> ws.queue, listed |-> a, acked |-> b]
    BY <1>1, <1>2
  <2>. QED  BY <1>1, <2>1 DEF Socket
<1>3. missed' \subseteq Event
  BY DEF Covered, EventsIn
<1>4. CASE listed = Unknown \/ acked = Unknown
  <2>1. ws' = [ws EXCEPT !.listed = listed, !.acked = acked]
    BY <1>4 DEF Covered
  <2>. QED  BY <1>2, <1>3, <2>1, Zenon
<1>5. CASE ~(listed = Unknown \/ acked = Unknown)
  <2>1. ws' = [ws EXCEPT !.listed = 0, !.acked = 0]
    BY <1>5 DEF Covered
  <2>2. 0 \in Int
    OBVIOUS
  <2>3. ws' \in Socket /\ ws'.open = ws.open /\ ws'.queue = ws.queue
    BY <1>2, <2>1, <2>2, Zenon
  <2>. QED  BY <1>3, <2>3
<1>. QED  BY <1>4, <1>5

LEMMA EventsOfTyped ==
    ASSUME SolanaTypeOK, NEW position
    PROVE  EventsOf(position) \in SUBSET Event
<1>1. EventsIn(position, position) \in SUBSET Event
  BY DEF EventsIn
<1>. QED  BY <1>1 DEF EventsOf, SolanaTypeOK

LEMMA SolanaStepTyped ==
    ASSUME SolanaTypeOK, head \in Nat, NEW q \in Task, SolanaStep(q)
    PROVE  SolanaTypeOK'
<1>0. /\ queue \in [Task -> Delivery] /\ ws \in Socket /\ lastSignature \in Nat
      /\ checkpoint \in Nat /\ missed \subseteq Event
      /\ extracts \in [SUBSET Event -> SUBSET Event]
  BY DEF SolanaTypeOK, Delivery, Socket
<1>1. /\ queue[q].next \in Nat /\ queue[q].upto \in Nat /\ queue[q].live \in Nat
      /\ queue[q].notified \in Nat /\ queue[q].at \in Nat /\ queue[q].todo \in SUBSET Event
  BY <1>0 DEF Delivery
<1>2. ASSUME queue' \in [Task -> Delivery], ws' \in Socket, lastSignature' \in Nat,
             checkpoint' \in Nat, missed' \subseteq Event, extracts' = extracts
      PROVE  SolanaTypeOK'
  BY <1>0, <1>2 DEF SolanaTypeOK, Delivery, Socket
<1>3. CASE Connect(q)
  <2>1. /\ ws' = [open |-> TRUE, queue |-> q, acked |-> Unknown,
                  listed |-> IF lastSignature = 0 THEN 0 ELSE Unknown]
        /\ UNCHANGED <<lastSignature, checkpoint, missed, extracts>>
    BY <1>3 DEF Connect
  <2>2. ws' \in Socket
    BY <2>1 DEF Socket, Unknown
  <2>3. [Drained EXCEPT !.stage = IF lastSignature = 0 THEN "ready" ELSE "listing",
                        !.at = lastSignature] \in Delivery
    BY <1>0 DEF Drained, Delivery
  <2>4. Drained \in Delivery
    BY DEF Drained, Delivery
  <2>5. queue' = [r \in Task |->
          IF r = q THEN [Drained EXCEPT !.stage = IF lastSignature = 0 THEN "ready" ELSE "listing",
                                        !.at = lastSignature]
          ELSE IF Free(r) THEN Drained ELSE queue[r]]
    BY <1>3 DEF Connect
  <2>6. queue' \in [Task -> Delivery]
    BY <1>0, <2>3, <2>4, <2>5
  <2>. QED  BY <1>0, <1>2, <2>1, <2>2, <2>6
<1>4. CASE ListBackfill(q)
  <2> DEFINE since == IF lastSignature > queue[q].at THEN lastSignature ELSE queue[q].at
             a == IF since = head THEN 1 ELSE since + 1
             b == IF since = head THEN 0 ELSE head
  <2>1. since \in Nat /\ a \in Nat /\ b \in Nat
    BY <1>0, <1>1
  <2>2. queue' = [queue EXCEPT ![q].stage = "ready", ![q].at = 0, ![q].next = a, ![q].upto = b]
    BY <1>4 DEF ListBackfill
  <2>3. ws' \in Socket /\ missed' \subseteq Event
    <3>1. ws.acked \in Int /\ head \in Int
      BY <1>0 DEF Socket
    <3>2. Covered(head, ws.acked) \/ UNCHANGED <<ws, missed>>
      BY <1>4 DEF ListBackfill
    <3>. QED  BY <1>0, <3>1, <3>2, CoveredTyped
  <2> HIDE DEF a, b, since
  <2>4. Becomes(q, "ready", a, b, queue[q].live, queue[q].notified, 0, queue[q].todo)
    BY <1>0, <2>2, SetFour, Zenon
  <2>5. queue' \in [Task -> Delivery]
    BY <1>0, <1>1, <2>1, <2>4, BecomesTyped
  <2>6. UNCHANGED <<lastSignature, checkpoint, extracts>>
    BY <1>4 DEF ListBackfill
  <2>. QED  BY <1>0, <1>2, <2>3, <2>5, <2>6
<1>5. CASE FetchNext(q)
  <2> DEFINE last == queue[q].next = queue[q].upto
             a == IF last THEN 1 ELSE queue[q].next + 1
             b == IF last THEN 0 ELSE queue[q].upto
             found == EventsOf(queue[q].next)
  <2>1. a \in Nat /\ b \in Nat /\ found \in SUBSET Event
    BY <1>1, EventsOfTyped
  <2>2. queue' = [queue EXCEPT ![q].stage = "handling", ![q].at = queue[q].next, ![q].next = a,
                               ![q].upto = b, ![q].todo = found]
    BY <1>0, <1>5 DEF FetchNext
  <2> HIDE DEF a, b, found
  <2>3. Becomes(q, "handling", a, b, queue[q].live, queue[q].notified, queue[q].next, found)
    BY <1>0, <2>2, SetFour, Zenon
  <2>4. queue' \in [Task -> Delivery]
    BY <1>0, <1>1, <2>1, <2>3, BecomesTyped
  <2>5. UNCHANGED <<ws, lastSignature, checkpoint, missed, extracts>>
    BY <1>5 DEF FetchNext
  <2>. QED  BY <1>0, <1>2, <2>4, <2>5
<1>6. CASE NextNotification(q)
  <2> DEFINE a == queue[q].live + 1
             found == EventsOf(queue[q].live)
  <2>1. a \in Nat /\ found \in SUBSET Event
    BY <1>1, EventsOfTyped
  <2>2. queue' = [queue EXCEPT ![q].stage = "handling", ![q].at = queue[q].live, ![q].live = a,
                               ![q].todo = found]
    BY <1>0, <1>6 DEF NextNotification
  <2> HIDE DEF a, found
  <2>3. Becomes(q, "handling", queue[q].next, queue[q].upto, a, queue[q].notified,
                queue[q].live, found)
    BY <1>0, <2>2, SetFour, Zenon
  <2>4. queue' \in [Task -> Delivery]
    BY <1>0, <1>1, <2>1, <2>3, BecomesTyped
  <2>5. UNCHANGED <<ws, lastSignature, checkpoint, missed, extracts>>
    BY <1>6 DEF NextNotification
  <2>. QED  BY <1>0, <1>2, <2>4, <2>5
<1>7. ASSUME NEW e \in Event, HandOver(q, e)
      PROVE  SolanaTypeOK'
  <2> DEFINE rest == queue[q].todo \ {e}
  <2>1. rest \in SUBSET Event /\ queue[q].stage = "handling"
    BY <1>1, <1>7 DEF HandOver
  <2>2. queue' = [queue EXCEPT ![q].todo = rest]
    BY <1>0, <1>7 DEF HandOver
  <2> HIDE DEF rest
  <2>3. Becomes(q, "handling", queue[q].next, queue[q].upto, queue[q].live,
                queue[q].notified, queue[q].at, rest)
    <3>1. Becomes(q, queue[q].stage, queue[q].next, queue[q].upto, queue[q].live,
                  queue[q].notified, queue[q].at, rest)
      BY <1>0, <2>2, SetTwo, Zenon
    <3>. QED  BY <2>1, <3>1, Zenon
  <2>4. queue' \in [Task -> Delivery]
    BY <1>0, <1>1, <2>1, <2>3, BecomesTyped
  <2>5. UNCHANGED <<ws, lastSignature, checkpoint, missed, extracts>>
    BY <1>7 DEF HandOver
  <2>. QED  BY <1>0, <1>2, <2>4, <2>5
<1>8. CASE recordSignature(q)
  <2>1. queue' = [queue EXCEPT ![q].stage = "ready", ![q].at = 0]
    BY <1>8 DEF recordSignature
  <2>2. Becomes(q, "ready", queue[q].next, queue[q].upto, queue[q].live, queue[q].notified, 0,
                queue[q].todo)
    BY <1>0, <2>1, SetTwo, Zenon
  <2>3. queue' \in [Task -> Delivery]
    BY <1>0, <1>1, <2>2, BecomesTyped
  <2>4. /\ UNCHANGED <<ws, missed, extracts>>
        /\ checkpoint' = queue[q].at /\ lastSignature' = queue[q].at
    BY <1>8 DEF recordSignature
  <2>. QED  BY <1>0, <1>1, <1>2, <2>3, <2>4
<1>. QED  BY <1>3, <1>4, <1>5, <1>6, <1>7, <1>8 DEF SolanaStep


LEMMA SubscriptionTyped ==
    ASSUME SolanaTypeOK, head \in Nat, Subscribed \/ Notify
    PROVE  SolanaTypeOK'
<1>0. /\ queue \in [Task -> Delivery] /\ ws \in Socket /\ lastSignature \in Nat
      /\ checkpoint \in Nat /\ missed \subseteq Event
      /\ extracts \in [SUBSET Event -> SUBSET Event]
  BY DEF SolanaTypeOK, Delivery, Socket
<1>1. ASSUME queue' \in [Task -> Delivery], ws' \in Socket, missed' \subseteq Event
      PROVE  SolanaTypeOK'
  <2>1. UNCHANGED <<lastSignature, checkpoint, extracts>>
    BY DEF Subscribed, Notify
  <2>. QED  BY <1>0, <1>1, <2>1 DEF SolanaTypeOK, Delivery, Socket
<1> DEFINE q == ws.queue
<1>2. CASE q \notin Task
  <2>1. queue' = queue
    BY <1>0, <1>2 DEF Subscribed, Notify
  <2>2. ws' \in Socket /\ missed' \subseteq Event
    <3>1. CASE Subscribed
      <4>1. ws.listed \in Int /\ head \in Int
        BY <1>0 DEF Socket
      <4>. QED  BY <1>0, <3>1, <4>1, CoveredTyped DEF Subscribed
    <3>2. CASE Notify
      BY <1>0, <3>2 DEF Notify
    <3>. QED  BY <3>1, <3>2
  <2>. QED  BY <1>0, <1>1, <2>1, <2>2
<1>3. ASSUME q \in Task
      PROVE  /\ queue[q].stage \in {"idle", "listing", "ready", "handling"}
             /\ queue[q].next \in Nat /\ queue[q].upto \in Nat /\ queue[q].live \in Nat
             /\ queue[q].notified \in Nat /\ queue[q].at \in Nat
             /\ queue[q].todo \in SUBSET Event
  BY <1>0, <1>3 DEF Delivery
<1>4. CASE q \in Task /\ Subscribed
  <2>1. ws.listed \in Int /\ head \in Int
    BY <1>0 DEF Socket
  <2>2. ws' \in Socket /\ missed' \subseteq Event
    BY <1>0, <1>4, <2>1, CoveredTyped DEF Subscribed
  <2>3. PICK a : a = head + 1
    OBVIOUS
  <2>4. queue' = [queue EXCEPT ![q].live = a, ![q].notified = head]
    BY <1>4, <2>3 DEF Subscribed
  <2>5. a \in Nat
    BY <2>3
  <2> HIDE DEF q
  <2>6. Becomes(q, queue[q].stage, queue[q].next, queue[q].upto, a, head, queue[q].at,
                queue[q].todo)
    BY <1>0, <1>4, <2>4, SetTwo, Zenon
  <2>7. queue' \in [Task -> Delivery]
    BY <1>0, <1>3, <1>4, <2>5, <2>6 DEF Becomes, Delivery
  <2>. QED  BY <1>1, <2>2, <2>7
<1>5. CASE q \in Task /\ Notify
  <2>1. PICK b : b = queue[q].notified + 1
    OBVIOUS
  <2>2. queue' = [queue EXCEPT ![q].notified = b] /\ UNCHANGED <<ws, missed>>
    BY <1>0, <1>5, <2>1 DEF Notify
  <2>3. b \in Nat
    BY <1>3, <1>5, <2>1
  <2> HIDE DEF q
  <2>4. Becomes(q, queue[q].stage, queue[q].next, queue[q].upto, queue[q].live, b, queue[q].at,
                queue[q].todo)
    BY <1>0, <1>5, <2>2, SetTwo, Zenon
  <2>5. queue' \in [Task -> Delivery]
    BY <1>0, <1>3, <1>5, <2>3, <2>4 DEF Becomes, Delivery
  <2>. QED  BY <1>0, <1>1, <2>2, <2>5
<1>. QED  BY <1>2, <1>4, <1>5

LEMMA SolanaStaysTyped ==
    ASSUME SolanaTypeOK, head \in Nat, [Next]_vars
    PROVE  SolanaTypeOK'
<1>0. /\ queue \in [Task -> Delivery] /\ ws \in Socket /\ lastSignature \in Nat
      /\ checkpoint \in Nat /\ missed \subseteq Event
      /\ extracts \in [SUBSET Event -> SUBSET Event]
  BY DEF SolanaTypeOK, Delivery, Socket
<1>1. CASE UNCHANGED solanaVars
  BY <1>1 DEF solanaVars, SolanaTypeOK
<1>2. ASSUME NEW q \in Task, Solana(q)
      PROVE  SolanaTypeOK'
  BY <1>2, SolanaStepTyped DEF Solana
<1>3. CASE Subscription
  BY <1>3, SubscriptionTyped DEF Subscription
<1>4. ASSUME ws' = Closed, UNCHANGED <<checkpoint, missed, extracts>>,
             lastSignature' \in {lastSignature, checkpoint},
             queue' = [r \in Task |-> queue'[r]],
             \A r \in Task : queue'[r] = Drained \/ queue'[r] = queue[r]
      PROVE  SolanaTypeOK'
  <2>1. ws' \in Socket
    BY <1>4 DEF Closed, Socket, Unknown
  <2>2. queue' \in [Task -> Delivery]
    BY <1>0, <1>4, ClosesTyped
  <2>. QED  BY <1>0, <1>4, <2>1, <2>2 DEF SolanaTypeOK, Delivery, Socket
<1>5. ASSUME NEW q \in Task, BackfillFails(q)
      PROVE  SolanaTypeOK'
  BY <1>4, <1>5 DEF BackfillFails
<1>6. CASE Disconnect
  BY <1>4, <1>6 DEF Disconnect
<1>7. CASE SolanaRestart
  BY <1>4, <1>7 DEF SolanaRestart
<1>8. ASSUME NEW kind \in Faults, Fault(kind)
      PROVE  SolanaTypeOK'
  <2>1. SolanaRestart \/ UNCHANGED solanaVars \/ Disconnect \/ \E q \in Task : BackfillFails(q)
    BY <1>8, Zenon DEF Fault, Crash, PollError
  <2>. QED  BY <1>1, <1>5, <1>6, <1>7, <2>1
<1>. QED
  BY <1>1, <1>2, <1>3, <1>8 DEF Next, Work, Promise, Ethereum, Retry, Chain, Stellar, vars


(* What the log of a transaction is read as stays what the listener makes of *)
(* it: the deposits that the bridge printed itself and in full.              *)
ExtractsInv ==
    /\ fate \in [Event -> Worths]
    /\ extracts = [deposits \in SUBSET Event |-> {e \in deposits : Extractable(e, fate)}]

LEMMA ExtractsStay ==
    ASSUME ExtractsInv, [Next]_vars
    PROVE  ExtractsInv'
<1>1. extracts' = extracts
  BY Zenon
  DEF Next, Work, Promise, Ethereum, Retry, Chain, Stellar, vars, Solana, SolanaStep, Connect,
      ListBackfill, FetchNext, NextNotification, HandOver, recordSignature, Subscription,
      Subscribed, Notify, Fault, Crash, SolanaRestart, PollError, BackfillFails, Disconnect,
      solanaVars
<1>2. fate' = fate
  BY RecordsGrow
<1>. QED  BY <1>1, <1>2 DEF ExtractsInv, Extractable

LEMMA ExtractsInitially == Init => ExtractsInv
<1> SUFFICES ASSUME Init
             PROVE  ExtractsInv
  OBVIOUS
<1>1. /\ fate \in [Event -> Worths]
      /\ extracts = [deposits \in SUBSET Event |->
                       extractBridgeFundEvents(TransactionLog(deposits, fate))]
  BY ScenarioConstants DEF Init, SolanaInit
<1>2. ASSUME NEW deposits \in SUBSET Event
      PROVE  extractBridgeFundEvents(TransactionLog(deposits, fate))
                = {e \in deposits : Extractable(e, fate)}
  <2>1. IsFiniteSet(deposits)
    BY ChainConstants, FS_Subset DEF ChainConstants
  <2>. QED  BY <1>1, <2>1, RelayerReadsOwnFrames
<1>. QED  BY <1>1, <1>2 DEF ExtractsInv

(* The inductive invariant of types.                                         *)
TypeInv ==
    TypeOK /\ ServiceInv /\ EthInv /\ SignedInv /\ ExtractsInv /\ QueueTyped /\ RecordsTyped

LEMMA TypeInitially == Init => TypeInv
<1> SUFFICES ASSUME Init
             PROVE  TypeInv
  OBVIOUS
<1>1. ServiceInv /\ EthInv /\ SignedInv /\ ExtractsInv
  BY ServiceInitially, EthInitially, SignedInitially, ExtractsInitially DEF Init
<1>2. QueueTyped /\ RecordsTyped
  BY DEF Init, ServiceInit, QueueTyped, RecordsTyped
<1>3. call \in [Caller -> [event : Event \cup {None}, sigs : Seq(Key),
                           stage : {"idle", "joined", "signing", "sent"}]]
  BY DEF Init, ServiceInit, Idle
<1>4. reachable \subseteq DOMAIN Nodes(env)
  BY DEF Init, ServiceInit
<1>5. ServiceTypeOK
  BY <1>1, <1>2, <1>3, <1>4
  DEF ServiceTypeOK, SignedInv, ExtractsInv, QueueTyped, RecordsTyped
<1>6. SolanaTypeOK
  <2>1. /\ ws = Closed /\ queue = [q \in Task |-> Drained] /\ missed = {}
        /\ checkpoint \in {0, 1} /\ lastSignature = checkpoint
    BY DEF Init, SolanaInit
  <2>2. extracts \in [SUBSET Event -> SUBSET Event]
    BY <1>1 DEF ExtractsInv
  <2>. QED  BY <2>1, <2>2 DEF SolanaTypeOK, Closed, Drained, Unknown
<1>7. faults \subseteq Faults
  BY ScenarioConstants DEF Init
<1>. QED  BY <1>1, <1>2, <1>5, <1>6, <1>7 DEF TypeInv, TypeOK, EthInv, ChainShape

LEMMA CallsStayTyped ==
    ASSUME TypeInv, [Next]_vars
    PROVE  call' \in [Caller -> [event : Event \cup {None}, sigs : Seq(Key),
                                 stage : {"idle", "joined", "signing", "sent"}]]
<1> DEFINE C == [event : Event \cup {None}, sigs : Seq(Key),
                 stage : {"idle", "joined", "signing", "sent"}]
<1>1. CallShape /\ call \in [Caller -> C]
  BY DEF TypeInv, TypeOK, ServiceTypeOK, ServiceInv
<1>2. CallShape' /\ SignedInv'
  BY NextKeeps, SignedKeeps DEF TypeInv, ServiceInv
<1>3. ASSUME NEW c \in Caller
      PROVE  call'[c] \in C
  <2>1. CallMoves(c)
    BY <1>1, CallSteps
  <2>2. CASE call'[c] = call[c]
    BY <1>1, <2>2
  <2>3. Idle \in C
    BY DEF Idle
  <2>4. \A e \in Event : Awaiting(e, "joined") \in C /\ Awaiting(e, "signing") \in C
    BY DEF Awaiting
  <2>5. CASE Send(c)
    <3>1. call'[c] = [event |-> call'[c].event, stage |-> call'[c].stage, sigs |-> call'[c].sigs]
          /\ call'[c].event \in Event \cup {None}
      BY <1>2 DEF CallShape, Await
    <3>2. call'[c].stage = "sent"
      <4>1. PICK first : first = SubSeq(Signatures, 1, env.threshold)
        OBVIOUS
      <4>2. call'[c] = [event |-> call[c].event, stage |-> "sent", sigs |-> first]
        BY <1>1, <2>5, <4>1, SendSigns
      <4>. QED  BY <4>2
    <3>3. call'[c].sigs \in Seq(Key)
      BY <1>2, <3>2 DEF SignedInv, Signed
    <3>. QED  BY <3>1, <3>2, <3>3
  <2> HIDE DEF C
  <2>. QED  BY <2>1, <2>2, <2>3, <2>4, <2>5 DEF CallMoves
<1>4. call' = [c \in Caller |-> call'[c]]
  BY <1>2 DEF CallShape
<1> HIDE DEF C
<1>5. call' \in [Caller -> C]
  BY <1>3, <1>4
<1>. QED  BY <1>5 DEF C

LEMMA TypeKeeps ==
    ASSUME TypeInv, [Next]_vars
    PROVE  TypeInv'
<1>1. ServiceInv' /\ EthInv' /\ SignedInv' /\ ExtractsInv' /\ QueueTyped' /\ RecordsTyped'
  BY NextKeeps, NextKeepsCursor, SignedKeeps, ExtractsStay, RecordsStayTyped
  DEF TypeInv, ServiceInv
<1>2. ServiceTypeOK'
  <2>1. (reachable \subseteq DOMAIN Nodes(env))'
    BY RecordsGrow DEF TypeInv, TypeOK, ServiceTypeOK
  <2>. QED
    BY <1>1, <2>1, CallsStayTyped
    DEF ServiceTypeOK, SignedInv, ExtractsInv, QueueTyped, RecordsTyped
<1>3. SolanaTypeOK'
  BY SolanaStaysTyped DEF TypeInv, TypeOK
<1>4. faults' \subseteq Faults
  BY DEF TypeInv, TypeOK, Next, Work, Promise, Ethereum, Solana, Subscription, Retry, Chain,
         Stellar, Fault, vars
<1>. QED  BY <1>1, <1>2, <1>3, <1>4 DEF TypeInv, TypeOK, EthInv, ChainShape

(* Every variable of the relayer stays of its type: what each caller awaits, *)
(* the dead letters' attempts, positions and what the logs are read as.      *)
THEOREM RelayerTypeCorrect == Spec => []TypeOK
<1>1. TypeInv => TypeOK
  BY DEF TypeInv
<1>. QED  BY <1>1, TypeInitially, TypeKeeps, PTL DEF Spec



-----------------------------------------------------------------------------
(* Payouts.                                                                  *)

(* A deposit the relayer may act on: final, and printed by the bridge.       *)
Good(e) == Confirmed(e) /\ Extractable(e, fate)

(* The inductive invariant of payouts: whatever a listener, a caller, the    *)
(* sweep or the dead-letter queue holds is a deposit the relayer may act on. *)
Held == UNION {poll[t].todo \cup queue[t].todo : t \in Task}

AwaitsGood(c) ==
    /\ call[c].stage # "idle" =>
          call[c].event \in Event /\ Good(call[c].event) /\ validateBridgeEvent(call[c].event)
    /\ call[c].stage = "sent" => fate[call[c].event] # "refused"

PayInv ==
    /\ ~(Watches(env, "ETH_RPC_URL") /\ Watches(env, "SOLANA_WS_URL"))
    /\ \A q \in Task : queue[q].stage # "idle" => Watches(env, "SOLANA_WS_URL")
    /\ \A e \in Held \cup sweep \cup DOMAIN dlq : Good(e)
    /\ \A c \in Caller : AwaitsGood(c)
    /\ \A e \in mempool \cup paid : Good(e) /\ fate[e] = "payable"

LEMMA PayInitially == Init => PayInv
<1> SUFFICES ASSUME Init
             PROVE  PayInv
  OBVIOUS
<1>1. ~(Watches(env, "ETH_RPC_URL") /\ Watches(env, "SOLANA_WS_URL"))
  BY OneChain DEF Init
<1>2. Held = {}
  BY DEF Init, EthInit, SolanaInit, Held, NoPoll, Drained
<1>3. /\ \A c \in Caller : call[c].stage = "idle"
      /\ \A q \in Task : queue[q].stage = "idle"
      /\ sweep = {} /\ DOMAIN dlq = {} /\ mempool = {} /\ paid = {}
  BY DEF Init, ServiceInit, SolanaInit, Idle, Drained
<1>. QED  BY <1>1, <1>2, <1>3 DEF PayInv, AwaitsGood

(* What is final stays: new blocks hold other deposits, and only blocks that *)
(* are not confirmed are replaced.                                           *)
LEMMA GoodStays ==
    ASSUME ChainShape, [Next]_vars, NEW e \in Event, Good(e)
    PROVE  Good(e)'
<1>1. fate' = fate /\ env' = env
  BY RecordsGrow
<1>2. included'[e] = included[e] /\ head' >= head /\ head \in Nat /\ head' \in Nat
  <2>1. ChainGrows /\ head \in Nat
    BY ChainSteps DEF ChainShape
  <2>2. CASE UNCHANGED chainVars
    BY <2>1, <2>2 DEF chainVars, ChainGrows
  <2>3. ASSUME NEW deposits \in SUBSET Event, Mine(deposits)
        PROVE  included'[e] = included[e]
    BY <2>3 DEF Mine, Good, Confirmed
  <2>4. ASSUME NEW deposits \in SUBSET Event, Reorg(deposits), Watches(env, "ETH_RPC_URL")
        PROVE  included'[e] = included[e]
    <3>1. included[e] \in Int /\ included[e] <= head - Confirmations /\ Confirmations \in Nat
      BY <2>4, ChainConstants DEF Good, Confirmed, ChainShape, NotMined
    <3>2. e \notin deposits
      BY <2>1, <2>4, <3>1 DEF Reorg
    <3>. QED  BY <2>4, <3>2 DEF Reorg
  <2>5. Next => Chain \/ UNCHANGED chainVars
    BY DEF Next, Work, Promise, Ethereum, Solana, Subscription, Retry, Stellar, Fault, Crash
  <2>. QED  BY <2>1, <2>2, <2>3, <2>4, <2>5 DEF Chain, ChainGrows, vars
<1>3. Confirmed(e)'
  BY <1>1, <1>2, ChainConstants DEF Good, Confirmed, ChainShape
<1>. QED  BY <1>1, <1>3 DEF Good, Extractable

(* A poll asks for confirmed blocks only, and takes what it can decode.      *)
LEMMA LogsAreGood ==
    ASSUME TypeInv, NEW from \in Int, NEW to \in Int, to <= SafeToBlock, NEW e \in Logs(from, to)
    PROVE  e \in Event /\ Good(e)
<1>1. /\ e \in Event /\ included[e] # NotMined /\ included[e] >= from /\ included[e] <= to
      /\ Extractable(e, fate)
  BY DEF Logs, EventsIn, Matches, Decodable, Extractable
<1>2. head \in Nat /\ included[e] \in Nat /\ 1 <= included[e] /\ Confirmations \in Nat
  BY <1>1, ChainConstants DEF TypeInv, EthInv, ChainShape
<1>3. SafeToBlock = IF head - Confirmations >= 0 THEN head - Confirmations ELSE 0
  BY DEF SafeToBlock, Larger
<1>4. included[e] <= head - Confirmations
  BY <1>1, <1>2, <1>3
<1>. QED  BY <1>1, <1>4 DEF Good, Confirmed

LEMMA PollsHold ==
    ASSUME TypeInv, PayInv, [Next]_vars, NEW t \in Task, NEW e \in poll'[t].todo
    PROVE  e \in Event /\ Good(e)
<1>1. poll \in [Task -> [stage : {"idle", "resolving", "handling"}, from : Nat, to : Int,
                         todo : SUBSET Event]]
  BY DEF TypeInv, TypeOK, EthTypeOK
<1>2. CASE e \in poll[t].todo
  BY <1>1, <1>2 DEF PayInv, Held
<1>3. NoPoll.todo = {}
  BY DEF NoPoll
<1>4. ASSUME NEW p \in Task, QueryLogs(p)
      PROVE  e \in Event /\ Good(e)
  <2> DEFINE to == Lesser(cursor + MaxBlockRange - 1, SafeToBlock)
             range == [stage |-> "handling", from |-> cursor, to |-> to, todo |-> Logs(cursor, to)]
  <2>1. poll' = [poll EXCEPT ![p] = range]
    BY <1>4 DEF QueryLogs
  <2>2. SafeToBlock \in Int /\ cursor \in Int /\ MaxBlockRange \in Int
    <3>1. head \in Nat /\ Confirmations \in Nat
      BY ChainConstants DEF TypeInv, TypeOK
    <3>. QED  BY <3>1, RangeConstant DEF SafeToBlock, Larger, TypeInv, TypeOK, EthTypeOK, Latest
  <2>3. to \in Int /\ to <= SafeToBlock
    BY <2>2 DEF Lesser
  <2> HIDE DEF to
  <2>4. e \in Logs(cursor, to) => e \in Event /\ Good(e)
    BY <2>2, <2>3, LogsAreGood
  <2>. QED  BY <1>1, <1>2, <2>1, <2>4
<1>5. ASSUME NEW p \in Task, Ethereum(p) \/ PollError(p)
      PROVE  e \in Event /\ Good(e)
  <2>1. CASE StartResolving(p)
    BY <1>1, <1>2, <2>1 DEF StartResolving
  <2>2. CASE poll' = [poll EXCEPT ![p] = NoPoll]
    BY <1>1, <1>2, <1>3, <2>2
  <2>3. ASSUME NEW f \in Event, NextLog(p, f)
        PROVE  e \in Event /\ Good(e)
    BY <1>1, <1>2, <2>3 DEF NextLog
  <2>. QED
    BY <1>4, <1>5, <2>1, <2>2, <2>3 DEF Ethereum, EthStep, ResolveLatest, EndPoll, PollError
<1>6. CASE EthRestart
  BY <1>3, <1>6 DEF EthRestart
<1>7. UNCHANGED poll \/ EthRestart \/ \E p \in Task : Ethereum(p) \/ PollError(p)
  BY Zenon DEF Next, Work, Promise, Solana, Subscription, Retry, Chain, Stellar, Fault, Crash,
               ethVars, vars
<1>. QED  BY <1>2, <1>5, <1>6, <1>7


(* A delivery queue exists for a Solana listener only, and takes what the    *)
(* bridge printed in the transaction it handles.                             *)
LEMMA ExtractedAreGood ==
    ASSUME TypeInv, PayInv, NEW q \in Task, queue[q].stage # "idle", NEW position,
           NEW e \in EventsOf(position)
    PROVE  e \in Event /\ Good(e)
<1>1. EventsIn(position, position) \in SUBSET Event
  BY DEF EventsIn
<1>2. e \in EventsIn(position, position) /\ Extractable(e, fate)
  BY <1>1 DEF EventsOf, TypeInv, ExtractsInv
<1>3. e \in Event /\ included[e] # NotMined
  BY <1>2 DEF EventsIn
<1>4. ~Watches(env, "ETH_RPC_URL")
  BY DEF PayInv
<1>. QED  BY <1>2, <1>3, <1>4 DEF Good, Confirmed

LEMMA QueuesHold ==
    ASSUME TypeInv, PayInv, [Next]_vars, NEW t \in Task
    PROVE  /\ queue'[t].stage # "idle" => Watches(env, "SOLANA_WS_URL")
           /\ \A e \in queue'[t].todo : e \in Event /\ Good(e)
<1> DEFINE Goal == /\ queue'[t].stage # "idle" => Watches(env, "SOLANA_WS_URL")
                   /\ \A e \in queue'[t].todo : e \in Event /\ Good(e)
<1>1. queue \in [Task -> Delivery]
  BY DEF TypeInv, TypeOK, SolanaTypeOK, Delivery
<1>2. CASE queue'[t] = queue[t]
  BY <1>1, <1>2 DEF PayInv, Held, Delivery
<1>3. Drained.todo = {} /\ Drained.stage = "idle"
  BY DEF Drained
<1>4. ASSUME NEW q \in Task, NEW stage, NEW next, NEW upto, NEW live, NEW notified, NEW at,
             NEW todo, Becomes(q, stage, next, upto, live, notified, at, todo),
             queue[q].stage = "idle" => stage = "idle",
             \A e \in todo : e \in Event /\ Good(e)
      PROVE  Goal
  <2>1. q # t => queue'[t] = queue[t]
    BY <1>1, <1>4 DEF Becomes
  <2>2. q = t => queue'[t].stage = stage /\ queue'[t].todo = todo
    BY <1>1, <1>4 DEF Becomes
  <2>. QED  BY <1>2, <1>4, <2>1, <2>2 DEF PayInv
<1>5. \A q \in Task : \A e \in queue[q].todo : e \in Event /\ Good(e)
  BY <1>1 DEF PayInv, Held, Delivery
<1>6. ASSUME NEW q \in Task, SolanaStep(q)
      PROVE  Goal
  <2>1. CASE Connect(q)
    <3>1. Watches(env, "SOLANA_WS_URL")
      BY <2>1 DEF Connect
    <3>2. queue'[t].todo = {} \/ queue'[t] = queue[t]
      BY <2>1 DEF Connect, Drained
    <3>. QED  BY <1>2, <3>1, <3>2
  <2>2. CASE ListBackfill(q)
    <3>1. PICK a, b : queue' = [queue EXCEPT ![q].stage = "ready", ![q].at = 0, ![q].next = a,
                                             ![q].upto = b]
      BY <2>2 DEF ListBackfill
    <3>2. Becomes(q, "ready", a, b, queue[q].live, queue[q].notified, 0, queue[q].todo)
      BY <1>1, <3>1, SetFour, Zenon
    <3>3. queue[q].stage = "listing"
      BY <2>2 DEF ListBackfill
    <3>. QED  BY <1>4, <1>5, <3>2, <3>3
  <2>3. CASE FetchNext(q)
    <3> DEFINE found == EventsOf(queue[q].next)
    <3>1. PICK a, b : queue' = [queue EXCEPT ![q].stage = "handling", ![q].at = queue[q].next,
                                             ![q].next = a, ![q].upto = b, ![q].todo = found]
      BY <1>1, <2>3 DEF FetchNext
    <3>2. queue[q].stage = "ready"
      BY <2>3 DEF FetchNext
    <3>3. \A e \in found : e \in Event /\ Good(e)
      BY <3>2, ExtractedAreGood
    <3> HIDE DEF found
    <3>4. Becomes(q, "handling", a, b, queue[q].live, queue[q].notified, queue[q].next, found)
      BY <1>1, <3>1, SetFour, Zenon
    <3>. QED  BY <1>4, <3>2, <3>3, <3>4
  <2>4. CASE NextNotification(q)
    <3> DEFINE found == EventsOf(queue[q].live)
    <3>1. PICK a : queue' = [queue EXCEPT ![q].stage = "handling", ![q].at = queue[q].live,
                                          ![q].live = a, ![q].todo = found]
      BY <1>1, <2>4 DEF NextNotification
    <3>2. queue[q].stage = "ready"
      BY <2>4 DEF NextNotification
    <3>3. \A e \in found : e \in Event /\ Good(e)
      BY <3>2, ExtractedAreGood
    <3> HIDE DEF found
    <3>4. Becomes(q, "handling", queue[q].next, queue[q].upto, a, queue[q].notified,
                  queue[q].live, found)
      BY <1>1, <3>1, SetFour, Zenon
    <3>. QED  BY <1>4, <3>2, <3>3, <3>4
  <2>5. ASSUME NEW f \in Event, HandOver(q, f)
        PROVE  Goal
    <3>1. PICK rest : rest = queue[q].todo \ {f}
      OBVIOUS
    <3>2. queue' = [queue EXCEPT ![q].todo = rest]
      BY <1>1, <2>5, <3>1 DEF HandOver
    <3>3. Becomes(q, queue[q].stage, queue[q].next, queue[q].upto, queue[q].live,
                  queue[q].notified, queue[q].at, rest)
      BY <1>1, <3>2, SetTwo, Zenon
    <3>. QED  BY <1>4, <1>5, <3>1, <3>3
  <2>6. CASE recordSignature(q)
    <3>1. queue' = [queue EXCEPT ![q].stage = "ready", ![q].at = 0]
          /\ queue[q].stage = "handling"
      BY <2>6 DEF recordSignature
    <3>2. Becomes(q, "ready", queue[q].next, queue[q].upto, queue[q].live, queue[q].notified,
                  0, queue[q].todo)
      BY <1>1, <3>1, SetTwo, Zenon
    <3>. QED  BY <1>4, <1>5, <3>1, <3>2
  <2>. QED  BY <1>6, <2>1, <2>2, <2>3, <2>4, <2>5, <2>6 DEF SolanaStep
<1>7. CASE Subscribed \/ Notify
  <2>1. queue'[t].stage = queue[t].stage /\ queue'[t].todo = queue[t].todo
    <3>1. PICK q : q = ws.queue
      OBVIOUS
    <3>2. CASE q = t
      <4>1. PICK a, b : \/ queue' = [queue EXCEPT ![q].live = a, ![q].notified = b]
                        \/ queue' = [queue EXCEPT ![q].notified = b]
        BY <1>1, <1>7, <3>1, <3>2 DEF Subscribed, Notify
      <4>2. \E c : Becomes(q, queue[q].stage, queue[q].next, queue[q].upto, c, b,
                           queue[q].at, queue[q].todo)
        BY <1>1, <3>2, <4>1, SetTwo, Zenon
      <4>. QED  BY <1>1, <3>2, <4>2 DEF Becomes
    <3>3. CASE q # t
      BY <1>1, <1>7, <3>1, <3>3 DEF Subscribed, Notify
    <3>. QED  BY <3>2, <3>3
  <2>. QED  BY <1>5, <2>1 DEF PayInv
<1>8. CASE queue'[t] = Drained
  BY <1>3, <1>8
<1>9. SolanaRestart \/ Disconnect \/ (\E q \in Task : BackfillFails(q)) => Goal
  BY <1>2, <1>8 DEF SolanaRestart, Disconnect, BackfillFails
<1>10. \/ UNCHANGED queue \/ (\E q \in Task : SolanaStep(q)) \/ Subscribed \/ Notify
       \/ SolanaRestart \/ Disconnect \/ \E q \in Task : BackfillFails(q)
  BY Zenon DEF Next, Work, Promise, Ethereum, Solana, Subscription, Retry, Chain, Stellar,
               Fault, Crash, PollError, solanaVars, vars
<1>. QED  BY <1>2, <1>6, <1>7, <1>9, <1>10

(* What is retried, dead-lettered or paid was held or awaited before.        *)
LEMMA RecordsFrom ==
    ASSUME CallShape, [Next]_vars
    PROVE  /\ sweep' \subseteq sweep \cup DOMAIN dlq
           /\ \A e \in DOMAIN dlq' : e \in DOMAIN dlq \/ \E c \in Caller :
                 Processing(c) /\ call[c].event = e
           /\ \A e \in mempool' \cup paid' : e \in mempool \cup paid \/ \E c \in Caller :
                 Processing(c) /\ call[c].event = e /\ fate[e] # "refused"
<1> DEFINE Goal == /\ sweep' \subseteq sweep \cup DOMAIN dlq
                   /\ \A e \in DOMAIN dlq' : e \in DOMAIN dlq \/ \E c \in Caller :
                         Processing(c) /\ call[c].event = e
                   /\ \A e \in mempool' \cup paid' : e \in mempool \cup paid \/ \E c \in Caller :
                         Processing(c) /\ call[c].event = e /\ fate[e] # "refused"
<1>1. CASE UNCHANGED <<sweep, dlq, stellarVars>>
  BY <1>1 DEF stellarVars
<1>2. ASSUME NEW c \in Caller, Promise(c)
      PROVE  Goal
  <2>1. Processing(c)
    BY <1>2 DEF Promise, ServiceStep, Insufficient, Send, NotSent, Replayed, Refused, Accepted,
                AnswerLost, Submitting
  <2>2. ASSUME NEW reason, DeadLetter(c, reason)
        PROVE  Goal
    <3>1. DOMAIN dlq' = DOMAIN dlq \cup {call[c].event}
      BY <2>2 DEF DeadLetter, Enqueue
    <3>. QED  BY <2>1, <2>2, <3>1 DEF DeadLetter, stellarVars
  <2>3. CASE MarkHandled(c)
    <3>1. DOMAIN dlq' = DOMAIN dlq \ {call[c].event}
      BY <2>3 DEF MarkHandled, RemoveEntry
    <3>. QED  BY <2>3, <3>1 DEF MarkHandled, stellarVars
  <2>4. CASE Send(c)
    BY <2>1, <2>4 DEF Send
  <2>. QED
    BY <1>2, <2>2, <2>3, <2>4 DEF Promise, ServiceStep, Insufficient, NotSent, Replayed,
                                  Refused, Accepted, AnswerLost
<1>3. ASSUME NEW t \in Task, Ethereum(t) \/ Solana(t)
      PROVE  Goal
  BY <1>1, <1>3
  DEF Ethereum, EthStep, StartResolving, ResolveLatest, QueryLogs, NextLog, EndPoll, Solana,
      SolanaStep, Connect, ListBackfill, FetchNext, NextNotification, HandOver,
      recordSignature, HandleEvent, serviceVars
<1>4. CASE Subscription \/ Chain \/ UNCHANGED vars
  BY <1>1, <1>4 DEF Subscription, Subscribed, Notify, Chain, vars, serviceVars
<1>5. CASE Retry
  BY <1>5 DEF Retry, StartSweep, RetryNext, HandleEvent, Retriable, stellarVars
<1>6. CASE Stellar
  BY <1>6 DEF Stellar, Apply, Expire
<1>7. CASE Crash
  <2>1. sweep' = {} /\ UNCHANGED stellarVars
    BY <1>7 DEF Crash, CrashBetweenSteps, CrashInEnqueue, CrashInMark, Restart
  <2>2. dlq' = dlq \/ \E c \in Caller : RemoveEntry(call[c].event)
    BY <1>7 DEF Crash, CrashBetweenSteps, CrashInEnqueue, CrashInMark
  <2>. QED  BY <2>1, <2>2 DEF RemoveEntry, stellarVars
<1>8. ASSUME NEW kind \in Faults, Fault(kind)
      PROVE  Goal
  BY <1>1, <1>7, <1>8 DEF Fault, PollError, BackfillFails, Disconnect, serviceVars
<1>. QED  BY <1>2, <1>3, <1>4, <1>5, <1>6, <1>7, <1>8 DEF Next, Work

LEMMA PayKeeps ==
    ASSUME TypeInv, PayInv, [Next]_vars
    PROVE  PayInv'
<1>1. CallShape /\ ChainShape /\ fate \in [Event -> Worths]
  BY DEF TypeInv, ServiceInv, EthInv, ExtractsInv
<1>2. fate' = fate /\ env' = env
  BY RecordsGrow
<1>3. \A e \in Event : Good(e) => Good(e)'
  BY <1>1, GoodStays
<1>4. ASSUME NEW t \in Task, NEW e \in poll'[t].todo \cup queue'[t].todo
      PROVE  Good(e)'
  BY <1>3, <1>4, PollsHold, QueuesHold
<1>5. \A q \in Task : queue'[q].stage # "idle" => Watches(env, "SOLANA_WS_URL")
  BY QueuesHold
<1>6. \A c \in Caller : Processing(c) =>
          call[c].event \in Event /\ Good(call[c].event) /\ fate[call[c].event] # "invalid"
  BY <1>1 DEF PayInv, AwaitsGood, CallShape, validateBridgeEvent
<1>7. ASSUME NEW c \in Caller
      PROVE  AwaitsGood(c)'
  <2>1. CallMoves(c)
    BY <1>1, CallSteps
  <2>2. AwaitsGood(c)
    BY DEF PayInv
  <2>3. CASE call'[c] = call[c]
    BY <1>2, <1>3, <2>2, <2>3 DEF AwaitsGood, validateBridgeEvent
  <2>4. CASE call'[c] = Idle
    BY <2>4 DEF AwaitsGood, Idle
  <2>5. ASSUME NEW e \in Event \cap Offered(c), ~Ignored(e),
               call'[c] \in {Awaiting(e, "joined"), Awaiting(e, "signing")}
        PROVE  AwaitsGood(c)'
    <3>1. Good(e)
      BY DEF Offered, PayInv, Held
    <3>2. call'[c].event = e /\ call'[c].stage # "sent"
      BY <2>5 DEF Awaiting
    <3>. QED
      BY <1>2, <1>3, <2>5, <3>1, <3>2 DEF AwaitsGood, Ignored, validateBridgeEvent
  <2>6. CASE Send(c)
    <3>1. PICK first : call'[c] = [event |-> call[c].event, stage |-> "sent", sigs |-> first]
      BY <1>1, <2>6, SendSigns
    <3>2. Processing(c) /\ fate[call[c].event] # "refused"
      BY <2>6 DEF Send, Submitting
    <3>. QED
      BY <1>2, <1>3, <1>6, <3>1, <3>2 DEF AwaitsGood, validateBridgeEvent
  <2>. QED  BY <2>1, <2>3, <2>4, <2>5, <2>6 DEF CallMoves
<1>8. ASSUME NEW e \in sweep' \cup DOMAIN dlq'
      PROVE  Good(e)'
  <2>1. e \in Event
    BY RecordsStayTyped DEF TypeInv, ServiceInv, QueueTyped, RecordsTyped
  <2>2. Good(e)
    BY <1>1, <1>6, <1>8, RecordsFrom DEF PayInv
  <2>. QED  BY <1>3, <2>1, <2>2
<1>9. ASSUME NEW e \in mempool' \cup paid'
      PROVE  Good(e)' /\ fate'[e] = "payable"
  <2>1. e \in Event
    BY RecordsStayTyped DEF TypeInv, ServiceInv, RecordsTyped
  <2>2. CASE e \in mempool \cup paid
    BY <1>2, <1>3, <2>1, <2>2 DEF PayInv
  <2>3. ASSUME NEW c \in Caller, Processing(c), call[c].event = e, fate[e] # "refused"
        PROVE  Good(e)' /\ fate'[e] = "payable"
    BY <1>1, <1>2, <1>3, <1>6, <2>1, <2>3 DEF Good, Extractable, Worths, Worthless
  <2>. QED  BY <1>1, <1>9, <2>2, <2>3, RecordsFrom
<1>. QED  BY <1>2, <1>4, <1>5, <1>7, <1>8, <1>9 DEF PayInv, Held

(* The confirmation depth of pollOnce and the frames of                      *)
(* extractBridgeFundEvents: whatever blocks are replaced, requests fail or   *)
(* dead letters are retried, a payout is only made, or still under way, for  *)
(* a deposit that is final and that the bridge itself reported.              *)
THEOREM RelayerPayoutsAreBacked == Spec => []PayoutsAreBacked
<1>1. TypeInv /\ PayInv /\ [Next]_vars => PayInv'
  BY PayKeeps
<1>2. PayInv => PayoutsAreBacked
  BY DEF PayInv, PayoutsAreBacked, Good
<1>. QED  BY <1>1, <1>2, PayInitially, TypeInitially, TypeKeeps, PTL DEF Spec



-----------------------------------------------------------------------------
(* The Solana checkpoint.                                                    *)

(* A deposit the listener need not come back to.                             *)
Behind(e) == Settled(e) \/ e \in missed

\* A deposit the task of a queue has, or has had, in hand; or else its backfill will.
InTask(q, e) ==
    e \in queue[q].todo \/ (call[q].stage # "idle" /\ call[q].event = e) \/ Behind(e)

Reached(q, e) ==
    InTask(q, e) \/ (queue[q].next <= included[e] /\ included[e] <= queue[q].upto)

MadeUpto(e, n) == included[e] # NotMined /\ included[e] <= n

BehindUpto(n)     == \A e \in Event : MadeUpto(e, n) => Behind(e)
InTaskUpto(q, n)  == \A e \in Event : MadeUpto(e, n) => InTask(q, e)
ReachedUpto(q, n) == \A e \in Event : MadeUpto(e, n) => Reached(q, e)

(* A queue handles transactions in order: those below its task's, those      *)
(* below its backfill's next, and those from before its subscription.        *)
QueueAccounts(q) ==
    /\ queue[q].next <= head + 1 /\ queue[q].upto <= head /\ queue[q].at <= head
    /\ queue[q].live <= head + 1 /\ queue[q].notified <= head
    /\ queue[q].stage # "handling" => queue[q].todo = {}
    /\ queue[q].stage = "listing" => BehindUpto(queue[q].at)
    /\ queue[q].stage = "handling" => InTaskUpto(q, queue[q].at)
    /\ queue[q].next <= queue[q].upto => InTaskUpto(q, queue[q].next - 1)
    /\ queue[q].stage # "listing" => ReachedUpto(q, queue[q].live - 1)

(* Until its subscription is active, a connection's queue lists the chain,   *)
(* or reaches what it has listed.                                            *)
SocketAccounts ==
    ws.open /\ ws.acked = Unknown =>
        /\ ws.queue \in Task
        /\ IF ws.listed = Unknown THEN queue[ws.queue].stage = "listing"
           ELSE ws.listed <= head /\ ReachedUpto(ws.queue, ws.listed)

(* The inductive invariant of the checkpoint: it and its copy on disk have   *)
(* only passed what the listener need not come back to. Queues overlap, so   *)
(* each of them has to account for what is below its own tasks.              *)
SolanaInv ==
    /\ lastSignature <= head /\ checkpoint <= head
    /\ BehindUpto(lastSignature) /\ BehindUpto(checkpoint)
    /\ \A q \in Task : QueueAccounts(q)
    /\ SocketAccounts

(* No transaction is below the first.                                        *)
LEMMA NoneBelowFirst ==
    ASSUME ChainShape, NEW n \in Int, n <= 0, NEW e \in Event
    PROVE  ~MadeUpto(e, n)
  BY DEF ChainShape, MadeUpto

LEMMA DrainedAccounts ==
    ASSUME ChainShape, NEW q, queue[q] = Drained
    PROVE  QueueAccounts(q)
<1>1. /\ queue[q].stage = "idle" /\ queue[q].next = 1 /\ queue[q].upto = 0
      /\ queue[q].live = 1 /\ queue[q].notified = 0 /\ queue[q].at = 0 /\ queue[q].todo = {}
  BY DEF Drained
<1>2. head \in Nat
  BY DEF ChainShape
<1>3. ReachedUpto(q, 0)
  BY NoneBelowFirst DEF ReachedUpto
<1>. QED  BY <1>1, <1>2, <1>3 DEF QueueAccounts

LEMMA DrainedNext ==
    ASSUME ChainShape', NEW q, queue'[q] = Drained
    PROVE  QueueAccounts(q)'
<1>1. /\ queue'[q].stage = "idle" /\ queue'[q].next = 1 /\ queue'[q].upto = 0
      /\ queue'[q].live = 1 /\ queue'[q].notified = 0 /\ queue'[q].at = 0
      /\ queue'[q].todo = {}
  BY DEF Drained
<1>2. head' \in Nat
  BY DEF ChainShape
<1>3. ReachedUpto(q, queue[q].live - 1)'
  BY <1>1 DEF ChainShape, ReachedUpto, MadeUpto
<1>4. /\ queue'[q].next <= head' + 1 /\ queue'[q].upto <= head' /\ queue'[q].at <= head'
      /\ queue'[q].live <= head' + 1 /\ queue'[q].notified <= head'
      /\ ~(queue'[q].next <= queue'[q].upto)
  <2>1. \A h \in Nat : 1 <= h + 1 /\ 0 <= h /\ ~(1 <= 0)
    OBVIOUS
  <2>. QED  BY <1>1, <1>2, <2>1, Zenon
<1>. QED  BY <1>1, <1>2, <1>3, <1>4 DEF QueueAccounts

LEMMA SolanaInitially == Init => SolanaInv
<1> SUFFICES ASSUME Init
             PROVE  SolanaInv
  OBVIOUS
<1>1. ChainShape /\ head = 1 /\ \A e \in Event : included[e] = NotMined
  BY EthInitially DEF EthInv, Init, ChainInit
<1>2. /\ ws = Closed /\ checkpoint \in {0, 1} /\ lastSignature = checkpoint
      /\ \A q \in Task : queue[q] = Drained
  BY DEF Init, SolanaInit
<1>3. \A q \in Task : QueueAccounts(q)
  BY <1>1, <1>2, DrainedAccounts
<1>4. BehindUpto(lastSignature) /\ BehindUpto(checkpoint)
  BY <1>1 DEF BehindUpto, MadeUpto
<1>5. SocketAccounts
  BY <1>2 DEF SocketAccounts, Closed
<1>. QED  BY <1>1, <1>2, <1>3, <1>4, <1>5 DEF SolanaInv

(* What is behind stays behind, and new transactions come after the head.    *)
LEMMA MissedGrows ==
    ASSUME [Next]_vars
    PROVE  missed \subseteq missed'
<1>1. CASE UNCHANGED solanaVars
  BY <1>1 DEF solanaVars
<1>2. ASSUME NEW q \in Task, SolanaStep(q)
      PROVE  missed \subseteq missed'
  BY <1>2 DEF SolanaStep, Connect, ListBackfill, FetchNext, NextNotification, HandOver,
              recordSignature, Covered
<1>3. CASE Subscribed \/ Notify
  BY <1>3 DEF Subscribed, Notify, Covered
<1>4. SolanaRestart \/ Disconnect \/ (\E q \in Task : BackfillFails(q)) => missed' = missed
  BY DEF SolanaRestart, Disconnect, BackfillFails
<1>5. \/ UNCHANGED solanaVars \/ (\E q \in Task : SolanaStep(q)) \/ Subscribed \/ Notify
      \/ SolanaRestart \/ Disconnect \/ \E q \in Task : BackfillFails(q)
  BY Zenon DEF Next, Work, Promise, Ethereum, Solana, Subscription, Retry, Chain, Stellar,
               Fault, Crash, PollError, vars
<1>. QED  BY <1>1, <1>2, <1>3, <1>4, <1>5

LEMMA BehindStays ==
    ASSUME [Next]_vars, NEW e, Behind(e)
    PROVE  Behind(e)'
  BY SettledStays, MissedGrows DEF Behind

LEMMA MadeBefore ==
    ASSUME ChainShape, [Next]_vars, NEW n \in Int, n <= head, NEW e \in Event, MadeUpto(e, n)'
    PROVE  MadeUpto(e, n) /\ included'[e] = included[e]
<1>1. ChainGrows /\ ChainShape'
  BY ChainSteps
<1>2. head \in Nat /\ included'[e] \in Nat
  BY <1>1 DEF ChainShape, MadeUpto
<1>3. included'[e] <= n /\ included'[e] # NotMined
  BY DEF MadeUpto
<1>4. included'[e] = included[e]
  BY <1>1, <1>2, <1>3 DEF ChainGrows
<1>. QED  BY <1>3, <1>4 DEF MadeUpto

LEMMA BehindUptoStays ==
    ASSUME ChainShape, [Next]_vars, NEW n \in Int, n <= head, BehindUpto(n)
    PROVE  BehindUpto(n)'
  BY MadeBefore, BehindStays DEF BehindUpto

(* A step that leaves a queue what it has reached.                           *)
Carries(q) ==
    \A e \in Event : included'[e] = included[e] =>
        (InTask(q, e) => InTask(q, e)') /\ (Reached(q, e) => Reached(q, e)')

LEMMA CarriesUpto ==
    ASSUME ChainShape, [Next]_vars, NEW q, Carries(q), NEW n \in Int, n <= head
    PROVE  /\ InTaskUpto(q, n) => InTaskUpto(q, n)'
           /\ ReachedUpto(q, n) => ReachedUpto(q, n)'
  BY MadeBefore DEF Carries, InTaskUpto, ReachedUpto

(* A task goes on with all it has in hand but what it has handed over.       *)
LEMMA TaskGoesOn ==
    ASSUME CallShape, Orderly, [Next]_vars, NEW q \in Task, NEW e, InTask(q, e),
           e \in queue[q].todo => InTask(q, e)'
    PROVE  InTask(q, e)'
<1>1. CASE Behind(e)
  BY <1>1, BehindStays DEF InTask
<1>2. CASE call[q].stage # "idle" /\ call[q].event = e
  BY <1>2, AwaitedStays DEF InTask, Behind, Caller
<1>. QED  BY <1>1, <1>2 DEF InTask

LEMMA SameQueueCarries ==
    ASSUME CallShape, Orderly, [Next]_vars, NEW q \in Task, queue'[q] = queue[q]
    PROVE  Carries(q)
<1>1. \A e : InTask(q, e) => InTask(q, e)'
  <2>1. \A e : e \in queue[q].todo => InTask(q, e)'
    BY DEF InTask
  <2>. QED  BY <2>1, TaskGoesOn
<1>. QED  BY <1>1 DEF Carries, Reached

LEMMA QueueGoesOn ==
    ASSUME CallShape, ChainShape, Orderly, [Next]_vars, queue \in [Task -> Delivery],
           NEW q \in Task, QueueAccounts(q), queue'[q] = queue[q]
    PROVE  QueueAccounts(q)'
<1>1. Carries(q)
  BY SameQueueCarries
<1>2. head \in Nat /\ head' \in Nat /\ head' >= head
  BY ChainSteps DEF ChainShape, ChainGrows
<1>3. /\ queue[q].next \in Nat /\ queue[q].upto \in Nat /\ queue[q].live \in Nat
      /\ queue[q].notified \in Nat /\ queue[q].at \in Nat
  BY DEF Delivery
<1>4. PICK at, below, before :
          /\ at = queue[q].at /\ below = queue[q].next - 1 /\ before = queue[q].live - 1
          /\ at \in Int /\ below \in Int /\ before \in Int
  BY <1>3
<1>5. /\ queue[q].next <= head + 1 /\ queue[q].upto <= head /\ queue[q].at <= head
      /\ queue[q].live <= head + 1 /\ queue[q].notified <= head
  BY DEF QueueAccounts
<1>6. at <= head /\ below <= head /\ before <= head
  BY <1>2, <1>3, <1>4, <1>5
<1>7. /\ BehindUpto(at) => BehindUpto(at)'
      /\ InTaskUpto(q, at) => InTaskUpto(q, at)'
      /\ InTaskUpto(q, below) => InTaskUpto(q, below)'
      /\ ReachedUpto(q, before) => ReachedUpto(q, before)'
  BY <1>1, <1>4, <1>6, BehindUptoStays, CarriesUpto
<1>8. /\ queue'[q].next <= head' + 1 /\ queue'[q].upto <= head' /\ queue'[q].at <= head'
      /\ queue'[q].live <= head' + 1 /\ queue'[q].notified <= head'
  BY <1>2, <1>3, <1>5
<1>9. /\ queue[q].stage = "listing" => BehindUpto(at)'
      /\ queue[q].stage = "handling" => InTaskUpto(q, at)'
      /\ queue[q].next <= queue[q].upto => InTaskUpto(q, below)'
      /\ queue[q].stage # "listing" => ReachedUpto(q, before)'
  BY <1>4, <1>7 DEF QueueAccounts
<1>10. queue[q].stage # "handling" => queue[q].todo = {}
  BY DEF QueueAccounts
<1>. QED
  BY <1>4, <1>8, <1>9, <1>10
  DEF QueueAccounts, BehindUpto, InTaskUpto, ReachedUpto, MadeUpto


LEMMA PositionsStay ==
    ASSUME ChainShape, SolanaInv, SolanaTypeOK, [Next]_vars, checkpoint' = checkpoint,
           lastSignature' \in {lastSignature, checkpoint}
    PROVE  /\ lastSignature' <= head' /\ checkpoint' <= head'
           /\ BehindUpto(lastSignature)' /\ BehindUpto(checkpoint)'
<1>1. head \in Nat /\ head' \in Nat /\ head' >= head
  BY ChainSteps DEF ChainShape, ChainGrows
<1>2. /\ lastSignature \in Nat /\ checkpoint \in Nat
      /\ lastSignature <= head /\ checkpoint <= head
  BY DEF SolanaTypeOK, SolanaInv
<1>3. PICK last, stored_ : /\ last = lastSignature /\ stored_ = checkpoint
                           /\ last \in Int /\ stored_ \in Int
  BY <1>2
<1>4. BehindUpto(last)' /\ BehindUpto(stored_)'
  <2>1. BehindUpto(last) /\ BehindUpto(stored_)
    BY <1>3 DEF SolanaInv
  <2>. QED  BY <1>2, <1>3, <2>1, BehindUptoStays
<1>5. BehindUpto(lastSignature)' /\ BehindUpto(checkpoint)'
  BY <1>3, <1>4 DEF BehindUpto, MadeUpto
<1>. QED  BY <1>1, <1>2, <1>5

LEMMA SocketGoesOn ==
    ASSUME ChainShape, SocketAccounts, ws \in Socket, [Next]_vars, ws' = ws,
           ws.queue \in Task =>
               /\ Carries(ws.queue)
               /\ queue[ws.queue].stage = "listing" => queue'[ws.queue].stage = "listing"
    PROVE  SocketAccounts'
<1> SUFFICES ASSUME ws.open, ws.acked = Unknown
             PROVE  SocketAccounts'
  BY DEF SocketAccounts
<1>1. head \in Nat /\ head' \in Nat /\ head' >= head /\ ws.listed \in Int
  BY ChainSteps DEF ChainShape, ChainGrows, Socket
<1>2. PICK q, n : q = ws.queue /\ n = ws.listed
  OBVIOUS
<1>3. q \in Task /\ Carries(q)
  BY <1>2 DEF SocketAccounts
<1>4. n # Unknown => n <= head' /\ ReachedUpto(q, n)'
  <2>1. n # Unknown => n <= head /\ ReachedUpto(q, n)
    BY <1>2 DEF SocketAccounts
  <2>2. n # Unknown => ReachedUpto(q, n)'
    BY <1>1, <1>2, <1>3, <2>1, CarriesUpto
  <2>. QED  BY <1>1, <1>2, <2>1, <2>2
<1>5. n = Unknown => queue'[q].stage = "listing"
  BY <1>2, <1>3 DEF SocketAccounts
<1>. QED
  BY <1>2, <1>3, <1>4, <1>5 DEF SocketAccounts, ReachedUpto, MadeUpto, Reached, InTask

(* A step of one queue that was not listing.                                 *)
LEMMA TaskStepKeeps ==
    ASSUME CallShape, ChainShape, Orderly, [Next]_vars, SolanaTypeOK, SolanaInv, ws' = ws,
           NEW q \in Task, \A r \in Task : r # q => queue'[r] = queue[r],
           Carries(q), QueueAccounts(q)', queue[q].stage # "listing"
    PROVE  (\A r \in Task : QueueAccounts(r)') /\ SocketAccounts'
<1>1. queue \in [Task -> Delivery] /\ ws \in Socket
  BY DEF SolanaTypeOK, Delivery, Socket
<1>2. ASSUME NEW r \in Task
      PROVE  QueueAccounts(r)'
  <2>1. CASE r = q
    BY <2>1
  <2>2. CASE r # q
    BY <1>1, <2>2, QueueGoesOn DEF SolanaInv
  <2>. QED  BY <2>1, <2>2
<1>3. \A r \in Task : Carries(r)
  BY SameQueueCarries
<1>4. \A r \in Task : queue[r].stage = "listing" => queue'[r].stage = "listing"
  OBVIOUS
<1>5. SocketAccounts'
  BY <1>1, <1>3, <1>4, SocketGoesOn DEF SolanaInv
<1>. QED  BY <1>2, <1>5

(* Everything but the listener's own steps leaves it alone.                  *)
LEMMA OthersKeepCheckpoint ==
    ASSUME CallShape, ChainShape, Orderly, [Next]_vars, SolanaTypeOK, SolanaInv,
           UNCHANGED solanaVars
    PROVE  SolanaInv'
<1>1. queue \in [Task -> Delivery] /\ ws \in Socket
  BY DEF SolanaTypeOK, Delivery, Socket
<1>2. /\ queue' = queue /\ ws' = ws /\ checkpoint' = checkpoint
      /\ lastSignature' = lastSignature
  BY DEF solanaVars
<1>3. \A q \in Task : QueueAccounts(q)'
  BY <1>1, <1>2, QueueGoesOn DEF SolanaInv
<1>4. \A q \in Task : Carries(q)
  BY <1>2, SameQueueCarries
<1>5. SocketAccounts'
  BY <1>1, <1>2, <1>4, SocketGoesOn DEF SolanaInv
<1>. QED  BY <1>2, <1>3, <1>5, PositionsStay DEF SolanaInv

(* A connection that closes takes its idle queues with it; a crash, all.     *)
LEMMA ClosingKeeps ==
    ASSUME CallShape, ChainShape, [Next]_vars, SolanaTypeOK, SolanaInv, ws' = Closed,
           checkpoint' = checkpoint, lastSignature' \in {lastSignature, checkpoint},
           \A q \in Task : queue'[q] = Drained \/ (Orderly /\ queue'[q] = queue[q])
    PROVE  SolanaInv'
<1>1. queue \in [Task -> Delivery]
  BY DEF SolanaTypeOK, Delivery
<1>2. ChainShape'
  BY ChainSteps
<1>3. ASSUME NEW q \in Task
      PROVE  QueueAccounts(q)'
  <2>1. CASE queue'[q] = Drained
    BY <1>2, <2>1, DrainedNext
  <2>2. CASE Orderly /\ queue'[q] = queue[q]
    BY <1>1, <2>2, QueueGoesOn DEF SolanaInv
  <2>. QED  BY <2>1, <2>2
<1>4. SocketAccounts'
  BY DEF SocketAccounts, Closed
<1>. QED  BY <1>3, <1>4, PositionsStay DEF SolanaInv


(* The task of a queue takes the deposits of a transaction: all but those    *)
(* that are worth nothing.                                                   *)
LEMMA EventsTaken ==
    ASSUME TypeInv, NEW position, NEW e \in Event, included[e] # NotMined, included[e] = position
    PROVE  e \in EventsOf(position) \/ Behind(e)
<1>1. EventsIn(position, position) \in SUBSET Event
  BY DEF EventsIn
<1>2. included[e] \in Nat /\ fate[e] \in Worths
  BY DEF TypeInv, EthInv, ChainShape, ExtractsInv
<1>3. e \in EventsIn(position, position)
  BY <1>2 DEF EventsIn
<1>4. e \in EventsOf(position) \/ ~Extractable(e, fate)
  BY <1>1, <1>3 DEF EventsOf, TypeInv, ExtractsInv
<1>. QED  BY <1>4 DEF Extractable, Behind, Settled, Worthless

LEMMA FetchNextKeeps ==
    ASSUME TypeInv, SolanaInv, [Next]_vars, Orderly, UNCHANGED chainVars, NEW q \in Task,
           FetchNext(q)
    PROVE  SolanaInv'
<1>0. /\ CallShape /\ ChainShape /\ SolanaTypeOK /\ queue \in [Task -> Delivery]
      /\ head' = head /\ included' = included /\ head \in Nat
  BY DEF TypeInv, TypeOK, ServiceInv, EthInv, SolanaTypeOK, Delivery, ChainShape, chainVars
<1> DEFINE n == queue[q].next
           last == n = queue[q].upto
           a == IF last THEN 1 ELSE n + 1
           b == IF last THEN 0 ELSE queue[q].upto
           found == EventsOf(n)
<1>1. /\ queue[q].next \in Nat /\ queue[q].upto \in Nat /\ queue[q].live \in Nat
      /\ queue[q].notified \in Nat /\ queue[q].at \in Nat
  BY <1>0 DEF Delivery
<1>2. /\ queue[q].stage = "ready" /\ n <= queue[q].upto
      /\ UNCHANGED <<ws, lastSignature, checkpoint>>
  BY DEF FetchNext
<1>3. /\ queue[q].next <= head + 1 /\ queue[q].upto <= head
      /\ queue[q].live <= head + 1 /\ queue[q].notified <= head
      /\ queue[q].todo = {} /\ InTaskUpto(q, n - 1) /\ ReachedUpto(q, queue[q].live - 1)
  BY <1>2 DEF SolanaInv, QueueAccounts
<1>4. /\ queue'[q].stage = "handling" /\ queue'[q].next = a /\ queue'[q].upto = b
      /\ queue'[q].live = queue[q].live /\ queue'[q].notified = queue[q].notified
      /\ queue'[q].at = n /\ queue'[q].todo = found
      /\ \A r \in Task : r # q => queue'[r] = queue[r]
  <2>1. queue' = [queue EXCEPT ![q].stage = "handling", ![q].at = n, ![q].next = a,
                               ![q].upto = b, ![q].todo = found]
    BY <1>0 DEF FetchNext
  <2> HIDE DEF a, b, found, n
  <2>2. Becomes(q, "handling", a, b, queue[q].live, queue[q].notified, n, found)
    BY <1>0, <2>1, SetFour, Zenon
  <2>. QED  BY <1>0, <2>2 DEF Becomes
<1>5. \A e \in Event : included[e] # NotMined /\ included[e] = n => InTask(q, e)'
  BY <1>4, EventsTaken, BehindStays DEF InTask
<1>6. \A e : InTask(q, e) => InTask(q, e)'
  <2>1. \A e : e \notin queue[q].todo
    BY <1>3
  <2>. QED  BY <1>0, <2>1, TaskGoesOn
<1>7. n \in Nat /\ \A e \in Event : included[e] \in Nat \cup {NotMined}
  BY <1>0, <1>1 DEF ChainShape
<1>8. \A e \in Event : included'[e] # NotMined /\ included'[e] <= n => InTask(q, e)'
  <2>1. ASSUME NEW e \in Event, included[e] # NotMined, included[e] <= n, included[e] # n
        PROVE  InTask(q, e)
    <3>1. included[e] <= n - 1
      BY <1>7, <2>1
    <3>. QED  BY <1>3, <2>1, <3>1 DEF InTaskUpto, MadeUpto
  <2>. QED  BY <1>0, <1>5, <1>6, <2>1
<1>9. \A e \in Event : included[e] # NotMined /\ Reached(q, e) => Reached(q, e)'
  <2>1. ASSUME NEW e \in Event, included[e] # NotMined, n <= included[e],
               included[e] <= queue[q].upto, included[e] # n
        PROVE  a <= included[e] /\ included[e] <= b
    BY <1>1, <1>7, <2>1
  <2>2. \A e \in Event : included[e] # NotMined /\ Reached(q, e) =>
            \/ InTask(q, e) \/ included[e] = n
            \/ a <= included[e] /\ included[e] <= b
    BY <2>1 DEF Reached
  <2> HIDE DEF a, b, n
  <2>. QED  BY <1>0, <1>4, <1>5, <1>6, <2>2 DEF Reached
<1>10. Carries(q)
  <2>1. \A e \in Event : included[e] = NotMined /\ Reached(q, e) => InTask(q, e)
    BY <1>1, <1>7 DEF Reached, NotMined
  <2>. QED  BY <1>6, <1>9, <2>1 DEF Carries, Reached
<1>11. QueueAccounts(q)'
  <2>1. a \in Nat /\ a <= head + 1 /\ b <= head /\ n <= head
    BY <1>0, <1>1, <1>2, <1>3
  <2>2. a <= b => a = n + 1
    BY <1>1
  <2>3. InTaskUpto(q, queue[q].at)'
    BY <1>4, <1>8 DEF InTaskUpto, MadeUpto
  <2>4. queue'[q].next <= queue'[q].upto => queue'[q].next - 1 = n
    BY <1>4, <1>7, <2>2
  <2> HIDE DEF a, b, n, found
  <2>5. queue'[q].next <= queue'[q].upto => InTaskUpto(q, queue[q].next - 1)'
    BY <1>8, <2>4 DEF InTaskUpto, MadeUpto
  <2>6. ReachedUpto(q, queue[q].live - 1)'
    BY <1>0, <1>3, <1>4, <1>9 DEF ReachedUpto, MadeUpto
  <2>. QED  BY <1>0, <1>3, <1>4, <2>1, <2>3, <2>5, <2>6 DEF QueueAccounts
<1>. QED
  <2>1. (\A r \in Task : QueueAccounts(r)') /\ SocketAccounts'
    <3> HIDE DEF n, a, b, found
    <3>. QED  BY <1>0, <1>2, <1>4, <1>10, <1>11, TaskStepKeeps
  <2>. QED  BY <1>0, <1>2, <2>1, PositionsStay DEF SolanaInv


LEMMA NextNotificationKeeps ==
    ASSUME TypeInv, SolanaInv, [Next]_vars, Orderly, UNCHANGED chainVars, NEW q \in Task,
           NextNotification(q)
    PROVE  SolanaInv'
<1>0. /\ CallShape /\ ChainShape /\ SolanaTypeOK /\ queue \in [Task -> Delivery]
      /\ head' = head /\ included' = included /\ head \in Nat
  BY DEF TypeInv, TypeOK, ServiceInv, EthInv, SolanaTypeOK, Delivery, ChainShape, chainVars
<1> DEFINE n == queue[q].live
           a == n + 1
           found == EventsOf(n)
<1>1. /\ queue[q].next \in Nat /\ queue[q].upto \in Nat /\ n \in Nat
      /\ queue[q].notified \in Nat /\ queue[q].at \in Nat
  BY <1>0 DEF Delivery
<1>2. /\ queue[q].stage = "ready" /\ queue[q].next > queue[q].upto /\ n <= queue[q].notified
      /\ UNCHANGED <<ws, lastSignature, checkpoint>>
  BY DEF NextNotification
<1>3. /\ queue[q].next <= head + 1 /\ queue[q].upto <= head
      /\ queue[q].live <= head + 1 /\ queue[q].notified <= head
      /\ queue[q].todo = {} /\ ReachedUpto(q, n - 1)
  BY <1>2 DEF SolanaInv, QueueAccounts
<1>4. /\ queue'[q].stage = "handling" /\ queue'[q].next = queue[q].next
      /\ queue'[q].upto = queue[q].upto
      /\ queue'[q].live = a /\ queue'[q].notified = queue[q].notified
      /\ queue'[q].at = n /\ queue'[q].todo = found
      /\ \A r \in Task : r # q => queue'[r] = queue[r]
  <2>1. queue' = [queue EXCEPT ![q].stage = "handling", ![q].at = n, ![q].live = a,
                               ![q].todo = found]
    BY <1>0 DEF NextNotification
  <2> HIDE DEF a, found, n
  <2>2. Becomes(q, "handling", queue[q].next, queue[q].upto, a, queue[q].notified, n, found)
    BY <1>0, <2>1, SetFour, Zenon
  <2>. QED  BY <1>0, <2>2 DEF Becomes
<1>5. \A e \in Event : included[e] # NotMined /\ included[e] = n => InTask(q, e)'
  BY <1>4, EventsTaken, BehindStays DEF InTask
<1>6. \A e : InTask(q, e) => InTask(q, e)'
  <2>1. \A e : e \notin queue[q].todo
    BY <1>3
  <2>. QED  BY <1>0, <2>1, TaskGoesOn
<1>7. \A e \in Event : included[e] \in Nat \cup {NotMined}
  BY <1>0 DEF ChainShape
<1>8. \A e \in Event : included'[e] # NotMined /\ included'[e] <= n => InTask(q, e)'
  <2>1. ASSUME NEW e \in Event, included[e] # NotMined, included[e] <= n, included[e] # n
        PROVE  InTask(q, e)
    <3>1. included[e] <= n - 1
      BY <1>1, <1>7, <2>1
    <3>2. Reached(q, e)
      BY <1>3, <2>1, <3>1 DEF ReachedUpto, MadeUpto
    <3>. QED  BY <1>1, <1>2, <1>7, <2>1, <3>2 DEF Reached
  <2>. QED  BY <1>0, <1>5, <1>6, <2>1
<1>9. Carries(q)
  BY <1>4, <1>6 DEF Carries, Reached
<1>10. QueueAccounts(q)'
  <2>1. a \in Nat /\ a <= head + 1 /\ n <= head /\ a - 1 = n
    BY <1>0, <1>1, <1>2, <1>3
  <2> HIDE DEF a, n, found
  <2>2. InTaskUpto(q, queue[q].at)'
    BY <1>4, <1>8 DEF InTaskUpto, MadeUpto
  <2>3. ReachedUpto(q, queue[q].live - 1)'
    BY <1>4, <1>8, <2>1 DEF ReachedUpto, MadeUpto, Reached
  <2>4. ~(queue'[q].next <= queue'[q].upto)
    BY <1>1, <1>2, <1>4
  <2>. QED  BY <1>0, <1>3, <1>4, <2>1, <2>2, <2>3, <2>4 DEF QueueAccounts
<1>. QED
  <2>1. (\A r \in Task : QueueAccounts(r)') /\ SocketAccounts'
    <3> HIDE DEF n, a, found
    <3>. QED  BY <1>0, <1>2, <1>4, <1>9, <1>10, TaskStepKeeps
  <2>. QED  BY <1>0, <1>2, <2>1, PositionsStay DEF SolanaInv

(* handleEvent either answers at once or is awaited.                         *)
LEMMA HandedOver ==
    ASSUME CallShape, [Next]_vars, NEW q \in Task, NEW e, HandleEvent(q, e)
    PROVE  InTask(q, e)'
<1>1. CASE Ignored(e)
  <2>1. Settled(e)
    BY <1>1 DEF Ignored, validateBridgeEvent, Settled, Worthless
  <2>. QED  BY <2>1, SettledStays DEF InTask, Behind
<1>2. CASE \E stage \in {"joined", "signing"} : call' = [call EXCEPT ![q] = Awaiting(e, stage)]
  BY <1>2 DEF CallShape, Awaiting, InTask, Caller
<1>. QED  BY <1>1, <1>2 DEF HandleEvent

LEMMA HandOverKeeps ==
    ASSUME TypeInv, SolanaInv, [Next]_vars, Orderly, UNCHANGED chainVars, NEW q \in Task,
           NEW e \in Event, HandOver(q, e)
    PROVE  SolanaInv'
<1>0. /\ CallShape /\ ChainShape /\ SolanaTypeOK /\ queue \in [Task -> Delivery]
      /\ head' = head /\ included' = included /\ head \in Nat
  BY DEF TypeInv, TypeOK, ServiceInv, EthInv, SolanaTypeOK, Delivery, ChainShape, chainVars
<1>1. /\ queue[q].next \in Nat /\ queue[q].upto \in Nat /\ queue[q].live \in Nat
      /\ queue[q].notified \in Nat /\ queue[q].at \in Nat
  BY <1>0 DEF Delivery
<1>2. queue[q].stage = "handling" /\ UNCHANGED <<ws, lastSignature, checkpoint>>
  BY DEF HandOver
<1>3. /\ queue'[q].stage = "handling" /\ queue'[q].next = queue[q].next
      /\ queue'[q].upto = queue[q].upto /\ queue'[q].live = queue[q].live
      /\ queue'[q].notified = queue[q].notified /\ queue'[q].at = queue[q].at
      /\ queue'[q].todo = queue[q].todo \ {e}
      /\ \A r \in Task : r # q => queue'[r] = queue[r]
  <2>1. PICK rest : rest = queue[q].todo \ {e}
    OBVIOUS
  <2>2. queue' = [queue EXCEPT ![q].todo = rest]
    BY <1>0, <2>1 DEF HandOver
  <2>3. Becomes(q, queue[q].stage, queue[q].next, queue[q].upto, queue[q].live,
                queue[q].notified, queue[q].at, rest)
    BY <1>0, <2>2, SetTwo, Zenon
  <2>. QED  BY <1>0, <1>2, <2>1, <2>3 DEF Becomes
<1>4. \A f : InTask(q, f) => InTask(q, f)'
  <2>1. InTask(q, e)'
    BY <1>0, HandedOver DEF HandOver
  <2>2. \A f : f \in queue[q].todo => InTask(q, f)'
    BY <1>3, <2>1 DEF InTask
  <2>. QED  BY <1>0, <2>2, TaskGoesOn
<1>5. Carries(q)
  BY <1>3, <1>4 DEF Carries, Reached
<1>6. QueueAccounts(q)'
  <2>1. /\ QueueAccounts(q)
        /\ queue[q].next \in Int /\ queue[q].live \in Int /\ queue[q].at \in Int
    BY <1>1 DEF SolanaInv
  <2>2. InTaskUpto(q, queue[q].at)'
    BY <1>0, <1>2, <1>3, <1>4, <2>1 DEF QueueAccounts, InTaskUpto, MadeUpto
  <2>3. queue[q].next <= queue[q].upto => InTaskUpto(q, queue[q].next - 1)'
    BY <1>0, <1>3, <1>4, <2>1 DEF QueueAccounts, InTaskUpto, MadeUpto
  <2>4. ReachedUpto(q, queue[q].live - 1)'
    BY <1>0, <1>2, <1>3, <1>4, <2>1 DEF QueueAccounts, ReachedUpto, MadeUpto, Reached
  <2>. QED  BY <1>0, <1>2, <1>3, <2>1, <2>2, <2>3, <2>4 DEF QueueAccounts
<1>. QED
  <2>1. (\A r \in Task : QueueAccounts(r)') /\ SocketAccounts'
    BY <1>0, <1>2, <1>3, <1>5, <1>6, TaskStepKeeps
  <2>. QED  BY <1>0, <1>2, <2>1, PositionsStay DEF SolanaInv

LEMMA RecordSignatureKeeps ==
    ASSUME TypeInv, SolanaInv, [Next]_vars, Orderly, UNCHANGED chainVars, NEW q \in Task,
           recordSignature(q)
    PROVE  SolanaInv'
<1>0. /\ CallShape /\ ChainShape /\ SolanaTypeOK /\ queue \in [Task -> Delivery]
      /\ head' = head /\ included' = included /\ head \in Nat
  BY DEF TypeInv, TypeOK, ServiceInv, EthInv, SolanaTypeOK, Delivery, ChainShape, chainVars
<1>1. /\ queue[q].next \in Nat /\ queue[q].upto \in Nat /\ queue[q].live \in Nat
      /\ queue[q].notified \in Nat /\ queue[q].at \in Nat
  BY <1>0 DEF Delivery
<1>2. /\ queue[q].stage = "handling" /\ queue[q].todo = {} /\ call[q].stage = "idle"
      /\ ws' = ws /\ checkpoint' = queue[q].at /\ lastSignature' = queue[q].at
  BY DEF recordSignature
<1>3. /\ queue'[q].stage = "ready" /\ queue'[q].next = queue[q].next
      /\ queue'[q].upto = queue[q].upto /\ queue'[q].live = queue[q].live
      /\ queue'[q].notified = queue[q].notified /\ queue'[q].at = 0
      /\ queue'[q].todo = queue[q].todo
      /\ \A r \in Task : r # q => queue'[r] = queue[r]
  <2>1. queue' = [queue EXCEPT ![q].stage = "ready", ![q].at = 0]
    BY DEF recordSignature
  <2>2. Becomes(q, "ready", queue[q].next, queue[q].upto, queue[q].live, queue[q].notified,
                0, queue[q].todo)
    BY <1>0, <2>1, SetTwo, Zenon
  <2>. QED  BY <1>0, <2>2 DEF Becomes
<1>4. \A f : InTask(q, f) => InTask(q, f)'
  <2>1. \A f : f \notin queue[q].todo
    BY <1>2
  <2>. QED  BY <1>0, <2>1, TaskGoesOn
<1>5. Carries(q)
  BY <1>3, <1>4 DEF Carries, Reached
<1>6. QueueAccounts(q)
  BY DEF SolanaInv
<1>7. QueueAccounts(q)'
  <2>1. queue[q].next <= queue[q].upto => InTaskUpto(q, queue[q].next - 1)'
    BY <1>0, <1>3, <1>4, <1>6 DEF QueueAccounts, InTaskUpto, MadeUpto
  <2>2. ReachedUpto(q, queue[q].live - 1)'
    BY <1>0, <1>2, <1>3, <1>4, <1>6 DEF QueueAccounts, ReachedUpto, MadeUpto, Reached
  <2>. QED  BY <1>0, <1>2, <1>3, <1>6, <2>1, <2>2 DEF QueueAccounts
<1>8. queue[q].at <= head /\ BehindUpto(queue[q].at)
  BY <1>2, <1>6 DEF QueueAccounts, InTaskUpto, BehindUpto, InTask
<1>9. BehindUpto(lastSignature)' /\ BehindUpto(checkpoint)'
  <2>1. \A e : Behind(e) => Behind(e)'
    BY BehindStays
  <2>. QED  BY <1>0, <1>2, <1>8, <2>1 DEF BehindUpto, MadeUpto
<1>10. (\A r \in Task : QueueAccounts(r)') /\ SocketAccounts'
  BY <1>0, <1>2, <1>3, <1>5, <1>7, TaskStepKeeps
<1>. QED  BY <1>0, <1>2, <1>8, <1>9, <1>10 DEF SolanaInv


LEMMA CoveredSocket ==
    ASSUME ws \in Socket, NEW listed, NEW acked, Covered(listed, acked)
    PROVE  /\ ws'.open = ws.open /\ ws'.queue = ws.queue
           /\ listed = Unknown \/ acked = Unknown => ws'.listed = listed /\ ws'.acked = acked
           /\ ~(listed = Unknown \/ acked = Unknown) =>
                 ws'.acked = 0 /\ missed' = missed \cup EventsIn(listed + 1, acked)
<1>1. ws = [open |-> ws.open, queue |-> ws.queue, listed |-> ws.listed, acked |-> ws.acked]
  BY DEF Socket
<1>2. ASSUME NEW a, NEW b, ws' = [ws EXCEPT !.listed = a, !.acked = b]
      PROVE  ws'.open = ws.open /\ ws'.queue = ws.queue /\ ws'.listed = a /\ ws'.acked = b
  <2>1. ws' = [open |-> ws.open, queue |-> ws.queue, listed |-> a, acked |-> b]
    BY <1>1, <1>2
  <2>. QED  BY <2>1
<1>3. CASE listed = Unknown \/ acked = Unknown
  <2>1. ws' = [ws EXCEPT !.listed = listed, !.acked = acked]
    BY <1>3 DEF Covered
  <2>. QED  BY <1>2, <1>3, <2>1, Zenon
<1>4. CASE ~(listed = Unknown \/ acked = Unknown)
  <2>1. ws' = [ws EXCEPT !.listed = 0, !.acked = 0]
        /\ missed' = missed \cup EventsIn(listed + 1, acked)
    BY <1>4 DEF Covered
  <2>. QED  BY <1>2, <1>4, <2>1, Zenon
<1>. QED  BY <1>3, <1>4

LEMMA ConnectKeeps ==
    ASSUME TypeInv, SolanaInv, [Next]_vars, Orderly, UNCHANGED chainVars, NEW q \in Task,
           Connect(q)
    PROVE  SolanaInv'
<1>0. /\ CallShape /\ ChainShape /\ SolanaTypeOK /\ queue \in [Task -> Delivery]
      /\ head' = head /\ included' = included /\ head \in Nat /\ ChainShape'
  BY ChainSteps
  DEF TypeInv, TypeOK, ServiceInv, EthInv, SolanaTypeOK, Delivery, ChainShape, chainVars
<1>1. lastSignature \in Nat /\ lastSignature <= head /\ BehindUpto(lastSignature)
  BY <1>0 DEF SolanaTypeOK, SolanaInv
<1> DEFINE stage == IF lastSignature = 0 THEN "ready" ELSE "listing"
           new == [Drained EXCEPT !.stage = stage, !.at = lastSignature]
<1>2. /\ queue' = [r \in Task |-> IF r = q THEN new ELSE IF Free(r) THEN Drained ELSE queue[r]]
      /\ ws' = [open |-> TRUE, queue |-> q, acked |-> Unknown,
                listed |-> IF lastSignature = 0 THEN 0 ELSE Unknown]
      /\ UNCHANGED <<lastSignature, checkpoint>>
  BY DEF Connect
<1>3. /\ new.stage = stage /\ new.next = 1 /\ new.upto = 0 /\ new.live = 1
      /\ new.notified = 0 /\ new.at = lastSignature /\ new.todo = {}
  BY DEF Drained
<1>4. \A n \in Int : n <= 0 => ReachedUpto(q, n)'
  BY <1>0, NoneBelowFirst DEF ReachedUpto, MadeUpto, ChainShape
<1>5. BehindUpto(lastSignature)' /\ BehindUpto(checkpoint)'
      /\ lastSignature' <= head' /\ checkpoint' <= head'
  BY <1>0, <1>2, PositionsStay
<1> HIDE DEF new
<1>6. /\ queue'[q].stage = stage /\ queue'[q].next = 1 /\ queue'[q].upto = 0
      /\ queue'[q].live = 1 /\ queue'[q].notified = 0 /\ queue'[q].at = lastSignature
      /\ queue'[q].todo = {}
  BY <1>2, <1>3
<1>7. QueueAccounts(q)'
  <2>1. BehindUpto(queue[q].at)'
    BY <1>2, <1>5, <1>6 DEF BehindUpto, MadeUpto
  <2>2. ReachedUpto(q, queue[q].live - 1)'
    BY <1>4, <1>6 DEF ReachedUpto, MadeUpto, Reached, InTask
  <2>3. stage # "handling"
    OBVIOUS
  <2> HIDE DEF stage
  <2>. QED  BY <1>0, <1>1, <1>6, <2>1, <2>2, <2>3 DEF QueueAccounts
<1>8. ASSUME NEW r \in Task, r # q
      PROVE  QueueAccounts(r)'
  <2>1. CASE queue'[r] = queue[r]
    BY <1>0, <2>1, QueueGoesOn DEF SolanaInv
  <2>2. CASE queue'[r] = Drained
    BY <1>0, <2>2, DrainedNext
  <2>. QED  BY <1>2, <1>8, <2>1, <2>2
<1>9. SocketAccounts'
  <2>1. ws'.queue = q /\ ws'.acked = Unknown
        /\ ws'.listed = IF lastSignature = 0 THEN 0 ELSE Unknown
    BY <1>2
  <2>2. lastSignature = 0 => ReachedUpto(q, 0)' /\ 0 <= head'
    BY <1>0, <1>4
  <2>3. lastSignature # 0 => queue'[q].stage = "listing"
    BY <1>6
  <2>. QED
    BY <2>1, <2>2, <2>3 DEF SocketAccounts, ReachedUpto, MadeUpto, Reached, InTask, Unknown
<1>. QED  BY <1>5, <1>7, <1>8, <1>9 DEF SolanaInv

LEMMA ListBackfillKeeps ==
    ASSUME TypeInv, SolanaInv, [Next]_vars, Orderly, UNCHANGED chainVars, NEW q \in Task,
           ListBackfill(q)
    PROVE  SolanaInv'
<1>0. /\ CallShape /\ ChainShape /\ SolanaTypeOK /\ queue \in [Task -> Delivery]
      /\ ws \in Socket
      /\ head' = head /\ included' = included /\ head \in Nat
  BY DEF TypeInv, TypeOK, ServiceInv, EthInv, SolanaTypeOK, Delivery, Socket, ChainShape,
         chainVars
<1>1. /\ queue[q].next \in Nat /\ queue[q].upto \in Nat /\ queue[q].live \in Nat
      /\ queue[q].notified \in Nat /\ queue[q].at \in Nat /\ lastSignature \in Nat
  BY <1>0 DEF Delivery, SolanaTypeOK
<1> DEFINE since == IF lastSignature > queue[q].at THEN lastSignature ELSE queue[q].at
           a == IF since = head THEN 1 ELSE since + 1
           b == IF since = head THEN 0 ELSE head
<1>2. /\ queue[q].stage = "listing" /\ UNCHANGED <<lastSignature, checkpoint>>
      /\ IF ws.queue = q THEN Covered(head, ws.acked) ELSE UNCHANGED <<ws, missed>>
  BY DEF ListBackfill
<1>3. QueueAccounts(q)
  BY DEF SolanaInv
<1>4. since \in Nat /\ since <= head /\ BehindUpto(since)
  <2>1. /\ lastSignature <= head /\ BehindUpto(lastSignature)
        /\ queue[q].at <= head /\ BehindUpto(queue[q].at)
    BY <1>2, <1>3 DEF SolanaInv, QueueAccounts
  <2>. QED  BY <1>1, <2>1
<1>5. /\ queue'[q].stage = "ready" /\ queue'[q].next = a /\ queue'[q].upto = b
      /\ queue'[q].live = queue[q].live /\ queue'[q].notified = queue[q].notified
      /\ queue'[q].at = 0 /\ queue'[q].todo = {}
      /\ \A r \in Task : r # q => queue'[r] = queue[r]
  <2>1. queue' = [queue EXCEPT ![q].stage = "ready", ![q].at = 0, ![q].next = a, ![q].upto = b]
    BY DEF ListBackfill
  <2> HIDE DEF a, b
  <2>2. Becomes(q, "ready", a, b, queue[q].live, queue[q].notified, 0, queue[q].todo)
    BY <1>0, <2>1, SetFour, Zenon
  <2>3. queue[q].todo = {}
    BY <1>2, <1>3 DEF QueueAccounts
  <2>. QED  BY <1>0, <2>2, <2>3 DEF Becomes
<1>6. \A e : InTask(q, e) => InTask(q, e)'
  <2>1. \A e : e \notin queue[q].todo
    BY <1>2, <1>3 DEF QueueAccounts
  <2>. QED  BY <1>0, <2>1, TaskGoesOn
<1>7. \A e : Behind(e) => InTask(q, e)'
  BY BehindStays DEF InTask
<1> HIDE DEF since
<1>8. ASSUME NEW e \in Event, included[e] # NotMined
      PROVE  Reached(q, e)' /\ (a <= b /\ included[e] <= a - 1 => InTask(q, e)')
  <2>1. included[e] \in Nat /\ 1 <= included[e] /\ included[e] <= head
    BY <1>0, <1>8 DEF ChainShape
  <2>2. included[e] <= since => InTask(q, e)'
    BY <1>4, <1>7, <1>8 DEF BehindUpto, MadeUpto
  <2>3. included[e] > since => a <= included[e] /\ included[e] <= b
    BY <1>0, <1>4, <2>1
  <2>4. included[e] <= a - 1 => included[e] <= since
    BY <1>0, <1>4, <2>1
  <2> HIDE DEF a, b
  <2>5. included[e] <= since \/ included[e] > since
    BY <1>4, <2>1
  <2>. QED  BY <1>0, <1>5, <2>2, <2>3, <2>4, <2>5 DEF Reached
<1>9. Carries(q)
  <2>1. \A e \in Event : included[e] = NotMined /\ Reached(q, e) => InTask(q, e)
    BY <1>1 DEF Reached, NotMined
  <2>. QED  BY <1>0, <1>6, <1>8, <2>1 DEF Carries, Reached
<1>10. QueueAccounts(q)'
  <2>1. a \in Nat /\ a <= head + 1 /\ b <= head
    BY <1>0, <1>4
  <2> HIDE DEF a, b
  <2>2. queue'[q].next <= queue'[q].upto => InTaskUpto(q, queue[q].next - 1)'
    BY <1>0, <1>5, <1>8 DEF InTaskUpto, MadeUpto
  <2>3. ReachedUpto(q, queue[q].live - 1)'
    BY <1>0, <1>8 DEF ReachedUpto, MadeUpto
  <2>4. queue[q].live <= head + 1 /\ queue[q].notified <= head
    BY <1>3 DEF QueueAccounts
  <2>. QED  BY <1>0, <1>5, <2>1, <2>2, <2>3, <2>4 DEF QueueAccounts
<1> HIDE DEF a, b
<1>11. ASSUME NEW r \in Task, r # q
       PROVE  QueueAccounts(r)'
  BY <1>0, <1>5, <1>11, QueueGoesOn DEF SolanaInv
<1>12. SocketAccounts'
  <2>1. CASE ws.queue = q
    <3>1. Covered(head, ws.acked) /\ head # Unknown
      BY <1>0, <1>2, <2>1 DEF Unknown
    <3>2. ws'.queue = q /\ (ws'.acked = 0 \/ ws'.listed = head)
      BY <1>0, <2>1, <3>1, CoveredSocket, Zenon
    <3>3. ReachedUpto(q, head)'
      BY <1>0, <1>8 DEF ReachedUpto, MadeUpto
    <3>. QED
      BY <1>0, <3>1, <3>2, <3>3
      DEF SocketAccounts, ReachedUpto, MadeUpto, Reached, InTask, Unknown
  <2>2. CASE ws.queue # q
    <3>1. \A r \in Task : r # q => Carries(r)
      BY <1>0, <1>5, SameQueueCarries
    <3>2. ws.queue \in Task => queue'[ws.queue] = queue[ws.queue]
      BY <1>5, <2>2
    <3>. QED  BY <1>0, <1>2, <2>2, <3>1, <3>2, SocketGoesOn DEF SolanaInv
  <2>. QED  BY <2>1, <2>2
<1>. QED
  BY <1>0, <1>2, <1>10, <1>11, <1>12, PositionsStay DEF SolanaInv


(* The server's answer settles what was finalised between the backfill's     *)
(* listing and it: that is missed. What came before, the queue reaches.      *)
LEMMA SubscribedKeeps ==
    ASSUME TypeInv, SolanaInv, [Next]_vars, Orderly, UNCHANGED chainVars, Subscribed
    PROVE  SolanaInv'
<1>0. /\ CallShape /\ ChainShape /\ SolanaTypeOK /\ queue \in [Task -> Delivery]
      /\ ws \in Socket
      /\ head' = head /\ included' = included /\ head \in Nat
  BY DEF TypeInv, TypeOK, ServiceInv, EthInv, SolanaTypeOK, Delivery, Socket, ChainShape,
         chainVars
<1>1. PICK q, n, a : q = ws.queue /\ n = ws.listed /\ a = head + 1
  OBVIOUS
<1>2. /\ ws.open /\ ws.acked = Unknown /\ Covered(n, head)
      /\ UNCHANGED <<lastSignature, checkpoint>>
  BY <1>1 DEF Subscribed
<1>3. /\ q \in Task /\ n \in Int
      /\ IF n = Unknown THEN queue[q].stage = "listing" ELSE n <= head /\ ReachedUpto(q, n)
  BY <1>0, <1>2, <1>1 DEF SolanaInv, SocketAccounts, Socket
<1>4. queue' = [queue EXCEPT ![q].live = a, ![q].notified = head]
  BY <1>1 DEF Subscribed
<1>5. /\ queue[q].next \in Nat /\ queue[q].upto \in Nat /\ queue[q].live \in Nat
      /\ queue[q].notified \in Nat /\ queue[q].at \in Nat
  BY <1>0, <1>3 DEF Delivery
<1>6. /\ queue'[q].stage = queue[q].stage /\ queue'[q].next = queue[q].next
      /\ queue'[q].upto = queue[q].upto /\ queue'[q].live = a /\ queue'[q].notified = head
      /\ queue'[q].at = queue[q].at /\ queue'[q].todo = queue[q].todo
      /\ \A r \in Task : r # q => queue'[r] = queue[r]
  <2>1. Becomes(q, queue[q].stage, queue[q].next, queue[q].upto, a, head, queue[q].at,
                queue[q].todo)
    BY <1>0, <1>3, <1>4, SetTwo, Zenon
  <2>. QED  BY <1>0, <1>3, <2>1 DEF Becomes
<1>7. \A e : InTask(q, e) => InTask(q, e)'
  <2>1. \A e : e \in queue[q].todo => InTask(q, e)'
    BY <1>6 DEF InTask
  <2>. QED  BY <1>0, <1>3, <2>1, TaskGoesOn
<1>8. Carries(q)
  BY <1>6, <1>7 DEF Carries, Reached
<1>9. QueueAccounts(q)
  BY <1>3 DEF SolanaInv
<1>10. queue[q].stage # "listing" =>
          \A e \in Event : included[e] # NotMined => Reached(q, e)'
  <2>1. SUFFICES ASSUME n # Unknown, NEW e \in Event, included[e] # NotMined
                 PROVE  Reached(q, e)'
    BY <1>3
  <2>2. included[e] \in Nat /\ 1 <= included[e] /\ included[e] <= head
    BY <1>0, <2>1 DEF ChainShape
  <2>3. CASE included[e] <= n
    <3>1. Reached(q, e)
      BY <1>3, <2>1, <2>3 DEF ReachedUpto, MadeUpto
    <3>. QED  BY <1>0, <1>8, <3>1 DEF Carries
  <2>4. CASE included[e] > n
    <3>1. missed' = missed \cup EventsIn(n + 1, head)
      <4>1. head # Unknown
        BY <1>0 DEF Unknown
      <4>. QED  BY <1>0, <1>2, <2>1, <4>1, CoveredSocket, Zenon
    <3>2. e \in EventsIn(n + 1, head)
      <4>1. included[e] \in (n + 1)..head
        BY <1>0, <1>3, <2>2, <2>4
      <4>. QED  BY <2>1, <4>1 DEF EventsIn
    <3>. QED  BY <3>1, <3>2 DEF Reached, InTask, Behind
  <2>. QED  BY <1>3, <2>2, <2>3, <2>4
<1>11. QueueAccounts(q)'
  <2>1. queue'[q].live <= head' + 1 /\ queue'[q].notified <= head' /\ head' = head
    BY <1>0, <1>6, <1>1
  <2>2. queue'[q].stage = "handling" => InTaskUpto(q, queue[q].at)'
    BY <1>0, <1>6, <1>7, <1>9 DEF QueueAccounts, InTaskUpto, MadeUpto
  <2>3. queue'[q].next <= queue'[q].upto => InTaskUpto(q, queue[q].next - 1)'
    BY <1>0, <1>6, <1>7, <1>9 DEF QueueAccounts, InTaskUpto, MadeUpto
  <2>4. queue'[q].stage # "listing" => ReachedUpto(q, queue[q].live - 1)'
    BY <1>0, <1>6, <1>10, <1>1 DEF ReachedUpto, MadeUpto
  <2>5. queue'[q].stage = "listing" => BehindUpto(queue[q].at)'
    <3>1. \A e : Behind(e) => Behind(e)'
      BY BehindStays
    <3>. QED  BY <1>0, <1>6, <1>9, <3>1 DEF QueueAccounts, BehindUpto, MadeUpto
  <2>. QED  BY <1>0, <1>6, <1>9, <2>1, <2>2, <2>3, <2>4, <2>5 DEF QueueAccounts
<1>12. ASSUME NEW r \in Task, r # q
       PROVE  QueueAccounts(r)'
  BY <1>0, <1>6, <1>12, QueueGoesOn DEF SolanaInv
<1>13. SocketAccounts'
  <2>1. head # Unknown
    BY <1>0 DEF Unknown
  <2>2. ws'.queue = q /\ (n = Unknown => ws'.acked = head)
        /\ (n # Unknown => ws'.acked = 0)
    BY <1>0, <1>2, <1>1, <2>1, CoveredSocket, Zenon
  <2>3. ws'.acked # Unknown
    BY <2>1, <2>2 DEF Unknown
  <2>. QED  BY <2>3 DEF SocketAccounts
<1>. QED  BY <1>0, <1>2, <1>11, <1>12, <1>13, PositionsStay DEF SolanaInv

LEMMA NotifyKeeps ==
    ASSUME TypeInv, SolanaInv, [Next]_vars, Orderly, UNCHANGED chainVars, Notify
    PROVE  SolanaInv'
<1>0. /\ CallShape /\ ChainShape /\ SolanaTypeOK /\ queue \in [Task -> Delivery]
      /\ head' = head /\ included' = included /\ head \in Nat
  BY DEF TypeInv, TypeOK, ServiceInv, EthInv, SolanaTypeOK, Delivery, ChainShape, chainVars
<1>1. /\ ws' = ws /\ ws.acked # Unknown /\ queue[ws.queue].notified < head
      /\ UNCHANGED <<lastSignature, checkpoint>>
  BY DEF Notify
<1>2. SocketAccounts'
  BY <1>1 DEF SocketAccounts
<1>3. ASSUME NEW r \in Task
      PROVE  QueueAccounts(r)'
  <2>1. CASE r # ws.queue
    <3>1. queue'[r] = queue[r]
      BY <1>0, <2>1 DEF Notify
    <3>. QED  BY <1>0, <3>1, QueueGoesOn DEF SolanaInv
  <2>2. CASE r = ws.queue
    <3>1. /\ queue[r].next \in Nat /\ queue[r].upto \in Nat /\ queue[r].live \in Nat
          /\ queue[r].notified \in Nat /\ queue[r].at \in Nat
      BY <1>0 DEF Delivery
    <3>2. PICK b : b = queue[r].notified + 1
      OBVIOUS
    <3>3. queue' = [queue EXCEPT ![r].notified = b]
      BY <1>0, <2>2, <3>2 DEF Notify
    <3>4. Becomes(r, queue[r].stage, queue[r].next, queue[r].upto, queue[r].live, b,
                  queue[r].at, queue[r].todo)
      BY <1>0, <3>3, SetTwo, Zenon
    <3>5. /\ queue'[r].stage = queue[r].stage /\ queue'[r].next = queue[r].next
          /\ queue'[r].upto = queue[r].upto /\ queue'[r].live = queue[r].live
          /\ queue'[r].notified = b /\ queue'[r].at = queue[r].at
          /\ queue'[r].todo = queue[r].todo
      BY <1>0, <3>4 DEF Becomes
    <3>6. b <= head
      BY <1>0, <1>1, <2>2, <3>1, <3>2
    <3>7. \A e : InTask(r, e) => InTask(r, e)'
      <4>1. \A e : e \in queue[r].todo => InTask(r, e)'
        BY <3>5 DEF InTask
      <4>. QED  BY <1>0, <4>1, TaskGoesOn
    <3>8. QueueAccounts(r)
      BY DEF SolanaInv
    <3>9. \A e : Behind(e) => Behind(e)'
      BY BehindStays
    <3>10. /\ queue'[r].stage = "listing" => BehindUpto(queue[r].at)'
           /\ queue'[r].stage = "handling" => InTaskUpto(r, queue[r].at)'
           /\ queue'[r].next <= queue'[r].upto => InTaskUpto(r, queue[r].next - 1)'
           /\ queue'[r].stage # "listing" => ReachedUpto(r, queue[r].live - 1)'
      BY <1>0, <3>5, <3>7, <3>8, <3>9
      DEF QueueAccounts, BehindUpto, InTaskUpto, ReachedUpto, MadeUpto, Reached
    <3>. QED  BY <1>0, <3>5, <3>6, <3>8, <3>10 DEF QueueAccounts
  <2>. QED  BY <2>1, <2>2
<1>. QED  BY <1>0, <1>1, <1>2, <1>3, PositionsStay DEF SolanaInv

LEMMA NextKeepsCheckpoint ==
    ASSUME TypeInv, SolanaInv, [Next]_vars
    PROVE  SolanaInv'
<1>0. CallShape /\ ChainShape /\ SolanaTypeOK
  BY DEF TypeInv, TypeOK, ServiceInv, EthInv
<1>1. CASE Orderly /\ UNCHANGED solanaVars
  BY <1>0, <1>1, OthersKeepCheckpoint
<1>2. ASSUME NEW q \in Task, Solana(q)
      PROVE  SolanaInv'
  <2>1. Orderly /\ UNCHANGED chainVars /\ SolanaStep(q)
    BY <1>2 DEF Solana, Orderly, Work
  <2>. QED
    BY <2>1, ConnectKeeps, ListBackfillKeeps, FetchNextKeeps, NextNotificationKeeps,
       HandOverKeeps, RecordSignatureKeeps DEF SolanaStep
<1>3. CASE Subscription
  <2>1. Orderly /\ UNCHANGED chainVars
    BY <1>3 DEF Subscription, Orderly, Work
  <2>. QED  BY <1>3, <2>1, SubscribedKeeps, NotifyKeeps DEF Subscription
<1>4. CASE Crash
  BY <1>0, <1>4, ClosingKeeps DEF Crash, SolanaRestart
<1>5. ASSUME NEW q \in Task, BackfillFails(q)
      PROVE  SolanaInv'
  <2>1. Orderly /\ \A r \in Task : queue'[r] = Drained \/ queue'[r] = queue[r]
    BY <1>5 DEF BackfillFails, Orderly, serviceVars
  <2>. QED  BY <1>0, <1>5, <2>1, ClosingKeeps DEF BackfillFails
<1>6. CASE Disconnect
  <2>1. Orderly /\ \A r \in Task : queue'[r] = Drained \/ queue'[r] = queue[r]
    BY <1>6 DEF Disconnect, Orderly, serviceVars
  <2>. QED  BY <1>0, <1>6, <2>1, ClosingKeeps DEF Disconnect
<1>7. ASSUME NEW kind \in Faults, Fault(kind)
      PROVE  SolanaInv'
  <2>1. ASSUME NEW p \in Task, PollError(p), UNCHANGED solanaVars
        PROVE  SolanaInv'
    BY <1>1, <2>1 DEF PollError, Orderly, serviceVars
  <2>. QED  BY <1>4, <1>5, <1>6, <1>7, <2>1 DEF Fault
<1>8. CASE UNCHANGED vars
  BY <1>1, <1>8 DEF vars, serviceVars, Orderly
<1>. QED
  BY <1>1, <1>2, <1>3, <1>7, <1>8 DEF Next, Work, Promise, Ethereum, Retry, Chain, Stellar,
                                      Orderly

(* The checkpoint of the Solana listener, in memory and on disk: whatever    *)
(* connections overlap, backfills fail or the process dies, it has only      *)
(* passed deposits that are accounted for, or that no connection delivered.  *)
THEOREM RelayerAccountsForTransactions == Spec => []SolanaAccounted
<1>1. TypeInv /\ SolanaInv /\ [Next]_vars => SolanaInv'
  BY NextKeepsCheckpoint
<1>2. SolanaInv => SolanaAccounted
  BY DEF SolanaInv, BehindUpto, MadeUpto, Behind, SolanaAccounted
<1>. QED  BY <1>1, <1>2, SolanaInitially, TypeInitially, TypeKeeps, PTL DEF Spec


-----------------------------------------------------------------------------
(* The relayer implements RelayedPayouts.                                    *)

(* What is being processed is not handled yet: marking a nonce ends every    *)
(* wait for its event.                                                       *)
Unhandled == \A c \in Caller : Processing(c) => call[c].event \notin nonces

Final == {e \in Event : Confirmed(e) /\ fate[e] = "payable"}

RelaysInv == TypeInv /\ PayInv /\ Unhandled

(* A step that marks a nonce leaves nobody processing its event.             *)
LEMMA MarkingEndsWaits ==
    ASSUME [Next]_vars, NEW e \in nonces' \ nonces, NEW c \in Caller, Processing(c)'
    PROVE  call'[c].event # e
<1>1. ASSUME NEW d \in Caller, MarkHandled(d)
      PROVE  call'[c].event # e
  <2>1. e = call[d].event
    BY <1>1 DEF MarkHandled
  <2>2. call'[c] = IF call[c].event = call[d].event THEN Idle ELSE call[c]
    BY <1>1 DEF MarkHandled, Finish
  <2>. QED  BY <2>1, <2>2 DEF Idle
<1>2. ~Restart
  BY DEF Restart, Idle
<1>3. ASSUME NEW d \in Caller, Promise(d)
      PROVE  MarkHandled(d)
  BY <1>3 DEF Promise, ServiceStep, Insufficient, Send, NotSent, Replayed, Refused, Accepted,
              AnswerLost, DeadLetter
<1>4. ASSUME NEW t \in Task, Ethereum(t) \/ Solana(t)
      PROVE  FALSE
  BY <1>4
  DEF Ethereum, EthStep, StartResolving, ResolveLatest, QueryLogs, NextLog, EndPoll, Solana,
      SolanaStep, Connect, ListBackfill, FetchNext, NextNotification, HandOver,
      recordSignature, HandleEvent, serviceVars
<1>5. ~(Subscription \/ Retry \/ Chain \/ Stellar \/ UNCHANGED vars)
  BY DEF Subscription, Subscribed, Notify, Retry, StartSweep, RetryNext, HandleEvent, Chain,
         Stellar, Apply, Expire, serviceVars, vars
<1>6. ASSUME NEW kind \in Faults, Fault(kind)
      PROVE  FALSE
  BY <1>2, <1>6 DEF Fault, PollError, BackfillFails, Disconnect, Crash, CrashBetweenSteps,
                    CrashInEnqueue, CrashInMark, serviceVars
<1>. QED  BY <1>1, <1>3, <1>4, <1>5, <1>6 DEF Next, Work

LEMMA UnhandledStays ==
    ASSUME CallShape, Unhandled, [Next]_vars
    PROVE  Unhandled'
<1> SUFFICES ASSUME NEW c \in Caller, Processing(c)'
             PROVE  call'[c].event \notin nonces
  BY MarkingEndsWaits DEF Unhandled
<1>1. CallMoves(c)
  BY CallSteps
<1>2. CASE call'[c] = call[c]
  BY <1>2 DEF Unhandled
<1>3. CASE call'[c] = Idle
  BY <1>3 DEF Idle
<1>4. ASSUME NEW e \in Event, ~Ignored(e),
             call'[c] \in {Awaiting(e, "joined"), Awaiting(e, "signing")}
      PROVE  call'[c].event \notin nonces
  BY <1>4 DEF Ignored, Awaiting
<1>5. CASE Send(c)
  <2>1. PICK first : call'[c] = [event |-> call[c].event, stage |-> "sent", sigs |-> first]
    BY <1>5, SendSigns
  <2>. QED  BY <1>5, <2>1 DEF Send, Submitting, Unhandled
<1>. QED  BY <1>1, <1>2, <1>3, <1>4, <1>5 DEF CallMoves

(* What is final and genuine stays so.                                       *)
LEMMA FinalGrows ==
    ASSUME TypeInv, [Next]_vars
    PROVE  Final \subseteq Final'
<1>1. ChainShape
  BY DEF TypeInv, EthInv
<1>2. ASSUME NEW e \in Final
      PROVE  e \in Final'
  <2>1. e \in Event /\ Good(e)
    BY DEF Final, Good, Extractable
  <2>2. Good(e)' /\ fate' = fate
    BY <1>1, <2>1, GoodStays, RecordsGrow
  <2>. QED  BY <2>1, <2>2 DEF Final, Good
<1>. QED  BY <1>2

LEMMA FinalFixed == UNCHANGED <<chainVars, settings>> => Final' = Final
  BY DEF chainVars, settings, Final, Confirmed

(* Each step of the service, the ledger and a crash is a step of the         *)
(* abstract relayer.                                                         *)
LEMMA ServiceRelays ==
    ASSUME RelaysInv, NEW c \in Caller, Promise(c)
    PROVE  [Payouts!RelayNext]_(Payouts!payoutVars)
<1> DEFINE e == call[c].event
<1>1. Processing(c)
  BY DEF Promise, ServiceStep, Insufficient, Send, NotSent, Replayed, Refused, Accepted,
         AnswerLost, Submitting
<1>2. e \in Event /\ Good(e) /\ fate[e] # "invalid" /\ e \notin nonces
  BY <1>1 DEF RelaysInv, PayInv, AwaitsGood, Unhandled, validateBridgeEvent
<1>3. UNCHANGED <<chainVars, settings>>
  BY DEF Promise, ServiceStep, Insufficient, Send, NotSent, Replayed, Refused, Accepted,
         AnswerLost, DeadLetter, MarkHandled
<1>4. Final' = Final
  BY <1>3, FinalFixed
<1>5. CASE Send(c)
  <2>1. fate[e] = "payable"
    <3>1. fate[e] \in Worths
      BY <1>2 DEF RelaysInv, TypeInv, ExtractsInv
    <3>. QED  BY <1>2, <1>5, <3>1 DEF Send, Good, Extractable, Worths, Worthless
  <2>2. e \in Final
    BY <1>2, <2>1 DEF Final, Good
  <2>3. Payouts!SendPayout(e)
    BY <1>2, <1>4, <1>5, <2>2 DEF Payouts!SendPayout, Send, Final
  <2>. QED  BY <1>2, <2>3 DEF Payouts!RelayNext
<1>6. CASE MarkHandled(c) /\ e \in submitted
  <2>1. Payouts!Handle(e)
    BY <1>4, <1>6 DEF Payouts!Handle, MarkHandled, stellarVars, Final
  <2>. QED  BY <1>2, <2>1 DEF Payouts!RelayNext
<1>7. Replayed(c) \/ Accepted(c) => MarkHandled(c) /\ e \in submitted
  BY DEF Replayed, Accepted, RelaysInv, TypeInv, ServiceInv, PayoutsSubmitted, SentIsSubmitted
<1>8. ASSUME NEW reason, DeadLetter(c, reason)
      PROVE  UNCHANGED Payouts!payoutVars
  BY <1>4, <1>8 DEF DeadLetter, stellarVars, Final, Payouts!payoutVars
<1>. QED
  BY <1>5, <1>6, <1>7, <1>8 DEF Promise, ServiceStep, Insufficient, NotSent, Refused, AnswerLost

LEMMA LedgerRelays ==
    ASSUME Stellar
    PROVE  Payouts!RelayNext
<1>1. PICK e \in Event : Apply(e) \/ Expire(e)
  BY DEF Stellar
<1>2. Final' = Final
  BY <1>1, FinalFixed DEF Stellar, Apply, Expire
<1>3. Payouts!Pay(e) \/ Payouts!Drop(e)
  BY <1>1, <1>2 DEF Apply, Expire, Final, Payouts!Pay, Payouts!Drop
<1>. QED  BY <1>3 DEF Payouts!RelayNext

LEMMA CrashRelays ==
    ASSUME RelaysInv, Crash
    PROVE  [Payouts!RelayNext]_(Payouts!payoutVars)
<1>1. UNCHANGED <<chainVars, settings, stellarVars>>
  BY DEF Crash, CrashBetweenSteps, CrashInEnqueue, CrashInMark, Restart
<1>2. Final' = Final
  BY <1>1, FinalFixed
<1>3. CASE nonces' = nonces
  BY <1>1, <1>2, <1>3 DEF stellarVars, Final, Payouts!payoutVars
<1>4. ASSUME NEW c \in Caller, CrashInMark(c)
      PROVE  Payouts!RelayNext
  <2>1. Processing(c)
    BY <1>4 DEF CrashInMark, Submitting
  <2>2. call[c].event \in Event
    BY <2>1 DEF RelaysInv, TypeInv, ServiceInv, CallShape
  <2>3. call[c].event \in submitted
    BY <1>4 DEF CrashInMark, RelaysInv, TypeInv, ServiceInv, PayoutsSubmitted, SentIsSubmitted
  <2>4. Payouts!Handle(call[c].event)
    BY <1>1, <1>2, <1>4, <2>3 DEF CrashInMark, stellarVars, Final, Payouts!Handle
  <2>. QED  BY <2>2, <2>4 DEF Payouts!RelayNext
<1>. QED  BY <1>3, <1>4 DEF Crash, CrashBetweenSteps, CrashInEnqueue

LEMMA StepRelays ==
    ASSUME RelaysInv, [Next]_vars
    PROVE  [Payouts!RelayNext]_(Payouts!payoutVars)
<1>1. CASE UNCHANGED <<stellarVars, nonces>>
  <2>1. Payouts!Finalise
    BY <1>1, FinalGrows DEF RelaysInv, stellarVars, Final, Payouts!Finalise
  <2>. QED  BY <2>1 DEF Payouts!RelayNext
<1>2. ASSUME NEW t \in Task, Ethereum(t) \/ Solana(t)
      PROVE  UNCHANGED <<stellarVars, nonces>>
  BY <1>2
  DEF Ethereum, EthStep, StartResolving, ResolveLatest, QueryLogs, NextLog, EndPoll, Solana,
      SolanaStep, Connect, ListBackfill, FetchNext, NextNotification, HandOver,
      recordSignature, HandleEvent, serviceVars
<1>3. Subscription \/ Retry \/ Chain \/ UNCHANGED vars => UNCHANGED <<stellarVars, nonces>>
  BY DEF Subscription, Subscribed, Notify, Retry, StartSweep, RetryNext, HandleEvent, Chain,
         serviceVars, vars
<1>4. ASSUME NEW kind \in Faults, Fault(kind), ~Crash
      PROVE  UNCHANGED <<stellarVars, nonces>>
  BY <1>4 DEF Fault, PollError, BackfillFails, Disconnect, serviceVars
<1>. QED
  BY <1>1, <1>2, <1>3, <1>4, ServiceRelays, LedgerRelays, CrashRelays DEF Next, Work

(* The nonce store, the in-flight map and the confirmation depth together:   *)
(* overlapping polls, retries, lost answers and crashes send a payout only   *)
(* for a final, genuine deposit that is neither paid nor marked, and mark a  *)
(* nonce only when its payout was sent.                                      *)
THEOREM RelayerRelaysPayouts == Spec => RelaysPayouts
<1>1. Init => RelaysInv /\ Payouts!RelayInit
  <2> SUFFICES ASSUME Init
               PROVE  Unhandled /\ Payouts!RelayInit
    BY TypeInitially, PayInitially DEF RelaysInv
  <2>1. Unhandled
    BY DEF Init, ServiceInit, Idle, Unhandled
  <2>2. Final = {}
    BY DEF Init, ChainInit, Final, Confirmed
  <2>. QED  BY <2>1, <2>2 DEF Init, ServiceInit, Final, Payouts!RelayInit
<1>2. RelaysInv /\ [Next]_vars => RelaysInv'
  BY TypeKeeps, PayKeeps, UnhandledStays DEF RelaysInv, TypeInv, ServiceInv
<1>3. RelaysInv /\ [Next]_vars => [Payouts!RelayNext]_(Payouts!payoutVars)
  BY StepRelays
<1>. QED  BY <1>1, <1>2, <1>3, PTL DEF Spec, RelaysPayouts, Payouts!RelaySpec
=============================================================================
