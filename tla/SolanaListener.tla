--------------------------- MODULE SolanaListener ----------------------------
(* The Solana listener: a WebSocket subscription that reconnects, a delivery *)
(* queue per connection that starts with a backfill, and the signature of    *)
(* the last processed transaction, in memory and on disk. Signatures are the *)
(* positions of the source chain, 0 for none.                                *)
EXTENDS RelayerService

VARIABLES
    ws,        \* the connection: [open, queue, listed, acked, notified]
    queue,     \* delivery queues: [stage, next, upto, live, notified, at, todo]
    lastSignature,   \* in memory
    checkpoint,      \* in the signature store
    extracts,  \* the events in the log of a transaction, by the deposits it made
    missed     \* ghost: deposits no connection ever delivers

solanaVars == <<ws, queue, lastSignature, checkpoint, extracts, missed>>

Unknown == -1

Closed  == [open |-> FALSE, queue |-> None, listed |-> Unknown, acked |-> Unknown]
Drained == [stage |-> "idle", next |-> 1, upto |-> 0, live |-> 1, notified |-> 0,
            at |-> 0, todo |-> {}]

(* The log of a transaction: lines that open and close a program's frame,    *)
(* and bridge_fund lines, of which a forged one is printed by a program the  *)
(* bridge calls. A line holds its deposit and what that is worth. No program *)
(* prints a text that reads like the runtime's own line, "invoke [1]".       *)
Line(kind, program, e, worth) ==
    [kind |-> kind, program |-> program, event |-> e, worth |-> worth]
Opens(program)  == Line("invoke", program, None, None)
Closes(program) == Line("end", program, None, None)

DepositLines(e, worth) ==
    IF worth = "forged" THEN <<Opens("other"), Line("fund", "other", e, worth), Closes("other")>>
    ELSE <<Line("fund", "bridge", e, worth)>>

TransactionLog(deposits, worths) ==
    LET made == SetToSeq(deposits)
        printed[n \in 0..Len(made)] ==
            IF n = 0 THEN <<Opens("bridge")>>
            ELSE printed[n - 1] \o DepositLines(made[n], worths[made[n]])
    IN  Append(printed[Len(made)], Closes("bridge"))

(* decodeLine                                                                *)
decodeLine(line) == IF line.worth = "malformed" THEN {} ELSE {line.event}

(* One line of extractBridgeFundEvents: frames are pushed and popped, and a  *)
(* bridge_fund line counts while the bridge program is on top.               *)
ReadLine(found, line) ==
    CASE line.kind = "invoke" -> [found EXCEPT !.stack = Append(@, line.program)]
      [] line.kind = "end" ->
            LET idx == SelectLastInSeq(found.stack, LAMBDA x : x = line.program)
            IN  IF idx = 0 THEN found
                ELSE [found EXCEPT !.stack = RemoveAt(@, idx)]
      [] line.kind = "fund" ->
            IF found.stack # <<>> /\ Last(found.stack) = "bridge"
            THEN [found EXCEPT !.events = @ \cup decodeLine(line)]
            ELSE found

NothingRead == [stack |-> <<>>, events |-> {}]

ReadLines(lines) ==
    LET read[n \in 0..Len(lines)] ==
            IF n = 0 THEN NothingRead ELSE ReadLine(read[n - 1], lines[n])
    IN  read[Len(lines)]

extractBridgeFundEvents(lines) == ReadLines(lines).events

-----------------------------------------------------------------------------
SolanaTypeOK ==
    /\ ws \in [open : BOOLEAN, queue : Task \cup {None}, listed : Int, acked : Int]
    /\ queue \in [Task -> [stage : {"idle", "listing", "ready", "handling"},
                           next : Nat, upto : Nat, live : Nat, notified : Nat,
                           at : Nat, todo : SUBSET Event]]
    /\ lastSignature \in Nat /\ checkpoint \in Nat /\ missed \subseteq Event
    /\ extracts \in [SUBSET Event -> SUBSET Event]

(* An earlier run has stored the first signature, or none.                   *)
SolanaInit(resumes) ==
    /\ ws = Closed /\ queue = [q \in Task |-> Drained]
    /\ checkpoint = (IF resumes THEN 1 ELSE 0)
    /\ lastSignature = checkpoint /\ missed = {}
    /\ extracts = [deposits \in SUBSET Event |->
                     extractBridgeFundEvents(TransactionLog(deposits, fate))]

-----------------------------------------------------------------------------
EventsOf(position) == extracts[EventsIn(position, position)]

-----------------------------------------------------------------------------
(* Ghost: what is finalised after the backfill listed the chain and before   *)
(* the subscription is active is missed. Both being known, it is settled.    *)
Covered(listed, acked) ==
    IF listed = Unknown \/ acked = Unknown
    THEN /\ ws' = [ws EXCEPT !.listed = listed, !.acked = acked]
         /\ UNCHANGED missed
    ELSE /\ ws' = [ws EXCEPT !.listed = 0, !.acked = 0]
         /\ missed' = missed \cup EventsIn(listed + 1, acked)

(* A queue without tasks: its backfill and its notifications are processed.  *)
Free(q) ==
    /\ queue[q].stage \in {"idle", "ready"}
    /\ queue[q].next > queue[q].upto /\ queue[q].live > queue[q].notified

(* onopen: a new queue takes over and starts with a backfill, which without  *)
(* a checkpoint lists nothing. The queue before may still be running.        *)
Connect(q) ==
    /\ Watches(env, "SOLANA_WS_URL")
    /\ ~ws.open
    /\ \E r \in Task : Free(r)
    /\ q = CHOOSE r \in Task : Free(r)
    /\ ws' = [open |-> TRUE, queue |-> q, acked |-> Unknown,
              listed |-> IF lastSignature = 0 THEN 0 ELSE Unknown]
    /\ queue' = [r \in Task |->
          IF r = q THEN [Drained EXCEPT !.stage = IF lastSignature = 0 THEN "ready" ELSE "listing",
                                        !.at = lastSignature]
          ELSE IF Free(r) THEN Drained ELSE queue[r]]
    /\ UNCHANGED <<lastSignature, checkpoint, missed, extracts, serviceVars>>

(* The server starts to notify of what is finalised from now on.             *)
Subscribed ==
    /\ ws.open /\ ws.acked = Unknown
    /\ Covered(ws.listed, head)
    /\ queue' = [queue EXCEPT ![ws.queue].live = head + 1, ![ws.queue].notified = head]
    /\ UNCHANGED <<lastSignature, checkpoint, extracts, serviceVars>>

(* onmessage: the notification of the next transaction joins the queue.      *)
Notify ==
    /\ ws.open /\ ws.acked # Unknown
    /\ queue[ws.queue].notified < head
    /\ queue' = [queue EXCEPT ![ws.queue].notified = @ + 1]
    /\ UNCHANGED <<ws, lastSignature, checkpoint, missed, extracts, serviceVars>>

(* backfill has listed the signatures newer than the last one, which another *)
(* queue may have moved since the request.                                   *)
ListBackfill(q) ==
    LET since == IF lastSignature > queue[q].at THEN lastSignature ELSE queue[q].at IN
    /\ queue[q].stage = "listing"
    /\ queue' = [queue EXCEPT ![q].stage = "ready", ![q].at = 0,
                              ![q].next = IF since = head THEN 1 ELSE since + 1,
                              ![q].upto = IF since = head THEN 0 ELSE head]
    /\ IF ws.queue = q THEN Covered(head, ws.acked) ELSE UNCHANGED <<ws, missed>>
    /\ UNCHANGED <<lastSignature, checkpoint, extracts, serviceVars>>

(* The next transaction of the backfill, oldest first, is fetched.           *)
FetchNext(q) ==
    /\ queue[q].stage = "ready" /\ queue[q].next <= queue[q].upto
    /\ LET last == queue[q].next = queue[q].upto IN
       queue' = [queue EXCEPT ![q].stage = "handling", ![q].at = queue[q].next,
                              ![q].next = IF last THEN 1 ELSE @ + 1,
                              ![q].upto = IF last THEN 0 ELSE @,
                              ![q].todo = EventsOf(queue[q].next)]
    /\ UNCHANGED <<ws, lastSignature, checkpoint, missed, extracts, serviceVars>>

(* processNotification, once the backfill is done.                           *)
NextNotification(q) ==
    /\ queue[q].stage = "ready" /\ queue[q].next > queue[q].upto
    /\ queue[q].live <= queue[q].notified
    /\ queue' = [queue EXCEPT ![q].stage = "handling", ![q].at = queue[q].live,
                              ![q].live = @ + 1,
                              ![q].todo = EventsOf(queue[q].live)]
    /\ UNCHANGED <<ws, lastSignature, checkpoint, missed, extracts, serviceVars>>

HandOver(q, e) ==
    /\ queue[q].stage = "handling"
    /\ e \in queue[q].todo
    /\ queue' = [queue EXCEPT ![q].todo = @ \ {e}]
    /\ HandleEvent(q, e)
    /\ UNCHANGED <<ws, lastSignature, checkpoint, missed, extracts, sweep>>

\* Mutant: the handler is not awaited.
RecordedEarly(q) ==
    /\ queue[q].stage = "handling" /\ queue[q].todo = {}
    /\ checkpoint' = queue[q].at /\ lastSignature' = queue[q].at
    /\ queue' = [queue EXCEPT ![q].stage = "ready", ![q].at = 0]
    /\ UNCHANGED <<ws, missed, extracts, serviceVars>>

recordSignature(q) ==
    /\ queue[q].stage = "handling"
    /\ queue[q].todo = {} /\ call[q].stage = "idle"
    /\ checkpoint' = queue[q].at /\ lastSignature' = queue[q].at
    /\ queue' = [queue EXCEPT ![q].stage = "ready", ![q].at = 0]
    /\ UNCHANGED <<ws, missed, extracts, serviceVars>>

(* A backfill request fails: the queue's remaining tasks are skipped and the *)
(* socket is closed, also when it belongs to a newer connection.             *)
BackfillFails(q) ==
    /\ \/ queue[q].stage = "listing"
       \/ queue[q].stage = "ready" /\ queue[q].next <= queue[q].upto
    /\ ws' = Closed
    /\ queue' = [r \in Task |-> IF r = q \/ Free(r) THEN Drained ELSE queue[r]]
    /\ UNCHANGED <<lastSignature, checkpoint, missed, extracts, serviceVars>>

(* onclose, which leads to a reconnect.                                      *)
Disconnect ==
    /\ ws.open
    /\ ws' = Closed
    /\ queue' = [r \in Task |-> IF Free(r) THEN Drained ELSE queue[r]]
    /\ UNCHANGED <<lastSignature, checkpoint, missed, extracts, serviceVars>>

SolanaStep(q) ==
    \/ Connect(q) \/ ListBackfill(q) \/ FetchNext(q) \/ NextNotification(q)
    \/ \E e \in Event : HandOver(q, e)
    \/ recordSignature(q)

(* The constructor loads the stored signature.                               *)
SolanaRestart ==
    /\ ws' = Closed /\ queue' = [q \in Task |-> Drained]
    /\ lastSignature' = checkpoint
    /\ UNCHANGED <<checkpoint, extracts, missed>>
=============================================================================
