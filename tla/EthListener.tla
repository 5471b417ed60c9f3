----------------------------- MODULE EthListener -----------------------------
(* The Ethereum listener: polls started by a timer that does not wait for    *)
(* the poll before, over a cursor in memory and its copy in the block store. *)
EXTENDS RelayerService

CONSTANT MaxBlockRange   \* blocks per eth_getLogs request; the code's 2_000

ASSUME RangeConstant == MaxBlockRange \in Nat \ {0}

VARIABLES
    poll,     \* each poll: [stage, from, to, todo]
    cursor,   \* fromBlock: the next block to query, or Latest
    stored,   \* the block store's copy of it
    origin    \* ghost: the block 'latest' was last resolved to, or the stored one

Latest == -1

ethVars == <<poll, cursor, stored, origin>>

NoPoll == [stage |-> "idle", from |-> 0, to |-> 0, todo |-> {}]


EthTypeOK ==
    /\ poll \in [Task -> [stage : {"idle", "resolving", "handling"},
                          from : Nat, to : Int, todo : SUBSET Event]]
    /\ {cursor, stored, origin} \subseteq Nat \cup {Latest}

(* An earlier run has stored the first block, or none.                       *)
EthInit(resumes) ==
    /\ poll = [p \in Task |-> NoPoll]
    /\ stored = (IF resumes THEN 1 ELSE Latest)
    /\ cursor = stored /\ origin = stored

Larger(a, b) == IF a >= b THEN a ELSE b

(* A tick starts a poll beside the ones that still run.                      *)
Ticks(p) ==
    /\ Watches(env, "ETH_RPC_URL")
    /\ \E q \in Task : poll[q].stage = "idle"
    /\ p = CHOOSE q \in Task : poll[q].stage = "idle"

(* pollOnce, at a timer tick that finds 'latest': the poll will resolve it.  *)
StartResolving(p) ==
    /\ Ticks(p) /\ cursor = Latest
    /\ poll' = [poll EXCEPT ![p].stage = "resolving"]
    /\ UNCHANGED <<cursor, stored, origin, serviceVars>>

(* getBlockNumber on a fresh install: start from the head.                   *)
ResolveLatest(p) ==
    /\ poll[p].stage = "resolving"
    /\ stored' = head /\ cursor' = head /\ origin' = head
    /\ poll' = [poll EXCEPT ![p] = NoPoll]
    /\ UNCHANGED serviceVars

(* getBlockNumber failed.                                                    *)
PollError(p) ==
    /\ poll[p].stage = "resolving"
    /\ poll' = [poll EXCEPT ![p] = NoPoll]
    /\ UNCHANGED <<cursor, stored, origin, serviceVars>>

\* Mutant: logs of the newest blocks are acted on.
NotHeldBack == head

SafeToBlock == Larger(head - Confirmations, 0)

(* The request names the bridge's address and topic, so that logs of other   *)
(* contracts are not in the answer; decode makes nothing of a malformed one. *)
Matches(e) == fate[e] # "forged"
Decodable(e) == fate[e] # "malformed"

Logs(from, to) == {e \in EventsIn(from, to) : Matches(e) /\ Decodable(e)}

\* Mutant: the newest confirmed block is not queried.
NewestLeftOut(p) ==
    /\ Ticks(p) /\ cursor # Latest /\ cursor < SafeToBlock
    /\ LET to == Lesser(cursor + MaxBlockRange - 1, SafeToBlock - 1)
       IN  poll' = [poll EXCEPT ![p] = [stage |-> "handling", from |-> cursor, to |-> to,
                                        todo |-> Logs(cursor, to)]]
    /\ UNCHANGED <<cursor, stored, origin, serviceVars>>

(* pollOnce otherwise: the cursor is read after the head, and the answer to  *)
(* getLogs over confirmed blocks does not depend on when it comes. A poll    *)
(* that finds nothing confirmed, or whose requests fail, changes nothing.    *)
QueryLogs(p) ==
    /\ Ticks(p) /\ cursor # Latest /\ cursor <= SafeToBlock
    /\ LET to == Lesser(cursor + MaxBlockRange - 1, SafeToBlock)
       IN  poll' = [poll EXCEPT ![p] = [stage |-> "handling", from |-> cursor, to |-> to,
                                        todo |-> Logs(cursor, to)]]
    /\ UNCHANGED <<cursor, stored, origin, serviceVars>>

(* The next log of the answer is handed over, and awaited.                   *)
NextLog(p, e) ==
    /\ poll[p].stage = "handling"
    /\ e \in poll[p].todo
    /\ poll' = [poll EXCEPT ![p].todo = @ \ {e}]
    /\ HandleEvent(p, e)
    /\ UNCHANGED <<cursor, stored, origin, sweep>>

\* Mutant: the last handler is not awaited.
NotAwaited(p) ==
    /\ poll[p].stage = "handling" /\ poll[p].todo = {}
    /\ cursor' = poll[p].to + 1 /\ stored' = cursor'
    /\ poll' = [poll EXCEPT ![p] = NoPoll]
    /\ UNCHANGED <<origin, serviceVars>>

(* All logs are handled: the cursor moves past the range, wherever another   *)
(* poll has put it, and is saved.                                            *)
EndPoll(p) ==
    /\ poll[p].stage = "handling"
    /\ poll[p].todo = {} /\ call[p].stage = "idle"
    /\ cursor' = poll[p].to + 1 /\ stored' = cursor'
    /\ poll' = [poll EXCEPT ![p] = NoPoll]
    /\ UNCHANGED <<origin, serviceVars>>

EthStep(p) ==
    \/ StartResolving(p) \/ ResolveLatest(p) \/ QueryLogs(p)
    \/ \E e \in Event : NextLog(p, e)
    \/ EndPoll(p)

(* The constructor loads the stored block.                                   *)
EthRestart ==
    /\ poll' = [p \in Task |-> NoPoll]
    /\ cursor' = stored
    /\ UNCHANGED <<stored, origin>>
=============================================================================
