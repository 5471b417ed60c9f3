------------------------------ MODULE SdkClient ------------------------------
(* Calls of the SDK's methods: the requests each makes through the retrying  *)
(* provider (sdk/src/retry.ts), what the network does with the transactions, *)
(* the result the caller is given, and the tracing spans around it.          *)
EXTENDS SdkMethods, Integers, FiniteSetsExt, TLC

CONSTANTS
    Call,         \* the calls an application may make, each at most once
    Account,      \* the accounts that pay for transactions
    MaxRetries,   \* config.retry.maxRetries
    None

(* A transaction is one call's, or one of its chunks', with an account's     *)
(* sequence number.                                                          *)
Transaction == [call : Call, chunk : Nat, account : Account, seq : Nat]

ASSUME ClientAssumption == MaxRetries \in Nat /\ None \notin Transaction

VARIABLES
    request,      \* for the calls the application makes: the method and its inputs
    call,         \* how far each of them is
    spans,        \* the method names whose span is open, and whose it is
    ended,        \* the calls whose own span was ended
    sequence,     \* [Account -> the sequence number its last transaction used]
    nonce,        \* [Account -> the contract's next nonce for it]
    pool,         \* accepted transactions that wait for a ledger
    sent,         \* every transaction the network ever accepted
    succeeded,    \* the ones that were applied
    reverted      \* the ones that were included and failed

ledgerVars == <<sequence, nonce, pool, sent, succeeded, reverted>>
clientVars == <<request, call, spans, ended>>

Calls == DOMAIN request

Method(c) == request[c].method

IsQuery(c) == Method(c).query

Requests(c) == Method(c).requests

VIEW_RPC_METHODS ==
    {"getAccount", "simulateTransaction", "prepareTransaction", "getTransaction",
     "getLedgerEntries"}

STATE_CHANGING_RPC_METHODS == {"sendTransaction"}

(* resolveViewOptions, resolveStateOptions.                                  *)
Retries(rpc) ==
    CASE rpc \in VIEW_RPC_METHODS           -> MaxRetries
      [] rpc \in STATE_CHANGING_RPC_METHODS -> Min({MaxRetries, 1})
      [] OTHER                              -> 0

NotStarted == [stage |-> "idle", step |-> 0, attempt |-> 0, chunk |-> 1, tx |-> None, results |-> <<>>]

Over(c) == call[c].stage \in {"returned", "thrown"}

Payer(r) == IF r.method.account = "source" THEN r.source ELSE r.signer

AccountOf(c) == Payer(request[c])

Stages == {"idle", "returned", "thrown", "getAccount", "prepareTransaction", "sendTransaction",
           "simulateTransaction", "getFeeStats", "getLedgerEntries", "getTransaction"}

ClientTypeOK ==
    /\ Calls \subseteq Call
    /\ \A c \in Calls :
          /\ call[c].stage \in Stages
          /\ call[c].attempt \in 0 .. Retries(call[c].stage)
          /\ call[c].chunk \in 1 .. request[c].chunks
          /\ call[c].tx = None \/ call[c].tx \in [call : {c}, chunk : {call[c].chunk},
                                                  account : {AccountOf(c)}, seq : Nat]
    /\ ended \subseteq Call
    /\ sequence \in [Account -> Nat] /\ nonce \in [Account -> Nat]
    /\ pool \cup succeeded \cup reverted \subseteq sent

ClientInit ==
    /\ call = [c \in Calls |-> NotStarted]
    /\ spans = {} /\ ended = {}
    /\ sequence = [a \in Account |-> 0] /\ nonce = [a \in Account |-> 0]
    /\ pool = {} /\ sent = {} /\ succeeded = {} /\ reverted = {}

-----------------------------------------------------------------------------
(* The spans of createOpenTelemetryHooks, kept by method name, as            *)
(* withTransactionHooks opens and closes them. The queries and the cached    *)
(* client have none.                                                         *)
Traced(c) == ~IsQuery(c) /\ ~Method(c).cached

SameName(c) == {s \in spans : Traced(c) /\ Method(s).name = Method(c).name}

OpenSpan(c) == spans' = (spans \ SameName(c)) \cup {s \in {c} : Traced(s)}

CloseSpan(c) == spans' = spans \ SameName(c) /\ ended' = ended \cup SameName(c)

-----------------------------------------------------------------------------
(* The result of a submission. The hash is empty, None, when no answer to it *)
(* arrived.                                                                  *)
Result(hash, status) == [hash |-> hash, status |-> status]

Update(c, changes) ==
    call' = [call EXCEPT ![c] = [field \in DOMAIN @ |->
                IF field \in DOMAIN changes THEN changes[field] ELSE @[field]]]

Finish(c, stage, results) ==
    /\ Update(c, [stage |-> stage, attempt |-> 0, results |-> results])
    /\ CloseSpan(c)

GoTo(c, step) ==
    /\ Update(c, [stage |-> Requests(c)[step], step |-> step, attempt |-> 0])
    /\ UNCHANGED <<spans, ended>>

(* batchFundCAddresses: the chunks after the current one, and whether they   *)
(* depend on it through the nonce.                                           *)
More(c) == call[c].chunk < request[c].chunks

Sequential(c) == Method(c).splits /\ "nonce" \in request[c].given

(* A slip: the rounding loses the last chunk.                                *)
LastChunkForgotten(c) ==
    [i \in 1 .. request[c].chunks - call[c].chunk - 1 |-> Result(None, "failed")]

NotSubmitted(c) == [i \in 1 .. request[c].chunks - call[c].chunk |-> Result(None, "failed")]

NextChunk(c, results) ==
    /\ Update(c, [stage |-> "getAccount", step |-> 1, attempt |-> 0, tx |-> None,
                  chunk |-> call[c].chunk + 1, results |-> results])
    /\ UNCHANGED <<spans, ended>>

Wait(c, results) == Update(c, [stage |-> "getTransaction", attempt |-> 0, results |-> results])

(* Slips: the next chunk is sent without waiting, or after a failure.        *)
NotAwaited(c, result) ==
    LET results == Append(call[c].results, result)
    IN  IF Sequential(c) /\ More(c) /\ result.status = "pending"
        THEN NextChunk(c, results) ELSE Finish(c, "returned", results \o NotSubmitted(c))

GoesOn(c, result) ==
    LET results == Append(call[c].results, result)
    IN  IF Sequential(c) /\ More(c) THEN NextChunk(c, results) ELSE Finish(c, "returned", results)

Record(c, result) ==
    LET results == Append(call[c].results, result)
        pending == result.status = "pending"
    IN  \/ Method(c).waits /\ pending /\ Wait(c, results) /\ CloseSpan(c)
        \/ ~Method(c).waits /\ Sequential(c) /\ More(c) /\ pending
           /\ Wait(c, results) /\ UNCHANGED <<spans, ended>>
        \/ Sequential(c) /\ More(c) /\ ~pending
           /\ Finish(c, "returned", results \o NotSubmitted(c))
        \/ Method(c).splits /\ ~Sequential(c) /\ More(c) /\ NextChunk(c, results)
        \/ ~(Method(c).waits /\ pending) /\ ~(Method(c).splits /\ More(c))
           /\ Finish(c, "returned", results)

(* A slip: the hooks are not told of the failure.                            *)
SpanLeftOpen(c) ==
    /\ Update(c, [stage |-> "returned", attempt |-> 0,
                  results |-> [call[c].results EXCEPT ![Len(call[c].results)].status = "failed"]
                              \o NotSubmitted(c)])
    /\ UNCHANGED <<spans, ended>>

(* The confirmation failed, or could not be had.                             *)
NotConfirmed(c) ==
    LET last    == Len(call[c].results)
        results == [call[c].results EXCEPT ![last].status = "failed"] \o NotSubmitted(c)
    IN  \/ Method(c).waits /\ Update(c, [stage |-> "returned", attempt |-> 0, results |-> results])
           /\ UNCHANGED <<spans, ended>>
        \/ ~Method(c).waits /\ Finish(c, "returned", results)

(* A request failed for good.                                                *)
Fails(c) ==
    LET confirming == call[c].stage = "getTransaction"
        throws     == IsQuery(c) \/ Method(c).cached
    IN  \/ confirming /\ NotConfirmed(c)
        \/ ~confirming /\ throws /\ Finish(c, "thrown", <<>>)
        \/ ~confirming /\ ~throws /\ Record(c, Result(None, "failed"))

(* A slip: the retry builds the transaction anew.                            *)
Rebuilt(c) ==
    /\ Update(c, [attempt |-> call[c].attempt + 1] @@
                 IF call[c].stage = "sendTransaction" THEN [stage |-> "getAccount", step |-> 1]
                 ELSE [step |-> call[c].step])
    /\ UNCHANGED <<spans, ended>>

(* withRetry: a failure is retried while attempts are left, unless           *)
(* isRetryableRpcError takes it for a permanent one.                         *)
Retry(c) == Update(c, [attempt |-> call[c].attempt + 1]) /\ UNCHANGED <<spans, ended>>

withRetry(c) == (call[c].attempt < Retries(call[c].stage) /\ Retry(c)) \/ Fails(c)

-----------------------------------------------------------------------------
(* The network.                                                              *)
NonceFits(c, tx) == "nonce" \in request[c].given => nonce[tx.account] = tx.chunk - 1

Replies(c, tx) ==
    IF \/ tx \in sent \/ tx.account # request[c].signer
       \/ tx.seq # sequence[tx.account] + 1
       \/ \E other \in pool : other.account = tx.account
    THEN {"ERROR"} ELSE {"PENDING", "TRY_AGAIN_LATER"}

Deliver(tx, reply) ==
    /\ pool' = pool \cup {t \in {tx} : reply = "PENDING"}
    /\ sent' = sent \cup {t \in {tx} : reply = "PENDING"}
    /\ UNCHANGED <<sequence, nonce, succeeded, reverted>>

Include(tx) ==
    /\ tx \in pool /\ pool' = pool \ {tx}
    /\ sequence' = [sequence EXCEPT ![tx.account] = tx.seq]
    /\ \/ /\ NonceFits(tx.call, tx)
          /\ succeeded' = succeeded \cup {tx} /\ UNCHANGED reverted
          /\ nonce' = [nonce EXCEPT ![tx.account] =
                           IF "nonce" \in request[tx.call].given THEN @ + 1 ELSE @]
       \/ reverted' = reverted \cup {tx} /\ UNCHANGED <<succeeded, nonce>>
    /\ UNCHANGED <<sent, clientVars>>

(* The transaction's time bound passes, config.timeout after it was built.   *)
Expire(tx) ==
    /\ tx \in pool /\ pool' = pool \ {tx}
    /\ UNCHANGED <<sequence, nonce, sent, succeeded, reverted, clientVars>>

-----------------------------------------------------------------------------
Rejected(c) == request[c].bad \cap Method(c).checked # {}

Convertible(c) == request[c].bad \subseteq Method(c).raw /\ Method(c) \notin EncodedTwice

(* A query converts its inputs before its first request, batchFundCAddresses *)
(* these two, outside its try.                                               *)
Unconverted(c) ==
    \/ IsQuery(c) /\ ~Convertible(c)
    \/ Method(c).splits /\ request[c].bad \cap {"nonce", "deadline"} # {}

Start(c) ==
    /\ call[c].stage = "idle"
    /\ \/ /\ ~Rejected(c) /\ ~Unconverted(c)
          /\ Update(c, [stage |-> Requests(c)[1], step |-> 1])
          /\ OpenSpan(c) /\ UNCHANGED ended
       \/ /\ Rejected(c) \/ Unconverted(c)
          /\ IF IsQuery(c) \/ Method(c).cached \/ ~Rejected(c)
             THEN Update(c, [stage |-> "thrown"])
             ELSE Update(c, [stage |-> "returned", results |-> <<Result(None, "failed")>>])
          /\ spans' = spans \ SameName(c)
          /\ ended' = ended \cup {s \in {c} : Traced(s)}
    /\ UNCHANGED <<request, ledgerVars>>

(* The arguments as the transaction carries them.                            *)
Encoded(c) ==
    [i \in DOMAIN Method(c).args |->
        LET arg == Method(c).args[i]
        IN  [name |-> arg.name,
             type |-> CASE arg.name \in request[c].bad -> "malformed"
                        [] arg.type = "Option<u64>"     ->
                               IF arg.name \in request[c].given THEN "u64" ELSE "void"
                        [] arg.type = "Option<Address>" ->
                               IF arg.name \in request[c].given THEN "Address" ELSE "void"
                        [] OTHER                        -> arg.type]]

Build(c) ==
    IF Convertible(c)
    THEN /\ Update(c, [stage |-> Requests(c)[2], step |-> 2, attempt |-> 0,
                       tx |-> [call |-> c, chunk |-> call[c].chunk, account |-> AccountOf(c),
                               seq |-> sequence[AccountOf(c)] + 1]])
         /\ UNCHANGED <<spans, ended>>
    ELSE Fails(c)

(* The simulation runs against the last ledger.                              *)
Simulated(c) ==
    /\ Conforms(Method(c).fn, Encoded(c))
    /\ request[c].refusal = "none"
    /\ call[c].tx # None => NonceFits(c, call[c].tx)

(* Slips: any status but NOT_FOUND is a success; only SUCCESS ends the loop. *)
FoundIsSuccess(c) ==
    IF call[c].tx \notin succeeded \cup reverted
    THEN Update(c, [attempt |-> 0]) /\ UNCHANGED <<spans, ended>>
    ELSE Finish(c, "returned", [call[c].results EXCEPT ![Len(call[c].results)].status = "success"])

OnlySuccessEnds(c) ==
    IF call[c].tx \notin succeeded
    THEN Update(c, [attempt |-> 0]) /\ UNCHANGED <<spans, ended>>
    ELSE Finish(c, "returned", [call[c].results EXCEPT ![Len(call[c].results)].status = "success"])

Confirmation(c) ==
    LET tx   == call[c].tx
        last == Len(call[c].results)
    IN  \/ tx \notin succeeded \cup reverted
           /\ Update(c, [attempt |-> 0]) /\ UNCHANGED <<spans, ended>>
        \/ tx \in reverted /\ NotConfirmed(c)
        \/ tx \in succeeded /\ Sequential(c) /\ NextChunk(c, call[c].results)
        \/ /\ tx \in succeeded /\ Method(c).waits
           /\ Update(c, [stage |-> "returned", attempt |-> 0,
                         results |-> [call[c].results EXCEPT ![last].status = "success"]])
           /\ UNCHANGED <<spans, ended>>

(* A query's last answer is its value.                                       *)
Value(c) ==
    IF call[c].step = Len(Requests(c)) THEN Finish(c, "returned", <<>>) ELSE GoTo(c, call[c].step + 1)

Read(c) ==
    /\ \/ call[c].stage = "getAccount" /\ call[c].step = 1 /\ Build(c)
       \/ call[c].stage = "getAccount" /\ call[c].step = 2 /\ GoTo(c, 3)
       \/ call[c].stage = "prepareTransaction"
          /\ IF Simulated(c) /\ Method(c).needs \subseteq request[c].given
             THEN GoTo(c, call[c].step + 1) ELSE Fails(c)
       \/ call[c].stage = "simulateTransaction"
          /\ IF Simulated(c) \/ (Method(c).optional /\ request[c].refusal = "unset")
             THEN Value(c) ELSE Fails(c)
       \/ call[c].stage \in {"getFeeStats", "getLedgerEntries"} /\ Value(c)
       \/ call[c].stage = "getTransaction" /\ Confirmation(c)
    /\ UNCHANGED <<request, ledgerVars>>

Send(c, reply) ==
    /\ call[c].stage = "sendTransaction"
    /\ reply \in Replies(c, call[c].tx) /\ Deliver(call[c].tx, reply)
    /\ Record(c, Result(call[c].tx, IF reply = "PENDING" THEN "pending" ELSE "failed"))
    /\ UNCHANGED request

(* The request or its answer is lost, or the node is unavailable.            *)
Lost(c) ==
    /\ ~Over(c) /\ call[c].stage # "idle"
    /\ withRetry(c) /\ UNCHANGED <<request, ledgerVars>>

AnswerLost(c, reply) ==
    /\ call[c].stage = "sendTransaction"
    /\ reply \in Replies(c, call[c].tx) /\ Deliver(call[c].tx, reply)
    /\ withRetry(c) /\ UNCHANGED request

Answer(c) == Read(c) \/ \E reply \in {"PENDING", "ERROR", "TRY_AGAIN_LATER"} : Send(c, reply)

Fault(c) == Lost(c) \/ \E reply \in {"PENDING", "ERROR", "TRY_AGAIN_LATER"} : AnswerLost(c, reply)
=============================================================================
