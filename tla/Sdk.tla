-------------------------------- MODULE Sdk --------------------------------
(* An application that uses the SDK: calls of its methods, cached reads of   *)
(* the configuration, and a subscription to the contract's events.           *)
EXTENDS SdkCache, EventSubscriber

CONSTANT
    Applications   \* [requests, start, uses]: the requests, the subscription's start,
                   \* and the parts of the SDK that are used

(* Only a batch has more than one chunk.                                     *)
ASSUME ApplicationConstants ==
    \A app \in Applications :
        /\ app.start \in {0, Now} /\ DOMAIN app.requests \subseteq Call
        /\ \A c \in DOMAIN app.requests :
              LET r == app.requests[c] IN
              /\ r.method \in Mutations \cup Queries
              /\ r.source \in Account /\ r.signer \in Account
              /\ r.chunks \in Nat \ {0} /\ (r.chunks = 1 \/ r.method.splits)

(* An account's nonces are numbered from the first one that a call is given, *)
(* so only one of its calls is given any.                                    *)
ASSUME NoncesOfOneCall ==
    \A app \in Applications : \A c, d \in DOMAIN app.requests :
        LET r == app.requests[c]
            s == app.requests[d]
        IN  "nonce" \in r.given \cap s.given /\ Payer(r) = Payer(s) => c = d

VARIABLE uses      \* the parts of the SDK that the application uses

vars == <<clientVars, ledgerVars, cacheVars, subscriberVars, uses>>

TypeOK == ClientTypeOK /\ CacheTypeOK /\ SubscriberTypeOK

Init ==
    /\ \E app \in Applications :
          /\ request = app.requests /\ uses = app.uses
          /\ SubscriberInit(app.start)
    /\ ClientInit /\ CacheInit

Begin(c) == Start(c) /\ UNCHANGED <<cacheVars, subscriberVars, uses>>

Proceed(c) == c \in Calls /\ submitMutation(c) /\ UNCHANGED <<subscriberVars, uses>>

Disturb(c) ==
    /\ "faults" \in uses
    /\ Fault(c) /\ UNCHANGED <<cacheVars, subscriberVars, uses>>

Ledger ==
    /\ \E tx \in pool : (Include(tx) \/ Expire(tx)) /\ Effect(tx)
    /\ UNCHANGED <<subscriberVars, uses>>

Cache ==
    /\ "cache" \in uses
    /\ \/ \E r \in Reader, key \in CacheKey : Hit(r, key) \/ Miss(r, key)
       \/ \E r \in Reader : Simulate(r) \/ Fill(r) \/ NoValue(r)
       \/ \E keys \in SUBSET CacheKey : keys # {} /\ invalidateCache(keys)
       \/ \E tx \in following : invalidateAfterConfirmation(tx) \/ GiveUp(tx)
       \/ OtherChange \/ Tick
    /\ UNCHANGED <<clientVars, ledgerVars, subscriberVars, uses>>

Poll ==
    /\ \E f \in Fetch : fetchAndDispatch(f) \/ Advance(f)
    /\ UNCHANGED <<clientVars, ledgerVars, cacheVars, uses>>

Events ==
    /\ \E f \in Fetch : getEvents(f)
    /\ UNCHANGED <<clientVars, ledgerVars, cacheVars, uses>>

Subscriber ==
    /\ "events" \in uses
    /\ on \/ destroy \/ Emit \/ \E f \in Fetch : dispatchError(f)
    /\ UNCHANGED <<clientVars, ledgerVars, cacheVars, uses>>

Next ==
    \/ \E c \in Calls : Begin(c) \/ Proceed(c) \/ Disturb(c)
    \/ Ledger \/ Cache \/ Subscriber \/ Poll \/ Events

(* A request is answered, if nothing disturbs it; a transaction is included  *)
(* or its time bound passes; the subscriber's timer ticks, and the node,     *)
(* asked for events again and again, answers again and again.                *)
Fairness ==
    /\ \A c \in Call : WF_vars(Proceed(c))
    /\ WF_vars(Ledger) /\ WF_vars(Poll) /\ SF_vars(Events)

Spec == Init /\ [][Next]_vars /\ Fairness

-----------------------------------------------------------------------------
TransactionsOf(c, chunk) == {tx \in sent : tx.call = c /\ tx.chunk = chunk}

(* The tx builder of every method against the contract's interface:          *)
(* well-formed inputs are encoded to what the entry point takes, except that *)
(* getWhitelistedAssets, whose inputs toScVals cannot convert, throws before *)
(* its first request, and it alone.                                          *)
EncodesAbi ==
    \A c \in Calls : request[c].bad = {} =>
        /\ call[c].stage \in {"prepareTransaction", "simulateTransaction"}
               => Conforms(Method(c).fn, Encoded(c))
        /\ call[c].stage # "idle" => (call[c].step = 0 <=> Method(c) = getWhitelistedAssets)

(* retry.ts: "a retry must NEVER rebuild the transaction with a fresh        *)
(* sequence number". However often requests and answers are lost, a call     *)
(* takes effect once.                                                        *)
EffectOnce ==
    \A c \in Calls : \A chunk \in 1 .. request[c].chunks :
        Cardinality(TransactionsOf(c, chunk)) <= 1

(* What a caller is told: 'success' is said of an applied transaction only,  *)
(* and 'pending' of one that the network accepted.                           *)
ReportsAreTrue ==
    \A c \in Calls : \A i \in DOMAIN call[c].results :
        /\ call[c].results[i].status = "success" => call[c].results[i].hash \in succeeded
        /\ call[c].results[i].status = "pending" => call[c].results[i].hash \in sent

(* batchFundCAddresses with a nonce: a chunk is prepared when the contract   *)
(* expects its nonce, neither earlier nor later.                             *)
NonceInTurn ==
    \A c \in Calls :
        call[c].stage = "prepareTransaction" /\ Sequential(c)
            => nonce[AccountOf(c)] = call[c].chunk - 1

(* ... and after a chunk that was reported as failed nothing more is sent.   *)
FailedChunkIsLast ==
    \A c \in Calls : \A i, j \in DOMAIN call[c].results :
        Sequential(c) /\ i < j /\ call[c].results[i].status = "failed"
            => TransactionsOf(c, j) = {} /\ call[c].results[j].status = "failed"

(* A batch whose inputs are accepted returns a result for every chunk.       *)
ResultPerChunk ==
    \A c \in Calls :
        call[c].stage = "returned" /\ ~IsQuery(c) /\ ~Rejected(c)
            => Len(call[c].results) = request[c].chunks

Batches ==
    INSTANCE SubmittedBatches WITH
        ordered  <- {c \in Calls : Sequential(c)},
        accepted <- {<<tx.call, tx.chunk>> : tx \in sent},
        applied  <- {<<tx.call, tx.chunk>> : tx \in succeeded},
        told     <- [c \in Calls |->
                        [i \in DOMAIN call[c].results |-> call[c].results[i].status]]

(* The retries, the nonce chaining of batchFundCAddresses and the            *)
(* confirmation loop together: whatever is lost or fails, chunks are         *)
(* accepted once and in order, and reports are true and stand.               *)
SubmitsBatches == Batches!BatchSpec

(* Every span is ended when its call is over, unless a call of the same      *)
(* method took its place.                                                    *)
SpansEnd ==
    \A c \in Calls : Over(c) /\ Traced(c) =>
        \/ c \in ended
        \/ \E d \in Calls \ {c} : Method(d).name = Method(c).name /\ call[d].stage # "idle"

(* Every call returns or throws, whatever requests fail; only the            *)
(* confirmation of a transaction that no ledger included is waited for       *)
(* without end.                                                              *)
CallsEnd ==
    \A c \in Call :
        c \in Calls /\ call[c].stage # "idle" ~>
            /\ c \in Calls
            /\ Over(c) \/ call[c].tx \in sent \ (pool \cup succeeded \cup reverted)

(* A cached value is served no longer than its time to live, however often   *)
(* it is read.                                                               *)
CacheAge == age <= Ttl

(* Once a mutation of this client is confirmed, an older value is in the     *)
(* cache only if its read was under way at that moment.                      *)
OwnWritesShow ==
    \A i \in DOMAIN store : store[i].version < confirmed => store[i].late

(* Every event up to the cursor was dispatched, whatever order the answers   *)
(* of overlapping fetches arrive in. Only what 'now' left out is excepted.   *)
NoEventSkipped ==
    listening = "yes" =>
        \A e \in (origin + 1 .. cursor) \ Unreadable : e \in dispatched

(* Every event after the first ledger asked for reaches the listeners.       *)
EventsArrive ==
    \A e \in (1 .. MaxEvents) \ Unreadable :
        listening = "yes" /\ startedAt = 0 /\ e <= emitted ~>
            e \in dispatched \/ listening = "destroyed"
=============================================================================
