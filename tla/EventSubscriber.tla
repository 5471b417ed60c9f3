--------------------------- MODULE EventSubscriber ---------------------------
(* EventSubscriber (sdk/src/events.ts): setInterval polls getEvents from the *)
(* cursor and dispatches what it returns. A tick does not wait for the last  *)
(* one, so fetches overlap.                                                  *)
EXTENDS Integers, Sequences, FiniteSets

CONSTANTS
    Fetch,       \* fetches that may be in flight together
    Limit,       \* EventSubscriberConfig.limit
    MaxEvents,   \* bound on the contract's events
    Unreadable   \* the events that parseEvent cannot read

ASSUME SubscriberAssumption ==
    Limit \in Nat \ {0} /\ MaxEvents \in Nat /\ Unreadable \subseteq 1 .. MaxEvents

VARIABLES
    emitted,     \* the contract's events so far, 1 .. emitted
    listening,   \* the timer runs, from the first on() to destroy()
    startedAt,   \* config.startLedger: 0, before every event, or Now
    cursor,      \* Now, or the paging token of an event
    fetches,     \* [Fetch -> a request from a cursor, or its answer]
    dispatched,  \* the events that listeners were given
    origin       \* ghost: events up to here may precede what 'now' was answered with

subscriberVars == <<emitted, listening, startedAt, cursor, fetches, dispatched, origin>>

(* No startLedger: the node starts at its current ledger.                    *)
Now == -1

NoFetch == [stage |-> "none", from |-> 0, page |-> <<>>]

SubscriberTypeOK ==
    /\ emitted \in 0 .. MaxEvents /\ listening \in {"unused", "yes", "destroyed"}
    /\ startedAt \in {0, Now} /\ cursor \in Now .. emitted /\ dispatched \subseteq 1 .. emitted
    /\ origin \in 0 .. emitted
    /\ \A f \in Fetch : fetches[f].stage \in {"none", "asked", "answered"}

SubscriberInit(start) ==
    /\ emitted = 0 /\ listening = "unused"
    /\ startedAt = start /\ cursor = start
    /\ fetches = [f \in Fetch |-> NoFetch] /\ dispatched = {} /\ origin = 0

Emit ==
    /\ emitted < MaxEvents /\ emitted' = emitted + 1
    /\ UNCHANGED <<listening, startedAt, cursor, fetches, dispatched, origin>>

(* on: the first listener starts the timer.                                  *)
on ==
    /\ listening = "unused" /\ listening' = "yes"
    /\ UNCHANGED <<emitted, startedAt, cursor, fetches, dispatched, origin>>

destroy ==
    /\ listening = "yes" /\ listening' = "destroyed"
    /\ UNCHANGED <<emitted, startedAt, cursor, fetches, dispatched, origin>>

(* fetchAndDispatch, up to its request: a timer's tick, or poll().           *)
fetchAndDispatch(f) ==
    /\ listening = "yes" /\ fetches[f].stage = "none"
    /\ fetches' = [fetches EXCEPT ![f] = [stage |-> "asked", from |-> cursor, page |-> <<>>]]
    /\ UNCHANGED <<emitted, listening, startedAt, cursor, dispatched, origin>>

(* The node answers with what follows the cursor or, without one, with the   *)
(* events of its current ledger, which are the last ones or none.            *)
getEvents(f) ==
    /\ fetches[f].stage = "asked"
    /\ \E from \in IF fetches[f].from = Now THEN 0 .. emitted ELSE {fetches[f].from} :
          LET count == IF emitted - from > Limit THEN Limit ELSE emitted - from
          IN  fetches' = [fetches EXCEPT ![f].stage = "answered",
                                         ![f].page = [i \in 1 .. count |-> from + i]]
    /\ UNCHANGED <<emitted, listening, startedAt, cursor, dispatched, origin>>

Page(f) == {fetches[f].page[i] : i \in DOMAIN fetches[f].page}

(* An event whose topics or value cannot be read is passed over.             *)
parseEvent(events) == events \ Unreadable

(* After destroy() nobody listens.                                           *)
dispatch(events) ==
    dispatched' = IF listening = "yes" THEN dispatched \cup events ELSE dispatched

(* What precedes the first answer to a request from 'now' was not asked for. *)
MoveOrigin(f) ==
    origin' = IF fetches[f].from = Now /\ fetches[f].page # <<>> /\ fetches[f].page[1] > origin
              THEN fetches[f].page[1] - 1 ELSE origin

(* Slips: the cursor goes to the latest event, or stays where it is.         *)
CursorAtLatest(f) ==
    /\ fetches[f].stage = "answered"
    /\ dispatch(parseEvent(Page(f)))
    /\ cursor' = emitted /\ MoveOrigin(f)
    /\ fetches' = [fetches EXCEPT ![f] = NoFetch]
    /\ UNCHANGED <<emitted, listening, startedAt>>

CursorKept(f) ==
    /\ fetches[f].stage = "answered"
    /\ dispatch(parseEvent(Page(f))) /\ MoveOrigin(f)
    /\ fetches' = [fetches EXCEPT ![f] = NoFetch]
    /\ UNCHANGED <<emitted, listening, startedAt, cursor>>

(* The rest of fetchAndDispatch: the events are dispatched, and the cursor   *)
(* moves to the last of them, wherever another answer has put it.            *)
Advance(f) ==
    /\ fetches[f].stage = "answered"
    /\ dispatch(parseEvent(Page(f))) /\ MoveOrigin(f)
    /\ cursor' = IF fetches[f].page = <<>> THEN cursor
                 ELSE fetches[f].page[Len(fetches[f].page)]
    /\ fetches' = [fetches EXCEPT ![f] = NoFetch]
    /\ UNCHANGED <<emitted, listening, startedAt>>

(* The request rejects: the error goes to the error listeners.               *)
dispatchError(f) ==
    /\ fetches[f].stage = "asked"
    /\ fetches' = [fetches EXCEPT ![f] = NoFetch]
    /\ UNCHANGED <<emitted, listening, startedAt, cursor, dispatched, origin>>
=============================================================================
