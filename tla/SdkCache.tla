------------------------------ MODULE SdkCache ------------------------------
(* CachedContractClient (sdk/src/cachedBridge.ts) over InMemoryCache         *)
(* (sdk/src/cache.ts): cached reads of the contract's configuration, and the *)
(* invalidations that its own mutations cause.                               *)
EXTENDS SdkClient, SequencesExt

CONSTANTS
    CacheKey,        \* the cached reads in use, of CACHE_KEYS
    Reader,          \* concurrent reads by the application
    MaxEntries,      \* InMemoryCacheOptions.maxEntries
    Ttl,             \* how long an entry lives
    SweepInterval,   \* InMemoryCacheOptions.sweepIntervalMs
    MaxTime,         \* bound on the clock
    MaxVersion       \* bound on the configuration's changes

CACHE_KEYS == {"getFee", "getFeeCollector", "getAdmin", "isInitialized"}

ASSUME CacheAssumption ==
    /\ CacheKey \subseteq CACHE_KEYS /\ MaxEntries \in Nat \ {0}
    /\ {Ttl, SweepInterval, MaxTime, MaxVersion} \subseteq Nat

VARIABLES
    now,         \* the clock
    version,     \* the contract's configuration, as the number of its changes
    store,       \* the entries, least recently used first
    lastSweep,
    reading,     \* [Reader -> how far its read is]
    following,   \* the transactions whose confirmation is awaited in the background
    confirmed,   \* the configuration when such a confirmation last arrived
    age          \* how long the last value answered from the cache had been in it

cacheVars == <<now, version, store, lastSweep, reading, following, confirmed, age>>

NotReading == [stage |-> "idle", key |-> None, version |-> 0, late |-> FALSE]

(* lastSweep is 0 in the code, long before the clock's first value.          *)
CacheInit ==
    /\ now = 0 /\ version = 0 /\ store = <<>> /\ lastSweep = -SweepInterval
    /\ reading = [r \in Reader |-> NotReading]
    /\ following = {} /\ confirmed = 0 /\ age = 0

CacheTypeOK ==
    /\ now \in 0 .. MaxTime /\ lastSweep \in -SweepInterval .. now /\ version \in Nat
    /\ confirmed \in 0 .. version /\ following \subseteq sent
    /\ Len(store) <= MaxEntries
    /\ \A i, j \in DOMAIN store : store[i].key = store[j].key => i = j
    /\ \A r \in Reader : reading[r].version \in 0 .. version

-----------------------------------------------------------------------------
(* InMemoryCache.                                                            *)
Entries(key) == {i \in DOMAIN store : store[i].key = key}

Expired(entry) == now > entry.expiresAt

(* The entries of s at some of its places, in their order.                   *)
Only(s, places) ==
    LET kept[n \in 0 .. Len(s)] ==
            IF n = 0 THEN <<>>
            ELSE IF n \in places THEN Append(kept[n - 1], s[n]) ELSE kept[n - 1]
    IN  kept[Len(s)]

Without(s, key) == Only(s, {i \in DOMAIN s : s[i].key # key})

delete(keys) == store' = Only(store, {i \in DOMAIN store : store[i].key \notin keys})

sweepExpired(s) ==
    IF SweepInterval > 0 /\ now - lastSweep < SweepInterval
    THEN s ELSE Only(s, {i \in DOMAIN s : ~Expired(s[i])})

(* A slip: the bound is off by one.                                          *)
EvictsLate(s) ==
    IF Len(s) > MaxEntries + 1 THEN SubSeq(s, Len(s) - MaxEntries, Len(s)) ELSE s

evictOverflow(s) ==
    IF Len(s) > MaxEntries THEN SubSeq(s, Len(s) - MaxEntries + 1, Len(s)) ELSE s

set(entry) ==
    /\ store' = evictOverflow(sweepExpired(Append(Without(store, entry.key), entry)))
    /\ lastSweep' = IF SweepInterval > 0 /\ now - lastSweep < SweepInterval
                    THEN lastSweep ELSE now

-----------------------------------------------------------------------------
(* A slip: a hit renews the entry's life with its recency.                   *)
LifeRenewed(r, key) ==
    /\ reading[r].stage = "idle"
    /\ \E i \in Entries(key) :
          /\ ~Expired(store[i])
          /\ store' = Append(Without(store, key), [store[i] EXCEPT !.expiresAt = now + Ttl])
          /\ age' = now - store[i].filled
    /\ UNCHANGED <<now, version, lastSweep, reading, following, confirmed>>

(* getFee, getFeeCollector, getAdmin and isInitialized: get, and on a miss   *)
(* one simulation, answered by the node and then filled in.                  *)
Hit(r, key) ==
    /\ reading[r].stage = "idle"
    /\ \E i \in Entries(key) :
          /\ ~Expired(store[i])
          /\ store' = Append(Without(store, key), store[i])
          /\ age' = now - store[i].filled
    /\ UNCHANGED <<now, version, lastSweep, reading, following, confirmed>>

Miss(r, key) ==
    /\ reading[r].stage = "idle"
    /\ \A i \in Entries(key) : Expired(store[i])
    /\ store' = Without(store, key)
    /\ reading' = [reading EXCEPT ![r] = [stage |-> "asked", key |-> key, version |-> 0, late |-> FALSE]]
    /\ UNCHANGED <<now, version, lastSweep, following, confirmed, age>>

Simulate(r) ==
    /\ reading[r].stage = "asked"
    /\ reading' = [reading EXCEPT ![r].stage = "answered", ![r].version = version]
    /\ UNCHANGED <<now, version, store, lastSweep, following, confirmed, age>>

Fill(r) ==
    /\ reading[r].stage = "answered"
    /\ set([key |-> reading[r].key, version |-> reading[r].version,
            late |-> reading[r].late, filled |-> now, expiresAt |-> now + Ttl])
    /\ reading' = [reading EXCEPT ![r] = NotReading]
    /\ UNCHANGED <<now, version, following, confirmed, age>>

(* The simulation failed or returned no value: the read throws.              *)
NoValue(r) ==
    /\ reading[r].stage = "asked"
    /\ reading' = [reading EXCEPT ![r] = NotReading]
    /\ UNCHANGED <<now, version, store, lastSweep, following, confirmed, age>>

(* CachedContractClient.invalidateCache.                                     *)
invalidateCache(keys) ==
    /\ delete(keys)
    /\ UNCHANGED <<now, version, lastSweep, reading, following, confirmed, age>>

(* The last part of submitMutation: on PENDING every key is deleted, and the *)
(* confirmation is awaited in the background.                                *)
Submitted(c) ==
    IF Method(c).cached /\ call'[c].stage = "returned" /\ call'[c].results[1].status = "pending"
    THEN /\ delete(CACHE_KEYS)
         /\ following' = following \cup {call[c].tx}
    ELSE UNCHANGED <<store, following>>

submitMutation(c) ==
    /\ Answer(c) /\ Submitted(c)
    /\ UNCHANGED <<now, version, lastSweep, reading, confirmed, age>>

(* A slip: the deletion at submission is thought to be enough.               *)
DeletedAtSubmission(tx) ==
    /\ tx \in following /\ tx \in succeeded \cup reverted
    /\ following' = following \ {tx} /\ confirmed' = version
    /\ reading' = [r \in Reader |-> [reading[r] EXCEPT !.late = TRUE]]
    /\ UNCHANGED <<now, version, store, lastSweep, age>>

invalidateAfterConfirmation(tx) ==
    /\ tx \in following /\ tx \in succeeded \cup reverted
    /\ delete(CACHE_KEYS)
    /\ following' = following \ {tx} /\ confirmed' = version
    /\ reading' = [r \in Reader |-> [reading[r] EXCEPT !.late = TRUE]]
    /\ UNCHANGED <<now, version, lastSweep, age>>

(* The polls are used up, or one of them failed: best effort ends.           *)
GiveUp(tx) ==
    /\ tx \in following /\ following' = following \ {tx}
    /\ UNCHANGED <<now, version, store, lastSweep, reading, confirmed, age>>

(* A mutation that is included changes the configuration, and so may others. *)
Effect(tx) ==
    /\ version' = IF Method(tx.call).cached /\ tx \in succeeded' \ succeeded
                  THEN version + 1 ELSE version
    /\ UNCHANGED <<now, store, lastSweep, reading, following, confirmed, age>>

OtherChange ==
    /\ version < MaxVersion /\ version' = version + 1
    /\ UNCHANGED <<now, store, lastSweep, reading, following, confirmed, age>>

Tick ==
    /\ now < MaxTime /\ now' = now + 1
    /\ UNCHANGED <<version, store, lastSweep, reading, following, confirmed, age>>
=============================================================================
