--------------------------- MODULE BridgeAuthEntry ---------------------------
(* Replay protection for authorization entries: a nonce per source, in turn  *)
(* and within a window of ledgers, beside the rest of the contract.          *)
EXTENDS OnboardingBridge

CONSTANTS
    AuthNonces,   \* nonces passed to verify_auth_entry
    Windows       \* ledger windows passed to it: [valid_after, valid_before]

ASSUME AuthConstants == AuthNonces \subseteq Nat

VARIABLES
    auth_nonce,        \* AuthNonce: the next nonce of each source
    used_auth_nonces   \* UsedAuthNonce: the (source, nonce) pairs consumed

authVars == <<auth_nonce, used_auth_nonces>>

AuthInit == auth_nonce = [s \in Sources |-> 0] /\ used_auth_nonces = {}

Within(window) ==
    ledger.sequence >= window.valid_after /\ ledger.sequence < window.valid_before

MarkAuthNonceUsed(source, nonce) ==
    /\ used_auth_nonces' = used_auth_nonces \cup {<<source, nonce>>}
    /\ auth_nonce' = [auth_nonce EXCEPT ![source] = IF nonce >= @ THEN nonce + 1 ELSE @]

\* Mutant: the used set alone protects from replay.
ConsumeInAnyOrder(source, nonce, window) ==
    /\ Within(window)
    /\ <<source, nonce>> \notin used_auth_nonces
    /\ MarkAuthNonceUsed(source, nonce)

ConsumeAuthNonce(source, nonce, window) ==
    /\ Within(window)
    /\ nonce = auth_nonce[source]
    /\ <<source, nonce>> \notin used_auth_nonces
    /\ MarkAuthNonceUsed(source, nonce)

VerifyAuthEntry(source, nonce, window) ==
    /\ CheckNotPaused
    /\ ConsumeAuthNonce(source, nonce, window)
    /\ UNCHANGED vars

AuthEntries ==
    \E source \in Sources, nonce \in AuthNonces, window \in Windows :
        VerifyAuthEntry(source, nonce, window)

(* The whole contract, these entries included.                               *)
AuthSpec ==
    /\ Init /\ AuthInit
    /\ [][(Next /\ UNCHANGED authVars) \/ AuthEntries]_<<vars, authVars>>

-----------------------------------------------------------------------------
(* query_auth_nonce answers "the lowest nonce value that has not yet been    *)
(* consumed": no nonce is skipped, and the one it names can be consumed.     *)
AuthNonceIsLowestUnused ==
    \A s \in Sources :
        LET unused == {n \in 0..auth_nonce[s] : <<s, n>> \notin used_auth_nonces}
        IN  unused = {auth_nonce[s]}
=============================================================================
