------------------------ MODULE BridgeAuthEntryProofs ------------------------
(* The counter of authorization nonces and the set of consumed ones agree.   *)
EXTENDS BridgeAuthEntry, TLAPS

AuthTypeOK == auth_nonce \in [Sources -> Nat]

(* The inductive invariant: exactly the nonces below the counter are used.   *)
AuthInv ==
    /\ AuthTypeOK
    /\ \A s \in Sources : \A n \in Nat : <<s, n>> \in used_auth_nonces <=> n < auth_nonce[s]

LEMMA AuthInitially == AuthInit => AuthInv
  BY SMT DEF AuthInit, AuthInv, AuthTypeOK

LEMMA VerifyAuthEntryKeeps ==
    ASSUME AuthInv, NEW source \in Sources, NEW nonce \in AuthNonces,
           NEW window \in Windows, VerifyAuthEntry(source, nonce, window)
    PROVE  AuthInv'
<1>1. nonce \in Nat /\ nonce = auth_nonce[source]
  BY AuthConstants DEF VerifyAuthEntry, ConsumeAuthNonce
<1>2. auth_nonce' = [auth_nonce EXCEPT ![source] = nonce + 1]
  <2>1. nonce >= auth_nonce[source]
    BY <1>1
  <2>. QED  BY <2>1 DEF VerifyAuthEntry, ConsumeAuthNonce, MarkAuthNonceUsed
<1>3. used_auth_nonces' = used_auth_nonces \cup {<<source, nonce>>}
  BY DEF VerifyAuthEntry, ConsumeAuthNonce, MarkAuthNonceUsed
<1>4. AuthTypeOK'
  BY <1>1, <1>2 DEF AuthInv, AuthTypeOK
<1>5. ASSUME NEW s \in Sources, NEW n \in Nat
      PROVE  <<s, n>> \in used_auth_nonces' <=> n < auth_nonce'[s]
  <2>1. CASE s = source
    BY <1>1, <1>2, <1>3, <2>1, SMT DEF AuthInv, AuthTypeOK
  <2>2. CASE s # source
    BY <1>2, <1>3, <2>2, SMT DEF AuthInv, AuthTypeOK
  <2>. QED  BY <2>1, <2>2
<1>. QED  BY <1>4, <1>5 DEF AuthInv

LEMMA AuthLowest == AuthInv => AuthNonceIsLowestUnused
<1>. SUFFICES ASSUME AuthInv, NEW s \in Sources
              PROVE  {n \in 0..auth_nonce[s] : <<s, n>> \notin used_auth_nonces}
                       = {auth_nonce[s]}
  BY DEF AuthNonceIsLowestUnused
<1>1. auth_nonce[s] \in Nat
  BY DEF AuthInv, AuthTypeOK
<1>2. \A n \in 0..auth_nonce[s] : <<s, n>> \notin used_auth_nonces <=> n = auth_nonce[s]
  BY <1>1, SMT DEF AuthInv
<1>. QED  BY <1>1, <1>2, SMT

(* query_auth_nonce names the lowest nonce that has not been consumed, after *)
(* any interleaving of verify_auth_entry with every other entry point.       *)
THEOREM AuthNonceCorrect == AuthSpec => []AuthNonceIsLowestUnused
<1>1. Init /\ AuthInit => AuthInv
  BY AuthInitially
<1>2. AuthInv /\ [(Next /\ UNCHANGED authVars) \/ AuthEntries]_<<vars, authVars>> => AuthInv'
  <2>. SUFFICES ASSUME AuthInv,
                       [(Next /\ UNCHANGED authVars) \/ AuthEntries]_<<vars, authVars>>
                PROVE  AuthInv'
    OBVIOUS
  <2>1. CASE UNCHANGED authVars
    BY <2>1 DEF authVars, AuthInv, AuthTypeOK
  <2>2. CASE AuthEntries
    BY <2>2, VerifyAuthEntryKeeps DEF AuthEntries
  <2>. QED  BY <2>1, <2>2
<1>. QED  BY <1>1, <1>2, AuthLowest, PTL DEF AuthSpec
=============================================================================
