---------------------------- MODULE RelayerConfig ----------------------------
(* The relayer's configuration: the environment validateEnv accepts, the     *)
(* signing nodes main() builds from it, and what each node answers when it   *)
(* is asked to sign a payload.                                               *)
EXTENDS Naturals, Sequences, FiniteSets, SequencesExt

CONSTANTS
    Key,      \* ed25519 public keys
    None      \* an absent value

(* Options of a listener: all of them are required once the first is set.    *)
EthOptions    == {"ETH_RPC_URL", "ETH_BRIDGE_CONTRACT", "ETH_EVENT_TOPIC", "ETH_CHAIN_ID"}
SolanaOptions == {"SOLANA_WS_URL", "SOLANA_PROGRAM_ID", "SOLANA_HTTP_URL", "SOLANA_CHAIN_ID"}

(* An environment: the threshold, the in-process keys, the signer services   *)
(* (each by the key it holds) with the public keys pinned for them, and the  *)
(* listener options that are set.                                            *)
Environment ==
    [threshold : Nat, private_keys : Seq(Key), signer_urls : Seq(Key),
     signer_pubkeys : Seq(Key), options : SUBSET (EthOptions \cup SolanaOptions)]

\* Mutant: the threshold is not checked.
ThresholdNotChecked(env) ==
    /\ env.private_keys # <<>> \/ env.signer_urls # <<>>
    /\ "ETH_RPC_URL" \in env.options => EthOptions \subseteq env.options
    /\ "SOLANA_WS_URL" \in env.options => SolanaOptions \subseteq env.options

validateEnv(env) ==
    /\ env.threshold >= 1
    /\ env.private_keys # <<>> \/ env.signer_urls # <<>>
    /\ "ETH_RPC_URL" \in env.options => EthOptions \subseteq env.options
    /\ "SOLANA_WS_URL" \in env.options => SolanaOptions \subseteq env.options

Watches(env, listener) == listener \in env.options

(* Signer services are preferred over in-process keys; a service beyond the  *)
(* list of pinned keys gets an empty one.                                    *)
Nodes(env) ==
    IF env.signer_urls # <<>>
    THEN [i \in DOMAIN env.signer_urls |->
            [custody |-> "remote", key |-> env.signer_urls[i],
             expectedPubkey |-> IF i \in DOMAIN env.signer_pubkeys
                                THEN env.signer_pubkeys[i] ELSE None]]
    ELSE [i \in DOMAIN env.private_keys |->
            [custody |-> "local", key |-> env.private_keys[i], expectedPubkey |-> None]]

(* The signer service answers a POST to /sign that carries its token.        *)
SignerReply(key, authorization) ==
    IF authorization # "Bearer" THEN [status |-> 401, pubkey |-> None]
    ELSE [status |-> 200, pubkey |-> key]

(* What the relayer's request carries besides the content type: nothing.     *)
RequestAuthorization == "none"

(* A remote signature counts if the service answers within the timeout, the  *)
(* answer is a success, and its key is the pinned one.                       *)
requestRemoteSignature(node, answers) ==
    LET reply == SignerReply(node.key, RequestAuthorization) IN
    IF /\ node.expectedPubkey # None
       /\ answers
       /\ reply.status = 200
       /\ reply.pubkey = node.expectedPubkey
    THEN reply.pubkey ELSE None

signWithNode(node, answers) ==
    IF node.custody = "remote" THEN requestRemoteSignature(node, answers)
    ELSE node.key

\* Mutant: repeated keys count.
RepeatedKeysCount(env, services) ==
    [i \in DOMAIN Nodes(env) |-> signWithNode(Nodes(env)[i], i \in services)]

(* One answer per node, without the failed ones and without repeated keys,   *)
(* in the order of the nodes.                                                *)
CollectSignatures(env, services) ==
    LET nodes   == Nodes(env)
        answers == [i \in DOMAIN nodes |-> signWithNode(nodes[i], i \in services)]
        First(i) == /\ answers[i] # None
                    /\ \A j \in 1..(i - 1) : answers[j] # answers[i]
        kept    == {i \in DOMAIN nodes : First(i)}
    IN  [k \in 1..Cardinality(kept) |->
            answers[CHOOSE i \in kept : Cardinality({j \in kept : j <= i}) = k]]
=============================================================================
