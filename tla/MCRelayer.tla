------------------------------ MODULE MCRelayer ------------------------------
(* Small relayers: one that polls Ethereum, one that follows Solana, and     *)
(* ones whose signing nodes cannot reach the threshold.                      *)
EXTENDS Relayer

CONSTANTS d1, d2, k1, k2

Local(keys, threshold, options) ==
    [threshold |-> threshold, private_keys |-> keys, signer_urls |-> <<>>,
     signer_pubkeys |-> <<>>, options |-> options]

OneKey(options) == Local(<<k1>>, 1, options)

Scenario(v, a, b, resumes, faultsToCome) ==
    [env |-> v, fate |-> [e \in Event |-> IF e = d1 THEN a ELSE b],
     resumes |-> resumes, faults |-> faultsToCome]

(* Some have repeated keys; the relayer does not start without a threshold,  *)
(* or with half a listener.                                                  *)
SomeScenarios ==
    { Scenario(OneKey(EthOptions), "payable", "invalid", TRUE, {"crash"}),
      Scenario(OneKey(EthOptions), "payable", "forged", FALSE, {"failed poll"}),
      Scenario(Local(<<k1, k1>>, 2, EthOptions), "payable", "payable", TRUE, {}),
      Scenario(Local(<<k1, k1, k2>>, 2, SolanaOptions), "payable", "refused", FALSE, {}),
      Scenario(OneKey(SolanaOptions), "payable", "forged", FALSE, {"disconnect"}),
      Scenario(OneKey(SolanaOptions), "payable", "malformed", TRUE, {"failed backfill"}),
      Scenario(OneKey(SolanaOptions), "payable", "malformed", FALSE, {"crash"}),
      Scenario(Local(<<k1>>, 0, EthOptions), "payable", "payable", FALSE, {}),
      Scenario(OneKey({"SOLANA_WS_URL"}), "payable", "payable", FALSE, {}) }

(* Operators run signer services and pin their keys.                         *)
RemoteSigners ==
    { Scenario([threshold |-> 1, private_keys |-> <<>>, signer_urls |-> <<k1, k2>>,
                signer_pubkeys |-> <<k1, k2>>, options |-> EthOptions],
               "payable", "payable", FALSE, {}) }

(* adr/ADR-007 and the comment on RelayerNodeConfig: independent signer      *)
(* services sign the payload. An event is dead-lettered for want of signers  *)
(* only if fewer pinned services than the threshold are up.                  *)
SignersSuffice ==
    \A e \in DOMAIN dlq : dlq[e].reason = "insufficient" =>
        Cardinality({Nodes(env)[i].expectedPubkey : i \in reachable}) < env.threshold
=============================================================================
