------------------------------- MODULE MCSdk -------------------------------
(* Small applications of the SDK.                                            *)
EXTENDS Sdk

CONSTANTS c1, c2, a1, a2

Request(method, given, bad) ==
    [method |-> method, given |-> given, bad |-> bad, chunks |-> 1,
     source |-> a1, signer |-> a1, refusal |-> "none"]

Batch(given, chunks) == [Request(batchFundCAddresses, given, {}) EXCEPT !.chunks = chunks]

Application(requests, start, parts) == [requests |-> requests, start |-> start, uses |-> parts]

Options(method) ==
    {method.args[i].name : i \in {j \in DOMAIN method.args :
        method.args[j].type \in {"Option<u64>", "Option<Address>"}}} \cup {"authorizeTarget"}

Inputs(method) ==
    method.checked \cup {method.args[i].name : i \in {j \in DOMAIN method.args :
        method.args[j].type # "void"}}

(* One call of every method: with all its options or none of them, with one  *)
(* malformed input, refused by the contract, signed by another account.      *)
SingleCalls ==
    UNION { { Request(m, {}, {}), Request(m, Options(m), {}),
              [Request(m, Options(m), {}) EXCEPT !.refusal = "other"],
              [Request(m, {}, {}) EXCEPT !.refusal = "unset"],
              [Request(m, Options(m), {}) EXCEPT !.signer = a2] }
            \cup {Request(m, Options(m), {input}) : input \in Inputs(m)}
          : m \in Mutations \cup Queries }

SomeApplications ==
    {Application(c1 :> r, Now, {}) : r \in SingleCalls}
    \cup {Application(c1 :> r, Now, {"faults"}) :
             r \in { Batch({"nonce"}, 3), Batch({}, 2), Request(commitFundAndWait, {}, {}),
                     Request(estimateCost, {}, {}) }}
    \cup { Application(c1 :> Request(fundCAddress, {}, {}) @@ c2 :> Request(fundCAddress, {}, {}),
                       Now, {"faults"}),
           Application(c1 :> Batch({"nonce"}, 2) @@ c2 :> Request(setFee, {}, {}), Now, {"faults"}),
           Application(c1 :> Request(cachedSetFee, {}, {}), Now, {"cache"}),
           Application(<<>>, 0, {"events"}), Application(<<>>, Now, {"events"}) }

(* types.ts, TransactionResult.hash: "Empty string when status is 'failed'   *)
(* and the transaction was never submitted."                                 *)
FailedWasNotSubmitted ==
    \A c \in Calls : \A i \in DOMAIN call[c].results :
        call[c].results[i] = Result(None, "failed") => TransactionsOf(c, i) = {}

OneTransfer == {Application(c1 :> Request(fundCAddress, {}, {}), Now, {"faults"})}
=============================================================================
