---------------------------- MODULE ContractAbi ----------------------------
(* The contract's interface as its clients see it: the parameters of the     *)
(* entry points of lib.rs that the SDK calls, in their order.                *)
EXTENDS Sequences

Params(type, names) == [i \in DOMAIN names |-> [name |-> names[i], type |-> type]]

Addresses(names) == Params("Address", names)

Nonce == Params("Option<u64>", <<"nonce">>)

Replay == Params("Option<u64>", <<"nonce", "deadline">>)

Funding == Addresses(<<"source", "target", "asset">>) \o Params("i128", <<"amount">>)

Hash(name) == Params("BytesN<32>", <<name>>)

(* What the contract's entry points take (lib.rs).                           *)
EntryPoints ==
    [ fund_c_address |-> Funding \o Replay,
      fund_c_address_with_referral |->
          Funding \o Params("Option<Address>", <<"referrer">>) \o Replay,
      commit_fund |-> Addresses(<<"source", "target", "asset">>) \o Hash("amount_hash")
          \o Params("u64", <<"deadline">>),
      reveal_fund |->
          Params("u64", <<"commitment_id">>) \o Funding \o Params("u64", <<"nonce">>),
      fund_c_address_timelocked |->
          Funding \o Params("u64", <<"release_time", "cliff_time">>) \o Replay,
      claim_timelocked |-> Params("u64", <<"id">>),
      fund_c_address_with_swap |->
          Addresses(<<"source", "target", "source_asset", "target_asset">>)
          \o Params("i128", <<"source_amount", "min_target_amount">>)
          \o Params("Vec<Address>", <<"swap_route">>) \o Replay,
      batch_fund_c_address |-> Addresses(<<"source">>) \o Params("Vec<Address>", <<"targets">>)
          \o Params("Vec<i128>", <<"amounts">>) \o Addresses(<<"asset">>) \o Replay,
      withdraw_fees |-> Addresses(<<"asset">>) \o Params("i128", <<"amount">>) \o Nonce,
      reclaim_tokens |-> Addresses(<<"asset">>) \o Params("i128", <<"amount">>)
          \o Addresses(<<"destination">>) \o Nonce,
      set_fee_bps |-> Params("u32", <<"new_fee_bps">>) \o Nonce,
      set_referral_rate |-> Params("u32", <<"bps">>) \o Nonce,
      set_loyalty_token |->
          Addresses(<<"token">>) \o Params("i128", <<"amount_per_fund">>) \o Nonce,
      set_fee_tiers |-> Params("Vec<FeeTier>", <<"tiers">>) \o Nonce,
      set_fee_collector |-> Addresses(<<"new_fee_collector">>) \o Nonce,
      set_admin |-> Addresses(<<"new_admin">>) \o Nonce,
      propose_new_admin |-> Addresses(<<"new_admin">>) \o Nonce,
      accept_admin |-> <<>>,
      propose_new_fee_collector |-> Addresses(<<"new_collector">>) \o Nonce,
      accept_fee_collector |-> <<>>,
      upgrade |-> Hash("new_wasm_hash") \o Nonce,
      schedule_upgrade |-> Hash("new_wasm_hash") \o Nonce,
      execute_upgrade |-> Hash("expected_hash") \o Nonce,
      cancel_upgrade |-> Nonce,
      execute_meta_fund |-> Params("MetaFundParams", <<"params">>) \o Hash("pubkey")
          \o Params("BytesN<64>", <<"signature">>),
      fund_c_address_crosschain |-> Params("u32", <<"chain_id">>) \o Hash("tx_hash")
          \o Addresses(<<"target", "asset">>) \o Params("i128", <<"amount">>)
          \o Params("Vec<RelayerSig>", <<"sigs">>),
      add_relayer |-> Hash("pubkey") \o Nonce,
      remove_relayer |-> Hash("pubkey") \o Nonce,
      set_relayer_threshold |-> Params("u32", <<"threshold">>) \o Nonce,
      query_balance |-> Addresses(<<"c_address", "asset">>),
      query_timelocked |-> Params("u64", <<"id">>),
      query_commitment |-> Params("u64", <<"id">>),
      query_current_tier |-> Addresses(<<"source", "asset">>),
      query_accrued_fees |-> Addresses(<<"asset">>),
      query_contract_balance |-> Addresses(<<"asset">>),
      query_all_balances |-> Params("Vec<Address>", <<"assets">>),
      query_is_relayer |-> Hash("pubkey"),
      query_whitelisted_assets |-> Params("u32", <<"offset", "limit">>),
      query_is_blocked |-> Addresses(<<"address">>),
      query_is_allowlisted |-> Addresses(<<"address">>) ]

Parameterless ==
    { "query_fee_bps", "query_referral_rate", "query_fee_collector", "query_admin",
      "query_loyalty_token", "query_fee_tiers", "query_is_initialized",
      "query_pending_admin", "query_pending_fee_collector", "query_pending_upgrade",
      "query_relayer_threshold" }

Signature(fn) == IF fn \in Parameterless THEN <<>> ELSE EntryPoints[fn]

(* The host decodes a call's arguments one by one.                           *)
Accepts(param, arg) ==
    /\ arg.name = param.name
    /\ \/ arg.type = param.type
       \/ param.type = "Option<u64>" /\ arg.type \in {"void", "u64"}
       \/ param.type = "Option<Address>" /\ arg.type \in {"void", "Address"}

Conforms(fn, args) ==
    /\ DOMAIN args = DOMAIN Signature(fn)
    /\ \A i \in DOMAIN args : Accepts(Signature(fn)[i], args[i])
=============================================================================
