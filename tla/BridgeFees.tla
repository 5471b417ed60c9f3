----------------------------- MODULE BridgeFees -----------------------------
(* The fee arithmetic of the onboarding bridge contract, as pure operators.  *)
(* Rates are in parts of FEE_DENOMINATOR ("basis points").                   *)
EXTENDS Integers, Sequences

CONSTANTS
    FEE_DENOMINATOR,  \* 10_000 in the contract
    MAX_FEE_BPS,      \* 1_000 in the contract
    MAX_FEE_TIERS,    \* 50 in the contract
    I128_MAX          \* largest value of the contract's i128 amounts

ASSUME FeeConstants ==
    /\ FEE_DENOMINATOR \in Nat \ {0}
    /\ MAX_FEE_BPS \in 0..FEE_DENOMINATOR
    /\ MAX_FEE_TIERS \in Nat
    /\ I128_MAX \in Nat \ {0}

(* The width of an amount. Every addition and multiplication of the contract *)
(* goes through safe_math, which refuses a result outside it.                *)
I128 == (-I128_MAX)..I128_MAX

(* Integer division truncates: the fee is rounded down, in the user's favour. *)
CalculateFee(amount, bps) == (amount * bps) \div FEE_DENOMINATOR

(* calculate_fee multiplies before it divides, and the product is checked.   *)
FeeFits(amount, bps) == amount * bps \in I128

(* What a loop over the entries of a call or of the storage adds up to.      *)
Total(terms) ==
    LET sum[i \in 0..Len(terms)] == IF i = 0 THEN 0 ELSE sum[i - 1] + terms[i]
    IN  sum[Len(terms)]

Lesser(x, y) == IF x <= y THEN x ELSE y

\* Mutant: the cap is not applied.
UncappedFeeBps(cap, bps) == bps

(* The per-asset cap can only lower the rate.                                *)
EffectiveFeeBps(cap, bps) == Lesser(bps, cap)

FeeTier == [min_volume : Int, max_volume : Int, fee_bps : Nat]

(* The first tier holding the source's volume can only lower the rate.       *)
TieredFeeBps(tiers, volume, fallback) ==
    LET hits == {i \in DOMAIN tiers : /\ volume >= tiers[i].min_volume
                                      /\ volume <= tiers[i].max_volume}
    IN  IF hits = {}
        THEN fallback
        ELSE Lesser(fallback, tiers[CHOOSE i \in hits : \A j \in hits : i <= j].fee_bps)

(* What set_fee_tiers accepts: sorted, disjoint tiers at admissible rates.   *)
ValidTiers(tiers) ==
    /\ Len(tiers) <= MAX_FEE_TIERS
    /\ \A i \in DOMAIN tiers :
          /\ tiers[i].min_volume >= 0
          /\ tiers[i].max_volume >= tiers[i].min_volume
          /\ tiers[i].fee_bps <= MAX_FEE_BPS
          /\ i > 1 => tiers[i].min_volume > tiers[i - 1].max_volume
=============================================================================
