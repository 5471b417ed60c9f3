---------------------------- MODULE BridgeLemmas ----------------------------
(* What the operators of the bridge compute: fees stay within amounts,       *)
(* transfers and counters move by what they say, and a step that leaves the  *)
(* surplus alone leaves what is owed covered.                                *)
EXTENDS OnboardingBridge, WellFoundedInduction, TLAPS

-----------------------------------------------------------------------------
(* Fees.                                                                     *)

(* calculate_fee takes a part of the amount, whatever the rate.              *)
LEMMA FeeBounds ==
    ASSUME NEW amount \in Nat, NEW bps \in 0..FEE_DENOMINATOR
    PROVE  CalculateFee(amount, bps) \in 0..amount
<1>1. FEE_DENOMINATOR \in Nat \ {0}
  BY FeeConstants DEF FeeConstants
<1> DEFINE p == amount * bps
           q == p \div FEE_DENOMINATOR
<1>2. p \in Nat /\ p <= amount * FEE_DENOMINATOR
  BY <1>1
<1>3. q \in Int /\ q * FEE_DENOMINATOR <= p /\ p < (q + 1) * FEE_DENOMINATOR
  BY <1>1, <1>2
<1>4. q >= 0
  BY <1>1, <1>2, <1>3
<1>5. q <= amount
  BY <1>1, <1>2, <1>3
<1> QED
  BY <1>4, <1>5, <1>3 DEF CalculateFee

(* A set of natural numbers that is not empty has a least element.           *)
LEMMA LeastNatural ==
    ASSUME NEW S \in SUBSET Nat, S # {}
    PROVE  \E x \in S : \A y \in S : x <= y
<1>1. \A x, y \in Nat : y < x => <<y, x>> \in OpToRel(<, Nat)
  BY Zenon DEF OpToRel
<1>2. PICK R : IsWellFoundedOn(R, Nat) /\ \A x, y \in Nat : y < x => <<y, x>> \in R
  BY <1>1, NatLessThanWellFounded, Zenon
<1>3. PICK x \in S : \A y \in S : ~ (<<y, x>> \in R)
  BY <1>2, WFMin
<1>4. ASSUME NEW y \in S
      PROVE  x <= y
  <2>1. ~ (y < x)
    BY <1>2, <1>3
  <2> QED
    BY <2>1
<1> QED
  BY <1>4

(* Neither the cap nor the tiers raise the rate: it stays between zero and   *)
(* the bound that set_fee_bps enforces.                                      *)
LEMMA CapBounds ==
    ASSUME NEW cap \in 0..MAX_FEE_BPS, NEW bps \in 0..MAX_FEE_BPS
    PROVE  EffectiveFeeBps(cap, bps) \in 0..MAX_FEE_BPS
  BY FeeConstants DEF EffectiveFeeBps, Lesser, FeeConstants

(* A tier lowers the rate or leaves it: the tiered rate stays admissible.    *)
LEMMA TierBounds ==
    ASSUME NEW fallback \in 0..MAX_FEE_BPS, NEW tiers \in Seq(FeeTier), NEW volume \in Int
    PROVE  TieredFeeBps(tiers, volume, fallback) \in 0..MAX_FEE_BPS
<1>1. MAX_FEE_BPS \in Nat
  BY FeeConstants DEF FeeConstants
<1> DEFINE hits == {i \in DOMAIN tiers : /\ volume >= tiers[i].min_volume
                                         /\ volume <= tiers[i].max_volume}
           first == CHOOSE i \in hits : \A j \in hits : i <= j
<1>2. CASE hits = {}
  BY <1>2 DEF TieredFeeBps
<1>3. CASE hits # {}
  <2>1. hits \in SUBSET Nat
    OBVIOUS
  <2>2. \E i \in hits : first = i
    <3> HIDE DEF hits
    <3> QED
      BY <1>3, <2>1, LeastNatural
  <2>3. tiers[first].fee_bps \in Nat
    <3>1. PICK i \in DOMAIN tiers : first = i
      BY <2>2
    <3>2. tiers[i] \in FeeTier
      OBVIOUS
    <3>3. tiers[i].fee_bps \in Nat
      BY <3>2 DEF FeeTier
    <3> HIDE DEF first
    <3> QED
      BY <3>1, <3>3
  <2>4. TieredFeeBps(tiers, volume, fallback) = Lesser(fallback, tiers[first].fee_bps)
    BY <1>3 DEF TieredFeeBps
  <2> HIDE DEF first
  <2> QED
    BY <1>1, <2>3, <2>4 DEF Lesser
<1> QED
  BY <1>2, <1>3

-----------------------------------------------------------------------------
(* Sums.                                                                     *)

(* Induction up to a bound, for a set: the least number left out would have  *)
(* its predecessor in.                                                       *)
LEMMA UpToBound ==
    ASSUME NEW n \in Nat, NEW S, 0 \in S, \A i \in 1..n : i - 1 \in S => i \in S
    PROVE  0..n \subseteq S
<1> DEFINE Out == (0..n) \ S
<1> SUFFICES ASSUME Out # {}
             PROVE  FALSE
  OBVIOUS
<1>1. PICK m \in Out : \A y \in Out : m <= y
  <2>1. Out \in SUBSET Nat
    OBVIOUS
  <2> HIDE DEF Out
  <2> QED
    BY <2>1, LeastNatural
<1>2. m \in 1..n /\ m - 1 \in 0..n
  BY <1>1
<1>3. m - 1 \in S
  BY <1>1, <1>2
<1> QED
  BY <1>1, <1>2, <1>3

(* The values a loop's accumulator takes.                                    *)
PartialSums(s, terms) ==
    /\ s \in [0..Len(terms) -> Int]
    /\ s[0] = 0
    /\ \A i \in 1..Len(terms) : s[i] = s[i - 1] + terms[i]

(* One turn of such a loop.                                                  *)
LEMMA SumStep ==
    ASSUME NEW terms \in Seq(Int), NEW s, PartialSums(s, terms), NEW k \in 1..Len(terms)
    PROVE  /\ k - 1 \in 0..Len(terms) /\ k \in 0..Len(terms)
           /\ s[k - 1] \in Int /\ s[k] \in Int /\ terms[k] \in Int
           /\ s[k] = s[k - 1] + terms[k]
<1>1. Len(terms) \in Nat
  OBVIOUS
<1>2. k - 1 \in 0..Len(terms) /\ k \in 0..Len(terms)
  BY <1>1
<1>3. terms[k] \in Int
  OBVIOUS
<1>4. s[k - 1] \in Int /\ s[k] \in Int
  BY <1>2 DEF PartialSums
<1>5. s[k] = s[k - 1] + terms[k]
  BY DEF PartialSums
<1> QED
  BY <1>2, <1>3, <1>4, <1>5

(* Every sequence of integers has partial sums: the loops of the contract terminate. *)
LEMMA SumsExist ==
    ASSUME NEW terms \in Seq(Int)
    PROVE  \E s : PartialSums(s, terms)
<1> DEFINE n == Len(terms)
           Upto(s, k) == /\ s \in [0..k -> Int] /\ s[0] = 0
                         /\ \A i \in 1..k : s[i] = s[i - 1] + terms[i]
           S == {k \in 0..n : \E s : Upto(s, k)}
<1>1. n \in Nat
  OBVIOUS
<1>2. 0 \in S
  <2>1. Upto([i \in 0..0 |-> 0], 0)
    OBVIOUS
  <2>2. 0 \in 0..n
    BY <1>1
  <2> HIDE DEF Upto
  <2> QED
    BY <2>1, <2>2
<1>3. ASSUME NEW k \in 1..n, k - 1 \in S
      PROVE  k \in S
  <2>1. PICK s : Upto(s, k - 1)
    BY <1>3
  <2> DEFINE t == [i \in 0..k |-> IF i = k THEN s[k - 1] + terms[k] ELSE s[i]]
  <2>2. terms[k] \in Int /\ s[k - 1] \in Int
    BY <2>1, <1>1
  <2>3. Upto(t, k)
    <3>1. t \in [0..k -> Int]
      BY <2>1, <2>2
    <3>2. t[0] = 0
      BY <2>1
    <3>3. ASSUME NEW i \in 1..k
          PROVE  t[i] = t[i - 1] + terms[i]
      BY <2>1, <2>2
    <3> QED
      BY <3>1, <3>2, <3>3
  <2> HIDE DEF Upto
  <2> QED
    BY <1>1, <2>3
<1>4. n \in S
  <2> HIDE DEF S
  <2>1. 0..n \subseteq S
    BY <1>1, <1>2, <1>3, UpToBound
  <2> QED
    BY <1>1, <2>1
<1> QED
  BY <1>4 DEF PartialSums

(* Total is the last partial sum.                                            *)
LEMMA TotalIsLast ==
    ASSUME NEW terms \in Seq(Int), NEW s, PartialSums(s, terms)
    PROVE  Total(terms) = s[Len(terms)]
<1> DEFINE n == Len(terms)
           P(f) == f = [i \in 0..n |-> IF i = 0 THEN 0 ELSE f[i - 1] + terms[i]]
           sum == CHOOSE f : P(f)
           S == {k \in 0..n : sum[k] = s[k]}
<1>1. n \in Nat
  OBVIOUS
<1>2. P(s)
  BY <1>1 DEF PartialSums
<1>3. P(sum)
  BY <1>2
<1>4. Total(terms) = sum[n]
  BY DEF Total
<1> HIDE DEF sum
<1>5. 0 \in S
  BY <1>1, <1>3 DEF PartialSums
<1>6. ASSUME NEW k \in 1..n, k - 1 \in S
      PROVE  k \in S
  BY <1>1, <1>3, <1>6 DEF PartialSums
<1>7. 0..n \subseteq S
  <2> HIDE DEF S, P
  <2> QED
    BY <1>1, <1>5, <1>6, UpToBound
<1> QED
  BY <1>1, <1>4, <1>7

(* The sum of integers is an integer; terms that are not negative have a sum *)
(* that none of them exceeds; terms that are all zero add up to zero.        *)
LEMMA TotalBounds ==
    ASSUME NEW terms \in Seq(Int)
    PROVE  /\ Total(terms) \in Int
           /\ (\A i \in 1..Len(terms) : terms[i] >= 0) => Total(terms) >= 0
           /\ (\A i \in 1..Len(terms) : terms[i] = 0) => Total(terms) = 0
<1> DEFINE n == Len(terms)
<1>1. n \in Nat
  OBVIOUS
<1>2. PICK s : PartialSums(s, terms)
  BY SumsExist
<1>3. Total(terms) = s[n] /\ n \in 0..n
  BY <1>1, <1>2, TotalIsLast
<1>4. ASSUME \A i \in 1..n : terms[i] >= 0
      PROVE  s[n] >= 0
  <2> DEFINE S == {k \in 0..n : s[k] >= 0}
  <2>1. 0 \in S
    BY <1>1, <1>2 DEF PartialSums
  <2>2. ASSUME NEW k \in 1..n, k - 1 \in S
        PROVE  k \in S
    <3>1. terms[k] >= 0 /\ s[k - 1] >= 0
      BY <1>4, <2>2
    <3> QED
      BY <1>2, <3>1, SumStep
  <2>3. 0..n \subseteq S
    <3> HIDE DEF S
    <3> QED
      BY <1>1, <2>1, <2>2, UpToBound
  <2> QED
    BY <1>3, <2>3
<1>5. ASSUME \A i \in 1..n : terms[i] = 0
      PROVE  s[n] = 0
  <2> DEFINE S == {k \in 0..n : s[k] = 0}
  <2>1. 0 \in S
    BY <1>1, <1>2 DEF PartialSums
  <2>2. ASSUME NEW k \in 1..n, k - 1 \in S
        PROVE  k \in S
    <3>1. terms[k] = 0 /\ s[k - 1] = 0
      BY <1>5, <2>2
    <3> QED
      BY <1>2, <3>1, SumStep
  <2>3. 0..n \subseteq S
    <3> HIDE DEF S
    <3> QED
      BY <1>1, <2>1, <2>2, UpToBound
  <2> QED
    BY <1>3, <2>3
<1> QED
  BY <1>1, <1>2, <1>3, <1>4, <1>5 DEF PartialSums

(* Terms in proportion have sums in proportion: the fees of a batch are      *)
(* bounded by the rate of its amounts.                                       *)
LEMMA TotalInProportion ==
    ASSUME NEW small \in Seq(Int), NEW large \in Seq(Int), Len(small) = Len(large),
           NEW p \in Int, NEW q \in Int,
           \A i \in 1..Len(small) : small[i] * p <= large[i] * q
    PROVE  Total(small) * p <= Total(large) * q
<1> DEFINE n == Len(small)
<1>1. n \in Nat
  OBVIOUS
<1>2. PICK s : PartialSums(s, small)
  BY SumsExist
<1>3. PICK t : PartialSums(t, large)
  BY SumsExist
<1>4. Total(small) = s[n] /\ Total(large) = t[n] /\ n \in 0..n
  BY <1>1, <1>2, <1>3, TotalIsLast
<1> DEFINE S == {k \in 0..n : s[k] * p <= t[k] * q}
<1>5. 0 \in S
  BY <1>1, <1>2, <1>3 DEF PartialSums
<1>6. ASSUME NEW k \in 1..n, k - 1 \in S
      PROVE  k \in S
  <2>1. /\ k \in 0..n /\ s[k] = s[k - 1] + small[k]
        /\ s[k - 1] \in Int /\ small[k] \in Int
    BY <1>2, SumStep
  <2>2. t[k] = t[k - 1] + large[k] /\ t[k - 1] \in Int /\ large[k] \in Int
    BY <1>3, SumStep
  <2>3. s[k - 1] * p <= t[k - 1] * q /\ small[k] * p <= large[k] * q
    BY <1>6
  <2> HIDE DEF S
  <2>4. ASSUME NEW x \in Int, NEW y \in Int, NEW z \in Int
        PROVE  (x + y) * z = x * z + y * z /\ x * z \in Int /\ y * z \in Int
    OBVIOUS
  <2>5. /\ s[k] * p = s[k - 1] * p + small[k] * p
        /\ s[k - 1] * p \in Int /\ small[k] * p \in Int
    BY ONLY <2>1, <2>4, p \in Int, SMTT(30)
  <2>6. /\ t[k] * q = t[k - 1] * q + large[k] * q
        /\ t[k - 1] * q \in Int /\ large[k] * q \in Int
    BY ONLY <2>2, <2>4, q \in Int, SMTT(30)
  <2>7. s[k] * p <= t[k] * q
    <3>1. \A x, y, z, w \in Int : x <= z /\ y <= w => x + y <= z + w
      OBVIOUS
    <3> QED
      BY <2>3, <2>5, <2>6, <3>1
  <2> QED
    BY <2>1, <2>7 DEF S
<1>7. 0..n \subseteq S
  <2> HIDE DEF S
  <2> QED
    BY <1>1, <1>5, <1>6, UpToBound
<1> QED
  BY <1>4, <1>7

(* One more term adds itself.                                                *)
LEMMA TotalAppend ==
    ASSUME NEW terms \in Seq(Int), NEW x \in Int
    PROVE  Total(Append(terms, x)) = Total(terms) + x
<1> DEFINE n == Len(terms)
           more == Append(terms, x)
<1>1. n \in Nat /\ more \in Seq(Int) /\ Len(more) = n + 1
  OBVIOUS
<1>2. PICK s : PartialSums(s, terms)
  BY SumsExist
<1> DEFINE t == [i \in 0..(n + 1) |-> IF i = n + 1 THEN s[n] + x ELSE s[i]]
<1>3. s[n] \in Int /\ s[n] = Total(terms)
  BY <1>1, <1>2, TotalIsLast DEF PartialSums
<1>4. PartialSums(t, more)
  <2>1. t \in [0..(n + 1) -> Int] /\ t[0] = 0
    BY <1>1, <1>2, <1>3 DEF PartialSums
  <2>2. ASSUME NEW i \in 1..(n + 1)
        PROVE  t[i] = t[i - 1] + more[i]
    <3>1. CASE i = n + 1
      BY <1>1, <1>3, <3>1
    <3>2. CASE i # n + 1
      <4>1. i \in 1..n
        BY <1>1, <3>2
      <4>2. s[i] = s[i - 1] + terms[i]
        BY <1>2, <4>1, SumStep
      <4>3. more[i] = terms[i] /\ t[i] = s[i] /\ t[i - 1] = s[i - 1]
        BY <1>1, <4>1
      <4> QED
        BY <4>2, <4>3
    <3> QED
      BY <3>1, <3>2
  <2> HIDE DEF t, more
  <2> QED
    BY <1>1, <2>1, <2>2 DEF PartialSums
<1>5. Total(more) = t[n + 1]
  <2> HIDE DEF t, more
  <2> QED
    BY <1>1, <1>4, TotalIsLast
<1> QED
  BY <1>1, <1>3, <1>5

(* Changing one term changes the sum by as much.                             *)
LEMMA TotalExcept ==
    ASSUME NEW terms \in Seq(Int), NEW id \in 1..Len(terms), NEW x \in Int
    PROVE  Total([terms EXCEPT ![id] = x]) = Total(terms) - terms[id] + x
<1> DEFINE n == Len(terms)
           new == [terms EXCEPT ![id] = x]
<1>1. n \in Nat /\ new \in Seq(Int) /\ Len(new) = n
  OBVIOUS
<1>2. PICK s : PartialSums(s, terms)
  BY SumsExist
<1> DEFINE t == [i \in 0..n |-> IF i < id THEN s[i] ELSE s[i] - terms[id] + x]
<1>3. terms[id] \in Int /\ s[n] = Total(terms)
  BY <1>1, <1>2, TotalIsLast
<1>4. PartialSums(t, new)
  <2>1. t \in [0..n -> Int] /\ t[0] = 0
    BY <1>1, <1>2, <1>3 DEF PartialSums
  <2>2. ASSUME NEW i \in 1..n
        PROVE  t[i] = t[i - 1] + new[i]
    <3>1. /\ s[i] = s[i - 1] + terms[i] /\ s[i - 1] \in Int /\ terms[i] \in Int
          /\ i - 1 \in 0..n /\ i \in 0..n
      BY <1>2, SumStep
    <3>2. new[i] = IF i = id THEN x ELSE terms[i]
      OBVIOUS
    <3>3. /\ t[i] = IF i < id THEN s[i] ELSE s[i] - terms[id] + x
          /\ t[i - 1] = IF i - 1 < id THEN s[i - 1] ELSE s[i - 1] - terms[id] + x
      BY <3>1
    <3> HIDE DEF t, new
    <3>4. CASE i < id
      BY <3>1, <3>2, <3>3, <3>4
    <3>5. CASE i = id
      BY <1>3, <3>1, <3>2, <3>3, <3>5
    <3>6. CASE i > id
      BY <1>3, <3>1, <3>2, <3>3, <3>6
    <3> QED
      BY <1>1, <3>4, <3>5, <3>6
  <2> HIDE DEF t, new
  <2> QED
    BY <1>1, <2>1, <2>2 DEF PartialSums
<1>5. Total(new) = t[n]
  <2> HIDE DEF t, new
  <2> QED
    BY <1>1, <1>4, TotalIsLast
<1> QED
  BY <1>1, <1>3, <1>5

-----------------------------------------------------------------------------
(* Tokens. A book maps assets and holders to balances; its values are typed  *)
(* only once BalancesFit has been checked.                                   *)
Book(bal) ==
    /\ bal = [a \in Asset |-> bal[a]]
    /\ \A a \in Asset : bal[a] = [h \in Holder |-> bal[a][h]]

(* A table of balances is well typed when every entry fits the width of an amount. *)
LEMMA BookTyped ==
    ASSUME NEW bal
    PROVE  bal \in [Asset -> [Holder -> 0..I128_MAX]] <=> Book(bal) /\ BalancesFit(bal)
<1>1. ASSUME bal \in [Asset -> [Holder -> 0..I128_MAX]]
      PROVE  Book(bal) /\ BalancesFit(bal)
  BY <1>1 DEF Book, BalancesFit
<1>2. ASSUME Book(bal), BalancesFit(bal)
      PROVE  bal \in [Asset -> [Holder -> 0..I128_MAX]]
  <2>1. \A a \in Asset : bal[a] \in [Holder -> 0..I128_MAX]
    BY <1>2 DEF Book, BalancesFit
  <2> QED
    BY <1>2, <2>1 DEF Book
<1> QED
  BY <1>1, <1>2

(* A transfer keeps the book, touches no other asset, and moves the bridge's *)
(* own balance by its amount.                                                *)
LEMMA TransferBook ==
    ASSUME NEW bal, Book(bal), NEW asset \in Asset, NEW from \in Holder, NEW to \in Holder,
           NEW amount
    PROVE  Book(Transfer(bal, asset, from, to, amount))
  BY DEF Book, Transfer

(* What the bridge holds after a transfer from an account.                   *)
LEMMA TransferIn ==
    ASSUME NEW bal, Book(bal), NEW asset \in Asset, NEW from \in Account, NEW amount,
           NEW a \in Asset
    PROVE  Transfer(bal, asset, from, Bridge, amount)[a][Bridge] =
               IF a = asset THEN bal[a][Bridge] + amount ELSE bal[a][Bridge]
  BY StateConstants DEF Book, Transfer, Holder, StateConstants

(* What the bridge holds after a transfer to an account.                     *)
LEMMA TransferOut ==
    ASSUME NEW bal, Book(bal), NEW asset \in Asset, NEW to \in Account, NEW amount,
           NEW a \in Asset
    PROVE  Transfer(bal, asset, Bridge, to, amount)[a][Bridge] =
               IF a = asset THEN bal[a][Bridge] - amount ELSE bal[a][Bridge]
  BY StateConstants DEF Book, Transfer, Holder, StateConstants

(* mint_loyalty_tokens leaves an asset alone, or leaves at least the accrued *)
(* fees and the locked deposits of the loyalty token.                        *)
LEMMA MintBook ==
    ASSUME NEW bal, Book(bal), NEW ctr, NEW recipient \in Account, config \in Config
    PROVE  Book(MintLoyalty(bal, ctr, recipient))
  BY TransferBook, StateConstants DEF MintLoyalty, Config, Holder, StateConstants

(* mint_loyalty_tokens moves nothing but the loyalty token.                  *)
LEMMA MintElsewhere ==
    ASSUME NEW bal, Book(bal), NEW ctr, NEW recipient, NEW a \in Asset, a # config.loyalty_token
    PROVE  MintLoyalty(bal, ctr, recipient)[a] = bal[a]
  BY DEF MintLoyalty, Transfer, Book

(* What mint_loyalty_tokens leaves: all of it, or at least accrued fees and locked deposits. *)
LEMMA MintLeaves ==
    ASSUME NEW bal, Book(bal), NEW ctr \in [Asset -> Counters], NEW recipient \in Account,
           config \in Config, NEW a \in Asset, bal[a][Bridge] \in Int
    PROVE  LET left == MintLoyalty(bal, ctr, recipient)[a][Bridge]
           IN  \/ left = bal[a][Bridge]
               \/ /\ a \in LoyaltyTokens
                  /\ left \in Int
                  /\ left >= ctr[a].accrued_fees + ctr[a].locked_timelock
<1> DEFINE t == config.loyalty_token
           n == config.loyalty_amount
<1>1. t \in LoyaltyTokens \cup {None} /\ n \in Nat
  BY DEF Config
<1>2. ctr[a].accrued_fees \in Int /\ ctr[a].locked_timelock \in Int
  BY FeeConstants DEF Counters, I128, FeeConstants
<1>3. CASE /\ t # None /\ n > 0
           /\ bal[t][Bridge] - ctr[t].accrued_fees - ctr[t].locked_timelock >= n
  <2>1. t \in Asset
    BY <1>1, <1>3, StateConstants DEF StateConstants
  <2>2. MintLoyalty(bal, ctr, recipient) = Transfer(bal, t, Bridge, recipient, n)
    BY <1>3 DEF MintLoyalty
  <2> HIDE DEF t, n
  <2>3. Transfer(bal, t, Bridge, recipient, n)[a][Bridge] =
            IF a = t THEN bal[a][Bridge] - n ELSE bal[a][Bridge]
    BY <2>1, TransferOut
  <2> QED
    BY <1>1, <1>2, <1>3, <2>2, <2>3
<1>4. CASE ~ (/\ t # None /\ n > 0
              /\ bal[t][Bridge] - ctr[t].accrued_fees - ctr[t].locked_timelock >= n)
  <2>1. MintLoyalty(bal, ctr, recipient) = bal
    BY <1>4 DEF MintLoyalty
  <2> QED
    BY <2>1
<1> QED
  BY <1>3, <1>4

-----------------------------------------------------------------------------
(* Accounting. update_asset_counters_split and the two timelock updates      *)
(* change the counters of one asset; what they store is typed because        *)
(* safe_math refused anything wider.                                         *)
LEMMA AddFeesEffect ==
    ASSUME NEW ctr \in [Asset -> Counters], NEW asset \in Asset, NEW accrued \in Nat,
           NEW fees \in Int, NEW bridged \in Int,
           CountersFit(AddFees(ctr, asset, accrued, fees, bridged))
    PROVE  LET new == AddFees(ctr, asset, accrued, fees, bridged)
           IN  /\ new \in [Asset -> Counters]
               /\ \A a \in Asset :
                     /\ new[a].locked_timelock = ctr[a].locked_timelock
                     /\ new[a].accrued_fees = ctr[a].accrued_fees
                                                  + (IF a = asset THEN accrued ELSE 0)
<1> DEFINE new == AddFees(ctr, asset, accrued, fees, bridged)
<1>1. I128_MAX \in Nat
  BY FeeConstants DEF FeeConstants
<1>2. new = [ctr EXCEPT ![asset] =
                [ctr[asset] EXCEPT !.accrued_fees = @ + accrued, !.total_bridged = @ + bridged,
                                   !.total_fees_collected = @ + fees]]
  BY DEF AddFees, Counters
<1>3. new[asset] \in Counters
  <2>1. /\ new[asset].accrued_fees \in I128 /\ new[asset].total_bridged \in I128
        /\ new[asset].total_fees_collected \in I128 /\ new[asset].locked_timelock \in I128
    BY DEF CountersFit
  <2>2. new[asset] = [accrued_fees |-> ctr[asset].accrued_fees + accrued,
                      total_bridged |-> ctr[asset].total_bridged + bridged,
                      total_fees_collected |-> ctr[asset].total_fees_collected + fees,
                      locked_timelock |-> ctr[asset].locked_timelock]
    BY <1>2 DEF Counters
  <2>3. ctr[asset].accrued_fees + accrued \in Nat
    BY <1>1 DEF Counters
  <2> HIDE DEF new
  <2> QED
    BY <1>1, <2>1, <2>2, <2>3 DEF Counters, I128
<1>4. new \in [Asset -> Counters]
  BY <1>2, <1>3
<1>5. ASSUME NEW a \in Asset
      PROVE  /\ new[a].locked_timelock = ctr[a].locked_timelock
             /\ new[a].accrued_fees = ctr[a].accrued_fees + (IF a = asset THEN accrued ELSE 0)
  <2>1. ctr[a] \in Counters
    OBVIOUS
  <2> QED
    BY <1>1, <1>2, <2>1 DEF Counters
<1> QED
  BY <1>4, <1>5

(* Locking or unlocking a deposit moves locked_timelock alone.               *)
LEMMA LockEffect ==
    ASSUME NEW ctr \in [Asset -> Counters], NEW asset \in Asset, NEW amount \in Int
    PROVE  LET new == LockTimelock(ctr, asset, amount)
           IN  /\ CountersFit(new) => new \in [Asset -> Counters]
               /\ \A a \in Asset :
                     /\ new[a].accrued_fees = ctr[a].accrued_fees
                     /\ new[a].locked_timelock = ctr[a].locked_timelock
                                                    + (IF a = asset THEN amount ELSE 0)
<1> DEFINE new == LockTimelock(ctr, asset, amount)
<1>1. I128_MAX \in Nat
  BY FeeConstants DEF FeeConstants
<1>2. new = [ctr EXCEPT ![asset] = [ctr[asset] EXCEPT !.locked_timelock = @ + amount]]
  BY DEF LockTimelock, Counters
<1>3. CountersFit(new) => new[asset] \in Counters
  BY <1>1, <1>2 DEF CountersFit, Counters, I128
<1> QED
  BY <1>1, <1>2, <1>3 DEF Counters, I128

(* The usage records keep their keys, and their values once UsageFits.       *)
UsageBook(u) ==
    /\ u = [s \in Account |-> u[s]]
    /\ \A s \in Account : u[s] = [a \in Asset |-> u[s][a]]

(* A table of usage is well typed when every entry has its fields in range.  *)
LEMMA UsageTyped ==
    ASSUME NEW u
    PROVE  u \in [Account -> [Asset -> SourceUsage]] <=> UsageBook(u) /\ UsageFits(u)
<1>1. ASSUME u \in [Account -> [Asset -> SourceUsage]]
      PROVE  UsageBook(u) /\ UsageFits(u)
  BY <1>1 DEF UsageBook, UsageFits
<1>2. ASSUME UsageBook(u), UsageFits(u)
      PROVE  u \in [Account -> [Asset -> SourceUsage]]
  <2>1. \A s \in Account : u[s] \in [Asset -> SourceUsage]
    BY <1>2 DEF UsageBook, UsageFits
  <2> QED
    BY <1>2, <2>1 DEF UsageBook
<1> QED
  BY <1>1, <1>2

(* Each update of a source's usage leaves a table of usage.                  *)
LEMMA UsageUpdates ==
    ASSUME NEW u, UsageBook(u), NEW source \in Account, NEW asset \in Asset, NEW amount
    PROVE  /\ UsageBook(CountDaily(u, source, asset, amount))
           /\ UsageBook(AddVolume(u, source, asset, amount))
           /\ UsageBook(AddDeposit(u, source, asset, amount))
<1>1. UsageBook(CountDaily(u, source, asset, amount))
  BY DEF UsageBook, CountDaily
<1>2. UsageBook(AddVolume(u, source, asset, amount))
  BY DEF UsageBook, AddVolume
<1>3. UsageBook(AddDeposit(u, source, asset, amount))
  BY DEF UsageBook, AddDeposit
<1> QED
  BY <1>1, <1>2, <1>3

(* A call nonce only moves to a natural number.                              *)
LEMMA NonceTyped ==
    ASSUME nonces \in [Account -> Nat], NEW caller \in Account, NEW opt, ConsumeNonce(caller, opt)
    PROVE  nonces' \in [Account -> Nat]
  BY DEF ConsumeNonce

-----------------------------------------------------------------------------
(* Backing. RingFenced, as a property of the three values it relates.        *)
Covered(bal, ctr, res) ==
    \A a \in Asset \ (LoyaltyTokens \cap ReserveAssets) :
        bal[a][Bridge] >= ctr[a].accrued_fees + ctr[a].locked_timelock + res[a]

(* A reserve is held only in an asset the administrator funds one for. It is *)
(* what lets a loyalty token without a reserve be minted safely.             *)
ReserveWhereFunded == \A a \in Asset \ ReserveAssets : reserve[a] = 0

BridgeInv == TypeOK /\ ReserveWhereFunded /\ RingFenced

(* What the bridge holds for nobody, after a step that leaves ctr and res,   *)
(* is what it was, unless a loyalty reward took of it.                       *)
SurplusLeft(ctr, res) ==
    \A a \in Asset :
        \/ a = config.loyalty_token
        \/ balance'[a][Bridge] - ctr[a].accrued_fees - ctr[a].locked_timelock - res[a]
               = Reclaimable(a)

SurplusKept == SurplusLeft(counters', reserve')

(* A loyalty reward takes nothing that is owed, unless the loyalty token has *)
(* a reserve.                                                                *)
LEMMA MintCovers ==
    ASSUME config \in Config, NEW bal, Book(bal), \A a \in Asset : bal[a][Bridge] \in Int,
           NEW ctr \in [Asset -> Counters], NEW res \in [Asset -> 0..I128_MAX],
           \A a \in Asset \ ReserveAssets : res[a] = 0, NEW recipient \in Account,
           Covered(bal, ctr, res)
    PROVE  Covered(MintLoyalty(bal, ctr, recipient), ctr, res)
<1> DEFINE left(a) == MintLoyalty(bal, ctr, recipient)[a][Bridge]
<1> SUFFICES ASSUME NEW a \in Asset \ (LoyaltyTokens \cap ReserveAssets)
             PROVE  left(a) >= ctr[a].accrued_fees + ctr[a].locked_timelock + res[a]
  BY DEF Covered
<1>1. \/ left(a) = bal[a][Bridge]
      \/ /\ a \in LoyaltyTokens
         /\ left(a) \in Int
         /\ left(a) >= ctr[a].accrued_fees + ctr[a].locked_timelock
  BY MintLeaves
<1>2. /\ bal[a][Bridge] >= ctr[a].accrued_fees + ctr[a].locked_timelock + res[a]
      /\ ctr[a].accrued_fees \in Int /\ ctr[a].locked_timelock \in Int
  BY FeeConstants DEF Covered, Counters, I128, FeeConstants
<1>3. a \in LoyaltyTokens => res[a] = 0
  OBVIOUS
<1> HIDE DEF left
<1> QED
  BY <1>1, <1>2, <1>3

(* The rates that the entry points charge are rates of FEE_DENOMINATOR.      *)
LEMMA RatesTyped ==
    ASSUME TypeOK, NEW source \in Account, NEW asset \in Asset
    PROVE  /\ TieredRate(source, asset) \in 0..FEE_DENOMINATOR
           /\ FlatRate(asset) \in 0..FEE_DENOMINATOR
<1>1. /\ fee_cap[asset] \in 0..MAX_FEE_BPS /\ config.fee_bps \in 0..MAX_FEE_BPS
      /\ config.fee_tiers \in Seq(FeeTier)
  BY DEF TypeOK, Config
<1>2. usage[source][asset].volume \in Int
  BY FeeConstants DEF TypeOK, SourceUsage, I128, FeeConstants
<1>3. TieredFeeBps(config.fee_tiers, usage[source][asset].volume, config.fee_bps)
          \in 0..MAX_FEE_BPS
  BY <1>1, <1>2, TierBounds
<1>4. /\ TieredRate(source, asset) \in 0..MAX_FEE_BPS
      /\ FlatRate(asset) \in 0..MAX_FEE_BPS
  BY <1>1, <1>3, CapBounds DEF TieredRate, FlatRate
<1> QED
  BY <1>4, FeeConstants DEF FeeConstants

(* An entry point that leaves the surplus of every asset as it was, up to a  *)
(* loyalty reward at the end, leaves what is owed covered.                   *)
LEMMA SettleKeeps ==
    ASSUME TypeOK, NEW bal, Book(bal), NEW ctr \in [Asset -> Counters],
           NEW res \in [Asset -> 0..I128_MAX], NEW recipient \in Account,
           \A a \in Asset :
               /\ bal[a][Bridge] \in Int
               /\ bal[a][Bridge] - ctr[a].accrued_fees - ctr[a].locked_timelock - res[a]
                      = Reclaimable(a),
           balance' \in {bal, MintLoyalty(bal, ctr, recipient)}, BalancesFit(balance')
    PROVE  /\ balance' \in [Asset -> [Holder -> 0..I128_MAX]]
           /\ RingFenced /\ (\A a \in Asset \ ReserveAssets : res[a] = 0)
                  => Covered(balance', ctr, res)
           /\ SurplusLeft(ctr, res)
<1>1. config \in Config
  BY DEF TypeOK
<1>2. balance' \in [Asset -> [Holder -> 0..I128_MAX]]
  BY <1>1, MintBook, BookTyped
<1>3. ASSUME RingFenced, \A a \in Asset \ ReserveAssets : res[a] = 0
      PROVE  Covered(balance', ctr, res)
  <2>1. Covered(bal, ctr, res)
    <3> SUFFICES ASSUME NEW a \in Asset \ (LoyaltyTokens \cap ReserveAssets)
                 PROVE  bal[a][Bridge] >= ctr[a].accrued_fees + ctr[a].locked_timelock + res[a]
      BY DEF Covered
    <3>1. balance[a][Bridge] \in Int
      BY DEF TypeOK, Holder
    <3>2. /\ counters[a].accrued_fees \in Int /\ counters[a].locked_timelock \in Int
          /\ reserve[a] \in Int
      BY FeeConstants DEF TypeOK, Counters, I128, FeeConstants
    <3>3. Reclaimable(a) \in Int /\ Reclaimable(a) >= 0
      BY <1>3, <3>1, <3>2 DEF RingFenced, Owed, Reclaimable
    <3>4. ctr[a].accrued_fees \in Int /\ ctr[a].locked_timelock \in Int /\ res[a] \in Int
      BY FeeConstants DEF Counters, I128, FeeConstants
    <3> QED
      BY <3>3, <3>4
  <2> QED
    BY <1>1, <1>3, <2>1, MintCovers
<1>4. ASSUME NEW a \in Asset, a # config.loyalty_token
      PROVE  balance'[a][Bridge] = bal[a][Bridge]
  BY <1>1, <1>4, MintElsewhere
<1>5. SurplusLeft(ctr, res)
  BY <1>4 DEF SurplusLeft
<1> QED
  BY <1>2, <1>3, <1>5

(* The values a step starts from.                                            *)
LEMMA FundsTyped ==
    ASSUME TypeOK
    PROVE  /\ Book(balance)
           /\ \A a \in Asset :
                 /\ balance[a][Bridge] \in Int /\ reserve[a] \in Int
                 /\ counters[a].accrued_fees \in Int /\ counters[a].locked_timelock \in Int
<1>1. balance \in [Asset -> [Holder -> 0..I128_MAX]]
  BY DEF TypeOK
<1>2. Book(balance)
  BY <1>1, BookTyped
<1> QED
  BY <1>1, <1>2, FeeConstants DEF TypeOK, Counters, I128, FeeConstants, Holder

(* What fund_c_address, reveal_fund and execute_meta_fund pull is paid out   *)
(* or kept as a fee.                                                         *)
LEMMA DeliverKeeps ==
    ASSUME TypeOK, NEW source \in Account, NEW target \in Account, NEW asset \in Asset,
           NEW amount \in Int, amount > 0, Deliver(source, target, asset, amount)
    PROVE  /\ balance' \in [Asset -> [Holder -> 0..I128_MAX]]
           /\ counters' \in [Asset -> Counters]
           /\ ReserveWhereFunded /\ RingFenced => Covered(balance', counters', reserve)
           /\ SurplusLeft(counters', reserve)
<1> DEFINE rate == TieredRate(source, asset)
           fee == CalculateFee(amount, rate)
           pulled == Transfer(balance, asset, source, Bridge, amount)
           paid == Transfer(pulled, asset, Bridge, target, amount - fee)
<1>1. fee \in 0..amount
  <2>1. rate \in 0..FEE_DENOMINATOR /\ amount \in Nat
    BY RatesTyped
  <2> HIDE DEF rate
  <2> QED
    BY <2>1, FeeBounds
<1>2. /\ counters' = AddFees(counters, asset, fee, fee, amount - fee)
      /\ balance' = MintLoyalty(paid, counters', source)
      /\ CountersFit(counters') /\ BalancesFit(balance')
  BY DEF Deliver
<1> HIDE DEF fee
<1>3. Book(pulled) /\ Book(paid)
  BY FundsTyped, TransferBook DEF Holder
<1>4. /\ counters' \in [Asset -> Counters]
      /\ \A a \in Asset :
            /\ counters'[a].locked_timelock = counters[a].locked_timelock
            /\ counters'[a].accrued_fees = counters[a].accrued_fees
                                               + (IF a = asset THEN fee ELSE 0)
  <2>1. counters \in [Asset -> Counters] /\ fee \in Nat /\ amount - fee \in Int
    BY <1>1 DEF TypeOK
  <2> QED
    BY <1>2, <2>1, AddFeesEffect
<1>5. ASSUME NEW a \in Asset
      PROVE  /\ paid[a][Bridge] \in Int
             /\ paid[a][Bridge] - counters'[a].accrued_fees - counters'[a].locked_timelock
                    - reserve[a] = Reclaimable(a)
  <2>1. pulled[a][Bridge] = IF a = asset THEN balance[a][Bridge] + amount ELSE balance[a][Bridge]
    BY FundsTyped, TransferIn
  <2> HIDE DEF pulled
  <2>2. paid[a][Bridge] =
            IF a = asset THEN pulled[a][Bridge] - (amount - fee) ELSE pulled[a][Bridge]
    BY <1>3, TransferOut
  <2> HIDE DEF paid
  <2> QED
    BY <1>1, <1>4, <2>1, <2>2, FundsTyped DEF Reclaimable
<1> HIDE DEF paid
<1>6. reserve \in [Asset -> 0..I128_MAX]
  BY DEF TypeOK
<1> QED
  BY <1>2, <1>3, <1>4, <1>5, <1>6, SettleKeeps DEF ReserveWhereFunded

(* Announcing a payout keeps the count of announcements a count.             *)
LEMMA PublishedTyped ==
    ASSUME published \in [Payout -> Nat], NEW p, published' = [published EXCEPT ![p] = @ + 1]
    PROVE  published' \in [Payout -> Nat]
<1>1. CASE p \in Payout
  <2>1. published[p] + 1 \in Nat
    BY <1>1
  <2> QED
    BY <2>1
<1>2. CASE p \notin Payout
  <2>1. published' = published
    BY <1>2
  <2> QED
    BY <2>1
<1> QED
  BY <1>1, <1>2
=============================================================================
