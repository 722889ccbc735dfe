------------------------------- MODULE Money -------------------------------
(***************************************************************************)
(* The arithmetic of lib/money.ts and where it is used: pricing a checkout *)
(* (checkout.service.ts), the withdrawal fee (withdrawal.service.ts) and   *)
(* amounts crossing to the provider and back as decimal text.              *)
(*                                                                         *)
(* Amounts are kobo.  JavaScript's integers are exact up to 2^53 and every *)
(* product here stays far below, or is computed in BigInt.                 *)
(***************************************************************************)
EXTENDS Integers, Sequences, FiniteSets, Functions

CONSTANTS Prices,        \* amounts of dues, positive by createDueSchema
          MaxDues,       \* bound: dues in one checkout
          Gross,         \* amounts a rep asks to withdraw
          Discounts,     \* percentages of partner discounts
          Naira, Digits, \* what the provider may write: whole part, decimals
          MaxDecimals    \* bound: how many decimals

CHECKOUT_FEE_PERCENT == 2
CHECKOUT_FEE_FLAT_KOBO == 2000
WITHDRAWAL_FEE_LOW_KOBO == 10000
WITHDRAWAL_FEE_HIGH_KOBO == 20000
WITHDRAWAL_FEE_THRESHOLD_KOBO == 5000000
MIN_PAYOUT_KOBO == 100000

ASSUME MoneyAssumption ==
    /\ Prices \subseteq Nat \ {0} /\ Gross \subseteq Nat /\ Naira \subseteq Nat
    /\ Discounts \subseteq 0..100 /\ Digits \subseteq 0..9 /\ MaxDues \in Nat /\ MaxDecimals \in Nat

VARIABLES checkout,    \* what is stored of a checkout and its items
          withdrawal,  \* the breakdown of a withdrawal
          wire         \* an amount on its way between Duevy and the provider

moneyVars == <<checkout, withdrawal, wire>>

-----------------------------------------------------------------------------
(* Fees                                                                     *)

\* Mutant: the half is cut off.
MulDivRoundHalfUp_Floor(a, num, den) == (a * num) \div den

(* round(a * num / den), half-up, in integers.                              *)
MulDivRoundHalfUp(a, num, den) == (a * num * 2 + den) \div (den * 2)

CheckoutFee(face) ==
    IF face = 0 THEN 0 ELSE MulDivRoundHalfUp(face, CHECKOUT_FEE_PERCENT, 100) + CHECKOUT_FEE_FLAT_KOBO

WithdrawalFee(gross) ==
    IF gross < WITHDRAWAL_FEE_THRESHOLD_KOBO THEN WITHDRAWAL_FEE_LOW_KOBO ELSE WITHDRAWAL_FEE_HIGH_KOBO

DiscountedFee(fee, percent) == fee - MulDivRoundHalfUp(fee, percent, 100)

\* Mutant: the discount is given twice, on the fee and on what is sent.
ComputeWithdrawal_Twice(gross, percent) ==
    LET before == WithdrawalFee(gross)
        fee == DiscountedFee(before, percent)
    IN  [gross |-> gross, fee |-> fee, discount |-> before - fee, net |-> gross - fee + (before - fee)]

ComputeWithdrawal(gross, percent) ==
    LET before == WithdrawalFee(gross)
        fee == DiscountedFee(before, percent)
    IN  [gross |-> gross, fee |-> fee, discount |-> before - fee, net |-> gross - fee]

-----------------------------------------------------------------------------
(* allocate: the largest-remainder split                                    *)

SumSeq(s) == SumFunction(s)

(* Every due's face is positive, so the weights never sum to 0 unless there *)
(* are none.  Where it lands when the remainders are sorted, ties by index. *)
Rank(total, weights, i) ==
    LET rem(j) == (total * weights[j]) % SumSeq(weights)
    IN  Cardinality({j \in DOMAIN weights : rem(j) > rem(i) \/ (rem(j) = rem(i) /\ j < i)})

\* Mutant: every part is rounded by itself.
Allocate_EachRounded(total, weights) ==
    [i \in DOMAIN weights |-> MulDivRoundHalfUp(total, weights[i], SumSeq(weights))]

\* Mutant: what is left goes to the first due.
Allocate_FirstTakesRest(total, weights) ==
    LET part == [i \in DOMAIN weights |-> (total * weights[i]) \div SumSeq(weights)]
    IN  [part EXCEPT ![1] = @ + total - SumSeq(part)]

Allocate(total, weights) ==
    LET part == [i \in DOMAIN weights |-> (total * weights[i]) \div SumSeq(weights)]
        left == total - SumSeq(part)
    IN  [i \in DOMAIN weights |-> IF Rank(total, weights, i) < left THEN part[i] + 1 ELSE part[i]]

-----------------------------------------------------------------------------
(* Decimal text: a whole part and a sequence of digits.                     *)

\* Mutant: the kobo are not padded to two digits.
KoboToDecimal_Unpadded(kobo) ==
    [whole |-> kobo \div 100, frac |-> IF kobo % 100 < 10 THEN <<kobo % 10, 0>> ELSE <<(kobo % 100) \div 10, kobo % 10>>]

KoboToDecimal(kobo) == [whole |-> kobo \div 100, frac |-> <<(kobo % 100) \div 10, kobo % 10>>]

(* padEnd(3, '0')                                                           *)
Digit(frac, i) == IF i <= Len(frac) THEN frac[i] ELSE 0

\* Mutant: the third decimal is dropped.
DecimalToKobo_Cut(text) == text.whole * 100 + Digit(text.frac, 1) * 10 + Digit(text.frac, 2)

DecimalToKobo(text) ==
    text.whole * 100 + Digit(text.frac, 1) * 10 + Digit(text.frac, 2) + (IF Digit(text.frac, 3) >= 5 THEN 1 ELSE 0)

(* numberToPlainString: a JSON number becomes text of three decimals, the   *)
(* fourth rounding the third.                                               *)
NumberToPlainString(text) ==
    LET mills == text.whole * 1000 + Digit(text.frac, 1) * 100 + Digit(text.frac, 2) * 10 + Digit(text.frac, 3)
                 + (IF Digit(text.frac, 4) >= 5 THEN 1 ELSE 0)
    IN  [whole |-> mills \div 1000, frac |-> <<(mills % 1000) \div 100, (mills % 100) \div 10, mills % 10>>]

-----------------------------------------------------------------------------
(* One calculation per behaviour: a checkout and what crosses the wire for  *)
(* it, an amount the provider reports, or a withdrawal.                     *)

Unset == [at |-> "none"]

Texts == [whole : Naira, frac : UNION {[1..n -> Digits] : n \in 0..MaxDecimals}]

Baskets == UNION {[1..n -> Prices] : n \in 1..MaxDues}

MoneyInit ==
    /\ checkout = Unset
    /\ withdrawal = Unset
    /\ wire = Unset

(* createCheckout prices the basket and spreads its fee over the items.     *)
PriceCheckout(dues) ==
    /\ checkout = Unset /\ withdrawal = Unset /\ wire = Unset
    /\ LET face == SumSeq(dues)
           fee == CheckoutFee(face)
       IN  checkout' = [at |-> "priced", items |-> dues, faceKobo |-> face, feeKobo |-> fee,
                        totalKobo |-> face + fee, feeShares |-> Allocate(fee, dues)]
    /\ UNCHANGED <<withdrawal, wire>>

(* The provider is told what to collect ...                                 *)
SendTotal ==
    /\ checkout # Unset /\ wire = Unset
    /\ wire' = [at |-> "asked", text |-> KoboToDecimal(checkout.totalKobo), number |-> FALSE]
    /\ UNCHANGED <<checkout, withdrawal>>

(* ... and reports it back: two decimals, no trailing zeros, or a number.   *)
ReportTotal(number) ==
    /\ wire # Unset /\ wire.at = "asked"
    /\ LET frac == wire.text.frac
           forms == {frac} \cup (IF frac[2] = 0 THEN {<<frac[1]>>} ELSE {}) \cup (IF frac = <<0, 0>> THEN {<<>>} ELSE {})
       IN  \E f \in forms : wire' = [at |-> "paid", text |-> [wire.text EXCEPT !.frac = f], number |-> number]
    /\ UNCHANGED <<checkout, withdrawal>>

(* Any amount of the provider's, such as what a student really transferred. *)
ReportAmount(text, number) ==
    /\ wire = Unset /\ checkout = Unset /\ withdrawal = Unset
    /\ wire' = [at |-> "other", text |-> text, number |-> number]
    /\ UNCHANGED <<checkout, withdrawal>>

(* What the code makes of it.                                               *)
Kobo == DecimalToKobo(IF wire.number THEN NumberToPlainString(wire.text) ELSE wire.text)

(* requestWithdrawal refuses less than MIN_PAYOUT_KOBO.                     *)
PriceWithdrawal(gross, percent) ==
    /\ withdrawal = Unset /\ gross >= MIN_PAYOUT_KOBO /\ checkout = Unset /\ wire = Unset
    /\ withdrawal' = ComputeWithdrawal(gross, percent)
    /\ UNCHANGED <<checkout, wire>>

MoneyNext ==
    \/ \E dues \in Baskets : PriceCheckout(dues)
    \/ SendTotal
    \/ \E number \in BOOLEAN : ReportTotal(number)
    \/ \E text \in Texts, number \in BOOLEAN : ReportAmount(text, number)
    \/ \E gross \in Gross, percent \in Discounts : PriceWithdrawal(gross, percent)

MoneySpec == MoneyInit /\ [][MoneyNext]_moneyVars

-----------------------------------------------------------------------------
(* The items of a checkout carry exactly its fee: no kobo appears or is     *)
(* lost when the fee is spread over the dues.                               *)
SharesAddUp == checkout # Unset => SumSeq(checkout.feeShares) = checkout.feeKobo

(* ... every due carries its exact share rounded one way or the other, and  *)
(* a dearer due never carries less than a cheaper one.                      *)
SharesAreProportional ==
    checkout # Unset =>
      LET face == checkout.faceKobo
          fee == checkout.feeKobo
          share == checkout.feeShares
          due == checkout.items
      IN  \A i \in DOMAIN due :
            /\ share[i] * face < fee * due[i] + face /\ share[i] * face > fee * due[i] - face
            /\ \A j \in DOMAIN due : due[i] > due[j] => share[i] >= share[j]

(* The rounded 2% is the nearest kobo, a half going up.                     *)
FeeIsNearest ==
    checkout # Unset =>
      LET twice == 2 * 100 * (checkout.feeKobo - CHECKOUT_FEE_FLAT_KOBO) - 2 * CHECKOUT_FEE_PERCENT * checkout.faceKobo
      IN  -100 < twice /\ twice <= 100

(* What is withdrawn is what is sent plus the fee, the fee is never negative *)
(* and something is always sent; the fee before the discount is N100 below  *)
(* N50,000 and N200 from there.                                             *)
WithdrawalAddsUp ==
    withdrawal # Unset =>
      /\ withdrawal.net + withdrawal.fee = withdrawal.gross
      /\ withdrawal.fee >= 0 /\ withdrawal.discount >= 0 /\ withdrawal.net > 0
      /\ withdrawal.fee + withdrawal.discount =
           (IF withdrawal.gross \in MIN_PAYOUT_KOBO..4999999 THEN 10000 ELSE 20000)

(* A total that the provider reports as it was told, in whichever form, is  *)
(* read as the same number of kobo: an exact payment is neither short nor   *)
(* over.                                                                    *)
TotalSurvivesTheWire == wire # Unset /\ wire.at = "paid" => Kobo = checkout.totalKobo

(* Any text is read as the nearest kobo, a half going up, as the comment of *)
(* decimalToKobo says; a JSON number, rounded twice, is less than a kobo    *)
(* off.                                                                     *)
ReadAsNearestKobo ==
    wire # Unset /\ wire.at = "other" =>
      LET frac == wire.text.frac
          exact == wire.text.whole * 1000000 + Digit(frac, 1) * 100000 + Digit(frac, 2) * 10000
                   + Digit(frac, 3) * 1000 + Digit(frac, 4) * 100
          off == 2 * (Kobo * 10000 - exact)
      IN  IF wire.number THEN -20000 < off /\ off < 20000 ELSE -10000 < off /\ off <= 10000

(* No kobo is made or lost: in rounding a fee, in splitting it, in a        *)
(* withdrawal, and on the way to the provider and back (money.ts).          *)
AmountsAddUp ==
    /\ SharesAddUp
    /\ SharesAreProportional
    /\ FeeIsNearest
    /\ WithdrawalAddsUp
    /\ TotalSurvivesTheWire
    /\ ReadAsNearestKobo
============================================================================
