------------------------------ MODULE Centimes ------------------------------
(***************************************************************************)
(* The arithmetic on amounts: amountInCentimes, which both services apply  *)
(* to the amount a client writes in dinars, and the platform's fee on a    *)
(* payment.  A written amount is the fraction big.Rat parses: "12.5" is    *)
(* 25/2 and the grammar of big.Rat also takes "25/2".                      *)
(***************************************************************************)
EXTENDS Integers

Divides(d, n) == n % d = 0

GCD(n, d) ==
    CHOOSE g \in 1..d : /\ Divides(g, n) /\ Divides(g, d)
                        /\ \A k \in g+1..d : ~ (Divides(k, n) /\ Divides(k, d))

(***************************************************************************)
(* big.Rat keeps fractions in lowest terms; the numerator of the product   *)
(* by 100 is taken as the number of centimes.                              *)
(***************************************************************************)
Num(n, d) == n \div GCD(n, d)

\* Variant: the fraction is not reduced to the centime before its numerator
\* is taken.
AmountOfDinars(n, d) == 100 * Num(n, d)

AmountInCentimes(n, d) == Num(100 * n, d)

\* Variant: rounded down.
CalculateFeeFloor(amount) == (15 * amount) \div 1000

CalculateFeeCeil(amount) == (15 * amount + 999) \div 1000

MerchantNet(amount) == amount - CalculateFeeCeil(amount)
=============================================================================
