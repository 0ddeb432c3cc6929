------------------------------- MODULE Amounts -------------------------------
(***************************************************************************)
(* Written amounts: what amountInCentimes and calculateFeeCeil do to every *)
(* amount a client may write.                                              *)
(***************************************************************************)
EXTENDS Centimes

CONSTANTS
    Numerators,    \* of the written amounts explored
    Denominators

ASSUME FractionsAssumption == Numerators \subseteq Int /\ Denominators \subseteq Nat \ {0}

-----------------------------------------------------------------------------
(***************************************************************************)
(* A client writes one amount.                                             *)
(***************************************************************************)
VARIABLES numerator, denominator

vars == <<numerator, denominator>>

Init == numerator \in Numerators /\ denominator \in Denominators

Next == UNCHANGED vars

Spec == Init /\ [][Next]_vars

Taken == AmountInCentimes(numerator, denominator)

(***************************************************************************)
(* WholeCentimesAreExact: an amount that is a whole number of centimes is  *)
(* converted to that number.                                               *)
(***************************************************************************)
WholeCentimesAreExact ==
    Divides(denominator, 100 * numerator) =>
        Taken * denominator = 100 * numerator

(***************************************************************************)
(* NeverMoreThanWritten: the centimes taken for an amount are never worth  *)
(* more than the amount; ErrInvalidAmount, "invalid DZD amount"            *)
(* (wallets/service.go:21), is for amounts that cannot be converted.       *)
(***************************************************************************)
NeverMoreThanWritten == Taken * denominator <= 100 * numerator

(***************************************************************************)
(* FeeIsFair: the platform's fee is 1.5% rounded up to the centime: it is  *)
(* never below the rate, less than a centime above it, between nothing and *)
(* the payment itself on either side of zero, and a larger payment never   *)
(* leaves the merchant less.                                               *)
(***************************************************************************)
FeeIsFair(amount) ==
    /\ 1000 * CalculateFeeCeil(amount) >= 15 * amount
    /\ 1000 * CalculateFeeCeil(amount) < 15 * amount + 1000
    /\ amount >= 0 => 0 <= CalculateFeeCeil(amount) /\ CalculateFeeCeil(amount) <= amount
    /\ amount < 0 => amount <= CalculateFeeCeil(amount) /\ CalculateFeeCeil(amount) <= 0
    /\ MerchantNet(amount) <= MerchantNet(amount + 1)

FeesAreFair == FeeIsFair(numerator)
=============================================================================
