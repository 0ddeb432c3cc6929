------------------------------ MODULE MCAmounts ------------------------------
(***************************************************************************)
(* Written amounts for TLC: numerators around the multiples of 1000/15     *)
(* where the fee grows, over denominators of up to three decimals.         *)
(***************************************************************************)
EXTENDS Amounts

SmallNumerators == -100..300
DecimalDenominators == {1, 2, 5, 10, 20, 50, 100, 200, 1000}
=============================================================================
