\* Every amount n/d written with up to three decimals and the fee
\* of payments up to the largest numerator.
CONSTANTS
    Numerators <- SmallNumerators
    Denominators <- DecimalDenominators
SPECIFICATION Spec
INVARIANTS
    WholeCentimesAreExact
    FeesAreFair
