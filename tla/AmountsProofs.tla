---------------------------- MODULE AmountsProofs ----------------------------
(***************************************************************************)
(* The fee rule for every amount, not only those TLC enumerates.           *)
(***************************************************************************)
EXTENDS Amounts, TLAPS

LEMMA CeilingOfThousandths ==
    ASSUME NEW n \in Int
    PROVE  /\ (n + 999) \div 1000 \in Int
           /\ 1000 * ((n + 999) \div 1000) >= n
           /\ 1000 * ((n + 999) \div 1000) < n + 1000
OBVIOUS

(***************************************************************************)
(* calculateFeeCeil charges the ceiling of 1.5%, never further from zero   *)
(* than the payment, and what remains to the merchant grows with it.       *)
(***************************************************************************)
LEMMA FeeRule ==
    ASSUME NEW m \in Int
    PROVE  FeeIsFair(m)
<1> DEFINE fee(a) == (15 * a + 999) \div 1000
<1>1. \A a \in Int : /\ fee(a) \in Int
                     /\ 1000 * fee(a) >= 15 * a
                     /\ 1000 * fee(a) < 15 * a + 1000
  <2> SUFFICES ASSUME NEW a \in Int
               PROVE  /\ fee(a) \in Int
                      /\ 1000 * fee(a) >= 15 * a
                      /\ 1000 * fee(a) < 15 * a + 1000
    OBVIOUS
  <2>1. 15 * a \in Int
    OBVIOUS
  <2> QED
    BY <2>1, CeilingOfThousandths
<1>2. \A a \in Int : CalculateFeeCeil(a) = fee(a)
  BY DEF CalculateFeeCeil
<1> HIDE DEF fee
<1>3. m + 1 \in Int
  OBVIOUS
<1>4. /\ m >= 0 => 0 <= fee(m) /\ fee(m) <= m
      /\ m < 0 => m <= fee(m) /\ fee(m) <= 0
  BY <1>1
<1>5. fee(m + 1) <= fee(m) + 1
  BY <1>1, <1>3
<1>6. m - fee(m) <= m + 1 - fee(m + 1)
  BY <1>1, <1>3, <1>5
<1> DEFINE f == CalculateFeeCeil(m)
           g == CalculateFeeCeil(m + 1)
<1>7. f = fee(m) /\ g = fee(m + 1)
  BY <1>2, <1>3
<1>8. MerchantNet(m) <= MerchantNet(m + 1)
  <2>1. f \in Int /\ g \in Int /\ m - f <= (m + 1) - g
    <3> HIDE DEF f, g
    <3> QED
      BY <1>1, <1>3, <1>6, <1>7
  <2>2. MerchantNet(m) = m - CalculateFeeCeil(m)
    BY DEF MerchantNet
  <2>3. MerchantNet(m + 1) = (m + 1) - CalculateFeeCeil(m + 1)
    BY DEF MerchantNet
  <2> QED
    BY <2>1, <2>2, <2>3
<1>9. 1000 * f >= 15 * m /\ 1000 * f < 15 * m + 1000
  BY <1>1, <1>7
<1>10. /\ m >= 0 => 0 <= f /\ f <= m
       /\ m < 0 => m <= f /\ f <= 0
  BY <1>4, <1>7
<1> HIDE DEF f, g
<1> QED
  BY <1>8, <1>9, <1>10 DEF FeeIsFair, f

(***************************************************************************)
(* Whatever amounts clients write, the fee on them is fair.                *)
(***************************************************************************)
THEOREM FairFees == Spec => []FeesAreFair
<1>1. Init => numerator \in Int
  BY FractionsAssumption DEF Init
<1>2. numerator \in Int /\ [Next]_vars => (numerator \in Int)'
  BY DEF Next, vars
<1>3. numerator \in Int => FeesAreFair
  BY FeeRule DEF FeesAreFair
<1> QED
  BY <1>1, <1>2, <1>3, PTL DEF Spec

-----------------------------------------------------------------------------
(***************************************************************************)
(* When the denominator divides the numerator, it is the greatest common   *)
(* divisor that big.Rat reduces by.                                        *)
(***************************************************************************)
LEMMA DividesItself == ASSUME NEW d \in Nat \ {0} PROVE Divides(d, d)
BY DEF Divides

LEMMA GCDOfMultiple ==
    ASSUME NEW n \in Int, NEW d \in Nat \ {0}, Divides(d, n)
    PROVE  GCD(n, d) = d
<1> DEFINE Greatest(g) == /\ Divides(g, n) /\ Divides(g, d)
                          /\ \A k \in g+1..d : ~ (Divides(k, n) /\ Divides(k, d))
<1>1. Divides(d, d)
  BY DividesItself
<1>2. d \in 1..d /\ Greatest(d)
  BY <1>1
<1>3. ASSUME NEW g \in 1..d, Greatest(g)
      PROVE  g = d
  <2>1. g # d => d \in g+1..d
    OBVIOUS
  <2> QED
    BY <1>1, <1>3, <2>1
<1> HIDE DEF Greatest
<1>4. (CHOOSE g \in 1..d : Greatest(g)) = d
  BY <1>2, <1>3
<1> QED
  BY <1>4 DEF GCD, Greatest

LEMMA ExactQuotient ==
    ASSUME NEW n \in Int, NEW d \in Nat \ {0}, Divides(d, n)
    PROVE  (n \div d) * d = n
BY DEF Divides

(***************************************************************************)
(* WholeCentimesAreExact for every amount a client can write: one that is  *)
(* a whole number of centimes is taken as exactly that number.             *)
(***************************************************************************)
THEOREM ExactCentimes == Spec => []WholeCentimesAreExact
<1> DEFINE Written == numerator \in Int /\ denominator \in Nat \ {0}
<1>1. Init => Written
  BY FractionsAssumption DEF Init
<1>2. Written /\ [Next]_vars => Written'
  BY DEF Next, vars
<1>3. Written => WholeCentimesAreExact
  <2> SUFFICES ASSUME Written, Divides(denominator, 100 * numerator)
               PROVE  Taken * denominator = 100 * numerator
    BY DEF WholeCentimesAreExact
  <2>1. GCD(100 * numerator, denominator) = denominator
    BY GCDOfMultiple
  <2>2. Taken = (100 * numerator) \div denominator
    BY <2>1 DEF Taken, AmountInCentimes, Num
  <2> QED
    BY <2>2, ExactQuotient
<1> QED
  BY <1>1, <1>2, <1>3, PTL DEF Spec
=============================================================================
