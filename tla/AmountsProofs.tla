--------------------------- MODULE AmountsProofs ---------------------------
(***************************************************************************)
(* Proofs about the amount that is charged for a price: that the closed    *)
(* form of Amounts is what the rounded division and product compute, for   *)
(* every significand of up to 53 bits and every price it holds with a bit  *)
(* to spare, and what that means for the policy.                           *)
(***************************************************************************)
EXTENDS Amounts, WellFoundedInduction, TLAPS

-----------------------------------------------------------------------------
(* Induction, over a set of numbers.                                       *)
LEMMA Induct ==
  ASSUME NEW S \in SUBSET Nat, 0 \in S, \A n \in S : n + 1 \in S
  PROVE  S = Nat
<1> DEFINE Less == {ss \in Nat \X Nat : ss[1] < ss[2]}
           Rest == Nat \ S
<1>1. IsWellFoundedOn(Less, Nat)
  BY NatLessThanWellFounded DEF OpToRel
<1>2. SUFFICES ASSUME Rest # {}
               PROVE  FALSE
  OBVIOUS
<1> HIDE DEF Less
<1>3. PICK m \in Rest : \A n \in Rest : <<n, m>> \notin Less
  BY <1>1, <1>2, WFMin
<1>4. m \in Nat /\ m # 0 /\ m - 1 \in Nat /\ m - 1 < m
  OBVIOUS
<1>5. <<m - 1, m>> \in Less
  BY <1>4 DEF Less
<1>6. m - 1 \in S
  BY <1>3, <1>4, <1>5
<1>7. QED
  BY <1>4, <1>6

(* A function of the numbers that is defined by its first value and a step *)
(* from each value to the next exists.                                     *)
LEMMA Recursion ==
  ASSUME NEW step \in [Nat -> Nat], NEW z \in Nat
  PROVE  \E g \in [Nat -> Nat] :
           g = [n \in Nat |-> IF n = 0 THEN z ELSE step[g[n - 1]]]
<1> DEFINE Follows(g, n) == /\ g[0] = z
                            /\ \A k \in 0 .. n : k < n => g[k + 1] = step[g[k]]
           Upto(n) == {g \in [0 .. n -> Nat] : Follows(g, n)}
           S == {n \in Nat : Upto(n) # {}}
<1>1. S = Nat
  <2>1. 0 \in S
    <3>1. [k \in 0 .. 0 |-> z] \in Upto(0)
      OBVIOUS
    <3>2. QED
      BY <3>1
  <2>2. ASSUME NEW n \in S
        PROVE  n + 1 \in S
    <3>1. n \in Nat /\ Upto(n) # {}
      OBVIOUS
    <3>2. PICK g \in Upto(n) : g \in [0 .. n -> Nat] /\ Follows(g, n)
      BY <3>1
    <3> DEFINE h == [k \in 0 .. n + 1 |-> IF k = n + 1 THEN step[g[n]] ELSE g[k]]
    <3>3. h \in [0 .. n + 1 -> Nat]
      <4> HIDE DEF h
      <4>1. n \in 0 .. n
        BY <3>1
      <4>2. g[n] \in Nat
        BY <3>2, <4>1
      <4>3. \A k \in 0 .. n + 1 : k # n + 1 => k \in 0 .. n
        OBVIOUS
      <4>4. step[g[n]] \in Nat
        BY <4>2
      <4>5. QED
        BY <3>2, <4>3, <4>4 DEF h
    <3>4. h[0] = z
      BY <3>1, <3>2
    <3>5. ASSUME NEW k \in 0 .. n + 1, k < n + 1
          PROVE  h[k + 1] = step[h[k]]
      <4>1. k \in 0 .. n /\ k + 1 \in 0 .. n + 1 /\ k # n + 1
        BY <3>5
      <4>2. CASE k = n
        BY <4>1, <4>2
      <4>3. CASE k < n
        <5>1. g[k + 1] = step[g[k]]
          BY <3>2, <4>1, <4>3
        <5>2. k + 1 # n + 1
          BY <4>3
        <5>3. QED
          BY <4>1, <5>1, <5>2
      <4>4. QED
        BY <4>1, <4>2, <4>3
    <3>6. h \in Upto(n + 1)
      <4> HIDE DEF h
      <4> QED
        BY <3>3, <3>4, <3>5
    <3> HIDE DEF h, Upto
    <3>7. n + 1 \in Nat /\ Upto(n + 1) # {}
      BY <3>1, <3>6
    <3>8. QED
      BY <3>7
  <2> HIDE DEF S
  <2>3. S \in SUBSET Nat
    BY DEF S
  <2>4. QED
    BY <2>1, <2>2, <2>3, Induct
<1> DEFINE Agrees == {k \in Nat : \A n, m \in Nat : \A g \in Upto(n), h \in Upto(m) :
                                    k <= n /\ k <= m => g[k] = h[k]}
<1>2. Agrees = Nat
  <2>1. 0 \in Agrees
    OBVIOUS
  <2>2. ASSUME NEW k \in Agrees
        PROVE  k + 1 \in Agrees
    <3>1. ASSUME NEW n \in Nat, NEW m \in Nat, NEW g \in Upto(n), NEW h \in Upto(m),
                 k + 1 <= n, k + 1 <= m
          PROVE  g[k + 1] = h[k + 1]
      <4>1. k \in Nat /\ k <= n /\ k <= m /\ k \in 0 .. n /\ k \in 0 .. m
              /\ k < n /\ k < m
        BY <3>1
      <4>2. g[k] = h[k]
        BY <4>1
      <4>3. Follows(g, n) /\ Follows(h, m)
        OBVIOUS
      <4>4. g[k + 1] = step[g[k]] /\ h[k + 1] = step[h[k]]
        BY <4>1, <4>3
      <4>5. QED
        BY <4>2, <4>4
    <3>2. k + 1 \in Nat
      OBVIOUS
    <3> HIDE DEF Upto
    <3>3. QED
      BY <3>1, <3>2
  <2> HIDE DEF Agrees
  <2>3. Agrees \in SUBSET Nat
    BY DEF Agrees
  <2>4. QED
    BY <2>1, <2>2, <2>3, Induct
<1> DEFINE Some(n) == CHOOSE g \in Upto(n) : TRUE
           G == [n \in Nat |-> Some(n)[n]]
<1>3. \A n \in Nat : Some(n) \in Upto(n)
  BY <1>1
<1> HIDE DEF Some
<1>4. G \in [Nat -> Nat]
  <2>1. \A n \in Nat : Some(n) \in [0 .. n -> Nat] /\ n \in 0 .. n
    BY <1>3
  <2>2. QED
    BY <2>1
<1>5. G[0] = z
  BY <1>3
<1>6. ASSUME NEW n \in Nat, n # 0
      PROVE  G[n] = step[G[n - 1]]
  <2>1. n - 1 \in Nat /\ (n - 1) + 1 = n /\ n - 1 < n /\ n - 1 \in 0 .. n
    BY <1>6
  <2>2. Some(n)[n] = step[Some(n)[n - 1]]
    <3>1. Follows(Some(n), n)
      BY <1>3
    <3>2. QED
      BY <2>1, <3>1
  <2>3. Some(n)[n - 1] = Some(n - 1)[n - 1]
    <3>1. n - 1 \in Agrees /\ n - 1 <= n /\ n - 1 <= n - 1
      <4> HIDE DEF Agrees
      <4> QED
        BY <1>2, <2>1
    <3>2. Some(n) \in Upto(n) /\ Some(n - 1) \in Upto(n - 1)
      BY <1>3, <2>1
    <3> HIDE DEF Upto
    <3>3. QED
      BY <2>1, <3>1, <3>2
  <2>4. QED
    BY <2>1, <2>2, <2>3
<1>7. G = [n \in Nat |-> IF n = 0 THEN z ELSE step[G[n - 1]]]
  <2> HIDE DEF G
  <2>1. QED
    BY <1>4, <1>5, <1>6
<1> HIDE DEF G
<1>8. QED
  BY <1>4, <1>7

-----------------------------------------------------------------------------
(* Powers of two.                                                          *)
LEMMA Powers ==
  /\ PowerOfTwo \in [Nat -> Nat]
  /\ PowerOfTwo[0] = 1
  /\ \A n \in Nat : PowerOfTwo[n + 1] = 2 * PowerOfTwo[n]
<1> DEFINE step == [x \in Nat |-> 2 * x]
<1>1. step \in [Nat -> Nat]
  OBVIOUS
<1>2. \A x \in Nat : step[x] = 2 * x
  OBVIOUS
<1>3. 1 \in Nat
  OBVIOUS
<1> HIDE DEF step
<1>4. PICK g \in [Nat -> Nat] : g = [n \in Nat |-> IF n = 0 THEN 1 ELSE step[g[n - 1]]]
  BY <1>1, <1>3, Recursion, Zenon
<1>5. g = [n \in Nat |-> IF n = 0 THEN 1 ELSE 2 * g[n - 1]]
  <2>1. \A n \in Nat : n # 0 => n - 1 \in Nat /\ g[n - 1] \in Nat
    OBVIOUS
  <2>2. \A n \in Nat : n # 0 => step[g[n - 1]] = 2 * g[n - 1]
    BY <1>2, <2>1
  <2>3. QED
    BY <1>4, <2>2
<1>6. PowerOfTwo = [n \in Nat |-> IF n = 0 THEN 1 ELSE 2 * PowerOfTwo[n - 1]]
  BY <1>5, Zenon DEF PowerOfTwo
<1>7. PowerOfTwo[0] = 1
  BY <1>6
<1>8. \A n \in Nat : PowerOfTwo[n + 1] = 2 * PowerOfTwo[n]
  BY <1>6
<1>9. \A n \in Nat : PowerOfTwo[n] \in Nat
  <2> DEFINE S == {n \in Nat : PowerOfTwo[n] \in Nat}
  <2>1. 0 \in S
    BY <1>7
  <2>2. \A n \in S : n + 1 \in S
    BY <1>8
  <2> HIDE DEF S
  <2>3. S = Nat
    <3>1. S \in SUBSET Nat
      BY DEF S
    <3>2. QED
      BY <2>1, <2>2, <3>1, Induct
  <2>4. QED
    BY <2>3 DEF S
<1>10. QED
  BY <1>6, <1>7, <1>8, <1>9

LEMMA PowersArePositive ==
  \A n \in Nat : PowerOfTwo[n] \in Nat \ {0}
<1> DEFINE S == {n \in Nat : PowerOfTwo[n] # 0}
<1>1. 0 \in S /\ \A n \in S : n + 1 \in S
  BY Powers
<1> HIDE DEF S
<1>2. S = Nat
  <2>1. S \in SUBSET Nat
    BY DEF S
  <2>2. QED
    BY <1>1, <2>1, Induct
<1>3. QED
  BY <1>2, Powers DEF S

LEMMA PowerOfSum ==
  ASSUME NEW m \in Nat
  PROVE  \A n \in Nat : PowerOfTwo[m + n] = PowerOfTwo[m] * PowerOfTwo[n]
<1> DEFINE S == {n \in Nat : PowerOfTwo[m + n] = PowerOfTwo[m] * PowerOfTwo[n]}
<1>1. 0 \in S
  BY Powers
<1>2. ASSUME NEW n \in S
      PROVE  n + 1 \in S
  <2>1. m + n \in Nat /\ (m + n) + 1 = m + (n + 1)
    OBVIOUS
  <2>2. PowerOfTwo[m + (n + 1)] = 2 * PowerOfTwo[m + n]
    BY <2>1, Powers
  <2>3. PowerOfTwo[n + 1] = 2 * PowerOfTwo[n]
    BY Powers
  <2>4. PowerOfTwo[m] \in Nat /\ PowerOfTwo[n] \in Nat
    BY Powers
  <2>5. \A x, y \in Nat : 2 * (x * y) = x * (2 * y)
    OBVIOUS
  <2>6. QED
    BY <2>2, <2>3, <2>4, <2>5
<1> HIDE DEF S
<1>3. S = Nat
  <2>1. S \in SUBSET Nat
    BY DEF S
  <2>2. QED
    BY <1>1, <1>2, <2>1, Induct
<1>4. QED
  BY <1>3 DEF S

LEMMA PowersGrow ==
  ASSUME NEW m \in Nat, NEW n \in Nat, m <= n
  PROVE  PowerOfTwo[m] <= PowerOfTwo[n]
<1>1. n - m \in Nat /\ n = m + (n - m)
  OBVIOUS
<1>2. PowerOfTwo[n] = PowerOfTwo[m] * PowerOfTwo[n - m]
  BY <1>1, PowerOfSum
<1>3. \A x, y \in Nat \ {0} : x <= x * y
  OBVIOUS
<1>4. QED
  BY <1>1, <1>2, <1>3, PowersArePositive

LEMMA SmallPowers ==
  /\ PowerOfTwo[1] = 2 /\ PowerOfTwo[2] = 4 /\ PowerOfTwo[3] = 8 /\ PowerOfTwo[4] = 16
  /\ PowerOfTwo[5] = 32 /\ PowerOfTwo[6] = 64 /\ PowerOfTwo[7] = 128
<1>1. /\ PowerOfTwo[0 + 1] = 2 * PowerOfTwo[0] /\ PowerOfTwo[1 + 1] = 2 * PowerOfTwo[1]
      /\ PowerOfTwo[2 + 1] = 2 * PowerOfTwo[2] /\ PowerOfTwo[3 + 1] = 2 * PowerOfTwo[3]
      /\ PowerOfTwo[4 + 1] = 2 * PowerOfTwo[4] /\ PowerOfTwo[5 + 1] = 2 * PowerOfTwo[5]
      /\ PowerOfTwo[6 + 1] = 2 * PowerOfTwo[6]
  BY Powers
<1>2. QED
  BY <1>1, Powers

(* The number of bits is the one the bounds say.                           *)
LEMMA BitsOf ==
  ASSUME NEW n \in Nat, NEW b \in 1 .. 64,
         PowerOfTwo[b - 1] <= n, n < PowerOfTwo[b]
  PROVE  Bits(n) = b
<1>1. ASSUME NEW c \in 1 .. 64, PowerOfTwo[c - 1] <= n, n < PowerOfTwo[c]
      PROVE  c = b
  <2>1. /\ b \in Nat /\ c \in Nat /\ b - 1 \in Nat /\ c - 1 \in Nat
        /\ b < c => b <= c - 1
        /\ c < b => c <= b - 1
    OBVIOUS
  <2>2. /\ PowerOfTwo[b] \in Nat /\ PowerOfTwo[c] \in Nat
        /\ PowerOfTwo[b - 1] \in Nat /\ PowerOfTwo[c - 1] \in Nat
    BY <2>1, Powers
  <2>3. ~(b < c)
    <3>1. b < c => PowerOfTwo[b] <= PowerOfTwo[c - 1]
      BY <2>1, PowersGrow
    <3>2. QED
      BY <1>1, <2>2, <3>1
  <2>4. ~(c < b)
    <3>1. c < b => PowerOfTwo[c] <= PowerOfTwo[b - 1]
      BY <2>1, PowersGrow
    <3>2. QED
      BY <1>1, <2>2, <3>1
  <2>5. QED
    BY <2>1, <2>3, <2>4
<1>2. QED
  BY <1>1 DEF Bits

(* A positive number below a power of two has its bits.                    *)
LEMMA BitsExist ==
  ASSUME NEW p \in Nat, p <= 64
  PROVE  \A n \in Nat \ {0} : n < PowerOfTwo[p] =>
           /\ Bits(n) \in 1 .. p
           /\ PowerOfTwo[Bits(n) - 1] <= n
           /\ n < PowerOfTwo[Bits(n)]
<1>1. SUFFICES ASSUME NEW n \in Nat \ {0}, n < PowerOfTwo[p]
               PROVE  \E b \in 1 .. p : PowerOfTwo[b - 1] <= n /\ n < PowerOfTwo[b]
  <2>1. SUFFICES ASSUME NEW n \in Nat \ {0}, n < PowerOfTwo[p]
                 PROVE  /\ Bits(n) \in 1 .. p
                        /\ PowerOfTwo[Bits(n) - 1] <= n
                        /\ n < PowerOfTwo[Bits(n)]
    OBVIOUS
  <2>2. PICK b \in 1 .. p : PowerOfTwo[b - 1] <= n /\ n < PowerOfTwo[b]
    BY <1>1, <2>1
  <2>3. b \in 1 .. 64
    OBVIOUS
  <2>4. Bits(n) = b
    BY <2>2, <2>3, BitsOf
  <2>5. QED
    BY <2>2, <2>4
<1> DEFINE S == {k \in Nat : n < PowerOfTwo[k] =>
                   \E b \in 1 .. k : PowerOfTwo[b - 1] <= n /\ n < PowerOfTwo[b]}
<1>2. 0 \in S
  BY Powers
<1>3. ASSUME NEW k \in S
      PROVE  k + 1 \in S
  <2>1. k \in Nat /\ k + 1 \in 1 .. k + 1 /\ (k + 1) - 1 = k
    OBVIOUS
  <2>2. PowerOfTwo[k] \in Nat
    BY <2>1, Powers
  <2>3. CASE n < PowerOfTwo[k]
    <3>1. PICK b \in 1 .. k : PowerOfTwo[b - 1] <= n /\ n < PowerOfTwo[b]
      BY <2>3
    <3>2. b \in 1 .. k + 1
      BY <2>1
    <3>3. QED
      BY <2>1, <3>1, <3>2
  <2>4. CASE PowerOfTwo[k] <= n
    BY <2>1, <2>4
  <2>5. QED
    BY <2>2, <2>3, <2>4
<1> HIDE DEF S
<1>4. S = Nat
  <2>1. S \in SUBSET Nat
    BY DEF S
  <2>2. QED
    BY <1>2, <1>3, <2>1, Induct
<1>5. QED
  BY <1>1, <1>4 DEF S

-----------------------------------------------------------------------------
(* Division and rounding.                                                  *)
LEMMA Quotient ==
  ASSUME NEW n \in Nat, NEW d \in Nat \ {0}, NEW q \in Nat, NEW s \in Nat,
         s < d, n = q * d + s
  PROVE  n \div d = q /\ n % d = s
<1>1. n \div d = q
  OBVIOUS
<1>2. n % d = s
  OBVIOUS
<1>3. QED
  BY <1>1, <1>2

LEMMA NextMultiple ==
  ASSUME NEW x \in Nat, NEW y \in Nat, NEW w \in Nat, x < y
  PROVE  x * w + w <= y * w
<1>1. y - x \in Nat \ {0} /\ y = x + (y - x)
  OBVIOUS
<1>2. \A z \in Nat \ {0} : x * w + w <= (x + z) * w
  OBVIOUS
<1>3. QED
  BY <1>1, <1>2

LEMMA NearestOf ==
  ASSUME NEW n \in Nat, NEW d \in Nat \ {0}, NEW q \in Nat, NEW s \in Nat,
         s < d, n = q * d + s
  PROVE  Nearest(n, d) = IF 2 * s > d \/ (2 * s = d /\ q % 2 = 1) THEN q + 1 ELSE q
  BY Quotient DEF Nearest

(* The remainders of the powers, and of their multiples.                   *)
LEMMA PowersMod100 ==
  \A n \in Nat : PowerOfTwoMod100[n] = PowerOfTwo[n] % 100
<1> DEFINE step == [x \in Nat |-> (2 * x) % 100]
<1>1. step \in [Nat -> Nat]
  OBVIOUS
<1>2. \A x \in Nat : step[x] = (2 * x) % 100
  OBVIOUS
<1>3. 1 \in Nat
  OBVIOUS
<1> HIDE DEF step
<1>4. PICK g \in [Nat -> Nat] : g = [n \in Nat |-> IF n = 0 THEN 1 ELSE step[g[n - 1]]]
  BY <1>1, <1>3, Recursion, Zenon
<1>5. g = [n \in Nat |-> IF n = 0 THEN 1 ELSE (2 * g[n - 1]) % 100]
  <2>1. \A n \in Nat : n # 0 => n - 1 \in Nat /\ g[n - 1] \in Nat
    OBVIOUS
  <2>2. \A n \in Nat : n # 0 => step[g[n - 1]] = (2 * g[n - 1]) % 100
    BY <1>2, <2>1
  <2>3. QED
    BY <1>4, <2>2
<1>6. PowerOfTwoMod100
        = [n \in Nat |-> IF n = 0 THEN 1 ELSE (2 * PowerOfTwoMod100[n - 1]) % 100]
  BY <1>5, Zenon DEF PowerOfTwoMod100
<1> DEFINE S == {n \in Nat : PowerOfTwoMod100[n] = PowerOfTwo[n] % 100}
<1>7. 0 \in S
  <2>1. PowerOfTwoMod100[0] = 1
    BY <1>6
  <2>2. PowerOfTwo[0] = 1
    BY Powers
  <2>3. 0 \in Nat /\ 1 % 100 = 1
    OBVIOUS
  <2>4. QED
    BY <2>1, <2>2, <2>3, Zenon
<1>8. ASSUME NEW n \in S
      PROVE  n + 1 \in S
  <2>1. PowerOfTwoMod100[n + 1] = (2 * PowerOfTwoMod100[n]) % 100
    BY <1>6
  <2>2. PowerOfTwo[n + 1] = 2 * PowerOfTwo[n] /\ PowerOfTwo[n] \in Nat
    BY Powers
  <2>3. \A x \in Nat : (2 * (x % 100)) % 100 = (2 * x) % 100
    OBVIOUS
  <2>4. QED
    BY <2>1, <2>2, <2>3
<1> HIDE DEF S
<1>9. S = Nat
  <2>1. S \in SUBSET Nat
    BY DEF S
  <2>2. QED
    BY <1>7, <1>8, <2>1, Induct
<1>10. QED
  BY <1>9 DEF S

LEMMA ModOfProduct ==
  ASSUME NEW c \in Nat, NEW x \in Nat
  PROVE  (c * (x % 100)) % 100 = (c * x) % 100
<1> DEFINE q == x \div 100
           s == x % 100
           Q == (c * s) \div 100
           t == (c * s) % 100
<1>1. q \in Nat /\ s \in Nat /\ x = q * 100 + s
  OBVIOUS
<1>2. Q \in Nat /\ t \in Nat /\ t < 100 /\ c * s = Q * 100 + t
  <2> HIDE DEF s
  <2>1. c * s \in Nat
    BY <1>1
  <2>2. QED
    BY <2>1
<1> HIDE DEF q, s, Q, t
<1>3. c * x = (c * q + Q) * 100 + t
  <2>1. c * x = c * (q * 100) + c * s
    BY <1>1
  <2>2. c * (q * 100) = (c * q) * 100
    BY <1>1
  <2>3. c * q \in Nat
    BY <1>1
  <2>4. QED
    BY <1>2, <2>1, <2>2, <2>3
<1>4. c * x \in Nat /\ c * q + Q \in Nat
  BY <1>1, <1>2
<1>5. (c * x) % 100 = t
  BY <1>2, <1>3, <1>4, Quotient
<1>6. QED
  BY <1>5 DEF s, t

-----------------------------------------------------------------------------
(* A number close to a multiple of the unit is rounded to that multiple.   *)
LEMMA NearestOf128 ==
  ASSUME NEW y \in Nat \ {0}, NEW n \in Nat, NEW d \in 0 .. 49, NEW e \in 0 .. 49,
         d = 0 \/ e = 0, n + d = 128 * y + e
  PROVE  Nearest(n, 128) = y
<1>1. CASE d = 0
  <2>1. n = y * 128 + e /\ e < 128 /\ e \in Nat /\ y \in Nat
    BY <1>1
  <2>2. ~(2 * e > 128) /\ 2 * e # 128
    OBVIOUS
  <2>3. QED
    BY <2>1, <2>2, NearestOf
<1>2. CASE d # 0
  <2> DEFINE s == 128 - d
  <2>1. n = (y - 1) * 128 + s /\ s < 128 /\ s \in Nat /\ y - 1 \in Nat /\ 2 * s > 128
    BY <1>2
  <2> HIDE DEF s
  <2>2. Nearest(n, 128) = (y - 1) + 1
    BY <2>1, NearestOf
  <2>3. QED
    BY <2>2
<1>3. QED
  BY <1>1, <1>2

(* Half a unit below or above an even multiple is too.                     *)
LEMMA NearestOf64 ==
  ASSUME NEW y \in Nat \ {0}, y % 2 = 0,
         NEW n \in Nat, NEW d \in 0 .. 49, NEW e \in 0 .. 49,
         d = 0 \/ e = 0, n + d = 64 * y + e
  PROVE  Nearest(n, 64) = IF d > 32 THEN y - 1 ELSE IF e > 32 THEN y + 1 ELSE y
<1>1. CASE d = 0
  <2>1. n = y * 64 + e /\ e < 64 /\ e \in Nat /\ y \in Nat
    BY <1>1
  <2>2. Nearest(n, 64) = IF 2 * e > 64 \/ (2 * e = 64 /\ y % 2 = 1) THEN y + 1 ELSE y
    BY <2>1, NearestOf
  <2>3. QED
    BY <1>1, <2>2
<1>2. CASE d # 0
  <2> DEFINE s == 64 - d
             z == y - 1
  <2>1. n = z * 64 + s /\ s < 64 /\ s \in Nat /\ z \in Nat
    BY <1>2
  <2>2. z % 2 = 1 /\ z + 1 = y /\ e = 0
    BY <1>2
  <2>3. 2 * s > 64 <=> d < 32
    OBVIOUS
  <2>4. 2 * s = 64 <=> d = 32
    OBVIOUS
  <2> HIDE DEF s, z
  <2>5. Nearest(n, 64) = IF 2 * s > 64 \/ (2 * s = 64 /\ z % 2 = 1) THEN z + 1 ELSE z
    BY <2>1, NearestOf
  <2>6. Nearest(n, 64) = IF d > 32 THEN z ELSE y
    BY <2>2, <2>3, <2>4, <2>5
  <2>7. z = y - 1
    BY DEF z
  <2>8. QED
    BY <2>2, <2>6, <2>7
<1>3. QED
  BY <1>1, <1>2

(* The product in units of 64, and what int makes of it.                   *)
LEMMA TruncatedProduct ==
  ASSUME NEW c \in Nat \ {0}, NEW v \in Nat \ {0}, NEW u \in Nat, u = 128 * v,
         NEW n \in Nat, NEW d \in 0 .. 49, NEW e \in 0 .. 49,
         d = 0 \/ e = 0, n + d = c * u + e
  PROVE  (Nearest(n, 64) * 64) \div u = IF d > 32 THEN c - 1 ELSE c
<1> DEFINE y == 2 * (c * v)
<1>1. c * v \in Nat \ {0}
  OBVIOUS
<1>2. y \in Nat \ {0} /\ y % 2 = 0
  <2> DEFINE t == c * v
  <2>1. t \in Nat \ {0}
    BY <1>1
  <2> HIDE DEF t
  <2>2. 2 * t \in Nat \ {0} /\ (2 * t) % 2 = 0
    BY <2>1
  <2>3. QED
    BY <2>2 DEF t
<1>3. c * u = 64 * y
  OBVIOUS
<1>4. u \in Nat \ {0} /\ u >= 128
  OBVIOUS
<1>5. c * u = (c - 1) * u + u /\ c - 1 \in Nat /\ (c - 1) * u \in Nat /\ c * u \in Nat
  BY <1>4
<1> HIDE DEF y
<1>6. Nearest(n, 64) = IF d > 32 THEN y - 1 ELSE IF e > 32 THEN y + 1 ELSE y
  BY <1>2, <1>3, NearestOf64
<1>7. CASE d > 32
  <2> DEFINE s == u - 64
  <2>1. Nearest(n, 64) * 64 = (c - 1) * u + s /\ s \in Nat /\ s < u
    BY <1>2, <1>3, <1>4, <1>5, <1>6, <1>7
  <2> HIDE DEF s
  <2>2. (Nearest(n, 64) * 64) \div u = c - 1
    <3>1. (c - 1) * u + s \in Nat
      BY <1>5, <2>1
    <3>2. QED
      BY <1>4, <1>5, <2>1, <3>1, Quotient
  <2>3. QED
    BY <1>7, <2>2
<1>8. CASE d <= 32 /\ e > 32
  <2> DEFINE N == Nearest(n, 64) * 64
  <2>1. N = c * u + 64 /\ N \in Nat /\ 64 \in Nat /\ 64 < u
    BY <1>2, <1>3, <1>4, <1>5, <1>6, <1>8
  <2> HIDE DEF N
  <2>2. N \div u = c
    BY <1>4, <2>1, Quotient
  <2>3. QED
    BY <1>8, <2>2 DEF N
<1>9. CASE d <= 32 /\ e <= 32
  <2>1. Nearest(n, 64) * 64 = c * u + 0 /\ 0 < u
    BY <1>2, <1>3, <1>4, <1>6, <1>9
  <2>2. (Nearest(n, 64) * 64) \div u = c
    BY <1>4, <1>5, <2>1, Quotient
  <2>3. QED
    BY <1>9, <2>2
<1>10. QED
  BY <1>7, <1>8, <1>9

-----------------------------------------------------------------------------
(* What the two operations compute of a positive price, c cents, whose     *)
(* significand leaves a bit to spare.                                      *)
LEMMA ShiftOf ==
  ASSUME NEW p \in 1 .. 53, NEW c \in Nat \ {0}, c < PowerOfTwo[p - 1]
  PROVE  /\ Bits(c) \in 1 .. p - 1
         /\ PowerOfTwo[Bits(c) - 1] <= c
         /\ c < PowerOfTwo[Bits(c)]
         /\ Shift(c, p) = IF 32 * c < 25 * PowerOfTwo[Bits(c)]
                          THEN (p + 7) - Bits(c) ELSE (p + 6) - Bits(c)
         /\ Shift(c, p) - 7 \in Nat
<1>1. p - 1 \in Nat /\ p - 1 <= 64
  OBVIOUS
<1>2. /\ Bits(c) \in 1 .. p - 1
      /\ PowerOfTwo[Bits(c) - 1] <= c
      /\ c < PowerOfTwo[Bits(c)]
  BY <1>1, BitsExist
<1>3. QED
  BY <1>2 DEF Shift

(* max_total differs from the price by at most 49 hundredths of its last   *)
(* place, d of them below or e above.                                      *)
LEMMA MaxTotalOf ==
  ASSUME NEW c \in Nat \ {0}, NEW k \in Nat, k >= 7
  PROVE  \E d, e \in 0 .. 49 :
           /\ d = 0 \/ e = 0
           /\ 100 * Nearest(c * PowerOfTwo[k], 100) + d = c * PowerOfTwo[k] + e
           /\ d > 32 <=> 32 < (c * PowerOfTwoMod100[k]) % 100
                         /\ (c * PowerOfTwoMod100[k]) % 100 < 50
<1> DEFINE x == c * PowerOfTwo[k]
           q == x \div 100
           r == x % 100
<1>1. \E t \in Nat : x = 4 * t
  <2>1. k - 2 \in Nat /\ k = 2 + (k - 2)
    OBVIOUS
  <2>2. PowerOfTwo[k] = 4 * PowerOfTwo[k - 2] /\ PowerOfTwo[k - 2] \in Nat
    <3>1. PowerOfTwo[2 + (k - 2)] = PowerOfTwo[2] * PowerOfTwo[k - 2]
      BY <2>1, PowerOfSum
    <3>2. QED
      BY <2>1, <3>1, Powers, SmallPowers
  <2>3. \A w \in Nat : c * w \in Nat /\ c * (4 * w) = 4 * (c * w)
    OBVIOUS
  <2>4. QED
    BY <2>2, <2>3
<1>2. (c * PowerOfTwoMod100[k]) % 100 = r
  <2>1. PowerOfTwo[k] \in Nat
    BY Powers
  <2>2. QED
    BY <2>1, PowersMod100, ModOfProduct
<1> HIDE DEF x
<1>3. x \in Nat /\ q \in Nat /\ r \in 0 .. 99 /\ x = q * 100 + r
  BY <1>1
<1>4. r # 50
  <2>1. PICK t \in Nat : x = 4 * t
    BY <1>1
  <2> HIDE DEF q, r
  <2>2. QED
    BY <1>3, <2>1
<1> HIDE DEF q, r
<1>5. Nearest(x, 100) = IF r > 50 THEN q + 1 ELSE q
  <2>1. r \in Nat /\ r < 100 /\ 2 * r # 100 /\ (2 * r > 100 <=> r > 50)
    BY <1>3, <1>4
  <2>2. QED
    BY <1>3, <2>1, NearestOf
<1>6. CASE r < 50
  <2>1. 100 * Nearest(x, 100) + r = x + 0 /\ r \in 0 .. 49
    BY <1>3, <1>5, <1>6
  <2>2. QED
    BY <1>2, <1>6, <2>1 DEF x
<1>7. CASE r > 50
  <2>1. PICK e \in 0 .. 49 : 100 * Nearest(x, 100) + 0 = x + e
    <3>1. 100 * Nearest(x, 100) + 0 = x + (100 - r) /\ 100 - r \in 0 .. 49
      BY <1>3, <1>5, <1>7
    <3>2. QED
      BY <3>1, Zenon
  <2>2. ~(r < 50)
    BY <1>3, <1>7
  <2>3. 0 \in 0 .. 49
    OBVIOUS
  <2>4. 100 * Nearest(c * PowerOfTwo[k], 100) + 0 = c * PowerOfTwo[k] + e
    BY <2>1 DEF x
  <2>5. 0 > 32 <=> 32 < (c * PowerOfTwoMod100[k]) % 100
                   /\ (c * PowerOfTwoMod100[k]) % 100 < 50
    BY <1>2, <2>2
  <2>6. QED
    BY <2>3, <2>4, <2>5
<1>8. r < 50 \/ r > 50
  BY <1>3, <1>4
<1>9. QED
  BY <1>6, <1>7, <1>8, Zenon

LEMMA ExactProduct ==
  ASSUME NEW c \in Nat \ {0}, NEW v \in Nat \ {0}, NEW u \in Nat, u = 128 * v,
         NEW n \in Nat, NEW d \in 0 .. 49, NEW e \in 0 .. 49,
         d = 0 \/ e = 0, n + d = c * u + e
  PROVE  (Nearest(n, 128) * 128) \div u = c
<1> DEFINE y == c * v
           N == Nearest(n, 128) * 128
<1>1. y \in Nat \ {0} /\ c * u = 128 * y
  OBVIOUS
<1> HIDE DEF y
<1>2. Nearest(n, 128) = y
  BY <1>1, NearestOf128
<1>3. N = c * u + 0 /\ N \in Nat /\ 0 \in Nat /\ 0 < u /\ u \in Nat \ {0}
  BY <1>1, <1>2
<1> HIDE DEF N
<1>4. N \div u = c
  BY <1>3, Quotient
<1>5. QED
  BY <1>4 DEF N

(* The closed form of the two rounded operations, for every price.         *)
THEOREM ClosedFormIsExact ==
  ASSUME NEW precision \in 1 .. 53,
         NEW cents \in Nat \ {0}, cents < PowerOfTwo[precision - 1]
  PROVE  AmountAt(cents, precision)
           = IF LosesCent(cents, precision) THEN cents - 1 ELSE cents
<1> DEFINE p == precision
           c == cents
           b == Bits(cents)
           k == Shift(cents, precision)
           u == PowerOfTwo[k]
           v == PowerOfTwo[k - 7]
           n == 100 * Nearest(c * u, 100)
           B == PowerOfTwo[b]
           H == PowerOfTwo[b - 1]
           P == PowerOfTwo[p]
           low == 32 * c < 25 * B
<1>1. /\ b \in 1 .. p - 1 /\ H <= c /\ c < B
      /\ k = IF low THEN (p + 7) - b ELSE (p + 6) - b
      /\ k - 7 \in Nat /\ k \in Nat /\ p \in Nat /\ b \in Nat /\ b - 1 \in Nat
  <2>1. /\ b \in 1 .. p - 1 /\ H <= c /\ c < B
        /\ k = IF low THEN (p + 7) - b ELSE (p + 6) - b
        /\ k - 7 \in Nat
    BY ShiftOf
  <2>2. QED
    BY <2>1
<1>2. PICK d \in 0 .. 49, e \in 0 .. 49 :
        /\ d = 0 \/ e = 0
        /\ n + d = c * u + e
        /\ d > 32 <=> 32 < (c * PowerOfTwoMod100[k]) % 100
                      /\ (c * PowerOfTwoMod100[k]) % 100 < 50
  <2>1. k >= 7
    BY <1>1
  <2>2. QED
    BY <1>1, <2>1, MaxTotalOf
<1>3. LosesCent(cents, precision) <=> d > 32 /\ (~low \/ c = H)
  <2>1. B \in Nat
    BY <1>1, Powers
  <2>2. QED
    BY <1>2, <2>1 DEF LosesCent
<1>4. AmountAt(cents, precision)
        = (Nearest(n, PowerOfTwo[Bits(n) - p]) * PowerOfTwo[Bits(n) - p]) \div u
  BY DEF AmountAt
<1> HIDE DEF k, b
<1>5. u = 128 * v /\ v \in Nat \ {0} /\ u \in Nat
  <2>1. k = 7 + (k - 7)
    BY <1>1
  <2>2. PowerOfTwo[7 + (k - 7)] = PowerOfTwo[7] * v
    BY <1>1, PowerOfSum
  <2>3. QED
    BY <1>1, <2>1, <2>2, SmallPowers, PowersArePositive
<1>6. B = 2 * H /\ H \in Nat \ {0} /\ B \in Nat
  <2>1. b = (b - 1) + 1
    BY <1>1
  <2>2. QED
    BY <1>1, <2>1, Powers, PowersArePositive
<1>7. /\ P \in Nat /\ P >= 4
      /\ PowerOfTwo[p + 5] = 32 * P /\ PowerOfTwo[p + 6] = 64 * P
      /\ PowerOfTwo[p + 7] = 128 * P
  <2>1. P \in Nat \ {0}
    BY <1>1, PowersArePositive
  <2>2. /\ PowerOfTwo[p + 5] = P * PowerOfTwo[5] /\ PowerOfTwo[p + 6] = P * PowerOfTwo[6]
        /\ PowerOfTwo[p + 7] = P * PowerOfTwo[7]
    BY <1>1, PowerOfSum
  <2>3. P >= 4
    <3>1. p = (p - 1) + 1 /\ p - 1 \in Nat
      BY <1>1
    <3>2. P = 2 * PowerOfTwo[p - 1] /\ PowerOfTwo[p - 1] \in Nat
      BY <3>1, Powers
    <3>3. QED
      BY <3>2
  <2>4. QED
    BY <2>1, <2>2, <2>3, SmallPowers
<1>8. B * u = (IF low THEN 128 ELSE 64) * P
  <2>1. b + k = IF low THEN p + 7 ELSE p + 6
    BY <1>1
  <2>2. PowerOfTwo[b + k] = B * u
    BY <1>1, PowerOfSum
  <2>3. QED
    BY <1>7, <2>1, <2>2
<1>9. n \in Nat
  <2>1. c * u \in Nat
    BY <1>5
  <2>2. Nearest(c * u, 100) \in Nat
    BY <2>1 DEF Nearest
  <2>3. QED
    BY <2>2
<1>10. p + 6 \in 1 .. 64 /\ p + 7 \in 1 .. 64 /\ (p + 6) - 1 = p + 5 /\ (p + 7) - 1 = p + 6
       /\ (p + 6) - p = 6 /\ (p + 7) - p = 7
  BY <1>1
<1> HIDE DEF u, v, B, H, P, n
<1>11. ASSUME 32 * P <= n, n < 64 * P
       PROVE  AmountAt(cents, precision) = IF d > 32 THEN c - 1 ELSE c
  <2>1. Bits(n) = p + 6
    <3>1. PowerOfTwo[(p + 6) - 1] <= n /\ n < PowerOfTwo[p + 6]
      BY <1>7, <1>10, <1>11
    <3>2. QED
      BY <1>9, <1>10, <3>1, BitsOf
  <2>2. AmountAt(cents, precision) = (Nearest(n, 64) * 64) \div u
    BY <1>4, <1>10, <2>1, SmallPowers
  <2>3. QED
    BY <1>2, <1>5, <1>9, <2>2, TruncatedProduct
<1>12. ASSUME 64 * P <= n, n < 128 * P
       PROVE  AmountAt(cents, precision) = c
  <2>1. Bits(n) = p + 7
    <3>1. PowerOfTwo[(p + 7) - 1] <= n /\ n < PowerOfTwo[p + 7]
      BY <1>7, <1>10, <1>12
    <3>2. QED
      BY <1>9, <1>10, <3>1, BitsOf
  <2>2. AmountAt(cents, precision) = (Nearest(n, 128) * 128) \div u
    BY <1>4, <1>10, <2>1, SmallPowers
  <2>3. QED
    BY <1>2, <1>5, <1>9, <2>2, ExactProduct
<1>13. c * u \in Nat /\ u >= 128
  BY <1>5
<1>14. CASE low
  <2>1. 2 * (H * u) = 128 * P /\ H * u \in Nat
    <3>1. B * u = 2 * (H * u)
      BY <1>5, <1>6
    <3>2. QED
      BY <1>5, <1>6, <1>8, <1>14, <3>1
  <2>2. c * u < 100 * P
    <3>1. \A x, y \in Nat, w \in Nat \ {0} : 32 * x < 25 * y => 32 * (x * w) < 25 * (y * w)
      OBVIOUS
    <3>2. 32 * (c * u) < 25 * (B * u)
      BY <1>5, <1>6, <1>13, <1>14, <3>1
    <3>3. QED
      BY <1>7, <1>8, <1>13, <1>14, <3>2
  <2>3. CASE c # H
    <3>1. H * u + u <= c * u
      <4>1. H < c
        BY <1>1, <1>6, <2>3
      <4>2. QED
        BY <1>5, <1>6, <4>1, NextMultiple
    <3> DEFINE x == c * u
               h == H * u
    <3>2. /\ x \in Nat /\ h \in Nat /\ n + d = x + e
          /\ 2 * h = 128 * P /\ x < 100 * P /\ h + u <= x
      BY <1>2, <1>13, <2>1, <2>2, <3>1
    <3> HIDE DEF x, h
    <3>3. 64 * P <= n /\ n < 128 * P
      BY <1>5, <1>7, <1>9, <1>13, <3>2
    <3>4. ~LosesCent(cents, precision)
      BY <1>3, <1>14, <2>3
    <3>5. QED
      BY <1>12, <3>3, <3>4
  <2>4. CASE c = H /\ d = 0
    <3>1. 64 * P <= n /\ n < 128 * P
      BY <1>2, <1>7, <1>9, <1>13, <2>1, <2>2, <2>4
    <3>2. ~LosesCent(cents, precision)
      BY <1>3, <2>4
    <3>3. QED
      BY <1>12, <3>1, <3>2
  <2>5. CASE c = H /\ d # 0
    <3>1. 32 * P <= n /\ n < 64 * P
      BY <1>2, <1>7, <1>9, <1>13, <2>1, <2>5
    <3>2. LosesCent(cents, precision) <=> d > 32
      BY <1>3, <2>5
    <3>3. QED
      BY <1>11, <3>1, <3>2
  <2>6. QED
    BY <2>3, <2>4, <2>5
<1>15. CASE ~low
  <2>1. 50 * P <= c * u
    <3>1. \A x, y, w \in Nat : 25 * y <= 32 * x => 25 * (y * w) <= 32 * (x * w)
      OBVIOUS
    <3>2. 25 * B <= 32 * c
      BY <1>6, <1>15
    <3>3. 25 * (B * u) <= 32 * (c * u)
      BY <1>5, <1>6, <3>1, <3>2
    <3>4. QED
      BY <1>7, <1>8, <1>13, <1>15, <3>3
  <2>2. c * u + u <= 64 * P
    <3>1. c * u + u <= B * u
      BY <1>1, <1>5, <1>6, NextMultiple
    <3>2. QED
      BY <1>8, <1>15, <3>1
  <2>3. 32 * P <= n /\ n < 64 * P
    BY <1>2, <1>5, <1>7, <1>9, <1>13, <2>1, <2>2
  <2>4. LosesCent(cents, precision) <=> d > 32
    BY <1>3, <1>15
  <2>5. QED
    BY <1>11, <2>3, <2>4
<1>16. QED
  BY <1>14, <1>15

(* What /intents charges for a price below 2^52 cents is what binary64     *)
(* computes of it.                                                         *)
THEOREM AmountIsComputed ==
  ASSUME NEW cents \in Nat \ {0}, cents < PowerOfTwo[52]
  PROVE  AmountCents(cents) = AmountAt(cents, 53)
<1>1. 53 \in 1 .. 53 /\ 53 - 1 = 52
  OBVIOUS
<1>2. AmountAt(cents, 53) = IF LosesCent(cents, 53) THEN cents - 1 ELSE cents
  BY <1>1, ClosedFormIsExact
<1>3. QED
  BY <1>2 DEF AmountCents

(* An order is reviewed exactly if its price is over $1,000: $1,000.01 is  *)
(* not among the prices that lose a cent.                                  *)
THEOREM ReviewedOverThreshold ==
  ASSUME NEW cents \in Nat
  PROVE  EvaluatePolicy(AmountCents(cents), RiskSignals) = "REVIEW" <=> cents > 100000
<1>1. EvaluatePolicy(AmountCents(cents), RiskSignals) = "REVIEW"
        <=> AmountCents(cents) > 100000
  BY DEF EvaluatePolicy, RiskSignals
<1>2. CASE cents # 100001
  BY <1>1, <1>2 DEF AmountCents
<1>3. CASE cents = 100001
  <2>1. PowerOfTwo[17] = 131072 /\ PowerOfTwo[16] = 65536
    <3>1. /\ PowerOfTwo[7 + 1] = 2 * PowerOfTwo[7] /\ PowerOfTwo[8 + 1] = 2 * PowerOfTwo[8]
          /\ PowerOfTwo[9 + 1] = 2 * PowerOfTwo[9] /\ PowerOfTwo[10 + 1] = 2 * PowerOfTwo[10]
          /\ PowerOfTwo[11 + 1] = 2 * PowerOfTwo[11] /\ PowerOfTwo[12 + 1] = 2 * PowerOfTwo[12]
          /\ PowerOfTwo[13 + 1] = 2 * PowerOfTwo[13] /\ PowerOfTwo[14 + 1] = 2 * PowerOfTwo[14]
          /\ PowerOfTwo[15 + 1] = 2 * PowerOfTwo[15] /\ PowerOfTwo[16 + 1] = 2 * PowerOfTwo[16]
      BY Powers
    <3>2. QED
      BY <3>1, SmallPowers
  <2>2. Bits(cents) = 17
    <3>1. 17 \in 1 .. 64 /\ 17 - 1 = 16
      OBVIOUS
    <3>2. PowerOfTwo[17 - 1] <= cents /\ cents < PowerOfTwo[17]
      BY <1>3, <2>1, <3>1
    <3>3. QED
      BY <3>1, <3>2, BitsOf
  <2>3. ~LosesCent(cents, 53)
    <3>1. 17 - 1 = 16
      OBVIOUS
    <3>2. QED
      BY <1>3, <2>1, <2>2, <3>1 DEF LosesCent
  <2>4. AmountCents(cents) = cents
    BY <2>3 DEF AmountCents
  <2>5. QED
    BY <1>1, <1>3, <2>4
<1>4. QED
  BY <1>2, <1>3
=============================================================================
