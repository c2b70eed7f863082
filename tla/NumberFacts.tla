----------------------------- MODULE NumberFacts -----------------------------
(***************************************************************************)
(* What the proofs of this project need to know of numbers: least and      *)
(* greatest elements, and the remainders that ring indexes are made of.    *)
(***************************************************************************)
EXTENDS Integers, FiniteSets, FiniteSetTheorems, WellFoundedInduction, TLAPS

\* The order in which the minimum below is taken.
LessThan == {p \in Nat \X Nat : p[1] < p[2]}

\* Every non-empty set of natural numbers has a least element.
LEMMA LeastNatural ==
  ASSUME NEW T \in SUBSET Nat, T # {}
  PROVE  \E x \in T : \A y \in T : x <= y
<1>1. OpToRel(<, Nat) = LessThan
  BY Zenon DEF OpToRel, LessThan
<1>2. IsWellFoundedOn(LessThan, Nat)
  BY <1>1, NatLessThanWellFounded, Zenon
<1>3. PICK x \in T : \A y \in T : ~(<<y, x>> \in LessThan)
  BY <1>2, WFMin, Zenon
<1>4. \A y \in T : <<y, x>> \in LessThan <=> y < x
  BY DEF LessThan
<1>5. \A y \in T : x <= y
  <2> TAKE y \in T
  <2>1. x \in Nat /\ y \in Nat
    OBVIOUS
  <2>2. ~(y < x)
    BY <1>3, <1>4, Zenon
  <2> QED
    BY <2>1, <2>2
<1> QED
  BY <1>5

\* Every non-empty set of natural numbers with a bound has a greatest element.
LEMMA GreatestNatural ==
  ASSUME NEW T \in SUBSET Nat, T # {}, NEW b \in Nat, \A x \in T : x <= b
  PROVE  \E x \in T : \A y \in T : y <= x
<1> DEFINE U == {b - x : x \in T}
<1>1. U \in SUBSET Nat /\ U # {}
  <2>1. \A x \in T : b - x \in Nat
    OBVIOUS
  <2>2. U \subseteq Nat
    BY <2>1
  <2> QED
    BY <2>2, Zenon
<1>2. PICK u \in U : \A v \in U : u <= v
  BY <1>1, LeastNatural, Zenon
<1>3. PICK x \in T : u = b - x
  OBVIOUS
<1>4. \A y \in T : b - x <= b - y
  BY <1>2, <1>3
<1> QED
  BY <1>4

------------------------------------------------------------------------------
\* Quotient and remainder.
LEMMA DivMod ==
  ASSUME NEW x \in Int, NEW m \in Nat \ {0}
  PROVE  /\ x \div m \in Int /\ x % m \in 0 .. m - 1
         /\ x = m * (x \div m) + (x % m)
<1>1. x \div m \in Int
  OBVIOUS
<1>2. x % m \in 0 .. m - 1
  OBVIOUS
<1>3. x = m * (x \div m) + (x % m)
  OBVIOUS
<1> QED
  BY <1>1, <1>2, <1>3

\* A number is the remainder of what it differs from by a multiple.
LEMMA ModUnique ==
  ASSUME NEW m \in Nat \ {0}, NEW q \in Int, NEW r \in 0 .. m - 1
  PROVE  (m * q + r) % m = r
<1> DEFINE x == m * q + r
           p == x \div m
           s == x % m
<1>1. x \in Int
  OBVIOUS
<1>2. p \in Int /\ s \in 0 .. m - 1 /\ x = m * p + s
  BY <1>1, DivMod, SMTT(30)
<1>3. m * (q - p) = s - r
  BY <1>1, <1>2
<1>4. CASE q - p >= 1
  <2>1. m * (q - p) >= m
    BY <1>2, <1>4
  <2> QED
    BY <1>2, <1>3, <2>1
<1>5. CASE q - p <= -1
  <2>1. m * (q - p) <= -m
    BY <1>2, <1>5
  <2> QED
    BY <1>2, <1>3, <2>1
<1>6. CASE q - p = 0
  BY <1>2, <1>3, <1>6
<1> QED
  BY <1>2, <1>4, <1>5, <1>6

\* Multiples do not count.
LEMMA ModShift ==
  ASSUME NEW m \in Nat \ {0}, NEW x \in Int, NEW k \in Int
  PROVE  (x + m * k) % m = x % m
<1>1. x \div m \in Int /\ x % m \in 0 .. m - 1 /\ x = m * (x \div m) + (x % m)
  BY DivMod
<1>2. x + m * k = m * ((x \div m) + k) + (x % m)
  BY <1>1
<1>3. (x \div m) + k \in Int
  BY <1>1
<1> QED
  BY <1>1, <1>2, <1>3, ModUnique, Zenon

\* An index may be reduced before something is added to it.
LEMMA ModAdd ==
  ASSUME NEW m \in Nat \ {0}, NEW x \in Int, NEW y \in Int
  PROVE  ((x % m) + y) % m = (x + y) % m
<1>1. x \div m \in Int /\ x % m \in 0 .. m - 1 /\ x = m * (x \div m) + (x % m)
  BY DivMod
<1>2. x + y = ((x % m) + y) + m * (x \div m)
  BY <1>1
<1>3. (x % m) + y \in Int
  BY <1>1
<1> QED
  BY <1>1, <1>2, <1>3, ModShift, ZenonT(30)

\* Two indexes that wrap are as far apart as the numbers they stand for, as
\* long as those are less than the modulus apart.
LEMMA ModDistance ==
  ASSUME NEW m \in Nat \ {0}, NEW x \in Int, NEW y \in Int, x - y \in 0 .. m - 1
  PROVE  ((x % m) - (y % m)) % m = x - y
<1>1. /\ x \div m \in Int /\ x % m \in 0 .. m - 1 /\ x = m * (x \div m) + (x % m)
      /\ y \div m \in Int /\ y % m \in 0 .. m - 1 /\ y = m * (y \div m) + (y % m)
  BY DivMod
<1>2. (x % m) - (y % m) = (x - y) + m * ((y \div m) - (x \div m))
  <2>1. \A p, q \in Int : m * (p - q) = m * p - m * q
    OBVIOUS
  <2>2. m * ((y \div m) - (x \div m)) = m * (y \div m) - m * (x \div m)
    BY <1>1, <2>1
  <2>3. m * (y \div m) = y - (y % m) /\ m * (x \div m) = x - (x % m)
    BY <1>1
  <2> QED
    BY <1>1, <2>2, <2>3
<1>3. (y \div m) - (x \div m) \in Int /\ x - y \in Int
  BY <1>1
<1>4. ((x % m) - (y % m)) % m = (x - y) % m
  BY <1>2, <1>3, ModShift, Zenon
<1>5. x - y = m * 0 + (x - y)
  BY <1>3
<1>6. (x - y) % m = x - y
  BY <1>5, ModUnique
<1> QED
  BY <1>4, <1>6

\* Numbers less than the modulus apart fall on different slots.
LEMMA ModApart ==
  ASSUME NEW m \in Nat \ {0}, NEW x \in Int, NEW y \in Int, x - y \in 1 .. m - 1
  PROVE  x % m # y % m
<1>1. x % m \in Int /\ y % m \in Int
  BY DivMod
<1>2. SUFFICES ASSUME x % m = y % m PROVE FALSE
  OBVIOUS
<1>3. ((x % m) - (y % m)) % m = x - y
  <2>1. x - y \in 0 .. m - 1
    OBVIOUS
  <2> QED
    BY <2>1, ModDistance, Zenon
<1>4. (x % m) - (y % m) = m * 0 + 0
  BY <1>1, <1>2
<1>5. (m * 0 + 0) % m = 0
  BY ModUnique
<1> QED
  BY <1>3, <1>4, <1>5

\* A free-running index selects the slot of the number it stands for, when
\* the slots divide the values it has.
LEMMA ModOfMod ==
  ASSUME NEW m \in Nat \ {0}, NEW c \in Nat \ {0}, m % c = 0, NEW x \in Int
  PROVE  (x % m) % c = x % c
<1>1. /\ x \div m \in Int /\ x % m \in 0 .. m - 1 /\ x = m * (x \div m) + (x % m)
      /\ m \div c \in Int /\ m = c * (m \div c) + (m % c)
  BY DivMod
<1>2. m = c * (m \div c)
  BY <1>1
<1>3. m * (x \div m) = c * ((m \div c) * (x \div m))
  BY <1>1, <1>2
<1>4. x = (x % m) + c * ((m \div c) * (x \div m))
  BY <1>1, <1>3
<1>5. PICK k \in Int : k = (m \div c) * (x \div m)
  BY <1>1
<1>6. x % m \in Int
  BY <1>1
<1>7. ((x % m) + c * k) % c = (x % m) % c
  BY <1>6, ModShift, Zenon
<1> QED
  BY <1>4, <1>5, <1>7, Zenon

------------------------------------------------------------------------------
\* A quotient is known by its remainder.
LEMMA DivUnique ==
  ASSUME NEW m \in Nat \ {0}, NEW q \in Int, NEW r \in 0 .. m - 1
  PROVE  (m * q + r) \div m = q
<1> DEFINE x == m * q + r
           p == x \div m
<1>1. x \in Int
  OBVIOUS
<1>2. p \in Int /\ x % m \in 0 .. m - 1 /\ x = m * p + (x % m)
  BY <1>1, DivMod, SMTT(30)
<1>3. x % m = r
  BY ModUnique
<1>4. x = m * q + r
  OBVIOUS
<1> HIDE DEF x, p
<1>5. m * p = m * q
  BY <1>1, <1>2, <1>3, <1>4
<1>6. p = q
  <2>1. CASE p < q
    <3>1. p + 1 <= q
      BY <1>2, <2>1
    <3>2. m * (p + 1) <= m * q
      BY <1>2, <3>1
    <3>3. m * (p + 1) = m * p + m
      BY <1>2
    <3> QED
      BY <1>2, <1>5, <3>2, <3>3
  <2>2. CASE p > q
    <3>1. q + 1 <= p
      BY <1>2, <2>2
    <3>2. m * (q + 1) <= m * p
      BY <1>2, <3>1
    <3>3. m * (q + 1) = m * q + m
      BY <1>2
    <3> QED
      BY <1>2, <1>5, <3>2, <3>3
  <2> QED
    BY <1>2, <2>1, <2>2
<1> QED
  BY <1>6 DEF p, x

\* Division keeps the order.
LEMMA DivMonotone ==
  ASSUME NEW m \in Nat \ {0}, NEW x \in Int, NEW y \in Int, x <= y
  PROVE  x \div m <= y \div m
<1> DEFINE p == x \div m
           q == y \div m
<1>1. /\ p \in Int /\ x % m \in 0 .. m - 1 /\ x = m * p + (x % m)
      /\ q \in Int /\ y % m \in 0 .. m - 1 /\ y = m * q + (y % m)
  BY DivMod
<1> HIDE DEF p, q
<1>2. ASSUME q < p PROVE FALSE
  <2>1. q + 1 <= p
    BY <1>1, <1>2
  <2>2. m * (q + 1) <= m * p
    BY <1>1, <2>1
  <2>3. m * (q + 1) = m * q + m
    BY <1>1
  <2>4. m * p \in Int /\ m * q \in Int
    BY <1>1
  <2>5. y < m * q + m /\ m * p <= x
    BY <1>1, <2>4
  <2> QED
    BY <2>2, <2>3, <2>4, <2>5
<1>3. p <= q
  BY <1>1, <1>2
<1> QED
  BY <1>3 DEF p, q

\* Numbers below n * m have quotients below n.
LEMMA DivBelow ==
  ASSUME NEW m \in Nat \ {0}, NEW n \in Nat, NEW x \in 0 .. n * m - 1
  PROVE  x \div m \in 0 .. n - 1
<1> DEFINE p == x \div m
<1>1. x \in Int /\ n * m \in Int
  OBVIOUS
<1>2. p \in Int /\ x % m \in 0 .. m - 1 /\ x = m * p + (x % m)
  BY <1>1, DivMod
<1> HIDE DEF p
<1>3. m * p \in Int /\ n * m = m * n
  BY <1>2
<1>4. ASSUME p < 0 PROVE FALSE
  <2>1. p + 1 <= 0
    BY <1>2, <1>4
  <2>2. m * (p + 1) <= m * 0
    BY <1>2, <2>1
  <2>3. m * (p + 1) = m * p + m /\ m * 0 = 0
    BY <1>2
  <2> QED
    BY <1>1, <1>2, <1>3, <2>2, <2>3
<1>5. ASSUME n <= p PROVE FALSE
  <2>1. m * n <= m * p
    BY <1>2, <1>5
  <2> QED
    BY <1>1, <1>2, <1>3, <2>1
<1>6. p \in 0 .. n - 1
  BY <1>2, <1>4, <1>5
<1> QED
  BY <1>6 DEF p
==============================================================================
