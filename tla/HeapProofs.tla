----------------------------- MODULE HeapProofs -----------------------------
(***************************************************************************)
(* Proofs about Heap, for a heap of any size, granules of any size, and    *)
(* any order of allocating and freeing blocks of any layout.  The list is  *)
(* seen as the set H of its holes: an allocation carves a block out of one *)
(* of them (Carved), a block given back is joined with what it touches     *)
(* (Joined), and in between the granules are shared out between H and the  *)
(* live blocks (Books).                                                    *)
(***************************************************************************)
EXTENDS Heap, NumberFacts

-----------------------------------------------------------------------------
(* Whole numbers of granules.                                              *)

\* A whole number of granules.
Whole(x) == x \in Nat /\ x % GRANULE = 0

\* Sums and differences of whole numbers of granules are whole.
LEMMA WholeSum ==
  ASSUME HeapAssumption, NEW x, NEW y, Whole(x), Whole(y)
  PROVE  Whole(x + y) /\ (y <= x => Whole(x - y))
<1>1. x \in Nat /\ y \in Nat /\ x % GRANULE = 0 /\ y % GRANULE = 0 /\ GRANULE \in Nat \ {0}
  BY Zenon DEF Whole, HeapAssumption
<1> DEFINE p == x \div GRANULE
           q == y \div GRANULE
<1>2. p \in Int /\ q \in Int /\ x = GRANULE * p + (x % GRANULE) /\ y = GRANULE * q + (y % GRANULE)
  BY <1>1, DivMod
<1> HIDE DEF p, q
<1>3. x + y = GRANULE * (p + q) + 0 /\ x - y = GRANULE * (p - q) + 0
  BY <1>1, <1>2
<1>4. p + q \in Int /\ p - q \in Int /\ 0 \in 0 .. GRANULE - 1
  BY <1>1, <1>2
<1>5. (x + y) % GRANULE = 0 /\ (x - y) % GRANULE = 0
  <2>1. (GRANULE * (p + q) + 0) % GRANULE = 0
    BY <1>1, <1>4, ModUnique, Zenon
  <2>2. (GRANULE * (p - q) + 0) % GRANULE = 0
    BY <1>1, <1>4, ModUnique, Zenon
  <2> QED
    BY <1>3, <2>1, <2>2, Zenon
<1>6. x + y \in Nat /\ (y <= x => x - y \in Nat)
  BY <1>1
<1> QED
  BY <1>5, <1>6, Zenon DEF Whole

\* Two different ones are a granule apart.
LEMMA WholeApart ==
  ASSUME HeapAssumption, NEW x, NEW y, Whole(x), Whole(y), x < y
  PROVE  x + GRANULE <= y
<1>1. x \in Nat /\ y \in Nat /\ x % GRANULE = 0 /\ y % GRANULE = 0 /\ GRANULE \in Nat \ {0}
  BY Zenon DEF Whole, HeapAssumption
<1>2. SUFFICES ASSUME y < x + GRANULE PROVE FALSE
  BY <1>1
<1>3. y - x \in 1 .. GRANULE - 1 /\ x \in Int /\ y \in Int
  BY <1>1, <1>2
<1>4. y % GRANULE # x % GRANULE
  BY <1>1, <1>3, ModApart, Zenon
<1> QED
  BY <1>1, <1>4, Zenon

\* Rounding up to a multiple.
LEMMA RoundedUp ==
  ASSUME NEW n \in Nat, NEW m \in Nat \ {0}
  PROVE  /\ next_multiple_of(n, m) \in Nat
         /\ n <= next_multiple_of(n, m)
         /\ next_multiple_of(n, m) < n + m
         /\ next_multiple_of(n, m) % m = 0
<1> DEFINE q == (n + m - 1) \div m
           r == (n + m - 1) % m
<1>1. n + m - 1 \in Int
  OBVIOUS
<1>2. q \in Int /\ r \in 0 .. m - 1 /\ n + m - 1 = m * q + r
  BY <1>1, DivMod, Zenon
<1>3. next_multiple_of(n, m) = q * m
  BY Zenon DEF next_multiple_of
<1> HIDE DEF q, r
<1>4. q * m = m * q + 0 /\ 0 \in 0 .. m - 1
  BY <1>2
<1>5. (m * q + 0) % m = 0
  BY <1>2, <1>4, ModUnique, Zenon
<1>6. m * q \in Int
  BY <1>2
<1>7. q * m = (n + m - 1) - r
  BY <1>2, <1>4, <1>6
<1> QED
  BY <1>2, <1>3, <1>4, <1>5, <1>7

\* A block is a positive number of granules.
LEMMA BlockSize ==
  ASSUME HeapAssumption, NEW layout \in Layouts
  PROVE  Whole(block_size(layout)) /\ block_size(layout) >= GRANULE
<1>1. GRANULE \in Nat \ {0} /\ layout.size \in Nat
  BY Zenon DEF HeapAssumption
<1>2. Larger(layout.size, 1) \in Nat /\ Larger(layout.size, 1) >= 1
  BY <1>1 DEF Larger
<1> DEFINE s == next_multiple_of(Larger(layout.size, 1), GRANULE)
<1>3. s \in Nat /\ Larger(layout.size, 1) <= s /\ s % GRANULE = 0
  BY <1>1, <1>2, RoundedUp, Zenon
<1>4. block_size(layout) = s
  BY Zenon DEF block_size
<1> HIDE DEF s
<1>5. Whole(0) /\ Whole(s) /\ 0 < s
  <2>1. (GRANULE * 0 + 0) % GRANULE = 0
    BY <1>1, ModUnique
  <2>2. GRANULE * 0 + 0 = 0
    BY <1>1
  <2>3. 0 < s
    BY <1>2, <1>3
  <2> QED
    BY <2>1, <2>2, <2>3, <1>3, Zenon DEF Whole
<1>6. 0 + GRANULE <= s
  BY <1>5, WholeApart, Zenon
<1> QED
  BY <1>1, <1>3, <1>4, <1>5, <1>6

\* A block starts on a granule, and is aligned as asked.
LEMMA BlockAligned ==
  ASSUME HeapAssumption, NEW layout \in Layouts, NEW h \in Nat
  PROVE  LET block == next_multiple_of(h, Larger(layout.align, GRANULE))
         IN  Whole(block) /\ h <= block /\ block % layout.align = 0
<1> DEFINE a == layout.align
           m == Larger(a, GRANULE)
           b == next_multiple_of(h, m)
<1>1. GRANULE \in Nat \ {0} /\ a \in Nat \ {0} /\ (a % GRANULE = 0 \/ GRANULE % a = 0)
  BY Zenon DEF HeapAssumption
<1> HIDE DEF a
<1>2. m \in Nat \ {0} /\ m >= a /\ m >= GRANULE /\ (m = a \/ m = GRANULE)
  BY <1>1 DEF Larger
<1> HIDE DEF m
<1>3. b \in Nat /\ h <= b /\ b % m = 0
  BY <1>2, RoundedUp, Zenon
<1> HIDE DEF b
<1>4. \A k \in Nat \ {0} : m % k = 0 => b % k = 0
  <2> SUFFICES ASSUME NEW k \in Nat \ {0}, m % k = 0 PROVE b % k = 0
    BY Zenon
  <2>1. (b % m) % k = b % k
    <3>1. m \in Nat \ {0} /\ b \in Int
      BY <1>2, <1>3
    <3> QED
      BY <3>1, ModOfMod, Zenon
  <2>2. 0 % k = 0
    <3>1. (k * 0 + 0) % k = 0
      BY ModUnique
    <3> QED
      BY <3>1
  <2> QED
    BY <1>3, <2>1, <2>2, Zenon
<1>5. \A k \in Nat \ {0} : k % k = 0
  <2> TAKE k \in Nat \ {0}
  <2>1. (k * 1 + 0) % k = 0
    BY ModUnique
  <2> QED
    BY <2>1
<1>6. \A x, y \in Nat \ {0} : x % y = 0 => y <= x
  <2> SUFFICES ASSUME NEW x \in Nat \ {0}, NEW y \in Nat \ {0}, x % y = 0, x < y PROVE FALSE
    OBVIOUS
  <2>1. (y * 0 + x) % y = x
    BY ModUnique
  <2> QED
    BY <2>1
<1>7. m % a = 0 /\ m % GRANULE = 0
  <2>1. CASE a % GRANULE = 0
    <3>1. GRANULE <= a
      BY <1>1, <1>6, <2>1, Zenon
    <3>2. m = a
      BY <1>1, <1>2, <3>1
    <3> QED
      BY <1>1, <1>5, <2>1, <3>2, Zenon
  <2>2. CASE GRANULE % a = 0
    <3>1. a <= GRANULE
      BY <1>1, <1>6, <2>2, Zenon
    <3>2. m = GRANULE
      BY <1>1, <1>2, <3>1
    <3> QED
      BY <1>1, <1>5, <2>2, <3>2, Zenon
  <2> QED
    BY <1>1, <2>1, <2>2, Zenon
<1>8. b % a = 0 /\ b % GRANULE = 0
  BY <1>1, <1>4, <1>7, Zenon
<1> QED
  BY <1>3, <1>8, Zenon DEF Whole, a, m, b

-----------------------------------------------------------------------------
(* Functions defined by recursion on the natural numbers exist.            *)

\* A function that starts with x and takes each value from the one before.
Follows(f, x, step) == f[0] = x /\ \A n \in Nat : n # 0 => f[n] = step[n][f[n - 1]]

\* There is such a function, whatever the steps are.
LEMMA Recursion ==
  ASSUME NEW x \in Int, NEW step \in [Nat -> [Int -> Int]]
  PROVE  \E f \in [Nat -> Int] : Follows(f, x, step)
<1> DEFINE Good(n, f) == /\ f \in [0 .. n -> Int] /\ f[0] = x
                         /\ \A i \in 1 .. n : f[i] = step[i][f[i - 1]]
<1>1. \A n \in Nat : \E f : Good(n, f)
  <2> DEFINE Bad == {n \in Nat : ~\E f : Good(n, f)}
  <2>1. SUFFICES ASSUME Bad # {} PROVE FALSE
    BY Zenon
  <2>2. PICK n \in Bad : \A k \in Bad : n <= k
    <3>1. Bad \in SUBSET Nat
      BY Zenon
    <3> HIDE DEF Bad
    <3> QED
      BY <2>1, <3>1, LeastNatural, Zenon
  <2>3. n # 0
    <3>1. SUFFICES ASSUME n = 0 PROVE FALSE
      BY Zenon
    <3>2. Good(0, [i \in 0 .. 0 |-> x])
      OBVIOUS
    <3> QED
      BY <2>2, <3>1, <3>2, Zenon
  <2>4. n \in Nat /\ n - 1 \in Nat /\ n - 1 \notin Bad
    <3>1. n \in Nat
      BY <2>2, Zenon
    <3> HIDE DEF Bad
    <3> QED
      BY <2>2, <2>3, <3>1
  <2>5. PICK f : Good(n - 1, f)
    <3> HIDE DEF Good
    <3> QED
      BY <2>4, Zenon
  <2> DEFINE g == [i \in 0 .. n |-> IF i = n THEN step[n][f[n - 1]] ELSE f[i]]
  <2>6. step[n][f[n - 1]] \in Int
    <3>1. n - 1 \in 0 .. n - 1
      BY <2>4
    <3>2. f[n - 1] \in Int
      BY <2>5, <3>1, Zenon
    <3> QED
      BY <2>4, <3>2, Zenon
  <2>7. Good(n, g)
    <3>1. g \in [0 .. n -> Int]
      BY <2>4, <2>5, <2>6
    <3>2. g[0] = x
      BY <2>3, <2>4, <2>5
    <3>3. ASSUME NEW i \in 1 .. n PROVE g[i] = step[i][g[i - 1]]
      <4>1. CASE i = n
        BY <2>3, <2>4, <4>1
      <4>2. CASE i # n
        <5>1. i \in 1 .. n - 1 /\ i - 1 \in 0 .. n /\ i \in 0 .. n /\ i - 1 # n
          BY <2>4, <4>2
        <5>2. f[i] = step[i][f[i - 1]]
          BY <2>5, <5>1, Zenon
        <5> QED
          BY <4>2, <5>1, <5>2, Zenon
      <4> QED
        BY <4>1, <4>2, Zenon
    <3> QED
      BY <3>1, <3>2, <3>3, Zenon
  <2> QED
    BY <2>2, <2>7, Zenon
<1>2. \A k \in Nat : \A f, g : \A m, n \in Nat :
        k <= m /\ k <= n /\ Good(m, f) /\ Good(n, g) => f[k] = g[k]
  <2> DEFINE Bad == {k \in Nat : \E f, g : \E m, n \in Nat :
                        k <= m /\ k <= n /\ Good(m, f) /\ Good(n, g) /\ f[k] # g[k]}
  <2>1. SUFFICES ASSUME Bad # {} PROVE FALSE
    <3> HIDE DEF Good
    <3> QED
      BY Zenon
  <2>2. PICK k \in Bad : \A j \in Bad : k <= j
    <3>1. Bad \in SUBSET Nat
      BY Zenon
    <3> HIDE DEF Bad
    <3> QED
      BY <2>1, <3>1, LeastNatural, Zenon
  <2>3. PICK f, g : \E m, n \in Nat :
            k <= m /\ k <= n /\ Good(m, f) /\ Good(n, g) /\ f[k] # g[k]
    BY <2>2, Zenon
  <2>4. PICK m \in Nat, n \in Nat :
            k <= m /\ k <= n /\ Good(m, f) /\ Good(n, g) /\ f[k] # g[k]
    BY <2>3, Zenon
  <2>5. k # 0
    BY <2>4, Zenon
  <2>6. k \in Nat /\ k - 1 \in Nat /\ k - 1 \notin Bad /\ k - 1 <= m /\ k - 1 <= n
        /\ k \in 1 .. m /\ k \in 1 .. n
    <3>1. k \in Nat
      BY <2>2, Zenon
    <3> HIDE DEF Bad, Good
    <3> QED
      BY <2>2, <2>4, <2>5, <3>1
  <2>7. f[k - 1] = g[k - 1]
    <3> HIDE DEF Good
    <3> QED
      BY <2>4, <2>6, Zenon
  <2>8. f[k] = step[k][f[k - 1]] /\ g[k] = step[k][g[k - 1]]
    BY <2>4, <2>6, Zenon
  <2> QED
    BY <2>4, <2>7, <2>8, Zenon
<1> DEFINE part(n) == CHOOSE f : Good(n, f)
           F == [n \in Nat |-> part(n)[n]]
<1>3. \A n \in Nat : Good(n, part(n))
  BY <1>1, Zenon
<1>4. ASSUME NEW n \in Nat PROVE F[n] \in Int /\ F[n] = IF n = 0 THEN x ELSE step[n][F[n - 1]]
  <2>1. F[n] = part(n)[n]
    <3> HIDE DEF part
    <3> QED
      BY Zenon
  <2>2. F[n] \in Int
    <3>1. Good(n, part(n))
      BY <1>3, Zenon
    <3> HIDE DEF part, F
    <3> QED
      BY <2>1, <3>1
  <2>3. CASE n = 0
    <3>1. part(0)[0] = x
      BY <1>3, Zenon
    <3> QED
      BY <2>2, <2>3, <3>1, Zenon
  <2>4. CASE n # 0
    <3>1. n - 1 \in Nat /\ n \in 1 .. n /\ n - 1 <= n /\ n - 1 <= n - 1
      BY <2>4
    <3>2. Good(n, part(n)) /\ Good(n - 1, part(n - 1))
      BY <1>3, <3>1, Zenon
    <3>3. part(n)[n] = step[n][part(n)[n - 1]]
      <4> HIDE DEF part
      <4> QED
        BY <3>1, <3>2, Zenon
    <3>4. part(n)[n - 1] = part(n - 1)[n - 1]
      <4> HIDE DEF part, Good
      <4> QED
        BY <1>2, <3>1, <3>2, Zenon
    <3>5. F[n - 1] = part(n - 1)[n - 1]
      <4> HIDE DEF part
      <4> QED
        BY <3>1, Zenon
    <3> HIDE DEF F, part
    <3> QED
      BY <2>1, <2>2, <2>4, <3>3, <3>4, <3>5, Zenon
  <2> QED
    BY <2>3, <2>4, Zenon
<1>5. F \in [Nat -> Int]
  <2>1. \A n \in Nat : part(n)[n] \in Int
    <3> HIDE DEF part
    <3> QED
      BY <1>4, Zenon
  <2> HIDE DEF part
  <2> QED
    BY <2>1, Zenon
<1> HIDE DEF F
<1>6. F[0] = x /\ \A n \in Nat : n # 0 => F[n] = step[n][F[n - 1]]
  BY <1>4, Zenon
<1> QED
  BY <1>5, <1>6, Zenon DEF Follows

-----------------------------------------------------------------------------
(* The free list as a set of holes.                                        *)

\* y is the first of H behind x, or 0 when there is none.
IsNext(H, x, y) ==
    \/ y = 0 /\ \A g \in H : g <= x
    \/ y \in H /\ x < y /\ \A g \in H : g <= x \/ y <= g

\* The headers m lead from `first` through H in the order of addresses.
Linked(H, first, m) == IsNext(H, 0, first) /\ \A h \in H : IsNext(H, h, m[h].next)

\* The holes are of whole granules, end in the heap, and do not touch.
Sized(H, m, to) == \A h \in H : Whole(m[h].size) /\ m[h].size >= GRANULE /\ h + m[h].size <= to
\* No hole reaches to the next one: those that touched were joined.
HolesApart(H, m) == \A g, h \in H : g < h => g + m[g].size < h

\* H is what the list holds.
Chain(H, first, m, from, to) ==
    /\ H \subseteq Granules(from, to)
    /\ Linked(H, first, m)
    /\ Sized(H, m, to)
    /\ HolesApart(H, m)

\* The values of the variables that are numbers, and the headers.
Types ==
    /\ Whole(start) /\ start # 0 /\ Whole(end) /\ start <= end
    /\ head \in Int /\ free \in Int
    /\ hole \in [Granules(start, end) -> [size : Int, next : Int]]

\* `Nth` follows the links of the headers.
LEMMA NthIs ==
  ASSUME head \in Int, hole \in [DOMAIN hole -> [size : Int, next : Int]]
  PROVE  /\ Nth[0] = head
         /\ \A n \in Nat : Nth[n + 1] = IF Nth[n] \in DOMAIN hole THEN hole[Nth[n]].next ELSE 0
<1> DEFINE step == [n \in Nat |-> [g \in Int |-> IF g \in DOMAIN hole THEN hole[g].next ELSE 0]]
           Is(f) == f = [n \in Nat |-> IF n = 0 THEN head
                         ELSE IF f[n - 1] \in DOMAIN hole THEN hole[f[n - 1]].next ELSE 0]
<1>1. \A g \in DOMAIN hole : hole[g].next \in Int
  BY Zenon
<1>2. step \in [Nat -> [Int -> Int]]
  BY <1>1
<1>3. PICK f \in [Nat -> Int] :
          f[0] = head /\ \A n \in Nat : n # 0 => f[n] = step[n][f[n - 1]]
  <2> HIDE DEF step, Is
  <2>1. head \in Int
    BY Zenon
  <2>2. \E f \in [Nat -> Int] : Follows(f, head, step)
    BY <1>2, <2>1, Recursion, Zenon
  <2> QED
    BY <2>2, Zenon DEF Follows
<1>4. ASSUME NEW n \in Nat
      PROVE  f[n] = IF n = 0 THEN head
                    ELSE IF f[n - 1] \in DOMAIN hole THEN hole[f[n - 1]].next ELSE 0
  <2>1. CASE n = 0
    BY <1>3, <2>1, Zenon
  <2>2. CASE n # 0
    <3>1. n - 1 \in Nat /\ f[n - 1] \in Int
      BY <2>2
    <3>2. f[n] = step[n][f[n - 1]]
      BY <1>3, <2>2, Zenon
    <3> QED
      BY <2>2, <3>1, <3>2, Zenon
  <2> QED
    BY <2>1, <2>2, Zenon
<1>5. Is(f)
  <2>1. f = [n \in Nat |-> f[n]]
    BY Zenon
  <2> QED
    BY <1>4, <2>1, Zenon
<1>6. Nth = CHOOSE g : Is(g)
  BY Zenon DEF Nth
<1>7. Is(Nth)
  <2> HIDE DEF Is
  <2> QED
    BY <1>5, <1>6, Zenon
<1>8. ASSUME NEW n \in Nat
      PROVE  Nth[n + 1] = IF Nth[n] \in DOMAIN hole THEN hole[Nth[n]].next ELSE 0
  <2>1. n + 1 \in Nat /\ n + 1 # 0 /\ (n + 1) - 1 = n
    OBVIOUS
  <2> QED
    BY <1>7, <2>1, Zenon
<1>9. Nth[0] = head
  BY <1>7, Zenon
<1> QED
  BY <1>8, <1>9, Zenon


\* What the list leads to is in the set, in its order.
LEMMA NthInChain ==
  ASSUME HeapAssumption, Types, NEW H, Chain(H, head, hole, start, end)
  PROVE  /\ H \subseteq Nat \ {0} /\ H \subseteq DOMAIN hole /\ H \subseteq Granules(start, end)
         /\ \A n \in Nat : Nth[n] \in H \cup {0}
         /\ IsNext(H, 0, Nth[0])
         /\ \A n \in Nat : /\ Nth[n] # 0 => /\ IsNext(H, Nth[n], Nth[n + 1])
                                            /\ Nth[n + 1] = hole[Nth[n]].next
                           /\ Nth[n] = 0 => Nth[n + 1] = 0
<1>1. /\ H \subseteq Granules(start, end) /\ IsNext(H, 0, head)
      /\ \A h \in H : IsNext(H, h, hole[h].next)
  BY Zenon DEF Chain, Linked
<1>2. /\ start \in Nat \ {0} /\ end \in Nat /\ head \in Int
      /\ DOMAIN hole = Granules(start, end)
      /\ hole \in [DOMAIN hole -> [size : Int, next : Int]]
  BY Zenon DEF Types, Whole
<1>3. Granules(start, end) \subseteq Nat \ {0}
  BY <1>2 DEF Granules
<1>4. /\ Nth[0] = head
      /\ \A n \in Nat : Nth[n + 1] = IF Nth[n] \in DOMAIN hole THEN hole[Nth[n]].next ELSE 0
  BY <1>2, NthIs, Zenon
<1>5. H \subseteq Nat \ {0} /\ H \subseteq DOMAIN hole /\ 0 \notin DOMAIN hole
  BY <1>1, <1>2, <1>3, Zenon
<1>6. \A x, y : IsNext(H, x, y) => y \in H \cup {0}
  BY Zenon DEF IsNext
<1>7. \A n \in Nat : Nth[n] \in H \cup {0}
  <2> DEFINE Bad == {n \in Nat : Nth[n] \notin H \cup {0}}
  <2>1. SUFFICES ASSUME Bad # {} PROVE FALSE
    BY Zenon
  <2>2. PICK n \in Bad : \A k \in Bad : n <= k
    <3>1. Bad \in SUBSET Nat
      BY Zenon
    <3> HIDE DEF Bad
    <3> QED
      BY <2>1, <3>1, LeastNatural, Zenon
  <2>3. n # 0
    BY <1>1, <1>4, <1>6, Zenon
  <2>4. n \in Nat /\ n - 1 \in Nat /\ n = (n - 1) + 1 /\ Nth[n - 1] \in H \cup {0}
    BY <2>2, <2>3
  <2>5. Nth[n] = IF Nth[n - 1] \in DOMAIN hole THEN hole[Nth[n - 1]].next ELSE 0
    BY <1>4, <2>4, Zenon
  <2>6. Nth[n] \in H \cup {0}
    BY <1>1, <1>5, <1>6, <2>4, <2>5, Zenon
  <2> QED
    BY <2>2, <2>6, Zenon
<1>8. ASSUME NEW n \in Nat
      PROVE  /\ Nth[n] # 0 => /\ IsNext(H, Nth[n], Nth[n + 1])
                              /\ Nth[n + 1] = hole[Nth[n]].next
             /\ Nth[n] = 0 => Nth[n + 1] = 0
  <2>1. Nth[n + 1] = IF Nth[n] \in DOMAIN hole THEN hole[Nth[n]].next ELSE 0
    BY <1>4, Zenon
  <2>2. Nth[n] \in H \cup {0}
    BY <1>7, Zenon
  <2>3. CASE Nth[n] = 0
    BY <1>5, <2>1, <2>3, Zenon
  <2>4. CASE Nth[n] # 0
    <3>1. Nth[n] \in H /\ Nth[n] \in DOMAIN hole
      BY <1>5, <2>2, <2>4, Zenon
    <3> QED
      BY <1>1, <2>1, <2>4, <3>1, Zenon
  <2> QED
    BY <2>3, <2>4, Zenon
<1> QED
  BY <1>1, <1>4, <1>5, <1>7, <1>8, Zenon

\* There is only one next hole.
LEMMA NextUnique ==
  ASSUME NEW H, H \subseteq Nat, NEW x \in Nat, NEW y, NEW z, IsNext(H, x, y), IsNext(H, x, z)
  PROVE  y = z
<1>1. CASE y \in H /\ z \in H
  <2>1. y \in Nat /\ z \in Nat
    BY <1>1, Zenon
  <2> QED
    BY <1>1, <2>1 DEF IsNext
<1>2. CASE y \notin H /\ z \in H
  <2>1. z \in Nat
    BY <1>2, Zenon
  <2> QED
    BY <1>2, <2>1 DEF IsNext
<1>3. CASE y \in H /\ z \notin H
  <2>1. y \in Nat
    BY <1>3, Zenon
  <2> QED
    BY <1>3, <2>1 DEF IsNext
<1>4. CASE y \notin H /\ z \notin H
  BY <1>4, Zenon DEF IsNext
<1> QED
  BY <1>1, <1>2, <1>3, <1>4, Zenon

\* The list grows with the addresses, and ends before MaxHoles.
LEMMA NthOrder ==
  ASSUME HeapAssumption, Types, NEW H, Chain(H, head, hole, start, end)
  PROVE  /\ MaxHoles \in Nat /\ Nth[MaxHoles] = 0
         /\ \A n \in Nat : Nth[n] # 0 =>
                n < MaxHoles /\ \A m \in 0 .. n - 1 : Nth[m] # 0 /\ Nth[m] < Nth[n]
         /\ \A h \in H : \E n \in Nat : Nth[n] = h
<1>1. /\ H \subseteq Nat \ {0} /\ H \subseteq Granules(start, end)
      /\ \A n \in Nat : Nth[n] \in H \cup {0}
      /\ IsNext(H, 0, Nth[0])
      /\ \A n \in Nat : /\ Nth[n] # 0 => IsNext(H, Nth[n], Nth[n + 1])
                        /\ Nth[n] = 0 => Nth[n + 1] = 0
  BY NthInChain, Zenon
<1>2. \A n \in Nat : Nth[n] \in Nat
  <2>1. H \cup {0} \subseteq Nat
    BY <1>1
  <2> QED
    BY <1>1, <2>1, Zenon
<1>3. \A n \in Nat : Nth[n + 1] # 0 => Nth[n] # 0 /\ Nth[n] < Nth[n + 1]
  BY <1>1, Zenon DEF IsNext
<1>4. ASSUME NEW n \in Nat, Nth[n] # 0
      PROVE  \A m \in 0 .. n - 1 : Nth[m] # 0 /\ Nth[m] < Nth[n]
  <2> DEFINE Bad == {k \in Nat : Nth[k] # 0 /\ \E m \in 0 .. k - 1 : ~(Nth[m] # 0 /\ Nth[m] < Nth[k])}
  <2>1. SUFFICES ASSUME Bad # {} PROVE FALSE
    BY <1>4, Zenon
  <2>2. PICK k \in Bad : \A j \in Bad : k <= j
    <3>1. Bad \in SUBSET Nat
      BY Zenon
    <3> HIDE DEF Bad
    <3> QED
      BY <2>1, <3>1, LeastNatural, Zenon
  <2>3. PICK m \in 0 .. k - 1 : ~(Nth[m] # 0 /\ Nth[m] < Nth[k])
    BY Zenon
  <2>4. k \in Nat /\ k - 1 \in Nat /\ k = (k - 1) + 1 /\ m \in 0 .. k - 1 /\ m \in Nat
    BY <2>3
  <2>5. k - 1 \notin Bad
    <3> HIDE DEF Bad
    <3> QED
      BY <2>2, <2>4
  <2>6. Nth[k - 1] # 0 /\ Nth[k - 1] < Nth[k]
    BY <1>3, <2>2, <2>4, Zenon
  <2>7. m # k - 1
    BY <2>3, <2>6, Zenon
  <2>8. m \in 0 .. (k - 1) - 1
    BY <2>4, <2>7
  <2>9. Nth[m] # 0 /\ Nth[m] < Nth[k - 1]
    BY <2>4, <2>5, <2>6, <2>8, Zenon
  <2>10. Nth[m] \in Nat /\ Nth[k - 1] \in Nat /\ Nth[k] \in Nat
    BY <1>2, <2>4, Zenon
  <2> QED
    BY <2>3, <2>6, <2>9, <2>10
<1>5. /\ GRANULE \in Nat \ {0} /\ start \in Nat /\ end \in Nat /\ start <= end
      /\ \A h \in H : Whole(h) /\ start <= h /\ h + GRANULE <= end
  <2>1. /\ GRANULE \in Nat \ {0} /\ start \in Nat /\ end \in Nat /\ start <= end
        /\ Whole(end)
    BY Zenon DEF HeapAssumption, Types, Whole
  <2>2. \A h \in H : Whole(h) /\ start <= h /\ h < end
    BY <1>1, <2>1 DEF Granules, Whole
  <2> QED
    BY <2>1, <2>2, WholeApart, Zenon
<1>6. \A n \in Nat : Nth[n] # 0 => Nth[n] >= start + n * GRANULE
  <2> DEFINE Bad == {k \in Nat : Nth[k] # 0 /\ ~(Nth[k] >= start + k * GRANULE)}
  <2>1. SUFFICES ASSUME Bad # {} PROVE FALSE
    BY Zenon
  <2>2. PICK k \in Bad : \A j \in Bad : k <= j
    <3>1. Bad \in SUBSET Nat
      BY Zenon
    <3> HIDE DEF Bad
    <3> QED
      BY <2>1, <3>1, LeastNatural, Zenon
  <2>3. k \in Nat /\ Nth[k] # 0 /\ Nth[k] \in H /\ ~(Nth[k] >= start + k * GRANULE)
    BY <1>1, <2>2, Zenon
  <2>4. k # 0
    <3>1. 0 * GRANULE = 0
      BY <1>5
    <3> QED
      BY <1>5, <2>3, <3>1
  <2>5. k - 1 \in Nat /\ k = (k - 1) + 1 /\ k - 1 \notin Bad
    <3>1. k - 1 \in Nat /\ k = (k - 1) + 1 /\ ~(k <= k - 1)
      BY <2>3, <2>4
    <3> HIDE DEF Bad
    <3> QED
      BY <2>2, <3>1, Zenon
  <2>6. Nth[k - 1] # 0 /\ Nth[k - 1] < Nth[k] /\ Nth[k - 1] \in H
    BY <1>1, <1>3, <2>3, <2>5, Zenon
  <2>7. Nth[k - 1] + GRANULE <= Nth[k]
    BY <1>5, <2>3, <2>6, WholeApart, Zenon
  <2>8. Nth[k - 1] >= start + (k - 1) * GRANULE
    BY <2>5, <2>6, Zenon
  <2>9. (k - 1) * GRANULE \in Int /\ (k - 1) * GRANULE + GRANULE = k * GRANULE
    BY <1>5, <2>3
  <2>10. Nth[k - 1] \in Nat /\ Nth[k] \in Nat
    BY <1>2, <2>3, <2>5, Zenon
  <2> QED
    BY <1>5, <2>3, <2>7, <2>8, <2>9, <2>10
<1>7. MaxHoles \in Nat /\ \A n \in Nat : Nth[n] # 0 => n < MaxHoles
  <2>1. MaxHoles = (end - start) \div GRANULE
    BY Zenon DEF MaxHoles
  <2>2. end - start \in Int /\ 0 <= end - start
    BY <1>5
  <2>3. MaxHoles \in Nat
    <3>1. 0 \div GRANULE <= (end - start) \div GRANULE
      BY <1>5, <2>2, DivMonotone
    <3>2. (GRANULE * 0 + 0) \div GRANULE = 0
      BY <1>5, DivUnique
    <3>3. GRANULE * 0 + 0 = 0
      BY <1>5
    <3>4. (end - start) \div GRANULE \in Int
      BY <1>5, <2>2, DivMod, Zenon
    <3> QED
      BY <2>1, <3>1, <3>2, <3>3, <3>4
  <2>4. ASSUME NEW n \in Nat, Nth[n] # 0 PROVE n < MaxHoles
    <3>1. Nth[n] >= start + n * GRANULE /\ Nth[n] + GRANULE <= end /\ Nth[n] \in Nat
      BY <1>1, <1>2, <1>5, <1>6, <2>4, Zenon
    <3>2. n * GRANULE \in Int /\ GRANULE * (n + 1) + 0 = n * GRANULE + GRANULE
      BY <1>5
    <3>3. GRANULE * (n + 1) + 0 <= end - start
      BY <1>5, <3>1, <3>2
    <3>4. (GRANULE * (n + 1) + 0) \div GRANULE = n + 1
      BY <1>5, DivUnique
    <3>5. (GRANULE * (n + 1) + 0) \div GRANULE <= (end - start) \div GRANULE
      <4>1. GRANULE * (n + 1) + 0 \in Int
        BY <1>5
      <4> QED
        BY <1>5, <2>2, <3>3, <4>1, DivMonotone, Zenon
    <3> QED
      BY <2>1, <2>3, <3>4, <3>5
  <2> QED
    BY <2>3, <2>4, Zenon
<1>8. Nth[MaxHoles] = 0
  BY <1>7
<1>9. \A h \in H : \E n \in Nat : Nth[n] = h
  <2> DEFINE Bad == {h \in H : ~\E n \in Nat : Nth[n] = h}
  <2>1. SUFFICES ASSUME Bad # {} PROVE FALSE
    BY Zenon
  <2>2. PICK h \in Bad : \A g \in Bad : h <= g
    <3>1. Bad \in SUBSET Nat
      BY <1>1, Zenon
    <3> HIDE DEF Bad
    <3> QED
      BY <2>1, <3>1, LeastNatural, Zenon
  <2> DEFINE Before == {g \in H : g < h}
  <2>3. h \in H /\ h \in Nat \ {0} /\ \A n \in Nat : Nth[n] # h
    BY <1>1, <2>2, Zenon
  <2>4. Before # {}
    <3>1. SUFFICES ASSUME Before = {} PROVE FALSE
      BY Zenon
    <3>2. \A g \in H : h <= g
      BY <1>1, <2>3, <3>1
    <3>3. IsNext(H, 0, h) /\ H \subseteq Nat
      BY <1>1, <2>3, <3>2 DEF IsNext
    <3>4. Nth[0] = h
      BY <1>1, <3>3, NextUnique, Zenon
    <3> QED
      BY <2>3, <3>4, Zenon
  <2>5. PICK g \in Before : \A f \in Before : f <= g
    <3>1. Before \in SUBSET Nat
      BY <1>1, Zenon
    <3>2. \A f \in Before : f <= h
      BY <1>1, <2>3
    <3> HIDE DEF Before
    <3> QED
      BY <2>3, <2>4, <3>1, <3>2, GreatestNatural, Zenon
  <2>6. g \in H /\ g < h /\ g \in Nat \ {0} /\ g \notin Bad
    BY <1>1, <2>2, <2>3, <2>5
  <2>7. PICK n \in Nat : Nth[n] = g
    BY <2>6, Zenon
  <2>8. IsNext(H, g, Nth[n + 1])
    BY <1>1, <2>6, <2>7, Zenon
  <2>9. \A f \in H : f <= g \/ h <= f
    BY <1>1, <2>3, <2>5
  <2>10. Nth[n + 1] = h
    <3> HIDE DEF Bad, Before
    <3>1. IsNext(H, g, h) /\ H \subseteq Nat /\ g \in Nat
      BY <1>1, <2>3, <2>6, <2>9, Zenon DEF IsNext
    <3> QED
      BY <2>8, <3>1, NextUnique, Zenon
  <2> QED
    BY <2>3, <2>7, <2>10
<1> QED
  BY <1>4, <1>7, <1>8, <1>9, Zenon

-----------------------------------------------------------------------------
(* Changing the list.                                                      *)

\* The holes between p and q (the head and the end of the list when they are
\* 0) are replaced by those of K: the links m become m2.
Spliced(H, K, p, q, first, first2, m, m2) ==
    /\ H \subseteq Nat \ {0} /\ K \subseteq Nat \ {0} /\ p \in H \cup {0} /\ q \in H \cup {0}
    /\ q # 0 => p < q
    /\ \A k \in K : p < k /\ (q # 0 => k < q)
    /\ \A h \in H : (h < p \/ (q # 0 /\ q <= h)) => m2[h].next = m[h].next
    /\ p # 0 => first2 = first
    /\ IsNext(K \cup ({q} \ {0}), p, IF p = 0 THEN first2 ELSE m2[p].next)
    /\ \A k \in K : IsNext(K \cup ({q} \ {0}), k, m2[k].next)

\* A hole, or 0 where there is none, is a number.
LEMMA HoleOrZero ==
  ASSUME NEW H, H \subseteq Nat \ {0}, NEW x \in H \cup {0}
  PROVE  x \in Nat
<1>1. 0 \in Nat
  OBVIOUS
<1> QED
  BY <1>1, Zenon

\* Such a list is in order again.
LEMMA SplicedIsLinked ==
  ASSUME NEW H, NEW K, NEW p, NEW q, NEW first, NEW first2, NEW m, NEW m2,
         Linked(H, first, m), Spliced(H, K, p, q, first, first2, m, m2)
  PROVE  Linked({h \in H : h <= p \/ (q # 0 /\ q <= h)} \cup K, first2, m2)
<1> USE DEF Spliced
<1> DEFINE H2 == {h \in H : h <= p \/ (q # 0 /\ q <= h)} \cup K
           Q == K \cup ({q} \ {0})
<1>0. /\ p \in Nat /\ q \in Nat /\ Q \subseteq Nat \ {0} /\ H2 \subseteq Nat \ {0}
      /\ K \subseteq Nat /\ H \subseteq Nat
  <2>1. K \subseteq Nat /\ H \subseteq Nat
    BY Zenon
  <2>2. p \in Nat /\ q \in Nat
    BY HoleOrZero, Zenon
  <2>3. Q \subseteq Nat \ {0}
    BY <2>2, Zenon
  <2>4. H2 \subseteq Nat \ {0}
    BY Zenon
  <2> QED
    BY <2>1, <2>2, <2>3, <2>4, Zenon
<1>1. \A x \in Nat : \A y : p <= x /\ (x = p \/ x \in K) /\ IsNext(Q, x, y) => IsNext(H2, x, y)
  <2> SUFFICES ASSUME NEW x \in Nat, NEW y, p <= x, x = p \/ x \in K, IsNext(Q, x, y)
               PROVE  IsNext(H2, x, y)
    BY Zenon
  <2>1. q # 0 => x < q
    <3>1. CASE x = p
      BY <3>1, Zenon
    <3>2. CASE x \in K
      BY <3>2, Zenon
    <3> QED
      BY <3>1, <3>2, Zenon
  <2>2. \A g \in H2 : g <= x \/ g \in K \/ (q # 0 /\ q <= g)
    BY <1>0
  <2>3. CASE y = 0 /\ \A g \in Q : g <= x
    <3>1. q = 0
      <4>1. SUFFICES ASSUME q # 0 PROVE FALSE
        BY Zenon
      <4>2. q \in Q
        BY <4>1, Zenon
      <4> QED
        BY <1>0, <2>1, <2>3, <4>1, <4>2
    <3>2. \A g \in H2 : g <= x
      BY <2>2, <2>3, <3>1, Zenon
    <3> QED
      BY <2>3, <3>2, Zenon DEF IsNext
  <2>4. CASE y \in Q /\ x < y /\ \A g \in Q : g <= x \/ y <= g
    <3>1. y \in H2
      <4>1. CASE y \in K
        BY <4>1, Zenon
      <4>2. CASE y = q /\ q # 0
        <5>1. q \in H /\ q <= q
          BY <1>0, <4>2
        <5> QED
          BY <4>2, <5>1, Zenon
      <4> QED
        BY <2>4, <4>1, <4>2, Zenon
    <3>2. ASSUME NEW g \in H2 PROVE g <= x \/ y <= g
      <4>1. CASE g \in K
        BY <2>4, <4>1, Zenon
      <4>2. CASE q # 0 /\ q <= g
        <5>1. q \in Q
          BY <4>2, Zenon
        <5>2. q <= x \/ y <= q
          BY <2>4, <5>1, Zenon
        <5>3. y \in Nat /\ g \in Nat
          BY <1>0, <3>1, Zenon
        <5> QED
          BY <1>0, <2>1, <4>2, <5>2, <5>3
      <4> QED
        BY <2>2, <4>1, <4>2, Zenon
    <3> QED
      BY <2>4, <3>1, <3>2, Zenon DEF IsNext
  <2> QED
    BY <2>3, <2>4, Zenon DEF IsNext
<1>2. IsNext(H2, 0, first2)
  <2>1. CASE p = 0
    BY <1>1, <2>1
  <2>2. CASE p # 0
    <3>1. p \in H /\ first2 = first /\ IsNext(H, 0, first)
      BY <2>2, Zenon DEF Linked
    <3>2. first \in H /\ 0 < first /\ \A g \in H : g <= 0 \/ first <= g
      BY <1>0, <2>2, <3>1 DEF IsNext
    <3>3. first <= p /\ first \in Nat
      BY <1>0, <2>2, <3>1, <3>2
    <3>4. first \in H2
      BY <3>2, <3>3, Zenon
    <3>5. \A g \in H2 : g <= 0 \/ first <= g
      BY <1>0, <3>2, <3>3
    <3> QED
      BY <3>1, <3>2, <3>4, <3>5, Zenon DEF IsNext
  <2> QED
    BY <2>1, <2>2, Zenon
<1>3. ASSUME NEW h \in H2 PROVE IsNext(H2, h, m2[h].next)
  <2>0. h \in Nat
    BY <1>0, Zenon
  <2>1. CASE h \in K
    <3>1. p < h /\ IsNext(Q, h, m2[h].next)
      BY <2>1, Zenon
    <3>2. p <= h
      <4> HIDE DEF Spliced, H2
      <4> QED
        BY <1>0, <2>0, <3>1
    <3> QED
      BY <1>1, <2>0, <2>1, <3>1, <3>2, Zenon
  <2>2. CASE h = p
    <3>1. p # 0
      BY <1>0, <2>2, Zenon
    <3>2. IsNext(Q, p, m2[p].next)
      BY <3>1, Zenon
    <3> QED
      BY <1>0, <1>1, <2>2, <3>2
  <2>3. CASE h \in H /\ h < p
    <3>1. p \in H /\ m2[h].next = m[h].next /\ IsNext(H, h, m[h].next)
      BY <1>0, <2>0, <2>3 DEF Linked
    <3> DEFINE y == m[h].next
    <3> HIDE DEF y
    <3>2. IsNext(H, h, y) /\ m2[h].next = y
      BY <3>1, Zenon DEF y
    <3>3. y \in H /\ h < y /\ \A g \in H : g <= h \/ y <= g
      BY <1>0, <2>0, <2>3, <3>1, <3>2 DEF IsNext
    <3>4. y <= p /\ y \in Nat
      BY <1>0, <2>0, <2>3, <3>1, <3>3
    <3>5. y \in H2
      BY <3>3, <3>4, Zenon
    <3>6. \A g \in H2 : g <= h \/ y <= g
      BY <1>0, <3>3, <3>4
    <3> QED
      BY <3>2, <3>3, <3>5, <3>6, Zenon DEF IsNext
  <2>4. CASE h \in H /\ q # 0 /\ q <= h
    <3> DEFINE y == m[h].next
    <3>1. m2[h].next = y /\ IsNext(H, h, y)
      BY <2>4, Zenon DEF Linked
    <3> HIDE DEF y
    <3>2. \A g \in H2 : g \in H \/ g <= h
      BY <1>0, <2>0, <2>4
    <3>3. y \in H /\ h < y => y \in H2
      <4>1. SUFFICES ASSUME y \in H, h < y PROVE y \in H2
        BY Zenon
      <4>2. q <= y
        BY <1>0, <2>0, <2>4, <4>1
      <4> QED
        BY <2>4, <4>1, <4>2, Zenon
    <3> HIDE DEF H2, Q
    <3> QED
      BY <3>1, <3>2, <3>3, Zenon DEF IsNext
  <2>5. h \in K \/ h = p \/ (h \in H /\ h < p) \/ (h \in H /\ q # 0 /\ q <= h)
    BY <1>0, <2>0
  <2> QED
    BY <2>1, <2>2, <2>3, <2>4, <2>5, Zenon
<1> QED
  BY <1>2, <1>3, Zenon DEF Linked

-----------------------------------------------------------------------------
(* Holes and blocks.                                                       *)

\* Where a block ends.
EndOf(owned) == owned.at + block_size(owned.layout)

\* Blocks lie in the heap, on a granule, and as their layout asks.
Placed(blocks, from, to) ==
    \A o \in blocks : /\ o.layout \in Layouts /\ Whole(o.at) /\ o.at % o.layout.align = 0
                      /\ from <= o.at /\ EndOf(o) <= to

\* There is no header in a block.
Clean(m, blocks, from, to) ==
    \A o \in blocks : \A g \in Granules(from, to) : o.at <= g /\ g < EndOf(o) => m[g] = NoHeader

\* No two blocks share a byte.
BlocksApart(blocks) ==
    \A o, p \in blocks : o = p \/ EndOf(o) <= p.at \/ EndOf(p) <= o.at

\* No hole and no block do.
Clear(H, m, blocks) ==
    \A h \in H, o \in blocks : h + m[h].size <= o.at \/ EndOf(o) <= h

\* Every granule is in a hole or in a block.
Covered(H, m, blocks, from, to) ==
    \A g \in Granules(from, to) : \/ \E h \in H : h <= g /\ g < h + m[h].size
                                  \/ \E o \in blocks : o.at <= g /\ g < EndOf(o)

\* The heap is shared out between holes and blocks.
Books(H, m, blocks, from, to) ==
    /\ Placed(blocks, from, to) /\ Clean(m, blocks, from, to) /\ BlocksApart(blocks)
    /\ Clear(H, m, blocks) /\ Covered(H, m, blocks, from, to)

\* Blocks are not empty.
LEMMA BlockEnds ==
  ASSUME HeapAssumption, NEW blocks, NEW from, NEW to, Placed(blocks, from, to), NEW o \in blocks
  PROVE  o.at \in Nat /\ EndOf(o) \in Nat /\ o.at < EndOf(o) /\ Whole(EndOf(o)) /\ Whole(o.at)
<1>1. o.layout \in Layouts /\ Whole(o.at)
  BY Zenon DEF Placed
<1>2. Whole(block_size(o.layout)) /\ block_size(o.layout) >= GRANULE /\ GRANULE \in Nat \ {0}
  BY <1>1, BlockSize, Zenon DEF HeapAssumption
<1>3. Whole(EndOf(o))
  BY <1>1, <1>2, WholeSum, Zenon DEF EndOf
<1>4. o.at \in Nat /\ block_size(o.layout) \in Nat
  BY <1>1, <1>2, Zenon DEF Whole
<1> QED
  BY <1>1, <1>2, <1>3, <1>4 DEF EndOf, Whole

\* A block [b, e) is carved out of the hole c, which ends at hole_end, behind
\* the hole p; what is left in front of it and behind it are holes.
Carving(m, m2, first, first2, p, c, b, e, hole_end, from, to) ==
    LET rest == IF e < hole_end THEN e ELSE m[c].next
        r == IF c < b THEN c ELSE rest
    IN  /\ p = 0 => first2 = r
        /\ p # 0 => first2 = first /\ m2[p].size = m[p].size /\ m2[p].next = r
        /\ c < b => m2[c].size = b - c /\ m2[c].next = rest
        /\ e < hole_end => m2[e].size = hole_end - e /\ m2[e].next = m[c].next
        /\ \A g \in Granules(from, to) :
            /\ b <= g /\ g < e => m2[g] = NoHeader
            /\ g # p /\ ~(c <= g /\ g < e) /\ ~(g = e /\ e < hole_end) => m2[g] = m[g]

\* Carving a block out keeps the list in order and the heap shared out.
LEMMA Carved ==
  ASSUME HeapAssumption, NEW from, NEW to, Whole(from), from # 0, Whole(to),
         NEW H, NEW first, NEW first2, NEW m, NEW m2, NEW blocks, NEW layout \in Layouts,
         Chain(H, first, m, from, to), Books(H, m, blocks, from, to),
         NEW c \in H, NEW p \in H \cup {0}, IsNext(H, p, c),
         NEW b, NEW e, NEW hole_end, hole_end = c + m[c].size,
         Whole(b), c <= b, e = b + block_size(layout), e <= hole_end, b % layout.align = 0,
         Carving(m, m2, first, first2, p, c, b, e, hole_end, from, to)
  PROVE  \E H2 : /\ Chain(H2, first2, m2, from, to)
                 /\ Books(H2, m2, blocks \cup {[at |-> b, layout |-> layout]}, from, to)
<1> DEFINE K == {x \in {c} : c < b} \cup {x \in {e} : e < hole_end}
           q == m[c].next
           H2 == {h \in H : h <= p \/ (q # 0 /\ q <= h)} \cup K
           r == IF c < b THEN c ELSE IF e < hole_end THEN e ELSE q
           new == [at |-> b, layout |-> layout]
           blocks2 == blocks \cup {new}
<1>a. /\ p = 0 => first2 = r
      /\ p # 0 => first2 = first /\ m2[p].size = m[p].size /\ m2[p].next = r
      /\ c < b => m2[c].size = b - c /\ m2[c].next = IF e < hole_end THEN e ELSE q
      /\ e < hole_end => m2[e].size = hole_end - e /\ m2[e].next = q
  BY Zenon DEF Carving
<1>b. \A g \in Granules(from, to) :
        /\ b <= g /\ g < e => m2[g] = NoHeader
        /\ g # p /\ ~(c <= g /\ g < e) /\ ~(g = e /\ e < hole_end) => m2[g] = m[g]
  BY Zenon DEF Carving
<1>1. /\ H \subseteq Granules(from, to) /\ Linked(H, first, m) /\ Sized(H, m, to)
      /\ HolesApart(H, m)
  BY Zenon DEF Chain
<1>2. /\ from \in Nat \ {0} /\ to \in Nat /\ GRANULE \in Nat \ {0} /\ b \in Nat
      /\ Granules(from, to) \subseteq Nat \ {0}
      /\ \A g : g \in Granules(from, to) <=> Whole(g) /\ from <= g /\ g < to
  BY DEF Whole, Granules, HeapAssumption
<1>3. /\ H \subseteq Nat \ {0}
      /\ \A h \in H : /\ m[h].size \in Nat /\ m[h].size >= GRANULE /\ Whole(m[h].size)
                      /\ h + m[h].size <= to /\ Whole(h) /\ from <= h
  BY <1>1, <1>2, Zenon DEF Sized, Whole
<1>4. IsNext(H, c, q)
  BY <1>1, Zenon DEF Linked
<1> HIDE DEF q
<1>5. /\ q \in H \cup {0} /\ q \in Nat /\ p \in Nat /\ c \in Nat /\ p < c
      /\ \A h \in H : h <= p \/ h = c \/ (q # 0 /\ q <= h)
  <2>1. q \in H \cup {0} /\ c \in Nat /\ p < c
    BY <1>3, <1>4, Zenon DEF IsNext
  <2>2. q \in Nat /\ p \in Nat
    BY <1>3, <2>1, HoleOrZero, Zenon
  <2>3. \A h \in H : h <= p \/ c <= h
    BY <1>3, Zenon DEF IsNext
  <2>4. \A h \in H : h <= c \/ (q # 0 /\ q <= h)
    BY <1>3, <1>4, Zenon DEF IsNext
  <2>5. \A h \in H : h \in Nat
    BY <1>3, Zenon
  <2> QED
    BY <2>1, <2>2, <2>3, <2>4, <2>5
<1>6. /\ q # 0 => c < q /\ hole_end < q
      /\ \A h \in H : h < c => h + m[h].size < c
      /\ \A h \in H : h # c => h < c \/ (q # 0 /\ q <= h)
  <2>1. q # 0 => c < q
    BY <1>4, Zenon DEF IsNext
  <2>2. q # 0 => hole_end < q
    BY <1>1, <1>5, <2>1, Zenon DEF HolesApart
  <2>3. \A h \in H : h < c => h + m[h].size < c
    BY <1>1, Zenon DEF HolesApart
  <2>4. \A h \in H : h \in Nat
    BY <1>3, Zenon
  <2> QED
    BY <1>5, <2>1, <2>2, <2>3, <2>4
<1>7. /\ e \in Nat /\ hole_end \in Nat /\ b < e /\ c < hole_end /\ hole_end <= to
      /\ Whole(e) /\ Whole(hole_end) /\ Whole(c)
  <2>1. Whole(block_size(layout)) /\ block_size(layout) >= GRANULE
    BY BlockSize, Zenon
  <2>2. Whole(c) /\ Whole(m[c].size) /\ c + m[c].size <= to /\ m[c].size >= GRANULE
    BY <1>3, Zenon
  <2>3. Whole(e) /\ Whole(hole_end)
    BY <2>1, <2>2, WholeSum, Zenon
  <2>4. block_size(layout) \in Nat /\ m[c].size \in Nat
    BY <2>1, <2>2, Zenon DEF Whole
  <2> QED
    BY <1>2, <1>5, <2>1, <2>2, <2>3, <2>4 DEF Whole
<1>8. ASSUME NEW h \in H, h # c
      PROVE  m2[h].size = m[h].size /\ (h # p => m2[h].next = m[h].next)
  <2>1. h \in Granules(from, to) /\ h \in Nat
    BY <1>1, <1>3, Zenon
  <2>2. h < c \/ hole_end < h
    BY <1>5, <1>6, <1>7, <1>8, <2>1
  <2>3. CASE h = p
    <3>1. p # 0
      BY <1>2, <2>1, <2>3, Zenon
    <3> QED
      BY <1>a, <2>3, <3>1, Zenon
  <2>4. CASE h # p
    <3>1. ~(c <= h /\ h < e) /\ ~(h = e /\ e < hole_end)
      BY <1>2, <1>5, <1>7, <2>1, <2>2
    <3>2. m2[h] = m[h]
      BY <1>b, <2>1, <2>4, <3>1, Zenon
    <3> QED
      BY <3>2, Zenon
  <2> QED
    BY <2>3, <2>4, Zenon
<1>9. \A k \in K : /\ k \in Nat \ {0} /\ k \in Granules(from, to) /\ c <= k /\ k < hole_end
                   /\ (k = c /\ c < b) \/ (k = e /\ e < hole_end)
  <2>1. c \in Granules(from, to) /\ c < hole_end
    BY <1>1, <1>7, Zenon
  <2>2. e < hole_end => e \in Granules(from, to)
    <3>1. from <= c
      BY <1>3, Zenon
    <3> QED
      BY <1>2, <1>5, <1>7, <3>1
  <2> QED
    BY <1>2, <1>5, <1>7, <2>1, <2>2
<1>10. Linked(H2, first2, m2)
  <2>1. K \subseteq Nat \ {0}
    BY <1>9, Zenon
  <2>2. \A k \in K : p < k /\ (q # 0 => k < q)
    BY <1>5, <1>6, <1>7, <1>9
  <2>3. \A h \in H : (h < p \/ (q # 0 /\ q <= h)) => m2[h].next = m[h].next
    <3> SUFFICES ASSUME NEW h \in H, h < p \/ (q # 0 /\ q <= h) PROVE m2[h].next = m[h].next
      BY Zenon
    <3>1. h \in Nat
      BY <1>3, Zenon
    <3>2. h # c /\ h # p
      BY <1>5, <1>6, <3>1
    <3> QED
      BY <1>8, <3>2, Zenon
  <2> DEFINE Q == K \cup ({q} \ {0})
  <2>5. IsNext(Q, p, r) /\ \A k \in K : IsNext(Q, k, m2[k].next)
    <3>1. CASE c < b /\ e < hole_end
      <4>1. K = {c, e} /\ Q = {c, e} \cup ({q} \ {0})
        BY <3>1, Zenon
      <4> QED
        BY <1>2, <1>5, <1>6, <1>7, <1>a, <3>1, <4>1 DEF IsNext
    <3>2. CASE c < b /\ ~(e < hole_end)
      <4>1. K = {c} /\ Q = {c} \cup ({q} \ {0})
        BY <3>2, Zenon
      <4> QED
        BY <1>2, <1>5, <1>6, <1>7, <1>a, <3>2, <4>1 DEF IsNext
    <3>3. CASE ~(c < b) /\ e < hole_end
      <4>1. K = {e} /\ Q = {e} \cup ({q} \ {0})
        BY <3>3, Zenon
      <4> QED
        BY <1>2, <1>5, <1>6, <1>7, <1>a, <3>3, <4>1 DEF IsNext
    <3>4. CASE ~(c < b) /\ ~(e < hole_end)
      <4>1. K = {} /\ Q = {q} \ {0}
        BY <3>4, Zenon
      <4> QED
        BY <1>2, <1>5, <1>6, <1>7, <1>a, <3>4, <4>1 DEF IsNext
    <3> QED
      BY <3>1, <3>2, <3>3, <3>4, Zenon
  <2>6. q # 0 => p < q
    BY <1>5, <1>6
  <2>7. r = IF p = 0 THEN first2 ELSE m2[p].next
    BY <1>a, Zenon
  <2>8. p # 0 => first2 = first
    BY <1>a, Zenon
  <2>9. IsNext(K \cup ({q} \ {0}), p, IF p = 0 THEN first2 ELSE m2[p].next)
    BY <2>5, <2>7, Zenon
  <2>10. \A k \in K : IsNext(K \cup ({q} \ {0}), k, m2[k].next)
    BY <2>5, Zenon
  <2> HIDE DEF K
  <2>11. Spliced(H, K, p, q, first, first2, m, m2)
    BY <1>3, <1>5, <2>1, <2>2, <2>3, <2>6, <2>8, <2>9, <2>10, Zenon DEF Spliced
  <2>12. Linked(H, first, m)
    BY <1>1, Zenon
  <2> QED
    BY <2>11, <2>12, SplicedIsLinked
<1>11. \A h \in H2 : h \in K \/ (h \in H /\ h # c /\ (h < c \/ (q # 0 /\ q <= h)))
  BY <1>3, <1>5, <1>6
<1>12. Sized(H2, m2, to) /\ H2 \subseteq Granules(from, to)
  <2>1. ASSUME NEW k \in K
        PROVE  Whole(m2[k].size) /\ m2[k].size >= GRANULE /\ k + m2[k].size <= to
    <3>1. CASE k = c /\ c < b
      <4>1. c + GRANULE <= b /\ Whole(b - c)
        BY <1>7, <3>1, WholeApart, WholeSum, Zenon
      <4>2. m2[k].size = b - c
        BY <1>a, <3>1, Zenon
      <4> QED
        BY <1>2, <1>5, <1>7, <3>1, <4>1, <4>2
    <3>2. CASE k = e /\ e < hole_end
      <4>1. e + GRANULE <= hole_end /\ Whole(hole_end - e)
        BY <1>7, <3>2, WholeApart, WholeSum, Zenon
      <4>2. m2[k].size = hole_end - e
        BY <1>a, <3>2, Zenon
      <4> QED
        BY <1>2, <1>5, <1>7, <3>2, <4>1, <4>2
    <3> QED
      BY <1>9, <3>1, <3>2, Zenon
  <2>2. ASSUME NEW h \in H, h # c
        PROVE  Whole(m2[h].size) /\ m2[h].size >= GRANULE /\ h + m2[h].size <= to
    BY <1>3, <1>8, <2>2, Zenon
  <2>3. H2 \subseteq Granules(from, to)
    BY <1>1, <1>9, <1>11, Zenon
  <2> HIDE DEF K, H2
  <2> QED
    BY <1>11, <2>1, <2>2, <2>3, Zenon DEF Sized

<1>13. \A k \in K : /\ m2[k].size \in Nat /\ k \in Nat /\ c <= k /\ k < hole_end
                    /\ \/ k = c /\ c < b /\ k + m2[k].size = b
                       \/ k = e /\ e < hole_end /\ k + m2[k].size = hole_end
  BY <1>a, <1>2, <1>5, <1>7, <1>9
<1>14. HolesApart(H2, m2)
  <2> HIDE DEF K, H2
  <2> SUFFICES ASSUME NEW g \in H2, NEW h \in H2, g < h PROVE g + m2[g].size < h
    BY Zenon DEF HolesApart
  <2>1. CASE g \in H /\ g # c /\ h \in H
    BY <1>1, <1>8, <2>1, Zenon DEF HolesApart
  <2>2. CASE g \in H /\ g # c /\ h \in K
    <3>1. g < c /\ m2[g].size = m[g].size /\ g + m[g].size < c
      BY <1>3, <1>5, <1>6, <1>7, <1>8, <1>13, <2>2
    <3>2. /\ c <= h /\ c \in Nat /\ h \in Nat /\ g \in Nat
          /\ m[g].size \in Nat /\ m2[g].size = m[g].size
      BY <1>3, <1>5, <1>13, <2>2, <3>1, Zenon
    <3> QED
      BY <3>1, <3>2
  <2>3. CASE g \in K /\ h \in H /\ h # c
    BY <1>2, <1>3, <1>5, <1>6, <1>7, <1>13, <2>3
  <2>4. CASE g \in K /\ h \in K
    BY <1>2, <1>5, <1>7, <1>13, <2>4
  <2> QED
    BY <1>11, <2>1, <2>2, <2>3, <2>4, Zenon
<1>15. /\ Placed(blocks, from, to) /\ Clean(m, blocks, from, to) /\ BlocksApart(blocks)
       /\ Clear(H, m, blocks) /\ Covered(H, m, blocks, from, to)
  BY Zenon DEF Books
<1>16. \A o \in blocks : o.at \in Nat /\ EndOf(o) \in Nat /\ o.at < EndOf(o)
  BY <1>15, BlockEnds, Zenon
<1>17. new.at = b /\ new.layout = layout /\ EndOf(new) = e
  BY Zenon DEF EndOf
<1> HIDE DEF new
<1>18. \A o \in blocks : hole_end <= o.at \/ EndOf(o) <= c
  BY <1>15, Zenon DEF Clear
<1>19. Placed(blocks2, from, to)
  <2>1. from <= c
    BY <1>3, Zenon
  <2>2. from <= b /\ e <= to
    BY <1>2, <1>5, <1>7, <2>1
  <2> QED
    BY <1>15, <1>17, <2>2, Zenon DEF Placed
<1>20. Clean(m2, blocks2, from, to)
  <2> SUFFICES ASSUME NEW o \in blocks2, NEW g \in Granules(from, to), o.at <= g, g < EndOf(o)
               PROVE  m2[g] = NoHeader
    BY Zenon DEF Clean
  <2>1. CASE o = new
    BY <1>b, <1>17, <2>1, Zenon
  <2>2. CASE o \in blocks
    <3>1. m[g] = NoHeader
      BY <1>15, <2>2, Zenon DEF Clean
    <3>2. g \in Nat /\ (hole_end <= g \/ g < c)
      BY <1>2, <1>5, <1>7, <1>16, <1>18, <2>2
    <3>3. g # p
      <4>1. SUFFICES ASSUME g = p PROVE FALSE
        BY Zenon
      <4>2. p \in H
        BY <1>2, <4>1, Zenon
      <4>3. p + m[p].size <= o.at \/ EndOf(o) <= p
        BY <1>15, <2>2, <4>2, Zenon DEF Clear
      <4> QED
        BY <1>2, <1>3, <1>16, <2>2, <4>1, <4>2, <4>3
    <3>4. ~(c <= g /\ g < e) /\ ~(g = e /\ e < hole_end)
      BY <1>2, <1>5, <1>7, <3>2
    <3>5. m2[g] = m[g]
      BY <1>b, <3>3, <3>4, Zenon
    <3> QED
      BY <3>1, <3>5, Zenon
  <2> QED
    BY <2>1, <2>2, Zenon
<1>21. BlocksApart(blocks2)
  <2>1. \A o \in blocks : EndOf(o) <= b \/ e <= o.at
    BY <1>2, <1>5, <1>7, <1>16, <1>18
  <2> QED
    BY <1>15, <1>17, <2>1, Zenon DEF BlocksApart
<1>22. Clear(H2, m2, blocks2)
  <2> HIDE DEF K, H2
  <2> SUFFICES ASSUME NEW h \in H2, NEW o \in blocks2
               PROVE  h + m2[h].size <= o.at \/ EndOf(o) <= h
    BY Zenon DEF Clear
  <2>1. CASE h \in K /\ o = new
    BY <1>2, <1>5, <1>7, <1>13, <1>17, <2>1
  <2>2. CASE h \in K /\ o \in blocks
    BY <1>2, <1>5, <1>7, <1>13, <1>16, <1>18, <2>2
  <2>3. CASE h \in H /\ h # c /\ (h < c \/ (q # 0 /\ q <= h)) /\ o = new
    <3>1. m2[h].size = m[h].size /\ m[h].size \in Nat /\ h \in Nat
      BY <1>3, <1>8, <2>3, Zenon
    <3> QED
      BY <1>2, <1>5, <1>6, <1>7, <1>17, <2>3, <3>1
  <2>4. CASE h \in H /\ h # c /\ o \in blocks
    <3>1. m2[h].size = m[h].size
      BY <1>8, <2>4, Zenon
    <3> QED
      BY <1>15, <2>4, <3>1, Zenon DEF Clear
  <2> QED
    BY <1>11, <2>1, <2>2, <2>3, <2>4, Zenon
<1>23. Covered(H2, m2, blocks2, from, to)
  <2> SUFFICES ASSUME NEW g \in Granules(from, to)
               PROVE  \/ \E h \in H2 : h <= g /\ g < h + m2[h].size
                      \/ \E o \in blocks2 : o.at <= g /\ g < EndOf(o)
    BY Zenon DEF Covered
  <2>0. g \in Nat
    BY <1>2, Zenon
  <2>1. CASE \E o \in blocks : o.at <= g /\ g < EndOf(o)
    BY <2>1, Zenon
  <2>2. CASE \E h \in H : h <= g /\ g < h + m[h].size
    <3>1. PICK h \in H : h <= g /\ g < h + m[h].size
      BY <2>2, Zenon
    <3>2. CASE h # c
      <4>1. h \in H2 /\ m2[h].size = m[h].size
        BY <1>5, <1>8, <3>2, Zenon
      <4> QED
        BY <3>1, <4>1, Zenon
    <3>3. CASE h = c
      <4>1. CASE g < b
        <5>1. c < b /\ c \in H2 /\ c + m2[c].size = b
          BY <1>a, <1>2, <1>5, <2>0, <3>1, <3>3, <4>1
        <5> QED
          BY <3>1, <3>3, <4>1, <5>1, Zenon
      <4>2. CASE b <= g /\ g < e
        <5>1. new \in blocks2
          BY Zenon
        <5> QED
          BY <1>17, <4>2, <5>1, Zenon
      <4>3. CASE e <= g
        <5>1. g < hole_end
          BY <3>1, <3>3, Zenon
        <5>2. e < hole_end /\ e \in H2 /\ e + m2[e].size = hole_end
          BY <1>a, <1>7, <2>0, <4>3, <5>1
        <5> QED
          BY <4>3, <5>1, <5>2, Zenon
      <4> QED
        BY <1>2, <1>7, <2>0, <4>1, <4>2, <4>3
    <3> QED
      BY <3>2, <3>3, Zenon
  <2> QED
    BY <1>15, <2>1, <2>2, Zenon DEF Covered
<1>24. Chain(H2, first2, m2, from, to)
  BY <1>10, <1>12, <1>14, Zenon DEF Chain
<1>25. Books(H2, m2, blocks2, from, to)
  BY <1>19, <1>20, <1>21, <1>22, <1>23, Zenon DEF Books
<1>26. blocks2 = blocks \cup {[at |-> b, layout |-> layout]}
  BY Zenon DEF new
<1> HIDE DEF H2, blocks2
<1> QED
  BY <1>24, <1>25, <1>26, Zenon

\* The block [b, e) given back lies between the holes p and c, and is joined
\* with those it touches.
Joining(m, m2, first, first2, p, c, b, e, from, to) ==
    LET behind == c # 0 /\ e = c
        front == p # 0 /\ p + m[p].size = b
        size == IF behind THEN (e - b) + m[c].size ELSE e - b
        next == IF behind THEN m[c].next ELSE c
    IN  /\ front => first2 = first /\ m2[p].size = m[p].size + size /\ m2[p].next = next
        /\ ~front => /\ m2[b].size = size /\ m2[b].next = next
                     /\ p = 0 => first2 = b
                     /\ p # 0 => first2 = first /\ m2[p].size = m[p].size /\ m2[p].next = b
        /\ \A g \in Granules(from, to) : g # p /\ g # b => m2[g] = m[g]

\* So does giving one back.
LEMMA Joined ==
  ASSUME HeapAssumption, NEW from, NEW to, Whole(from), from # 0, Whole(to),
         NEW H, NEW first, NEW first2, NEW m, NEW m2, NEW blocks, NEW owned \in blocks,
         Chain(H, first, m, from, to), Books(H, m, blocks, from, to),
         NEW c \in H \cup {0}, NEW p \in H \cup {0}, IsNext(H, p, c),
         NEW b, NEW e, b = owned.at, e = EndOf(owned), p < b, c # 0 => b <= c,
         Joining(m, m2, first, first2, p, c, b, e, from, to)
  PROVE  \E H2 : /\ Chain(H2, first2, m2, from, to)
                 /\ Books(H2, m2, blocks \ {owned}, from, to)
<1> DEFINE behind == c # 0 /\ e = c
           front == p # 0 /\ p + m[p].size = b
           size == IF behind THEN (e - b) + m[c].size ELSE e - b
           q == IF behind THEN m[c].next ELSE c
           K == {x \in {b} : ~front}
           H2 == {h \in H : h <= p \/ (q # 0 /\ q <= h)} \cup K
           blocks2 == blocks \ {owned}
           new_end == b + size
<1>a. /\ front => first2 = first /\ m2[p].size = m[p].size + size /\ m2[p].next = q
      /\ ~front => /\ m2[b].size = size /\ m2[b].next = q
                   /\ p = 0 => first2 = b
                   /\ p # 0 => first2 = first /\ m2[p].size = m[p].size /\ m2[p].next = b
  BY Zenon DEF Joining
<1>b. \A g \in Granules(from, to) : g # p /\ g # b => m2[g] = m[g]
  BY Zenon DEF Joining
<1>1. /\ H \subseteq Granules(from, to) /\ Linked(H, first, m) /\ Sized(H, m, to)
      /\ HolesApart(H, m)
  BY Zenon DEF Chain
<1>2. /\ from \in Nat \ {0} /\ to \in Nat /\ GRANULE \in Nat \ {0}
      /\ Granules(from, to) \subseteq Nat \ {0}
      /\ \A g : g \in Granules(from, to) <=> Whole(g) /\ from <= g /\ g < to
  BY DEF Whole, Granules, HeapAssumption
<1>3. /\ H \subseteq Nat \ {0}
      /\ \A h \in H : /\ m[h].size \in Nat /\ m[h].size >= GRANULE /\ Whole(m[h].size)
                      /\ h + m[h].size <= to /\ Whole(h) /\ from <= h
  BY <1>1, <1>2, Zenon DEF Sized, Whole
<1>4. /\ Placed(blocks, from, to) /\ Clean(m, blocks, from, to) /\ BlocksApart(blocks)
      /\ Clear(H, m, blocks) /\ Covered(H, m, blocks, from, to)
  BY Zenon DEF Books
<1>5. \A o \in blocks : o.at \in Nat /\ EndOf(o) \in Nat /\ o.at < EndOf(o)
  BY <1>4, BlockEnds, Zenon
<1>6. /\ b \in Nat \ {0} /\ e \in Nat /\ b < e /\ Whole(b) /\ Whole(e) /\ e <= to
      /\ b \in Granules(from, to)
  <2>1. b \in Nat /\ e \in Nat /\ b < e /\ Whole(b) /\ Whole(e)
    BY <1>4, BlockEnds, Zenon
  <2>2. from <= b /\ e <= to
    BY <1>4, Zenon DEF Placed
  <2> QED
    BY <1>2, <2>1, <2>2
<1>7. /\ p \in Nat /\ c \in Nat
      /\ p # 0 => p \in H /\ p + m[p].size <= b
      /\ c # 0 => c \in H /\ e <= c /\ p < c
      /\ \A h \in H : h <= p \/ (c # 0 /\ c <= h)
  <2>1. p \in Nat /\ c \in Nat /\ (p # 0 => p \in H) /\ (c # 0 => c \in H)
    BY <1>3
  <2>2. p # 0 => p + m[p].size <= b
    <3>1. SUFFICES ASSUME p # 0 PROVE p + m[p].size <= b
      BY Zenon
    <3>2. p + m[p].size <= b \/ e <= p
      BY <1>4, <2>1, <3>1, Zenon DEF Clear
    <3> QED
      BY <1>6, <2>1, <3>2
  <2>3. c # 0 => e <= c
    <3>1. SUFFICES ASSUME c # 0 PROVE e <= c
      BY Zenon
    <3>2. c + m[c].size <= b \/ e <= c
      BY <1>4, <2>1, <3>1, Zenon DEF Clear
    <3>3. m[c].size \in Nat /\ m[c].size >= GRANULE
      BY <1>3, <2>1, <3>1, Zenon
    <3> QED
      BY <1>2, <1>6, <2>1, <3>1, <3>2, <3>3
  <2>4. \A h \in H : h <= p \/ (c # 0 /\ c <= h)
    BY <1>3, <2>1, Zenon DEF IsNext
  <2> QED
    BY <1>6, <2>1, <2>2, <2>3, <2>4
<1>8. behind => IsNext(H, c, m[c].next) /\ m[c].size \in Nat /\ m[c].size >= GRANULE
                /\ Whole(m[c].size) /\ c + m[c].size <= to /\ c \in H
  BY <1>1, <1>3, <1>7, Zenon DEF Linked
<1>9. /\ q \in H \cup {0} /\ q \in Nat
      /\ \A h \in H : h <= p \/ (behind /\ h = c) \/ (q # 0 /\ q <= h)
      /\ q # 0 => new_end < q
      /\ size \in Nat /\ Whole(size) /\ size >= GRANULE /\ new_end <= to /\ e <= new_end
      /\ new_end \in Nat
      /\ \/ behind /\ new_end = c + m[c].size
         \/ ~behind /\ new_end = e
  <2>1. Whole(e - b) /\ b + GRANULE <= e /\ e - b \in Nat
    <3>1. Whole(e - b) /\ b + GRANULE <= e
      BY <1>6, WholeSum, WholeApart
    <3> QED
      BY <1>6, <3>1
  <2>2. CASE behind
    <3>1. q = m[c].next /\ size = (e - b) + m[c].size /\ e = c /\ c \in H
      BY <1>7, <2>2, Zenon
    <3> HIDE DEF q, size
    <3>2. q \in H \cup {0} /\ \A h \in H : h <= c \/ (q # 0 /\ q <= h)
      BY <1>3, <1>8, <2>2, <3>1, Zenon DEF IsNext
    <3>3. q # 0 => c < q /\ q \in H
      BY <1>8, <2>2, <3>1, <3>2, Zenon DEF IsNext
    <3>4. q # 0 => c + m[c].size < q
      BY <1>1, <3>1, <3>3, Zenon DEF HolesApart
    <3>5. Whole(size)
      BY <1>8, <2>1, <2>2, <3>1, WholeSum, Zenon
    <3>6. m[c].size \in Nat /\ m[c].size >= GRANULE /\ c + m[c].size <= to
      BY <1>8, <2>2, Zenon
    <3>7. size \in Nat /\ new_end = c + m[c].size /\ new_end \in Nat
      BY <1>6, <1>7, <2>1, <3>1, <3>6
    <3>8. \A h \in H : h <= p \/ h = c \/ (q # 0 /\ q <= h)
      <4> SUFFICES ASSUME NEW h \in H PROVE h <= p \/ h = c \/ (q # 0 /\ q <= h)
        BY Zenon
      <4>1. h \in Nat /\ c \in Nat /\ (h <= p \/ c <= h) /\ (h <= c \/ (q # 0 /\ q <= h))
        BY <1>3, <1>7, <3>2, Zenon
      <4> QED
        BY <4>1
    <3>9. q \in Nat
      BY <1>3, <3>2, HoleOrZero, Zenon
    <3> HIDE DEF new_end
    <3> QED
      BY <1>2, <1>6, <1>7, <2>1, <2>2, <3>1, <3>2, <3>4, <3>5, <3>6, <3>7, <3>8, <3>9
  <2>3. CASE ~behind
    <3>1. q = c /\ size = e - b
      BY <2>3, Zenon
    <3>2. c # 0 => e < c
      BY <1>6, <1>7, <2>3
    <3> HIDE DEF q, size, behind
    <3>3. new_end = e
      BY <1>6, <3>1
    <3> HIDE DEF new_end
    <3> QED
      BY <1>2, <1>6, <1>7, <2>1, <2>3, <3>1, <3>2, <3>3
  <2> QED
    BY <2>2, <2>3, Zenon
<1> HIDE DEF q, size, behind
<1>10. ASSUME NEW h \in H, h # p
       PROVE  m2[h] = m[h]
  <2>1. h \in Granules(from, to) /\ h \in Nat
    BY <1>1, <1>3, Zenon
  <2>2. h # b
    <3>1. SUFFICES ASSUME h = b PROVE FALSE
      BY Zenon
    <3>2. h + m[h].size <= b \/ e <= h
      BY <1>4, Zenon DEF Clear
    <3>3. m[h].size \in Nat /\ m[h].size >= GRANULE
      BY <1>3, Zenon
    <3> QED
      BY <1>2, <1>6, <3>1, <3>2, <3>3
  <2> QED
    BY <1>b, <1>10, <2>1, <2>2, Zenon
<1>11. p # 0 => /\ p + m[p].size <= b /\ m[p].size \in Nat /\ m[p].size >= GRANULE
                /\ Whole(m[p].size) /\ Whole(p) /\ p \in H
  BY <1>3, <1>7, Zenon
<1> HIDE DEF new_end
<1>12. new_end = b + size
  BY Zenon DEF new_end
<1>13. Linked(H2, first2, m2)
  <2> DEFINE Q == K \cup ({q} \ {0})
  <2>1. K \subseteq Nat \ {0}
    BY <1>6, Zenon
  <2>2. q # 0 => p < q
    BY <1>6, <1>7, <1>9
  <2>3. \A k \in K : p < k /\ (q # 0 => k < q)
    BY <1>6, <1>7, <1>9
  <2>4. \A h \in H : (h < p \/ (q # 0 /\ q <= h)) => m2[h].next = m[h].next
    <3> SUFFICES ASSUME NEW h \in H, h < p \/ (q # 0 /\ q <= h) PROVE m2[h].next = m[h].next
      BY Zenon
    <3>1. h \in Nat
      BY <1>3, Zenon
    <3>2. h # p
      BY <1>7, <1>9, <2>2, <3>1
    <3> QED
      BY <1>10, <3>2, Zenon
  <2>5. p # 0 => first2 = first
    BY <1>a, Zenon
  <2>6. IsNext(Q, p, IF p = 0 THEN first2 ELSE m2[p].next)
        /\ \A k \in K : IsNext(Q, k, m2[k].next)
    <3>1. CASE front
      <4>1. K = {} /\ Q = {q} \ {0} /\ p # 0 /\ m2[p].next = q
        BY <1>a, <3>1, Zenon
      <4> QED
        BY <1>7, <1>9, <2>2, <4>1 DEF IsNext
    <3>2. CASE ~front
      <4>1. /\ K = {b} /\ Q = {b} \cup ({q} \ {0}) /\ m2[b].next = q
            /\ b = IF p = 0 THEN first2 ELSE m2[p].next
        BY <1>a, <3>2, Zenon
      <4>2. q # 0 => b < q
        BY <1>6, <1>9
      <4>3. IsNext(Q, p, b) /\ IsNext(Q, b, q)
        <5> HIDE DEF K, Q, front
        <5> QED
          BY <1>6, <1>7, <1>9, <4>1, <4>2 DEF IsNext
      <4> QED
        BY <4>1, <4>3, Zenon
    <3> QED
      BY <3>1, <3>2, Zenon
  <2> HIDE DEF K
  <2>7. Spliced(H, K, p, q, first, first2, m, m2)
    BY <1>3, <1>9, <2>1, <2>2, <2>3, <2>4, <2>5, <2>6, Zenon DEF Spliced
  <2>8. Linked(H, first, m)
    BY <1>1, Zenon
  <2> QED
    BY <2>7, <2>8, SplicedIsLinked
\* The hole that holds the block.
<1> DEFINE j == IF front THEN p ELSE b
<1>14. /\ j \in H2 /\ j \in Nat /\ j <= b /\ m2[j].size \in Nat /\ m2[j].size >= GRANULE
       /\ Whole(m2[j].size) /\ j + m2[j].size = new_end /\ j \in Granules(from, to)
       /\ p <= j /\ (j = b \/ (j = p /\ p # 0 /\ p + m[p].size = b))
  <2>1. CASE front
    <3>1. j = p /\ p # 0 /\ m2[p].size = m[p].size + size /\ p + m[p].size = b
      BY <1>a, <2>1, Zenon
    <3>2. p \in H2 /\ p \in Granules(from, to)
      BY <1>1, <1>7, <3>1
    <3>3. Whole(m2[p].size)
      BY <1>9, <1>11, <3>1, WholeSum, Zenon
    <3> HIDE DEF j, H2, K, front
    <3> QED
      BY <1>2, <1>6, <1>7, <1>9, <1>11, <1>12, <3>1, <3>2, <3>3
  <2>2. CASE ~front
    <3>1. j = b /\ m2[b].size = size /\ b \in H2
      BY <1>a, <2>2, Zenon
    <3> HIDE DEF j, H2, K, front
    <3> QED
      BY <1>2, <1>6, <1>7, <1>9, <1>12, <3>1
  <2> QED
    BY <2>1, <2>2, Zenon
<1>15. \A h \in H2 : h = j \/ (/\ h \in H /\ m2[h].size = m[h].size
                              /\ \/ h <= p /\ h + m[h].size < j
                                 \/ q # 0 /\ q <= h)
  <2> SUFFICES ASSUME NEW h \in H2, h # j
               PROVE  /\ h \in H /\ m2[h].size = m[h].size
                      /\ (h <= p /\ h + m[h].size < j) \/ (q # 0 /\ q <= h)
    BY Zenon
  <2>1. h \in H /\ (h <= p \/ (q # 0 /\ q <= h))
    BY Zenon
  <2>2. h \in Nat /\ m[h].size \in Nat
    BY <1>3, <2>1, Zenon
  <2>3. CASE q # 0 /\ q <= h
    <3>1. h # p
      BY <1>6, <1>7, <1>9, <2>2, <2>3
    <3> QED
      BY <1>10, <2>1, <2>3, <3>1, Zenon
  <2>4. CASE h < p
    <3>1. p \in H
      BY <1>7, <2>2, <2>4
    <3>2. h + m[h].size < p
      BY <1>1, <2>1, <2>4, <3>1, Zenon DEF HolesApart
    <3>3. m2[h] = m[h]
      BY <1>10, <1>7, <2>1, <2>2, <2>4
    <3> HIDE DEF j, H2
    <3> QED
      BY <1>7, <1>14, <2>1, <2>2, <2>4, <3>2, <3>3
  <2>5. CASE h = p
    <3>1. p # 0 /\ ~front /\ j = b
      BY <1>3, <2>1, <2>5, Zenon
    <3>2. m2[p].size = m[p].size /\ p + m[p].size # b
      BY <1>a, <3>1, Zenon
    <3> HIDE DEF j, H2, front
    <3> QED
      BY <1>6, <1>7, <1>11, <2>1, <2>2, <2>5, <3>1, <3>2
  <2> QED
    BY <1>7, <2>1, <2>2, <2>3, <2>4, <2>5
<1>16. j \in H2 /\ H2 \subseteq Granules(from, to)
  BY <1>1, <1>14, <1>15, Zenon
<1> HIDE DEF H2, K, j, front
<1>17. Sized(H2, m2, to)
  <2> SUFFICES ASSUME NEW h \in H2
               PROVE  Whole(m2[h].size) /\ m2[h].size >= GRANULE /\ h + m2[h].size <= to
    BY Zenon DEF Sized
  <2>1. CASE h = j
    BY <1>9, <1>14, <2>1, Zenon
  <2>2. CASE h # j
    BY <1>3, <1>15, <2>2, Zenon
  <2> QED
    BY <2>1, <2>2, Zenon
<1>18. HolesApart(H2, m2)
  <2> SUFFICES ASSUME NEW g \in H2, NEW h \in H2, g < h PROVE g + m2[g].size < h
    BY Zenon DEF HolesApart
  <2>0. g \in Nat /\ h \in Nat
    BY <1>2, <1>16, Zenon
  <2>1. CASE g # j /\ h # j
    BY <1>1, <1>15, <2>1, Zenon DEF HolesApart
  <2>2. CASE g = j
    <3>1. q # 0 /\ q <= h
      BY <1>7, <1>14, <1>15, <2>0, <2>2
    <3> QED
      BY <1>9, <1>14, <2>0, <2>2, <3>1
  <2>3. CASE h = j /\ g # j
    <3>1. ~(q # 0 /\ q <= g)
      BY <1>6, <1>9, <1>14, <2>0, <2>3
    <3> QED
      BY <1>15, <2>3, <3>1, Zenon
  <2> QED
    BY <2>1, <2>2, <2>3, Zenon
<1>19. Placed(blocks2, from, to) /\ BlocksApart(blocks2)
  BY <1>4, Zenon DEF Placed, BlocksApart
<1>20. \A o \in blocks2 : o \in blocks /\ o # owned /\ (EndOf(o) <= b \/ e <= o.at)
  BY <1>4, Zenon DEF BlocksApart
<1>21. Clean(m2, blocks2, from, to)
  <2> SUFFICES ASSUME NEW o \in blocks2, NEW g \in Granules(from, to), o.at <= g, g < EndOf(o)
               PROVE  m2[g] = NoHeader
    BY Zenon DEF Clean
  <2>1. m[g] = NoHeader /\ g \in Nat /\ o \in blocks
    BY <1>2, <1>4, Zenon DEF Clean
  <2>2. o.at \in Nat /\ EndOf(o) \in Nat
    BY <1>5, <2>1, Zenon
  <2>3. g # b
    BY <1>6, <1>20, <2>1, <2>2
  <2>4. g # p
    <3>1. SUFFICES ASSUME g = p PROVE FALSE
      BY Zenon
    <3>2. p # 0
      BY <1>2, <3>1, Zenon
    <3>3. p + m[p].size <= o.at \/ EndOf(o) <= p
      BY <1>4, <1>11, <2>1, <3>2, Zenon DEF Clear
    <3> QED
      BY <1>2, <1>7, <1>11, <2>1, <2>2, <3>1, <3>2, <3>3
  <2> QED
    BY <1>b, <2>1, <2>3, <2>4, Zenon
<1>22. Clear(H2, m2, blocks2)
  <2> SUFFICES ASSUME NEW h \in H2, NEW o \in blocks2
               PROVE  h + m2[h].size <= o.at \/ EndOf(o) <= h
    BY Zenon DEF Clear
  <2>0. o \in blocks /\ o.at \in Nat /\ EndOf(o) \in Nat /\ o.at < EndOf(o)
        /\ (EndOf(o) <= b \/ e <= o.at)
    BY <1>5, <1>20, Zenon
  <2>1. CASE h # j
    <3>1. h \in H /\ m2[h].size = m[h].size
      BY <1>15, <2>1, Zenon
    <3> QED
      BY <1>4, <2>0, <3>1, Zenon DEF Clear
  <2>2. CASE h = j
    <3>1. CASE EndOf(o) <= b
      <4>1. CASE j = b
        BY <2>2, <3>1, <4>1, Zenon
      <4>2. CASE j = p /\ p # 0 /\ p + m[p].size = b
        <5>1. b <= o.at \/ EndOf(o) <= p
          BY <1>4, <1>11, <2>0, <4>2, Zenon DEF Clear
        <5> QED
          BY <1>6, <2>0, <2>2, <3>1, <4>2, <5>1
      <4> QED
        BY <1>14, <4>1, <4>2, Zenon
    <3>2. CASE e <= o.at
      <4>1. CASE ~behind
        BY <1>9, <1>14, <2>2, <3>2, <4>1, Zenon
      <4>2. CASE behind
        <5>1. c \in H /\ e = c /\ new_end = c + m[c].size
          BY <1>8, <1>9, <4>2, Zenon DEF behind
        <5>2. new_end <= o.at \/ EndOf(o) <= c
          BY <1>4, <2>0, <5>1, Zenon DEF Clear
        <5> QED
          BY <1>6, <1>14, <2>0, <2>2, <3>2, <5>1, <5>2
      <4> QED
        BY <4>1, <4>2, Zenon
    <3> QED
      BY <2>0, <3>1, <3>2, Zenon
  <2> QED
    BY <2>1, <2>2, Zenon
<1>23. Covered(H2, m2, blocks2, from, to)
  <2> SUFFICES ASSUME NEW g \in Granules(from, to)
               PROVE  \/ \E h \in H2 : h <= g /\ g < h + m2[h].size
                      \/ \E o \in blocks2 : o.at <= g /\ g < EndOf(o)
    BY Zenon DEF Covered
  <2>0. g \in Nat
    BY <1>2, Zenon
  <2>1. CASE j <= g /\ g < new_end
    BY <1>14, <2>1, Zenon
  <2>2. CASE \E o \in blocks : o.at <= g /\ g < EndOf(o)
    <3>1. PICK o \in blocks : o.at <= g /\ g < EndOf(o)
      BY <2>2, Zenon
    <3>2. CASE o = owned
      <4>1. j <= g /\ g < new_end
        BY <1>6, <1>9, <1>14, <2>0, <3>1, <3>2
      <4> QED
        BY <2>1, <4>1, Zenon
    <3> QED
      BY <3>1, <3>2, Zenon
  <2>3. CASE \E h \in H : h <= g /\ g < h + m[h].size
    <3>1. PICK h \in H : h <= g /\ g < h + m[h].size
      BY <2>3, Zenon
    <3>2. CASE behind /\ h = c
      <4>1. j <= g /\ g < new_end
        BY <1>6, <1>9, <1>14, <2>0, <3>1, <3>2 DEF behind
      <4> QED
        BY <2>1, <4>1, Zenon
    <3>3. CASE h <= p \/ (q # 0 /\ q <= h)
      <4>1. h \in H2
        BY <3>3, Zenon DEF H2
      <4>2. CASE h # j
        <5>1. m2[h].size = m[h].size
          BY <1>15, <4>1, <4>2, Zenon
        <5> QED
          BY <3>1, <4>1, <5>1, Zenon
      <4>3. CASE h = j
        <5>1. h \in Nat /\ m[h].size \in Nat
          BY <1>3, Zenon
        <5>2. j # b
          <6>1. h <= p \/ new_end < h
            BY <1>7, <1>9, <3>3, <5>1
          <6> QED
            BY <1>6, <1>7, <1>9, <4>3, <5>1, <6>1
        <5>3. g < b
          BY <1>14, <3>1, <4>3, <5>2, Zenon
        <5>4. j <= g /\ g < new_end
          BY <1>6, <1>9, <2>0, <3>1, <4>3, <5>3
        <5> QED
          BY <2>1, <5>4, Zenon
      <4> QED
        BY <4>2, <4>3, Zenon
    <3> QED
      BY <1>9, <3>2, <3>3, Zenon
  <2> QED
    BY <1>4, <2>2, <2>3, Zenon DEF Covered
<1>24. Chain(H2, first2, m2, from, to)
  BY <1>13, <1>16, <1>17, <1>18, Zenon DEF Chain
<1>25. Books(H2, m2, blocks2, from, to)
  BY <1>19, <1>21, <1>22, <1>23, Zenon DEF Books
<1> QED
  BY <1>24, <1>25, Zenon

-----------------------------------------------------------------------------
(* Counting granules.                                                      *)

\* As many granules lie between two whole numbers as fit.
LEMMA GranuleCount ==
  ASSUME HeapAssumption, NEW a, NEW b, Whole(a), Whole(b), a <= b
  PROVE  /\ IsFiniteSet(Granules(a, b)) /\ Cardinality(Granules(a, b)) \in Nat
         /\ GRANULE * Cardinality(Granules(a, b)) = b - a
<1>0. GRANULE \in Nat \ {0} /\ a \in Nat /\ b \in Nat
  BY Zenon DEF HeapAssumption, Whole
<1> DEFINE Good(x) == /\ IsFiniteSet(Granules(a, x)) /\ Cardinality(Granules(a, x)) \in Nat
                      /\ GRANULE * Cardinality(Granules(a, x)) = x - a
           Bad == {x \in Nat : Whole(x) /\ a <= x /\ ~Good(x)}
<1>1. SUFFICES ASSUME Bad # {} PROVE FALSE
  BY <1>0, Zenon
<1>2. PICK x \in Bad : \A y \in Bad : x <= y
  <2>1. Bad \in SUBSET Nat
    BY Zenon
  <2> HIDE DEF Bad
  <2> QED
    BY <1>1, <2>1, LeastNatural, Zenon
<1>3. x \in Nat /\ Whole(x) /\ a <= x /\ ~Good(x)
  BY <1>2, Zenon
<1>4. x # a
  <2>1. Granules(a, a) = {}
    BY <1>0 DEF Granules
  <2>2. IsFiniteSet({}) /\ Cardinality({}) = 0
    BY FS_EmptySet, Zenon
  <2>3. Good(a)
    BY <1>0, <2>1, <2>2
  <2> QED
    BY <1>3, <2>3, Zenon
<1> DEFINE y == x - GRANULE
<1>5. a + GRANULE <= x
  <2>1. a < x
    BY <1>0, <1>3, <1>4
  <2> QED
    BY <1>3, <2>1, WholeApart, Zenon
<1>6. y \in Nat /\ a <= y /\ y < x /\ y + GRANULE = x
  BY <1>0, <1>3, <1>5
<1>7. Whole(y)
  <2>1. (GRANULE * 1 + 0) % GRANULE = 0
    BY <1>0, ModUnique
  <2>2. GRANULE * 1 + 0 = GRANULE
    BY <1>0
  <2>3. Whole(GRANULE) /\ GRANULE <= x
    BY <1>0, <1>3, <1>5, <2>1, <2>2 DEF Whole
  <2> QED
    BY <1>3, <2>3, WholeSum, Zenon
<1> HIDE DEF y
<1>8. Good(y)
  <2>1. ~(x <= y)
    BY <1>3, <1>6
  <2>2. y \notin Bad
    <3> HIDE DEF Bad
    <3> QED
      BY <1>2, <2>1, Zenon
  <2> QED
    BY <1>6, <1>7, <2>2, Zenon
<1>9. Granules(a, x) = Granules(a, y) \cup {y} /\ y \notin Granules(a, y)
  <2>1. y \notin Granules(a, y) /\ y \in Granules(a, x)
    BY <1>0, <1>3, <1>6, <1>7 DEF Granules, Whole
  <2>2. Granules(a, y) \subseteq Granules(a, x)
    BY <1>0, <1>3, <1>6 DEF Granules
  <2>3. ASSUME NEW g \in Granules(a, x), g # y PROVE g \in Granules(a, y)
    <3>1. Whole(g) /\ g \in Nat /\ a <= g /\ g < x
      BY <1>0, <1>3 DEF Granules, Whole
    <3>2. g + GRANULE <= x
      BY <1>3, <3>1, WholeApart, Zenon
    <3>3. g < y
      BY <1>0, <1>3, <1>6, <2>3, <3>1, <3>2
    <3> QED
      BY <1>0, <1>6, <3>1, <3>3 DEF Granules, Whole
  <2> QED
    BY <2>1, <2>2, <2>3, Zenon
<1>10. /\ IsFiniteSet(Granules(a, x))
       /\ Cardinality(Granules(a, x)) = Cardinality(Granules(a, y)) + 1
  BY <1>8, <1>9, FS_AddElement
<1>11. GRANULE * (Cardinality(Granules(a, y)) + 1) = GRANULE * Cardinality(Granules(a, y)) + GRANULE
  BY <1>0, <1>8
<1>12. Good(x)
  <2>1. GRANULE * Cardinality(Granules(a, x)) = (y - a) + GRANULE
    BY <1>8, <1>10, <1>11, Zenon
  <2>2. (y - a) + GRANULE = x - a
    BY <1>0, <1>3, <1>6
  <2> QED
    BY <1>8, <1>10, <2>1, <2>2
<1> QED
  BY <1>3, <1>12, Zenon

\* A block more takes as many granules more.
LEMMA GranulesAdded ==
  ASSUME HeapAssumption, NEW U, IsFiniteSet(U), NEW a, NEW b, Whole(a), Whole(b), a <= b,
         U \cap Granules(a, b) = {}
  PROVE  /\ IsFiniteSet(U \cup Granules(a, b))
         /\ GRANULE * Cardinality(U) \in Nat
         /\ GRANULE * Cardinality(U \cup Granules(a, b)) = GRANULE * Cardinality(U) + (b - a)
<1>0. GRANULE \in Nat \ {0}
  BY Zenon DEF HeapAssumption
<1> DEFINE V == Granules(a, b)
           u == Cardinality(U)
           v == Cardinality(V)
<1>1. IsFiniteSet(V) /\ v \in Nat /\ GRANULE * v = b - a
  BY GranuleCount, Zenon
<1>2. u \in Nat
  BY FS_CardinalityType, Zenon
<1>3. IsFiniteSet(U \cup V) /\ Cardinality(U \cup V) = u + v - Cardinality(U \cap V)
  <2> HIDE DEF V
  <2> QED
    BY <1>1, FS_Union, Zenon
<1>4. Cardinality(U \cap V) = 0
  BY FS_EmptySet, Zenon
<1> HIDE DEF u, v, V
<1>5. Cardinality(U \cup V) = u + v
  BY <1>1, <1>2, <1>3, <1>4
<1>6. GRANULE * (u + v) = GRANULE * u + GRANULE * v
  BY <1>0, <1>1, <1>2
<1>7. GRANULE * u \in Nat
  BY <1>0, <1>2
<1> QED
  BY <1>1, <1>3, <1>5, <1>6, <1>7, Zenon DEF u, V

-----------------------------------------------------------------------------
(* The inductive invariant.                                                *)

\* The granules in blocks.
Used(blocks, from, to) ==
    {g \in Granules(from, to) : \E o \in blocks : o.at <= g /\ g < EndOf(o)}

\* The list is that of a set of holes; holes and blocks make up the heap; and
\* `free` counts what is not in a block.
IInv ==
    /\ Types
    /\ free + GRANULE * Cardinality(Used(live, start, end)) = end - start
    /\ \E H \in SUBSET Granules(start, end) :
        Chain(H, head, hole, start, end) /\ Books(H, hole, live, start, end)

\* `init` leaves one hole, or none, and no block.
LEMMA InitIsGood ==
  ASSUME HeapAssumption, Init
  PROVE  IInv
<1>0. GRANULE \in Nat \ {0}
  BY Zenon DEF HeapAssumption
<1>1. PICK region \in Regions :
        /\ start = next_multiple_of(region.start, GRANULE)
        /\ end = Larger(((region.start + region.size) \div GRANULE) * GRANULE,
                        next_multiple_of(region.start, GRANULE))
  BY Zenon DEF Init
<1>2. region.start \in Nat \ {0} /\ region.size \in Nat
  BY Zenon DEF HeapAssumption
<1>3. start \in Nat /\ region.start <= start /\ start % GRANULE = 0
  BY <1>0, <1>1, <1>2, RoundedUp, Zenon
<1> DEFINE top == region.start + region.size
           k == top \div GRANULE
<1>4. k * GRANULE \in Nat /\ (k * GRANULE) % GRANULE = 0
  <2>1. top \in Nat /\ 0 <= top
    BY <1>2
  <2> HIDE DEF top
  <2>2. k \in Int /\ top % GRANULE \in 0 .. GRANULE - 1 /\ top = GRANULE * k + (top % GRANULE)
    BY <1>0, <2>1, DivMod
  <2> HIDE DEF k
  <2>3. k >= 0
    <3>1. SUFFICES ASSUME k <= -1 PROVE FALSE
      BY <2>2
    <3>2. GRANULE * k <= - GRANULE
      BY <1>0, <2>2, <3>1
    <3>3. GRANULE * k \in Int
      BY <1>0, <2>2
    <3> QED
      BY <1>0, <2>1, <2>2, <3>2, <3>3
  <2>4. k * GRANULE = GRANULE * k + 0 /\ k * GRANULE \in Nat
    BY <1>0, <2>2, <2>3
  <2>5. (GRANULE * k + 0) % GRANULE = 0
    BY <1>0, <2>2, ModUnique
  <2> QED
    BY <2>4, <2>5, Zenon
<1>5. end = Larger(k * GRANULE, start)
  BY <1>1, Zenon
<1> HIDE DEF k
<1>6. Whole(start) /\ start # 0 /\ Whole(end) /\ start <= end /\ start \in Nat /\ end \in Nat
  BY <1>2, <1>3, <1>4, <1>5 DEF Larger, Whole
<1>7. /\ head = IF end - start >= GRANULE THEN start ELSE 0
      /\ free = end - start
      /\ hole = [g \in Granules(start, end) |->
                    IF g = start THEN [size |-> end - start, next |-> 0] ELSE NoHeader]
      /\ live = {}
  BY Zenon DEF Init
<1>8. Types
  <2>1. end - start \in Int /\ head \in Int
    BY <1>6, <1>7
  <2>2. NoHeader \in [size : Int, next : Int]
    BY DEF NoHeader
  <2>3. hole \in [Granules(start, end) -> [size : Int, next : Int]]
    BY <1>7, <2>1, <2>2
  <2> QED
    BY <1>6, <1>7, <2>1, <2>3, Zenon DEF Types
<1>9. free + GRANULE * Cardinality(Used(live, start, end)) = end - start
  <2>1. Used(live, start, end) = {}
    BY <1>7, Zenon DEF Used
  <2>2. Cardinality({}) = 0 /\ GRANULE * 0 = 0
    BY <1>0, FS_EmptySet
  <2>3. GRANULE * Cardinality(Used(live, start, end)) = 0
    BY <2>1, <2>2, Zenon
  <2> QED
    BY <1>6, <1>7, <2>3
<1>10. \E H \in SUBSET Granules(start, end) :
          Chain(H, head, hole, start, end) /\ Books(H, hole, live, start, end)
  <2>1. \A H : /\ Placed(live, start, end) /\ Clean(hole, live, start, end)
               /\ BlocksApart(live) /\ Clear(H, hole, live)
    BY <1>7, Zenon DEF Placed, Clean, BlocksApart, Clear
  <2>2. CASE end - start >= GRANULE
    <3>1. start \in Granules(start, end) /\ head = start
      BY <1>0, <1>6, <1>7, <2>2 DEF Granules, Whole
    <3>2. hole[start].size = end - start /\ hole[start].next = 0
      BY <1>7, <3>1, Zenon
    <3>3. Whole(end - start)
      BY <1>6, WholeSum, Zenon
    <3>4. Linked({start}, head, hole)
      BY <1>6, <3>1, <3>2 DEF Linked, IsNext
    <3>5. Sized({start}, hole, end) /\ HolesApart({start}, hole)
      BY <1>6, <2>2, <3>2, <3>3 DEF Sized, HolesApart
    <3>6. Covered({start}, hole, live, start, end)
      BY <1>6, <3>2 DEF Covered, Granules
    <3>7. {start} \in SUBSET Granules(start, end)
      BY <3>1, Zenon
    <3>8. Chain({start}, head, hole, start, end) /\ Books({start}, hole, live, start, end)
      BY <2>1, <3>4, <3>5, <3>6, <3>7, Zenon DEF Chain, Books
    <3> QED
      BY <3>7, <3>8, Zenon
  <2>3. CASE ~(end - start >= GRANULE)
    <3>1. ~(start < end)
      <4>1. SUFFICES ASSUME start < end PROVE FALSE
        BY Zenon
      <4>2. start + GRANULE <= end
        BY <1>6, <4>1, WholeApart, Zenon
      <4> QED
        BY <1>0, <1>6, <2>3, <4>2
    <3>2. Granules(start, end) = {} /\ head = 0
      BY <1>6, <1>7, <2>3, <3>1 DEF Granules
    <3>3. Linked({}, head, hole) /\ Sized({}, hole, end) /\ HolesApart({}, hole)
      BY <3>2, Zenon DEF Linked, IsNext, Sized, HolesApart
    <3>4. Covered({}, hole, live, start, end)
      BY <3>2, Zenon DEF Covered
    <3>5. {} \in SUBSET Granules(start, end)
      BY Zenon
    <3>6. Chain({}, head, hole, start, end) /\ Books({}, hole, live, start, end)
      BY <2>1, <3>3, <3>4, Zenon DEF Chain, Books
    <3> QED
      BY <3>5, <3>6, Zenon
  <2> QED
    BY <2>2, <2>3, Zenon
<1> QED
  BY <1>8, <1>9, <1>10, Zenon DEF IInv

-----------------------------------------------------------------------------
\* The granules in blocks are finitely many, and a block's are its own.
LEMMA UsedWith ==
  ASSUME HeapAssumption, NEW from, NEW to, Whole(from), Whole(to), from <= to,
         NEW blocks, NEW o, o \notin blocks,
         Placed(blocks \cup {o}, from, to), BlocksApart(blocks \cup {o})
  PROVE  GRANULE * Cardinality(Used(blocks \cup {o}, from, to))
            = GRANULE * Cardinality(Used(blocks, from, to)) + block_size(o.layout)
         /\ GRANULE * Cardinality(Used(blocks, from, to)) \in Nat
<1> DEFINE U == Used(blocks, from, to)
           all == blocks \cup {o}
           V == Granules(o.at, EndOf(o))
<1>1. o.at \in Nat /\ EndOf(o) \in Nat /\ o.at < EndOf(o) /\ Whole(EndOf(o)) /\ Whole(o.at)
  BY BlockEnds, Zenon
<1>2. from <= o.at /\ EndOf(o) <= to /\ o.layout \in Layouts
  BY Zenon DEF Placed
<1>3. from \in Nat /\ to \in Nat
  BY Zenon DEF Whole
<1>4. \A g : g \in V <=> g \in Granules(from, to) /\ o.at <= g /\ g < EndOf(o)
  BY <1>1, <1>2, <1>3 DEF Granules
<1>5. Used(all, from, to) = U \cup V
  BY <1>4, Zenon DEF Used
<1>6. U \cap V = {}
  <2>1. SUFFICES ASSUME NEW g \in U, g \in V PROVE FALSE
    BY Zenon
  <2>2. PICK one \in blocks : one.at <= g /\ g < EndOf(one) /\ g \in Granules(from, to)
    BY <2>1, Zenon DEF Used
  <2>3. o.at <= g /\ g < EndOf(o) /\ g \in Nat
    BY <1>3, <1>4, <2>1 DEF Granules
  <2>4. one.at \in Nat /\ EndOf(one) \in Nat
    BY <2>2, BlockEnds, Zenon
  <2>5. EndOf(one) <= o.at \/ EndOf(o) <= one.at
    BY <2>2, Zenon DEF BlocksApart
  <2> QED
    BY <1>1, <2>2, <2>3, <2>4, <2>5
<1>7. IsFiniteSet(U)
  <2>1. IsFiniteSet(Granules(from, to))
    BY GranuleCount, Zenon
  <2>2. U \in SUBSET Granules(from, to)
    BY Zenon DEF Used
  <2> HIDE DEF U
  <2> QED
    BY <2>1, <2>2, FS_Subset, Zenon
<1>8. o.at <= EndOf(o)
  BY <1>1
<1> HIDE DEF U
<1>9. /\ GRANULE * Cardinality(U) \in Nat
      /\ GRANULE * Cardinality(U \cup V) = GRANULE * Cardinality(U) + (EndOf(o) - o.at)
  BY <1>1, <1>6, <1>7, <1>8, GranulesAdded, Zenon
<1>10. EndOf(o) - o.at = block_size(o.layout)
  <2>1. block_size(o.layout) \in Nat
    BY <1>2, BlockSize, Zenon DEF Whole
  <2> QED
    BY <1>1, <2>1 DEF EndOf
<1> QED
  BY <1>5, <1>9, <1>10, Zenon DEF U


\* `allocate`: first fit carves the block out of the hole it found.
LEMMA AllocateKeeps ==
  ASSUME HeapAssumption, IInv, NEW layout \in Layouts, Allocate(layout)
  PROVE  IInv'
<1>1. PICK H \in SUBSET Granules(start, end) :
            Chain(H, head, hole, start, end) /\ Books(H, hole, live, start, end)
  BY Zenon DEF IInv
<1>2. Types /\ free + GRANULE * Cardinality(Used(live, start, end)) = end - start
  BY Zenon DEF IInv
<1>3. PICK n \in 0 .. MaxHoles :
        /\ Fits(n, layout)
        /\ LET block == Block(n, layout)
               block_end == block + block_size(layout)
               split == Split(Nth[n], block, block_end)
               written == [g \in DOMAIN hole |->
                            IF block <= g /\ g < block_end THEN NoHeader ELSE split.holes[g]]
           IN  /\ link(written, IF n = 0 THEN 0 ELSE Nth[n - 1], split.rest)
               /\ live' = live \cup {[at |-> block, layout |-> layout]}
  BY Zenon DEF Allocate
<1>4. free' = free - block_size(layout) /\ start' = start /\ end' = end
  BY Zenon DEF Allocate
<1> DEFINE c == Nth[n]
           p == IF n = 0 THEN 0 ELSE Nth[n - 1]
           b == Block(n, layout)
           e == b + block_size(layout)
           hole_end == c + hole[c].size
           rest == IF e < hole_end THEN e ELSE hole[c].next
           r == IF c < b THEN c ELSE rest
           new == [at |-> b, layout |-> layout]
\* Where the block comes from.
<1>5. /\ H \subseteq Nat \ {0} /\ H \subseteq DOMAIN hole
      /\ \A i \in Nat : Nth[i] \in H \cup {0}
      /\ IsNext(H, 0, Nth[0])
      /\ \A i \in Nat : /\ Nth[i] # 0 => IsNext(H, Nth[i], Nth[i + 1])
                        /\ Nth[i] = 0 => Nth[i + 1] = 0
  BY <1>1, <1>2, NthInChain, Zenon
<1>6. n \in Nat /\ MaxHoles \in Nat
  BY <1>1, <1>2, NthOrder
<1>7. c \in H /\ c \in Nat \ {0} /\ e <= hole_end
  BY <1>3, <1>5, <1>6, Zenon DEF Fits
<1>8. p \in H \cup {0} /\ IsNext(H, p, c) /\ p \in Nat
  <2>1. CASE n = 0
    BY <1>5, <2>1, Zenon
  <2>2. CASE n # 0
    <3>1. n - 1 \in Nat /\ (n - 1) + 1 = n
      BY <1>6, <2>2
    <3>2. Nth[n - 1] \in H \cup {0} /\ Nth[n - 1] # 0
      BY <1>5, <1>7, <3>1, Zenon
    <3>3. IsNext(H, Nth[n - 1], Nth[n])
      BY <1>5, <3>1, <3>2, Zenon
    <3>4. Nth[n - 1] \in Nat
      BY <1>5, <3>2, Zenon
    <3> QED
      BY <2>2, <3>2, <3>3, <3>4, Zenon
  <2> QED
    BY <2>1, <2>2, Zenon
<1>9. Whole(b) /\ c <= b /\ b % layout.align = 0
  BY <1>7, BlockAligned, Zenon DEF Block
<1>10. /\ Whole(start) /\ start # 0 /\ Whole(end) /\ start <= end /\ head \in Int /\ free \in Int
       /\ start \in Nat /\ end \in Nat /\ b \in Nat
       /\ hole \in [Granules(start, end) -> [size : Int, next : Int]]
       /\ DOMAIN hole = Granules(start, end)
  BY <1>2, <1>9, Zenon DEF Types, Whole
<1>11. /\ Whole(hole[c].size) /\ hole_end <= end /\ Whole(c) /\ start <= c
       /\ hole[c].size \in Nat /\ hole[c].next \in Int
  <2>1. Whole(hole[c].size) /\ hole_end <= end
    BY <1>1, <1>7, Zenon DEF Chain, Sized
  <2>2. c \in Granules(start, end)
    BY <1>5, <1>7, <1>10, Zenon
  <2>3. hole[c].next \in Int
    BY <1>10, <2>2, Zenon
  <2> QED
    BY <1>10, <2>1, <2>2, <2>3 DEF Granules, Whole
<1>12. Whole(e) /\ e \in Nat /\ b < e /\ block_size(layout) \in Nat
  <2>1. Whole(block_size(layout)) /\ block_size(layout) >= GRANULE /\ GRANULE \in Nat \ {0}
    BY BlockSize, Zenon DEF HeapAssumption
  <2>2. Whole(e)
    BY <1>9, <2>1, WholeSum, Zenon
  <2> QED
    BY <1>10, <2>1, <2>2 DEF Whole
<1>13. c < e /\ (e < hole_end => e \in DOMAIN hole) /\ c \in DOMAIN hole
  <2>1. c < e
    BY <1>7, <1>9, <1>10, <1>12
  <2>2. e < hole_end => e \in Granules(start, end)
    BY <1>7, <1>10, <1>11, <1>12, <2>1 DEF Granules, Whole
  <2> QED
    BY <1>5, <1>7, <1>10, <2>1, <2>2, Zenon
\* What is written.
<1> DEFINE split == Split(c, b, e)
           written == [g \in DOMAIN hole |->
                            IF b <= g /\ g < e THEN NoHeader ELSE split.holes[g]]
<1>14. link(written, p, split.rest) /\ live' = live \cup {new}
  BY <1>3, Zenon
<1>15. /\ split.rest = r
       /\ \A g \in DOMAIN hole :
            split.holes[g] = IF c < b /\ g = c THEN [size |-> b - c, next |-> rest]
                             ELSE IF e < hole_end /\ g = e
                             THEN [size |-> hole_end - e, next |-> hole[c].next]
                             ELSE hole[g]
  <2>1. b > c <=> c < b
    BY <1>7, <1>10, Zenon
  <2>2. c # e
    BY <1>7, <1>12, <1>13
  <2> HIDE DEF c, b, e
  <2> QED
    BY <1>10, <1>13, <2>1, <2>2, Zenon DEF Split
<1> HIDE DEF split
<1>16. head' = (IF p = 0 THEN r ELSE head)
       /\ hole' = IF p = 0 THEN written ELSE [written EXCEPT ![p].next = r]
  <2> HIDE DEF c, b, e, p, written
  <2> QED
    BY <1>14, <1>15, Zenon DEF link
<1> HIDE DEF c, b, e, p
<1>17. p < c /\ (p # 0 => p \in DOMAIN hole)
  <2>1. p < c
    BY <1>7, <1>8, Zenon DEF IsNext
  <2> QED
    BY <1>5, <1>8, <2>1, Zenon
<1>18. /\ DOMAIN hole' = DOMAIN hole
       /\ \A g \in DOMAIN hole : g # p => hole'[g] = written[g]
       /\ p # 0 => hole'[p].size = written[p].size /\ hole'[p].next = r
       /\ p # 0 => hole'[p] = [written[p] EXCEPT !.next = r]
  <2>1. DOMAIN written = DOMAIN hole
    BY Zenon
  <2> HIDE DEF written, r
  <2>2. CASE p = 0
    BY <1>16, <2>1, <2>2, Zenon
  <2>3. CASE p # 0
    <3>1. hole' = [written EXCEPT ![p].next = r]
      BY <1>16, <2>3, Zenon
    <3>2. hole'[p] = [written[p] EXCEPT !.next = r]
      BY <1>17, <2>1, <2>3, <3>1, Zenon
    <3>3. written[p] \in [size : Int, next : Int]
      <4>1. written[p] = IF b <= p /\ p < e THEN NoHeader ELSE split.holes[p]
        BY <1>17, <2>3, Zenon DEF written
      <4>2. ~(b <= p /\ p < e) /\ p # c /\ p # e
        BY <1>7, <1>8, <1>9, <1>10, <1>12, <1>13, <1>17
      <4>3. written[p] = hole[p]
        BY <1>15, <1>17, <2>3, <4>1, <4>2, Zenon
      <4> QED
        BY <1>10, <1>17, <2>3, <4>3, Zenon
    <3>4. hole'[p].size = written[p].size /\ hole'[p].next = r
      BY <3>2, <3>3, Zenon
    <3> QED
      BY <1>17, <2>1, <2>3, <3>1, <3>2, <3>4, Zenon
  <2> QED
    BY <2>2, <2>3, Zenon
<1>19. \A g \in DOMAIN hole : ~(b <= g /\ g < e) => written[g] = split.holes[g]
  BY Zenon
<1>20. \A g \in DOMAIN hole : b <= g /\ g < e => written[g] = NoHeader
  BY Zenon
<1> HIDE DEF written
<1>21. DOMAIN hole \subseteq Nat /\ hole_end \in Nat
  BY <1>7, <1>10, <1>11 DEF Granules
<1>22. Carving(hole, hole', head, head', p, c, b, e, hole_end, start, end)
  <2>1. (p = 0 => head' = r) /\ (p # 0 => head' = head)
    BY <1>16, Zenon
  <2>2. p # 0 => hole'[p].size = hole[p].size /\ hole'[p].next = r
    <3>1. SUFFICES ASSUME p # 0 PROVE hole'[p].size = hole[p].size /\ hole'[p].next = r
      BY Zenon
    <3>2. ~(b <= p /\ p < e) /\ p # c /\ p # e
      BY <1>7, <1>8, <1>9, <1>10, <1>12, <1>13, <1>17
    <3>3. written[p] = hole[p]
      BY <1>15, <1>17, <1>19, <3>1, <3>2, Zenon
    <3> QED
      BY <1>18, <3>1, <3>3, Zenon
  <2>3. c < b => hole'[c].size = b - c /\ hole'[c].next = rest
    <3>1. SUFFICES ASSUME c < b PROVE hole'[c].size = b - c /\ hole'[c].next = rest
      BY Zenon
    <3>2. c # p /\ ~(b <= c /\ c < e)
      BY <1>7, <1>8, <1>10, <1>17, <3>1
    <3>3. hole'[c] = [size |-> b - c, next |-> rest]
      BY <1>13, <1>15, <1>18, <1>19, <3>1, <3>2, Zenon
    <3> QED
      BY <3>3
  <2>4. e < hole_end => hole'[e].size = hole_end - e /\ hole'[e].next = hole[c].next
    <3>1. SUFFICES ASSUME e < hole_end
                   PROVE  hole'[e].size = hole_end - e /\ hole'[e].next = hole[c].next
      BY Zenon
    <3>2. e # p /\ ~(b <= e /\ e < e) /\ e # c
      BY <1>7, <1>8, <1>12, <1>13, <1>17
    <3>3. hole'[e] = [size |-> hole_end - e, next |-> hole[c].next]
      BY <1>13, <1>15, <1>18, <1>19, <3>1, <3>2, Zenon
    <3> QED
      BY <3>3
  <2>5. ASSUME NEW g \in Granules(start, end), b <= g, g < e PROVE hole'[g] = NoHeader
    <3>1. g # p /\ g \in DOMAIN hole
      BY <1>7, <1>8, <1>9, <1>10, <1>17, <1>21, <2>5
    <3> QED
      BY <1>18, <1>20, <2>5, <3>1, Zenon
  <2>6. ASSUME NEW g \in Granules(start, end), g # p, ~(c <= g /\ g < e),
               ~(g = e /\ e < hole_end)
        PROVE  hole'[g] = hole[g]
    <3>1. g \in DOMAIN hole /\ g \in Nat
      BY <1>10, <1>21, Zenon
    <3>2. g # c /\ ~(b <= g /\ g < e)
      BY <1>7, <1>9, <1>10, <1>12, <1>13, <2>6, <3>1
    <3> QED
      BY <1>15, <1>18, <1>19, <2>6, <3>1, <3>2, Zenon
  <2> HIDE DEF hole_end
  <2> QED
    BY <2>1, <2>2, <2>3, <2>4, <2>5, <2>6, Zenon DEF Carving, r, rest
<1>23. \E H2 : /\ Chain(H2, head', hole', start, end)
               /\ Books(H2, hole', live \cup {new}, start, end)
  <2>1. hole_end = c + hole[c].size /\ e = b + block_size(layout)
    BY Zenon DEF e
  <2> HIDE DEF hole_end
  <2> QED
    BY <1>1, <1>7, <1>8, <1>9, <1>10, <1>22, <2>1, Carved, Zenon
<1>24. PICK H2 : /\ Chain(H2, head', hole', start, end)
                 /\ Books(H2, hole', live \cup {new}, start, end)
  BY <1>23, Zenon
<1>25. H2 \in SUBSET Granules(start, end)
  BY <1>24, Zenon DEF Chain
<1>26. Types'
  <2>1. ASSUME NEW g \in DOMAIN hole PROVE hole'[g] \in [size : Int, next : Int]
    <3>1. NoHeader \in [size : Int, next : Int]
      BY DEF NoHeader
    <3>2. b - c \in Int /\ hole_end - e \in Int /\ rest \in Int /\ r \in Int
      BY <1>7, <1>10, <1>11, <1>12, <1>21
    <3>3. split.holes[g] \in [size : Int, next : Int]
      <4>1. hole[g] \in [size : Int, next : Int]
        BY <1>10, Zenon
      <4> HIDE DEF rest, hole_end
      <4> QED
        BY <1>11, <1>15, <3>2, <4>1
    <3>4. written[g] \in [size : Int, next : Int]
      BY <1>19, <1>20, <3>1, <3>3, Zenon
    <3>5. CASE g # p
      BY <1>18, <3>4, <3>5, Zenon
    <3>6. CASE g = p
      <4>1. p # 0
        BY <1>10, <3>6 DEF Granules
      <4> HIDE DEF r
      <4> QED
        BY <1>18, <3>2, <3>4, <3>6, <4>1, Zenon
    <3> QED
      BY <3>5, <3>6, Zenon
  <2>2. hole' \in [Granules(start, end) -> [size : Int, next : Int]]
    <3>1. hole' = [g \in DOMAIN hole' |-> hole'[g]]
      <4>1. written = [g \in DOMAIN written |-> written[g]]
        BY Zenon DEF written
      <4> HIDE DEF r
      <4> QED
        BY <1>16, <4>1, Zenon
    <3> QED
      BY <1>10, <1>18, <2>1, <3>1, Zenon
  <2>3. head' \in Int /\ free' \in Int
    <3>1. r \in Int
      BY <1>7, <1>11, <1>12
    <3> HIDE DEF r
    <3> QED
      BY <1>4, <1>10, <1>12, <1>16, <3>1
  <2> QED
    BY <1>4, <1>10, <2>2, <2>3, Zenon DEF Types
<1>27. (free + GRANULE * Cardinality(Used(live, start, end)) = end - start)'
  <2>1. new \notin live
    <3>1. SUFFICES ASSUME new \in live PROVE FALSE
      BY Zenon
    <3>2. hole_end <= new.at \/ EndOf(new) <= c
      BY <1>1, <1>7, <3>1, Zenon DEF Books, Clear
    <3>3. new.at = b /\ EndOf(new) = e
      BY Zenon DEF EndOf, e
    <3> HIDE DEF new, hole_end
    <3> QED
      BY <1>7, <1>9, <1>10, <1>12, <1>21, <3>2, <3>3
  <2>2. Placed(live \cup {new}, start, end) /\ BlocksApart(live \cup {new})
    BY <1>24, Zenon DEF Books
  <2>3. new.layout = layout
    BY Zenon
  <2> HIDE DEF new
  <2>4. /\ GRANULE * Cardinality(Used(live \cup {new}, start, end))
            = GRANULE * Cardinality(Used(live, start, end)) + block_size(layout)
        /\ GRANULE * Cardinality(Used(live, start, end)) \in Nat
    <3>1. Whole(start) /\ Whole(end) /\ start <= end
      BY <1>10, Zenon
    <3>2. /\ GRANULE * Cardinality(Used(live \cup {new}, start, end))
                = GRANULE * Cardinality(Used(live, start, end)) + block_size(new.layout)
          /\ GRANULE * Cardinality(Used(live, start, end)) \in Nat
      BY <2>1, <2>2, <3>1, UsedWith, Zenon
    <3> QED
      BY <2>3, <3>2, Zenon
  <2>5. Used(live, start, end)' = Used(live \cup {new}, start, end)
    BY <1>4, <1>14, Zenon DEF Used
  <2>6. free' + GRANULE * Cardinality(Used(live \cup {new}, start, end)) = end - start
    BY <1>2, <1>4, <1>10, <1>12, <2>4
  <2> QED
    BY <1>4, <2>5, <2>6, Zenon
<1>28. Chain(H2, head', hole', start', end') /\ Books(H2, hole', live', start', end')
  BY <1>4, <1>14, <1>24, Zenon
<1>29. H2 \in SUBSET Granules(start', end')
  BY <1>4, <1>25, Zenon
<1> QED
  BY <1>26, <1>27, <1>28, <1>29, Zenon DEF IInv

-----------------------------------------------------------------------------
\* The walk of `deallocate` stops between the last hole before the block and
\* the first that is not.
LEMMA PlaceIs ==
  ASSUME HeapAssumption, Types, NEW H, Chain(H, head, hole, start, end), NEW b \in Nat \ {0}
  PROVE  /\ Prev(b) \in H \cup {0} /\ Nth[Place(b)] \in H \cup {0}
         /\ IsNext(H, Prev(b), Nth[Place(b)])
         /\ Prev(b) < b /\ (Nth[Place(b)] # 0 => b <= Nth[Place(b)])
<1>1. /\ H \subseteq Nat \ {0}
      /\ \A i \in Nat : Nth[i] \in H \cup {0}
      /\ IsNext(H, 0, Nth[0])
      /\ \A i \in Nat : Nth[i] # 0 => IsNext(H, Nth[i], Nth[i + 1])
  BY NthInChain, Zenon
<1>2. MaxHoles \in Nat /\ Nth[MaxHoles] = 0
  BY NthOrder, Zenon
<1>3. \A i \in Nat : Nth[i] \in Nat
  <2>1. H \cup {0} \subseteq Nat
    BY <1>1
  <2> QED
    BY <1>1, <2>1, Zenon
<1> DEFINE Stop(i) == Nth[i] = 0 \/ Nth[i] >= b
           Is(i) == Stop(i) /\ \A j \in 0 .. i - 1 : Nth[j] # 0 /\ Nth[j] < b
           n == Place(b)
<1>4. \E i \in 0 .. MaxHoles : Is(i)
  <2> DEFINE T == {i \in Nat : Stop(i)}
  <2>1. MaxHoles \in T
    BY <1>2, Zenon
  <2>2. PICK i \in T : \A j \in T : i <= j
    <3>1. T \in SUBSET Nat /\ T # {}
      BY <2>1, Zenon
    <3> HIDE DEF T
    <3> QED
      BY <3>1, LeastNatural, Zenon
  <2>3. i \in Nat /\ Stop(i) /\ i \in 0 .. MaxHoles
    BY <1>2, <2>1, <2>2
  <2>4. ASSUME NEW j \in 0 .. i - 1 PROVE Nth[j] # 0 /\ Nth[j] < b
    <3>1. j \in Nat /\ ~(i <= j)
      BY <2>3
    <3>2. j \notin T
      <4> HIDE DEF T
      <4> QED
        BY <2>2, <3>1, Zenon
    <3>3. ~Stop(j)
      BY <3>1, <3>2, Zenon
    <3> QED
      BY <1>3, <3>1, <3>3
  <2> QED
    BY <2>3, <2>4, Zenon
<1>5. n \in 0 .. MaxHoles /\ Is(n)
  <2>1. n = CHOOSE i \in 0 .. MaxHoles : Is(i)
    BY Zenon DEF Place
  <2> HIDE DEF n, Is
  <2> QED
    BY <1>4, <2>1, Zenon
<1>6. Prev(b) = IF n = 0 THEN 0 ELSE Nth[n - 1]
  BY Zenon DEF Prev
<1> HIDE DEF n
<1>7. n \in Nat /\ Nth[n] \in H \cup {0} /\ (Nth[n] # 0 => b <= Nth[n])
  <2>1. n \in Nat
    BY <1>2, <1>5
  <2> QED
    BY <1>1, <1>3, <1>5, <2>1, Zenon
<1>8. CASE n = 0
  <2>1. Prev(b) = 0
    BY <1>6, <1>8, Zenon
  <2> QED
    BY <1>1, <1>7, <1>8, <2>1 DEF n
<1>9. CASE n # 0
  <2>1. Prev(b) = Nth[n - 1] /\ n - 1 \in Nat /\ (n - 1) + 1 = n /\ n - 1 \in 0 .. n - 1
    BY <1>6, <1>7, <1>9
  <2>2. Nth[n - 1] # 0 /\ Nth[n - 1] < b
    BY <1>5, <2>1, Zenon
  <2>3. Nth[n - 1] \in H \cup {0} /\ IsNext(H, Nth[n - 1], Nth[n])
    BY <1>1, <2>1, <2>2, Zenon
  <2> QED
    BY <1>7, <2>1, <2>2, <2>3, Zenon DEF n
<1> QED
  BY <1>8, <1>9, Zenon

\* `deallocate`: the block is joined with the holes it lies between.
LEMMA DeallocateKeeps ==
  ASSUME HeapAssumption, IInv, NEW owned \in live, Deallocate(owned)
  PROVE  IInv'
<1>1. PICK H \in SUBSET Granules(start, end) :
            Chain(H, head, hole, start, end) /\ Books(H, hole, live, start, end)
  BY Zenon DEF IInv
<1>2. Types /\ free + GRANULE * Cardinality(Used(live, start, end)) = end - start
  BY Zenon DEF IInv
<1> DEFINE b == owned.at
           size == block_size(owned.layout)
           e == EndOf(owned)
           p == Prev(b)
           c == Nth[Place(b)]
           merged == Merged(b, size)
           front == p # 0 /\ p + hole[p].size = b
           behind == c # 0 /\ e = c
           rest == live \ {owned}
<1>3. /\ IF front
         THEN /\ hole' = [hole EXCEPT ![p] =
                                [size |-> hole[p].size + merged.size, next |-> merged.next]]
              /\ head' = head
         ELSE link([hole EXCEPT ![b] = merged], p, b)
      /\ free' = free + size /\ live' = rest /\ start' = start /\ end' = end
  BY Zenon DEF Deallocate
<1>4. /\ Whole(start) /\ start # 0 /\ Whole(end) /\ start <= end /\ head \in Int /\ free \in Int
      /\ start \in Nat /\ end \in Nat
      /\ hole \in [Granules(start, end) -> [size : Int, next : Int]]
      /\ DOMAIN hole = Granules(start, end)
  BY <1>2, Zenon DEF Types, Whole
<1>5. Placed(live, start, end) /\ BlocksApart(live)
  BY <1>1, Zenon DEF Books
<1>6. /\ b \in Nat /\ e \in Nat /\ b < e /\ Whole(b) /\ e = b + size /\ size \in Nat
      /\ b # 0 /\ b \in DOMAIN hole
  <2>1. b \in Nat /\ e \in Nat /\ b < e /\ Whole(b)
    BY <1>5, BlockEnds, Zenon
  <2>2. owned.layout \in Layouts /\ start <= b /\ e <= end
    BY <1>5, Zenon DEF Placed
  <2>3. size \in Nat
    BY <2>2, BlockSize, Zenon DEF Whole
  <2>4. b \in Granules(start, end)
    BY <1>4, <2>1, <2>2 DEF Granules, Whole
  <2> QED
    BY <1>4, <2>1, <2>2, <2>3, <2>4 DEF EndOf
<1>7. p \in H \cup {0} /\ c \in H \cup {0} /\ IsNext(H, p, c) /\ p < b /\ (c # 0 => b <= c)
  <2> HIDE DEF b
  <2> QED
    BY <1>1, <1>2, <1>6, PlaceIs, Zenon
<1>8. H \subseteq DOMAIN hole /\ DOMAIN hole \subseteq Nat \ {0}
  BY <1>1, <1>4 DEF Granules
<1>9. /\ p # 0 => p \in DOMAIN hole /\ hole[p] \in [size : Int, next : Int]
      /\ c # 0 => c \in DOMAIN hole /\ hole[c] \in [size : Int, next : Int]
      /\ p \in Nat /\ c \in Nat
  <2>1. (p # 0 => p \in DOMAIN hole) /\ (c # 0 => c \in DOMAIN hole)
    BY <1>7, <1>8, Zenon
  <2>2. p \in Nat /\ c \in Nat
    BY <1>7, <1>8
  <2> HIDE DEF p, c
  <2> QED
    BY <1>4, <2>1, <2>2, Zenon
<1>10. merged = IF behind THEN [size |-> size + hole[c].size, next |-> hole[c].next]
                ELSE [size |-> size, next |-> c]
  BY <1>6, Zenon DEF Merged
<1> HIDE DEF b, size, e, p, c, merged
<1>11. /\ merged \in [size : Int, next : Int]
       /\ merged.size = IF behind THEN (e - b) + hole[c].size ELSE e - b
       /\ merged.next = IF behind THEN hole[c].next ELSE c
  <2>1. e - b = size
    BY <1>6
  <2>2. CASE behind
    BY <1>6, <1>9, <1>10, <2>1, <2>2
  <2>3. CASE ~behind
    BY <1>6, <1>9, <1>10, <2>1, <2>3
  <2> QED
    BY <2>2, <2>3, Zenon
<1> HIDE DEF behind
<1>12. Types' /\ Joining(hole, hole', head, head', p, c, b, e, start, end)
  <2>1. free' \in Int
    BY <1>3, <1>4, <1>6
  <2>2. CASE front
    <3>1. /\ hole' = [hole EXCEPT ![p] = [size |-> hole[p].size + merged.size,
                                            next |-> merged.next]]
          /\ head' = head
      BY <1>3, <2>2, Zenon
    <3>2. p \in DOMAIN hole /\ hole[p].size + merged.size \in Int /\ merged.next \in Int
      BY <1>9, <1>11, <2>2
    <3>3. hole' \in [Granules(start, end) -> [size : Int, next : Int]]
      BY <1>4, <3>1, <3>2, Zenon
    <3>4. Types'
      BY <1>3, <1>4, <2>1, <3>1, <3>3, Zenon DEF Types
    <3>5. hole'[p].size = hole[p].size + merged.size /\ hole'[p].next = merged.next
      BY <3>1, <3>2, Zenon
    <3>6. \A g \in Granules(start, end) : g # p => hole'[g] = hole[g]
      BY <1>4, <3>1, Zenon
    <3> QED
      BY <1>11, <2>2, <3>1, <3>4, <3>5, <3>6, Zenon DEF Joining, behind
  <2>3. CASE ~front
    <3> DEFINE holes == [hole EXCEPT ![b] = merged]
    <3>1. /\ head' = IF p = 0 THEN b ELSE head
          /\ hole' = IF p = 0 THEN holes ELSE [holes EXCEPT ![p].next = b]
      BY <1>3, <2>3, Zenon DEF link
    <3>2. /\ holes \in [Granules(start, end) -> [size : Int, next : Int]]
          /\ holes[b] = merged
          /\ \A g \in DOMAIN hole : g # b => holes[g] = hole[g]
      BY <1>4, <1>6, <1>11, Zenon
    <3> HIDE DEF holes
    <3>3. p # b
      BY <1>6, <1>7, <1>9
    <3>4. CASE p = 0
      <4>1. head' = b /\ hole' = holes
        BY <3>1, <3>4, Zenon
      <4>2. Types'
        BY <1>3, <1>4, <1>6, <2>1, <3>2, <4>1 DEF Types
      <4>3. hole'[b].size = merged.size /\ hole'[b].next = merged.next
        BY <3>2, <4>1, Zenon
      <4>4. \A g \in Granules(start, end) : g # p /\ g # b => hole'[g] = hole[g]
        BY <1>4, <3>2, <4>1, Zenon
      <4> QED
        BY <1>11, <2>3, <3>4, <4>1, <4>2, <4>3, <4>4, Zenon DEF Joining, behind
    <3>5. CASE p # 0
      <4>1. head' = head /\ hole' = [holes EXCEPT ![p].next = b]
        BY <3>1, <3>5, Zenon
      <4>2. p \in DOMAIN hole /\ holes[p] = hole[p] /\ hole[p] \in [size : Int, next : Int]
            /\ b \in Int
        BY <1>6, <1>9, <3>2, <3>3, <3>5
      <4>3. hole'[p] = [hole[p] EXCEPT !.next = b]
        BY <1>4, <3>2, <4>1, <4>2, Zenon
      <4>4. hole'[p].size = hole[p].size /\ hole'[p].next = b
        BY <4>2, <4>3, Zenon
      <4>5. \A g \in Granules(start, end) : g # p => hole'[g] = holes[g]
        BY <3>2, <4>1, Zenon
      <4>6. hole' \in [Granules(start, end) -> [size : Int, next : Int]]
        BY <3>2, <4>1, <4>2, Zenon
      <4>7. Types'
        BY <1>3, <1>4, <2>1, <4>1, <4>6, Zenon DEF Types
      <4>8. hole'[b].size = merged.size /\ hole'[b].next = merged.next
        BY <1>4, <1>6, <3>2, <3>3, <4>5, Zenon
      <4>9. \A g \in Granules(start, end) : g # p /\ g # b => hole'[g] = hole[g]
        BY <1>4, <3>2, <4>5, Zenon
      <4> QED
        BY <1>11, <2>3, <3>5, <4>1, <4>4, <4>7, <4>8, <4>9, Zenon DEF Joining, behind
    <3> QED
      BY <3>4, <3>5, Zenon
  <2> QED
    BY <2>2, <2>3, Zenon
<1>13. PICK H2 : /\ Chain(H2, head', hole', start, end)
                 /\ Books(H2, hole', rest, start, end)
  <2>1. b = owned.at /\ e = EndOf(owned)
    BY Zenon DEF b, e
  <2> QED
    BY <1>1, <1>4, <1>7, <1>12, <2>1, Joined, ZenonT(30)
<1>14. (free + GRANULE * Cardinality(Used(live, start, end)) = end - start)'
  <2>1. rest \cup {owned} = live /\ owned \notin rest
    BY Zenon
  <2> HIDE DEF rest
  <2>2. Placed(rest \cup {owned}, start, end) /\ BlocksApart(rest \cup {owned})
    BY <1>5, <2>1, Zenon
  <2>3. Whole(start) /\ Whole(end) /\ start <= end
    BY <1>4, Zenon
  <2>4. /\ GRANULE * Cardinality(Used(rest \cup {owned}, start, end))
            = GRANULE * Cardinality(Used(rest, start, end)) + block_size(owned.layout)
        /\ GRANULE * Cardinality(Used(rest, start, end)) \in Nat
    BY <2>1, <2>2, <2>3, UsedWith, Zenon
  <2>5. GRANULE * Cardinality(Used(live, start, end))
            = GRANULE * Cardinality(Used(rest, start, end)) + size
    BY <2>1, <2>4, Zenon DEF size
  <2>6. Used(live, start, end)' = Used(rest, start, end)
    BY <1>3, Zenon DEF Used
  <2>7. free' + GRANULE * Cardinality(Used(rest, start, end)) = end - start
    BY <1>2, <1>3, <1>4, <1>6, <2>4, <2>5
  <2> QED
    BY <1>3, <2>6, <2>7, Zenon
<1>15. Chain(H2, head', hole', start', end') /\ Books(H2, hole', live', start', end')
  BY <1>3, <1>13, Zenon
<1>16. H2 \in SUBSET Granules(start', end')
  BY <1>15, Zenon DEF Chain
<1> QED
  BY <1>12, <1>14, <1>15, <1>16, Zenon DEF IInv

-----------------------------------------------------------------------------
(* What the invariant says of the list as it is walked.                    *)

\* `Total` adds up the sizes in the headers, one hole after the other.
LEMMA TotalIs ==
  ASSUME \A i \in Nat : Nth[i] # 0 => hole[Nth[i]].size \in Int
  PROVE  /\ Total[0] = 0
         /\ \A n \in Nat : /\ Total[n] \in Int
                           /\ Total[n + 1]
                                = Total[n] + (IF Nth[n] # 0 THEN hole[Nth[n]].size ELSE 0)
<1> DEFINE of(i) == IF Nth[i] # 0 THEN hole[Nth[i]].size ELSE 0
           step == [n \in Nat |-> [x \in Int |-> IF n = 0 THEN 0 ELSE x + of(n - 1)]]
           Is(f) == f = [n \in Nat |-> IF n = 0 THEN 0 ELSE f[n - 1] + of(n - 1)]
<1>1. \A i \in Nat : of(i) \in Int
  OBVIOUS
<1>2. Total = CHOOSE f : Is(f)
  BY Zenon DEF Total
<1> HIDE DEF of
<1>3. step \in [Nat -> [Int -> Int]]
  <2>1. \A n \in Nat : n # 0 => of(n - 1) \in Int
    <3> TAKE n \in Nat
    <3>1. n # 0 => n - 1 \in Nat
      OBVIOUS
    <3> QED
      BY <1>1, <3>1, Zenon
  <2> QED
    BY <2>1
<1>4. PICK f \in [Nat -> Int] : f[0] = 0 /\ \A n \in Nat : n # 0 => f[n] = step[n][f[n - 1]]
  <2> HIDE DEF step, Is
  <2>1. 0 \in Int
    OBVIOUS
  <2>2. \E f \in [Nat -> Int] : Follows(f, 0, step)
    BY <1>3, <2>1, Recursion, Zenon
  <2> QED
    BY <2>2, Zenon DEF Follows
<1>5. ASSUME NEW n \in Nat PROVE f[n] = IF n = 0 THEN 0 ELSE f[n - 1] + of(n - 1)
  <2>1. CASE n = 0
    BY <1>4, <2>1, Zenon
  <2>2. CASE n # 0
    <3>1. n - 1 \in Nat /\ f[n - 1] \in Int
      BY <2>2
    <3>2. f[n] = step[n][f[n - 1]]
      BY <1>4, <2>2, Zenon
    <3> QED
      BY <2>2, <3>1, <3>2, Zenon
  <2> QED
    BY <2>1, <2>2, Zenon
<1>6. Is(f)
  <2>1. f = [n \in Nat |-> f[n]]
    BY Zenon
  <2> QED
    BY <1>5, <2>1, Zenon
<1>7. Is(Total)
  <2> HIDE DEF Is
  <2> QED
    BY <1>2, <1>6, Zenon
<1>8. Total[0] = 0 /\ \A n \in Nat : Total[n + 1] = Total[n] + of(n)
  <2>1. Total[0] = 0
    BY <1>7, Zenon
  <2>2. ASSUME NEW n \in Nat PROVE Total[n + 1] = Total[n] + of(n)
    <3>1. n + 1 \in Nat /\ n + 1 # 0 /\ (n + 1) - 1 = n
      OBVIOUS
    <3> QED
      BY <1>7, <3>1, Zenon
  <2> QED
    BY <2>1, <2>2, Zenon
<1>9. \A n \in Nat : Total[n] \in Int
  <2> DEFINE Bad == {n \in Nat : Total[n] \notin Int}
  <2>1. SUFFICES ASSUME Bad # {} PROVE FALSE
    BY Zenon
  <2>2. PICK n \in Bad : \A k \in Bad : n <= k
    <3>1. Bad \in SUBSET Nat
      BY Zenon
    <3> HIDE DEF Bad
    <3> QED
      BY <2>1, <3>1, LeastNatural, Zenon
  <2>3. n \in Nat /\ n # 0
    BY <1>8
  <2>4. n - 1 \in Nat /\ n = (n - 1) + 1 /\ ~(n <= n - 1)
    BY <2>3
  <2>5. n - 1 \notin Bad
    <3> HIDE DEF Bad
    <3> QED
      BY <2>2, <2>4, Zenon
  <2>6. Total[n - 1] \in Int /\ of(n - 1) \in Int /\ Total[n] = Total[n - 1] + of(n - 1)
    BY <1>1, <1>8, <2>4, <2>5, Zenon
  <2> QED
    BY <2>2, <2>6
<1> QED
  BY <1>8, <1>9, Zenon DEF of

\* The granules of the first n holes of the list.
Walked(n) == {g \in Granules(start, end) :
                \E i \in 0 .. n - 1 : Nth[i] # 0 /\ Nth[i] <= g /\ g < Nth[i] + hole[Nth[i]].size}

\* `check` adds up their bytes.
LEMMA WalkedCount ==
  ASSUME HeapAssumption, Types, NEW H, Chain(H, head, hole, start, end), NEW n \in Nat
  PROVE  IsFiniteSet(Walked(n)) /\ Total[n] = GRANULE * Cardinality(Walked(n))
<1>1. H \subseteq Nat \ {0} /\ H \subseteq Granules(start, end) /\ \A i \in Nat : Nth[i] \in H \cup {0}
  BY NthInChain, Zenon
<1>2. \A h \in H : Whole(hole[h].size) /\ h + hole[h].size <= end /\ hole[h].size \in Nat
  BY Zenon DEF Chain, Sized, Whole
<1>3. \A i \in Nat : Nth[i] # 0 => hole[Nth[i]].size \in Int
  <2> SUFFICES ASSUME NEW i \in Nat, Nth[i] # 0 PROVE hole[Nth[i]].size \in Int
    BY Zenon
  <2>1. Nth[i] \in H
    BY <1>1, Zenon
  <2> QED
    BY <1>2, <2>1
<1>4. /\ Total[0] = 0
      /\ \A i \in Nat : Total[i + 1] = Total[i] + (IF Nth[i] # 0 THEN hole[Nth[i]].size ELSE 0)
  BY <1>3, TotalIs, Zenon
<1>5. start \in Nat \ {0} /\ end \in Nat /\ GRANULE \in Nat \ {0}
  BY Zenon DEF Types, Whole, HeapAssumption
<1> DEFINE Good(i) == IsFiniteSet(Walked(i)) /\ Total[i] = GRANULE * Cardinality(Walked(i))
           Bad == {i \in Nat : ~Good(i)}
<1>6. SUFFICES ASSUME Bad # {} PROVE FALSE
  BY Zenon
<1>7. PICK k \in Bad : \A j \in Bad : k <= j
  <2>1. Bad \in SUBSET Nat
    BY Zenon
  <2> HIDE DEF Bad
  <2> QED
    BY <1>6, <2>1, LeastNatural, Zenon
<1>8. k \in Nat /\ ~Good(k)
  BY <1>7, Zenon
<1>9. k # 0
  <2>1. Walked(0) = {}
    BY DEF Walked
  <2>2. IsFiniteSet({}) /\ Cardinality({}) = 0 /\ GRANULE * 0 = 0
    BY <1>5, FS_EmptySet
  <2>3. Good(0)
    BY <1>4, <2>1, <2>2, Zenon
  <2> QED
    BY <1>8, <2>3, Zenon
<1> DEFINE i == k - 1
<1>10. i \in Nat /\ k = i + 1 /\ ~(k <= i)
  BY <1>8, <1>9
<1>11. Good(i)
  <2>1. i \notin Bad
    <3> HIDE DEF Bad, i
    <3> QED
      BY <1>7, <1>10, Zenon
  <2> QED
    BY <1>10, <2>1, Zenon
<1> HIDE DEF i
<1>12. \A j \in Int : j \in 0 .. k - 1 <=> j \in 0 .. i - 1 \/ j = i
  BY <1>10
<1>13. CASE Nth[i] = 0
  <2>1. Walked(k) = Walked(i)
    BY <1>12, <1>13 DEF Walked
  <2>2. Total[k] = Total[i] + 0
    BY <1>4, <1>10, <1>13, Zenon
  <2>3. Total[i] \in Int
    BY <1>3, <1>10, TotalIs, Zenon
  <2>4. Total[k] = Total[i]
    BY <2>2, <2>3
  <2> QED
    BY <1>8, <1>11, <2>1, <2>4, Zenon
<1>14. CASE Nth[i] # 0
  <2> DEFINE h == Nth[i]
             t == h + hole[h].size
             V == Granules(h, t)
  <2>1. h \in H /\ h \in Nat /\ Whole(h) /\ start <= h
    <3>1. h \in H
      BY <1>1, <1>10, <1>14, Zenon
    <3>2. h \in Granules(start, end)
      BY <1>1, <3>1, Zenon
    <3> HIDE DEF h
    <3> QED
      BY <1>5, <3>1, <3>2 DEF Granules, Whole
  <2>2. Whole(hole[h].size) /\ hole[h].size \in Nat /\ t <= end
    BY <1>2, <2>1, Zenon
  <2>3. Whole(t) /\ h <= t /\ t \in Nat /\ t - h = hole[h].size
    <3>1. Whole(t)
      BY <2>1, <2>2, WholeSum, Zenon
    <3> QED
      BY <2>1, <2>2, <3>1
  <2>4. \A g : g \in V <=> g \in Granules(start, end) /\ h <= g /\ g < t
    <3> HIDE DEF h, t
    <3> QED
      BY <1>5, <2>1, <2>2, <2>3 DEF Granules
  <2>5. Walked(k) = Walked(i) \cup V
    <3>1. \A g : g \in Walked(k) <=> g \in Walked(i) \/ g \in V
      <4> TAKE g
      <4>1. g \in V <=> g \in Granules(start, end) /\ h <= g /\ g < t
        BY <2>4, Zenon
      <4>2. i \in 0 .. k - 1
        BY <1>10
      <4> HIDE DEF V
      <4> QED
        BY <1>12, <1>14, <4>1, <4>2 DEF Walked
    <3> QED
      BY <3>1, Zenon
  <2>6. Walked(i) \cap V = {}
    <3>1. SUFFICES ASSUME NEW g \in Walked(i), g \in V PROVE FALSE
      BY Zenon
    <3>2. PICK j \in 0 .. i - 1 : Nth[j] # 0 /\ g < Nth[j] + hole[Nth[j]].size
      BY <3>1, Zenon DEF Walked
    <3>3. j \in Nat /\ Nth[j] \in H
      <4>1. j \in Nat
        BY <1>10
      <4> QED
        BY <1>1, <3>2, <4>1, Zenon
    <3>4. Nth[j] < h
      BY <1>10, <1>14, NthOrder, Zenon
    <3>5. Nth[j] + hole[Nth[j]].size < h
      BY <2>1, <3>3, <3>4, Zenon DEF Chain, HolesApart
    <3>6. h <= g /\ g \in Nat
      BY <1>5, <2>4, <3>1 DEF Granules
    <3>7. Nth[j] \in Nat /\ hole[Nth[j]].size \in Nat
      BY <1>1, <1>2, <3>3, Zenon
    <3> HIDE DEF h
    <3> QED
      BY <2>1, <3>2, <3>5, <3>6, <3>7
  <2> HIDE DEF h, t, V
  <2>7. /\ IsFiniteSet(Walked(i) \cup V)
        /\ GRANULE * Cardinality(Walked(i) \cup V) = GRANULE * Cardinality(Walked(i)) + (t - h)
    BY <1>11, <2>1, <2>3, <2>6, GranulesAdded, Zenon DEF V
  <2>8. Total[k] = Total[i] + hole[h].size
    BY <1>4, <1>10, <1>14, Zenon DEF h
  <2>9. Good(k)
    BY <1>11, <2>3, <2>5, <2>7, <2>8, Zenon
  <2> QED
    BY <1>8, <2>9, Zenon
<1> QED
  BY <1>13, <1>14, Zenon


\* The granules in holes are those not in blocks, and `free` is their bytes.
LEMMA InvariantIsSound ==
  ASSUME HeapAssumption, IInv
  PROVE  HeapIsSound
<1>1. PICK H \in SUBSET Granules(start, end) :
            Chain(H, head, hole, start, end) /\ Books(H, hole, live, start, end)
  BY Zenon DEF IInv
<1>2. Types /\ free + GRANULE * Cardinality(Used(live, start, end)) = end - start
  BY Zenon DEF IInv
<1>3. /\ Placed(live, start, end) /\ Clean(hole, live, start, end) /\ BlocksApart(live)
      /\ Clear(H, hole, live) /\ Covered(H, hole, live, start, end)
  BY <1>1, Zenon DEF Books
<1>4. /\ H \subseteq Nat \ {0} /\ H \subseteq Granules(start, end)
      /\ \A n \in Nat : Nth[n] \in H \cup {0}
      /\ \A n \in Nat : Nth[n] # 0 => IsNext(H, Nth[n], Nth[n + 1])
  BY <1>1, <1>2, NthInChain, Zenon
<1>5. /\ MaxHoles \in Nat /\ Nth[MaxHoles] = 0
      /\ \A n \in Nat : Nth[n] # 0 =>
            n < MaxHoles /\ \A m \in 0 .. n - 1 : Nth[m] # 0 /\ Nth[m] < Nth[n]
      /\ \A h \in H : \E n \in Nat : Nth[n] = h
  BY <1>1, <1>2, NthOrder, Zenon
<1>6. /\ \A h \in H : Whole(hole[h].size) /\ hole[h].size >= GRANULE /\ h + hole[h].size <= end
      /\ \A g, h \in H : g < h => g + hole[g].size < h
  BY <1>1, Zenon DEF Chain, Sized, HolesApart
<1>7. /\ start \in Nat \ {0} /\ end \in Nat /\ start <= end /\ Whole(start) /\ Whole(end)
      /\ free \in Int /\ GRANULE \in Nat \ {0}
  BY <1>2, Zenon DEF Types, Whole, HeapAssumption
<1>8. \A o \in live : /\ o.at \in Nat /\ EndOf(o) \in Nat /\ o.at < EndOf(o)
                      /\ start <= o.at /\ EndOf(o) <= end /\ o.at % o.layout.align = 0
                      /\ EndOf(o) = o.at + block_size(o.layout)
  BY <1>3, BlockEnds, Zenon DEF Placed, EndOf
\* The sets of granules.
<1> DEFINE InHole == {g \in Granules(start, end) : \E h \in H : h <= g /\ g < h + hole[h].size}
           InBlock == Used(live, start, end)
<1>9. \A h \in H : /\ h \in Nat /\ hole[h].size \in Nat /\ start <= h
                   /\ \A g : g \in Granules(h, h + hole[h].size)
                              <=> g \in Granules(start, end) /\ h <= g /\ g < h + hole[h].size
  <2> TAKE h \in H
  <2>1. h \in Nat /\ hole[h].size \in Nat /\ start <= h /\ h + hole[h].size <= end
    BY <1>4, <1>6, <1>7 DEF Granules, Whole
  <2> QED
    BY <1>7, <2>1 DEF Granules
<1>10. Holes = InHole
  <2>1. ASSUME NEW g \in Holes PROVE g \in InHole
    <3>1. PICK n \in 0 .. MaxHoles : Nth[n] # 0 /\ g \in Granules(Nth[n], Nth[n] + hole[Nth[n]].size)
      BY Zenon DEF Holes
    <3>2. Nth[n] \in H
      <4>1. n \in Nat
        BY <1>5
      <4> QED
        BY <1>4, <3>1, <4>1, Zenon
    <3> QED
      BY <1>9, <3>1, <3>2, Zenon
  <2>2. ASSUME NEW g \in InHole PROVE g \in Holes
    <3>1. PICK h \in H : h <= g /\ g < h + hole[h].size /\ g \in Granules(start, end)
      BY Zenon
    <3>2. PICK n \in Nat : Nth[n] = h
      BY <1>5, Zenon
    <3>3. Nth[n] # 0 /\ n \in 0 .. MaxHoles
      BY <1>4, <1>5, <3>2
    <3>4. g \in Granules(Nth[n], Nth[n] + hole[Nth[n]].size)
      BY <1>9, <3>1, <3>2, Zenon
    <3> QED
      BY <3>3, <3>4, Zenon DEF Holes
  <2> QED
    BY <2>1, <2>2, Zenon
<1>11. Walked(MaxHoles) = InHole
  <2>1. ASSUME NEW g \in Walked(MaxHoles) PROVE g \in InHole
    <3>1. PICK n \in 0 .. MaxHoles - 1 :
            Nth[n] # 0 /\ Nth[n] <= g /\ g < Nth[n] + hole[Nth[n]].size /\ g \in Granules(start, end)
      BY Zenon DEF Walked
    <3>2. Nth[n] \in H
      <4>1. n \in Nat
        BY <1>5
      <4> QED
        BY <1>4, <3>1, <4>1, Zenon
    <3> QED
      BY <3>1, <3>2, Zenon
  <2>2. ASSUME NEW g \in InHole PROVE g \in Walked(MaxHoles)
    <3>1. PICK h \in H : h <= g /\ g < h + hole[h].size /\ g \in Granules(start, end)
      BY Zenon
    <3>2. PICK n \in Nat : Nth[n] = h
      BY <1>5, Zenon
    <3>3. Nth[n] # 0 /\ n \in 0 .. MaxHoles - 1
      BY <1>4, <1>5, <3>2
    <3> QED
      BY <3>1, <3>2, <3>3, Zenon DEF Walked
  <2> QED
    BY <2>1, <2>2, Zenon
<1>12. /\ \A o \in live : \A g : g \in Taken(o)
                <=> g \in Granules(start, end) /\ o.at <= g /\ g < EndOf(o)
       /\ UNION {Taken(o) : o \in live} = InBlock
  <2>1. ASSUME NEW o \in live
        PROVE  \A g : g \in Taken(o) <=> g \in Granules(start, end) /\ o.at <= g /\ g < EndOf(o)
    <3>1. Taken(o) = Granules(o.at, EndOf(o))
      BY Zenon DEF Taken, EndOf
    <3> QED
      BY <1>7, <1>8, <3>1 DEF Granules
  <2>2. UNION {Taken(o) : o \in live} = InBlock
    BY <2>1, Zenon DEF Used
  <2> QED
    BY <2>1, <2>2, Zenon
<1>13. InHole \cap InBlock = {}
  <2>1. SUFFICES ASSUME NEW g \in InHole, g \in InBlock PROVE FALSE
    BY Zenon
  <2>2. PICK h \in H : h <= g /\ g < h + hole[h].size
    BY Zenon
  <2>3. PICK o \in live : o.at <= g /\ g < EndOf(o)
    BY <2>1, Zenon DEF Used
  <2>4. h + hole[h].size <= o.at \/ EndOf(o) <= h
    BY <1>3, Zenon DEF Clear
  <2>5. g \in Nat
    BY <1>7 DEF Granules
  <2> QED
    BY <1>8, <1>9, <2>2, <2>3, <2>4, <2>5
<1>14. InHole \cup InBlock = Granules(start, end)
  BY <1>3, Zenon DEF Covered, Used
\* What `check` looks at.
<1>15. free = Total[MaxHoles]
  <2> DEFINE u == Cardinality(InBlock)
             v == Cardinality(InHole)
  <2>1. /\ IsFiniteSet(Granules(start, end)) /\ Cardinality(Granules(start, end)) \in Nat
        /\ GRANULE * Cardinality(Granules(start, end)) = end - start
    BY <1>7, GranuleCount, Zenon
  <2>2. InBlock \in SUBSET Granules(start, end) /\ InHole \in SUBSET Granules(start, end)
    BY Zenon DEF Used
  <2> HIDE DEF InHole, InBlock
  <2>3. IsFiniteSet(InBlock) /\ IsFiniteSet(InHole)
    BY <2>1, <2>2, FS_Subset, Zenon
  <2>4. u \in Nat /\ v \in Nat
    BY <2>3, FS_CardinalityType, Zenon
  <2>5. Cardinality(Granules(start, end)) = v + u - Cardinality(InHole \cap InBlock)
    BY <1>14, <2>3, FS_Union, Zenon
  <2>6. Cardinality(InHole \cap InBlock) = 0
    BY <1>13, FS_EmptySet, Zenon
  <2>7. Total[MaxHoles] = GRANULE * v
    BY <1>1, <1>2, <1>5, <1>11, WalkedCount, Zenon
  <2>8. free + GRANULE * u = end - start
    BY <1>2, Zenon DEF InBlock
  <2> HIDE DEF u, v
  <2>9. Cardinality(Granules(start, end)) = v + u
    BY <2>4, <2>5, <2>6
  <2>10. GRANULE * (v + u) = GRANULE * v + GRANULE * u /\ GRANULE * v \in Int /\ GRANULE * u \in Int
    BY <1>7, <2>4
  <2>11. GRANULE * v + GRANULE * u = end - start
    BY <2>1, <2>9, <2>10, Zenon
  <2> DEFINE a == GRANULE * v
             b == GRANULE * u
  <2>12. a \in Int /\ b \in Int /\ a + b = end - start /\ free + b = end - start /\ Total[MaxHoles] = a
    BY <2>7, <2>8, <2>10, <2>11, Zenon
  <2> HIDE DEF a, b
  <2> QED
    BY <1>7, <2>12
<1>16. check
  <2> SUFFICES ASSUME NEW n \in 0 .. MaxHoles, Nth[n] # 0
               PROVE  /\ Nth[n] \in Granules(start, end)
                      /\ n > 0 => Nth[n] > Nth[n - 1] + hole[Nth[n - 1]].size
                      /\ hole[Nth[n]].size >= GRANULE /\ hole[Nth[n]].size % GRANULE = 0
                      /\ Nth[n] + hole[Nth[n]].size <= end
    BY <1>5, <1>15, Zenon DEF check
  <2>1. n \in Nat /\ Nth[n] \in H
    BY <1>4, <1>5
  <2>2. n > 0 => Nth[n] > Nth[n - 1] + hole[Nth[n - 1]].size
    <3>1. SUFFICES ASSUME n > 0 PROVE Nth[n] > Nth[n - 1] + hole[Nth[n - 1]].size
      BY Zenon
    <3>2. n - 1 \in 0 .. n - 1 /\ n - 1 \in Nat
      BY <2>1, <3>1
    <3>3. Nth[n - 1] # 0 /\ Nth[n - 1] < Nth[n]
      BY <1>5, <2>1, <3>2, Zenon
    <3>4. Nth[n - 1] \in H
      BY <1>4, <3>2, <3>3, Zenon
    <3>5. Nth[n - 1] + hole[Nth[n - 1]].size < Nth[n]
      BY <1>6, <2>1, <3>3, <3>4, Zenon
    <3> QED
      BY <1>9, <2>1, <3>4, <3>5, Zenon
  <2> QED
    BY <1>4, <1>6, <2>1, <2>2, Zenon DEF Whole
<1>17. ASSUME NEW one \in live
       PROVE  /\ one.at % one.layout.align = 0
              /\ \A g \in Taken(one) : hole[g] = NoHeader
              /\ \A other \in live \ {one} : Taken(one) \cap Taken(other) = {}
  <2>1. \A g \in Taken(one) : hole[g] = NoHeader
    BY <1>3, <1>12, Zenon DEF Clean
  <2>2. ASSUME NEW other \in live \ {one}, NEW g, g \in Taken(one), g \in Taken(other) PROVE FALSE
    <3>1. /\ g \in Granules(start, end)
          /\ one.at <= g /\ g < EndOf(one) /\ other.at <= g /\ g < EndOf(other)
      BY <1>12, <2>2, Zenon
    <3>2. EndOf(one) <= other.at \/ EndOf(other) <= one.at
      BY <1>3, Zenon DEF BlocksApart
    <3>3. g \in Nat
      BY <1>7, <3>1 DEF Granules
    <3> QED
      BY <1>8, <3>1, <3>2, <3>3
  <2> QED
    BY <1>8, <2>1, <2>2, Zenon
<1> QED
  BY <1>10, <1>12, <1>13, <1>14, <1>16, <1>17, Zenon DEF HeapIsSound

\* Two neighbours tell whether memory is free.
LEMMA InvariantSees ==
  ASSUME HeapAssumption, IInv
  PROVE  DoubleFreeIsSeen
<1>1. PICK H \in SUBSET Granules(start, end) :
            Chain(H, head, hole, start, end) /\ Books(H, hole, live, start, end)
  BY Zenon DEF IInv
<1>2. Types
  BY Zenon DEF IInv
<1>3. /\ H \subseteq Nat \ {0} /\ \A n \in Nat : Nth[n] \in H \cup {0}
  BY <1>1, <1>2, NthInChain, Zenon
<1>4. /\ MaxHoles \in Nat
      /\ \A n \in Nat : Nth[n] # 0 => n < MaxHoles
      /\ \A h \in H : \E n \in Nat : Nth[n] = h
  BY <1>1, <1>2, NthOrder, Zenon
<1>5. /\ \A h \in H : Whole(hole[h].size) /\ hole[h].size >= GRANULE /\ h + hole[h].size <= end
      /\ \A g, h \in H : g < h => g + hole[g].size < h
  BY <1>1, Zenon DEF Chain, Sized, HolesApart
<1>6. /\ start \in Nat \ {0} /\ end \in Nat /\ GRANULE \in Nat \ {0}
      /\ \A h \in H : h \in Nat \ {0} /\ hole[h].size \in Nat /\ h \in Granules(start, end)
  BY <1>2, <1>3, <1>5, Zenon DEF Types, Whole, HeapAssumption
<1>7. \A g : g \in Holes <=> g \in Granules(start, end)
                              /\ \E h \in H : h <= g /\ g < h + hole[h].size
  <2>1. \A h \in H : \A g : g \in Granules(h, h + hole[h].size)
                              <=> g \in Granules(start, end) /\ h <= g /\ g < h + hole[h].size
    <3> TAKE h \in H
    <3>1. h \in Nat /\ hole[h].size \in Nat /\ start <= h /\ h + hole[h].size <= end
      BY <1>5, <1>6 DEF Granules
    <3> QED
      BY <1>6, <3>1 DEF Granules
  <2>2. ASSUME NEW g \in Holes
        PROVE  g \in Granules(start, end) /\ \E h \in H : h <= g /\ g < h + hole[h].size
    <3>1. PICK n \in 0 .. MaxHoles : Nth[n] # 0 /\ g \in Granules(Nth[n], Nth[n] + hole[Nth[n]].size)
      BY Zenon DEF Holes
    <3>2. Nth[n] \in H
      <4>1. n \in Nat
        BY <1>4
      <4> QED
        BY <1>3, <3>1, <4>1, Zenon
    <3> QED
      BY <2>1, <3>1, <3>2, Zenon
  <2>3. ASSUME NEW g \in Granules(start, end), NEW h \in H, h <= g, g < h + hole[h].size
        PROVE  g \in Holes
    <3>1. PICK n \in Nat : Nth[n] = h
      BY <1>4, Zenon
    <3>2. Nth[n] # 0 /\ n \in 0 .. MaxHoles
      BY <1>3, <1>4, <3>1
    <3>3. g \in Granules(Nth[n], Nth[n] + hole[Nth[n]].size)
      BY <2>1, <2>3, <3>1, Zenon
    <3> QED
      BY <3>2, <3>3, Zenon DEF Holes
  <2> QED
    BY <2>2, <2>3, Zenon
<1>8. ASSUME NEW b \in Granules(start, end), NEW e \in Nat, b < e, e <= end
      PROVE  Overlaps(b, e) <=> Granules(b, e) \cap Holes # {}
  <2> DEFINE p == Prev(b)
             c == Nth[Place(b)]
  <2>1. b \in Nat \ {0} /\ start <= b
    BY <1>6 DEF Granules
  <2>2. p \in H \cup {0} /\ c \in H \cup {0} /\ IsNext(H, p, c) /\ p < b /\ (c # 0 => b <= c)
    BY <1>1, <1>2, <2>1, PlaceIs, Zenon
  <2>3. Overlaps(b, e) <=> (p # 0 /\ p + hole[p].size > b) \/ (c # 0 /\ e > c)
    BY Zenon DEF Overlaps
  <2> HIDE DEF p, c
  <2>4. p \in Nat /\ c \in Nat /\ \A h \in H : h <= p \/ (c # 0 /\ c <= h)
    <3>1. p \in Nat /\ c \in Nat
      BY <1>3, <2>2
    <3> QED
      BY <1>6, <2>2, <3>1, Zenon DEF IsNext
  <2>5. \A g : g \in Granules(b, e) <=> g \in Granules(start, end) /\ b <= g /\ g < e
    BY <1>6, <1>8, <2>1 DEF Granules
  <2>6. ASSUME p # 0, p + hole[p].size > b PROVE Granules(b, e) \cap Holes # {}
    <3>1. p \in H /\ hole[p].size \in Nat
      BY <1>6, <2>2, <2>6, Zenon
    <3>2. p <= b /\ b < p + hole[p].size
      BY <2>1, <2>2, <2>4, <2>6, <3>1
    <3>3. b \in Holes
      BY <1>7, <3>1, <3>2, Zenon
    <3>4. b \in Granules(b, e)
      BY <1>8, <2>1, <2>5
    <3> QED
      BY <3>3, <3>4, Zenon
  <2>7. ASSUME c # 0, e > c PROVE Granules(b, e) \cap Holes # {}
    <3>1. c \in H /\ hole[c].size \in Nat /\ hole[c].size >= GRANULE /\ c \in Granules(start, end)
      BY <1>5, <1>6, <2>2, <2>7, Zenon
    <3>2. c <= c /\ c < c + hole[c].size
      BY <1>6, <2>4, <3>1
    <3>3. c \in Holes
      BY <1>7, <3>1, <3>2, Zenon
    <3>4. c \in Granules(b, e)
      BY <1>8, <2>1, <2>2, <2>4, <2>5, <2>7, <3>1, Zenon
    <3> QED
      BY <3>3, <3>4, Zenon
  <2>8. ASSUME NEW g \in Granules(b, e), g \in Holes
        PROVE  (p # 0 /\ p + hole[p].size > b) \/ (c # 0 /\ e > c)
    <3>1. PICK h \in H : h <= g /\ g < h + hole[h].size
      BY <1>7, <2>8, Zenon
    <3>2. h \in Nat \ {0} /\ hole[h].size \in Nat /\ g \in Nat /\ b <= g /\ g < e
      BY <1>6, <2>5 DEF Granules
    <3>3. CASE c # 0 /\ c <= h
      BY <1>8, <2>4, <3>1, <3>2, <3>3
    <3>4. CASE h <= p
      <4>1. p # 0 /\ p \in H /\ hole[p].size \in Nat
        BY <1>6, <2>2, <2>4, <3>2, <3>4
      <4>2. h = p
        <5>1. SUFFICES ASSUME h < p PROVE FALSE
          BY <2>4, <3>2, <3>4
        <5>2. h + hole[h].size < p
          BY <1>5, <4>1, <5>1, Zenon
        <5> QED
          BY <2>1, <2>2, <2>4, <3>1, <3>2, <5>2
      <4> QED
        BY <2>1, <2>4, <3>1, <3>2, <4>1, <4>2
    <3> QED
      BY <2>4, <3>3, <3>4, Zenon
  <2> QED
    BY <2>3, <2>6, <2>7, <2>8, Zenon
<1>9. ASSUME NEW layout \in Layouts
      PROVE  block_size(layout) \in Nat \ {0}
  <2>1. Whole(block_size(layout)) /\ block_size(layout) >= GRANULE
    BY BlockSize, Zenon
  <2> QED
    BY <1>6, <2>1 DEF Whole
<1>10. ASSUME NEW block \in Granules(start, end), NEW layout \in Layouts,
              block + block_size(layout) <= end
       PROVE  Overlaps(block, block + block_size(layout))
                <=> Granules(block, block + block_size(layout)) \cap Holes # {}
  <2>1. block \in Nat
    BY <1>6 DEF Granules
  <2>2. block + block_size(layout) \in Nat /\ block < block + block_size(layout)
    BY <1>9, <2>1
  <2> QED
    BY <1>8, <1>10, <2>2, Zenon
<1>11. ASSUME NEW owned \in live PROVE ~Overlaps(owned.at, owned.at + block_size(owned.layout))
  <2>1. Placed(live, start, end) /\ Clear(H, hole, live)
    BY <1>1, Zenon DEF Books
  <2>2. owned.at \in Nat /\ EndOf(owned) \in Nat /\ owned.at < EndOf(owned) /\ Whole(owned.at)
    BY <2>1, BlockEnds, Zenon
  <2>3. start <= owned.at /\ EndOf(owned) <= end
    BY <2>1, Zenon DEF Placed
  <2>4. owned.at \in Granules(start, end)
    BY <1>6, <2>2, <2>3 DEF Granules, Whole
  <2>5. Granules(owned.at, EndOf(owned)) \cap Holes = {}
    <3>1. SUFFICES ASSUME NEW g \in Granules(owned.at, EndOf(owned)), g \in Holes PROVE FALSE
      BY Zenon
    <3>2. PICK h \in H : h <= g /\ g < h + hole[h].size
      BY <1>7, <3>1, Zenon
    <3>3. g \in Nat /\ owned.at <= g /\ g < EndOf(owned)
      BY <2>2 DEF Granules
    <3>4. h + hole[h].size <= owned.at \/ EndOf(owned) <= h
      BY <2>1, Zenon DEF Clear
    <3> QED
      BY <1>6, <2>2, <3>2, <3>3, <3>4
  <2>6. ~Overlaps(owned.at, EndOf(owned))
    BY <1>8, <2>2, <2>3, <2>4, <2>5, Zenon
  <2> QED
    BY <2>6, Zenon DEF EndOf
<1> QED
  BY <1>10, <1>11, Zenon DEF DoubleFreeIsSeen

-----------------------------------------------------------------------------
\* Every step keeps the invariant.
LEMMA StepKeeps ==
  ASSUME HeapAssumption, IInv, [Next]_vars
  PROVE  IInv'
<1>1. ASSUME NEW layout \in Layouts, Allocate(layout) PROVE IInv'
  BY <1>1, AllocateKeeps, Zenon
<1>2. ASSUME NEW owned \in live, Deallocate(owned) PROVE IInv'
  BY <1>2, DeallocateKeeps, Zenon
<1>3. ASSUME UNCHANGED vars PROVE IInv'
  BY <1>3, Zenon DEF vars, IInv, Types, Used, Chain, Linked, Sized, HolesApart, Books, Placed, Clean,
              BlocksApart, Clear, Covered, IsNext
<1>4. ASSUME NEW layout \in Layouts, AllocateFails(layout) PROVE IInv'
  BY <1>3, <1>4, Zenon DEF AllocateFails
<1> QED
  BY <1>1, <1>2, <1>3, <1>4, Zenon DEF Next

\* So it holds throughout.
LEMMA AlwaysIInv ==
  ASSUME HeapAssumption
  PROVE  Spec => []IInv
<1>1. Init => IInv
  BY InitIsGood, Zenon
<1>2. IInv /\ [Next]_vars => IInv'
  BY StepKeeps, Zenon
<1> QED
  BY <1>1, <1>2, PTL DEF Spec

\* Whatever is allocated and freed, in whatever order, for every size of
\* granule, region and layout: the free list passes `check`, every granule is in
\* a hole or in exactly one block, blocks are aligned, and no header is written
\* into a block.
THEOREM HeapStaysSound ==
  ASSUME HeapAssumption
  PROVE  Spec => []HeapIsSound
<1>1. IInv => HeapIsSound
  BY InvariantIsSound, Zenon
<1> QED
  BY <1>1, AlwaysIInv, PTL

\* The assertion of `deallocate` looks at two neighbours only, and sees every
\* block that overlaps free memory; it never refuses a block that is owned.
THEOREM DoubleFreesAreSeen ==
  ASSUME HeapAssumption
  PROVE  Spec => []DoubleFreeIsSeen
<1>1. IInv => DoubleFreeIsSeen
  BY InvariantSees, Zenon
<1> QED
  BY <1>1, AlwaysIInv, PTL

=============================================================================
