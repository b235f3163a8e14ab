------------------------------ MODULE NumberLemmas -----------------------------
(***************************************************************************)
(* Arithmetic the other proofs need for every base and every number of     *)
(* digits: powers, the digits of a number, and the number of some digits.  *)
(***************************************************************************)
EXTENDS Numbers, WellFoundedInduction, TLAPS

-----------------------------------------------------------------------------
(* Induction over the numbers, as the existence of a least counterexample. *)

LEMMA LeastNatural ==
    ASSUME NEW S \in SUBSET Nat, S # {}
    PROVE  \E n \in S : \A m \in S : n <= m
<1> DEFINE R == OpToRel(<, Nat)
<1>1. IsWellFoundedOn(R, Nat)
  BY NatLessThanWellFounded
<1>2. ASSUME NEW i \in Nat, NEW j \in Nat, i < j
      PROVE  <<i, j>> \in R
  BY <1>2 DEF OpToRel
<1> HIDE DEF R
<1>3. \E n \in S : \A m \in S : ~(<<m, n>> \in R)
  BY <1>1, WFMin
<1>4. PICK n \in S : \A m \in S : ~(<<m, n>> \in R)
  BY <1>3
<1>5. ASSUME NEW m \in S
      PROVE  n <= m
  <2>1. ~(<<m, n>> \in R)
    BY <1>4
  <2>2. m \in Nat /\ n \in Nat
    OBVIOUS
  <2>3. m < n => <<m, n>> \in R
    BY <1>2, <2>2, Zenon
  <2> QED
    BY <2>1, <2>2, <2>3
<1> QED
  BY <1>5, Zenon

-----------------------------------------------------------------------------
(* Division, which rounds down. *)

LEMMA DivLaw ==
    ASSUME NEW v \in Int, NEW d \in Nat \ {0}
    PROVE  /\ v \div d \in Int /\ v % d \in Nat
           /\ v = d * (v \div d) + (v % d)
           /\ v % d < d
OBVIOUS

LEMMA DivUnique ==
    ASSUME NEW v \in Int, NEW d \in Nat \ {0}, NEW x \in Int, NEW r \in Nat, r < d,
           v = d * x + r
    PROVE  v \div d = x /\ v % d = r
<1> DEFINE y == v \div d
           s == v % d
<1>1. y \in Int /\ s \in Nat /\ v = d * y + s /\ s < d
  BY DivLaw
<1> HIDE DEF y, s
<1>2. d * (x - y) = s - r
  BY <1>1
<1>3. ~(x - y >= 1)
  <2>1. SUFFICES ASSUME x - y >= 1 PROVE d * (x - y) >= d
    BY <1>1, <1>2
  <2> QED
    BY <1>1, <2>1
<1>4. ~(x - y <= -1)
  <2>1. SUFFICES ASSUME x - y <= -1 PROVE d * (x - y) <= -d
    BY <1>1, <1>2
  <2>2. d * (y - x) >= d
    BY <1>1, <2>1
  <2> QED
    BY <1>1, <2>2
<1>5. x = y
  BY <1>1, <1>3, <1>4
<1> QED
  BY <1>1, <1>5 DEF y, s

LEMMA DivPlus ==
    ASSUME NEW v \in Int, NEW d \in Nat \ {0}, NEW k \in Int
    PROVE  (v + d * k) \div d = v \div d + k /\ (v + d * k) % d = v % d
<1> DEFINE x == v \div d
           r == v % d
<1>1. x \in Int /\ r \in Nat /\ v = d * x + r /\ r < d
  BY DivLaw
<1> HIDE DEF x, r
<1>2. v + d * k = d * (x + k) + r /\ v + d * k \in Int /\ x + k \in Int
  BY <1>1
<1>3. (v + d * k) \div d = x + k /\ (v + d * k) % d = r
  BY <1>1, <1>2, DivUnique
<1> QED
  BY <1>3 DEF x, r

LEMMA DivDiv ==
    ASSUME NEW v \in Int, NEW p \in Nat \ {0}, NEW q \in Nat \ {0}
    PROVE  /\ (v \div p) \div q = v \div (p * q)
           /\ v % (p * q) = (v % p) + p * ((v \div p) % q)
<1> DEFINE x == v \div p
           r == v % p
           y == x \div q
           t == x % q
<1>1. x \in Int /\ r \in Nat /\ v = p * x + r /\ r < p
  BY DivLaw
<1> HIDE DEF x, r
<1>2. y \in Int /\ t \in Nat /\ x = q * y + t /\ t < q
  BY <1>1, DivLaw
<1> HIDE DEF y, t
<1>3. p * x = (p * q) * y + p * t
  BY <1>1, <1>2
<1>4. p * t \in Nat /\ p * t <= p * (q - 1)
  BY <1>2
<1>5. p * (q - 1) = p * q - p /\ p * q \in Nat \ {0}
  OBVIOUS
<1> DEFINE d == p * q
           u == p * t
<1> HIDE DEF d, u
<1>6. d \in Nat \ {0} /\ u \in Nat /\ u <= d - p /\ p * x = d * y + u
  BY <1>3, <1>4, <1>5 DEF d, u
<1>7. v = d * y + (u + r) /\ u + r \in Nat /\ u + r < d
  <2> DEFINE e == d * y
             f == p * x
  <2>1. e \in Int /\ f \in Int
    BY <1>1, <1>2, <1>6
  <2> HIDE DEF e, f
  <2>2. f = e + u /\ v = f + r
    BY <1>1, <1>6 DEF e, f
  <2>3. v = e + (u + r) /\ u + r \in Nat /\ u + r < d
    BY <1>1, <1>6, <2>1, <2>2
  <2> QED
    BY <2>3 DEF e
<1>8. v \div d = y /\ v % d = u + r
  BY <1>2, <1>6, <1>7, DivUnique
<1>9. u + r = r + u
  BY <1>1, <1>6
<1> QED
  BY <1>8, <1>9 DEF x, r, y, t, d, u

-----------------------------------------------------------------------------
(* Powers. *)

\* f lists the powers of b up to the n-th.
IsPowers(b, f, n) == f = [i \in 0 .. n |-> IF i = 0 THEN 1 ELSE b * f[i - 1]]

LEMMA PowersExtend ==
    ASSUME NEW b, NEW n \in Nat, n # 0, NEW g, IsPowers(b, g, n - 1)
    PROVE  \E f : IsPowers(b, f, n)
<1> DEFINE f == [i \in 0 .. n |-> IF i < n THEN g[i] ELSE b * g[n - 1]]
<1>1. ASSUME NEW i \in 0 .. n
      PROVE  f[i] = IF i = 0 THEN 1 ELSE b * f[i - 1]
  <2>1. CASE i = n
    BY <2>1
  <2>2. CASE i < n /\ i # 0
    BY <2>2 DEF IsPowers
  <2>3. CASE i = 0
    BY <2>3 DEF IsPowers
  <2> QED
    BY <2>1, <2>2, <2>3
<1>2. f = [i \in 0 .. n |-> f[i]]
  OBVIOUS
<1> HIDE DEF f
<1>3. IsPowers(b, f, n)
  BY <1>1, <1>2 DEF IsPowers
<1> QED
  BY <1>3

LEMMA PowersExist ==
    ASSUME NEW b, NEW n \in Nat
    PROVE  \E f : IsPowers(b, f, n)
<1> DEFINE Listed(k) == \E f : IsPowers(b, f, k)
           Missing == {k \in Nat : ~Listed(k)}
<1>1. Listed(0)
  <2>1. IsPowers(b, [i \in 0 .. 0 |-> 1], 0)
    BY DEF IsPowers
  <2> QED
    BY <2>1
<1>2. ASSUME NEW k \in Nat, k # 0, Listed(k - 1)
      PROVE  Listed(k)
  BY <1>2, PowersExtend
<1> HIDE DEF Listed
<1>3. CASE Missing # {}
  <2>1. PICK k \in Missing : \A m \in Missing : k <= m
    BY <1>3, LeastNatural
  <2>2. k \in Nat /\ ~Listed(k) /\ k # 0
    BY <1>1
  <2>3. k - 1 \in Nat /\ k - 1 \notin Missing
    BY <2>1, <2>2
  <2> QED
    BY <1>2, <2>2, <2>3
<1>4. CASE Missing = {}
  <2>1. Listed(n)
    BY <1>4
  <2> QED
    BY <2>1 DEF Listed
<1> QED
  BY <1>3, <1>4

\* The shorter of two lists is the beginning of the longer.
LEMMA PowersAgree ==
    ASSUME NEW b, NEW n \in Nat, NEW k \in 0 .. n, NEW f, NEW g,
           IsPowers(b, f, n), IsPowers(b, g, k)
    PROVE  f[k] = g[k]
<1> DEFINE Differ == {i \in 0 .. k : f[i] # g[i]}
<1>1. CASE Differ # {}
  <2>0. Differ \in SUBSET Nat
    OBVIOUS
  <2>1. PICK i \in Differ : \A m \in Differ : i <= m
    BY <1>1, <2>0, LeastNatural
  <2>2. f[0] = 1 /\ g[0] = 1
    BY DEF IsPowers
  <2>3. i \in 0 .. k /\ i # 0
    BY <2>2
  <2>4. i - 1 \in 0 .. k /\ f[i - 1] = g[i - 1]
    BY <2>1, <2>3
  <2>5. f[i] = b * f[i - 1] /\ g[i] = b * g[i - 1]
    BY <2>3 DEF IsPowers
  <2> QED
    BY <2>4, <2>5
<1> QED
  BY <1>1

LEMMA PowerListed ==
    ASSUME NEW b, NEW n \in Nat
    PROVE  \E f : IsPowers(b, f, n) /\ power(b, n) = f[n]
<1> DEFINE f == CHOOSE g : IsPowers(b, g, n)
<1>1. IsPowers(b, f, n)
  BY PowersExist
<1>2. power(b, n) = f[n]
  BY DEF power, IsPowers
<1> QED
  BY <1>1, <1>2

LEMMA PowerZero == ASSUME NEW b PROVE power(b, 0) = 1
<1>1. PICK f : IsPowers(b, f, 0) /\ power(b, 0) = f[0]
  BY PowerListed
<1> QED
  BY <1>1 DEF IsPowers

LEMMA PowerNext == ASSUME NEW b, NEW n \in Nat PROVE power(b, n + 1) = b * power(b, n)
<1>1. PICK f : IsPowers(b, f, n + 1) /\ power(b, n + 1) = f[n + 1]
  BY PowerListed
<1>2. PICK g : IsPowers(b, g, n) /\ power(b, n) = g[n]
  BY PowerListed
<1>3. f[n] = g[n]
  BY <1>1, <1>2, PowersAgree
<1>4. f[n + 1] = b * f[n]
  BY <1>1 DEF IsPowers
<1> QED
  BY <1>1, <1>2, <1>3, <1>4

LEMMA PowerOne == ASSUME NEW b \in Int PROVE power(b, 1) = b
BY PowerZero, PowerNext

LEMMA PowerType ==
    ASSUME NEW b \in Nat \ {0}, NEW n \in Nat
    PROVE  power(b, n) \in Nat \ {0}
<1> DEFINE Other == {k \in Nat : power(b, k) \notin Nat \ {0}}
<1>1. CASE Other # {}
  <2>1. PICK k \in Other : \A m \in Other : k <= m
    BY <1>1, LeastNatural
  <2>2. k # 0
    BY <2>1, PowerZero
  <2>3. k - 1 \in Nat /\ power(b, k - 1) \in Nat \ {0}
    BY <2>1, <2>2
  <2>4. power(b, (k - 1) + 1) = b * power(b, k - 1)
    BY <2>3, PowerNext
  <2>5. (k - 1) + 1 = k
    BY <2>2
  <2>6. b * power(b, k - 1) \in Nat \ {0}
    BY <2>3
  <2> QED
    BY <2>4, <2>5, <2>6
<1> QED
  BY <1>1

LEMMA PowerPlus ==
    ASSUME NEW b \in Nat \ {0}, NEW m \in Nat, NEW n \in Nat
    PROVE  power(b, m + n) = power(b, m) * power(b, n)
<1> DEFINE Holds(k) == power(b, m + k) = power(b, m) * power(b, k)
           Other == {k \in Nat : ~Holds(k)}
<1>1. Holds(0)
  BY PowerZero, PowerType
<1>2. ASSUME NEW k \in Nat, Holds(k)
      PROVE  Holds(k + 1)
  <2> DEFINE x == power(b, m)
             y == power(b, k)
  <2>1. x \in Nat /\ y \in Nat
    BY PowerType
  <2>2. power(b, k + 1) = b * y /\ power(b, (m + k) + 1) = b * power(b, m + k)
    BY PowerNext
  <2>3. (m + k) + 1 = m + (k + 1)
    OBVIOUS
  <2> HIDE DEF x, y
  <2>4. b * (x * y) = x * (b * y)
    BY <2>1
  <2>5. power(b, m + k) = x * y
    BY <1>2 DEF x, y
  <2>6. power(b, m + (k + 1)) = x * power(b, k + 1)
    BY <2>2, <2>3, <2>4, <2>5
  <2> QED
    BY <2>6 DEF x
<1> HIDE DEF Holds
<1>3. CASE Other # {}
  <2>1. PICK k \in Other : \A j \in Other : k <= j
    BY <1>3, LeastNatural
  <2>2. k \in Nat /\ ~Holds(k) /\ k # 0
    BY <1>1
  <2>3. k - 1 \in Nat /\ Holds(k - 1) /\ (k - 1) + 1 = k
    BY <2>1, <2>2
  <2> QED
    BY <1>2, <2>2, <2>3
<1>4. CASE Other = {}
  <2>1. Holds(n)
    BY <1>4
  <2> QED
    BY <2>1 DEF Holds
<1> QED
  BY <1>3, <1>4

LEMMA PowerSplit ==
    ASSUME NEW b \in Nat \ {0}, NEW n \in Nat, NEW m \in 0 .. n
    PROVE  power(b, n) = power(b, m) * power(b, n - m)
<1>1. n - m \in Nat /\ m \in Nat /\ m + (n - m) = n
  OBVIOUS
<1> QED
  BY <1>1, PowerPlus

-----------------------------------------------------------------------------
(* The digits of a number, negative ones included. *)

LEMMA DigitType ==
    ASSUME NEW v \in Int, NEW b \in Nat \ {0}, NEW i \in Nat
    PROVE  digit(v, b, i) \in 0 .. (b - 1)
<1>1. power(b, i) \in Nat \ {0}
  BY PowerType
<1>2. v \div power(b, i) \in Int
  BY <1>1, DivLaw
<1> QED
  BY <1>2 DEF digit

\* Dividing by a power of the base drops the lowest digits.
LEMMA DigitDown ==
    ASSUME NEW v \in Int, NEW b \in Nat \ {0}, NEW s \in Nat, NEW i \in Nat
    PROVE  digit(v \div power(b, s), b, i) = digit(v, b, i + s)
<1>1. power(b, i) \in Nat \ {0} /\ power(b, s) \in Nat \ {0}
  BY PowerType
<1>2. (v \div power(b, s)) \div power(b, i) = v \div (power(b, s) * power(b, i))
  BY <1>1, DivDiv
<1>3. power(b, s + i) = power(b, s) * power(b, i) /\ s + i = i + s
  BY PowerPlus
<1> QED
  BY <1>2, <1>3 DEF digit

\* Multiplying by a power of the base moves the digits up behind zeros.
LEMMA DigitUp ==
    ASSUME NEW v \in Int, NEW b \in Nat \ {0}, NEW s \in Nat, NEW i \in Nat
    PROVE  digit(v * power(b, s), b, i) = IF i < s THEN 0 ELSE digit(v, b, i - s)
<1> DEFINE x == power(b, i)
           y == power(b, s)
<1>1. x \in Nat \ {0} /\ y \in Nat \ {0}
  BY PowerType
<1>2. CASE i < s
  <2> DEFINE z == power(b, s - i - 1)
  <2>1. s - i - 1 \in Nat /\ (s - i - 1) + 1 = s - i /\ i \in 0 .. s /\ s - i \in Nat
    BY <1>2
  <2>2. z \in Nat \ {0} /\ y = x * power(b, s - i) /\ power(b, s - i) = b * z
    BY <2>1, PowerType, PowerSplit, PowerNext
  <2> HIDE DEF x, y, z
  <2>3. v * y = x * (v * (b * z)) /\ v * (b * z) \in Int
    BY <1>1, <2>2
  <2>4. (v * y) \div x = v * (b * z)
    <3>1. v * y \in Int /\ v * y = x * (v * (b * z)) + 0
      BY <1>1, <2>3
    <3> QED
      BY <1>1, <2>3, <3>1, DivUnique
  <2>5. v * (b * z) = b * (v * z) + 0 /\ v * z \in Int
    BY <1>1, <2>2
  <2>6. (v * (b * z)) % b = 0
    BY <2>3, <2>5, DivUnique
  <2> QED
    BY <1>2, <2>4, <2>6 DEF digit, x, y
<1>3. CASE ~(i < s)
  <2> DEFINE z == power(b, i - s)
  <2>1. i - s \in Nat /\ s \in 0 .. i
    BY <1>3
  <2>2. z \in Nat \ {0} /\ x = y * z
    BY <2>1, PowerType, PowerSplit
  <2> HIDE DEF x, y, z
  <2>3. v * y \in Int /\ v * y = y * v + 0
    BY <1>1
  <2>4. (v * y) \div y = v
    BY <1>1, <2>3, DivUnique
  <2>5. ((v * y) \div y) \div z = (v * y) \div (y * z)
    BY <1>1, <2>2, <2>3, DivDiv
  <2>6. (v * y) \div x = v \div z
    BY <2>2, <2>4, <2>5
  <2> QED
    BY <1>3, <2>6 DEF digit, x, y, z
<1> QED
  BY <1>2, <1>3

\* The remainder by a power of the base keeps the lowest digits.
LEMMA DigitLow ==
    ASSUME NEW v \in Int, NEW b \in Nat \ {0}, NEW n \in Nat, NEW i \in 0 .. (n - 1)
    PROVE  digit(v % power(b, n), b, i) = digit(v, b, i)
<1> DEFINE x == power(b, i)
           y == power(b, n)
           z == power(b, n - i - 1)
           k == v \div y
           r == v % y
<1>1. i \in Nat /\ n - i - 1 \in Nat /\ (n - i - 1) + 1 = n - i /\ i \in 0 .. n /\ n - i \in Nat
  OBVIOUS
<1>2. x \in Nat \ {0} /\ y \in Nat \ {0} /\ z \in Nat \ {0}
  BY <1>1, PowerType
<1>3. y = x * (b * z)
  BY <1>1, PowerSplit, PowerNext
<1> HIDE DEF x, y, z
<1>4. k \in Int /\ r \in Nat /\ v = y * k + r
  BY <1>2, DivLaw
<1> HIDE DEF k, r
<1>5. y * k = x * (b * (z * k)) /\ b * (z * k) \in Int /\ z * k \in Int
  BY <1>2, <1>3, <1>4
<1>6. (r + x * (b * (z * k))) \div x = r \div x + b * (z * k)
  <2> DEFINE e == b * (z * k)
  <2>1. e \in Int /\ r \in Int
    BY <1>4, <1>5
  <2> HIDE DEF e
  <2>2. (r + x * e) \div x = r \div x + e
    BY <1>2, <2>1, DivPlus
  <2> QED
    BY <2>2 DEF e
<1>7. v = r + x * (b * (z * k))
  <2> DEFINE e == y * k
  <2>1. e \in Int
    BY <1>2, <1>4
  <2> HIDE DEF e
  <2>2. v = e + r
    BY <1>4 DEF e
  <2>3. v = r + e
    BY <1>4, <2>1, <2>2
  <2> QED
    BY <1>5, <2>3 DEF e
<1>8. r \div x \in Int
  BY <1>2, <1>4, DivLaw
<1>9. (r \div x + b * (z * k)) % b = (r \div x) % b
  BY <1>5, <1>8, DivPlus
<1> QED
  BY <1>6, <1>7, <1>9 DEF digit, x, r, y

\* Above its length a number has only zeros, a negative one only the last digit.
LEMMA DigitHigh ==
    ASSUME NEW v \in Int, NEW b \in Nat \ {0}, NEW n \in Nat, NEW i \in Nat, i >= n
    PROVE  /\ 0 <= v /\ v < power(b, n) => digit(v, b, i) = 0
           /\ -power(b, n) <= v /\ v < 0 => digit(v, b, i) = b - 1
<1> DEFINE x == power(b, i)
           y == power(b, n)
           z == power(b, i - n)
<1>1. i - n \in Nat /\ n \in 0 .. i
  OBVIOUS
<1>2. x \in Nat \ {0} /\ y \in Nat \ {0} /\ z \in Nat \ {0} /\ x = y * z
  BY <1>1, PowerType, PowerSplit
<1> HIDE DEF x, y, z
<1>3. y <= x
  BY <1>2
<1>4. ASSUME 0 <= v, v < y PROVE digit(v, b, i) = 0
  <2>1. v = x * 0 + v /\ v \in Nat /\ v < x
    BY <1>2, <1>3, <1>4
  <2>2. v \div x = 0
    BY <1>2, <2>1, DivUnique
  <2> QED
    BY <2>2 DEF digit, x
<1>5. ASSUME -y <= v, v < 0 PROVE digit(v, b, i) = b - 1
  <2>1. v = x * (-1) + (v + x) /\ v + x \in Nat /\ v + x < x /\ -1 \in Int
    BY <1>2, <1>3, <1>5
  <2>2. v \div x = -1
    BY <1>2, <2>1, DivUnique
  <2>3. -1 = b * (-1) + (b - 1) /\ b - 1 \in Nat /\ b - 1 < b
    OBVIOUS
  <2>4. (-1) % b = b - 1
    BY <2>3, DivUnique
  <2> QED
    BY <2>2, <2>4 DEF digit, x
<1> QED
  BY <1>4, <1>5 DEF y

-----------------------------------------------------------------------------
(* The number of some digits. *)

\* f lists the numbers of the lowest digits of d, up to n of them.
IsSums(d, b, f, n) ==
    f = [i \in 0 .. n |-> IF i = 0 THEN 0 ELSE f[i - 1] + d[i - 1] * power(b, i - 1)]

LEMMA SumsExtend ==
    ASSUME NEW d, NEW b, NEW n \in Nat, n # 0, NEW g, IsSums(d, b, g, n - 1)
    PROVE  \E f : IsSums(d, b, f, n)
<1> DEFINE f == [i \in 0 .. n |-> IF i < n THEN g[i] ELSE g[n - 1] + d[n - 1] * power(b, n - 1)]
<1>1. ASSUME NEW i \in 0 .. n
      PROVE  f[i] = IF i = 0 THEN 0 ELSE f[i - 1] + d[i - 1] * power(b, i - 1)
  <2>1. CASE i = n
    BY <2>1
  <2>2. CASE i < n /\ i # 0
    <3>1. f[i] = g[i] /\ f[i - 1] = g[i - 1]
      BY <2>2
    <3>2. g[i] = g[i - 1] + d[i - 1] * power(b, i - 1)
      BY <2>2 DEF IsSums
    <3> QED
      BY <2>2, <3>1, <3>2
  <2>3. CASE i = 0
    BY <2>3 DEF IsSums
  <2> QED
    BY <2>1, <2>2, <2>3
<1>2. f = [i \in 0 .. n |-> f[i]]
  OBVIOUS
<1> HIDE DEF f
<1>3. IsSums(d, b, f, n)
  BY <1>1, <1>2 DEF IsSums
<1> QED
  BY <1>3

LEMMA SumsExist ==
    ASSUME NEW d, NEW b, NEW n \in Nat
    PROVE  \E f : IsSums(d, b, f, n)
<1> DEFINE Listed(k) == \E f : IsSums(d, b, f, k)
           Missing == {k \in Nat : ~Listed(k)}
<1>1. Listed(0)
  <2>1. IsSums(d, b, [i \in 0 .. 0 |-> 0], 0)
    BY DEF IsSums
  <2> QED
    BY <2>1
<1>2. ASSUME NEW k \in Nat, k # 0, Listed(k - 1)
      PROVE  Listed(k)
  BY <1>2, SumsExtend
<1> HIDE DEF Listed
<1>3. CASE Missing # {}
  <2>1. PICK k \in Missing : \A m \in Missing : k <= m
    BY <1>3, LeastNatural
  <2>2. k \in Nat /\ ~Listed(k) /\ k # 0
    BY <1>1
  <2>3. k - 1 \in Nat /\ k - 1 \notin Missing
    BY <2>1, <2>2
  <2> QED
    BY <1>2, <2>2, <2>3
<1>4. CASE Missing = {}
  <2>1. Listed(n)
    BY <1>4
  <2> QED
    BY <2>1 DEF Listed
<1> QED
  BY <1>3, <1>4

\* Lists of sums of digits that are the same as far as the shorter list goes.
LEMMA SumsAgree ==
    ASSUME NEW d, NEW e, NEW b, NEW n \in Nat, NEW k \in 0 .. n, NEW f, NEW g,
           \A i \in 0 .. (k - 1) : d[i] = e[i],
           IsSums(d, b, f, n), IsSums(e, b, g, k)
    PROVE  f[k] = g[k]
<1> DEFINE Differ == {i \in 0 .. k : f[i] # g[i]}
<1>1. CASE Differ # {}
  <2>0. Differ \in SUBSET Nat
    OBVIOUS
  <2>1. PICK i \in Differ : \A m \in Differ : i <= m
    BY <1>1, <2>0, LeastNatural
  <2>2. f[0] = 0 /\ g[0] = 0
    BY DEF IsSums
  <2>3. i \in 0 .. k /\ i # 0
    BY <2>2
  <2>4. i - 1 \in 0 .. (k - 1) /\ f[i - 1] = g[i - 1]
    BY <2>1, <2>3
  <2>5. d[i - 1] = e[i - 1]
    BY <2>4
  <2>6. /\ f[i] = f[i - 1] + d[i - 1] * power(b, i - 1)
        /\ g[i] = g[i - 1] + e[i - 1] * power(b, i - 1)
    BY <2>3 DEF IsSums
  <2> QED
    BY <2>4, <2>5, <2>6
<1> QED
  BY <1>1

LEMMA NumberListed ==
    ASSUME NEW d, NEW b, NEW n \in Nat
    PROVE  \E f : IsSums(d, b, f, n) /\ number(d, b, n) = f[n]
<1> DEFINE f == CHOOSE g : IsSums(d, b, g, n)
<1>1. IsSums(d, b, f, n)
  BY SumsExist
<1>2. number(d, b, n) = f[n]
  BY DEF number, IsSums
<1> QED
  BY <1>1, <1>2

\* Only the digits counted matter.
LEMMA NumberSame ==
    ASSUME NEW d, NEW e, NEW b, NEW n \in Nat, \A i \in 0 .. (n - 1) : d[i] = e[i]
    PROVE  number(d, b, n) = number(e, b, n)
<1>1. PICK f : IsSums(d, b, f, n) /\ number(d, b, n) = f[n]
  BY NumberListed
<1>2. PICK g : IsSums(e, b, g, n) /\ number(e, b, n) = g[n]
  BY NumberListed
<1>3. n \in 0 .. n
  OBVIOUS
<1> QED
  BY <1>1, <1>2, <1>3, SumsAgree

LEMMA NumberZero == ASSUME NEW d, NEW b PROVE number(d, b, 0) = 0
<1>1. PICK f : IsSums(d, b, f, 0) /\ number(d, b, 0) = f[0]
  BY NumberListed
<1> QED
  BY <1>1 DEF IsSums

LEMMA NumberNext ==
    ASSUME NEW d, NEW b, NEW n \in Nat
    PROVE  number(d, b, n + 1) = number(d, b, n) + d[n] * power(b, n)
<1>1. PICK f : IsSums(d, b, f, n + 1) /\ number(d, b, n + 1) = f[n + 1]
  BY NumberListed
<1>2. PICK g : IsSums(d, b, g, n) /\ number(d, b, n) = g[n]
  BY NumberListed
<1>3. n \in 0 .. (n + 1) /\ n + 1 \in Nat
  OBVIOUS
<1>4. f[n] = g[n]
  BY <1>1, <1>2, <1>3, SumsAgree
<1>5. f[n + 1] = f[n] + d[n] * power(b, n)
  BY <1>1 DEF IsSums
<1> QED
  BY <1>1, <1>2, <1>4, <1>5

\* The digits d[0] to d[n - 1] are digits of base b.
Digits(d, b, n) == \A i \in 0 .. (n - 1) : d[i] \in 0 .. (b - 1)

\* What is to be shown of a number of k digits.
HasDigits(d, b, k) == /\ number(d, b, k) \in Nat
                      /\ number(d, b, k) < power(b, k)
                      /\ \A i \in 0 .. (k - 1) : digit(number(d, b, k), b, i) = d[i]

LEMMA HasNextDigit ==
    ASSUME NEW d, NEW b \in Nat \ {0}, NEW k \in Nat, d[k] \in 0 .. (b - 1), HasDigits(d, b, k)
    PROVE  HasDigits(d, b, k + 1)
<1> DEFINE v == number(d, b, k)
           w == number(d, b, k + 1)
           p == power(b, k)
           a == d[k]
<1>1. v \in Nat /\ v < p /\ a \in Nat /\ a <= b - 1 /\ p \in Nat \ {0}
  BY PowerType DEF HasDigits
<1>2. w = v + a * p /\ power(b, k + 1) = b * p
  BY NumberNext, PowerNext
<1>3. ASSUME NEW i \in 0 .. (k - 1)
      PROVE  digit(w, b, i) = d[i]
  <2>1. digit(w % power(b, k), b, i) = digit(w, b, i)
    <3>1. w \in Int
      BY <1>1, <1>2
    <3> HIDE DEF w
    <3> QED
      BY <3>1, DigitLow
  <2> HIDE DEF v, w, p, a
  <2>2. /\ w \in Int /\ p \in Nat \ {0} /\ a \in Int /\ v \in Nat /\ v < p
        /\ w = p * a + v
    BY <1>1, <1>2
  <2>3. w % p = v
    BY <2>2, DivUnique, Zenon
  <2> QED
    BY <2>1, <2>3 DEF HasDigits, v, w, p
<1>4. digit(w, b, k) = d[k]
  <2> HIDE DEF v, w, p, a
  <2>1. /\ w \in Int /\ p \in Nat \ {0} /\ a \in Int /\ v \in Nat /\ v < p
        /\ w = p * a + v
    BY <1>1, <1>2
  <2>2. w \div p = a
    BY <2>1, DivUnique, Zenon
  <2>3. /\ a \in Int /\ b \in Nat \ {0} /\ 0 \in Int /\ a \in Nat /\ a < b
        /\ a = b * 0 + a
    BY <1>1
  <2>4. a % b = a
    BY <2>3, DivUnique, Zenon
  <2> QED
    BY <2>2, <2>4 DEF digit, p, a
<1>5. w \in Nat /\ w < b * p
  <2> HIDE DEF v, w, p, a
  <2>1. a * p <= (b - 1) * p /\ a * p \in Nat
    BY <1>1
  <2>2. (b - 1) * p = b * p - p /\ b * p \in Nat
    BY <1>1
  <2> QED
    BY <1>1, <1>2, <2>1, <2>2
<1>6. ASSUME NEW i \in 0 .. ((k + 1) - 1)
      PROVE  digit(w, b, i) = d[i]
  <2>1. CASE i = k
    BY <2>1, <1>4
  <2>2. CASE i # k
    <3>1. i \in 0 .. (k - 1)
      BY <2>2
    <3> QED
      BY <3>1, <1>3
  <2> QED
    BY <2>1, <2>2
<1> QED
  BY <1>2, <1>5, <1>6 DEF HasDigits

\* A number has the digits it is made of, and is less than the power of its length.
LEMMA NumberHasDigits ==
    ASSUME NEW d, NEW b \in Nat \ {0}, NEW n \in Nat, Digits(d, b, n)
    PROVE  HasDigits(d, b, n)
<1> DEFINE Other == {k \in 0 .. n : ~HasDigits(d, b, k)}
<1>1. HasDigits(d, b, 0)
  BY NumberZero, PowerZero DEF HasDigits
<1>2. CASE Other # {}
  <2>0. Other \in SUBSET Nat
    OBVIOUS
  <2>1. PICK k \in Other : \A j \in Other : k <= j
    BY <1>2, <2>0, LeastNatural
  <2>2. k \in 0 .. n /\ k # 0 /\ ~HasDigits(d, b, k)
    BY <1>1
  <2>3. k - 1 \in Nat /\ (k - 1) + 1 = k /\ k - 1 \in 0 .. (n - 1)
    BY <2>2
  <2>4. HasDigits(d, b, k - 1)
    BY <2>1, <2>3
  <2>5. d[k - 1] \in 0 .. (b - 1)
    BY <2>3 DEF Digits
  <2>6. HasDigits(d, b, (k - 1) + 1)
    BY <2>3, <2>4, <2>5, HasNextDigit
  <2> QED
    BY <2>2, <2>3, <2>6
<1> QED
  BY <1>2

\* The number of the lowest n digits of v is v up to the power of n.
LEMMA NumberOfDigits ==
    ASSUME NEW v \in Int, NEW b \in Nat \ {0}, NEW n \in Nat
    PROVE  number([i \in 0 .. (n - 1) |-> digit(v, b, i)], b, n) = v % power(b, n)
<1> DEFINE d == [i \in 0 .. (n - 1) |-> digit(v, b, i)]
           Holds(k) == number(d, b, k) = v % power(b, k)
           Other == {k \in 0 .. n : ~Holds(k)}
<1>1. Holds(0)
  <2>1. number(d, b, 0) = 0 /\ power(b, 0) = 1
    BY NumberZero, PowerZero
  <2> QED
    BY <2>1
<1>2. ASSUME NEW k \in 0 .. (n - 1), Holds(k)
      PROVE  Holds(k + 1)
  <2> DEFINE p == power(b, k)
  <2>1. k \in Nat /\ p \in Nat \ {0}
    BY PowerType
  <2>2. d[k] = (v \div p) % b
    BY DEF digit
  <2>3. number(d, b, k + 1) = number(d, b, k) + d[k] * p /\ power(b, k + 1) = b * p
    BY <2>1, NumberNext, PowerNext
  <2>4. v % (p * b) = (v % p) + p * ((v \div p) % b)
    BY <2>1, DivDiv
  <2>5. (v \div p) % b \in Int /\ p * b = b * p
    BY <2>1
  <2>6. number(d, b, k) = v % p
    BY <1>2
  <2> HIDE DEF p, d
  <2>7. d[k] * p = p * ((v \div p) % b)
    BY <2>1, <2>2, <2>5
  <2> QED
    BY <2>3, <2>4, <2>5, <2>6, <2>7 DEF p
<1> HIDE DEF Holds
<1>3. CASE Other # {}
  <2>0. Other \in SUBSET Nat
    OBVIOUS
  <2>1. PICK k \in Other : \A j \in Other : k <= j
    BY <1>3, <2>0, LeastNatural
  <2>2. k \in 0 .. n /\ ~Holds(k) /\ k # 0
    BY <1>1
  <2>3. k - 1 \in 0 .. (n - 1) /\ (k - 1) + 1 = k
    BY <2>2
  <2>4. Holds(k - 1)
    BY <2>1, <2>3
  <2> QED
    BY <1>2, <2>2, <2>3, <2>4
<1>4. CASE Other = {}
  <2>1. Holds(n)
    BY <1>4
  <2> QED
    BY <2>1 DEF Holds
<1> QED
  BY <1>3, <1>4

=============================================================================
