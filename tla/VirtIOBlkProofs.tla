---------------------------- MODULE VirtIOBlkProofs ----------------------------
(***************************************************************************)
(* The block device for any ring size, index width, set of chains and      *)
(* requests.  The rings are first shown to be two queues, however their    *)
(* indices wrap; the rest of the argument is about the queues.             *)
(***************************************************************************)
EXTENDS VirtIOBlk, FiniteSetTheorems, SequenceTheorems, TLAPS

-----------------------------------------------------------------------------
(* Remainders. *)

LEMMA Division ==
    ASSUME NEW n \in Nat \ {0}, NEW a \in Int
    PROVE  /\ a \div n \in Int /\ a % n \in 0 .. (n - 1)
           /\ a = n * (a \div n) + (a % n)
OBVIOUS

LEMMA Remainder ==
    ASSUME NEW n \in Nat \ {0}, NEW q \in Int, NEW r \in 0 .. (n - 1)
    PROVE  (n * q + r) % n = r
OBVIOUS

LEMMA ModMultiple ==
    ASSUME NEW n \in Nat \ {0}, NEW a \in Int, NEW c \in Int
    PROVE  (a + n * c) % n = a % n
<1> DEFINE q == a \div n
           r == a % n
<1>1. q \in Int /\ r \in 0 .. (n - 1) /\ a = n * q + r
  BY Division
<1> HIDE DEF q, r
<1>2. a + n * c = n * (q + c) + r /\ q + c \in Int
  BY <1>1
<1>3. (n * (q + c) + r) % n = r
  BY <1>1, <1>2, Remainder
<1> QED
  BY <1>2, <1>3 DEF r

LEMMA ModDistinct ==
    ASSUME NEW n \in Nat \ {0}, NEW x \in Int, NEW y \in Int, x < y, y - x < n
    PROVE  x % n # y % n
<1> DEFINE q == x \div n
           p == y \div n
<1>1. q \in Int /\ x % n \in 0 .. (n - 1) /\ x = n * q + (x % n)
  BY Division
<1>2. p \in Int /\ y % n \in 0 .. (n - 1) /\ y = n * p + (y % n)
  BY Division
<1> HIDE DEF q, p
<1> SUFFICES ASSUME x % n = y % n PROVE FALSE
  OBVIOUS
<1>3. y - x = n * (p - q)
  BY <1>1, <1>2
<1>4. CASE p - q <= 0
  BY <1>1, <1>2, <1>3, <1>4
<1>5. CASE p - q >= 1
  <2>1. n * (p - q) >= n
    BY <1>1, <1>2, <1>5
  <2> QED
    BY <1>3, <2>1
<1> QED
  BY <1>1, <1>2, <1>4, <1>5

LEMMA ModTwice ==
    ASSUME NEW n \in Nat \ {0}, NEW m \in Nat \ {0}, m % n = 0, NEW x \in Int
    PROVE  (x % m) % n = x % n
<1> DEFINE c == m \div n
           q == x \div m
           r == x % m
<1>1. c \in Int /\ m = n * c
  BY Division
<1>2. q \in Int /\ r \in Int /\ x = m * q + r
  BY Division
<1> HIDE DEF c, q, r
<1>3. x = r + n * (c * q) /\ c * q \in Int
  BY <1>1, <1>2
<1>4. (r + n * (c * q)) % n = r % n
  BY <1>2, <1>3, ModMultiple
<1> QED
  BY <1>3, <1>4 DEF r

-----------------------------------------------------------------------------
(* The rings: the entries between two indices are a queue. *)

Index == 0 .. (IDX - 1)
Slot  == 0 .. (NUM - 1)

\* What a slot may hold: a head, or what it was cleared with.
Entry == Heads \cup {0}

LEMMA Widths == NUM \in Nat \ {0} /\ IDX \in Nat \ {0} /\ NUM < IDX
BY RingAssumption

LEMMA Sizes == NUM \in Nat \ {0} /\ IDX \in Nat \ {0} /\ IDX % NUM = 0 /\ NUM < IDX
BY RingAssumption

\* Once around the indices is a whole number of times around the ring.
LEMMA Around ==
    ASSUME NEW x \in Int
    PROVE  (x + IDX) % IDX = x % IDX /\ (x + IDX) % NUM = x % NUM
<1>1. (x + IDX * 1) % IDX = x % IDX
  BY Widths, ModMultiple, 1 \in Int
<1>2. x + IDX * 1 = x + IDX
  BY Sizes
<1>3. x + IDX \in Int
  BY Sizes
<1>4. ((x + IDX) % IDX) % NUM = (x + IDX) % NUM /\ (x % IDX) % NUM = x % NUM
  BY <1>3, Sizes, ModTwice
<1> QED
  BY <1>1, <1>2, <1>4

\* How far one index is behind another, the index after one, and its slot.
Gap(a, b) == (b - a) % IDX
After(a)  == (a + 1) % IDX
slot(i)   == i % NUM

Put(ring, i, x) == [ring EXCEPT ![slot(i)] = x]

LEMMA Distance ==
    ASSUME NEW a \in Index, NEW b \in Index
    PROVE  /\ Gap(a, b) = IF a <= b THEN b - a ELSE b - a + IDX
           /\ After(a) = IF a + 1 = IDX THEN 0 ELSE a + 1
           /\ Gap(a, b) \in Index /\ After(a) \in Index
<1> USE Sizes DEF Index, Gap, After
<1>1. \A x \in 0 .. (IDX - 1) : x % IDX = x
  OBVIOUS
<1>2. b - a \in Int /\ a + 1 - IDX \in Int /\ (a + 1 - IDX) + IDX = a + 1
  OBVIOUS
<1>3. (b - a + IDX) % IDX = (b - a) % IDX /\ ((a + 1 - IDX) + IDX) % IDX = (a + 1 - IDX) % IDX
  BY <1>2, Around
<1>4. CASE a <= b
  BY <1>1, <1>4
<1>5. CASE b < a
  <2>1. b - a + IDX \in 0 .. (IDX - 1)
    BY <1>5
  <2> QED
    BY <1>1, <1>3, <2>1, <1>5
<1>6. After(a) = IF a + 1 = IDX THEN 0 ELSE a + 1
  <2>1. CASE a + 1 = IDX
    BY <1>1, <1>2, <1>3, <2>1
  <2>2. CASE a + 1 # IDX
    BY <1>1, <2>2
  <2> QED
    BY <2>1, <2>2
<1> HIDE DEF After
<1>7. Gap(a, b) = IF a <= b THEN b - a ELSE b - a + IDX
  BY <1>4, <1>5
<1> HIDE DEF Gap
<1> QED
  BY <1>6, <1>7

LEMMA Slots ==
    /\ \A i \in Int : slot(i) \in Slot /\ slot(i % IDX) = slot(i) /\ slot(i + IDX) = slot(i)
    /\ \A i, j \in Int : i < j /\ j - i < NUM => slot(i) # slot(j)
<1>1. \A i \in Int : slot(i) \in Slot
  BY Sizes, Division DEF slot, Slot
<1>2. \A i \in Int : slot(i % IDX) = slot(i)
  BY Sizes, ModTwice DEF slot
<1>3. \A i \in Int : slot(i + IDX) = slot(i)
  BY Around DEF slot
<1>4. \A i, j \in Int : i < j /\ j - i < NUM => slot(i) # slot(j)
  BY Sizes, ModDistinct DEF slot
<1> QED
  BY <1>1, <1>2, <1>3, <1>4

LEMMA BetweenAt ==
    ASSUME NEW ring \in [Slot -> Entry], NEW a \in Index, NEW b \in Index,
           NEW k \in 1 .. Gap(a, b)
    PROVE  Between(ring, a, b)[k] = ring[slot(a + k - 1)] /\ slot(a + k - 1) \in Slot
<1>1. Gap(a, b) \in Nat /\ a + k - 1 \in Int
  BY Widths, Distance DEF Index
<1>2. slot(a + k - 1) \in Slot /\ slot((a + k - 1) % IDX) = slot(a + k - 1)
  BY <1>1, Slots
<1>3. Between(ring, a, b) = [i \in 1 .. Gap(a, b) |-> ring[slot((a + i - 1) % IDX)]]
  BY DEF Between, Gap, slot
<1> QED
  BY <1>2, <1>3

LEMMA BetweenSeq ==
    ASSUME NEW ring \in [Slot -> Entry], NEW a \in Index, NEW b \in Index
    PROVE  Between(ring, a, b) \in Seq(Entry) /\ Len(Between(ring, a, b)) = Gap(a, b)
<1> DEFINE n == Gap(a, b)
<1>1. n \in Nat
  BY Widths, Distance DEF Index
<1>2. \A k \in 1 .. n : Between(ring, a, b)[k] = ring[slot(a + k - 1)] /\ slot(a + k - 1) \in Slot
  BY BetweenAt
<1>3. Between(ring, a, b) = [k \in 1 .. n |-> ring[slot((a + k - 1) % IDX)]]
  BY DEF Between, Gap, slot
<1> HIDE DEF n
<1>4. Between(ring, a, b) \in [1 .. n -> Entry]
  BY <1>2, <1>3
<1> QED
  BY <1>1, <1>3, <1>4 DEF n

LEMMA BetweenEmpty ==
    ASSUME NEW ring \in [Slot -> Entry], NEW a \in Index, NEW b \in Index
    PROVE  Between(ring, a, b) = <<>> <=> a = b
<1>1. Gap(a, b) = 0 <=> a = b
  <2>1. Gap(a, b) = IF a <= b THEN b - a ELSE b - a + IDX
    BY Distance
  <2> QED
    BY <2>1, Widths DEF Index
<1>2. Between(ring, a, b) \in Seq(Entry) /\ Len(Between(ring, a, b)) = Gap(a, b)
  BY BetweenSeq
<1> QED
  BY <1>1, <1>2, EmptySeq

\* Putting an entry in the slot of the upper index and moving the index appends:
\* a ring that is not full overwrites nothing that is in use.
LEMMA BetweenAppend ==
    ASSUME NEW ring \in [Slot -> Entry], NEW a \in Index, NEW b \in Index, NEW x \in Entry,
           Gap(a, b) < NUM
    PROVE  /\ Put(ring, b, x) \in [Slot -> Entry]
           /\ Between(Put(ring, b, x), a, After(b)) = Append(Between(ring, a, b), x)
<1> DEFINE n == Gap(a, b)
           r == Put(ring, b, x)
           e == After(b)
           s == Between(ring, a, b)
           t == Between(r, a, e)
<1>1. n \in Nat /\ n < NUM /\ e \in Index /\ Gap(a, e) = n + 1
  <2>1. /\ n = IF a <= b THEN b - a ELSE b - a + IDX
        /\ e = IF b + 1 = IDX THEN 0 ELSE b + 1
        /\ e \in Index
    BY Distance
  <2>2. Gap(a, e) = IF a <= e THEN e - a ELSE e - a + IDX
    BY <2>1, Distance
  <2> HIDE DEF n, e
  <2> QED
    BY <2>1, <2>2, Widths DEF Index, n
<1>2. slot(b) \in Slot
  BY Slots DEF Index
<1>3. r \in [Slot -> Entry]
  BY <1>2 DEF Put
<1>4. slot(a + n) = slot(b)
  <2>1. CASE a <= b
    BY <2>1, Widths, Distance DEF Index
  <2>2. CASE b < a
    <3>1. a + n = b + IDX
      BY <2>2, Widths, Distance DEF Index
    <3> QED
      BY <3>1, Slots DEF Index
  <2> QED
    BY <2>1, <2>2, Widths DEF Index
<1> HIDE DEF r
<1>5. t \in Seq(Entry) /\ Len(t) = n + 1 /\ \A k \in 1 .. (n + 1) : t[k] = r[slot(a + k - 1)]
  <2> HIDE DEF e
  <2>1. e \in Index
    BY <1>1
  <2>2. t \in Seq(Entry) /\ Len(t) = Gap(a, e)
    BY <1>3, <2>1, BetweenSeq
  <2>3. ASSUME NEW k \in 1 .. Gap(a, e) PROVE t[k] = r[slot(a + k - 1)]
    BY <1>3, <2>1, BetweenAt
  <2> QED
    BY <1>1, <2>2, <2>3
<1>6. s \in Seq(Entry) /\ Len(s) = n /\ \A k \in 1 .. n : s[k] = ring[slot(a + k - 1)]
  BY BetweenSeq, BetweenAt
<1> HIDE DEF n, e, s, t
<1>7. \A k \in 1 .. n : r[slot(a + k - 1)] = ring[slot(a + k - 1)]
  <2> SUFFICES ASSUME NEW k \in 1 .. n PROVE r[slot(a + k - 1)] = ring[slot(a + k - 1)]
    OBVIOUS
  <2>1. a + k - 1 \in Int /\ a + n \in Int /\ a + k - 1 < a + n /\ (a + n) - (a + k - 1) < NUM + 0
    BY <1>1, Widths DEF Index
  <2>2. slot(a + k - 1) # slot(a + n) /\ slot(a + k - 1) \in Slot
    BY <2>1, Widths, Slots
  <2> QED
    BY <1>4, <2>2 DEF r, Put
<1>8. t[n + 1] = x
  <2>1. a + (n + 1) - 1 = a + n /\ n + 1 \in 1 .. (n + 1)
    BY <1>1 DEF Index
  <2>2. t[n + 1] = r[slot(a + n)]
    BY <1>5, <2>1
  <2> QED
    BY <1>2, <1>4, <2>2 DEF r, Put
<1>9. /\ Append(s, x) \in Seq(Entry) /\ Len(Append(s, x)) = n + 1
      /\ \A k \in 1 .. n : Append(s, x)[k] = s[k]
      /\ Append(s, x)[n + 1] = x
  BY <1>1, <1>6
<1>10. \A k \in 1 .. n : t[k] = s[k]
  BY <1>1, <1>5, <1>6, <1>7
<1>11. \A k \in 1 .. (n + 1) : t[k] = Append(s, x)[k]
  BY <1>1, <1>8, <1>9, <1>10
<1>12. t = Append(s, x)
  BY <1>5, <1>9, <1>11, SeqEqual
<1> QED
  BY <1>3, <1>12 DEF r, e, s, t

\* Moving the lower index takes the first entry.
LEMMA BetweenTail ==
    ASSUME NEW ring \in [Slot -> Entry], NEW a \in Index, NEW b \in Index, a # b
    PROVE  /\ Between(ring, a, b) # <<>>
           /\ Head(Between(ring, a, b)) = ring[slot(a)]
           /\ Between(ring, After(a), b) = Tail(Between(ring, a, b))
<1> DEFINE n == Gap(a, b)
           c == After(a)
           s == Between(ring, a, b)
           t == Between(ring, c, b)
<1>1. n \in Nat /\ n # 0 /\ c \in Index /\ Gap(c, b) = n - 1
  <2>1. /\ n = IF a <= b THEN b - a ELSE b - a + IDX
        /\ c = IF a + 1 = IDX THEN 0 ELSE a + 1
        /\ c \in Index
    BY Distance
  <2>2. Gap(c, b) = IF c <= b THEN b - c ELSE b - c + IDX
    BY <2>1, Distance
  <2> HIDE DEF n, c
  <2> QED
    BY <2>1, <2>2, Widths DEF Index
<1>2. s \in Seq(Entry) /\ Len(s) = n /\ \A k \in 1 .. n : s[k] = ring[slot(a + k - 1)]
  BY BetweenSeq, BetweenAt
<1>3. t \in Seq(Entry) /\ Len(t) = n - 1 /\ \A k \in 1 .. (n - 1) : t[k] = ring[slot(c + k - 1)]
  BY <1>1, BetweenSeq, BetweenAt
<1> HIDE DEF n, s, t
<1>4. \A k \in 1 .. (n - 1) : slot(c + k - 1) = slot(a + k)
  <2> SUFFICES ASSUME NEW k \in 1 .. (n - 1) PROVE slot(c + k - 1) = slot(a + k)
    OBVIOUS
  <2>1. CASE a + 1 = IDX
    <3>1. c + k - 1 = k - 1 /\ a + k = (k - 1) + IDX /\ k - 1 \in Int
      BY <2>1, <1>1, Widths, Distance DEF Index
    <3> QED
      BY <3>1, Slots
  <2>2. CASE a + 1 # IDX
    <3>1. c + k - 1 = a + k
      BY <2>2, <1>1, Distance DEF Index
    <3> QED
      BY <3>1
  <2> QED
    BY <2>1, <2>2
<1> HIDE DEF c
<1>5. s[1] = ring[slot(a)]
  <2>1. a + 1 - 1 = a /\ 1 \in 1 .. n
    BY <1>1 DEF Index
  <2> QED
    BY <1>2, <2>1
<1>6. /\ Tail(s) \in Seq(Entry) /\ Len(Tail(s)) = n - 1
      /\ \A k \in 1 .. (n - 1) : Tail(s)[k] = s[k + 1]
  BY <1>1, <1>2
<1>7. \A k \in 1 .. (n - 1) : t[k] = Tail(s)[k]
  <2> SUFFICES ASSUME NEW k \in 1 .. (n - 1) PROVE t[k] = Tail(s)[k]
    OBVIOUS
  <2>1. k + 1 \in 1 .. n /\ a + (k + 1) - 1 = a + k
    BY <1>1 DEF Index
  <2>2. s[k + 1] = ring[slot(a + k)]
    BY <1>2, <2>1
  <2> QED
    BY <1>3, <1>4, <1>6, <2>2
<1>8. t = Tail(s)
  BY <1>3, <1>6, <1>7, SeqEqual
<1>9. s # <<>> /\ Head(s) = s[1]
  BY <1>1, <1>2
<1> QED
  BY <1>5, <1>8, <1>9 DEF c, s, t

-----------------------------------------------------------------------------
(* Queues of heads. *)

Elems(s)    == {s[k] : k \in 1 .. Len(s)}
Distinct(s) == \A j, k \in 1 .. Len(s) : s[j] = s[k] => j = k

LEMMA AppendElems ==
    ASSUME NEW S, NEW s \in Seq(S), NEW x \in S
    PROVE  /\ Append(s, x) \in Seq(S) /\ Len(Append(s, x)) = Len(s) + 1
           /\ Elems(Append(s, x)) = Elems(s) \cup {x}
           /\ Distinct(s) /\ x \notin Elems(s) => Distinct(Append(s, x))
<1> DEFINE n == Len(s)
           t == Append(s, x)
<1>1. /\ n \in Nat /\ t \in Seq(S) /\ Len(t) = n + 1 /\ t[n + 1] = x
      /\ \A k \in 1 .. n : t[k] = s[k]
  OBVIOUS
<1> HIDE DEF n, t
<1>2. Elems(s) = {s[k] : k \in 1 .. n}
  BY DEF Elems, n
<1>3. Elems(t) = Elems(s) \cup {x}
  <2>1. ASSUME NEW y \in Elems(t) PROVE y \in Elems(s) \cup {x}
    <3>1. PICK k \in 1 .. (n + 1) : y = t[k]
      BY <1>1 DEF Elems
    <3>2. CASE k = n + 1
      BY <1>1, <3>1, <3>2
    <3>3. CASE k \in 1 .. n
      BY <1>1, <1>2, <3>1, <3>3
    <3> QED
      BY <1>1, <3>2, <3>3
  <2>2. ASSUME NEW y \in Elems(s) PROVE y \in Elems(t)
    <3>1. PICK k \in 1 .. n : y = s[k]
      BY <1>2
    <3>2. y = t[k] /\ k \in 1 .. Len(t)
      BY <1>1, <3>1
    <3> QED
      BY <3>2 DEF Elems
  <2>3. x \in Elems(t)
    <3>1. n + 1 \in 1 .. Len(t)
      BY <1>1
    <3> QED
      BY <1>1, <3>1 DEF Elems
  <2> QED
    BY <2>1, <2>2, <2>3
<1>4. ASSUME Distinct(s), x \notin Elems(s) PROVE Distinct(t)
  <2>1. \A k \in 1 .. n : s[k] # x
    BY <1>2, <1>4
  <2> QED
    BY <1>1, <1>4, <2>1 DEF Distinct, n
<1> QED
  BY <1>1, <1>3, <1>4 DEF t, n

LEMMA TailElems ==
    ASSUME NEW S, NEW s \in Seq(S), s # <<>>, Distinct(s)
    PROVE  /\ Tail(s) \in Seq(S) /\ Len(Tail(s)) = Len(s) - 1 /\ Len(s) \in Nat \ {0}
           /\ Head(s) \in Elems(s) /\ Head(s) \in S
           /\ Elems(Tail(s)) = Elems(s) \ {Head(s)}
           /\ Distinct(Tail(s))
<1> DEFINE n == Len(s)
           t == Tail(s)
           x == Head(s)
<1>1. /\ n \in Nat \ {0} /\ t \in Seq(S) /\ Len(t) = n - 1 /\ x = s[1] /\ x \in S
      /\ \A k \in 1 .. (n - 1) : t[k] = s[k + 1]
  OBVIOUS
<1> HIDE DEF n, t, x
<1>2. Elems(s) = {s[k] : k \in 1 .. n} /\ \A j, k \in 1 .. n : s[j] = s[k] => j = k
  BY DEF Elems, Distinct, n
<1>3. x \in Elems(s)
  BY <1>1, <1>2
<1>4. Elems(t) = Elems(s) \ {x}
  <2>1. ASSUME NEW y \in Elems(t) PROVE y \in Elems(s) \ {x}
    <3>1. PICK k \in 1 .. (n - 1) : y = t[k]
      BY <1>1 DEF Elems
    <3>2. k + 1 \in 1 .. n /\ 1 \in 1 .. n /\ k + 1 # 1 /\ y = s[k + 1]
      BY <1>1, <3>1
    <3> QED
      BY <1>1, <1>2, <3>2
  <2>2. ASSUME NEW y \in Elems(s) \ {x} PROVE y \in Elems(t)
    <3>1. PICK k \in 1 .. n : y = s[k]
      BY <1>2
    <3>2. k # 1
      BY <1>1, <3>1
    <3>3. k - 1 \in 1 .. Len(t) /\ (k - 1) + 1 = k
      BY <1>1, <3>2
    <3>4. y = t[k - 1]
      BY <1>1, <3>1, <3>3
    <3> QED
      BY <3>3, <3>4 DEF Elems
  <2> QED
    BY <2>1, <2>2
<1>5. Distinct(t)
  <2> SUFFICES ASSUME NEW j \in 1 .. (n - 1), NEW k \in 1 .. (n - 1), t[j] = t[k] PROVE j = k
    BY <1>1 DEF Distinct
  <2>1. j + 1 \in 1 .. n /\ k + 1 \in 1 .. n /\ s[j + 1] = s[k + 1]
    BY <1>1
  <2> QED
    BY <1>2, <2>1
<1> QED
  BY <1>1, <1>3, <1>4, <1>5 DEF t, n, x

LEMMA EmptyElems == Elems(<<>>) = {} /\ Distinct(<<>>) /\ Len(<<>>) = 0
BY DEF Elems, Distinct

\* One queue on its way to the device, one on its way back, and the chains in
\* neither are free.
Conserved(todo, done, free) ==
    /\ todo \in Seq(Heads) /\ done \in Seq(Heads)
    /\ Distinct(todo) /\ Distinct(done)
    /\ Elems(todo) \cap Elems(done) = {}
    /\ free = Heads \ (Elems(todo) \cup Elems(done))
    /\ Len(todo) + Len(done) + Cardinality(free) = Cardinality(Heads)

LEMMA FreeIsFinite ==
    ASSUME NEW F \in SUBSET Heads
    PROVE  /\ IsFiniteSet(F) /\ Cardinality(F) \in Nat
           /\ \A h \in F : Cardinality(F \ {h}) = Cardinality(F) - 1
           /\ \A h \in Heads \ F : Cardinality(F \cup {h}) = Cardinality(F) + 1
<1>1. IsFiniteSet(F)
  BY RingAssumption, FS_Subset
<1> QED
  BY <1>1, FS_CardinalityType, FS_RemoveElement, FS_AddElement

LEMMA ConservedLengths ==
    ASSUME NEW todo, NEW done, NEW free, Conserved(todo, done, free)
    PROVE  /\ Len(todo) \in Nat /\ Len(done) \in Nat
           /\ Len(todo) + Len(done) <= NUM
           /\ free # {} => Len(todo) + Len(done) < NUM
           /\ free = Heads => todo = <<>> /\ done = <<>>
<1>1. free \in SUBSET Heads /\ Len(todo) \in Nat /\ Len(done) \in Nat
  BY DEF Conserved
<1>2. /\ Cardinality(free) \in Nat /\ Cardinality(Heads) \in Nat
      /\ \A h \in free : Cardinality(free \ {h}) = Cardinality(free) - 1
      /\ \A h \in free : Cardinality(free \ {h}) \in Nat
  <2>1. \A h \in free : free \ {h} \in SUBSET Heads
    BY <1>1
  <2> QED
    BY <1>1, <2>1, FreeIsFinite
<1>3. Cardinality(Heads) <= NUM /\ NUM \in Nat
  BY RingAssumption
<1>4. ASSUME NEW h \in free PROVE Cardinality(free) > 0
  <2>1. Cardinality(free) - 1 \in Nat
    BY <1>2
  <2> QED
    BY <1>2, <2>1
<1>5. Len(todo) + Len(done) + Cardinality(free) = Cardinality(Heads)
  BY DEF Conserved
<1>6. free = Heads => Len(todo) = 0 /\ Len(done) = 0
  BY <1>1, <1>2, <1>5
<1>7. (Len(todo) = 0 => todo = <<>>) /\ (Len(done) = 0 => done = <<>>)
  BY EmptySeq DEF Conserved
<1> QED
  BY <1>1, <1>2, <1>3, <1>4, <1>5, <1>6, <1>7

LEMMA ConservedSubmit ==
    ASSUME NEW todo, NEW done, NEW free, Conserved(todo, done, free), NEW h \in free
    PROVE  Conserved(Append(todo, h), done, free \ {h})
<1>1. /\ h \in Heads /\ h \notin Elems(todo) /\ h \notin Elems(done)
      /\ free \in SUBSET Heads /\ todo \in Seq(Heads) /\ Distinct(todo)
  BY DEF Conserved
<1>2. /\ Append(todo, h) \in Seq(Heads) /\ Len(Append(todo, h)) = Len(todo) + 1
      /\ Elems(Append(todo, h)) = Elems(todo) \cup {h} /\ Distinct(Append(todo, h))
  BY <1>1, AppendElems
<1>3. Cardinality(free \ {h}) = Cardinality(free) - 1 /\ Cardinality(free) \in Nat
  BY <1>1, FreeIsFinite
<1>4. Len(todo) \in Nat /\ Len(done) \in Nat
  BY ConservedLengths
<1>5. Len(Append(todo, h)) + Len(done) + Cardinality(free \ {h}) = Cardinality(Heads)
  BY <1>2, <1>3, <1>4 DEF Conserved
<1> QED
  BY <1>1, <1>2, <1>5 DEF Conserved

LEMMA ConservedServe ==
    ASSUME NEW todo, NEW done, NEW free, Conserved(todo, done, free), todo # <<>>
    PROVE  Conserved(Tail(todo), Append(done, Head(todo)), free)
<1>1. todo \in Seq(Heads) /\ Distinct(todo) /\ done \in Seq(Heads) /\ Distinct(done)
  BY DEF Conserved
<1>2. /\ Tail(todo) \in Seq(Heads) /\ Len(Tail(todo)) = Len(todo) - 1 /\ Distinct(Tail(todo))
      /\ Head(todo) \in Elems(todo) /\ Head(todo) \in Heads
      /\ Elems(Tail(todo)) = Elems(todo) \ {Head(todo)}
  BY <1>1, TailElems
<1>3. Head(todo) \notin Elems(done)
  BY <1>2 DEF Conserved
<1>4. /\ Append(done, Head(todo)) \in Seq(Heads) /\ Distinct(Append(done, Head(todo)))
      /\ Len(Append(done, Head(todo))) = Len(done) + 1
      /\ Elems(Append(done, Head(todo))) = Elems(done) \cup {Head(todo)}
  BY <1>1, <1>2, <1>3, AppendElems
<1>5. Len(todo) \in Nat /\ Len(done) \in Nat
  BY ConservedLengths
<1>6. Len(Tail(todo)) + Len(Append(done, Head(todo))) = Len(todo) + Len(done)
  BY <1>2, <1>4, <1>5
<1> QED
  BY <1>2, <1>3, <1>4, <1>6 DEF Conserved

LEMMA ConservedReap ==
    ASSUME NEW todo, NEW done, NEW free, Conserved(todo, done, free), done # <<>>
    PROVE  Conserved(todo, Tail(done), free \cup {Head(done)})
<1>1. todo \in Seq(Heads) /\ done \in Seq(Heads) /\ Distinct(done) /\ free \in SUBSET Heads
  BY DEF Conserved
<1>2. /\ Tail(done) \in Seq(Heads) /\ Len(Tail(done)) = Len(done) - 1 /\ Distinct(Tail(done))
      /\ Head(done) \in Elems(done) /\ Head(done) \in Heads
      /\ Elems(Tail(done)) = Elems(done) \ {Head(done)}
  BY <1>1, TailElems
<1>3. Head(done) \notin free
  BY <1>2 DEF Conserved
<1>4. Cardinality(free \cup {Head(done)}) = Cardinality(free) + 1 /\ Cardinality(free) \in Nat
  BY <1>1, <1>2, <1>3, FreeIsFinite
<1>5. Len(todo) \in Nat /\ Len(done) \in Nat
  BY ConservedLengths
<1>6. Len(todo) + Len(Tail(done)) + Cardinality(free \cup {Head(done)}) = Cardinality(Heads)
  BY <1>2, <1>4, <1>5 DEF Conserved
<1>7. free \cup {Head(done)} = Heads \ (Elems(todo) \cup Elems(Tail(done)))
  BY <1>2 DEF Conserved
<1> QED
  BY <1>1, <1>2, <1>6, <1>7 DEF Conserved

-----------------------------------------------------------------------------
(* The inductive invariant. *)

Regs == [ driver_features : Nat, queue_sel : Nat, queue_num : Nat, queue_ready : {0, 1},
          desc_addr : SUBSET Nat, avail_addr : SUBSET Nat, used_addr : SUBSET Nat,
          status : Nat, interrupt_status : SUBSET {0},
          last_avail_idx : UNION {[Q -> Index] : Q \in SUBSET Queues} ]

Rings == [idx : Index, ring : [Slot -> Entry]]

TypeOK == /\ dev \in Regs
          /\ disk \in [DOMAIN disk -> Values]
          /\ avail \in Rings /\ used \in Rings
          /\ req \in [Heads -> Request]
          /\ drv \in [free : SUBSET Heads, used_idx : Index, handler : {"idle", "reap"}]
          /\ queue \in Queues /\ last \in Index \cup {None} /\ running \in BOOLEAN

\* The device's position, kept in a local variable or in its record, is the used
\* index in guest memory.
Synchronised == /\ last # None => last = used.idx
                /\ last = None => \A q \in DOMAIN dev.last_avail_idx :
                                     dev.last_avail_idx[q] = used.idx

\* A queue that is not ready is empty and has no record.
Quiet == /\ dev.queue_ready = 1 => dev.queue_num = NUM
         /\ last # None => dev.queue_ready = 1
         /\ dev.queue_ready = 0 => /\ used.idx = avail.idx /\ used.idx = drv.used_idx
                                   /\ DOMAIN dev.last_avail_idx = {}

Pending == Between(avail.ring, used.idx, avail.idx)

\* A request that waits has the status byte the driver gave it.
Untouched == \A h \in Elems(Pending) : req[h].status = 255

Inv == /\ TypeOK /\ Synchronised /\ Quiet
       /\ Conserved(Pending, DoneHeads, drv.free)
       /\ Untouched
       /\ NoLostCompletion

\* A block device has one queue.  (The record of the position is kept per queue
\* index while the rings are shared: a driver that notified two indices would
\* have requests served twice.)
OneQueue == Queues = {0}

-----------------------------------------------------------------------------
(* The registers. *)

LEMMA SetUpRegs ==
    regs_write(regs_write(dev, QUEUE_NUM, NUM), QUEUE_READY, 1) =
        [dev EXCEPT !.queue_num = NUM, !.queue_ready = 1]
<1>1. regs_write(dev, QUEUE_NUM, NUM) = [dev EXCEPT !.queue_num = NUM]
  BY DEF regs_write, QUEUE_NUM, QUEUE_READY, DRIVER_FEATURES, QUEUE_SEL, STATUS
<1>2. \A d : regs_write(d, QUEUE_READY, 1) = [d EXCEPT !.queue_ready = 1]
  BY DEF regs_write, QUEUE_NUM, QUEUE_READY, DRIVER_FEATURES, QUEUE_SEL, STATUS
<1> QED
  BY <1>1, <1>2

LEMMA ResetRegs == regs_write(dev, STATUS, 0) = reset(dev)
BY DEF regs_write, QUEUE_NUM, QUEUE_READY, DRIVER_FEATURES, QUEUE_SEL, STATUS

LEMMA AckRegs ==
    regs_write_bits(dev, INTERRUPT_ACK, {0}) = [dev EXCEPT !.interrupt_status = @ \ {0}]
BY DEF regs_write_bits, QUEUE_DESC_LOW, DRIVER_DESC_LOW, DEVICE_DESC_LOW, INTERRUPT_ACK

LEMMA NewRegs == new_regs \in Regs
<1>1. NoRecord \in [{} -> Index]
  BY DEF NoRecord
<1>2. NoRecord \in UNION {[Q -> Index] : Q \in SUBSET Queues}
  BY <1>1
<1> QED
  BY <1>2 DEF new_regs, Regs
\* What each store to the registers leaves.
LEMMA SetUpFields ==
    ASSUME dev \in Regs
    PROVE  LET d == regs_write(regs_write(dev, QUEUE_NUM, NUM), QUEUE_READY, 1)
           IN  /\ d \in Regs /\ d.queue_num = NUM /\ d.queue_ready = 1
               /\ d.interrupt_status = dev.interrupt_status
               /\ d.last_avail_idx = dev.last_avail_idx
<1>1. NUM \in Nat
  BY Widths
<1> QED
  BY <1>1, SetUpRegs DEF Regs

LEMMA ResetFields ==
    ASSUME dev \in Regs
    PROVE  LET d == regs_write(dev, STATUS, 0)
           IN  /\ d \in Regs /\ d.queue_ready = 0
               /\ d.interrupt_status = dev.interrupt_status
               /\ DOMAIN d.last_avail_idx = {}
<1>1. NoRecord \in UNION {[Q -> Index] : Q \in SUBSET Queues} /\ DOMAIN NoRecord = {}
  <2>1. NoRecord \in [{} -> Index] /\ DOMAIN NoRecord = {}
    BY DEF NoRecord
  <2> QED
    BY <2>1
<1>2. /\ reset(dev).queue_ready = 0
      /\ reset(dev).interrupt_status = dev.interrupt_status
      /\ reset(dev).last_avail_idx = NoRecord
  BY DEF reset, Regs
<1>3. reset(dev) \in Regs
  BY <1>1 DEF reset, Regs
<1> QED
  BY <1>1, <1>2, <1>3, ResetRegs

LEMMA AckFields ==
    ASSUME dev \in Regs
    PROVE  LET d == regs_write_bits(dev, INTERRUPT_ACK, {0})
           IN  /\ d \in Regs /\ d.queue_ready = dev.queue_ready /\ d.queue_num = dev.queue_num
               /\ d.last_avail_idx = dev.last_avail_idx
BY AckRegs DEF Regs

LEMMA ServedFields ==
    ASSUME dev \in Regs, queue \in Queues, last \in Index
    PROVE  LET d == [dev EXCEPT !.last_avail_idx = insert(@, queue, last),
                                !.interrupt_status = @ \cup {0}]
           IN  /\ d \in Regs /\ d.queue_ready = dev.queue_ready /\ d.queue_num = dev.queue_num
               /\ d.interrupt_status = {0}
               /\ DOMAIN d.last_avail_idx = DOMAIN dev.last_avail_idx \cup {queue}
               /\ d.last_avail_idx[queue] = last
<1> DEFINE rec == insert(dev.last_avail_idx, queue, last)
<1>1. PICK Q \in SUBSET Queues : dev.last_avail_idx \in [Q -> Index]
  BY DEF Regs
<1>2. rec \in [Q \cup {queue} -> Index] /\ DOMAIN dev.last_avail_idx = Q /\ rec[queue] = last
  BY <1>1 DEF insert
<1>3. rec \in UNION {[P -> Index] : P \in SUBSET Queues}
  BY <1>1, <1>2
<1>4. dev.interrupt_status \cup {0} = {0}
  BY DEF Regs
<1> HIDE DEF rec
<1> QED
  BY <1>2, <1>3, <1>4 DEF Regs, rec

-----------------------------------------------------------------------------
(* What the actions do to the two queues. *)

LEMMA RingTypes ==
    ASSUME TypeOK
    PROVE  /\ avail.ring \in [Slot -> Entry] /\ avail.idx \in Index
           /\ used.ring \in [Slot -> Entry] /\ used.idx \in Index
           /\ drv.used_idx \in Index
BY DEF TypeOK, Rings

\* The device looks next where the used index is.
LEMMA PositionIsUsed ==
    ASSUME OneQueue, Inv
    PROVE  /\ position = used.idx /\ TodoHeads = Pending
           /\ last = None => \A q \in Queues : first(q) = used.idx
<1>1. \A q \in DOMAIN dev.last_avail_idx : last = None => dev.last_avail_idx[q] = used.idx
  BY DEF Inv, Synchronised
<1>2. last = None => \A q \in Queues : first(q) = used.idx
  BY <1>1 DEF first
<1>3. position = used.idx
  BY <1>2 DEF position, OneQueue, Inv, Synchronised
<1> QED
  BY <1>2, <1>3 DEF TodoHeads, Pending, OneQueue

LEMMA QueueSeqs ==
    ASSUME TypeOK
    PROVE  /\ Len(Pending) = Gap(used.idx, avail.idx)
           /\ Len(DoneHeads) = Gap(drv.used_idx, used.idx)
           /\ Pending = <<>> <=> used.idx = avail.idx
           /\ DoneHeads = <<>> <=> drv.used_idx = used.idx
<1>1. /\ avail.ring \in [Slot -> Entry] /\ avail.idx \in Index
      /\ used.ring \in [Slot -> Entry] /\ used.idx \in Index
      /\ drv.used_idx \in Index
  BY RingTypes
<1>2. Len(Pending) = Gap(used.idx, avail.idx)
  BY <1>1, BetweenSeq DEF Pending
<1>3. Len(DoneHeads) = Gap(drv.used_idx, used.idx)
  BY <1>1, BetweenSeq DEF DoneHeads
<1>4. Pending = <<>> <=> used.idx = avail.idx
  BY <1>1, BetweenEmpty DEF Pending
<1>5. DoneHeads = <<>> <=> drv.used_idx = used.idx
  BY <1>1, BetweenEmpty DEF DoneHeads
<1> QED
  BY <1>2, <1>3, <1>4, <1>5

LEMMA SubmitQueues ==
    ASSUME Inv, NEW h \in Heads, NEW r \in Requests, Submit(h, r)
    PROVE  /\ avail' \in Rings /\ h \in drv.free
           /\ Pending' = Append(Pending, h) /\ DoneHeads' = DoneHeads
<1> DEFINE ring2 == Put(avail.ring, avail.idx, h)
<1>1. /\ avail.ring \in [Slot -> Entry] /\ avail.idx \in Index /\ used.idx \in Index
  BY RingTypes DEF Inv
<1>2. h \in drv.free /\ UNCHANGED <<used, dev>> /\ drv' = [drv EXCEPT !.free = @ \ {h}]
  BY DEF Submit
<1>3. avail' = [idx |-> After(avail.idx), ring |-> ring2]
  BY DEF Submit, After, Put, slot
<1>4. Gap(used.idx, avail.idx) < NUM
  <2>1. Len(Pending) + Len(DoneHeads) < NUM /\ Len(Pending) \in Nat /\ Len(DoneHeads) \in Nat
    BY <1>2, ConservedLengths DEF Inv
  <2> QED
    BY <2>1, Widths, QueueSeqs DEF Inv
<1>5. /\ ring2 \in [Slot -> Entry]
      /\ Between(ring2, used.idx, After(avail.idx)) = Append(Pending, h)
  <2>1. h \in Entry
    BY DEF Entry
  <2> QED
    BY <1>1, <1>4, <2>1, BetweenAppend DEF Pending
<1>6. After(avail.idx) \in Index
  BY <1>1, Distance
<1> HIDE DEF ring2
<1>7. avail' \in Rings
  BY <1>3, <1>5, <1>6 DEF Rings
<1>8. Pending' = Append(Pending, h)
  BY <1>2, <1>3, <1>5 DEF Pending
<1>9. DoneHeads' = DoneHeads
  BY <1>2 DEF DoneHeads, Inv, TypeOK
<1> QED
  BY <1>2, <1>7, <1>8, <1>9

\* The head that a turn of process_queue's loop looks at.
CurrentHead == avail.ring[last % dev.queue_num]

LEMMA ServeHead ==
    ASSUME Inv, ServeOne
    PROVE  /\ Pending # <<>> /\ CurrentHead = Head(Pending) /\ CurrentHead \in Heads
           /\ last = used.idx /\ last \in Index /\ dev.queue_num = NUM
<1>1. last # None /\ last # avail.idx
  BY DEF ServeOne
<1>2. last = used.idx /\ dev.queue_ready = 1 /\ dev.queue_num = NUM
  BY <1>1 DEF Inv, Synchronised, Quiet
<1>3. /\ avail.ring \in [Slot -> Entry] /\ avail.idx \in Index /\ used.idx \in Index
  BY RingTypes DEF Inv
<1>4. Pending # <<>> /\ Head(Pending) = avail.ring[slot(used.idx)]
  BY <1>1, <1>2, <1>3, BetweenTail DEF Pending
<1>5. Head(Pending) \in Heads
  BY <1>4 DEF Inv, Conserved
<1> QED
  BY <1>2, <1>3, <1>4, <1>5 DEF CurrentHead, slot

LEMMA ServeQueues ==
    ASSUME Inv, ServeOne, ~faults(req[CurrentHead])
    PROVE  /\ used' \in Rings /\ last' \in Index /\ last' = used'.idx
           /\ Pending' = Tail(Pending) /\ DoneHeads' = Append(DoneHeads, Head(Pending))
<1> DEFINE ring2 == Put(used.ring, used.idx, CurrentHead)
<1>1. /\ avail.ring \in [Slot -> Entry] /\ avail.idx \in Index
      /\ used.ring \in [Slot -> Entry] /\ used.idx \in Index /\ drv.used_idx \in Index
  BY RingTypes DEF Inv
<1>2. /\ Pending # <<>> /\ CurrentHead = Head(Pending) /\ CurrentHead \in Heads
      /\ last = used.idx /\ dev.queue_num = NUM
  BY ServeHead
<1>3. UNCHANGED <<avail, drv>> /\ used' = push(used, CurrentHead) /\ last' = (last + 1) % IDX
  BY DEF ServeOne, CurrentHead
<1>4. used' = [idx |-> After(used.idx), ring |-> ring2] /\ last' = After(used.idx)
  BY <1>2, <1>3 DEF push, After, Put, slot
<1>5. Gap(drv.used_idx, used.idx) < NUM
  <2>1. /\ Len(Pending) + Len(DoneHeads) <= NUM /\ Len(Pending) \in Nat /\ Len(DoneHeads) \in Nat
    BY ConservedLengths DEF Inv
  <2>2. Len(Pending) # 0
    BY <1>2, EmptySeq DEF Inv, Conserved
  <2> QED
    BY <2>1, <2>2, Widths, QueueSeqs DEF Inv
<1>6. /\ ring2 \in [Slot -> Entry]
      /\ Between(ring2, drv.used_idx, After(used.idx)) = Append(DoneHeads, CurrentHead)
  <2>1. CurrentHead \in Entry
    BY <1>2 DEF Entry
  <2> QED
    BY <1>1, <1>5, <2>1, BetweenAppend DEF DoneHeads
<1>7. After(used.idx) \in Index
  BY <1>1, Distance
<1>8. Between(avail.ring, After(used.idx), avail.idx) = Tail(Pending)
  <2>1. used.idx # avail.idx
    BY <1>2 DEF ServeOne
  <2> QED
    BY <1>1, <2>1, BetweenTail DEF Pending
<1> HIDE DEF ring2
<1>9. used' \in Rings
  BY <1>4, <1>6, <1>7 DEF Rings
<1>10. Pending' = Tail(Pending)
  BY <1>3, <1>4, <1>8 DEF Pending
<1>11. DoneHeads' = Append(DoneHeads, Head(Pending))
  BY <1>2, <1>3, <1>4, <1>6 DEF DoneHeads
<1> QED
  BY <1>4, <1>7, <1>9, <1>10, <1>11

LEMMA ReapQueues ==
    ASSUME Inv, Reap, drv.used_idx # used.idx
    PROVE  /\ DoneHeads # <<>> /\ DoneHeads' = Tail(DoneHeads) /\ Pending' = Pending
           /\ drv' = [drv EXCEPT !.used_idx = After(@), !.free = @ \cup {Head(DoneHeads)}]
           /\ After(drv.used_idx) \in Index
<1>1. /\ used.ring \in [Slot -> Entry] /\ used.idx \in Index /\ drv.used_idx \in Index
  BY RingTypes DEF Inv
<1>2. /\ UNCHANGED <<used, avail>>
      /\ drv' = [drv EXCEPT !.used_idx = After(@), !.free = @ \cup {used.ring[slot(drv.used_idx)]}]
  BY DEF Reap, After, slot
<1>3. /\ DoneHeads # <<>> /\ Head(DoneHeads) = used.ring[slot(drv.used_idx)]
      /\ Between(used.ring, After(drv.used_idx), used.idx) = Tail(DoneHeads)
  BY <1>1, BetweenTail DEF DoneHeads
<1>4. drv'.used_idx = After(drv.used_idx)
  BY <1>2 DEF Inv, TypeOK
<1>5. DoneHeads' = Tail(DoneHeads) /\ Pending' = Pending
  BY <1>2, <1>3, <1>4 DEF DoneHeads, Pending
<1>6. After(drv.used_idx) \in Index
  BY <1>1, Distance
<1> QED
  BY <1>2, <1>3, <1>5, <1>6

-----------------------------------------------------------------------------
(* What a request does to the disk and to guest memory. *)

IsDisk(d) == d \in [DOMAIN d -> Values]

LEMMA Resized ==
    ASSUME NEW d, IsDisk(d), NEW s \in Sectors
    PROVE  /\ IsDisk(resized(d, s)) /\ s \in DOMAIN resized(d, s)
           /\ resized(d, s)[s] = blocks(d)[s]
           /\ blocks(resized(d, s)) = blocks(d)
           /\ blocks(d) \in [Sectors -> Values]
<1> DEFINE e == resized(d, s)
<1>1. s \in 0 .. s /\ Sectors \subseteq Nat /\ 0 \in Values
  BY RequestAssumption
<1>2. DOMAIN e = DOMAIN d \cup 0 .. s /\ e = [i \in DOMAIN e |-> IF i \in DOMAIN d THEN d[i] ELSE 0]
  BY DEF resized
<1>3. \A i \in DOMAIN d : d[i] \in Values
  BY DEF IsDisk
<1> HIDE DEF e
<1>4. IsDisk(e)
  BY <1>1, <1>2, <1>3 DEF IsDisk
<1>5. \A i \in Sectors : (IF i \in DOMAIN e THEN e[i] ELSE 0) = IF i \in DOMAIN d THEN d[i] ELSE 0
  BY <1>2
<1>6. blocks(e) = blocks(d)
  BY <1>5 DEF blocks
<1>7. e[s] = blocks(d)[s]
  BY <1>1, <1>2 DEF blocks
<1>8. blocks(d) \in [Sectors -> Values]
  BY <1>1, <1>3 DEF blocks
<1> QED
  BY <1>1, <1>2, <1>4, <1>6, <1>7, <1>8 DEF e

LEMMA Stored ==
    ASSUME NEW d, IsDisk(d), NEW s \in Sectors, NEW v \in Values
    PROVE  LET e == [resized(d, s) EXCEPT ![s] = v]
           IN  IsDisk(e) /\ blocks(e) = [blocks(d) EXCEPT ![s] = v]
<1> DEFINE c == resized(d, s)
           e == [c EXCEPT ![s] = v]
<1>1. IsDisk(c) /\ s \in DOMAIN c /\ blocks(c) = blocks(d)
  BY Resized
<1> HIDE DEF c
<1>2. IsDisk(e)
  BY <1>1 DEF IsDisk
<1>3. blocks(e) = [blocks(c) EXCEPT ![s] = v]
  BY <1>1 DEF blocks, IsDisk
<1> QED
  BY <1>1, <1>2, <1>3 DEF c

\* The request as the abstract disk sees it, once it has been carried out.
LEMMA DiskAfter ==
    ASSUME NEW d, IsDisk(d), NEW r \in Request
    PROVE  /\ IsDisk(disk_after(d, r))
           /\ blocks(disk_after(d, r)) \in {blocks(d), Abs!Effect(blocks(d), operation(r))}
           /\ ~faults(r) => blocks(disk_after(d, r)) = Abs!Effect(blocks(d), operation(r))
<1> DEFINE w == well_formed(r)
           o == operation(r)
           e == disk_after(d, r)
<1>1. r.sector \in Sectors /\ r.data \in Values /\ r.type \in {"in", "out", "other"}
  BY DEF Request
<1>2. CASE ~w
  <2>1. e = d /\ o = [op |-> "malformed"]
    BY <1>2 DEF disk_after, operation
  <2>2. o.op # "write"
    BY <2>1
  <2> QED
    BY <2>1, <2>2 DEF Abs!Effect
<1>3. CASE w /\ r.type = "in"
  <2>1. e = resized(d, r.sector) /\ o = [op |-> "read", sector |-> r.sector]
    BY <1>3 DEF disk_after, operation
  <2>2. o.op # "write"
    BY <2>1
  <2> QED
    BY <1>1, <2>1, <2>2, Resized DEF Abs!Effect
<1>4. CASE w /\ r.type = "out" /\ r.unmapped # "data"
  <2>1. /\ e = [resized(d, r.sector) EXCEPT ![r.sector] = r.data]
        /\ o = [op |-> "write", sector |-> r.sector, data |-> r.data]
    BY <1>4 DEF disk_after, operation
  <2>2. o.op = "write" /\ o.sector = r.sector /\ o.data = r.data
    BY <2>1
  <2>3. Abs!Effect(blocks(d), o) = [blocks(d) EXCEPT ![r.sector] = r.data]
    BY <2>2 DEF Abs!Effect
  <2> QED
    BY <1>1, <2>1, <2>3, Stored
<1>5. CASE w /\ r.type = "out" /\ r.unmapped = "data"
  <2>1. e = d /\ faults(r)
    BY <1>5 DEF disk_after, faults
  <2> QED
    BY <2>1
<1>6. CASE w /\ r.type = "other"
  <2>1. e = d /\ o = [op |-> "none"]
    BY <1>6 DEF disk_after, operation
  <2>2. o.op # "write"
    BY <2>1
  <2> QED
    BY <2>1, <2>2 DEF Abs!Effect
<1> QED
  BY <1>1, <1>2, <1>3, <1>4, <1>5, <1>6

LEMMA AnswerFields ==
    ASSUME NEW d, IsDisk(d), NEW r \in Request
    PROVE  LET a == answer(d, r)
           IN  /\ a \in Request /\ a.next = r.next /\ a.type = r.type /\ a.sector = r.sector
               /\ a.status = IF well_formed(r) /\ ~faults(r) THEN OK ELSE r.status
               /\ a.data = IF well_formed(r) /\ r.type = "in" /\ r.unmapped # "data"
                           THEN blocks(d)[r.sector] ELSE r.data
<1>1. r.sector \in Sectors /\ r.data \in Values
  BY DEF Request
<1>2. resized(d, r.sector)[r.sector] = blocks(d)[r.sector] /\ blocks(d)[r.sector] \in Values
  BY <1>1, Resized
<1>3. CASE ~well_formed(r)
  BY <1>3 DEF answer
<1>4. CASE well_formed(r)
  <2> DEFINE st == IF faults(r) THEN r.status ELSE OK
             da == IF r.type = "in" /\ r.unmapped # "data" THEN blocks(d)[r.sector] ELSE r.data
  <2>1. answer(d, r) = [r EXCEPT !.status = st, !.data = da]
    BY <1>2, <1>4 DEF answer
  <2>2. st \in {OK, 255} /\ da \in Values
    BY <1>1, <1>2 DEF Request, OK
  <2>3. (IF well_formed(r) /\ ~faults(r) THEN OK ELSE r.status) = st
    BY <1>4
  <2>4. (IF well_formed(r) /\ r.type = "in" /\ r.unmapped # "data"
                           THEN blocks(d)[r.sector] ELSE r.data) = da
    BY <1>4
  <2> HIDE DEF st, da
  <2>5. /\ [r EXCEPT !.status = st, !.data = da] \in Request
        /\ [r EXCEPT !.status = st, !.data = da].next = r.next
        /\ [r EXCEPT !.status = st, !.data = da].type = r.type
        /\ [r EXCEPT !.status = st, !.data = da].sector = r.sector
        /\ [r EXCEPT !.status = st, !.data = da].status = st
        /\ [r EXCEPT !.status = st, !.data = da].data = da
    BY <2>2 DEF Request
  <2> QED
    BY <2>1, <2>3, <2>4, <2>5
<1> QED
  BY <1>3, <1>4

-----------------------------------------------------------------------------
(* The invariant is inductive. *)

LEMMA InvInit == Init => Inv
<1> SUFFICES ASSUME Init PROVE Inv
  OBVIOUS
<1> USE DEF Init
<1>1. Start \in Index /\ NUM \in Nat \ {0} /\ IDX \in Nat
  BY RingAssumption DEF Index
<1>2. Ring(Start) \in Rings
  BY <1>1 DEF Ring, Rings, Entry, Slot
<1>3. \E s \in Sectors : TRUE
  BY RequestAssumption
<1>4. (CHOOSE s \in Sectors : TRUE) \in Sectors /\ (CHOOSE v \in Values : TRUE) \in Values
  BY <1>3, RequestAssumption
<1>5. Blank \in Request
  BY <1>4 DEF Blank, Request, OK, END
<1>6. TypeOK
  <2>1. disk \in [DOMAIN disk -> Values]
    BY <1>4
  <2>2. drv \in [free : SUBSET Heads, used_idx : Index, handler : {"idle", "reap"}]
    BY <1>1
  <2> QED
    BY <1>2, <1>5, <2>1, <2>2, NewRegs DEF TypeOK, None
<1>7. used.idx = Start /\ avail.idx = Start /\ drv.used_idx = Start /\ drv.free = Heads
  BY DEF Ring
<1>8. dev.queue_ready = 0 /\ DOMAIN dev.last_avail_idx = {}
  BY DEF new_regs, NoRecord
<1>9. Pending = <<>> /\ DoneHeads = <<>>
  BY <1>6, <1>7, QueueSeqs
<1>10. Conserved(Pending, DoneHeads, drv.free)
  <2>1. Cardinality(Heads) \in Nat
    BY FreeIsFinite
  <2>2. <<>> \in Seq(Heads)
    OBVIOUS
  <2> QED
    BY <1>7, <1>9, <2>1, <2>2, EmptyElems DEF Conserved
<1>11. Untouched
  BY <1>9, EmptyElems DEF Untouched
<1>12. Synchronised /\ Quiet
  BY <1>7, <1>8 DEF Synchronised, Quiet
<1>13. NoLostCompletion
  BY <1>7 DEF NoLostCompletion
<1> QED
  BY <1>6, <1>10, <1>11, <1>12, <1>13 DEF Inv

\* The variables that the queues and the waiting requests depend on.
LEMMA SameQueues ==
    ASSUME Inv, UNCHANGED <<avail, used>>, drv'.used_idx = drv.used_idx
    PROVE  Pending' = Pending /\ DoneHeads' = DoneHeads
BY DEF Pending, DoneHeads

LEMMA NotifyInv == ASSUME OneQueue, Inv, NEW q \in Queues, Notify(q) PROVE Inv'
<1>1. /\ last = None /\ last' = used.idx /\ queue' \in Queues /\ used.idx # None
      /\ dev.queue_ready # 0 /\ used.idx \in Index
      /\ UNCHANGED <<dev, disk, avail, used, req, drv, running>>
  <2>1. used.idx \in Index /\ used.idx # None
    BY RingTypes, Widths DEF Inv, Index, None
  <2> QED
    BY <2>1, PositionIsUsed DEF Notify, Idle
<1>2. Pending' = Pending /\ DoneHeads' = DoneHeads
  BY <1>1, SameQueues
<1>3. TypeOK'
  BY <1>1 DEF Inv, TypeOK
<1>4. Synchronised' /\ Quiet'
  BY <1>1 DEF Inv, TypeOK, Regs, Synchronised, Quiet
<1>5. Untouched' /\ Conserved(Pending, DoneHeads, drv.free)'
  BY <1>1, <1>2 DEF Inv, Untouched
<1>6. NoLostCompletion'
  BY <1>1 DEF NoLostCompletion, Idle
<1> QED
  BY <1>3, <1>4, <1>5, <1>6 DEF Inv

LEMMA ServeInv == ASSUME Inv, ServeOne PROVE Inv'
<1> DEFINE r == req[CurrentHead]
<1>1. /\ Pending # <<>> /\ CurrentHead = Head(Pending) /\ CurrentHead \in Heads
      /\ last = used.idx /\ last \in Index /\ dev.queue_num = NUM
  BY ServeHead
<1>2. /\ disk' = disk_after(disk, r) /\ req' = [req EXCEPT ![CurrentHead] = answer(disk, r)]
      /\ running' = ~faults(r) /\ UNCHANGED <<dev, avail, drv, queue>>
      /\ faults(r) => UNCHANGED <<used, last>>
      /\ last # None
  BY DEF ServeOne, CurrentHead
<1>3. r \in Request /\ IsDisk(disk) /\ req \in [Heads -> Request]
  BY <1>1 DEF Inv, TypeOK, IsDisk
<1>4. IsDisk(disk') /\ answer(disk, r) \in Request
  BY <1>2, <1>3, DiskAfter, AnswerFields
<1>5. req' \in [Heads -> Request] /\ \A h \in Heads \ {CurrentHead} : req'[h] = req[h]
  BY <1>2, <1>3, <1>4
<1> HIDE DEF r
<1>6. CASE faults(r)
  <2>1. UNCHANGED <<used, last>> /\ running' = FALSE
    BY <1>2, <1>6
  <2>2. Pending' = Pending /\ DoneHeads' = DoneHeads
    BY <1>2, <2>1, SameQueues
  <2>3. TypeOK'
    BY <1>2, <1>4, <1>5, <2>1 DEF Inv, TypeOK, IsDisk
  <2>4. Synchronised' /\ Quiet'
    BY <1>2, <2>1 DEF Inv, Synchronised, Quiet
  <2>5. Conserved(Pending, DoneHeads, drv.free)'
    BY <1>2, <2>2 DEF Inv
  <2>6. req'[CurrentHead].status = r.status
    BY <1>1, <1>2, <1>3, <1>6, AnswerFields
  <2>7. Elems(Pending) \subseteq Heads
    BY DEF Inv, Conserved, Elems
  <2>8. Untouched'
    BY <1>1, <1>5, <2>2, <2>6, <2>7 DEF Inv, Untouched, r
  <2>9. NoLostCompletion'
    BY <2>1 DEF NoLostCompletion, Idle
  <2> QED
    BY <2>3, <2>4, <2>5, <2>8, <2>9 DEF Inv
<1>7. CASE ~faults(r)
  <2>1. /\ used' \in Rings /\ last' \in Index /\ last' = used'.idx
        /\ Pending' = Tail(Pending) /\ DoneHeads' = Append(DoneHeads, Head(Pending))
    BY <1>7, ServeQueues DEF r
  <2>2. TypeOK'
    BY <1>2, <1>4, <1>5, <2>1 DEF Inv, TypeOK, IsDisk
  <2>3. last' # None
    BY <2>1, Widths DEF Index, None
  <2>4. Synchronised' /\ Quiet'
    BY <1>1, <1>2, <2>1, <2>3 DEF Inv, TypeOK, Regs, Synchronised, Quiet
  <2>5. Conserved(Pending, DoneHeads, drv.free)'
    BY <1>1, <1>2, <2>1, ConservedServe DEF Inv
  <2>6. Elems(Tail(Pending)) = Elems(Pending) \ {CurrentHead} /\ Elems(Pending) \subseteq Heads
    <3>1. Pending \in Seq(Heads) /\ Distinct(Pending)
      BY DEF Inv, Conserved
    <3>2. Elems(Pending) \subseteq Heads
      BY <3>1 DEF Elems
    <3> QED
      BY <1>1, <3>1, <3>2, TailElems
  <2>7. Untouched'
    BY <1>5, <2>1, <2>6 DEF Inv, Untouched
  <2>8. NoLostCompletion'
    BY <2>3 DEF NoLostCompletion, Idle
  <2> QED
    BY <2>2, <2>4, <2>5, <2>7, <2>8 DEF Inv
<1> QED
  BY <1>6, <1>7

LEMMA ServedInv == ASSUME OneQueue, Inv, Served PROVE Inv'
<1>1. /\ last # None /\ last = used.idx /\ last \in Index /\ last' = None
      /\ UNCHANGED <<disk, avail, used, req, drv, queue, running>>
  BY RingTypes, Widths DEF Served, Inv, Synchronised, Index, None
<1>2. /\ dev' \in Regs /\ dev'.queue_ready = dev.queue_ready /\ dev'.queue_num = dev.queue_num
      /\ dev'.interrupt_status = {0}
      /\ DOMAIN dev'.last_avail_idx = DOMAIN dev.last_avail_idx \cup {queue}
      /\ dev'.last_avail_idx[queue] = last
  BY <1>1, ServedFields DEF Served, Inv, TypeOK
<1>3. DOMAIN dev.last_avail_idx \subseteq {0} /\ queue = 0
  BY DEF OneQueue, Inv, TypeOK, Regs
<1>4. Pending' = Pending /\ DoneHeads' = DoneHeads
  BY <1>1, SameQueues
<1>5. TypeOK'
  BY <1>1, <1>2 DEF Inv, TypeOK
<1>6. Synchronised'
  BY <1>1, <1>2, <1>3 DEF Synchronised
<1>7. Quiet'
  BY <1>1, <1>2 DEF Inv, Quiet
<1>8. Untouched' /\ Conserved(Pending, DoneHeads, drv.free)'
  BY <1>1, <1>4 DEF Inv, Untouched
<1>9. NoLostCompletion'
  BY <1>2 DEF NoLostCompletion
<1> QED
  BY <1>5, <1>6, <1>7, <1>8, <1>9 DEF Inv

LEMMA SetUpInv == ASSUME Inv, NEW clear \in BOOLEAN, SetUp(clear) PROVE Inv'
<1>1. /\ last = None /\ dev.queue_ready = 0
      /\ UNCHANGED <<disk, req, queue, last, running>>
      /\ used.idx = avail.idx /\ used.idx = drv.used_idx /\ DOMAIN dev.last_avail_idx = {}
  BY DEF SetUp, Idle, Inv, Quiet
<1>2. /\ dev' \in Regs /\ dev'.queue_num = NUM /\ dev'.queue_ready = 1
      /\ dev'.interrupt_status = dev.interrupt_status
      /\ dev'.last_avail_idx = dev.last_avail_idx
  BY SetUpFields DEF SetUp, Inv, TypeOK
<1>3. 0 \in Index /\ Ring(0) \in Rings
  BY Widths DEF Ring, Rings, Index, Entry, Slot
<1>4. /\ avail' \in Rings /\ used' \in Rings
      /\ drv' \in [free : SUBSET Heads, used_idx : Index, handler : {"idle", "reap"}]
      /\ used'.idx = avail'.idx /\ used'.idx = drv'.used_idx
      /\ drv'.free = drv.free /\ drv'.handler = drv.handler
  <2>1. CASE clear
    BY <1>3, <2>1 DEF SetUp, Ring, Inv, TypeOK
  <2>2. CASE ~clear
    BY <1>1, <2>2 DEF SetUp, Inv, TypeOK
  <2> QED
    BY <2>1, <2>2
<1>5. TypeOK'
  BY <1>1, <1>2, <1>4 DEF Inv, TypeOK
<1>6. Pending = <<>> /\ DoneHeads = <<>> /\ Pending' = <<>> /\ DoneHeads' = <<>>
  <2>1. Pending = <<>> /\ DoneHeads = <<>>
    BY <1>1, QueueSeqs DEF Inv
  <2>2. Pending' = <<>> /\ DoneHeads' = <<>>
    <3>1. /\ avail'.ring \in [Slot -> Entry] /\ avail'.idx \in Index
          /\ used'.ring \in [Slot -> Entry] /\ used'.idx \in Index /\ drv'.used_idx \in Index
      BY <1>4 DEF Rings
    <3> QED
      BY <1>4, <3>1, BetweenEmpty DEF Pending, DoneHeads
  <2> QED
    BY <2>1, <2>2
<1>7. Synchronised' /\ Quiet'
  BY <1>1, <1>2 DEF Synchronised, Quiet
<1>8. Conserved(Pending, DoneHeads, drv.free)'
  BY <1>4, <1>6 DEF Inv
<1>9. Untouched'
  BY <1>6, EmptyElems DEF Untouched
<1>10. NoLostCompletion'
  BY <1>4 DEF NoLostCompletion
<1> QED
  BY <1>5, <1>7, <1>8, <1>9, <1>10 DEF Inv

LEMMA ResetInv == ASSUME Inv, Reset PROVE Inv'
<1>1. /\ last = None /\ drv.free = Heads
      /\ UNCHANGED <<disk, avail, used, req, drv, queue, last, running>>
  BY DEF Reset, Idle
<1>2. /\ dev' \in Regs /\ dev'.queue_ready = 0 /\ dev'.interrupt_status = dev.interrupt_status
      /\ DOMAIN dev'.last_avail_idx = {}
  BY ResetFields DEF Reset, Inv, TypeOK
<1>3. Pending' = Pending /\ DoneHeads' = DoneHeads
  BY <1>1, SameQueues
<1>4. Pending = <<>> /\ DoneHeads = <<>>
  BY <1>1, ConservedLengths DEF Inv
<1>5. used.idx = avail.idx /\ used.idx = drv.used_idx
  BY <1>4, QueueSeqs DEF Inv
<1>6. TypeOK'
  BY <1>1, <1>2 DEF Inv, TypeOK
<1>7. Synchronised' /\ Quiet'
  BY <1>1, <1>2, <1>5 DEF Synchronised, Quiet
<1>8. Untouched' /\ Conserved(Pending, DoneHeads, drv.free)'
  BY <1>1, <1>3 DEF Inv, Untouched
<1>9. NoLostCompletion'
  BY <1>1, <1>5 DEF NoLostCompletion
<1> QED
  BY <1>6, <1>7, <1>8, <1>9 DEF Inv

LEMMA SubmitInv ==
    ASSUME Inv, NEW h \in Heads, NEW r \in Requests, Submit(h, r)
    PROVE  Inv'
<1>1. /\ avail' \in Rings /\ h \in drv.free
      /\ Pending' = Append(Pending, h) /\ DoneHeads' = DoneHeads
  BY SubmitQueues
<1>2. /\ dev.queue_ready = 1 /\ last = None
      /\ req' = [req EXCEPT ![h] = r] /\ drv' = [drv EXCEPT !.free = @ \ {h}]
      /\ UNCHANGED <<dev, disk, used, queue, last, running>>
  BY DEF Submit, Idle
<1>3. r \in Request /\ r.status = 255
  BY RequestAssumption
<1>4. /\ drv' \in [free : SUBSET Heads, used_idx : Index, handler : {"idle", "reap"}]
      /\ drv'.free = drv.free \ {h} /\ drv'.used_idx = drv.used_idx /\ drv'.handler = drv.handler
  BY <1>2 DEF Inv, TypeOK
<1>5. req' \in [Heads -> Request] /\ req'[h] = r /\ \A g \in Heads \ {h} : req'[g] = req[g]
  BY <1>2, <1>3 DEF Inv, TypeOK
<1>6. TypeOK'
  BY <1>1, <1>2, <1>4, <1>5 DEF Inv, TypeOK
<1>7. Synchronised' /\ Quiet'
  BY <1>2 DEF Inv, TypeOK, Regs, Synchronised, Quiet
<1>8. Conserved(Pending, DoneHeads, drv.free)'
  BY <1>1, <1>4, ConservedSubmit DEF Inv
<1>9. Untouched'
  <2>1. Pending \in Seq(Heads)
    BY DEF Inv, Conserved
  <2>2. Elems(Append(Pending, h)) = Elems(Pending) \cup {h}
    BY <2>1, AppendElems
  <2>3. Elems(Pending) \subseteq Heads
    BY <2>1 DEF Elems
  <2> QED
    BY <1>1, <1>3, <1>5, <2>2, <2>3 DEF Inv, Untouched
<1>10. NoLostCompletion'
  BY <1>2, <1>4 DEF Inv, NoLostCompletion, Idle
<1> QED
  BY <1>6, <1>7, <1>8, <1>9, <1>10 DEF Inv

LEMMA HandlerEnterInv == ASSUME Inv, HandlerEnter PROVE Inv'
<1>1. /\ drv' = [drv EXCEPT !.handler = "reap"]
      /\ UNCHANGED <<disk, avail, used, req, queue, last, running>>
  BY DEF HandlerEnter
<1>2. /\ dev' \in Regs /\ dev'.queue_ready = dev.queue_ready /\ dev'.queue_num = dev.queue_num
      /\ dev'.last_avail_idx = dev.last_avail_idx
  BY AckFields DEF HandlerEnter, Inv, TypeOK
<1>3. /\ drv' \in [free : SUBSET Heads, used_idx : Index, handler : {"idle", "reap"}]
      /\ drv'.free = drv.free /\ drv'.used_idx = drv.used_idx /\ drv'.handler = "reap"
  BY <1>1 DEF Inv, TypeOK
<1>4. Pending' = Pending /\ DoneHeads' = DoneHeads
  BY <1>1, <1>3, SameQueues
<1>5. TypeOK'
  BY <1>1, <1>2, <1>3 DEF Inv, TypeOK
<1>6. Synchronised' /\ Quiet'
  BY <1>1, <1>2, <1>3 DEF Inv, Synchronised, Quiet
<1>7. Untouched' /\ Conserved(Pending, DoneHeads, drv.free)'
  BY <1>1, <1>3, <1>4 DEF Inv, Untouched
<1>8. NoLostCompletion'
  BY <1>3 DEF NoLostCompletion
<1> QED
  BY <1>5, <1>6, <1>7, <1>8 DEF Inv

LEMMA ReapInv == ASSUME Inv, Reap PROVE Inv'
<1>1. UNCHANGED <<dev, disk, avail, used, req, queue, last, running>> /\ drv.handler = "reap"
  BY DEF Reap
<1>2. CASE drv.used_idx = used.idx
  <2>1. drv' = [drv EXCEPT !.handler = "idle"]
    BY <1>2 DEF Reap
  <2>2. /\ drv' \in [free : SUBSET Heads, used_idx : Index, handler : {"idle", "reap"}]
        /\ drv'.free = drv.free /\ drv'.used_idx = drv.used_idx
    BY <2>1 DEF Inv, TypeOK
  <2>3. Pending' = Pending /\ DoneHeads' = DoneHeads
    BY <1>1, <2>2, SameQueues
  <2>4. TypeOK'
    BY <1>1, <2>2 DEF Inv, TypeOK
  <2>5. Synchronised' /\ Quiet'
    BY <1>1, <2>2 DEF Inv, Synchronised, Quiet
  <2>6. Untouched' /\ Conserved(Pending, DoneHeads, drv.free)'
    BY <1>1, <2>2, <2>3 DEF Inv, Untouched
  <2>7. NoLostCompletion'
    BY <1>1, <1>2, <2>2 DEF NoLostCompletion
  <2> QED
    BY <2>4, <2>5, <2>6, <2>7 DEF Inv
<1>3. CASE drv.used_idx # used.idx
  <2>1. /\ DoneHeads # <<>> /\ DoneHeads' = Tail(DoneHeads) /\ Pending' = Pending
        /\ drv' = [drv EXCEPT !.used_idx = After(@), !.free = @ \cup {Head(DoneHeads)}]
        /\ After(drv.used_idx) \in Index
    BY <1>3, ReapQueues
  <2>2. Head(DoneHeads) \in Heads
    BY <2>1 DEF Inv, Conserved
  <2>3. /\ drv' \in [free : SUBSET Heads, used_idx : Index, handler : {"idle", "reap"}]
        /\ drv'.free = drv.free \cup {Head(DoneHeads)} /\ drv'.handler = drv.handler
    BY <2>1, <2>2 DEF Inv, TypeOK
  <2>4. TypeOK'
    BY <1>1, <2>3 DEF Inv, TypeOK
  <2>5. Synchronised'
    BY <1>1 DEF Inv, Synchronised
  <2>6. Quiet'
    BY <1>1, <1>3 DEF Inv, Quiet
  <2>7. Untouched'
    BY <1>1, <2>1 DEF Inv, Untouched
  <2>8. Conserved(Pending, DoneHeads, drv.free)'
    BY <2>1, <2>3, ConservedReap DEF Inv
  <2>9. NoLostCompletion'
    BY <1>1, <2>3 DEF NoLostCompletion
  <2> QED
    BY <2>4, <2>5, <2>6, <2>7, <2>8, <2>9 DEF Inv
<1> QED
  BY <1>2, <1>3

LEMMA InvStep == ASSUME OneQueue, Inv, [Next]_vars PROVE Inv'
<1>1. CASE UNCHANGED vars
  <2>1. Pending' = Pending /\ DoneHeads' = DoneHeads
    BY <1>1, SameQueues DEF vars
  <2>2. TypeOK' /\ Synchronised' /\ Quiet'
    BY <1>1 DEF Inv, TypeOK, Synchronised, Quiet, vars
  <2>3. Untouched' /\ Conserved(Pending, DoneHeads, drv.free)' /\ NoLostCompletion'
    BY <1>1, <2>1 DEF Inv, Untouched, NoLostCompletion, Idle, vars
  <2> QED
    BY <2>2, <2>3 DEF Inv
<1> QED
  BY <1>1, NotifyInv, ServeInv, ServedInv, SetUpInv, ResetInv, SubmitInv, HandlerEnterInv,
     ReapInv DEF Next

-----------------------------------------------------------------------------
(* The safety theorems. *)

LEMMA Invariance == ASSUME OneQueue PROVE Spec => []Inv
<1>1. Inv /\ [Next]_vars => Inv'
  BY InvStep
<1> QED
  BY <1>1, InvInit, PTL DEF Spec

LEMMA ConservedIsHeads == ASSUME OneQueue, Inv PROVE HeadsAreConserved
<1> DEFINE m == Len(Pending)
           n == Len(DoneHeads)
           h == Pending \o DoneHeads
<1>1. /\ Pending \in Seq(Heads) /\ DoneHeads \in Seq(Heads)
      /\ drv.free = Heads \ (Elems(Pending) \cup Elems(DoneHeads))
      /\ Elems(Pending) \cap Elems(DoneHeads) = {}
      /\ Distinct(Pending) /\ Distinct(DoneHeads)
  BY DEF Inv, Conserved
<1>2. m \in Nat /\ n \in Nat /\ DOMAIN h = 1 .. (m + n)
  BY <1>1
<1>3. /\ \A k \in 1 .. m : h[k] = Pending[k]
      /\ \A k \in 1 .. n : h[m + k] = DoneHeads[k]
  BY <1>1
<1>4. /\ Elems(Pending) = {Pending[k] : k \in 1 .. m}
      /\ Elems(DoneHeads) = {DoneHeads[k] : k \in 1 .. n}
      /\ \A j, k \in 1 .. m : Pending[j] = Pending[k] => j = k
      /\ \A j, k \in 1 .. n : DoneHeads[j] = DoneHeads[k] => j = k
  BY <1>1 DEF Elems, Distinct
<1> HIDE DEF m, n, h
<1>5. \A k \in (m + 1) .. (m + n) : k - m \in 1 .. n /\ h[k] = DoneHeads[k - m]
  BY <1>2, <1>3
<1>6. \A k \in 1 .. (m + n) : k \in 1 .. m \/ k \in (m + 1) .. (m + n)
  BY <1>2
<1>7. {h[k] : k \in DOMAIN h} = Elems(Pending) \cup Elems(DoneHeads)
  <2>1. ASSUME NEW k \in 1 .. (m + n) PROVE h[k] \in Elems(Pending) \cup Elems(DoneHeads)
    BY <1>3, <1>4, <1>5, <1>6
  <2>2. ASSUME NEW k \in 1 .. m PROVE Pending[k] \in {h[i] : i \in 1 .. (m + n)}
    BY <1>2, <1>3
  <2>3. ASSUME NEW k \in 1 .. n PROVE DoneHeads[k] \in {h[i] : i \in 1 .. (m + n)}
    <3>1. m + k \in 1 .. (m + n) /\ h[m + k] = DoneHeads[k]
      BY <1>2, <1>3
    <3> QED
      BY <3>1
  <2>4. {h[k] : k \in 1 .. (m + n)} \subseteq Elems(Pending) \cup Elems(DoneHeads)
    BY <2>1
  <2>5. Elems(Pending) \subseteq {h[k] : k \in 1 .. (m + n)}
    BY <1>4, <2>2
  <2>6. Elems(DoneHeads) \subseteq {h[k] : k \in 1 .. (m + n)}
    BY <1>4, <2>3
  <2> QED
    BY <1>2, <2>4, <2>5, <2>6
<1>8. ASSUME NEW j \in DOMAIN h, NEW k \in DOMAIN h, h[j] = h[k] PROVE j = k
  <2>1. CASE j \in 1 .. m /\ k \in 1 .. m
    BY <1>3, <1>4, <1>8, <2>1
  <2>2. CASE j \in 1 .. m /\ k \in (m + 1) .. (m + n)
    <3>1. h[j] \in Elems(Pending)
      BY <1>3, <1>4, <2>2
    <3>2. h[k] \in Elems(DoneHeads)
      BY <1>4, <1>5, <2>2
    <3> QED
      BY <1>1, <1>8, <3>1, <3>2
  <2>3. CASE k \in 1 .. m /\ j \in (m + 1) .. (m + n)
    <3>1. h[k] \in Elems(Pending)
      BY <1>3, <1>4, <2>3
    <3>2. h[j] \in Elems(DoneHeads)
      BY <1>4, <1>5, <2>3
    <3> QED
      BY <1>1, <1>8, <3>1, <3>2
  <2>4. CASE j \in (m + 1) .. (m + n) /\ k \in (m + 1) .. (m + n)
    <3>1. j - m = k - m
      BY <1>4, <1>5, <1>8, <2>4
    <3> QED
      BY <1>2, <2>4, <3>1
  <2> QED
    BY <1>2, <1>6, <2>1, <2>2, <2>3, <2>4
<1>9. h = TodoHeads \o DoneHeads
  BY PositionIsUsed DEF h
<1> QED
  BY <1>1, <1>7, <1>8, <1>9 DEF HeadsAreConserved

\* Whatever the size of the rings, however the indices wrap and however the driver
\* batches, resets and sets up, process_queue, the rings and the driver never lose
\* a chain of descriptors and never hand one out twice.
THEOREM HeadsConserved == OneQueue => (Spec => []HeadsAreConserved)
<1> SUFFICES ASSUME OneQueue PROVE Spec => []HeadsAreConserved
  OBVIOUS
<1>1. Inv => HeadsAreConserved
  BY ConservedIsHeads
<1> QED
  BY <1>1, Invariance, PTL

\* The interrupt that process_queue raises is never lost to a handler that
\* acknowledges and then reaps: what it has not reaped keeps the line up or the
\* handler awake.
THEOREM CompletionNoticed == OneQueue => (Spec => []NoLostCompletion)
<1> SUFFICES ASSUME OneQueue PROVE Spec => []NoLostCompletion
  OBVIOUS
<1>1. Inv => NoLostCompletion
  BY DEF Inv
<1> QED
  BY <1>1, Invariance, PTL

-----------------------------------------------------------------------------
(* The refinement. *)

\* A queue of heads, each replaced by what a function gives for it.
Map(s, f) == [k \in 1 .. Len(s) |-> f[s[k]]]
Image(f)  == {f[x] : x \in Heads}

LEMMA MapSeq ==
    ASSUME NEW s \in Seq(Heads), NEW f
    PROVE  /\ Map(s, f) \in Seq(Image(f)) /\ Len(Map(s, f)) = Len(s)
           /\ \A k \in 1 .. Len(s) : Map(s, f)[k] = f[s[k]]
           /\ DOMAIN s = 1 .. Len(s)
<1>1. Len(s) \in Nat /\ DOMAIN s = 1 .. Len(s) /\ \A k \in 1 .. Len(s) : s[k] \in Heads
  OBVIOUS
<1>2. Map(s, f) \in [1 .. Len(s) -> Image(f)]
  BY <1>1 DEF Map, Image
<1> QED
  BY <1>1, <1>2 DEF Map

LEMMA MapSame ==
    ASSUME NEW s \in Seq(Heads), NEW f, NEW g, \A x \in Elems(s) : g[x] = f[x]
    PROVE  Map(s, g) = Map(s, f)
<1>1. \A k \in 1 .. Len(s) : s[k] \in Elems(s)
  BY DEF Elems
<1>2. \A k \in 1 .. Len(s) : g[s[k]] = f[s[k]]
  BY <1>1
<1> QED
  BY <1>2 DEF Map

LEMMA MapAppend ==
    ASSUME NEW s \in Seq(Heads), NEW x \in Heads, NEW f
    PROVE  Map(Append(s, x), f) = Append(Map(s, f), f[x])
<1> DEFINE n == Len(s)
           t == Append(s, x)
<1>1. /\ n \in Nat /\ t \in Seq(Heads) /\ Len(t) = n + 1 /\ t[n + 1] = x
      /\ \A k \in 1 .. n : t[k] = s[k]
  OBVIOUS
<1>2. /\ Map(s, f) \in Seq(Image(f)) /\ Len(Map(s, f)) = n
      /\ \A k \in 1 .. n : Map(s, f)[k] = f[s[k]]
  BY MapSeq
<1> HIDE DEF n, t
<1>3. /\ Map(t, f) \in Seq(Image(f)) /\ Len(Map(t, f)) = n + 1
      /\ \A k \in 1 .. (n + 1) : Map(t, f)[k] = f[t[k]]
  BY <1>1, MapSeq
<1>4. f[x] \in Image(f)
  BY DEF Image
<1>5. /\ Append(Map(s, f), f[x]) \in Seq(Image(f)) /\ Len(Append(Map(s, f), f[x])) = n + 1
      /\ \A k \in 1 .. n : Append(Map(s, f), f[x])[k] = Map(s, f)[k]
      /\ Append(Map(s, f), f[x])[n + 1] = f[x]
  BY <1>1, <1>2, <1>4
<1>6. \A k \in 1 .. n : Map(t, f)[k] = Append(Map(s, f), f[x])[k]
  BY <1>1, <1>2, <1>3, <1>5
<1>7. Map(t, f)[n + 1] = f[x]
  BY <1>1, <1>3
<1>8. \A k \in 1 .. (n + 1) : Map(t, f)[k] = Append(Map(s, f), f[x])[k]
  BY <1>1, <1>5, <1>6, <1>7
<1>9. Map(t, f) = Append(Map(s, f), f[x])
  BY <1>3, <1>5, <1>8, SeqEqual
<1> QED
  BY <1>9 DEF t

LEMMA MapTail ==
    ASSUME NEW s \in Seq(Heads), NEW f, s # <<>>
    PROVE  /\ Map(s, f) # <<>> /\ Head(Map(s, f)) = f[Head(s)]
           /\ Map(Tail(s), f) = Tail(Map(s, f))
<1> DEFINE n == Len(s)
           t == Tail(s)
<1>1. /\ n \in Nat \ {0} /\ t \in Seq(Heads) /\ Len(t) = n - 1 /\ Head(s) = s[1]
      /\ \A k \in 1 .. (n - 1) : t[k] = s[k + 1]
  OBVIOUS
<1>2. /\ Map(s, f) \in Seq(Image(f)) /\ Len(Map(s, f)) = n
      /\ \A k \in 1 .. n : Map(s, f)[k] = f[s[k]]
  BY MapSeq
<1> HIDE DEF n, t
<1>3. /\ Map(t, f) \in Seq(Image(f)) /\ Len(Map(t, f)) = n - 1
      /\ \A k \in 1 .. (n - 1) : Map(t, f)[k] = f[t[k]]
  BY <1>1, MapSeq
<1>4. /\ Map(s, f) # <<>> /\ Head(Map(s, f)) = Map(s, f)[1]
      /\ Tail(Map(s, f)) \in Seq(Image(f)) /\ Len(Tail(Map(s, f))) = n - 1
      /\ \A k \in 1 .. (n - 1) : Tail(Map(s, f))[k] = Map(s, f)[k + 1]
  BY <1>1, <1>2
<1>5. \A k \in 1 .. (n - 1) : Map(t, f)[k] = Tail(Map(s, f))[k]
  <2> SUFFICES ASSUME NEW k \in 1 .. (n - 1) PROVE Map(t, f)[k] = Tail(Map(s, f))[k]
    OBVIOUS
  <2>1. k + 1 \in 1 .. n
    BY <1>1
  <2>2. Map(s, f)[k + 1] = f[s[k + 1]] /\ t[k] = s[k + 1]
    BY <1>1, <1>2, <2>1
  <2> QED
    BY <1>3, <1>4, <2>2
<1>6. Map(t, f) = Tail(Map(s, f))
  BY <1>3, <1>4, <1>5, SeqEqual
<1>7. Head(Map(s, f)) = f[Head(s)]
  BY <1>1, <1>2, <1>4
<1> QED
  BY <1>4, <1>6, <1>7 DEF t

\* What the abstract disk has for a head that waits, and for one that is done.
Tasks(q) == [h \in Heads |-> [head |-> h, operation |-> operation(q[h])]]

Result(h, r) == [head |-> h, status |-> r.status,
                 data |-> IF well_formed(r) /\ r.type = "in" THEN r.data ELSE 0]

Results(q) == [h \in Heads |-> Result(h, q[h])]

LEMMA Mapped ==
    ASSUME OneQueue, Inv
    PROVE  Todo = Map(Pending, Tasks(req)) /\ Done = Map(DoneHeads, Results(req))
<1>1. /\ DOMAIN Pending = 1 .. Len(Pending) /\ DOMAIN DoneHeads = 1 .. Len(DoneHeads)
      /\ \A k \in 1 .. Len(Pending) : Pending[k] \in Heads
      /\ \A k \in 1 .. Len(DoneHeads) : DoneHeads[k] \in Heads
  BY DEF Inv, Conserved
<1>2. TodoHeads = Pending
  BY PositionIsUsed
<1>3. Todo = Map(Pending, Tasks(req))
  BY <1>1, <1>2 DEF Todo, Map, Tasks
<1>4. Done = Map(DoneHeads, Results(req))
  BY <1>1 DEF Done, Map, Results, Result
<1> QED
  BY <1>3, <1>4

\* The same one step later.
LEMMA MappedNext ==
    ASSUME OneQueue, Inv'
    PROVE  Todo' = Map(Pending', Tasks(req')) /\ Done' = Map(DoneHeads', Results(req'))
<1>1. /\ DOMAIN Pending' = 1 .. Len(Pending') /\ DOMAIN DoneHeads' = 1 .. Len(DoneHeads')
      /\ \A k \in 1 .. Len(Pending') : Pending'[k] \in Heads
      /\ \A k \in 1 .. Len(DoneHeads') : DoneHeads'[k] \in Heads
  BY DEF Inv, Conserved
<1>2. TodoHeads' = Pending'
  <2>1. \A q \in DOMAIN dev'.last_avail_idx : last' = None => dev'.last_avail_idx[q] = used'.idx
    BY DEF Inv, Synchronised
  <2>2. position' = used'.idx
    BY <2>1 DEF position, first, OneQueue, Inv, Synchronised
  <2> QED
    BY <2>2 DEF TodoHeads, Pending
<1>3. Todo' = Map(Pending', Tasks(req'))
  BY <1>1, <1>2 DEF Todo, Map, Tasks
<1>4. Done' = Map(DoneHeads', Results(req'))
  BY <1>1 DEF Done, Map, Results, Result
<1> QED
  BY <1>3, <1>4

\* A step that moves no index and no request is invisible.
LEMMA Invisible ==
    ASSUME OneQueue, Inv, Inv', Pending' = Pending, DoneHeads' = DoneHeads,
           UNCHANGED <<req, disk, running>>
    PROVE  UNCHANGED Abs!vars
<1>1. Todo' = Todo /\ Done' = Done
  BY Mapped, MappedNext
<1>2. blocks(disk)' = blocks(disk)
  BY DEF blocks
<1> QED
  BY <1>1, <1>2 DEF Abs!vars

LEMMA SubmitRefines ==
    ASSUME OneQueue, Inv, Inv', NEW h \in Heads, NEW r \in Requests, Submit(h, r)
    PROVE  Abs!Submit
<1>1. /\ h \in drv.free /\ Pending' = Append(Pending, h) /\ DoneHeads' = DoneHeads
  BY SubmitQueues
<1>2. running /\ req' = [req EXCEPT ![h] = r] /\ UNCHANGED <<disk, running>>
  BY DEF Submit, Idle
<1>3. /\ Pending \in Seq(Heads) /\ DoneHeads \in Seq(Heads)
      /\ h \notin Elems(Pending) /\ h \notin Elems(DoneHeads)
      /\ Elems(Pending) \subseteq Heads /\ Elems(DoneHeads) \subseteq Heads
  BY <1>1 DEF Inv, Conserved, Elems
<1>4. req'[h] = r /\ \A g \in Heads \ {h} : req'[g] = req[g]
  BY <1>2 DEF Inv, TypeOK
<1>5. Map(Pending, Tasks(req')) = Map(Pending, Tasks(req))
  <2>1. \A x \in Elems(Pending) : Tasks(req')[x] = Tasks(req)[x]
    BY <1>3, <1>4 DEF Tasks
  <2> QED
    BY <1>3, <2>1, MapSame
<1>6. Map(DoneHeads, Results(req')) = Map(DoneHeads, Results(req))
  <2>1. \A x \in Elems(DoneHeads) : Results(req')[x] = Results(req)[x]
    BY <1>3, <1>4 DEF Results
  <2> QED
    BY <1>3, <2>1, MapSame
<1>7. Todo' = Append(Todo, Tasks(req')[h]) /\ Done' = Done
  BY <1>1, <1>3, <1>5, <1>6, Mapped, MappedNext, MapAppend
<1>8. Tasks(req')[h] = [head |-> h, operation |-> operation(r)]
  BY <1>4 DEF Tasks
<1>9. operation(r) \in Abs!Operation
  <2>1. r.sector \in Sectors /\ r.data \in Values /\ r.type \in {"in", "out", "other"}
    BY RequestAssumption DEF Request
  <2>2. CASE ~well_formed(r)
    BY <2>2 DEF operation, Abs!Operation
  <2>3. CASE well_formed(r) /\ r.type = "in"
    BY <2>1, <2>3 DEF operation, Abs!Operation
  <2>4. CASE well_formed(r) /\ r.type = "out"
    BY <2>1, <2>4 DEF operation, Abs!Operation
  <2>5. CASE well_formed(r) /\ r.type = "other"
    BY <2>5 DEF operation, Abs!Operation
  <2> QED
    BY <2>1, <2>2, <2>3, <2>4, <2>5
<1>10. blocks(disk)' = blocks(disk)
  BY <1>2 DEF blocks
<1> QED
  BY <1>2, <1>7, <1>8, <1>9, <1>10 DEF Abs!Submit

LEMMA ServeRefines ==
    ASSUME OneQueue, Inv, Inv', ServeOne
    PROVE  Abs!Serve \/ Abs!Fault
<1> DEFINE r == req[CurrentHead]
           o == operation(r)
<1>1. Pending # <<>> /\ CurrentHead = Head(Pending) /\ CurrentHead \in Heads
  BY ServeHead
<1>2. /\ disk' = disk_after(disk, r) /\ req' = [req EXCEPT ![CurrentHead] = answer(disk, r)]
      /\ running' = ~faults(r) /\ running
      /\ faults(r) => UNCHANGED <<used, last>>
      /\ UNCHANGED <<avail, drv>>
  BY DEF ServeOne, CurrentHead
<1>3. r \in Request /\ IsDisk(disk) /\ running = TRUE /\ req \in [Heads -> Request]
  BY <1>1, <1>2 DEF Inv, TypeOK, IsDisk
<1>4. r.status = 255
  <2>1. CurrentHead \in Elems(Pending)
    BY <1>1, TailElems DEF Inv, Conserved
  <2> QED
    BY <2>1 DEF Inv, Untouched
<1>5. /\ Pending \in Seq(Heads) /\ DoneHeads \in Seq(Heads)
      /\ Elems(Tail(Pending)) = Elems(Pending) \ {CurrentHead}
      /\ CurrentHead \notin Elems(DoneHeads)
      /\ Elems(Pending) \subseteq Heads /\ Elems(DoneHeads) \subseteq Heads
      /\ Tail(Pending) \in Seq(Heads)
  <2>1. Pending \in Seq(Heads) /\ DoneHeads \in Seq(Heads) /\ Distinct(Pending)
    BY DEF Inv, Conserved
  <2>2. Elems(Pending) \subseteq Heads /\ Elems(DoneHeads) \subseteq Heads
    BY <2>1 DEF Elems
  <2>3. /\ Elems(Tail(Pending)) = Elems(Pending) \ {CurrentHead} /\ CurrentHead \in Elems(Pending)
        /\ Tail(Pending) \in Seq(Heads)
    BY <1>1, <2>1, TailElems
  <2> QED
    BY <2>1, <2>2, <2>3 DEF Inv, Conserved
<1>6. req'[CurrentHead] = answer(disk, r) /\ \A g \in Heads \ {CurrentHead} : req'[g] = req[g]
  BY <1>1, <1>2, <1>3
<1> DEFINE a == answer(disk, r)
<1>7. /\ a.next = r.next /\ a.type = r.type /\ a.sector = r.sector
      /\ a.status = IF well_formed(r) /\ ~faults(r) THEN OK ELSE r.status
      /\ a.data = IF well_formed(r) /\ r.type = "in" /\ r.unmapped # "data"
                  THEN blocks(disk)[r.sector] ELSE r.data
  BY <1>3, AnswerFields
<1>8. well_formed(a) = well_formed(r)
  BY <1>7 DEF well_formed
<1> HIDE DEF r, a
<1>9. /\ Todo = Map(Pending, Tasks(req)) /\ Done = Map(DoneHeads, Results(req))
      /\ Todo' = Map(Pending', Tasks(req')) /\ Done' = Map(DoneHeads', Results(req'))
  BY Mapped, MappedNext
<1>10. Todo # <<>> /\ Head(Todo) = [head |-> CurrentHead, operation |-> o]
  <2>1. Tasks(req)[CurrentHead] = [head |-> CurrentHead, operation |-> o]
    BY <1>1 DEF Tasks, r
  <2> QED
    BY <1>1, <1>5, <1>9, <2>1, MapTail
<1>11. Map(DoneHeads, Results(req')) = Map(DoneHeads, Results(req))
  <2>1. \A x \in Elems(DoneHeads) : Results(req')[x] = Results(req)[x]
    BY <1>5, <1>6 DEF Results
  <2> QED
    BY <1>5, <2>1, MapSame
<1>12. CASE faults(r)
  <2>1. Pending' = Pending /\ DoneHeads' = DoneHeads
    BY <1>2, <1>12, SameQueues
  <2>2. operation(a) = o
    <3>1. r.type # "in" => a.data = r.data
      BY <1>7
    <3> QED
      BY <1>7, <1>8, <3>1 DEF operation
  <2>3. \A x \in Elems(Pending) : Tasks(req')[x] = Tasks(req)[x]
    BY <1>5, <1>6, <2>2 DEF Tasks, r, a
  <2>4. Todo' = Todo
    BY <1>5, <1>9, <2>1, <2>3, MapSame
  <2>5. Done' = Done
    BY <1>9, <1>11, <2>1
  <2>6. blocks(disk)' \in {blocks(disk), Abs!Effect(blocks(disk), o)}
    <3>1. blocks(disk)' = blocks(disk_after(disk, r))
      BY <1>2 DEF blocks
    <3> QED
      BY <1>3, <3>1, DiskAfter
  <2>7. running' = FALSE
    BY <1>2, <1>12
  <2>8. Head(Todo).operation = o
    BY <1>10
  <2> HIDE DEF o
  <2> QED
    BY <1>3, <1>10, <2>4, <2>5, <2>6, <2>7, <2>8 DEF Abs!Fault
<1>13. CASE ~faults(r)
  <2>1. Pending' = Tail(Pending) /\ DoneHeads' = Append(DoneHeads, CurrentHead)
    BY <1>1, <1>13, ServeQueues DEF r
  <2>2. Todo' = Tail(Todo)
    <3>1. \A x \in Elems(Tail(Pending)) : Tasks(req')[x] = Tasks(req)[x]
      BY <1>5, <1>6 DEF Tasks
    <3>2. Map(Tail(Pending), Tasks(req')) = Map(Tail(Pending), Tasks(req))
      BY <1>5, <3>1, MapSame
    <3> QED
      BY <1>1, <1>5, <1>9, <2>1, <3>2, MapTail
  <2>3. Done' = Append(Done, Result(CurrentHead, a))
    <3>1. Results(req')[CurrentHead] = Result(CurrentHead, a)
      BY <1>1, <1>6 DEF Results, a
    <3>2. Map(Append(DoneHeads, CurrentHead), Results(req'))
             = Append(Map(DoneHeads, Results(req')), Results(req')[CurrentHead])
      BY <1>1, <1>5, MapAppend
    <3> QED
      BY <1>9, <1>11, <2>1, <3>1, <3>2
  <2>4. Result(CurrentHead, a) = Abs!Answer(blocks(disk), CurrentHead, o)
    <3>1. r.type \in {"in", "out", "other"}
      BY <1>3 DEF Request
    <3>2. CASE ~well_formed(r)
      <4>1. o = [op |-> "malformed"] /\ a.status = 255
        BY <1>4, <1>7, <3>2 DEF operation
      <4> QED
        BY <1>8, <3>2, <4>1 DEF Result, Abs!Answer
    <3>3. CASE well_formed(r) /\ r.type = "in"
      <4>1. o = [op |-> "read", sector |-> r.sector] /\ a.status = 0
        BY <1>7, <1>13, <3>3 DEF operation, OK
      <4>2. r.unmapped # "data"
        BY <1>13, <3>3 DEF faults
      <4>3. a.data = blocks(disk)[r.sector]
        BY <1>7, <3>3, <4>2
      <4> QED
        BY <1>7, <1>8, <3>3, <4>1, <4>3 DEF Result, Abs!Answer
    <3>4. CASE well_formed(r) /\ r.type # "in"
      <4>1. o.op \in {"write", "none"} /\ a.status = 0
        BY <1>7, <1>13, <3>1, <3>4 DEF operation, OK
      <4> QED
        BY <1>7, <1>8, <3>4, <4>1 DEF Result, Abs!Answer
    <3> QED
      BY <3>2, <3>3, <3>4
  <2>5. blocks(disk)' = Abs!Effect(blocks(disk), o)
    <3>1. blocks(disk)' = blocks(disk_after(disk, r))
      BY <1>2 DEF blocks
    <3> QED
      BY <1>3, <1>13, <3>1, DiskAfter
  <2>6. running' = running
    BY <1>2, <1>3, <1>13
  <2>7. Head(Todo).operation = o /\ Head(Todo).head = CurrentHead
    BY <1>10
  <2> HIDE DEF o
  <2> QED
    BY <1>2, <1>10, <2>2, <2>3, <2>4, <2>5, <2>6, <2>7 DEF Abs!Serve
<1> QED
  BY <1>12, <1>13

LEMMA ReapRefines ==
    ASSUME OneQueue, Inv, Inv', Reap
    PROVE  Abs!Take \/ UNCHANGED Abs!vars
<1>1. running /\ UNCHANGED <<disk, avail, used, req, running>>
  BY DEF Reap, Idle
<1>2. CASE drv.used_idx = used.idx
  <2>1. drv'.used_idx = drv.used_idx
    BY <1>2 DEF Reap, Inv, TypeOK
  <2> QED
    BY <1>1, <2>1, SameQueues, Invisible
<1>3. CASE drv.used_idx # used.idx
  <2>1. DoneHeads # <<>> /\ DoneHeads' = Tail(DoneHeads) /\ Pending' = Pending
    BY <1>3, ReapQueues
  <2>2. Todo' = Todo /\ Done # <<>> /\ Done' = Tail(Done)
    <3>1. DoneHeads \in Seq(Heads)
      BY DEF Inv, Conserved
    <3> QED
      BY <1>1, <2>1, <3>1, Mapped, MappedNext, MapTail
  <2>3. blocks(disk)' = blocks(disk)
    BY <1>1 DEF blocks
  <2> QED
    BY <1>1, <2>2, <2>3 DEF Abs!Take
<1> QED
  BY <1>2, <1>3

LEMMA StepRefines == ASSUME OneQueue, Inv, Inv', [Next]_vars PROVE [Abs!Next]_(Abs!vars)
<1>1. ASSUME \/ UNCHANGED vars \/ (\E q \in Queues : Notify(q)) \/ Served \/ Reset \/ HandlerEnter
      PROVE  UNCHANGED Abs!vars
  <2>1. UNCHANGED <<disk, avail, used, req, running>>
    BY <1>1 DEF vars, Notify, Served, Reset, HandlerEnter
  <2>2. drv'.used_idx = drv.used_idx
    BY <1>1 DEF vars, Notify, Served, Reset, HandlerEnter, Inv, TypeOK
  <2> QED
    BY <2>1, <2>2, SameQueues, Invisible
<1>2. ASSUME NEW clear \in BOOLEAN, SetUp(clear) PROVE UNCHANGED Abs!vars
  <2>1. UNCHANGED <<disk, req, running>>
    BY <1>2 DEF SetUp
  <2>2. dev.queue_ready = 0
    BY <1>2 DEF SetUp
  <2>3. Pending = <<>> /\ DoneHeads = <<>>
    BY <2>2, QueueSeqs DEF Inv, Quiet
  <2>4. used'.idx = avail'.idx /\ used'.idx = drv'.used_idx
    <3>1. used.idx = avail.idx /\ used.idx = drv.used_idx
      BY <2>2 DEF Inv, Quiet
    <3>2. CASE clear
      BY <1>2, <3>2 DEF SetUp, Ring, Inv, TypeOK
    <3>3. CASE ~clear
      BY <1>2, <3>1, <3>3 DEF SetUp, Inv, TypeOK
    <3> QED
      BY <3>2, <3>3
  <2>5. Pending' = <<>> /\ DoneHeads' = <<>>
    <3>1. /\ avail'.ring \in [Slot -> Entry] /\ avail'.idx \in Index
          /\ used'.ring \in [Slot -> Entry] /\ used'.idx \in Index /\ drv'.used_idx \in Index
      BY DEF Inv, TypeOK, Rings
    <3> QED
      BY <2>4, <3>1, BetweenEmpty DEF Pending, DoneHeads
  <2> QED
    BY <2>1, <2>3, <2>5, Invisible
<1> QED
  BY <1>1, <1>2, SubmitRefines, ServeRefines, ReapRefines DEF Next, Abs!Next

LEMMA InitRefines == ASSUME OneQueue, Init PROVE Abs!Init
<1>1. Inv
  BY InvInit
<1>2. used.idx = Start /\ avail.idx = Start /\ drv.used_idx = Start /\ running = TRUE
  BY DEF Init, Ring
<1>3. Pending = <<>> /\ DoneHeads = <<>>
  BY <1>1, <1>2, QueueSeqs DEF Inv
<1>4. Todo = <<>> /\ Done = <<>>
  BY <1>1, <1>3, Mapped DEF Map
<1>5. blocks(disk) \in [Sectors -> Values]
  <2>1. PICK s \in Sectors : TRUE
    BY RequestAssumption
  <2> QED
    BY <1>1, <2>1, Resized DEF Inv, TypeOK, IsDisk
<1> QED
  BY <1>2, <1>4, <1>5 DEF Abs!Init

\* The device, the rings and the driver implement a first-in first-out disk: every
\* request is carried out once, completely, in its turn and against the blocks its
\* predecessors left, and a bus error strikes before or after a request has had
\* its effect, never between two parts of it.
THEOREM RingsImplementDisk == OneQueue => (Spec => ImplementsDisk)
<1> SUFFICES ASSUME OneQueue PROVE Spec => ImplementsDisk
  OBVIOUS
<1>1. Init => Abs!Init
  BY InitRefines
<1>2. Inv /\ Inv' /\ [Next]_vars => [Abs!Next]_(Abs!vars)
  BY StepRefines
<1> QED
  BY <1>1, <1>2, Invariance, PTL DEF Spec, ImplementsDisk, Abs!Spec

=============================================================================
