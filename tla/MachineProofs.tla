----------------------------- MODULE MachineProofs -----------------------------
(***************************************************************************)
(* Theorems about how the machine is built (module Bus), for every map of  *)
(* fixed windows that are apart, every load address, program length and    *)
(* number of harts; about how it is run (module Runner), for every number  *)
(* of harts and every limit; about the memory its harts see (module Mem),  *)
(* for every program, page size, translation and access; and about what    *)
(* its instructions compute (module Isa), for every register width.        *)
(***************************************************************************)
EXTENDS Bus, Runner, Mem, Isa, NumberLemmas, FiniteSetTheorems, SequenceTheorems

-----------------------------------------------------------------------------
(* The run loops. *)

\* Between two instructions the harts before turn have done one instruction more
\* than count says, and the limit, when there is one, has not been reached while
\* the loop runs, so that count does not wrap.
RunInv == /\ mode \in {"boot", "time"} /\ limit \in Limits
          /\ turn \in Harts /\ count \in 0 .. (CountSpace - 1)
          /\ executed = [h \in Harts |-> IF h < turn THEN increment(count) ELSE count]
          /\ limit # 0 => /\ count <= limit
                          /\ count = limit => exit # "no" /\ turn = 0
          /\ exit = "limit" => limit # 0 /\ count = limit /\ turn = 0

LEMMA RunStarts == RunInit => RunInv
BY CountAssumption DEF RunInit, RunInv, Harts

\* increment leaves a count below the limit a count up to the limit.
LEMMA Increments ==
    ASSUME NEW n \in 0 .. (CountSpace - 1)
    PROVE  /\ increment(n) \in 0 .. (CountSpace - 1)
           /\ \A l \in Limits : n < l => increment(n) = n + 1
<1>1. CountSpace \in Nat \ {0} /\ \A l \in Limits : l \in Nat /\ l < CountSpace
  BY CountAssumption
<1>2. n \in Nat /\ n < CountSpace
  BY <1>1
<1>3. CASE n + 1 < CountSpace
  <2>1. increment(n) = n + 1
    BY <1>1, <1>2, <1>3 DEF increment
  <2> QED
    BY <1>1, <1>2, <1>3, <2>1
<1>4. CASE n + 1 = CountSpace
  <2>1. increment(n) = 0
    BY <1>1, <1>2, <1>4 DEF increment
  <2> QED
    BY <1>1, <1>2, <1>4, <2>1
<1> QED
  BY <1>1, <1>2, <1>3, <1>4

LEMMA BootStepKeeps == ASSUME RunInv, BootStep PROVE RunInv'
<1>1. NCPU \in Nat \ {0} /\ mode = "boot" /\ mode' = mode /\ limit' = limit /\ exit = "no"
  BY CountAssumption DEF BootStep
<1>2. Harts = 0 .. (NCPU - 1) /\ Harts' = Harts
  BY <1>1 DEF Harts
<1>3. CASE Fails
  BY <1>1, <1>2, <1>3 DEF Fails, RunInv
<1>4. CASE Executes /\ turn' = (turn + 1) % NCPU
           /\ count' = (IF turn' = 0 THEN increment(count) ELSE count)
           /\ exit' = IF turn' = 0 /\ AtLimit THEN "limit" ELSE exit
  <2> DEFINE n == increment(count)
  <2>1. n \in 0 .. (CountSpace - 1) /\ (limit # 0 => count < limit /\ n = count + 1)
    BY <1>1, Increments, CountAssumption DEF RunInv
  <2>2. executed' = [executed EXCEPT ![turn] = increment(@)]
    BY <1>4 DEF Executes
  <2>3. turn \in 0 .. (NCPU - 1) /\ executed[turn] = count
    BY <1>2 DEF RunInv
  <2>4. executed' = [h \in Harts |-> IF h <= turn THEN n ELSE count]
    <3>1. executed = [h \in Harts |-> IF h < turn THEN n ELSE count]
      BY DEF RunInv
    <3>2. increment(executed[turn]) = n
      BY <2>3
    <3> HIDE DEF n
    <3>3. executed' = [h \in Harts |-> IF h = turn THEN n ELSE executed[h]]
      BY <1>2, <2>2, <2>3, <3>1, <3>2
    <3>4. ASSUME NEW h \in Harts
          PROVE  (IF h = turn THEN n ELSE executed[h]) = IF h <= turn THEN n ELSE count
      BY <1>1, <1>2, <2>3, <3>1
    <3> QED
      BY <3>3, <3>4
  <2> HIDE DEF n
  <2>5. CASE turn + 1 = NCPU
    <3>1. turn' = 0 /\ count' = n
      BY <1>1, <1>4, <2>3, <2>5 DEF n
    <3>2. executed' = [h \in Harts' |-> IF h < turn' THEN increment(count') ELSE count']
      BY <1>2, <2>3, <2>4, <2>5, <3>1
    <3> QED
      BY <1>1, <1>2, <1>4, <2>1, <3>1, <3>2, CountAssumption DEF RunInv, AtLimit
  <2>6. CASE turn + 1 # NCPU
    <3>1. turn' = turn + 1 /\ count' = count /\ turn + 1 \in 0 .. (NCPU - 1) /\ exit' = exit
      BY <1>1, <1>4, <2>3, <2>6
    <3>2. executed' = [h \in Harts' |-> IF h < turn' THEN increment(count') ELSE count']
      BY <1>2, <2>3, <2>4, <3>1 DEF n
    <3> QED
      BY <1>1, <1>2, <2>1, <2>3, <3>1, <3>2 DEF RunInv
  <2> QED
    BY <2>5, <2>6
<1> QED
  BY <1>3, <1>4 DEF BootStep

LEMMA TimeStepKeeps == ASSUME RunInv, TimeStep PROVE RunInv'
<1>1. mode = "time" /\ mode' = mode /\ limit' = limit /\ exit = "no"
  BY DEF TimeStep
<1>2. Harts = {0} /\ Harts' = Harts
  BY <1>1 DEF Harts
<1>3. CASE Fails
  BY <1>1, <1>2, <1>3 DEF Fails, RunInv
<1>4. CASE Executes /\ count' = increment(count) /\ exit' = Verdict /\ UNCHANGED turn
  <2> DEFINE n == increment(count)
  <2>1. n \in 0 .. (CountSpace - 1) /\ (limit # 0 => count < limit /\ n = count + 1)
    BY <1>1, Increments, CountAssumption DEF RunInv
  <2>2. turn = 0 /\ executed[0] = count /\ executed = [h \in {0} |-> executed[h]]
    BY <1>2 DEF RunInv
  <2>3. executed' = [h \in {0} |-> n]
    BY <1>4, <2>2 DEF Executes
  <2> HIDE DEF n
  <2>4. count' = n /\ turn' = 0
    BY <1>4, <2>2 DEF n
  <2>5. executed' = [h \in Harts' |-> IF h < turn' THEN increment(count') ELSE count']
    BY <1>2, <2>3, <2>4
  <2>6. (exit' = "limit" => limit # 0 /\ n >= limit) /\ (exit' = "no" => ~(limit # 0 /\ n >= limit))
    BY <1>4, <2>4, Zenon DEF Verdict, AtLimit
  <2>7. limit \in Nat /\ n \in Nat /\ count \in Nat
    BY <2>1, CountAssumption DEF RunInv
  <2>8. limit # 0 => n <= limit /\ (n = limit => exit' # "no")
    BY <2>1, <2>6, <2>7
  <2>9. exit' = "limit" => limit # 0 /\ n = limit
    BY <2>1, <2>6, <2>7
  <2> QED
    BY <1>1, <1>2, <2>1, <2>4, <2>5, <2>8, <2>9 DEF RunInv
<1> QED
  BY <1>3, <1>4 DEF TimeStep

\* The run loops count rounds: at any time, and in particular when an
\* instruction fails in the middle of a round, every hart has completed what
\* count says, or one more if its turn is over; and a limit stops the machine
\* with exactly so many instructions completed by every hart, for any number of
\* harts and any limit, up to a count that wraps.
THEOREM CountExact == RunSpec => []CountIsExact
<1>1. RunInv /\ [RunNext]_run_vars => RunInv'
  <2> SUFFICES ASSUME RunInv, [RunNext]_run_vars PROVE RunInv'
    OBVIOUS
  <2>1. CASE UNCHANGED run_vars
    BY <2>1 DEF run_vars, RunInv, Harts
  <2> QED
    BY <2>1, BootStepKeeps, TimeStepKeeps DEF RunNext
<1>2. RunInv => CountIsExact
  <2> SUFFICES ASSUME RunInv PROVE CountIsExact
    OBVIOUS
  <2>1. \A h \in Harts : executed[h] = IF h < turn THEN increment(count) ELSE count
    BY DEF RunInv
  <2>2. ASSUME limit # 0
        PROVE  /\ \A h \in Harts : executed[h] <= limit
               /\ exit = "limit" => \A h \in Harts : executed[h] = limit
    <3>1. count < limit => increment(count) = count + 1
      BY Increments DEF RunInv
    <3>2. limit \in Nat /\ count \in Nat /\ count <= limit /\ (count = limit => turn = 0)
      BY <2>2, CountAssumption DEF RunInv
    <3>3. turn \in Nat /\ \A h \in Harts : h \in Nat
      BY CountAssumption DEF RunInv, Harts
    <3>4. exit = "limit" => count = limit /\ turn = 0
      BY DEF RunInv
    <3> QED
      BY <2>1, <3>1, <3>2, <3>3, <3>4
  <2> QED
    BY <2>1, <2>2 DEF CountIsExact
<1> QED
  BY <1>1, <1>2, RunStarts, PTL DEF RunSpec

-----------------------------------------------------------------------------
(* RangeManager. *)

\* An initial part of 1 .. n is counted by its last element.
LEMMA Prefix ==
    ASSUME NEW n \in Nat, NEW S \in SUBSET (1 .. n),
           \A i \in S : \A j \in 1 .. i : j \in S
    PROVE  Cardinality(S) \in 0 .. n /\ S = 1 .. Cardinality(S)
<1> DEFINE k == Cardinality(S)
<1>1. \A m \in Nat : IsFiniteSet(1 .. m) /\ Cardinality(1 .. m) = m
  BY FS_Interval
<1>2. IsFiniteSet(S) /\ k \in Nat /\ k <= n
  <2>1. IsFiniteSet(1 .. n) /\ Cardinality(1 .. n) = n
    BY <1>1
  <2>2. IsFiniteSet(S) /\ Cardinality(S) <= Cardinality(1 .. n)
    BY <2>1, FS_Subset
  <2>3. Cardinality(S) \in Nat
    BY <2>2, FS_CardinalityType
  <2> QED
    BY <2>1, <2>2, <2>3
<1> HIDE DEF k
<1>3. ASSUME NEW i \in S
      PROVE  i <= k
  <2>1. (1 .. i) \in SUBSET S /\ i \in Nat
    OBVIOUS
  <2>2. Cardinality(1 .. i) <= Cardinality(S)
    BY <1>2, <2>1, FS_Subset
  <2> QED
    BY <1>1, <2>1, <2>2 DEF k
<1>4. S \in SUBSET (1 .. k)
  BY <1>2, <1>3
<1>5. IsFiniteSet(1 .. k) /\ Cardinality(1 .. k) = Cardinality(S)
  BY <1>1, <1>2 DEF k
<1>6. S = 1 .. k
  BY <1>4, <1>5, FS_Subset
<1> QED
  BY <1>2, <1>6 DEF k

Sorted(rm) == \A i, j \in 1 .. Len(rm) : i < j => rm[i].start < rm[j].start

below(rm, s) == partition_point(rm, LAMBDA x : x < s)
upto(rm, s)  == partition_point(rm, LAMBDA x : x <= s)

\* What a binary search finds in a sorted list.
LEMMA PartitionPoint ==
    ASSUME NEW rm \in Seq(Window), Sorted(rm), NEW s \in Nat
    PROVE  /\ below(rm, s) \in 0 .. Len(rm)
           /\ \A i \in 1 .. Len(rm) : rm[i].start < s <=> i <= below(rm, s)
           /\ upto(rm, s) \in 0 .. Len(rm)
           /\ \A i \in 1 .. Len(rm) : rm[i].start <= s <=> i <= upto(rm, s)
<1> DEFINE B == {i \in 1 .. Len(rm) : rm[i].start < s}
           U == {i \in 1 .. Len(rm) : rm[i].start <= s}
<1>1. below(rm, s) = Cardinality(B) /\ upto(rm, s) = Cardinality(U)
  BY DEF below, upto, partition_point
<1>2. Len(rm) \in Nat /\ \A i \in 1 .. Len(rm) : rm[i].start \in Nat
  <2>1. Len(rm) \in Nat /\ \A i \in 1 .. Len(rm) : rm[i] \in Window
    OBVIOUS
  <2>2. \A w \in Window : w.start \in Nat
    BY DEF Window
  <2> QED
    BY <2>1, <2>2
<1>3. B \in SUBSET (1 .. Len(rm)) /\ \A i \in B : \A j \in 1 .. i : j \in B
  BY <1>2 DEF Sorted
<1>4. U \in SUBSET (1 .. Len(rm)) /\ \A i \in U : \A j \in 1 .. i : j \in U
  BY <1>2 DEF Sorted
<1>5. Cardinality(B) \in 0 .. Len(rm) /\ B = 1 .. Cardinality(B)
  <2> HIDE DEF B
  <2> QED
    BY <1>2, <1>3, Prefix
<1>6. Cardinality(U) \in 0 .. Len(rm) /\ U = 1 .. Cardinality(U)
  <2> HIDE DEF U
  <2> QED
    BY <1>2, <1>4, Prefix
<1>7. \A i \in 1 .. Len(rm) : i \in B <=> i <= Cardinality(B)
  <2> HIDE DEF B
  <2> QED
    BY <1>2, <1>5
<1>8. \A i \in 1 .. Len(rm) : i \in U <=> i <= Cardinality(U)
  <2> HIDE DEF U
  <2> QED
    BY <1>2, <1>6
<1>9. \A i \in 1 .. Len(rm) : (rm[i].start < s <=> i \in B) /\ (rm[i].start <= s <=> i \in U)
  OBVIOUS
<1> HIDE DEF B, U
<1> QED
  BY <1>1, <1>5, <1>6, <1>7, <1>8, <1>9

LEMMA Insertion ==
    ASSUME NEW rm \in Seq(Window), NEW r \in Window, NEW p \in 0 .. Len(rm)
    PROVE  /\ insert(rm, p, r) \in Seq(Window)
           /\ Len(insert(rm, p, r)) = Len(rm) + 1
           /\ \A i \in 1 .. (Len(rm) + 1) :
                 insert(rm, p, r)[i] = IF i <= p THEN rm[i] ELSE IF i = p + 1 THEN r ELSE rm[i - 1]
<1> DEFINE n == Len(rm)
           u == SubSeq(rm, 1, p)
           v == <<r>>
           w == SubSeq(rm, p + 1, n)
<1>1. n \in Nat /\ p \in Nat /\ p <= n /\ \A i \in 1 .. n : rm[i] \in Window
  OBVIOUS
<1> HIDE DEF n
<1>2. u \in Seq(Window) /\ Len(u) = p /\ \A i \in 1 .. p : u[i] = rm[i]
  <2>1. \A i \in 1 .. p : rm[i] \in Window
    BY <1>1
  <2> QED
    BY <1>1, <2>1, SubSeqProperties
<1>3. v \in Seq(Window) /\ Len(v) = 1 /\ v[1] = r
  OBVIOUS
<1>4. w \in Seq(Window) /\ Len(w) = n - p /\ \A i \in 1 .. (n - p) : w[i] = rm[p + i]
  <2>1. \A i \in (p + 1) .. n : rm[i] \in Window
    BY <1>1
  <2> QED
    BY <1>1, <2>1, SubSeqProperties
<1>5. insert(rm, p, r) = (u \o v) \o w
  BY DEF insert, n
<1> HIDE DEF u, v, w
<1>6. /\ u \o v \in Seq(Window) /\ Len(u \o v) = p + 1
      /\ \A i \in 1 .. (p + 1) : (u \o v)[i] = IF i <= p THEN rm[i] ELSE r
  <2>1. /\ u \o v \in Seq(Window) /\ Len(u \o v) = Len(u) + Len(v)
        /\ \A i \in 1 .. Len(u) + Len(v) :
              (u \o v)[i] = IF i <= Len(u) THEN u[i] ELSE v[i - Len(u)]
    BY <1>2, <1>3, ConcatProperties
  <2>2. \A i \in 1 .. (p + 1) : ~(i <= p) => i - p = 1
    BY <1>1
  <2> QED
    BY <1>1, <1>2, <1>3, <2>1, <2>2
<1>7. /\ (u \o v) \o w \in Seq(Window) /\ Len((u \o v) \o w) = n + 1
      /\ \A i \in 1 .. (n + 1) :
            ((u \o v) \o w)[i] = IF i <= p + 1 THEN (u \o v)[i] ELSE w[i - (p + 1)]
  <2> DEFINE uv == u \o v
  <2> HIDE DEF uv
  <2>1. /\ uv \o w \in Seq(Window) /\ Len(uv \o w) = Len(uv) + Len(w)
        /\ \A i \in 1 .. Len(uv) + Len(w) :
              (uv \o w)[i] = IF i <= Len(uv) THEN uv[i] ELSE w[i - Len(uv)]
    BY <1>4, <1>6, ConcatProperties DEF uv
  <2>2. Len(uv) = p + 1 /\ Len(uv) + Len(w) = n + 1
    BY <1>1, <1>4, <1>6 DEF uv
  <2> QED
    BY <2>1, <2>2 DEF uv
<1>8. ASSUME NEW i \in 1 .. (n + 1)
      PROVE  ((u \o v) \o w)[i] = IF i <= p THEN rm[i] ELSE IF i = p + 1 THEN r ELSE rm[i - 1]
  <2>0. i \in Nat /\ 1 <= i /\ i <= n + 1
    BY <1>1
  <2>1. CASE i <= p + 1
    <3>1. i \in 1 .. (p + 1) /\ (~(i <= p) => i = p + 1)
      BY <1>1, <2>0, <2>1
    <3>2. ((u \o v) \o w)[i] = (u \o v)[i]
      BY <1>7, <2>1
    <3>3. (u \o v)[i] = IF i <= p THEN rm[i] ELSE r
      BY <1>6, <3>1
    <3> QED
      BY <3>1, <3>2, <3>3
  <2>2. CASE ~(i <= p + 1)
    <3>1. i - (p + 1) \in 1 .. (n - p) /\ p + (i - (p + 1)) = i - 1 /\ ~(i <= p) /\ i # p + 1
      BY <1>1, <2>0, <2>2
    <3>2. ((u \o v) \o w)[i] = w[i - (p + 1)]
      BY <1>7, <2>2
    <3>3. w[i - (p + 1)] = rm[p + (i - (p + 1))]
      BY <1>4, <3>1
    <3> QED
      BY <3>1, <3>2, <3>3
  <2> QED
    BY <2>1, <2>2
<1>9. insert(rm, p, r) \in Seq(Window) /\ Len(insert(rm, p, r)) = Len(rm) + 1
  BY <1>5, <1>7 DEF n
<1>10. \A i \in 1 .. (n + 1) :
          insert(rm, p, r)[i] = IF i <= p THEN rm[i] ELSE IF i = p + 1 THEN r ELSE rm[i - 1]
  <2> DEFINE f == (u \o v) \o w
  <2>1. \A i \in 1 .. (n + 1) : f[i] = IF i <= p THEN rm[i] ELSE IF i = p + 1 THEN r ELSE rm[i - 1]
    BY <1>8
  <2>2. insert(rm, p, r) = f
    BY <1>5
  <2> HIDE DEF f
  <2> QED
    BY <2>1, <2>2, Zenon
<1> QED
  BY <1>9, <1>10, Zenon DEF n

-----------------------------------------------------------------------------
(* The bus. *)

\* What the list of the ranges and the windows of the devices have in common.
\* Two windows may overlap, so only the starts are in order.
Listed(rm, rg) ==
    /\ rm \in Seq(Window) /\ Sorted(rm)
    /\ \A i \in 1 .. Len(rm) : rm[i].size > 0 /\ \E d \in Devices : rm[i] = rg[d]
    /\ \A d \in Devices : rg[d].size > 0 => \E i \in 1 .. Len(rm) : rm[i] = rg[d]

\* A fixed window that begins below RAM or stack ends there too.
ClearOfMemory(rg) ==
    \A d \in FixedDevices, e \in {"ram", "stack"} :
        rg[d].size > 0 /\ rg[e].size > 0 /\ rg[d].start < rg[e].start => end(rg[d]) <= rg[e].start

LEMMA WindowFields ==
    ASSUME NEW w \in Window
    PROVE  w.start \in Nat /\ w.size \in Nat /\ end(w) \in Nat /\ end(w) = w.start + w.size
BY DEF Window, end

\* In a sorted list the new range goes before the first one that does not start
\* below it, and fits keeps it clear of that one.
LEMMA Fits ==
    ASSUME NEW rm \in Seq(Window), Sorted(rm), NEW r \in Window, fits(rm, r)
    PROVE  \A i \in 1 .. Len(rm) :
               i > below(rm, r.start) => r.start < rm[i].start /\ end(r) <= rm[i].start
<1> DEFINE p == below(rm, r.start)
<1>1. r.start \in Nat /\ end(r) \in Nat /\ Len(rm) \in Nat
  BY WindowFields
<1>2. \A i \in 1 .. Len(rm) : rm[i].start \in Nat
  BY WindowFields
<1>3. p \in 0 .. Len(rm) /\ \A i \in 1 .. Len(rm) : rm[i].start < r.start <=> i <= p
  BY <1>1, PartitionPoint
<1>4. p # Len(rm) => rm[p + 1].start # r.start /\ end(r) <= rm[p + 1].start
  BY DEF fits, below
<1> HIDE DEF p
<1> SUFFICES ASSUME NEW i \in 1 .. Len(rm), i > p
             PROVE  r.start < rm[i].start /\ end(r) <= rm[i].start
  BY DEF p
<1>5. p + 1 \in 1 .. Len(rm) /\ p # Len(rm) /\ ~(p + 1 <= p) /\ (i = p + 1 \/ p + 1 < i)
  BY <1>1, <1>3
<1>6. rm[p + 1].start <= rm[i].start
  BY <1>2, <1>5 DEF Sorted
<1>7. ~(rm[p + 1].start < r.start)
  BY <1>3, <1>5
<1>8. rm[p + 1].start \in Nat /\ rm[i].start \in Nat
  BY <1>2, <1>5
<1> QED
  BY <1>1, <1>4, <1>5, <1>6, <1>7, <1>8

\* The sorted list q holds r and what rm holds.
Extends(q, rm, r) ==
    /\ q \in Seq(Window) /\ Sorted(q)
    /\ \A i \in 1 .. Len(q) : q[i] = r \/ \E j \in 1 .. Len(rm) : q[i] = rm[j]
    /\ \E i \in 1 .. Len(q) : q[i] = r
    /\ \A j \in 1 .. Len(rm) : \E i \in 1 .. Len(q) : q[i] = rm[j]

LEMMA AddedIsSorted ==
    ASSUME NEW rm \in Seq(Window), Sorted(rm), NEW r \in Window, fits(rm, r)
    PROVE  Extends(add_range(rm, r), rm, r)
<1> DEFINE p == below(rm, r.start)
           n == Len(rm)
           q == add_range(rm, r)
<1>1. r.start \in Nat /\ n \in Nat
  BY WindowFields
<1>2. \A i \in 1 .. n : rm[i].start \in Nat
  BY WindowFields
<1>3. p \in 0 .. n /\ \A i \in 1 .. n : rm[i].start < r.start <=> i <= p
  BY <1>1, PartitionPoint
<1>4. \A i \in 1 .. n : i > p => r.start < rm[i].start
  BY Fits
<1>5. q = insert(rm, p, r)
  BY DEF add_range, below
<1>6. /\ q \in Seq(Window) /\ Len(q) = n + 1
      /\ \A i \in 1 .. (n + 1) : q[i] = IF i <= p THEN rm[i] ELSE IF i = p + 1 THEN r ELSE rm[i - 1]
  <2> HIDE DEF p
  <2>1. p \in 0 .. Len(rm)
    BY <1>3
  <2>2. /\ insert(rm, p, r) \in Seq(Window) /\ Len(insert(rm, p, r)) = Len(rm) + 1
        /\ \A i \in 1 .. (Len(rm) + 1) :
              insert(rm, p, r)[i] = IF i <= p THEN rm[i] ELSE IF i = p + 1 THEN r ELSE rm[i - 1]
    BY <2>1, Insertion, Zenon
  <2> HIDE DEF q
  <2> QED
    BY <1>5, <2>2
<1>s. \A i, j \in 1 .. n : i < j => rm[i].start < rm[j].start
  BY DEF Sorted
<1> HIDE DEF p, n, q
<1>7. /\ \A i \in 1 .. n : i <= p => q[i] = rm[i] /\ i \in 1 .. (n + 1)
      /\ q[p + 1] = r /\ p + 1 \in 1 .. (n + 1)
      /\ \A i \in 1 .. n : i > p => q[i + 1] = rm[i] /\ i + 1 \in 1 .. (n + 1)
  <2>1. p + 1 \in 1 .. (n + 1) /\ ~(p + 1 <= p)
    BY <1>1, <1>3
  <2>2. \A i \in 1 .. n : i \in 1 .. (n + 1)
    BY <1>1
  <2>3. ASSUME NEW i \in 1 .. n, i > p
        PROVE  q[i + 1] = rm[i] /\ i + 1 \in 1 .. (n + 1)
    <3>1. i + 1 \in 1 .. (n + 1) /\ ~(i + 1 <= p) /\ i + 1 # p + 1 /\ (i + 1) - 1 = i
      BY <1>1, <1>3, <2>3
    <3> QED
      BY <1>6, <3>1
  <2> QED
    BY <1>6, <2>1, <2>2, <2>3
<1>8. ASSUME NEW i \in 1 .. (n + 1)
      PROVE  \/ i \in 1 .. n /\ i <= p /\ q[i] = rm[i]
             \/ i = p + 1 /\ q[i] = r
             \/ i > p + 1 /\ i - 1 \in 1 .. n /\ i - 1 > p /\ q[i] = rm[i - 1]
  <2>1. \/ i \in 1 .. n /\ i <= p
        \/ i = p + 1 /\ ~(i <= p)
        \/ i > p + 1 /\ i - 1 \in 1 .. n /\ i - 1 > p /\ ~(i <= p) /\ i # p + 1
    BY <1>1, <1>3
  <2> QED
    BY <1>6, <2>1
<1>9. ASSUME NEW i \in 1 .. (n + 1), NEW j \in 1 .. (n + 1), i < j
      PROVE  q[i].start < q[j].start
  <2>0. i \in Nat /\ j \in Nat /\ p \in Nat
    BY <1>1, <1>3
  <2>1. CASE i \in 1 .. n /\ i <= p /\ q[i] = rm[i]
    <3>1. q[i].start < r.start
      BY <1>3, <2>1
    <3>2. CASE j \in 1 .. n /\ j <= p /\ q[j] = rm[j]
      BY <1>9, <1>s, <2>1, <3>2
    <3>3. CASE j = p + 1 /\ q[j] = r
      BY <3>1, <3>3
    <3>4. CASE j > p + 1 /\ j - 1 \in 1 .. n /\ j - 1 > p /\ q[j] = rm[j - 1]
      <4>1. i < j - 1
        BY <2>0, <2>1, <3>4
      <4> QED
        BY <1>s, <2>1, <3>4, <4>1
    <3> QED
      BY <1>8, <3>2, <3>3, <3>4
  <2>2. CASE i = p + 1 /\ q[i] = r
    <3>1. j > p + 1 /\ ~(j <= p) /\ j # p + 1
      BY <1>9, <2>0, <2>2
    <3>2. j - 1 \in 1 .. n /\ j - 1 > p /\ q[j] = rm[j - 1]
      BY <1>8, <3>1
    <3> QED
      BY <1>4, <2>2, <3>2
  <2>3. CASE i > p + 1 /\ i - 1 \in 1 .. n /\ i - 1 > p /\ q[i] = rm[i - 1]
    <3>1. j > p + 1 /\ ~(j <= p) /\ j # p + 1 /\ i - 1 < j - 1
      BY <1>9, <2>0, <2>3
    <3>2. j - 1 \in 1 .. n /\ j - 1 > p /\ q[j] = rm[j - 1]
      BY <1>8, <3>1
    <3> QED
      BY <1>s, <2>3, <3>1, <3>2
  <2> QED
    BY <1>8, <2>1, <2>2, <2>3
<1>10. Sorted(q)
  BY <1>6, <1>9 DEF Sorted
<1>11. \A i \in 1 .. (n + 1) : q[i] = r \/ \E j \in 1 .. n : q[i] = rm[j]
  BY <1>8
<1>12. \A j \in 1 .. n : j <= p \/ j > p
  BY <1>1, <1>3
<1>13. \A j \in 1 .. n : \E i \in 1 .. (n + 1) : q[i] = rm[j]
  BY <1>7, <1>12
<1> QED
  BY <1>6, <1>7, <1>10, <1>11, <1>13 DEF Extends, n, q

-----------------------------------------------------------------------------
(* Multiples of an access size. *)

Multiple(n, s) == \E k \in Int : n = s * k

LEMMA Divides ==
    ASSUME NEW n \in Nat, NEW s \in Nat \ {0}
    PROVE  n % s = 0 <=> Multiple(n, s)
<1>1. ASSUME n % s = 0 PROVE Multiple(n, s)
  <2>1. n = s * (n \div s) /\ n \div s \in Int
    BY <1>1
  <2> QED
    BY <2>1 DEF Multiple
<1>2. ASSUME Multiple(n, s) PROVE n % s = 0
  <2>1. PICK k \in Int : n = s * k
    BY <1>2 DEF Multiple
  <2> QED
    BY <2>1
<1> QED
  BY <1>1, <1>2

LEMMA RemainderIsMultiple ==
    ASSUME NEW n \in Nat, NEW m \in Nat \ {0}, NEW s \in Nat \ {0},
           Multiple(n, s), Multiple(m, s)
    PROVE  Multiple(n % m, s)
<1>1. PICK k \in Int : n = s * k
  BY DEF Multiple
<1>2. PICK l \in Int : m = s * l
  BY DEF Multiple
<1> DEFINE t == n \div m
<1>3. t \in Int /\ n % m = n - m * t
  OBVIOUS
<1> HIDE DEF t
<1>4. n - m * t = s * (k - l * t)
  BY <1>1, <1>2, <1>3
<1>5. k - l * t \in Int
  BY <1>3
<1> QED
  BY <1>3, <1>4, <1>5 DEF Multiple

LEMMA SumIsMultiple ==
    ASSUME NEW a \in Int, NEW b \in Int, NEW q \in Int, NEW s \in Nat \ {0},
           Multiple(a, s), Multiple(b, s)
    PROVE  Multiple(q * a + b, s)
<1>1. PICK k \in Int : a = s * k
  BY DEF Multiple
<1>2. PICK l \in Int : b = s * l
  BY DEF Multiple
<1>3. q * a + b = s * (q * k + l) /\ q * k + l \in Int
  BY <1>1, <1>2
<1> QED
  BY <1>3 DEF Multiple

\* Of two multiples one is not within the s - 1 bytes that follow the other.
LEMMA Grid ==
    ASSUME NEW a \in Nat, NEW b \in Nat, NEW s \in Nat \ {0},
           Multiple(a, s), Multiple(b, s), b <= a + s - 1
    PROVE  b <= a
<1>1. PICK k \in Int : a = s * k
  BY DEF Multiple
<1>2. PICK l \in Int : b = s * l
  BY DEF Multiple
<1>3. SUFFICES ASSUME l >= k + 1 PROVE FALSE
  <2>1. SUFFICES ASSUME l <= k PROVE s * l <= s * k
    BY <1>1, <1>2
  <2> QED
    BY <2>1
<1>4. s * l >= s * (k + 1)
  BY <1>3
<1>5. s * (k + 1) = s * k + s
  OBVIOUS
<1> QED
  BY <1>1, <1>2, <1>4, <1>5

\* Where the window a begins at a multiple of an access size, b does.
Meets(a, b) == \A s \in AccessSizes : a.start % s = 0 => b.start % s = 0

stack_begin(address, len) == (page_up(len) + address) % AddrSpace

\* The stack begins whole pages after the RAM, and wraps by whole pages.
LEMMA StackMeetsRam ==
    ASSUME NEW address \in Addresses, NEW len \in Lengths
    PROVE  /\ address \in Nat /\ page_up(len) \in Nat /\ stack_begin(address, len) \in Nat
           /\ \A s \in AccessSizes : address % s = 0 => stack_begin(address, len) % s = 0
<1> DEFINE q == (len + PageSize - 1) \div PageSize
<1>1. address \in Nat /\ len \in Nat /\ PageSize \in Nat \ {0} /\ AddrSpace \in Nat \ {0}
  BY MapAssumption
<1>2. q \in Nat /\ q * PageSize \in Nat
  BY <1>1
<1>3. page_up(len) = q * PageSize
  BY DEF page_up
<1> HIDE DEF q
<1> DEFINE n == q * PageSize + address
<1>4. n \in Nat /\ stack_begin(address, len) = n % AddrSpace
  BY <1>1, <1>2, <1>3 DEF stack_begin
<1> HIDE DEF n
<1>5. n % AddrSpace \in Nat
  BY <1>1, <1>4
<1>6. ASSUME NEW s \in AccessSizes, address % s = 0
      PROVE  (n % AddrSpace) % s = 0
  <2>1. s \in Nat \ {0} /\ PageSize % s = 0 /\ AddrSpace % s = 0
    BY MapAssumption
  <2>2. Multiple(address, s) /\ Multiple(PageSize, s) /\ Multiple(AddrSpace, s)
    BY <1>1, <1>6, <2>1, Divides
  <2>3. Multiple(n, s)
    <3>1. q \in Int /\ PageSize \in Int /\ address \in Int
      BY <1>1, <1>2
    <3>2. Multiple(q * PageSize + address, s)
      BY <2>1, <2>2, <3>1, SumIsMultiple, Zenon
    <3> QED
      BY <3>2 DEF n
  <2>4. Multiple(n % AddrSpace, s)
    BY <1>1, <1>4, <2>1, <2>2, <2>3, RemainderIsMultiple
  <2> DEFINE m == n % AddrSpace
  <2>5. m \in Nat /\ Multiple(m, s)
    BY <1>5, <2>4
  <2> HIDE DEF m
  <2>6. m % s = 0
    BY <2>1, <2>5, Divides
  <2> QED
    BY <2>6 DEF m
<1> QED
  BY <1>1, <1>2, <1>3, <1>4, <1>5, <1>6

-----------------------------------------------------------------------------
(* The construction. *)

\* What is still to set is unset, and each device is set once.
ToSet == /\ calls \in Seq(Devices \X Window)
         /\ \A i \in 1 .. Len(calls) :
               /\ range[calls[i][1]] = NONE
               /\ calls[i][1] \in FixedDevices => calls[i][2] = Fixed[calls[i][1]]
         /\ \A i, j \in 1 .. Len(calls) : i # j => calls[i][1] # calls[j][1]

Fixes(i) == \A j \in i .. Len(calls) : calls[j][1] \in FixedDevices

\* The RAM is set first, then the stack, then the devices.
RamFirst    == /\ Len(calls) >= 2 /\ calls[1][1] = "ram" /\ calls[2][1] = "stack"
               /\ Meets(calls[1][2], calls[2][2])
               /\ Fixes(3) /\ \A d \in FixedDevices : range[d] = NONE
StackSecond == /\ Len(calls) >= 1 /\ calls[1][1] = "stack"
               /\ Meets(range["ram"], calls[1][2])
               /\ Fixes(2) /\ \A d \in FixedDevices : range[d] = NONE
DevicesLast == Fixes(1) /\ Meets(range["ram"], range["stack"])

BusInv == /\ range \in [Devices -> Window]
          /\ \A d \in FixedDevices : range[d] \in {NONE, Fixed[d]}
          /\ ToSet
          /\ RamFirst \/ StackSecond \/ DevicesLast
          /\ Listed(range_manager, range)
          /\ ClearOfMemory(range)

\* A number of harts that is refused leaves the constructor before the first
\* set_* call; any other error is that of a set_* call.
HartsInv == /\ ncpu \in Nat
            /\ ~ncpu_ok => calls # <<>> /\ result # "ok"
            /\ result = "err" => ~ncpu_ok \/ ~add_ok(range_manager, Head(calls)[2])

LEMMA FixedWindows ==
    /\ \A d \in FixedDevices : Fixed[d] \in Window /\ d \in Devices /\ d # "ram" /\ d # "stack"
    /\ NONE \in Window /\ NONE.size = 0 /\ NONE.start = 0
    /\ "ram" \in Devices /\ "stack" \in Devices
    /\ \A d \in Devices : d = "ram" \/ d = "stack" \/ d \in FixedDevices
<1>1. \A d \in FixedDevices : Fixed[d] \in Window
  BY MapAssumption
<1> QED
  BY <1>1 DEF FixedDevices, Devices, NONE, Window

LEMMA GenericCalls ==
    ASSUME NEW address \in Addresses, NEW len \in Lengths,
           range = [d \in Devices |-> NONE], calls = generic_calls(address, len)
    PROVE  ToSet /\ RamFirst
<1> DEFINE a == [start |-> address, size |-> len]
           b == [start |-> stack_begin(address, len), size |-> STACK_SIZE]
<1>1. a \in Window /\ b \in Window /\ Meets(a, b)
  BY StackMeetsRam, MapAssumption DEF Window, Meets
<1>2. calls = << <<"ram", a>>, <<"stack", b>> >>
  BY DEF generic_calls, call, stack_begin
<1> HIDE DEF a, b
<1>3. /\ calls \in Seq(Devices \X Window) /\ Len(calls) = 2
      /\ calls[1][1] = "ram" /\ calls[2][1] = "stack" /\ calls[1][2] = a /\ calls[2][2] = b
  BY <1>1, <1>2, FixedWindows
<1>4. \A i \in 1 .. Len(calls) : i = 1 \/ i = 2
  BY <1>3
<1>5. ToSet
  BY <1>3, <1>4, FixedWindows DEF ToSet
<1>6. Fixes(3)
  BY <1>3 DEF Fixes
<1> QED
  BY <1>1, <1>3, <1>5, <1>6, FixedWindows DEF RamFirst

LEMMA Xv6Calls ==
    ASSUME NEW address \in Addresses, NEW len \in Lengths,
           range = [d \in Devices |-> NONE], calls = xv6_calls(address, len)
    PROVE  ToSet /\ RamFirst
<1> DEFINE a == [start |-> address, size |-> page_up(len)]
           b == [start |-> stack_begin(address, len), size |-> STACK_SIZE]
           names == <<"clint", "uart", "virtio", "plic", "bootloader">>
           u == << <<"ram", a>>, <<"stack", b>> >>
           v == [i \in 1 .. 5 |-> <<names[i], Fixed[names[i]]>>]
<1>1. a \in Window /\ b \in Window /\ Meets(a, b)
  BY StackMeetsRam, MapAssumption DEF Window, Meets
<1>2. calls = u \o v
  BY DEF xv6_calls, call, stack_begin
<1> HIDE DEF a, b
<1>3. /\ u \in Seq(Devices \X Window) /\ Len(u) = 2
      /\ u[1][1] = "ram" /\ u[2][1] = "stack" /\ u[1][2] = a /\ u[2][2] = b
  BY <1>1, FixedWindows
<1>4. /\ \A i \in 1 .. 5 : names[i] \in FixedDevices
      /\ \A i, j \in 1 .. 5 : i # j => names[i] # names[j]
  BY DEF FixedDevices
<1> HIDE DEF names, u
<1>5. /\ v \in Seq(Devices \X Window) /\ Len(v) = 5
      /\ \A i \in 1 .. 5 : v[i][1] = names[i] /\ v[i][2] = Fixed[names[i]]
  BY <1>4, FixedWindows
<1> HIDE DEF v
<1>6. /\ calls \in Seq(Devices \X Window) /\ Len(calls) = 7
      /\ calls[1] = u[1] /\ calls[2] = u[2] /\ \A i \in 3 .. 7 : calls[i] = v[i - 2]
  <2> DEFINE C == Devices \X Window
  <2>0. u \in Seq(C) /\ v \in Seq(C)
    BY <1>3, <1>5
  <2> HIDE DEF C
  <2>1. /\ u \o v \in Seq(C) /\ Len(u \o v) = Len(u) + Len(v)
        /\ \A i \in 1 .. Len(u) + Len(v) :
              (u \o v)[i] = IF i <= Len(u) THEN u[i] ELSE v[i - Len(u)]
    BY <2>0, ConcatProperties
  <2>2. /\ u \o v \in Seq(Devices \X Window) /\ Len(u \o v) = 7
        /\ \A i \in 1 .. 7 : (u \o v)[i] = IF i <= 2 THEN u[i] ELSE v[i - 2]
    BY <1>3, <1>5, <2>1 DEF C
  <2>3. \A i \in 3 .. 7 : i \in 1 .. 7 /\ ~(i <= 2)
    OBVIOUS
  <2>4. (u \o v)[1] = u[1] /\ (u \o v)[2] = u[2] /\ \A i \in 3 .. 7 : (u \o v)[i] = v[i - 2]
    BY <2>2, <2>3
  <2> QED
    BY <1>2, <2>2, <2>4
<1>7. /\ calls[1][1] = "ram" /\ calls[2][1] = "stack" /\ calls[1][2] = a /\ calls[2][2] = b
      /\ \A i \in 3 .. 7 : calls[i][1] = names[i - 2] /\ calls[i][2] = Fixed[names[i - 2]]
  <2>1. \A i \in 3 .. 7 : i - 2 \in 1 .. 5
    OBVIOUS
  <2> QED
    BY <1>3, <1>5, <1>6, <2>1
<1>8. \A i \in 3 .. 7 : calls[i][1] \in FixedDevices
  <2>1. \A i \in 3 .. 7 : i - 2 \in 1 .. 5
    OBVIOUS
  <2> QED
    BY <1>4, <1>7, <2>1
<1>9. \A i \in 1 .. 7 : i = 1 \/ i = 2 \/ i \in 3 .. 7
  OBVIOUS
<1>10. ASSUME NEW i \in 1 .. 7, NEW j \in 1 .. 7, i # j PROVE calls[i][1] # calls[j][1]
  <2>1. CASE i \in 3 .. 7 /\ j \in 3 .. 7
    <3>1. i - 2 \in 1 .. 5 /\ j - 2 \in 1 .. 5 /\ i - 2 # j - 2
      BY <1>10, <2>1
    <3> QED
      BY <1>4, <1>7, <2>1, <3>1
  <2> QED
    BY <1>7, <1>8, <1>9, <1>10, <2>1, FixedWindows
<1>11. ASSUME NEW i \in 1 .. 7
       PROVE  /\ range[calls[i][1]] = NONE
              /\ calls[i][1] \in FixedDevices => calls[i][2] = Fixed[calls[i][1]]
  BY <1>7, <1>8, <1>9, FixedWindows
<1>12. ToSet
  BY <1>6, <1>10, <1>11 DEF ToSet
<1>13. Fixes(3)
  BY <1>6, <1>8 DEF Fixes
<1> QED
  BY <1>1, <1>6, <1>7, <1>12, <1>13, FixedWindows DEF RamFirst

LEMMA BusStarts == Init => BusInv /\ HartsInv
<1> SUFFICES ASSUME Init PROVE BusInv /\ HartsInv
  OBVIOUS
<1>1. range = [d \in Devices |-> NONE] /\ range_manager = <<>> /\ result = "building"
  BY DEF Init
<1>2. ToSet /\ RamFirst /\ ncpu \in Nat
  <2>1. PICK address \in Addresses, len \in Lengths :
            \/ ncpu = 1 /\ calls = generic_calls(address, len)
            \/ ncpu \in Ncpus /\ calls = xv6_calls(address, len)
    BY DEF Init
  <2>2. ToSet /\ RamFirst
    BY <1>1, <2>1, GenericCalls, Xv6Calls, Zenon
  <2>3. ncpu = 1 \/ ncpu \in Ncpus
    BY <2>1, Zenon
  <2>4. ncpu \in Nat
    <3>1. \A n \in Ncpus : n \in Nat
      BY HartsAssumption
    <3> QED
      BY <2>3, <3>1
  <2> QED
    BY <2>2, <2>4
<1>3. Listed(range_manager, range)
  BY <1>1, FixedWindows DEF Listed, Sorted
<1>4. ClearOfMemory(range)
  BY <1>1, FixedWindows DEF ClearOfMemory
<1>5. calls # <<>>
  BY <1>2 DEF RamFirst
<1> QED
  BY <1>1, <1>2, <1>3, <1>4, <1>5, FixedWindows DEF BusInv, HartsInv

\* A set_* call that succeeds, of the device d with the range r.
Sets(d, r) == /\ calls # <<>> /\ d = calls[1][1] /\ r = calls[1][2]
              /\ r.size > 0 /\ fits(range_manager, r)
              /\ range_manager' = add_range(range_manager, r)
              /\ range' = [range EXCEPT ![d] = r]
              /\ calls' = Tail(calls)

LEMMA NextCall ==
    ASSUME ToSet, calls # <<>>
    PROVE  /\ Len(calls) \in Nat \ {0} /\ Head(calls) = calls[1]
           /\ calls[1][1] \in Devices /\ calls[1][2] \in Window
           /\ range[calls[1][1]] = NONE
           /\ calls[1][1] \in FixedDevices => calls[1][2] = Fixed[calls[1][1]]
           /\ Tail(calls) \in Seq(Devices \X Window) /\ Len(Tail(calls)) = Len(calls) - 1
           /\ \A i \in 1 .. (Len(calls) - 1) : Tail(calls)[i] = calls[i + 1]
<1> DEFINE C == Devices \X Window
<1>1. calls \in Seq(C)
  BY DEF ToSet
<1>2. \A c \in C : c[1] \in Devices /\ c[2] \in Window
  OBVIOUS
<1> HIDE DEF C
<1>3. Len(calls) \in Nat \ {0} /\ Head(calls) = calls[1] /\ calls[1] \in C
  BY <1>1
<1>4. /\ Tail(calls) \in Seq(C) /\ Len(Tail(calls)) = Len(calls) - 1
      /\ \A i \in 1 .. (Len(calls) - 1) : Tail(calls)[i] = calls[i + 1]
  BY <1>1, <1>3
<1>5. 1 \in 1 .. Len(calls)
  BY <1>3
<1>6. range[calls[1][1]] = NONE /\ (calls[1][1] \in FixedDevices => calls[1][2] = Fixed[calls[1][1]])
  BY <1>5 DEF ToSet
<1> QED
  BY <1>2, <1>3, <1>4, <1>6 DEF C

LEMMA SetRanges ==
    ASSUME BusInv, NEW d, NEW r, Sets(d, r)
    PROVE  /\ d \in Devices /\ r \in Window /\ range[d] = NONE
           /\ d \in FixedDevices => r = Fixed[d]
           /\ range' \in [Devices -> Window] /\ range'[d] = r
           /\ \A e \in Devices : e # d => range'[e] = range[e]
<1>1. d \in Devices /\ r \in Window /\ range[d] = NONE /\ (d \in FixedDevices => r = Fixed[d])
  BY NextCall DEF BusInv, Sets
<1>2. range \in [Devices -> Window] /\ range' = [range EXCEPT ![d] = r]
  BY DEF BusInv, Sets
<1> QED
  BY <1>1, <1>2

LEMMA SetLists == ASSUME BusInv, NEW d, NEW r, Sets(d, r) PROVE Listed(range_manager, range)'
<1> DEFINE rm == range_manager
           q  == range_manager'
<1>1. /\ rm \in Seq(Window) /\ Sorted(rm)
      /\ \A i \in 1 .. Len(rm) : rm[i].size > 0 /\ \E e \in Devices : rm[i] = range[e]
      /\ \A e \in Devices : range[e].size > 0 => \E i \in 1 .. Len(rm) : rm[i] = range[e]
  BY DEF BusInv, Listed
<1>2. /\ d \in Devices /\ r \in Window /\ range[d] = NONE /\ range'[d] = r
      /\ \A e \in Devices : e # d => range'[e] = range[e]
  BY SetRanges
<1>3. fits(rm, r) /\ q = add_range(rm, r) /\ r.size > 0
  BY DEF Sets
<1> HIDE DEF rm, q
<1>4. /\ q \in Seq(Window) /\ Sorted(q)
      /\ \A i \in 1 .. Len(q) : q[i] = r \/ \E j \in 1 .. Len(rm) : q[i] = rm[j]
      /\ \E i \in 1 .. Len(q) : q[i] = r
      /\ \A j \in 1 .. Len(rm) : \E i \in 1 .. Len(q) : q[i] = rm[j]
  <2>1. Extends(add_range(rm, r), rm, r)
    BY <1>1, <1>2, <1>3, AddedIsSorted
  <2>2. Extends(q, rm, r)
    BY <1>3, <2>1
  <2> QED
    BY <2>2 DEF Extends
<1>5. ~(NONE.size > 0)
  BY FixedWindows
<1>6. ASSUME NEW j \in 1 .. Len(rm) PROVE rm[j].size > 0 /\ \E e \in Devices : rm[j] = range'[e]
  <2>1. PICK e \in Devices : rm[j] = range[e] /\ rm[j].size > 0
    BY <1>1
  <2>2. e # d
    BY <1>2, <1>5, <2>1
  <2> QED
    BY <1>2, <2>1, <2>2
<1>7. \A i \in 1 .. Len(q) : q[i].size > 0 /\ \E e \in Devices : q[i] = range'[e]
  BY <1>2, <1>3, <1>4, <1>6
<1>8. ASSUME NEW e \in Devices, range'[e].size > 0 PROVE \E i \in 1 .. Len(q) : q[i] = range'[e]
  <2>1. CASE e = d
    BY <1>2, <1>4, <2>1
  <2>2. CASE e # d
    BY <1>1, <1>2, <1>4, <1>8, <2>2
  <2> QED
    BY <2>1, <2>2
<1>9. q \in Seq(Window) /\ Sorted(q)
  BY <1>4
<1> QED
  BY <1>7, <1>8, <1>9 DEF Listed, q, Sorted, Window

LEMMA SetClears == ASSUME BusInv, NEW d, NEW r, Sets(d, r) PROVE ClearOfMemory(range)'
<1>1. /\ d \in Devices /\ r \in Window /\ range'[d] = r
      /\ \A e \in Devices : e # d => range'[e] = range[e]
  BY SetRanges
<1>2. CASE d \in FixedDevices
  <2>1. ASSUME NEW e \in {"ram", "stack"}, range[e].size > 0, r.start < range[e].start
        PROVE  end(r) <= range[e].start
    <3>1. range_manager \in Seq(Window) /\ Sorted(range_manager) /\ fits(range_manager, r)
      BY DEF BusInv, Listed, Sets
    <3>2. e \in Devices
      BY FixedWindows
    <3>3. PICK i \in 1 .. Len(range_manager) : range_manager[i] = range[e]
      BY <2>1, <3>2 DEF BusInv, Listed
    <3>4. range[e].start \in Nat /\ r.start \in Nat
      BY <1>1, <3>2, WindowFields DEF BusInv
    <3>5. range[e].start < r.start <=> i <= below(range_manager, r.start)
      BY <3>1, <3>3, <3>4, PartitionPoint
    <3>6. below(range_manager, r.start) \in Nat /\ i \in Nat
      <4>1. below(range_manager, r.start) \in 0 .. Len(range_manager)
        BY <3>1, <3>4, PartitionPoint, Zenon
      <4>2. Len(range_manager) \in Nat
        BY <3>1
      <4> QED
        BY <4>1, <4>2
    <3>7. i > below(range_manager, r.start)
      BY <2>1, <3>4, <3>5, <3>6
    <3> QED
      BY <1>1, <3>1, <3>3, <3>7, Fits
  <2>2. \A e \in {"ram", "stack"} : range'[e] = range[e]
    BY <1>1, <1>2, FixedWindows
  <2>3. \A f \in FixedDevices : f # d => range'[f] = range[f]
    BY <1>1, FixedWindows
  <2>4. ClearOfMemory(range)
    BY DEF BusInv
  <2> QED
    BY <1>1, <2>1, <2>2, <2>3, <2>4 DEF ClearOfMemory, end, FixedDevices
<1>3. CASE d \notin FixedDevices
  <2>1. \A f \in FixedDevices : range[f] = NONE
    <3>1. calls # <<>> /\ d = calls[1][1] /\ Len(calls) \in Nat \ {0}
      BY NextCall DEF BusInv, Sets
    <3>2. ~Fixes(1)
      BY <1>3, <3>1 DEF Fixes
    <3> QED
      BY <3>2 DEF BusInv, RamFirst, StackSecond, DevicesLast
  <2>2. \A f \in FixedDevices : f \in Devices /\ f # d
    BY <1>3, FixedWindows
  <2>3. \A f \in FixedDevices : range'[f].size = 0
    BY <1>1, <2>1, <2>2, FixedWindows
  <2> QED
    BY <2>3 DEF ClearOfMemory, FixedDevices
<1> QED
  BY <1>2, <1>3

LEMMA SetSteps ==
    ASSUME BusInv, NEW d, NEW r, Sets(d, r)
    PROVE  ToSet' /\ (RamFirst \/ StackSecond \/ DevicesLast)'
<1> DEFINE n == Len(calls)
           t == calls'
<1>1. /\ d \in Devices /\ r \in Window /\ range'[d] = r
      /\ \A e \in Devices : e # d => range'[e] = range[e]
  BY SetRanges
<1>2. /\ n \in Nat \ {0} /\ d = calls[1][1] /\ r = calls[1][2]
      /\ t \in Seq(Devices \X Window) /\ Len(t) = n - 1
      /\ \A i \in 1 .. (n - 1) : t[i] = calls[i + 1]
  BY NextCall DEF BusInv, Sets
<1>3. /\ calls \in Seq(Devices \X Window)
      /\ \A i \in 1 .. n : range[calls[i][1]] = NONE
      /\ \A i \in 1 .. n : calls[i][1] \in FixedDevices => calls[i][2] = Fixed[calls[i][1]]
      /\ \A i, j \in 1 .. n : i # j => calls[i][1] # calls[j][1]
  BY DEF BusInv, ToSet
<1>4. \A i \in 1 .. n : calls[i][1] \in Devices
  <2>1. \A i \in 1 .. n : calls[i] \in Devices \X Window
    BY <1>3
  <2> QED
    BY <2>1
<1>5. BusInv
  OBVIOUS
<1> HIDE DEF n, t
<1>6. \A i \in 1 .. (n - 1) : i \in 1 .. n /\ i + 1 \in 1 .. n /\ i + 1 # 1 /\ 1 \in 1 .. n
  BY <1>2
<1>7. ASSUME NEW i \in 1 .. (n - 1)
      PROVE  /\ range'[t[i][1]] = NONE
             /\ t[i][1] \in FixedDevices => t[i][2] = Fixed[t[i][1]]
  <2>1. t[i] = calls[i + 1] /\ i + 1 \in 1 .. n /\ i + 1 # 1 /\ 1 \in 1 .. n
    BY <1>2, <1>6
  <2>2. calls[i + 1][1] # d /\ calls[i + 1][1] \in Devices
    BY <1>2, <1>3, <1>4, <2>1
  <2> QED
    BY <1>1, <1>3, <2>1, <2>2
<1>8. ASSUME NEW i \in 1 .. (n - 1), NEW j \in 1 .. (n - 1), i # j
      PROVE  t[i][1] # t[j][1]
  <2>1. i + 1 \in 1 .. n /\ j + 1 \in 1 .. n /\ i + 1 # j + 1
    BY <1>2, <1>8
  <2>2. t[i] = calls[i + 1] /\ t[j] = calls[j + 1]
    BY <1>2
  <2>3. calls[i + 1][1] # calls[j + 1][1]
    BY <1>3, <2>1
  <2> QED
    BY <2>2, <2>3
<1>9. ToSet'
  BY <1>2, <1>7, <1>8 DEF ToSet, t, Devices, FixedDevices, Window, NONE
<1>10. ASSUME NEW k \in Nat \ {0}, Fixes(k + 1) PROVE Fixes(k)'
  <2>1. ASSUME NEW j \in k .. Len(t) PROVE t[j][1] \in FixedDevices
    <3>1. j \in 1 .. (n - 1) /\ j + 1 \in (k + 1) .. n
      BY <1>2, <2>1
    <3> QED
      BY <1>2, <1>10, <3>1 DEF Fixes, n
  <2> QED
    BY <2>1 DEF Fixes, t, FixedDevices
<1>11. CASE RamFirst
  <2>1. n >= 2 /\ d = "ram" /\ t[1] = calls[2]
    BY <1>2, <1>11 DEF RamFirst, n
  <2>2. Fixes(2)'
    BY <1>10, <1>11 DEF RamFirst
  <2>3. \A f \in FixedDevices : range'[f] = NONE
    BY <1>1, <1>11, <2>1, FixedWindows DEF RamFirst
  <2>4. t[1][1] = "stack" /\ Meets(range'["ram"], t[1][2]) /\ Len(t) >= 1
    BY <1>1, <1>2, <1>11, <2>1 DEF RamFirst, Meets
  <2> QED
    BY <1>9, <2>2, <2>3, <2>4 DEF StackSecond, t, Meets, FixedDevices
<1>12. CASE StackSecond
  <2>1. d = "stack" /\ range'["ram"] = range["ram"] /\ range'["stack"] = calls[1][2]
    BY <1>1, <1>2, <1>12, FixedWindows DEF StackSecond
  <2>2. Fixes(1)'
    BY <1>10, <1>12 DEF StackSecond
  <2>3. Meets(range'["ram"], range'["stack"])
    BY <1>12, <2>1 DEF StackSecond
  <2> QED
    BY <1>9, <2>2, <2>3 DEF DevicesLast, Meets
<1>13. CASE DevicesLast
  <2>1. d \in FixedDevices /\ Fixes(2)
    BY <1>2, <1>13 DEF DevicesLast, Fixes, n
  <2>2. range'["ram"] = range["ram"] /\ range'["stack"] = range["stack"]
    BY <1>1, <2>1, FixedWindows
  <2>3. Fixes(1)'
    BY <1>10, <2>1
  <2>4. Meets(range'["ram"], range'["stack"])
    BY <1>13, <2>2 DEF DevicesLast
  <2> QED
    BY <1>9, <2>3, <2>4 DEF DevicesLast, Meets
<1> QED
  BY <1>5, <1>11, <1>12, <1>13 DEF BusInv

LEMMA SetKeeps == ASSUME BusInv, NEW d, NEW r, Sets(d, r) PROVE BusInv'
<1>1. /\ range' \in [Devices -> Window] /\ range'[d] = r
      /\ d \in FixedDevices => r = Fixed[d]
      /\ \A e \in Devices : e # d => range'[e] = range[e]
  BY SetRanges
<1>2. \A e \in FixedDevices : range'[e] \in {NONE, Fixed[e]}
  BY <1>1, FixedWindows DEF BusInv
<1>3. Listed(range_manager, range)' /\ ClearOfMemory(range)'
  BY SetLists, SetClears
<1>4. ToSet' /\ (RamFirst \/ StackSecond \/ DevicesLast)'
  BY SetSteps
<1> QED
  BY <1>1, <1>2, <1>3, <1>4 DEF BusInv, Devices, FixedDevices, Window, NONE

LEMMA BusUnchanged ==
    ASSUME BusInv, UNCHANGED <<range_manager, range, calls>> PROVE BusInv'
BY DEF BusInv, ToSet, RamFirst, StackSecond, DevicesLast, Fixes, Meets, Listed, Sorted,
       ClearOfMemory, end, Devices, FixedDevices, Window, NONE

LEMMA BusKeeps == ASSUME BusInv, HartsInv, [Next]_vars PROVE BusInv' /\ HartsInv'
<1>1. CASE UNCHANGED vars
  <2>1. BusInv'
    BY <1>1, BusUnchanged DEF vars
  <2>2. HartsInv'
    BY <1>1 DEF vars, HartsInv, ncpu_ok, max_ncpu, add_ok, overflows, fits, partition_point, end
  <2> QED
    BY <2>1, <2>2
<1>2. CASE RefuseHarts
  <2>1. BusInv'
    BY <1>2, BusUnchanged DEF RefuseHarts
  <2>2. ncpu' = ncpu /\ calls' = calls /\ ~ncpu_ok /\ result' = "err"
    BY <1>2 DEF RefuseHarts
  <2>3. ~ncpu_ok'
    BY <2>2 DEF ncpu_ok, max_ncpu
  <2> QED
    BY <2>1, <2>2, <2>3 DEF HartsInv
<1>3. CASE SetDevice
  <2> DEFINE d == Head(calls)[1]
             r == Head(calls)[2]
  <2>1. result = "building" /\ ncpu_ok /\ calls # <<>> /\ ncpu' = ncpu
    BY <1>3 DEF SetDevice
  <2>2. ncpu_ok' /\ ncpu' \in Nat
    BY <2>1 DEF HartsInv, ncpu_ok, max_ncpu
  <2>3. CASE add_ok(range_manager, r)
    <3>1. /\ range_manager' = add_range(range_manager, r) /\ range' = [range EXCEPT ![d] = r]
          /\ calls' = Tail(calls) /\ result' = result
      BY <1>3, <2>3 DEF SetDevice
    <3>2. d = calls[1][1] /\ r = calls[1][2] /\ r \in Window
      BY <2>1, NextCall DEF BusInv
    <3>3. r.size > 0 /\ fits(range_manager, r)
      BY <2>3, <3>2, WindowFields DEF add_ok
    <3> HIDE DEF d, r
    <3>4. Sets(d, r)
      BY <2>1, <3>1, <3>2, <3>3 DEF Sets
    <3>5. BusInv'
      BY <3>4, SetKeeps
    <3> QED
      BY <2>1, <2>2, <3>1, <3>5 DEF HartsInv
  <2>4. CASE ~add_ok(range_manager, r)
    <3>1. result' = "err" /\ UNCHANGED <<range_manager, range, calls>>
      BY <1>3, <2>4 DEF SetDevice
    <3>2. BusInv'
      BY <3>1, BusUnchanged
    <3>3. ~add_ok(range_manager, Head(calls)[2])'
      BY <2>4, <3>1 DEF add_ok, overflows, fits, partition_point, end
    <3> QED
      BY <2>2, <3>1, <3>2, <3>3 DEF HartsInv
  <2> QED
    BY <2>3, <2>4
<1>4. CASE Built
  <2>1. BusInv'
    BY <1>4, BusUnchanged DEF Built
  <2>2. ncpu_ok /\ ncpu' = ncpu /\ ncpu \in Nat /\ result' = "ok"
    BY <1>4 DEF Built, HartsInv
  <2>3. ncpu_ok'
    BY <2>2 DEF ncpu_ok, max_ncpu
  <2> QED
    BY <2>1, <2>2, <2>3 DEF HartsInv
<1> QED
  BY <1>1, <1>2, <1>3, <1>4 DEF Next

LEMMA BusAlways == Spec => [](BusInv /\ HartsInv)
BY BusStarts, BusKeeps, PTL DEF Spec

\* RangeManager::add_range turns away no free range, whatever has been added
\* before and wherever windows touch: the comparisons of its binary search are
\* not off by one.
THEOREM DisjointAccepted == Spec => []DisjointIsAccepted
<1>1. BusInv => DisjointIsAccepted
  <2> SUFFICES ASSUME BusInv,
                      NEW start \in 0 .. (AddrSpace - 1), NEW size \in 1 .. STACK_SIZE,
                      ~overflows(start, size),
                      \A d \in Devices : ~Overlap([start |-> start, size |-> size], range[d])
               PROVE  add_ok(range_manager, [start |-> start, size |-> size])
    BY DEF DisjointIsAccepted
  <2> DEFINE r  == [start |-> start, size |-> size]
             rm == range_manager
             p  == below(rm, start)
  <2>1. start \in Nat /\ size \in Nat \ {0}
    BY MapAssumption
  <2>2. r.start = start /\ r.size = size /\ end(r) = start + size
    BY DEF end
  <2>3. rm \in Seq(Window) /\ Sorted(rm) /\ Len(rm) \in Nat
    BY DEF BusInv, Listed
  <2>4. p \in 0 .. Len(rm) /\ \A i \in 1 .. Len(rm) : rm[i].start < start <=> i <= p
    BY <2>1, <2>3, PartitionPoint
  <2>5. \A i \in 1 .. Len(rm) : rm[i].size > 0 /\ ~Overlap(r, rm[i])
    BY DEF BusInv, Listed
  <2>6. fits(rm, r) <=> IF p = Len(rm) THEN p > 0 => end(rm[p]) <= start
                        ELSE rm[p + 1].start # start /\ start + size <= rm[p + 1].start
    BY <2>2 DEF fits, below
  <2> HIDE DEF r, rm, p
  <2>7. \A i \in 1 .. Len(rm) : /\ rm[i].start \in Nat /\ rm[i].size \in Nat
                                /\ end(rm[i]) = rm[i].start + rm[i].size
    BY <2>3, WindowFields
  <2>8. \A i \in 1 .. Len(rm) : ~(start < end(rm[i]) /\ rm[i].start < start + size)
    BY <2>1, <2>2, <2>5 DEF Overlap
  <2>9. fits(rm, r)
    <3>1. CASE p = Len(rm)
      <4>1. ASSUME p > 0 PROVE end(rm[p]) <= start
        <5>1. p \in 1 .. Len(rm) /\ p <= p
          BY <2>3, <2>4, <3>1, <4>1
        <5>2. rm[p].start < start
          BY <2>4, <5>1
        <5> QED
          BY <2>1, <2>7, <2>8, <5>1, <5>2
      <4> QED
        BY <2>6, <3>1, <4>1
    <3>2. CASE p # Len(rm)
      <4>1. p + 1 \in 1 .. Len(rm) /\ ~(p + 1 <= p)
        BY <2>3, <2>4, <3>2
      <4>2. ~(rm[p + 1].start < start)
        BY <2>4, <4>1
      <4>3. rm[p + 1].start # start /\ start + size <= rm[p + 1].start
        BY <2>1, <2>5, <2>7, <2>8, <4>1, <4>2
      <4> QED
        BY <2>6, <3>2, <4>3
    <3> QED
      BY <3>1, <3>2
  <2>10. add_ok(rm, r)
    BY <2>1, <2>2, <2>9 DEF add_ok
  <2> QED
    BY <2>10 DEF r, rm
<1> QED
  BY <1>1, BusAlways, PTL

-----------------------------------------------------------------------------
(* Dispatch. *)

LEMMA ChainDevices == /\ \A i \in 1 .. 7 : Chain[i] \in Devices /\ Chain[i] # "err"
                      /\ \A d \in Devices : \E i \in 1 .. 7 : Chain[i] = d
BY DEF Chain, Devices, FixedDevices

\* A set of places in the chain has a first one.
LEMMA First == ASSUME NEW H \in SUBSET (1 .. 7), H # {}
               PROVE  \E i \in H : \A j \in H : i <= j
<1>1. CASE 1 \in H
  BY <1>1
<1>2. CASE 1 \notin H /\ 2 \in H
  BY <1>2
<1>3. CASE 1 \notin H /\ 2 \notin H /\ 3 \in H
  BY <1>3
<1>4. CASE 1 \notin H /\ 2 \notin H /\ 3 \notin H /\ 4 \in H
  BY <1>4
<1>5. CASE 1 \notin H /\ 2 \notin H /\ 3 \notin H /\ 4 \notin H /\ 5 \in H
  BY <1>5
<1>6. CASE 1 \notin H /\ 2 \notin H /\ 3 \notin H /\ 4 \notin H /\ 5 \notin H
  <2>1. \A i \in H : i = 6 \/ i = 7
    BY <1>6
  <2>2. CASE 6 \in H
    BY <2>1, <2>2
  <2>3. CASE 6 \notin H
    <3>1. \A i \in H : i = 7
      BY <2>1, <2>3
    <3>2. 7 \in H
      BY <3>1
    <3> QED
      BY <3>1, <3>2
  <2> QED
    BY <2>2, <2>3
<1> QED
  BY <1>1, <1>2, <1>3, <1>4, <1>5, <1>6

LEMMA Dispatch ==
    ASSUME NEW address, NEW size
    PROVE  /\ dispatch(address, size) = "err" => \A d \in Devices : ~contains(range[d], address, size)
           /\ dispatch(address, size) # "err" =>
                 /\ dispatch(address, size) \in Devices
                 /\ contains(range[dispatch(address, size)], address, size)
<1> DEFINE hits == {i \in 1 .. 7 : contains(range[Chain[i]], address, size)}
           k == CHOOSE i \in hits : \A j \in hits : i <= j
<1>1. dispatch(address, size) = IF hits = {} THEN "err" ELSE Chain[k]
  BY DEF dispatch
<1>2. hits # {} => k \in hits
  <2>1. hits \in SUBSET (1 .. 7)
    OBVIOUS
  <2> HIDE DEF hits
  <2>2. hits # {} => \E i \in hits : \A j \in hits : i <= j
    BY <2>1, First
  <2> QED
    BY <2>2, Zenon
<1> HIDE DEF k
<1>3. hits = {} => \A d \in Devices : ~contains(range[d], address, size)
  BY ChainDevices
<1>4. hits # {} => Chain[k] \in Devices /\ Chain[k] # "err" /\ contains(range[Chain[k]], address, size)
  BY <1>2, ChainDevices
<1> HIDE DEF hits
<1> QED
  BY <1>1, <1>3, <1>4

LEMMA GetRange ==
    ASSUME NEW rm \in Seq(Window), Sorted(rm), NEW address \in Nat, NEW size \in Nat, NEW p,
           p = upto(rm, address)
    PROVE  /\ p \in 0 .. Len(rm) /\ \A i \in 1 .. Len(rm) : rm[i].start <= address <=> i <= p
           /\ get_range(rm, address, size) =
                 IF overflows(address, size) \/ p = 0 \/ address + size > end(rm[p])
                 THEN NONE ELSE rm[p]
<1>1. /\ upto(rm, address) \in 0 .. Len(rm)
      /\ \A i \in 1 .. Len(rm) : rm[i].start <= address <=> i <= upto(rm, address)
  BY PartitionPoint
<1> QED
  BY <1>1 DEF get_range, upto

\* The chain of range checks in Bus::read and Bus::write gives an access to the
\* device that RangeManager::get_range would find, except where add_range let a
\* window begin inside another one; and then it is RAM or stack that answers.
THEOREM DispatchAgrees == Spec => []DispatchAgreesWithRangeManager
<1>1. BusInv => DispatchAgreesWithRangeManager
  <2> SUFFICES ASSUME BusInv, NEW address \in 0 .. (AddrSpace - 1), NEW size \in AccessSizes
               PROVE  LET d == dispatch(address, size)
                          r == get_range(range_manager, address, size)
                      IN  IF d = "err" THEN r = NONE
                          ELSE r # range[d] =>
                                  /\ d \in {"ram", "stack"}
                                  /\ \E e \in Devices \ {d} : Overlap(range[e], range[d])
    BY DEF DispatchAgreesWithRangeManager
  <2> DEFINE rm == range_manager
             d  == dispatch(address, size)
             r  == get_range(rm, address, size)
             p  == upto(rm, address)
  <2>1. address \in Nat /\ size \in Nat \ {0}
    BY MapAssumption
  <2>2. /\ rm \in Seq(Window) /\ Sorted(rm) /\ Len(rm) \in Nat
        /\ \A i \in 1 .. Len(rm) : rm[i].size > 0 /\ \E e \in Devices : rm[i] = range[e]
        /\ \A e \in Devices : range[e].size > 0 => \E i \in 1 .. Len(rm) : rm[i] = range[e]
    BY DEF BusInv, Listed
  <2>3. /\ p \in 0 .. Len(rm) /\ \A i \in 1 .. Len(rm) : rm[i].start <= address <=> i <= p
        /\ r = IF overflows(address, size) \/ p = 0 \/ address + size > end(rm[p]) THEN NONE ELSE rm[p]
    BY <2>1, <2>2, GetRange
  <2>4. range \in [Devices -> Window]
    BY DEF BusInv
  <2>5. \A e \in Devices : /\ range[e].start \in Nat /\ range[e].size \in Nat
                          /\ end(range[e]) = range[e].start + range[e].size
    BY <2>4, WindowFields
  <2>6. /\ d = "err" => \A e \in Devices : ~contains(range[e], address, size)
        /\ d # "err" => d \in Devices /\ contains(range[d], address, size)
    BY Dispatch
  <2> HIDE DEF rm, d, r, p
  <2>7. ASSUME d = "err" PROVE r = NONE
    <3> SUFFICES ASSUME ~overflows(address, size), p # 0, ~(address + size > end(rm[p])) PROVE FALSE
      BY <2>3
    <3>1. p \in 1 .. Len(rm) /\ p <= p
      BY <2>2, <2>3
    <3>2. PICK e \in Devices : rm[p] = range[e]
      BY <2>2, <3>1
    <3>3. range[e].start <= address
      BY <2>3, <3>1, <3>2
    <3>4. contains(range[e], address, size)
      BY <2>1, <2>5, <3>2, <3>3 DEF contains
    <3> QED
      BY <2>6, <2>7, <3>4
  <2>8. ASSUME d # "err", r # range[d]
        PROVE  d \in {"ram", "stack"} /\ \E e \in Devices \ {d} : Overlap(range[e], range[d])
    <3>1. /\ d \in Devices /\ ~overflows(address, size)
          /\ range[d].start <= address /\ address + size <= end(range[d])
      BY <2>1, <2>5, <2>6, <2>8 DEF contains
    <3>2. range[d].size > 0
      BY <2>1, <2>5, <3>1
    <3>3. PICK i \in 1 .. Len(rm) : rm[i] = range[d]
      BY <2>2, <3>1, <3>2
    <3>4. i <= p
      BY <2>3, <3>1, <3>3
    <3>5. i # p
      <4>1. SUFFICES ASSUME i = p PROVE FALSE
        OBVIOUS
      <4>2. p # 0 /\ ~(address + size > end(rm[p])) /\ rm[p] = range[d]
        BY <2>1, <2>2, <2>5, <3>1, <3>3, <4>1
      <4> QED
        BY <2>3, <2>8, <3>1, <4>2
    <3>6. p \in 1 .. Len(rm) /\ i < p /\ p <= p
      BY <2>2, <2>3, <3>4, <3>5
    <3>7. PICK e \in Devices : rm[p] = range[e] /\ rm[p].size > 0
      BY <2>2, <3>6
    <3>8. range[d].start < range[e].start
      BY <2>2, <3>3, <3>6, <3>7 DEF Sorted
    <3>9. range[e].start <= address
      BY <2>3, <3>6, <3>7
    <3>10. range[e].start < end(range[d]) /\ range[d].start < end(range[e]) /\ range[e].size > 0
      <4>1. range[e].size > 0
        BY <3>7
      <4>2. /\ range[e].start \in Nat /\ range[e].size \in Nat
            /\ end(range[e]) = range[e].start + range[e].size
            /\ range[d].start \in Nat /\ end(range[d]) \in Nat
        BY <2>5, <3>1
      <4> QED
        BY <2>1, <3>1, <3>8, <3>9, <4>1, <4>2
    <3>11. e # d
      BY <2>5, <3>1, <3>8
    <3>12. Overlap(range[e], range[d])
      BY <3>2, <3>10 DEF Overlap
    <3>13. ASSUME d \in FixedDevices PROVE FALSE
      <4>1. range[d] = Fixed[d]
        BY <3>2, <3>13, FixedWindows DEF BusInv
      <4>2. CASE e \in FixedDevices
        <5>1. range[e] = Fixed[e]
          BY <3>10, <4>2, FixedWindows DEF BusInv
        <5> QED
          BY <3>11, <3>12, <3>13, <4>1, <4>2, <5>1, MapAssumption
      <4>3. CASE e \in {"ram", "stack"}
        <5>1. end(range[d]) <= range[e].start
          BY <3>2, <3>8, <3>10, <3>13, <4>3 DEF BusInv, ClearOfMemory
        <5> QED
          BY <2>5, <3>1, <3>7, <3>10, <5>1
      <4> QED
        BY <4>2, <4>3, FixedWindows
    <3>14. e \in Devices \ {d} /\ Overlap(range[e], range[d])
      BY <3>11, <3>12
    <3>15. d = "ram" \/ d = "stack"
      BY <3>1, <3>13, FixedWindows
    <3> QED
      BY <3>14, <3>15, Zenon
  <2> QED
    BY <2>7, <2>8 DEF d, r, rm
<1> QED
  BY <1>1, BusAlways, PTL

\* An aligned access is never refused between two windows: Bus::read and
\* Bus::write serve it whenever they serve its bytes, also where RAM and stack
\* meet and where stack_begin has wrapped, for every page size and address space
\* that the access sizes divide.
THEOREM AlignedServed == Spec => []AlignedAccessIsServed
<1>1. BusInv => AlignedAccessIsServed
  <2> SUFFICES ASSUME BusInv, NEW address \in 0 .. (AddrSpace - 1), NEW size \in AccessSizes,
                      address % size = 0,
                      \A s \in AccessSizes : range["ram"].start % s = 0,
                      \A b \in address .. (address + size - 1) : b < AddrSpace /\ dispatch(b, 1) # "err"
               PROVE  dispatch(address, size) # "err"
    BY DEF AlignedAccessIsServed
  <2> DEFINE b == address + size - 1
             d == dispatch(b, 1)
  <2>1. /\ address \in Nat /\ size \in Nat \ {0} /\ AddrSpace \in Nat
        /\ b \in address .. (address + size - 1) /\ b \in Nat /\ b + 1 = address + size
    BY MapAssumption
  <2>2. d # "err"
    BY <2>1
  <2>3. d \in Devices /\ contains(range[d], b, 1)
    BY <2>2, Dispatch
  <2>4. range[d].start \in Nat /\ range[d].size \in Nat /\ end(range[d]) \in Nat
    BY <2>3, WindowFields DEF BusInv
  <2> HIDE DEF b, d
  <2>5. range[d].start <= b /\ b + 1 <= end(range[d]) /\ b + 1 < AddrSpace
    BY <2>1, <2>3, <2>4 DEF contains, overflows
  <2>6. range[d].start % size = 0
    <3>1. CASE d \in FixedDevices
      <4>1. range[d].start = 0 \/ range[d] = Fixed[d]
        BY <3>1, FixedWindows DEF BusInv
      <4>2. Fixed[d].start % size = 0 /\ 0 % size = 0
        BY <2>1, <3>1, MapAssumption
      <4> QED
        BY <4>1, <4>2
    <3>2. CASE d = "ram"
      BY <3>2
    <3>3. CASE d = "stack"
      <4>1. CASE DevicesLast
        BY <3>3, <4>1 DEF DevicesLast, Meets
      <4>2. CASE ~DevicesLast
        <5>1. range["stack"] = NONE
          <6>1. PICK i \in 1 .. Len(calls) : calls[i][1] = "stack"
            <7>1. Len(calls) \in Nat /\ (RamFirst \/ StackSecond)
              BY <4>2 DEF BusInv, ToSet
            <7> QED
              BY <7>1 DEF RamFirst, StackSecond
          <6> QED
            BY <6>1 DEF BusInv, ToSet
        <5> QED
          BY <2>1, <3>3, <5>1, FixedWindows
      <4> QED
        BY <4>1, <4>2
    <3> QED
      BY <2>3, <3>1, <3>2, <3>3, FixedWindows
  <2>7. range[d].start <= address
    <3> DEFINE a == range[d].start
    <3>1. a \in Nat /\ a % size = 0 /\ a <= address + size - 1
      BY <2>1, <2>4, <2>5, <2>6 DEF b
    <3> HIDE DEF a
    <3>2. Multiple(a, size) /\ Multiple(address, size)
      BY <2>1, <3>1, Divides
    <3>3. a <= address
      BY <2>1, <3>1, <3>2, Grid
    <3> QED
      BY <3>3 DEF a
  <2>8. contains(range[d], address, size)
    BY <2>1, <2>4, <2>5, <2>7 DEF contains, overflows
  <2> QED
    BY <2>3, <2>8, Dispatch
<1> QED
  BY <1>1, BusAlways, PTL

\* new_smp refuses a number of harts exactly when one of them would have no
\* S-mode context in the PLIC, for every number of contexts.
THEOREM HartsServed == Spec => []HartsHaveContexts
<1>1. HartsInv => HartsHaveContexts
  <2> SUFFICES ASSUME HartsInv PROVE HartsHaveContexts
    OBVIOUS
  <2> DEFINE contexts == {2 * h + 1 : h \in 0 .. (ncpu - 1)}
  <2>1. ncpu \in Nat /\ MAX_CONTEXTS \in Nat
    BY HartsAssumption DEF HartsInv
  <2>2. ncpu_ok <=> ncpu # 0 /\ 2 * ncpu <= MAX_CONTEXTS
    BY <2>1 DEF ncpu_ok, max_ncpu
  <2>3. ASSUME ncpu_ok PROVE contexts \subseteq 0 .. (MAX_CONTEXTS - 1)
    <3>1. ASSUME NEW h \in 0 .. (ncpu - 1) PROVE 2 * h + 1 \in 0 .. (MAX_CONTEXTS - 1)
      BY <2>1, <2>2, <2>3
    <3> QED
      BY <3>1
  <2>4. ASSUME ~ncpu_ok, ncpu # 0 PROVE ~(contexts \subseteq 0 .. (MAX_CONTEXTS - 1))
    <3>1. ncpu - 1 \in 0 .. (ncpu - 1)
      BY <2>1, <2>4
    <3>2. 2 * (ncpu - 1) + 1 \in contexts
      BY <3>1
    <3>3. 2 * (ncpu - 1) + 1 \notin 0 .. (MAX_CONTEXTS - 1)
      BY <2>1, <2>2, <2>4
    <3> QED
      BY <3>2, <3>3
  <2>5. ncpu = 0 => contexts = {}
    OBVIOUS
  <2>6. result = "ok" => ncpu_ok
    BY DEF HartsInv
  <2>7. result = "err" /\ range_manager = <<>> /\ add_ok(<<>>, Head(calls)[2]) => ~ncpu_ok
    BY DEF HartsInv
  <2> HIDE DEF contexts
  <2>8. /\ result = "ok" => contexts \subseteq 0 .. (MAX_CONTEXTS - 1)
        /\ result = "err" /\ range_manager = <<>> /\ add_ok(<<>>, Head(calls)[2])
              => contexts = {} \/ ~(contexts \subseteq 0 .. (MAX_CONTEXTS - 1))
    BY <2>3, <2>4, <2>5, <2>6, <2>7
  <2> QED
    BY <2>8 DEF HartsHaveContexts, contexts
<1> QED
  BY <1>1, BusAlways, PTL

-----------------------------------------------------------------------------
(* Memory as a hart sees it. *)

IsMemory(data, n) == n \in Nat /\ data \in [0 .. (n - 1) -> 0 .. (BYTE - 1)]

\* The invariant: a RAM as long as the program, padded or not, and a stack, of bytes.
MemInv == /\ \/ IsMemory(ram, Len(Program))
             \/ IsMemory(ram, page_up(Len(Program)))
          /\ IsMemory(stack, STACK_SIZE)
          /\ map \in Maps

LEMMA PageUp ==
    ASSUME NEW n \in Nat
    PROVE  /\ page_up(n) \in Nat /\ n <= page_up(n)
           /\ \E k \in Nat : page_up(n) = PageSize * k
<1> DEFINE p == PageSize
           m == n + p - 1
           k == m \div p
<1>1. p \in Nat \ {0} /\ m \in Nat
  BY AddressAssumption
<1>2. k \in Int /\ m % p \in Nat /\ m = p * k + (m % p) /\ m % p < p
  BY <1>1, DivLaw
<1>3. k \in Nat
  BY <1>1
<1>4. page_up(n) = k * p
  BY DEF page_up
<1>5. k * p = p * k /\ p * k \in Nat
  BY <1>1, <1>3
<1> HIDE DEF k
<1>6. n <= p * k
  BY <1>1, <1>2, <1>5
<1> QED
  BY <1>3, <1>4, <1>5, <1>6

LEMMA WithContentType ==
    ASSUME NEW size \in Nat, NEW content \in Seq(0 .. (BYTE - 1)), size >= Len(content)
    PROVE  IsMemory(with_content(size, content), size)
<1>1. Len(content) \in Nat /\ \A i \in 1 .. Len(content) : content[i] \in 0 .. (BYTE - 1)
  <2> DEFINE B == 0 .. (BYTE - 1)
  <2>1. content \in Seq(B)
    OBVIOUS
  <2> HIDE DEF B
  <2>2. Len(content) \in Nat /\ \A i \in 1 .. Len(content) : content[i] \in B
    BY <2>1, LenProperties, ElementOfSeq
  <2> QED
    BY <2>2 DEF B
<1>2. BYTE \in Nat \ {0}
  BY ByteAssumption
<1>3. with_content(size, content)
         = [a \in 0 .. (size - 1) |-> IF a < Len(content) THEN content[a + 1] ELSE 0]
  <2>1. CASE size > Len(content)
    BY <2>1 DEF with_content
  <2>2. CASE size = Len(content)
    BY <1>1, <2>2 DEF with_content
  <2> QED
    BY <1>1, <2>1, <2>2
<1>4. ASSUME NEW a \in 0 .. (size - 1), a < Len(content)
      PROVE  content[a + 1] \in 0 .. (BYTE - 1)
  <2>1. a + 1 \in 1 .. Len(content)
    BY <1>1, <1>4
  <2> QED
    BY <1>1, <2>1
<1> QED
  BY <1>2, <1>3, <1>4 DEF IsMemory

\* A store leaves a memory of the same length, whatever is stored.
LEMMA RamWriteType ==
    ASSUME NEW data, NEW n, IsMemory(data, n), NEW address \in Int, NEW size \in Nat, NEW value \in Nat
    PROVE  IsMemory(ram_write(data, address, size, value), n)
<1>1. BYTE \in Nat \ {0} /\ DOMAIN data = 0 .. (n - 1)
  BY ByteAssumption DEF IsMemory
<1>2. ASSUME NEW a \in 0 .. (n - 1), a \in address .. (address + size - 1)
      PROVE  byte(value, a - address) \in 0 .. (BYTE - 1)
  <2>1. a - address \in Nat /\ value \in Int
    BY <1>2
  <2> QED
    BY <1>1, <2>1, DigitType DEF byte
<1>3. \A a \in 0 .. (n - 1) : data[a] \in 0 .. (BYTE - 1)
  BY DEF IsMemory
<1> QED
  BY <1>1, <1>2, <1>3 DEF ram_write, IsMemory

\* A read gives the bytes it covers, the lowest first.
LEMMA ReadBytes ==
    ASSUME NEW data, NEW n, IsMemory(data, n), NEW address \in Nat, NEW size \in Nat,
           address + size <= n
    PROVE  /\ ram_read(data, address, size) \in Nat
           /\ \A i \in 0 .. (size - 1) : byte(ram_read(data, address, size), i) = data[address + i]
<1> DEFINE d == [i \in 0 .. (size - 1) |-> data[address + i]]
<1>1. BYTE \in Nat \ {0}
  BY ByteAssumption
<1>2. \A i \in 0 .. (size - 1) : d[i] = data[address + i]
  OBVIOUS
<1>3. ASSUME NEW i \in 0 .. (size - 1)
      PROVE  d[i] \in 0 .. (BYTE - 1)
  <2>1. address + i \in 0 .. (n - 1)
    BY DEF IsMemory
  <2> QED
    BY <2>1 DEF IsMemory
<1>4. ram_read(data, address, size) = number(d, BYTE, size)
  BY DEF ram_read
<1> HIDE DEF d
<1>5. Digits(d, BYTE, size)
  BY <1>3 DEF Digits
<1>6. HasDigits(d, BYTE, size)
  BY <1>1, <1>5, NumberHasDigits
<1> QED
  BY <1>2, <1>4, <1>6 DEF HasDigits, byte

LEMMA ReadByte ==
    ASSUME NEW data, NEW n, IsMemory(data, n), NEW address \in 0 .. (n - 1)
    PROVE  ram_read(data, address, 1) = data[address]
<1> DEFINE d == [i \in 0 .. (1 - 1) |-> data[address + i]]
<1>1. number(d, BYTE, 0 + 1) = number(d, BYTE, 0) + d[0] * power(BYTE, 0)
  BY NumberNext, Zenon
<1>2. number(d, BYTE, 0) = 0 /\ power(BYTE, 0) = 1
  BY NumberZero, PowerZero, Zenon
<1>3. d[0] = data[address] /\ data[address] \in Int
  <2>1. address \in Nat /\ address + 0 = address
    OBVIOUS
  <2>2. data[address] \in 0 .. (BYTE - 1)
    BY DEF IsMemory
  <2> QED
    BY <2>1, <2>2, ByteAssumption
<1>4. ram_read(data, address, 1) = number(d, BYTE, 1)
  BY DEF ram_read
<1> HIDE DEF d
<1>5. 0 + 1 = 1
  OBVIOUS
<1> QED
  BY <1>1, <1>2, <1>3, <1>4, <1>5

\* The two memories: where they are, and which bytes they hold.
Lies(r, data) == /\ r.start \in Nat /\ IsMemory(data, r.size)

LEMMA Shape ==
    ASSUME MemInv
    PROVE  /\ Lies(ram_range, ram) /\ Lies(stack_range, stack)
           /\ end(ram_range) <= stack_range.start /\ end(stack_range) < AddrSpace
           /\ \E k \in Nat : stack_range.start = PageSize * k
<1> DEFINE l == Len(Program)
<1>1. l \in Nat /\ AddrSpace \in Nat /\ PageSize \in Nat \ {0} /\ STACK_SIZE \in Nat /\ Address \in Nat
  BY AddressAssumption, ByteAssumption
<1>2. page_up(l) \in Nat /\ l <= page_up(l)
  BY <1>1, PageUp
<1>3. PICK j \in Nat : page_up(l) = PageSize * j
  BY <1>1, PageUp
<1>4. PICK n \in Nat : IsMemory(ram, n) /\ n <= page_up(l)
  <2>1. CASE IsMemory(ram, l)
    BY <1>1, <1>2, <2>1
  <2>2. CASE IsMemory(ram, page_up(l))
    BY <1>2, <2>2
  <2> QED
    BY <2>1, <2>2 DEF MemInv
<1>5. Cardinality(DOMAIN ram) = n
  <2>1. DOMAIN ram = 0 .. (n - 1)
    BY <1>4 DEF IsMemory
  <2>2. Cardinality(0 .. (n - 1)) = IF 0 > n - 1 THEN 0 ELSE (n - 1) - 0 + 1
    BY FS_Interval
  <2> QED
    BY <2>1, <2>2
<1>6. ram_range.start = Address /\ ram_range.size = n
  BY <1>5 DEF ram_range
<1>7. stack_range.start = page_up(l) + Address /\ stack_range.size = STACK_SIZE
  BY DEF stack_range
<1>8. \E k \in Nat : stack_range.start = PageSize * k
  <2>1. Address = PageSize * (Address \div PageSize) /\ Address \div PageSize \in Nat
    BY <1>1, AddressAssumption
  <2> DEFINE i == Address \div PageSize
  <2> HIDE DEF i
  <2>2. PageSize * j + PageSize * i = PageSize * (j + i) /\ j + i \in Nat
    BY <1>1, <2>1 DEF i
  <2>3. stack_range.start = PageSize * (j + i)
    BY <1>3, <1>7, <2>1, <2>2 DEF i
  <2> QED
    BY <2>2, <2>3
<1>9. Address + page_up(l) + STACK_SIZE < AddrSpace
  BY AddressAssumption
<1>10. Lies(ram_range, ram)
  BY <1>1, <1>4, <1>6 DEF Lies
<1>11. Lies(stack_range, stack)
  BY <1>1, <1>2, <1>7 DEF Lies, MemInv
<1>12. end(ram_range) <= stack_range.start /\ end(stack_range) < AddrSpace
  BY <1>1, <1>2, <1>4, <1>6, <1>7, <1>9 DEF end
<1> QED
  BY <1>8, <1>10, <1>11, <1>12

\* What the bus reads, wherever it reads it.
LEMMA BusRead ==
    ASSUME MemInv, NEW t \in Int, NEW size \in Nat \ {0}
    PROVE  /\ contains(ram_range, t, size) =>
                 /\ t - ram_range.start \in Nat /\ (t - ram_range.start) + size <= ram_range.size
                 /\ bus_read(t, size) = ram_read(ram, t - ram_range.start, size)
                 /\ bus_read(t, size) \in Nat
           /\ contains(stack_range, t, size) =>
                 /\ t - stack_range.start \in Nat /\ (t - stack_range.start) + size <= stack_range.size
                 /\ ~contains(ram_range, t, size)
                 /\ bus_read(t, size) = ram_read(stack, t - stack_range.start, size)
                 /\ bus_read(t, size) \in Nat
           /\ ~contains(ram_range, t, size) /\ ~contains(stack_range, t, size) =>
                 bus_read(t, size) = Err
<1>1. /\ Lies(ram_range, ram) /\ Lies(stack_range, stack) /\ end(ram_range) <= stack_range.start
  BY Shape
<1>2. /\ ram_range.start \in Nat /\ ram_range.size \in Nat
      /\ stack_range.start \in Nat /\ stack_range.size \in Nat
  BY <1>1 DEF Lies, IsMemory
<1>3. ASSUME contains(ram_range, t, size)
      PROVE  /\ t - ram_range.start \in Nat /\ (t - ram_range.start) + size <= ram_range.size
             /\ bus_read(t, size) = ram_read(ram, t - ram_range.start, size)
             /\ bus_read(t, size) \in Nat
  <2>1. t - ram_range.start \in Nat /\ (t - ram_range.start) + size <= ram_range.size
    BY <1>2, <1>3 DEF contains, end
  <2>2. bus_read(t, size) = ram_read(ram, t - ram_range.start, size)
    BY <1>3 DEF bus_read
  <2> DEFINE a == t - ram_range.start
             n == ram_range.size
  <2>3. a \in Nat /\ a + size <= n /\ IsMemory(ram, n) /\ size \in Nat
    BY <1>1, <2>1 DEF Lies
  <2> HIDE DEF a, n
  <2>4. ram_read(ram, a, size) \in Nat
    BY <2>3, ReadBytes
  <2> QED
    BY <2>1, <2>2, <2>4 DEF a
<1>4. ASSUME contains(stack_range, t, size)
      PROVE  /\ t - stack_range.start \in Nat /\ (t - stack_range.start) + size <= stack_range.size
             /\ ~contains(ram_range, t, size)
             /\ bus_read(t, size) = ram_read(stack, t - stack_range.start, size)
             /\ bus_read(t, size) \in Nat
  <2>1. t - stack_range.start \in Nat /\ (t - stack_range.start) + size <= stack_range.size
    BY <1>2, <1>4 DEF contains, end
  <2>2. ~contains(ram_range, t, size)
    BY <1>1, <1>2, <1>4 DEF contains, end
  <2>3. bus_read(t, size) = ram_read(stack, t - stack_range.start, size)
    BY <1>4, <2>2 DEF bus_read
  <2> DEFINE a == t - stack_range.start
             n == stack_range.size
  <2>4. a \in Nat /\ a + size <= n /\ IsMemory(stack, n) /\ size \in Nat
    BY <1>1, <2>1 DEF Lies
  <2> HIDE DEF a, n
  <2>5. ram_read(stack, a, size) \in Nat
    BY <2>4, ReadBytes
  <2> QED
    BY <2>1, <2>2, <2>3, <2>5 DEF a
<1>5. ~contains(ram_range, t, size) /\ ~contains(stack_range, t, size) => bus_read(t, size) = Err
  BY DEF bus_read
<1> QED
  BY <1>3, <1>4, <1>5

\* A read of several bytes is served exactly when one memory holds them all,
\* and then it is these bytes.
LEMMA BusLoad ==
    ASSUME MemInv, NEW t \in Int, NEW size \in Nat \ {0}
    PROVE  /\ bus_read(t, size) # Err
                 <=> \E r \in {ram_range, stack_range} :
                        \A i \in 0 .. (size - 1) : contains(r, t + i, 1)
           /\ bus_read(t, size) # Err =>
                 \A i \in 0 .. (size - 1) : byte(bus_read(t, size), i) = bus_read(t + i, 1)
<1>1. Lies(ram_range, ram) /\ Lies(stack_range, stack) /\ AddrSpace \in Nat
  BY Shape, AddressAssumption
<1>2. /\ ram_range.start \in Nat /\ ram_range.size \in Nat
      /\ stack_range.start \in Nat /\ stack_range.size \in Nat
  BY <1>1 DEF Lies, IsMemory
<1>3. ASSUME NEW r, r.start \in Nat, r.size \in Nat
      PROVE  contains(r, t, size) <=> \A i \in 0 .. (size - 1) : contains(r, t + i, 1)
  <2>1. ASSUME contains(r, t, size), NEW i \in 0 .. (size - 1)
        PROVE  contains(r, t + i, 1)
    BY <1>1, <1>3, <2>1 DEF contains, overflows, end
  <2>2. ASSUME \A i \in 0 .. (size - 1) : contains(r, t + i, 1)
        PROVE  contains(r, t, size)
    <3>1. contains(r, t + 0, 1) /\ contains(r, t + (size - 1), 1)
      BY <2>2
    <3> QED
      BY <1>1, <1>3, <3>1 DEF contains, overflows, end
  <2> QED
    BY <2>1, <2>2
<1>4. bus_read(t, size) # Err <=> contains(ram_range, t, size) \/ contains(stack_range, t, size)
  BY BusRead DEF Err
<1>5. ASSUME contains(ram_range, t, size), NEW i \in 0 .. (size - 1)
      PROVE  byte(bus_read(t, size), i) = bus_read(t + i, 1)
  <2> DEFINE a == t - ram_range.start
             n == ram_range.size
  <2>1. /\ a \in Nat /\ a + size <= n /\ IsMemory(ram, n) /\ size \in Nat
        /\ bus_read(t, size) = ram_read(ram, a, size)
    BY <1>1, <1>5, BusRead DEF Lies
  <2>2. contains(ram_range, t + i, 1)
    BY <1>2, <1>3, <1>5
  <2>3. t + i \in Int /\ 1 \in Nat \ {0} /\ (t + i) - ram_range.start = a + i
    BY <1>2
  <2>4. bus_read(t + i, 1) = ram_read(ram, (t + i) - ram_range.start, 1)
    BY <2>2, <2>3, BusRead
  <2> HIDE DEF a, n
  <2>5. byte(ram_read(ram, a, size), i) = ram[a + i]
    BY <2>1, ReadBytes
  <2>6. a + i \in 0 .. (n - 1)
    BY <2>1 DEF IsMemory
  <2>7. ram_read(ram, a + i, 1) = ram[a + i]
    BY <2>1, <2>6, ReadByte
  <2> QED
    BY <2>1, <2>3, <2>4, <2>5, <2>7
<1>6. ASSUME contains(stack_range, t, size), NEW i \in 0 .. (size - 1)
      PROVE  byte(bus_read(t, size), i) = bus_read(t + i, 1)
  <2> DEFINE a == t - stack_range.start
             n == stack_range.size
  <2>1. /\ a \in Nat /\ a + size <= n /\ IsMemory(stack, n) /\ size \in Nat
        /\ bus_read(t, size) = ram_read(stack, a, size)
    BY <1>1, <1>6, BusRead DEF Lies
  <2>2. contains(stack_range, t + i, 1)
    BY <1>2, <1>3, <1>6
  <2>3. t + i \in Int /\ 1 \in Nat \ {0} /\ (t + i) - stack_range.start = a + i
    BY <1>2
  <2>4. bus_read(t + i, 1) = ram_read(stack, (t + i) - stack_range.start, 1)
    BY <2>2, <2>3, BusRead
  <2> HIDE DEF a, n
  <2>5. byte(ram_read(stack, a, size), i) = stack[a + i]
    BY <2>1, ReadBytes
  <2>6. a + i \in 0 .. (n - 1)
    BY <2>1 DEF IsMemory
  <2>7. ram_read(stack, a + i, 1) = stack[a + i]
    BY <2>1, <2>6, ReadByte
  <2> QED
    BY <2>1, <2>3, <2>4, <2>5, <2>7
<1>7. /\ contains(ram_range, t, size)
            <=> \A i \in 0 .. (size - 1) : contains(ram_range, t + i, 1)
      /\ contains(stack_range, t, size)
            <=> \A i \in 0 .. (size - 1) : contains(stack_range, t + i, 1)
  BY <1>2, <1>3
<1>8. bus_read(t, size) # Err
         <=> \E r \in {ram_range, stack_range} : \A i \in 0 .. (size - 1) : contains(r, t + i, 1)
  BY <1>4, <1>7, Zenon
<1> QED
  BY <1>4, <1>5, <1>6, <1>8, Zenon

\* Within a page no read is lost between the memories: the stack begins a page.
LEMMA PageLoad ==
    ASSUME MemInv, NEW f \in Nat, NEW o \in 0 .. (PageSize - 1), NEW size \in Nat \ {0},
           size <= PageSize - o,
           \A i \in 0 .. (size - 1) : bus_read((f * PageSize + o) + i, 1) # Err
    PROVE  bus_read(f * PageSize + o, size) # Err
<1> DEFINE t == f * PageSize + o
<1>1. Lies(ram_range, ram) /\ Lies(stack_range, stack) /\ AddrSpace \in Nat /\ PageSize \in Nat \ {0}
  BY Shape, AddressAssumption
<1>2. /\ ram_range.start \in Nat /\ ram_range.size \in Nat
      /\ stack_range.start \in Nat /\ stack_range.size \in Nat
  BY <1>1 DEF Lies, IsMemory
<1>3. end(ram_range) <= stack_range.start
  BY Shape
<1>4. PICK k \in Nat : stack_range.start = PageSize * k
  BY Shape
<1>5. t \in Nat /\ size - 1 \in 0 .. (size - 1) /\ 0 \in 0 .. (size - 1)
  BY <1>1
<1>6. ASSUME NEW u \in Int, bus_read(u, 1) # Err
      PROVE  contains(ram_range, u, 1) \/ contains(stack_range, u, 1)
  BY <1>6 DEF bus_read
<1>7. contains(ram_range, t + 0, 1) \/ contains(stack_range, t + 0, 1)
  BY <1>5, <1>6
<1>8. contains(ram_range, t + (size - 1), 1) \/ contains(stack_range, t + (size - 1), 1)
  BY <1>5, <1>6
<1>9. ASSUME contains(ram_range, t + 0, 1), contains(stack_range, t + (size - 1), 1)
      PROVE  FALSE
  <2>1. t < stack_range.start /\ stack_range.start <= t + (size - 1)
    BY <1>2, <1>3, <1>5, <1>9 DEF contains, end
  <2>2. f * PageSize < PageSize * k
    BY <1>1, <1>4, <2>1
  <2>3. f < k
    <3>1. SUFFICES ASSUME f >= k PROVE f * PageSize >= PageSize * k
      BY <1>1, <2>2
    <3> QED
      BY <1>1, <3>1
  <2>4. PageSize * (f + 1) <= PageSize * k
    BY <1>1, <2>3
  <2>5. PageSize * (f + 1) = f * PageSize + PageSize
    BY <1>1
  <2> QED
    BY <1>1, <1>4, <2>1, <2>4, <2>5
<1> HIDE DEF t
<1>10. contains(ram_range, t, size) \/ contains(stack_range, t, size)
  <2>1. ~(contains(stack_range, t + 0, 1) /\ contains(ram_range, t + (size - 1), 1))
    BY <1>2, <1>3, <1>5 DEF contains, end
  <2>2. ASSUME contains(ram_range, t + 0, 1), contains(ram_range, t + (size - 1), 1)
        PROVE  contains(ram_range, t, size)
    BY <1>1, <1>2, <1>5, <2>2 DEF contains, overflows, end
  <2>3. ASSUME contains(stack_range, t + 0, 1), contains(stack_range, t + (size - 1), 1)
        PROVE  contains(stack_range, t, size)
    BY <1>1, <1>2, <1>5, <2>3 DEF contains, overflows, end
  <2> QED
    BY <1>7, <1>8, <1>9, <2>1, <2>2, <2>3
<1>11. bus_read(t, size) # Err
  BY <1>5, <1>10, BusRead DEF Err
<1> QED
  BY <1>11 DEF t

\* A translation keeps the place in the page.
LEMMA Translated ==
    ASSUME MemInv, NEW va \in Virtual
    PROVE  /\ translate(va) \in Int
           /\ translate(va) # Err => \E f \in Nat : translate(va) = f * PageSize + (va % PageSize)
           /\ va % PageSize \in 0 .. (PageSize - 1)
<1> DEFINE n == Cardinality(DOMAIN map)
           p == PageSize
           q == va \div p
           o == va % p
<1>1. p \in Nat \ {0}
  BY AddressAssumption
<1>2. map \in [0 .. (n - 1) -> Nat \cup {Unmapped}]
  BY ByteAssumption DEF MemInv
<1>3. n \in Nat
  <2>1. IsFiniteSet(DOMAIN map)
    BY ByteAssumption DEF MemInv
  <2> QED
    BY <2>1, FS_CardinalityType
<1>4. va \in Nat /\ va < p * n
  BY <1>1, <1>3 DEF Virtual
<1>5. q \in Nat /\ o \in Nat /\ va = p * q + o /\ o < p
  BY <1>1, <1>4
<1> HIDE DEF n, q, o
<1>6. q < n
  <2>1. SUFFICES ASSUME q >= n PROVE p * q >= p * n
    BY <1>1, <1>3, <1>4, <1>5
  <2> QED
    BY <1>1, <1>3, <1>5, <2>1
<1>7. map[q] \in Nat \cup {Unmapped}
  BY <1>2, <1>3, <1>5, <1>6
<1>8. translate(va) = IF map[q] = Unmapped THEN Err ELSE map[q] * PageSize + o
  BY DEF translate, q, o
<1>9. o \in 0 .. (p - 1)
  BY <1>1, <1>5
<1>10. CASE map[q] = Unmapped
  BY <1>8, <1>9, <1>10 DEF Err, o
<1>11. CASE map[q] # Unmapped
  <2>1. map[q] \in Nat
    BY <1>7, <1>11
  <2>2. translate(va) = map[q] * PageSize + o /\ map[q] * PageSize + o \in Int
    BY <1>1, <1>5, <1>8, <1>11, <2>1
  <2> QED
    BY <1>9, <2>1, <2>2 DEF o
<1> QED
  BY <1>10, <1>11

LEMMA LoadsHold == MemInv => LoadsAreBytewise
<1> SUFFICES ASSUME MemInv, NEW va \in Virtual, NEW size \in Sizes, Contiguous(va, size)
             PROVE  LET b   == Bytes(va, size)
                        got == cpu_read(va, size)
                    IN  /\ got # Err <=> \E r \in {ram_range, stack_range} :
                                            \A i \in DOMAIN b : contains(r, b[i], 1)
                        /\ got # Err => \A i \in DOMAIN b : byte(got, i) = bus_read(b[i], 1)
                        /\ size <= PageSize - (va % PageSize) /\ got = Err
                           => \E i \in DOMAIN b : bus_read(b[i], 1) = Err
  BY DEF LoadsAreBytewise
<1> DEFINE b   == Bytes(va, size)
           got == cpu_read(va, size)
           t   == translate(va)
<1>1. size \in Nat \ {0} /\ PageSize \in Nat \ {0}
  BY ByteAssumption, AddressAssumption
<1>2. DOMAIN b = 0 .. (size - 1)
  BY DEF Bytes
<1>3. b[0] # Err /\ \A i \in 0 .. (size - 1) : b[i] = b[0] + i
  BY <1>2 DEF Contiguous
<1>4. va \in Int
  BY DEF Virtual
<1>5. b[0] = t
  <2>1. 0 \in 0 .. (size - 1) /\ va + 0 = va
    BY <1>1, <1>4
  <2> QED
    BY <2>1 DEF Bytes
<1>6. t \in Int /\ t # Err
  BY <1>3, <1>5, Translated
<1>7. got = bus_read(t, size)
  BY <1>6 DEF cpu_read
<1>8. \A i \in 0 .. (size - 1) : b[i] = t + i
  BY <1>3, <1>5
<1>9. size <= PageSize - (va % PageSize) /\ got = Err
         => \E i \in 0 .. (size - 1) : bus_read(t + i, 1) = Err
  <2>1. SUFFICES ASSUME size <= PageSize - (va % PageSize),
                        \A i \in 0 .. (size - 1) : bus_read(t + i, 1) # Err
                 PROVE  got # Err
    OBVIOUS
  <2> DEFINE o == va % PageSize
  <2>2. PICK f \in Nat : t = f * PageSize + o
    BY <1>6, Translated
  <2>3. o \in 0 .. (PageSize - 1)
    BY Translated
  <2>4. size <= PageSize - o
    BY <2>1
  <2> HIDE DEF o
  <2>5. \A i \in 0 .. (size - 1) : bus_read((f * PageSize + o) + i, 1) # Err
    BY <2>1, <2>2
  <2>6. bus_read(f * PageSize + o, size) # Err
    BY <1>1, <2>3, <2>4, <2>5, PageLoad
  <2> QED
    BY <1>7, <2>2, <2>6
<1> HIDE DEF b, got, t
<1>10. /\ bus_read(t, size) # Err
              <=> \E r \in {ram_range, stack_range} : \A i \in 0 .. (size - 1) : contains(r, t + i, 1)
       /\ bus_read(t, size) # Err =>
              \A i \in 0 .. (size - 1) : byte(bus_read(t, size), i) = bus_read(t + i, 1)
  BY <1>1, <1>6, BusLoad
<1>11. /\ got # Err <=> \E r \in {ram_range, stack_range} :
                           \A i \in DOMAIN b : contains(r, b[i], 1)
       /\ got # Err => \A i \in DOMAIN b : byte(got, i) = bus_read(b[i], 1)
       /\ size <= PageSize - (va % PageSize) /\ got = Err
          => \E i \in DOMAIN b : bus_read(b[i], 1) = Err
  BY <1>2, <1>7, <1>8, <1>9, <1>10
<1> QED
  BY <1>11 DEF b, got

\* A byte read from the bus is the byte of the memory that holds it.
LEMMA BusByte ==
    ASSUME MemInv, NEW pa \in Int
    PROVE  bus_read(pa, 1) = IF contains(ram_range, pa, 1) THEN ram[pa - ram_range.start]
                             ELSE IF contains(stack_range, pa, 1) THEN stack[pa - stack_range.start]
                             ELSE Err
<1>1. Lies(ram_range, ram) /\ Lies(stack_range, stack)
  BY Shape
<1>2. ASSUME contains(ram_range, pa, 1)
      PROVE  bus_read(pa, 1) = ram[pa - ram_range.start]
  <2> DEFINE a == pa - ram_range.start
             n == ram_range.size
  <2>1. a \in Nat /\ a + 1 <= n /\ bus_read(pa, 1) = ram_read(ram, a, 1) /\ IsMemory(ram, n)
    BY <1>1, <1>2, BusRead DEF Lies
  <2> HIDE DEF a, n
  <2>2. a \in 0 .. (n - 1)
    BY <2>1 DEF IsMemory
  <2>3. ram_read(ram, a, 1) = ram[a]
    BY <2>1, <2>2, ReadByte
  <2> QED
    BY <2>1, <2>3 DEF a
<1>3. ASSUME contains(stack_range, pa, 1)
      PROVE  bus_read(pa, 1) = stack[pa - stack_range.start]
  <2> DEFINE a == pa - stack_range.start
             n == stack_range.size
  <2>1. a \in Nat /\ a + 1 <= n /\ bus_read(pa, 1) = ram_read(stack, a, 1) /\ IsMemory(stack, n)
    BY <1>1, <1>3, BusRead DEF Lies
  <2> HIDE DEF a, n
  <2>2. a \in 0 .. (n - 1)
    BY <2>1 DEF IsMemory
  <2>3. ram_read(stack, a, 1) = stack[a]
    BY <2>1, <2>2, ReadByte
  <2> QED
    BY <2>1, <2>3 DEF a
<1>4. ~contains(ram_range, pa, 1) /\ ~contains(stack_range, pa, 1) => bus_read(pa, 1) = Err
  BY DEF bus_read
<1> QED
  BY <1>2, <1>3, <1>4

\* A byte of a memory after a store to it.
LEMMA WriteByte ==
    ASSUME NEW data, NEW n, IsMemory(data, n), NEW a \in 0 .. (n - 1),
           NEW address \in Int, NEW size \in Nat, NEW value
    PROVE  ram_write(data, address, size, value)[a]
              = IF a \in address .. (address + size - 1) THEN byte(value, a - address) ELSE data[a]
<1>1. DOMAIN data = 0 .. (n - 1)
  BY DEF IsMemory
<1> QED
  BY <1>1 DEF ram_write

LEMMA StoresHold == MemInv => StoresAreBytewise
<1> SUFFICES ASSUME MemInv, NEW va \in Virtual, NEW size \in Sizes, NEW value \in Values,
                    cpu_write_ok(va, size)
             PROVE  LET after == bus_write(translate(va), size, value)
                        was(pa) == bus_read(pa, 1)
                        is(pa)  == IF contains(ram_range, pa, 1) THEN after[1][pa - ram_range.start]
                                   ELSE IF contains(stack_range, pa, 1)
                                   THEN after[2][pa - stack_range.start] ELSE Err
                    IN  \A pa \in Physical :
                           is(pa) = IF pa \in translate(va) .. (translate(va) + size - 1)
                                    THEN byte(value, pa - translate(va)) ELSE was(pa)
  BY DEF StoresAreBytewise
<1> DEFINE t == translate(va)
           R == ram_range
           S == stack_range
           after == bus_write(t, size, value)
<1>1. size \in Nat \ {0} /\ t \in Int /\ bus_write_ok(t, size) /\ AddrSpace \in Nat
  BY ByteAssumption, AddressAssumption, Translated DEF cpu_write_ok
<1>2. Lies(R, ram) /\ Lies(S, stack) /\ end(R) <= S.start /\ end(S) < AddrSpace
  BY Shape
<1>3. R.start \in Nat /\ R.size \in Nat /\ S.start \in Nat /\ S.size \in Nat
  BY <1>2 DEF Lies, IsMemory
<1>4. SUFFICES ASSUME NEW pa \in Int
               PROVE  (IF contains(R, pa, 1) THEN after[1][pa - R.start]
                       ELSE IF contains(S, pa, 1) THEN after[2][pa - S.start] ELSE Err)
                         = IF pa \in t .. (t + size - 1) THEN byte(value, pa - t) ELSE bus_read(pa, 1)
  <2>1. Physical \subseteq Int
    BY DEF Physical
  <2> QED
    BY <2>1
<1>5. bus_read(pa, 1) = IF contains(R, pa, 1) THEN ram[pa - R.start]
                        ELSE IF contains(S, pa, 1) THEN stack[pa - S.start] ELSE Err
  BY BusByte
<1>6. after = IF contains(R, t, size) THEN <<ram_write(ram, t - R.start, size, value), stack>>
              ELSE <<ram, ram_write(stack, t - S.start, size, value)>>
  BY DEF bus_write
<1> HIDE DEF after, t, R, S
<1>7. contains(R, pa, 1) => pa - R.start \in 0 .. (R.size - 1)
  BY <1>1, <1>3 DEF contains, end
<1>8. contains(S, pa, 1) => pa - S.start \in 0 .. (S.size - 1) /\ ~contains(R, pa, 1)
  BY <1>1, <1>2, <1>3 DEF contains, end
<1>9. CASE contains(R, t, size)
  <2>1. after[1] = ram_write(ram, t - R.start, size, value) /\ after[2] = stack
    BY <1>6, <1>9
  <2>2. pa \in t .. (t + size - 1) => contains(R, pa, 1)
    BY <1>1, <1>3, <1>9 DEF contains, overflows, end
  <2>3. ASSUME contains(R, pa, 1)
        PROVE  after[1][pa - R.start]
                  = IF pa \in t .. (t + size - 1) THEN byte(value, pa - t) ELSE ram[pa - R.start]
    <3> DEFINE a == pa - R.start
               d == t - R.start
    <3>1. /\ a \in 0 .. (R.size - 1) /\ d \in Int /\ a - d = pa - t
          /\ a \in d .. (d + size - 1) <=> pa \in t .. (t + size - 1)
      BY <1>1, <1>3, <1>7, <2>3
    <3> HIDE DEF a, d
    <3>2. ram_write(ram, d, size, value)[a]
             = IF a \in d .. (d + size - 1) THEN byte(value, a - d) ELSE ram[a]
      BY <1>1, <1>2, <3>1, WriteByte DEF Lies
    <3> QED
      BY <2>1, <3>1, <3>2 DEF a, d
  <2> QED
    BY <1>5, <1>8, <2>1, <2>2, <2>3
<1>10. CASE ~contains(R, t, size) /\ contains(S, t, size)
  <2>1. after[1] = ram /\ after[2] = ram_write(stack, t - S.start, size, value)
    BY <1>6, <1>10
  <2>2. pa \in t .. (t + size - 1) => contains(S, pa, 1)
    BY <1>1, <1>3, <1>10 DEF contains, overflows, end
  <2>3. ASSUME contains(S, pa, 1)
        PROVE  after[2][pa - S.start]
                  = IF pa \in t .. (t + size - 1) THEN byte(value, pa - t) ELSE stack[pa - S.start]
    <3> DEFINE a == pa - S.start
               d == t - S.start
    <3>1. /\ a \in 0 .. (S.size - 1) /\ d \in Int /\ a - d = pa - t
          /\ a \in d .. (d + size - 1) <=> pa \in t .. (t + size - 1)
      BY <1>1, <1>3, <1>8, <2>3
    <3> HIDE DEF a, d
    <3>2. ram_write(stack, d, size, value)[a]
             = IF a \in d .. (d + size - 1) THEN byte(value, a - d) ELSE stack[a]
      BY <1>1, <1>2, <3>1, WriteByte DEF Lies
    <3> QED
      BY <2>1, <3>1, <3>2 DEF a, d
  <2> QED
    BY <1>5, <1>8, <2>1, <2>2, <2>3
<1> QED
  BY <1>1, <1>9, <1>10 DEF bus_write_ok, R, S

\* Two parcels read at once begin with the first one, its low two bits included.
LEMMA FirstParcel ==
    ASSUME NEW data, NEW n, IsMemory(data, n), NEW a \in Nat, a + 4 <= n
    PROVE  /\ ram_read(data, a, 4) % power(BYTE, 2) = ram_read(data, a, 2)
           /\ ram_read(data, a, 4) % 4 = ram_read(data, a, 2) % 4
<1> DEFINE d == [i \in 0 .. 3 |-> data[a + i]]
           e == [i \in 0 .. 1 |-> data[a + i]]
           B == BYTE
           p == power(B, 2)
           x == number(d, B, 2)
<1>1. B \in Nat \ {0} /\ B % 4 = 0
  BY ByteAssumption
<1>2. ASSUME NEW i \in 0 .. 3
      PROVE  d[i] \in 0 .. (B - 1)
  <2>1. a + i \in 0 .. (n - 1)
    BY DEF IsMemory
  <2> QED
    BY <2>1 DEF IsMemory
<1>3. ram_read(data, a, 4) = number(d, B, 4) /\ ram_read(data, a, 2) = number(e, B, 2)
  BY DEF ram_read
<1>4. \A i \in 0 .. (2 - 1) : d[i] = e[i]
  OBVIOUS
<1> HIDE DEF d, e
<1>5. number(e, B, 2) = x
  <2> DEFINE two == 2
  <2>1. two \in Nat /\ \A i \in 0 .. (two - 1) : d[i] = e[i]
    BY <1>4
  <2> HIDE DEF two
  <2>2. number(d, B, two) = number(e, B, two)
    BY <2>1, NumberSame, Zenon
  <2> QED
    BY <2>2 DEF two
<1>6. x \in Nat /\ x < p
  <2>1. Digits(d, B, 2) /\ 2 \in Nat
    BY <1>2 DEF Digits
  <2>2. HasDigits(d, B, 2)
    BY <1>1, <2>1, NumberHasDigits
  <2> QED
    BY <2>2 DEF HasDigits
<1>7. /\ number(d, B, 3) = x + d[2] * p
      /\ number(d, B, 4) = number(d, B, 3) + d[3] * power(B, 3)
      /\ power(B, 3) = B * p
  <2>1. 2 \in Nat /\ 3 \in Nat /\ 2 + 1 = 3 /\ 3 + 1 = 4
    OBVIOUS
  <2>2. number(d, B, 2 + 1) = x + d[2] * p /\ number(d, B, 3 + 1) = number(d, B, 3) + d[3] * power(B, 3)
    BY <2>1, NumberNext, Zenon
  <2>3. power(B, 2 + 1) = B * p
    BY <2>1, PowerNext, Zenon
  <2> QED
    BY <2>1, <2>2, <2>3
<1>8. p = B * B
  <2>1. power(B, 1) = B /\ power(B, 1 + 1) = B * power(B, 1)
    BY <1>1, PowerOne, PowerNext
  <2>2. 1 + 1 = 2
    OBVIOUS
  <2> QED
    BY <2>1, <2>2
<1>9. d[2] \in Nat /\ d[3] \in Nat
  BY <1>1, <1>2
<1> HIDE DEF B, x, p
<1> DEFINE k == d[2] + d[3] * B
<1>10. k \in Nat /\ p \in Nat \ {0} /\ number(d, B, 4) = p * k + x
  <2>1. p * (d[2] + d[3] * B) = d[2] * p + d[3] * (B * p)
    <3> DEFINE u == d[2]
               v == d[3]
    <3>1. u \in Nat /\ v \in Nat /\ B \in Nat /\ p \in Nat
      BY <1>1, <1>8, <1>9
    <3> HIDE DEF u, v
    <3>2. p * (u + v * B) = p * u + p * (v * B) /\ p * u = u * p
      BY <3>1
    <3>3. p * (v * B) = v * (B * p)
      BY <3>1
    <3> QED
      BY <3>2, <3>3 DEF u, v
  <2> QED
    BY <1>1, <1>6, <1>7, <1>8, <1>9, <2>1
<1> HIDE DEF k
<1>11. number(d, B, 4) % p = x
  <2> DEFINE v == number(d, B, 4)
  <2>1. v \in Int /\ v = p * k + x /\ x \in Nat /\ x < p /\ k \in Int /\ p \in Nat \ {0}
    BY <1>6, <1>10
  <2> HIDE DEF v
  <2>2. v % p = x
    BY <2>1, DivUnique, Zenon
  <2> QED
    BY <2>2 DEF v
<1>12. number(d, B, 4) % 4 = x % 4
  <2> DEFINE c == B \div 4
  <2>1. c \in Nat /\ B = 4 * c
    BY <1>1
  <2> HIDE DEF c
  <2>2. p * k = 4 * (c * (B * k)) /\ c * (B * k) \in Int
    BY <1>1, <1>8, <1>10, <2>1
  <2> DEFINE m == c * (B * k)
  <2>3. m \in Int /\ number(d, B, 4) = x + 4 * m
    BY <1>6, <1>10, <2>2
  <2> HIDE DEF m
  <2>4. (x + 4 * m) % 4 = x % 4
    BY <1>6, <2>3, DivPlus
  <2> QED
    BY <2>3, <2>4
<1> QED
  BY <1>3, <1>5, <1>11, <1>12 DEF B, p

\* Where the bus serves two parcels it serves the first, from the same memory.
LEMMA BusParcels ==
    ASSUME MemInv, NEW t \in Int
    PROVE  /\ bus_read(t, 4) # Err =>
                 /\ bus_read(t, 2) # Err
                 /\ bus_read(t, 4) \in Nat /\ bus_read(t, 2) \in Nat
                 /\ bus_read(t, 4) % power(BYTE, 2) = bus_read(t, 2)
                 /\ bus_read(t, 4) % 4 = bus_read(t, 2) % 4
           /\ bus_read(t, 4) = Err /\ bus_read(t, 2) # Err =>
                 \E r \in {ram_range, stack_range} : contains(r, t, 2) /\ t > end(r) - 4
<1>1. /\ Lies(ram_range, ram) /\ Lies(stack_range, stack) /\ AddrSpace \in Nat
      /\ end(ram_range) <= stack_range.start /\ end(stack_range) < AddrSpace
  BY Shape, AddressAssumption
<1>2. /\ ram_range.start \in Nat /\ ram_range.size \in Nat
      /\ stack_range.start \in Nat /\ stack_range.size \in Nat
  BY <1>1 DEF Lies, IsMemory
<1>3. 2 \in Nat \ {0} /\ 4 \in Nat \ {0}
  OBVIOUS
<1>4. CASE contains(ram_range, t, 4)
  <2> DEFINE a == t - ram_range.start
             n == ram_range.size
  <2>1. contains(ram_range, t, 2)
    BY <1>1, <1>2, <1>4 DEF contains, overflows, end
  <2>2. /\ a \in Nat /\ a + 4 <= n /\ IsMemory(ram, n)
        /\ bus_read(t, 4) = ram_read(ram, a, 4) /\ bus_read(t, 4) \in Nat
    BY <1>1, <1>3, <1>4, BusRead DEF Lies
  <2>3. bus_read(t, 2) = ram_read(ram, a, 2) /\ bus_read(t, 2) \in Nat
    BY <1>3, <2>1, BusRead
  <2> HIDE DEF a, n
  <2>4. /\ ram_read(ram, a, 4) % power(BYTE, 2) = ram_read(ram, a, 2)
        /\ ram_read(ram, a, 4) % 4 = ram_read(ram, a, 2) % 4
    BY <2>2, FirstParcel
  <2> QED
    BY <2>2, <2>3, <2>4 DEF Err
<1>5. CASE contains(stack_range, t, 4)
  <2> DEFINE a == t - stack_range.start
             n == stack_range.size
  <2>1. contains(stack_range, t, 2)
    BY <1>1, <1>2, <1>5 DEF contains, overflows, end
  <2>2. /\ a \in Nat /\ a + 4 <= n /\ IsMemory(stack, n)
        /\ bus_read(t, 4) = ram_read(stack, a, 4) /\ bus_read(t, 4) \in Nat
    BY <1>1, <1>3, <1>5, BusRead DEF Lies
  <2>3. bus_read(t, 2) = ram_read(stack, a, 2) /\ bus_read(t, 2) \in Nat
    BY <1>3, <2>1, BusRead
  <2> HIDE DEF a, n
  <2>4. /\ ram_read(stack, a, 4) % power(BYTE, 2) = ram_read(stack, a, 2)
        /\ ram_read(stack, a, 4) % 4 = ram_read(stack, a, 2) % 4
    BY <2>2, FirstParcel
  <2> QED
    BY <2>2, <2>3, <2>4 DEF Err
<1>6. CASE ~contains(ram_range, t, 4) /\ ~contains(stack_range, t, 4)
  <2>1. bus_read(t, 4) = Err
    BY <1>3, <1>6, BusRead
  <2>2. bus_read(t, 2) # Err => contains(ram_range, t, 2) \/ contains(stack_range, t, 2)
    BY <1>3, BusRead
  <2>3. contains(ram_range, t, 2) => t > end(ram_range) - 4
    BY <1>1, <1>2, <1>6 DEF contains, overflows, end
  <2>4. contains(stack_range, t, 2) => t > end(stack_range) - 4
    BY <1>1, <1>2, <1>6 DEF contains, overflows, end
  <2> QED
    BY <2>1, <2>2, <2>3, <2>4
<1> QED
  BY <1>4, <1>5, <1>6

LEMMA FetchHolds == MemInv => FetchIsExact
<1> SUFFICES ASSUME MemInv, NEW pc \in Virtual
             PROVE  LET parcel == cpu_read(pc, Parcel)
                        got    == cpu_fetch(pc)
                    IN  /\ parcel # Err /\ parcel % 4 # 3 =>
                              \/ got = parcel
                              \/ got = Err /\ \E r \in {ram_range, stack_range} :
                                    /\ contains(r, translate(pc), Parcel)
                                    /\ translate(pc) > end(r) - 2 * Parcel
                        /\ parcel # Err /\ parcel % 4 = 3 /\ Contiguous(pc, 2 * Parcel) =>
                              got = cpu_read(pc, 2 * Parcel)
                        /\ got # Err => got % power(BYTE, Parcel) = parcel
  BY DEF FetchIsExact
<1> DEFINE parcel == cpu_read(pc, 2)
           word   == cpu_read(pc, 4)
           got    == cpu_fetch(pc)
           t      == translate(pc)
           p      == power(BYTE, 2)
<1>1. Parcel = 2 /\ 2 * Parcel = 4
  BY DEF Parcel
<1>2. p \in Nat \ {0}
  BY ByteAssumption, PowerType
<1>3. t \in Int
  BY Translated
<1>4. got = IF word = Err \/ word % 4 = 3 THEN word ELSE word % p
  BY <1>1 DEF cpu_fetch
<1>5. /\ word # Err =>
            /\ parcel # Err /\ word \in Nat /\ parcel \in Nat
            /\ word % p = parcel /\ word % 4 = parcel % 4
      /\ word = Err /\ parcel # Err =>
            \E r \in {ram_range, stack_range} : contains(r, t, 2) /\ t > end(r) - 4
  <2>1. CASE t = Err
    BY <2>1 DEF cpu_read
  <2>2. CASE t # Err
    <3>1. word = bus_read(t, 4) /\ parcel = bus_read(t, 2)
      BY <2>2 DEF cpu_read
    <3> HIDE DEF word, parcel, t, p
    <3> QED
      BY <1>3, <3>1, BusParcels DEF p
  <2> QED
    BY <2>1, <2>2
<1> HIDE DEF word, parcel, got, t, p
<1>6. parcel # Err /\ parcel % 4 # 3 =>
         \/ got = parcel
         \/ got = Err /\ \E r \in {ram_range, stack_range} : contains(r, t, 2) /\ t > end(r) - 4
  BY <1>4, <1>5
<1>7. parcel # Err /\ parcel % 4 = 3 => got = word
  BY <1>4, <1>5
<1>8. got # Err => got % p = parcel
  <2>1. CASE word # Err
    <3>1. word % p \in Nat /\ word % p < p /\ (word % p) % p = word % p
      BY <1>2, <1>5, <2>1
    <3> QED
      BY <1>4, <1>5, <2>1, <3>1
  <2>2. CASE word = Err
    BY <1>4, <2>2
  <2> QED
    BY <2>1, <2>2
<1> QED
  BY <1>1, <1>6, <1>7, <1>8 DEF word, parcel, got, t, p

LEMMA MemStarts == MemInit => MemInv
<1> SUFFICES ASSUME MemInit PROVE MemInv
  OBVIOUS
<1> DEFINE B == 0 .. (BYTE - 1)
<1>1. Program \in Seq(B) /\ <<>> \in Seq(B) /\ Len(<<>>) = 0
  BY ByteAssumption
<1>2. Len(Program) \in Nat
  <2> HIDE DEF B
  <2> QED
    BY <1>1, LenProperties
<1>3. page_up(Len(Program)) \in Nat /\ Len(Program) <= page_up(Len(Program)) /\ STACK_SIZE \in Nat
  BY <1>2, PageUp, AddressAssumption
<1>4. IsMemory(with_content(Len(Program), Program), Len(Program))
  BY <1>1, <1>2, WithContentType
<1>5. IsMemory(with_content(page_up(Len(Program)), Program), page_up(Len(Program)))
  BY <1>1, <1>3, WithContentType
<1>6. IsMemory(with_content(STACK_SIZE, <<>>), STACK_SIZE)
  <2> DEFINE empty == <<>>
  <2>1. empty \in Seq(B) /\ STACK_SIZE \in Nat /\ STACK_SIZE >= Len(empty)
    BY <1>1, <1>3
  <2> HIDE DEF empty
  <2>2. IsMemory(with_content(STACK_SIZE, empty), STACK_SIZE)
    BY <2>1, WithContentType, Zenon
  <2> QED
    BY <2>2 DEF empty
<1> QED
  BY <1>4, <1>5, <1>6 DEF MemInit, MemInv

LEMMA StoreKeeps ==
    ASSUME MemInv, NEW va \in Virtual, NEW size \in Sizes, NEW value \in Values, Store(va, size, value)
    PROVE  MemInv'
<1> DEFINE t == translate(va)
<1>1. size \in Nat \ {0} /\ value \in Nat /\ t \in Int
  BY ByteAssumption, Translated
<1>2. ram_range.start \in Int /\ stack_range.start \in Int
  BY Shape DEF Lies
<1>3. map' = map
  BY DEF Store
<1>4. \/ ram' = ram_write(ram, t - ram_range.start, size, value) /\ stack' = stack
      \/ ram' = ram /\ stack' = ram_write(stack, t - stack_range.start, size, value)
  <2>1. ram' = bus_write(t, size, value)[1] /\ stack' = bus_write(t, size, value)[2]
    BY DEF Store
  <2> HIDE DEF t
  <2> QED
    BY <2>1 DEF bus_write
<1> HIDE DEF t
<1>5. CASE ram' = ram_write(ram, t - ram_range.start, size, value) /\ stack' = stack
  <2> DEFINE a == t - ram_range.start
  <2>1. a \in Int
    BY <1>1, <1>2
  <2> HIDE DEF a
  <2>2. ASSUME NEW n, IsMemory(ram, n) PROVE IsMemory(ram_write(ram, a, size, value), n)
    BY <1>1, <2>1, <2>2, RamWriteType
  <2> QED
    BY <1>3, <1>5, <2>2 DEF MemInv, a
<1>6. CASE ram' = ram /\ stack' = ram_write(stack, t - stack_range.start, size, value)
  <2> DEFINE a == t - stack_range.start
  <2>1. a \in Int
    BY <1>1, <1>2
  <2> HIDE DEF a
  <2>2. ASSUME NEW n, IsMemory(stack, n) PROVE IsMemory(ram_write(stack, a, size, value), n)
    BY <1>1, <2>1, <2>2, RamWriteType
  <2> QED
    BY <1>3, <1>6, <2>2 DEF MemInv, a
<1> QED
  BY <1>4, <1>5, <1>6

LEMMA MemKeeps == ASSUME MemInv, [MemNext]_mem_vars PROVE MemInv'
<1>1. ASSUME NEW va \in Virtual, NEW size \in Sizes, NEW value \in Values, Store(va, size, value)
      PROVE  MemInv'
  BY <1>1, StoreKeeps
<1>2. CASE Remap
  BY <1>2 DEF Remap, MemInv
<1>3. CASE UNCHANGED mem_vars
  BY <1>3 DEF mem_vars, MemInv
<1> QED
  BY <1>1, <1>2, <1>3 DEF MemNext

LEMMA MemAlways == MemSpec => []MemInv
BY MemStarts, MemKeeps, PTL DEF MemSpec

\* For every page size, program, stack, translation, access width and value
\* stored: a load that Bus::read serves gives the bytes that lie there, lowest
\* first, none is lost between the RAM, its padding and the stack, and a store
\* changes the bytes it covers and no others (Ram::read and Ram::write).
THEOREM AccessesBytewise == MemSpec => []AccessesAreBytewise
<1>1. MemInv => AccessesAreBytewise
  BY LoadsHold, StoresHold DEF AccessesAreBytewise
<1> QED
  BY <1>1, MemAlways, PTL

\* Cpu::fetch, which reads four bytes whatever is there, gives the instruction
\* that lies at pc and nothing of the next, for every content of the memories;
\* the only one it misses is a compressed one at the very end of a memory.
THEOREM FetchExact == MemSpec => []FetchIsExact
BY FetchHolds, MemAlways, PTL

-----------------------------------------------------------------------------
(* The arithmetic of the instructions. *)

\* The two halves of the numbers of a width: without and with the sign bit.
LEMMA Halves ==
    ASSUME NEW bits \in Nat \ {0}
    PROVE  /\ power(2, bits - 1) \in Nat \ {0} /\ power(2, bits) \in Nat \ {0}
           /\ power(2, bits) = 2 * power(2, bits - 1)
<1> DEFINE n == bits - 1
<1>1. n \in Nat /\ n + 1 = bits
  OBVIOUS
<1> HIDE DEF n
<1>2. power(2, n + 1) = 2 * power(2, n)
  BY <1>1, PowerNext
<1>3. power(2, n) \in Nat \ {0} /\ power(2, bits) \in Nat \ {0}
  BY <1>1, PowerType
<1> QED
  BY <1>1, <1>2, <1>3 DEF n

LEMMA AsSigned ==
    ASSUME NEW bits \in Nat \ {0}, NEW a \in 0 .. (power(2, bits) - 1)
    PROVE  LET s == as_signed(a, bits)
               h == power(2, bits - 1)
           IN  /\ s \in Int /\ -h <= s /\ s < h
               /\ \/ s = a /\ a < h
                  \/ s = a - power(2, bits) /\ s < 0 /\ h <= a
BY Halves DEF as_signed

\* Cutting a number to a width and reading it as signed gives it back, if it fits.
LEMMA SignedBack ==
    ASSUME NEW bits \in Nat \ {0}, NEW x \in Int, -power(2, bits - 1) <= x, x < power(2, bits - 1)
    PROVE  as_signed(x % power(2, bits), bits) = x
<1> DEFINE h == power(2, bits - 1)
           m == power(2, bits)
           k == IF x < 0 THEN -1 ELSE 0
           r == IF x < 0 THEN x + m ELSE x
<1>1. h \in Nat \ {0} /\ m \in Nat \ {0} /\ m = 2 * h /\ -h <= x /\ x < h
  BY Halves
<1> HIDE DEF h, m
<1>2. k \in Int /\ r \in Nat /\ r < m /\ m * k = -(IF x < 0 THEN m ELSE 0)
  BY <1>1
<1>3. x = m * k + r
  BY <1>1, <1>2
<1>4. (r >= h) = (x < 0)
  BY <1>1
<1> HIDE DEF k
<1>5. r = IF x < 0 THEN x + m ELSE x
  OBVIOUS
<1> HIDE DEF r
<1>6. x % m = r
  BY <1>1, <1>2, <1>3, DivUnique
<1>7. (IF r >= h THEN r - m ELSE r) = x
  BY <1>1, <1>4, <1>5
<1> QED
  BY <1>6, <1>7 DEF as_signed, h, m

LEMMA QuotientBound ==
    ASSUME NEW u \in Nat, NEW v \in Nat \ {0}
    PROVE  /\ u \div v \in Nat /\ u \div v <= u
           /\ v # 1 /\ u # 0 => u \div v < u
<1> DEFINE q == u \div v
           r == u % v
<1>1. q \in Int /\ r \in Nat /\ u = v * q + r /\ r < v
  BY DivLaw
<1> HIDE DEF q, r
<1>2. q \in Nat
  <2>1. CASE q < 0
    <3>1. v * q <= v * (-1)
      BY <1>1, <2>1
    <3> QED
      BY <1>1, <3>1
  <2> QED
    BY <1>1, <2>1
<1>3. v * q >= q
  BY <1>2
<1>4. ASSUME v # 1, u # 0, q = u PROVE FALSE
  <2>1. v * q >= 2 * q
    BY <1>2, <1>4
  <2> QED
    BY <1>1, <1>4, <2>1
<1> QED
  BY <1>1, <1>2, <1>3, <1>4 DEF q

\* Division truncates: the remainder is below the divisor and has the sign of the
\* dividend, and but for MIN / -1 the quotient fits where the operands do.
LEMMA Truncates ==
    ASSUME NEW x \in Int, NEW y \in Int, y # 0
    PROVE  LET q == quotient(x, y)
               r == remainder(x, y)
           IN  /\ q \in Int /\ r \in Int /\ q * y + r = x
               /\ -abs(y) < r /\ r < abs(y)
               /\ r # 0 => (r < 0) = (x < 0)
               /\ \A h \in Nat : /\ -h <= x /\ x < h /\ ~(x = -h /\ y = -1)
                                 => -h <= q /\ q < h
<1> DEFINE u == abs(x)
           v == abs(y)
           q == u \div v
           r == u % v
<1>1. /\ u \in Nat /\ v \in Nat \ {0}
      /\ IF x < 0 THEN x = -u ELSE x = u
      /\ IF y < 0 THEN y = -v ELSE y = v
  BY DEF abs
<1> HIDE DEF u, v
<1>2. q \in Int /\ r \in Nat /\ u = v * q + r /\ r < v
  BY <1>1, DivLaw
<1>3. q \in Nat /\ q <= u /\ (v # 1 /\ u # 0 => q < u)
  BY <1>1, QuotientBound
<1> HIDE DEF q, r
<1>4. remainder(x, y) = IF x < 0 THEN -r ELSE r
  BY DEF remainder, u, v, r
<1>5. quotient(x, y) = IF (x < 0) = (y < 0) THEN q ELSE -q
  BY DEF quotient, u, v, q
<1>6. quotient(x, y) * y = IF x < 0 THEN -(v * q) ELSE v * q
  <2>1. v * q \in Int /\ q * v = v * q /\ (-q) * v = -(v * q)
        /\ q * (-v) = -(v * q) /\ (-q) * (-v) = v * q
    BY <1>1, <1>2
  <2>2. CASE x < 0 /\ y < 0
    BY <1>1, <1>5, <2>1, <2>2
  <2>3. CASE x < 0 /\ ~(y < 0)
    BY <1>1, <1>5, <2>1, <2>3
  <2>4. CASE ~(x < 0) /\ y < 0
    BY <1>1, <1>5, <2>1, <2>4
  <2>5. CASE ~(x < 0) /\ ~(y < 0)
    BY <1>1, <1>5, <2>1, <2>5
  <2> QED
    BY <2>2, <2>3, <2>4, <2>5
<1>7. quotient(x, y) * y + remainder(x, y) = x
  <2> DEFINE w == v * q
  <2>1. w \in Int /\ u = w + r
    BY <1>1, <1>2
  <2> HIDE DEF w
  <2>2. quotient(x, y) * y = IF x < 0 THEN -w ELSE w
    BY <1>6 DEF w
  <2> DEFINE p == quotient(x, y) * y
  <2> HIDE DEF p
  <2>3. p + remainder(x, y) = x
    BY <1>1, <1>2, <1>4, <2>1, <2>2 DEF p
  <2> QED
    BY <2>3 DEF p
<1>8. -v < remainder(x, y) /\ remainder(x, y) < v /\ remainder(x, y) \in Int
  BY <1>1, <1>2, <1>4
<1>9. remainder(x, y) # 0 => (remainder(x, y) < 0) = (x < 0)
  BY <1>2, <1>4
<1>10. ASSUME NEW h \in Nat, -h <= x, x < h, ~(x = -h /\ y = -1)
       PROVE  -h <= quotient(x, y) /\ quotient(x, y) < h
  <2>1. u <= h /\ (u = h => x = -h)
    BY <1>1, <1>10
  <2>2. ASSUME u = h, q = h, ~(y < 0) PROVE -h <= quotient(x, y) /\ quotient(x, y) < h
    BY <1>1, <1>5, <1>10, <2>1, <2>2
  <2>3. ASSUME u = h, q = h, y < 0 PROVE FALSE
    BY <1>1, <1>3, <1>10, <2>1, <2>3
  <2>4. q <= h
    BY <1>1, <1>3, <2>1
  <2>5. CASE q = h
    BY <1>1, <1>3, <2>1, <2>2, <2>3, <2>5
  <2>6. CASE q < h
    BY <1>3, <1>5, <2>6
  <2> QED
    BY <1>3, <2>4, <2>5, <2>6
<1> QED
  BY <1>2, <1>5, <1>7, <1>8, <1>9, <1>10 DEF v

\* Both halves of a pair that arith computes apart, as numbers.
LEMMA Signed ==
    ASSUME NEW bits \in Nat \ {0}, NEW a \in 0 .. (power(2, bits) - 1),
           NEW b \in 0 .. (power(2, bits) - 1), b # 0
    PROVE  LET x == as_signed(a, bits)
               y == as_signed(b, bits)
               h == power(2, bits - 1)
           IN  /\ x \in Int /\ y \in Int /\ y # 0
               /\ -h <= x /\ x < h
               /\ -h <= y /\ y < h
               /\ (a = h /\ b = power(2, bits) - 1) = (x = -h /\ y = -1)
<1> DEFINE x == as_signed(a, bits)
           y == as_signed(b, bits)
           h == power(2, bits - 1)
           m == power(2, bits)
<1>1. h \in Nat \ {0} /\ m = 2 * h
  BY Halves
<1>2. /\ x \in Int /\ -h <= x /\ x < h
      /\ (x = a /\ a < h) \/ (x = a - m /\ x < 0 /\ h <= a)
  BY AsSigned
<1>3. /\ y \in Int /\ -h <= y /\ y < h
      /\ (y = b /\ b < h) \/ (y = b - m /\ y < 0 /\ h <= b)
  BY AsSigned
<1>4. a \in Nat /\ b \in Nat /\ a < m /\ b < m
  BY <1>1
<1> HIDE DEF x, y, h, m
<1>5. y # 0
  BY <1>1, <1>3, <1>4
<1>6. (a = h /\ b = m - 1) = (x = -h /\ y = -1)
  BY <1>1, <1>2, <1>3, <1>4
<1> QED
  BY <1>2, <1>3, <1>5, <1>6 DEF x, y, h, m

LEMMA DivisionHolds ==
    ASSUME NEW bits \in Nat \ {0}, NEW a \in 0 .. (power(2, bits) - 1),
           NEW b \in 0 .. (power(2, bits) - 1)
    PROVE  DivisionLaw(a, b, arith("div", a, b, bits), arith("rem", a, b, bits),
                       arith("divu", a, b, bits), arith("remu", a, b, bits), bits)
<1> DEFINE m == power(2, bits)
           h == power(2, bits - 1)
           sa == as_signed(a, bits)
           sb == as_signed(b, bits)
           q == arith("div", a, b, bits)
           r == arith("rem", a, b, bits)
           sq == as_signed(q, bits)
           sr == as_signed(r, bits)
           uq == arith("divu", a, b, bits)
           ur == arith("remu", a, b, bits)
<1>1. /\ q = div(a, b, bits) /\ r = rem(a, b, bits)
      /\ uq = IF b = 0 THEN m - 1 ELSE a \div b
      /\ ur = IF b = 0 THEN a ELSE a % b
  BY DEF arith
<1>2. h \in Nat \ {0} /\ m \in Nat \ {0} /\ m = 2 * h
  BY Halves
<1>3. a \in Nat /\ b \in Nat /\ a < m /\ b < m
  BY <1>2
<1> HIDE DEF q, r, uq, ur
<1>4. CASE b = 0
  <2>1. q = m - 1 /\ uq = m - 1 /\ r = a /\ ur = a
    BY <1>1, <1>4 DEF div, rem
  <2> QED
    BY <1>4, <2>1 DEF DivisionLaw, q, r, uq, ur
<1>5. CASE b # 0
  <2>1. uq * b + ur = a /\ ur < b
    <3>1. /\ a \div b \in Int /\ a % b \in Nat
          /\ a = b * (a \div b) + (a % b)
          /\ a % b < b
      BY <1>3, <1>5, DivLaw
    <3> DEFINE v == a \div b
               w == a % b
    <3> HIDE DEF v, w
    <3>2. uq = v /\ ur = w
      BY <1>1, <1>5 DEF v, w
    <3>3. v \in Int /\ w \in Nat /\ a = b * v + w /\ w < b
      BY <3>1 DEF v, w
    <3>4. v * b = b * v
      BY <1>3, <3>3
    <3> QED
      BY <1>3, <3>2, <3>3, <3>4
  <2>2. /\ sa \in Int /\ sb \in Int /\ sb # 0
        /\ -h <= sa /\ sa < h
        /\ -h <= sb /\ sb < h
        /\ (a = h /\ b = m - 1) = (sa = -h /\ sb = -1)
    BY <1>5, Signed
  <2> HIDE DEF sa, sb
  <2>3. /\ (sq * sb + sr - sa) % m = 0
        /\ (sa = -h /\ sb = -1) \/ sq * sb + sr = sa
        /\ -abs(sb) < sr /\ sr < abs(sb)
        /\ sr # 0 => (sr < 0) = (sa < 0)
    <3>1. CASE a = h /\ b = m - 1
      <4>1. q = a /\ r = 0
        BY <1>1, <1>5, <3>1 DEF div, rem, m, h
      <4>2. sq = -h /\ sr = 0
        BY <1>2, <3>1, <4>1 DEF as_signed, m, h
      <4>3. sq * sb + sr - sa = m * 1 + 0 /\ sa = -h /\ sb = -1
        BY <1>2, <2>2, <3>1, <4>2
      <4>4. (m * 1 + 0) % m = 0
        BY <1>2
      <4>5. abs(sb) = 1
        <5>1. sb \in Int /\ sb + 1 = 0
          BY <2>2, <4>3
        <5> QED
          BY <5>1 DEF abs
      <4>6. (sq * sb + sr - sa) % m = 0
        BY <4>3, <4>4, Zenon
      <4> HIDE DEF sq, sr
      <4> QED
        BY <4>2, <4>3, <4>5, <4>6
    <3>2. CASE ~(a = h /\ b = m - 1)
      <4> DEFINE x == quotient(sa, sb)
                 y == remainder(sa, sb)
      <4>1. q = x % m /\ r = y % m
        BY <1>1, <1>5, <3>2 DEF div, rem, m, h, sa, sb
      <4>2. /\ x \in Int /\ y \in Int /\ x * sb + y = sa
            /\ -abs(sb) < y /\ y < abs(sb)
            /\ y # 0 => (y < 0) = (sa < 0)
            /\ -h <= x /\ x < h
        BY <1>2, <2>2, <3>2, Truncates
      <4> HIDE DEF x, y
      <4>3. -h <= y /\ y < h
        BY <1>2, <2>2, <4>2 DEF abs
      <4>4. sq = x /\ sr = y
        BY <1>2, <4>1, <4>2, <4>3, SignedBack DEF m, h
      <4>5. (x * sb + y - sa) % m = 0
        <5> DEFINE z == x * sb
        <5>1. z \in Int /\ z + y = sa
          BY <2>2, <4>2
        <5> HIDE DEF z
        <5>2. z + y - sa = 0
          BY <2>2, <4>2, <5>1
        <5>3. 0 % m = 0
          BY <1>2
        <5> QED
          BY <5>2, <5>3 DEF z
      <4> QED
        BY <4>2, <4>4, <4>5
    <3> QED
      BY <3>1, <3>2
  <2> QED
    BY <1>5, <2>1, <2>3 DEF DivisionLaw, m, h, sa, sb, q, r, uq, ur
<1> QED
  BY <1>4, <1>5

\* Operands that agree modulo a width have products that do.
LEMMA SameProduct ==
    ASSUME NEW m \in Nat \ {0}, NEW a \in Int, NEW y \in Int, NEW x, x = a \/ x = a - m
    PROVE  (x * y) % m = (a * y) % m
<1>1. CASE x = a
  BY <1>1
<1>2. CASE x = a - m
  <2> DEFINE k == -y
             v == a * y
  <2>1. k \in Int /\ v \in Int
    OBVIOUS
  <2>2. x * y = v + m * k
    <3>1. (a - m) * y = a * y - m * y /\ m * k = -(m * y)
      OBVIOUS
    <3> QED
      BY <1>2, <3>1
  <2> HIDE DEF k, v
  <2>3. (v + m * k) % m = v % m
    BY <2>1, DivPlus
  <2> QED
    BY <2>2, <2>3, Zenon DEF v
<1> QED
  BY <1>1, <1>2

\* The upper half of a product that fits in both, and the lower half, make it up.
LEMMA HalvesOfProduct ==
    ASSUME NEW bits \in Nat \ {0}, NEW p \in Int,
           -(power(2, bits - 1) * power(2, bits)) <= p, p < power(2, bits - 1) * power(2, bits)
    PROVE  LET m == power(2, bits)
           IN  as_signed((p \div m) % m, bits) * m + (p % m) = p
<1> DEFINE m == power(2, bits)
           h == power(2, bits - 1)
           q == p \div m
           r == p % m
<1>1. h \in Nat \ {0} /\ m \in Nat \ {0} /\ m = 2 * h /\ -(h * m) <= p /\ p < h * m
  BY Halves
<1> HIDE DEF m, h
<1>2. q \in Int /\ r \in Nat /\ p = m * q + r /\ r < m
  BY <1>1, DivLaw
<1> HIDE DEF q, r
<1>3. q < h
  <2>1. ASSUME q >= h PROVE FALSE
    <3>1. m * q >= m * h /\ m * h = h * m
      BY <1>1, <1>2, <2>1
    <3> QED
      BY <1>1, <1>2, <3>1
  <2> QED
    BY <1>1, <1>2, <2>1
<1>4. -h <= q
  <2>1. ASSUME q <= -h - 1 PROVE FALSE
    <3>1. m * q <= m * (-h - 1) /\ m * (-h - 1) = -(h * m) - m
      BY <1>1, <1>2, <2>1
    <3> QED
      BY <1>1, <1>2, <3>1
  <2> QED
    BY <1>1, <1>2, <2>1
<1>5. as_signed(q % m, bits) = q
  BY <1>2, <1>3, <1>4, SignedBack DEF m, h
<1>6. q * m + r = p
  <2>1. q * m = m * q
    BY <1>1, <1>2
  <2> QED
    BY <1>2, <2>1
<1> QED
  BY <1>5, <1>6 DEF m, q, r

LEMMA NaturalProductFits ==
    ASSUME NEW m \in Nat, NEW x \in Nat, NEW y \in Nat, x < m, y < m
    PROVE  x * y < m * m
<1>1. x * y <= x * m
  OBVIOUS
<1>2. x * m + m <= m * m
  <2>1. (x + 1) * m <= m * m /\ (x + 1) * m = x * m + m
    OBVIOUS
  <2> QED
    BY <2>1
<1> DEFINE p == x * y
           q == x * m
           t == m * m
<1>3. p \in Int /\ q \in Int /\ t \in Int /\ p <= q /\ q + m <= t /\ m > 0
  BY <1>1, <1>2
<1> HIDE DEF p, q, t
<1>4. p < t
  BY <1>3
<1> QED
  BY <1>4 DEF p, t

\* A signed number times a number of the width, signed or not, fits in both halves.
LEMMA ProductFits ==
    ASSUME NEW h \in Nat, NEW m \in Nat, h <= m,
           NEW x \in Int, -h <= x, x < h, NEW y \in Int, -h <= y, y < m, m = 2 * h
    PROVE  x * y \in Int /\ -(h * m) <= x * y /\ x * y < h * m
<1> DEFINE u == abs(x)
           v == abs(y)
<1>1. /\ u \in Nat /\ u <= h /\ (x = u \/ x = -u)
      /\ v \in Nat /\ v < m /\ (y = v \/ y = -v)
      /\ h # 0
  BY DEF abs
<1> HIDE DEF u, v
<1>2. u * v <= h * v
  BY <1>1
<1>3. h * v + h <= h * m
  <2>1. h * (v + 1) <= h * m /\ h * (v + 1) = h * v + h
    BY <1>1
  <2> QED
    BY <2>1
<1> DEFINE p == u * v
           q == h * v
           t == h * m
<1>4. p \in Nat /\ q \in Int /\ t \in Int /\ p <= q /\ q + h <= t
  BY <1>1, <1>2, <1>3
<1>5. x * y = p \/ x * y = -p
  <2>1. (-u) * v = -(u * v) /\ u * (-v) = -(u * v) /\ (-u) * (-v) = u * v
    BY <1>1
  <2> QED
    BY <1>1, <2>1
<1> DEFINE w == x * y
<1>6. w = p \/ w = -p
  BY <1>5
<1> HIDE DEF p, q, t, w
<1>7. w \in Int /\ -t <= w /\ w < t
  BY <1>1, <1>4, <1>6
<1> QED
  BY <1>7 DEF w, t

LEMMA ProductHolds ==
    ASSUME NEW a \in Operands, NEW b \in Operands
    PROVE  ProductLaw(a, b)
<1> DEFINE n == XLEN
           m == power(2, n)
           h == power(2, n - 1)
           sa == as_signed(a, n)
           sb == as_signed(b, n)
<1>1. n \in Nat \ {0}
  BY XlenAssumption
<1> HIDE DEF n
<1>2. h \in Nat \ {0} /\ m \in Nat \ {0} /\ m = 2 * h
  BY <1>1, Halves
<1>3. a \in 0 .. (m - 1) /\ b \in 0 .. (m - 1) /\ a \in Nat /\ b \in Nat
  BY <1>2 DEF Operands, n
<1>4. sa \in Int /\ -h <= sa /\ sa < h /\ (sa = a \/ sa = a - m)
  BY <1>1, <1>3, AsSigned
<1>5. sb \in Int /\ -h <= sb /\ sb < h /\ (sb = b \/ sb = b - m)
  BY <1>1, <1>3, AsSigned
<1> DEFINE upper(p) == (p \div m) % m
<1>6. /\ op("mul", a, b) = (a * b) % m
      /\ op("mulhu", a, b) = upper(a * b)
      /\ op("mulhsu", a, b) = upper(sa * b)
      /\ op("mulh", a, b) = upper(sa * sb)
  BY DEF op, arith, high, n
<1>7. /\ (sa * sb) % m = (a * b) % m
      /\ (sa * b) % m = (a * b) % m
  <2>1. m \in Nat \ {0} /\ a \in Int /\ b \in Int
    BY <1>2, <1>3
  <2> HIDE DEF m, sa, sb
  <2>2. (sa * b) % m = (a * b) % m
    BY <1>4, <2>1, SameProduct
  <2>3. (sb * sa) % m = (b * sa) % m
    BY <1>4, <1>5, <2>1, SameProduct
  <2>4. sb * sa = sa * sb /\ b * sa = sa * b
    BY <1>4, <1>5, <2>1
  <2> QED
    BY <2>2, <2>3, <2>4, Zenon
<1> HIDE DEF sa, sb, m, h
<1>8. ASSUME NEW p \in Int, -(h * m) <= p, p < h * m
       PROVE  as_signed(upper(p), n) * m + (p % m) = p
  BY <1>1, <1>8, HalvesOfProduct DEF m, h
<1>9. as_signed(upper(sa * sb), n) * m + ((sa * sb) % m) = sa * sb
  <2>1. sa * sb \in Int /\ -(h * m) <= sa * sb /\ sa * sb < h * m
    BY <1>2, <1>4, <1>5, ProductFits
  <2> QED
    BY <1>8, <2>1
<1>10. as_signed(upper(sa * b), n) * m + ((sa * b) % m) = sa * b
  <2>1. sa * b \in Int /\ -(h * m) <= sa * b /\ sa * b < h * m
    BY <1>2, <1>3, <1>4, ProductFits
  <2> QED
    BY <1>8, <2>1
<1>11. upper(a * b) * m + ((a * b) % m) = a * b
  <2> DEFINE p == a * b
             q == p \div m
             r == p % m
  <2>1. p \in Nat
    BY <1>3
  <2>2. p < m * m
    BY <1>2, <1>3, NaturalProductFits
  <2> HIDE DEF p
  <2>3. q \in Int /\ r \in Nat /\ p = m * q + r /\ r < m
    <3>1. p \in Int /\ m \in Nat \ {0}
      BY <1>2, <2>1
    <3> QED
      BY <3>1, DivLaw, Zenon
  <2> HIDE DEF q, r
  <2>4. q < m
    <3>1. ASSUME q >= m PROVE FALSE
      <4>1. m * q >= m * m
        BY <1>2, <2>3, <3>1
      <4> QED
        BY <1>2, <2>1, <2>2, <2>3, <4>1
    <3> QED
      BY <1>2, <2>3, <3>1
  <2>5. 0 <= q
    <3>1. ASSUME q <= -1 PROVE FALSE
      <4>1. m * q <= m * (-1)
        BY <1>2, <2>3, <3>1
      <4> QED
        BY <1>2, <2>1, <2>3, <4>1
    <3> QED
      BY <2>3, <3>1
  <2>6. q % m = q
    BY <1>2, <2>3, <2>4, <2>5
  <2>7. q * m = m * q
    BY <1>2, <2>3
  <2> QED
    BY <2>3, <2>6, <2>7 DEF p, q, r
<1> DEFINE whole(name) == as_signed(op(name, a, b), n) * m + op("mul", a, b)
<1>12. whole("mulh") = sa * sb
  BY <1>6, <1>7, <1>9, Zenon
<1>13. whole("mulhsu") = sa * b
  BY <1>6, <1>7, <1>10, Zenon
<1>14. op("mulhu", a, b) * m + op("mul", a, b) = a * b
  BY <1>6, <1>11, Zenon
<1> QED
  BY <1>12, <1>13, <1>14 DEF ProductLaw, n, m, sa, sb

\* The bits of a number read as signed are its own, and then copies of the top one.
LEMMA SignExtends ==
    ASSUME NEW bits \in Nat \ {0}, NEW a \in 0 .. (power(2, bits) - 1), NEW i \in Nat
    PROVE  digit(as_signed(a, bits), 2, i) = digit(a, 2, IF i < bits THEN i ELSE bits - 1)
<1> DEFINE m == power(2, bits)
           t == bits - 1
           h == power(2, t)
           s == as_signed(a, bits)
<1>1. h \in Nat \ {0} /\ m \in Nat \ {0} /\ a \in Nat /\ a < m
  BY Halves
<1>2. s \in Int /\ -h <= s /\ s < h /\ (s = a \/ s = a - m)
  BY AsSigned
<1>3. t \in Nat /\ t + 1 = bits /\ 2 \in Nat \ {0}
  OBVIOUS
<1> HIDE DEF s, t
<1>4. s % m = a
  <2> DEFINE k == IF s = a THEN 0 ELSE -1
  <2>1. k \in Int /\ m * k = (IF s = a THEN 0 ELSE -m)
    BY <1>1
  <2>2. s = m * k + a
    BY <1>1, <1>2, <2>1
  <2> HIDE DEF k, m
  <2> QED
    BY <1>1, <1>2, <2>1, <2>2, DivUnique
<1>5. ASSUME NEW j \in 0 .. (bits - 1) PROVE digit(s, 2, j) = digit(a, 2, j)
  BY <1>2, <1>3, <1>4, DigitLow DEF m
<1>6. ASSUME NEW j \in Nat, j >= t PROVE digit(s, 2, j) = IF s < 0 THEN 1 ELSE 0
  <2>1. /\ 0 <= s /\ s < h => digit(s, 2, j) = 0
        /\ -h <= s /\ s < 0 => digit(s, 2, j) = 2 - 1
    BY <1>2, <1>3, <1>6, DigitHigh
  <2> HIDE DEF h
  <2> QED
    BY <1>1, <1>2, <2>1
<1>7. CASE i < bits
  BY <1>5, <1>7 DEF s
<1>8. CASE i >= bits
  <2>1. digit(s, 2, i) = digit(s, 2, t)
    BY <1>3, <1>6, <1>8
  <2>2. digit(s, 2, t) = digit(a, 2, t)
    BY <1>3, <1>5
  <2> QED
    BY <1>8, <2>1, <2>2 DEF s, t
<1> QED
  BY <1>7, <1>8

\* The low bits of v are those of x, moved by d, with fill where x has none.
Moves(v, x, bits, d, fill) ==
    \A j \in 0 .. (bits - 1) :
        digit(v, 2, j) = IF j + d \in 0 .. (bits - 1) THEN digit(x, 2, j + d) ELSE fill

LEMMA ShiftsMove ==
    ASSUME NEW bits \in Nat \ {0}, NEW a \in 0 .. (power(2, bits) - 1), NEW b \in Nat
    PROVE  LET s == b % bits
               results == 0 .. (power(2, bits) - 1)
           IN  /\ arith("sll", a, b, bits) \in results
               /\ Moves(arith("sll", a, b, bits), a, bits, -s, 0)
               /\ arith("srl", a, b, bits) \in results
               /\ Moves(arith("srl", a, b, bits), a, bits, s, 0)
               /\ arith("sra", a, b, bits) \in results
               /\ Moves(arith("sra", a, b, bits), a, bits, s, digit(a, 2, bits - 1))
<1> DEFINE s == b % bits
           m == power(2, bits)
           p == power(2, s)
           x == as_signed(a, bits)
<1>1. s \in Nat /\ s < bits
  BY DivLaw
<1>2. /\ arith("sll", a, b, bits) = (a * p) % m
      /\ arith("srl", a, b, bits) = a \div p
      /\ arith("sra", a, b, bits) = (x \div p) % m
  BY DEF arith, sra
<1> HIDE DEF s
<1>3. m \in Nat \ {0} /\ p \in Nat \ {0} /\ a \in Nat /\ a < m /\ 2 \in Nat \ {0}
  BY <1>1, PowerType
<1>4. x \in Int
  BY AsSigned
<1> HIDE DEF x
<1>5. a * p \in Int /\ x \div p \in Int /\ a \div p \in Nat /\ a \div p <= a
  BY <1>3, <1>4, DivLaw, QuotientBound
<1>6. (a * p) % m \in 0 .. (m - 1) /\ a \div p \in 0 .. (m - 1) /\ (x \div p) % m \in 0 .. (m - 1)
  <2>1. ASSUME NEW v \in Int PROVE v % m \in 0 .. (m - 1)
    BY <1>3, DivLaw
  <2> QED
    BY <1>3, <1>5, <2>1
<1>7. ASSUME NEW j \in 0 .. (bits - 1)
      PROVE  digit((a * p) % m, 2, j)
                 = IF j + (-s) \in 0 .. (bits - 1) THEN digit(a, 2, j + (-s)) ELSE 0
  <2> DEFINE v == a * p
  <2>1. digit(v, 2, j) = IF j < s THEN 0 ELSE digit(a, 2, j - s)
    BY <1>1, <1>3, DigitUp
  <2>2. v \in Int
    BY <1>5
  <2> HIDE DEF v, p
  <2>3. digit(v % m, 2, j) = digit(v, 2, j)
    BY <1>3, <2>2, DigitLow
  <2>4. j + (-s) = j - s /\ (j - s \in 0 .. (bits - 1)) = ~(j < s)
    BY <1>1
  <2> QED
    BY <2>1, <2>3, <2>4 DEF v
<1>8. ASSUME NEW j \in 0 .. (bits - 1)
      PROVE  digit(a \div p, 2, j) = IF j + s \in 0 .. (bits - 1) THEN digit(a, 2, j + s) ELSE 0
  <2>1. digit(a \div p, 2, j) = digit(a, 2, j + s)
    BY <1>1, <1>3, DigitDown
  <2>2. j + s \in Nat
    BY <1>1
  <2>3. j + s >= bits => digit(a, 2, j + s) = 0
    BY <1>3, <2>2, DigitHigh
  <2> HIDE DEF p
  <2> QED
    BY <1>1, <2>1, <2>2, <2>3
<1>9. ASSUME NEW j \in 0 .. (bits - 1)
      PROVE  digit((x \div p) % m, 2, j)
                 = IF j + s \in 0 .. (bits - 1) THEN digit(a, 2, j + s) ELSE digit(a, 2, bits - 1)
  <2>1. digit(x \div p, 2, j) = digit(x, 2, j + s)
    BY <1>1, <1>3, <1>4, DigitDown
  <2> HIDE DEF p
  <2> DEFINE v == x \div p
  <2>2. v \in Int
    BY <1>5
  <2> HIDE DEF v
  <2>3. digit(v % m, 2, j) = digit(v, 2, j)
    BY <1>3, <2>2, DigitLow
  <2>4. j + s \in Nat /\ (j + s \in 0 .. (bits - 1)) = (j + s < bits)
    BY <1>1
  <2>5. digit(x, 2, j + s) = digit(a, 2, IF j + s < bits THEN j + s ELSE bits - 1)
    BY <2>4, SignExtends DEF x
  <2> QED
    BY <2>1, <2>3, <2>4, <2>5 DEF v
<1> HIDE DEF p, m
<1> QED
  BY <1>2, <1>6, <1>7, <1>8, <1>9 DEF Moves, s, m

\* The -W instructions: sign-extending the low half copies its top bit.
LEMMA ShiftsWiden ==
    ASSUME NEW v \in 0 .. (power(2, WLEN) - 1), NEW a \in Nat, NEW d \in Int, NEW fill,
           Moves(v, a % power(2, WLEN), WLEN, d, fill)
    PROVE  Shifted(as_signed(v, WLEN) % power(2, XLEN), a, WLEN, d, fill)
<1> DEFINE y == as_signed(v, WLEN)
           x == a % power(2, WLEN)
<1>1. WLEN \in Nat \ {0} /\ XLEN \in Nat /\ 2 \in Nat \ {0}
  BY XlenAssumption
<1>2. y \in Int
  BY <1>1, AsSigned
<1>3. ASSUME NEW i \in 0 .. (XLEN - 1)
      PROVE  LET j == (IF i < WLEN THEN i ELSE WLEN - 1) + d
             IN  digit(y % power(2, XLEN), 2, i)
                     = IF j \in 0 .. (WLEN - 1) THEN digit(a, 2, j) ELSE fill
  <2> DEFINE k == IF i < WLEN THEN i ELSE WLEN - 1
  <2>1. k \in 0 .. (WLEN - 1)
    BY <1>1
  <2>2. digit(y, 2, i) = digit(v, 2, k)
    BY <1>1, SignExtends
  <2> HIDE DEF y, k
  <2>3. digit(y % power(2, XLEN), 2, i) = digit(y, 2, i)
    BY <1>1, <1>2, DigitLow
  <2>4. digit(v, 2, k) = IF k + d \in 0 .. (WLEN - 1) THEN digit(x, 2, k + d) ELSE fill
    BY <2>1 DEF Moves
  <2>5. ASSUME NEW j \in 0 .. (WLEN - 1) PROVE digit(x, 2, j) = digit(a, 2, j)
    BY <1>1, DigitLow
  <2> QED
    BY <2>2, <2>3, <2>4, <2>5 DEF k
<1> QED
  BY <1>3 DEF Shifted

\* The width is a power of two, so the low half of b holds the shift amount.
LEMMA AmountInLowHalf ==
    ASSUME NEW b \in Nat
    PROVE  (b % power(2, WLEN)) % WLEN = b % WLEN
<1>1. PICK k \in 0 .. WLEN : WLEN = power(2, k)
  BY XlenAssumption
<1> DEFINE w == WLEN
           q == power(2, WLEN - k)
<1>2. w \in Nat \ {0} /\ q \in Nat \ {0}
  <2>1. WLEN - k \in Nat /\ 2 \in Nat \ {0}
    BY <1>1, XlenAssumption
  <2> QED
    BY <2>1, PowerType, XlenAssumption
<1>3. power(2, WLEN) = w * q
  <2>1. WLEN \in Nat /\ 2 \in Nat \ {0}
    BY XlenAssumption
  <2>2. power(2, WLEN) = power(2, k) * q
    BY <2>1, PowerSplit
  <2> QED
    BY <1>1, <2>2
<1> HIDE DEF w, q
<1> DEFINE r == b % w
           c == (b \div w) % q
<1>4. b % (w * q) = r + w * c
  <2>1. b \in Int
    OBVIOUS
  <2> QED
    BY <1>2, <2>1, DivDiv, Zenon
<1>5. r \in Nat /\ r \in Int /\ r < w /\ c \in Int
  <2> DEFINE e == b \div w
  <2>1. e \in Int /\ r \in Nat /\ r < w
    BY <1>2, DivLaw
  <2> HIDE DEF e
  <2>2. e % q \in Nat
    BY <1>2, <2>1, DivLaw
  <2> QED
    BY <2>1, <2>2 DEF e
<1> HIDE DEF r, c
<1>6. (r + w * c) % w = r % w
  BY <1>2, <1>5, DivPlus, Zenon
<1>7. r % w = r
  BY <1>2, <1>5
<1>8. (b % (w * q)) % w = r
  BY <1>4, <1>6, <1>7, Zenon
<1> QED
  BY <1>3, <1>8 DEF w, r

LEMMA ShiftsHold ==
    ASSUME NEW a \in Operands, NEW b \in Operands
    PROVE  ShiftsMoveBits(a, b)
<1> DEFINE m == power(2, WLEN)
           x == a % m
           y == b % m
           s == b % XLEN
           sw == b % WLEN
<1>1. /\ WLEN \in Nat \ {0} /\ XLEN \in Nat \ {0} /\ m \in Nat \ {0}
      /\ a \in Nat /\ b \in Nat /\ a \in 0 .. (power(2, XLEN) - 1)
  <2>1. WLEN \in Nat \ {0} /\ XLEN \in Nat \ {0} /\ 2 \in Nat \ {0}
    BY XlenAssumption
  <2>2. m \in Nat \ {0} /\ power(2, XLEN) \in Nat
    BY <2>1, PowerType
  <2> QED
    BY <2>1, <2>2 DEF Operands
<1>2. x \in 0 .. (m - 1) /\ y \in Nat
  <2> HIDE DEF m
  <2> QED
    BY <1>1, DivLaw
<1>3. y % WLEN = sw
  BY <1>1, AmountInLowHalf
<1>4. s \in Nat /\ sw \in Nat
  BY <1>1, DivLaw
<1>5. /\ op("sll", a, b) = arith("sll", a, b, XLEN)
      /\ op("srl", a, b) = arith("srl", a, b, XLEN)
      /\ op("sra", a, b) = arith("sra", a, b, XLEN)
  BY DEF op
<1>6. ASSUME NEW v, NEW d \in Int, NEW fill, Moves(v, a, XLEN, d, fill)
      PROVE  Shifted(v, a, XLEN, d, fill)
  BY <1>1, <1>6 DEF Moves, Shifted
<1>7. /\ Shifted(op("sll", a, b), a, XLEN, -s, 0)
      /\ Shifted(op("srl", a, b), a, XLEN, s, 0)
      /\ Shifted(op("sra", a, b), a, XLEN, s, digit(a, 2, XLEN - 1))
  <2>1. /\ Moves(arith("sll", a, b, XLEN), a, XLEN, -s, 0)
        /\ Moves(arith("srl", a, b, XLEN), a, XLEN, s, 0)
        /\ Moves(arith("sra", a, b, XLEN), a, XLEN, s, digit(a, 2, XLEN - 1))
    BY <1>1, ShiftsMove
  <2>2. s \in Int /\ -s \in Int
    BY <1>4
  <2> HIDE DEF s
  <2> QED
    BY <1>5, <1>6, <2>1, <2>2
<1>8. /\ Shifted(op32("sll", a, b), a, WLEN, -sw, 0)
      /\ Shifted(op32("srl", a, b), a, WLEN, sw, 0)
      /\ Shifted(op32("sra", a, b), a, WLEN, sw, digit(a, 2, WLEN - 1))
  <2> DEFINE v(name) == arith(name, x, y, WLEN)
  <2>1. /\ v("sll") \in 0 .. (m - 1) /\ Moves(v("sll"), x, WLEN, -(y % WLEN), 0)
        /\ v("srl") \in 0 .. (m - 1) /\ Moves(v("srl"), x, WLEN, y % WLEN, 0)
        /\ v("sra") \in 0 .. (m - 1) /\ Moves(v("sra"), x, WLEN, y % WLEN, digit(x, 2, WLEN - 1))
    BY <1>1, <1>2, ShiftsMove
  <2>2. digit(x, 2, WLEN - 1) = digit(a, 2, WLEN - 1)
    <3>1. WLEN - 1 \in 0 .. (WLEN - 1) /\ WLEN \in Nat /\ a \in Int /\ 2 \in Nat \ {0}
      BY <1>1
    <3> QED
      BY <3>1, DigitLow
  <2>3. ASSUME NEW name, NEW d \in Int, NEW fill,
               v(name) \in 0 .. (m - 1), Moves(v(name), x, WLEN, d, fill)
        PROVE  Shifted(op32(name, a, b), a, WLEN, d, fill)
    <3>1. op32(name, a, b) = as_signed(v(name), WLEN) % power(2, XLEN)
      BY DEF op32
    <3> DEFINE z == v(name)
    <3>2. z \in 0 .. (m - 1) /\ Moves(z, x, WLEN, d, fill)
      BY <2>3
    <3> HIDE DEF z
    <3>3. Shifted(as_signed(z, WLEN) % power(2, XLEN), a, WLEN, d, fill)
      BY <1>1, <3>2, ShiftsWiden
    <3> QED
      BY <3>1, <3>3 DEF z
  <2>4. sw \in Int /\ -sw \in Int
    BY <1>4
  <2> HIDE DEF v, sw, x, y, m
  <2> QED
    BY <1>3, <2>1, <2>2, <2>3, <2>4
<1> QED
  BY <1>7, <1>8 DEF ShiftsMoveBits

\* What the operations of both widths compute fits in the width.
LEMMA ArithFits ==
    ASSUME NEW bits \in Nat \ {0}, NEW a \in 0 .. (power(2, bits) - 1),
           NEW b \in 0 .. (power(2, bits) - 1), NEW name \in WordOps
    PROVE  arith(name, a, b, bits) \in 0 .. (power(2, bits) - 1)
<1> DEFINE m == power(2, bits)
           y == arith(name, a, b, bits)
<1>1. m \in Nat \ {0} /\ a \in Nat /\ b \in Nat /\ a < m /\ b < m
  BY Halves
<1>2. ASSUME NEW v \in Int PROVE v % m \in 0 .. (m - 1)
  <2> HIDE DEF m
  <2> QED
    BY <1>1, DivLaw
<1>3. a + b \in Int /\ a - b \in Int /\ a * b \in Int
  BY <1>1
<1>4. CASE name \in {"sll", "srl", "sra"}
  BY <1>1, <1>4, ShiftsMove
<1>5. CASE name \in {"add", "sub", "mul"}
  <2>1. y \in {(a + b) % m, (a - b) % m, (a * b) % m}
    BY <1>5 DEF arith
  <2> HIDE DEF y, m
  <2>2. /\ (a + b) % m \in 0 .. (m - 1) /\ (a - b) % m \in 0 .. (m - 1)
        /\ (a * b) % m \in 0 .. (m - 1)
    BY <1>2, <1>3
  <2>3. y \in 0 .. (m - 1)
    BY <2>1, <2>2, Zenon
  <2> QED
    BY <2>3 DEF y, m
<1>6. CASE name \in {"divu", "remu"}
  <2>1. y = IF name = "divu" THEN (IF b = 0 THEN m - 1 ELSE a \div b)
            ELSE IF b = 0 THEN a ELSE a % b
    BY <1>6 DEF arith
  <2>2. b # 0 => a \div b \in 0 .. (m - 1) /\ a % b \in 0 .. (m - 1)
    <3>1. SUFFICES ASSUME b # 0 PROVE a \div b \in 0 .. (m - 1) /\ a % b \in 0 .. (m - 1)
      OBVIOUS
    <3>2. a \div b \in Nat /\ a \div b <= a
      BY <1>1, <3>1, QuotientBound
    <3>3. a % b \in Nat /\ a % b < b
      BY <1>1, <3>1, DivLaw
    <3> QED
      BY <1>1, <3>2, <3>3
  <2> HIDE DEF y, m
  <2>3. y \in 0 .. (m - 1)
    BY <1>1, <2>1, <2>2
  <2> QED
    BY <2>3 DEF y, m
<1>7. CASE name \in {"div", "rem"}
  <2> DEFINE sa == as_signed(a, bits)
             sb == as_signed(b, bits)
  <2>1. y \in {m - 1, a, 0} \/ (b # 0 /\ y \in {quotient(sa, sb) % m, remainder(sa, sb) % m})
    BY <1>7 DEF arith, div, rem
  <2>2. ASSUME b # 0 PROVE quotient(sa, sb) \in Int /\ remainder(sa, sb) \in Int
    <3>1. sa \in Int /\ sb \in Int /\ sb # 0
      BY <2>2, Signed
    <3> HIDE DEF sa, sb
    <3> QED
      BY <3>1, Truncates
  <2> HIDE DEF y, m, sa, sb
  <2>3. CASE y \in {m - 1, a, 0}
    BY <1>1, <2>3 DEF y, m
  <2>4. CASE b # 0 /\ y \in {quotient(sa, sb) % m, remainder(sa, sb) % m}
    <3>1. y \in 0 .. (m - 1)
      BY <1>2, <2>2, <2>4
    <3> QED
      BY <3>1 DEF y, m
  <2> QED
    BY <2>1, <2>3, <2>4
<1> QED
  BY <1>4, <1>5, <1>6, <1>7 DEF WordOps

\* The width of a register is twice that of a word.
LEMMA Widths ==
    /\ WLEN \in Nat \ {0} /\ XLEN \in Nat \ {0} /\ XLEN = 2 * WLEN
    /\ power(2, WLEN) \in Nat \ {0} /\ power(2, XLEN) \in Nat \ {0}
    /\ power(2, XLEN) = power(2, WLEN) * power(2, WLEN)
    /\ power(2, XLEN - 1) = power(2, WLEN - 1) * power(2, WLEN)
<1>1. WLEN \in Nat \ {0} /\ XLEN \in Nat \ {0} /\ XLEN = 2 * WLEN /\ 2 \in Nat \ {0}
  BY XlenAssumption
<1>2. /\ XLEN = WLEN + WLEN /\ XLEN - 1 = (WLEN - 1) + WLEN
      /\ WLEN \in Nat /\ WLEN - 1 \in Nat
  BY <1>1
<1>3. power(2, WLEN + WLEN) = power(2, WLEN) * power(2, WLEN)
  BY <1>1, <1>2, PowerPlus
<1>4. power(2, (WLEN - 1) + WLEN) = power(2, WLEN - 1) * power(2, WLEN)
  BY <1>1, <1>2, PowerPlus
<1>5. power(2, WLEN) \in Nat \ {0} /\ power(2, XLEN) \in Nat \ {0}
  BY <1>1, Halves
<1> QED
  BY <1>1, <1>2, <1>3, <1>4, <1>5, Zenon

\* The low half of a number cut to a register is that of the number.
LEMMA LowHalf ==
    ASSUME NEW x \in Int
    PROVE  (x % power(2, XLEN)) % power(2, WLEN) = x % power(2, WLEN)
<1> DEFINE m == power(2, WLEN)
           r == x % m
           e == x \div m
           c == e % m
<1>1. m \in Nat \ {0} /\ power(2, XLEN) = m * m
  BY Widths
<1> HIDE DEF m
<1>2. x % (m * m) = r + m * c
  BY <1>1, DivDiv, Zenon
<1>3. e \in Int /\ r \in Nat /\ r < m
  BY <1>1, DivLaw
<1> HIDE DEF e, r
<1>4. c \in Int
  BY <1>1, <1>3, DivLaw
<1> HIDE DEF c
<1>5. (r + m * c) % m = r % m
  <2>1. r \in Int
    BY <1>3
  <2> QED
    BY <1>1, <1>4, <2>1, DivPlus, Zenon
<1>6. r % m = r
  BY <1>1, <1>3
<1>7. (x % (m * m)) % m = r
  BY <1>2, <1>5, <1>6, Zenon
<1> QED
  BY <1>1, <1>7, Zenon DEF m, r

\* Sign-extending a word keeps its low half and its value.
LEMMA Widened ==
    ASSUME NEW v \in 0 .. (power(2, WLEN) - 1)
    PROVE  LET y == as_signed(v, WLEN) % power(2, XLEN)
           IN  /\ y \in Operands /\ low32(y) = v
               /\ as_signed(y, XLEN) = as_signed(low32(y), WLEN)
<1> DEFINE s == as_signed(v, WLEN)
           m == power(2, WLEN)
           h == power(2, WLEN - 1)
           y == s % power(2, XLEN)
<1>1. /\ h \in Nat \ {0} /\ m \in Nat \ {0} /\ power(2, XLEN) \in Nat \ {0}
      /\ power(2, XLEN - 1) = h * m
      /\ WLEN \in Nat \ {0} /\ XLEN \in Nat \ {0}
  BY Widths, Halves
<1>2. s \in Int /\ -h <= s /\ s < h /\ (s = v \/ s = v - m)
  BY <1>1, AsSigned
<1>3. v \in Nat /\ v < m
  BY <1>1
<1> HIDE DEF s
<1>4. y \in Operands
  <2> DEFINE w == power(2, XLEN)
  <2>1. w \in Nat \ {0} /\ s \in Int
    BY <1>1, <1>2
  <2> HIDE DEF w
  <2>2. s % w \in 0 .. (w - 1)
    BY <2>1, DivLaw
  <2> QED
    BY <2>2 DEF w, Operands
<1>5. s % m = v
  <2> HIDE DEF m, h
  <2>1. CASE s = v
    BY <1>1, <1>3, <2>1
  <2>2. CASE s = v - m
    <3> DEFINE k == -1
    <3>1. s = v + m * k /\ v \in Int /\ k \in Int
      BY <1>1, <1>3, <2>2
    <3> HIDE DEF k
    <3>2. (v + m * k) % m = v % m
      BY <1>1, <3>1, DivPlus, Zenon
    <3>3. v % m = v
      BY <1>1, <1>3
    <3> QED
      BY <3>1, <3>2, <3>3, Zenon
  <2> QED
    BY <1>2, <2>1, <2>2
<1>6. low32(y) = v
  BY <1>2, <1>5, LowHalf DEF low32
<1>7. -(h * m) <= s /\ s < h * m
  <2> HIDE DEF m, h
  <2>1. h * m >= h
    BY <1>1
  <2> QED
    BY <1>1, <1>2, <2>1
<1>8. as_signed(y, XLEN) = s
  BY <1>1, <1>2, <1>7, SignedBack
<1> QED
  BY <1>4, <1>6, <1>8 DEF s

LEMMA LowFits == ASSUME NEW a \in Operands PROVE low32(a) \in 0 .. (power(2, WLEN) - 1)
<1> DEFINE m == power(2, WLEN)
<1>1. m \in Nat \ {0} /\ a \in Int
  BY Widths DEF Operands
<1> HIDE DEF m
<1>2. a % m \in 0 .. (m - 1)
  BY <1>1, DivLaw
<1> QED
  BY <1>2 DEF m, low32

\* What a -W operation leaves in the register, for operands in registers.
LEMMA WordResult ==
    ASSUME NEW a \in Operands, NEW b \in Operands, NEW name \in WordOps
    PROVE  LET y == op32(name, a, b)
           IN  /\ y \in Operands
               /\ low32(y) = arith(name, low32(a), low32(b), WLEN)
               /\ as_signed(y, XLEN) = as_signed(low32(y), WLEN)
<1> DEFINE v == arith(name, low32(a), low32(b), WLEN)
<1>1. op32(name, a, b) = as_signed(v, WLEN) % power(2, XLEN)
  BY DEF op32, low32
<1>2. low32(a) \in 0 .. (power(2, WLEN) - 1) /\ low32(b) \in 0 .. (power(2, WLEN) - 1)
  BY LowFits
<1>3. v \in 0 .. (power(2, WLEN) - 1)
  BY <1>2, Widths, ArithFits
<1> HIDE DEF v
<1> QED
  BY <1>1, <1>3, Widened DEF v

\* What last can be: nothing, or an instruction with its operands.
IsaInv ==
    \/ last = Idle
    \/ \E w \in Compressed : last = <<"compressed", w, execute_c(w)>>
    \/ \E a, b \in Operands : last = <<"op", a, b>>

LEMMA IsaAlways == IsaSpec => []IsaInv
<1>1. IsaInit => IsaInv
  BY DEF IsaInit, IsaInv
<1>2. ASSUME IsaInv, [IsaNext]_isa_vars PROVE IsaInv'
  BY <1>2 DEF IsaInv, IsaNext, ExecuteCompressed, ExecuteOp, Retire, isa_vars
<1> QED
  BY <1>1, <1>2, PTL DEF IsaSpec

LEMMA ResultsFitHolds == ASSUME NEW a \in Operands, NEW b \in Operands PROVE ResultsFit(a, b)
<1>1. ASSUME NEW name \in WordOps PROVE op(name, a, b) \in Operands
  <2>1. op(name, a, b) = arith(name, a, b, XLEN)
    BY DEF op, WordOps
  <2>2. arith(name, a, b, XLEN) \in 0 .. (power(2, XLEN) - 1)
    BY Widths, ArithFits DEF Operands
  <2> QED
    BY <2>1, <2>2 DEF Operands
<1>2. ASSUME NEW name \in {"mulh", "mulhsu", "mulhu"} PROVE op(name, a, b) \in Operands
  <2> DEFINE m == power(2, XLEN)
             x == IF name = "mulhu" THEN a ELSE as_signed(a, XLEN)
             y == IF name = "mulh" THEN as_signed(b, XLEN) ELSE b
             q == (x * y) \div m
  <2>1. op(name, a, b) = q % m
    BY DEF op, high
  <2>2. m \in Nat \ {0} /\ x \in Int /\ y \in Int
    BY Widths, AsSigned DEF Operands
  <2> HIDE DEF x, y, m
  <2> DEFINE p == x * y
  <2>3. p \in Int
    BY <2>2
  <2> HIDE DEF p
  <2>4. p \div m \in Int
    BY <2>2, <2>3, DivLaw
  <2>5. q \in Int
    BY <2>4 DEF p
  <2> HIDE DEF q
  <2>6. q % m \in 0 .. (m - 1)
    BY <2>2, <2>5, DivLaw
  <2> QED
    BY <2>1, <2>6 DEF m, Operands
<1>3. ASSUME NEW name \in {"slt", "sltu"} PROVE op(name, a, b) \in Operands
  <2>1. op(name, a, b) \in {0, 1}
    BY DEF op, truth
  <2>2. power(2, XLEN) \in Nat /\ power(2, XLEN) >= 2
    BY Widths, Halves
  <2> QED
    BY <2>1, <2>2 DEF Operands
<1> QED
  BY <1>1, <1>2, <1>3 DEF ResultsFit

LEMMA SumHolds == ASSUME NEW a \in Operands, NEW b \in Operands PROVE SumLaw(a, b)
<1> DEFINE m == power(2, XLEN)
           u == a + b
           v == a - b
           sum == u % m
           difference == v % m
<1>1. m \in Nat \ {0} /\ a \in Nat /\ b \in Nat /\ a < m /\ b < m
  BY Widths DEF Operands
<1>2. op("add", a, b) = sum /\ op("sub", a, b) = difference
  BY DEF op, arith
<1>3. ASSUME NEW x, NEW y PROVE op("sltu", x, y) = IF x < y THEN 1 ELSE 0
  BY DEF op, truth
<1> HIDE DEF m
<1>4. sum = IF u < m THEN u ELSE u - m
  <2>1. u \in Int /\ 0 <= u /\ u < 2 * m
    BY <1>1
  <2> HIDE DEF u
  <2>2. CASE u < m
    BY <1>1, <2>1, <2>2
  <2>3. CASE u >= m
    <3> DEFINE k == 1
               r == u - m
    <3>1. k \in Int /\ r \in Nat /\ r < m /\ u = m * k + r
      BY <1>1, <2>1, <2>3
    <3> HIDE DEF k, r
    <3>2. u % m = r
      BY <1>1, <2>1, <3>1, DivUnique, Zenon
    <3> QED
      BY <1>1, <2>1, <2>3, <3>2 DEF r
  <2> QED
    BY <1>1, <2>1, <2>2, <2>3
<1>5. difference = IF v < 0 THEN v + m ELSE v
  <2>1. v \in Int /\ -m < v /\ v < m
    BY <1>1
  <2> HIDE DEF v
  <2>2. CASE v < 0
    <3> DEFINE k == -1
               r == v + m
    <3>1. k \in Int /\ r \in Nat /\ r < m /\ v = m * k + r
      BY <1>1, <2>1, <2>2
    <3> HIDE DEF k, r
    <3>2. v % m = r
      BY <1>1, <2>1, <3>1, DivUnique, Zenon
    <3> QED
      BY <2>2, <3>2 DEF r
  <2>3. CASE ~(v < 0)
    BY <1>1, <2>1, <2>3
  <2> QED
    BY <2>2, <2>3
<1> HIDE DEF sum, difference
<1>6. sum + m * (IF sum < a THEN 1 ELSE 0) = a + b
  BY <1>1, <1>4
<1>7. difference - m * (IF a < b THEN 1 ELSE 0) = a - b
  BY <1>1, <1>5
<1>8. sum + m * op("sltu", sum, a) = a + b /\ difference - m * op("sltu", a, b) = a - b
  <2> DEFINE carry == IF sum < a THEN 1 ELSE 0
             borrow == IF a < b THEN 1 ELSE 0
  <2>1. op("sltu", sum, a) = carry
    BY <1>3
  <2>2. op("sltu", a, b) = borrow
    BY <1>3
  <2>3. sum + m * carry = a + b /\ difference - m * borrow = a - b
    BY <1>6, <1>7
  <2> HIDE DEF carry, borrow
  <2>4. sum + m * op("sltu", sum, a) = a + b
    BY <2>1, <2>3, Zenon
  <2>5. difference - m * op("sltu", a, b) = a - b
    BY <2>2, <2>3, Zenon
  <2> QED
    BY <2>4, <2>5
<1> QED
  BY <1>2, <1>8, Zenon DEF SumLaw, m

LEMMA OrderHolds == ASSUME NEW a \in Operands, NEW b \in Operands PROVE OrderLaw(a, b)
<1> DEFINE m == power(2, XLEN)
           h == power(2, XLEN - 1)
           flip(x) == (x + h) % m
<1>1. /\ h \in Nat \ {0} /\ m \in Nat \ {0} /\ m = 2 * h
      /\ a \in Nat /\ b \in Nat /\ a < m /\ b < m
  BY Widths, Halves DEF Operands
<1>2. /\ op("slt", a, b) = IF as_signed(a, XLEN) < as_signed(b, XLEN) THEN 1 ELSE 0
      /\ op("sltu", flip(a), flip(b)) = IF flip(a) < flip(b) THEN 1 ELSE 0
  BY DEF op, truth
<1>3. ASSUME NEW x \in Nat, x < m PROVE as_signed(x, XLEN) \in Int /\ flip(x) = as_signed(x, XLEN) + h
  <2> DEFINE z == x + h
  <2>1. as_signed(x, XLEN) = IF x >= h THEN x - m ELSE x
    BY DEF as_signed
  <2> HIDE DEF m, h
  <2>2. CASE x >= h
    <3> DEFINE k == 1
               r == x - h
    <3>1. z \in Int /\ k \in Int /\ r \in Nat /\ r < m /\ z = m * k + r
      BY <1>1, <1>3, <2>2
    <3> HIDE DEF z, k, r
    <3>2. z % m = r
      BY <1>1, <3>1, DivUnique, Zenon
    <3> QED
      BY <1>1, <2>1, <2>2, <3>2 DEF z, r
  <2>3. CASE x < h
    <3>1. z \in Nat /\ z < m
      BY <1>1, <1>3, <2>3
    <3> HIDE DEF z
    <3>2. z % m = z
      BY <1>1, <3>1
    <3> QED
      BY <1>1, <2>1, <2>3, <3>2 DEF z
  <2> QED
    BY <1>1, <2>2, <2>3
<1>4. /\ as_signed(a, XLEN) \in Int /\ flip(a) = as_signed(a, XLEN) + h
      /\ as_signed(b, XLEN) \in Int /\ flip(b) = as_signed(b, XLEN) + h
  BY <1>1, <1>3
<1> HIDE DEF m, h, flip
<1>5. op("slt", a, b) = op("sltu", flip(a), flip(b))
  BY <1>1, <1>2, <1>4
<1> QED
  BY <1>5 DEF OrderLaw, flip, m, h

LEMMA BitwiseHolds == ASSUME NEW a \in Operands, NEW b \in Operands PROVE BitwiseLaw(a, b)
<1> DEFINE both(name, x, y) == CASE name = "xor" -> (x + y) % 2
                                 [] name = "or"  -> IF x + y = 0 THEN 0 ELSE 1
                                 [] name = "and" -> x * y
           bit(x, i) == digit(x, 2, i)
           d(name) == [i \in 0 .. (XLEN - 1) |-> both(name, bit(a, i), bit(b, i))]
<1>1. /\ XLEN \in Nat /\ a \in Int /\ b \in Int /\ 2 \in Nat \ {0}
      /\ power(2, XLEN) \in Nat \ {0}
  BY Widths DEF Operands
<1>2. ASSUME NEW i \in 0 .. (XLEN - 1) PROVE bit(a, i) \in {0, 1} /\ bit(b, i) \in {0, 1}
  <2>1. i \in Nat
    BY <1>1
  <2>2. bit(a, i) \in 0 .. (2 - 1) /\ bit(b, i) \in 0 .. (2 - 1)
    BY <1>1, <2>1, DigitType, Zenon
  <2> HIDE DEF bit
  <2> QED
    BY <2>2
<1> HIDE DEF bit
<1>3. ASSUME NEW name \in {"xor", "or", "and"}, NEW i \in 0 .. (XLEN - 1)
      PROVE  both(name, bit(a, i), bit(b, i)) \in {0, 1}
  <2>1. ASSUME NEW x \in {0, 1}, NEW y \in {0, 1} PROVE both(name, x, y) \in {0, 1}
    OBVIOUS
  <2> QED
    BY <1>2, <2>1
<1>4. ASSUME NEW name \in {"xor", "or", "and"}
      PROVE  /\ op(name, a, b) \in Operands
             /\ \A i \in 0 .. (XLEN - 1) :
                    bit(op(name, a, b), i) = both(name, bit(a, i), bit(b, i))
  <2>1. op(name, a, b) = number(d(name), 2, XLEN)
    BY DEF op, bitwise, bit
  <2> DEFINE f == d(name)
  <2>2. ASSUME NEW i \in 0 .. (XLEN - 1)
        PROVE  f[i] = both(name, bit(a, i), bit(b, i)) /\ f[i] \in 0 .. (2 - 1)
    BY <1>3
  <2>3. Digits(f, 2, XLEN)
    BY <2>2 DEF Digits
  <2>4. HasDigits(f, 2, XLEN)
    <3> HIDE DEF f
    <3> QED
      BY <1>1, <2>3, NumberHasDigits
  <2> HIDE DEF both, d, f
  <2>5. /\ number(f, 2, XLEN) \in Nat /\ number(f, 2, XLEN) < power(2, XLEN)
        /\ \A i \in 0 .. (XLEN - 1) : digit(number(f, 2, XLEN), 2, i) = f[i]
    BY <2>4 DEF HasDigits
  <2>6. op(name, a, b) \in Operands
    BY <1>1, <2>1, <2>5 DEF Operands, f
  <2> QED
    BY <2>1, <2>2, <2>5, <2>6 DEF f, bit
<1>5. ASSUME NEW x \in {0, 1}, NEW y \in {0, 1}
      PROVE  /\ (both("xor", x, y) = 1) = ((x = 1) # (y = 1))
             /\ (both("or", x, y) = 1) = ((x = 1) \/ (y = 1))
             /\ (both("and", x, y) = 1) = ((x = 1) /\ (y = 1))
  <2>1. /\ both("xor", 0, 0) = 0 /\ both("xor", 0, 1) = 1
        /\ both("xor", 1, 0) = 1 /\ both("xor", 1, 1) = 0
        /\ both("or", 0, 0) = 0 /\ both("or", 0, 1) = 1
        /\ both("or", 1, 0) = 1 /\ both("or", 1, 1) = 1
        /\ both("and", 0, 0) = 0 /\ both("and", 0, 1) = 0
        /\ both("and", 1, 0) = 0 /\ both("and", 1, 1) = 1
    OBVIOUS
  <2> HIDE DEF both
  <2>2. CASE x = 0 /\ y = 0
    BY <2>1, <2>2
  <2>3. CASE x = 0 /\ y = 1
    BY <2>1, <2>3
  <2>4. CASE x = 1 /\ y = 0
    BY <2>1, <2>4
  <2>5. CASE x = 1 /\ y = 1
    BY <2>1, <2>5
  <2> QED
    BY <2>2, <2>3, <2>4, <2>5
<1> HIDE DEF both, d
<1>6. {op("xor", a, b), op("or", a, b), op("and", a, b)} \subseteq Operands
  BY <1>4
<1>7. ASSUME NEW i \in 0 .. (XLEN - 1)
      PROVE  LET set(v) == bit(v, i) = 1
             IN  /\ set(op("xor", a, b)) = (set(a) # set(b))
                 /\ set(op("or", a, b)) = (set(a) \/ set(b))
                 /\ set(op("and", a, b)) = (set(a) /\ set(b))
  <2>1. bit(a, i) \in {0, 1} /\ bit(b, i) \in {0, 1}
    BY <1>2
  <2>2. /\ bit(op("xor", a, b), i) = both("xor", bit(a, i), bit(b, i))
        /\ bit(op("or", a, b), i) = both("or", bit(a, i), bit(b, i))
        /\ bit(op("and", a, b), i) = both("and", bit(a, i), bit(b, i))
    BY <1>4
  <2> QED
    BY <1>5, <2>1, <2>2, Zenon
<1> QED
  BY <1>6, <1>7, Zenon DEF BitwiseLaw, bit

LEMMA DivisionsAreRight ==
    ASSUME NEW a \in Operands, NEW b \in Operands
    PROVE  DivisionsHold(a, b)
<1> DEFINE x == low32(a)
           y == low32(b)
           word(name) == low32(op32(name, a, b))
           Names == {"div", "rem", "divu", "remu"}
<1>1. \A name \in Names : op(name, a, b) = arith(name, a, b, XLEN)
  BY DEF op
<1>2. \A name \in Names : word(name) = arith(name, x, y, WLEN)
  <2>1. \A name \in Names : name \in WordOps
    BY DEF WordOps
  <2> QED
    BY <2>1, WordResult
<1>3. DivisionLaw(a, b, arith("div", a, b, XLEN), arith("rem", a, b, XLEN),
                  arith("divu", a, b, XLEN), arith("remu", a, b, XLEN), XLEN)
  BY Widths, DivisionHolds DEF Operands
<1>4. DivisionLaw(x, y, arith("div", x, y, WLEN), arith("rem", x, y, WLEN),
                  arith("divu", x, y, WLEN), arith("remu", x, y, WLEN), WLEN)
  <2>1. x \in 0 .. (power(2, WLEN) - 1) /\ y \in 0 .. (power(2, WLEN) - 1)
    BY LowFits
  <2> HIDE DEF x, y
  <2> QED
    BY <2>1, Widths, DivisionHolds
<1> HIDE DEF word, x, y
<1>5. /\ DivisionLaw(a, b, op("div", a, b), op("rem", a, b),
                     op("divu", a, b), op("remu", a, b), XLEN)
      /\ DivisionLaw(x, y, word("div"), word("rem"), word("divu"), word("remu"), WLEN)
  BY <1>1, <1>2, <1>3, <1>4, Zenon
<1> QED
  BY <1>5, Zenon DEF DivisionsHold, word, x, y

\* Sums, differences and products have their low half from the low halves.
LEMMA LowOfSums ==
    ASSUME NEW m \in Nat \ {0}, NEW a \in Int, NEW b \in Int
    PROVE  /\ (a + b) % m = ((a % m) + (b % m)) % m
           /\ (a - b) % m = ((a % m) - (b % m)) % m
           /\ (a * b) % m = ((a % m) * (b % m)) % m
<1> DEFINE j == a \div m
           k == b \div m
           x == a % m
           y == b % m
<1>1. j \in Int /\ k \in Int /\ x \in Int /\ y \in Int /\ a = m * j + x /\ b = m * k + y
  BY DivLaw
<1> HIDE DEF j, k, x, y
<1>2. ASSUME NEW u \in Int, NEW v \in Int, NEW c \in Int, u = v + m * c PROVE u % m = v % m
  <2>1. (v + m * c) % m = v % m
    BY DivPlus
  <2> QED
    BY <1>2, <2>1, Zenon
<1>3. (a + b) % m = (x + y) % m
  <2>1. /\ a + b \in Int /\ x + y \in Int /\ j + k \in Int
        /\ a + b = (x + y) + m * (j + k)
    BY <1>1
  <2> QED
    BY <1>2, <2>1, Zenon
<1>4. (a - b) % m = (x - y) % m
  <2>1. /\ a - b \in Int /\ x - y \in Int /\ j - k \in Int
        /\ a - b = (x - y) + m * (j - k)
    BY <1>1
  <2> QED
    BY <1>2, <2>1, Zenon
<1>5. (a * b) % m = (x * y) % m
  <2> DEFINE c == j * b + x * k
  <2>1. a * b \in Int /\ x * y \in Int /\ c \in Int
    BY <1>1
  <2>2. a * b = x * y + m * c
    <3>1. a * b = m * (j * b) + x * b
      BY <1>1
    <3>2. x * b = m * (x * k) + x * y
      BY <1>1
    <3>3. m * c = m * (j * b) + m * (x * k)
      BY <1>1
    <3> QED
      BY <1>1, <2>1, <3>1, <3>2, <3>3
  <2> HIDE DEF c
  <2> QED
    BY <1>2, <2>1, <2>2, Zenon
<1> QED
  BY <1>3, <1>4, <1>5, Zenon DEF x, y

LEMMA WordsHold == ASSUME NEW a \in Operands, NEW b \in Operands PROVE WordLaw(a, b)
<1> DEFINE m == power(2, WLEN)
           n == power(2, XLEN)
<1>1. m \in Nat \ {0} /\ n \in Nat \ {0} /\ a \in Int /\ b \in Int
  BY Widths DEF Operands
<1>2. ASSUME NEW name \in {"add", "sub", "mul"}
      PROVE  low32(op32(name, a, b)) = low32(op(name, a, b))
  <2> DEFINE whole(x, y) == CASE name = "add" -> x + y
                              [] name = "sub" -> x - y
                              [] name = "mul" -> x * y
  <2>1. op(name, a, b) = whole(a, b) % n
    BY DEF op, arith
  <2>2. arith(name, a % m, b % m, WLEN) = whole(a % m, b % m) % m
    BY DEF arith
  <2>3. low32(op32(name, a, b)) = arith(name, a % m, b % m, WLEN)
    BY WordResult DEF low32, WordOps
  <2> HIDE DEF m, n
  <2>4. whole(a, b) \in Int
    BY <1>1
  <2>5. whole(a, b) % m = whole(a % m, b % m) % m
    BY <1>1, LowOfSums
  <2> HIDE DEF whole
  <2>6. (whole(a, b) % n) % m = whole(a, b) % m
    BY <2>4, LowHalf DEF m, n
  <2>7. low32(op(name, a, b)) = (whole(a, b) % n) % m
    BY <2>1 DEF low32, m
  <2> QED
    BY <2>2, <2>3, <2>5, <2>6, <2>7, Zenon
<1> QED
  BY <1>2, WordResult DEF WordLaw

LEMMA LawsHold == ASSUME IsaInv PROVE ArithmeticLaws
<1> SUFFICES ASSUME last[1] = "op" PROVE ArithmeticLaws
  BY DEF ArithmeticLaws
<1>1. PICK a \in Operands, b \in Operands : last = <<"op", a, b>>
  BY DEF IsaInv, Idle
<1>2. last[2] = a /\ last[3] = b
  BY <1>1
<1>3. ResultsFit(a, b) /\ SumLaw(a, b) /\ OrderLaw(a, b) /\ BitwiseLaw(a, b)
  BY ResultsFitHolds, SumHolds, OrderHolds, BitwiseHolds
<1>4. ProductLaw(a, b) /\ DivisionsHold(a, b) /\ ShiftsMoveBits(a, b) /\ WordLaw(a, b)
  BY ProductHolds, DivisionsAreRight, ShiftsHold, WordsHold
<1> QED
  BY <1>2, <1>3, <1>4 DEF ArithmeticLaws

\* OPCODE_OP and OPCODE_OP_32 for every register width that is twice a power of
\* two and every pair of operands: the laws bind the result of each operation,
\* sums by their carry and borrow, comparisons by each other, XOR, OR, AND and the
\* shifts bit by bit, products and their upper halves by the exact product,
\* quotients and remainders by each other, and the -W results by their low half
\* and its sign.
THEOREM ArithmeticHolds == IsaSpec => []ArithmeticLaws
BY IsaAlways, LawsHold, PTL

=============================================================================
