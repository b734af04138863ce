----------------------------- MODULE SumsProofs -----------------------------
(***************************************************************************)
(* Lemmas about Total. The induction theorems of the library take an       *)
(* operator parameter that no installed prover can instantiate; induction  *)
(* over a set is derived here from the well-foundedness of the finite      *)
(* initial segments of the naturals. With it: a set put in order lists     *)
(* each of its members once, a sum along the list is the sum over it, and  *)
(* amounts that come earlier weigh less.                                   *)
(***************************************************************************)
EXTENDS Sums, FiniteSets, FiniteSetTheorems, WellFoundedInduction, TLAPS

\* A set with 0 that is closed under successor holds every natural number.
LEMMA SetInduction ==
  ASSUME NEW T, 0 \in T, \A i \in Nat : i \in T => i + 1 \in T
  PROVE  Nat \subseteq T
<1> DEFINE Bad == {i \in Nat : i \notin T}
           Segments == {0 .. i : i \in Bad}
           R == StrictSubsetOrdering(Nat)
<1>1. SUFFICES ASSUME Bad # {} PROVE FALSE
  OBVIOUS
<1>2. IsWellFoundedOn(R, FiniteSubsetsOf(Nat))
  BY FS_StrictSubsetOrderingWellFounded
<1>3. ASSUME NEW i \in Nat PROVE 0 .. i \in FiniteSubsetsOf(Nat)
  <2>1. IsFiniteSet(0 .. i)
    BY FS_Interval
  <2> QED
    BY <2>1 DEF FiniteSubsetsOf
<1>4. Segments \subseteq FiniteSubsetsOf(Nat) /\ Segments # {}
  BY <1>1, <1>3
<1>5. PICK X \in Segments : \A Y \in Segments : <<Y, X>> \notin R
  <2> HIDE DEF Segments, R
  <2> QED BY <1>2, <1>4, WFMin
<1>6. PICK x \in Bad : X = 0 .. x
  OBVIOUS
<1>7. x - 1 \in Bad
  OBVIOUS
<1>8. <<0 .. (x - 1), 0 .. x>> \in R
  <2>1. x \in 0 .. x /\ x \notin 0 .. (x - 1)
    BY <1>7
  <2>2. 0 .. (x - 1) \subseteq 0 .. x /\ 0 .. x \in SUBSET Nat
    BY <1>7
  <2> QED BY <2>1, <2>2 DEF StrictSubsetOrdering
<1> QED
  BY <1>5, <1>6, <1>7, <1>8

\* The same up to a bound.
LEMMA RangeInduction ==
  ASSUME NEW n \in Nat, NEW T, 0 \in T,
         \A i \in 0 .. n - 1 : i \in T => i + 1 \in T
  PROVE  0 .. n \subseteq T
<1> DEFINE U == {i \in Nat : i \in T \/ i > n}
<1>1. 0 \in U /\ \A i \in Nat : i \in U => i + 1 \in U
  OBVIOUS
<1>2. Nat \subseteq U
  <2> HIDE DEF U
  <2> QED BY <1>1, SetInduction
<1> QED
  BY <1>2

-----------------------------------------------------------------------------
\* The function of partial sums that Total chooses exists.
LEMMA PartialSums ==
  ASSUME NEW n \in Nat, NEW f, \A i \in 1 .. n : f[i] \in Int
  PROVE  \E s \in [0 .. n -> Int] :
            s = [i \in 0 .. n |-> IF i = 0 THEN 0 ELSE s[i - 1] + f[i]]
<1> DEFINE Good(s, m) == /\ s[0] = 0
                         /\ \A i \in 1 .. m : s[i] = s[i - 1] + f[i]
           T == {m \in 0 .. n : \E s \in [0 .. m -> Int] : Good(s, m)}
<1>1. 0 \in T
  <2> DEFINE z == [i \in 0 .. 0 |-> 0]
  <2>1. z \in [0 .. 0 -> Int] /\ z[0] = 0 /\ 1 .. 0 = {}
    OBVIOUS
  <2>2. Good(z, 0)
    BY <2>1
  <2>3. \E s \in [0 .. 0 -> Int] : Good(s, 0)
    <3> HIDE DEF Good, z
    <3> QED BY <2>1, <2>2
  <2> QED BY <2>3
<1>2. ASSUME NEW m \in 0 .. n - 1, m \in T
      PROVE  m + 1 \in T
  <2>1. PICK s \in [0 .. m -> Int] : Good(s, m)
    BY <1>2
  <2> DEFINE t == [i \in 0 .. m + 1 |-> IF i = m + 1 THEN s[m] + f[m + 1] ELSE s[i]]
  <2>2. t \in [0 .. m + 1 -> Int]
    <3>1. f[m + 1] \in Int /\ s[m] \in Int
      OBVIOUS
    <3> QED BY <3>1
  <2>3. Good(t, m + 1)
    <3>1. t[0] = 0
      BY <2>1
    <3>2. ASSUME NEW i \in 1 .. m + 1 PROVE t[i] = t[i - 1] + f[i]
      <4>1. CASE i = m + 1
        BY <4>1
      <4>2. CASE i \in 1 .. m
        BY <4>2, <2>1
      <4> QED BY <4>1, <4>2
    <3> QED
      <4> HIDE DEF t
      <4> QED BY <3>1, <3>2
  <2>4. \E g \in [0 .. m + 1 -> Int] : Good(g, m + 1)
    <3> HIDE DEF Good, t
    <3> QED BY <2>2, <2>3
  <2>5. m + 1 \in 0 .. n
    OBVIOUS
  <2> QED BY <2>4, <2>5
<1>3. n \in T
  <2> HIDE DEF T
  <2>1. 0 .. n \subseteq T
    BY <1>1, <1>2, RangeInduction
  <2> QED BY <2>1
<1>4. PICK s \in [0 .. n -> Int] : Good(s, n)
  BY <1>3
<1>5. s = [i \in 0 .. n |-> IF i = 0 THEN 0 ELSE s[i - 1] + f[i]]
  BY <1>4
<1> QED
  BY <1>5

\* A function on 1 .. n given by its first value and by how each value follows
\* from the one before: F[i] maps the value at i - 1 to that at i.
IsScan(f, n, D, d, F) ==
  /\ f \in [1 .. n -> D]
  /\ \A i \in 1 .. n : f[i] = IF i = 1 THEN d ELSE F[i][f[i - 1]]

\* So does every such function.
LEMMA ScanExists ==
  ASSUME NEW n \in Nat, NEW D, NEW d \in D, NEW F, \A i \in 1 .. n : F[i] \in [D -> D]
  PROVE  \E f : IsScan(f, n, D, d, F)
<1> DEFINE Good(f, m) == \A i \in 1 .. m : f[i] = IF i = 1 THEN d ELSE F[i][f[i - 1]]
           T == {m \in 0 .. n : \E f \in [1 .. m -> D] : Good(f, m)}
<1>1. 0 \in T
  <2>1. [i \in 1 .. 0 |-> d] \in [1 .. 0 -> D] /\ Good([i \in 1 .. 0 |-> d], 0)
    OBVIOUS
  <2>2. \E f \in [1 .. 0 -> D] : Good(f, 0)
    <3> HIDE DEF Good
    <3> QED BY <2>1
  <2>3. 0 \in 0 .. n
    OBVIOUS
  <2> HIDE DEF Good
  <2> QED BY <2>2, <2>3
<1>2. ASSUME NEW m \in 0 .. n - 1, m \in T PROVE m + 1 \in T
  <2>1. PICK f \in [1 .. m -> D] : Good(f, m)
    BY <1>2
  <2> DEFINE next == IF m = 0 THEN d ELSE F[m + 1][f[m]]
             g == [i \in 1 .. m + 1 |-> IF i = m + 1 THEN next ELSE f[i]]
  <2>2. next \in D
    <3>1. CASE m = 0
      BY <3>1
    <3>2. CASE m # 0
      <4>1. F[m + 1] \in [D -> D] /\ f[m] \in D
        BY <3>2
      <4> QED BY <3>2, <4>1
    <3> QED BY <3>1, <3>2
  <2> HIDE DEF next
  <2>3. g \in [1 .. m + 1 -> D]
    BY <2>2
  <2>4. \A i \in 1 .. m + 1 : g[i] = IF i = 1 THEN d ELSE F[i][g[i - 1]]
    <3> SUFFICES ASSUME NEW i \in 1 .. m + 1 PROVE g[i] = IF i = 1 THEN d ELSE F[i][g[i - 1]]
      OBVIOUS
    <3>1. CASE i = m + 1
      <4>1. g[i] = next
        BY <3>1
      <4>2. CASE m = 0
        BY <3>1, <4>1, <4>2 DEF next
      <4>3. CASE m # 0
        <5>1. i - 1 = m /\ m \in 1 .. m + 1 /\ i # 1 /\ g[i - 1] = f[m]
          BY <3>1, <4>3
        <5>2. next = F[i][f[m]]
          BY <3>1, <4>3 DEF next
        <5> QED BY <4>1, <5>1, <5>2
      <4> QED BY <4>2, <4>3
    <3>2. CASE i \in 1 .. m
      <4>1. g[i] = f[i] /\ (i # 1 => g[i - 1] = f[i - 1])
        BY <3>2
      <4>2. f[i] = IF i = 1 THEN d ELSE F[i][f[i - 1]]
        BY <2>1, <3>2
      <4> QED BY <4>1, <4>2
    <3> QED BY <3>1, <3>2
  <2>5. \E f2 \in [1 .. m + 1 -> D] : Good(f2, m + 1)
    <3>1. Good(g, m + 1)
      BY <2>4
    <3> HIDE DEF Good, g
    <3> QED BY <2>3, <3>1
  <2>6. m + 1 \in 0 .. n
    OBVIOUS
  <2> QED BY <2>5, <2>6
<1>3. n \in T
  <2> HIDE DEF T
  <2>1. 0 .. n \subseteq T
    BY <1>1, <1>2, RangeInduction
  <2> QED BY <2>1
<1>4. PICK f \in [1 .. n -> D] : Good(f, n)
  BY <1>3
<1> QED BY <1>4 DEF IsScan

\* Total is the last of the partial sums.
LEMMA TotalIsLast ==
  ASSUME NEW n \in Nat, NEW f, \A i \in 1 .. n : f[i] \in Int
  PROVE  \E s \in [0 .. n -> Int] :
            /\ s[0] = 0
            /\ \A i \in 1 .. n : s[i] = s[i - 1] + f[i]
            /\ Total(f, n) = s[n]
<1> DEFINE s == CHOOSE s : s = [i \in 0 .. n |-> IF i = 0 THEN 0 ELSE s[i - 1] + f[i]]
<1>1. s = [i \in 0 .. n |-> IF i = 0 THEN 0 ELSE s[i - 1] + f[i]]
  <2>1. \E g \in [0 .. n -> Int] : g = [i \in 0 .. n |-> IF i = 0 THEN 0 ELSE g[i - 1] + f[i]]
    BY PartialSums
  <2>2. \E g : g = [i \in 0 .. n |-> IF i = 0 THEN 0 ELSE g[i - 1] + f[i]]
    BY <2>1
  <2> QED BY <2>2
<1>2. Total(f, n) = s[n]
  BY DEF Total
<1>3. s[0] = 0 /\ \A i \in 1 .. n : s[i] = s[i - 1] + f[i]
  <2> HIDE DEF s
  <2> QED BY <1>1
<1>4. s \in [0 .. n -> Int]
  <2> HIDE DEF s
  <2> DEFINE T == {i \in 0 .. n : s[i] \in Int}
  <2>1. 0 \in T
    BY <1>3
  <2>2. \A i \in 0 .. n - 1 : i \in T => i + 1 \in T
    <3> SUFFICES ASSUME NEW i \in 0 .. n - 1, s[i] \in Int PROVE s[i + 1] \in Int
      OBVIOUS
    <3>1. s[i + 1] = s[i] + f[i + 1]
      BY <1>3
    <3> QED BY <3>1
  <2>3. 0 .. n \subseteq T
    <3> HIDE DEF T
    <3> QED BY <2>1, <2>2, RangeInduction
  <2> QED BY <1>1, <2>3
<1> QED
  <2> HIDE DEF s
  <2> QED BY <1>2, <1>3, <1>4

-----------------------------------------------------------------------------
\* A sum of integers is an integer.
LEMMA TotalType ==
  ASSUME NEW n \in Nat, NEW f, \A i \in 1 .. n : f[i] \in Int
  PROVE  Total(f, n) \in Int
BY TotalIsLast

\* A sum of numbers that are not negative is at least each of them.
LEMMA TotalAtLeast ==
  ASSUME NEW n \in Nat, NEW f, \A i \in 1 .. n : f[i] \in Nat
  PROVE  Total(f, n) \in Nat /\ \A k \in 1 .. n : f[k] <= Total(f, n)
<1>1. PICK s \in [0 .. n -> Int] :
            /\ s[0] = 0
            /\ \A i \in 1 .. n : s[i] = s[i - 1] + f[i]
            /\ Total(f, n) = s[n]
  <2>1. \A i \in 1 .. n : f[i] \in Int
    OBVIOUS
  <2> QED BY <2>1, TotalIsLast
<1> DEFINE T == {i \in 0 .. n : s[i] >= 0 /\ \A k \in 1 .. i : f[k] <= s[i]}
<1>2. 0 \in T
  BY <1>1
<1>3. ASSUME NEW i \in 0 .. n - 1, i \in T PROVE i + 1 \in T
  <2>1. s[i + 1] = s[i] + f[i + 1] /\ f[i + 1] \in Nat /\ s[i] >= 0
    BY <1>1, <1>3
  <2>2. ASSUME NEW k \in 1 .. i + 1 PROVE f[k] <= s[i + 1]
    <3>1. CASE k = i + 1
      BY <3>1, <2>1
    <3>2. CASE k \in 1 .. i
      <4>1. f[k] <= s[i] /\ f[k] \in Nat /\ s[i] \in Int
        BY <3>2, <1>3
      <4> QED BY <4>1, <2>1
    <3> QED BY <3>1, <3>2
  <2>3. s[i + 1] >= 0
    BY <2>1
  <2> QED BY <2>2, <2>3
<1>4. n \in T
  <2> HIDE DEF T
  <2>1. 0 .. n \subseteq T
    BY <1>2, <1>3, RangeInduction
  <2> QED BY <2>1
<1> QED BY <1>1, <1>4

\* Changing one term changes the sum by as much.
LEMMA TotalUpdate ==
  ASSUME NEW n \in Nat, NEW f, NEW g, NEW k \in 1 .. n,
         \A i \in 1 .. n : f[i] \in Int /\ g[i] \in Int,
         \A i \in 1 .. n : i # k => g[i] = f[i]
  PROVE  Total(g, n) = Total(f, n) + (g[k] - f[k])
<1>1. PICK s \in [0 .. n -> Int] :
            /\ s[0] = 0
            /\ \A i \in 1 .. n : s[i] = s[i - 1] + f[i]
            /\ Total(f, n) = s[n]
  BY TotalIsLast
<1>2. PICK t \in [0 .. n -> Int] :
            /\ t[0] = 0
            /\ \A i \in 1 .. n : t[i] = t[i - 1] + g[i]
            /\ Total(g, n) = t[n]
  BY TotalIsLast
<1> DEFINE T == {i \in 0 .. n : t[i] = IF i < k THEN s[i] ELSE s[i] + (g[k] - f[k])}
<1>3. 0 \in T
  BY <1>1, <1>2
<1>4. ASSUME NEW i \in 0 .. n - 1, i \in T PROVE i + 1 \in T
  <2>1. s[i + 1] = s[i] + f[i + 1] /\ t[i + 1] = t[i] + g[i + 1]
    BY <1>1, <1>2
  <2>2. t[i] = IF i < k THEN s[i] ELSE s[i] + (g[k] - f[k])
    BY <1>4
  <2>3. /\ s[i] \in Int /\ i + 1 \in 1 .. n
        /\ f[i + 1] \in Int /\ g[i + 1] \in Int /\ f[k] \in Int /\ g[k] \in Int
    OBVIOUS
  <2>4. CASE i + 1 < k
    BY <2>1, <2>2, <2>3, <2>4
  <2>5. CASE i + 1 = k
    <3>1. i < k
      BY <2>5
    <3>2. f[i + 1] = f[k] /\ g[i + 1] = g[k]
      BY <2>5, Zenon
    <3>3. t[i + 1] = s[i] + g[k] /\ s[i + 1] = s[i] + f[k]
      BY <2>1, <2>2, <3>1, <3>2
    <3>4. \A a, b, c \in Int : a + c = (a + b) + (c - b)
      OBVIOUS
    <3>5. s[i] + g[k] = (s[i] + f[k]) + (g[k] - f[k])
      <4> DEFINE a == s[i]
                 b == f[k]
                 c == g[k]
      <4>1. a \in Int /\ b \in Int /\ c \in Int
        BY <2>3
      <4>2. a + c = (a + b) + (c - b)
        <5> HIDE DEF a, b, c
        <5> QED BY <3>4, <4>1
      <4> QED BY <4>2
    <3>6. t[i + 1] = s[i + 1] + (g[k] - f[k])
      BY <3>3, <3>5, Zenon
    <3> QED BY <2>5, <3>6
  <2>6. CASE i + 1 > k
    <3>1. ~(i < k) /\ g[i + 1] = f[i + 1]
      BY <2>6
    <3>2. t[i + 1] = (s[i] + (g[k] - f[k])) + f[i + 1]
      BY <2>1, <2>2, <3>1
    <3>3. \A a, b, c \in Int : (a + c) + b = (a + b) + c
      OBVIOUS
    <3>4. (s[i] + (g[k] - f[k])) + f[i + 1] = (s[i] + f[i + 1]) + (g[k] - f[k])
      <4> DEFINE a == s[i]
                 b == f[i + 1]
                 c == g[k] - f[k]
      <4>1. a \in Int /\ b \in Int /\ c \in Int
        BY <2>3, SMTT(30)
      <4>2. (a + c) + b = (a + b) + c
        <5> HIDE DEF a, b, c
        <5> QED BY <3>3, <4>1
      <4> QED BY <4>2
    <3>5. t[i + 1] = s[i + 1] + (g[k] - f[k])
      BY <2>1, <3>2, <3>4, Zenon
    <3> QED BY <2>6, <3>5
  <2> QED BY <2>4, <2>5, <2>6
<1>5. n \in T
  <2> HIDE DEF T
  <2>1. 0 .. n \subseteq T
    BY <1>3, <1>4, RangeInduction
  <2> QED BY <2>1
<1> QED BY <1>1, <1>2, <1>5

\* A sum of zeros is zero.
LEMMA TotalZero ==
  ASSUME NEW n \in Nat, NEW f, \A i \in 1 .. n : f[i] = 0
  PROVE  Total(f, n) = 0
<1>1. PICK s \in [0 .. n -> Int] :
            /\ s[0] = 0
            /\ \A i \in 1 .. n : s[i] = s[i - 1] + f[i]
            /\ Total(f, n) = s[n]
  <2>1. \A i \in 1 .. n : f[i] \in Int
    OBVIOUS
  <2> QED BY <2>1, TotalIsLast
<1> DEFINE T == {i \in 0 .. n : s[i] = 0}
<1>2. 0 \in T
  BY <1>1
<1>3. ASSUME NEW i \in 0 .. n - 1, i \in T PROVE i + 1 \in T
  <2>1. i + 1 \in 1 .. n /\ i + 1 \in 0 .. n /\ (i + 1) - 1 = i
    OBVIOUS
  <2>2. s[i + 1] = s[i] + f[i + 1]
    BY <1>1, <2>1
  <2>3. s[i] = 0 /\ f[i + 1] = 0
    BY <1>3, <2>1
  <2>4. s[i + 1] = 0
    BY <2>2, <2>3
  <2> QED BY <2>1, <2>4
<1>4. n \in T
  <2> HIDE DEF T
  <2>1. 0 .. n \subseteq T
    BY <1>2, <1>3, RangeInduction
  <2> QED BY <2>1
<1> QED BY <1>1, <1>4

\* s holds the sums of f up to every index.
HasPrefixes(s, f, n) ==
  /\ s \in [0 .. n -> Int] /\ s[0] = 0
  /\ \A i \in 1 .. n : s[i] = s[i - 1] + f[i]
  /\ \A k \in 0 .. n : Total(f, k) = s[k]

\* Every function with integer values has a list of prefix sums.
LEMMA TotalPrefixes ==
  ASSUME NEW n \in Nat, NEW f, \A i \in 1 .. n : f[i] \in Int
  PROVE  \E s : HasPrefixes(s, f, n)
<1>1. PICK s \in [0 .. n -> Int] :
            /\ s[0] = 0
            /\ \A i \in 1 .. n : s[i] = s[i - 1] + f[i]
  BY TotalIsLast, ZenonT(30)
<1>2. ASSUME NEW k \in 0 .. n PROVE Total(f, k) = s[k]
  <2>1. k \in Nat /\ \A i \in 1 .. k : i \in 1 .. n /\ f[i] \in Int
    OBVIOUS
  <2>2. PICK t \in [0 .. k -> Int] :
            /\ t[0] = 0
            /\ \A i \in 1 .. k : t[i] = t[i - 1] + f[i]
            /\ Total(f, k) = t[k]
    BY <2>1, TotalIsLast
  <2> DEFINE T == {i \in 0 .. k : t[i] = s[i]}
  <2>3. 0 \in T
    BY <1>1, <2>2
  <2>4. ASSUME NEW i \in 0 .. k - 1, i \in T PROVE i + 1 \in T
    <3>1. i + 1 \in 1 .. k /\ i + 1 \in 1 .. n /\ i + 1 \in 0 .. k /\ (i + 1) - 1 = i
      BY <2>1
    <3>2. t[i + 1] = t[i] + f[i + 1] /\ s[i + 1] = s[i] + f[i + 1]
      BY <1>1, <2>2, <3>1
    <3> QED BY <2>4, <3>1, <3>2
  <2>5. k \in T
    <3> HIDE DEF T
    <3>1. 0 .. k \subseteq T
      BY <2>1, <2>3, <2>4, RangeInduction
    <3> QED BY <2>1, <3>1
  <2> QED BY <2>2, <2>5
<1> QED BY <1>1, <1>2 DEF HasPrefixes

\* Terms bounded by a multiple of others have a sum bounded by it.
LEMMA TotalScales ==
  ASSUME NEW n \in Nat, NEW f, NEW g, NEW c \in Nat,
         \A i \in 1 .. n : f[i] \in Int /\ g[i] \in Int /\ f[i] <= c * g[i]
  PROVE  Total(f, n) <= c * Total(g, n)
<1>1. PICK s \in [0 .. n -> Int] :
            /\ s[0] = 0
            /\ \A i \in 1 .. n : s[i] = s[i - 1] + f[i]
            /\ Total(f, n) = s[n]
  BY TotalIsLast
<1>2. PICK t \in [0 .. n -> Int] :
            /\ t[0] = 0
            /\ \A i \in 1 .. n : t[i] = t[i - 1] + g[i]
            /\ Total(g, n) = t[n]
  BY TotalIsLast
<1> DEFINE T == {i \in 0 .. n : s[i] <= c * t[i]}
<1>3. 0 \in T
  <2>1. c * 0 = 0
    OBVIOUS
  <2> QED BY <1>1, <1>2, <2>1
<1>4. ASSUME NEW i \in 0 .. n - 1, i \in T PROVE i + 1 \in T
  <2>1. i + 1 \in 1 .. n /\ i + 1 \in 0 .. n /\ (i + 1) - 1 = i /\ i \in 0 .. n
    OBVIOUS
  <2>2. PICK a, b, x, y, u, v :
          /\ a = s[i] /\ b = t[i] /\ x = f[i + 1] /\ y = g[i + 1]
          /\ u = s[i + 1] /\ v = t[i + 1]
    OBVIOUS
  <2>3. /\ a \in Int /\ b \in Int /\ x \in Int /\ y \in Int
        /\ u = a + x /\ v = b + y /\ a <= c * b /\ x <= c * y
    BY <1>1, <1>2, <1>4, <2>1, <2>2
  <2>4. \A d, h \in Int : c * (d + h) = c * d + c * h /\ c * d \in Int
    OBVIOUS
  <2>5. c * v = c * b + c * y /\ c * b \in Int /\ c * y \in Int
    BY <2>3, <2>4
  <2>6. \A p, q, d, h \in Int : p <= d /\ q <= h => p + q <= d + h
    OBVIOUS
  <2>7. u <= c * v
    BY <2>3, <2>5, <2>6
  <2> QED BY <2>1, <2>2, <2>7
<1>5. n \in T
  <2> HIDE DEF T
  <2>1. 0 .. n \subseteq T
    BY <1>3, <1>4, RangeInduction
  <2> QED BY <2>1
<1> QED BY <1>1, <1>2, <1>5

\* Terms that are at least a multiple of others have a sum that is.
LEMMA TotalScalesUp ==
  ASSUME NEW n \in Nat, NEW f, NEW g, NEW c \in Nat,
         \A i \in 1 .. n : f[i] \in Int /\ g[i] \in Int /\ c * g[i] <= f[i]
  PROVE  c * Total(g, n) <= Total(f, n)
<1>1. PICK s \in [0 .. n -> Int] :
            /\ s[0] = 0
            /\ \A i \in 1 .. n : s[i] = s[i - 1] + f[i]
            /\ Total(f, n) = s[n]
  BY TotalIsLast
<1>2. PICK t \in [0 .. n -> Int] :
            /\ t[0] = 0
            /\ \A i \in 1 .. n : t[i] = t[i - 1] + g[i]
            /\ Total(g, n) = t[n]
  BY TotalIsLast
<1> DEFINE T == {i \in 0 .. n : c * t[i] <= s[i]}
<1>3. 0 \in T
  <2>1. c * 0 = 0
    OBVIOUS
  <2> QED BY <1>1, <1>2, <2>1
<1>4. ASSUME NEW i \in 0 .. n - 1, i \in T PROVE i + 1 \in T
  <2>1. i + 1 \in 1 .. n /\ i + 1 \in 0 .. n /\ (i + 1) - 1 = i /\ i \in 0 .. n
    OBVIOUS
  <2>2. PICK a, b, x, y, u, v :
          /\ a = s[i] /\ b = t[i] /\ x = f[i + 1] /\ y = g[i + 1]
          /\ u = s[i + 1] /\ v = t[i + 1]
    OBVIOUS
  <2>3. /\ a \in Int /\ b \in Int /\ x \in Int /\ y \in Int
        /\ u = a + x /\ v = b + y /\ c * b <= a /\ c * y <= x
    BY <1>1, <1>2, <1>4, <2>1, <2>2
  <2>4. \A d, h \in Int : c * (d + h) = c * d + c * h /\ c * d \in Int
    OBVIOUS
  <2>5. c * v = c * b + c * y /\ c * b \in Int /\ c * y \in Int
    BY <2>3, <2>4
  <2>6. \A p, q, d, h \in Int : p <= d /\ q <= h => p + q <= d + h
    OBVIOUS
  <2>7. c * v <= u
    BY <2>3, <2>5, <2>6
  <2> QED BY <2>1, <2>2, <2>7
<1>5. n \in T
  <2> HIDE DEF T
  <2>1. 0 .. n \subseteq T
    BY <1>3, <1>4, RangeInduction
  <2> QED BY <2>1
<1> QED BY <1>1, <1>2, <1>5

\* A sum of differences is the difference of the sums.
LEMMA TotalDifference ==
  ASSUME NEW n \in Nat, NEW f, NEW g, NEW h,
         \A i \in 1 .. n : f[i] \in Int /\ g[i] \in Int /\ h[i] = f[i] - g[i]
  PROVE  Total(h, n) = Total(f, n) - Total(g, n)
<1>0. \A i \in 1 .. n : h[i] \in Int
  OBVIOUS
<1>1. PICK s \in [0 .. n -> Int] :
            /\ s[0] = 0
            /\ \A i \in 1 .. n : s[i] = s[i - 1] + f[i]
            /\ Total(f, n) = s[n]
  BY TotalIsLast
<1>2. PICK t \in [0 .. n -> Int] :
            /\ t[0] = 0
            /\ \A i \in 1 .. n : t[i] = t[i - 1] + g[i]
            /\ Total(g, n) = t[n]
  BY TotalIsLast
<1>3. PICK u \in [0 .. n -> Int] :
            /\ u[0] = 0
            /\ \A i \in 1 .. n : u[i] = u[i - 1] + h[i]
            /\ Total(h, n) = u[n]
  BY <1>0, TotalIsLast
<1> DEFINE T == {i \in 0 .. n : u[i] = s[i] - t[i]}
<1>4. 0 \in T
  BY <1>1, <1>2, <1>3
<1>5. ASSUME NEW i \in 0 .. n - 1, i \in T PROVE i + 1 \in T
  <2>1. i + 1 \in 1 .. n /\ i + 1 \in 0 .. n /\ (i + 1) - 1 = i /\ i \in 0 .. n
    OBVIOUS
  <2>2. /\ u[i + 1] = u[i] + h[i + 1] /\ s[i + 1] = s[i] + f[i + 1] /\ t[i + 1] = t[i] + g[i + 1]
        /\ h[i + 1] = f[i + 1] - g[i + 1]
    BY <1>1, <1>2, <1>3, <2>1
  <2>3. s[i] \in Int /\ t[i] \in Int /\ f[i + 1] \in Int /\ g[i + 1] \in Int /\ u[i] = s[i] - t[i]
    BY <1>5, <2>1
  <2>4. PICK a, b, x, y : a = s[i] /\ b = t[i] /\ x = f[i + 1] /\ y = g[i + 1]
    OBVIOUS
  <2>5. /\ a \in Int /\ b \in Int /\ x \in Int /\ y \in Int
        /\ u[i + 1] = (a - b) + (x - y) /\ s[i + 1] = a + x /\ t[i + 1] = b + y
    BY <2>2, <2>3, <2>4
  <2>6. u[i + 1] = s[i + 1] - t[i + 1]
    BY <2>5
  <2> QED BY <2>1, <2>6
<1>6. n \in T
  <2> HIDE DEF T
  <2>1. 0 .. n \subseteq T
    BY <1>4, <1>5, RangeInduction
  <2> QED BY <2>1
<1> QED BY <1>1, <1>2, <1>3, <1>6

\* A sum of numbers that are not negative grows with its length.
LEMMA TotalGrows ==
  ASSUME NEW n \in Nat, NEW f, \A i \in 1 .. n : f[i] \in Nat
  PROVE  \A k \in 0 .. n : Total(f, k) \in Nat /\ Total(f, k) <= Total(f, n)
<1> SUFFICES ASSUME NEW k \in 0 .. n PROVE Total(f, k) \in Nat /\ Total(f, k) <= Total(f, n)
  OBVIOUS
<1>1. PICK s : HasPrefixes(s, f, n)
  <2>1. \A i \in 1 .. n : f[i] \in Int
    OBVIOUS
  <2> QED BY <2>1, TotalPrefixes
<1> DEFINE T == {i \in 0 .. n : i < k \/ s[k] <= s[i]}
<1>2. s \in [0 .. n -> Int] /\ s[k] \in Int
  BY <1>1 DEF HasPrefixes
<1>3. 0 \in T
  BY <1>2
<1>4. ASSUME NEW i \in 0 .. n - 1, i \in T PROVE i + 1 \in T
  <2>1. i + 1 \in 1 .. n /\ i + 1 \in 0 .. n /\ i \in 0 .. n /\ (i + 1) - 1 = i
    OBVIOUS
  <2>2. PICK a \in Int, b \in Int, x \in Nat, c \in Int :
          a = s[i] /\ b = s[i + 1] /\ x = f[i + 1] /\ b = a + x /\ c = s[k]
    <3>1. s[i] \in Int /\ s[i + 1] \in Int /\ s[k] \in Int /\ f[i + 1] \in Nat
      BY <1>1, <1>2, <2>1
    <3>2. s[i + 1] = s[i] + f[i + 1]
      BY <1>1, <2>1 DEF HasPrefixes
    <3> QED BY <3>1, <3>2, Zenon
  <2>3. CASE i + 1 < k
    BY <2>1, <2>3
  <2>4. CASE i + 1 = k
    BY <2>1, <2>2, <2>4
  <2>5. CASE i >= k
    <3>1. c <= a
      BY <1>4, <2>2, <2>5
    <3>2. c <= b
      BY <2>2, <3>1
    <3> QED BY <2>1, <2>2, <3>2
  <2> QED BY <2>3, <2>4, <2>5
<1>5. n \in T
  <2> HIDE DEF T
  <2>1. 0 .. n \subseteq T
    BY <1>3, <1>4, RangeInduction
  <2> QED BY <2>1
<1>6. Total(f, k) \in Nat
  <2>1. k \in Nat /\ \A i \in 1 .. k : f[i] \in Nat
    OBVIOUS
  <2> QED BY <2>1, TotalAtLeast
<1>7. Total(f, k) = s[k] /\ Total(f, n) = s[n]
  BY <1>1 DEF HasPrefixes
<1> QED BY <1>5, <1>6, <1>7

\* Of two ways to place the same amount, the one that is never behind the other
\* on the way up has the smaller weight, each place weighing its index.
LEMMA EarlierWeighsLess ==
  ASSUME NEW n \in Nat, NEW f, NEW g, NEW v, NEW w,
         \A i \in 1 .. n : f[i] \in Nat /\ g[i] \in Nat /\ v[i] = i * f[i] /\ w[i] = i * g[i],
         \A k \in 0 .. n : Total(g, k) <= Total(f, k),
         Total(g, n) = Total(f, n)
  PROVE  Total(v, n) <= Total(w, n)
<1>0. \A i \in 1 .. n : v[i] \in Int /\ w[i] \in Int
  <2> SUFFICES ASSUME NEW i \in 1 .. n PROVE v[i] \in Int /\ w[i] \in Int
    OBVIOUS
  <2>1. \A x, y \in Nat : x * y \in Int
    OBVIOUS
  <2> QED BY <2>1
<1>1. PICK s : HasPrefixes(s, f, n)
  <2>1. \A i \in 1 .. n : f[i] \in Int
    OBVIOUS
  <2> QED BY <2>1, TotalPrefixes
<1>2. PICK t : HasPrefixes(t, g, n)
  <2>1. \A i \in 1 .. n : g[i] \in Int
    OBVIOUS
  <2> QED BY <2>1, TotalPrefixes
<1>3. PICK a : HasPrefixes(a, v, n)
  BY <1>0, TotalPrefixes
<1>4. PICK b : HasPrefixes(b, w, n)
  BY <1>0, TotalPrefixes
<1>5. \A k \in 0 .. n : t[k] <= s[k]
  BY <1>1, <1>2 DEF HasPrefixes
<1> DEFINE T == {i \in 0 .. n : a[i] + i * t[i] <= b[i] + i * s[i]}
<1>6. 0 \in T
  <2>1. a[0] = 0 /\ b[0] = 0 /\ t[0] = 0 /\ s[0] = 0 /\ 0 * 0 = 0
    BY <1>1, <1>2, <1>3, <1>4 DEF HasPrefixes
  <2> QED BY <2>1
<1>7. ASSUME NEW i \in 0 .. n - 1, i \in T PROVE i + 1 \in T
  <2>1. i + 1 \in 1 .. n /\ i + 1 \in 0 .. n /\ i \in 0 .. n /\ (i + 1) - 1 = i /\ i \in Int
    OBVIOUS
  <2>2. PICK x \in Int, y \in Int, c \in Int, d \in Int, p \in Int, q \in Int :
          /\ x = f[i + 1] /\ y = g[i + 1] /\ c = s[i] /\ d = t[i] /\ p = a[i] /\ q = b[i]
          /\ s[i + 1] = c + x /\ t[i + 1] = d + y
          /\ a[i + 1] = p + (i + 1) * x /\ b[i + 1] = q + (i + 1) * y
    <3>1. /\ f[i + 1] \in Int /\ g[i + 1] \in Int
          /\ v[i + 1] = (i + 1) * f[i + 1] /\ w[i + 1] = (i + 1) * g[i + 1]
      BY <2>1
    <3>2. s[i] \in Int /\ t[i] \in Int /\ a[i] \in Int /\ b[i] \in Int
      BY <1>1, <1>2, <1>3, <1>4, <2>1 DEF HasPrefixes
    <3>3. /\ s[i + 1] = s[i] + f[i + 1] /\ t[i + 1] = t[i] + g[i + 1]
          /\ a[i + 1] = a[i] + v[i + 1] /\ b[i + 1] = b[i] + w[i + 1]
      BY <1>1, <1>2, <1>3, <1>4, <2>1 DEF HasPrefixes
    <3> QED BY <3>1, <3>2, <3>3, ZenonT(30)
  <2>3. d <= c /\ p + i * d <= q + i * c
    BY <1>5, <1>7, <2>1, <2>2
  <2>4. \A h, k \in Int : (i + 1) * (h + k) = i * h + h + (i + 1) * k
    OBVIOUS
  <2>5. /\ (i + 1) * (c + x) = i * c + c + (i + 1) * x
        /\ (i + 1) * (d + y) = i * d + d + (i + 1) * y
    BY <2>4
  <2>6. \A h, k \in Int : h * k \in Int
    OBVIOUS
  <2>7. i * c \in Int /\ i * d \in Int /\ (i + 1) * x \in Int /\ (i + 1) * y \in Int
    BY <2>1, <2>6
  <2>8. p + (i + 1) * x + (i + 1) * (d + y) <= q + (i + 1) * y + (i + 1) * (c + x)
    BY <2>3, <2>5, <2>7
  <2> QED BY <2>1, <2>2, <2>8
<1>8. n \in T
  <2> HIDE DEF T
  <2>1. 0 .. n \subseteq T
    BY <1>6, <1>7, RangeInduction
  <2> QED BY <2>1
<1>9. PICK c \in Int, p \in Int, q \in Int : c = s[n] /\ c = t[n] /\ p = a[n] /\ q = b[n]
  BY <1>1, <1>2, <1>3, <1>4 DEF HasPrefixes
<1>10. p + n * c <= q + n * c /\ n * c \in Int
  <2>1. a[n] + n * t[n] <= b[n] + n * s[n]
    BY <1>8
  <2>2. \A x, y \in Int : x * y \in Int
    OBVIOUS
  <2> HIDE DEF T
  <2> QED BY <1>9, <2>1, <2>2
<1> QED BY <1>3, <1>4, <1>9, <1>10 DEF HasPrefixes

-----------------------------------------------------------------------------
\* A set of naturals that is not empty has a least element, which Least picks.
LEMMA LeastPicks ==
  ASSUME NEW S \in SUBSET Nat, S # {}
  PROVE  Least(S) \in S /\ \A y \in S : Least(S) <= y
<1> DEFINE T == {n \in Nat : \A m \in 0 .. n : m \notin S}
<1>1. SUFFICES ASSUME ~ \E x \in S : \A y \in S : x <= y PROVE FALSE
  BY DEF Least
<1>2. 0 \in T
  BY <1>1
<1>3. ASSUME NEW n \in Nat, n \in T PROVE n + 1 \in T
  <2>1. n + 1 \notin S
    <3>1. SUFFICES ASSUME n + 1 \in S PROVE FALSE
      OBVIOUS
    <3>2. PICK y \in S : y < n + 1
      BY <1>1, <3>1
    <3> QED BY <3>2, <1>3
  <2> QED BY <2>1, <1>3
<1>4. Nat \subseteq T
  <2> HIDE DEF T
  <2> QED BY <1>2, <1>3, SetInduction
<1>5. PICK x \in S : TRUE
  OBVIOUS
<1>6. x \in T /\ x \in 0 .. x
  BY <1>4
<1> QED BY <1>6

\* Of a bounded one Greatest picks the greatest.
LEMMA GreatestPicks ==
  ASSUME NEW n \in Nat, NEW S \in SUBSET (0 .. n), S # {}
  PROVE  Greatest(S) \in S /\ \A y \in S : y <= Greatest(S)
<1> DEFINE D == {n - x : x \in S}
<1>1. D \in SUBSET Nat /\ D # {}
  <2>1. ASSUME NEW x \in S PROVE n - x \in Nat
    <3>1. x \in 0 .. n
      OBVIOUS
    <3> QED BY <3>1
  <2>2. PICK x \in S : TRUE
    OBVIOUS
  <2>3. n - x \in D
    OBVIOUS
  <2> QED BY <2>1, <2>3
<1>2. PICK d \in D : \A e \in D : d <= e
  <2> HIDE DEF D
  <2> QED BY <1>1, LeastPicks
<1>3. PICK x \in S : d = n - x
  OBVIOUS
<1>4. ASSUME NEW y \in S PROVE y <= x
  <2>1. n - y \in D
    OBVIOUS
  <2>2. n - x <= n - y
    BY <1>2, <1>3, <2>1
  <2> QED BY <2>2
<1>5. \E z \in S : \A y \in S : z >= y
  BY <1>4
<1>6. Greatest(S) \in S /\ \A y \in S : Greatest(S) >= y
  BY <1>5 DEF Greatest
<1> QED BY <1>6
-----------------------------------------------------------------------------
(* A set in order. *)

\* R orders S strictly.
Orders(R, S) ==
  /\ \A x \in S : <<x, x>> \notin R
  /\ \A x, y, z \in S : <<x, y>> \in R /\ <<y, z>> \in R => <<x, z>> \in R
  /\ \A x, y \in S : x = y \/ <<x, y>> \in R \/ <<y, x>> \in R

\* How many elements of S come before x.
PlaceOf(R, S, x) == Cardinality({y \in S : <<y, x>> \in R})

\* e goes through S in the order of R.
Enumerates(e, S, R) ==
  /\ e \in [1 .. Cardinality(S) -> S]
  /\ \A i, j \in 1 .. Cardinality(S) : i < j => <<e[i], e[j]>> \in R
  /\ \A x \in S : \E i \in 1 .. Cardinality(S) : e[i] = x

\* An element has more before it than those before it have.
LEMMA RanksGrow ==
  ASSUME NEW S, IsFiniteSet(S), NEW R, Orders(R, S)
  PROVE  /\ \A x \in S : PlaceOf(R, S, x) \in 0 .. Cardinality(S) - 1
         /\ \A x, y \in S : <<x, y>> \in R => PlaceOf(R, S, x) < PlaceOf(R, S, y)
<1> DEFINE Before(x) == {y \in S : <<y, x>> \in R}
<1>0. Cardinality(S) \in Nat
  BY FS_CardinalityType
<1>1. \A x \in S : IsFiniteSet(Before(x)) /\ PlaceOf(R, S, x) \in Nat
  <2> TAKE x \in S
  <2>1. Before(x) \in SUBSET S
    OBVIOUS
  <2> HIDE DEF Before
  <2>2. IsFiniteSet(Before(x))
    BY <2>1, FS_Subset
  <2>3. Cardinality(Before(x)) \in Nat
    BY <2>2, FS_CardinalityType
  <2> QED BY <2>2, <2>3 DEF PlaceOf, Before
<1>2. ASSUME NEW x \in S PROVE PlaceOf(R, S, x) \in 0 .. Cardinality(S) - 1
  <2>1. Before(x) \in SUBSET S /\ Before(x) # S
    BY DEF Orders
  <2>2. PlaceOf(R, S, x) = Cardinality(Before(x))
    BY DEF PlaceOf
  <2> HIDE DEF Before
  <2>3. Cardinality(Before(x)) <= Cardinality(S) /\ Cardinality(Before(x)) # Cardinality(S)
    BY <2>1, FS_Subset
  <2> QED BY <1>0, <1>1, <2>2, <2>3
<1>3. ASSUME NEW x \in S, NEW y \in S, <<x, y>> \in R PROVE PlaceOf(R, S, x) < PlaceOf(R, S, y)
  <2>1. Before(x) \in SUBSET Before(y) /\ x \in Before(y) /\ x \notin Before(x)
    BY <1>3 DEF Orders
  <2>2. PlaceOf(R, S, x) = Cardinality(Before(x)) /\ PlaceOf(R, S, y) = Cardinality(Before(y))
    BY DEF PlaceOf
  <2> HIDE DEF Before
  <2>3. IsFiniteSet(Before(y)) /\ Before(x) # Before(y)
    BY <1>1, <2>1
  <2>4. Cardinality(Before(x)) <= Cardinality(Before(y)) /\ Cardinality(Before(x)) # Cardinality(Before(y))
    BY <2>1, <2>3, FS_Subset
  <2> QED BY <1>1, <2>2, <2>4
<1> QED BY <1>2, <1>3

\* So every rank is one element's: there are as many ranks as elements.
LEMMA RanksAreTaken ==
  ASSUME NEW S, IsFiniteSet(S), NEW R, Orders(R, S)
  PROVE  \A i \in 1 .. Cardinality(S) : \E x \in S : PlaceOf(R, S, x) = i - 1
<1> DEFINE n == Cardinality(S)
           f == [x \in S |-> PlaceOf(R, S, x)]
<1>0. n \in Nat
  BY FS_CardinalityType
<1>1. f \in [S -> 0 .. n - 1]
  BY RanksGrow
<1>2. \A x, y \in S : f[x] = f[y] => x = y
  <2> SUFFICES ASSUME NEW x \in S, NEW y \in S, PlaceOf(R, S, x) = PlaceOf(R, S, y) PROVE x = y
    OBVIOUS
  <2>1. PlaceOf(R, S, x) \in Int /\ PlaceOf(R, S, y) \in Int
    BY <1>0, RanksGrow
  <2>2. ~(PlaceOf(R, S, x) < PlaceOf(R, S, y)) /\ ~(PlaceOf(R, S, y) < PlaceOf(R, S, x))
    BY <2>1
  <2> QED BY <2>2, RanksGrow DEF Orders
<1>3. f \in Injection(S, 0 .. n - 1)
  <2> HIDE DEF f, n
  <2> QED BY <1>1, <1>2 DEF Injection, IsInjective
<1>4. IsFiniteSet(0 .. n - 1) /\ Cardinality(0 .. n - 1) = n
  <2> HIDE DEF n
  <2>1. 0 \in Int /\ n - 1 \in Int
    BY <1>0
  <2>2. IsFiniteSet(0 .. n - 1) /\ Cardinality(0 .. n - 1) = IF 0 > n - 1 THEN 0 ELSE (n - 1) - 0 + 1
    BY <2>1, FS_Interval
  <2> QED BY <1>0, <2>2
<1>5. f \in Surjection(S, 0 .. n - 1)
  <2> HIDE DEF f
  <2> QED BY <1>3, <1>4, FS_Injection
<1>6. \A t \in 0 .. n - 1 : \E x \in S : f[x] = t
  <2> HIDE DEF f, n
  <2> QED BY <1>5 DEF Surjection
<1> SUFFICES ASSUME NEW i \in 1 .. n PROVE \E x \in S : PlaceOf(R, S, x) = i - 1
  OBVIOUS
<1>7. i - 1 \in 0 .. n - 1
  BY <1>0
<1> QED BY <1>6, <1>7

\* What puts at each place the element of that rank goes through S in order.
LEMMA RanksEnumerate ==
  ASSUME NEW S, IsFiniteSet(S), NEW R, Orders(R, S),
         NEW e \in [1 .. Cardinality(S) -> S],
         \A i \in 1 .. Cardinality(S) : PlaceOf(R, S, e[i]) = i - 1
  PROVE  Enumerates(e, S, R)
<1>0. Cardinality(S) \in Nat
  BY FS_CardinalityType
<1>1. ASSUME NEW i \in 1 .. Cardinality(S), NEW j \in 1 .. Cardinality(S), i < j
      PROVE  <<e[i], e[j]>> \in R
  <2>1. e[i] \in S /\ e[j] \in S /\ PlaceOf(R, S, e[i]) = i - 1 /\ PlaceOf(R, S, e[j]) = j - 1
    OBVIOUS
  <2>2. e[i] # e[j] /\ ~(PlaceOf(R, S, e[j]) < PlaceOf(R, S, e[i]))
    BY <1>0, <1>1, <2>1
  <2>3. <<e[j], e[i]>> \notin R
    BY <2>1, <2>2, RanksGrow
  <2> QED BY <2>1, <2>2, <2>3 DEF Orders
<1>2. ASSUME NEW x \in S PROVE \E i \in 1 .. Cardinality(S) : e[i] = x
  <2>1. PICK r \in 0 .. Cardinality(S) - 1 : PlaceOf(R, S, x) = r
    BY RanksGrow
  <2>2. r + 1 \in 1 .. Cardinality(S)
    BY <1>0
  <2>3. PlaceOf(R, S, e[r + 1]) = r /\ e[r + 1] \in S
    BY <2>2
  <2>4. ~(PlaceOf(R, S, x) < PlaceOf(R, S, e[r + 1])) /\ ~(PlaceOf(R, S, e[r + 1]) < PlaceOf(R, S, x))
    BY <1>0, <2>1, <2>3
  <2>5. <<x, e[r + 1]>> \notin R /\ <<e[r + 1], x>> \notin R
    BY <2>3, <2>4, RanksGrow
  <2>6. e[r + 1] = x
    BY <2>3, <2>5 DEF Orders
  <2> QED BY <2>2, <2>6
<1> QED BY <1>1, <1>2 DEF Enumerates

\* The sum of f over the indices in A.
SumOver(f, A, N) == Total([j \in 1 .. N |-> IF j \in A THEN f[j] ELSE 0], N)

\* One more index adds its term.
LEMMA SumOverOneMore ==
  ASSUME NEW N \in Nat, NEW f, \A j \in 1 .. N : f[j] \in Int,
         NEW A, NEW m \in 1 .. N, m \notin A
  PROVE  SumOver(f, A \cup {m}, N) = SumOver(f, A, N) + f[m]
<1> DEFINE p == [j \in 1 .. N |-> IF j \in A THEN f[j] ELSE 0]
           q == [j \in 1 .. N |-> IF j \in A \cup {m} THEN f[j] ELSE 0]
<1>1. \A j \in 1 .. N : p[j] \in Int /\ q[j] \in Int
  OBVIOUS
<1>2. \A j \in 1 .. N : j # m => q[j] = p[j]
  OBVIOUS
<1>3. p[m] = 0 /\ q[m] = f[m] /\ f[m] \in Int
  OBVIOUS
<1>4. SumOver(f, A, N) = Total(p, N) /\ SumOver(f, A \cup {m}, N) = Total(q, N)
  BY DEF SumOver
<1> HIDE DEF p, q
<1>5. Total(q, N) = Total(p, N) + (q[m] - p[m])
  BY <1>1, <1>2, TotalUpdate
<1> QED BY <1>3, <1>4, <1>5

\* g lists the terms of f at n different indices, in the order of e.
Lists(g, f, e, n, N) ==
  /\ n \in Nat /\ N \in Nat /\ e \in [1 .. n -> 1 .. N]
  /\ \A j \in 1 .. N : f[j] \in Int
  /\ \A i, j \in 1 .. n : e[i] = e[j] => i = j
  /\ \A i \in 1 .. n : g[i] = f[e[i]]

\* The sum over the first terms of a list is the sum over the indices it has
\* gone through.
LEMMA TotalEnumerated ==
  ASSUME NEW N, NEW f, NEW n, NEW e, NEW g, Lists(g, f, e, n, N)
  PROVE  \A k \in 0 .. n : Total(g, k) = SumOver(f, {e[i] : i \in 1 .. k}, N)
<1> DEFINE Past(k) == {e[i] : i \in 1 .. k}
           T == {k \in 0 .. n : Total(g, k) = SumOver(f, Past(k), N)}
<1>0. n \in Nat /\ N \in Nat /\ \A j \in 1 .. N : f[j] \in Int
  BY DEF Lists
<1>1. PICK s : HasPrefixes(s, g, n)
  <2>1. \A i \in 1 .. n : g[i] \in Int
    BY DEF Lists
  <2> QED BY <1>0, <2>1, TotalPrefixes
<1>2. 0 \in T
  <2>1. Past(0) = {}
    OBVIOUS
  <2>2. SumOver(f, {}, N) = 0
    <3> DEFINE z == [j \in 1 .. N |-> IF j \in {} THEN f[j] ELSE 0]
    <3>1. \A j \in 1 .. N : z[j] = 0
      OBVIOUS
    <3>2. SumOver(f, {}, N) = Total(z, N)
      BY Zenon DEF SumOver
    <3> HIDE DEF z
    <3> QED BY <1>0, <3>1, <3>2, TotalZero
  <2>3. Total(g, 0) = 0 /\ 0 \in 0 .. n
    BY <1>0, <1>1 DEF HasPrefixes
  <2> HIDE DEF Past
  <2> QED BY <2>1, <2>2, <2>3
<1>3. ASSUME NEW k \in 0 .. n - 1, k \in T PROVE k + 1 \in T
  <2>1. k \in 0 .. n /\ k + 1 \in 0 .. n /\ k + 1 \in 1 .. n /\ (k + 1) - 1 = k
    BY <1>0
  <2>2. PICK m \in 1 .. N : m = e[k + 1]
    BY <2>1 DEF Lists
  <2>3. Past(k + 1) = Past(k) \cup {m}
    <3>1. \A i : i \in 1 .. k + 1 <=> i \in 1 .. k \/ i = k + 1
      BY <2>1
    <3> QED BY <2>2, <3>1
  <2>4. m \notin Past(k)
    <3> SUFFICES ASSUME NEW i \in 1 .. k, e[i] = m PROVE FALSE
      OBVIOUS
    <3>1. i \in 1 .. n /\ i # k + 1
      BY <1>0, <2>1
    <3> QED BY <2>1, <2>2, <3>1 DEF Lists
  <2> HIDE DEF Past
  <2>5. SumOver(f, Past(k + 1), N) = SumOver(f, Past(k), N) + f[m]
    <3>1. SumOver(f, Past(k) \cup {m}, N) = SumOver(f, Past(k), N) + f[m]
      BY <1>0, <2>4, SumOverOneMore
    <3> QED BY <2>3, <3>1, Zenon
  <2>6. Total(g, k + 1) = s[k] + g[k + 1] /\ Total(g, k) = s[k]
    BY <1>1, <2>1 DEF HasPrefixes
  <2>7. g[k + 1] = f[m] /\ Total(g, k) = SumOver(f, Past(k), N)
    BY <1>3, <2>1, <2>2 DEF Lists
  <2>8. Total(g, k + 1) = SumOver(f, Past(k + 1), N)
    BY <2>5, <2>6, <2>7
  <2> QED BY <2>1, <2>8
<1>4. 0 .. n \subseteq T
  <2> HIDE DEF T
  <2> QED BY <1>0, <1>2, <1>3, RangeInduction
<1> QED BY <1>4

\* Terms outside a set that are 0 do not count.
LEMMA SumOverAll ==
  ASSUME NEW N \in Nat, NEW f, \A j \in 1 .. N : f[j] \in Int,
         NEW A, \A j \in 1 .. N : j \notin A => f[j] = 0
  PROVE  SumOver(f, A, N) = Total(f, N)
<1> DEFINE g == [j \in 1 .. N |-> IF j \in A THEN f[j] ELSE 0]
           h == [j \in 1 .. N |-> g[j] - f[j]]
<1>1. \A j \in 1 .. N : g[j] = f[j]
  OBVIOUS
<1>2. \A j \in 1 .. N : h[j] = 0
  BY <1>1
<1>3. \A j \in 1 .. N : g[j] \in Int /\ f[j] \in Int /\ h[j] = g[j] - f[j]
  BY <1>1
<1>4. SumOver(f, A, N) = Total(g, N)
  BY Zenon DEF SumOver
<1> HIDE DEF g, h
<1>5. Total(h, N) = Total(g, N) - Total(f, N)
  BY <1>3, TotalDifference
<1>6. Total(h, N) = 0
  BY <1>2, TotalZero
<1>7. Total(g, N) \in Int /\ Total(f, N) \in Int
  BY <1>3, TotalType
<1> QED BY <1>4, <1>5, <1>6, <1>7

\* The sum over the first indices, and over those that follow.
LEMMA SumOverEnds ==
  ASSUME NEW N \in Nat, NEW f, \A j \in 1 .. N : f[j] \in Int, NEW m \in 0 .. N
  PROVE  /\ SumOver(f, 1 .. m, N) = Total(f, m)
         /\ SumOver(f, m + 1 .. N, N) = Total(f, N) - Total(f, m)
<1>1. PICK s : HasPrefixes(s, f, N)
  BY TotalPrefixes
<1> DEFINE g == [j \in 1 .. N |-> IF j \in 1 .. m THEN f[j] ELSE 0]
           h == [j \in 1 .. N |-> IF j \in m + 1 .. N THEN f[j] ELSE 0]
<1>2. SumOver(f, 1 .. m, N) = Total(g, N) /\ SumOver(f, m + 1 .. N, N) = Total(h, N)
  BY Zenon DEF SumOver
<1>3. \A j \in 1 .. N : f[j] \in Int /\ g[j] \in Int /\ h[j] = f[j] - g[j]
  OBVIOUS
<1>4. /\ \A j \in 1 .. m : g[j] = f[j]
      /\ \A j \in 1 .. N : j > m => g[j] = 0
  OBVIOUS
<1> HIDE DEF g, h
<1>5. PICK t : HasPrefixes(t, g, N)
  BY <1>3, TotalPrefixes
<1> DEFINE T == {k \in 0 .. N : t[k] = IF k <= m THEN s[k] ELSE s[m]}
<1>6. 0 \in T
  BY <1>1, <1>5 DEF HasPrefixes
<1>7. ASSUME NEW k \in 0 .. N - 1, k \in T PROVE k + 1 \in T
  <2>1. k + 1 \in 1 .. N /\ k + 1 \in 0 .. N /\ (k + 1) - 1 = k /\ k \in 0 .. N
    OBVIOUS
  <2>2. t[k + 1] = t[k] + g[k + 1] /\ s[k + 1] = s[k] + f[k + 1] /\ t[k] \in Int /\ s[m] \in Int
    BY <1>1, <1>5, <2>1 DEF HasPrefixes
  <2>3. CASE k + 1 <= m
    <3>1. g[k + 1] = f[k + 1] /\ t[k] = s[k]
      BY <1>4, <1>7, <2>1, <2>3
    <3> QED BY <2>1, <2>2, <2>3, <3>1
  <2>4. CASE ~(k + 1 <= m)
    <3>1. g[k + 1] = 0 /\ k >= m
      BY <1>4, <2>1, <2>4
    <3>2. t[k] = s[m]
      BY <1>7, <3>1
    <3> QED BY <2>1, <2>2, <2>4, <3>1, <3>2
  <2> QED BY <2>3, <2>4
<1>8. 0 .. N \subseteq T
  <2> HIDE DEF T
  <2> QED BY <1>6, <1>7, RangeInduction
<1>9. N \in 0 .. N /\ m \in 0 .. N
  OBVIOUS
<1>10. t[N] = s[m]
  BY <1>8, <1>9
<1>11. Total(g, N) = Total(f, m)
  BY <1>1, <1>5, <1>9, <1>10 DEF HasPrefixes
<1>12. Total(h, N) = Total(f, N) - Total(g, N)
  BY <1>3, TotalDifference
<1> QED BY <1>2, <1>11, <1>12

\* A finite set of numbers in ascending order has every one of them, once.
LEMMA AscendingOnce ==
  ASSUME NEW S \in SUBSET Nat, IsFiniteSet(S)
  PROVE  LET n == Cardinality(S)
             e == Ranked(S, LAMBDA i, j : i < j)
         IN  /\ n \in Nat /\ e \in [1 .. n -> S]
             /\ \A i, j \in 1 .. n : e[i] = e[j] => i = j
             /\ \A x \in S : \E i \in 1 .. n : e[i] = x
<1> DEFINE R == {p \in S \X S : p[1] < p[2]}
           n == Cardinality(S)
           e == Ranked(S, LAMBDA i, j : i < j)
<1>0. n \in Nat
  BY FS_CardinalityType
<1>1. \A x, y \in S : <<x, y>> \in R <=> x < y
  OBVIOUS
<1>2. Orders(R, S)
  <2>1. \A x, y \in S : x \in Nat /\ y \in Nat
    OBVIOUS
  <2> HIDE DEF R
  <2> QED BY <1>1, <2>1, SMTT(30) DEF Orders
<1>3. e = [i \in 1 .. n |-> CHOOSE x \in S : PlaceOf(R, S, x) = i - 1]
  <2>1. e = [i \in 1 .. n |-> CHOOSE x \in S : Cardinality({y \in S : y < x}) = i - 1]
    BY DEF Ranked
  <2>2. ASSUME NEW x \in S PROVE Cardinality({y \in S : y < x}) = PlaceOf(R, S, x)
    <3>1. {y \in S : y < x} = {y \in S : <<y, x>> \in R}
      BY <1>1
    <3> HIDE DEF R
    <3> QED BY <3>1, Zenon DEF PlaceOf
  <2> HIDE DEF R, n, e
  <2>3. \A i \in 1 .. n : (CHOOSE x \in S : Cardinality({y \in S : y < x}) = i - 1)
                           = CHOOSE x \in S : PlaceOf(R, S, x) = i - 1
    <3> TAKE i \in 1 .. n
    <3>1. \A x : (x \in S /\ Cardinality({y \in S : y < x}) = i - 1)
                 <=> (x \in S /\ PlaceOf(R, S, x) = i - 1)
      BY <2>2
    <3> QED BY <3>1
  <2> DEFINE A(i) == CHOOSE x \in S : Cardinality({y \in S : y < x}) = i - 1
             B(i) == CHOOSE x \in S : PlaceOf(R, S, x) = i - 1
  <2>4. e = [i \in 1 .. n |-> A(i)] /\ \A i \in 1 .. n : A(i) = B(i)
    BY <2>1, <2>3
  <2>5. e = [i \in 1 .. n |-> B(i)]
    <3> HIDE DEF A, B
    <3> QED BY <2>4
  <2> QED BY <2>5
<1> HIDE DEF e, R
<1>4. \A i \in 1 .. n : e[i] \in S /\ PlaceOf(R, S, e[i]) = i - 1
  <2> TAKE i \in 1 .. n
  <2>1. \E x \in S : PlaceOf(R, S, x) = i - 1
    BY <1>2, RanksAreTaken
  <2>2. e[i] = CHOOSE x \in S : PlaceOf(R, S, x) = i - 1
    BY <1>3
  <2> QED BY <2>1, <2>2
<1>5. e \in [1 .. n -> S]
  BY <1>3, <1>4
<1>6. Enumerates(e, S, R)
  BY <1>2, <1>4, <1>5, RanksEnumerate
<1>7. ASSUME NEW i \in 1 .. n, NEW j \in 1 .. n, e[i] = e[j] PROVE i = j
  <2>0. e[i] \in S /\ e[j] \in S
    BY <1>5
  <2>1. <<e[i], e[j]>> \notin R /\ <<e[j], e[i]>> \notin R
    BY <1>2, <1>7, <2>0 DEF Orders
  <2>2. ~(i < j) /\ ~(j < i)
    BY <1>6, <2>1 DEF Enumerates
  <2> QED BY <1>0, <2>2
<1> QED BY <1>0, <1>5, <1>6, <1>7 DEF Enumerates, e
=============================================================================
