---------------------------- MODULE SumsProofs ----------------------------
(***************************************************************************)
(* What SumTo computes, for every function and every length.  Each fact    *)
(* about all lengths is proved from the least counterexample.              *)
(***************************************************************************)
EXTENDS Sums, WellFoundedInduction, TLAPS

\* A non-empty set of naturals has a least element.
LEMMA LeastNatural ==
    ASSUME NEW T, T \subseteq Nat, T # {}
    PROVE  \E x \in T : \A y \in T : x <= y
<1>1. IsWellFoundedOn(OpToRel(<, Nat), Nat)
  BY Zenon, NatLessThanWellFounded
<1>2. PICK x \in T : \A y \in T : ~ (<<y, x>> \in OpToRel(<, Nat))
  BY Zenon, <1>1, WFMin
<1>3. \A y \in T : ~(y < x)
  BY Zenon, <1>2 DEF OpToRel
<1> QED
  BY <1>3

\* s is the table of running totals of f up to n.
IsTotals(s, f, n) == s = [i \in 0 .. n |-> IF i = 0 THEN 0 ELSE s[i - 1] + f[i]]

\* Every function has a table of running totals.
LEMMA TotalsExist ==
    ASSUME NEW n \in Nat, NEW f \in [1 .. n -> Int]
    PROVE  \E s : IsTotals(s, f, n) /\ s \in [0 .. n -> Int]
<1> DEFINE Good(m) == \E s : IsTotals(s, f, m) /\ s \in [0 .. m -> Int]
           Bad == {m \in 0 .. n : ~Good(m)}
<1>1. SUFFICES ASSUME Bad # {} PROVE FALSE
  <2>1. n \in 0 .. n
    OBVIOUS
  <2> QED BY <2>1, <1>1
<1>2. PICK m \in Bad : \A y \in Bad : m <= y
  <2>1. Bad \subseteq Nat
    OBVIOUS
  <2> HIDE DEF Bad
  <2> QED BY Zenon, <1>1, <2>1, LeastNatural
<1>3. m \in 0 .. n /\ ~Good(m)
  BY <1>2
<1>4. CASE m = 0
  <2> DEFINE z == [i \in 0 .. 0 |-> 0]
  <2>1. IsTotals(z, f, 0) /\ z \in [0 .. 0 -> Int]
    BY DEF IsTotals
  <2> QED BY <2>1, <1>3, <1>4
<1>5. CASE m # 0
  <2>1. m - 1 \in 0 .. n /\ ~(m - 1 \in Bad)
    BY <1>2, <1>3, <1>5
  <2>2. Good(m - 1)
    BY <2>1
  <2>3. PICK s : IsTotals(s, f, m - 1) /\ s \in [0 .. m - 1 -> Int]
    BY <2>2
  <2> DEFINE w == [i \in 0 .. m |-> IF i = m THEN s[m - 1] + f[m] ELSE s[i]]
  <2>4. w \in [0 .. m -> Int]
    BY <1>3, <1>5, <2>3
  <2>5. \A i \in 0 .. m : w[i] = IF i = 0 THEN 0 ELSE w[i - 1] + f[i]
    <3> SUFFICES ASSUME NEW i \in 0 .. m
                 PROVE  w[i] = IF i = 0 THEN 0 ELSE w[i - 1] + f[i]
      OBVIOUS
    <3>1. \A j \in 0 .. m - 1 : s[j] = IF j = 0 THEN 0 ELSE s[j - 1] + f[j]
      BY <2>3, <1>3, <1>5 DEF IsTotals
    <3> QED BY <3>1, <1>3, <1>5
  <2>6. IsTotals(w, f, m)
    BY <2>5 DEF IsTotals
  <2> QED BY <2>4, <2>6, <1>3
<1> QED BY <1>4, <1>5

\* Two tables of the same function agree wherever both are defined.
LEMMA TotalsAgree ==
    ASSUME NEW f, NEW n \in Nat, NEW m \in Nat, m <= n,
           NEW s, NEW t, IsTotals(s, f, n), IsTotals(t, f, m)
    PROVE  \A i \in 0 .. m : s[i] = t[i]
<1> DEFINE Bad == {i \in 0 .. m : s[i] # t[i]}
<1>1. SUFFICES ASSUME Bad # {} PROVE FALSE
  BY <1>1
<1>2. PICK k \in Bad : \A y \in Bad : k <= y
  <2>1. Bad \subseteq Nat
    OBVIOUS
  <2> HIDE DEF Bad
  <2> QED BY Zenon, <1>1, <2>1, LeastNatural
<1>3. s[0] = 0 /\ t[0] = 0
  BY DEF IsTotals
<1>4. k # 0
  BY <1>2, <1>3
<1>5. k - 1 \in 0 .. m /\ s[k - 1] = t[k - 1]
  BY <1>2, <1>4
<1>6. s[k] = s[k - 1] + f[k] /\ t[k] = t[k - 1] + f[k]
  BY <1>2, <1>4 DEF IsTotals
<1> QED BY <1>2, <1>5, <1>6

\* SumTo satisfies its recursion, and is an integer.
LEMMA SumToStep ==
    ASSUME NEW n \in Nat, NEW f \in [1 .. n -> Int]
    PROVE  /\ SumTo(f, 0) = 0
           /\ \A m \in 0 .. n : SumTo(f, m) \in Int
           /\ \A m \in 1 .. n : SumTo(f, m) = SumTo(f, m - 1) + f[m]
<1> DEFINE Tab(m) == CHOOSE s : IsTotals(s, f, m)
<1>1. \A m \in 0 .. n : SumTo(f, m) = Tab(m)[m]
  BY DEF SumTo, IsTotals
<1>2. PICK s : IsTotals(s, f, n) /\ s \in [0 .. n -> Int]
  BY TotalsExist
<1>3. ASSUME NEW m \in 0 .. n PROVE IsTotals(Tab(m), f, m)
  <2> DEFINE r == [i \in 0 .. m |-> s[i]]
  <2>1. \A i \in 0 .. m : r[i] = IF i = 0 THEN 0 ELSE r[i - 1] + f[i]
    BY <1>2 DEF IsTotals
  <2>2. IsTotals(r, f, m)
    BY <2>1 DEF IsTotals
  <2> QED BY <2>2
<1>4. ASSUME NEW m \in 0 .. n PROVE Tab(m)[m] = s[m]
  <2>1. IsTotals(Tab(m), f, m)
    BY <1>3
  <2> HIDE DEF Tab
  <2> QED BY <2>1, <1>2, TotalsAgree
<1>5. s[0] = 0 /\ \A m \in 1 .. n : s[m] = s[m - 1] + f[m]
  BY <1>2 DEF IsTotals
<1>6. \A m \in 0 .. n : SumTo(f, m) = s[m]
  BY <1>1, <1>4
<1> QED BY <1>2, <1>5, <1>6

\* The sum of integers is an integer.
LEMMA SumToInt ==
    ASSUME NEW n \in Nat, NEW f \in [1 .. n -> Int]
    PROVE  SumTo(f, n) \in Int
<1>1. n \in 0 .. n
  OBVIOUS
<1> QED BY <1>1, SumToStep

\* Functions that agree on 1 .. n have the same sum up to n.
LEMMA SumToCong ==
    ASSUME NEW n \in Nat, NEW p \in Nat, NEW q \in Nat, n <= p, n <= q,
           NEW f \in [1 .. p -> Int], NEW g \in [1 .. q -> Int],
           \A i \in 1 .. n : f[i] = g[i]
    PROVE  SumTo(f, n) = SumTo(g, n)
<1> DEFINE Bad == {i \in 0 .. n : SumTo(f, i) # SumTo(g, i)}
<1>1. SUFFICES ASSUME Bad # {} PROVE FALSE
  <2>1. n \in 0 .. n
    OBVIOUS
  <2> QED BY <2>1, <1>1
<1>2. PICK k \in Bad : \A y \in Bad : k <= y
  <2>1. Bad \subseteq Nat
    OBVIOUS
  <2> HIDE DEF Bad
  <2> QED BY Zenon, <1>1, <2>1, LeastNatural
<1>3. k # 0
  BY <1>2, SumToStep
<1>4. k - 1 \in 0 .. n /\ SumTo(f, k - 1) = SumTo(g, k - 1)
  BY <1>2, <1>3
<1>5. \A m \in 1 .. p : SumTo(f, m) = SumTo(f, m - 1) + f[m]
  BY Zenon, SumToStep
<1>6. \A m \in 1 .. q : SumTo(g, m) = SumTo(g, m - 1) + g[m]
  BY Zenon, SumToStep
<1>7. k \in 1 .. p /\ k \in 1 .. q /\ k \in 1 .. n
  BY <1>2, <1>3
<1>8. SumTo(f, k) = SumTo(f, k - 1) + f[k] /\ SumTo(g, k) = SumTo(g, k - 1) + g[k]
  BY <1>5, <1>6, <1>7
<1> QED BY <1>2, <1>4, <1>7, <1>8

\* Appending one term adds it to the sum.
LEMMA SumToAppend ==
    ASSUME NEW n \in Nat, NEW f \in [1 .. n -> Int], NEW g \in [1 .. n + 1 -> Int],
           \A i \in 1 .. n : f[i] = g[i]
    PROVE  SumTo(g, n + 1) = SumTo(f, n) + g[n + 1]
<1>1. SumTo(f, n) = SumTo(g, n)
  BY SumToCong
<1>2. n + 1 \in Nat /\ n + 1 \in 1 .. n + 1 /\ (n + 1) - 1 = n
  OBVIOUS
<1>3. \A m \in 1 .. n + 1 : SumTo(g, m) = SumTo(g, m - 1) + g[m]
  BY Zenon, <1>2, SumToStep
<1>4. SumTo(g, n + 1) = SumTo(g, n) + g[n + 1]
  BY <1>2, <1>3
<1> QED BY <1>1, <1>4

\* Changing one term changes the sum by the difference.
LEMMA SumToUpdate ==
    ASSUME NEW n \in Nat, NEW f \in [1 .. n -> Int], NEW g \in [1 .. n -> Int],
           NEW k \in 1 .. n, \A i \in 1 .. n : i # k => f[i] = g[i]
    PROVE  SumTo(g, n) = SumTo(f, n) - f[k] + g[k]
<1> DEFINE Off(i) == SumTo(g, i) # SumTo(f, i) - f[k] + g[k]
           Bad == {i \in k .. n : Off(i)}
<1>1. SUFFICES ASSUME Bad # {} PROVE FALSE
  <2>1. n \in k .. n
    OBVIOUS
  <2> QED BY <2>1, <1>1
<1>2. PICK j \in Bad : \A y \in Bad : j <= y
  <2>1. Bad \subseteq Nat
    OBVIOUS
  <2> HIDE DEF Bad
  <2> QED BY Zenon, <1>1, <2>1, LeastNatural
<1>a. \A m \in 1 .. n : /\ SumTo(f, m) = SumTo(f, m - 1) + f[m]
                        /\ SumTo(g, m) = SumTo(g, m - 1) + g[m]
  BY Zenon, SumToStep
<1>b. \A m \in 0 .. n : SumTo(f, m) \in Int /\ SumTo(g, m) \in Int
  BY Zenon, SumToStep
<1>c. j \in 1 .. n /\ j - 1 \in 0 .. n
  BY <1>2
<1>3. SumTo(f, j) = SumTo(f, j - 1) + f[j] /\ SumTo(g, j) = SumTo(g, j - 1) + g[j]
  BY <1>a, <1>c
<1>4. SumTo(f, j - 1) \in Int /\ SumTo(g, j - 1) \in Int
  BY <1>b, <1>c
<1>5. CASE j = k
  <2>1. SumTo(f, k - 1) = SumTo(g, k - 1)
    <3>1. k - 1 \in Nat /\ k - 1 <= n /\ \A i \in 1 .. k - 1 : f[i] = g[i]
      OBVIOUS
    <3> HIDE DEF Bad, Off
    <3> QED BY <3>1, SumToCong
  <2> QED BY <1>2, <1>3, <1>4, <1>5, <2>1
<1>6. CASE j # k
  <2>1. j - 1 \in k .. n /\ ~Off(j - 1)
    BY <1>2, <1>6
  <2>2. f[j] = g[j]
    BY <1>2, <1>6
  <2> QED BY <1>2, <1>3, <1>4, <2>1, <2>2
<1> QED BY <1>5, <1>6

\* A sum of naturals is a natural, and no term exceeds it.
LEMMA SumToNat ==
    ASSUME NEW n \in Nat, NEW f \in [1 .. n -> Nat]
    PROVE  SumTo(f, n) \in Nat /\ \A k \in 1 .. n : f[k] <= SumTo(f, n)
<1>0. f \in [1 .. n -> Int]
  OBVIOUS
<1> DEFINE Ok(i) == SumTo(f, i) \in Nat /\ \A k \in 1 .. i : f[k] <= SumTo(f, i)
           Bad == {i \in 0 .. n : ~Ok(i)}
<1>1. SUFFICES ASSUME Bad # {} PROVE FALSE
  <2>1. n \in 0 .. n
    OBVIOUS
  <2> QED BY <2>1, <1>1
<1>2. PICK j \in Bad : \A y \in Bad : j <= y
  <2>1. Bad \subseteq Nat
    OBVIOUS
  <2> HIDE DEF Bad
  <2> QED BY Zenon, <1>1, <2>1, LeastNatural
<1>3. j # 0
  BY <1>0, <1>2, SumToStep
<1>4. j - 1 \in 0 .. n /\ Ok(j - 1)
  BY <1>2, <1>3
<1>a. \A m \in 1 .. n : SumTo(f, m) = SumTo(f, m - 1) + f[m]
  BY Zenon, <1>0, SumToStep
<1>5. SumTo(f, j) = SumTo(f, j - 1) + f[j]
  BY <1>a, <1>2, <1>3
<1>6. f[j] \in Nat
  BY <1>2, <1>3
<1>7. \A k \in 1 .. j : k = j \/ k \in 1 .. j - 1
  BY <1>2
<1> QED BY SMTT(60), <1>2, <1>4, <1>5, <1>6, <1>7

\* A sum of zeros is zero.
LEMMA SumToZero ==
    ASSUME NEW n \in Nat, NEW f \in [1 .. n -> Int], \A i \in 1 .. n : f[i] = 0
    PROVE  SumTo(f, n) = 0
<1> DEFINE Bad == {i \in 0 .. n : SumTo(f, i) # 0}
<1>1. SUFFICES ASSUME Bad # {} PROVE FALSE
  <2>1. n \in 0 .. n
    OBVIOUS
  <2> QED BY <2>1, <1>1
<1>2. PICK k \in Bad : \A y \in Bad : k <= y
  <2>1. Bad \subseteq Nat
    OBVIOUS
  <2> HIDE DEF Bad
  <2> QED BY Zenon, <1>1, <2>1, LeastNatural
<1>3. k # 0
  BY <1>2, SumToStep
<1>4. k - 1 \in 0 .. n /\ SumTo(f, k - 1) = 0
  BY <1>2, <1>3
<1>5. \A m \in 1 .. n : SumTo(f, m) = SumTo(f, m - 1) + f[m]
  BY Zenon, SumToStep
<1>6. SumTo(f, k) = SumTo(f, k - 1) + f[k] /\ f[k] = 0
  BY <1>2, <1>3, <1>5
<1> QED BY <1>2, <1>4, <1>6
=============================================================================
