----------------------------- MODULE SumProofs ------------------------------
(***************************************************************************)
(* Induction over the natural numbers, and the partial sums that sizes and *)
(* addresses are made of: the offsets of records in NVM, of cells and      *)
(* windows in RAM.  Induction is over a set of numbers, by its least       *)
(* element outside; the recursive functions of the modules are met as      *)
(* functions that satisfy their equation.                                  *)
(***************************************************************************)
EXTENDS Integers, WellFoundedInduction, TLAPS

\* A set with 0 in it and, with every number, the next one, has them all.
LEMMA NatSetInduction ==
  ASSUME NEW S, 0 \in S, \A n \in Nat : n \in S => n + 1 \in S
  PROVE  Nat \subseteq S
<1>1. SUFFICES ASSUME Nat \ S # {} PROVE FALSE
  OBVIOUS
<1>2. PICK x \in Nat \ S : \A y \in Nat \ S : ~(<<y, x>> \in OpToRel(<, Nat))
  BY <1>1, NatLessThanWellFounded, WFMin
<1>3. \A y \in Nat \ S : ~(y < x)
  BY <1>2 DEF OpToRel
<1>4. x # 0
  OBVIOUS
<1>5. x - 1 \in Nat
  BY <1>4
<1>6. x - 1 \in S
  BY <1>3, <1>5
<1>7. (x - 1) + 1 \in S
  BY <1>5, <1>6
<1>8. (x - 1) + 1 = x
  OBVIOUS
<1> QED BY <1>7, <1>8

\* s holds the partial sums of x up to n.
Sums(s, x, n) ==
    /\ s \in [0 .. n -> Nat] /\ s[0] = 0
    /\ \A k \in 1 .. n : s[k] = s[k - 1] + x[k]

Terms(x, n) == \A k \in 1 .. n : x[k] \in Nat

\* Partial sums exist.
LEMMA SumsExist ==
  ASSUME NEW x, NEW n \in Nat, Terms(x, n)
  PROVE  \E s : Sums(s, x, n)
<1> DEFINE S == {m \in Nat : m =< n => \E s : Sums(s, x, m)}
<1>1. 0 \in S
  <2>1. Sums([i \in 0 .. 0 |-> 0], x, 0)
    BY DEF Sums
  <2> QED BY <2>1
<1>2. ASSUME NEW m \in Nat, m \in S PROVE m + 1 \in S
  <2>1. SUFFICES ASSUME m + 1 =< n PROVE \E s : Sums(s, x, m + 1)
    OBVIOUS
  <2>2. PICK s : Sums(s, x, m)
    BY <1>2, <2>1
  <2> DEFINE t == [k \in 0 .. m + 1 |-> IF k = m + 1 THEN s[m] + x[m + 1] ELSE s[k]]
  <2>3. x[m + 1] \in Nat
    BY <2>1 DEF Terms
  <2>4. t \in [0 .. m + 1 -> Nat]
    BY <2>2, <2>3 DEF Sums
  <2>5. t[0] = 0
    BY <2>2 DEF Sums
  <2>6. ASSUME NEW k \in 1 .. m + 1 PROVE t[k] = t[k - 1] + x[k]
    <3>1. /\ k \in 0 .. m + 1 /\ k - 1 \in 0 .. m + 1 /\ k - 1 # m + 1
      OBVIOUS
    <3>2. t[k - 1] = s[k - 1]
      BY <3>1
    <3>3. CASE k = m + 1
      <4>1. t[k] = s[m] + x[m + 1] /\ k - 1 = m
        BY <3>1, <3>3
      <4> QED BY <3>2, <3>3, <4>1
    <3>4. CASE k # m + 1
      <4>1. t[k] = s[k] /\ k \in 1 .. m
        BY <3>1, <3>4
      <4> QED BY <2>2, <3>2, <4>1 DEF Sums
    <3> QED BY <3>3, <3>4
  <2>7. Sums(t, x, m + 1)
    BY <2>4, <2>5, <2>6 DEF Sums
  <2> QED BY <2>7
<1> HIDE DEF S
<1>3. n \in S
  BY <1>1, <1>2, NatSetInduction
<1> QED BY <1>3 DEF S

\* A number is reached from 0 in steps of one: what holds of the first n.
LEMMA UpTo ==
  ASSUME NEW n \in Nat, NEW S, 0 \in S,
         \A k \in 0 .. n - 1 : k \in S => k + 1 \in S
  PROVE  0 .. n \subseteq S
<1> DEFINE T == {m \in Nat : m =< n => m \in S}
<1>1. 0 \in T
  OBVIOUS
<1>2. ASSUME NEW m \in Nat, m \in T PROVE m + 1 \in T
  BY <1>2
<1> HIDE DEF T
<1>3. Nat \subseteq T
  BY <1>1, <1>2, NatSetInduction
<1> QED BY <1>3 DEF T

\* What adds up in steps from 0 is the row of the partial sums.
LEMMA SumsAre ==
  ASSUME NEW x, NEW n \in Nat, Terms(x, n), NEW g, g = [k \in 0 .. n |-> g[k]],
         g[0] = 0, \A k \in 1 .. n : g[k] = g[k - 1] + x[k]
  PROVE  Sums(g, x, n)
<1> DEFINE S == {k \in 0 .. n : g[k] \in Nat}
<1>1. 0 \in S
  OBVIOUS
<1>2. ASSUME NEW k \in 0 .. n - 1, k \in S PROVE k + 1 \in S
  <2>1. k + 1 \in 1 .. n /\ (k + 1) - 1 = k /\ k + 1 \in 0 .. n /\ g[k] \in Nat
    BY <1>2
  <2>2. g[k + 1] = g[k] + x[k + 1] /\ x[k + 1] \in Nat
    BY <2>1 DEF Terms
  <2> QED BY <2>1, <2>2
<1> HIDE DEF S
<1>3. 0 .. n \subseteq S
  BY <1>1, <1>2, UpTo
<1>4. \A k \in 0 .. n : g[k] \in Nat
  BY <1>3 DEF S
<1> QED BY <1>4 DEF Sums

\* Sums of two rows where one never grows faster than the other.
LEMMA SumsCompare ==
  ASSUME NEW x, NEW y, NEW m \in Nat, NEW n \in Nat, NEW s, NEW r,
         Sums(s, x, m), Sums(r, y, n), m =< n, Terms(x, m), Terms(y, n),
         \A k \in 1 .. m : x[k] =< y[k]
  PROVE  \A k \in 0 .. m : s[k] =< r[k]
<1> DEFINE S == {k \in 0 .. m : s[k] =< r[k]}
<1>1. 0 \in S
  BY DEF Sums
<1>2. ASSUME NEW k \in 0 .. m - 1, k \in S PROVE k + 1 \in S
  <2>1. /\ k + 1 \in 1 .. m /\ k + 1 \in 1 .. n /\ (k + 1) - 1 = k
        /\ k \in 0 .. m /\ k \in 0 .. n /\ k + 1 \in 0 .. m /\ k + 1 \in 0 .. n
    OBVIOUS
  <2>2. s[k + 1] = s[k] + x[k + 1] /\ r[k + 1] = r[k] + y[k + 1]
    BY <2>1 DEF Sums
  <2>3. s[k] \in Nat /\ r[k] \in Nat /\ x[k + 1] \in Nat /\ y[k + 1] \in Nat
    BY <2>1 DEF Sums, Terms
  <2>4. s[k] =< r[k] /\ x[k + 1] =< y[k + 1]
    BY <1>2, <2>1
  <2> QED BY <2>1, <2>2, <2>3, <2>4
<1> HIDE DEF S
<1>3. 0 .. m \subseteq S
  BY <1>1, <1>2, UpTo
<1> QED BY <1>3 DEF S

\* Sums of rows that agree agree.
LEMMA SumsAgree ==
  ASSUME NEW x, NEW y, NEW m \in Nat, NEW n \in Nat, NEW s, NEW r,
         Sums(s, x, m), Sums(r, y, n), m =< n, Terms(x, m), Terms(y, n),
         \A k \in 1 .. m : x[k] = y[k]
  PROVE  \A k \in 0 .. m : s[k] = r[k]
<1> DEFINE S == {k \in 0 .. m : s[k] = r[k]}
<1>1. 0 \in S
  BY DEF Sums
<1>2. ASSUME NEW k \in 0 .. m - 1, k \in S PROVE k + 1 \in S
  <2>1. /\ k + 1 \in 1 .. m /\ k + 1 \in 1 .. n /\ (k + 1) - 1 = k
        /\ k + 1 \in 0 .. m
    OBVIOUS
  <2>2. s[k + 1] = s[k] + x[k + 1] /\ r[k + 1] = r[k] + y[k + 1]
    BY <2>1 DEF Sums
  <2> QED BY <1>2, <2>1, <2>2
<1> HIDE DEF S
<1>3. 0 .. m \subseteq S
  BY <1>1, <1>2, UpTo
<1> QED BY <1>3 DEF S

\* Sums grow: the sum up to j has room for every term before it.
LEMMA SumsGrow ==
  ASSUME NEW x, NEW n \in Nat, NEW s, Sums(s, x, n), Terms(x, n),
         NEW i \in 1 .. n, NEW j \in i .. n
  PROVE  s[i - 1] + x[i] =< s[j]
<1> DEFINE S == {d \in Nat : i + d =< n => s[i] =< s[i + d]}
<1>1. 0 \in S
  BY DEF Sums
<1>2. ASSUME NEW d \in Nat, d \in S PROVE d + 1 \in S
  <2>1. SUFFICES ASSUME i + (d + 1) =< n PROVE s[i] =< s[i + (d + 1)]
    OBVIOUS
  <2>2. /\ i + (d + 1) \in 1 .. n /\ (i + (d + 1)) - 1 = i + d
        /\ i + d \in 0 .. n /\ i \in 0 .. n
    BY <2>1
  <2>3. s[i + (d + 1)] = s[i + d] + x[i + (d + 1)] /\ x[i + (d + 1)] \in Nat
    BY <2>2 DEF Sums, Terms
  <2>4. s[i] \in Nat /\ s[i + d] \in Nat /\ s[i] =< s[i + d]
    BY <1>2, <2>1, <2>2 DEF Sums
  <2> QED BY <2>3, <2>4
<1> HIDE DEF S
<1>3. j - i \in S
  BY <1>1, <1>2, NatSetInduction
<1>4. s[i] =< s[j]
  <2>1. i + (j - i) = j
    OBVIOUS
  <2> QED BY <1>3, <2>1 DEF S
<1>5. s[i] = s[i - 1] + x[i]
  BY DEF Sums
<1> QED BY <1>4, <1>5

\* One term that leaves room leaves it at the end.
LEMMA SumsRoom ==
  ASSUME NEW x, NEW y, NEW n \in Nat, NEW s, NEW r,
         Sums(s, x, n), Sums(r, y, n), Terms(x, n), Terms(y, n),
         \A k \in 1 .. n : x[k] =< y[k],
         NEW i \in 1 .. n, NEW c \in Nat, x[i] + c =< y[i]
  PROVE  s[n] + c =< r[n]
<1> DEFINE S == {d \in Nat : i + d =< n => s[i + d] + c =< r[i + d]}
<1>1. 0 \in S
  <2>1. s[i - 1] =< r[i - 1]
    BY SumsCompare
  <2>2. /\ s[i] = s[i - 1] + x[i] /\ r[i] = r[i - 1] + y[i]
        /\ s[i - 1] \in Nat /\ r[i - 1] \in Nat /\ x[i] \in Nat /\ y[i] \in Nat
    BY DEF Sums, Terms
  <2>3. s[i] + c =< r[i]
    BY <2>1, <2>2
  <2> QED BY <2>3
<1>2. ASSUME NEW d \in Nat, d \in S PROVE d + 1 \in S
  <2>1. SUFFICES ASSUME i + (d + 1) =< n
        PROVE s[i + (d + 1)] + c =< r[i + (d + 1)]
    OBVIOUS
  <2>2. /\ i + (d + 1) \in 1 .. n /\ (i + (d + 1)) - 1 = i + d /\ i + d \in 0 .. n
    BY <2>1
  <2>3. /\ s[i + (d + 1)] = s[i + d] + x[i + (d + 1)]
        /\ r[i + (d + 1)] = r[i + d] + y[i + (d + 1)]
        /\ x[i + (d + 1)] =< y[i + (d + 1)]
    BY <2>2 DEF Sums
  <2>4. /\ s[i + d] \in Nat /\ r[i + d] \in Nat
        /\ x[i + (d + 1)] \in Nat /\ y[i + (d + 1)] \in Nat
    BY <2>2 DEF Sums, Terms
  <2>5. s[i + d] + c =< r[i + d]
    BY <1>2, <2>1
  <2> QED BY <2>3, <2>4, <2>5
<1> HIDE DEF S
<1>3. n - i \in S
  BY <1>1, <1>2, NatSetInduction
<1>4. i + (n - i) = n
  OBVIOUS
<1> QED BY <1>3, <1>4 DEF S
=============================================================================
