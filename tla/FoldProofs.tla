----------------------------- MODULE FoldProofs -----------------------------
(***************************************************************************)
(* A loop over a sequence: over no element it leaves Base, and one more    *)
(* element is one more Op.  Instantiated with the bodies of the loops of   *)
(* analysis.py.                                                            *)
(***************************************************************************)
EXTENDS Integers, Sequences, NaturalsInduction, WellFoundedInduction, TLAPS

CONSTANTS Op(_, _), Base

\* The value after the last element of s.
Fold(s) ==
  LET after[k \in 0..Len(s)] == IF k = 0 THEN Base ELSE Op(after[k - 1], s[k])
  IN  after[Len(s)]

\* A set of natural numbers that is not empty has a least element.
LEMMA Least ==
  ASSUME NEW T \in SUBSET Nat, T # {} PROVE \E n \in T : \A m \in T : n <= m
<1> DEFINE R == OpToRel(<, Nat)
<1>1. IsWellFoundedOn(R, Nat)
  BY NatLessThanWellFounded
<1>2. \A a, b \in Nat : a < b => <<a, b>> \in R
  BY DEF OpToRel
<1> HIDE DEF R
<1>3. PICK n \in T : \A m \in T : ~(<<m, n>> \in R)
  BY <1>1, WFMin, ZenonT(60)
<1>4. \A m \in T : ~(m < n)
  BY <1>2, <1>3, ZenonT(60)
<1> QED BY <1>4

-----------------------------------------------------------------------------
(* The function that the loop defines by recursion.                        *)

\* g is that function for the first n elements of s.
After(g, s, n) == g = [k \in 0..n |-> IF k = 0 THEN Base ELSE Op(g[k - 1], s[k])]

\* The values of the function.
LEMMA AfterAt ==
  ASSUME NEW g, NEW s, NEW n \in Nat, After(g, s, n)
  PROVE  g[0] = Base /\ \A k \in 1..n : g[k] = Op(g[k - 1], s[k])
<1>1. 0 \in 0..n /\ \A k \in 1..n : k \in 0..n /\ k # 0
  OBVIOUS
<1>2. \A k \in 0..n : g[k] = IF k = 0 THEN Base ELSE Op(g[k - 1], s[k])
  BY DEF After
<1> QED BY <1>1, <1>2, ZenonT(60)

\* From the function for n elements, that for one more.
LEMMA AfterNext ==
  ASSUME NEW g, NEW s, NEW n \in Nat, After(g, s, n) PROVE \E h : After(h, s, n + 1)
<1> DEFINE h == [k \in 0..(n + 1) |-> IF k = n + 1 THEN Op(g[n], s[n + 1]) ELSE g[k]]
<1>1. \A k \in 0..(n + 1) : h[k] = IF k = 0 THEN Base ELSE Op(h[k - 1], s[k])
  <2> SUFFICES ASSUME NEW k \in 0..(n + 1)
               PROVE  h[k] = IF k = 0 THEN Base ELSE Op(h[k - 1], s[k])
    OBVIOUS
  <2>1. \A j \in 0..n : j \in 0..(n + 1) /\ j # n + 1
    OBVIOUS
  <2>2. \A j \in 0..n : h[j] = g[j]
    BY <2>1
  <2>3. CASE k = 0
    <3>1. 0 \in 0..n
      OBVIOUS
    <3> HIDE DEF h
    <3> QED BY <2>2, <2>3, <3>1, AfterAt
  <2>4. CASE k \in 1..n
    <3>1. k \in 0..n /\ k - 1 \in 0..n /\ k # 0
      BY <2>4
    <3>2. g[k] = Op(g[k - 1], s[k])
      BY <2>4, AfterAt
    <3> HIDE DEF h
    <3> QED BY <2>2, <3>1, <3>2
  <2>5. CASE k = n + 1
    <3>1. h[n + 1] = Op(g[n], s[n + 1])
      <4>1. n + 1 \in 0..(n + 1)
        OBVIOUS
      <4> QED BY <4>1
    <3>2. n \in 0..n /\ k - 1 = n /\ k # 0
      BY <2>5
    <3> HIDE DEF h
    <3> QED BY <2>2, <2>5, <3>1, <3>2
  <2>6. k = 0 \/ k \in 1..n \/ k = n + 1
    OBVIOUS
  <2> QED BY <2>3, <2>4, <2>5, <2>6
<1>2. h = [k \in 0..(n + 1) |-> h[k]]
  OBVIOUS
<1> HIDE DEF h
<1>3. After(h, s, n + 1)
  BY <1>1, <1>2, ZenonT(60) DEF After
<1> QED BY <1>3

\* The function exists.
LEMMA AfterExists == ASSUME NEW s, NEW n \in Nat PROVE \E g : After(g, s, n)
<1> DEFINE Missing == {k \in Nat : ~ \E g : After(g, s, k)}
<1>1. SUFFICES ASSUME Missing # {} PROVE FALSE
  OBVIOUS
<1>2. PICK k \in Missing : \A m \in Missing : k <= m
  BY <1>1, Least, ZenonT(60)
<1>3. CASE k = 0
  <2> DEFINE g == [j \in 0..0 |-> Base]
  <2>1. g = [j \in 0..0 |-> IF j = 0 THEN Base ELSE Op(g[j - 1], s[j])]
    OBVIOUS
  <2>2. After(g, s, 0)
    BY <2>1 DEF After
  <2> QED BY <1>2, <1>3, <2>2
<1>4. CASE k # 0
  <2>1. k - 1 \in Nat /\ ~(k <= k - 1)
    BY <1>2, <1>4
  <2>2. k - 1 \notin Missing
    <3> HIDE DEF Missing
    <3> QED BY <1>2, <2>1
  <2>3. PICK g : After(g, s, k - 1)
    BY <2>1, <2>2
  <2>4. (k - 1) + 1 = k
    BY <1>2
  <2>5. \E h : After(h, s, (k - 1) + 1)
    BY <2>1, <2>3, AfterNext
  <2> QED BY <1>2, <2>4, <2>5
<1> QED BY <1>3, <1>4

\* What the function is up to n depends on the first n elements only.
LEMMA AfterAgree ==
  ASSUME NEW g, NEW h, NEW s, NEW t, NEW n \in Nat, NEW m \in Nat, n <= m,
         After(g, s, n), After(h, t, m), \A i \in 1..n : s[i] = t[i]
  PROVE  g[n] = h[n]
<1> DEFINE Wrong == {k \in 0..n : g[k] # h[k]}
<1>1. SUFFICES ASSUME Wrong # {} PROVE FALSE
  <2>1. n \notin Wrong
    BY <1>1
  <2> QED BY <2>1
<1>2. Wrong \in SUBSET Nat
  OBVIOUS
<1>3. PICK k \in Wrong : \A j \in Wrong : k <= j
  BY <1>1, <1>2, Least, ZenonT(60)
<1>4. k \in 0..n /\ g[k] # h[k]
  BY <1>3
<1>5. g[0] = Base /\ h[0] = Base
  BY AfterAt
<1>6. k # 0
  BY <1>4, <1>5
<1>7. k \in 1..n /\ k \in 1..m /\ k - 1 \in 0..n /\ ~(k <= k - 1)
  BY <1>4, <1>6
<1>8. k - 1 \notin Wrong
  <2> HIDE DEF Wrong
  <2> QED BY <1>3, <1>7
<1>9. g[k - 1] = h[k - 1]
  BY <1>7, <1>8
<1>10. g[k] = Op(g[k - 1], s[k]) /\ h[k] = Op(h[k - 1], t[k])
  BY <1>7, AfterAt
<1> QED BY <1>4, <1>7, <1>9, <1>10

\* The loop is that function at the last element.
LEMMA FoldIsAfter ==
  ASSUME NEW S, NEW s \in Seq(S) PROVE \E g : After(g, s, Len(s)) /\ Fold(s) = g[Len(s)]
<1> DEFINE Iter == CHOOSE g : g = [k \in 0..Len(s) |-> IF k = 0 THEN Base ELSE Op(g[k - 1], s[k])]
<1>1. Fold(s) = Iter[Len(s)]
  BY DEF Fold
<1>2. \E g : g = [k \in 0..Len(s) |-> IF k = 0 THEN Base ELSE Op(g[k - 1], s[k])]
  <2>1. Len(s) \in Nat
    OBVIOUS
  <2>2. \E g : After(g, s, Len(s))
    BY <2>1, AfterExists, ZenonT(60)
  <2> QED BY <2>2, ZenonT(60) DEF After
<1>3. Iter = [k \in 0..Len(s) |-> IF k = 0 THEN Base ELSE Op(Iter[k - 1], s[k])]
  BY <1>2, ZenonT(60)
<1> HIDE DEF Iter
<1>4. After(Iter, s, Len(s))
  BY <1>3, ZenonT(60) DEF After
<1> QED BY <1>1, <1>4

\* A loop over nothing leaves the start value.
THEOREM FoldEmpty == Fold(<<>>) = Base
<1>1. <<>> \in Seq({}) /\ Len(<<>>) = 0
  OBVIOUS
<1>2. PICK g : After(g, <<>>, 0) /\ Fold(<<>>) = g[0]
  BY <1>1, FoldIsAfter, ZenonT(60)
<1> QED BY <1>2, AfterAt

\* One more element is one more step of the loop.
THEOREM FoldAppend ==
  \A S : \A s \in Seq(S), x \in S : Fold(Append(s, x)) = Op(Fold(s), x)
<1> SUFFICES ASSUME NEW S, NEW s \in Seq(S), NEW x \in S
             PROVE  Fold(Append(s, x)) = Op(Fold(s), x)
  OBVIOUS
<1> DEFINE t == Append(s, x)
<1> DEFINE n == Len(s)
<1>1. /\ t \in Seq(S) /\ Len(t) = n + 1 /\ n \in Nat /\ t[n + 1] = x
      /\ \A i \in 1..n : s[i] = t[i]
  OBVIOUS
<1> HIDE DEF t, n
<1>2. PICK m \in Nat : m = n + 1
  BY <1>1
<1>3. m \in 1..m /\ n <= m /\ m - 1 = n
  BY <1>1, <1>2
<1>4. PICK g : After(g, s, n) /\ Fold(s) = g[n]
  BY FoldIsAfter DEF n
<1>5. PICK h : After(h, t, m) /\ Fold(t) = h[m]
  BY <1>1, <1>2, FoldIsAfter
<1>6. g[n] = h[n]
  <2>1. ASSUME NEW a, NEW b, After(a, s, n), After(b, t, m) PROVE a[n] = b[n]
    BY <1>1, <1>3, <2>1, AfterAgree, ZenonT(60)
  <2> QED BY <1>4, <1>5, <2>1
<1>7. h[m] = Op(h[n], t[m])
  <2>1. \A k \in 1..m : h[k] = Op(h[k - 1], t[k])
    BY <1>5, AfterAt
  <2> QED BY <1>3, <2>1
<1> QED BY <1>1, <1>2, <1>4, <1>5, <1>6, <1>7 DEF t
=============================================================================
