------------------------------- MODULE Counting -------------------------------
(***************************************************************************)
(* Numbers and finite sets, as the stages' modules use them: least and     *)
(* greatest elements (which carry every induction here: a counterexample   *)
(* would have a least one), and places given by counting what comes first. *)
(***************************************************************************)
EXTENDS Integers, FiniteSets, Sequences, FiniteSetsExt, FiniteSetTheorems, SequenceTheorems, WellFoundedInduction, TLAPS

(* A nonempty set of numbers has a least element.                             *)
SmallerThan == {p \in Nat \X Nat : p[1] < p[2]}
LEMMA LeastExists ==
  ASSUME NEW S \in SUBSET Nat, S # {}
  PROVE  \E u \in S : \A v \in S : u <= v
<1>1. OpToRel(<, Nat) = SmallerThan
  BY DEF OpToRel, SmallerThan
<1>2. IsWellFoundedOn(SmallerThan, Nat)
  BY <1>1, NatLessThanWellFounded
<1>3. PICK u \in S : \A v \in S : ~(<<v, u>> \in SmallerThan)
  BY <1>2, WFMin
<1>4. ASSUME NEW v \in S
      PROVE  u <= v
  <2>1. <<v, u>> \in Nat \X Nat /\ ~(v < u)
    BY <1>3 DEF SmallerThan
  <2> QED BY <2>1
<1> QED BY <1>4

(* What holds of 0 and of a number when it holds of the one before holds of   *)
(* all.                                                                       *)
LEMMA Induction ==
  ASSUME NEW S, 0 \in S, NEW n \in Nat, \A k \in 1..n : k - 1 \in S => k \in S
  PROVE  \A k \in 0..n : k \in S
<1> DEFINE B == {k \in 0..n : k \notin S}
<1>1. SUFFICES ASSUME B # {} PROVE FALSE
  OBVIOUS
<1>2. PICK m \in B : \A v \in B : m <= v
  <2>1. B \in SUBSET Nat
    OBVIOUS
  <2> HIDE DEF B
  <2> QED BY <1>1, <2>1, LeastExists
<1>3. m # 0
  OBVIOUS
<1>4. m - 1 \in S
  BY <1>2, <1>3
<1> QED BY <1>3, <1>4

(* A function defined step by step from what it was the step before exists;   *)
(* the recursive functions of the modules are of this form.                   *)
Runs(f, T, start, n, step) ==
    f \in [0..n -> T] /\ f[0] = start /\ \A k \in 1..n : f[k] = step[k][f[k - 1]]
LEMMA RecursionExists ==
  ASSUME NEW T, NEW start \in T, NEW n \in Nat, NEW step \in [1..n -> [T -> T]]
  PROVE  \E f : Runs(f, T, start, n, step)
<1> DEFINE S == {m \in 0..n : \E f : Runs(f, T, start, m, step)}
<1>1. 0 \in S
  <2>1. Runs([k \in 0..0 |-> start], T, start, 0, step)
    BY DEF Runs
  <2>2. \E f : Runs(f, T, start, 0, step)
    BY <2>1
  <2> QED BY <2>2
<1>2. ASSUME NEW m \in 1..n, m - 1 \in S
      PROVE  m \in S
  <2>1. PICK f : Runs(f, T, start, m - 1, step)
    BY <1>2
  <2> DEFINE g == [k \in 0..m |-> IF k = m THEN step[m][f[m-1]] ELSE f[k]]
  <2>2. g \in [0..m -> T]
    <3>1. f[m-1] \in T
      BY <2>1 DEF Runs
    <3>2. step[m] \in [T -> T]
      OBVIOUS
    <3>3. step[m][f[m-1]] \in T
      BY <3>1, <3>2
    <3> QED BY <2>1, <3>3 DEF Runs
  <2>3. g[0] = start
    BY <2>1 DEF Runs
  <2>4. ASSUME NEW k \in 1..m
        PROVE  g[k] = step[k][g[k-1]]
    <3>1. CASE k = m
      <4>1. g[m] = step[m][f[m-1]] /\ g[m-1] = f[m-1]
        OBVIOUS
      <4> HIDE DEF g
      <4> QED BY <3>1, <4>1
    <3>2. CASE k # m
      <4>1. k \in 1..m-1
        BY <3>2
      <4>2. g[k] = f[k] /\ g[k-1] = f[k-1] /\ f[k] = step[k][f[k-1]]
        BY <2>1, <4>1 DEF Runs
      <4> HIDE DEF g
      <4> QED BY <4>2
    <3> QED BY <3>1, <3>2
  <2> HIDE DEF g
  <2>5. Runs(g, T, start, m, step)
    BY <2>2, <2>3, <2>4 DEF Runs
  <2>6. m \in 0..n /\ \E h : Runs(h, T, start, m, step)
    BY <2>5
  <2> QED BY <2>6
<1>3. n \in S
  <2>1. \A k \in 1..n : k - 1 \in S => k \in S
    BY <1>2
  <2> HIDE DEF S
  <2>2. \A k \in 0..n : k \in S
    BY <1>1, <2>1, Induction
  <2> QED BY <2>2
<1> QED BY <1>3

LEMMA UpToCounted ==
  ASSUME NEW n \in Nat
  PROVE  IsFiniteSet(1 .. n) /\ Cardinality(1 .. n) = n
BY FS_Interval

(* A set of numbers that is bounded has a greatest element: the least of its  *)
(* upper bounds is one of them.                                               *)
LEMMA GreatestExists ==
  ASSUME NEW S \in SUBSET Nat, NEW b \in Nat, S # {}, \A x \in S : x <= b
  PROVE  Max(S) \in S /\ \A x \in S : x <= Max(S)
<1> DEFINE U == {u \in Nat : \A x \in S : x <= u}
<1>1. b \in U
  OBVIOUS
<1>2. PICK u \in U : \A v \in U : u <= v
  <2>1. U \subseteq Nat /\ U # {}
    BY <1>1
  <2> HIDE DEF U
  <2> QED BY <2>1, LeastExists
<1>3. u \in Nat /\ \A x \in S : x <= u
  OBVIOUS
<1>4. u \in S
  <2>1. SUFFICES ASSUME u \notin S PROVE FALSE
    OBVIOUS
  <2>2. PICK x \in S : x <= u /\ x # u
    BY <2>1
  <2>3. u - 1 \in Nat /\ \A y \in S : y <= u - 1
    BY <2>1, <2>2
  <2> QED BY <1>2, <2>3
<1>5. \A x \in S : u >= x
  BY <1>3
<1>6. \E m \in S : \A x \in S : m >= x
  BY <1>4, <1>5
<1> QED BY <1>6 DEF Max

(* In a finite set that a relation orders strictly, an element has fewer      *)
(* elements before it than the set has, and no two have equally many.         *)
LEMMA RanksDiffer ==
  ASSUME NEW S, IsFiniteSet(S), NEW R,
         \A u \in S : <<u, u>> \notin R,
         \A u, v, w \in S : <<u, v>> \in R /\ <<v, w>> \in R => <<u, w>> \in R,
         \A u, v \in S : u = v \/ <<u, v>> \in R \/ <<v, u>> \in R
  PROVE  \A u \in S :
            /\ Cardinality({x \in S : <<x, u>> \in R}) \in 0 .. Cardinality(S) - 1
            /\ \A v \in S : Cardinality({x \in S : <<x, u>> \in R}) = Cardinality({x \in S : <<x, v>> \in R}) => u = v
<1> DEFINE B(u) == {x \in S : <<x, u>> \in R}
           C(u) == B(u) \cup {u}
<1>1. ASSUME NEW u \in S
      PROVE  IsFiniteSet(B(u)) /\ Cardinality(B(u)) \in Nat /\ Cardinality(C(u)) = Cardinality(B(u)) + 1
  <2>1. B(u) \in SUBSET S /\ u \notin B(u)
    OBVIOUS
  <2> HIDE DEF B
  <2>2. IsFiniteSet(B(u)) /\ Cardinality(B(u)) \in Nat
    BY <2>1, FS_Subset, FS_CardinalityType
  <2> QED BY <2>1, <2>2, FS_AddElement
<1>2. ASSUME NEW u \in S
      PROVE  Cardinality(B(u)) \in 0 .. Cardinality(S) - 1
  <2>1. C(u) \in SUBSET S
    OBVIOUS
  <2> HIDE DEF B, C
  <2>2. Cardinality(C(u)) <= Cardinality(S) /\ Cardinality(S) \in Nat
    BY <2>1, FS_Subset, FS_CardinalityType
  <2> QED BY <1>1, <2>2
<1>3. ASSUME NEW u \in S, NEW v \in S, <<u, v>> \in R
      PROVE  Cardinality(B(u)) < Cardinality(B(v))
  <2>1. C(u) \in SUBSET B(v)
    BY <1>3
  <2>2. IsFiniteSet(B(v)) /\ Cardinality(B(v)) \in Nat
    BY <1>1
  <2> HIDE DEF B, C
  <2>3. Cardinality(C(u)) <= Cardinality(B(v))
    BY <2>1, <2>2, FS_Subset
  <2>4. Cardinality(B(u)) \in Nat /\ Cardinality(C(u)) = Cardinality(B(u)) + 1
    BY <1>1
  <2> QED BY <2>2, <2>3, <2>4
<1>4. ASSUME NEW u \in S, NEW v \in S, Cardinality(B(u)) = Cardinality(B(v))
      PROVE  u = v
  <2>1. Cardinality(B(u)) \in Nat
    BY <1>1
  <2> HIDE DEF B, C
  <2>2. ~(<<u, v>> \in R) /\ ~(<<v, u>> \in R)
    BY <1>3, <1>4, <2>1
  <2> QED BY <2>2
<1> QED BY <1>2, <1>4

(* Every place from one to the number of elements is then taken.              *)
LEMMA RanksFilled ==
  ASSUME NEW S, IsFiniteSet(S), NEW R,
         \A u \in S : <<u, u>> \notin R,
         \A u, v, w \in S : <<u, v>> \in R /\ <<v, w>> \in R => <<u, w>> \in R,
         \A u, v \in S : u = v \/ <<u, v>> \in R \/ <<v, u>> \in R
  PROVE  \A n \in 1 .. Cardinality(S) : \E u \in S : Cardinality({x \in S : <<x, u>> \in R}) = n - 1
<1> DEFINE C(u) == Cardinality({x \in S : <<x, u>> \in R})
           T == 1 .. Cardinality(S)
           f == [u \in S |-> C(u) + 1]
<1>1. Cardinality(S) \in Nat
  BY FS_CardinalityType
<1>2. \A u \in S : C(u) \in 0 .. Cardinality(S) - 1 /\ \A v \in S : C(u) = C(v) => u = v
  BY RanksDiffer
<1> HIDE DEF C
<1>3. f \in [S -> T]
  BY <1>1, <1>2
<1>4. \A u, v \in S : f[u] = f[v] => u = v
  BY <1>1, <1>2
<1>5. IsFiniteSet(T) /\ Cardinality(T) = Cardinality(S)
  BY <1>1, FS_Interval
<1>6. f \in Injection(S, T)
  <2> HIDE DEF f, T
  <2> QED BY <1>3, <1>4 DEF Injection, IsInjective
<1>7. f \in Surjection(S, T)
  <2> HIDE DEF f, T
  <2> QED BY <1>5, <1>6, FS_Injection
<1>8. ASSUME NEW n \in T
      PROVE  \E u \in S : C(u) = n - 1
  <2>1. PICK u \in S : f[u] = n
    BY <1>7 DEF Surjection
  <2> QED BY <1>1, <1>2, <2>1
<1> QED BY <1>8 DEF C

(* Numbers enumerated upwards: each has a place, and every place a number.    *)
LEMMA Ascends ==
  ASSUME NEW S \in SUBSET Nat, IsFiniteSet(S)
  PROVE  LET f == [n \in 1 .. Cardinality(S) |-> CHOOSE i \in S : Cardinality({j \in S : j < i}) = n - 1]
         IN  /\ f \in [1 .. Cardinality(S) -> S] /\ Cardinality(S) \in Nat
             /\ \A i \in S : \E n \in 1 .. Cardinality(S) : f[n] = i
             /\ \A m, n \in 1 .. Cardinality(S) : m < n => f[m] < f[n]
<1> DEFINE C(i) == Cardinality({j \in S : j < i})
           f == [n \in 1 .. Cardinality(S) |-> CHOOSE i \in S : C(i) = n - 1]
           R == {p \in S \X S : p[1] < p[2]}
           D(i) == Cardinality({j \in S : <<j, i>> \in R})
<1>1. Cardinality(S) \in Nat
  BY FS_CardinalityType
<1>2. \A i \in S : {j \in S : <<j, i>> \in R} = {j \in S : j < i}
  OBVIOUS
<1>3. \A i \in S : <<i, i>> \notin R
  OBVIOUS
<1>4. \A i, j, k \in S : <<i, j>> \in R /\ <<j, k>> \in R => <<i, k>> \in R
  OBVIOUS
<1>5. \A i, j \in S : i = j \/ <<i, j>> \in R \/ <<j, i>> \in R
  OBVIOUS
<1> HIDE DEF R
<1>6. \A n \in 1 .. Cardinality(S) : \E i \in S : D(i) = n - 1
  BY <1>3, <1>4, <1>5, RanksFilled
<1>7. \A i \in S : D(i) \in 0 .. Cardinality(S) - 1 /\ \A j \in S : D(i) = D(j) => i = j
  BY <1>3, <1>4, <1>5, RanksDiffer
<1>8. \A i \in S : C(i) = D(i)
  BY <1>2
<1> HIDE DEF C, D
<1>9. \A n \in 1 .. Cardinality(S) : f[n] \in S /\ C(f[n]) = n - 1
  BY <1>6, <1>8
<1>10. ASSUME NEW i \in S
       PROVE  \E n \in 1 .. Cardinality(S) : f[n] = i
  <2>1. C(i) + 1 \in 1 .. Cardinality(S) /\ (C(i) + 1) - 1 = C(i)
    BY <1>1, <1>7, <1>8
  <2>2. f[C(i) + 1] \in S /\ C(f[C(i) + 1]) = C(i)
    BY <1>9, <2>1
  <2>3. f[C(i) + 1] = i
    BY ZenonT(40), <1>7, <1>8, <2>2
  <2> QED BY <2>1, <2>3
<1>11. ASSUME NEW m \in 1 .. Cardinality(S), NEW n \in 1 .. Cardinality(S), m < n
       PROVE  f[m] < f[n]
  <2>1. f[m] \in S /\ f[n] \in S /\ C(f[m]) = m - 1 /\ C(f[n]) = n - 1
    BY <1>9
  <2>2. PICK a, b : a = f[m] /\ b = f[n]
    OBVIOUS
  <2>3. a \in Nat /\ b \in Nat /\ C(a) = m - 1 /\ C(b) = n - 1
    BY <2>1, <2>2
  <2>4. SUFFICES ASSUME b <= a PROVE FALSE
    <3> HIDE DEF f
    <3> QED BY <2>2, <2>3
  <2> DEFINE A == {j \in S : j < b}
             B == {j \in S : j < a}
  <2>5. A \in SUBSET B /\ B \in SUBSET S
    <3>1. \A j \in S : j \in Nat /\ (j < b => j < a)
      BY <2>3, <2>4
    <3> HIDE DEF f, C
    <3> QED BY <3>1
  <2>6. C(b) = Cardinality(A) /\ C(a) = Cardinality(B)
    BY DEF C
  <2> HIDE DEF A, B
  <2>7. IsFiniteSet(B) /\ Cardinality(A) <= Cardinality(B)
    BY <2>5, FS_Subset
  <2> QED BY <1>1, <1>11, <2>3, <2>6, <2>7
<1>12. f \in [1 .. Cardinality(S) -> S]
  BY <1>9
<1> HIDE DEF f
<1>13. /\ f \in [1 .. Cardinality(S) -> S] /\ Cardinality(S) \in Nat
       /\ \A i \in S : \E n \in 1 .. Cardinality(S) : f[n] = i
       /\ \A m, n \in 1 .. Cardinality(S) : m < n => f[m] < f[n]
  BY <1>1, <1>10, <1>11, <1>12
<1> QED BY <1>13 DEF f, C

(* A finite set of numbers has a greatest element: the last one upwards.      *)
LEMMA FiniteGreatest ==
  ASSUME NEW S \in SUBSET Nat, IsFiniteSet(S), S # {}
  PROVE  \E b \in S : \A x \in S : x <= b
<1> DEFINE c == Cardinality(S)
           f == [n \in 1 .. c |-> CHOOSE i \in S : Cardinality({j \in S : j < i}) = n - 1]
<1>1. /\ f \in [1 .. c -> S] /\ c \in Nat /\ \A i \in S : \E n \in 1 .. c : f[n] = i
      /\ \A m, n \in 1 .. c : m < n => f[m] < f[n]
  BY Ascends
<1> HIDE DEF c, f
<1>2. PICK k \in 1 .. c : f[k] \in S
  BY <1>1
<1>3. c \in 1 .. c /\ f[c] \in S
  BY <1>1, <1>2
<1>4. ASSUME NEW x \in S PROVE x <= f[c]
  <2>1. PICK n \in 1 .. c : f[n] = x
    BY <1>1
  <2>2. f[n] \in Nat /\ f[c] \in Nat /\ (n < c => f[n] < f[c]) /\ (n = c \/ n < c)
    <3>1. f[n] \in S /\ f[c] \in S
      BY <1>3, <2>1
    <3>2. n < c => f[n] < f[c]
      BY <1>1, <1>3
    <3>3. n = c \/ n < c
      BY <1>1
    <3> QED BY <3>1, <3>2, <3>3
  <2>3. CASE n = c
    BY <2>1, <2>2, <2>3
  <2>4. CASE n < c
    BY <2>1, <2>2, <2>4
  <2> QED BY <2>2, <2>3, <2>4
<1> QED BY <1>3, <1>4

(* Lists: a sequence of what it holds.                                        *)
IsList(s) == s \in Seq(Range(s))
LEMMA ListIs ==
  ASSUME NEW s, IsList(s)
  PROVE  Len(s) \in Nat /\ DOMAIN s = 1 .. Len(s)
BY LenProperties DEF IsList

LEMMA IsListFrom ==
  ASSUME NEW s, NEW n \in Nat, DOMAIN s = 1 .. n, s = [k \in 1 .. n |-> s[k]]
  PROVE  IsList(s) /\ Len(s) = n
<1>1. s \in [1 .. n -> Range(s)]
  BY DEF Range
<1>2. s \in Seq(Range(s))
  BY <1>1, SeqDef
<1> QED BY <1>2, LenProperties DEF IsList

LEMMA ListOf ==
  ASSUME NEW X, NEW s \in Seq(X)
  PROVE  IsList(s)
<1>1. Len(s) \in Nat /\ DOMAIN s = 1 .. Len(s) /\ s = [k \in 1 .. Len(s) |-> s[k]]
  BY LenProperties
<1> QED BY <1>1, IsListFrom

LEMMA EmptyList == IsList(<<>>) /\ Len(<<>>) = 0 /\ DOMAIN <<>> = {} /\ Range(<<>>) = {}
<1>1. DOMAIN <<>> = {} /\ Len(<<>>) = 0
  BY EmptySeq
<1>2. Range(<<>>) = {}
  BY <1>1 DEF Range
<1> QED BY <1>1, <1>2, EmptySeq DEF IsList

LEMMA OneList ==
  ASSUME NEW x
  PROVE  IsList(<<x>>) /\ Len(<<x>>) = 1 /\ DOMAIN <<x>> = {1} /\ <<x>>[1] = x /\ Range(<<x>>) = {x}
<1>1. <<x>> \in Seq({x}) /\ Len(<<x>>) = 1 /\ <<x>>[1] = x
  OBVIOUS
<1>2. DOMAIN <<x>> = {1}
  BY <1>1, LenProperties
<1> QED BY <1>1, <1>2, ListOf DEF Range

LEMMA ListWithin ==
  ASSUME NEW s, IsList(s), NEW X, Range(s) \subseteq X
  PROVE  s \in Seq(X)
<1>1. s \in [1 .. Len(s) -> X] /\ Len(s) \in Nat
  BY LenProperties DEF IsList
<1> QED BY <1>1, SeqDef

LEMMA ListJoined ==
  ASSUME NEW a, NEW b, IsList(a), IsList(b)
  PROVE  /\ IsList(a \o b) /\ Len(a \o b) = Len(a) + Len(b)
         /\ Range(a \o b) = Range(a) \cup Range(b)
         /\ \A k \in DOMAIN a : k \in DOMAIN (a \o b) /\ (a \o b)[k] = a[k]
         /\ \A k \in DOMAIN b : Len(a) + k \in DOMAIN (a \o b) /\ (a \o b)[Len(a) + k] = b[k]
<1> DEFINE X == Range(a) \cup Range(b)
           c == a \o b
<1>1. a \in Seq(X) /\ b \in Seq(X)
  BY ListWithin
<1>2. Len(a) \in Nat /\ DOMAIN a = 1 .. Len(a) /\ Len(b) \in Nat /\ DOMAIN b = 1 .. Len(b)
  BY ListIs
<1> HIDE DEF X
<1>3. /\ c \in Seq(X) /\ Len(c) = Len(a) + Len(b)
      /\ \A i \in 1 .. Len(a) + Len(b) : c[i] = IF i <= Len(a) THEN a[i] ELSE b[i - Len(a)]
  BY <1>1, ConcatProperties
<1> HIDE DEF c
<1>4. IsList(c) /\ DOMAIN c = 1 .. Len(a) + Len(b)
  BY <1>3, ListOf, LenProperties
<1>5. ASSUME NEW k \in DOMAIN a PROVE k \in DOMAIN c /\ c[k] = a[k]
  <2>1. k \in 1 .. Len(a) + Len(b) /\ k <= Len(a)
    BY <1>2
  <2> QED BY <1>3, <1>4, <2>1
<1>6. ASSUME NEW k \in DOMAIN b PROVE Len(a) + k \in DOMAIN c /\ c[Len(a) + k] = b[k]
  <2>1. Len(a) + k \in 1 .. Len(a) + Len(b) /\ ~(Len(a) + k <= Len(a)) /\ Len(a) + k - Len(a) = k
    BY <1>2
  <2> QED BY <1>3, <1>4, <2>1
<1>7. \A k \in DOMAIN c : (k \in DOMAIN a /\ c[k] = a[k]) \/ (k - Len(a) \in DOMAIN b /\ c[k] = b[k - Len(a)])
  BY <1>2, <1>3, <1>4
<1>8. Range(c) = Range(a) \cup Range(b)
  BY <1>5, <1>6, <1>7 DEF Range
<1> QED BY <1>3, <1>4, <1>5, <1>6, <1>8 DEF c

LEMMA ListAppended ==
  ASSUME NEW a, IsList(a), NEW x
  PROVE  /\ IsList(Append(a, x)) /\ Len(Append(a, x)) = Len(a) + 1
         /\ Range(Append(a, x)) = Range(a) \cup {x}
         /\ Append(a, x)[Len(a) + 1] = x /\ \A k \in DOMAIN a : Append(a, x)[k] = a[k]
<1> DEFINE X == Range(a) \cup {x}
           c == Append(a, x)
<1>1. a \in Seq(X) /\ x \in X
  BY ListWithin
<1>2. Len(a) \in Nat /\ DOMAIN a = 1 .. Len(a)
  BY ListIs
<1> HIDE DEF X
<1>3. c \in Seq(X) /\ Len(c) = Len(a) + 1 /\ c[Len(a) + 1] = x /\ \A k \in 1 .. Len(a) : c[k] = a[k]
  BY <1>1, AppendProperties
<1> HIDE DEF c
<1>4. IsList(c) /\ DOMAIN c = 1 .. Len(a) + 1
  BY <1>3, ListOf, LenProperties
<1>5. Range(c) = Range(a) \cup {x}
  <2>1. \A k \in 1 .. Len(a) + 1 : k \in DOMAIN a \/ k = Len(a) + 1
    BY <1>2
  <2>2. Len(a) + 1 \in DOMAIN c /\ \A k \in DOMAIN a : k \in DOMAIN c
    BY <1>2, <1>4
  <2> QED BY <1>2, <1>3, <1>4, <2>1, <2>2 DEF Range
<1> QED BY <1>2, <1>3, <1>4, <1>5 DEF c

LEMMA ListChanged ==
  ASSUME NEW a, IsList(a), NEW p, NEW x
  PROVE  /\ IsList([a EXCEPT ![p] = x]) /\ DOMAIN [a EXCEPT ![p] = x] = DOMAIN a
         /\ Len([a EXCEPT ![p] = x]) = Len(a)
         /\ \A k \in DOMAIN a : [a EXCEPT ![p] = x][k] = IF k = p THEN x ELSE a[k]
<1> DEFINE c == [a EXCEPT ![p] = x]
<1>1. Len(a) \in Nat /\ DOMAIN a = 1 .. Len(a) /\ a \in [1 .. Len(a) -> Range(a)]
  BY LenProperties DEF IsList
<1>2. DOMAIN c = 1 .. Len(a) /\ c = [k \in 1 .. Len(a) |-> c[k]] /\ \A k \in 1 .. Len(a) : c[k] = IF k = p THEN x ELSE a[k]
  BY <1>1
<1> HIDE DEF c
<1>3. IsList(c) /\ Len(c) = Len(a)
  BY <1>1, <1>2, IsListFrom
<1> QED BY <1>1, <1>2, <1>3 DEF c

LEMMA RangeFinite ==
  ASSUME NEW s, IsList(s)
  PROVE  IsFiniteSet(Range(s)) /\ Cardinality(Range(s)) \in Nat
<1>1. s \in [1 .. Len(s) -> Range(s)] /\ Len(s) \in Nat /\ DOMAIN s = 1 .. Len(s)
  BY LenProperties DEF IsList
<1>2. s \in Surjection(1 .. Len(s), Range(s))
  BY <1>1 DEF Surjection, Range
<1>3. IsFiniteSet(1 .. Len(s))
  BY <1>1, UpToCounted
<1> QED BY <1>2, <1>3, FS_Surjection, FS_CardinalityType

(* The values of such a function, one set of possible ones per step: they     *)
(* exist when each step leads from one set into the next, and any function    *)
(* that takes the same steps stays in the sets.                               *)
Leads(T, X, n, step) ==
    /\ \A k \in 0 .. n : T[k] \in SUBSET X
    /\ \A k \in 1 .. n : \A s \in T[k - 1] : step[k][s] \in T[k]
Steps(g, T, start, n, step) ==
    /\ g = [k \in 0 .. n |-> g[k]] /\ g[0] = start
    /\ \A k \in 1 .. n : g[k - 1] \in T[k - 1] /\ g[k] = step[k][g[k - 1]]
LEMMA Unfolding ==
  ASSUME NEW n \in Nat, NEW X, NEW T, NEW start, start \in T[0], NEW step, Leads(T, X, n, step)
  PROVE  \E g : Steps(g, T, start, n, step)
<1> DEFINE move == [k \in 1 .. n |-> [s \in X |-> IF s \in T[k - 1] THEN step[k][s] ELSE s]]
<1>1. move \in [1 .. n -> [X -> X]]
  <2>1. ASSUME NEW k \in 1 .. n, NEW s \in X PROVE (IF s \in T[k - 1] THEN step[k][s] ELSE s) \in X
    <3>1. k \in 0 .. n
      OBVIOUS
    <3> QED BY <3>1 DEF Leads
  <2> QED BY <2>1
<1>2. start \in X
  BY DEF Leads
<1> HIDE DEF move
<1>3. PICK g : Runs(g, X, start, n, move)
  BY <1>1, <1>2, RecursionExists
<1> DEFINE S == {k \in 0 .. n : g[k] \in T[k]}
<1>4. ASSUME NEW k \in 1 .. n, k - 1 \in S
      PROVE  k \in S /\ g[k] = step[k][g[k - 1]]
  <2>1. g[k - 1] \in T[k - 1] /\ k - 1 \in 0 .. n /\ k \in 0 .. n
    BY <1>4
  <2>2. g[k] = move[k][g[k - 1]] /\ g[k - 1] \in X
    BY <1>3, <2>1 DEF Runs
  <2>3. move[k][g[k - 1]] = step[k][g[k - 1]]
    BY <2>1, <2>2 DEF move
  <2>4. step[k][g[k - 1]] \in T[k]
    BY <2>1 DEF Leads
  <2> QED BY <2>1, <2>2, <2>3, <2>4
<1>5. 0 \in S
  BY <1>3 DEF Runs
<1>6. \A k \in 0 .. n : k \in S
  <2> HIDE DEF S
  <2> QED BY <1>4, <1>5, Induction
<1>7. \A k \in 1 .. n : k - 1 \in 0 .. n
  OBVIOUS
<1>8. g = [k \in 0 .. n |-> g[k]] /\ g[0] = start
  BY <1>3 DEF Runs
<1>9. \A k \in 1 .. n : g[k - 1] \in T[k - 1] /\ g[k] = step[k][g[k - 1]]
  BY <1>4, <1>6, <1>7
<1> QED BY <1>8, <1>9 DEF Steps

LEMMA Unfolded ==
  ASSUME NEW n \in Nat, NEW T, NEW h, h[0] \in T[0],
         \A k \in 1 .. n : h[k - 1] \in T[k - 1] => h[k] \in T[k]
  PROVE  \A k \in 0 .. n : h[k] \in T[k]
<1> DEFINE S == {k \in 0 .. n : h[k] \in T[k]}
<1>1. ASSUME NEW k \in 1 .. n, k - 1 \in S
      PROVE  k \in S
  BY <1>1
<1>2. 0 \in S
  OBVIOUS
<1>3. \A k \in 0 .. n : k \in S
  <2> HIDE DEF S
  <2> QED BY <1>1, <1>2, Induction
<1> QED BY <1>3
=============================================================================
